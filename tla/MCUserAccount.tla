---------------------------- MODULE MCUserAccount ----------------------------
(* Two requests at a time on one account, with a limit of two attempts. *)
EXTENDS UserAccount

CONSTANTS r1, r2, old, new

TwoRequests  == {r1, r2}
TwoPasswords == {old, new}
==============================================================================
