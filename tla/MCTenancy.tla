------------------------------ MODULE MCTenancy ------------------------------
(* Two requests at a time, three accounts and two organizations. *)
EXTENDS Tenancy

CONSTANTS r1, r2, ana, ben, eva, acme, umbra

TwoRequests == {r1, r2}
People      == {ana, ben, eva}
Companies   == {acme, umbra}
Symmetry    == Permutations(TwoRequests) \cup Permutations(People)
               \cup Permutations(Companies)
==============================================================================
