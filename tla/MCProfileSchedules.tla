------------------------- MODULE MCProfileSchedules -------------------------
(* Instances of ProfileSchedules for TLC.                                  *)
EXTENDS ProfileSchedules

CONSTANTS p1, p2, h1, h2, s1

TwoProfiles == {p1, p2}
OneHandler  == {h1}
TwoHandlers == {h1, h2}
OneSweeper  == {s1}
NoSweepers  == {}
=============================================================================
