------------------------ MODULE MCOrganizationSettings ------------------------
(* Two requests, two names, and one row more than the keys a user may have.  *)
EXTENDS OrganizationSettings

CONSTANTS r1, r2, i1, i2, i3, n1, n2

TwoRequests == {r1, r2}
ThreeIds    == {i1, i2, i3}
TwoNames    == {n1, n2}
===============================================================================
