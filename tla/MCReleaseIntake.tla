--------------------------- MODULE MCReleaseIntake ---------------------------
(* Two requests at a time, two connector ids, two tags and a branch. *)
EXTENDS ReleaseIntake

CONSTANTS r1, r2, c1, c2, alien, k1, k2

TwoRequests    == {r1, r2}
TwoConnectors  == {c1, c2}
OneForeign     == {alien}
TwoCredentials == {k1, k2}
SomeRefs       == {"v1", "latest", "main"}
Ref(c, there)  == [conn |-> c, there |-> there]
OfNobody   == {Ref(alien, TRUE)} \cup {Ref(c, FALSE) : c \in TwoConnectors}
Lists      == {<<Ref(c, TRUE), Ref(c, FALSE)>> : c \in TwoConnectors}
==============================================================================
