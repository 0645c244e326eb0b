----------------------- MODULE MCReleaseVerification -----------------------
(***************************************************************************)
(* Instances of ReleaseVerification for TLC.  Handlers and workers are     *)
(* interchangeable model values; symmetry is used in the runs that check   *)
(* no liveness property.                                                   *)
(***************************************************************************)
EXTENDS ReleaseVerification, TLC

CONSTANTS h1, h2, w1, w2, a1

TwoHandlers == {h1, h2}
OneHandler  == {h1}
TwoWorkers  == {w1, w2}
OneWorker   == {w1}
OneArtifact == {a1}

Symmetry == Permutations(TwoHandlers)

\* The operations that race on the status of one release.
RaceOps == {"launch", "sweep", "cancel", "rename", "archive", "delete"}

\* The operations whose effect a crash may cut in two, and those that pull
\* the release, its artifacts or its profile away from under a worker.
FaultOps == {"launch", "sweep", "cancel", "delete", "artifacts", "profile"}

\* The operations that leave no release behind in EN_VERIFICACION; archival is
\* among them as a status set by hand.  Two are left out: a PATCH that writes a
\* stale status back, and the deletion of the profile in use.
KeepStatusOps == {"launch", "sweep", "cancel", "setstatus", "restore"}
=============================================================================
