---------------------------- MODULE ReleaseLedger ----------------------------
(***************************************************************************)
(* What the release component promises its readers, whatever handlers and  *)
(* workers race below: a release lives until it is deleted; verdicts are   *)
(* issued and never withdrawn; and the status it shows is a verdict only   *)
(* if that verdict has been issued for it.  ReleaseVerification implements *)
(* this specification with its result table as the ledger.                 *)
(***************************************************************************)
CONSTANTS
    Verdicts,    \* statuses that state a verdict
    OtherStatus, \* the statuses that do not
    Fresh        \* the status of a new release, one of OtherStatus

VARIABLES live, shown, ledger

vars == <<live, shown, ledger>>

Init ==
    /\ live = TRUE
    /\ shown = Fresh
    /\ ledger = {}

\* A worker saves a result.
Issue(v) ==
    /\ live
    /\ ledger' = ledger \union {v}
    /\ UNCHANGED <<live, shown>>

\* Somebody writes the status.
Show(s) ==
    /\ live
    /\ s \in Verdicts => s \in ledger
    /\ shown' = s
    /\ UNCHANGED <<live, ledger>>

\* The release is deleted with its results.
Erase ==
    /\ live
    /\ live' = FALSE
    /\ ledger' = {}
    /\ shown' = Fresh

Next ==
    \/ \E v \in Verdicts : Issue(v)
    \/ \E s \in Verdicts \union OtherStatus : Show(s)
    \/ Erase

Spec == Init /\ [][Next]_vars
=============================================================================
