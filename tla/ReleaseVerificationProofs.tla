---------------------- MODULE ReleaseVerificationProofs ----------------------
(***************************************************************************)
(* Theorems about ReleaseVerification for any number of handlers, workers, *)
(* artifacts, launches and faults and any choice of operations.            *)
(***************************************************************************)
EXTENDS ReleaseVerification, TLAPS

-----------------------------------------------------------------------------
(* Type correctness.  TypeOK is not inductive: a handler or worker writes  *)
(* what it has read, so what it must have read by each step is added.      *)

LaunchPcs == {"l_park", "l_mark", "l_enqueue", "l_store"}

PcOK ==
    /\ \A h \in Handlers :
          /\ pc[h] \in {"l_park", "c_revoke", "c_status", "c_clear", "u_write"}
                => local[h].status # None
          /\ pc[h] \in LaunchPcs => local[h].task # NoTask
    /\ \A w \in Workers :
          /\ wpc[w] # "idle" => work[w].task # NoTask
          /\ wpc[w] \in {"save", "status", "notify"} => work[w].verdict # None

TypeInv == TypeOK /\ PcOK

LEMMA NoneIsNoStatus == None \notin Statuses /\ None \notin Verdicts
BY DEF None, Statuses, Launchable, Verdicts

LEMMA NoTaskIsNoId == NoTask \notin TaskIds
BY BoundsAssumption DEF NoTask, TaskIds

LEMMA StatusSubsets ==
    /\ Launchable \subseteq Statuses
    /\ Verdicts \subseteq Launchable
    /\ Manual \subseteq Statuses
    /\ Positive \subseteq Verdicts
BY DEF Launchable, Statuses, Verdicts, Manual, Positive

LEMMA TypeInit == Init => TypeInv
<1> SUFFICES ASSUME Init PROVE TypeInv
    OBVIOUS
<1> USE BoundsAssumption DEF Init, NoLocal, NoWork, LaunchPcs
<1>1. TypeOK
      BY DEF TypeOK, Statuses, Launchable, Verdicts, TaskIds, NoTask, None, Local, Work,
             Result, Triggers, HandlerPcs, WorkerPcs
<1>2. PcOK
      BY DEF PcOK
<1>3. QED BY <1>1, <1>2 DEF TypeInv

\* The steps of an API handler preserve the type invariant.
LEMMA TypeHandler ==
    ASSUME TypeInv, NEW h \in Handlers,
           HandlerStep(h) \/ Request(h) \/ HandlerAborts(h)
    PROVE  TypeInv'
<1> USE BoundsAssumption, NoneIsNoStatus, NoTaskIsNoId, StatusSubsets
    DEF TypeInv, TypeOK, PcOK, Local, HandlerPcs, LaunchPcs, row, api, queue, wrk,
        Goto, Return, NoLocal
<1>1. CASE SweepPick(h)
      <2>1. local' \in [Handlers -> Local]
            <3>1. local \in [Handlers -> Local]
                  OBVIOUS
            <3> HIDE DEF TypeInv, TypeOK, PcOK
            <3>2. QED BY <1>1, <3>1 DEF SweepPick, Triggers
      <2>2. TypeOK'
            BY <1>1, <2>1 DEF SweepPick
      <2>3. PcOK'
            BY <1>1 DEF SweepPick
      <2>4. QED BY <2>2, <2>3
<1>2. CASE Launch(h)
      <2>1. launches + 1 \in TaskIds /\ launches + 1 \in 0..MaxLaunches
            BY <1>2 DEF Launch, TaskIds
      <2>2. status \in Statuses /\ status # None
            OBVIOUS
      <2>3. local' \in [Handlers -> Local]
            <3>1. local \in [Handlers -> Local]
                  OBVIOUS
            <3> HIDE DEF TypeInv, TypeOK, PcOK
            <3>2. local' = [local EXCEPT ![h] = [local[h] EXCEPT !.status = status,
                                                                 !.task = launches + 1]]
                  BY <1>2, <3>1 DEF Launch
            <3>3. [local[h] EXCEPT !.status = status, !.task = launches + 1] \in Local
                  BY <2>1, <2>2, <3>1
            <3>4. QED BY <3>1, <3>2, <3>3
      <2>4. TypeOK'
            BY <1>2, <2>1, <2>3 DEF Launch
      <2>5. PcOK'
            BY <1>2, <2>1, <2>2 DEF Launch
      <2>6. QED BY <2>4, <2>5
<1>3. CASE SkipLaunch(h)
      BY <1>3 DEF SkipLaunch, Triggers
<1>4. CASE ParkPrevious(h)
      <2>1. local[h].status \in Statuses \union {None} /\ pc' \in [Handlers -> HandlerPcs]
            BY <1>4 DEF ParkPrevious
      <2>2. TypeOK'
            BY <1>4, <2>1 DEF ParkPrevious, Triggers
      <2>3. PcOK'
            BY <1>4 DEF ParkPrevious, Triggers
      <2>4. QED BY <2>2, <2>3
<1>5. CASE MarkRunning(h)
      BY <1>5 DEF MarkRunning, update_status, Statuses
<1>6. CASE Enqueue(h)
      BY <1>6 DEF Enqueue
<1>7. CASE StoreTask(h)
      BY <1>7 DEF StoreTask, Triggers
<1>8. CASE Cancel(h)
      <2> DEFINE target == IF previousStatus = None THEN "PENDIENTE" ELSE previousStatus
      <2>1. target \in Statuses /\ target # None
            BY DEF Statuses, Launchable, None
      <2>2. local' = [local EXCEPT ![h].task = pendingTask, ![h].status = target]
            BY <1>8 DEF Cancel
      <2>3. local' \in [Handlers -> Local]
            <3>1. local \in [Handlers -> Local] /\ pendingTask \in TaskIds \union {NoTask}
                  OBVIOUS
            <3> HIDE DEF TypeInv, TypeOK, PcOK
            <3>2. QED BY <2>1, <2>2, <3>1
      <2>4. TypeOK'
            BY <1>8, <2>3 DEF Cancel
      <2>5. PcOK'
            BY <1>8, <2>1, <2>2 DEF Cancel
      <2>6. QED BY <2>4, <2>5
<1>9. CASE Revoke(h)
      BY <1>9 DEF Revoke
<1>10. CASE RevertStatus(h)
      BY <1>10 DEF RevertStatus, update_status
<1>11. CASE ClearTask(h)
      BY <1>11 DEF ClearTask, Triggers
<1>12. CASE Rename(h)
      BY <1>12 DEF Rename
<1>13. CASE SetStatus(h)
      BY <1>13 DEF SetStatus
<1>14. CASE Restore(h)
      <2>1. "BORRADOR" \in Statuses /\ "BORRADOR" # None
            BY DEF Statuses, Launchable, None
      <2>2. QED BY <1>14, <2>1 DEF Restore
<1>15. CASE WriteRow(h)
      BY <1>15 DEF WriteRow, Triggers
<1>16. CASE HandlerAborts(h)
      BY <1>16 DEF HandlerAborts, Fault, Triggers
<1>17. QED
      BY <1>1, <1>2, <1>3, <1>4, <1>5, <1>6, <1>7, <1>8, <1>9, <1>10, <1>11, <1>12, <1>13,
         <1>14, <1>15, <1>16 DEF HandlerStep, Request

\* The writes of the API that take a single commit.
LEMMA TypeApi ==
    ASSUME TypeInv, Archive \/ Delete \/ AddArtifact \/ RemoveArtifact \/ DeleteProfile
    PROVE  TypeInv'
<1> USE BoundsAssumption, NoTaskIsNoId
    DEF TypeInv, TypeOK, PcOK, row, api, queue, wrk
<1>1. CASE Archive
      BY <1>1 DEF Archive, Statuses
<1>2. CASE Delete
      <2>1. results' \in Seq(Result)
            BY <1>2 DEF Delete
      <2>2. status' \in Statuses /\ exists' \in BOOLEAN /\ artifacts' \subseteq Artifacts
            BY <1>2 DEF Delete, Statuses, Launchable
      <2>3. QED BY <1>2, <2>1, <2>2 DEF Delete
<1>3. CASE AddArtifact
      BY <1>3 DEF AddArtifact
<1>4. CASE RemoveArtifact
      BY <1>4 DEF RemoveArtifact
<1>5. CASE DeleteProfile
      BY <1>5 DEF DeleteProfile
<1>6. QED BY <1>1, <1>2, <1>3, <1>4, <1>5

LEMMA TypeDiscard ==
    ASSUME TypeInv, Discard
    PROVE  TypeInv'
BY DEF TypeInv, TypeOK, PcOK, row, api, queue, wrk, Discard

\* A worker that settles its task is idle afterwards; the others are as before.
LEMMA Settled ==
    ASSUME TypeInv, NEW w \in Workers, Settle(w)
    PROVE  /\ wpc' \in [Workers -> WorkerPcs]
           /\ work' \in [Workers -> Work]
           /\ \A v \in Workers :
                \/ v = w /\ wpc'[v] = "idle" /\ work'[v] = NoWork
                \/ v # w /\ wpc'[v] = wpc[v] /\ work'[v] = work[v]
<1> USE DEF TypeInv, TypeOK, Settle
<1>1. NoWork \in Work
      BY DEF NoWork, Work
<1>2. wpc' \in [Workers -> WorkerPcs]
      BY DEF WorkerPcs
<1>3. work' \in [Workers -> Work]
      BY <1>1
<1>4. QED BY <1>2, <1>3

\* The steps of a worker preserve the type invariant.
LEMMA TypeWorker ==
    ASSUME TypeInv, NEW w \in Workers,
           WorkerStep(w) \/ Terminate(w) \/ SaveFails(w) \/ WorkerLost(w) \/ Redeliver(w)
    PROVE  TypeInv'
<1> USE BoundsAssumption, NoneIsNoStatus, NoTaskIsNoId, StatusSubsets
    DEF TypeInv, TypeOK, row, api, queue, wrk, Step
<1>1. CASE Take(w)
      <2>1. PICK t \in queued : work' = [work EXCEPT ![w].task = t]
            BY <1>1 DEF Take
      <2>2. t \in TaskIds /\ work' \in [Workers -> Work]
            BY <2>1 DEF Work
      <2>3. QED BY <1>1, <2>1, <2>2 DEF Take, PcOK, WorkerPcs, Work
<1>2. CASE Load(w)
      <2>1. CASE exists /\ profileSet
            <3> DEFINE r == [work[w] EXCEPT !.prev = previousStatus, !.arts = artifacts]
            <3>1. r \in Work /\ r.task = work[w].task
                  BY DEF Work
            <3>2. work' = [work EXCEPT ![w] = r]
                  BY <1>2, <2>1 DEF Load
            <3>3. QED BY <1>2, <2>1, <3>1, <3>2 DEF Load, PcOK, WorkerPcs
      <2>2. CASE ~ (exists /\ profileSet)
            <3>1. Settle(w)
                  BY <1>2, <2>2 DEF Load
            <3>2. QED BY <1>2, <3>1, Settled DEF Load, PcOK
      <2>3. QED BY <2>1, <2>2
<1>3. CASE CallEngine(w)
      <2>1. PICK v \in Verdicts : work' = [work EXCEPT ![w].verdict = v]
            BY <1>3 DEF CallEngine
      <2>2. /\ work' \in [Workers -> Work]
            /\ \A u \in Workers : work'[u].task = work[u].task
            <3>1. work \in [Workers -> Work]
                  OBVIOUS
            <3> HIDE DEF TypeInv, TypeOK
            <3>2. QED BY <2>1, <3>1 DEF Work
      <2>3. TypeOK'
            BY <1>3, <2>2 DEF CallEngine, WorkerPcs
      <2>4. work'[w].verdict # None /\ \A u \in Workers \ {w} : work'[u] = work[u]
            BY <2>1 DEF Work
      <2>5. PcOK'
            BY <1>3, <2>2, <2>4 DEF CallEngine, PcOK
      <2>6. QED BY <2>3, <2>5
<1>4. CASE EngineFails(w)
      BY <1>4 DEF EngineFails, PcOK, WorkerPcs
<1>5. CASE SaveResult(w)
      <2> DEFINE r == [task |-> work[w].task, verdict |-> work[w].verdict, arts |-> work[w].arts]
      <2>1. r \in Result
            BY <1>5 DEF SaveResult, Result, PcOK, Work
      <2>2. results' = Append(results, r) \/ results' = results
            BY <1>5 DEF SaveResult
      <2>3. results' \in Seq(Result)
            BY <2>1, <2>2
      <2>4. QED BY <1>5, <2>3 DEF SaveResult, PcOK, WorkerPcs
<1>6. CASE WriteVerdict(w)
      BY <1>6 DEF WriteVerdict, update_status, PcOK, WorkerPcs, Work
<1>7. CASE ResetPending(w)
      <2>1. status' \in Statuses
            BY <1>7 DEF ResetPending, update_status, Statuses, Launchable
      <2>2. QED BY <1>7, <2>1, Settled DEF ResetPending, PcOK
<1>8. CASE Notify(w)
      <2>1. work[w].task \in TaskIds
            BY <1>8 DEF Notify, PcOK, Work
      <2>2. notices' \subseteq [event : {"DRIFT_DETECTED", "RELEASE_VALIDATED",
                                         "RELEASE_INVALIDATED"}, task : TaskIds]
            BY <1>8, <2>1 DEF Notify
      <2>3. QED BY <1>8, <2>2, Settled DEF Notify, PcOK
<1>9. CASE Terminate(w)
      BY <1>9, Settled DEF Terminate, PcOK
<1>10. CASE SaveFails(w)
      BY <1>10 DEF SaveFails, Fault, PcOK, WorkerPcs
<1>11. CASE WorkerLost(w)
      BY <1>11, Settled DEF WorkerLost, Fault, PcOK
<1>12. CASE Redeliver(w)
      <2>1. work[w].task \in TaskIds
            BY <1>12 DEF Redeliver, PcOK, Work
      <2>2. QED BY <1>12, <2>1 DEF Redeliver, Fault, PcOK
<1>13. QED
      BY <1>1, <1>2, <1>3, <1>4, <1>5, <1>6, <1>7, <1>8, <1>9, <1>10, <1>11, <1>12
      DEF WorkerStep

LEMMA TypeNext == TypeInv /\ [Next]_vars => TypeInv'
<1> SUFFICES ASSUME TypeInv, [Next]_vars PROVE TypeInv'
    OBVIOUS
<1>1. CASE UNCHANGED vars
      BY <1>1 DEF vars, row, api, queue, wrk, TypeInv, TypeOK, PcOK
<1>2. CASE Next
      BY <1>2, TypeHandler, TypeApi, TypeDiscard, TypeWorker DEF Next
<1>3. QED BY <1>1, <1>2

LEMMA TypeInvariance == Spec => []TypeInv
BY TypeInit, TypeNext, PTL DEF Spec

\* Every column and every process stays in its range: in particular the status
\* of a release is always one of the seven of ReleaseStatus.
THEOREM TypeCorrect == Spec => []TypeOK
<1>1. TypeInv => TypeOK
      BY DEF TypeInv
<1>2. QED BY <1>1, TypeInvariance, PTL

-----------------------------------------------------------------------------
(* The rollback target.  What a launch has read and is about to park may   *)
(* become one; and as long as the row is there, whoever will write, or     *)
(* write back, EN_VERIFICACION has seen a launch park something.           *)

RollbackInv ==
    /\ previousStatus \in Launchable \union {None}
    /\ \A h \in Handlers :
          pc[h] \in {"l_park", "c_revoke", "c_status"} => local[h].status \in Launchable
    /\ exists =>
         /\ status = "EN_VERIFICACION" => previousStatus # None
         /\ \A h \in Handlers :
               pc[h] = "l_mark" \/ local[h].status = "EN_VERIFICACION" => previousStatus # None

LEMMA RollbackNext == TypeInv /\ RollbackInv /\ [Next]_vars => RollbackInv'
<1> SUFFICES ASSUME TypeInv, RollbackInv, [Next]_vars PROVE RollbackInv'
    OBVIOUS
<1> USE DEF TypeInv, TypeOK, RollbackInv, row, api, queue, wrk, Goto, Return
<1>1. CASE UNCHANGED vars
      BY <1>1 DEF vars
<1>2. ASSUME NEW h \in Handlers, HandlerStep(h) \/ Request(h) \/ HandlerAborts(h)
      PROVE  RollbackInv'
      <2>1. CASE SweepPick(h)
            BY <2>1 DEF SweepPick, Local
      <2>2. CASE Launch(h)
            BY <2>2 DEF Launch, MayLaunch, Launchable, Verdicts, Local
      <2>3. CASE SkipLaunch(h)
            BY <2>3 DEF SkipLaunch, NoLocal, None
      <2>4. CASE ParkPrevious(h)
            BY <2>4, NoneIsNoStatus DEF ParkPrevious, Launchable, Verdicts, NoLocal, None
      <2>5. CASE MarkRunning(h)
            BY <2>5 DEF MarkRunning, update_status
      <2>6. CASE Enqueue(h) \/ StoreTask(h)
            BY <2>6 DEF Enqueue, StoreTask, NoLocal, None
      <2>7. CASE Cancel(h)
            <3> DEFINE target == IF previousStatus = None THEN "PENDIENTE" ELSE previousStatus
            <3>1. target \in Launchable /\ target # "EN_VERIFICACION"
                  BY DEF Launchable, Verdicts, None
            <3>2. local' = [local EXCEPT ![h].task = pendingTask, ![h].status = target]
                  BY <2>7 DEF Cancel
            <3>3. QED BY <2>7, <3>1, <3>2 DEF Cancel, Local
      <2>8. CASE Revoke(h) \/ RevertStatus(h) \/ ClearTask(h)
            BY <2>8 DEF Revoke, RevertStatus, ClearTask, update_status, Launchable, Verdicts,
                        NoLocal, None
      <2>9. CASE Rename(h) \/ SetStatus(h) \/ Restore(h)
            BY <2>9 DEF Rename, SetStatus, Restore, Local, Manual
      <2>10. CASE WriteRow(h)
            BY <2>10 DEF WriteRow, NoLocal, None
      <2>11. CASE HandlerAborts(h)
            BY <2>11 DEF HandlerAborts, NoLocal, None
      <2>12. QED
            BY <1>2, <2>1, <2>2, <2>3, <2>4, <2>5, <2>6, <2>7, <2>8, <2>9, <2>10, <2>11
            DEF HandlerStep, Request
<1>3. CASE Archive \/ Delete \/ AddArtifact \/ RemoveArtifact \/ DeleteProfile \/ Discard
      BY <1>3 DEF Archive, Delete, AddArtifact, RemoveArtifact, DeleteProfile, Discard
<1>4. ASSUME NEW w \in Workers,
             WorkerStep(w) \/ Terminate(w) \/ SaveFails(w) \/ WorkerLost(w) \/ Redeliver(w)
      PROVE  RollbackInv'
      <2>1. CASE WriteVerdict(w)
            <3>1. work[w].verdict # "EN_VERIFICACION"
                  BY DEF Work, Verdicts, None
            <3>2. QED BY <2>1, <3>1 DEF WriteVerdict, update_status
      <2>2. CASE ~ WriteVerdict(w)
            BY <1>4, <2>2
            DEF WorkerStep, Take, Load, CallEngine, EngineFails, SaveResult, ResetPending,
                Notify, Terminate, SaveFails, WorkerLost, Redeliver, update_status
      <2>3. QED BY <2>1, <2>2
<1>5. QED BY <1>1, <1>2, <1>3, <1>4 DEF Next

LEMMA RollbackInvariance == Spec => []RollbackInv
<1>1. Init => RollbackInv
      BY DEF Init, RollbackInv, NoLocal, None
<1>2. QED BY <1>1, TypeInvariance, RollbackNext, PTL DEF Spec

-----------------------------------------------------------------------------
(* Verdicts are backed by results.  Every copy of a status that may still  *)
(* be written to the row has to be backed as well: the parked status, what *)
(* the handlers have read, and the verdict of a worker that has saved it.  *)

Backed(s) == s \in Verdicts => s \in Ledger

BackedInv ==
    /\ Backed(status)
    /\ ~ exists => status = "BORRADOR"
    /\ exists =>
         /\ Backed(previousStatus)
         /\ \A h \in Handlers : Backed(local[h].status)
         /\ \A w \in Workers : wpc[w] = "status" => Backed(work[w].verdict)

\* Saving a result adds its verdict to the ledger and takes nothing away.
LEMMA LedgerAppend ==
    ASSUME results \in Seq(Result), NEW r \in Result, results' = Append(results, r)
    PROVE  Ledger' = Ledger \union {r.verdict}
<1>1. /\ DOMAIN results = 1..Len(results)
      /\ Len(results) \in Nat
      /\ DOMAIN results' = 1..(Len(results) + 1)
      /\ results'[Len(results) + 1] = r
      /\ \A i \in 1..Len(results) : results'[i] = results[i]
      OBVIOUS
<1>2. Ledger' \subseteq Ledger \union {r.verdict}
      BY <1>1 DEF Ledger
<1>3. Ledger \union {r.verdict} \subseteq Ledger'
      BY <1>1 DEF Ledger
<1>4. QED BY <1>2, <1>3

LEMMA LedgerSame ==
    ASSUME UNCHANGED results
    PROVE  Ledger' = Ledger
BY DEF Ledger

\* Every step that leaves the result table alone keeps the copies backed.
LEMMA BackedHandler ==
    ASSUME TypeInv, BackedInv, NEW h \in Handlers,
           HandlerStep(h) \/ Request(h) \/ HandlerAborts(h)
    PROVE  BackedInv'
<1>1. UNCHANGED results
      BY DEF HandlerStep, Request, SweepPick, Launch, SkipLaunch, ParkPrevious, MarkRunning,
             Enqueue, StoreTask, Cancel, Revoke, RevertStatus, ClearTask, Rename, SetStatus,
             Restore, WriteRow, HandlerAborts
<1>2. Ledger' = Ledger
      BY <1>1, LedgerSame
<1>3. /\ Backed(None)
      /\ Backed("EN_VERIFICACION")
      /\ Backed("PENDIENTE")
      /\ \A s \in Manual : Backed(s)
      BY DEF Backed, None, Verdicts, Manual
<1> USE <1>2 DEF TypeInv, TypeOK, BackedInv, Backed, row, api, queue, wrk, Goto, Return
<1>4. CASE SweepPick(h)
      BY <1>4 DEF SweepPick, Local
<1>5. CASE Launch(h)
      BY <1>5 DEF Launch, Local
<1>6. CASE SkipLaunch(h) \/ StoreTask(h) \/ ClearTask(h) \/ HandlerAborts(h)
      BY <1>6, <1>3 DEF SkipLaunch, StoreTask, ClearTask, HandlerAborts, NoLocal
<1>7. CASE ParkPrevious(h)
      BY <1>7, <1>3 DEF ParkPrevious, NoLocal
<1>8. CASE MarkRunning(h)
      BY <1>8, <1>3 DEF MarkRunning, update_status
<1>9. CASE Enqueue(h) \/ Revoke(h)
      BY <1>9 DEF Enqueue, Revoke
<1>10. CASE Cancel(h)
      <2> DEFINE target == IF previousStatus = None THEN "PENDIENTE" ELSE previousStatus
      <2>1. exists => Backed(target)
            BY <1>3
      <2>2. local' = [local EXCEPT ![h].task = pendingTask, ![h].status = target]
            BY <1>10 DEF Cancel
      <2>3. QED BY <1>10, <2>1, <2>2 DEF Cancel, Local
<1>11. CASE RevertStatus(h)
      BY <1>11 DEF RevertStatus, update_status
<1>12. CASE Rename(h)
      BY <1>12 DEF Rename, Local
<1>13. CASE SetStatus(h)
      BY <1>13, <1>3 DEF SetStatus, Local
<1>14. CASE Restore(h)
      BY <1>14, <1>3 DEF Restore, Local, Manual
<1>15. CASE WriteRow(h)
      BY <1>15, <1>3 DEF WriteRow, NoLocal
<1>16. QED
      BY <1>4, <1>5, <1>6, <1>7, <1>8, <1>9, <1>10, <1>11, <1>12, <1>13, <1>14, <1>15
      DEF HandlerStep, Request

LEMMA BackedApi ==
    ASSUME TypeInv, BackedInv,
           Archive \/ Delete \/ AddArtifact \/ RemoveArtifact \/ DeleteProfile \/ Discard
    PROVE  BackedInv'
<1>1. CASE Delete
      BY <1>1 DEF Delete, BackedInv, Backed, Verdicts
<1>2. CASE Archive \/ AddArtifact \/ RemoveArtifact \/ DeleteProfile \/ Discard
      <2>1. Ledger' = Ledger
            BY <1>2, LedgerSame DEF Archive, AddArtifact, RemoveArtifact, DeleteProfile, Discard
      <2>2. Backed("ARCHIVADA")
            BY DEF Backed, Verdicts
      <2>3. QED
            BY <1>2, <2>1, <2>2 DEF Archive, AddArtifact, RemoveArtifact, DeleteProfile, Discard,
               BackedInv, Backed, row, api, queue, wrk
<1>3. QED BY <1>1, <1>2

LEMMA BackedWorker ==
    ASSUME TypeInv, BackedInv, NEW w \in Workers,
           WorkerStep(w) \/ Terminate(w) \/ SaveFails(w) \/ WorkerLost(w) \/ Redeliver(w)
    PROVE  BackedInv'
<1> USE DEF TypeInv, TypeOK, BackedInv, row, api, queue, wrk, Step
<1>1. CASE SaveResult(w)
      <2>1. CASE exists
            <3> DEFINE r == [task |-> work[w].task, verdict |-> work[w].verdict,
                             arts |-> work[w].arts]
            <3>1. r \in Result
                  BY <1>1, NoneIsNoStatus, NoTaskIsNoId DEF SaveResult, PcOK, Work, Result
            <3>2. results' = Append(results, r)
                  BY <1>1, <2>1 DEF SaveResult
            <3>3. Ledger' = Ledger \union {work[w].verdict}
                  BY <3>1, <3>2, LedgerAppend
            <3>4. QED BY <1>1, <2>1, <3>3 DEF SaveResult, Backed
      <2>2. CASE ~ exists
            <3>1. Ledger' = Ledger
                  BY <1>1, <2>2, LedgerSame DEF SaveResult
            <3>2. QED BY <1>1, <2>2, <3>1 DEF SaveResult, Backed
      <2>3. QED BY <2>1, <2>2
<1>2. CASE ~ SaveResult(w)
      <2>1. Ledger' = Ledger
            BY <1>2, LedgerSame
            DEF WorkerStep, Take, Load, CallEngine, EngineFails, WriteVerdict, ResetPending,
                Notify, Terminate, SaveFails, WorkerLost, Redeliver
      <2> USE <2>1 DEF Backed
      <2>2. CASE Take(w)
            BY <2>2 DEF Take, Work
      <2>3. CASE Load(w)
            <3>1. \A v \in Workers : wpc'[v] = "status" => v # w
                  BY <2>3, Settled DEF Load
            <3>2. \A v \in Workers : v # w => wpc'[v] = wpc[v] /\ work'[v] = work[v]
                  BY <2>3, Settled DEF Load
            <3>3. QED BY <2>3, <3>1, <3>2 DEF Load
      <2>4. CASE CallEngine(w)
            BY <2>4 DEF CallEngine, Work
      <2>5. CASE EngineFails(w)
            BY <2>5 DEF EngineFails
      <2>6. CASE WriteVerdict(w)
            BY <2>6 DEF WriteVerdict, update_status
      <2>7. CASE ResetPending(w)
            <3>1. "PENDIENTE" \notin Verdicts
                  BY DEF Verdicts
            <3>2. QED BY <2>7, <3>1, Settled DEF ResetPending, update_status
      <2>8. CASE Notify(w)
            BY <2>8, Settled DEF Notify
      <2>9. CASE Terminate(w)
            BY <2>9, Settled DEF Terminate
      <2>10. CASE SaveFails(w)
            BY <2>10 DEF SaveFails, Fault
      <2>11. CASE WorkerLost(w)
            BY <2>11, Settled DEF WorkerLost, Fault
      <2>12. CASE Redeliver(w)
            BY <2>12 DEF Redeliver, Fault
      <2>13. QED
            BY <1>2, <2>2, <2>3, <2>4, <2>5, <2>6, <2>7, <2>8, <2>9, <2>10, <2>11, <2>12
            DEF WorkerStep
<1>3. QED BY <1>1, <1>2

LEMMA BackedNext == TypeInv /\ BackedInv /\ [Next]_vars => BackedInv'
<1> SUFFICES ASSUME TypeInv, BackedInv, [Next]_vars PROVE BackedInv'
    OBVIOUS
<1>1. CASE UNCHANGED vars
      BY <1>1, LedgerSame DEF vars, row, api, queue, wrk, BackedInv, Backed
<1>2. CASE Next
      BY <1>2, BackedHandler, BackedApi, BackedWorker DEF Next
<1>3. QED BY <1>1, <1>2

LEMMA BackedInvariance == Spec => []BackedInv
<1>1. Init => BackedInv
      BY DEF Init, BackedInv, Backed, Verdicts, None, NoLocal
<1>2. QED BY <1>1, TypeInvariance, BackedNext, PTL DEF Spec

\* A release that shows a verdict has a saved result with that verdict, in
\* every interleaving of stale writes, rollbacks, duplicate tasks and crashes.
THEOREM VerdictSafe == Spec => []VerdictBacked
<1>1. BackedInv => VerdictBacked
      BY DEF BackedInv, Backed, VerdictBacked
<1>2. QED BY <1>1, BackedInvariance, PTL

\* However launches, sweeps, cancellations, stale PATCHes and archivals cut into
\* each other, and whatever faults, a release in verification has a status to go
\* back to, and going back ends at a status that may be launched from and that,
\* if it is a verdict, a result has.
THEOREM RollbackSafe == Spec => []RollbackTarget
<1>1. RollbackInv /\ BackedInv => RollbackTarget
      <2> SUFFICES ASSUME RollbackInv, BackedInv PROVE RollbackTarget
          OBVIOUS
      <2>1. status = "EN_VERIFICACION" => previousStatus # None
            BY DEF RollbackInv, BackedInv
      <2>2. ASSUME NEW s \in Rollbacks
            PROVE  s \in Launchable /\ (exists /\ s \in Verdicts => s \in Ledger)
            <3>1. CASE s = previousStatus /\ s # None
                  BY <3>1 DEF RollbackInv, BackedInv, Backed
            <3>2. CASE \E h \in Handlers : pc[h] \in {"c_revoke", "c_status"}
                                            /\ s = local[h].status
                  BY <3>2 DEF RollbackInv, BackedInv, Backed
            <3>3. QED BY <2>2, <3>1, <3>2 DEF Rollbacks
      <2>3. QED BY <2>1, <2>2 DEF RollbackTarget
<1>2. QED BY <1>1, RollbackInvariance, BackedInvariance, PTL

-----------------------------------------------------------------------------
(* Drift.  A worker that has loaded a positive previous status has a       *)
(* positive result before it; once it has saved its own result, that one   *)
(* comes later in the table, where it stays as long as the release lives.  *)

PositiveBefore(j) == \E i \in DOMAIN results : i < j /\ results[i].verdict \in Positive

\* What worker w knows of the table of results.
DriftWork(w) ==
    /\ wpc[w] \in {"engine", "save"} /\ work[w].prev \in Positive =>
          \E i \in DOMAIN results : results[i].verdict \in Positive
    /\ wpc[w] \in {"status", "notify"} =>
          \E j \in DOMAIN results :
             /\ results[j].task = work[w].task
             /\ results[j].verdict = work[w].verdict
             /\ work[w].prev \in Positive => PositiveBefore(j)

DriftInv == DriftBacked /\ (exists => \A w \in Workers : DriftWork(w))

\* Steps that save nothing, announce nothing and load no previous status.
DriftFrame ==
    /\ exists' => exists /\ results' = results /\ notices' = notices
    /\ \A w \in Workers :
          /\ wpc'[w] \in {"engine", "save"} =>
                wpc[w] \in {"engine", "save"} /\ work'[w].prev = work[w].prev
          /\ wpc'[w] \in {"status", "notify"} =>
                wpc[w] \in {"status", "notify"} /\ work'[w] = work[w]

LEMMA DriftFramed ==
    ASSUME DriftInv, DriftFrame
    PROVE  DriftInv'
<1>1. DriftBacked'
      BY DEF DriftFrame, DriftInv, DriftBacked
<1>2. ASSUME NEW w \in Workers, exists' PROVE DriftWork(w)'
      BY <1>2 DEF DriftFrame, DriftInv, DriftWork, PositiveBefore
<1>3. QED BY <1>1, <1>2 DEF DriftInv

\* A result goes to the end of the table and leaves the others where they are.
LEMMA ResultAppend ==
    ASSUME results \in Seq(Result), NEW r \in Result, results' = Append(results, r)
    PROVE  \E n \in Nat :
              /\ DOMAIN results = 1..n /\ DOMAIN results' = 1..(n + 1)
              /\ results'[n + 1] = r
              /\ \A i \in 1..n : results'[i] = results[i]
<1>1. PICK n \in Nat : n = Len(results)
      OBVIOUS
<1>2. /\ DOMAIN results = 1..n
      /\ DOMAIN results' = 1..(n + 1)
      /\ results'[n + 1] = r
      /\ \A i \in 1..n : results'[i] = results[i]
      BY <1>1
<1>3. QED BY <1>1, <1>2

LEMMA DriftSave ==
    ASSUME TypeInv, DriftInv, NEW w \in Workers, SaveResult(w)
    PROVE  DriftInv'
<1> USE DEF row, api, queue
<1>1. CASE ~ exists
      BY <1>1 DEF SaveResult, DriftInv, DriftBacked
<1>2. CASE exists
      <2> DEFINE r == [task |-> work[w].task, verdict |-> work[w].verdict,
                       arts |-> work[w].arts]
      <2>1. r \in Result
            BY <1>2, NoneIsNoStatus, NoTaskIsNoId
            DEF SaveResult, TypeInv, TypeOK, PcOK, Work, Result
      <2>2. results' = Append(results, r) /\ results \in Seq(Result)
            BY <1>2 DEF SaveResult, TypeInv, TypeOK
      <2>3. PICK n \in Nat : /\ DOMAIN results = 1..n /\ DOMAIN results' = 1..(n + 1)
                             /\ results'[n + 1] = r
                             /\ \A i \in 1..n : results'[i] = results[i]
            BY <2>1, <2>2, ResultAppend
      <2>4. /\ UNCHANGED <<exists, work, notices>> /\ wpc[w] = "save" /\ wpc'[w] = "status"
            /\ \A v \in Workers : v # w => wpc'[v] = wpc[v]
            BY <1>2 DEF SaveResult, Step, TypeInv, TypeOK
      <2>5. r.task = work[w].task /\ r.verdict = work[w].verdict
            OBVIOUS
      <2> HIDE DEF r
      <2>6. \A i \in 1..n : i \in 1..(n + 1)
            BY <2>3
      <2>7. \A j \in DOMAIN results : PositiveBefore(j) => PositiveBefore(j)'
            BY <2>3, <2>6 DEF PositiveBefore
      <2>8. DriftBacked'
            <3>1. SUFFICES ASSUME NEW m \in notices, m.event = "DRIFT_DETECTED"
                           PROVE  \E i, j \in DOMAIN results' :
                                     /\ i < j
                                     /\ results'[i].verdict \in Positive
                                     /\ results'[j].verdict = "NO_VALIDA"
                                     /\ results'[j].task = m.task
                  BY <2>4 DEF DriftBacked
            <3>2. PICK i \in DOMAIN results, j \in DOMAIN results :
                     /\ i < j
                     /\ results[i].verdict \in Positive
                     /\ results[j].verdict = "NO_VALIDA"
                     /\ results[j].task = m.task
                  BY <1>2, <3>1 DEF DriftInv, DriftBacked
            <3>3. QED BY <2>3, <2>6, <3>2
      <2>9. ASSUME NEW v \in Workers PROVE DriftWork(v)'
            <3>1. CASE v = w
                  <4>1. ASSUME work[w].prev \in Positive PROVE PositiveBefore(n + 1)'
                        <5>1. PICK i \in DOMAIN results : results[i].verdict \in Positive
                              BY <1>2, <2>4, <4>1 DEF DriftInv, DriftWork
                        <5>2. i < n + 1 /\ i \in DOMAIN results'
                              BY <2>3, <5>1
                        <5>3. QED BY <2>3, <5>1, <5>2 DEF PositiveBefore
                  <4>2. n + 1 \in DOMAIN results'
                        BY <2>3
                  <4>3. QED BY <2>3, <2>4, <2>5, <3>1, <4>1, <4>2 DEF DriftWork
            <3>2. CASE v # w
                  <4>1. DriftWork(v)
                        BY <1>2 DEF DriftInv
                  <4>2. QED BY <2>3, <2>4, <2>6, <2>7, <3>2, <4>1 DEF DriftWork
            <3>3. QED BY <3>1, <3>2
      <2>10. QED BY <2>8, <2>9 DEF DriftInv
<1>3. QED BY <1>1, <1>2

LEMMA DriftLoad ==
    ASSUME TypeInv, BackedInv, DriftInv, NEW w \in Workers, Load(w)
    PROVE  DriftInv'
<1>1. /\ UNCHANGED <<exists, results, notices>>
      /\ \A v \in Workers : v # w => wpc'[v] = wpc[v] /\ work'[v] = work[v]
      BY DEF Load, TypeInv, TypeOK, Step, Settle, row
<1>2. DriftBacked'
      BY <1>1 DEF DriftInv, DriftBacked
<1>3. ASSUME NEW v \in Workers, exists PROVE DriftWork(v)'
      <2>1. CASE v # w
            BY <1>1, <1>3, <2>1 DEF DriftInv, DriftWork, PositiveBefore
      <2>2. CASE v = w /\ profileSet
            <3>1. wpc'[w] = "engine" /\ work'[w].prev = previousStatus
                  BY <1>3, <2>2 DEF Load, Step, TypeInv, TypeOK, Work
            <3>2. previousStatus \in Positive => \E i \in DOMAIN results :
                                                     results[i].verdict \in Positive
                  BY <1>3, StatusSubsets DEF BackedInv, Backed, Ledger
            <3>3. QED BY <1>1, <2>2, <3>1, <3>2 DEF DriftWork
      <2>3. CASE v = w /\ ~ profileSet
            <3>1. wpc'[w] = "idle"
                  BY <2>3 DEF Load, Settle, TypeInv, TypeOK
            <3>2. QED BY <2>3, <3>1 DEF DriftWork
      <2>4. QED BY <2>1, <2>2, <2>3
<1>4. QED BY <1>1, <1>2, <1>3 DEF DriftInv

LEMMA DriftNotify ==
    ASSUME TypeInv, DriftInv, NEW w \in Workers, Notify(w)
    PROVE  DriftInv'
<1>1. /\ UNCHANGED <<exists, results>> /\ wpc[w] = "notify" /\ wpc'[w] = "idle"
      /\ \A v \in Workers : v # w => wpc'[v] = wpc[v] /\ work'[v] = work[v]
      BY DEF Notify, TypeInv, TypeOK, Settle, row
<1>2. ASSUME NEW v \in Workers, exists PROVE DriftWork(v)'
      <2>1. CASE v = w
            BY <1>1, <2>1 DEF DriftWork
      <2>2. CASE v # w
            BY <1>1, <1>2, <2>2 DEF DriftInv, DriftWork, PositiveBefore
      <2>3. QED BY <2>1, <2>2
<1>3. PICK m : /\ notices' = notices \union {m} /\ m.task = work[w].task
               /\ m.event = "DRIFT_DETECTED" => IsDrift(w)
      <2> DEFINE event == IF IsDrift(w) THEN "DRIFT_DETECTED"
                          ELSE IF work[w].verdict \in Positive THEN "RELEASE_VALIDATED"
                          ELSE "RELEASE_INVALIDATED"
      <2>1. PICK m : m = [event |-> event, task |-> work[w].task]
            OBVIOUS
      <2>2. notices' = notices \union {m} /\ m.task = work[w].task /\ m.event = event
            BY <2>1 DEF Notify
      <2>3. event = "DRIFT_DETECTED" => IsDrift(w)
            OBVIOUS
      <2> HIDE DEF event
      <2>4. QED BY <2>2, <2>3
<1>4. ASSUME exists, m.event = "DRIFT_DETECTED"
      PROVE  \E i, j \in DOMAIN results :
                /\ i < j
                /\ results[i].verdict \in Positive
                /\ results[j].verdict = "NO_VALIDA"
                /\ results[j].task = m.task
      BY <1>1, <1>3, <1>4 DEF DriftInv, DriftWork, PositiveBefore, IsDrift
<1>5. DriftBacked'
      BY <1>1, <1>3, <1>4 DEF DriftInv, DriftBacked
<1>6. QED BY <1>1, <1>2, <1>5 DEF DriftInv

LEMMA DriftNext == TypeInv /\ BackedInv /\ DriftInv /\ [Next]_vars => DriftInv'
<1> SUFFICES ASSUME TypeInv, BackedInv, DriftInv, [Next]_vars PROVE DriftInv'
    OBVIOUS
<1> USE DEF row, api, queue, wrk
<1>1. CASE UNCHANGED vars
      <2>1. DriftFrame
            BY <1>1 DEF vars, DriftFrame
      <2>2. QED BY <2>1, DriftFramed
<1>2. ASSUME NEW h \in Handlers, HandlerStep(h) \/ Request(h) \/ HandlerAborts(h)
      PROVE  DriftInv'
      <2>1. DriftFrame
            BY <1>2 DEF HandlerStep, Request, SweepPick, Launch, SkipLaunch, ParkPrevious,
               MarkRunning, Enqueue, StoreTask, Cancel, Revoke, RevertStatus, ClearTask, Rename,
               SetStatus, Restore, WriteRow, HandlerAborts, DriftFrame
      <2>2. QED BY <2>1, DriftFramed
<1>3. CASE Archive \/ Delete \/ AddArtifact \/ RemoveArtifact \/ DeleteProfile \/ Discard
      <2>1. DriftFrame
            BY <1>3 DEF Archive, Delete, AddArtifact, RemoveArtifact, DeleteProfile, Discard,
               DriftFrame
      <2>2. QED BY <2>1, DriftFramed
<1>4. ASSUME NEW w \in Workers,
             WorkerStep(w) \/ Terminate(w) \/ SaveFails(w) \/ WorkerLost(w) \/ Redeliver(w)
      PROVE  DriftInv'
      <2> USE DEF TypeInv, TypeOK, Step
      <2>1. CASE Load(w) \/ SaveResult(w) \/ Notify(w)
            BY <2>1, DriftLoad, DriftSave, DriftNotify
      <2>2. CASE Take(w) \/ CallEngine(w)
            <3>1. DriftFrame
                  BY <2>2 DEF Take, CallEngine, DriftFrame, Work
            <3>2. QED BY <3>1, DriftFramed
      <2>3. CASE EngineFails(w) \/ WriteVerdict(w) \/ SaveFails(w) \/ Redeliver(w)
            <3>1. DriftFrame
                  BY <2>3 DEF EngineFails, WriteVerdict, SaveFails, Redeliver, Fault, DriftFrame
            <3>2. QED BY <3>1, DriftFramed
      <2>4. CASE ResetPending(w) \/ Terminate(w) \/ WorkerLost(w)
            <3>1. DriftFrame
                  BY <2>4, Settled DEF ResetPending, Terminate, WorkerLost, Fault, DriftFrame
            <3>2. QED BY <3>1, DriftFramed
      <2>5. QED BY <1>4, <2>1, <2>2, <2>3, <2>4 DEF WorkerStep
<1>5. QED BY <1>1, <1>2, <1>3, <1>4 DEF Next

\* A drift alert has its reason in the table: a positive result and, after it, the
\* NO_VALIDA of the task that raised it, whatever was launched, cancelled or
\* redelivered in between.
THEOREM DriftIsReal == Spec => []DriftBacked
<1>1. Init => DriftInv
      BY DEF Init, DriftInv, DriftBacked, DriftWork
<1>2. DriftInv => DriftBacked
      BY DEF DriftInv
<1>3. QED BY <1>1, <1>2, TypeInvariance, BackedInvariance, DriftNext, PTL DEF Spec

-----------------------------------------------------------------------------
(* Refinement.  A step that writes the status shows one that is backed, a  *)
(* step that saves a result issues its verdict, and the rest is invisible. *)

Shows(s) ==
    /\ exists
    /\ s \in Statuses
    /\ Backed(s)
    /\ status' = s
    /\ UNCHANGED <<exists, results>>

LEMMA ShowStep ==
    ASSUME NEW s, Shows(s)
    PROVE  Promise!Next
<1>1. Ledger' = Ledger
      BY LedgerSame DEF Shows
<1>2. s \in Verdicts \union (Manual \union {"EN_VERIFICACION"})
      BY DEF Shows, Statuses, Launchable, Manual
<1>3. Promise!Show(s)
      BY <1>1 DEF Promise!Show, Shows, Backed
<1>4. QED BY <1>2, <1>3 DEF Promise!Next

LEMMA InvisibleStep ==
    ASSUME UNCHANGED <<exists, status, results>>
    PROVE  UNCHANGED Promise!vars
BY LedgerSame DEF Promise!vars

LEMMA PromiseHandler ==
    ASSUME TypeInv, BackedInv, NEW h \in Handlers,
           HandlerStep(h) \/ Request(h) \/ HandlerAborts(h)
    PROVE  [Promise!Next]_(Promise!vars)
<1> USE DEF row
<1>1. CASE MarkRunning(h)
      <2>1. CASE exists
            <3>1. Shows("EN_VERIFICACION")
                  BY <1>1, <2>1 DEF MarkRunning, update_status, Shows, Statuses, Backed, Verdicts
            <3>2. QED BY <3>1, ShowStep
      <2>2. CASE ~ exists
            BY <1>1, <2>2, InvisibleStep DEF MarkRunning, update_status
      <2>3. QED BY <2>1, <2>2
<1>2. CASE RevertStatus(h)
      <2>1. CASE exists
            <3>1. local[h].status \in Statuses
                  BY <1>2 DEF RevertStatus, TypeInv, TypeOK, PcOK, Local
            <3>2. Shows(local[h].status)
                  BY <1>2, <2>1, <3>1 DEF RevertStatus, update_status, Shows, BackedInv
            <3>3. QED BY <3>2, ShowStep
      <2>2. CASE ~ exists
            BY <1>2, <2>2, InvisibleStep DEF RevertStatus, update_status
      <2>3. QED BY <2>1, <2>2
<1>3. CASE WriteRow(h)
      <2>1. CASE exists /\ profileSet
            <3>1. local[h].status \in Statuses
                  BY <1>3 DEF WriteRow, TypeInv, TypeOK, PcOK, Local
            <3>2. Shows(local[h].status)
                  BY <1>3, <2>1, <3>1 DEF WriteRow, Shows, BackedInv
            <3>3. QED BY <3>2, ShowStep
      <2>2. CASE ~ (exists /\ profileSet)
            BY <1>3, <2>2, InvisibleStep DEF WriteRow
      <2>3. QED BY <2>1, <2>2
<1>4. CASE ~ (MarkRunning(h) \/ RevertStatus(h) \/ WriteRow(h))
      <2>1. UNCHANGED <<exists, status, results>>
            BY <1>4 DEF HandlerStep, Request, SweepPick, Launch, SkipLaunch, ParkPrevious,
               Enqueue, StoreTask, Cancel, Revoke, ClearTask, Rename, SetStatus, Restore,
               HandlerAborts
      <2>2. QED BY <2>1, InvisibleStep
<1>5. QED BY <1>1, <1>2, <1>3, <1>4

LEMMA PromiseApi ==
    ASSUME TypeInv, BackedInv,
           Archive \/ Delete \/ AddArtifact \/ RemoveArtifact \/ DeleteProfile \/ Discard
    PROVE  [Promise!Next]_(Promise!vars)
<1> USE DEF row
<1>1. CASE Archive
      <2>1. Shows("ARCHIVADA")
            BY <1>1 DEF Archive, Shows, Statuses, Backed, Verdicts
      <2>2. QED BY <2>1, ShowStep
<1>2. CASE Delete
      <2>1. Ledger' = {}
            BY <1>2 DEF Delete, Ledger
      <2>2. Promise!Erase
            BY <1>2, <2>1 DEF Delete, Promise!Erase
      <2>3. QED BY <2>2 DEF Promise!Next
<1>3. CASE AddArtifact \/ RemoveArtifact \/ DeleteProfile \/ Discard
      <2>1. UNCHANGED <<exists, status, results>>
            BY <1>3 DEF AddArtifact, RemoveArtifact, DeleteProfile, Discard
      <2>2. QED BY <2>1, InvisibleStep
<1>4. QED BY <1>1, <1>2, <1>3

LEMMA PromiseWorker ==
    ASSUME TypeInv, BackedInv, NEW w \in Workers,
           WorkerStep(w) \/ Terminate(w) \/ SaveFails(w) \/ WorkerLost(w) \/ Redeliver(w)
    PROVE  [Promise!Next]_(Promise!vars)
<1> USE DEF row
<1>1. CASE SaveResult(w)
      <2>1. CASE exists
            <3> DEFINE r == [task |-> work[w].task, verdict |-> work[w].verdict,
                             arts |-> work[w].arts]
            <3>1. r \in Result
                  BY <1>1, NoneIsNoStatus, NoTaskIsNoId
                  DEF SaveResult, TypeInv, TypeOK, PcOK, Work, Result
            <3>2. results' = Append(results, r)
                  BY <1>1, <2>1 DEF SaveResult
            <3>3. Ledger' = Ledger \union {work[w].verdict} /\ work[w].verdict \in Verdicts
                  BY <3>1, <3>2, LedgerAppend DEF TypeInv, TypeOK, Result
            <3>4. Promise!Issue(work[w].verdict)
                  BY <1>1, <2>1, <3>3 DEF SaveResult, Promise!Issue
            <3>5. QED BY <3>3, <3>4 DEF Promise!Next
      <2>2. CASE ~ exists
            BY <1>1, <2>2, InvisibleStep DEF SaveResult
      <2>3. QED BY <2>1, <2>2
<1>2. CASE WriteVerdict(w)
      <2>1. CASE exists
            <3>1. work[w].verdict \in Statuses
                  BY <1>2, StatusSubsets DEF WriteVerdict, TypeInv, TypeOK, PcOK, Work
            <3>2. Shows(work[w].verdict)
                  BY <1>2, <2>1, <3>1 DEF WriteVerdict, update_status, Shows, BackedInv
            <3>3. QED BY <3>2, ShowStep
      <2>2. CASE ~ exists
            BY <1>2, <2>2, InvisibleStep DEF WriteVerdict, update_status
      <2>3. QED BY <2>1, <2>2
<1>3. CASE ResetPending(w)
      <2>1. CASE exists
            <3>1. Shows("PENDIENTE")
                  BY <1>3, <2>1 DEF ResetPending, update_status, Shows, Statuses, Launchable,
                                    Backed, Verdicts
            <3>2. QED BY <3>1, ShowStep
      <2>2. CASE ~ exists
            BY <1>3, <2>2, InvisibleStep DEF ResetPending, update_status
      <2>3. QED BY <2>1, <2>2
<1>4. CASE ~ (SaveResult(w) \/ WriteVerdict(w) \/ ResetPending(w))
      <2>1. UNCHANGED <<exists, status, results>>
            BY <1>4 DEF WorkerStep, Take, Load, CallEngine, EngineFails, Notify, Terminate,
               SaveFails, WorkerLost, Redeliver
      <2>2. QED BY <2>1, InvisibleStep
<1>5. QED BY <1>1, <1>2, <1>3, <1>4

\* The release component implements ReleaseLedger: the status a reader sees is
\* never a verdict that has not been issued, and no verdict is withdrawn.
THEOREM ReleaseImplementsLedger == Spec => KeepsPromise
<1>1. Init => Promise!Init
      BY DEF Init, Promise!Init, Ledger
<1>2. TypeInv /\ BackedInv /\ [Next]_vars => [Promise!Next]_(Promise!vars)
      <2> SUFFICES ASSUME TypeInv, BackedInv, [Next]_vars
                   PROVE  [Promise!Next]_(Promise!vars)
          OBVIOUS
      <2>1. CASE UNCHANGED vars
            BY <2>1, InvisibleStep DEF vars, row
      <2>2. CASE Next
            BY <2>2, PromiseHandler, PromiseApi, PromiseWorker DEF Next
      <2>3. QED BY <2>1, <2>2
<1>3. QED BY <1>1, <1>2, TypeInvariance, BackedInvariance, PTL DEF Spec, KeepsPromise, Promise!Spec
=============================================================================
