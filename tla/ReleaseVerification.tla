------------------------- MODULE ReleaseVerification -------------------------
(***************************************************************************)
(* The life of one release: the row of table "release", the API handlers   *)
(* that read and write it, the Celery queue of verification tasks and the  *)
(* workers that run them.                                                  *)
(*                                                                         *)
(* Every repository method of the code opens a session of its own and      *)
(* commits it, and every await lets another handler or worker run.  A      *)
(* handler is therefore a process with a program counter and the values it *)
(* has read, and each action below is the code between two awaits that     *)
(* change shared state:                                                    *)
(*                                                                         *)
(*   launch_verification  SweepPick; Launch, ParkPrevious, MarkRunning,    *)
(*                        Enqueue, StoreTask                               *)
(*   cancel_verification  Cancel, Revoke, RevertStatus, ClearTask          *)
(*   update_release       Rename or SetStatus, then WriteRow               *)
(*   restore_release      Restore, then WriteRow                           *)
(*   run_verification     Take, Load, CallEngine or EngineFails,           *)
(*                        SaveResult, WriteVerdict or ResetPending, Notify *)
(*                                                                         *)
(* Releases do not share any of this state: one release is modelled.       *)
(* Tasks are numbered by the launch that creates them.                     *)
(***************************************************************************)
EXTENDS Naturals, Sequences

CONSTANTS
    Handlers,      \* requests and scheduler sweeps served at the same time
    Workers,       \* Celery worker processes
    Artifacts,     \* artifacts that may be attached to the release
    Ops,           \* the operations the environment uses, a subset of AllOps
    MaxLaunches,   \* bound: calls of launch_verification that pass its checks
    MaxFaults      \* bound: crashes, broker failures and database failures

AllOps == {"launch", "sweep", "cancel", "rename", "setstatus", "archive",
           "restore", "delete", "artifacts", "profile"}

ASSUME OpsAssumption == Ops \subseteq AllOps
ASSUME BoundsAssumption == MaxLaunches \in Nat /\ MaxFaults \in Nat

Verdicts   == {"VALIDA", "CON_ADVERTENCIAS", "NO_VALIDA"}
Positive   == {"VALIDA", "CON_ADVERTENCIAS"}
Launchable == {"BORRADOR", "PENDIENTE"} \union Verdicts
Manual     == {"BORRADOR", "PENDIENTE", "ARCHIVADA"}
Statuses   == {"EN_VERIFICACION", "ARCHIVADA"} \union Launchable

None      == "none"            \* a NULL status column
NoTask    == 0                 \* a NULL task id
TaskIds   == 1..MaxLaunches
Triggers  == {"manual", "scheduled"}

VARIABLES
    exists,          \* the row is in the table
    status,          \* release.status
    pendingTask,     \* release.pending_task_id
    previousStatus,  \* release.previous_status
    profileSet,      \* release.profile_id names a profile that exists
    artifacts,       \* rows of table artifact
    results,         \* rows of table verification_result, oldest first
    launches,        \* launches that have passed their checks
    sent,            \* what triggered each task, None until it is sent
    queued,          \* tasks the broker has to deliver
    revoked,         \* tasks a revoke has been broadcast for
    pc, local,       \* handlers: next step, values read
    wpc, work,       \* workers: next step, values read
    notices,         \* events sent to the organization's channels
    faults           \* faults so far

row   == <<exists, status, pendingTask, previousStatus>>
api   == <<pc, local>>
queue == <<launches, sent, queued, revoked>>
wrk   == <<wpc, work>>
vars  == <<row, profileSet, artifacts, results, queue, api, wrk, notices,
           faults>>

Local  == [status  : Statuses \union {None},
           task    : TaskIds \union {NoTask},
           trigger : Triggers]
Work   == [task    : TaskIds \union {NoTask},
           prev    : Statuses \union {None},
           arts    : SUBSET Artifacts,
           verdict : Verdicts \union {None}]
Result == [task : TaskIds, verdict : Verdicts, arts : SUBSET Artifacts]

HandlerPcs == {"idle", "l_read", "l_park", "l_mark", "l_enqueue", "l_store",
               "c_revoke", "c_status", "c_clear", "u_write"}
WorkerPcs  == {"idle", "load", "engine", "save", "status", "reset", "notify"}

NoLocal == [status |-> None, task |-> NoTask, trigger |-> "manual"]
NoWork  == [task |-> NoTask, prev |-> None, arts |-> {}, verdict |-> None]

\* Every column and every process is in its range.
TypeOK ==
    /\ exists \in BOOLEAN
    /\ status \in Statuses
    /\ pendingTask \in TaskIds \union {NoTask}
    /\ previousStatus \in Statuses \union {None}
    /\ profileSet \in BOOLEAN
    /\ artifacts \subseteq Artifacts
    /\ results \in Seq(Result)
    /\ launches \in 0..MaxLaunches
    /\ sent \in [TaskIds -> Triggers \union {None}]
    /\ queued \subseteq TaskIds
    /\ revoked \subseteq TaskIds
    /\ pc \in [Handlers -> HandlerPcs]
    /\ local \in [Handlers -> Local]
    /\ wpc \in [Workers -> WorkerPcs]
    /\ work \in [Workers -> Work]
    /\ notices \subseteq [event : {"DRIFT_DETECTED", "RELEASE_VALIDATED",
                                   "RELEASE_INVALIDATED"}, task : TaskIds]
    /\ faults \in 0..MaxFaults

\* CreateReleaseUseCase.create_release has committed a row in BORRADOR and
\* the owner may have attached artifacts.  A release takes the profile of the
\* request or of its project, and may have none; the runs and theorems that
\* leave out "profile" are about releases with one.
Init ==
    /\ exists = TRUE
    /\ status = "BORRADOR"
    /\ pendingTask = NoTask
    /\ previousStatus = None
    /\ profileSet \in BOOLEAN
    /\ profileSet \/ "profile" \in Ops
    /\ artifacts \in SUBSET Artifacts
    /\ results = <<>>
    /\ launches = 0
    /\ sent = [t \in TaskIds |-> None]
    /\ queued = {}
    /\ revoked = {}
    /\ pc = [h \in Handlers |-> "idle"]
    /\ local = [h \in Handlers |-> NoLocal]
    /\ wpc = [w \in Workers |-> "idle"]
    /\ work = [w \in Workers |-> NoWork]
    /\ notices = {}
    /\ faults = 0

-----------------------------------------------------------------------------
(* Writes to the row.  update_status returns None when the row is gone;    *)
(* update_pending_task and update raise EntityNotFoundError.               *)

update_status(s) ==
    status' = IF exists THEN s ELSE status

\* The handler returns, or raises, and forgets what it read.
Return(h) ==
    /\ pc' = [pc EXCEPT ![h] = "idle"]
    /\ local' = [local EXCEPT ![h] = NoLocal]

Goto(h, label) ==
    pc' = [pc EXCEPT ![h] = label]

-----------------------------------------------------------------------------
(* launch_verification                                                     *)

\* The scheduler lists the profile's releases that have a verdict; what it
\* does next may come much later.
SweepPick(h) ==
    /\ "sweep" \in Ops
    /\ pc[h] = "idle"
    /\ exists /\ profileSet /\ status \in Verdicts
    /\ Goto(h, "l_read")
    /\ local' = [local EXCEPT ![h].trigger = "scheduled"]
    /\ UNCHANGED <<row, profileSet, artifacts, results, queue, wrk, notices, faults>>

\* get_by_id and the three checks of launch_verification.
MayLaunch == exists /\ status \in Launchable /\ artifacts # {}

Launch(h) ==
    /\ \/ "launch" \in Ops /\ pc[h] = "idle"
       \/ pc[h] = "l_read"
    /\ MayLaunch
    /\ launches < MaxLaunches
    /\ launches' = launches + 1
    /\ local' = [local EXCEPT ![h].status = status, ![h].task = launches + 1]
    /\ Goto(h, "l_park")
    /\ UNCHANGED <<row, profileSet, artifacts, results, sent, queued, revoked, wrk, notices,
                   faults>>

\* ValidationError: a manual launch changes nothing, a sweep skips it.
SkipLaunch(h) ==
    /\ pc[h] = "l_read"
    /\ ~ MayLaunch \/ launches = MaxLaunches
    /\ Return(h)
    /\ UNCHANGED <<row, profileSet, artifacts, results, queue, wrk, notices, faults>>

\* Variant: the status is read again, after the checks.
ParkLatest(h) ==
    /\ pc[h] = "l_park"
    /\ exists
    /\ pendingTask' = NoTask
    /\ previousStatus' = status
    /\ Goto(h, "l_mark")
    /\ UNCHANGED <<exists, status, profileSet, artifacts, results, queue, local, wrk, notices,
                   faults>>

\* update_pending_task(release_id, None, previous_status)
ParkPrevious(h) ==
    /\ pc[h] = "l_park"
    /\ IF exists
       THEN /\ pendingTask' = NoTask
            /\ previousStatus' = local[h].status
            /\ Goto(h, "l_mark")
            /\ UNCHANGED local
       ELSE /\ Return(h)
            /\ UNCHANGED <<pendingTask, previousStatus>>
    /\ UNCHANGED <<exists, status, profileSet, artifacts, results, queue, wrk, notices, faults>>

\* update_status(release_id, EN_VERIFICACION)
MarkRunning(h) ==
    /\ pc[h] = "l_mark"
    /\ update_status("EN_VERIFICACION")
    /\ Goto(h, "l_enqueue")
    /\ UNCHANGED <<exists, pendingTask, previousStatus, profileSet, artifacts, results, queue,
                   local, wrk, notices, faults>>

\* enqueue_verification_task
Enqueue(h) ==
    /\ pc[h] = "l_enqueue"
    /\ sent' = [sent EXCEPT ![local[h].task] = local[h].trigger]
    /\ queued' = queued \union {local[h].task}
    /\ Goto(h, "l_store")
    /\ UNCHANGED <<row, profileSet, artifacts, results, launches, revoked, local, wrk, notices,
                   faults>>

\* Variant: the id of the task is not stored.
StoreNoTask(h) ==
    /\ pc[h] = "l_store"
    /\ Return(h)
    /\ UNCHANGED <<row, profileSet, artifacts, results, queue, wrk, notices, faults>>

\* update_pending_task(release_id, task_id, None): None leaves previous_status.
StoreTask(h) ==
    /\ pc[h] = "l_store"
    /\ pendingTask' = IF exists THEN local[h].task ELSE pendingTask
    /\ Return(h)
    /\ UNCHANGED <<exists, status, previousStatus, profileSet, artifacts, results, queue, wrk,
                   notices, faults>>

-----------------------------------------------------------------------------
(* cancel_verification                                                     *)

Cancel(h) ==
    /\ "cancel" \in Ops
    /\ pc[h] = "idle"
    /\ exists /\ status = "EN_VERIFICACION"
    /\ local' = [local EXCEPT
            ![h].task = pendingTask,
            ![h].status = IF previousStatus = None THEN "PENDIENTE"
                          ELSE previousStatus]
    /\ Goto(h, "c_revoke")
    /\ UNCHANGED <<row, profileSet, artifacts, results, queue, wrk, notices, faults>>

\* cancel_task broadcasts a revoke; nothing is sent for a release without task.
Revoke(h) ==
    /\ pc[h] = "c_revoke"
    /\ revoked' = revoked \union ({local[h].task} \ {NoTask})
    /\ Goto(h, "c_status")
    /\ UNCHANGED <<row, profileSet, artifacts, results, launches, sent, queued, local, wrk,
                   notices, faults>>

RevertStatus(h) ==
    /\ pc[h] = "c_status"
    /\ update_status(local[h].status)
    /\ Goto(h, "c_clear")
    /\ UNCHANGED <<exists, pendingTask, previousStatus, profileSet, artifacts, results, queue,
                   local, wrk, notices, faults>>

\* update_pending_task(release_id, None, None)
ClearTask(h) ==
    /\ pc[h] = "c_clear"
    /\ pendingTask' = IF exists THEN NoTask ELSE pendingTask
    /\ Return(h)
    /\ UNCHANGED <<exists, status, previousStatus, profileSet, artifacts, results, queue, wrk,
                   notices, faults>>

-----------------------------------------------------------------------------
(* The other operations of the release API                                 *)

\* PATCH without a status: update() will write back the status read here.
Rename(h) ==
    /\ "rename" \in Ops
    /\ pc[h] = "idle" /\ exists
    /\ local' = [local EXCEPT ![h].status = status]
    /\ Goto(h, "u_write")
    /\ UNCHANGED <<row, profileSet, artifacts, results, queue, wrk, notices, faults>>

\* PATCH with a status: only the manual ones are accepted.
SetStatus(h) ==
    /\ "setstatus" \in Ops
    /\ pc[h] = "idle" /\ exists
    /\ \E s \in Manual : local' = [local EXCEPT ![h].status = s]
    /\ Goto(h, "u_write")
    /\ UNCHANGED <<row, profileSet, artifacts, results, queue, wrk, notices, faults>>

Restore(h) ==
    /\ "restore" \in Ops
    /\ pc[h] = "idle" /\ exists
    /\ status = "ARCHIVADA"
    /\ local' = [local EXCEPT ![h].status = "BORRADOR"]
    /\ Goto(h, "u_write")
    /\ UNCHANGED <<row, profileSet, artifacts, results, queue, wrk, notices, faults>>

\* SqlReleaseRepository.update rewrites the status with the object's; it
\* raises when the row is gone and when the object has no usable profile_id.
WriteRow(h) ==
    /\ pc[h] = "u_write"
    /\ status' = IF exists /\ profileSet THEN local[h].status ELSE status
    /\ Return(h)
    /\ UNCHANGED <<exists, pendingTask, previousStatus, profileSet, artifacts, results, queue,
                   wrk, notices, faults>>

\* POST .../archive: no condition on the current status.
Archive ==
    /\ "archive" \in Ops
    /\ exists
    /\ status' = "ARCHIVADA"
    /\ UNCHANGED <<exists, pendingTask, previousStatus, profileSet, artifacts, results, queue,
                   api, wrk, notices, faults>>

\* DELETE: artifacts and results go with the row (ON DELETE CASCADE).  The
\* columns of a deleted row keep a fixed value that nothing reads.
Delete ==
    /\ "delete" \in Ops
    /\ exists
    /\ exists' = FALSE
    /\ status' = "BORRADOR"
    /\ pendingTask' = NoTask
    /\ previousStatus' = None
    /\ artifacts' = {}
    /\ results' = <<>>
    /\ UNCHANGED <<profileSet, queue, api, wrk, notices, faults>>

\* ArtifactService.add_artifact and remove_artifact: any status will do.
AddArtifact ==
    /\ "artifacts" \in Ops
    /\ exists
    /\ \E a \in Artifacts \ artifacts : artifacts' = artifacts \union {a}
    /\ UNCHANGED <<row, profileSet, results, queue, api, wrk, notices, faults>>

RemoveArtifact ==
    /\ "artifacts" \in Ops
    /\ exists
    /\ \E a \in artifacts : artifacts' = artifacts \ {a}
    /\ UNCHANGED <<row, profileSet, results, queue, api, wrk, notices, faults>>

\* Deleting the profile sets release.profile_id to NULL.
DeleteProfile ==
    /\ "profile" \in Ops
    /\ profileSet
    /\ profileSet' = FALSE
    /\ UNCHANGED <<row, artifacts, results, queue, api, wrk, notices, faults>>

-----------------------------------------------------------------------------
(* The queue and the workers.  Tasks are acknowledged late, when a worker  *)
(* is done with them, so the broker may deliver one again.                 *)

\* The task returns or fails; its worker is free.
Settle(w) ==
    /\ wpc' = [wpc EXCEPT ![w] = "idle"]
    /\ work' = [work EXCEPT ![w] = NoWork]

Step(w, label) ==
    wpc' = [wpc EXCEPT ![w] = label]

\* Variant: nothing takes the task off the queue.
TakeAgain(w) ==
    /\ wpc[w] = "idle"
    /\ \E t \in queued : work' = [work EXCEPT ![w].task = t]
    /\ Step(w, "load")
    /\ UNCHANGED <<row, profileSet, artifacts, results, queue, api, notices, faults>>

\* A revoke is a broadcast: a worker may take the task before it hears of it.
Take(w) ==
    /\ wpc[w] = "idle"
    /\ \E t \in queued :
          /\ queued' = queued \ {t}
          /\ work' = [work EXCEPT ![w].task = t]
    /\ Step(w, "load")
    /\ UNCHANGED <<row, profileSet, artifacts, results, launches, sent, revoked, api, notices,
                   faults>>

\* A worker that knows of the revoke discards the task it receives.
Discard ==
    /\ \E t \in queued \intersect revoked : queued' = queued \ {t}
    /\ UNCHANGED <<row, profileSet, artifacts, results, launches, sent, revoked, api, wrk,
                   notices, faults>>

\* revoke(terminate=True) kills the process that runs the task.
Terminate(w) ==
    /\ wpc[w] # "idle"
    /\ work[w].task \in revoked
    /\ Settle(w)
    /\ UNCHANGED <<row, profileSet, artifacts, results, queue, api, notices, faults>>

\* The release, its artifacts and its profile are read once.  Without release
\* or profile the task returns an error and leaves the status alone.
Load(w) ==
    /\ wpc[w] = "load"
    /\ IF exists /\ profileSet
       THEN /\ work' = [work EXCEPT ![w].prev = previousStatus, ![w].arts = artifacts]
            /\ Step(w, "engine")
       ELSE Settle(w)
    /\ UNCHANGED <<row, profileSet, artifacts, results, queue, api, notices, faults>>

\* Variant: a verdict that the tables do not know has no default.
CallEngineUnmapped(w) ==
    /\ wpc[w] = "engine"
    /\ \E v \in Verdicts \union {None} : work' = [work EXCEPT ![w].verdict = v]
    /\ Step(w, "save")
    /\ UNCHANGED <<row, profileSet, artifacts, results, queue, api, notices, faults>>

\* Artifacts are fetched, the engine answers and the verdict is recomputed
\* from its rule results (module VerificationVerdict).
CallEngine(w) ==
    /\ wpc[w] = "engine"
    /\ \E v \in Verdicts : work' = [work EXCEPT ![w].verdict = v]
    /\ Step(w, "save")
    /\ UNCHANGED <<row, profileSet, artifacts, results, queue, api, notices, faults>>

\* Variant: the exception is raised before the status is put back.
EngineFailsUnnoticed(w) ==
    /\ wpc[w] = "engine"
    /\ Settle(w)
    /\ UNCHANGED <<row, profileSet, artifacts, results, queue, api, notices, faults>>

\* The engine is down, times out or refuses.
EngineFails(w) ==
    /\ wpc[w] = "engine"
    /\ Step(w, "reset")
    /\ UNCHANGED <<row, profileSet, artifacts, results, queue, work, api, notices, faults>>

\* Variant: the status is written before the result is saved.
SaveResultLate(w) ==
    /\ wpc[w] = "save"
    /\ update_status(work[w].verdict)
    /\ Step(w, "status")
    /\ UNCHANGED <<exists, pendingTask, previousStatus, profileSet, artifacts, results, queue,
                   work, api, notices, faults>>

\* Variant: one row per release, overwritten by each verification.
SaveResultUpsert(w) ==
    /\ wpc[w] = "save"
    /\ IF exists
       THEN /\ results' = <<[task    |-> work[w].task,
                             verdict |-> work[w].verdict,
                             arts    |-> work[w].arts]>>
            /\ Step(w, "status")
       ELSE /\ Step(w, "reset")
            /\ UNCHANGED results
    /\ UNCHANGED <<row, profileSet, artifacts, queue, work, api, notices, faults>>

\* verification_repo.save: the foreign key fails once the release is deleted.
SaveResult(w) ==
    /\ wpc[w] = "save"
    /\ IF exists
       THEN /\ results' = Append(results, [task    |-> work[w].task,
                                           verdict |-> work[w].verdict,
                                           arts    |-> work[w].arts])
            /\ Step(w, "status")
       ELSE /\ Step(w, "reset")
            /\ UNCHANGED results
    /\ UNCHANGED <<row, profileSet, artifacts, queue, work, api, notices, faults>>

\* update_status(release_id, final_status), whatever the status is by now.
WriteVerdict(w) ==
    /\ wpc[w] = "status"
    /\ update_status(work[w].verdict)
    /\ Step(w, "notify")
    /\ UNCHANGED <<exists, pendingTask, previousStatus, profileSet, artifacts, results, queue,
                   work, api, notices, faults>>

\* Variant: the exception handlers only raise.
RaiseOnly(w) ==
    /\ wpc[w] = "reset"
    /\ Settle(w)
    /\ UNCHANGED <<row, profileSet, artifacts, results, queue, api, notices, faults>>

\* The exception handlers: back to PENDIENTE, and the task fails.
ResetPending(w) ==
    /\ wpc[w] = "reset"
    /\ update_status("PENDIENTE")
    /\ Settle(w)
    /\ UNCHANGED <<exists, pendingTask, previousStatus, profileSet, artifacts, results, queue,
                   api, notices, faults>>

\* Variant: the status before the launch is not looked at.
IsScheduledFailure(w) ==
    /\ sent[work[w].task] = "scheduled"
    /\ work[w].verdict = "NO_VALIDA"

\* _is_drift and the choice of event in _notify_user.
IsDrift(w) ==
    /\ sent[work[w].task] = "scheduled"
    /\ work[w].verdict = "NO_VALIDA"
    /\ work[w].prev \in Positive

Notify(w) ==
    /\ wpc[w] = "notify"
    /\ LET event == IF IsDrift(w) THEN "DRIFT_DETECTED"
                    ELSE IF work[w].verdict \in Positive THEN "RELEASE_VALIDATED"
                    ELSE "RELEASE_INVALIDATED"
       IN  notices' = notices \union {[event |-> event, task |-> work[w].task]}
    /\ Settle(w)
    /\ UNCHANGED <<row, profileSet, artifacts, results, queue, api, faults>>

-----------------------------------------------------------------------------
(* Faults                                                                  *)

Fault == faults < MaxFaults /\ faults' = faults + 1

\* The API process dies, the broker refuses the task or a commit fails: no
\* handler undoes the writes it has already made.
HandlerAborts(h) ==
    /\ Fault
    /\ pc[h] # "idle"
    /\ Return(h)
    /\ UNCHANGED <<row, profileSet, artifacts, results, queue, wrk, notices>>

\* A commit fails between the engine's answer and the final status.
SaveFails(w) ==
    /\ Fault
    /\ wpc[w] \in {"save", "status"}
    /\ Step(w, "reset")
    /\ UNCHANGED <<row, profileSet, artifacts, results, queue, work, api, notices>>

\* An exception no handler catches, or the loss of the worker process, which
\* Celery takes for a failure: the task is gone and the status as it was.
WorkerLost(w) ==
    /\ Fault
    /\ wpc[w] # "idle"
    /\ Settle(w)
    /\ UNCHANGED <<row, profileSet, artifacts, results, queue, api, notices>>

\* The broker, which has no acknowledgement yet, loses the connection or its
\* patience and delivers the task again; its first worker may still be at it.
Redeliver(w) ==
    /\ Fault
    /\ wpc[w] # "idle"
    /\ queued' = queued \union {work[w].task}
    /\ UNCHANGED <<row, profileSet, artifacts, results, launches, sent, revoked, api, wrk,
                   notices>>

-----------------------------------------------------------------------------
HandlerStep(h) ==
    \/ (pc[h] = "l_read" /\ Launch(h))
    \/ SkipLaunch(h) \/ ParkPrevious(h) \/ MarkRunning(h) \/ Enqueue(h) \/ StoreTask(h)
    \/ Revoke(h) \/ RevertStatus(h) \/ ClearTask(h)
    \/ WriteRow(h)

Request(h) ==
    \/ (pc[h] = "idle" /\ Launch(h))
    \/ SweepPick(h) \/ Cancel(h) \/ Rename(h) \/ SetStatus(h) \/ Restore(h)

WorkerStep(w) ==
    \/ Take(w) \/ Load(w) \/ CallEngine(w) \/ EngineFails(w)
    \/ SaveResult(w) \/ WriteVerdict(w) \/ ResetPending(w) \/ Notify(w)

Next ==
    \/ \E h \in Handlers : HandlerStep(h) \/ Request(h) \/ HandlerAborts(h)
    \/ Archive \/ Delete \/ AddArtifact \/ RemoveArtifact \/ DeleteProfile
    \/ Discard
    \/ \E w \in Workers : WorkerStep(w) \/ Terminate(w) \/ SaveFails(w)
       \/ WorkerLost(w) \/ Redeliver(w)

Spec == Init /\ [][Next]_vars

\* Handlers and workers that have started go on: the event loop resumes an
\* await that has completed, and every HTTP call has a timeout.  Nobody is
\* obliged to send a request, and a revoke may never arrive.
Fairness ==
    /\ \A h \in Handlers : WF_vars(HandlerStep(h))
    /\ \A w \in Workers : WF_vars(WorkerStep(w))

FairSpec == Spec /\ Fairness

-----------------------------------------------------------------------------
(* Safety                                                                  *)

\* The verdicts that have been issued for the release.
Ledger == {results[i].verdict : i \in DOMAIN results}

\* What a cancellation, now or already under way, will put the release back to.
Rollbacks ==
    ({previousStatus} \ {None})
      \union {local[h].status : h \in {g \in Handlers : pc[g] \in {"c_revoke", "c_status"}}}

\* However launches, sweeps, cancellations, stale PATCHes and archivals cut into
\* each other, a release in verification has a status to go back to, and going
\* back never ends where no launch is accepted, nor at a verdict that no result
\* has: launches pass their checks long before they park what they have read.
RollbackTarget ==
    /\ status = "EN_VERIFICACION" => previousStatus # None
    /\ \A s \in Rollbacks :
          /\ s \in Launchable
          /\ exists /\ s \in Verdicts => s \in Ledger

\* "El estado solo puede ser asignado por el motor": a release that shows a
\* verdict has a saved result with that verdict, whichever stale copy of the
\* row, rollback or duplicate task wrote its status last.
VerdictBacked ==
    status \in Verdicts => status \in Ledger

\* A drift alert is about a scheduled task whose own result is NO_VALIDA and
\* comes after a positive result of the same release.
DriftBacked ==
    exists => \A n \in notices : n.event = "DRIFT_DETECTED" =>
        \E i, j \in DOMAIN results :
            /\ i < j
            /\ results[i].verdict \in Positive
            /\ results[j].verdict = "NO_VALIDA"
            /\ results[j].task = n.task

\* A task that still has its final status write before it.
Unfinished(t) ==
    \/ t \in queued
    \/ \E w \in Workers : work[w].task = t /\ wpc[w] \in {"load", "engine", "save", "status", "reset"}

\* EN_VERIFICACION is never left behind: some task that nobody has revoked
\* will still write the status, or a handler is on its way to do so.
NeverOrphaned ==
    status = "EN_VERIFICACION" =>
        \/ \E t \in TaskIds \ revoked : Unfinished(t)
        \/ \E h \in Handlers : pc[h] \in {"l_enqueue", "c_status"}

\* The broker never runs a task twice unless a worker was lost: each launch
\* accounts for one result at most.
OneResultPerLaunch ==
    faults = 0 => \A i, j \in DOMAIN results : results[i].task = results[j].task => i = j

\* With requests served one at a time, no fault and no profile deleted, a release
\* that is in verification and has no request under way can be cancelled: its task
\* is known, nobody has revoked it, it has still to write the status, and the
\* status to go back to is known.
Cancellable ==
    (status = "EN_VERIFICACION" /\ faults = 0 /\ profileSet
        /\ \A h \in Handlers : pc[h] = "idle") =>
        /\ pendingTask \in TaskIds \ revoked
        /\ Unfinished(pendingTask)
        /\ previousStatus # None

-----------------------------------------------------------------------------
(* Refinement: the result table is the ledger of ReleaseLedger.            *)

Promise == INSTANCE ReleaseLedger WITH
    OtherStatus <- Manual \union {"EN_VERIFICACION"},
    Fresh       <- "BORRADOR",
    live        <- exists,
    shown       <- status,
    ledger      <- Ledger

\* Every step of handlers and workers issues a verdict, shows a status it may
\* show, erases the release, or is invisible to the readers of the release.
KeepsPromise == Promise!Spec

-----------------------------------------------------------------------------
(* Liveness                                                                *)

\* A verification ends: the release leaves EN_VERIFICACION.
VerificationEnds ==
    status = "EN_VERIFICACION" ~> status # "EN_VERIFICACION"
=============================================================================
