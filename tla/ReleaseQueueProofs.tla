------------------------- MODULE ReleaseQueueProofs -------------------------
(***************************************************************************)
(* Where the tasks of ReleaseVerification are, for any number of handlers, *)
(* workers and launches: no launch has two results (OnceAndDone), a        *)
(* release in verification is never left behind (NoOrphan) and can be      *)
(* cancelled (CancelFindsTask).                                            *)
(***************************************************************************)
EXTENDS ReleaseVerificationProofs

-----------------------------------------------------------------------------
(* A launch draws a number nobody else has; the task it sends under that   *)
(* number cannot have been revoked before, for only ids of tasks that were *)
(* sent are ever stored, read by a cancellation and revoked.               *)

Launching == {"l_park", "l_mark", "l_enqueue"}

\* Tasks sent so far.
Sent == {t \in TaskIds : sent[t] # None}

\* Numbers not yet drawn are unused.
FreshNumbers == \A t \in Sent : t <= launches

\* A launch has its number to itself until it sends the task.
LaunchOwns ==
    /\ \A h \in Handlers : pc[h] \in Launching =>
          local[h].task <= launches /\ local[h].task \notin Sent
    /\ \A h, g \in Handlers :
          (pc[h] \in Launching /\ pc[g] \in Launching /\ h # g) => local[h].task # local[g].task

\* Task ids that are stored, about to be stored or revoked were sent.
KnownSent ==
    /\ revoked \subseteq Sent
    /\ pendingTask \in Sent \union {NoTask}
    /\ \A h \in Handlers :
          pc[h] \in {"l_store", "c_revoke"} => local[h].task \in Sent \union {NoTask}

TaskInv == FreshNumbers /\ LaunchOwns /\ KnownSent

\* Steps that send nothing, store nothing, revoke nothing and start no launch.
TaskFrame ==
    /\ UNCHANGED <<launches, sent, revoked>>
    /\ pendingTask' \in {pendingTask, NoTask}
    /\ \A h \in Handlers :
          /\ pc'[h] \in Launching => pc[h] \in Launching
          /\ pc'[h] \in Launching \union {"l_store", "c_revoke"} =>
                local'[h].task = local[h].task
          /\ pc'[h] \in {"l_store", "c_revoke"} => pc'[h] = pc[h]

LEMMA TaskFramed ==
    ASSUME TaskInv, TaskFrame
    PROVE  TaskInv'
<1>1. Sent' = Sent
      BY DEF TaskFrame, Sent
<1>2. FreshNumbers'
      BY <1>1 DEF TaskFrame, TaskInv, FreshNumbers
<1>3. LaunchOwns'
      BY <1>1 DEF TaskFrame, TaskInv, LaunchOwns
<1>4. KnownSent'
      BY <1>1 DEF TaskFrame, TaskInv, KnownSent
<1>5. QED BY <1>2, <1>3, <1>4 DEF TaskInv

LEMMA TaskHandler ==
    ASSUME TypeInv, TaskInv, NEW h \in Handlers,
           HandlerStep(h) \/ Request(h) \/ HandlerAborts(h)
    PROVE  TaskInv'
<1> USE NoTaskIsNoId DEF row, api, queue, wrk, Goto, Return
<1>1. /\ \A g \in Handlers : local[g].task \in TaskIds \union {NoTask}
      /\ \A g \in Handlers : pc[g] \in Launching => local[g].task \in TaskIds
      BY DEF TypeInv, TypeOK, PcOK, Local, LaunchPcs, Launching
<1>2. CASE Launch(h)
      <2>1. launches + 1 \in TaskIds /\ launches \in Nat
            BY <1>2, BoundsAssumption DEF Launch, TaskIds, TypeInv, TypeOK
      <2>2. /\ local'[h].task = launches + 1
            /\ pc'[h] = "l_park"
            /\ \A g \in Handlers : g # h => local'[g] = local[g] /\ pc'[g] = pc[g]
            /\ launches' = launches + 1
            /\ UNCHANGED <<sent, revoked, pendingTask>>
            BY <1>2 DEF Launch, TypeInv, TypeOK, Local
      <2>3. Sent' = Sent /\ Sent \subseteq TaskIds /\ TaskIds \subseteq Nat
            BY <2>2 DEF Sent, TaskIds
      <2>4. launches + 1 \notin Sent
            BY <2>1, <2>3 DEF TaskInv, FreshNumbers
      <2>5. \A g \in Handlers : pc[g] \in Launching =>
               /\ local[g].task \in Nat /\ local[g].task <= launches
               /\ local[g].task # launches + 1
               /\ local[g].task \notin Sent
            <3>1. \A g \in Handlers : pc[g] \in Launching =>
                     local[g].task \in Nat /\ local[g].task <= launches
                  BY <1>1, <2>3 DEF TaskInv, LaunchOwns
            <3>2. QED BY <2>1, <3>1 DEF TaskInv, LaunchOwns
      <2>6. FreshNumbers'
            <3>1. ASSUME NEW t \in Sent
                  PROVE  t <= launches + 1
                  <4>1. t \in Nat /\ t <= launches
                        BY <2>3 DEF TaskInv, FreshNumbers
                  <4>2. QED BY <4>1, <2>1
            <3>2. QED BY <3>1, <2>2, <2>3 DEF FreshNumbers
      <2>7. LaunchOwns'
            <3>1. ASSUME NEW g \in Handlers, pc'[g] \in Launching
                  PROVE  local'[g].task <= launches' /\ local'[g].task \notin Sent'
                  <4>1. CASE g = h
                        BY <4>1, <2>1, <2>2, <2>3, <2>4
                  <4>2. CASE g # h
                        BY <3>1, <4>2, <2>1, <2>2, <2>3, <2>5
                  <4>3. QED BY <4>1, <4>2
            <3>2. \A g, k \in Handlers :
                     (pc'[g] \in Launching /\ pc'[k] \in Launching /\ g # k)
                        => local'[g].task # local'[k].task
                  BY <2>2, <2>5 DEF TaskInv, LaunchOwns
            <3>3. QED BY <3>1, <3>2 DEF LaunchOwns
      <2>8. KnownSent'
            BY <2>2, <2>3 DEF TaskInv, KnownSent
      <2>9. QED BY <2>6, <2>7, <2>8 DEF TaskInv
<1>3. CASE Enqueue(h)
      <2> DEFINE t == local[h].task
      <2>1. t \in TaskIds /\ t \notin Sent /\ t <= launches
            BY <1>1, <1>3 DEF Enqueue, TaskInv, LaunchOwns, Launching
      <2>2. /\ pc'[h] = "l_store"
            /\ \A g \in Handlers : g # h => pc'[g] = pc[g]
            /\ UNCHANGED <<local, launches, revoked, pendingTask>>
            BY <1>3 DEF Enqueue, TypeInv, TypeOK
      <2>3. local[h].trigger # None
            BY DEF TypeInv, TypeOK, Local, Triggers, None
      <2>4. Sent' = Sent \union {t}
            BY <1>3, <2>1, <2>3 DEF Enqueue, Sent, TypeInv, TypeOK
      <2>5. FreshNumbers'
            BY <2>1, <2>2, <2>4 DEF TaskInv, FreshNumbers
      <2>6. LaunchOwns'
            BY <1>3, <2>1, <2>2, <2>4 DEF Enqueue, TaskInv, LaunchOwns, Launching
      <2>7. KnownSent'
            BY <2>2, <2>4 DEF TaskInv, KnownSent
      <2>8. QED BY <2>5, <2>6, <2>7 DEF TaskInv
<1>4. CASE StoreTask(h)
      <2>1. /\ pendingTask' \in {pendingTask, local[h].task}
            /\ pc'[h] = "idle"
            /\ \A g \in Handlers : g # h => pc'[g] = pc[g] /\ local'[g] = local[g]
            /\ UNCHANGED <<launches, sent, revoked>>
            /\ local[h].task \in Sent \union {NoTask}
            BY <1>4 DEF StoreTask, TypeInv, TypeOK, TaskInv, KnownSent
      <2>2. Sent' = Sent
            BY <2>1 DEF Sent
      <2>3. QED BY <2>1, <2>2 DEF TaskInv, FreshNumbers, LaunchOwns, KnownSent, Launching
<1>5. CASE Cancel(h)
      <2>1. /\ local'[h].task = pendingTask
            /\ pc'[h] = "c_revoke"
            /\ \A g \in Handlers : g # h => pc'[g] = pc[g] /\ local'[g] = local[g]
            /\ UNCHANGED <<launches, sent, revoked, pendingTask>>
            BY <1>5 DEF Cancel, TypeInv, TypeOK, Local
      <2>2. Sent' = Sent
            BY <2>1 DEF Sent
      <2>3. QED BY <2>1, <2>2 DEF TaskInv, FreshNumbers, LaunchOwns, KnownSent, Launching
<1>6. CASE Revoke(h)
      <2>1. /\ revoked' = revoked \union ({local[h].task} \ {NoTask})
            /\ local[h].task \in Sent \union {NoTask}
            /\ pc'[h] = "c_status"
            /\ \A g \in Handlers : g # h => pc'[g] = pc[g]
            /\ UNCHANGED <<launches, sent, local, pendingTask>>
            BY <1>6 DEF Revoke, TypeInv, TypeOK, TaskInv, KnownSent
      <2>2. Sent' = Sent
            BY <2>1 DEF Sent
      <2>3. QED BY <2>1, <2>2 DEF TaskInv, FreshNumbers, LaunchOwns, KnownSent, Launching
<1>7. CASE \/ SkipLaunch(h) \/ ParkPrevious(h) \/ MarkRunning(h)
           \/ RevertStatus(h) \/ ClearTask(h) \/ HandlerAborts(h)
      <2>1. TaskFrame
            BY <1>7 DEF SkipLaunch, ParkPrevious, MarkRunning, RevertStatus, ClearTask,
                        HandlerAborts, TaskFrame, TypeInv, TypeOK, Launching
      <2>2. QED BY <2>1, TaskFramed
<1>8. CASE SweepPick(h) \/ Rename(h) \/ SetStatus(h) \/ Restore(h) \/ WriteRow(h)
      <2>1. TaskFrame
            BY <1>8 DEF SweepPick, Rename, SetStatus, Restore, WriteRow,
                        TaskFrame, TypeInv, TypeOK, Launching
      <2>2. QED BY <2>1, TaskFramed
<1>9. QED
      BY <1>2, <1>3, <1>4, <1>5, <1>6, <1>7, <1>8 DEF HandlerStep, Request

LEMMA TaskNext == TypeInv /\ TaskInv /\ [Next]_vars => TaskInv'
<1> SUFFICES ASSUME TypeInv, TaskInv, [Next]_vars PROVE TaskInv'
    OBVIOUS
<1> USE DEF row, api, queue, wrk
<1>1. CASE UNCHANGED vars
      <2>1. TaskFrame
            BY <1>1 DEF vars, TaskFrame
      <2>2. QED BY <2>1, TaskFramed
<1>2. CASE Archive \/ Delete \/ AddArtifact \/ RemoveArtifact \/ DeleteProfile \/ Discard
      <2>1. TaskFrame
            BY <1>2 DEF Archive, Delete, AddArtifact, RemoveArtifact, DeleteProfile, Discard,
                        TaskFrame
      <2>2. QED BY <2>1, TaskFramed
<1>3. ASSUME NEW w \in Workers,
             WorkerStep(w) \/ Terminate(w) \/ SaveFails(w) \/ WorkerLost(w) \/ Redeliver(w)
      PROVE  TaskInv'
      <2>1. TaskFrame
            BY <1>3 DEF WorkerStep, Take, Load, CallEngine, EngineFails, SaveResult,
               WriteVerdict, ResetPending, Notify, Terminate, SaveFails, WorkerLost, Redeliver,
               TaskFrame
      <2>2. QED BY <2>1, TaskFramed
<1>4. QED BY <1>1, <1>2, <1>3, TaskHandler DEF Next

LEMMA TaskInvariance == Spec => []TaskInv
<1>1. Init => TaskInv
      BY DEF Init, TaskInv, FreshNumbers, LaunchOwns, KnownSent, Launching, Sent
<1>2. QED BY <1>1, TypeInvariance, TaskNext, PTL DEF Spec

-----------------------------------------------------------------------------
(* One result per launch.  Without faults a task is in one place at a time: *)
(* on its way, in the queue, with one worker, or done; and a worker that is *)
(* still to save its result finds none of its task in the table.            *)

InPlace ==
    /\ queued \subseteq Sent
    /\ \A w \in Workers : wpc[w] # "idle" => work[w].task \in Sent \ queued
    /\ \A v, w \in Workers :
          (wpc[v] # "idle" /\ wpc[w] # "idle" /\ v # w) => work[v].task # work[w].task
    /\ \A i \in DOMAIN results : results[i].task \in Sent \ queued
    /\ \A w \in Workers, i \in DOMAIN results :
          wpc[w] \in {"load", "engine", "save"} => results[i].task # work[w].task
    /\ \A i, j \in DOMAIN results : results[i].task = results[j].task => i = j

OnceInv == faults = 0 => InPlace

\* Steps that send, deliver and save nothing.
OnceFrame ==
    /\ faults' = 0 => faults = 0
    /\ sent' = sent
    /\ queued' \subseteq queued
    /\ results' \in {results, <<>>}
    /\ \A w \in Workers :
          /\ wpc'[w] # "idle" => wpc[w] # "idle" /\ work'[w].task = work[w].task
          /\ wpc'[w] \in {"load", "engine", "save"} => wpc[w] \in {"load", "engine", "save"}

LEMMA OnceFramed ==
    ASSUME OnceInv, OnceFrame
    PROVE  OnceInv'
<1>1. SUFFICES ASSUME InPlace PROVE InPlace'
      BY DEF OnceInv, OnceFrame
<1>2. Sent' = Sent /\ DOMAIN <<>> = {}
      BY DEF OnceFrame, Sent
<1>3. CASE results' = results
      BY <1>1, <1>2, <1>3 DEF OnceFrame, InPlace
<1>4. CASE results' = <<>>
      BY <1>1, <1>2, <1>4 DEF OnceFrame, InPlace
<1>5. QED BY <1>3, <1>4 DEF OnceFrame

LEMMA OnceEnqueue ==
    ASSUME TypeInv, TaskInv, OnceInv, NEW h \in Handlers, Enqueue(h)
    PROVE  OnceInv'
<1>1. SUFFICES ASSUME InPlace PROVE InPlace'
      BY DEF OnceInv, Enqueue
<1>2. PICK t : t = local[h].task
      OBVIOUS
<1>3. t \in TaskIds /\ t \notin Sent
      BY <1>2, NoTaskIsNoId
      DEF Enqueue, TaskInv, LaunchOwns, Launching, TypeInv, TypeOK, PcOK, LaunchPcs, Local
<1>4. local[h].trigger # None
      BY DEF TypeInv, TypeOK, Local, Triggers, None
<1>5. /\ queued' = queued \union {t} /\ Sent' = Sent \union {t}
      /\ UNCHANGED <<results, wpc, work>>
      BY <1>2, <1>3, <1>4 DEF Enqueue, Sent, TypeInv, TypeOK, wrk
<1>6. QED BY <1>1, <1>3, <1>5 DEF InPlace

LEMMA OnceTake ==
    ASSUME TypeInv, OnceInv, NEW w \in Workers, Take(w)
    PROVE  OnceInv'
<1>1. SUFFICES ASSUME InPlace PROVE InPlace'
      BY DEF OnceInv, Take
<1>2. PICK t \in queued : queued' = queued \ {t} /\ work' = [work EXCEPT ![w].task = t]
      BY DEF Take
<1>3. /\ work'[w].task = t /\ wpc'[w] = "load" /\ wpc[w] = "idle"
      /\ \A v \in Workers : v # w => work'[v] = work[v] /\ wpc'[v] = wpc[v]
      /\ UNCHANGED <<results, sent>>
      BY <1>2 DEF Take, Step, TypeInv, TypeOK, Work
<1>4. Sent' = Sent
      BY <1>3 DEF Sent
<1>5. /\ queued' \subseteq Sent'
      /\ \A v \in Workers : wpc'[v] # "idle" => work'[v].task \in Sent' \ queued'
      /\ \A i \in DOMAIN results' : results'[i].task \in Sent' \ queued'
      BY <1>1, <1>2, <1>3, <1>4 DEF InPlace
<1>6. \A v \in Workers : (wpc[v] # "idle" /\ v # w) => work[v].task # t
      BY <1>1 DEF InPlace
<1>7. \A i \in DOMAIN results : results[i].task # t
      BY <1>1 DEF InPlace
<1>8. QED BY <1>1, <1>3, <1>5, <1>6, <1>7 DEF InPlace

LEMMA OnceSave ==
    ASSUME TypeInv, OnceInv, NEW w \in Workers, SaveResult(w)
    PROVE  OnceInv'
<1> USE DEF row, api, queue
<1>1. SUFFICES ASSUME InPlace PROVE InPlace'
      BY DEF OnceInv, SaveResult
<1>2. /\ UNCHANGED <<sent, queued, work>> /\ wpc[w] = "save" /\ wpc'[w] \in {"status", "reset"}
      /\ \A v \in Workers : v # w => wpc'[v] = wpc[v]
      BY DEF SaveResult, Step, TypeInv, TypeOK
<1>3. Sent' = Sent
      BY <1>2 DEF Sent
<1>4. CASE ~ exists
      BY <1>1, <1>2, <1>3, <1>4 DEF SaveResult, InPlace
<1>5. CASE exists
      <2> DEFINE r == [task |-> work[w].task, verdict |-> work[w].verdict,
                       arts |-> work[w].arts]
      <2>1. r \in Result /\ r.task = work[w].task
            BY <1>2, NoneIsNoStatus, NoTaskIsNoId DEF TypeInv, TypeOK, PcOK, Work, Result
      <2>2. results' = Append(results, r) /\ results \in Seq(Result)
            BY <1>5 DEF SaveResult, TypeInv, TypeOK
      <2> HIDE DEF r
      <2>3. PICK n \in Nat : /\ DOMAIN results = 1..n /\ DOMAIN results' = 1..(n + 1)
                             /\ results'[n + 1] = r
                             /\ \A i \in 1..n : results'[i] = results[i]
            BY <2>1, <2>2, ResultAppend
      <2>4. \A i \in DOMAIN results' :
               (i \in 1..n /\ results'[i] = results[i]) \/ (i = n + 1 /\ results'[i] = r)
            BY <2>3
      <2>5. \A i \in DOMAIN results : results[i].task # r.task
            BY <1>1, <1>2, <2>1 DEF InPlace
      <2>6. \A i \in DOMAIN results' : results'[i].task \in Sent' \ queued'
            BY <1>1, <1>2, <1>3, <2>1, <2>3, <2>4 DEF InPlace
      <2>7. ASSUME NEW v \in Workers, NEW i \in DOMAIN results',
                   wpc'[v] \in {"load", "engine", "save"}
            PROVE  results'[i].task # work'[v].task
            <3>1. v # w /\ wpc[v] = wpc'[v] /\ work[v].task # work[w].task
                  BY <1>1, <1>2, <2>7 DEF InPlace
            <3>2. QED BY <1>1, <1>2, <2>1, <2>3, <2>4, <2>7, <3>1 DEF InPlace
      <2>8. ASSUME NEW i \in DOMAIN results', NEW j \in DOMAIN results',
                   results'[i].task = results'[j].task
            PROVE  i = j
            <3>1. \A k, l \in 1..n : results[k].task = results[l].task => k = l
                  BY <1>1, <2>3 DEF InPlace
            <3>2. \A k \in 1..n : results[k].task # r.task
                  BY <2>3, <2>5
            <3>3. QED BY <2>4, <2>8, <3>1, <3>2
      <2>9. QED BY <1>1, <1>2, <1>3, <2>6, <2>7, <2>8 DEF InPlace
<1>6. QED BY <1>4, <1>5

LEMMA OnceNext == TypeInv /\ TaskInv /\ OnceInv /\ [Next]_vars => OnceInv'
<1> SUFFICES ASSUME TypeInv, TaskInv, OnceInv, [Next]_vars PROVE OnceInv'
    OBVIOUS
<1> USE DEF row, api, queue, wrk
<1>1. CASE UNCHANGED vars
      <2>1. OnceFrame
            BY <1>1 DEF vars, OnceFrame
      <2>2. QED BY <2>1, OnceFramed
<1>2. faults \in Nat
      BY BoundsAssumption DEF TypeInv, TypeOK
<1>3. ASSUME NEW h \in Handlers, HandlerStep(h) \/ Request(h) \/ HandlerAborts(h)
      PROVE  OnceInv'
      <2>1. CASE Enqueue(h)
            BY <2>1, OnceEnqueue
      <2>2. CASE ~ Enqueue(h)
            <3>1. OnceFrame
                  BY <1>2, <1>3, <2>2 DEF HandlerStep, Request, SweepPick, Launch, SkipLaunch,
                     ParkPrevious, MarkRunning, StoreTask, Cancel, Revoke, RevertStatus,
                     ClearTask, Rename, SetStatus, Restore, WriteRow, HandlerAborts, Fault,
                     OnceFrame
            <3>2. QED BY <3>1, OnceFramed
      <2>3. QED BY <2>1, <2>2
<1>4. CASE Archive \/ Delete \/ AddArtifact \/ RemoveArtifact \/ DeleteProfile \/ Discard
      <2>1. OnceFrame
            BY <1>4 DEF Archive, Delete, AddArtifact, RemoveArtifact, DeleteProfile, Discard,
               OnceFrame
      <2>2. QED BY <2>1, OnceFramed
<1>5. ASSUME NEW w \in Workers,
             WorkerStep(w) \/ Terminate(w) \/ SaveFails(w) \/ WorkerLost(w) \/ Redeliver(w)
      PROVE  OnceInv'
      <2> USE DEF TypeInv, TypeOK, Step
      <2>1. CASE Take(w) \/ SaveResult(w)
            BY <2>1, OnceTake, OnceSave
      <2>2. CASE Load(w)
            <3>1. UNCHANGED <<faults, sent, queued, results>> /\ wpc[w] = "load"
                  BY <2>2 DEF Load
            <3>2. wpc'[w] # "idle" => work'[w].task = work[w].task
                  BY <2>2, Settled DEF Load, Work
            <3>3. \A v \in Workers : v # w => wpc'[v] = wpc[v] /\ work'[v] = work[v]
                  BY <2>2, Settled DEF Load
            <3>4. OnceFrame
                  BY <3>1, <3>2, <3>3 DEF OnceFrame
            <3>5. QED BY <3>4, OnceFramed
      <2>3. CASE CallEngine(w)
            <3>1. OnceFrame
                  BY <2>3 DEF CallEngine, OnceFrame, Work
            <3>2. QED BY <3>1, OnceFramed
      <2>4. CASE EngineFails(w) \/ WriteVerdict(w)
            <3>1. OnceFrame
                  BY <2>4 DEF EngineFails, WriteVerdict, OnceFrame
            <3>2. QED BY <3>1, OnceFramed
      <2>5. CASE ResetPending(w) \/ Notify(w) \/ Terminate(w)
            <3>1. OnceFrame
                  BY <2>5, Settled DEF ResetPending, Notify, Terminate, OnceFrame
            <3>2. QED BY <3>1, OnceFramed
      <2>6. CASE SaveFails(w) \/ WorkerLost(w) \/ Redeliver(w)
            <3>1. faults' # 0
                  BY <1>2, <2>6 DEF SaveFails, WorkerLost, Redeliver, Fault
            <3>2. QED BY <3>1 DEF OnceInv
      <2>7. QED BY <1>5, <2>1, <2>2, <2>3, <2>4, <2>5, <2>6 DEF WorkerStep
<1>6. QED BY <1>1, <1>3, <1>4, <1>5 DEF Next

\* Unless something crashed or was delivered twice, no launch has two results,
\* whatever handlers and workers overlap.
THEOREM OnceAndDone == Spec => []OneResultPerLaunch
<1>1. Init => OnceInv
      BY DEF Init, OnceInv, InPlace, Sent
<1>2. OnceInv => OneResultPerLaunch
      BY DEF OnceInv, InPlace, OneResultPerLaunch
<1>3. QED BY <1>1, <1>2, TypeInvariance, TaskInvariance, OnceNext, PTL DEF Spec

-----------------------------------------------------------------------------
(* No release is left behind, provided nothing crashes, the profile stays  *)
(* and no PATCH writes back a status it has read.                          *)

Undisturbed == MaxFaults = 0 /\ "rename" \notin Ops /\ "profile" \notin Ops

QuietInv ==
    /\ profileSet
    /\ \A h \in Handlers : pc[h] = "u_write" => local[h].status \in Manual

LEMMA QuietNext ==
    Undisturbed /\ TypeInv /\ QuietInv /\ [Next]_vars => QuietInv'
<1> SUFFICES ASSUME Undisturbed, TypeInv, QuietInv, [Next]_vars PROVE QuietInv'
    OBVIOUS
<1> USE DEF QuietInv, TypeInv, TypeOK, row, api, queue, wrk, Goto, Return
<1>1. CASE UNCHANGED vars
      BY <1>1 DEF vars
<1>2. ASSUME NEW h \in Handlers, HandlerStep(h) \/ Request(h) \/ HandlerAborts(h)
      PROVE  QuietInv'
      <2>1. ~ Rename(h)
            BY DEF Undisturbed, Rename
      <2>2. CASE SetStatus(h) \/ Restore(h)
            <3>1. "BORRADOR" \in Manual
                  BY DEF Manual
            <3>2. QED BY <2>2, <3>1 DEF SetStatus, Restore, Local
      <2>3. CASE WriteRow(h) \/ SweepPick(h) \/ Launch(h) \/ Cancel(h)
            BY <2>3 DEF WriteRow, SweepPick, Launch, Cancel
      <2>4. CASE SkipLaunch(h) \/ ParkPrevious(h) \/ MarkRunning(h) \/ Enqueue(h) \/ StoreTask(h)
            BY <2>4 DEF SkipLaunch, ParkPrevious, MarkRunning, Enqueue, StoreTask
      <2>5. CASE Revoke(h) \/ RevertStatus(h) \/ ClearTask(h) \/ HandlerAborts(h)
            BY <2>5 DEF Revoke, RevertStatus, ClearTask, HandlerAborts
      <2>6. QED BY <1>2, <2>1, <2>2, <2>3, <2>4, <2>5 DEF HandlerStep, Request
<1>3. CASE Archive \/ Delete \/ AddArtifact \/ RemoveArtifact \/ DeleteProfile \/ Discard
      BY <1>3 DEF Archive, Delete, AddArtifact, RemoveArtifact, DeleteProfile, Discard,
                  Undisturbed
<1>4. ASSUME NEW w \in Workers,
             WorkerStep(w) \/ Terminate(w) \/ SaveFails(w) \/ WorkerLost(w) \/ Redeliver(w)
      PROVE  QuietInv'
      BY <1>4 DEF WorkerStep, Take, Load, CallEngine, EngineFails, SaveResult, WriteVerdict,
                  ResetPending, Notify, Terminate, SaveFails, WorkerLost, Redeliver
<1>5. QED BY <1>1, <1>2, <1>3, <1>4 DEF Next

Support == TypeInv /\ TaskInv /\ QuietInv /\ RollbackInv /\ BackedInv

InProgress == "EN_VERIFICACION"

\* The statuses a handler or worker writes other than by MarkRunning.
LEMMA NotInProgress ==
    InProgress \notin Launchable \union Manual \union Verdicts
BY DEF InProgress, Launchable, Manual, Verdicts

\* A step that starts no verification keeps the release from being orphaned if
\* it keeps the pending work: unrevoked tasks stay unfinished and the handlers
\* that are about to enqueue or to roll back stay where they are.
LEMMA OrphanFramed ==
    ASSUME NeverOrphaned,
           status' = InProgress => status = InProgress,
           revoked' = revoked,
           \A t \in TaskIds \ revoked : Unfinished(t) => Unfinished(t)',
           \A h \in Handlers : pc[h] \in {"l_enqueue", "c_status"} => pc'[h] = pc[h]
    PROVE  NeverOrphaned'
BY DEF NeverOrphaned, InProgress

LEMMA OrphanHandler ==
    ASSUME Undisturbed, Support, NeverOrphaned, NEW h \in Handlers,
           HandlerStep(h) \/ Request(h) \/ HandlerAborts(h)
    PROVE  NeverOrphaned'
<1> USE DEF Support, TypeInv, TypeOK, row, api, queue, wrk, Goto, Return
<1>1. CASE MarkRunning(h)
      BY <1>1 DEF MarkRunning, NeverOrphaned
<1>2. CASE Enqueue(h)
      <2>1. local[h].task \in TaskIds /\ local[h].task \notin revoked
            BY <1>2, NoTaskIsNoId
            DEF Enqueue, TaskInv, LaunchOwns, KnownSent, Launching, PcOK, LaunchPcs, Local
      <2>2. local[h].task \in queued' /\ revoked' = revoked
            BY <1>2 DEF Enqueue
      <2>3. Unfinished(local[h].task)'
            BY <1>2, <2>2 DEF Unfinished, Enqueue
      <2>4. \E t \in TaskIds \ revoked' : Unfinished(t)'
            BY <1>2, <2>1, <2>2, <2>3 DEF Enqueue
      <2>5. QED BY <2>4 DEF NeverOrphaned
<1>3. CASE RevertStatus(h)
      <2>1. status' # InProgress
            BY <1>3, NotInProgress
            DEF RevertStatus, update_status, RollbackInv, BackedInv, InProgress
      <2>2. QED BY <2>1 DEF NeverOrphaned, InProgress
<1>4. CASE WriteRow(h)
      <2>1. status' # InProgress
            BY <1>4, NotInProgress DEF WriteRow, QuietInv, BackedInv, InProgress
      <2>2. QED BY <2>1 DEF NeverOrphaned, InProgress
<1>5. CASE Revoke(h)
      BY <1>5 DEF Revoke, NeverOrphaned
<1>6. CASE HandlerAborts(h)
      BY <1>6 DEF HandlerAborts, Fault, Undisturbed
<1>7. CASE \/ SweepPick(h) \/ Launch(h) \/ SkipLaunch(h) \/ ParkPrevious(h) \/ StoreTask(h)
           \/ Cancel(h) \/ ClearTask(h) \/ Rename(h) \/ SetStatus(h) \/ Restore(h)
      <2>1. /\ UNCHANGED <<status, queued, revoked, work, wpc>>
            /\ \A g \in Handlers : pc[g] \in {"l_enqueue", "c_status"} => pc'[g] = pc[g]
            BY <1>7 DEF SweepPick, Launch, SkipLaunch, ParkPrevious, StoreTask, Cancel,
                        ClearTask, Rename, SetStatus, Restore
      <2>2. \A t \in TaskIds : Unfinished(t) => Unfinished(t)'
            BY <2>1 DEF Unfinished
      <2>3. QED BY <2>1, <2>2, OrphanFramed
<1>8. QED
      BY <1>1, <1>2, <1>3, <1>4, <1>5, <1>6, <1>7 DEF HandlerStep, Request

LEMMA OrphanApi ==
    ASSUME Support, NeverOrphaned,
           Archive \/ Delete \/ AddArtifact \/ RemoveArtifact \/ DeleteProfile \/ Discard
    PROVE  NeverOrphaned'
<1> USE DEF row, api, queue, wrk
<1>1. CASE Archive \/ Delete
      BY <1>1 DEF Archive, Delete, NeverOrphaned
<1>2. CASE AddArtifact \/ RemoveArtifact \/ DeleteProfile \/ Discard
      <2>1. /\ UNCHANGED <<status, revoked, work, wpc, pc>>
            /\ queued \ revoked \subseteq queued'
            BY <1>2 DEF AddArtifact, RemoveArtifact, DeleteProfile, Discard
      <2>2. \A t \in TaskIds \ revoked : Unfinished(t) => Unfinished(t)'
            BY <2>1 DEF Unfinished
      <2>3. QED BY <2>1, <2>2, OrphanFramed
<1>3. QED BY <1>1, <1>2

LEMMA OrphanWorker ==
    ASSUME Undisturbed, Support, NeverOrphaned, NEW w \in Workers,
           WorkerStep(w) \/ Terminate(w) \/ SaveFails(w) \/ WorkerLost(w) \/ Redeliver(w)
    PROVE  NeverOrphaned'
<1> USE DEF Support, TypeInv, TypeOK, row, api, queue, wrk, Step, Settle
<1>1. CASE Take(w)
      <2>1. PICK t \in queued : /\ queued' = queued \ {t}
                                /\ work' = [work EXCEPT ![w].task = t]
            BY <1>1 DEF Take
      <2>2. /\ work'[w].task = t /\ wpc'[w] = "load"
            /\ \A v \in Workers : v # w => work'[v] = work[v] /\ wpc'[v] = wpc[v]
            BY <1>1, <2>1 DEF Take, Work
      <2>3. \A u \in TaskIds : Unfinished(u) => Unfinished(u)'
            BY <1>1, <2>1, <2>2 DEF Take, Unfinished
      <2>4. QED BY <1>1, <2>3, OrphanFramed DEF Take
<1>2. CASE Load(w)
      <2>1. CASE exists
            <3>1. /\ wpc[w] = "load" /\ wpc'[w] = "engine" /\ work'[w].task = work[w].task
                  /\ \A v \in Workers : v # w => work'[v] = work[v] /\ wpc'[v] = wpc[v]
                  BY <1>2, <2>1 DEF Load, QuietInv, Work
            <3>2. \A u \in TaskIds : Unfinished(u) => Unfinished(u)'
                  BY <1>2, <3>1 DEF Load, Unfinished
            <3>3. QED BY <1>2, <3>2, OrphanFramed DEF Load
      <2>2. CASE ~ exists
            BY <1>2, <2>2 DEF Load, BackedInv, NeverOrphaned
      <2>3. QED BY <2>1, <2>2
<1>3. CASE CallEngine(w) \/ EngineFails(w) \/ SaveResult(w)
      <2>1. /\ {wpc[w], wpc'[w]} \subseteq {"engine", "save", "status", "reset"}
            /\ work'[w].task = work[w].task
            /\ \A v \in Workers : v # w => work'[v] = work[v] /\ wpc'[v] = wpc[v]
            BY <1>3 DEF CallEngine, EngineFails, SaveResult, Work
      <2>2. UNCHANGED <<status, queued, revoked, pc>>
            BY <1>3 DEF CallEngine, EngineFails, SaveResult
      <2>3. \A u \in TaskIds : Unfinished(u) => Unfinished(u)'
            BY <2>1, <2>2 DEF Unfinished
      <2>4. QED BY <2>2, <2>3, OrphanFramed
<1>4. CASE WriteVerdict(w) \/ ResetPending(w)
      <2>1. work[w].verdict \in Verdicts \/ wpc[w] = "reset"
            BY <1>4 DEF WriteVerdict, ResetPending, PcOK, Work
      <2>2. "PENDIENTE" \in Manual
            BY DEF Manual
      <2>3. status' # InProgress
            BY <1>4, <2>1, <2>2, NotInProgress
            DEF WriteVerdict, ResetPending, update_status, BackedInv, InProgress
      <2>4. QED BY <2>3 DEF NeverOrphaned, InProgress
<1>5. CASE Notify(w) \/ Terminate(w)
      <2>1. /\ wpc[w] = "notify" \/ work[w].task \in revoked
            /\ UNCHANGED <<status, queued, revoked, pc>>
            /\ \A v \in Workers : v # w => work'[v] = work[v] /\ wpc'[v] = wpc[v]
            BY <1>5 DEF Notify, Terminate
      <2>2. \A u \in TaskIds \ revoked : Unfinished(u) => Unfinished(u)'
            BY <2>1 DEF Unfinished
      <2>3. QED BY <2>1, <2>2, OrphanFramed
<1>6. CASE SaveFails(w) \/ WorkerLost(w) \/ Redeliver(w)
      BY <1>6 DEF SaveFails, WorkerLost, Redeliver, Fault, Undisturbed
<1>7. QED
      BY <1>1, <1>2, <1>3, <1>4, <1>5, <1>6 DEF WorkerStep

\* A release in EN_VERIFICACION always has somebody who will take it out: a
\* task nobody has revoked that still has its status write before it, or a
\* launch about to send one, or a cancellation about to roll back.
THEOREM NoOrphan == ASSUME Undisturbed PROVE Spec => []NeverOrphaned
<1>1. Init => QuietInv /\ RollbackInv /\ NeverOrphaned
      BY DEF Undisturbed, Init, QuietInv, RollbackInv, NoLocal, None, NeverOrphaned
<1>2. Support /\ NeverOrphaned /\ [Next]_vars => NeverOrphaned'
      <2> SUFFICES ASSUME Support, NeverOrphaned, [Next]_vars PROVE NeverOrphaned'
          OBVIOUS
      <2>1. CASE UNCHANGED vars
            BY <2>1 DEF vars, row, api, queue, wrk, NeverOrphaned, Unfinished
      <2>2. CASE Next
            BY <2>2, OrphanHandler, OrphanApi, OrphanWorker DEF Next
      <2>3. QED BY <2>1, <2>2
<1>3. TypeInv /\ QuietInv /\ [Next]_vars => QuietInv'
      BY QuietNext
<1>4. QED
      BY <1>1, <1>2, <1>3, TypeInvariance, TaskInvariance, BackedInvariance, RollbackNext, PTL
      DEF Spec, Support

-----------------------------------------------------------------------------
(* A verification can be cancelled.  This takes requests that come one at  *)
(* a time and no PATCH that writes a stale status back; faults and the     *)
(* deletion of the profile are premises of the property itself.            *)

OneAtATime(processes) == \A a, b \in processes : a = b

Awaited(t) == t \in TaskIds \ revoked /\ Unfinished(t)

\* What stands behind a release that is in verification, step by step of the
\* request that is under way, if there is one.
Awaiting ==
    \/ \E h \in Handlers : pc[h] = "l_enqueue" /\ previousStatus # None
    \/ \E h \in Handlers : pc[h] = "l_store" /\ previousStatus # None /\ Awaited(local[h].task)
    \/ \E h \in Handlers : pc[h] = "c_status"
    \/ /\ \A h \in Handlers : pc[h] \in {"idle", "l_read", "u_write", "c_revoke"}
       /\ previousStatus # None
       /\ Awaited(pendingTask)

\* Where the property looks.
Watched == faults = 0 /\ profileSet /\ status = InProgress

CancelInv ==
    /\ \A h \in Handlers : pc[h] = "u_write" => local[h].status \in Manual
    /\ \A h \in Handlers : pc[h] = "l_mark" /\ exists => previousStatus # None
    /\ Watched => Awaiting

\* A step that leaves the requests and the columns alone, and no task finished
\* that is awaited, keeps the invariant.
LEMMA CancelFramed ==
    ASSUME CancelInv, UNCHANGED <<pc, local, previousStatus, pendingTask, revoked>>,
           exists' => exists,
           Watched' => Watched /\ \A t \in TaskIds \ revoked : Unfinished(t) => Unfinished(t)'
    PROVE  CancelInv'
<1>1. ASSUME Awaiting, \A t \in TaskIds \ revoked : Unfinished(t) => Unfinished(t)'
      PROVE  Awaiting'
      <2>1. \A t : Awaited(t) => Awaited(t)'
            BY <1>1 DEF Awaited
      <2>2. QED BY <1>1, <2>1 DEF Awaiting
<1>2. QED BY <1>1 DEF CancelInv

\* A step of the only request that writes none of the columns and sends nothing.
LEMMA CancelMoves ==
    ASSUME CancelInv, NEW h \in Handlers, \A g \in Handlers : g = h,
           UNCHANGED <<exists, status, previousStatus, pendingTask, revoked, queued, wpc, work,
                       faults, profileSet>>,
           {pc[h], pc'[h]} \subseteq {"idle", "l_read", "u_write", "c_revoke"},
           pc'[h] = "u_write" => local'[h].status \in Manual
    PROVE  CancelInv'
<1>1. \A t : Awaited(t)' <=> Awaited(t)
      BY DEF Awaited, Unfinished
<1>2. Awaiting => Awaiting'
      BY <1>1 DEF Awaiting
<1>3. Watched' => Watched
      BY DEF Watched
<1>4. QED BY <1>2, <1>3 DEF CancelInv

LEMMA CancelHandler ==
    ASSUME "rename" \notin Ops, TypeInv, TaskInv, RollbackInv, BackedInv, CancelInv,
           NEW h \in Handlers, \A g \in Handlers : g = h,
           HandlerStep(h) \/ Request(h) \/ HandlerAborts(h)
    PROVE  CancelInv'
<1> USE DEF row, api, queue, wrk, Goto, Return
<1>1. pc \in [Handlers -> HandlerPcs] /\ local \in [Handlers -> Local] /\ faults \in Nat
      BY BoundsAssumption DEF TypeInv, TypeOK
<1>2. CASE SweepPick(h) \/ SkipLaunch(h) \/ SetStatus(h) \/ Restore(h) \/ Cancel(h)
      <2>1. "BORRADOR" \in Manual
            BY DEF Manual
      <2>2. QED BY <1>1, <1>2, <2>1, CancelMoves
                DEF SweepPick, SkipLaunch, SetStatus, Restore, Cancel, Local
<1>3. CASE Launch(h)
      <2>1. pc'[h] = "l_park" /\ status' # InProgress
            BY <1>1, <1>3, NotInProgress DEF Launch, MayLaunch, InProgress
      <2>2. QED BY <2>1 DEF CancelInv, Watched
<1>4. CASE ParkPrevious(h)
      <2>1. ~ Watched
            BY <1>4 DEF ParkPrevious, CancelInv, Awaiting
      <2>2. ~ Watched'
            BY <1>4, <2>1 DEF ParkPrevious, Watched
      <2>3. pc'[h] \in {"l_mark", "idle"} /\ (pc'[h] = "l_mark" => previousStatus' # None)
            BY <1>1, <1>4 DEF ParkPrevious, TypeInv, PcOK
      <2>4. QED BY <2>2, <2>3 DEF CancelInv
<1>5. CASE MarkRunning(h)
      <2>1. pc[h] = "l_mark" /\ pc'[h] = "l_enqueue" /\ UNCHANGED <<exists, previousStatus>>
            BY <1>1, <1>5 DEF MarkRunning
      <2>2. ~ exists => status' # InProgress
            BY <1>5 DEF MarkRunning, update_status, BackedInv, InProgress
      <2>3. QED BY <2>1, <2>2 DEF CancelInv, Awaiting, Watched
<1>6. CASE Enqueue(h)
      <2>1. PICK t : t = local[h].task
            OBVIOUS
      <2>2. t \in TaskIds \ revoked
            BY <1>6, <2>1, NoTaskIsNoId
            DEF Enqueue, TaskInv, LaunchOwns, KnownSent, Launching, TypeInv, TypeOK, PcOK,
                LaunchPcs, Local
      <2>3. /\ pc[h] = "l_enqueue" /\ pc'[h] = "l_store" /\ local'[h].task = t
            /\ queued' = queued \union {t}
            /\ UNCHANGED <<previousStatus, status, faults, profileSet, revoked>>
            BY <1>1, <1>6, <2>1 DEF Enqueue
      <2>4. Awaited(t)'
            BY <2>2, <2>3 DEF Awaited, Unfinished
      <2>5. Watched => previousStatus # None
            BY <2>3 DEF CancelInv, Awaiting
      <2>6. Watched' => Awaiting'
            BY <2>3, <2>4, <2>5 DEF Awaiting, Watched
      <2>7. QED BY <2>3, <2>6 DEF CancelInv
<1>7. CASE StoreTask(h)
      <2>1. /\ pc[h] = "l_store" /\ pc'[h] = "idle"
            /\ exists => pendingTask' = local[h].task
            /\ UNCHANGED <<exists, previousStatus, status, faults, profileSet, revoked, queued,
                           wpc, work>>
            BY <1>1, <1>7 DEF StoreTask
      <2>2. Watched => exists
            BY DEF Watched, BackedInv, InProgress
      <2>3. Watched => previousStatus # None /\ Awaited(local[h].task)
            BY <2>1 DEF CancelInv, Awaiting
      <2>4. Awaited(local[h].task) /\ exists => Awaited(pendingTask)'
            BY <2>1 DEF Awaited, Unfinished
      <2>5. Watched' => Awaiting'
            BY <2>1, <2>2, <2>3, <2>4 DEF Awaiting, Watched
      <2>6. QED BY <2>1, <2>5 DEF CancelInv
<1>8. CASE Revoke(h)
      <2>1. pc'[h] = "c_status"
            BY <1>1, <1>8 DEF Revoke
      <2>2. QED BY <2>1 DEF CancelInv, Awaiting
<1>9. CASE RevertStatus(h)
      <2>1. pc'[h] = "c_clear" /\ status' # InProgress
            BY <1>1, <1>9, NotInProgress
            DEF RevertStatus, update_status, RollbackInv, BackedInv, InProgress
      <2>2. QED BY <2>1 DEF CancelInv, Watched
<1>10. CASE ClearTask(h)
      <2>1. ~ Watched
            BY <1>10 DEF ClearTask, CancelInv, Awaiting
      <2>2. ~ Watched' /\ pc'[h] = "idle"
            BY <1>1, <1>10, <2>1 DEF ClearTask, Watched
      <2>3. QED BY <2>2 DEF CancelInv
<1>11. CASE WriteRow(h)
      <2>1. CASE exists /\ profileSet
            <3>1. status' # InProgress /\ pc'[h] = "idle"
                  BY <1>1, <1>11, <2>1, NotInProgress DEF WriteRow, CancelInv
            <3>2. QED BY <3>1 DEF CancelInv, Watched
      <2>2. CASE ~ (exists /\ profileSet)
            <3>1. /\ pc[h] = "u_write" /\ pc'[h] = "idle"
                  /\ UNCHANGED <<exists, status, previousStatus, pendingTask, revoked, queued,
                                 wpc, work, faults, profileSet>>
                  BY <1>1, <1>11, <2>2 DEF WriteRow
            <3>2. QED BY <3>1, CancelMoves
      <2>3. QED BY <2>1, <2>2
<1>12. CASE HandlerAborts(h)
      <2>1. faults' # 0 /\ pc'[h] = "idle"
            BY <1>1, <1>12 DEF HandlerAborts, Fault
      <2>2. QED BY <2>1 DEF CancelInv, Watched
<1>13. ~ Rename(h)
      BY DEF Rename
<1>14. QED
      BY <1>2, <1>3, <1>4, <1>5, <1>6, <1>7, <1>8, <1>9, <1>10, <1>11, <1>12, <1>13
      DEF HandlerStep, Request

LEMMA CancelApi ==
    ASSUME BackedInv, CancelInv,
           Archive \/ Delete \/ AddArtifact \/ RemoveArtifact \/ DeleteProfile \/ Discard
    PROVE  CancelInv'
<1> USE DEF row, api, queue, wrk
<1>1. CASE Delete
      BY <1>1 DEF Delete, CancelInv, Watched, InProgress
<1>2. CASE Archive
      BY <1>2 DEF Archive, CancelInv, Watched, InProgress
<1>3. CASE DeleteProfile
      BY <1>3 DEF DeleteProfile, CancelInv, Watched
<1>4. CASE AddArtifact \/ RemoveArtifact \/ Discard
      <2>1. /\ UNCHANGED <<exists, status, previousStatus, pendingTask, revoked, pc, local,
                           wpc, work, faults, profileSet>>
            /\ queued \ revoked \subseteq queued'
            BY <1>4 DEF AddArtifact, RemoveArtifact, Discard
      <2>2. \A t \in TaskIds \ revoked : Unfinished(t) => Unfinished(t)'
            BY <2>1 DEF Unfinished
      <2>3. Watched' => Watched
            BY <2>1 DEF Watched
      <2>4. QED BY <2>1, <2>2, <2>3, CancelFramed
<1>5. QED BY <1>1, <1>2, <1>3, <1>4

LEMMA CancelWorker ==
    ASSUME TypeInv, BackedInv, CancelInv, NEW w \in Workers,
           WorkerStep(w) \/ Terminate(w) \/ SaveFails(w) \/ WorkerLost(w) \/ Redeliver(w)
    PROVE  CancelInv'
<1> USE DEF TypeInv, TypeOK, row, api, queue, wrk, Step
<1>1. /\ UNCHANGED <<exists, previousStatus, pendingTask, revoked, pc, local, profileSet>>
      /\ faults \in Nat
      BY BoundsAssumption
      DEF WorkerStep, Take, Load, CallEngine, EngineFails, SaveResult, WriteVerdict,
          ResetPending, Notify, Terminate, SaveFails, WorkerLost, Redeliver
<1>2. CASE WriteVerdict(w) \/ ResetPending(w)
      <2>1. status' # InProgress
            <3>1. work[w].verdict \in Verdicts \/ wpc[w] = "reset"
                  BY <1>2 DEF WriteVerdict, ResetPending, PcOK, Work
            <3>2. "PENDIENTE" \in Manual
                  BY DEF Manual
            <3>3. QED BY <1>2, <3>1, <3>2, NotInProgress
                      DEF WriteVerdict, ResetPending, update_status, BackedInv, InProgress
      <2>2. QED BY <1>1, <2>1 DEF CancelInv, Watched
<1>3. CASE SaveFails(w) \/ WorkerLost(w) \/ Redeliver(w)
      <2>1. faults' # 0
            BY <1>1, <1>3 DEF SaveFails, WorkerLost, Redeliver, Fault
      <2>2. QED BY <1>1, <2>1 DEF CancelInv, Watched
<1>4. CASE /\ \/ Take(w) \/ Load(w) \/ CallEngine(w) \/ EngineFails(w) \/ SaveResult(w)
              \/ Notify(w) \/ Terminate(w)
           /\ Watched'
      <2>1. Watched
            BY <1>1, <1>4 DEF Watched, Take, Load, CallEngine, EngineFails, SaveResult, Notify,
                              Terminate
      <2>2. exists /\ profileSet
            BY <2>1 DEF Watched, BackedInv, InProgress
      <2>3. \A t \in TaskIds \ revoked : Unfinished(t) => Unfinished(t)'
            <3>1. CASE Take(w)
                  <4>1. PICK t \in queued : /\ queued' = queued \ {t}
                                            /\ work' = [work EXCEPT ![w].task = t]
                        BY <3>1 DEF Take
                  <4>2. /\ work'[w].task = t /\ wpc'[w] = "load"
                        /\ \A v \in Workers : v # w => work'[v] = work[v] /\ wpc'[v] = wpc[v]
                        BY <3>1, <4>1 DEF Take, Work
                  <4>3. QED BY <3>1, <4>1, <4>2 DEF Take, Unfinished
            <3>2. CASE Load(w) \/ CallEngine(w) \/ EngineFails(w) \/ SaveResult(w)
                  <4>1. /\ wpc'[w] \in {"engine", "save", "status", "reset"}
                        /\ work'[w].task = work[w].task
                        /\ \A v \in Workers : v # w => work'[v] = work[v] /\ wpc'[v] = wpc[v]
                        /\ queued' = queued
                        <5>1. CASE Load(w)
                              BY <2>2, <5>1 DEF Load, Work
                        <5>2. CASE CallEngine(w)
                              BY <5>2 DEF CallEngine, Work
                        <5>3. CASE EngineFails(w) \/ SaveResult(w)
                              BY <5>3 DEF EngineFails, SaveResult
                        <5>4. QED BY <3>2, <5>1, <5>2, <5>3
                  <4>2. QED BY <4>1 DEF Unfinished
            <3>3. CASE Notify(w) \/ Terminate(w)
                  <4>1. /\ wpc[w] = "notify" \/ work[w].task \in revoked
                        /\ \A v \in Workers : v # w => work'[v] = work[v] /\ wpc'[v] = wpc[v]
                        /\ queued' = queued
                        BY <3>3, Settled DEF Notify, Terminate
                  <4>2. QED BY <4>1 DEF Unfinished
            <3>4. QED BY <1>4, <3>1, <3>2, <3>3
      <2>4. QED BY <1>1, <2>1, <2>3, CancelFramed
<1>5. CASE ~ Watched'
      BY <1>1, <1>5 DEF CancelInv
<1>6. QED
      BY <1>2, <1>3, <1>4, <1>5 DEF WorkerStep

\* With requests served one at a time and none that writes a stale status back, a
\* release in verification can be cancelled: the task it names is unfinished and
\* unrevoked, and the status to go back to is known.
THEOREM CancelFindsTask ==
    ASSUME OneAtATime(Handlers), "rename" \notin Ops
    PROVE  Spec => []Cancellable
<1>1. Init => RollbackInv /\ CancelInv
      BY DEF Init, RollbackInv, NoLocal, None, CancelInv, Watched, InProgress
<1>2. TypeInv /\ TaskInv /\ RollbackInv /\ BackedInv /\ CancelInv /\ [Next]_vars => CancelInv'
      <2> SUFFICES ASSUME TypeInv, TaskInv, RollbackInv, BackedInv, CancelInv, [Next]_vars
                   PROVE  CancelInv'
          OBVIOUS
      <2>1. CASE UNCHANGED vars
            <3>1. \A t \in TaskIds : Unfinished(t) => Unfinished(t)'
                  BY <2>1 DEF vars, row, api, queue, wrk, Unfinished
            <3>2. QED BY <2>1, <3>1, CancelFramed DEF vars, row, api, queue, wrk, Watched
      <2>2. ASSUME NEW h \in Handlers, HandlerStep(h) \/ Request(h) \/ HandlerAborts(h)
            PROVE  CancelInv'
            <3>1. \A g \in Handlers : g = h
                  BY DEF OneAtATime
            <3>2. QED BY <2>2, <3>1, CancelHandler
      <2>3. QED BY <2>1, <2>2, CancelApi, CancelWorker DEF Next
<1>3. CancelInv => Cancellable
      BY NoTaskIsNoId DEF CancelInv, Awaiting, Awaited, Watched, Cancellable, InProgress
<1>4. QED
      BY <1>1, <1>2, <1>3, TypeInvariance, TaskInvariance, BackedInvariance, RollbackNext, PTL
      DEF Spec
=============================================================================
