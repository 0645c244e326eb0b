-------------------------- MODULE ProfileSchedules --------------------------
(***************************************************************************)
(* The verification profiles of one organization: which of them is the     *)
(* default, and the periodic sweep that re-verifies the releases of those  *)
(* that have a schedule.                                                   *)
(*                                                                         *)
(* A request reads a row, then perhaps the row of the default profile, and *)
(* writes each of them back whole.  A sweep reads all scheduled rows, then *)
(* marks each profile that is due as run and launches its releases.  Every *)
(* read and every write is a session of its own.                           *)
(*                                                                         *)
(* Time counts the instants at which the cron expression fires, the same   *)
(* for all profiles: next_fire <= now holds for a reference r iff r < now. *)
(* What becomes of a launch is the subject of ReleaseVerification.         *)
(***************************************************************************)
EXTENDS Naturals, Sequences, FiniteSets

CONSTANTS
    Profiles,    \* ids of profiles, of which the first uuid4 calls draw
    Handlers,    \* requests served at the same time
    Sweepers,    \* workers that may run the sweep
    MaxTime,     \* bound: firings of the cron expression
    MaxFaults,   \* bound: requests and sweeps cut short
    Null         \* no profile, None

ASSUME ScheduleBounds == MaxTime \in Nat /\ MaxFaults \in Nat
ASSUME NullIsNoProfile == Null \notin Profiles

Time   == 0..MaxTime
Never  == MaxTime + 1     \* schedule_last_run_at is NULL

VARIABLES
    state,       \* a profile is "new", "live" or "gone"
    table,       \* table verification_profile
    now,
    pc, request, \* handlers: next step; what was asked and read
    spc, sweep,  \* sweepers: next step; what was read
    swept,       \* firings for which the releases of each profile were launched
    repeated,    \* profiles marked again for a firing they were swept for
    patched,     \* profiles that a request has written since they were marked
    faults

handling == <<pc, request>>
history  == <<swept, repeated, patched>>
sweeping == <<spc, sweep>>
vars == <<state, table, now, handling, sweeping, history, faults>>

Row     == [default : BOOLEAN, cron : BOOLEAN, last : Time \union {Never}, born : Time]
Request == [id : Profiles \union {Null}, mine : Row, other : Profiles \union {Null},
            theirs : Row]
Sweep   == [at : Time, due : SUBSET Profiles, current : Profiles \union {Null}]

NoRow     == [default |-> FALSE, cron |-> FALSE, last |-> Never, born |-> 0]
NoRequest == [id |-> Null, mine |-> NoRow, other |-> Null, theirs |-> NoRow]
NoSweep   == [at |-> 0, due |-> {}, current |-> Null]

Live     == {p \in Profiles : state[p] = "live"}
Defaults == {p \in Live : table[p].default}

\* Every variable is in its range.
TypeOK ==
    /\ state \in [Profiles -> {"new", "live", "gone"}]
    /\ table \in [Profiles -> Row]
    /\ now \in Time
    /\ pc \in [Handlers -> {"idle", "read", "demote", "insert", "write"}]
    /\ request \in [Handlers -> Request]
    /\ spc \in [Sweepers -> {"idle", "mark", "launch"}]
    /\ sweep \in [Sweepers -> Sweep]
    /\ swept \in [Profiles -> SUBSET Time]
    /\ repeated \subseteq Profiles
    /\ patched \subseteq Profiles
    /\ faults \in 0..MaxFaults

\* An organization starts without profiles; the system's own is not its.
Init ==
    /\ state = [p \in Profiles |-> "new"]
    /\ table = [p \in Profiles |-> NoRow]
    /\ now = 0
    /\ pc = [h \in Handlers |-> "idle"]
    /\ request = [h \in Handlers |-> NoRequest]
    /\ spc = [s \in Sweepers |-> "idle"]
    /\ sweep = [s \in Sweepers |-> NoSweep]
    /\ swept = [p \in Profiles |-> {}]
    /\ repeated = {}
    /\ patched = {}
    /\ faults = 0

-----------------------------------------------------------------------------
(* Requests                                                                *)

Return(h) ==
    /\ pc' = [pc EXCEPT ![h] = "idle"]
    /\ request' = [request EXCEPT ![h] = NoRequest]

\* The step that ends the request: create or update.
Final(h) == IF state[request[h].id] = "new" THEN "insert" ELSE "write"

\* ManageProfileUseCase.create_profile
Create(h, default) ==
    /\ pc[h] = "idle"
    /\ \E p \in Profiles :
          /\ state[p] = "new"
          /\ \A g \in Handlers : request[g].id # p
          /\ request' = [request EXCEPT ![h].id = p, ![h].mine.default = default]
          /\ pc' = [pc EXCEPT ![h] = IF default THEN "read" ELSE "insert"]
    /\ UNCHANGED <<state, table, now, sweeping, history, faults>>

\* Variant: is_default is assigned although it is None.
UpdateUnguarded(h, default, cron) ==
    /\ pc[h] = "idle"
    /\ \E p \in Live :
          request' = [request EXCEPT ![h].id = p, ![h].mine = [table[p] EXCEPT !.default = Null]]
    /\ pc' = [pc EXCEPT ![h] = "write"]
    /\ UNCHANGED <<state, table, now, sweeping, history, faults>>

\* ManageProfileUseCase.update_profile: only a profile that was not the default
\* looks for one.  A request that names the schedule, even the same, forgets the
\* last run.
Update(h, default, cron) ==
    /\ pc[h] = "idle"
    /\ \E p \in Live :
          LET read   == table[p]
              edited == [read EXCEPT
                  !.default = IF default = "keep" THEN @ ELSE default = "yes",
                  !.cron    = IF cron = "keep" THEN @ ELSE cron = "set",
                  !.last    = IF cron = "keep" THEN @ ELSE Never]
          IN  /\ request' = [request EXCEPT ![h].id = p, ![h].mine = edited]
              /\ pc' = [pc EXCEPT ![h] = IF default = "yes" /\ ~ read.default
                                         THEN "read" ELSE "write"]
    /\ UNCHANGED <<state, table, now, sweeping, history, faults>>

\* get_default_for_organization: scalar_one_or_none raises on two defaults.
ReadDefault(h) ==
    /\ pc[h] = "read"
    /\ \/ /\ Defaults = {}
          /\ pc' = [pc EXCEPT ![h] = Final(h)]
          /\ UNCHANGED request
       \/ /\ Cardinality(Defaults) = 1
          /\ \E d \in Defaults :
                request' = [request EXCEPT ![h].other = d,
                                           ![h].theirs = [table[d] EXCEPT !.default = FALSE]]
          /\ pc' = [pc EXCEPT ![h] = "demote"]
       \/ /\ Cardinality(Defaults) > 1
          /\ Return(h)
    /\ UNCHANGED <<state, table, now, sweeping, history, faults>>

\* Variant: the default that was found stays one.
DemoteNobody(h) ==
    /\ pc[h] = "demote"
    /\ pc' = [pc EXCEPT ![h] = Final(h)]
    /\ UNCHANGED <<state, table, request, now, sweeping, history, faults>>

\* update(existing_default) raises if it was deleted meanwhile.
Demote(h) ==
    /\ pc[h] = "demote"
    /\ IF state[request[h].other] = "live"
       THEN /\ table' = [table EXCEPT ![request[h].other] = request[h].theirs]
            /\ patched' = patched \union {request[h].other}
            /\ pc' = [pc EXCEPT ![h] = Final(h)]
            /\ UNCHANGED request
       ELSE /\ Return(h)
            /\ UNCHANGED <<table, patched>>
    /\ UNCHANGED <<state, now, sweeping, swept, repeated, faults>>

\* SqlProfileRepository.create
Insert(h) ==
    /\ pc[h] = "insert"
    /\ state' = [state EXCEPT ![request[h].id] = "live"]
    /\ table' = [table EXCEPT ![request[h].id] = [request[h].mine EXCEPT !.born = now]]
    /\ Return(h)
    /\ UNCHANGED <<now, sweeping, history, faults>>

\* SqlProfileRepository.update: every column is that of the object.
Write(h) ==
    /\ pc[h] = "write"
    /\ IF state[request[h].id] = "live"
       THEN /\ table' = [table EXCEPT ![request[h].id] = request[h].mine]
            /\ patched' = patched \union {request[h].id}
       ELSE UNCHANGED <<table, patched>>
    /\ Return(h)
    /\ UNCHANGED <<state, now, sweeping, swept, repeated, faults>>

\* ProfileService.delete_profile: the default may go, the system's may not.
Delete(p) ==
    /\ state' = [state EXCEPT ![p] = "gone"]
    /\ table' = [table EXCEPT ![p] = NoRow]
    /\ swept' = [swept EXCEPT ![p] = {}]
    /\ repeated' = repeated \ {p}
    /\ patched' = patched \ {p}
    /\ UNCHANGED <<now, handling, sweeping, faults>>

\* The routes.  The services under them refuse an expression that does not
\* parse, which here is no request.
create_profile(h) == \E default \in BOOLEAN : Create(h, default)

update_profile(h) ==
    \E default \in {"keep", "yes", "no"}, cron \in {"keep", "set", "clear"} :
       Update(h, default, cron)

delete_profile == \E p \in Live : Delete(p)

-----------------------------------------------------------------------------
(* The sweep                                                               *)

\* _is_due: the last run or, failing that, the creation is the reference.
IsDue(row, at) ==
    /\ row.cron
    /\ (IF row.last = Never THEN row.born ELSE row.last) < at

\* list_scheduled; a sweep that finds nothing due has no effect.
BeginSweep(s) ==
    /\ spc[s] = "idle"
    /\ \E p \in Live : IsDue(table[p], now)
    /\ sweep' = [sweep EXCEPT ![s] = [at      |-> now,
                                      due     |-> {p \in Live : IsDue(table[p], now)},
                                      current |-> Null]]
    /\ spc' = [spc EXCEPT ![s] = "mark"]
    /\ UNCHANGED <<state, table, now, handling, history, faults>>

\* Profile p is marked as run at the instant last.
MarkAs(s, p, last) ==
    /\ table' = [table EXCEPT ![p].last = IF state[p] = "live" THEN last ELSE @]
    /\ repeated' = IF sweep[s].at \in swept[p] /\ p \notin patched
                   THEN repeated \union {p} ELSE repeated
    /\ patched' = patched \ {p}
    /\ sweep' = [sweep EXCEPT ![s].current = p]

\* Variant: a profile that has run before keeps the time of its first run.
MarkFirst(s) ==
    /\ spc[s] = "mark"
    /\ \E p \in sweep[s].due :
          MarkAs(s, p, IF table[p].last = Never THEN sweep[s].at ELSE table[p].last)
    /\ spc' = [spc EXCEPT ![s] = "launch"]
    /\ UNCHANGED <<state, now, handling, swept, faults>>

\* update_schedule_last_run, which does not mind a profile that is gone.
Mark(s) ==
    /\ spc[s] = "mark"
    /\ \E p \in sweep[s].due : MarkAs(s, p, sweep[s].at)
    /\ spc' = [spc EXCEPT ![s] = "launch"]
    /\ UNCHANGED <<state, now, handling, swept, faults>>

NextProfile(s) ==
    LET rest == sweep[s].due \ {sweep[s].current}
    IN  /\ sweep' = [sweep EXCEPT ![s] =
               IF rest = {} THEN NoSweep ELSE [@ EXCEPT !.due = rest, !.current = Null]]
        /\ spc' = [spc EXCEPT ![s] = IF rest = {} THEN "idle" ELSE "mark"]

\* Variant: a profile whose schedule has been removed meanwhile is passed over.
LaunchIfStill(s) ==
    /\ spc[s] = "launch"
    /\ IF table[sweep[s].current].cron THEN swept' = [swept EXCEPT ![sweep[s].current] = @ \union {sweep[s].at}]
       ELSE UNCHANGED swept
    /\ NextProfile(s)
    /\ UNCHANGED <<state, table, now, handling, repeated, patched, faults>>

\* list_by_profile and the launches of the releases it finds: none, once the
\* profile is gone and their profile_id is NULL.
LaunchReleases(s) ==
    /\ spc[s] = "launch"
    /\ IF sweep[s].current \in Live THEN swept' = [swept EXCEPT ![sweep[s].current] = @ \union {sweep[s].at}]
       ELSE UNCHANGED swept
    /\ NextProfile(s)
    /\ UNCHANGED <<state, table, now, handling, repeated, patched, faults>>

-----------------------------------------------------------------------------
\* The next instant at which the cron expression fires.
Tick ==
    /\ now < MaxTime
    /\ now' = now + 1
    /\ UNCHANGED <<state, table, handling, sweeping, history, faults>>

Fault == faults < MaxFaults /\ faults' = faults + 1

\* The API process dies or a commit fails: what has been written stays.
RequestAborts(h) ==
    /\ Fault
    /\ pc[h] # "idle"
    /\ Return(h)
    /\ UNCHANGED <<state, table, now, sweeping, history>>

\* The worker dies; beat will send the next sweep.
SweepAborts(s) ==
    /\ Fault
    /\ spc[s] # "idle"
    /\ spc' = [spc EXCEPT ![s] = "idle"]
    /\ sweep' = [sweep EXCEPT ![s] = NoSweep]
    /\ UNCHANGED <<state, table, now, handling, history>>

-----------------------------------------------------------------------------
HandlerStep(h) == ReadDefault(h) \/ Demote(h) \/ Insert(h) \/ Write(h)
SweeperStep(s) == BeginSweep(s) \/ Mark(s) \/ LaunchReleases(s)

Next ==
    \/ \E h \in Handlers :
          create_profile(h) \/ update_profile(h) \/ HandlerStep(h) \/ RequestAborts(h)
    \/ \E s \in Sweepers : SweeperStep(s) \/ SweepAborts(s)
    \/ delete_profile
    \/ Tick

Spec == Init /\ [][Next]_vars

\* Beat sends a sweep every five minutes and a worker takes it.
FairSpec == Spec /\ \A s \in Sweepers : WF_vars(SweeperStep(s))

-----------------------------------------------------------------------------
(* Properties                                                              *)

\* An organization has one default profile at most: a request that makes one
\* demotes the other first, also when it is cut short in between.
OneDefault == Cardinality(Defaults) <= 1

\* Marking before launching means at most once: however sweeps are cut short
\* and repeated, and whatever rows come and go, a profile is not taken again for
\* a firing it was swept for unless a request has written its row in between.
SweptOncePerFiring == repeated = {}

\* Unless a sweep was cut short, a profile is not marked as run for a firing
\* without being swept for it, whatever stale copy of its row came back.
MarkedIsSwept ==
    faults = 0 => \A p \in Live : table[p].last # Never =>
        \/ table[p].last \in swept[p]
        \/ \E s \in Sweepers : spc[s] = "launch" /\ sweep[s].current = p
                               /\ sweep[s].at = table[p].last

\* A profile does not stay due: the sweep that finds it marks it as run.
DueIsSwept ==
    \A p \in Profiles :
        (p \in Live /\ IsDue(table[p], now)) ~> ~ (p \in Live /\ IsDue(table[p], now))
=============================================================================
