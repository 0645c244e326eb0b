----------------------- MODULE ProfileSchedulesProofs -----------------------
(***************************************************************************)
(* What holds of profiles, requests and sweeps for any number of them.     *)
(*                                                                         *)
(* Three invariants stand on the types.  RunsAccounted follows the time of *)
(* the last run into every copy of a row that a request may write back.    *)
(* DefaultsKnown says what a request knows of the default once it has      *)
(* looked for it, and holds for requests that come one at a time.          *)
(* FiringsOnce orders the firings a profile was swept for by the mark in   *)
(* its row, and holds for sweeps that come one at a time.                  *)
(***************************************************************************)
EXTENDS ProfileSchedules, FiniteSetTheorems, TLAPS

\* At most one of them is there: requests, or sweeps, do not overlap.
OneAtATime(processes) == \A a, b \in processes : a = b

-----------------------------------------------------------------------------
(* Types: what each step of a request makes of what it asked and read.      *)

LEMMA RowMembers ==
    ASSUME NEW row \in Row
    PROVE  /\ row.default \in BOOLEAN /\ row.cron \in BOOLEAN
           /\ row.last \in Time \union {Never} /\ row.born \in Time
    BY DEF Row

LEMMA Times == 0 \in Time /\ Never \notin Time
    BY ScheduleBounds DEF Time, Never

LEMMA NoRowIsRow == NoRow \in Row
    BY Times DEF NoRow, Row

LEMMA NoRequestIsRequest == NoRequest \in Request
    BY NoRowIsRow DEF NoRequest, Request

LEMMA CreateEffect ==
    ASSUME TypeOK, NEW h \in Handlers, NEW default \in BOOLEAN, Create(h, default)
    PROVE  \E p \in Profiles, st \in Request :
              /\ pc[h] = "idle" /\ state[p] = "new"
              /\ \A g \in Handlers : request[g].id # p
              /\ st.id = p /\ st.mine.default = default
              /\ st.mine.last = request[h].mine.last
              /\ st.other = request[h].other /\ st.theirs = request[h].theirs
              /\ request' = [request EXCEPT ![h] = st]
              /\ pc' = [pc EXCEPT ![h] = IF default THEN "read" ELSE "insert"]
              /\ UNCHANGED <<state, table, now, sweeping, history, faults>>
<1>1. PICK p \in Profiles :
          /\ state[p] = "new" /\ \A g \in Handlers : request[g].id # p
          /\ request' = [request EXCEPT ![h].id = p, ![h].mine.default = default]
          /\ pc' = [pc EXCEPT ![h] = IF default THEN "read" ELSE "insert"]
  BY DEF Create
<1>2. request \in [Handlers -> Request] /\ request[h] \in Request
  BY DEF TypeOK
<1>3. PICK st1 : st1 = [request[h] EXCEPT !.id = p]
  OBVIOUS
<1>4. /\ st1 \in Request /\ st1.id = p /\ st1.mine = request[h].mine
      /\ st1.other = request[h].other /\ st1.theirs = request[h].theirs
  BY <1>2, <1>3 DEF Request
<1>5. PICK mine : mine = [st1.mine EXCEPT !.default = default]
  OBVIOUS
<1>6. mine \in Row /\ mine.default = default /\ mine.last = request[h].mine.last
  <2>1. st1.mine \in Row
    BY <1>4 DEF Request
  <2> QED
    BY <1>4, <1>5, <2>1 DEF Row
<1>7. PICK st : st = [st1 EXCEPT !.mine = mine]
  OBVIOUS
<1>8. /\ st \in Request /\ st.id = p /\ st.mine = mine
      /\ st.other = request[h].other /\ st.theirs = request[h].theirs
  BY <1>4, <1>6, <1>7 DEF Request
<1>9. request' = [request EXCEPT ![h] = st]
  BY <1>1, <1>2, <1>3, <1>5, <1>7
<1> QED
  BY <1>1, <1>6, <1>8, <1>9 DEF Create

LEMMA UpdateEffect ==
    ASSUME TypeOK, NEW h \in Handlers, NEW default \in {"keep", "yes", "no"},
           NEW cron \in {"keep", "set", "clear"}, Update(h, default, cron)
    PROVE  \E p \in Live, st \in Request :
              /\ pc[h] = "idle" /\ st.id = p
              /\ st.mine.default = IF default = "keep" THEN table[p].default
                                                       ELSE default = "yes"
              /\ st.mine.last \in {table[p].last, Never}
              /\ st.other = request[h].other /\ st.theirs = request[h].theirs
              /\ request' = [request EXCEPT ![h] = st]
              /\ pc' = [pc EXCEPT ![h] = IF default = "yes" /\ ~ table[p].default
                                         THEN "read" ELSE "write"]
              /\ UNCHANGED <<state, table, now, sweeping, history, faults>>
<1>1. PICK p \in Live :
          LET read   == table[p]
              edited == [read EXCEPT
                  !.default = IF default = "keep" THEN @ ELSE default = "yes",
                  !.cron    = IF cron = "keep" THEN @ ELSE cron = "set",
                  !.last    = IF cron = "keep" THEN @ ELSE Never]
          IN  /\ request' = [request EXCEPT ![h].id = p, ![h].mine = edited]
              /\ pc' = [pc EXCEPT ![h] = IF default = "yes" /\ ~ read.default
                                         THEN "read" ELSE "write"]
  BY DEF Update
<1>2. request \in [Handlers -> Request] /\ request[h] \in Request /\ table[p] \in Row
      /\ p \in Profiles
  BY DEF TypeOK, Live
<1>3. PICK flag : flag = IF default = "keep" THEN table[p].default ELSE default = "yes"
  OBVIOUS
<1>4. PICK set : set = IF cron = "keep" THEN table[p].cron ELSE cron = "set"
  OBVIOUS
<1>5. PICK last : last = IF cron = "keep" THEN table[p].last ELSE Never
  OBVIOUS
<1>6. /\ flag \in BOOLEAN /\ set \in BOOLEAN /\ last \in Time \union {Never}
      /\ last \in {table[p].last, Never}
  BY <1>2, <1>3, <1>4, <1>5, RowMembers
<1>7. PICK e1 : e1 = [table[p] EXCEPT !.default = flag]
  OBVIOUS
<1>8. PICK e2 : e2 = [e1 EXCEPT !.cron = set]
  OBVIOUS
<1>9. PICK edited : edited = [e2 EXCEPT !.last = last]
  OBVIOUS
<1>10. e1 \in Row /\ e1.default = flag /\ e1.cron = table[p].cron /\ e1.last = table[p].last
  BY <1>2, <1>6, <1>7 DEF Row
<1>11. e2 \in Row /\ e2.default = flag /\ e2.last = table[p].last
  BY <1>6, <1>8, <1>10 DEF Row
<1>12. edited \in Row /\ edited.default = flag /\ edited.last = last
  BY <1>6, <1>9, <1>11 DEF Row
<1>13. PICK st1 : st1 = [request[h] EXCEPT !.id = p]
  OBVIOUS
<1>14. PICK st : st = [st1 EXCEPT !.mine = edited]
  OBVIOUS
<1>15. /\ st1 \in Request /\ st1.id = p
       /\ st1.other = request[h].other /\ st1.theirs = request[h].theirs
  BY <1>2, <1>13 DEF Request
<1>16. /\ st \in Request /\ st.id = p /\ st.mine = edited
       /\ st.other = request[h].other /\ st.theirs = request[h].theirs
  BY <1>12, <1>14, <1>15 DEF Request
<1>17. e2 = [table[p] EXCEPT
                  !.default = IF default = "keep" THEN @ ELSE default = "yes",
                  !.cron    = IF cron = "keep" THEN @ ELSE cron = "set"]
  BY <1>3, <1>4, <1>7, <1>8, <1>10
<1>18. edited = [table[p] EXCEPT
                  !.default = IF default = "keep" THEN @ ELSE default = "yes",
                  !.cron    = IF cron = "keep" THEN @ ELSE cron = "set",
                  !.last    = IF cron = "keep" THEN @ ELSE Never]
  BY <1>5, <1>9, <1>11, <1>17
<1>19. request' = [request EXCEPT ![h] = st]
  BY <1>1, <1>2, <1>13, <1>14, <1>18
<1>20. pc' = [pc EXCEPT ![h] = IF default = "yes" /\ ~ table[p].default
                               THEN "read" ELSE "write"]
  BY <1>1, Zenon
<1>21. pc[h] = "idle" /\ UNCHANGED <<state, table, now, sweeping, history, faults>>
  BY DEF Update
<1>22. /\ st.mine.default = IF default = "keep" THEN table[p].default ELSE default = "yes"
       /\ st.mine.last \in {table[p].last, Never}
  BY <1>3, <1>6, <1>12, <1>16
<1> QED
  BY <1>16, <1>19, <1>20, <1>21, <1>22, Zenon

\* Demoting: a default was found, and the request holds its row without the flag.
LEMMA FoundEffect ==
    ASSUME TypeOK, NEW h \in Handlers, ReadDefault(h), pc'[h] = "demote"
    PROVE  \E d \in Defaults, st \in Request :
              /\ st.id = request[h].id /\ st.mine = request[h].mine
              /\ st.other = d /\ st.theirs.default = FALSE
              /\ st.theirs.last = table[d].last
              /\ request' = [request EXCEPT ![h] = st]
              /\ pc' = [pc EXCEPT ![h] = "demote"]
<1>1. pc \in [Handlers -> {"idle", "read", "demote", "insert", "write"}]
  BY DEF TypeOK
<1>2. pc' # [pc EXCEPT ![h] = Final(h)] /\ pc' # [pc EXCEPT ![h] = "idle"]
  BY <1>1 DEF Final
<1>3. PICK d \in Defaults :
          /\ request' = [request EXCEPT ![h].other = d,
                                        ![h].theirs = [table[d] EXCEPT !.default = FALSE]]
          /\ pc' = [pc EXCEPT ![h] = "demote"]
  BY <1>2 DEF ReadDefault, Return
<1>4. /\ request \in [Handlers -> Request] /\ request[h] \in Request
      /\ d \in Profiles /\ table[d] \in Row
  BY DEF TypeOK, Defaults, Live
<1>5. PICK theirs : theirs = [table[d] EXCEPT !.default = FALSE]
  OBVIOUS
<1>6. theirs \in Row /\ theirs.default = FALSE /\ theirs.last = table[d].last
  BY <1>4, <1>5 DEF Row
<1>7. PICK st1 : st1 = [request[h] EXCEPT !.other = d]
  OBVIOUS
<1>8. PICK st : st = [st1 EXCEPT !.theirs = theirs]
  OBVIOUS
<1>9. st1 \in Request /\ st1.id = request[h].id /\ st1.mine = request[h].mine /\ st1.other = d
  BY <1>4, <1>7 DEF Request
<1>10. /\ st \in Request /\ st.id = request[h].id /\ st.mine = request[h].mine
       /\ st.other = d /\ st.theirs = theirs
  BY <1>6, <1>8, <1>9 DEF Request
<1>11. request' = [request EXCEPT ![h] = st]
  BY <1>3, <1>4, <1>5, <1>7, <1>8
<1> QED
  BY <1>3, <1>6, <1>10, <1>11

\* Otherwise the request goes on as it is, or is answered with an error.
LEMMA ReadEffect ==
    ASSUME TypeOK, NEW h \in Handlers, ReadDefault(h), pc'[h] # "demote"
    PROVE  \/ /\ Defaults = {} /\ UNCHANGED request
              /\ pc' = [pc EXCEPT ![h] = Final(h)]
           \/ Return(h)
<1>1. pc \in [Handlers -> {"idle", "read", "demote", "insert", "write"}]
  BY DEF TypeOK
<1>2. pc' # [pc EXCEPT ![h] = "demote"]
  BY <1>1
<1> QED
  BY <1>2 DEF ReadDefault

\* A row that is marked as run is the same row but for the time.
LEMMA MarkEffect ==
    ASSUME TypeOK, NEW s \in Sweepers, Mark(s)
    PROVE  \E p \in sweep[s].due, row \in Row, sw \in Sweep :
              /\ p \in Profiles
              /\ table' = [table EXCEPT ![p] = row]
              /\ row.default = table[p].default /\ row.cron = table[p].cron
              /\ row.last = IF state[p] = "live" THEN sweep[s].at ELSE table[p].last
              /\ repeated' = IF sweep[s].at \in swept[p] /\ p \notin patched
                             THEN repeated \union {p} ELSE repeated
              /\ patched' = patched \ {p}
              /\ sweep' = [sweep EXCEPT ![s] = sw]
              /\ sw.at = sweep[s].at /\ sw.due = sweep[s].due /\ sw.current = p
<1>1. PICK p \in sweep[s].due : MarkAs(s, p, sweep[s].at)
  BY DEF Mark
<1>2. /\ sweep \in [Sweepers -> Sweep] /\ sweep[s] \in Sweep
      /\ table \in [Profiles -> Row]
  BY DEF TypeOK
<1>3. p \in Profiles /\ table[p] \in Row /\ sweep[s].at \in Time
  BY <1>1, <1>2 DEF Sweep
<1>4. PICK last : last = IF state[p] = "live" THEN sweep[s].at ELSE table[p].last
  OBVIOUS
<1>5. last \in Time \union {Never}
  BY <1>3, <1>4, RowMembers
<1>6. PICK row : row = [table[p] EXCEPT !.last = last]
  OBVIOUS
<1>7. row \in Row /\ row.default = table[p].default /\ row.cron = table[p].cron /\ row.last = last
  BY <1>3, <1>5, <1>6 DEF Row
<1>8. PICK sw : sw = [sweep[s] EXCEPT !.current = p]
  OBVIOUS
<1>9. sw \in Sweep /\ sw.at = sweep[s].at /\ sw.due = sweep[s].due /\ sw.current = p
  BY <1>2, <1>3, <1>8 DEF Sweep
<1>10. table' = [table EXCEPT ![p] = row]
  BY <1>1, <1>4, <1>6 DEF MarkAs
<1>11. sweep' = [sweep EXCEPT ![s] = sw]
  BY <1>1, <1>8 DEF MarkAs
<1> QED
  <2>1. /\ repeated' = IF sweep[s].at \in swept[p] /\ p \notin patched
                        THEN repeated \union {p} ELSE repeated
        /\ patched' = patched \ {p}
    BY <1>1 DEF MarkAs
  <2>2. row.last = IF state[p] = "live" THEN sweep[s].at ELSE table[p].last
    BY <1>4, <1>7
  <2> QED
    BY <1>1, <1>3, <1>7, <1>9, <1>10, <1>11, <2>1, <2>2, Zenon

\* After a launch the sweep has one profile less to look after.
LEMMA NextEffect ==
    ASSUME TypeOK, NEW s \in Sweepers, NextProfile(s)
    PROVE  \E sw \in Sweep, step \in {"idle", "mark"} :
              /\ sweep' = [sweep EXCEPT ![s] = sw]
              /\ spc' = [spc EXCEPT ![s] = step]
              /\ step = "mark" =>
                    /\ sw.at = sweep[s].at
                    /\ sw.due = sweep[s].due \ {sweep[s].current}
<1> DEFINE rest == sweep[s].due \ {sweep[s].current}
<1>1. sweep \in [Sweepers -> Sweep] /\ sweep[s] \in Sweep /\ rest \in SUBSET Profiles
  BY DEF TypeOK, Sweep
<1>2. CASE rest = {}
  <2>1. NoSweep \in Sweep
    BY Times DEF NoSweep, Sweep
  <2>2. sweep' = [sweep EXCEPT ![s] = NoSweep] /\ spc' = [spc EXCEPT ![s] = "idle"]
    BY <1>2 DEF NextProfile
  <2> QED
    BY <2>1, <2>2
<1>3. CASE rest # {}
  <2>1. PICK sw1 : sw1 = [sweep[s] EXCEPT !.due = rest]
    OBVIOUS
  <2>2. PICK sw : sw = [sw1 EXCEPT !.current = Null]
    OBVIOUS
  <2>3. sw1 \in Sweep /\ sw1.at = sweep[s].at /\ sw1.due = rest
    BY <1>1, <2>1 DEF Sweep
  <2>4. sw \in Sweep /\ sw.at = sweep[s].at /\ sw.due = rest
    BY <2>2, <2>3 DEF Sweep
  <2>5. sweep' = [sweep EXCEPT ![s] = sw] /\ spc' = [spc EXCEPT ![s] = "mark"]
    BY <1>1, <1>3, <2>1, <2>2 DEF NextProfile
  <2> QED
    BY <2>4, <2>5
<1> QED
  BY <1>2, <1>3

-----------------------------------------------------------------------------
(* Types, with what they rest on: the profile of a request that creates one  *)
(* is its own until it is there, and sweeps only know profiles that are.     *)

RequestFresh(h) ==
    LET q == request[h]
    IN  /\ IF pc[h] = "idle" THEN q = NoRequest ELSE q.id \in Profiles
        /\ pc[h] = "demote" => q.other \in Profiles
        /\ pc[h] = "insert" => state[q.id] = "new"
        /\ q.id \in Profiles /\ state[q.id] = "new" => q.mine.last = Never
        /\ q.other \in Profiles => state[q.other] # "new"

Fresh ==
    /\ \A h \in Handlers : RequestFresh(h)
    /\ \A g, h \in Handlers :
          request[g].id = request[h].id /\ request[h].id \in Profiles
          /\ state[request[h].id] = "new" => g = h
    /\ \A s \in Sweepers :
          /\ spc[s] # "idle" => \A p \in sweep[s].due : state[p] # "new"
          /\ spc[s] = "launch" => sweep[s].current \in sweep[s].due

BaseInv == TypeOK /\ Fresh

LEMMA BaseInit == Init => BaseInv
<1>1. NoSweep \in Sweep
  BY Times DEF NoSweep, Sweep
<1>2. Init => TypeOK
  BY <1>1, NoRowIsRow, NoRequestIsRequest, Times, ScheduleBounds DEF Init, TypeOK
<1>3. Init => Fresh
  BY NullIsNoProfile DEF Init, Fresh, RequestFresh, NoRequest
<1> QED
  BY <1>2, <1>3 DEF BaseInv

LEMMA TypeRequest ==
    ASSUME TypeOK, NEW h \in Handlers, NEW st \in Request,
           NEW step \in {"idle", "read", "demote", "insert", "write"},
           request' = [request EXCEPT ![h] = st], pc' = [pc EXCEPT ![h] = step]
    PROVE  /\ request' \in [Handlers -> Request]
           /\ pc' \in [Handlers -> {"idle", "read", "demote", "insert", "write"}]
           /\ request'[h] = st /\ pc'[h] = step
           /\ \A g \in Handlers : g # h => request'[g] = request[g] /\ pc'[g] = pc[g]
    BY DEF TypeOK

LEMMA TypeReturn ==
    ASSUME TypeOK, NEW h \in Handlers, Return(h)
    PROVE  /\ request' \in [Handlers -> Request]
           /\ pc' \in [Handlers -> {"idle", "read", "demote", "insert", "write"}]
           /\ request'[h] = NoRequest /\ pc'[h] = "idle"
           /\ \A g \in Handlers : g # h => request'[g] = request[g] /\ pc'[g] = pc[g]
    BY TypeRequest, NoRequestIsRequest DEF Return

\* What is asked, found or given up by one request is no business of the others.
LEMMA FreshRequest ==
    ASSUME BaseInv, TypeOK', NEW h \in Handlers, UNCHANGED sweeping,
           \A g \in Handlers : g # h => request'[g] = request[g] /\ pc'[g] = pc[g],
           \A p \in Profiles : state'[p] = "new" => state[p] = "new",
           \A g \in Handlers : g # h /\ pc[g] = "insert" => state'[request[g].id] = "new",
           RequestFresh(h)',
           request'[h].id \in Profiles /\ state'[request'[h].id] = "new" =>
              \A g \in Handlers : g # h => request[g].id # request'[h].id
    PROVE  Fresh'
<1>1. ASSUME NEW g \in Handlers PROVE RequestFresh(g)'
  <2>1. CASE g = h
    BY <2>1
  <2>2. CASE g # h
    BY <2>2 DEF BaseInv, Fresh, RequestFresh
  <2> QED
    BY <2>1, <2>2
<1>2. ASSUME NEW f \in Handlers, NEW g \in Handlers, request'[f].id = request'[g].id,
             request'[g].id \in Profiles, state'[request'[g].id] = "new"
      PROVE  f = g
  <2>1. CASE f = h \/ g = h
    BY <1>2, <2>1
  <2>2. CASE f # h /\ g # h
    BY <1>2, <2>2 DEF BaseInv, Fresh
  <2> QED
    BY <2>1, <2>2
<1>3. ASSUME NEW s \in Sweepers
      PROVE  /\ spc'[s] # "idle" => \A p \in sweep'[s].due : state'[p] # "new"
             /\ spc'[s] = "launch" => sweep'[s].current \in sweep'[s].due
  <2>1. sweep[s].due \subseteq Profiles
    BY DEF BaseInv, TypeOK, Sweep
  <2> QED
    BY <2>1 DEF BaseInv, Fresh, sweeping
<1> QED
  BY <1>1, <1>2, <1>3 DEF Fresh

LEMMA BaseReturn ==
    ASSUME BaseInv, NEW h \in Handlers, Return(h), UNCHANGED sweeping, TypeOK',
           \A p \in Profiles : state'[p] = "new" => state[p] = "new",
           \A g \in Handlers : g # h /\ pc[g] = "insert" => state'[request[g].id] = "new"
    PROVE  BaseInv'
<1>1. /\ request'[h] = NoRequest /\ pc'[h] = "idle"
      /\ \A g \in Handlers : g # h => request'[g] = request[g] /\ pc'[g] = pc[g]
  BY TypeReturn DEF BaseInv
<1>2. RequestFresh(h)' /\ request'[h].id \notin Profiles
  BY <1>1, NullIsNoProfile DEF RequestFresh, NoRequest
<1> QED
  BY <1>1, <1>2, FreshRequest DEF BaseInv

LEMMA TypeAsked ==
    ASSUME TypeOK, NEW h \in Handlers, create_profile(h) \/ update_profile(h) \/ ReadDefault(h)
    PROVE  TypeOK'
<1>1. UNCHANGED <<state, table, now, sweeping, history, faults>>
  BY DEF create_profile, update_profile, Create, Update, ReadDefault
<1>2. /\ request' \in [Handlers -> Request]
      /\ pc' \in [Handlers -> {"idle", "read", "demote", "insert", "write"}]
  <2>1. CASE create_profile(h)
    BY <2>1, CreateEffect, TypeRequest DEF create_profile
  <2>2. CASE update_profile(h)
    BY <2>2, UpdateEffect, TypeRequest DEF update_profile
  <2>3. CASE ReadDefault(h) /\ pc'[h] = "demote"
    BY <2>3, FoundEffect, TypeRequest
  <2>4. CASE ReadDefault(h) /\ pc'[h] # "demote"
    BY <2>4, ReadEffect, TypeReturn DEF TypeOK, Final
  <2> QED
    BY <2>1, <2>2, <2>3, <2>4
<1> QED
  BY <1>1, <1>2 DEF TypeOK, history, sweeping

LEMMA BaseAsked ==
    ASSUME BaseInv, NEW h \in Handlers, create_profile(h) \/ update_profile(h) \/ ReadDefault(h)
    PROVE  BaseInv'
<1>1. TypeOK' /\ UNCHANGED <<state, sweeping>>
  BY TypeAsked DEF BaseInv, create_profile, update_profile, Create, Update, ReadDefault
<1>2. RequestFresh(h) /\ (\A g \in Handlers : RequestFresh(g)) /\ request[h] \in Request
  BY DEF BaseInv, TypeOK, Fresh
<1>3. CASE create_profile(h)
  <2>1. PICK default \in BOOLEAN : Create(h, default)
    BY <1>3 DEF create_profile
  <2>2. PICK p \in Profiles, st \in Request :
            /\ pc[h] = "idle" /\ state[p] = "new"
            /\ \A g \in Handlers : request[g].id # p
            /\ st.id = p /\ st.mine.last = request[h].mine.last
            /\ st.other = request[h].other
            /\ request' = [request EXCEPT ![h] = st]
            /\ pc' = [pc EXCEPT ![h] = IF default THEN "read" ELSE "insert"]
    BY <2>1, CreateEffect DEF BaseInv
  <2>3. /\ request'[h] = st /\ pc'[h] \in {"read", "insert"}
        /\ \A g \in Handlers : g # h => request'[g] = request[g] /\ pc'[g] = pc[g]
    BY <2>2, TypeRequest DEF BaseInv
  <2>4. st.mine.last = Never /\ st.other = Null
    BY <1>2, <2>2 DEF RequestFresh, NoRequest, NoRow
  <2>5. RequestFresh(h)'
    BY <1>1, <2>2, <2>3, <2>4, NullIsNoProfile DEF RequestFresh
  <2> QED
    BY <1>1, <1>2, <2>2, <2>3, <2>5, FreshRequest DEF BaseInv, RequestFresh
<1>4. CASE update_profile(h)
  <2>1. PICK default \in {"keep", "yes", "no"}, cron \in {"keep", "set", "clear"} :
            Update(h, default, cron)
    BY <1>4 DEF update_profile
  <2>2. PICK p \in Live, st \in Request :
            /\ pc[h] = "idle" /\ st.id = p
            /\ st.other = request[h].other
            /\ request' = [request EXCEPT ![h] = st]
            /\ pc' = [pc EXCEPT ![h] = IF default = "yes" /\ ~ table[p].default
                                       THEN "read" ELSE "write"]
    BY <2>1, UpdateEffect DEF BaseInv
  <2>3. /\ request'[h] = st /\ pc'[h] \in {"read", "write"}
        /\ \A g \in Handlers : g # h => request'[g] = request[g] /\ pc'[g] = pc[g]
    BY <2>2, TypeRequest DEF BaseInv
  <2>4. st.other = Null /\ p \in Profiles /\ state[p] = "live"
    BY <1>2, <2>2 DEF RequestFresh, NoRequest, Live
  <2>5. RequestFresh(h)'
    BY <1>1, <2>2, <2>3, <2>4, NullIsNoProfile DEF RequestFresh
  <2> QED
    BY <1>1, <1>2, <2>2, <2>3, <2>4, <2>5, FreshRequest DEF BaseInv, RequestFresh
<1>5. CASE ReadDefault(h) /\ pc'[h] = "demote"
  <2>1. PICK d \in Defaults, st \in Request :
            /\ st.id = request[h].id /\ st.mine = request[h].mine /\ st.other = d
            /\ request' = [request EXCEPT ![h] = st]
            /\ pc' = [pc EXCEPT ![h] = "demote"]
    BY <1>5, FoundEffect DEF BaseInv
  <2>2. /\ request'[h] = st /\ pc'[h] = "demote"
        /\ \A g \in Handlers : g # h => request'[g] = request[g] /\ pc'[g] = pc[g]
    BY <2>1, TypeRequest DEF BaseInv
  <2>3. d \in Profiles /\ state[d] # "new" /\ pc[h] = "read"
    BY <1>5 DEF Defaults, Live, ReadDefault
  <2>4. RequestFresh(h)'
    BY <1>1, <1>2, <2>1, <2>2, <2>3 DEF RequestFresh
  <2>5. request'[h].id \in Profiles /\ state'[request'[h].id] = "new" =>
            \A g \in Handlers : g # h => request[g].id # request'[h].id
    BY <1>1, <2>1, <2>2 DEF BaseInv, Fresh
  <2> QED
    BY <1>1, <1>2, <2>2, <2>4, <2>5, FreshRequest DEF BaseInv, RequestFresh
<1>6. CASE ReadDefault(h) /\ pc'[h] # "demote"
  <2>1. CASE Return(h)
    BY <2>1, <1>1, <1>2, BaseReturn DEF RequestFresh
  <2>2. CASE /\ UNCHANGED request
             /\ pc' = [pc EXCEPT ![h] = Final(h)]
    <3>1. /\ request'[h] = request[h] /\ pc'[h] = Final(h)
          /\ \A g \in Handlers : g # h => request'[g] = request[g] /\ pc'[g] = pc[g]
      BY <2>2 DEF BaseInv, TypeOK
    <3>2. pc[h] = "read"
      BY <1>6 DEF ReadDefault
    <3>3. RequestFresh(h)'
      BY <1>1, <1>2, <3>1, <3>2 DEF RequestFresh, Final
    <3>4. request'[h].id \in Profiles /\ state'[request'[h].id] = "new" =>
              \A g \in Handlers : g # h => request[g].id # request'[h].id
      BY <1>1, <3>1 DEF BaseInv, Fresh
    <3> QED
      BY <1>1, <1>2, <3>1, <3>3, <3>4, FreshRequest DEF BaseInv, RequestFresh
  <2> QED
    BY <1>6, <2>1, <2>2, ReadEffect DEF BaseInv
<1> QED
  BY <1>3, <1>4, <1>5, <1>6

LEMMA TypeDemote == ASSUME BaseInv, NEW h \in Handlers, Demote(h) PROVE TypeOK'
<1>1. /\ TypeOK /\ request[h] \in Request /\ request[h].theirs \in Row
      /\ UNCHANGED <<state, now, sweeping, swept, repeated, faults>>
      /\ request[h].other \in Profiles
  BY DEF BaseInv, TypeOK, Request, Demote, Fresh, RequestFresh
<1>2. CASE state[request[h].other] = "live"
  <2>1. /\ table' = [table EXCEPT ![request[h].other] = request[h].theirs]
        /\ patched' = patched \union {request[h].other}
        /\ pc' = [pc EXCEPT ![h] = Final(h)] /\ UNCHANGED request
    BY <1>2 DEF Demote
  <2>2. table' \in [Profiles -> Row] /\ patched' \subseteq Profiles
    BY <1>1, <2>1 DEF TypeOK
  <2>3. pc' \in [Handlers -> {"idle", "read", "demote", "insert", "write"}]
    BY <1>1, <2>1 DEF TypeOK, Final
  <2> QED
    BY <1>1, <2>1, <2>2, <2>3 DEF TypeOK, sweeping
<1>3. CASE state[request[h].other] # "live"
  <2>1. Return(h) /\ UNCHANGED <<table, patched>>
    BY <1>3 DEF Demote
  <2> QED
    BY <1>1, <2>1, TypeReturn DEF TypeOK, sweeping
<1> QED
  BY <1>2, <1>3

LEMMA BaseDemote == ASSUME BaseInv, NEW h \in Handlers, Demote(h) PROVE BaseInv'
<1>1. TypeOK' /\ UNCHANGED <<state, sweeping>> /\ pc[h] = "demote"
  BY TypeDemote DEF Demote
<1>2. RequestFresh(h) /\ (\A g \in Handlers : RequestFresh(g))
  BY DEF BaseInv, Fresh
<1>3. CASE Return(h)
  BY <1>1, <1>2, <1>3, BaseReturn DEF RequestFresh
<1>4. CASE UNCHANGED request /\ pc' = [pc EXCEPT ![h] = Final(h)]
  <2>1. /\ request'[h] = request[h] /\ pc'[h] = Final(h)
        /\ \A g \in Handlers : g # h => request'[g] = request[g] /\ pc'[g] = pc[g]
    BY <1>4 DEF BaseInv, TypeOK
  <2>2. RequestFresh(h)'
    BY <1>1, <1>2, <2>1 DEF RequestFresh, Final
  <2>3. request'[h].id \in Profiles /\ state'[request'[h].id] = "new" =>
            \A g \in Handlers : g # h => request[g].id # request'[h].id
    BY <1>1, <2>1 DEF BaseInv, Fresh
  <2> QED
    BY <1>1, <1>2, <2>1, <2>2, <2>3, FreshRequest DEF BaseInv, RequestFresh
<1> QED
  BY <1>3, <1>4 DEF Demote

LEMMA InsertedRow ==
    ASSUME TypeOK, NEW row \in Row
    PROVE  \E b \in Row : /\ b = [row EXCEPT !.born = now]
                          /\ b.default = row.default /\ b.last = row.last
<1>1. PICK b : b = [row EXCEPT !.born = now]
  OBVIOUS
<1>2. b \in Row /\ b.default = row.default /\ b.last = row.last
  BY <1>1 DEF TypeOK, Row
<1> QED
  BY <1>1, <1>2

LEMMA BaseInsert == ASSUME BaseInv, NEW h \in Handlers, Insert(h) PROVE BaseInv'
<1> DEFINE p == request[h].id
<1>1. /\ TypeOK /\ p \in Profiles /\ state[p] = "new" /\ request[h].mine \in Row
      /\ pc[h] = "insert"
  BY DEF BaseInv, TypeOK, Request, Insert, Fresh, RequestFresh
<1>2. PICK b \in Row : b = [request[h].mine EXCEPT !.born = now]
  BY <1>1, InsertedRow
<1>3. /\ state' = [state EXCEPT ![p] = "live"] /\ table' = [table EXCEPT ![p] = b]
      /\ Return(h) /\ UNCHANGED <<now, sweeping, history, faults>>
  BY <1>2 DEF Insert
<1>4. /\ state' \in [Profiles -> {"new", "live", "gone"}]
      /\ table' \in [Profiles -> Row]
  BY <1>1, <1>3 DEF TypeOK
<1>5. TypeOK'
  BY <1>1, <1>3, <1>4, TypeReturn DEF TypeOK, sweeping, history
<1>6. \A q \in Profiles : state'[q] = "new" => state[q] = "new"
  BY <1>1, <1>3 DEF TypeOK
<1>7. ASSUME NEW g \in Handlers, g # h, pc[g] = "insert" PROVE state'[request[g].id] = "new"
  <2>1. request[g].id \in Profiles /\ state[request[g].id] = "new"
    BY <1>7 DEF BaseInv, Fresh, RequestFresh
  <2>2. request[g].id # p
    BY <1>1, <1>7, <2>1 DEF BaseInv, Fresh
  <2> QED
    BY <1>1, <1>3, <2>1, <2>2 DEF TypeOK
<1> QED
  BY <1>3, <1>5, <1>6, <1>7, BaseReturn

LEMMA BaseWrite == ASSUME BaseInv, NEW h \in Handlers, Write(h) PROVE BaseInv'
<1> DEFINE p == request[h].id
<1>1. /\ TypeOK /\ p \in Profiles /\ request[h].mine \in Row
      /\ Return(h) /\ UNCHANGED <<state, now, sweeping, swept, repeated, faults>>
  BY DEF BaseInv, TypeOK, Request, Write, Fresh, RequestFresh
<1>2. \/ UNCHANGED <<table, patched>>
      \/ /\ table' = [table EXCEPT ![p] = request[h].mine]
         /\ patched' = patched \union {p}
  BY DEF Write
<1>3. table' \in [Profiles -> Row] /\ patched' \subseteq Profiles
  BY <1>1, <1>2 DEF TypeOK
<1>4. TypeOK'
  BY <1>1, <1>3, TypeReturn DEF TypeOK, sweeping
<1> QED
  BY <1>1, <1>4, BaseReturn DEF BaseInv, Fresh, RequestFresh

LEMMA Counted == ASSUME TypeOK, Fault PROVE faults' \in 0 .. MaxFaults
    BY ScheduleBounds DEF TypeOK, Fault

LEMMA BaseAborts == ASSUME BaseInv, NEW h \in Handlers, RequestAborts(h) PROVE BaseInv'
<1>1. TypeOK /\ Return(h) /\ UNCHANGED <<state, table, now, sweeping, history>>
  BY DEF BaseInv, RequestAborts
<1>2. TypeOK'
  BY <1>1, Counted, TypeReturn DEF TypeOK, sweeping, history, RequestAborts
<1> QED
  BY <1>1, <1>2, BaseReturn DEF BaseInv, Fresh, RequestFresh

LEMMA BaseDelete == ASSUME BaseInv, delete_profile PROVE BaseInv'
<1>1. PICK p \in Live : Delete(p)
  BY DEF delete_profile
<1>2. TypeOK'
  BY <1>1, NoRowIsRow DEF BaseInv, TypeOK, Live, Delete, handling, sweeping
<1>3. /\ UNCHANGED <<pc, request, spc, sweep>>
      /\ p \in Profiles /\ state[p] = "live"
      /\ \A q \in Profiles : state'[q] = "new" <=> state[q] = "new"
  BY <1>1 DEF BaseInv, TypeOK, Live, Delete, handling, sweeping
<1>4. ASSUME NEW h \in Handlers PROVE RequestFresh(h)'
  BY <1>3 DEF BaseInv, Fresh, RequestFresh
<1>5. \A s \in Sweepers : spc[s] # "idle" => sweep[s].due \subseteq Profiles
  BY DEF BaseInv, TypeOK, Sweep
<1> QED
  BY <1>2, <1>3, <1>4, <1>5 DEF BaseInv, Fresh

\* A sweep goes on, or ends, and knows no new profile.
LEMMA SweepStep ==
    ASSUME TypeOK, NEW s \in Sweepers, NEW sw \in Sweep,
           NEW step \in {"idle", "mark", "launch"},
           sweep' = [sweep EXCEPT ![s] = sw], spc' = [spc EXCEPT ![s] = step]
    PROVE  /\ sweep' \in [Sweepers -> Sweep]
           /\ spc' \in [Sweepers -> {"idle", "mark", "launch"}]
           /\ sweep'[s] = sw /\ spc'[s] = step
           /\ \A z \in Sweepers : z # s => sweep'[z] = sweep[z] /\ spc'[z] = spc[z]
    BY DEF TypeOK

LEMMA FreshSweep ==
    ASSUME BaseInv, NEW s \in Sweepers, UNCHANGED <<state, handling>>,
           \A z \in Sweepers : z # s => sweep'[z] = sweep[z] /\ spc'[z] = spc[z],
           spc'[s] # "idle" => \A p \in sweep'[s].due : state[p] # "new",
           spc'[s] = "launch" => sweep'[s].current \in sweep'[s].due
    PROVE  Fresh'
<1>1. ASSUME NEW g \in Handlers PROVE RequestFresh(g)'
  BY DEF BaseInv, Fresh, RequestFresh, handling
<1> QED
  BY <1>1 DEF BaseInv, Fresh, handling

LEMMA BaseBegin == ASSUME BaseInv, NEW s \in Sweepers, BeginSweep(s) PROVE BaseInv'
<1>1. PICK sw : sw = [at |-> now, due |-> {p \in Live : IsDue(table[p], now)}, current |-> Null]
  OBVIOUS
<1>2. sw \in Sweep /\ \A p \in sw.due : state[p] # "new"
  BY <1>1 DEF Sweep, Live, BaseInv, TypeOK
<1>3. /\ sweep' = [sweep EXCEPT ![s] = sw] /\ spc' = [spc EXCEPT ![s] = "mark"]
      /\ UNCHANGED <<state, table, now, handling, history, faults>>
  BY <1>1 DEF BeginSweep
<1>4. /\ sweep' \in [Sweepers -> Sweep]
      /\ spc' \in [Sweepers -> {"idle", "mark", "launch"}]
      /\ sweep'[s] = sw /\ spc'[s] = "mark"
      /\ \A z \in Sweepers : z # s => sweep'[z] = sweep[z] /\ spc'[z] = spc[z]
  BY <1>2, <1>3, SweepStep DEF BaseInv
<1>5. TypeOK'
  BY <1>3, <1>4 DEF BaseInv, TypeOK, handling, history
<1> QED
  BY <1>2, <1>3, <1>4, <1>5, FreshSweep DEF BaseInv

LEMMA BaseMark == ASSUME BaseInv, NEW s \in Sweepers, Mark(s) PROVE BaseInv'
<1>1. PICK p \in sweep[s].due, row \in Row, sw \in Sweep :
          /\ p \in Profiles
          /\ table' = [table EXCEPT ![p] = row]
          /\ repeated' = IF sweep[s].at \in swept[p] /\ p \notin patched
                         THEN repeated \union {p} ELSE repeated
          /\ patched' = patched \ {p}
          /\ sweep' = [sweep EXCEPT ![s] = sw]
          /\ sw.due = sweep[s].due /\ sw.current = p
  BY MarkEffect DEF BaseInv
<1>2. /\ spc' = [spc EXCEPT ![s] = "launch"] /\ spc[s] = "mark"
      /\ UNCHANGED <<state, now, handling, swept, faults>>
  BY DEF Mark
<1>3. /\ sweep' \in [Sweepers -> Sweep]
      /\ spc' \in [Sweepers -> {"idle", "mark", "launch"}]
      /\ sweep'[s] = sw /\ spc'[s] = "launch"
      /\ \A z \in Sweepers : z # s => sweep'[z] = sweep[z] /\ spc'[z] = spc[z]
  BY <1>1, <1>2, SweepStep DEF BaseInv
<1>4. TypeOK'
  BY <1>1, <1>2, <1>3 DEF BaseInv, TypeOK, handling
<1>5. \A q \in sw.due : state[q] # "new"
  BY <1>1, <1>2 DEF BaseInv, Fresh
<1> QED
  BY <1>1, <1>2, <1>3, <1>4, <1>5, FreshSweep DEF BaseInv

LEMMA BaseLaunch == ASSUME BaseInv, NEW s \in Sweepers, LaunchReleases(s) PROVE BaseInv'
<1>1. PICK sw \in Sweep, step \in {"idle", "mark"} :
          /\ sweep' = [sweep EXCEPT ![s] = sw] /\ spc' = [spc EXCEPT ![s] = step]
          /\ step = "mark" => sw.due = sweep[s].due \ {sweep[s].current}
  BY NextEffect DEF BaseInv, LaunchReleases
<1>2. /\ sweep' \in [Sweepers -> Sweep]
      /\ spc' \in [Sweepers -> {"idle", "mark", "launch"}]
      /\ sweep'[s] = sw /\ spc'[s] = step
      /\ \A z \in Sweepers : z # s => sweep'[z] = sweep[z] /\ spc'[z] = spc[z]
  BY <1>1, SweepStep DEF BaseInv
<1>3. /\ spc[s] = "launch" /\ sweep[s].at \in Time
      /\ UNCHANGED <<state, table, now, handling, repeated, patched, faults>>
  BY DEF LaunchReleases, BaseInv, TypeOK, Sweep
<1>4. swept' \in [Profiles -> SUBSET Time]
  BY <1>3 DEF LaunchReleases, BaseInv, TypeOK
<1>5. TypeOK'
  BY <1>2, <1>3, <1>4 DEF BaseInv, TypeOK, handling
<1>6. \A q \in sweep[s].due : state[q] # "new"
  BY <1>3 DEF BaseInv, Fresh
<1> QED
  BY <1>1, <1>2, <1>3, <1>5, <1>6, FreshSweep DEF BaseInv

LEMMA BaseSweepAborts == ASSUME BaseInv, NEW s \in Sweepers, SweepAborts(s) PROVE BaseInv'
<1>1. /\ sweep' = [sweep EXCEPT ![s] = NoSweep] /\ spc' = [spc EXCEPT ![s] = "idle"]
      /\ UNCHANGED <<state, table, now, handling, history>>
  BY DEF SweepAborts
<1>2. NoSweep \in Sweep
  BY Times DEF NoSweep, Sweep
<1>3. /\ sweep' \in [Sweepers -> Sweep]
      /\ spc' \in [Sweepers -> {"idle", "mark", "launch"}]
      /\ sweep'[s] = NoSweep /\ spc'[s] = "idle"
      /\ \A z \in Sweepers : z # s => sweep'[z] = sweep[z] /\ spc'[z] = spc[z]
  BY <1>1, <1>2, SweepStep DEF BaseInv
<1>4. TypeOK'
  BY <1>1, <1>3, Counted DEF BaseInv, TypeOK, handling, history, SweepAborts
<1> QED
  BY <1>1, <1>3, <1>4, FreshSweep DEF BaseInv

LEMMA BaseNext == ASSUME BaseInv, [Next]_vars PROVE BaseInv'
<1>1. CASE Tick
  <2>1. now' \in Time
    BY <1>1, ScheduleBounds DEF Tick, BaseInv, TypeOK, Time
  <2>2. TypeOK'
    BY <1>1, <2>1 DEF Tick, BaseInv, TypeOK, handling, sweeping, history
  <2>3. Fresh'
    BY <1>1 DEF Tick, BaseInv, Fresh, RequestFresh, handling, sweeping
  <2> QED
    BY <2>2, <2>3 DEF BaseInv
<1>2. CASE UNCHANGED vars
  BY <1>2 DEF vars, BaseInv, TypeOK, Fresh, RequestFresh, handling, sweeping, history
<1>3. ASSUME NEW h \in Handlers,
             create_profile(h) \/ update_profile(h) \/ HandlerStep(h) \/ RequestAborts(h)
      PROVE  BaseInv'
  BY <1>3, BaseAsked, BaseDemote, BaseInsert, BaseWrite, BaseAborts DEF HandlerStep
<1>4. ASSUME NEW s \in Sweepers, SweeperStep(s) \/ SweepAborts(s) PROVE BaseInv'
  BY <1>4, BaseBegin, BaseMark, BaseLaunch, BaseSweepAborts DEF SweeperStep
<1> QED
  BY <1>1, <1>2, <1>3, <1>4, BaseDelete DEF Next

LEMMA BaseInvariant == Spec => []BaseInv
  BY BaseInit, BaseNext, PTL DEF Spec

\* Every variable keeps its range, whatever requests and sweeps overlap.
THEOREM SchedulesTypeCorrect == Spec => []TypeOK
<1>1. BaseInv => TypeOK
  BY DEF BaseInv
<1> QED
  BY <1>1, BaseInvariant, PTL

-----------------------------------------------------------------------------
(* Marked is swept, with any number of requests and sweeps.                 *)

\* The times of a last run that profile p, or a copy of its row, may show.
Runs(p) == {Never} \union swept[p]
           \union {sweep[s].at : s \in {z \in Sweepers : spc[z] = "launch" /\ sweep[z].current = p}}

CopiesAccounted(p, h) ==
    /\ request[h].id = p => request[h].mine.last \in Runs(p)
    /\ request[h].other = p => request[h].theirs.last \in Runs(p)

RunsAccounted ==
    faults = 0 => \A p \in Live : /\ table[p].last \in Runs(p)
                                  /\ \A h \in Handlers : CopiesAccounted(p, h)

\* What a live profile may show stays accounted for, but when a sweep is cut short.
LEMMA RunsStay ==
    ASSUME NEW p, swept[p] \subseteq swept'[p],
           \A s \in Sweepers : spc[s] = "launch" /\ sweep[s].current = p =>
              \/ sweep[s].at \in swept'[p]
              \/ spc'[s] = "launch" /\ sweep'[s].current = p /\ sweep'[s].at = sweep[s].at
    PROVE  Runs(p) \subseteq Runs(p)'
    BY DEF Runs

LEMMA RunsUndisturbed ==
    ASSUME NEW p, swept[p] \subseteq swept'[p], UNCHANGED sweeping
    PROVE  Runs(p) \subseteq Runs(p)'
    BY RunsStay DEF sweeping

\* A request takes and stores copies; sweeps and their firings stay.
LEMMA RunsRequest ==
    ASSUME BaseInv, RunsAccounted, NEW h \in Handlers,
           UNCHANGED <<sweeping, swept>>, faults' = 0 => faults = 0,
           \A g \in Handlers : g # h => request'[g] = request[g],
           ASSUME NEW p \in Live', faults = 0,
                  p \in Live => table[p].last \in Runs(p) /\ CopiesAccounted(p, h)
           PROVE  /\ table'[p].last \in Runs(p)
                  /\ request'[h].id = p => request'[h].mine.last \in Runs(p)
                  /\ request'[h].other = p => request'[h].theirs.last \in Runs(p)
                  /\ p \notin Live => \A g \in Handlers : g # h =>
                        request[g].id # p /\ request[g].other # p
    PROVE  RunsAccounted'
<1> SUFFICES ASSUME faults = 0, NEW p \in Live'
             PROVE  /\ table'[p].last \in Runs(p)'
                    /\ \A g \in Handlers : CopiesAccounted(p, g)'
  BY DEF RunsAccounted
<1>1. Runs(p) \subseteq Runs(p)'
  BY RunsUndisturbed
<1>2. p \in Live => /\ table[p].last \in Runs(p)
                    /\ \A g \in Handlers : CopiesAccounted(p, g)
  BY DEF RunsAccounted
<1>3. /\ table'[p].last \in Runs(p)
      /\ request'[h].id = p => request'[h].mine.last \in Runs(p)
      /\ request'[h].other = p => request'[h].theirs.last \in Runs(p)
      /\ p \notin Live => \A g \in Handlers : g # h =>
            request[g].id # p /\ request[g].other # p
  BY <1>2
<1>4. ASSUME NEW g \in Handlers PROVE CopiesAccounted(p, g)'
  <2>1. CASE g = h
    BY <2>1, <1>1, <1>3 DEF CopiesAccounted
  <2>2. CASE g # h
    BY <2>2, <1>1, <1>2, <1>3 DEF CopiesAccounted
  <2> QED
    BY <2>1, <2>2
<1> QED
  BY <1>1, <1>3, <1>4

LEMMA RunsNever == ASSUME NEW p PROVE Never \in Runs(p)
    BY DEF Runs

LEMMA RunsHandler ==
    ASSUME BaseInv, RunsAccounted, NEW h \in Handlers,
           create_profile(h) \/ update_profile(h) \/ HandlerStep(h) \/ RequestAborts(h)
    PROVE  RunsAccounted'
<1>1. /\ TypeOK /\ RequestFresh(h) /\ request[h] \in Request /\ faults \in Nat
      /\ request \in [Handlers -> Request]
  BY ScheduleBounds DEF BaseInv, TypeOK, Fresh
<1>2. CASE create_profile(h)
  <2>1. PICK default \in BOOLEAN : Create(h, default)
    BY <1>2 DEF create_profile
  <2>2. PICK p \in Profiles, st \in Request :
            /\ pc[h] = "idle" /\ state[p] = "new" /\ st.id = p
            /\ st.mine.last = request[h].mine.last
            /\ st.other = request[h].other
            /\ request' = [request EXCEPT ![h] = st]
            /\ UNCHANGED <<state, table, now, sweeping, history, faults>>
    BY <2>1, <1>1, CreateEffect
  <2>3. st.other = Null /\ Null \notin Live
    BY <1>1, <2>2, NullIsNoProfile DEF RequestFresh, NoRequest, Live
  <2>4. p \notin Live
    BY <2>2 DEF Live
  <2> QED
    BY <1>1, <2>2, <2>3, <2>4, RunsRequest DEF Live, history
<1>3. CASE update_profile(h)
  <2>1. PICK default \in {"keep", "yes", "no"}, cron \in {"keep", "set", "clear"} :
            Update(h, default, cron)
    BY <1>3 DEF update_profile
  <2>2. PICK p \in Live, st \in Request :
            /\ pc[h] = "idle" /\ st.id = p
            /\ st.mine.last \in {table[p].last, Never}
            /\ st.other = request[h].other
            /\ request' = [request EXCEPT ![h] = st]
            /\ UNCHANGED <<state, table, now, sweeping, history, faults>>
    BY <2>1, <1>1, UpdateEffect
  <2>3. st.other = Null /\ Null \notin Live
    BY <1>1, <2>2, NullIsNoProfile DEF RequestFresh, NoRequest, Live
  <2> QED
    BY <1>1, <2>2, <2>3, RunsRequest, RunsNever DEF Live, history
<1>4. CASE ReadDefault(h) /\ pc'[h] = "demote"
  <2>1. PICK d \in Defaults, st \in Request :
            /\ st.id = request[h].id /\ st.mine = request[h].mine
            /\ st.other = d /\ st.theirs.default = FALSE
            /\ st.theirs.last = table[d].last
            /\ request' = [request EXCEPT ![h] = st]
            /\ pc' = [pc EXCEPT ![h] = "demote"]
    <3>1. TypeOK /\ ReadDefault(h) /\ pc'[h] = "demote"
      BY <1>1, <1>4
    <3> QED
      BY <3>1, FoundEffect, Zenon
  <2>2. UNCHANGED <<state, table, now, sweeping, history, faults>>
    BY <1>4 DEF ReadDefault
  <2> QED
    BY <1>1, <2>1, <2>2, RunsRequest DEF Live, history, CopiesAccounted
<1>5. ASSUME Return(h), UNCHANGED <<state, table, sweeping, swept>>, faults' = 0 => faults = 0
      PROVE  RunsAccounted'
  <2>1. /\ request'[h] = NoRequest
        /\ \A g \in Handlers : g # h => request'[g] = request[g]
    BY <1>1, <1>5, TypeReturn
  <2>2. NoRequest.id \notin Live /\ NoRequest.other \notin Live
    BY NullIsNoProfile DEF NoRequest, Live
  <2> QED
    BY <1>1, <1>5, <2>1, <2>2, RunsRequest DEF Live
<1>6. ASSUME UNCHANGED <<state, table, sweeping, swept, request, faults>> PROVE RunsAccounted'
  BY <1>1, <1>6, RunsRequest DEF Live, CopiesAccounted
<1>7. CASE ReadDefault(h) /\ pc'[h] # "demote"
  <2>1. UNCHANGED <<state, table, now, sweeping, history, faults>>
    BY <1>7 DEF ReadDefault
  <2> QED
    BY <1>1, <1>5, <1>6, <1>7, <2>1, ReadEffect DEF history
<1>8. CASE Demote(h)
  <2>1. UNCHANGED <<state, now, sweeping, swept, repeated, faults>> /\ pc[h] = "demote"
    BY <1>8 DEF Demote
  <2>2. CASE state[request[h].other] = "live"
    <3>1. /\ table' = [table EXCEPT ![request[h].other] = request[h].theirs]
          /\ UNCHANGED request
      BY <1>8, <2>2 DEF Demote
    <3>2. \A p \in Profiles : table'[p] = IF p = request[h].other THEN request[h].theirs
                                                                  ELSE table[p]
      BY <1>1, <3>1 DEF TypeOK
    <3> QED
      BY <1>1, <2>1, <3>1, <3>2, RunsRequest DEF Live, CopiesAccounted
  <2>3. CASE state[request[h].other] # "live"
    BY <1>5, <1>8, <2>1, <2>3 DEF Demote
  <2> QED
    BY <2>2, <2>3
<1>9. CASE Insert(h)
  <2> DEFINE q == request[h].id
  <2>1. pc[h] = "insert" /\ q \in Profiles /\ state[q] = "new" /\ request[h].mine.last = Never
    BY <1>1, <1>9 DEF Insert, RequestFresh
  <2>2. PICK b \in Row : /\ b = [request[h].mine EXCEPT !.born = now]
                         /\ b.last = request[h].mine.last
    BY <1>1, InsertedRow DEF Request
  <2>3. /\ state' = [state EXCEPT ![q] = "live"] /\ table' = [table EXCEPT ![q] = b]
        /\ Return(h) /\ UNCHANGED <<now, sweeping, history, faults>>
    BY <1>9, <2>2 DEF Insert
  <2>4. /\ request'[h] = NoRequest /\ NoRequest.id = Null /\ NoRequest.other = Null
        /\ \A g \in Handlers : g # h => request'[g] = request[g]
    BY <1>1, <2>3, TypeReturn DEF NoRequest
  <2>5. \A g \in Handlers : g # h => request[g].id # q /\ request[g].other # q
    BY <2>1 DEF BaseInv, Fresh, RequestFresh
  <2>6. \A p \in Live' : /\ p \in Profiles /\ p # Null /\ (p # q => p \in Live)
                         /\ table'[p] = IF p = q THEN b ELSE table[p]
    BY <1>1, <2>3, NullIsNoProfile DEF TypeOK, Live
  <2> HIDE DEF q
  <2>7. ASSUME NEW p \in Live', p \in Live => table[p].last \in Runs(p)
        PROVE  /\ table'[p].last \in Runs(p)
               /\ request'[h].id # p /\ request'[h].other # p
               /\ p \notin Live => p = q
    <3>1. CASE p = q
      BY <2>1, <2>2, <2>4, <2>6, <2>7, <3>1, RunsNever
    <3>2. CASE p # q
      BY <2>4, <2>6, <2>7, <3>2
    <3> QED
      BY <3>1, <3>2
  <2>8. UNCHANGED <<sweeping, swept, faults>>
    BY <2>3 DEF history
  <2> QED
    BY <2>4, <2>5, <2>7, <2>8, RunsRequest
<1>10. CASE Write(h)
  <2>1. /\ UNCHANGED <<state, now, sweeping, swept, repeated, faults>>
        /\ pc[h] = "write" /\ Return(h)
    BY <1>10 DEF Write
  <2>2. /\ request'[h] = NoRequest /\ NoRequest.id = Null /\ NoRequest.other = Null
        /\ \A g \in Handlers : g # h => request'[g] = request[g]
    BY <1>1, <2>1, TypeReturn DEF NoRequest
  <2>3. \A p \in Profiles : table'[p] \in {table[p]} \union
            (IF p = request[h].id THEN {request[h].mine} ELSE {})
    BY <1>1, <1>10 DEF Write, TypeOK
  <2>4. Live' = Live /\ \A p \in Live : p \in Profiles /\ p # Null
    BY <2>1, NullIsNoProfile DEF Live
  <2> QED
    BY <1>1, <2>1, <2>2, <2>3, <2>4, RunsRequest DEF CopiesAccounted
<1>11. CASE RequestAborts(h)
  <2>1. faults' # 0
    BY <1>1, <1>11 DEF RequestAborts, Fault
  <2> QED
    BY <1>5, <1>11, <2>1 DEF RequestAborts, history
<1> QED
  BY <1>2, <1>3, <1>4, <1>7, <1>8, <1>9, <1>10, <1>11 DEF HandlerStep

\* Sweeps leave the copies alone, and may store a time that is accounted for.
LEMMA RunsSweeper ==
    ASSUME RunsAccounted, UNCHANGED request, faults' = 0 => faults = 0, Live' \subseteq Live,
           ASSUME NEW p \in Live' PROVE Runs(p) \subseteq Runs(p)',
           ASSUME NEW p \in Live', table[p].last \in Runs(p)', faults = 0
           PROVE  table'[p].last \in Runs(p)'
    PROVE  RunsAccounted'
<1> SUFFICES ASSUME faults = 0, NEW p \in Live'
             PROVE  /\ table'[p].last \in Runs(p)'
                    /\ \A h \in Handlers : CopiesAccounted(p, h)'
  BY DEF RunsAccounted
<1>1. /\ table[p].last \in Runs(p)
      /\ \A h \in Handlers : CopiesAccounted(p, h)
  BY DEF RunsAccounted
<1>2. Runs(p) \subseteq Runs(p)'
  OBVIOUS
<1>3. table'[p].last \in Runs(p)'
  BY <1>1, <1>2
<1> QED
  BY <1>1, <1>2, <1>3 DEF CopiesAccounted

LEMMA RunsSweep ==
    ASSUME BaseInv, RunsAccounted, NEW s \in Sweepers, SweeperStep(s) \/ SweepAborts(s)
    PROVE  RunsAccounted'
<1>1. TypeOK /\ faults \in Nat
  BY ScheduleBounds DEF BaseInv, TypeOK
<1>2. CASE BeginSweep(s)
  <2>1. /\ UNCHANGED <<state, table, now, handling, history, faults>> /\ spc[s] = "idle"
        /\ \A z \in Sweepers : z # s => sweep'[z] = sweep[z] /\ spc'[z] = spc[z]
    BY <1>1, <1>2 DEF BeginSweep, TypeOK
  <2>2. ASSUME NEW p \in Live' PROVE Runs(p) \subseteq Runs(p)'
    BY <2>1, RunsStay DEF history
  <2> QED
    BY <2>1, <2>2, RunsSweeper DEF Live, handling
<1>3. CASE Mark(s)
  <2>1. PICK p \in sweep[s].due, row \in Row, sw \in Sweep :
            /\ p \in Profiles
            /\ table' = [table EXCEPT ![p] = row]
            /\ row.last = IF state[p] = "live" THEN sweep[s].at ELSE table[p].last
            /\ sweep' = [sweep EXCEPT ![s] = sw]
            /\ sw.at = sweep[s].at /\ sw.current = p
    BY <1>1, <1>3, MarkEffect
  <2>2. /\ spc' = [spc EXCEPT ![s] = "launch"] /\ spc[s] = "mark"
        /\ UNCHANGED <<state, now, handling, swept, faults>>
    BY <1>3 DEF Mark
  <2>3. /\ sweep'[s] = sw /\ spc'[s] = "launch"
        /\ \A z \in Sweepers : z # s => sweep'[z] = sweep[z] /\ spc'[z] = spc[z]
    BY <1>1, <2>1, <2>2, SweepStep
  <2>4. ASSUME NEW q \in Live' PROVE Runs(q) \subseteq Runs(q)'
    BY <2>2, <2>3, RunsStay
  <2>5. ASSUME NEW q \in Live', table[q].last \in Runs(q)'
        PROVE  table'[q].last \in Runs(q)'
    <3>1. q \in Profiles /\ state[q] = "live"
      BY <2>2 DEF Live
    <3>2. CASE q # p
      BY <1>1, <2>1, <2>5, <3>1, <3>2 DEF TypeOK
    <3>3. CASE q = p
      <4>1. table'[q].last = sweep[s].at
        BY <1>1, <2>1, <3>1, <3>3 DEF TypeOK
      <4>2. spc'[s] = "launch" /\ sweep'[s].current = q /\ sweep'[s].at = sweep[s].at
        BY <2>1, <2>3, <3>3
      <4> QED
        BY <4>1, <4>2 DEF Runs
    <3> QED
      BY <3>2, <3>3
  <2> QED
    BY <2>2, <2>4, <2>5, RunsSweeper DEF Live, handling
<1>4. CASE LaunchReleases(s)
  <2>1. PICK sw \in Sweep, step \in {"idle", "mark"} :
            /\ sweep' = [sweep EXCEPT ![s] = sw] /\ spc' = [spc EXCEPT ![s] = step]
    BY <1>1, <1>4, NextEffect DEF LaunchReleases
  <2>2. \A z \in Sweepers : z # s => sweep'[z] = sweep[z] /\ spc'[z] = spc[z]
    BY <1>1, <2>1 DEF TypeOK
  <2>3. UNCHANGED <<state, table, now, handling, repeated, patched, faults>>
    BY <1>4 DEF LaunchReleases
  <2>4. ASSUME NEW q \in Live'
        PROVE  /\ swept[q] \subseteq swept'[q]
               /\ sweep[s].current = q => sweep[s].at \in swept'[q]
    <3>1. q \in Live /\ q \in Profiles
      BY <2>3 DEF Live
    <3>2. CASE sweep[s].current \in Live
      <4>1. swept' = [swept EXCEPT ![sweep[s].current] = @ \union {sweep[s].at}]
        BY <1>4, <3>2 DEF LaunchReleases
      <4> QED
        BY <1>1, <3>1, <4>1 DEF TypeOK
    <3>3. CASE sweep[s].current \notin Live
      BY <1>4, <3>1, <3>3 DEF LaunchReleases
    <3> QED
      BY <3>2, <3>3
  <2>5. ASSUME NEW q \in Live' PROVE Runs(q) \subseteq Runs(q)'
    BY <2>2, <2>4, RunsStay
  <2> QED
    BY <2>3, <2>5, RunsSweeper DEF Live, handling
<1>5. CASE SweepAborts(s)
  BY <1>1, <1>5 DEF SweepAborts, Fault, RunsAccounted
<1> QED
  BY <1>2, <1>3, <1>4, <1>5 DEF SweeperStep

LEMMA RunsNext == ASSUME BaseInv, RunsAccounted, [Next]_vars PROVE RunsAccounted'
<1>1. CASE Tick \/ UNCHANGED vars
  <2>1. UNCHANGED <<state, table, handling, sweeping, history, faults>>
    BY <1>1 DEF Tick, vars
  <2>2. ASSUME NEW p \in Live' PROVE Runs(p) \subseteq Runs(p)'
    BY <2>1, RunsUndisturbed DEF history
  <2> QED
    BY <2>1, <2>2, RunsSweeper DEF Live, handling
<1>2. CASE delete_profile
  <2>1. PICK p \in Live : Delete(p)
    BY <1>2 DEF delete_profile
  <2>2. /\ state' = [state EXCEPT ![p] = "gone"] /\ table' = [table EXCEPT ![p] = NoRow]
        /\ swept' = [swept EXCEPT ![p] = {}]
        /\ UNCHANGED <<now, handling, sweeping, faults>>
    BY <2>1 DEF Delete
  <2>3. \A q \in Live' : q \in Live /\ q # p /\ table'[q] = table[q] /\ swept'[q] = swept[q]
    BY <2>2 DEF Live, BaseInv, TypeOK
  <2>4. ASSUME NEW q \in Live' PROVE Runs(q) \subseteq Runs(q)'
    BY <2>2, <2>3, RunsUndisturbed
  <2> QED
    BY <2>2, <2>3, <2>4, RunsSweeper DEF handling
<1> QED
  BY <1>1, <1>2, RunsHandler, RunsSweep DEF Next

\* A profile that shows a run was swept for it, or is being swept, unless a sweep
\* was cut short: no stale copy of a row brings back a mark without its sweep.
THEOREM MarksAreSwept == Spec => []MarkedIsSwept
<1>1. Init => RunsAccounted
  BY DEF Init, RunsAccounted, Live
<1>2. BaseInv /\ RunsAccounted /\ [Next]_vars => RunsAccounted'
  BY RunsNext
<1>3. RunsAccounted => MarkedIsSwept
  BY DEF RunsAccounted, MarkedIsSwept, Runs
<1> QED
  BY <1>1, <1>2, <1>3, BaseInvariant, PTL DEF Spec

-----------------------------------------------------------------------------
(* One default, with requests that do not overlap.                          *)

RequestKnowsDefault(h) ==
    /\ pc[h] \in {"insert", "write"} /\ request[h].mine.default =>
          Defaults \subseteq {request[h].id}
    /\ pc[h] = "demote" =>
          Defaults \subseteq {request[h].other} /\ request[h].theirs.default = FALSE

DefaultsKnown ==
    /\ \A p, q \in Defaults : p = q
    /\ \A h \in Handlers : RequestKnowsDefault(h)

LEMMA DefaultsHandler ==
    ASSUME BaseInv, DefaultsKnown, OneAtATime(Handlers), NEW h \in Handlers,
           create_profile(h) \/ update_profile(h) \/ HandlerStep(h) \/ RequestAborts(h)
    PROVE  DefaultsKnown'
<1>1. /\ TypeOK /\ RequestFresh(h) /\ request[h] \in Request /\ RequestKnowsDefault(h)
      /\ \A p, q \in Defaults : p = q
  BY DEF BaseInv, TypeOK, Fresh, DefaultsKnown
<1>2. ASSUME RequestKnowsDefault(h)', \A p, q \in Defaults' : p = q PROVE DefaultsKnown'
  <2>1. ASSUME NEW g \in Handlers PROVE RequestKnowsDefault(g)'
    <3>1. g = h
      BY DEF OneAtATime
    <3> QED
      BY <1>2, <3>1
  <2> QED
    BY <1>2, <2>1 DEF DefaultsKnown
<1>3. ASSUME UNCHANGED <<state, table>> PROVE Defaults' = Defaults
  BY <1>3 DEF Defaults, Live
<1>4. CASE create_profile(h)
  <2>1. PICK default \in BOOLEAN : Create(h, default)
    BY <1>4 DEF create_profile
  <2>2. PICK st \in Request :
            /\ st.mine.default = default
            /\ request' = [request EXCEPT ![h] = st]
            /\ pc' = [pc EXCEPT ![h] = IF default THEN "read" ELSE "insert"]
    BY <2>1, <1>1, CreateEffect
  <2>3. UNCHANGED <<state, table>>
    BY <2>1 DEF Create
  <2>4. request'[h] = st /\ pc'[h] = IF default THEN "read" ELSE "insert"
    BY <1>1, <2>2 DEF TypeOK
  <2>5. RequestKnowsDefault(h)'
    BY <2>2, <2>4 DEF RequestKnowsDefault
  <2> QED
    BY <1>1, <1>2, <1>3, <2>3, <2>5
<1>5. CASE update_profile(h)
  <2>1. PICK default \in {"keep", "yes", "no"}, cron \in {"keep", "set", "clear"} :
            Update(h, default, cron)
    BY <1>5 DEF update_profile
  <2>2. PICK p \in Live, st \in Request :
            /\ st.id = p
            /\ st.mine.default = IF default = "keep" THEN table[p].default
                                                     ELSE default = "yes"
            /\ request' = [request EXCEPT ![h] = st]
            /\ pc' = [pc EXCEPT ![h] = IF default = "yes" /\ ~ table[p].default
                                       THEN "read" ELSE "write"]
    BY <2>1, <1>1, UpdateEffect
  <2>3. UNCHANGED <<state, table>>
    BY <2>1 DEF Update
  <2>4. /\ request'[h] = st
        /\ pc'[h] = IF default = "yes" /\ ~ table[p].default THEN "read" ELSE "write"
    BY <1>1, <2>2 DEF TypeOK
  <2>5. ASSUME pc'[h] = "write", st.mine.default PROVE Defaults \subseteq {p}
    <3>1. table[p].default
      <4>1. CASE default = "keep"
        <5>1. st.mine.default = table[p].default
          BY <2>2, <4>1, Zenon
        <5> QED
          BY <2>5, <5>1, Zenon
      <4>2. CASE default = "yes"
        BY <2>4, <2>5, <4>2
      <4>3. CASE default = "no"
        <5>1. st.mine.default = FALSE
          BY <2>2, <4>3
        <5> QED
          BY <2>5, <5>1
      <4> QED
        BY <4>1, <4>2, <4>3
    <3>2. p \in Defaults
      BY <3>1 DEF Defaults
    <3> QED
      BY <1>1, <3>2
  <2>6. Defaults' = Defaults
    BY <1>3, <2>3
  <2>7. RequestKnowsDefault(h)'
    BY <2>2, <2>4, <2>5, <2>6 DEF RequestKnowsDefault
  <2> QED
    BY <1>1, <1>2, <2>6, <2>7
<1>6. CASE ReadDefault(h) /\ pc'[h] = "demote"
  <2>1. PICK d \in Defaults, st \in Request :
            /\ st.id = request[h].id /\ st.mine = request[h].mine
            /\ st.other = d /\ st.theirs.default = FALSE
            /\ st.theirs.last = table[d].last
            /\ request' = [request EXCEPT ![h] = st]
            /\ pc' = [pc EXCEPT ![h] = "demote"]
    <3>1. TypeOK /\ ReadDefault(h) /\ pc'[h] = "demote"
      BY <1>1, <1>6
    <3> QED
      BY <3>1, FoundEffect, Zenon
  <2>2. UNCHANGED <<state, table>>
    BY <1>6 DEF ReadDefault
  <2>3. request'[h] = st /\ pc'[h] = "demote"
    BY <1>1, <2>1 DEF TypeOK
  <2>4. Defaults' = Defaults /\ Defaults \subseteq {d}
    BY <1>1, <1>3, <2>2
  <2>5. RequestKnowsDefault(h)'
    BY <2>1, <2>3, <2>4 DEF RequestKnowsDefault
  <2> QED
    BY <1>1, <1>2, <2>4, <2>5
<1>7. ASSUME Return(h), Defaults' \subseteq Defaults PROVE DefaultsKnown'
  <2>1. pc'[h] = "idle"
    BY <1>1, <1>7, TypeReturn
  <2> QED
    BY <1>1, <1>2, <1>7, <2>1 DEF RequestKnowsDefault
<1>8. ASSUME UNCHANGED request, pc' = [pc EXCEPT ![h] = Final(h)], Defaults' = {}
      PROVE  DefaultsKnown'
  <2>1. pc'[h] \in {"insert", "write"}
    BY <1>1, <1>8 DEF TypeOK, Final
  <2> QED
    BY <1>2, <1>8, <2>1 DEF RequestKnowsDefault
<1>9. CASE ReadDefault(h) /\ pc'[h] # "demote"
  <2>1. UNCHANGED <<state, table>>
    BY <1>9 DEF ReadDefault
  <2> QED
    BY <1>1, <1>3, <1>7, <1>8, <1>9, <2>1, ReadEffect
<1>10. CASE Demote(h)
  <2>1. pc[h] = "demote" /\ UNCHANGED state
    BY <1>10 DEF Demote
  <2>2. CASE state[request[h].other] = "live"
    <3>1. /\ table' = [table EXCEPT ![request[h].other] = request[h].theirs]
          /\ pc' = [pc EXCEPT ![h] = Final(h)] /\ UNCHANGED request
      BY <1>10, <2>2 DEF Demote
    <3>2. \A p \in Profiles : table'[p] = IF p = request[h].other THEN request[h].theirs
                                                                  ELSE table[p]
      BY <1>1, <3>1 DEF TypeOK
    <3>3. Defaults \subseteq {request[h].other} /\ request[h].theirs.default = FALSE
      BY <1>1, <2>1 DEF RequestKnowsDefault
    <3>4. Defaults' = {}
      BY <2>1, <3>2, <3>3 DEF Defaults, Live
    <3> QED
      BY <1>8, <3>1, <3>4
  <2>3. CASE state[request[h].other] # "live"
    BY <1>3, <1>7, <1>10, <2>1, <2>3 DEF Demote
  <2> QED
    BY <2>2, <2>3
<1>11. CASE Insert(h)
  <2> DEFINE q == request[h].id
  <2>1. pc[h] = "insert" /\ q \in Profiles
    BY <1>1, <1>11 DEF Insert, RequestFresh
  <2>2. PICK b \in Row : /\ b = [request[h].mine EXCEPT !.born = now]
                         /\ b.default = request[h].mine.default
    BY <1>1, InsertedRow DEF Request
  <2>3. /\ state' = [state EXCEPT ![q] = "live"] /\ table' = [table EXCEPT ![q] = b]
        /\ Return(h)
    BY <1>11, <2>2 DEF Insert
  <2>4. \A p \in Profiles : /\ p # q => state'[p] = state[p] /\ table'[p] = table[p]
                            /\ p = q => table'[p].default = request[h].mine.default
    BY <1>1, <2>2, <2>3 DEF TypeOK
  <2>5. request[h].mine.default => Defaults \subseteq {q}
    BY <1>1, <2>1 DEF RequestKnowsDefault
  <2> HIDE DEF q
  <2>6. \A p, z \in Defaults' : p = z
    <3>1. \A p \in Defaults' : p \in Defaults \/ (p = q /\ request[h].mine.default)
      BY <2>4 DEF Defaults, Live
    <3>2. CASE request[h].mine.default
      BY <2>5, <3>1, <3>2
    <3>3. CASE ~ request[h].mine.default
      BY <1>1, <3>1, <3>3
    <3> QED
      BY <3>2, <3>3
  <2>7. pc'[h] = "idle"
    BY <1>1, <2>3, TypeReturn
  <2> QED
    BY <1>2, <2>6, <2>7 DEF RequestKnowsDefault
<1>12. CASE Write(h)
  <2> DEFINE q == request[h].id
  <2>1. pc[h] = "write" /\ q \in Profiles /\ Return(h) /\ UNCHANGED state
    BY <1>1, <1>12 DEF Write, RequestFresh
  <2>2. \A p \in Profiles : table'[p] \in {table[p]} \union
            (IF p = q THEN {request[h].mine} ELSE {})
    BY <1>1, <1>12 DEF Write, TypeOK
  <2>3. request[h].mine.default => Defaults \subseteq {q}
    BY <1>1, <2>1 DEF RequestKnowsDefault
  <2>4. \A p, z \in Defaults' : p = z
    <3>1. \A p \in Defaults' : p \in Defaults \/ (p = q /\ request[h].mine.default)
      BY <2>1, <2>2 DEF Defaults, Live
    <3>2. CASE request[h].mine.default
      BY <2>3, <3>1, <3>2
    <3>3. CASE ~ request[h].mine.default
      BY <1>1, <3>1, <3>3
    <3> QED
      BY <3>2, <3>3
  <2>5. pc'[h] = "idle"
    BY <1>1, <2>1, TypeReturn
  <2> QED
    BY <1>2, <2>4, <2>5 DEF RequestKnowsDefault
<1>13. CASE RequestAborts(h)
  BY <1>3, <1>7, <1>13 DEF RequestAborts
<1> QED
  BY <1>4, <1>5, <1>6, <1>9, <1>10, <1>11, <1>12, <1>13 DEF HandlerStep

\* Steps that take no request's part, and make no default.
LEMMA DefaultsElse ==
    ASSUME DefaultsKnown, UNCHANGED handling, Defaults' \subseteq Defaults
    PROVE  DefaultsKnown'
<1>1. ASSUME NEW g \in Handlers PROVE RequestKnowsDefault(g)'
  BY DEF DefaultsKnown, RequestKnowsDefault, handling
<1> QED
  BY <1>1 DEF DefaultsKnown

LEMMA DefaultsNext ==
    ASSUME BaseInv, DefaultsKnown, OneAtATime(Handlers), [Next]_vars
    PROVE  DefaultsKnown'
<1>1. CASE Tick \/ UNCHANGED vars
  BY <1>1, DefaultsElse DEF Tick, vars, Defaults, Live
<1>2. CASE delete_profile
  <2>1. PICK p \in Live : Delete(p)
    BY <1>2 DEF delete_profile
  <2>2. /\ state' = [state EXCEPT ![p] = "gone"] /\ table' = [table EXCEPT ![p] = NoRow]
        /\ UNCHANGED handling
    BY <2>1 DEF Delete
  <2>3. Defaults' \subseteq Defaults
    BY <2>2 DEF Defaults, Live, BaseInv, TypeOK
  <2> QED
    BY <2>2, <2>3, DefaultsElse
<1>3. ASSUME NEW s \in Sweepers, SweeperStep(s) \/ SweepAborts(s) PROVE DefaultsKnown'
  <2>1. UNCHANGED <<state, handling>>
    BY <1>3 DEF SweeperStep, BeginSweep, Mark, LaunchReleases, SweepAborts
  <2>2. CASE Mark(s)
    <3>1. PICK p \in sweep[s].due, row \in Row :
              /\ p \in Profiles /\ table' = [table EXCEPT ![p] = row]
              /\ row.default = table[p].default
      BY <2>2, MarkEffect DEF BaseInv
    <3>2. Defaults' \subseteq Defaults
      BY <2>1, <3>1 DEF Defaults, Live, BaseInv, TypeOK
    <3> QED
      BY <2>1, <3>2, DefaultsElse
  <2>3. CASE ~ Mark(s)
    <3>1. UNCHANGED table
      BY <1>3, <2>3 DEF SweeperStep, BeginSweep, LaunchReleases, SweepAborts
    <3>2. Defaults' \subseteq Defaults
      BY <2>1, <3>1 DEF Defaults, Live
    <3> QED
      BY <2>1, <3>2, DefaultsElse
  <2> QED
    BY <2>2, <2>3
<1> QED
  BY <1>1, <1>2, <1>3, DefaultsHandler DEF Next

\* Requests that come one at a time leave an organization with one default profile
\* at most, however many profiles it has and wherever a request is cut short.
THEOREM OneDefaultAtATime == ASSUME OneAtATime(Handlers) PROVE Spec => []OneDefault
<1>1. Init => DefaultsKnown
  BY DEF Init, DefaultsKnown, RequestKnowsDefault, Defaults, Live
<1>2. BaseInv /\ DefaultsKnown /\ [Next]_vars => DefaultsKnown'
  BY DefaultsNext
<1>3. DefaultsKnown => OneDefault
  <2>1. SUFFICES ASSUME DefaultsKnown PROVE Cardinality(Defaults) <= 1
    BY DEF OneDefault
  <2>2. CASE Defaults = {}
    BY <2>2, FS_EmptySet
  <2>3. CASE \E d : Defaults = {d}
    BY <2>3, FS_Singleton
  <2>4. CASE Defaults # {}
    <3>1. PICK d : d \in Defaults
      BY <2>4
    <3>2. Defaults = {d}
      BY <2>1, <3>1 DEF DefaultsKnown
    <3> QED
      BY <2>3, <3>2
  <2> QED
    BY <2>2, <2>4
<1> QED
  BY <1>1, <1>2, <1>3, BaseInvariant, PTL DEF Spec

-----------------------------------------------------------------------------
(* One sweep for a firing, with sweeps that do not overlap.                 *)

\* The row shows the last firing the profile was swept for, until a request
\* writes it.
ProfileFirings(p) ==
    /\ p \notin Live => swept[p] = {}
    /\ p \in Live \ patched => \A t \in swept[p] : table[p].last \in Time /\ t <= table[p].last
    /\ \A t \in swept[p] : t <= now

\* What a sweep has still to do, it has not done.
SweepFirings(s) ==
    /\ sweep[s].at <= now
    /\ \A p \in Profiles : \A t \in swept[p] : t <= sweep[s].at
    /\ \A p \in sweep[s].due :
          \/ spc[s] = "launch" /\ p = sweep[s].current
          \/ sweep[s].at \notin swept[p]
          \/ p \in patched
    /\ spc[s] = "launch" /\ sweep[s].current \in Live \ patched =>
          table[sweep[s].current].last = sweep[s].at

FiringsOnce ==
    /\ repeated = {}
    /\ \A p \in Profiles : ProfileFirings(p)
    /\ \A s \in Sweepers : spc[s] # "idle" => SweepFirings(s)

LEMMA TimesOrdered ==
    /\ now \in Time => now \in Nat
    /\ \A t \in Time : t \in Nat
    BY ScheduleBounds DEF Time

LEMMA FiringsElse ==
    ASSUME FiringsOnce, UNCHANGED <<state, table, now, sweeping, history>>
    PROVE  FiringsOnce'
<1> USE DEF sweeping, history, Live
<1>1. ASSUME NEW p \in Profiles PROVE ProfileFirings(p)'
  BY DEF FiringsOnce, ProfileFirings
<1>2. ASSUME NEW s \in Sweepers, spc'[s] # "idle" PROVE SweepFirings(s)'
  BY <1>2 DEF FiringsOnce, SweepFirings
<1> QED
  BY <1>1, <1>2 DEF FiringsOnce

\* A request stores the row of p, and says so.
LEMMA FiringsWritten ==
    ASSUME BaseInv, FiringsOnce, NEW p, NEW row, table' = [table EXCEPT ![p] = row],
           patched' = patched \union {p}, UNCHANGED <<state, now, sweeping, swept, repeated>>
    PROVE  FiringsOnce'
<1>1. \A q \in Profiles : q # p => table'[q] = table[q]
  BY DEF BaseInv, TypeOK
<1>2. ASSUME NEW q \in Profiles PROVE ProfileFirings(q)'
  BY <1>1 DEF FiringsOnce, ProfileFirings, Live
<1>3. ASSUME NEW s \in Sweepers, spc'[s] # "idle" PROVE SweepFirings(s)'
  BY <1>1, <1>3 DEF FiringsOnce, SweepFirings, Live, sweeping
<1> QED
  BY <1>2, <1>3 DEF FiringsOnce

LEMMA FiringsHandler ==
    ASSUME BaseInv, FiringsOnce, NEW h \in Handlers,
           create_profile(h) \/ update_profile(h) \/ HandlerStep(h) \/ RequestAborts(h)
    PROVE  FiringsOnce'
<1>1. CASE create_profile(h) \/ update_profile(h) \/ ReadDefault(h) \/ RequestAborts(h)
  BY <1>1, FiringsElse
     DEF create_profile, update_profile, Create, Update, ReadDefault, RequestAborts
<1>2. CASE Demote(h)
  <2>1. CASE UNCHANGED <<table, patched>>
    BY <1>2, <2>1, FiringsElse DEF Demote, history
  <2>2. CASE /\ table' = [table EXCEPT ![request[h].other] = request[h].theirs]
             /\ patched' = patched \union {request[h].other}
    BY <1>2, <2>2, FiringsWritten DEF Demote
  <2> QED
    BY <1>2, <2>1, <2>2 DEF Demote
<1>3. CASE Write(h)
  <2>1. CASE UNCHANGED <<table, patched>>
    BY <1>3, <2>1, FiringsElse DEF Write, history
  <2>2. CASE /\ table' = [table EXCEPT ![request[h].id] = request[h].mine]
             /\ patched' = patched \union {request[h].id}
    BY <1>3, <2>2, FiringsWritten DEF Write
  <2> QED
    BY <1>3, <2>1, <2>2 DEF Write
<1>4. CASE Insert(h)
  <2> DEFINE q == request[h].id
  <2>1. q \in Profiles /\ state[q] = "new"
    BY <1>4 DEF Insert, BaseInv, Fresh, RequestFresh
  <2>2. /\ state' = [state EXCEPT ![q] = "live"]
        /\ table' = [table EXCEPT ![q] = [request[h].mine EXCEPT !.born = now]]
        /\ UNCHANGED <<now, sweeping, history, faults>>
    BY <1>4 DEF Insert
  <2> HIDE DEF q
  <2>3. \A p \in Profiles : p # q => state'[p] = state[p] /\ table'[p] = table[p]
    BY <2>2 DEF BaseInv, TypeOK
  <2>4. swept[q] = {} /\ UNCHANGED <<now, spc, sweep, swept, repeated, patched>>
    BY <2>1, <2>2 DEF FiringsOnce, ProfileFirings, Live, sweeping, history
  <2>5. ASSUME NEW p \in Profiles PROVE ProfileFirings(p)'
    <3>1. CASE p = q
      BY <2>4, <3>1 DEF ProfileFirings
    <3>2. CASE p # q
      BY <2>3, <2>4, <3>2 DEF FiringsOnce, ProfileFirings, Live
    <3> QED
      BY <3>1, <3>2
  <2>6. ASSUME NEW s \in Sweepers, spc'[s] # "idle" PROVE SweepFirings(s)'
    <3>1. spc[s] = "launch" => sweep[s].current \in sweep[s].due /\ sweep[s].current # q
      BY <2>1 DEF BaseInv, Fresh
    <3>2. sweep[s].due \subseteq Profiles
      BY DEF BaseInv, TypeOK, Sweep
    <3> QED
      BY <2>3, <2>4, <2>6, <3>1, <3>2 DEF FiringsOnce, SweepFirings, Live
  <2> QED
    BY <2>4, <2>5, <2>6 DEF FiringsOnce
<1> QED
  BY <1>1, <1>2, <1>3, <1>4 DEF HandlerStep

LEMMA FiringsBegin ==
    ASSUME BaseInv, FiringsOnce, OneAtATime(Sweepers), NEW s \in Sweepers, BeginSweep(s)
    PROVE  FiringsOnce'
<1> DEFINE due == {p \in Live : IsDue(table[p], now)}
<1>1. /\ UNCHANGED <<state, table, now, swept, repeated, patched>>
      /\ sweep'[s].at = now /\ sweep'[s].due = due /\ spc'[s] = "mark"
  <2>1. PICK sw : sw = [at |-> now, due |-> due, current |-> Null]
    OBVIOUS
  <2>2. /\ sweep' = [sweep EXCEPT ![s] = sw] /\ spc' = [spc EXCEPT ![s] = "mark"]
        /\ UNCHANGED <<state, table, now, handling, history, faults>>
    BY <2>1 DEF BeginSweep
  <2>3. sweep'[s] = sw /\ spc'[s] = "mark"
    BY <2>2 DEF BaseInv, TypeOK
  <2> QED
    BY <2>1, <2>2, <2>3 DEF history
<1>2. ASSUME NEW p \in Profiles PROVE ProfileFirings(p)'
  BY <1>1 DEF FiringsOnce, ProfileFirings, Live
<1>3. now \in Nat /\ swept \in [Profiles -> SUBSET Time] /\ \A t \in Time : t \in Nat
  BY TimesOrdered DEF BaseInv, TypeOK
<1>4. ASSUME NEW p \in due, p \notin patched PROVE now \notin swept[p]
  <2>1. SUFFICES ASSUME now \in swept[p] PROVE FALSE
    OBVIOUS
  <2>2. p \in Profiles /\ p \in Live \ patched
    BY <1>4 DEF Live
  <2>3. table[p].last \in Time /\ now <= table[p].last
    BY <2>1, <2>2 DEF FiringsOnce, ProfileFirings
  <2>4. table[p].last # Never
    BY <2>3, Times
  <2>5. table[p].last < now
    BY <2>4 DEF IsDue
  <2> QED
    BY <1>3, <2>3, <2>5
<1>5. SweepFirings(s)'
  <2>1. \A p \in Profiles : \A t \in swept[p] : t <= now
    BY DEF FiringsOnce, ProfileFirings
  <2> QED
    BY <1>1, <1>3, <1>4, <2>1 DEF SweepFirings
<1>6. \A z \in Sweepers : z = s
  BY DEF OneAtATime
<1>7. ASSUME NEW z \in Sweepers PROVE SweepFirings(z)'
  BY <1>5, <1>6
<1> QED
  BY <1>1, <1>2, <1>7 DEF FiringsOnce

LEMMA FiringsMark ==
    ASSUME BaseInv, FiringsOnce, OneAtATime(Sweepers), NEW s \in Sweepers, Mark(s)
    PROVE  FiringsOnce'
<1>1. PICK p \in sweep[s].due, row \in Row, sw \in Sweep :
          /\ p \in Profiles
          /\ table' = [table EXCEPT ![p] = row]
          /\ row.last = IF state[p] = "live" THEN sweep[s].at ELSE table[p].last
          /\ repeated' = IF sweep[s].at \in swept[p] /\ p \notin patched
                         THEN repeated \union {p} ELSE repeated
          /\ patched' = patched \ {p}
          /\ sweep' = [sweep EXCEPT ![s] = sw]
          /\ sw.at = sweep[s].at /\ sw.due = sweep[s].due /\ sw.current = p
  BY MarkEffect DEF BaseInv
<1>2. /\ spc' = [spc EXCEPT ![s] = "launch"] /\ spc[s] = "mark"
      /\ UNCHANGED <<state, now, handling, swept, faults>>
  BY DEF Mark
<1>3. /\ sweep'[s] = sw /\ spc'[s] = "launch"
      /\ \A q \in Profiles : table'[q] = IF q = p THEN row ELSE table[q]
      /\ sweep[s].at \in Time
  BY <1>1, <1>2 DEF BaseInv, TypeOK, Sweep
<1>4. SweepFirings(s)
  BY <1>2 DEF FiringsOnce
<1>5. repeated' = {}
  BY <1>1, <1>2, <1>4 DEF FiringsOnce, SweepFirings
<1>6. ASSUME NEW q \in Profiles PROVE ProfileFirings(q)'
  <2>1. ProfileFirings(q)
    BY DEF FiringsOnce
  <2>2. CASE q = p
    BY <1>1, <1>2, <1>3, <1>4, <2>1, <2>2 DEF ProfileFirings, SweepFirings, Live
  <2>3. CASE q # p
    BY <1>1, <1>2, <1>3, <2>1, <2>3 DEF ProfileFirings, Live
  <2> QED
    BY <2>2, <2>3
<1>7. SweepFirings(s)'
  <2>1. sw.current \in Live' => table'[sw.current].last = sw.at
    BY <1>1, <1>2, <1>3 DEF Live
  <2> QED
    BY <1>1, <1>2, <1>3, <1>4, <2>1 DEF SweepFirings
<1>8. \A z \in Sweepers : z = s
  BY DEF OneAtATime
<1>9. ASSUME NEW z \in Sweepers PROVE SweepFirings(z)'
  BY <1>7, <1>8
<1> QED
  BY <1>5, <1>6, <1>9 DEF FiringsOnce

LEMMA FiringsLaunch ==
    ASSUME BaseInv, FiringsOnce, OneAtATime(Sweepers), NEW s \in Sweepers, LaunchReleases(s)
    PROVE  FiringsOnce'
<1> DEFINE at == sweep[s].at
           c == sweep[s].current
<1>1. PICK sw \in Sweep, step \in {"idle", "mark"} :
          /\ sweep' = [sweep EXCEPT ![s] = sw] /\ spc' = [spc EXCEPT ![s] = step]
          /\ step = "mark" => sw.at = at /\ sw.due = sweep[s].due \ {c}
  BY NextEffect DEF BaseInv, LaunchReleases
<1>2. /\ spc[s] = "launch" /\ UNCHANGED <<state, table, now, handling, repeated, patched, faults>>
  BY DEF LaunchReleases
<1>3. sweep'[s] = sw /\ spc'[s] = step /\ at \in Time /\ at \in Nat /\ now \in Nat
  BY <1>1, TimesOrdered DEF BaseInv, TypeOK, Sweep
<1>4. SweepFirings(s) /\ c \in Profiles
  BY <1>2 DEF FiringsOnce, BaseInv, TypeOK, Fresh, Sweep
<1>5. \A q \in Profiles : swept'[q] = IF q = c /\ c \in Live THEN swept[q] \union {at} ELSE swept[q]
  <2>1. CASE c \in Live
    <3>1. swept' = [swept EXCEPT ![c] = @ \union {at}]
      BY <2>1 DEF LaunchReleases
    <3> QED
      BY <2>1, <3>1 DEF BaseInv, TypeOK
  <2>2. CASE c \notin Live
    BY <2>2 DEF LaunchReleases
  <2> QED
    BY <2>1, <2>2
<1> HIDE DEF at, c
<1>6. ASSUME NEW q \in Profiles PROVE ProfileFirings(q)'
  <2>1. ProfileFirings(q)
    BY DEF FiringsOnce
  <2>2. CASE q = c /\ c \in Live
    <3>1. swept'[q] = swept[q] \union {at} /\ at <= now
      BY <1>4, <1>5, <2>2 DEF SweepFirings, at
    <3>2. q \in Live' \ patched' => table'[q].last = at
      BY <1>2, <1>4, <2>2 DEF SweepFirings, Live, at, c
    <3>3. \A t \in swept'[q] : t <= at
      BY <1>3, <1>4, <3>1 DEF SweepFirings, at
    <3> QED
      BY <1>2, <1>3, <2>1, <2>2, <3>1, <3>2, <3>3 DEF ProfileFirings, Live
  <2>3. CASE ~ (q = c /\ c \in Live)
    BY <1>2, <1>5, <2>1, <2>3 DEF ProfileFirings, Live
  <2> QED
    BY <2>2, <2>3
<1>7. ASSUME step = "mark" PROVE SweepFirings(s)'
  <2>1. sw.at = at /\ sw.due = sweep[s].due \ {c} /\ sw.due \subseteq Profiles
    BY <1>1, <1>7 DEF Sweep
  <2>2. \A q \in Profiles : \A t \in swept'[q] : t <= at
    <3>1. \A q \in Profiles : \A t \in swept[q] : t <= at
      BY <1>4 DEF SweepFirings, at
    <3>2. at <= at
      BY <1>3
    <3>3. ASSUME NEW q \in Profiles, NEW t \in swept'[q] PROVE t \in swept[q] \/ t = at
      BY <1>5, <3>3
    <3> QED
      BY <3>1, <3>2, <3>3
  <2>3. \A q \in sw.due : at \notin swept'[q] \/ q \in patched'
    BY <1>2, <1>4, <1>5, <2>1 DEF SweepFirings, at, c
  <2> QED
    BY <1>2, <1>3, <1>4, <1>7, <2>1, <2>2, <2>3 DEF SweepFirings, at
<1>8. \A z \in Sweepers : z = s
  BY DEF OneAtATime
<1>9. ASSUME NEW z \in Sweepers, spc'[z] # "idle" PROVE SweepFirings(z)'
  BY <1>3, <1>7, <1>8, <1>9
<1> QED
  BY <1>2, <1>6, <1>9 DEF FiringsOnce

LEMMA FiringsDelete == ASSUME BaseInv, FiringsOnce, delete_profile PROVE FiringsOnce'
<1>1. PICK p \in Live : Delete(p)
  BY DEF delete_profile
<1>2. /\ state' = [state EXCEPT ![p] = "gone"] /\ table' = [table EXCEPT ![p] = NoRow]
      /\ swept' = [swept EXCEPT ![p] = {}] /\ repeated' = repeated \ {p}
      /\ patched' = patched \ {p} /\ UNCHANGED <<now, spc, sweep>>
  BY <1>1 DEF Delete, sweeping
<1>3. /\ \A q \in Profiles : q # p => /\ state'[q] = state[q] /\ table'[q] = table[q]
                                      /\ swept'[q] = swept[q]
      /\ swept'[p] = {} /\ p \notin Live'
  BY <1>2 DEF BaseInv, TypeOK, Live
<1>4. ASSUME NEW q \in Profiles PROVE ProfileFirings(q)'
  <2>1. CASE q = p
    BY <1>3, <2>1 DEF ProfileFirings
  <2>2. CASE q # p
    BY <1>2, <1>3, <2>2 DEF FiringsOnce, ProfileFirings, Live
  <2> QED
    BY <2>1, <2>2
<1>5. ASSUME NEW s \in Sweepers, spc'[s] # "idle" PROVE SweepFirings(s)'
  <2>1. sweep[s].due \subseteq Profiles /\ SweepFirings(s)
    BY <1>2, <1>5 DEF BaseInv, TypeOK, Sweep, FiringsOnce
  <2>2. sweep[s].current \in Live' \ patched' =>
            sweep[s].current \in Live \ patched /\ sweep[s].current # p
    BY <1>2, <1>3 DEF Live
  <2> QED
    BY <1>2, <1>3, <2>1, <2>2 DEF SweepFirings, Live
<1> QED
  BY <1>2, <1>4, <1>5 DEF FiringsOnce

LEMMA FiringsTick == ASSUME BaseInv, FiringsOnce, Tick PROVE FiringsOnce'
<1>1. /\ now' = now + 1 /\ now \in Nat /\ swept \in [Profiles -> SUBSET Time]
      /\ \A t \in Time : t \in Nat
      /\ UNCHANGED <<state, table, spc, sweep, swept, repeated, patched>>
  BY TimesOrdered DEF Tick, BaseInv, TypeOK, sweeping, history
<1>2. ASSUME NEW p \in Profiles PROVE ProfileFirings(p)'
  <2>1. \A t \in swept[p] : t <= now + 1
    BY <1>1 DEF FiringsOnce, ProfileFirings
  <2> QED
    BY <1>1, <2>1 DEF FiringsOnce, ProfileFirings, Live
<1>3. ASSUME NEW s \in Sweepers, spc'[s] # "idle" PROVE SweepFirings(s)'
  <2>1. sweep[s].at \in Time /\ SweepFirings(s)
    BY <1>1, <1>3 DEF BaseInv, TypeOK, Sweep, FiringsOnce
  <2>2. sweep[s].at <= now + 1
    BY <1>1, <2>1 DEF SweepFirings
  <2> QED
    BY <1>1, <2>1, <2>2 DEF SweepFirings, Live
<1> QED
  BY <1>1, <1>2, <1>3 DEF FiringsOnce

LEMMA FiringsNext ==
    ASSUME BaseInv, FiringsOnce, OneAtATime(Sweepers), [Next]_vars
    PROVE  FiringsOnce'
<1>1. CASE UNCHANGED vars
  BY <1>1, FiringsElse DEF vars
<1>2. ASSUME NEW s \in Sweepers, SweepAborts(s) PROVE FiringsOnce'
  <2>1. /\ UNCHANGED <<state, table, now, handling, history>> /\ spc'[s] = "idle"
    BY <1>2 DEF SweepAborts, BaseInv, TypeOK
  <2>2. \A z \in Sweepers : z = s
    BY DEF OneAtATime
  <2>3. ASSUME NEW p \in Profiles PROVE ProfileFirings(p)'
    BY <2>1 DEF FiringsOnce, ProfileFirings, Live, history
  <2>4. \A z \in Sweepers : spc'[z] = "idle"
    BY <2>1, <2>2
  <2> QED
    BY <2>1, <2>3, <2>4 DEF FiringsOnce, history
<1> QED
  BY <1>1, <1>2, FiringsHandler, FiringsBegin, FiringsMark, FiringsLaunch, FiringsDelete,
     FiringsTick DEF Next, SweeperStep

\* Sweeps that come one at a time never take a profile twice for a firing, wherever
\* they are cut short and whatever requests do, unless one wrote the row in between.
THEOREM FiringsSweptOnce == ASSUME OneAtATime(Sweepers) PROVE Spec => []SweptOncePerFiring
<1>1. Init => FiringsOnce
  BY DEF Init, FiringsOnce, ProfileFirings
<1>2. BaseInv /\ FiringsOnce /\ [Next]_vars => FiringsOnce'
  BY FiringsNext
<1>3. FiringsOnce => SweptOncePerFiring
  BY DEF FiringsOnce, SweptOncePerFiring
<1> QED
  BY <1>1, <1>2, <1>3, BaseInvariant, PTL DEF Spec
=============================================================================
