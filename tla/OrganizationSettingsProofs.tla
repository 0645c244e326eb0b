---------------------- MODULE OrganizationSettingsProofs ----------------------
(***************************************************************************)
(* For any number of requests, rows, names and keys: the columns keep      *)
(* their types, acknowledged edits hold where no two requests met on a row,*)
(* a deleted row stays deleted, the constraints of the tables and the limit*)
(* of keys hold, and the rules of a default profile do not change.         *)
(***************************************************************************)
EXTENDS OrganizationSettings, FiniteSetTheorems, SequenceTheorems, TLAPS

Deltas == {<<>>} \cup Named \cup Switched

(* What a request holds.  A copy of a row that is still there, and that no  *)
(* other request met, is that row with the request's own columns: this is   *)
(* what makes a store of every column harmless.                             *)
Fits(q) ==
    /\ q.at \in {"insert", "edit"} => q.row \in Row
    /\ q.at \in {"edit", "checked"} => q.id \in used /\ q.delta \in Deltas
    /\ q.at = "edit" /\ q.id \in DOMAIN row \ raced => q.row = Changed(row[q.id], q.delta)
    /\ q.at = "upsert" => q.id \in used \cup {"insert"}
    /\ q.at \in {"upsert", "next"} => q.todo \in Seq(Row) /\ q.todo # <<>>

EditsInv ==
    /\ TypeOK
    /\ EditsHold
    /\ DOMAIN req = Requests
    /\ \A r \in Requests : Fits(req[r])

------------------------------------------------------------------------------
(* Replacing columns of a row by those of a delta makes a row. *)
LEMMA ChangedIsRow ==
    ASSUME NEW u \in Row, NEW d \in Deltas
    PROVE  Changed(u, d) \in Row
<1>1. /\ u = [name |-> u.name, on |-> u.on]
      /\ u.name \in Names /\ u.on \in BOOLEAN
      /\ DOMAIN u = {"name", "on"}
    BY DEF Row
<1>2. CASE d = <<>>
    <2>1. DOMAIN d = {} BY <1>2
    <2>2. Changed(u, d) = u BY <1>1, <2>1 DEF Changed
    <2> QED BY <2>2
<1>3. CASE d \in Named
    <2>1. PICK n \in Names : d = [name |-> n] BY <1>3 DEF Named
    <2>2. Changed(u, d) = [name |-> n, on |-> u.on] BY <1>1, <2>1 DEF Changed
    <2> QED BY <1>1, <2>2 DEF Row
<1>4. CASE d \in Switched
    <2>1. PICK b \in BOOLEAN : d = [on |-> b] BY <1>4 DEF Switched
    <2>2. Changed(u, d) = [name |-> u.name, on |-> b] BY <1>1, <2>1 DEF Changed
    <2> QED BY <1>1, <2>2 DEF Row
<1> QED BY <1>2, <1>3, <1>4 DEF Deltas

(* A copy taken of a row that is there fits. *)
LEMMA CopyFits ==
    ASSUME EditsInv, NEW id \in DOMAIN row, NEW d \in Deltas
    PROVE  Fits(Copy(id, d))
<1>1. row[id] \in Row /\ id \in used BY DEF EditsInv, TypeOK
<1>2. Changed(row[id], d) \in Row BY <1>1, ChangedIsRow
<1> QED BY <1>1, <1>2 DEF Fits, Copy

(* So does the search for a subscription. *)
LEMMA FindFits ==
    ASSUME EditsInv, NEW todo \in Seq(Row), todo # <<>>
    PROVE  Fits(Find(todo))
<1> DEFINE found == {i \in DOMAIN row : row[i].name = Head(todo).name}
<1>1. found # {} => (CHOOSE i \in found : TRUE) \in used
    BY DEF EditsInv, TypeOK
<1> QED BY <1>1 DEF Fits, Find

(* The first sessions of a request change no row. *)
LEMMA ServeKeeps ==
    ASSUME EditsInv, NEW r \in Requests, NEW STATE state, Fits(state), Serve(r, state)
    PROVE  EditsInv'
<1>1. TypeOK' BY SettingsAssumption DEF EditsInv, TypeOK, Serve
<1>2. EditsHold' BY DEF EditsInv, EditsHold, Serve
<1>3. DOMAIN req' = Requests BY DEF EditsInv, Serve
<1>4. ASSUME NEW q \in Requests PROVE Fits(req[q])'
    <2>1. CASE q = r BY <2>1 DEF EditsInv, Serve, Fits
    <2>2. CASE q # r BY <2>2 DEF EditsInv, Serve, Fits
    <2> QED BY <2>1, <2>2
<1> QED BY <1>1, <1>2, <1>3, <1>4 DEF EditsInv

(* Nor do those that only go on. *)
LEMMA GotoKeeps ==
    ASSUME EditsInv, NEW r \in Requests, NEW STATE state, Fits(state), Goto(r, state),
           UNCHANGED <<row, told, used, raced>>
    PROVE  EditsInv'
<1>1. TypeOK' BY DEF EditsInv, TypeOK, Goto
<1>2. EditsHold' BY DEF EditsInv, EditsHold
<1>3. DOMAIN req' = Requests BY DEF EditsInv, Goto
<1>4. ASSUME NEW q \in Requests PROVE Fits(req[q])'
    <2>1. CASE q = r BY <2>1 DEF EditsInv, Goto, Fits
    <2>2. CASE q # r BY <2>2 DEF EditsInv, Goto, Fits
    <2> QED BY <2>1, <2>2
<1> QED BY <1>1, <1>2, <1>3, <1>4 DEF EditsInv

LEMMA IdleFits == Fits(Idle)
BY DEF Fits, Idle

LEMMA RefuseKeeps ==
    ASSUME EditsInv, NEW r \in Requests, Refuse(r)
    PROVE  EditsInv'
BY GotoKeeps, IdleFits DEF Refuse

------------------------------------------------------------------------------
(* A new id: no request can hold it. *)
LEMMA NewRowKeeps ==
    ASSUME EditsInv, NEW r \in Requests, NEW id \in Ids \ used, NEW u \in Row,
           NEW STATE state, Fits(state), state.at # "edit", Goto(r, state),
           NEW key \in Ids \cup {"insert"}, Race(r, key),
           row' = With(row, id, u), told' = With(told, id, u),
           used' = used \cup {id}
    PROVE  EditsInv'
<1>1. raced \subseteq raced' /\ raced' \subseteq raced \cup {key} BY DEF Race
<1>2. DOMAIN row' = DOMAIN row \cup {id} /\ row'[id] = u
      /\ \A i \in DOMAIN row : i # id /\ row'[i] = row[i]
    BY DEF With, EditsInv, TypeOK
<1>3. DOMAIN told' = DOMAIN told \cup {id} /\ told'[id] = u
      /\ \A i \in DOMAIN told : i # id /\ told'[i] = told[i]
    BY DEF With, EditsInv, TypeOK, EditsHold
<1>4. TypeOK' BY <1>1, <1>2 DEF EditsInv, TypeOK, Goto
<1>5. EditsHold' BY <1>1, <1>2, <1>3 DEF EditsInv, EditsHold
<1>6. DOMAIN req' = Requests BY DEF EditsInv, Goto
<1>7. ASSUME NEW q \in Requests PROVE Fits(req[q])'
    <2>1. CASE q = r BY <2>1 DEF EditsInv, Goto, Fits
    <2>2. CASE q # r
        <3>1. req'[q] = req[q] /\ Fits(req[q]) BY <2>2 DEF EditsInv, Goto
        <3> QED BY <1>1, <1>2, <3>1 DEF Fits, EditsInv, TypeOK
    <2> QED BY <2>1, <2>2
<1> QED BY <1>4, <1>5, <1>6, <1>7 DEF EditsInv

(* A row that is there: a request that holds a copy of it marks the race. *)
LEMMA StoredKeeps ==
    ASSUME EditsInv, NEW r \in Requests, NEW id \in DOMAIN row, NEW u \in Row, NEW v,
           NEW STATE state, Fits(state), state.at # "edit", Goto(r, state), Race(r, id),
           id \notin raced => u = v,
           row' = With(row, id, u),
           DOMAIN told' = DOMAIN told, told'[id] = v,
           \A i \in DOMAIN told \ {id} : told'[i] = told[i],
           UNCHANGED used
    PROVE  EditsInv'
<1>1. raced \subseteq raced' /\ raced' \subseteq raced \cup {id} BY DEF Race
<1>2. DOMAIN row' = DOMAIN row /\ row'[id] = u
      /\ \A i \in DOMAIN row \ {id} : row'[i] = row[i]
    BY DEF With
<1>3. TypeOK' BY <1>1, <1>2 DEF EditsInv, TypeOK, Goto
<1>4. EditsHold' BY <1>1, <1>2 DEF EditsInv, EditsHold
<1>5. DOMAIN req' = Requests BY DEF EditsInv, Goto
<1>6. ASSUME NEW q \in Requests PROVE Fits(req[q])'
    <2>1. CASE q = r BY <2>1 DEF EditsInv, Goto, Fits
    <2>2. CASE q # r
        <3>1. req'[q] = req[q] /\ Fits(req[q]) BY <2>2 DEF EditsInv, Goto
        <3>2. req[q].at = "edit" /\ req[q].id = id => id \in raced' BY <2>2 DEF Race
        <3> QED BY <1>1, <1>2, <3>1, <3>2 DEF Fits
    <2> QED BY <2>1, <2>2
<1> QED BY <1>3, <1>4, <1>5, <1>6 DEF EditsInv

(* Rows that go are missed by nobody: their ids are not used again. *)
LEMMA GoneKeeps ==
    ASSUME EditsInv,
           DOMAIN row' = DOMAIN told', DOMAIN row' \subseteq DOMAIN row,
           \A i \in DOMAIN row' : row'[i] = row[i] /\ told'[i] = told[i],
           UNCHANGED <<table, used, raced>>,
           left' \in 0 .. Budget, profile' \in [exists: BOOLEAN, default: BOOLEAN],
           DOMAIN req' = Requests,
           \A q \in Requests : req'[q] \in {req[q], Idle}
    PROVE  EditsInv'
<1>1. TypeOK' BY DEF EditsInv, TypeOK
<1>2. EditsHold' BY DEF EditsInv, EditsHold
<1>3. ASSUME NEW q \in Requests PROVE Fits(req[q])'
    <2>1. CASE req'[q] = Idle BY <2>1 DEF Fits, Idle
    <2>2. CASE req'[q] = req[q] BY <2>2 DEF EditsInv, Fits
    <2> QED BY <2>1, <2>2
<1> QED BY <1>1, <1>2, <1>3 DEF EditsInv

------------------------------------------------------------------------------
(* One lemma for each kind of request. *)

LEMMA CreateKeeps ==
    ASSUME EditsInv, NEW r \in Requests, NEW t, NEW names \in SUBSET Names,
           NEW on \in BOOLEAN, Create(r, t, names, on)
    PROVE  EditsInv'
<1>1. PICK name \in names : Serve(r, [at |-> "insert", row |-> [name |-> name, on |-> on]])
    BY DEF Create
<1>2. Fits([at |-> "insert", row |-> [name |-> name, on |-> on]]) BY DEF Fits, Row
<1> QED BY <1>1, <1>2, ServeKeeps

LEMMA PostKeeps ==
    ASSUME EditsInv, NEW r \in Requests,
           \/ post_api_key(r) \/ post_role(r) \/ post_template(r) \/ post_clone(r)
           \/ post_channel(r) \/ post_rule(r)
    PROVE  EditsInv'
<1>1. /\ create_api_key \subseteq Names /\ create_role \subseteq Names
      /\ create_template \subseteq Names /\ clone_template \subseteq Names
      /\ configure_channel \subseteq Names /\ add_rule \subseteq Names
    BY DEF create_api_key, create_role, create_template, clone_template,
           configure_channel, add_rule
<1>2. CASE post_api_key(r) BY <1>1, <1>2, CreateKeeps DEF post_api_key
<1>3. CASE post_role(r) BY <1>1, <1>3, CreateKeeps DEF post_role
<1>4. CASE post_template(r) BY <1>1, <1>4, CreateKeeps DEF post_template
<1>5. CASE post_clone(r) BY <1>1, <1>5, CreateKeeps DEF post_clone
<1>6. CASE post_channel(r) BY <1>1, <1>6, CreateKeeps DEF post_channel
<1>7. CASE post_rule(r) BY <1>1, <1>7, CreateKeeps DEF post_rule
<1> QED BY <1>2, <1>3, <1>4, <1>5, <1>6, <1>7

LEMMA PatchKeeps ==
    ASSUME EditsInv, NEW r \in Requests, NEW id \in DOMAIN row,
           \/ delete_api_key(r, id) \/ validate_api_key(r, id) \/ patch_role(r, id)
           \/ patch_template(r, id) \/ post_archive(r, id) \/ patch_channel(r, id)
           \/ patch_rule(r, id)
    PROVE  EditsInv'
<1>1. ASSUME NEW t, NEW deltas \in SUBSET Deltas, Edit(r, id, t, deltas)
      PROVE  EditsInv'
    <2>1. PICK d \in deltas : Serve(r, Copy(id, d)) BY <1>1 DEF Edit
    <2> QED BY <2>1, CopyFits, ServeKeeps
<1>2. /\ revoke_api_key \subseteq Deltas /\ {<<>>} \subseteq Deltas
      /\ update_role \subseteq Deltas /\ update_template \subseteq Deltas
      /\ archive_template \subseteq Deltas /\ update_channel \subseteq Deltas
      /\ update_rule \subseteq Deltas
    BY DEF revoke_api_key, update_role, update_template, archive_template,
           update_channel, update_rule, Deltas, Switched
<1>3. CASE delete_api_key(r, id) BY <1>1, <1>2, <1>3 DEF delete_api_key
<1>4. CASE validate_api_key(r, id) BY <1>1, <1>2, <1>4 DEF validate_api_key
<1>5. CASE patch_role(r, id) BY <1>1, <1>2, <1>5 DEF patch_role
<1>6. CASE patch_template(r, id) BY <1>1, <1>2, <1>6 DEF patch_template
<1>7. CASE post_archive(r, id) BY <1>1, <1>2, <1>7 DEF post_archive
<1>8. CASE patch_channel(r, id) BY <1>1, <1>2, <1>8 DEF patch_channel
<1>9. CASE patch_rule(r, id)
    <2>1. PICK d \in update_rule :
              Serve(r, [at |-> "checked", id |-> id, delta |-> d])
        BY <1>9 DEF patch_rule
    <2>2. Fits([at |-> "checked", id |-> id, delta |-> d])
        BY <1>2 DEF Fits, EditsInv, TypeOK
    <2> QED BY <2>1, <2>2, ServeKeeps
<1> QED BY <1>3, <1>4, <1>5, <1>6, <1>7, <1>8, <1>9

LEMMA PutKeeps ==
    ASSUME EditsInv, NEW r \in Requests, post_subscription(r) \/ put_preferences(r)
    PROVE  EditsInv'
<1>1. ASSUME NEW lists, Put(r, lists), \A l \in lists : l \in Seq(Row) /\ l # <<>>
      PROVE  EditsInv'
    <2>1. PICK l \in lists : Serve(r, Find(l)) BY <1>1 DEF Put
    <2>2. Fits(Find(l)) BY <1>1, FindFits
    <2> QED BY <2>1, <2>2, ServeKeeps
<1>2. CASE post_subscription(r)
    <2>1. \A l \in subscribe : l \in Seq(Row) /\ l # <<>> BY DEF subscribe
    <2> QED BY <1>1, <1>2, <2>1 DEF post_subscription
<1>3. CASE put_preferences(r)
    <2>1. ASSUME NEW l \in update_user_preferences PROVE l \in Seq(Row) /\ l # <<>>
        <3>1. l \in Row \X Row BY DEF update_user_preferences
        <3>2. PICK a \in Row, b \in Row : l = <<a, b>> BY <3>1
        <3> QED BY <3>2
    <2> QED BY <1>1, <1>3, <2>1 DEF put_preferences
<1> QED BY <1>2, <1>3

LEMMA DeleteKeeps ==
    ASSUME EditsInv, NEW r \in Requests, NEW id \in DOMAIN row,
           \/ delete_subscription(r, id) \/ delete_custom_role(r, id)
           \/ delete_channel(r, id) \/ delete_profile_rule(r, id)
    PROVE  EditsInv'
<1>1. Serve(r, [at |-> "delete", id |-> id])
    BY DEF delete_subscription, delete_custom_role, delete_channel,
           delete_profile_rule, Delete
<1>2. Fits([at |-> "delete", id |-> id]) BY DEF Fits
<1> QED BY <1>1, <1>2, ServeKeeps

------------------------------------------------------------------------------
(* One lemma for each session that follows. *)

LEMMA SaveRowKeeps ==
    ASSUME EditsInv, NEW r \in Requests, SaveRow(r)
    PROVE  EditsInv'
<1>1. CASE Refuse(r) BY <1>1, RefuseKeeps
<1>2. CASE ~Refuse(r)
    <2>1. PICK id \in Ids \ used :
              /\ row' = With(row, id, req[r].row) /\ told' = With(told, id, req[r].row)
              /\ used' = used \cup {id} /\ Race(r, "insert") /\ Goto(r, Idle)
        BY <1>2 DEF SaveRow
    <2>2. req[r].row \in Row BY DEF SaveRow, EditsInv, Fits
    <2>3. Idle.at # "edit" BY DEF Idle
    <2> QED BY <2>1, <2>2, <2>3, IdleFits, NewRowKeeps
<1> QED BY <1>1, <1>2

LEMMA ReloadKeeps ==
    ASSUME EditsInv, NEW r \in Requests, ReloadRule(r)
    PROVE  EditsInv'
<1>1. CASE req[r].id \in DOMAIN row
    <2>1. Goto(r, Copy(req[r].id, req[r].delta)) /\ UNCHANGED <<row, told, used, raced>>
        BY <1>1 DEF ReloadRule
    <2>2. req[r].delta \in Deltas BY DEF ReloadRule, EditsInv, Fits
    <2>3. Fits(Copy(req[r].id, req[r].delta)) BY <1>1, <2>2, CopyFits
    <2> QED BY <2>1, <2>3, GotoKeeps
<1>2. CASE req[r].id \notin DOMAIN row BY <1>2, RefuseKeeps DEF ReloadRule
<1> QED BY <1>1, <1>2

LEMMA StoreKeeps ==
    ASSUME EditsInv, NEW r \in Requests, StoreRow(r)
    PROVE  EditsInv'
<1>1. CASE Refuse(r) BY <1>1, RefuseKeeps
<1>2. CASE ~Refuse(r)
    <2> DEFINE id == req[r].id
               v  == Changed(told[id], req[r].delta)
    <2>1. /\ id \in DOMAIN row
          /\ row' = With(row, id, req[r].row)
          /\ told' = [told EXCEPT ![id] = v]
          /\ Race(r, id) /\ Goto(r, Idle) /\ UNCHANGED used
        BY <1>2 DEF StoreRow
    <2>2. /\ req[r].row \in Row
          /\ id \notin raced => req[r].row = Changed(row[id], req[r].delta)
        BY <2>1 DEF StoreRow, EditsInv, Fits
    <2>3. id \notin raced => req[r].row = v BY <2>1, <2>2 DEF EditsInv, EditsHold
    <2>4. /\ id \in DOMAIN told /\ DOMAIN told' = DOMAIN told /\ told'[id] = v
          /\ \A i \in DOMAIN told \ {id} : told'[i] = told[i]
        BY <2>1 DEF EditsInv, EditsHold
    <2>5. Idle.at # "edit" BY DEF Idle
    <2> HIDE DEF id, v
    <2> QED BY <2>1, <2>2, <2>3, <2>4, <2>5, IdleFits, StoredKeeps
<1> QED BY <1>1, <1>2

LEMMA WriteKeeps ==
    ASSUME EditsInv, NEW r \in Requests, WriteSubscription(r)
    PROVE  EditsInv'
<1> DEFINE sub  == Head(req[r].todo)
           rest == Tail(req[r].todo)
           next == IF rest = <<>> THEN Idle ELSE [at |-> "next", todo |-> rest]
<1>1. sub \in Row /\ rest \in Seq(Row)
    BY DEF WriteSubscription, EditsInv, Fits
<1>2. Fits(next) /\ next.at # "edit" BY <1>1, IdleFits DEF Fits, Idle
<1>3. CASE Refuse(r) BY <1>3, RefuseKeeps
<1>4. CASE ~Refuse(r) /\ req[r].id \in DOMAIN row
    <2> DEFINE id == req[r].id
    <2>1. /\ row' = With(row, id, sub) /\ told' = With(told, id, sub)
          /\ Race(r, id) /\ Goto(r, next) /\ UNCHANGED used
        <3>1. id # "insert" BY <1>4, SettingsAssumption DEF EditsInv, TypeOK
        <3> QED BY <1>4, <3>1 DEF WriteSubscription, Refuse
    <2>2. /\ id \in DOMAIN told /\ DOMAIN told' = DOMAIN told /\ told'[id] = sub
          /\ \A i \in DOMAIN told \ {id} : told'[i] = told[i]
        BY <1>4, <2>1 DEF EditsInv, EditsHold, With
    <2> HIDE DEF id, sub, rest, next
    <2> QED BY <1>1, <1>2, <1>4, <2>1, <2>2, StoredKeeps DEF id
<1>5. CASE ~Refuse(r) /\ req[r].id \notin DOMAIN row
    <2>1. PICK id \in Ids \ used :
              /\ row' = With(row, id, sub) /\ told' = With(told, id, sub)
              /\ used' = used \cup {id} /\ Race(r, "insert") /\ Goto(r, next)
        BY <1>5 DEF WriteSubscription
    <2> HIDE DEF sub, rest, next
    <2> QED BY <1>1, <1>2, <2>1, NewRowKeeps
<1> QED BY <1>3, <1>4, <1>5

LEMMA NextPreferenceKeeps ==
    ASSUME EditsInv, NEW r \in Requests, NextPreference(r)
    PROVE  EditsInv'
<1>1. req[r].todo \in Seq(Row) /\ req[r].todo # <<>>
    BY DEF NextPreference, EditsInv, Fits
<1> QED BY <1>1, FindFits, GotoKeeps DEF NextPreference

LEMMA DeleteRowKeeps ==
    ASSUME EditsInv, NEW r \in Requests, DeleteRow(r)
    PROVE  EditsInv'
<1>1. /\ row' = Without(row, req[r].id) /\ told' = Without(told, req[r].id)
      /\ UNCHANGED <<table, used, raced, left, profile>>
      /\ DOMAIN req' = Requests /\ \A q \in Requests : req'[q] \in {req[q], Idle}
    BY DEF DeleteRow, Goto, EditsInv
<1>2. /\ DOMAIN row' = DOMAIN told' /\ DOMAIN row' \subseteq DOMAIN row
      /\ \A i \in DOMAIN row' : row'[i] = row[i] /\ told'[i] = told[i]
    BY <1>1 DEF Without, EditsInv, EditsHold
<1> QED BY <1>1, <1>2, GoneKeeps DEF EditsInv, TypeOK

LEMMA OthersKeep ==
    ASSUME EditsInv, update_profile \/ delete_profile \/ \E r \in Requests : Abort(r)
    PROVE  EditsInv'
<1>1. left' \in 0 .. Budget
    BY SettingsAssumption DEF update_profile, delete_profile, Abort, EditsInv, TypeOK
<1>2. CASE update_profile
    <2>1. profile' \in [exists: BOOLEAN, default: BOOLEAN]
        BY <1>2 DEF update_profile, EditsInv, TypeOK
    <2> QED BY <1>1, <1>2, <2>1, GoneKeeps DEF update_profile, EditsInv, EditsHold
<1>3. CASE delete_profile
    <2>1. DOMAIN row' = {} /\ DOMAIN told' = {} BY <1>3 DEF delete_profile
    <2> QED BY <1>1, <1>3, <2>1, GoneKeeps DEF delete_profile, EditsInv
<1>4. CASE \E r \in Requests : Abort(r)
    BY <1>1, <1>4, GoneKeeps DEF Abort, EditsInv, EditsHold, TypeOK
<1> QED BY <1>2, <1>3, <1>4

------------------------------------------------------------------------------
LEMMA EditsInit == Init => EditsInv
<1> SUFFICES ASSUME Init PROVE EditsInv OBVIOUS
<1>1. TypeOK BY SettingsAssumption DEF Init, TypeOK
<1>2. EditsHold BY DEF Init, EditsHold
<1>3. \A r \in Requests : Fits(req[r]) BY IdleFits DEF Init
<1> QED BY <1>1, <1>2, <1>3 DEF Init, EditsInv

LEMMA EditsNext == EditsInv /\ [Next]_vars => EditsInv'
<1> SUFFICES ASSUME EditsInv, [Next]_vars PROVE EditsInv' OBVIOUS
<1>1. CASE UNCHANGED vars
    BY <1>1 DEF vars, EditsInv, TypeOK, EditsHold, Fits
<1>2. CASE update_profile \/ delete_profile \/ \E r \in Requests : Abort(r)
    BY <1>2, OthersKeep
<1>3. ASSUME NEW r \in Requests,
             \/ post_api_key(r) \/ post_role(r) \/ post_template(r) \/ post_clone(r)
             \/ post_channel(r) \/ post_rule(r)
      PROVE  EditsInv'
    BY <1>3, PostKeeps
<1>4. ASSUME NEW r \in Requests, post_subscription(r) \/ put_preferences(r)
      PROVE  EditsInv'
    BY <1>4, PutKeeps
<1>5. ASSUME NEW r \in Requests,
             \/ SaveRow(r) \/ ReloadRule(r) \/ StoreRow(r) \/ WriteSubscription(r)
             \/ NextPreference(r) \/ DeleteRow(r)
      PROVE  EditsInv'
    BY <1>5, SaveRowKeeps, ReloadKeeps, StoreKeeps, WriteKeeps, NextPreferenceKeeps,
       DeleteRowKeeps
<1>6. ASSUME NEW r \in Requests, NEW id \in DOMAIN row,
             \/ delete_api_key(r, id) \/ validate_api_key(r, id) \/ patch_role(r, id)
             \/ patch_template(r, id) \/ post_archive(r, id) \/ patch_channel(r, id)
             \/ patch_rule(r, id)
      PROVE  EditsInv'
    BY <1>6, PatchKeeps
<1>7. ASSUME NEW r \in Requests, NEW id \in DOMAIN row,
             \/ delete_subscription(r, id) \/ delete_custom_role(r, id)
             \/ delete_channel(r, id) \/ delete_profile_rule(r, id)
      PROVE  EditsInv'
    BY <1>7, DeleteKeeps
<1> QED BY <1>1, <1>2, <1>3, <1>4, <1>5, <1>6, <1>7 DEF Next

LEMMA EditsAlways == Spec => []EditsInv
BY EditsInit, EditsNext, PTL DEF Spec

(* Every row of every table, and all that counts them, keeps its type. *)
THEOREM SettingsTypeCorrect == Spec => []TypeOK
<1>1. EditsInv => TypeOK BY DEF EditsInv
<1> QED BY <1>1, EditsAlways, PTL

(* Acknowledged edits are in the row unless two requests held it at once,   *)
(* and no row that was deleted comes back, whatever store comes late.       *)
THEOREM EditsSafe == Spec => []EditsHold
<1>1. EditsInv => EditsHold BY DEF EditsInv
<1> QED BY <1>1, EditsAlways, PTL

------------------------------------------------------------------------------
(* Constraints.  The database checks names and profiles as it inserts; what *)
(* it does not check is that the row a preference found still bears its     *)
(* name, which holds since nothing renames a subscription.                  *)

(* What the requests on a table may hold. *)
KnowsTable(q) ==
    /\ q.at \in {"insert", "edit", "checked"} => table # "subscription"
    /\ q.at \in {"upsert", "next"} => table = "subscription"
    /\ q.at = "upsert" /\ q.id \in DOMAIN row => row[q.id].name = Head(q.todo).name

CoherentInv == Coherent /\ \A r \in Requests : KnowsTable(req[r])

(* Nothing of an empty table is nothing. *)
LEMMA WithoutNone ==
    ASSUME NEW f, NEW id, f = <<>>
    PROVE  Without(f, id) = <<>>
<1>1. DOMAIN f \ {id} = {} OBVIOUS
<1>2. PICK g : g = Without(f, id) OBVIOUS
<1>3. g \in [1 .. 0 -> {}] BY <1>1, <1>2 DEF Without
<1>4. g \in Seq({}) /\ Len(g) = 0 BY <1>3, SeqDef
<1> QED BY <1>2, <1>4, EmptySeq

(* A request that moves to another step and touches no row. *)
LEMMA CoherentMoves ==
    ASSUME CoherentInv, DOMAIN req = Requests, NEW r \in Requests, NEW STATE state,
           KnowsTable(state), req' = [req EXCEPT ![r] = state],
           UNCHANGED <<table, row, profile>>
    PROVE  CoherentInv'
<1>1. Coherent' BY DEF CoherentInv, Coherent, Unique
<1>2. ASSUME NEW q \in Requests PROVE KnowsTable(req[q])'
    <2>1. CASE q = r BY <2>1 DEF KnowsTable
    <2>2. CASE q # r BY <2>2 DEF CoherentInv, KnowsTable
    <2> QED BY <2>1, <2>2
<1> QED BY <1>1, <1>2 DEF CoherentInv

LEMMA IdleKnows == KnowsTable(Idle)
BY DEF KnowsTable, Idle

(* A row stored in a table other than that of subscriptions. *)
LEMMA CoherentStored ==
    ASSUME CoherentInv, DOMAIN req = Requests, NEW r \in Requests,
           table # "subscription", req' = [req EXCEPT ![r] = Idle],
           UNCHANGED <<table, profile>>, Constrained(row')
    PROVE  CoherentInv'
<1>1. Coherent' BY DEF CoherentInv, Coherent, Constrained, Unique
<1>2. ASSUME NEW q \in Requests PROVE KnowsTable(req[q])'
    <2>1. CASE q = r BY <2>1 DEF KnowsTable, Idle
    <2>2. CASE q # r BY <2>2 DEF CoherentInv, KnowsTable
    <2> QED BY <2>1, <2>2
<1> QED BY <1>1, <1>2 DEF CoherentInv

(* Rows that are taken out of a table. *)
LEMMA CoherentGone ==
    ASSUME CoherentInv, DOMAIN req = Requests,
           \A q \in Requests : req'[q] \in {req[q], Idle},
           table' = table, DOMAIN row' \subseteq DOMAIN row,
           \A i \in DOMAIN row' : row'[i] = row[i],
           table \in OfProfile /\ ~profile'.exists => row' = <<>>
    PROVE  CoherentInv'
<1>1. Coherent' BY DEF CoherentInv, Coherent, Unique
<1>2. ASSUME NEW q \in Requests PROVE KnowsTable(req[q])'
    <2>1. CASE req'[q] = Idle BY <2>1 DEF KnowsTable, Idle
    <2>2. CASE req'[q] = req[q] BY <2>2 DEF CoherentInv, KnowsTable
    <2> QED BY <2>1, <2>2
<1> QED BY <1>1, <1>2 DEF CoherentInv

LEMMA CoherentWrite ==
    ASSUME EditsInv, CoherentInv, NEW r \in Requests, WriteSubscription(r)
    PROVE  CoherentInv'
<1> DEFINE sub  == Head(req[r].todo)
           rest == Tail(req[r].todo)
           next == IF rest = <<>> THEN Idle ELSE [at |-> "next", todo |-> rest]
<1>1. /\ table = "subscription" /\ DOMAIN req = Requests
      /\ req[r].id \in DOMAIN row => row[req[r].id].name = sub.name
    BY DEF WriteSubscription, CoherentInv, KnowsTable, EditsInv
<1>2. KnowsTable(next) BY <1>1, IdleKnows DEF KnowsTable
<1>3. CASE Refuse(r) BY <1>1, <1>3, IdleKnows, CoherentMoves DEF Refuse, Goto
<1>4. CASE ~Refuse(r)
    <2>1. PICK id :
              /\ row' = With(row, id, sub) /\ Goto(r, next)
              /\ id \in DOMAIN row => row[id].name = sub.name
              /\ id \notin DOMAIN row => ~Taken(sub.name, row) /\ id \in Ids \ used
        <3>1. CASE req[r].id \in DOMAIN row
            BY <1>1, <1>4, <3>1 DEF WriteSubscription
        <3>2. CASE req[r].id \notin DOMAIN row
            BY <1>4, <3>2 DEF WriteSubscription, EditsInv, TypeOK
        <3> QED BY <3>1, <3>2
    <2> HIDE DEF sub, rest, next
    <2>2. /\ DOMAIN row' = DOMAIN row \cup {id} /\ row'[id].name = sub.name
          /\ \A i \in DOMAIN row : row'[i].name = row[i].name
        BY <2>1 DEF With
    <2>3. UNCHANGED <<table, profile>> /\ req' = [req EXCEPT ![r] = next]
        BY <2>1 DEF Goto
    <2>4. Unique(row)'
        BY <1>1, <2>1, <2>2 DEF CoherentInv, Coherent, Unique, Taken
    <2>5. Coherent' BY <1>1, <2>3, <2>4 DEF Coherent, OfProfile
    <2>6. ASSUME NEW q \in Requests PROVE KnowsTable(req[q])'
        <3>1. CASE q = r
            <4>1. req'[q] = next /\ next.at # "upsert" BY <1>1, <2>3, <3>1 DEF next, Idle
            <4> QED BY <1>2, <2>3, <4>1 DEF KnowsTable
        <3>2. CASE q # r
            <4>1. req'[q] = req[q] BY <1>1, <2>3, <3>2
            <4>2. KnowsTable(req[q]) /\ Fits(req[q]) BY DEF CoherentInv, EditsInv
            <4>3. ASSUME req[q].at = "upsert", req[q].id \in DOMAIN row'
                  PROVE  req[q].id \in DOMAIN row
                BY <2>1, <2>2, <4>2, <4>3, SettingsAssumption DEF Fits
            <4> QED BY <2>2, <2>3, <4>1, <4>2, <4>3 DEF KnowsTable
        <3> QED BY <3>1, <3>2
    <2> QED BY <2>5, <2>6 DEF CoherentInv
<1> QED BY <1>3, <1>4

(* Requests that are taken. *)
LEMMA CoherentServes ==
    ASSUME EditsInv, CoherentInv, NEW r \in Requests, NEW STATE state, Serve(r, state),
           KnowsTable(state)
    PROVE  CoherentInv'
BY CoherentMoves DEF Serve, EditsInv

LEMMA FindKnows ==
    ASSUME table = "subscription", NEW todo
    PROVE  KnowsTable(Find(todo)) \/ "insert" \in DOMAIN row
<1> DEFINE found == {i \in DOMAIN row : row[i].name = Head(todo).name}
<1>1. found # {} => (CHOOSE i \in found : TRUE) \in found OBVIOUS
<1> QED BY <1>1 DEF KnowsTable, Find

LEMMA CoherentNext == EditsInv /\ CoherentInv /\ [Next]_vars => CoherentInv'
<1> SUFFICES ASSUME EditsInv, CoherentInv, [Next]_vars PROVE CoherentInv' OBVIOUS
<1>1. /\ DOMAIN req = Requests /\ "insert" \notin DOMAIN row
    BY SettingsAssumption DEF EditsInv, TypeOK
<1>2. CASE UNCHANGED vars
    BY <1>2 DEF vars, CoherentInv, Coherent, Unique, KnowsTable
<1>3. ASSUME NEW r \in Requests, NEW t, NEW names, NEW on, Create(r, t, names, on),
             t # "subscription"
      PROVE  CoherentInv'
    <2>1. PICK name \in names : Serve(r, [at |-> "insert", row |-> [name |-> name, on |-> on]])
        BY <1>3 DEF Create
    <2>2. KnowsTable([at |-> "insert", row |-> [name |-> name, on |-> on]])
        BY <1>3 DEF Create, KnowsTable
    <2> QED BY <2>1, <2>2, CoherentServes
<1>4. ASSUME NEW r \in Requests,
             \/ post_api_key(r) \/ post_role(r) \/ post_template(r) \/ post_clone(r)
             \/ post_channel(r) \/ post_rule(r)
      PROVE  CoherentInv'
    BY <1>3, <1>4 DEF post_api_key, post_role, post_template, post_clone, post_channel,
                      post_rule
<1>5. ASSUME NEW r \in Requests, NEW lists, Put(r, lists)
      PROVE  CoherentInv'
    <2>1. PICK l \in lists : Serve(r, Find(l)) /\ table = "subscription" BY <1>5 DEF Put
    <2>2. KnowsTable(Find(l)) BY <1>1, <2>1, FindKnows
    <2> QED BY <2>1, <2>2, CoherentServes
<1>6. ASSUME NEW r \in Requests, NEW id, NEW t, NEW deltas, Edit(r, id, t, deltas),
             t # "subscription"
      PROVE  CoherentInv'
    <2>1. PICK d \in deltas : Serve(r, Copy(id, d)) /\ table # "subscription"
        BY <1>6 DEF Edit
    <2>2. KnowsTable(Copy(id, d)) BY <2>1 DEF KnowsTable, Copy
    <2> QED BY <2>1, <2>2, CoherentServes
<1>7. ASSUME NEW r \in Requests, NEW id,
             \/ delete_api_key(r, id) \/ validate_api_key(r, id) \/ patch_role(r, id)
             \/ patch_template(r, id) \/ post_archive(r, id) \/ patch_channel(r, id)
      PROVE  CoherentInv'
    BY <1>6, <1>7 DEF delete_api_key, validate_api_key, patch_role, patch_template,
                      post_archive, patch_channel
<1>8. ASSUME NEW r \in Requests, NEW id, patch_rule(r, id)
      PROVE  CoherentInv'
    <2>1. PICK d : Serve(r, [at |-> "checked", id |-> id, delta |-> d]) /\ table = "rule"
        BY <1>8 DEF patch_rule
    <2>2. KnowsTable([at |-> "checked", id |-> id, delta |-> d])
        BY <2>1 DEF KnowsTable
    <2> QED BY <2>1, <2>2, CoherentServes
<1>9. ASSUME NEW r \in Requests, NEW id, NEW t, Delete(r, id, t)
      PROVE  CoherentInv'
    <2>1. KnowsTable([at |-> "delete", id |-> id]) BY DEF KnowsTable
    <2> QED BY <1>9, <2>1, CoherentServes DEF Delete
<1>10. ASSUME NEW r \in Requests, SaveRow(r) \/ ReloadRule(r) \/ StoreRow(r)
       PROVE  CoherentInv'
    <2>1. table # "subscription"
        BY <1>10 DEF SaveRow, ReloadRule, StoreRow, CoherentInv, KnowsTable
    <2>2. CASE Refuse(r) BY <1>1, <2>2, IdleKnows, CoherentMoves DEF Refuse, Goto
    <2>3. CASE ReloadRule(r) /\ ~Refuse(r)
        <3>1. Goto(r, Copy(req[r].id, req[r].delta)) /\ row' = row
            BY <2>3 DEF ReloadRule
        <3>2. KnowsTable(Copy(req[r].id, req[r].delta)) BY <2>1 DEF KnowsTable, Copy
        <3> QED BY <1>1, <3>1, <3>2, CoherentMoves DEF Goto
    <2>4. CASE (SaveRow(r) \/ StoreRow(r)) /\ ~Refuse(r)
        <3>1. Constrained(row') /\ Goto(r, Idle) BY <2>4 DEF SaveRow, StoreRow
        <3> QED BY <1>1, <2>1, <3>1, CoherentStored DEF Goto
    <2> QED BY <1>10, <2>2, <2>3, <2>4
<1>11. ASSUME NEW r \in Requests, NextPreference(r)
       PROVE  CoherentInv'
    <2>1. table = "subscription" /\ Goto(r, Find(req[r].todo)) /\ row' = row
        BY <1>11 DEF NextPreference, CoherentInv, KnowsTable
    <2>2. KnowsTable(Find(req[r].todo)) BY <1>1, <2>1, FindKnows
    <2> QED BY <1>1, <2>1, <2>2, CoherentMoves DEF Goto
<1>12. ASSUME NEW r \in Requests, DeleteRow(r)
       PROVE  CoherentInv'
    <2>1. /\ row' = Without(row, req[r].id) /\ UNCHANGED <<table, profile>>
          /\ \A q \in Requests : req'[q] \in {req[q], Idle}
        BY <1>1, <1>12 DEF DeleteRow, Goto
    <2>2. row = <<>> => row' = <<>> BY <2>1, WithoutNone
    <2>3. DOMAIN row' \subseteq DOMAIN row /\ \A i \in DOMAIN row' : row'[i] = row[i]
        BY <2>1 DEF Without
    <2>4. table \in OfProfile /\ ~profile'.exists => row' = <<>>
        BY <2>1, <2>2 DEF CoherentInv, Coherent
    <2> QED BY <1>1, <2>1, <2>3, <2>4, CoherentGone
<1>13. CASE update_profile
    <2>1. profile'.exists = profile.exists
        BY <1>13 DEF update_profile, EditsInv, TypeOK
    <2> QED BY <1>1, <1>13, <2>1, CoherentGone DEF update_profile, CoherentInv, Coherent
<1>14. CASE delete_profile
    BY <1>1, <1>14, CoherentGone DEF delete_profile
<1>15. ASSUME NEW r \in Requests, Abort(r)
       PROVE  CoherentInv'
    BY <1>1, <1>15, IdleKnows, CoherentMoves DEF Abort
<1>16. ASSUME NEW r \in Requests, WriteSubscription(r)
       PROVE  CoherentInv'
    BY <1>16, CoherentWrite
<1>17. ASSUME NEW r \in Requests, NEW id \in DOMAIN row,
              \/ delete_subscription(r, id) \/ delete_custom_role(r, id)
              \/ delete_channel(r, id) \/ delete_profile_rule(r, id)
       PROVE  CoherentInv'
    BY <1>9, <1>17 DEF delete_subscription, delete_custom_role, delete_channel,
                       delete_profile_rule
<1>18. ASSUME NEW r \in Requests, post_subscription(r) \/ put_preferences(r)
       PROVE  CoherentInv'
    BY <1>5, <1>18 DEF post_subscription, put_preferences
<1> QED
    BY <1>2, <1>4, <1>7, <1>8, <1>10, <1>11, <1>12, <1>13, <1>14, <1>15, <1>16, <1>17,
       <1>18 DEF Next

(* No two roles share a name and no two subscriptions an event, and nothing *)
(* is stored of a profile that is gone, however many requests create, rename*)
(* and subscribe while the profile is deleted.                              *)
THEOREM TablesStayCoherent == Spec => []Coherent
<1>1. Init => CoherentInv
    BY IdleKnows DEF Init, CoherentInv, Coherent, Unique
<1>2. CoherentInv => Coherent BY DEF CoherentInv
<1> QED BY <1>1, <1>2, EditsAlways, CoherentNext, PTL DEF Spec

------------------------------------------------------------------------------
(* Keys.  A service counts the active keys before it inserts one.  As long  *)
(* as no two requests met, no other insertion comes in between, and a key   *)
(* that is stored again is on only if it was.                               *)

KeysCounted ==
    /\ Cardinality(On(row)) <= MaxKeys
    /\ (\E r \in Requests : req[r].at = "insert") => Cardinality(On(row)) < MaxKeys

(* What the requests on keys do. *)
KeyRequest(q) ==
    /\ q.at \in {"idle", "insert", "edit"}
    /\ q.at = "edit" => q.delta \in {<<>>, [on |-> FALSE]}

KeysInv ==
    table = "key" =>
       /\ \A r \in Requests : KeyRequest(req[r])
       /\ IsFiniteSet(On(row))
       /\ raced = {} => KeysCounted

LEMMA IdleIsKeyRequest == KeyRequest(Idle) /\ Idle.at # "insert"
BY DEF KeyRequest, Idle

(* A step after which there are as many keys as before and no new insertion.*)
LEMMA KeysMove ==
    ASSUME KeysInv, DOMAIN req = Requests, NEW r \in Requests, NEW STATE state,
           table = "key" => KeyRequest(state),
           state.at = "insert" => Cardinality(On(row)) < MaxKeys,
           req' = [req EXCEPT ![r] = state], UNCHANGED <<table, row, raced>>
    PROVE  KeysInv'
<1>1. On(row)' = On(row) BY DEF On
<1>2. \A q \in Requests : req'[q] = IF q = r THEN state ELSE req[q] OBVIOUS
<1>3. table = "key" => \A q \in Requests : KeyRequest(req'[q])
    BY <1>2 DEF KeysInv
<1>4. table = "key" /\ raced = {} => KeysCounted'
    BY <1>1, <1>2 DEF KeysInv, KeysCounted
<1> QED BY <1>1, <1>3, <1>4 DEF KeysInv

LEMMA KeysSave ==
    ASSUME EditsInv, KeysInv, table = "key", NEW r \in Requests, SaveRow(r)
    PROVE  KeysInv'
<1>1. DOMAIN req = Requests BY DEF EditsInv
<1>2. CASE Refuse(r) BY <1>1, <1>2, IdleIsKeyRequest, KeysMove DEF Refuse, Goto
<1>3. CASE ~Refuse(r)
    <2>1. PICK id \in Ids \ used :
              /\ row' = With(row, id, req[r].row) /\ Race(r, "insert") /\ Goto(r, Idle)
        BY <1>3 DEF SaveRow
    <2>2. req[r].at = "insert" BY DEF SaveRow
    <2>3. \A q \in Requests : req'[q] = IF q = r THEN Idle ELSE req[q]
        BY <1>1, <2>1 DEF Goto
    <2>4. On(row)' \in {On(row), On(row) \cup {id}}
        <3>1. id \notin DOMAIN row BY DEF EditsInv, TypeOK
        <3>2. /\ DOMAIN row' = DOMAIN row \cup {id}
              /\ \A i \in DOMAIN row : i # id /\ row'[i] = row[i]
            BY <2>1, <3>1 DEF With
        <3>3. \A i : i \in On(row)' <=> i \in On(row) \/ (i = id /\ row'[id].on)
            BY <3>2 DEF On
        <3>4. CASE row'[id].on BY <3>3, <3>4
        <3>5. CASE ~row'[id].on BY <3>3, <3>5
        <3> QED BY <3>4, <3>5
    <2>5. IsFiniteSet(On(row)) BY DEF KeysInv
    <2>6. /\ IsFiniteSet(On(row)') /\ Cardinality(On(row)) \in Nat
          /\ Cardinality(On(row)') \in {Cardinality(On(row)), Cardinality(On(row)) + 1}
        BY <2>4, <2>5, FS_AddElement, FS_CardinalityType
    <2>7. ASSUME raced' = {} PROVE KeysCounted'
        <3>1. /\ raced = {}
              /\ \A q \in Requests \ {r} : req[q].at # "insert"
            BY <2>1, <2>7 DEF Race
        <3>2. Cardinality(On(row)) < MaxKeys BY <2>2, <3>1 DEF KeysInv, KeysCounted
        <3>3. \A q \in Requests : req'[q].at # "insert" BY <2>3, <3>1, IdleIsKeyRequest
        <3>4. Cardinality(On(row)') <= MaxKeys BY <2>6, <3>2, SettingsAssumption
        <3> QED BY <3>3, <3>4 DEF KeysCounted
    <2>8. \A q \in Requests : KeyRequest(req'[q]) BY <2>3, IdleIsKeyRequest DEF KeysInv
    <2> QED BY <2>6, <2>7, <2>8 DEF KeysInv
<1> QED BY <1>2, <1>3

LEMMA KeysStore ==
    ASSUME EditsInv, KeysInv, table = "key", NEW r \in Requests, StoreRow(r)
    PROVE  KeysInv'
<1>1. DOMAIN req = Requests BY DEF EditsInv
<1>2. CASE Refuse(r) BY <1>1, <1>2, IdleIsKeyRequest, KeysMove DEF Refuse, Goto
<1>3. CASE ~Refuse(r)
    <2> DEFINE id == req[r].id
    <2>1. /\ id \in DOMAIN row /\ req[r].at = "edit"
          /\ row' = With(row, id, req[r].row) /\ Race(r, id) /\ Goto(r, Idle)
        BY <1>3 DEF StoreRow
    <2>2. /\ DOMAIN row' = DOMAIN row /\ row'[id] = req[r].row
          /\ \A i \in DOMAIN row : i # id => row'[i] = row[i]
        BY <2>1 DEF With
    <2>3. IsFiniteSet(On(row)) BY DEF KeysInv
    <2>4. On(row)' \subseteq On(row) \cup {id} BY <2>2 DEF On
    <2>5. IsFiniteSet(On(row)')
        BY <2>3, <2>4, FS_AddElement, FS_Subset
    <2>6. \A q \in Requests : req'[q] = IF q = r THEN Idle ELSE req[q]
        BY <1>1, <2>1 DEF Goto
    <2>7. \A q \in Requests : KeyRequest(req'[q]) BY <2>6, IdleIsKeyRequest DEF KeysInv
    <2>8. ASSUME raced' = {} PROVE KeysCounted'
        <3>1. raced = {} BY <2>1, <2>8 DEF Race
        <3>2. row'[id] = Changed(row[id], req[r].delta) /\ row[id] \in Row
            BY <2>1, <2>2, <3>1 DEF EditsInv, Fits, TypeOK
        <3>3. req[r].delta \in {<<>>, [on |-> FALSE]}
            BY <2>1 DEF KeysInv, KeyRequest
        <3>4. row'[id].on => row[id].on
            <4>1. "on" \in DOMAIN row[id] BY <3>2 DEF Row
            <4>2. CASE req[r].delta = <<>>
                <5>1. DOMAIN req[r].delta = {} BY <4>2
                <5> QED BY <3>2, <4>1, <5>1 DEF Changed
            <4>3. CASE req[r].delta = [on |-> FALSE]
                <5>1. "on" \in DOMAIN req[r].delta /\ req[r].delta.on = FALSE BY <4>3
                <5>2. row'[id].on = FALSE BY <3>2, <4>1, <5>1 DEF Changed
                <5> QED BY <5>2
            <4> QED BY <3>3, <4>2, <4>3
        <3>5. On(row)' \subseteq On(row) BY <2>1, <2>2, <3>4 DEF On
        <3>6. /\ Cardinality(On(row)') <= Cardinality(On(row))
              /\ Cardinality(On(row)') \in Nat /\ Cardinality(On(row)) \in Nat
            BY <2>3, <2>5, <3>5, FS_Subset, FS_CardinalityType
        <3>7. (\E q \in Requests : req'[q].at = "insert")
                  => \E q \in Requests : req[q].at = "insert"
            BY <2>6, IdleIsKeyRequest
        <3> QED BY <3>1, <3>6, <3>7, SettingsAssumption DEF KeysInv, KeysCounted
    <2> QED BY <2>5, <2>7, <2>8 DEF KeysInv
<1> QED BY <1>2, <1>3

LEMMA KeysNext == EditsInv /\ KeysInv /\ [Next]_vars => KeysInv'
<1> SUFFICES ASSUME EditsInv, KeysInv, [Next]_vars PROVE KeysInv' OBVIOUS
<1>1. DOMAIN req = Requests BY DEF EditsInv
<1>2. CASE UNCHANGED vars
    BY <1>2 DEF vars, KeysInv, KeysCounted, KeyRequest, On
<1>3. CASE table # "key" /\ ~ UNCHANGED vars
    <2>1. table' = table
        BY <1>3 DEF Next, post_api_key, post_role, post_template, post_clone, post_channel,
           post_rule, post_subscription, put_preferences, SaveRow, ReloadRule, StoreRow,
           WriteSubscription, NextPreference, DeleteRow, Abort, delete_api_key,
           validate_api_key, patch_role, patch_template, post_archive, patch_channel,
           patch_rule, delete_subscription, delete_custom_role, delete_channel,
           delete_profile_rule, update_profile, delete_profile, Create, Edit, Put, Delete,
           Serve, Goto, Refuse
    <2> QED BY <1>3, <2>1 DEF KeysInv
<1>4. ASSUME table = "key", NEW r \in Requests, post_api_key(r)
      PROVE  KeysInv'
    <2>1. PICK name \in create_api_key :
              Serve(r, [at |-> "insert", row |-> [name |-> name, on |-> TRUE]])
        BY <1>4 DEF post_api_key, Create
    <2>2. Cardinality(On(row)) < MaxKeys BY DEF create_api_key
    <2>3. KeyRequest([at |-> "insert", row |-> [name |-> name, on |-> TRUE]])
        BY DEF KeyRequest
    <2> QED BY <1>1, <2>1, <2>2, <2>3, KeysMove DEF Serve
<1>5. ASSUME table = "key", NEW r \in Requests, NEW id,
             delete_api_key(r, id) \/ validate_api_key(r, id)
      PROVE  KeysInv'
    <2>1. PICK d \in {<<>>, [on |-> FALSE]} : Serve(r, Copy(id, d))
        BY <1>5 DEF delete_api_key, validate_api_key, revoke_api_key, Edit
    <2>2. KeyRequest(Copy(id, d)) /\ Copy(id, d).at # "insert" BY DEF KeyRequest, Copy
    <2> QED BY <1>1, <2>1, <2>2, KeysMove DEF Serve
<1>6. ASSUME table = "key", NEW r \in Requests, Abort(r)
      PROVE  KeysInv'
    BY <1>1, <1>6, IdleIsKeyRequest, KeysMove DEF Abort
<1>7. ASSUME table = "key", NEW r \in Requests,
             ReloadRule(r) \/ WriteSubscription(r) \/ NextPreference(r) \/ DeleteRow(r)
      PROVE  KeysInv'
    BY <1>7 DEF ReloadRule, WriteSubscription, NextPreference, DeleteRow, KeysInv, KeyRequest
<1>8. ASSUME table = "key", NEW r \in Requests, SaveRow(r) \/ StoreRow(r)
      PROVE  KeysInv'
    BY <1>8, KeysSave, KeysStore
<1>9. CASE table = "key" /\ Next
    BY <1>4, <1>5, <1>6, <1>7, <1>8, <1>9
    DEF Next, post_role, post_template, post_clone, post_channel,
        post_rule, post_subscription, put_preferences, patch_role, patch_template,
        post_archive, patch_channel, patch_rule, delete_subscription, delete_custom_role,
        delete_channel, delete_profile_rule, update_profile, delete_profile, Create, Edit,
        Put, Delete, OfProfile
<1> QED BY <1>2, <1>3, <1>9

(* Nobody gets a key over the limit unless two requests count at once, or a *)
(* use of a key stores it over its revocation.                              *)
THEOREM KeysStayLimited == Spec => []KeysLimited
<1>1. Init => KeysInv
    <2> SUFFICES ASSUME Init PROVE KeysInv OBVIOUS
    <2>1. PICK id \in Ids, first \in Row : row = [i \in {id} |-> first] BY DEF Init
    <2>2. On(row) \in {{}, {id}}
        <3>1. DOMAIN row = {id} BY <2>1
        <3>2. CASE row[id].on BY <3>1, <3>2 DEF On
        <3>3. CASE ~row[id].on BY <3>1, <3>3 DEF On
        <3> QED BY <3>2, <3>3
    <2>3. IsFiniteSet(On(row)) /\ Cardinality(On(row)) <= 1
        <3>1. IsFiniteSet({id}) /\ Cardinality({id}) = 1 BY FS_Singleton
        <3>2. IsFiniteSet({}) /\ Cardinality({}) = 0 BY FS_EmptySet
        <3>3. CASE On(row) = {} BY <3>2, <3>3
        <3>4. CASE On(row) = {id} BY <3>1, <3>4
        <3> QED BY <2>2, <3>3, <3>4
    <2>4. \A r \in Requests : req[r] = Idle BY DEF Init
    <2>5. Cardinality(On(row)) <= MaxKeys
        BY <2>3, FS_CardinalityType, SettingsAssumption
    <2> QED BY <2>3, <2>4, <2>5, IdleIsKeyRequest DEF KeysInv, KeysCounted
<1>2. KeysInv => KeysLimited BY DEF KeysInv, KeysCounted, KeysLimited
<1> QED BY <1>1, <1>2, EditsAlways, KeysNext, PTL DEF Spec

------------------------------------------------------------------------------
(* The default profile.  Its service refuses before it writes, so what      *)
(* writes under it began before it was the default.                         *)

FrozenInv ==
    /\ DOMAIN req = Requests
    /\ (table = "rule" /\ profile.default) => \A r \in Requests : req[r] # Idle => r \in early

(* A request that goes on or ends. *)
LEMMA FrozenMoves ==
    ASSUME FrozenInv, NEW r \in Requests, NEW STATE state, req[r] # Idle,
           req' = [req EXCEPT ![r] = state], UNCHANGED <<table, profile, early>>
    PROVE  FrozenInv'
BY DEF FrozenInv

(* A request that is taken. *)
LEMMA FrozenServes ==
    ASSUME FrozenInv, NEW r \in Requests, NEW STATE state, Serve(r, state),
           ~ (table = "rule" /\ profile.default)
    PROVE  FrozenInv'
BY DEF FrozenInv, Serve

LEMMA FrozenNext == FrozenInv /\ [Next]_vars => FrozenInv'
<1> SUFFICES ASSUME FrozenInv, [Next]_vars PROVE FrozenInv' OBVIOUS
<1>1. CASE UNCHANGED vars BY <1>1 DEF vars, FrozenInv
<1>2. ASSUME NEW r \in Requests,
             \/ post_api_key(r) \/ post_role(r) \/ post_template(r) \/ post_clone(r)
             \/ post_channel(r) \/ post_rule(r) \/ post_subscription(r) \/ put_preferences(r)
      PROVE  FrozenInv'
    <2>1. PICK state : Serve(r, state) /\ ~ (table = "rule" /\ profile.default)
        BY <1>2 DEF post_api_key, post_role, post_template, post_clone, post_channel,
                    post_rule, post_subscription, put_preferences, Create, Put, add_rule
    <2> QED BY <2>1, FrozenServes
<1>3. ASSUME NEW r \in Requests, NEW id \in DOMAIN row,
             \/ delete_api_key(r, id) \/ validate_api_key(r, id) \/ patch_role(r, id)
             \/ patch_template(r, id) \/ post_archive(r, id) \/ patch_channel(r, id)
             \/ patch_rule(r, id) \/ delete_subscription(r, id)
             \/ delete_custom_role(r, id) \/ delete_channel(r, id)
             \/ delete_profile_rule(r, id)
      PROVE  FrozenInv'
    <2>1. PICK state : Serve(r, state) /\ ~ (table = "rule" /\ profile.default)
        BY <1>3 DEF delete_api_key, validate_api_key, patch_role, patch_template,
           post_archive, patch_channel, patch_rule, delete_subscription, delete_custom_role,
           delete_channel, delete_profile_rule, Edit, Delete, update_rule, delete_rule
    <2> QED BY <2>1, FrozenServes
<1>4. ASSUME NEW r \in Requests,
             \/ SaveRow(r) \/ ReloadRule(r) \/ StoreRow(r) \/ WriteSubscription(r)
             \/ NextPreference(r) \/ DeleteRow(r) \/ Abort(r)
      PROVE  FrozenInv'
    <2>1. req[r] # Idle
        BY <1>4 DEF SaveRow, ReloadRule, StoreRow, WriteSubscription, NextPreference,
                    DeleteRow, Abort, Idle
    <2>2. PICK state : /\ req' = [req EXCEPT ![r] = state]
                       /\ UNCHANGED <<table, profile, early>>
        BY <1>4 DEF SaveRow, ReloadRule, StoreRow, WriteSubscription, NextPreference,
                    DeleteRow, Abort, Goto, Refuse
    <2> QED BY <2>1, <2>2, FrozenMoves
<1>5. CASE update_profile BY <1>5 DEF update_profile, FrozenInv
<1>6. CASE delete_profile BY <1>6 DEF delete_profile, FrozenInv
<1> QED BY <1>1, <1>2, <1>3, <1>4, <1>5, <1>6 DEF Next

(* While a profile is the default one its rules do not change, but in a     *)
(* step of a request that was under way when it became so, however slow.    *)
THEOREM DefaultStaysFrozen == Spec => DefaultFrozen
<1>1. Init => FrozenInv BY DEF Init, FrozenInv
<1>2. ASSUME FrozenInv, [Next]_vars, table = "rule", profile.default, profile'.default,
             row' # row
      PROVE  \E r \in early : req[r] # Idle /\ req'[r] # req[r]
    <2>1. ASSUME NEW r \in Requests,
                 \/ SaveRow(r) \/ ReloadRule(r) \/ StoreRow(r) \/ WriteSubscription(r)
                 \/ NextPreference(r) \/ DeleteRow(r)
          PROVE  \E q \in early : req[q] # Idle /\ req'[q] # req[q]
        <3>1. req[r].at \in {"insert", "checked", "edit", "upsert", "next", "delete"}
            BY <2>1 DEF SaveRow, ReloadRule, StoreRow, WriteSubscription, NextPreference,
                        DeleteRow
        <3>2. req[r] # Idle BY <3>1 DEF Idle
        <3>3. r \in early BY <1>2, <3>2 DEF FrozenInv
        <3>4. CASE SaveRow(r) \/ StoreRow(r) \/ DeleteRow(r)
            BY <1>2, <3>2, <3>3, <3>4 DEF SaveRow, StoreRow, DeleteRow, Goto, Refuse, FrozenInv
        <3>5. CASE WriteSubscription(r)
            <4>1. PICK state : /\ req' = [req EXCEPT ![r] = state]
                               /\ state = Idle \/ state.at = "next"
                BY <1>2, <3>5 DEF WriteSubscription, Goto, Refuse
            <4>2. req'[r] = state BY <1>2, <4>1 DEF FrozenInv
            <4>3. req[r].at = "upsert" BY <3>5 DEF WriteSubscription
            <4> QED BY <3>2, <3>3, <4>1, <4>2, <4>3
        <3>6. CASE ReloadRule(r) \/ NextPreference(r)
            BY <1>2, <3>6 DEF ReloadRule, NextPreference, Refuse
        <3> QED BY <2>1, <3>4, <3>5, <3>6
    <2>2. ~ delete_profile BY <1>2 DEF delete_profile
    <2>3. ~ update_profile BY <1>2 DEF update_profile
    <2>4. \A r \in Requests : \A state : ~ Serve(r, state) BY <1>2 DEF Serve
    <2>5. \A r \in Requests : ~ Abort(r) BY <1>2 DEF Abort
    <2> QED
        BY <1>2, <2>1, <2>2, <2>3, <2>4, <2>5
        DEF Next, vars, post_api_key, post_role, post_template, post_clone, post_channel,
            post_rule, post_subscription, put_preferences, Create, Put, delete_api_key,
            validate_api_key, patch_role, patch_template, post_archive, patch_channel,
            patch_rule, delete_subscription, delete_custom_role, delete_channel,
            delete_profile_rule, Edit, Delete
<1>3. FrozenInv /\ [Next]_vars =>
          [table = "rule" /\ profile.default /\ profile'.default /\ row' # row
              => \E r \in early : req[r] # Idle /\ req'[r] # req[r]]_vars
    BY <1>2
<1> QED BY <1>1, <1>3, FrozenNext, PTL DEF Spec, DefaultFrozen
==============================================================================
