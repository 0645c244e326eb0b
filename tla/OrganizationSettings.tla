------------------------- MODULE OrganizationSettings -------------------------
(***************************************************************************)
(* The settings people keep: API keys, custom roles, rule templates,       *)
(* notification channels, subscriptions to events, and the rules of a      *)
(* profile.  They share their routes' way of working, a chain of short     *)
(* database sessions, and differ in what they check and in the constraints *)
(* of their tables.  A behaviour is about one table; nothing relates two.  *)
(*                                                                         *)
(* Every column that tells the operations apart is here: a name (of a key, *)
(* a role, a template; the type of a channel, the event of a subscription, *)
(* the template of a rule) and whether the row is on (is_active, enabled,  *)
(* not is_archived).  A request refused at its first read is not a step.   *)
(***************************************************************************)
EXTENDS Naturals, Sequences, FiniteSets

CONSTANTS
    Requests,   \* requests in flight
    Ids,        \* ids of rows
    Names,      \* names, or types of event or channel
    MaxKeys,    \* active API keys a user may have
    Budget      \* bound: requests and crashes

ASSUME SettingsAssumption ==
    /\ "insert" \notin Ids         \* "insert" stands for the id of a row to come
    /\ MaxKeys \in Nat \ {0} /\ Budget \in Nat

VARIABLES
    table,      \* which of the tables this behaviour is about
    row,        \* its rows, by id
    profile,    \* the profile of the rules or templates: there, the default?
    req,        \* what each request is doing
    left,       \* requests and crashes the bound still allows
    told,       \* history: the rows as acknowledged requests leave them
    used,       \* history: ids that some row has had
    raced,      \* history: what was written while another request worked on it
    early       \* history: requests begun before the profile became the default

vars == <<table, row, profile, req, left, told, used, raced, early>>

Tables == {"key", "role", "template", "channel", "subscription", "rule"}
OfProfile == {"rule", "template"}
Row == [name: Names, on: BOOLEAN]
Idle == [at |-> "idle"]

(* The rows with one more, or another, at id; a row with columns replaced. *)
With(f, id, u) == [i \in DOMAIN f \cup {id} |-> IF i = id THEN u ELSE f[i]]
Changed(u, delta) ==
    [c \in DOMAIN u \cup DOMAIN delta |-> IF c \in DOMAIN delta THEN delta[c] ELSE u[c]]

Init ==
    /\ table \in Tables
    /\ \E id \in Ids, first \in Row : row = [i \in {id} |-> first]
    /\ profile = [exists |-> TRUE, default |-> FALSE]
    /\ req = [r \in Requests |-> Idle]
    /\ left = Budget /\ told = row /\ used = DOMAIN row
    /\ raced = {} /\ early = {}
------------------------------------------------------------------------------
(* A route takes a request, and its sessions follow one another. *)
Serve(r, state) ==
    /\ req[r] = Idle /\ left > 0
    /\ req' = [req EXCEPT ![r] = state] /\ left' = left - 1
    /\ early' = early \ {r}
    /\ UNCHANGED <<table, row, profile, told, used, raced>>
Goto(r, state) == req' = [req EXCEPT ![r] = state] /\ UNCHANGED <<table, profile, left, early>>
Refuse(r) == Goto(r, Idle) /\ UNCHANGED <<row, told, used, raced>>

(* Another request works on the row, or means to insert one. *)
Race(r, id) ==
    raced' = IF \E s \in Requests \ {r} :
                   \/ req[s].at \in {"edit", "upsert"} /\ req[s].id = id
                   \/ req[s].at = "insert" /\ id = "insert"
             THEN raced \cup {id} ELSE raced

(* The constraints without that of names. *)
Constrained_profileOnly(f) == table \in OfProfile => profile.exists \/ f = <<>>

(* What the table's constraints refuse: the second row of a name, and a row *)
(* that refers to a profile that is not there.                              *)
Unique(f) == \A i, j \in DOMAIN f : f[i].name = f[j].name => i = j
Constrained(f) ==
    /\ table \in {"role", "subscription"} => Unique(f)
    /\ table \in OfProfile => profile.exists \/ f = <<>>

Without(f, id) == [i \in DOMAIN f \ {id} |-> f[i]]
On(f) == {i \in DOMAIN f : f[i].on}
Taken(name, f) == \E i \in DOMAIN f : f[i].name = name

------------------------------------------------------------------------------
(* Creating a row: the names a service lets through, and the insertion.     *)
create_api_key_uncounted == Names

create_api_key == IF Cardinality(On(row)) < MaxKeys THEN Names ELSE {}

create_role == {name \in Names : ~Taken(name, row)}

(* Archived templates do not count, and nothing but this check keeps names  *)
(* apart.                                                                   *)
create_template == {name \in Names : \A i \in On(row) : row[i].name # name}
clone_template == IF DOMAIN row = {} THEN {} ELSE create_template

(* A channel is created whether or not there is one of its type. *)
configure_channel == Names

(* ManageProfileUseCase.add_rule, under the service: any profile will do. *)
add_rule_anywhere == Names

add_rule == IF profile.default THEN {} ELSE Names

Create(r, t, names, on) ==
    /\ table = t
    /\ t \in OfProfile => profile.exists
    /\ \E name \in names : Serve(r, [at |-> "insert", row |-> [name |-> name, on |-> on]])

post_api_key(r)  == Create(r, "key", create_api_key, TRUE)
post_role(r)     == Create(r, "role", create_role, TRUE)
post_template(r) == Create(r, "template", create_template, TRUE)
post_clone(r)    == Create(r, "template", clone_template, TRUE)
post_channel(r)  == \E on \in BOOLEAN : Create(r, "channel", configure_channel, on)
post_rule(r)     == Create(r, "rule", add_rule, TRUE)

SaveRow(r) ==
    /\ req[r].at = "insert"
    /\ \/ \E id \in Ids \ used :
             LET rows == With(row, id, req[r].row) IN
             /\ Constrained(rows)
             /\ row' = rows /\ told' = With(told, id, req[r].row) /\ used' = used \cup {id}
             /\ Race(r, "insert") /\ Goto(r, Idle)
       \/ (\A id \in Ids \ used : ~Constrained(With(row, id, req[r].row))) /\ Refuse(r)

------------------------------------------------------------------------------
(* Changing a row: load, change the copy, store all of it.  A service says   *)
(* which columns are to change.                                              *)
Copy(id, delta) == [at |-> "edit", id |-> id, row |-> Changed(row[id], delta),
                    delta |-> delta]

Named == {[name |-> name] : name \in Names}
Switched == {[on |-> on] : on \in BOOLEAN}

revoke_api_key   == {[on |-> FALSE]}
update_role      == Named \cup Switched
update_template  == Named \cup Switched
archive_template == {[on |-> FALSE]}

(* The column that the request names is the one that changes. *)
update_channel_misspelt == {[enable |-> on] : on \in BOOLEAN}

update_channel == Switched

(* The service sees that the profile is not the default one; the use case   *)
(* under it reads the rule again.                                           *)
update_rule == IF profile.default THEN {} ELSE Switched

Edit(r, id, t, deltas) == table = t /\ \E delta \in deltas : Serve(r, Copy(id, delta))

delete_api_key(r, id) == Edit(r, id, "key", revoke_api_key)
patch_role(r, id)     == Edit(r, id, "role", update_role)
patch_template(r, id) == Edit(r, id, "template", update_template)
post_archive(r, id)   == Edit(r, id, "template", archive_template)
patch_channel(r, id)  == Edit(r, id, "channel", update_channel)

(* Every request that an active key authenticates stores the key with the   *)
(* time of its use, a column that is left out here.                         *)
validate_api_key(r, id) == row[id].on /\ Edit(r, id, "key", {<<>>})

patch_rule(r, id) ==
    /\ table = "rule"
    /\ \E delta \in update_rule : Serve(r, [at |-> "checked", id |-> id, delta |-> delta])

ReloadRule(r) ==
    /\ req[r].at = "checked"
    /\ IF req[r].id \in DOMAIN row
       THEN Goto(r, Copy(req[r].id, req[r].delta)) /\ UNCHANGED <<row, told, used, raced>>
       ELSE Refuse(r)

(* As with Session.merge, which inserts a row that it does not find. *)
StoreRow_merged(r) ==
    LET id == req[r].id
        rows == With(row, req[r].id, req[r].row)
    IN
    /\ req[r].at = "edit"
    /\ IF Constrained(rows)
       THEN /\ row' = rows
            /\ told' = [i \in DOMAIN told |-> IF i = id THEN Changed(told[i], req[r].delta) ELSE told[i]]
            /\ Race(r, id) /\ Goto(r, Idle) /\ UNCHANGED used
       ELSE Refuse(r)

(* A row that is gone is a ValueError. *)
StoreRow(r) ==
    LET id == req[r].id
        rows == With(row, req[r].id, req[r].row)
    IN
    /\ req[r].at = "edit"
    /\ IF id \in DOMAIN row /\ Constrained(rows)
       THEN /\ row' = rows /\ told' = [told EXCEPT ![id] = Changed(@, req[r].delta)]
            /\ Race(r, id) /\ Goto(r, Idle) /\ UNCHANGED used
       ELSE Refuse(r)

------------------------------------------------------------------------------
(* A subscription: found or not, then updated or inserted, in one session   *)
(* that locks nothing; preferences are a list of them, one commit each.     *)
Find(todo) ==
    LET name == Head(todo).name
        found == {i \in DOMAIN row : row[i].name = name}
    IN [at |-> "upsert", todo |-> todo,
        id |-> IF found = {} THEN "insert" ELSE CHOOSE i \in found : TRUE]

subscribe == {<<sub>> : sub \in Row}
update_user_preferences == {subs \in Row \X Row : subs[1].name # subs[2].name}

Put(r, lists) == table = "subscription" /\ \E subs \in lists : Serve(r, Find(subs))
post_subscription(r) == Put(r, subscribe)
put_preferences(r)   == Put(r, update_user_preferences)

WriteSubscription(r) ==
    LET sub == Head(req[r].todo)
        rest == Tail(req[r].todo)
        Done(id) ==
            /\ row' = With(row, id, sub) /\ told' = With(told, id, sub)
            /\ Race(r, req[r].id)
            /\ Goto(r, IF rest = <<>> THEN Idle
                       ELSE [at |-> "next", todo |-> rest])
    IN
    /\ req[r].at = "upsert"
    /\ IF req[r].id \in DOMAIN row THEN Done(req[r].id) /\ UNCHANGED used
       ELSE IF req[r].id = "insert" /\ ~Taken(sub.name, row)
            THEN \E id \in Ids \ used : Done(id) /\ used' = used \cup {id}
            ELSE Refuse(r)

NextPreference(r) ==
    /\ req[r].at = "next"
    /\ Goto(r, Find(req[r].todo)) /\ UNCHANGED <<row, told, used, raced>>

------------------------------------------------------------------------------
(* Deleting a row: load, then delete what is still there. *)
delete_rule == ~profile.default

Delete(r, id, t) == table = t /\ Serve(r, [at |-> "delete", id |-> id])

delete_subscription(r, id) == Delete(r, id, "subscription")
delete_custom_role(r, id)  == Delete(r, id, "role")
delete_channel(r, id)      == Delete(r, id, "channel")
delete_profile_rule(r, id) == delete_rule /\ Delete(r, id, "rule")

DeleteRow(r) ==
    LET id == req[r].id IN
    /\ req[r].at = "delete"
    /\ row' = Without(row, id) /\ told' = Without(told, id)
    /\ Goto(r, Idle) /\ UNCHANGED <<used, raced>>

(* Of the profile only this matters here: it becomes the default one, or    *)
(* not, or goes with its rules and templates (ProfileSchedules has more).   *)
update_profile ==
    /\ table = "rule" /\ profile.exists /\ left > 0 /\ left' = left - 1
    /\ profile' = [profile EXCEPT !.default = ~@]
    /\ early' = {r \in Requests : req[r] # Idle}
    /\ UNCHANGED <<table, row, req, told, used, raced>>

delete_profile ==
    /\ table \in OfProfile /\ profile.exists /\ left > 0 /\ left' = left - 1
    /\ profile' = [exists |-> FALSE, default |-> FALSE]
    /\ row' = <<>> /\ told' = <<>>
    /\ UNCHANGED <<table, req, used, raced, early>>

(* The process dies, or a statement fails for reasons of its own. *)
Abort(r) ==
    /\ req[r] # Idle /\ left > 0 /\ left' = left - 1
    /\ req' = [req EXCEPT ![r] = Idle]
    /\ UNCHANGED <<table, row, profile, told, used, raced, early>>

Next ==
    \/ \E r \in Requests :
          \/ post_api_key(r) \/ post_role(r) \/ post_template(r) \/ post_clone(r)
          \/ post_channel(r) \/ post_rule(r) \/ post_subscription(r) \/ put_preferences(r)
          \/ SaveRow(r) \/ ReloadRule(r) \/ StoreRow(r) \/ WriteSubscription(r)
          \/ NextPreference(r) \/ DeleteRow(r) \/ Abort(r)
          \/ \E id \in DOMAIN row :
                \/ delete_api_key(r, id) \/ validate_api_key(r, id) \/ patch_role(r, id)
                \/ patch_template(r, id) \/ post_archive(r, id) \/ patch_channel(r, id)
                \/ patch_rule(r, id) \/ delete_subscription(r, id)
                \/ delete_custom_role(r, id) \/ delete_channel(r, id)
                \/ delete_profile_rule(r, id)
    \/ update_profile \/ delete_profile

Spec == Init /\ [][Next]_vars
------------------------------------------------------------------------------
TypeOK ==
    /\ table \in Tables /\ profile \in [exists: BOOLEAN, default: BOOLEAN]
    /\ DOMAIN row \subseteq used /\ used \subseteq Ids
    /\ \A id \in DOMAIN row : row[id] \in Row
    /\ left \in 0 .. Budget /\ raced \subseteq Ids \cup {"insert"}

(* What was acknowledged is what is stored, and what was deleted stays      *)
(* deleted, whatever requests come between the sessions of another; only a  *)
(* row that two requests held at once may lose an edit, never its absence.  *)
EditsHold ==
    /\ DOMAIN row = DOMAIN told
    /\ \A id \in DOMAIN row \ raced : row[id] = told[id]

(* No user has more active keys than allowed, unless two requests counted   *)
(* them at once or a use of a key met its revocation.                       *)
KeysLimited == table = "key" /\ raced = {} => Cardinality(On(row)) <= MaxKeys

(* Whoever renames, creates or subscribes at the same time: one role of a   *)
(* name, one subscription to an event, and nothing of a profile that is     *)
(* gone, be it created while the profile was deleted.                       *)
Coherent ==
    /\ table \in {"role", "subscription"} => Unique(row)
    /\ table \in OfProfile /\ ~profile.exists => row = <<>>

(* The rules of the default profile do not change while it is there, but in *)
(* a step of a request that was under way when it became the default.       *)
DefaultFrozen ==
    [][table = "rule" /\ profile.default /\ profile'.default /\ row' # row
        => \E r \in early : req[r] # Idle /\ req'[r] # req[r]]_vars

(* What the route's documentation says of a key: once revoked, it is of no  *)
(* use any more.                                                            *)
RevokedForGood == table = "key" => \A id \in DOMAIN told : ~told[id].on => ~row[id].on
===============================================================================
