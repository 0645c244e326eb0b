------------------------------- MODULE Tenancy -------------------------------
(***************************************************************************)
(* Accounts, organizations, memberships and the claims of access tokens    *)
(* (organization_service.py, user_service.py, access_requests.py, the      *)
(* guards of dependencies.py and their repositories).                      *)
(*                                                                         *)
(* A handler checks its caller and reads the rows it needs, then commits   *)
(* one repository call after another; nothing ties the calls together, and *)
(* an account is stored back as the whole row that was read.  A request is *)
(* the list of calls still to come.  Reads of one handler that no commit   *)
(* separates are one step, and so are a read and the commit it decides.    *)
(* Activity and sessions are in UserAccount; here a user has one token.    *)
(***************************************************************************)
EXTENDS Naturals, SequencesExt

CONSTANTS
    Requests,   \* requests in flight
    Users,      \* accounts, by e-mail address
    Orgs,       \* organizations, by slug
    None,       \* NULL
    Budget      \* bound: requests, crashes and restarts

ASSUME TenancyAssumption ==
    /\ None \notin Orgs
    /\ IsFiniteSet(Orgs)
    /\ Budget \in Nat

VARIABLES
    db,         \* the tables
    claims,     \* what the token of a user says
    req,        \* calls each request has still to make
    left,       \* requests the bound still allows
    gone,       \* bound: deleted accounts and organizations do not come back
    granted,    \* history: <<u, o>> such that o was to take u in
    smooth      \* history: every request so far ran alone and to its end

vars == <<db, claims, req, left, gone, granted, smooth>>

Roles == {"U2", "U4", "U3"}     \* operator, manager, administrator
Row == [org: Orgs \cup {None}, role: Roles, active: BOOLEAN]
Idle == [calls |-> <<>>, begun |-> FALSE]

Put(f, k, v) == [x \in DOMAIN f \cup {k} |-> IF x = k THEN v ELSE f[x]]
Drop(f, S)   == Restrict(f, DOMAIN f \ S)
Has(f, k)    == k \in DOMAIN f

------------------------------------------------------------------------------
(* Guards *)

OperatorPermissions ==
    {"VIEW_DASHBOARD", "VIEW_ORG_PROJECTS", "CREATE_RELEASE", "UPDATE_OWN_RELEASES",
     "ARCHIVE_RELEASE", "EXECUTE_VERIFICATION", "VIEW_OWN_HISTORY",
     "MANAGE_OWN_API_KEYS"}
ManagerPermissions == OperatorPermissions \cup
    {"CREATE_PROJECT", "UPDATE_PROJECT", "ARCHIVE_PROJECT", "DELETE_PROJECT",
     "MANAGE_CONNECTORS", "MANAGE_PROFILES", "MANAGE_RULES", "VIEW_ORG_DASHBOARD",
     "INVITE_USERS", "MANAGE_ROLES", "TRANSFER_OWNERSHIP"}
has_permission(role, p) ==
    \/ role = "U3"
    \/ role = "U4" /\ p \in ManagerPermissions
    \/ role = "U2" /\ p \in OperatorPermissions

Rank(role) == CASE role = "U2" -> 0 [] role = "U4" -> 1 [] role = "U3" -> 2
require_role(a, min) == Rank(claims[a].role) >= Rank(min)

(* The token is good while the account is there and active; what it says of *)
(* the role and the organization is not compared with the row.              *)
CurrentUser(a) == Has(claims, a) /\ Has(db.users, a) /\ db.users[a].active
require_permission(a, p) == CurrentUser(a) /\ has_permission(claims[a].role, p)

Owns(a, o) == Has(db.orgs, o) /\ db.orgs[o] = a

require_org_access_unscoped(a, o) ==
    \/ claims[a].role = "U3"
    \/ claims[a].org = o
    \/ Has(db.orgs, o) /\ (Owns(a, o) \/ \E p \in Orgs : Has(db.members, <<a, p>>))
require_org_access(a, o) ==
    \/ claims[a].role = "U3"
    \/ claims[a].org = o
    \/ Has(db.orgs, o) /\ (Owns(a, o) \/ Has(db.members, <<a, o>>))

require_project_access(a, o) ==
    claims[a].role = "U3" \/ claims[a].org = o \/ Owns(a, o)

(* The guards of what an organization owns, o being its organization: most  *)
(* admit the owner as well.  The system's profile is of no organization.    *)
require_release_access(a, o) == require_project_access(a, o)
require_connector_access(a, o) == require_project_access(a, o)
require_profile_access(a, o) == require_project_access(a, o)
require_rule_access(a, o) == require_project_access(a, o)
require_notification_channel_access(a, o) == require_project_access(a, o)
require_custom_role_access(a, o) == claims[a].role = "U3" \/ claims[a].org = o
require_api_key_access(a, o) == require_custom_role_access(a, o)

(* Some organization guard admits a to o.  One of them stands before every    *)
(* change of what o owns and before every read of it but three:               *)
(* list_org_projects and get_project ask for VIEW_ORG_PROJECTS, which all     *)
(* roles have, and get_task_status for a token; they read any organization's. *)
Admitted(a, o) ==
    \/ require_org_access(a, o) \/ require_project_access(a, o)
    \/ require_release_access(a, o) \/ require_connector_access(a, o)
    \/ require_profile_access(a, o) \/ require_rule_access(a, o)
    \/ require_custom_role_access(a, o) \/ require_api_key_access(a, o)
    \/ require_notification_channel_access(a, o)

------------------------------------------------------------------------------
(* Repository calls: the tables after the commit.  The schema refuses what  *)
(* breaks a key: Refused says when it must, MayRefuse when it may.          *)

DeleteOrg_noCascade(d, o) == [d EXCEPT !.orgs = Drop(@, {o})]
DeleteOrg(d, o) == [d EXCEPT !.orgs = Drop(@, {o}),
                             !.members = Drop(@, Users \X {o})]

UserCall(d, c) ==
    CASE c.do = "user.create" -> [d EXCEPT !.users = Put(@, c.u, c.row)]
      [] c.do \in {"user.update", "user.switch"} -> [d EXCEPT !.users[c.u] = c.row]
      [] c.do = "user.delete" -> [d EXCEPT !.users = Drop(@, {c.u})]
OrgCall(d, c) ==
    CASE c.do = "org.create" -> [d EXCEPT !.orgs = Put(@, c.o, c.u)]
      [] c.do = "org.update" -> [d EXCEPT !.orgs[c.o] = c.u]
      [] c.do = "org.delete" -> DeleteOrg(d, c.o)
MemberCall(d, c) ==
    CASE c.do = "member.create" -> [d EXCEPT !.members = Put(@, <<c.u, c.o>>, c.role)]
      [] c.do = "member.role" -> [d EXCEPT !.members[<<c.u, c.o>>] = c.role]
      [] c.do = "member.delete" -> [d EXCEPT !.members = Drop(@, {<<c.u, c.o>>})]
      [] c.do = "member.deleteAll" -> [d EXCEPT !.members = Drop(@, {c.u} \X Orgs)]
RequestCall(d, c) == [d EXCEPT !.requests = Put(@, c.u, "APPROVED")]

CallMade(d, c) ==
    CASE c.do \in {"user.create", "user.update", "user.switch", "user.delete"} -> UserCall(d, c)
      [] c.do \in {"org.create", "org.update", "org.delete"} -> OrgCall(d, c)
      [] c.do = "request.create" -> RequestCall(d, c)
      [] OTHER -> MemberCall(d, c)

Refused(d, c) ==
    \/ c.do = "user.create" /\ Has(d.users, c.u)
    \/ c.do \in {"user.update", "user.switch", "user.delete"} /\ ~Has(d.users, c.u)
    \/ c.do = "user.delete" /\ \/ c.u \in Range(d.orgs)
                               \/ \E k \in DOMAIN d.members : k[1] = c.u
    \/ c.do = "org.create" /\ (Has(d.orgs, c.o) \/ ~Has(d.users, c.u))
    \/ c.do = "org.update" /\ ~(Has(d.orgs, c.o) /\ Has(d.users, c.u))
    \/ c.do = "member.create" /\ \/ Has(d.members, <<c.u, c.o>>)
                                 \/ ~(Has(d.orgs, c.o) /\ Has(d.users, c.u))
    \/ c.do = "member.role" /\ ~Has(d.members, <<c.u, c.o>>)
    \/ c.do = "error"

(* API keys, which no cascade removes with their user, may point to it. *)
MayRefuse(c) == c.do = "user.delete"

User(u, row)       == [do |-> "user.update", u |-> u, row |-> row]
NewUser(u, row)    == [do |-> "user.create", u |-> u, row |-> row]
Member(u, o, role) == [do |-> "member.create", u |-> u, o |-> o, role |-> role]
SetRole(u, o, role) == [do |-> "member.role", u |-> u, o |-> o, role |-> role]

------------------------------------------------------------------------------
(* Calls that read before they commit stand for the calls they turn into.   *)

(* _demote_previous_owner, _promote_new_owner: the membership part. *)
Demoted(d, c) ==
    IF Has(d.members, <<c.u, c.o>>) THEN <<SetRole(c.u, c.o, "U2")>> ELSE <<>>
Promoted_existing(d, c) ==
    IF Has(d.members, <<c.u, c.o>>) THEN <<SetRole(c.u, c.o, "U4")>> ELSE <<>>
Promoted(d, c) ==
    IF Has(d.members, <<c.u, c.o>>) THEN <<SetRole(c.u, c.o, "U4")>>
                                    ELSE <<Member(c.u, c.o, "U4")>>

(* remove_user_from_organization: another membership, in no given order,   *)
(* becomes the active one.                                                 *)
Fallbacks(d, c) ==
    LET rest == {o \in Orgs : Has(d.members, <<c.u, o>>)}
    IN IF rest = {}
       THEN {<<User(c.u, [c.row EXCEPT !.org = None, !.role = "U2"])>>}
       ELSE {<<User(c.u, [c.row EXCEPT !.org = o, !.role = d.members[<<c.u, o>>]])>>
                : o \in rest}

(* _release_owned_organizations, for one of the memberships. *)
Released(d, c) ==
    IF ~Has(d.orgs, c.o) \/ d.orgs[c.o] # c.u THEN <<>>
    ELSE IF \E v \in DOMAIN d.users \ {c.u} : d.users[v].org = c.o
         THEN <<[do |-> "error"]>>
         ELSE <<[do |-> "org.delete", o |-> c.o]>>

Turns(d, c) ==
    CASE c.do = "demote"   -> {Demoted(d, c)}
      [] c.do = "promote"  -> {Promoted(d, c)}
      [] c.do = "fallback" -> Fallbacks(d, c)
      [] c.do = "release"  -> {Released(d, c)}
      [] OTHER -> {<<c>>}

------------------------------------------------------------------------------
(* The administrator, an organization with its manager and, in some runs,  *)
(* an operator the manager invited; everybody has signed in.               *)
FirstTables(adm, man, op, o) ==
    [users |-> [u \in {adm, man} \cup op |->
                  [org |-> IF u = adm THEN None ELSE o, active |-> TRUE,
                   role |-> IF u = adm THEN "U3" ELSE IF u = man THEN "U4" ELSE "U2"]],
     orgs |-> Put(<<>>, o, man),
     members |-> [k \in ({man} \cup op) \X {o} |-> IF k[1] = man THEN "U4" ELSE "U2"],
     requests |-> Put(<<>>, man, "APPROVED")]

Init ==
    \E adm, man \in Users, op \in SUBSET Users, o \in Orgs :
       /\ adm # man /\ op \subseteq Users \ {adm, man} /\ Cardinality(op) <= 1
       /\ db = FirstTables(adm, man, op, o)
       /\ claims = [u \in DOMAIN db.users |->
                       [org |-> db.users[u].org, role |-> db.users[u].role]]
       /\ granted = DOMAIN db.members
       /\ req = [r \in Requests |-> Idle]
       /\ left = Budget /\ gone = {} /\ smooth = TRUE

Start(r, calls) ==
    /\ req[r] = Idle /\ left > 0
    /\ left' = left - 1
    /\ req' = [req EXCEPT ![r] = [calls |-> calls, begun |-> FALSE]]
    /\ granted' = granted \cup {<<c.u, c.o>> : c \in {x \in Range(calls) :
                                   x.do \in {"member.create", "promote"}}}
    /\ UNCHANGED <<db, claims, gone, smooth>>

------------------------------------------------------------------------------
(* Routes *)

(* create_organization of the service, once the owner's row is there. *)
Founding(u, o, row) ==
    <<[do |-> "org.create", o |-> o, u |-> u], User(u, [row EXCEPT !.org = o]),
      Member(u, o, row.role)>>

create_organization(r) ==
    \E a \in Users, o \in Orgs \ gone :
       /\ CurrentUser(a) /\ claims[a].role # "U3"
       /\ ~Has(db.orgs, o) /\ db.users[a].role # "U3"
       /\ Start(r, Founding(a, o, db.users[a]))

Handover(d, o, n) ==
    LET old == d.orgs[o]
        demote == IF d.users[old].role # "U4" THEN <<>>
                  ELSE <<User(old, [d.users[old] EXCEPT !.role = "U2"]),
                         [do |-> "demote", u |-> old, o |-> o]>>
    IN <<[do |-> "org.update", o |-> o, u |-> n]>> \o demote
       \o <<User(n, [d.users[n] EXCEPT !.role = "U4"]),
            [do |-> "promote", u |-> n, o |-> o]>>

transfer_ownership(r) ==
    \E a \in Users, o \in DOMAIN db.orgs, n \in DOMAIN db.users :
       /\ require_permission(a, "TRANSFER_OWNERSHIP") /\ require_org_access(a, o)
       /\ claims[a].role = "U3" \/ Owns(a, o)
       /\ db.users[n].role # "U3"
       /\ Start(r, Handover(db, o, n))

(* Whoever has an active organization keeps it; the others start over with *)
(* an activation mail.                                                     *)
_invite_existing_user(u, o, role) ==
    LET row == db.users[u]
    IN <<Member(u, o, role)>> \o
       IF row.org # None THEN <<>>
       ELSE <<User(u, [row EXCEPT !.org = o, !.role = role, !.active = FALSE])>>

_invite_new_user(u, o, role) ==
    <<NewUser(u, [org |-> o, role |-> role, active |-> FALSE]), Member(u, o, role)>>

Invitation(u, o, role) ==
    IF Has(db.users, u) THEN _invite_existing_user(u, o, role)
                        ELSE _invite_new_user(u, o, role)

invite_user(r) ==
    \E a \in Users, o \in DOMAIN db.orgs, u \in Users \ gone, role \in Roles :
       /\ require_permission(a, "INVITE_USERS") /\ require_org_access(a, o)
       /\ ~Has(db.members, <<u, o>>)
       /\ Start(r, Invitation(u, o, role))

RoleChange(u, o, role) ==
    <<SetRole(u, o, role)>> \o
    IF db.users[u].org # o THEN <<>> ELSE <<User(u, [db.users[u] EXCEPT !.role = role])>>

update_user_role(r) ==
    \E a \in Users, o \in DOMAIN db.orgs, u \in DOMAIN db.users, role \in Roles :
       /\ require_permission(a, "MANAGE_ROLES") /\ require_org_access(a, o)
       /\ Has(db.members, <<u, o>>) /\ ~Owns(u, o)
       /\ Start(r, RoleChange(u, o, role))

Removal_noFallback(u, o) == <<[do |-> "member.delete", u |-> u, o |-> o]>>
Removal(u, o) ==
    <<[do |-> "member.delete", u |-> u, o |-> o]>> \o
    IF db.users[u].org # o THEN <<>>
    ELSE <<[do |-> "fallback", u |-> u, row |-> db.users[u]]>>

remove_user_from_org(r) ==
    \E a \in Users, o \in DOMAIN db.orgs, u \in DOMAIN db.users :
       /\ require_permission(a, "MANAGE_ROLES") /\ require_org_access(a, o)
       /\ Has(db.members, <<u, o>>) /\ ~Owns(u, o)
       /\ Start(r, Removal(u, o))

Switch(a, o) ==
    <<[do |-> "user.switch", u |-> a,
       row |-> [db.users[a] EXCEPT !.org = o, !.role = db.members[<<a, o>>]]]>>

switch_organization(r) ==
    \E a \in Users, o \in Orgs :
       CurrentUser(a) /\ Has(db.members, <<a, o>>) /\ Start(r, Switch(a, o))

Deletion(a, os) ==
    [i \in DOMAIN os |-> [do |-> "release", u |-> a, o |-> os[i]]]
    \o (IF os = <<>> THEN <<>> ELSE <<[do |-> "member.deleteAll", u |-> a]>>)
    \o <<[do |-> "user.delete", u |-> a]>>

delete_user_account(r) ==
    \E a \in Users :
       /\ CurrentUser(a) /\ db.users[a].role # "U3"
       /\ \E os \in SetToSeqs({o \in Orgs : Has(db.members, <<a, o>>)}) :
             Start(r, Deletion(a, os))

CreateUser(r, role) ==
    \E u \in Users \ gone :
       /\ ~Has(db.users, u)
       /\ Start(r, <<NewUser(u, [org |-> None, role |-> role, active |-> TRUE])>>)

register(r) == CreateUser(r, "U2")

Administrator == \E a \in Users : CurrentUser(a) /\ require_role(a, "U3")

admin_create_user(r) == Administrator /\ \E role \in Roles : CreateUser(r, role)

GlobalRole(u, role) == <<User(u, [db.users[u] EXCEPT !.role = role])>>

admin_update_global_role(r) ==
    /\ Administrator
    /\ \E u \in DOMAIN db.users, role \in Roles : Start(r, GlobalRole(u, role))

(* No route makes an organization inactive; the row is stored all the same. *)
Restored(o) == <<[do |-> "org.update", o |-> o, u |-> db.orgs[o]]>>

restore_organization(r) ==
    Administrator /\ \E o \in DOMAIN db.orgs : Start(r, Restored(o))

create_access_request(r) ==
    \E u \in Users \ gone, o \in Orgs \ gone :
       /\ ~Has(db.requests, u) /\ ~Has(db.users, u)
       /\ LET row == [org |-> None, role |-> "U4", active |-> FALSE]
          IN Start(r, <<NewUser(u, row)>> \o Founding(u, o, row)
                      \o <<[do |-> "request.create", u |-> u]>>)

(* The review changes the request and nothing else. *)
patch_access_request(r) ==
    /\ Administrator
    /\ \E u \in DOMAIN db.requests, s \in {"APPROVED", "REJECTED"} :
          db' = [db EXCEPT !.requests[u] = s]
    /\ left > 0 /\ left' = left - 1
    /\ req[r] = Idle
    /\ UNCHANGED <<req, claims, gone, granted, smooth>>

(* The first password makes an invited account active. *)
activate_account(r) ==
    \E u \in DOMAIN db.users :
       /\ ~db.users[u].active
       /\ Start(r, <<User(u, [db.users[u] EXCEPT !.active = TRUE])>>)

(* A sign-in or a refresh takes the claims from the row. *)
SignIn(u) ==
    /\ Has(db.users, u) /\ db.users[u].active
    /\ claims' = Put(claims, u, [org |-> db.users[u].org, role |-> db.users[u].role])
    /\ UNCHANGED <<db, req, left, gone, granted, smooth>>

------------------------------------------------------------------------------
Alone(r) == \A q \in Requests \ {r} : req[q] = Idle

End(r, calls) ==
    req' = [req EXCEPT ![r] = IF calls = <<>> THEN Idle
                              ELSE [calls |-> calls, begun |-> TRUE]]

Commit(r) ==
    /\ req[r] # Idle
    /\ \E k \in Turns(db, Head(req[r].calls)) :
          /\ k # <<>> => ~Refused(db, k[1])
          /\ db' = IF k = <<>> THEN db ELSE CallMade(db, k[1])
          /\ claims' = IF k # <<>> /\ k[1].do = "user.switch"
                       THEN Put(claims, k[1].u, [org |-> k[1].row.org, role |-> k[1].row.role])
                       ELSE claims
    /\ End(r, Tail(req[r].calls))
    /\ gone' = gone \cup (DOMAIN db.users \ DOMAIN db'.users)
                    \cup (DOMAIN db.orgs \ DOMAIN db'.orgs)
    /\ smooth' = (smooth /\ Alone(r))
    /\ UNCHANGED <<left, granted>>

(* An exception, a refused commit or a lost process: the rest is not done. *)
Fail(r) ==
    /\ req[r] # Idle
    /\ \E k \in Turns(db, Head(req[r].calls)) :
          k # <<>> /\ (Refused(db, k[1]) \/ MayRefuse(k[1]))
    /\ End(r, <<>>)
    /\ smooth' = (smooth /\ ~req[r].begun)
    /\ UNCHANGED <<db, claims, left, gone, granted>>

Abandon(r) ==
    /\ req[r].begun /\ left > 0 /\ left' = left - 1
    /\ End(r, <<>>)
    /\ smooth' = FALSE
    /\ UNCHANGED <<db, claims, gone, granted>>

(* Start-up: an administrator, should there be one, loses his organization; *)
(* otherwise one is made unless the address is taken.                       *)
seed_admin_user(d, email) ==
    LET admins == {u \in DOMAIN d.users : d.users[u].role = "U3"}
    IN IF admins # {} THEN {[d EXCEPT !.users[a].org = None] : a \in admins}
       ELSE IF Has(d.users, email) THEN {d}
       ELSE {[d EXCEPT !.users =
                 Put(@, email, [org |-> None, role |-> "U3", active |-> TRUE])]}

Restart ==
    /\ left > 0 /\ left' = left - 1
    /\ \E email \in Users \ gone : db' \in seed_admin_user(db, email)
    /\ req' = [r \in Requests |-> Idle]
    /\ smooth' = (smooth /\ \A r \in Requests : ~req[r].begun)
    /\ UNCHANGED <<claims, gone, granted>>

Route(r) ==
    \/ create_organization(r) \/ transfer_ownership(r) \/ invite_user(r)
    \/ update_user_role(r) \/ remove_user_from_org(r) \/ switch_organization(r)
    \/ delete_user_account(r) \/ register(r) \/ admin_create_user(r)
    \/ admin_update_global_role(r) \/ restore_organization(r)
    \/ create_access_request(r) \/ patch_access_request(r) \/ activate_account(r)

Next ==
    \/ \E r \in Requests : Route(r) \/ Commit(r) \/ Fail(r) \/ Abandon(r)
    \/ \E u \in Users : SignIn(u)
    \/ Restart

Spec == Init /\ [][Next]_vars

------------------------------------------------------------------------------
(* Types: partial functions for the tables, one pending call list each. *)
TypeOK ==
    /\ DOMAIN db.users \subseteq Users /\ Range(db.users) \subseteq Row
    /\ DOMAIN db.orgs \subseteq Orgs /\ Range(db.orgs) \subseteq DOMAIN db.users
    /\ DOMAIN db.members \subseteq (DOMAIN db.users) \X (DOMAIN db.orgs)
    /\ Range(db.members) \subseteq Roles
    /\ Range(claims) \subseteq [org: Orgs \cup {None}, role: Roles]
    /\ left \in 0 .. Budget

(* Requests that run one at a time and to their end leave every account in  *)
(* an organization it is a member of, or in none.                           *)
ActiveIsMember ==
    smooth /\ (\A r \in Requests : ~req[r].begun) =>
       \A u \in DOMAIN db.users :
          db.users[u].org # None => Has(db.members, <<u, db.users[u].org>>)

(* They leave every organization with an owner who is one of its members.   *)
OwnerIsMember ==
    smooth /\ (\A r \in Requests : ~req[r].begun) =>
       \A o \in DOMAIN db.orgs : Has(db.members, <<db.orgs[o], o>>)

(* However requests interleave, fail or are cut short, nobody but an        *)
(* administrator is placed in, or admitted by a guard to, an organization   *)
(* that never invited him, was founded by him or was handed over to him.    *)
(* It says nothing of the reads that no such guard protects.                *)
NeverAStranger ==
    /\ \A u \in DOMAIN db.users :
          db.users[u].org # None => <<u, db.users[u].org>> \in granted
    /\ \A u \in DOMAIN claims, o \in Orgs :
          claims[u].role # "U3" /\ Admitted(u, o) => <<u, o>> \in granted
==============================================================================
