----------------------------- MODULE UserAccount -----------------------------
(***************************************************************************)
(* One account: its row, the sessions and 2FA challenges issued for it and *)
(* the requests that edit it (auth.py, auth_service.py, the account part   *)
(* of users.py and user_service.py, user_repository.py).                   *)
(*                                                                         *)
(* A handler loads the row, works on the copy and stores every column of   *)
(* it back; bcrypt threads and database awaits leave time in between, and  *)
(* nothing locks the row or checks its version.  A session stands for the  *)
(* access and refresh token issued together.  Tokens and mailed links that *)
(* expire are tokens and links nobody uses again.  A request refused at    *)
(* its first read changes nothing and is not a step.                       *)
(***************************************************************************)
EXTENDS Naturals, FiniteSets

CONSTANTS
    Requests,       \* requests in flight
    Passwords,      \* passwords somebody may type
    MaxAttempts,    \* MAX_LOGIN_ATTEMPTS (5 in the code)
    MaxSessions,    \* bound: sessions issued
    MaxFresh,       \* bound: reset tokens and 2FA secrets minted
    Budget          \* bound: crashes, and requests but the owner's sign-ins

ASSUME AccountAssumption ==
    /\ MaxAttempts \in Nat \ {0}
    /\ MaxSessions \in Nat /\ MaxFresh \in Nat \ {0} /\ Budget \in Nat

VARIABLES
    row,        \* the row of table "user"
    sessions,   \* token pairs issued
    challenges, \* a totp_pending token is out
    mailed,     \* reset tokens that reached the mailbox
    req,        \* what each request is doing
    minted,     \* reset tokens and secrets minted so far
    left,       \* requests the bound still allows
    epoch,      \* history: revocations acknowledged
    spent,      \* history: reset tokens accepted
    told,       \* history: password and activity last acknowledged
    overlapped  \* history: a store hit while another request held a copy

vars == <<row, sessions, challenges, mailed, req, minted, left, epoch, spent,
          told, overlapped>>

Mint == 0 .. MaxFresh       \* 0 stands for NULL
Row == [password: Passwords, version: Nat, failed: 0 .. MaxAttempts,
        lock: {"none", "set", "over"}, active: BOOLEAN,
        activation: BOOLEAN, reset: Mint, secret: Mint, totp: BOOLEAN]
Session == [id: Nat, version: Nat, epoch: Nat, out: BOOLEAN]
AuthedOps == {"update_profile", "change_password", "setup_totp",
              "enable_totp", "disable_totp", "logout"}
Outcomes == {"none", "session", "challenge", "revoke", "mail", "activated",
             "reset", "toggled"}
Idle == [at |-> "idle"]
Request == {Idle} \cup [at: {"admitted"}, op: AuthedOps]
           \cup [at: {"signin"}, password: Passwords]
           \cup [at: {"loaded"}, row: Row, write: BOOLEAN, out: Outcomes]

------------------------------------------------------------------------------
(* Edits: what a handler makes of the row it loaded, a set of outcomes that *)
(* is empty when the handler refuses.                                       *)

Answer(u, write, out) == [at |-> "loaded", row |-> u, write |-> write, out |-> out]
Edit(u, out) == Answer(u, TRUE, out)

(* A locked account starts a new count when the lock is over. *)
LockedOut(u) == [u EXCEPT !.lock = "set", !.failed = 0]
Cleared_countKept(u) == [u EXCEPT !.lock = "none"]
Cleared(u) == [u EXCEPT !.lock = "none", !.failed = 0]

(* needs_rehash makes a sign-in write the row although nothing changed. *)
authenticate(u, p) ==
    IF ~u.active \/ u.lock = "set" THEN {}
    ELSE IF u.failed >= MaxAttempts THEN {Edit(LockedOut(u), "none")}
    ELSE IF p # u.password THEN {Edit([u EXCEPT !.failed = @ + 1], "none")}
    ELSE {Answer(Cleared(u), w, IF u.totp THEN "challenge" ELSE "session")
             : w \in {TRUE, Cleared(u) # u}}

verify_totp_unlocked(u, right) ==
    IF ~u.totp \/ u.secret = 0 \/ u.lock = "set" THEN {}
    ELSE IF right THEN {Edit(Cleared(u), "session")}
    ELSE {Edit([u EXCEPT !.failed = @ + 1], "none")}

verify_totp(u, right) ==
    IF ~u.totp \/ u.secret = 0 \/ u.lock = "set" THEN {}
    ELSE IF right
    THEN {Answer(Cleared(u), Cleared(u) # u, "session")}
    ELSE LET v == [u EXCEPT !.failed = @ + 1]
         IN {Edit(IF v.failed >= MaxAttempts THEN LockedOut(v) ELSE v, "none")}

setup_totp(u) ==
    IF u.totp \/ (u.secret = 0 /\ minted = MaxFresh) THEN {}
    ELSE {Edit([u EXCEPT !.secret = IF @ = 0 THEN minted + 1 ELSE @], "none")}

enable_totp(u) ==
    IF u.secret = 0 \/ u.totp THEN {} ELSE {Edit([u EXCEPT !.totp = TRUE], "none")}

disable_totp_halfway(u) ==
    IF ~u.totp \/ u.secret = 0 THEN {} ELSE {Edit([u EXCEPT !.secret = 0], "none")}

disable_totp(u) ==
    IF ~u.totp \/ u.secret = 0 THEN {}
    ELSE {Edit([u EXCEPT !.totp = FALSE, !.secret = 0], "none")}

update_profile(u) == {Edit(u, "none")}      \* the display name is left out

ChangePassword_sessionsKept(u) ==
    {Edit([u EXCEPT !.password = p], "revoke") : p \in Passwords}

ChangePassword(u) ==
    {Edit([u EXCEPT !.password = p, !.version = @ + 1], "revoke") : p \in Passwords}

RevokeSessions(u) == {Edit([u EXCEPT !.version = @ + 1], "revoke")}

SetActive(u, b) == {Edit([u EXCEPT !.active = b], "toggled")}

EditsOf(op, u) ==
    CASE op = "update_profile"  -> update_profile(u)
      [] op = "change_password" -> ChangePassword(u)
      [] op = "setup_totp"      -> setup_totp(u)
      [] op = "enable_totp"     -> enable_totp(u)
      [] op = "disable_totp"    -> disable_totp(u)
      [] op = "logout"          -> RevokeSessions(u)

------------------------------------------------------------------------------
(* An account in use, with 2FA or without, or one that waits for activation. *)
Init ==
    /\ \E p \in Passwords, a, f \in BOOLEAN :
          /\ minted = IF f THEN 1 ELSE 0
          /\ row = [password |-> p, version |-> 0, failed |-> 0, lock |-> "none",
                    active |-> a, activation |-> ~a, reset |-> 0,
                    secret |-> minted, totp |-> f]
    /\ sessions = {} /\ challenges = FALSE /\ mailed = {}
    /\ req = [r \in Requests |-> Idle]
    /\ left = Budget
    /\ epoch = 0 /\ spent = {} /\ overlapped = FALSE
    /\ told = [password |-> row.password, active |-> row.active]

Free(r) == req[r] = Idle
Pay == left > 0 /\ left' = left - 1
Holding(r) == req[r].at = "loaded"

(* A request loads the row and goes on with one of the handler's edits, or  *)
(* is refused.                                                              *)
Load(r, edits) ==
    /\ edits # {} \/ ~Free(r)
    /\ \E e \in (IF edits = {} THEN {Idle} ELSE edits) : req' = [req EXCEPT ![r] = e]
    /\ UNCHANGED <<row, sessions, challenges, mailed, epoch, spent, told, overlapped>>

(* The blacklist outlives the request only when Redis keeps it: each        *)
(* request has a JwtHandler of its own.                                     *)
blacklist_token(s, kept) == [s EXCEPT !.out = kept]
is_token_blacklisted(s) == s.out

get_current_user(s) ==
    ~is_token_blacklisted(s) /\ row.active /\ s.version = row.version

Admit(r, op) ==
    /\ Free(r) /\ Pay
    /\ \E s \in sessions : get_current_user(s)
    /\ req' = [req EXCEPT ![r] = [at |-> "admitted", op |-> op]]
    /\ UNCHANGED <<row, sessions, challenges, mailed, minted, epoch, spent, told,
                   overlapped>>

------------------------------------------------------------------------------
(* Routes *)

(* The owner knows the password; sign-ins of others use up the bound. *)
OwnerLogin(r) ==
    /\ Free(r) /\ Load(r, authenticate(row, row.password))
    /\ UNCHANGED <<minted, left>>

login(r) ==
    /\ Free(r) /\ Pay /\ UNCHANGED minted
    /\ \E p \in Passwords : Load(r, authenticate(row, p))

verify_2fa(r) ==
    /\ Free(r) /\ Pay /\ UNCHANGED minted
    /\ challenges
    /\ \E right \in BOOLEAN : Load(r, verify_totp(row, right))

update_current_user_profile(r) == Admit(r, "update_profile")
change_password(r) == Admit(r, "change_password")
setup_2fa(r)   == Admit(r, "setup_totp")
enable_2fa(r)  == Admit(r, "enable_totp")
disable_2fa(r) == Admit(r, "disable_totp")

logout(r) ==
    /\ Free(r) /\ Pay
    /\ \E s \in sessions, kept \in BOOLEAN :
          /\ get_current_user(s)
          /\ sessions' = (sessions \ {s}) \cup {blacklist_token(s, kept)}
    /\ req' = [req EXCEPT ![r] = [at |-> "admitted", op |-> "logout"]]
    /\ UNCHANGED <<row, challenges, mailed, minted, epoch, spent, told, overlapped>>

(* The handler's own read of the row, after the dependency's. *)
LoadAdmitted(r) ==
    /\ req[r].at = "admitted"
    /\ Load(r, EditsOf(req[r].op, row))
    /\ minted' = IF req[r].op = "setup_totp" /\ ~row.totp /\ row.secret = 0 /\ minted < MaxFresh
                 THEN minted + 1 ELSE minted
    /\ UNCHANGED left

refresh_access_token(s) == row.active /\ s.version = row.version

(* No await between the read and the answer: one step. *)
refresh(r) ==
    /\ Free(r) /\ Pay
    /\ Cardinality(sessions) < MaxSessions
    /\ \E s \in sessions :
          /\ refresh_access_token(s)
          /\ sessions' = sessions \cup
                {[id |-> Cardinality(sessions) + 1, version |-> row.version,
                  epoch |-> s.epoch, out |-> FALSE]}
    /\ UNCHANGED <<row, challenges, mailed, req, minted, epoch, spent, told, overlapped>>

activate_account(r) ==
    /\ Free(r) /\ Pay /\ UNCHANGED minted
    /\ row.activation
    /\ Load(r, {Edit([row EXCEPT !.password = p, !.active = TRUE,
                                 !.activation = FALSE], "activated") : p \in Passwords})

(* activate_account goes on to sign the new owner in. *)
SignInActivated(r) ==
    /\ req[r].at = "signin"
    /\ Load(r, authenticate(row, req[r].password))
    /\ UNCHANGED <<minted, left>>

forgot_password(r) ==
    /\ Free(r) /\ Pay
    /\ row.active /\ minted < MaxFresh /\ minted' = minted + 1
    /\ Load(r, {Edit([row EXCEPT !.reset = minted + 1], "mail")})

reset_password_linkKept(r) ==
    /\ Free(r) /\ Pay /\ UNCHANGED minted
    /\ row.reset \in mailed
    /\ Load(r, {Edit([row EXCEPT !.password = p, !.version = @ + 1], "reset")
                  : p \in Passwords})

reset_password(r) ==
    /\ Free(r) /\ Pay /\ UNCHANGED minted
    /\ row.reset \in mailed
    /\ Load(r, {Edit([row EXCEPT !.password = p, !.reset = 0, !.version = @ + 1],
                       "reset") : p \in Passwords})

admin_activate_user(r) ==
    Free(r) /\ Pay /\ UNCHANGED minted /\ Load(r, SetActive(row, TRUE))

admin_deactivate_user(r) ==
    Free(r) /\ Pay /\ UNCHANGED minted /\ Load(r, SetActive(row, FALSE))

------------------------------------------------------------------------------
update_stateless(r) ==
    row' = IF req[r].write THEN [req[r].row EXCEPT !.active = row.active] ELSE row

(* SqlUserRepository.update: every column of the copy replaces the row's. *)
update(r) == row' = IF req[r].write THEN req[r].row ELSE row

_issue_tokens(r) ==
    IF req[r].out = "session" /\ Cardinality(sessions) < MaxSessions
    THEN sessions \cup {[id |-> Cardinality(sessions) + 1,
                         version |-> req[r].row.version, epoch |-> epoch,
                         out |-> FALSE]}
    ELSE sessions

(* The store commits and the handler answers.  A reset mail may fail. *)
Store(r) ==
    LET e == req[r] IN
    /\ Holding(r)
    /\ update(r)
    /\ sessions' = _issue_tokens(r)
    /\ challenges' = (challenges \/ e.out = "challenge")
    /\ \E sent \in BOOLEAN :
          mailed' = IF e.out = "mail" /\ sent THEN mailed \cup {e.row.reset} ELSE mailed
    /\ req' = [req EXCEPT ![r] =
                 IF e.out = "activated"
                 THEN [at |-> "signin", password |-> e.row.password] ELSE Idle]
    /\ epoch' = IF e.out \in {"revoke", "reset"} THEN epoch + 1 ELSE epoch
    /\ spent' = IF e.out = "reset" THEN spent \cup ({row.reset} \ {0}) ELSE spent
    /\ told' = [password |-> IF e.out \in {"revoke", "reset", "activated"}
                             THEN e.row.password ELSE told.password,
                active |-> IF e.out \in {"toggled", "activated"}
                           THEN e.row.active ELSE told.active]
    /\ overlapped' = (overlapped \/ (e.write /\ \E q \in Requests \ {r} : Holding(q)))
    /\ UNCHANGED <<minted, left>>

(* The client goes away or the process restarts: the copy is lost. *)
Abandon(r) ==
    /\ ~Free(r) /\ Pay
    /\ req' = [req EXCEPT ![r] = Idle]
    /\ UNCHANGED <<row, sessions, challenges, mailed, minted, epoch, spent, told,
                   overlapped>>

(* A lock runs out in the row and in the copies of it. *)
Lapse(u) == [u EXCEPT !.lock = IF @ = "set" THEN "over" ELSE @]
LockExpires ==
    /\ row.lock = "set"
    /\ row' = Lapse(row)
    /\ req' = [r \in Requests |->
                 IF Holding(r) THEN [req[r] EXCEPT !.row = Lapse(@)] ELSE req[r]]
    /\ UNCHANGED <<sessions, challenges, mailed, minted, left, epoch, spent, told,
                   overlapped>>

Route(r) ==
    \/ login(r) \/ verify_2fa(r) \/ refresh(r) \/ logout(r)
    \/ update_current_user_profile(r) \/ change_password(r)
    \/ setup_2fa(r) \/ enable_2fa(r) \/ disable_2fa(r)
    \/ activate_account(r) \/ forgot_password(r) \/ reset_password(r)
    \/ admin_activate_user(r) \/ admin_deactivate_user(r)

Continue(r) == LoadAdmitted(r) \/ SignInActivated(r) \/ Store(r)

Next ==
    \/ \E r \in Requests : Route(r) \/ OwnerLogin(r) \/ Continue(r) \/ Abandon(r)
    \/ LockExpires

Spec == Init /\ [][Next]_vars

(* Handlers run on; the owner keeps trying to sign in; locks run out. *)
FairSpec ==
    /\ Spec
    /\ \A r \in Requests : WF_vars(Continue(r)) /\ WF_vars(OwnerLogin(r))
    /\ WF_vars(LockExpires)

------------------------------------------------------------------------------
(* Types; failed attempts stay within MAX_LOGIN_ATTEMPTS in the row and in   *)
(* every copy, however the counts of concurrent attempts are lost.           *)
TypeOK ==
    /\ row \in Row
    /\ \A s \in sessions : s \in Session
    /\ challenges \in BOOLEAN
    /\ mailed \subseteq Mint /\ spent \subseteq Mint
    /\ req \in [Requests -> Request]
    /\ minted \in Mint /\ left \in 0 .. Budget /\ epoch \in Nat
    /\ told \in [password: Passwords, active: BOOLEAN]
    /\ overlapped \in BOOLEAN

Copies == {row} \cup {req[r].row : r \in {q \in Requests : Holding(q)}}

(* Whatever the interleaving and whatever is lost, no row ever mixes two    *)
(* states of the account: 2FA is on only with its secret, and a locked      *)
(* account starts a new count.                                              *)
Coherent(u) ==
    /\ u.totp => u.secret # 0
    /\ u.lock = "set" => u.failed = 0
RowsCoherent == \A u \in Copies : Coherent(u)

Usable(s) == row.active /\ s.version = row.version

(* Sessions older than the last logout, password change or reset are dead,  *)
(* the ones a refresh derived from them included.                           *)
RevokedStaysRevoked == \A s \in sessions : Usable(s) => s.epoch = epoch

(* Without overlap nothing that was answered is taken back: sessions stay   *)
(* revoked, a spent reset link is gone, and the password and the activity   *)
(* are the ones last acknowledged.                                          *)
IsolatedRevocation == ~overlapped => RevokedStaysRevoked
IsolatedLinks      == ~overlapped => row.reset \notin spent
IsolatedEdits      == ~overlapped =>
                          told = [password |-> row.password, active |-> row.active]

(* Once the others stop, the owner's own attempts bring the account back:   *)
(* no count and no lock are left for good.                                  *)
OwnerRecovers == <>[](row.active => row.failed = 0 /\ row.lock = "none")
==============================================================================
