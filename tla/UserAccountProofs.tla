------------------------- MODULE UserAccountProofs -------------------------
(***************************************************************************)
(* For any number of requests, passwords and attempts: no copy of the row  *)
(* mixes two states of the account, and what was answered is taken back    *)
(* only by requests that overlap.                                          *)
(***************************************************************************)
EXTENDS UserAccount, FiniteSetTheorems, TLAPS

Loaded == [at: {"loaded"}, row: Row, write: BOOLEAN, out: Outcomes]

(* How the copy of a request relates to the row while no store has met the *)
(* copy of another request: it is the row, but for what the request is     *)
(* going to answer.                                                        *)
Agrees(e) ==
    /\ e.row.version = IF e.out \in {"revoke", "reset"} THEN row.version + 1
                                                       ELSE row.version
    /\ e.out \notin {"revoke", "reset", "activated"} => e.row.password = row.password
    /\ e.out \notin {"toggled", "activated"} => e.row.active = row.active
    /\ e.row.reset \notin spent
    /\ e.out = "reset" => e.row.reset = 0
    /\ e.write \/ e.out \in {"session", "challenge"}

Isolated ==
    /\ told = [password |-> row.password, active |-> row.active]
    /\ row.reset \notin spent
    /\ \A s \in sessions : /\ s.version <= row.version
                           /\ s.version = row.version => s.epoch = epoch
    /\ \A r \in Requests : Holding(r) => Agrees(req[r])

(* Reset tokens are fresh when they are minted. *)
ResetsMinted ==
    /\ row.reset <= minted
    /\ \A r \in Requests : Holding(r) => req[r].row.reset <= minted
    /\ spent \subseteq 1 .. minted

CopiesCoherent ==
    /\ Coherent(row)
    /\ \A r \in Requests : Holding(r) => Coherent(req[r].row)

AccountInv ==
    /\ TypeOK
    /\ IsFiniteSet(sessions)
    /\ CopiesCoherent
    /\ ResetsMinted
    /\ ~overlapped => Isolated

(* What a request may take up, with m tokens and secrets minted. *)
Fits(e, m) ==
    /\ e \in Loaded
    /\ Coherent(e.row)
    /\ e.row.reset <= m
    /\ ~overlapped => Agrees(e)

------------------------------------------------------------------------------
(* Facts about the type of requests and rows. *)

LEMMA RequestShapes ==
    ASSUME NEW q \in Request
    PROVE  /\ q.at = "loaded" => q \in Loaded
           /\ q.at = "signin" => q.password \in Passwords
           /\ q.at = "admitted" => q.op \in AuthedOps
           /\ q.at # "idle" => q # Idle
BY DEF Request, Loaded, Idle

LEMMA RowFields ==
    ASSUME NEW u \in Row
    PROVE  /\ u.password \in Passwords /\ u.version \in Nat
           /\ u.failed \in 0 .. MaxAttempts /\ u.lock \in {"none", "set", "over"}
           /\ u.active \in BOOLEAN /\ u.activation \in BOOLEAN
           /\ u.reset \in Mint /\ u.secret \in Mint /\ u.totp \in BOOLEAN
BY DEF Row

LEMMA ClearedRow ==
    ASSUME NEW u \in Row, Coherent(u)
    PROVE  /\ Cleared(u) \in Row /\ Coherent(Cleared(u))
           /\ LockedOut(u) \in Row /\ Coherent(LockedOut(u))
           /\ Cleared(u).version = u.version /\ LockedOut(u).version = u.version
           /\ Cleared(u).password = u.password /\ LockedOut(u).password = u.password
           /\ Cleared(u).active = u.active /\ LockedOut(u).active = u.active
           /\ Cleared(u).reset = u.reset /\ LockedOut(u).reset = u.reset
<1>1. /\ Cleared(u) = [[u EXCEPT !.lock = "none"] EXCEPT !.failed = 0]
      /\ LockedOut(u) = [[u EXCEPT !.lock = "set"] EXCEPT !.failed = 0]
    BY DEF Cleared, LockedOut
<1>2. Cleared(u) \in Row /\ LockedOut(u) \in Row
    <2>1. /\ [u EXCEPT !.lock = "none"] \in Row
          /\ [u EXCEPT !.lock = "set"] \in Row
        BY DEF Row
    <2>2. \A v \in Row : [v EXCEPT !.failed = 0] \in Row BY AccountAssumption DEF Row
    <2> QED BY <1>1, <2>1, <2>2
<1>3. /\ Cleared(u).lock = "none" /\ Cleared(u).failed = 0
      /\ LockedOut(u).lock = "set" /\ LockedOut(u).failed = 0
      /\ Cleared(u).totp = u.totp /\ Cleared(u).secret = u.secret
      /\ LockedOut(u).totp = u.totp /\ LockedOut(u).secret = u.secret
    BY <1>1 DEF Row
<1>4. Coherent(Cleared(u)) /\ Coherent(LockedOut(u)) BY <1>3 DEF Coherent
<1>5. /\ Cleared(u).version = u.version /\ LockedOut(u).version = u.version
      /\ Cleared(u).password = u.password /\ LockedOut(u).password = u.password
      /\ Cleared(u).active = u.active /\ LockedOut(u).active = u.active
      /\ Cleared(u).reset = u.reset /\ LockedOut(u).reset = u.reset
    BY <1>1 DEF Row
<1> QED BY <1>2, <1>4, <1>5

LEMMA FailedRow ==
    ASSUME NEW u \in Row, Coherent(u), u.lock # "set", u.failed < MaxAttempts,
           NEW v, v = [u EXCEPT !.failed = @ + 1]
    PROVE  /\ v \in Row /\ Coherent(v)
           /\ v.version = u.version /\ v.password = u.password
           /\ v.active = u.active /\ v.reset = u.reset /\ v.failed = u.failed + 1
BY AccountAssumption DEF Row, Coherent

(* What it takes for an answer to fit. *)
LEMMA AnswerFits ==
    ASSUME NEW u \in Row, Coherent(u), NEW w \in BOOLEAN, NEW out \in Outcomes,
           NEW m, u.reset <= m, w \/ out \in {"session", "challenge"},
           ~overlapped => /\ u.version = IF out \in {"revoke", "reset"}
                                         THEN row.version + 1 ELSE row.version
                          /\ out \notin {"revoke", "reset", "activated"}
                                => u.password = row.password
                          /\ out \notin {"toggled", "activated"} => u.active = row.active
                          /\ u.reset \notin spent
                          /\ out = "reset" => u.reset = 0
    PROVE  Fits(Answer(u, w, out), m)
<1>1. PICK e : e = Answer(u, w, out) OBVIOUS
<1>2. e.row = u /\ e.write = w /\ e.out = out BY <1>1 DEF Answer
<1>3. e \in Loaded BY <1>1 DEF Answer, Loaded
<1>4. ~overlapped => Agrees(e) BY <1>2 DEF Agrees
<1> QED BY <1>1, <1>2, <1>3, <1>4 DEF Fits

(* An edit that changes nothing of what the answers are about. *)
LEMMA EditFits ==
    ASSUME AccountInv, NEW u \in Row, Coherent(u), NEW w \in BOOLEAN,
           NEW out \in {"none", "session", "challenge"},
           w \/ out \in {"session", "challenge"},
           u.version = row.version, u.password = row.password,
           u.active = row.active, u.reset = row.reset
    PROVE  Fits(Answer(u, w, out), minted)
BY DEF Answer, Fits, Loaded, Outcomes, Agrees, AccountInv, Isolated, ResetsMinted

------------------------------------------------------------------------------
(* One lemma for each edit that a handler makes of the row. *)

LEMMA AuthenticateFits ==
    ASSUME AccountInv, NEW p \in Passwords, NEW e \in authenticate(row, p)
    PROVE  Fits(e, minted)
<1>1. row \in Row /\ Coherent(row) BY DEF AccountInv, TypeOK, CopiesCoherent
<1>2. row.active /\ row.lock # "set" BY DEF authenticate
<1>3. CASE row.failed >= MaxAttempts
    <2>1. e = Answer(LockedOut(row), TRUE, "none")
        BY <1>2, <1>3 DEF authenticate, Edit
    <2> QED BY <1>1, <2>1, ClearedRow, EditFits
<1>4. CASE ~(row.failed >= MaxAttempts)
    <2>1. row.failed < MaxAttempts
        BY <1>1, <1>4, AccountAssumption DEF Row
    <2>2. CASE p # row.password
        <3>1. PICK v : v = [row EXCEPT !.failed = @ + 1] OBVIOUS
        <3>2. e = Answer(v, TRUE, "none")
            BY <1>2, <1>4, <2>2, <3>1, Zenon DEF authenticate, Edit
        <3> QED BY <1>1, <1>2, <2>1, <3>1, <3>2, FailedRow, EditFits
    <2>3. CASE p = row.password
        <3> DEFINE out == IF row.totp THEN "challenge" ELSE "session"
        <3>1. e \in {Answer(Cleared(row), w, out) : w \in {TRUE, Cleared(row) # row}}
            BY <1>2, <1>4, <2>3, Zenon DEF authenticate
        <3>2. PICK w \in BOOLEAN : e = Answer(Cleared(row), w, out) BY <3>1, Zenon
        <3> QED BY <1>1, <3>2, ClearedRow, EditFits
    <2> QED BY <2>2, <2>3
<1> QED BY <1>3, <1>4

LEMMA VerifyFits ==
    ASSUME AccountInv, NEW right \in BOOLEAN, NEW e \in verify_totp(row, right)
    PROVE  Fits(e, minted)
<1>1. row \in Row /\ Coherent(row) BY DEF AccountInv, TypeOK, CopiesCoherent
<1>2. row.lock # "set" BY DEF verify_totp
<1>3. CASE right
    <2>1. e = Answer(Cleared(row), Cleared(row) # row, "session")
        BY <1>2, <1>3 DEF verify_totp
    <2> QED BY <1>1, <2>1, ClearedRow, EditFits
<1>4. CASE ~right
    <2>1. PICK v : v = [row EXCEPT !.failed = @ + 1] OBVIOUS
    <2>2. e = Answer(IF v.failed >= MaxAttempts THEN LockedOut(v) ELSE v, TRUE, "none")
        BY <1>2, <1>4, <2>1 DEF verify_totp, Edit
    <2>3. v.failed = row.failed + 1 BY <1>1, <2>1 DEF Row
    <2>4. CASE ~(v.failed >= MaxAttempts)
        <3>1. e = Answer(v, TRUE, "none") BY <2>2, <2>4
        <3>2. row.failed < MaxAttempts
            BY <1>1, <2>3, <2>4, AccountAssumption DEF Row
        <3> QED BY <1>1, <1>2, <2>1, <3>1, <3>2, FailedRow, EditFits
    <2>5. CASE v.failed >= MaxAttempts
        <3>1. LockedOut(v) = LockedOut(row) BY <1>1, <2>1 DEF LockedOut, Row
        <3>2. e = Answer(LockedOut(row), TRUE, "none") BY <2>2, <2>5, <3>1
        <3> QED BY <1>1, <3>2, ClearedRow, EditFits
    <2> QED BY <2>4, <2>5
<1> QED BY <1>3, <1>4

LEMMA SetupFits ==
    ASSUME AccountInv, NEW e \in setup_totp(row)
    PROVE  Fits(e, minted)
<1>1. row \in Row /\ Coherent(row) /\ minted \in Mint
    BY DEF AccountInv, TypeOK, CopiesCoherent
<1>2. ~row.totp /\ ~(row.secret = 0 /\ minted = MaxFresh) BY DEF setup_totp
<1>3. PICK n : n = IF row.secret = 0 THEN minted + 1 ELSE row.secret OBVIOUS
<1>4. n \in Mint BY <1>1, <1>2, <1>3, AccountAssumption DEF Mint, Row
<1>5. PICK v : v = [row EXCEPT !.secret = n] OBVIOUS
<1>6. e = Answer(v, TRUE, "none")
    <2>1. [row EXCEPT !.secret = IF @ = 0 THEN minted + 1 ELSE @] = v
        BY <1>1, <1>3, <1>5 DEF Row
    <2> QED BY <1>2, <2>1 DEF setup_totp, Edit
<1>7. v \in Row BY <1>1, <1>4, <1>5 DEF Row
<1>8. /\ v.version = row.version /\ v.password = row.password
      /\ v.active = row.active /\ v.reset = row.reset
      /\ v.totp = row.totp /\ v.lock = row.lock /\ v.failed = row.failed
    BY <1>1, <1>5 DEF Row
<1>9. Coherent(v) BY <1>1, <1>2, <1>8 DEF Coherent
<1> QED BY <1>6, <1>7, <1>8, <1>9, EditFits

LEMMA EnableFits ==
    ASSUME AccountInv, NEW e \in enable_totp(row)
    PROVE  Fits(e, minted)
<1>1. row \in Row /\ Coherent(row) BY DEF AccountInv, TypeOK, CopiesCoherent
<1>2. row.secret # 0 BY DEF enable_totp
<1>3. PICK v : v = [row EXCEPT !.totp = TRUE] OBVIOUS
<1>4. e = Answer(v, TRUE, "none") BY <1>2, <1>3 DEF enable_totp, Edit
<1>5. v \in Row BY <1>1, <1>3 DEF Row
<1>6. /\ v.version = row.version /\ v.password = row.password
      /\ v.active = row.active /\ v.reset = row.reset
      /\ v.secret = row.secret /\ v.lock = row.lock /\ v.failed = row.failed
    BY <1>1, <1>3 DEF Row
<1>7. Coherent(v) BY <1>1, <1>2, <1>6 DEF Coherent
<1> QED BY <1>4, <1>5, <1>6, <1>7, EditFits

LEMMA DisableFits ==
    ASSUME AccountInv, NEW e \in disable_totp(row)
    PROVE  Fits(e, minted)
<1>1. row \in Row /\ Coherent(row) BY DEF AccountInv, TypeOK, CopiesCoherent
<1>2. PICK v : v = [[row EXCEPT !.totp = FALSE] EXCEPT !.secret = 0] OBVIOUS
<1>3. e = Answer(v, TRUE, "none")
    <2>1. [row EXCEPT !.totp = FALSE, !.secret = 0] = v BY <1>2
    <2> QED BY <2>1 DEF disable_totp, Edit
<1>4. v \in Row
    <2>1. [row EXCEPT !.totp = FALSE] \in Row BY <1>1 DEF Row
    <2>2. \A x \in Row : [x EXCEPT !.secret = 0] \in Row
        BY AccountAssumption DEF Row, Mint
    <2> QED BY <1>2, <2>1, <2>2
<1>5. /\ v.version = row.version /\ v.password = row.password
      /\ v.active = row.active /\ v.reset = row.reset
      /\ ~v.totp /\ v.lock = row.lock /\ v.failed = row.failed
    BY <1>1, <1>2 DEF Row
<1>6. Coherent(v) BY <1>1, <1>5 DEF Coherent
<1> QED BY <1>3, <1>4, <1>5, <1>6, EditFits

(* The edits that make a new version of the sessions. *)
LEMMA RevokingFits ==
    ASSUME AccountInv, NEW v \in Row, Coherent(v),
           NEW out \in {"revoke", "reset"},
           v.version = row.version + 1, v.active = row.active,
           v.reset = 0 \/ (out = "revoke" /\ v.reset = row.reset)
    PROVE  Fits(Answer(v, TRUE, out), minted)
<1>1. out \in Outcomes BY DEF Outcomes
<1>2. 0 <= minted /\ row.reset <= minted /\ 0 \notin spent
    BY DEF AccountInv, TypeOK, Mint, ResetsMinted
<1>3. v.reset <= minted BY <1>2
<1>4. ~overlapped => v.reset \notin spent BY <1>2 DEF AccountInv, Isolated
<1>5. ~overlapped => /\ out \notin {"revoke", "reset", "activated"}
                            => v.password = row.password
                     /\ out \notin {"toggled", "activated"} => v.active = row.active
                     /\ out = "reset" => v.reset = 0
    OBVIOUS
<1> QED BY <1>1, <1>3, <1>4, <1>5, AnswerFits

LEMMA ChangePasswordFits ==
    ASSUME AccountInv, NEW e \in ChangePassword(row)
    PROVE  Fits(e, minted)
<1>1. row \in Row /\ Coherent(row) BY DEF AccountInv, TypeOK, CopiesCoherent
<1>2. PICK p \in Passwords :
          e = Edit([row EXCEPT !.password = p, !.version = @ + 1], "revoke")
    BY DEF ChangePassword
<1>3. PICK v : v = [[row EXCEPT !.password = p] EXCEPT !.version = row.version + 1]
    OBVIOUS
<1>4. e = Answer(v, TRUE, "revoke")
    <2>1. [row EXCEPT !.password = p, !.version = @ + 1] = v BY <1>1, <1>3 DEF Row
    <2> QED BY <1>2, <2>1 DEF Edit
<1>5. v \in Row
    <2>1. [row EXCEPT !.password = p] \in Row BY <1>1 DEF Row
    <2>2. \A x \in Row, n \in Nat : [x EXCEPT !.version = n] \in Row BY DEF Row
    <2>3. row.version + 1 \in Nat BY <1>1 DEF Row
    <2> QED BY <1>3, <2>1, <2>2, <2>3
<1>6. /\ v.version = row.version + 1 /\ v.active = row.active /\ v.reset = row.reset
      /\ v.totp = row.totp /\ v.secret = row.secret
      /\ v.lock = row.lock /\ v.failed = row.failed
    BY <1>1, <1>3 DEF Row
<1>7. Coherent(v) BY <1>1, <1>6 DEF Coherent
<1> QED BY <1>4, <1>5, <1>6, <1>7, RevokingFits

LEMMA RevokeFits ==
    ASSUME AccountInv, NEW e \in RevokeSessions(row)
    PROVE  Fits(e, minted)
<1>1. row \in Row /\ Coherent(row) BY DEF AccountInv, TypeOK, CopiesCoherent
<1>2. PICK v : v = [row EXCEPT !.version = @ + 1] OBVIOUS
<1>3. e = Answer(v, TRUE, "revoke") BY <1>2 DEF RevokeSessions, Edit
<1>4. v \in Row BY <1>1, <1>2 DEF Row
<1>5. /\ v.version = row.version + 1 /\ v.active = row.active /\ v.reset = row.reset
      /\ v.totp = row.totp /\ v.secret = row.secret
      /\ v.lock = row.lock /\ v.failed = row.failed
    BY <1>1, <1>2 DEF Row
<1>6. Coherent(v) BY <1>1, <1>5 DEF Coherent
<1> QED BY <1>3, <1>4, <1>5, <1>6, RevokingFits

LEMMA EditsFit ==
    ASSUME AccountInv, NEW op \in AuthedOps, NEW e \in EditsOf(op, row)
    PROVE  Fits(e, minted)
<1>1. CASE op = "update_profile"
    <2>1. row \in Row /\ Coherent(row) BY DEF AccountInv, TypeOK, CopiesCoherent
    <2>2. e = Answer(row, TRUE, "none") BY <1>1 DEF EditsOf, update_profile, Edit
    <2> QED BY <2>1, <2>2, EditFits
<1>2. CASE op = "change_password" BY <1>2, ChangePasswordFits DEF EditsOf
<1>3. CASE op = "setup_totp"      BY <1>3, SetupFits DEF EditsOf
<1>4. CASE op = "enable_totp"     BY <1>4, EnableFits DEF EditsOf
<1>5. CASE op = "disable_totp"    BY <1>5, DisableFits DEF EditsOf
<1>6. CASE op = "logout"          BY <1>6, RevokeFits DEF EditsOf
<1> QED BY <1>1, <1>2, <1>3, <1>4, <1>5, <1>6 DEF AuthedOps

LEMMA ActivateFits ==
    ASSUME AccountInv, NEW p \in Passwords,
           NEW e, e = Edit([row EXCEPT !.password = p, !.active = TRUE,
                                       !.activation = FALSE], "activated")
    PROVE  Fits(e, minted)
<1>1. row \in Row /\ Coherent(row) BY DEF AccountInv, TypeOK, CopiesCoherent
<1>2. PICK v : v = [[[row EXCEPT !.password = p] EXCEPT !.active = TRUE]
                          EXCEPT !.activation = FALSE]
    OBVIOUS
<1>3. e = Answer(v, TRUE, "activated")
    <2>1. [row EXCEPT !.password = p, !.active = TRUE, !.activation = FALSE] = v
        BY <1>2
    <2> QED BY <2>1 DEF Edit
<1>4. v \in Row
    <2>1. [row EXCEPT !.password = p] \in Row BY <1>1 DEF Row
    <2>2. \A x \in Row : [x EXCEPT !.active = TRUE] \in Row BY DEF Row
    <2>3. \A x \in Row : [x EXCEPT !.activation = FALSE] \in Row BY DEF Row
    <2> QED BY <1>2, <2>1, <2>2, <2>3
<1>5. /\ v.version = row.version /\ v.reset = row.reset
      /\ v.totp = row.totp /\ v.secret = row.secret
      /\ v.lock = row.lock /\ v.failed = row.failed
    BY <1>1, <1>2 DEF Row
<1>6. Coherent(v) BY <1>1, <1>5 DEF Coherent
<1>7. "activated" \in Outcomes BY DEF Outcomes
<1>8. row.reset <= minted /\ (~overlapped => row.reset \notin spent)
    BY DEF AccountInv, ResetsMinted, Isolated
<1> QED BY <1>3, <1>4, <1>5, <1>6, <1>7, <1>8, AnswerFits

LEMMA ForgotFits ==
    ASSUME AccountInv, minted < MaxFresh,
           NEW e, e = Edit([row EXCEPT !.reset = minted + 1], "mail")
    PROVE  Fits(e, minted + 1)
<1>1. row \in Row /\ Coherent(row) /\ minted \in Mint
    BY DEF AccountInv, TypeOK, CopiesCoherent
<1>2. minted + 1 \in Mint BY <1>1, AccountAssumption DEF Mint
<1>3. PICK v : v = [row EXCEPT !.reset = minted + 1] OBVIOUS
<1>4. e = Answer(v, TRUE, "mail") BY <1>3 DEF Edit
<1>5. v \in Row BY <1>1, <1>2, <1>3 DEF Row
<1>6. /\ v.version = row.version /\ v.reset = minted + 1
      /\ v.password = row.password /\ v.active = row.active
      /\ v.totp = row.totp /\ v.secret = row.secret
      /\ v.lock = row.lock /\ v.failed = row.failed
    BY <1>1, <1>3 DEF Row
<1>7. Coherent(v) BY <1>1, <1>6 DEF Coherent
<1>8. minted + 1 \notin spent /\ v.reset <= minted + 1
    BY <1>1, <1>6 DEF AccountInv, ResetsMinted, Mint
<1>9. "mail" \in Outcomes BY DEF Outcomes
<1> QED BY <1>4, <1>5, <1>6, <1>7, <1>8, <1>9, AnswerFits

LEMMA ResetFits ==
    ASSUME AccountInv, NEW p \in Passwords,
           NEW e, e = Edit([row EXCEPT !.password = p, !.reset = 0,
                                       !.version = @ + 1], "reset")
    PROVE  Fits(e, minted)
<1>1. row \in Row /\ Coherent(row) BY DEF AccountInv, TypeOK, CopiesCoherent
<1>2. PICK v : v = [[[row EXCEPT !.password = p] EXCEPT !.reset = 0]
                          EXCEPT !.version = row.version + 1]
    OBVIOUS
<1>3. e = Answer(v, TRUE, "reset")
    <2>1. [row EXCEPT !.password = p, !.reset = 0, !.version = @ + 1] = v
        BY <1>1, <1>2 DEF Row
    <2> QED BY <2>1 DEF Edit
<1>4. v \in Row
    <2>1. [row EXCEPT !.password = p] \in Row BY <1>1 DEF Row
    <2>2. \A x \in Row : [x EXCEPT !.reset = 0] \in Row
        BY AccountAssumption DEF Row, Mint
    <2>3. \A x \in Row, n \in Nat : [x EXCEPT !.version = n] \in Row BY DEF Row
    <2>4. row.version + 1 \in Nat BY <1>1 DEF Row
    <2> QED BY <1>2, <2>1, <2>2, <2>3, <2>4
<1>5. /\ v.version = row.version + 1 /\ v.active = row.active /\ v.reset = 0
      /\ v.totp = row.totp /\ v.secret = row.secret
      /\ v.lock = row.lock /\ v.failed = row.failed
    BY <1>1, <1>2 DEF Row
<1>6. Coherent(v) BY <1>1, <1>5 DEF Coherent
<1>7. Fits(Answer(v, TRUE, "reset"), minted) BY <1>4, <1>5, <1>6, RevokingFits
<1> QED BY <1>3, <1>7

LEMMA SetActiveFits ==
    ASSUME AccountInv, NEW b \in BOOLEAN, NEW e \in SetActive(row, b)
    PROVE  Fits(e, minted)
<1>1. row \in Row /\ Coherent(row) BY DEF AccountInv, TypeOK, CopiesCoherent
<1>2. PICK v : v = [row EXCEPT !.active = b] OBVIOUS
<1>3. e = Answer(v, TRUE, "toggled") BY <1>2 DEF SetActive, Edit
<1>4. v \in Row BY <1>1, <1>2 DEF Row
<1>5. /\ v.version = row.version /\ v.reset = row.reset /\ v.password = row.password
      /\ v.totp = row.totp /\ v.secret = row.secret
      /\ v.lock = row.lock /\ v.failed = row.failed
    BY <1>1, <1>2 DEF Row
<1>6. Coherent(v) BY <1>1, <1>5 DEF Coherent
<1> QED BY <1>3, <1>4, <1>5, <1>6
        DEF Answer, Fits, Loaded, Outcomes, Agrees, AccountInv, Isolated, ResetsMinted

------------------------------------------------------------------------------
(* What the steps do to the other requests. *)

(* Requests that take up or drop something else than a copy; the row stays. *)
LEMMA QuietKeeps ==
    ASSUME AccountInv,
           req' \in [Requests -> Request],
           \A x \in Requests : req'[x].at = "loaded" => req'[x] = req[x],
           IsFiniteSet(sessions'),
           \A s \in sessions' : /\ s \in Session
                                /\ \E t \in sessions : s.version = t.version /\ s.epoch = t.epoch,
           left' \in 0 .. Budget,
           UNCHANGED <<row, challenges, mailed, minted, epoch, spent, told, overlapped>>
    PROVE  AccountInv'
<1>1. TypeOK' BY DEF AccountInv, TypeOK
<1>2. \A x \in Requests : Holding(x)' => Holding(x) /\ req'[x] = req[x]
    BY DEF Holding
<1>3. CopiesCoherent' BY <1>2 DEF AccountInv, CopiesCoherent, Coherent
<1>4. ResetsMinted' BY <1>2 DEF AccountInv, ResetsMinted
<1>5. ~overlapped' => Isolated'
    <2> SUFFICES ASSUME ~overlapped PROVE Isolated' OBVIOUS
    <2>1. Isolated BY DEF AccountInv
    <2>2. \A x \in Requests : Holding(x)' => Agrees(req[x])'
        BY <1>2, <2>1 DEF Isolated, Agrees
    <2> QED BY <2>1, <2>2 DEF Isolated
<1> QED BY <1>1, <1>3, <1>4, <1>5 DEF AccountInv

(* A request takes up a copy that fits. *)
LEMMA HoldKeeps ==
    ASSUME AccountInv, NEW r \in Requests, NEW e, Fits(e, minted'),
           minted' \in Mint, minted <= minted', left' \in 0 .. Budget,
           req' = [req EXCEPT ![r] = e],
           UNCHANGED <<row, sessions, challenges, mailed, epoch, spent, told, overlapped>>
    PROVE  AccountInv'
<1>1. req \in [Requests -> Request] /\ minted \in Mint BY DEF AccountInv, TypeOK
<1>2. e \in Request BY DEF Fits, Loaded, Request
<1>3. req' \in [Requests -> Request] BY <1>1, <1>2
<1>4. TypeOK' BY <1>3 DEF AccountInv, TypeOK
<1>5. \A x \in Requests : Holding(x)' => \/ req'[x] = e
                                         \/ Holding(x) /\ req'[x] = req[x]
    BY <1>1 DEF Holding
<1>6. CopiesCoherent' BY <1>5 DEF AccountInv, CopiesCoherent, Coherent, Fits
<1>7. ResetsMinted'
    <2>1. \A x \in Requests : Holding(x) => req[x].row.reset \in Mint
        BY <1>1, RequestShapes DEF Holding, Loaded, Row
    <2>2. row.reset \in Mint BY DEF AccountInv, TypeOK, Row
    <2>3. row.reset <= minted' BY <1>1, <2>2 DEF AccountInv, ResetsMinted, Mint
    <2>4. spent \subseteq 1 .. minted' BY <1>1 DEF AccountInv, ResetsMinted, Mint
    <2>5. ASSUME NEW x \in Requests, Holding(x)' PROVE req'[x].row.reset <= minted'
        <3>1. CASE req'[x] = e BY <3>1 DEF Fits
        <3>2. CASE Holding(x) /\ req'[x] = req[x]
            <4>1. req[x].row.reset <= minted BY <3>2 DEF AccountInv, ResetsMinted
            <4> QED BY <1>1, <2>1, <3>2, <4>1 DEF Mint
        <3> QED BY <1>5, <2>5, <3>1, <3>2
    <2> QED BY <2>3, <2>4, <2>5 DEF ResetsMinted
<1>8. ~overlapped' => Isolated'
    <2> SUFFICES ASSUME ~overlapped PROVE Isolated' OBVIOUS
    <2>1. Isolated BY DEF AccountInv
    <2>2. Agrees(e) BY DEF Fits
    <2>3. \A x \in Requests : Holding(x)' => Agrees(req[x])'
        BY <1>5, <2>1, <2>2 DEF Isolated, Agrees
    <2> QED BY <2>1, <2>3 DEF Isolated
<1> QED BY <1>4, <1>6, <1>7, <1>8 DEF AccountInv

(* A refusal or a copy that fits. *)
LEMMA LoadKeeps ==
    ASSUME AccountInv, NEW r \in Requests, NEW edits,
           \A e \in edits : Fits(e, minted'), Load(r, edits),
           minted' \in Mint, minted <= minted', left' \in 0 .. Budget,
           edits = {} => minted' = minted
    PROVE  AccountInv'
<1>1. CASE edits = {}
    <2>1. req' = [req EXCEPT ![r] = Idle] BY <1>1 DEF Load
    <2>2. req \in [Requests -> Request] BY DEF AccountInv, TypeOK
    <2>3. req' \in [Requests -> Request] BY <2>1, <2>2 DEF Request
    <2>4. \A x \in Requests : req'[x].at = "loaded" => req'[x] = req[x]
        BY <2>1, <2>2 DEF Idle
    <2>5. UNCHANGED <<row, sessions, challenges, mailed, epoch, spent, told, overlapped>>
        BY DEF Load
    <2>6. \A s \in sessions : s \in Session BY DEF AccountInv, TypeOK
    <2>7. IsFiniteSet(sessions) BY DEF AccountInv
    <2> QED BY <1>1, <2>3, <2>4, <2>5, <2>6, <2>7, QuietKeeps
<1>2. CASE edits # {}
    <2>1. PICK e \in edits : req' = [req EXCEPT ![r] = e] BY <1>2 DEF Load
    <2>2. UNCHANGED <<row, sessions, challenges, mailed, epoch, spent, told, overlapped>>
        BY DEF Load
    <2> QED BY <2>1, <2>2, HoldKeeps
<1> QED BY <1>1, <1>2

------------------------------------------------------------------------------
(* A store that met no copy of another request makes the others agree. *)

LEMMA StoreTypes ==
    ASSUME AccountInv, NEW r \in Requests, Store(r)
    PROVE  /\ req[r] \in Loaded /\ req[r].row \in Row
           /\ row' \in Row /\ Coherent(row') /\ row'.reset <= minted
           /\ req' \in [Requests -> Request]
           /\ \A x \in Requests : Holding(x)' => x # r /\ Holding(x) /\ req'[x] = req[x]
<1>1. req \in [Requests -> Request] /\ Holding(r) BY DEF AccountInv, TypeOK, Store
<1>2. req[r] \in Loaded BY <1>1, RequestShapes DEF Holding
<1>3. req[r].row \in Row BY <1>2 DEF Loaded
<1>4. row' = req[r].row \/ row' = row BY DEF Store, update
<1>5. row \in Row /\ Coherent(row) /\ row.reset <= minted
    BY DEF AccountInv, TypeOK, CopiesCoherent, ResetsMinted
<1>6. Coherent(req[r].row) /\ req[r].row.reset <= minted
    BY <1>1 DEF AccountInv, CopiesCoherent, ResetsMinted
<1>7. row' \in Row /\ Coherent(row') /\ row'.reset <= minted
    BY <1>3, <1>4, <1>5, <1>6
<1>8. PICK q : /\ req' = [req EXCEPT ![r] = q]
               /\ q = IF req[r].out = "activated"
                      THEN [at |-> "signin", password |-> req[r].row.password] ELSE Idle
    BY DEF Store
<1>9. q \in Request /\ q.at # "loaded"
    <2>1. CASE req[r].out = "activated"
        <3>1. req[r].row.password \in Passwords BY <1>3 DEF Row
        <3> QED BY <1>8, <2>1, <3>1 DEF Request
    <2>2. CASE req[r].out # "activated" BY <1>8, <2>2 DEF Request, Idle
    <2> QED BY <2>1, <2>2
<1> QED BY <1>1, <1>2, <1>3, <1>7, <1>8, <1>9 DEF Holding

LEMMA StoreSessions ==
    ASSUME AccountInv, NEW r \in Requests, Store(r)
    PROVE  /\ IsFiniteSet(sessions')
           /\ \A s \in sessions' :
                  /\ s \in Session
                  /\ \/ s \in sessions
                     \/ /\ req[r].out = "session"
                        /\ s.version = req[r].row.version /\ s.epoch = epoch
<1>1. IsFiniteSet(sessions) /\ \A s \in sessions : s \in Session
    BY DEF AccountInv, TypeOK
<1>2. CASE req[r].out = "session" /\ Cardinality(sessions) < MaxSessions
    <2>1. PICK t : t = [id |-> Cardinality(sessions) + 1,
                        version |-> req[r].row.version, epoch |-> epoch, out |-> FALSE]
        OBVIOUS
    <2>2. sessions' = sessions \cup {t} BY <1>2, <2>1 DEF Store, _issue_tokens
    <2>3. Cardinality(sessions) + 1 \in Nat BY <1>1, FS_CardinalityType
    <2>4. req[r].row.version \in Nat /\ epoch \in Nat
        BY StoreTypes DEF Row, AccountInv, TypeOK
    <2>5. t \in Session BY <2>1, <2>3, <2>4 DEF Session
    <2>6. t.version = req[r].row.version /\ t.epoch = epoch BY <2>1
    <2>7. IsFiniteSet(sessions') BY <1>1, <2>2, FS_AddElement
    <2> QED BY <1>1, <1>2, <2>2, <2>5, <2>6, <2>7
<1>3. CASE ~(req[r].out = "session" /\ Cardinality(sessions) < MaxSessions)
    <2>1. sessions' = sessions BY <1>3 DEF Store, _issue_tokens
    <2> QED BY <1>1, <2>1
<1> QED BY <1>2, <1>3

LEMMA StoreKeeps ==
    ASSUME AccountInv, NEW r \in Requests, Store(r)
    PROVE  AccountInv'
<1>1. /\ req[r] \in Loaded /\ req[r].row \in Row /\ Holding(r)
      /\ row' \in Row /\ Coherent(row') /\ row'.reset <= minted
      /\ req' \in [Requests -> Request]
      /\ \A x \in Requests : Holding(x)' => x # r /\ Holding(x) /\ req'[x] = req[x]
    BY StoreTypes DEF Store
<1>2. /\ IsFiniteSet(sessions')
      /\ \A s \in sessions' :
             /\ s \in Session
             /\ \/ s \in sessions
                \/ /\ req[r].out = "session"
                   /\ s.version = req[r].row.version /\ s.epoch = epoch
    BY StoreSessions
<1>3. /\ req[r].out \in Outcomes /\ req[r].write \in BOOLEAN
      /\ req[r].row.reset \in Mint /\ req[r].row.version \in Nat
      /\ req[r].row.password \in Passwords /\ req[r].row.active \in BOOLEAN
    BY <1>1 DEF Loaded, Row
<1>4. row \in Row /\ row.reset \in Mint /\ row.reset <= minted /\ row.version \in Nat
    BY DEF AccountInv, TypeOK, ResetsMinted, Row
<1>5. spent \subseteq 1 .. minted /\ spent \subseteq Mint /\ minted \in Mint
    BY DEF AccountInv, TypeOK, ResetsMinted
<1>6. spent' \subseteq 1 .. minted /\ spent' \subseteq Mint
    BY <1>4, <1>5 DEF Store, Mint
<1>7. TypeOK'
    <2>1. challenges' \in BOOLEAN BY DEF AccountInv, TypeOK, Store
    <2>2. mailed' \subseteq Mint BY <1>3 DEF AccountInv, TypeOK, Store
    <2>3. epoch' \in Nat BY DEF AccountInv, TypeOK, Store
    <2>4. told' \in [password: Passwords, active: BOOLEAN]
        <3>1. told.password \in Passwords /\ told.active \in BOOLEAN
            BY DEF AccountInv, TypeOK
        <3> QED BY <1>3, <3>1 DEF Store
    <2>5. overlapped' \in BOOLEAN BY <1>3 DEF AccountInv, TypeOK, Store
    <2>6. minted' \in Mint /\ left' \in 0 .. Budget BY DEF AccountInv, TypeOK, Store
    <2> QED BY <1>1, <1>2, <1>6, <2>1, <2>2, <2>3, <2>4, <2>5, <2>6 DEF TypeOK
<1>8. CopiesCoherent' BY <1>1 DEF AccountInv, CopiesCoherent, Coherent
<1>9. ResetsMinted'
    <2>1. minted' = minted BY DEF Store
    <2> QED BY <1>1, <1>6, <2>1 DEF AccountInv, ResetsMinted
<1>10. ~overlapped' => Isolated'
    <2> SUFFICES ASSUME ~overlapped' PROVE Isolated' OBVIOUS
    <2>1. ~overlapped /\ (req[r].write => \A q \in Requests \ {r} : ~Holding(q))
        BY DEF Store
    <2>2. Isolated /\ Agrees(req[r]) BY <1>1, <2>1 DEF AccountInv, Isolated
    <2>3. CASE req[r].write
        <3>1. row' = req[r].row BY <2>3 DEF Store, update
        <3>2. \A x \in Requests : ~Holding(x)' BY <1>1, <2>1, <2>3
        <3>3. told' = [password |-> row'.password, active |-> row'.active]
            <4>1. told.password = row.password /\ told.active = row.active
                BY <2>2 DEF Isolated
            <4>2. req[r].out \notin {"revoke", "reset", "activated"}
                    => row'.password = row.password
                BY <2>2, <3>1 DEF Agrees
            <4>3. req[r].out \notin {"toggled", "activated"} => row'.active = row.active
                BY <2>2, <3>1 DEF Agrees
            <4> QED BY <3>1, <4>1, <4>2, <4>3 DEF Store
        <3>4. row'.reset \notin spent'
            <4>1. row'.reset \notin spent /\ (req[r].out = "reset" => row'.reset = 0)
                BY <2>2, <3>1 DEF Agrees
            <4>2. 0 \notin spent' BY <1>6
            <4>3. req[r].out # "reset" => spent' = spent BY DEF Store
            <4> QED BY <4>1, <4>2, <4>3
        <3>5. ASSUME NEW s \in sessions'
              PROVE  s.version <= row'.version
                     /\ (s.version = row'.version => s.epoch = epoch')
            <4>1. \A t \in sessions : /\ t.version \in Nat /\ t.version <= row.version
                                      /\ t.version = row.version => t.epoch = epoch
                BY <2>2 DEF Isolated, AccountInv, TypeOK, Session
            <4>2. CASE req[r].out \in {"revoke", "reset"}
                <5>1. row'.version = row.version + 1 BY <2>2, <3>1, <4>2 DEF Agrees
                <5>2. s \in sessions BY <1>2, <4>2
                <5> QED BY <1>4, <4>1, <5>1, <5>2
            <4>3. CASE req[r].out \notin {"revoke", "reset"}
                <5>1. row'.version = row.version BY <2>2, <3>1, <4>3 DEF Agrees
                <5>2. epoch' = epoch BY <4>3 DEF Store
                <5>3. CASE s \in sessions BY <4>1, <5>1, <5>2, <5>3
                <5>4. CASE s \notin sessions
                    <6>1. s.version = row'.version /\ s.epoch = epoch BY <1>2, <3>1, <5>4
                    <6> QED BY <1>4, <5>1, <5>2, <6>1
                <5> QED BY <5>3, <5>4
            <4> QED BY <4>2, <4>3
        <3> QED BY <3>2, <3>3, <3>4, <3>5 DEF Isolated
    <2>4. CASE ~req[r].write
        <3>1. row' = row /\ req[r].out \in {"session", "challenge"}
            BY <2>2, <2>4 DEF Store, update, Agrees
        <3>2. spent' = spent /\ epoch' = epoch BY <3>1 DEF Store
        <3>3. told' = told
            <4>1. told = [password |-> told.password, active |-> told.active]
                BY DEF AccountInv, TypeOK
            <4> QED BY <3>1, <4>1 DEF Store
        <3>4. \A x \in Requests : Holding(x)' => Agrees(req[x])'
            BY <1>1, <2>2, <3>1, <3>2 DEF Isolated, Agrees
        <3>5. \A s \in sessions' : /\ s.version <= row.version
                                   /\ s.version = row.version => s.epoch = epoch
            <4>1. req[r].row.version = row.version BY <2>2, <3>1 DEF Agrees
            <4> QED BY <1>2, <1>4, <2>2, <4>1 DEF Isolated
        <3> QED BY <2>2, <3>1, <3>2, <3>3, <3>4, <3>5 DEF Isolated
    <2> QED BY <1>3, <2>3, <2>4
<1> QED BY <1>2, <1>7, <1>8, <1>9, <1>10 DEF AccountInv

LEMMA LapsedRow ==
    ASSUME NEW u \in Row, Coherent(u)
    PROVE  /\ Lapse(u) \in Row /\ Coherent(Lapse(u))
           /\ Lapse(u).version = u.version /\ Lapse(u).password = u.password
           /\ Lapse(u).active = u.active /\ Lapse(u).reset = u.reset
<1>1. PICK k : k = IF u.lock = "set" THEN "over" ELSE u.lock OBVIOUS
<1>2. k \in {"none", "over"} BY <1>1 DEF Row
<1>3. Lapse(u) = [u EXCEPT !.lock = k] BY <1>1 DEF Lapse, Row
<1>4. /\ Lapse(u).lock = k /\ Lapse(u).totp = u.totp /\ Lapse(u).secret = u.secret
      /\ Lapse(u).version = u.version /\ Lapse(u).password = u.password
      /\ Lapse(u).active = u.active /\ Lapse(u).reset = u.reset
    BY <1>3 DEF Row
<1>5. Coherent(Lapse(u)) BY <1>2, <1>4 DEF Coherent
<1>6. Lapse(u) \in Row BY <1>2, <1>3 DEF Row
<1> QED BY <1>4, <1>5, <1>6

LEMMA LapseKeeps ==
    ASSUME AccountInv, LockExpires
    PROVE  AccountInv'
<1>1. row \in Row /\ Coherent(row) BY DEF AccountInv, TypeOK, CopiesCoherent
<1>2. /\ row' \in Row /\ Coherent(row')
      /\ row'.version = row.version /\ row'.password = row.password
      /\ row'.active = row.active /\ row'.reset = row.reset
    BY <1>1, LapsedRow DEF LockExpires
<1>3. UNCHANGED <<sessions, challenges, mailed, minted, left, epoch, spent, told, overlapped>>
    BY DEF LockExpires
<1>4. ASSUME NEW x \in Requests
      PROVE  /\ req'[x] \in Request
             /\ ~Holding(x) => ~Holding(x)'
             /\ Holding(x) => /\ Coherent(req'[x].row)
                              /\ req'[x].write = req[x].write /\ req'[x].out = req[x].out
                              /\ req'[x].row.version = req[x].row.version
                              /\ req'[x].row.password = req[x].row.password
                              /\ req'[x].row.active = req[x].row.active
                              /\ req'[x].row.reset = req[x].row.reset
    <2>1. req[x] \in Request BY DEF AccountInv, TypeOK
    <2>2. CASE ~Holding(x)
        <3>1. req'[x] = req[x] BY <2>2 DEF LockExpires
        <3> QED BY <2>1, <2>2, <3>1 DEF Holding
    <2>3. CASE Holding(x)
        <3>1. req[x] \in Loaded BY <2>1, <2>3, RequestShapes DEF Holding
        <3>2. req[x].row \in Row /\ Coherent(req[x].row)
            BY <2>3, <3>1 DEF Loaded, AccountInv, CopiesCoherent
        <3>3. PICK u : u = Lapse(req[x].row) OBVIOUS
        <3>4. /\ u \in Row /\ Coherent(u)
              /\ u.version = req[x].row.version /\ u.password = req[x].row.password
              /\ u.active = req[x].row.active /\ u.reset = req[x].row.reset
            BY <3>2, <3>3, LapsedRow
        <3>5. req'[x] = [req[x] EXCEPT !.row = u]
            BY <2>3, <3>1, <3>3 DEF LockExpires, Loaded
        <3>6. /\ req'[x].row = u
              /\ req'[x].write = req[x].write /\ req'[x].out = req[x].out
              /\ req'[x] \in Loaded
            BY <3>1, <3>4, <3>5 DEF Loaded
        <3> QED BY <2>3, <3>4, <3>6 DEF Request, Loaded
    <2> QED BY <2>2, <2>3
<1>5. req' \in [Requests -> Request]
    <2>1. req' = [r \in Requests |->
                     IF Holding(r) THEN [req[r] EXCEPT !.row = Lapse(@)] ELSE req[r]]
        BY DEF LockExpires
    <2>2. \A x \in Requests : req'[x] \in Request BY <1>4
    <2> QED BY <2>1, <2>2
<1>6. TypeOK' BY <1>2, <1>3, <1>5 DEF AccountInv, TypeOK
<1>7. CopiesCoherent' BY <1>2, <1>4 DEF CopiesCoherent, Coherent
<1>8. ResetsMinted' BY <1>2, <1>3, <1>4 DEF AccountInv, ResetsMinted
<1>9. ~overlapped' => Isolated'
    <2> SUFFICES ASSUME ~overlapped PROVE Isolated' BY <1>3
    <2>1. Isolated BY DEF AccountInv
    <2>2. ASSUME NEW x \in Requests, Holding(x)' PROVE Agrees(req[x])'
        <3>1. Holding(x) /\ Agrees(req[x]) BY <1>4, <2>1, <2>2 DEF Isolated
        <3> QED BY <1>2, <1>3, <1>4, <3>1 DEF Agrees
    <2> QED BY <1>2, <1>3, <2>1, <2>2 DEF Isolated
<1> QED BY <1>3, <1>6, <1>7, <1>8, <1>9 DEF AccountInv

------------------------------------------------------------------------------
(* The steps that go on to the first read of the handler. *)

LEMMA PaidLeft ==
    ASSUME AccountInv, Pay
    PROVE  left' \in 0 .. Budget
BY AccountAssumption DEF AccountInv, TypeOK, Pay

LEMMA AdmitKeeps ==
    ASSUME AccountInv, NEW r \in Requests, NEW op \in AuthedOps, Admit(r, op)
    PROVE  AccountInv'
<1>1. PICK q : q = [at |-> "admitted", op |-> op] OBVIOUS
<1>2. q \in Request /\ q.at = "admitted" BY <1>1 DEF Request
<1>3. req \in [Requests -> Request] /\ req' = [req EXCEPT ![r] = q]
    BY <1>1 DEF AccountInv, TypeOK, Admit
<1>4. /\ req' \in [Requests -> Request]
      /\ \A x \in Requests : req'[x].at = "loaded" => req'[x] = req[x]
    BY <1>2, <1>3
<1>5. left' \in 0 .. Budget BY PaidLeft DEF Admit
<1>6. UNCHANGED <<row, sessions, challenges, mailed, minted, epoch, spent, told, overlapped>>
    BY DEF Admit
<1>7. IsFiniteSet(sessions) /\ \A s \in sessions : s \in Session
    BY DEF AccountInv, TypeOK
<1> QED BY <1>4, <1>5, <1>6, <1>7, QuietKeeps

LEMMA LogoutKeeps ==
    ASSUME AccountInv, NEW r \in Requests, logout(r)
    PROVE  AccountInv'
<1>1. PICK q : q = [at |-> "admitted", op |-> "logout"] OBVIOUS
<1>2. q \in Request /\ q.at = "admitted" BY <1>1 DEF Request, AuthedOps
<1>3. req \in [Requests -> Request] /\ req' = [req EXCEPT ![r] = q]
    BY <1>1 DEF AccountInv, TypeOK, logout
<1>4. /\ req' \in [Requests -> Request]
      /\ \A x \in Requests : req'[x].at = "loaded" => req'[x] = req[x]
    BY <1>2, <1>3
<1>5. left' \in 0 .. Budget BY PaidLeft DEF logout
<1>6. UNCHANGED <<row, challenges, mailed, minted, epoch, spent, told, overlapped>>
    BY DEF logout
<1>7. IsFiniteSet(sessions) /\ \A s \in sessions : s \in Session
    BY DEF AccountInv, TypeOK
<1>8. PICK s \in sessions, kept \in BOOLEAN :
          sessions' = (sessions \ {s}) \cup {blacklist_token(s, kept)}
    BY DEF logout
<1>9. PICK t : t = blacklist_token(s, kept) OBVIOUS
<1>10. t \in Session /\ t.version = s.version /\ t.epoch = s.epoch
    BY <1>7, <1>9 DEF blacklist_token, Session
<1>11. IsFiniteSet(sessions')
    <2>1. IsFiniteSet(sessions \ {s}) BY <1>7, FS_Subset
    <2> QED BY <1>8, <2>1, FS_AddElement
<1>12. \A x \in sessions' : /\ x \in Session
                            /\ \E y \in sessions : x.version = y.version /\ x.epoch = y.epoch
    BY <1>7, <1>8, <1>9, <1>10
<1> QED BY <1>4, <1>5, <1>6, <1>11, <1>12, QuietKeeps

LEMMA RefreshKeeps ==
    ASSUME AccountInv, NEW r \in Requests, refresh(r)
    PROVE  AccountInv'
<1>1. PICK s \in sessions :
          /\ s.version = row.version
          /\ sessions' = sessions \cup
                {[id |-> Cardinality(sessions) + 1, version |-> row.version,
                  epoch |-> s.epoch, out |-> FALSE]}
    BY DEF refresh, refresh_access_token
<1>2. PICK t : t = [id |-> Cardinality(sessions) + 1, version |-> row.version,
                    epoch |-> s.epoch, out |-> FALSE]
    OBVIOUS
<1>3. IsFiniteSet(sessions) /\ \A x \in sessions : x \in Session
    BY DEF AccountInv, TypeOK
<1>4. Cardinality(sessions) + 1 \in Nat BY <1>3, FS_CardinalityType
<1>5. s.version \in Nat /\ s.epoch \in Nat BY <1>3 DEF Session
<1>6. t \in Session /\ t.version = s.version /\ t.epoch = s.epoch
    BY <1>1, <1>2, <1>4, <1>5 DEF Session
<1>7. sessions' = sessions \cup {t} BY <1>1, <1>2
<1>8. IsFiniteSet(sessions') BY <1>3, <1>7, FS_AddElement
<1>9. req' \in [Requests -> Request] /\ req' = req BY DEF AccountInv, TypeOK, refresh
<1>10. left' \in 0 .. Budget BY PaidLeft DEF refresh
<1>11. UNCHANGED <<row, challenges, mailed, minted, epoch, spent, told, overlapped>>
    BY DEF refresh
<1>12. \A x \in sessions' : /\ x \in Session
                            /\ \E y \in sessions : x.version = y.version /\ x.epoch = y.epoch
    BY <1>3, <1>6, <1>7
<1> QED BY <1>8, <1>9, <1>10, <1>11, <1>12, QuietKeeps

LEMMA AbandonKeeps ==
    ASSUME AccountInv, NEW r \in Requests, Abandon(r)
    PROVE  AccountInv'
<1>1. req \in [Requests -> Request] /\ req' = [req EXCEPT ![r] = Idle]
    BY DEF AccountInv, TypeOK, Abandon
<1>2. Idle \in Request /\ Idle.at # "loaded" BY DEF Request, Idle
<1>3. /\ req' \in [Requests -> Request]
      /\ \A x \in Requests : req'[x].at = "loaded" => req'[x] = req[x]
    BY <1>1, <1>2
<1>4. left' \in 0 .. Budget BY PaidLeft DEF Abandon
<1>5. UNCHANGED <<row, sessions, challenges, mailed, minted, epoch, spent, told, overlapped>>
    BY DEF Abandon
<1>6. IsFiniteSet(sessions) /\ \A s \in sessions : s \in Session
    BY DEF AccountInv, TypeOK
<1> QED BY <1>3, <1>4, <1>5, <1>6, QuietKeeps

LEMMA LoadAdmittedKeeps ==
    ASSUME AccountInv, NEW r \in Requests, LoadAdmitted(r)
    PROVE  AccountInv'
<1>1. req[r].op \in AuthedOps
    BY RequestShapes DEF AccountInv, TypeOK, LoadAdmitted
<1>2. minted \in Mint /\ minted' \in {minted, minted + 1}
      /\ (minted' # minted => minted < MaxFresh)
    BY DEF AccountInv, TypeOK, LoadAdmitted
<1>3. minted' \in Mint /\ minted <= minted' BY <1>2, AccountAssumption DEF Mint
<1>4. left' \in 0 .. Budget BY DEF AccountInv, TypeOK, LoadAdmitted
<1>5. EditsOf(req[r].op, row) = {} => minted' = minted
    <2>1. req[r].op = "setup_totp" /\ ~row.totp /\ row.secret = 0 /\ minted < MaxFresh
            => EditsOf(req[r].op, row) # {}
        BY <1>2, AccountAssumption DEF EditsOf, setup_totp, Mint
    <2> QED BY <2>1 DEF LoadAdmitted
<1>6. ASSUME NEW e \in EditsOf(req[r].op, row) PROVE Fits(e, minted')
    <2>1. Fits(e, minted) BY <1>1, EditsFit
    <2>2. e.row.reset \in Mint BY <2>1 DEF Fits, Loaded, Row
    <2>3. e.row.reset <= minted' BY <1>2, <1>3, <2>1, <2>2 DEF Fits, Mint
    <2> QED BY <2>1, <2>3 DEF Fits
<1>7. Load(r, EditsOf(req[r].op, row)) BY DEF LoadAdmitted
<1> QED BY <1>3, <1>4, <1>5, <1>6, <1>7, LoadKeeps

(* A load that mints nothing. *)
LEMMA PlainLoadKeeps ==
    ASSUME AccountInv, NEW r \in Requests, NEW edits, \A e \in edits : Fits(e, minted),
           Load(r, edits), UNCHANGED minted, left' \in 0 .. Budget
    PROVE  AccountInv'
<1>1. minted \in Mint BY DEF AccountInv, TypeOK
<1>2. minted' \in Mint /\ minted <= minted' BY <1>1 DEF Mint
<1>3. \A e \in edits : Fits(e, minted') OBVIOUS
<1> QED BY <1>2, <1>3, LoadKeeps

LEMMA SignInKeeps ==
    ASSUME AccountInv, NEW r \in Requests,
           OwnerLogin(r) \/ login(r) \/ verify_2fa(r) \/ SignInActivated(r)
    PROVE  AccountInv'
<1>1. row \in Row /\ left \in 0 .. Budget BY DEF AccountInv, TypeOK
<1>2. CASE OwnerLogin(r)
    <2>1. row.password \in Passwords BY <1>1 DEF Row
    <2>2. \A e \in authenticate(row, row.password) : Fits(e, minted)
        BY <2>1, AuthenticateFits
    <2> QED BY <1>1, <1>2, <2>2, PlainLoadKeeps DEF OwnerLogin
<1>3. CASE login(r)
    <2>1. PICK p \in Passwords : Load(r, authenticate(row, p)) BY <1>3 DEF login
    <2>2. \A e \in authenticate(row, p) : Fits(e, minted) BY AuthenticateFits
    <2>3. left' \in 0 .. Budget /\ UNCHANGED minted BY <1>3, PaidLeft DEF login
    <2> QED BY <2>1, <2>2, <2>3, PlainLoadKeeps
<1>4. CASE verify_2fa(r)
    <2>1. PICK b \in BOOLEAN : Load(r, verify_totp(row, b)) BY <1>4 DEF verify_2fa
    <2>2. \A e \in verify_totp(row, b) : Fits(e, minted) BY VerifyFits
    <2>3. left' \in 0 .. Budget /\ UNCHANGED minted BY <1>4, PaidLeft DEF verify_2fa
    <2> QED BY <2>1, <2>2, <2>3, PlainLoadKeeps
<1>5. CASE SignInActivated(r)
    <2>1. req[r].password \in Passwords
        BY <1>5, RequestShapes DEF AccountInv, TypeOK, SignInActivated
    <2>2. \A e \in authenticate(row, req[r].password) : Fits(e, minted)
        BY <2>1, AuthenticateFits
    <2> QED BY <1>1, <1>5, <2>2, PlainLoadKeeps DEF SignInActivated
<1> QED BY <1>2, <1>3, <1>4, <1>5

LEMMA LinkKeeps ==
    ASSUME AccountInv, NEW r \in Requests,
           activate_account(r) \/ forgot_password(r) \/ reset_password(r)
    PROVE  AccountInv'
<1>1. CASE activate_account(r)
    <2>1. PICK edits : /\ Load(r, edits)
                       /\ edits = {Edit([row EXCEPT !.password = p, !.active = TRUE,
                                            !.activation = FALSE], "activated")
                                      : p \in Passwords}
        BY <1>1 DEF activate_account
    <2>2. \A e \in edits : Fits(e, minted) BY <2>1, ActivateFits
    <2>3. left' \in 0 .. Budget /\ UNCHANGED minted BY <1>1, PaidLeft DEF activate_account
    <2> QED BY <2>1, <2>2, <2>3, PlainLoadKeeps
<1>2. CASE forgot_password(r)
    <2>1. PICK e : e = Edit([row EXCEPT !.reset = minted + 1], "mail") OBVIOUS
    <2>2. minted < MaxFresh /\ minted' = minted + 1 /\ Load(r, {e})
        BY <1>2, <2>1 DEF forgot_password
    <2>3. Fits(e, minted') BY <2>1, <2>2, ForgotFits
    <2>4. minted \in Mint BY DEF AccountInv, TypeOK
    <2>5. minted' \in Mint /\ minted <= minted'
        BY <2>2, <2>4, AccountAssumption DEF Mint
    <2>6. left' \in 0 .. Budget BY <1>2, PaidLeft DEF forgot_password
    <2>7. \A x \in {e} : Fits(x, minted') BY <2>3
    <2> QED BY <2>2, <2>5, <2>6, <2>7, LoadKeeps
<1>3. CASE reset_password(r)
    <2>1. PICK edits : /\ Load(r, edits)
                       /\ edits = {Edit([row EXCEPT !.password = p, !.reset = 0,
                                            !.version = @ + 1], "reset")
                                      : p \in Passwords}
        BY <1>3 DEF reset_password
    <2>2. \A e \in edits : Fits(e, minted) BY <2>1, ResetFits
    <2>3. left' \in 0 .. Budget /\ UNCHANGED minted BY <1>3, PaidLeft DEF reset_password
    <2> QED BY <2>1, <2>2, <2>3, PlainLoadKeeps
<1> QED BY <1>1, <1>2, <1>3

LEMMA AdminKeeps ==
    ASSUME AccountInv, NEW r \in Requests,
           admin_activate_user(r) \/ admin_deactivate_user(r)
    PROVE  AccountInv'
<1>1. PICK b \in BOOLEAN : Load(r, SetActive(row, b)) /\ Pay /\ UNCHANGED minted
    BY DEF admin_activate_user, admin_deactivate_user
<1>2. \A e \in SetActive(row, b) : Fits(e, minted) BY SetActiveFits
<1>3. left' \in 0 .. Budget BY <1>1, PaidLeft
<1> QED BY <1>1, <1>2, <1>3, PlainLoadKeeps

LEMMA RouteKeeps ==
    ASSUME AccountInv, NEW r \in Requests, Route(r)
    PROVE  AccountInv'
<1>1. CASE login(r) \/ verify_2fa(r) BY <1>1, SignInKeeps
<1>2. CASE refresh(r) BY <1>2, RefreshKeeps
<1>3. CASE logout(r) BY <1>3, LogoutKeeps
<1>4. CASE \/ update_current_user_profile(r) \/ change_password(r)
           \/ setup_2fa(r) \/ enable_2fa(r) \/ disable_2fa(r)
    <2>1. PICK op \in AuthedOps : Admit(r, op)
        BY <1>4 DEF update_current_user_profile, change_password, setup_2fa,
                    enable_2fa, disable_2fa, AuthedOps
    <2> QED BY <2>1, AdmitKeeps
<1>5. CASE activate_account(r) \/ forgot_password(r) \/ reset_password(r)
    BY <1>5, LinkKeeps
<1>6. CASE admin_activate_user(r) \/ admin_deactivate_user(r) BY <1>6, AdminKeeps
<1> QED BY <1>1, <1>2, <1>3, <1>4, <1>5, <1>6 DEF Route

------------------------------------------------------------------------------
(* The invariant, and what it says of the account. *)

LEMMA InitAccount == Init => AccountInv
<1> SUFFICES ASSUME Init PROVE AccountInv OBVIOUS
<1>1. PICK p \in Passwords, a \in BOOLEAN, f \in BOOLEAN :
          /\ minted = IF f THEN 1 ELSE 0
          /\ row = [password |-> p, version |-> 0, failed |-> 0, lock |-> "none",
                    active |-> a, activation |-> ~a, reset |-> 0,
                    secret |-> minted, totp |-> f]
    BY DEF Init
<1>2. minted \in Mint BY <1>1, AccountAssumption DEF Mint
<1>3. 0 \in Mint /\ 0 \in 0 .. MaxAttempts BY AccountAssumption DEF Mint
<1>4. PICK b \in BOOLEAN : b = ~a OBVIOUS
<1>5. row = [password |-> p, version |-> 0, failed |-> 0, lock |-> "none",
             active |-> a, activation |-> b, reset |-> 0, secret |-> minted, totp |-> f]
    BY <1>1, <1>4
<1>6. row \in Row BY <1>2, <1>3, <1>5 DEF Row
<1>7. Coherent(row) BY <1>1, <1>5 DEF Coherent
<1>8. req \in [Requests -> Request] /\ \A r \in Requests : ~Holding(r)
    BY DEF Init, Request, Idle, Holding
<1>9. told \in [password: Passwords, active: BOOLEAN] BY <1>5 DEF Init
<1>10. left \in 0 .. Budget BY AccountAssumption DEF Init
<1>11. TypeOK BY <1>2, <1>6, <1>8, <1>9, <1>10 DEF Init, TypeOK
<1>12. IsFiniteSet(sessions) BY FS_EmptySet DEF Init
<1>13. CopiesCoherent BY <1>7, <1>8 DEF CopiesCoherent
<1>14. ResetsMinted BY <1>2, <1>5, <1>8 DEF Init, ResetsMinted, Mint
<1>15. Isolated BY <1>5, <1>8 DEF Init, Isolated
<1> QED BY <1>11, <1>12, <1>13, <1>14, <1>15 DEF AccountInv

LEMMA NextAccount == AccountInv /\ [Next]_vars => AccountInv'
<1> SUFFICES ASSUME AccountInv, [Next]_vars PROVE AccountInv' OBVIOUS
<1>1. ASSUME NEW r \in Requests, Route(r) PROVE AccountInv' BY <1>1, RouteKeeps
<1>2. ASSUME NEW r \in Requests, OwnerLogin(r) PROVE AccountInv' BY <1>2, SignInKeeps
<1>3. ASSUME NEW r \in Requests, Continue(r) PROVE AccountInv'
    BY <1>3, LoadAdmittedKeeps, SignInKeeps, StoreKeeps DEF Continue
<1>4. ASSUME NEW r \in Requests, Abandon(r) PROVE AccountInv' BY <1>4, AbandonKeeps
<1>5. CASE LockExpires BY <1>5, LapseKeeps
<1>6. CASE UNCHANGED vars
    <2>1. UNCHANGED <<row, sessions, challenges, mailed, minted, left, epoch, spent,
                      told, overlapped, req>>
        BY <1>6 DEF vars
    <2> QED BY <2>1 DEF AccountInv, TypeOK, CopiesCoherent, ResetsMinted, Isolated,
                        Coherent, Holding, Agrees
<1> QED BY <1>1, <1>2, <1>3, <1>4, <1>5, <1>6 DEF Next

LEMMA InvAccount == Spec => []AccountInv
BY InitAccount, NextAccount, PTL DEF Spec

(* Columns and copies keep their types: no count of failed attempts passes *)
(* MAX_LOGIN_ATTEMPTS, whatever concurrent attempts overwrite (user.py,     *)
(* auth_service.py).                                                        *)
THEOREM AccountTypeCorrect == Spec => []TypeOK
<1>1. AccountInv => TypeOK BY DEF AccountInv
<1> QED BY <1>1, InvAccount, PTL

(* No interleaving of stores of whole rows leaves 2FA on without a secret,  *)
(* or a locked account with a count.                                        *)
THEOREM RowsStayCoherent == Spec => []RowsCoherent
<1>1. AccountInv => RowsCoherent BY DEF AccountInv, CopiesCoherent, RowsCoherent, Copies
<1> QED BY <1>1, InvAccount, PTL

(* Until two requests overlap, a session issued before a logout, a password *)
(* change or a reset opens nothing, and a refresh does not bring it back.   *)
THEOREM RevocationHolds == Spec => []IsolatedRevocation
<1>1. AccountInv => IsolatedRevocation
    BY DEF AccountInv, IsolatedRevocation, Isolated, RevokedStaysRevoked, Usable
<1> QED BY <1>1, InvAccount, PTL

(* Until two requests overlap, a reset link that was accepted is spent.     *)
THEOREM LinksSpentOnce == Spec => []IsolatedLinks
<1>1. AccountInv => IsolatedLinks BY DEF AccountInv, IsolatedLinks, Isolated
<1> QED BY <1>1, InvAccount, PTL

(* Until two requests overlap, the password and the activity of the account *)
(* are the ones its requests acknowledged last.                             *)
THEOREM AcknowledgedEditsStand == Spec => []IsolatedEdits
<1>1. AccountInv => IsolatedEdits BY DEF AccountInv, IsolatedEdits, Isolated
<1> QED BY <1>1, InvAccount, PTL
==============================================================================
