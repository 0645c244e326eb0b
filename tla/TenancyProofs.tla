---------------------------- MODULE TenancyProofs ----------------------------
(***************************************************************************)
(* For any number of requests, accounts and organizations: the keys of the *)
(* tables hold, and nobody gets into an organization that did not take him *)
(* in; and as long as requests run one at a time and to their end, members *)
(* are where they are active and owners are members.                       *)
(***************************************************************************)
EXTENDS Tenancy, FiniteSetTheorems, SequenceTheorems, TLAPS

Made == {"user.create", "user.update", "user.switch", "user.delete",
         "org.create", "org.update", "org.delete", "request.create",
         "member.create", "member.role", "member.delete", "member.deleteAll"}

Call ==
    [do: {"user.create", "user.update", "user.switch", "fallback"},
     u: Users, row: Row]
    \cup [do: {"user.delete", "member.deleteAll", "request.create"}, u: Users]
    \cup [do: {"org.create", "org.update", "member.delete", "demote", "promote",
               "release"}, u: Users, o: Orgs]
    \cup [do: {"org.delete"}, o: Orgs]
    \cup [do: {"member.create", "member.role"}, u: Users, o: Orgs, role: Roles]
    \cup [do: {"error"}]

(* A call that places a user in an organization, makes him its owner or a   *)
(* member of it was granted when the request began.                         *)
Sound(c, g) ==
    /\ c.do \in {"user.create", "user.update", "user.switch"} =>
          c.row.org = None \/ <<c.u, c.row.org>> \in g
    /\ c.do \in {"org.create", "org.update", "member.create", "promote"} =>
          <<c.u, c.o>> \in g

Good(g) == {c \in Call : Sound(c, g)}

(* The keys of the tables, and that what they hold was granted. *)
Tables(d, g) ==
    /\ d = [users |-> d.users, orgs |-> d.orgs, members |-> d.members,
            requests |-> d.requests]
    /\ DOMAIN d.users \subseteq Users
    /\ \A u \in DOMAIN d.users :
          /\ d.users[u] \in Row
          /\ d.users[u].org = None \/ <<u, d.users[u].org>> \in g
    /\ DOMAIN d.orgs \subseteq Orgs
    /\ \A o \in DOMAIN d.orgs : d.orgs[o] \in DOMAIN d.users /\ <<d.orgs[o], o>> \in g
    /\ DOMAIN d.members \subseteq ((DOMAIN d.users) \X (DOMAIN d.orgs)) \cap g
    /\ \A k \in DOMAIN d.members : d.members[k] \in Roles

Claims(c, g) ==
    \A u \in DOMAIN c : /\ c[u] \in [org: Orgs \cup {None}, role: Roles]
                        /\ c[u].org = None \/ <<u, c[u].org>> \in g

TenancyInv ==
    /\ Tables(db, granted)
    /\ Claims(claims, granted)
    /\ req \in [Requests -> [calls: Seq(Call), begun: BOOLEAN]]
    /\ \A r \in Requests : /\ req[r].calls \in Seq(Good(granted))
                           /\ req[r] = Idle \/ req[r].calls # <<>>
    /\ left \in 0 .. Budget

------------------------------------------------------------------------------
(* More grants change nothing. *)
LEMMA GrantsOnly ==
    ASSUME NEW g, NEW h, g \subseteq h
    PROVE  /\ Good(g) \subseteq Good(h)
           /\ \A d : Tables(d, g) => Tables(d, h)
           /\ \A c : Claims(c, g) => Claims(c, h)
<1>1. Good(g) \subseteq Good(h) BY DEF Good, Sound
<1>2. ASSUME NEW d, Tables(d, g) PROVE Tables(d, h) BY <1>2 DEF Tables
<1>3. ASSUME NEW c, Claims(c, g) PROVE Claims(c, h) BY <1>3 DEF Claims
<1> QED BY <1>1, <1>2, <1>3

LEMMA GoodCalls ==
    ASSUME NEW g
    PROVE  Good(g) \subseteq Call /\ Seq(Good(g)) \subseteq Seq(Call)
<1>1. Good(g) \subseteq Call BY DEF Good
<1> QED BY <1>1, SeqMonotonic

(* The calls that handlers are made of. *)
LEMMA RowCalls ==
    ASSUME NEW g, NEW u \in Users, NEW v \in Row, v.org = None \/ <<u, v.org>> \in g
    PROVE  /\ User(u, v) \in Good(g) /\ NewUser(u, v) \in Good(g)
           /\ [do |-> "user.switch", u |-> u, row |-> v] \in Good(g)
BY DEF Good, Sound, Call, User, NewUser

LEMMA GrantedCalls ==
    ASSUME NEW g, NEW u \in Users, NEW o \in Orgs, <<u, o>> \in g, NEW role \in Roles
    PROVE  /\ Member(u, o, role) \in Good(g)
           /\ [do |-> "org.create", o |-> o, u |-> u] \in Good(g)
           /\ [do |-> "org.update", o |-> o, u |-> u] \in Good(g)
           /\ [do |-> "promote", u |-> u, o |-> o] \in Good(g)
BY DEF Good, Sound, Call, Member

LEMMA OtherCalls ==
    ASSUME NEW g, NEW u \in Users, NEW o \in Orgs, NEW role \in Roles, NEW v \in Row
    PROVE  /\ SetRole(u, o, role) \in Good(g)
           /\ [do |-> "demote", u |-> u, o |-> o] \in Good(g)
           /\ [do |-> "release", u |-> u, o |-> o] \in Good(g)
           /\ [do |-> "member.delete", u |-> u, o |-> o] \in Good(g)
           /\ [do |-> "fallback", u |-> u, row |-> v] \in Good(g)
           /\ [do |-> "org.delete", o |-> o] \in Good(g)
BY DEF Good, Sound, Call, SetRole

LEMMA LastCalls ==
    ASSUME NEW g, NEW u \in Users
    PROVE  /\ [do |-> "user.delete", u |-> u] \in Good(g)
           /\ [do |-> "member.deleteAll", u |-> u] \in Good(g)
           /\ [do |-> "request.create", u |-> u] \in Good(g)
           /\ [do |-> "error"] \in Good(g)
BY DEF Good, Sound, Call

(* A request that begins: its calls are good with what it is granted. *)
LEMMA StartKeeps ==
    ASSUME TenancyInv, NEW r \in Requests, NEW calls \in Seq(Good(granted')),
           calls # <<>>, Start(r, calls)
    PROVE  TenancyInv'
<1>1. granted \subseteq granted' BY DEF Start
<1>2. UNCHANGED <<db, claims>> BY DEF Start
<1>3. Tables(db', granted') /\ Claims(claims', granted')
    BY <1>1, <1>2, GrantsOnly DEF TenancyInv
<1>4. left' \in 0 .. Budget BY TenancyAssumption DEF TenancyInv, Start
<1>5. calls \in Seq(Call) BY GoodCalls
<1>6. PICK q : q = [calls |-> calls, begun |-> FALSE] OBVIOUS
<1>7. q \in [calls: Seq(Call), begun: BOOLEAN] /\ q.calls = calls BY <1>5, <1>6
<1>8. req' = [req EXCEPT ![r] = q] BY <1>6 DEF Start
<1>9. req' \in [Requests -> [calls: Seq(Call), begun: BOOLEAN]]
    BY <1>7, <1>8 DEF TenancyInv
<1>10. ASSUME NEW x \in Requests
       PROVE  req'[x].calls \in Seq(Good(granted')) /\ (req'[x] = Idle \/ req'[x].calls # <<>>)
    <2>1. CASE x = r BY <1>7, <1>8, <2>1 DEF TenancyInv
    <2>2. CASE x # r
        <3>1. /\ req'[x] = req[x] /\ req[x].calls \in Seq(Good(granted))
              /\ req[x] = Idle \/ req[x].calls # <<>>
            BY <1>8, <2>2 DEF TenancyInv
        <3> QED BY <1>1, <3>1, GrantsOnly, SeqMonotonic
    <2> QED BY <2>1, <2>2
<1> QED BY <1>3, <1>4, <1>9, <1>10 DEF TenancyInv

(* What Start grants. *)
LEMMA StartGrants ==
    ASSUME NEW r, NEW calls, Start(r, calls), NEW c \in Range(calls),
           c.do \in {"member.create", "promote"}
    PROVE  <<c.u, c.o>> \in granted'
BY DEF Start

LEMMA TupleRange ==
    /\ \A a : Range(<<a>>) = {a}
    /\ \A a, b : Range(<<a, b>>) = {a, b}
    /\ \A a, b, c : Range(<<a, b, c>>) = {a, b, c}
<1>1. ASSUME NEW a PROVE Range(<<a>>) = {a} BY DEF Range
<1>2. ASSUME NEW a, NEW b PROVE Range(<<a, b>>) = {a, b} BY DEF Range
<1>3. ASSUME NEW a, NEW b, NEW c PROVE Range(<<a, b, c>>) = {a, b, c} BY DEF Range
<1> QED BY <1>1, <1>2, <1>3

LEMMA RowEdits ==
    ASSUME NEW v \in Row, NEW o \in Orgs \cup {None}, NEW role \in Roles, NEW b \in BOOLEAN
    PROVE  /\ [v EXCEPT !.org = o] \in Row /\ [v EXCEPT !.org = o].org = o
           /\ [v EXCEPT !.role = role] \in Row /\ [v EXCEPT !.role = role].org = v.org
           /\ [v EXCEPT !.active = b] \in Row /\ [v EXCEPT !.active = b].org = v.org
           /\ [v EXCEPT !.org = o, !.role = role] \in Row
           /\ [v EXCEPT !.org = o, !.role = role].org = o
           /\ [v EXCEPT !.org = o, !.role = role, !.active = b] \in Row
           /\ [v EXCEPT !.org = o, !.role = role, !.active = b].org = o
<1>1. /\ \A x \in Row : /\ [x EXCEPT !.org = o] \in Row
                         /\ [x EXCEPT !.org = o].org = o
    BY DEF Row
<1>2. /\ \A x \in Row : /\ [x EXCEPT !.role = role] \in Row
                         /\ [x EXCEPT !.role = role].org = x.org
    BY DEF Row
<1>3. /\ \A x \in Row : /\ [x EXCEPT !.active = b] \in Row
                         /\ [x EXCEPT !.active = b].org = x.org
    BY DEF Row
<1>4. PICK w : w = [v EXCEPT !.org = o] OBVIOUS
<1>5. PICK x : x = [w EXCEPT !.role = role] OBVIOUS
<1>6. w \in Row /\ w.org = o /\ x \in Row /\ x.org = o BY <1>1, <1>2, <1>4, <1>5
<1>7. /\ [v EXCEPT !.org = o, !.role = role] = x
      /\ [v EXCEPT !.org = o, !.role = role, !.active = b] = [x EXCEPT !.active = b]
    BY <1>4, <1>5
<1> QED BY <1>1, <1>2, <1>3, <1>6, <1>7

------------------------------------------------------------------------------
(* One lemma for each chain of calls: it is good with what it is granted.   *)

LEMMA FoundingGood ==
    ASSUME NEW g, NEW u \in Users, NEW o \in Orgs, NEW v \in Row, <<u, o>> \in g
    PROVE  Founding(u, o, v) \in Seq(Good(g))
<1>1. v.role \in Roles BY DEF Row
<1>2. [v EXCEPT !.org = o] \in Row /\ [v EXCEPT !.org = o].org = o BY <1>1, RowEdits
<1>3. PICK a, b, c : /\ a = [do |-> "org.create", o |-> o, u |-> u]
                     /\ b = User(u, [v EXCEPT !.org = o])
                     /\ c = Member(u, o, v.role)
    OBVIOUS
<1>4. a \in Good(g) /\ c \in Good(g) BY <1>1, <1>3, GrantedCalls
<1>5. b \in Good(g) BY <1>2, <1>3, RowCalls
<1>6. Founding(u, o, v) = <<a, b, c>> BY <1>3 DEF Founding
<1> QED BY <1>4, <1>5, <1>6

LEMMA FoundingGrants ==
    ASSUME NEW u, NEW o, NEW v
    PROVE  Member(u, o, v.role) \in Range(Founding(u, o, v)) /\ Founding(u, o, v) # <<>>
BY TupleRange DEF Founding

LEMMA FoundKeeps ==
    ASSUME TenancyInv, NEW r \in Requests, create_organization(r)
    PROVE  TenancyInv'
<1>1. PICK a \in Users, o \in Orgs : CurrentUser(a) /\ Start(r, Founding(a, o, db.users[a]))
    BY DEF create_organization
<1>2. db.users[a] \in Row BY <1>1 DEF TenancyInv, Tables, CurrentUser, Has
<1>3. Member(a, o, db.users[a].role) \in Range(Founding(a, o, db.users[a]))
    BY FoundingGrants
<1>4. <<a, o>> \in granted' BY <1>1, <1>3, StartGrants DEF Member
<1>5. Founding(a, o, db.users[a]) \in Seq(Good(granted')) BY <1>2, <1>4, FoundingGood
<1>6. Founding(a, o, db.users[a]) # <<>> BY FoundingGrants
<1> QED BY <1>1, <1>5, <1>6, StartKeeps

LEMMA JoinedCalls ==
    ASSUME NEW g, NEW s \in Seq(Good(g)), NEW t \in Seq(Good(g))
    PROVE  /\ s \o t \in Seq(Good(g))
           /\ Range(s \o t) = Range(s) \cup Range(t)
BY ConcatProperties, RangeConcatenation

LEMMA JoinedLength ==
    ASSUME NEW g, NEW s \in Seq(Good(g)), NEW t \in Seq(Good(g)), s # <<>> \/ t # <<>>
    PROVE  s \o t # <<>>
BY ConcatEqualIffEmpty

(* A request that takes nobody in. *)
LEMMA PlainStartKeeps ==
    ASSUME TenancyInv, NEW r \in Requests, NEW calls \in Seq(Good(granted)),
           calls # <<>>, Start(r, calls)
    PROVE  TenancyInv'
<1>1. granted \subseteq granted' BY DEF Start
<1>2. calls \in Seq(Good(granted')) BY <1>1, GrantsOnly, SeqMonotonic
<1> QED BY <1>2, StartKeeps

(* A request that takes u in. *)
LEMMA GrantStartKeeps ==
    ASSUME TenancyInv, NEW r \in Requests, NEW u, NEW o,
           NEW calls \in Seq(Good(granted \cup {<<u, o>>})), Start(r, calls),
           NEW c \in Range(calls), c.do \in {"member.create", "promote"}, c.u = u, c.o = o
    PROVE  TenancyInv'
<1>1. granted \subseteq granted' BY DEF Start
<1>2. <<u, o>> \in granted' BY StartGrants
<1>3. granted \cup {<<u, o>>} \subseteq granted' BY <1>1, <1>2
<1>4. calls \in Seq(Good(granted')) BY <1>3, GrantsOnly, SeqMonotonic
<1>5. calls # <<>> BY DEF Range
<1> QED BY <1>4, <1>5, StartKeeps

LEMMA RequestAccessKeeps ==
    ASSUME TenancyInv, NEW r \in Requests, create_access_request(r)
    PROVE  TenancyInv'
<1>1. PICK v : v = [org |-> None, role |-> "U4", active |-> FALSE] OBVIOUS
<1>2. PICK u \in Users, o \in Orgs :
          Start(r, <<NewUser(u, v)>> \o Founding(u, o, v)
                     \o <<[do |-> "request.create", u |-> u]>>)
    BY <1>1 DEF create_access_request
<1>3. PICK a, c : a = <<NewUser(u, v)>> /\ c = <<[do |-> "request.create", u |-> u]>>
    OBVIOUS
<1>4. v \in Row /\ v.org = None BY <1>1 DEF Row, Roles
<1>5. PICK g : g = granted \cup {<<u, o>>} OBVIOUS
<1>6. NewUser(u, v) \in Good(g) BY <1>4, RowCalls
<1>7. [do |-> "request.create", u |-> u] \in Good(g) BY LastCalls
<1>8. a \in Seq(Good(g)) /\ c \in Seq(Good(g)) BY <1>3, <1>6, <1>7
<1>9. Founding(u, o, v) \in Seq(Good(g)) BY <1>4, <1>5, FoundingGood
<1>10. PICK s : s = a \o Founding(u, o, v) OBVIOUS
<1>11. s \in Seq(Good(g)) /\ Range(s) = Range(a) \cup Range(Founding(u, o, v))
    BY <1>8, <1>9, <1>10, JoinedCalls
<1>12. s \o c \in Seq(Good(g)) /\ Range(s \o c) = Range(s) \cup Range(c)
    BY <1>8, <1>11, JoinedCalls
<1>13. Start(r, s \o c) BY <1>2, <1>3, <1>10
<1>14. PICK m : m = Member(u, o, v.role) OBVIOUS
<1>15. m \in Range(s \o c) BY <1>11, <1>12, <1>14, FoundingGrants
<1>16. m.do = "member.create" /\ m.u = u /\ m.o = o BY <1>14 DEF Member
<1> QED BY <1>5, <1>12, <1>13, <1>15, <1>16, GrantStartKeeps

LEMMA TransferKeeps ==
    ASSUME TenancyInv, NEW r \in Requests, transfer_ownership(r)
    PROVE  TenancyInv'
<1>1. PICK o \in DOMAIN db.orgs, n \in DOMAIN db.users : Start(r, Handover(db, o, n))
    BY DEF transfer_ownership
<1>2. PICK old : old = db.orgs[o] OBVIOUS
<1>3. PICK g : g = granted \cup {<<n, o>>} OBVIOUS
<1>4. /\ o \in Orgs /\ n \in Users /\ old \in Users
      /\ db.users[n] \in Row /\ db.users[old] \in Row
      /\ db.users[n].org = None \/ <<n, db.users[n].org>> \in g
      /\ db.users[old].org = None \/ <<old, db.users[old].org>> \in g
    BY <1>2, <1>3 DEF TenancyInv, Tables
<1>5. "U2" \in Roles /\ "U4" \in Roles BY DEF Roles
<1>6. PICK v, w : /\ v = [db.users[old] EXCEPT !.role = "U2"]
                  /\ w = [db.users[n] EXCEPT !.role = "U4"]
    OBVIOUS
<1>7. v \in Row /\ v.org = db.users[old].org /\ w \in Row /\ w.org = db.users[n].org
    BY <1>4, <1>5, <1>6, RowEdits
<1>8. PICK a, demote, c :
          /\ a = <<[do |-> "org.update", o |-> o, u |-> n]>>
          /\ demote = IF db.users[old].role # "U4" THEN <<>>
                      ELSE <<User(old, v), [do |-> "demote", u |-> old, o |-> o]>>
          /\ c = <<User(n, w), [do |-> "promote", u |-> n, o |-> o]>>
    OBVIOUS
<1>9. Handover(db, o, n) = a \o demote \o c BY <1>2, <1>6, <1>8 DEF Handover
<1>10. a \in Seq(Good(g))
    <2>1. [do |-> "org.update", o |-> o, u |-> n] \in Good(g)
        BY <1>3, <1>4, <1>5, GrantedCalls
    <2> QED BY <1>8, <2>1
<1>11. demote \in Seq(Good(g))
    <2>1. User(old, v) \in Good(g) BY <1>4, <1>7, RowCalls
    <2>2. [do |-> "demote", u |-> old, o |-> o] \in Good(g)
        BY <1>4, <1>5, <1>7, OtherCalls
    <2>3. <<User(old, v), [do |-> "demote", u |-> old, o |-> o]>> \in Seq(Good(g))
        BY <2>1, <2>2
    <2> QED BY <1>8, <2>3, EmptySeq
<1>12. c \in Seq(Good(g))
    <2>1. User(n, w) \in Good(g) BY <1>4, <1>7, RowCalls
    <2>2. [do |-> "promote", u |-> n, o |-> o] \in Good(g)
        BY <1>3, <1>4, <1>5, GrantedCalls
    <2> QED BY <1>8, <2>1, <2>2
<1>13. PICK s : s = a \o demote OBVIOUS
<1>14. s \in Seq(Good(g)) BY <1>10, <1>11, <1>13, JoinedCalls
<1>15. s \o c \in Seq(Good(g)) /\ Range(s \o c) = Range(s) \cup Range(c)
    BY <1>12, <1>14, JoinedCalls
<1>16. PICK p : p = [do |-> "promote", u |-> n, o |-> o] OBVIOUS
<1>17. p \in Range(s \o c) BY <1>8, <1>15, <1>16, TupleRange
<1>18. p.do = "promote" /\ p.u = n /\ p.o = o BY <1>16
<1>19. Start(r, s \o c) BY <1>1, <1>9, <1>13
<1> QED BY <1>3, <1>15, <1>17, <1>18, <1>19, GrantStartKeeps

LEMMA InviteKeeps ==
    ASSUME TenancyInv, NEW r \in Requests, invite_user(r)
    PROVE  TenancyInv'
<1>1. PICK o \in DOMAIN db.orgs, u \in Users, role \in Roles : Start(r, Invitation(u, o, role))
    BY DEF invite_user
<1>2. o \in Orgs BY DEF TenancyInv, Tables
<1>3. PICK g : g = granted \cup {<<u, o>>} OBVIOUS
<1>4. PICK m : m = Member(u, o, role) OBVIOUS
<1>5. m \in Good(g) BY <1>2, <1>3, <1>4, GrantedCalls
<1>6. m.do = "member.create" /\ m.u = u /\ m.o = o BY <1>4 DEF Member
<1>7. <<m>> \in Seq(Good(g)) BY <1>5
<1>8. Invitation(u, o, role) \in Seq(Good(g)) /\ m \in Range(Invitation(u, o, role))
    <2>1. CASE Has(db.users, u)
        <3>1. db.users[u] \in Row BY <2>1 DEF TenancyInv, Tables, Has
        <3>2. PICK v : v = [db.users[u] EXCEPT !.org = o, !.role = role, !.active = FALSE]
            OBVIOUS
        <3>3. v \in Row /\ v.org = o BY <1>2, <3>1, <3>2, RowEdits
        <3>4. User(u, v) \in Good(g) BY <1>3, <3>3, RowCalls
        <3>5. PICK t : t = IF db.users[u].org # None THEN <<>> ELSE <<User(u, v)>> OBVIOUS
        <3>6. <<User(u, v)>> \in Seq(Good(g)) BY <3>4
        <3>7. t \in Seq(Good(g)) BY <3>5, <3>6, EmptySeq
        <3>8. Invitation(u, o, role) = <<m>> \o t
            BY <1>4, <2>1, <3>2, <3>5 DEF Invitation, _invite_existing_user
        <3>9. PICK ms : ms = <<m>> OBVIOUS
        <3>10. ms \o t \in Seq(Good(g)) /\ Range(ms \o t) = Range(ms) \cup Range(t)
            BY <1>7, <3>7, <3>9, JoinedCalls
        <3>11. m \in Range(ms) BY <3>9, TupleRange
        <3> QED BY <3>8, <3>9, <3>10, <3>11
    <2>2. CASE ~Has(db.users, u)
        <3>1. PICK v : v = [org |-> o, role |-> role, active |-> FALSE] OBVIOUS
        <3>2. v \in Row /\ v.org = o BY <1>2, <3>1 DEF Row
        <3>3. NewUser(u, v) \in Good(g) BY <1>3, <3>2, RowCalls
        <3>4. Invitation(u, o, role) = <<NewUser(u, v), m>>
            BY <1>4, <2>2, <3>1 DEF Invitation, _invite_new_user
        <3>5. <<NewUser(u, v), m>> \in Seq(Good(g)) BY <1>5, <3>3
        <3>6. m \in Range(<<NewUser(u, v), m>>) BY TupleRange
        <3> QED BY <3>4, <3>5, <3>6
    <2> QED BY <2>1, <2>2
<1> QED BY <1>1, <1>3, <1>6, <1>8, GrantStartKeeps

LEMMA RoleChangeKeeps ==
    ASSUME TenancyInv, NEW r \in Requests, update_user_role(r)
    PROVE  TenancyInv'
<1>1. PICK o \in DOMAIN db.orgs, u \in DOMAIN db.users, role \in Roles :
          Start(r, RoleChange(u, o, role))
    BY DEF update_user_role
<1>2. /\ o \in Orgs /\ u \in Users /\ db.users[u] \in Row
      /\ db.users[u].org = None \/ <<u, db.users[u].org>> \in granted
    BY DEF TenancyInv, Tables
<1>3. PICK v : v = [db.users[u] EXCEPT !.role = role] OBVIOUS
<1>4. v \in Row /\ v.org = db.users[u].org BY <1>2, <1>3, RowEdits
<1>5. User(u, v) \in Good(granted) BY <1>2, <1>4, RowCalls
<1>6. SetRole(u, o, role) \in Good(granted) BY <1>2, OtherCalls
<1>7. PICK s, t : /\ s = <<SetRole(u, o, role)>>
                  /\ t = IF db.users[u].org # o THEN <<>> ELSE <<User(u, v)>>
    OBVIOUS
<1>8. s \in Seq(Good(granted)) BY <1>6, <1>7
<1>9. <<User(u, v)>> \in Seq(Good(granted)) BY <1>5
<1>10. t \in Seq(Good(granted)) BY <1>7, <1>9, EmptySeq
<1>11. s \o t \in Seq(Good(granted)) BY <1>8, <1>10, JoinedCalls
<1>12. RoleChange(u, o, role) = s \o t BY <1>3, <1>7 DEF RoleChange
<1>13. s # <<>> BY <1>7
<1>14. s \o t # <<>> BY <1>8, <1>10, <1>13, JoinedLength
<1> QED BY <1>1, <1>11, <1>12, <1>14, PlainStartKeeps

LEMMA RemovalKeeps ==
    ASSUME TenancyInv, NEW r \in Requests, remove_user_from_org(r)
    PROVE  TenancyInv'
<1>1. PICK o \in DOMAIN db.orgs, u \in DOMAIN db.users : Start(r, Removal(u, o))
    BY DEF remove_user_from_org
<1>2. o \in Orgs /\ u \in Users /\ db.users[u] \in Row BY DEF TenancyInv, Tables
<1>3. PICK a, b : /\ a = [do |-> "member.delete", u |-> u, o |-> o]
                  /\ b = [do |-> "fallback", u |-> u, row |-> db.users[u]]
    OBVIOUS
<1>4. a \in Good(granted) /\ b \in Good(granted) BY <1>2, <1>3, OtherCalls DEF Roles
<1>5. PICK s, t : s = <<a>> /\ t = IF db.users[u].org # o THEN <<>> ELSE <<b>>
    OBVIOUS
<1>6. s \in Seq(Good(granted)) BY <1>4, <1>5
<1>7. <<b>> \in Seq(Good(granted)) BY <1>4
<1>8. t \in Seq(Good(granted)) BY <1>5, <1>7, EmptySeq
<1>9. s \o t \in Seq(Good(granted)) BY <1>6, <1>8, JoinedCalls
<1>10. Removal(u, o) = s \o t BY <1>3, <1>5 DEF Removal
<1>11. s # <<>> BY <1>5
<1>12. s \o t # <<>> BY <1>6, <1>8, <1>11, JoinedLength
<1> QED BY <1>1, <1>9, <1>10, <1>12, PlainStartKeeps

LEMMA SwitchKeeps ==
    ASSUME TenancyInv, NEW r \in Requests, switch_organization(r)
    PROVE  TenancyInv'
<1>1. PICK a \in Users, o \in Orgs :
          CurrentUser(a) /\ Has(db.members, <<a, o>>) /\ Start(r, Switch(a, o))
    BY DEF switch_organization
<1>2. db.users[a] \in Row BY <1>1 DEF TenancyInv, Tables, CurrentUser, Has
<1>3. PICK k : k = <<a, o>> OBVIOUS
<1>4. k \in granted /\ db.members[k] \in Roles
    BY <1>1, <1>3 DEF TenancyInv, Tables, Has
<1>5. PICK v : v = [db.users[a] EXCEPT !.org = o, !.role = db.members[k]] OBVIOUS
<1>6. v \in Row /\ v.org = o BY <1>2, <1>4, <1>5, RowEdits
<1>7. [do |-> "user.switch", u |-> a, row |-> v] \in Good(granted)
    BY <1>3, <1>4, <1>6, RowCalls
<1>8. Switch(a, o) = <<[do |-> "user.switch", u |-> a, row |-> v]>>
    BY <1>3, <1>5 DEF Switch
<1>9. Switch(a, o) \in Seq(Good(granted)) /\ Switch(a, o) # <<>> BY <1>7, <1>8
<1> QED BY <1>1, <1>9, PlainStartKeeps

LEMMA DeletionKeeps ==
    ASSUME TenancyInv, NEW r \in Requests, delete_user_account(r)
    PROVE  TenancyInv'
<1>1. PICK a \in Users : \E os \in SetToSeqs({o \in Orgs : Has(db.members, <<a, o>>)}) :
                            Start(r, Deletion(a, os))
    BY DEF delete_user_account
<1>2. PICK S : S = {o \in Orgs : Has(db.members, <<a, o>>)} OBVIOUS
<1>3. PICK os \in SetToSeqs(S) : Start(r, Deletion(a, os)) BY <1>1, <1>2
<1>4. PICK n \in Nat : os \in [1 .. n -> S]
    <2>1. Cardinality(S) \in Nat BY <1>2, TenancyAssumption, FS_Subset, FS_CardinalityType
    <2>2. os \in [1 .. Cardinality(S) -> S] BY <1>3 DEF SetToSeqs
    <2> QED BY <2>1, <2>2
<1>5. PICK p, q, d :
          /\ p = [i \in DOMAIN os |-> [do |-> "release", u |-> a, o |-> os[i]]]
          /\ q = IF os = <<>> THEN <<>> ELSE <<[do |-> "member.deleteAll", u |-> a]>>
          /\ d = <<[do |-> "user.delete", u |-> a]>>
    OBVIOUS
<1>6. p \in Seq(Good(granted))
    <2>1. "U2" \in Roles BY DEF Roles
    <2>2. PICK v : v = [org |-> None, role |-> "U2", active |-> TRUE] OBVIOUS
    <2>3. v \in Row BY <2>1, <2>2 DEF Row
    <2>4. \A i \in 1 .. n : [do |-> "release", u |-> a, o |-> os[i]] \in Good(granted)
        BY <1>2, <1>4, <2>1, <2>3, OtherCalls
    <2>5. p \in [1 .. n -> Good(granted)] BY <1>4, <1>5, <2>4
    <2> QED BY <1>4, <2>5, SeqDef
<1>7. q \in Seq(Good(granted))
    <2>1. [do |-> "member.deleteAll", u |-> a] \in Good(granted) BY LastCalls
    <2>2. <<[do |-> "member.deleteAll", u |-> a]>> \in Seq(Good(granted)) BY <2>1
    <2> QED BY <1>5, <2>2, EmptySeq
<1>8. d \in Seq(Good(granted))
    <2>1. [do |-> "user.delete", u |-> a] \in Good(granted) BY LastCalls
    <2> QED BY <1>5, <2>1
<1>9. PICK s : s = p \o q OBVIOUS
<1>10. s \in Seq(Good(granted)) BY <1>6, <1>7, <1>9, JoinedCalls
<1>11. s \o d \in Seq(Good(granted)) BY <1>8, <1>10, JoinedCalls
<1>12. Deletion(a, os) = s \o d BY <1>5, <1>9 DEF Deletion
<1>13. d # <<>> BY <1>5
<1>14. s \o d # <<>> BY <1>8, <1>10, <1>13, JoinedLength
<1> QED BY <1>3, <1>11, <1>12, <1>14, PlainStartKeeps

LEMMA CreateUserKeeps ==
    ASSUME TenancyInv, NEW r \in Requests, NEW role \in Roles, CreateUser(r, role)
    PROVE  TenancyInv'
<1>1. PICK v : v = [org |-> None, role |-> role, active |-> TRUE] OBVIOUS
<1>2. PICK u \in Users : Start(r, <<NewUser(u, v)>>) BY <1>1 DEF CreateUser
<1>3. v \in Row /\ v.org = None BY <1>1 DEF Row
<1>4. NewUser(u, v) \in Good(granted) BY <1>3, RowCalls
<1>5. <<NewUser(u, v)>> \in Seq(Good(granted)) /\ <<NewUser(u, v)>> # <<>> BY <1>4
<1> QED BY <1>2, <1>5, PlainStartKeeps

(* admin_update_global_role and activate_account store an edited row. *)
LEMMA StoreRowKeeps ==
    ASSUME TenancyInv, NEW r \in Requests, NEW u \in DOMAIN db.users, NEW v \in Row,
           v.org = db.users[u].org, Start(r, <<User(u, v)>>)
    PROVE  TenancyInv'
<1>1. u \in Users /\ (db.users[u].org = None \/ <<u, db.users[u].org>> \in granted)
    BY DEF TenancyInv, Tables
<1>2. User(u, v) \in Good(granted) BY <1>1, RowCalls
<1>3. <<User(u, v)>> \in Seq(Good(granted)) /\ <<User(u, v)>> # <<>> BY <1>2
<1> QED BY <1>3, PlainStartKeeps

LEMMA RowRouteKeeps ==
    ASSUME TenancyInv, NEW r \in Requests,
           admin_update_global_role(r) \/ activate_account(r)
    PROVE  TenancyInv'
<1>1. CASE admin_update_global_role(r)
    <2>1. PICK u \in DOMAIN db.users, role \in Roles : Start(r, GlobalRole(u, role))
        BY <1>1 DEF admin_update_global_role
    <2>2. PICK v : v = [db.users[u] EXCEPT !.role = role] OBVIOUS
    <2>3. db.users[u] \in Row BY DEF TenancyInv, Tables
    <2>4. v \in Row /\ v.org = db.users[u].org BY <2>2, <2>3, RowEdits
    <2>5. Start(r, <<User(u, v)>>) BY <2>1, <2>2 DEF GlobalRole
    <2> QED BY <2>4, <2>5, StoreRowKeeps
<1>2. CASE activate_account(r)
    <2>1. PICK u \in DOMAIN db.users :
              Start(r, <<User(u, [db.users[u] EXCEPT !.active = TRUE])>>)
        BY <1>2 DEF activate_account
    <2>2. PICK v : v = [db.users[u] EXCEPT !.active = TRUE] OBVIOUS
    <2>3. db.users[u] \in Row BY DEF TenancyInv, Tables
    <2>4. v \in Row /\ v.org = db.users[u].org BY <2>2, <2>3 DEF Row
    <2>5. Start(r, <<User(u, v)>>) BY <2>1, <2>2
    <2> QED BY <2>4, <2>5, StoreRowKeeps
<1> QED BY <1>1, <1>2

LEMMA RestoreKeeps ==
    ASSUME TenancyInv, NEW r \in Requests, restore_organization(r)
    PROVE  TenancyInv'
<1>1. PICK o \in DOMAIN db.orgs : Start(r, Restored(o)) BY DEF restore_organization
<1>2. PICK u : u = db.orgs[o] OBVIOUS
<1>3. o \in Orgs /\ u \in Users /\ <<u, o>> \in granted BY <1>2 DEF TenancyInv, Tables
<1>4. [do |-> "org.update", o |-> o, u |-> u] \in Good(granted)
    BY <1>3, GrantedCalls DEF Roles
<1>5. Restored(o) = <<[do |-> "org.update", o |-> o, u |-> u]>> BY <1>2 DEF Restored
<1>6. Restored(o) \in Seq(Good(granted)) /\ Restored(o) # <<>> BY <1>4, <1>5
<1> QED BY <1>1, <1>6, PlainStartKeeps

LEMMA ReviewKeeps ==
    ASSUME TenancyInv, NEW r \in Requests, patch_access_request(r)
    PROVE  TenancyInv'
<1>1. PICK u, s : db' = [db EXCEPT !.requests[u] = s] BY DEF patch_access_request
<1>2. UNCHANGED <<claims, req, granted>> /\ left' \in 0 .. Budget
    BY TenancyAssumption DEF patch_access_request, TenancyInv
<1>3. Tables(db, granted) BY DEF TenancyInv
<1>4. /\ db' = [users |-> db'.users, orgs |-> db'.orgs, members |-> db'.members,
                requests |-> db'.requests]
      /\ db'.users = db.users /\ db'.orgs = db.orgs /\ db'.members = db.members
    BY <1>1, <1>3 DEF Tables
<1>5. Tables(db', granted) BY <1>3, <1>4 DEF Tables
<1> QED BY <1>2, <1>5 DEF TenancyInv

LEMMA RouteKeeps ==
    ASSUME TenancyInv, NEW r \in Requests, Route(r)
    PROVE  TenancyInv'
<1>1. CASE register(r) \/ admin_create_user(r)
    <2>1. PICK role \in Roles : CreateUser(r, role)
        BY <1>1 DEF register, admin_create_user, Roles
    <2> QED BY <2>1, CreateUserKeeps
<1> QED BY <1>1, FoundKeeps, TransferKeeps, InviteKeeps, RoleChangeKeeps, RemovalKeeps,
           SwitchKeeps, DeletionKeeps, RowRouteKeeps, RestoreKeeps, RequestAccessKeeps,
           ReviewKeeps
        DEF Route

------------------------------------------------------------------------------
(* A call: the commit keeps the keys, or the schema refuses it. *)

LEMMA TurnGood ==
    ASSUME Tables(db, granted), NEW c \in Good(granted), NEW k \in Turns(db, c)
    PROVE  k = <<>> \/ \E e \in Good(granted) : k = <<e>> /\ e.do \in Made \cup {"error"}
<1>1. CASE c.do = "demote"
    <2>1. c.u \in Users /\ c.o \in Orgs BY <1>1 DEF Good, Call
    <2>2. k = <<>> \/ k = <<SetRole(c.u, c.o, "U2")>> BY <1>1 DEF Turns, Demoted
    <2>3. SetRole(c.u, c.o, "U2").do \in Made BY DEF SetRole, Made
    <2>4. "U2" \in Roles BY DEF Roles
    <2>5. PICK v : v = [org |-> None, role |-> "U2", active |-> TRUE] OBVIOUS
    <2>6. v \in Row BY <2>4, <2>5 DEF Row
    <2>7. SetRole(c.u, c.o, "U2") \in Good(granted) BY <2>1, <2>4, <2>6, OtherCalls
    <2> QED BY <2>2, <2>3, <2>7
<1>2. CASE c.do = "promote"
    <2>1. c.u \in Users /\ c.o \in Orgs /\ <<c.u, c.o>> \in granted
        BY <1>2 DEF Good, Call, Sound
    <2>2. k = <<SetRole(c.u, c.o, "U4")>> \/ k = <<Member(c.u, c.o, "U4")>>
        BY <1>2 DEF Turns, Promoted
    <2>3. SetRole(c.u, c.o, "U4").do \in Made /\ Member(c.u, c.o, "U4").do \in Made
        BY DEF SetRole, Member, Made
    <2>4. "U4" \in Roles BY DEF Roles
    <2>5. PICK v : v = [org |-> None, role |-> "U4", active |-> TRUE] OBVIOUS
    <2>6. v \in Row BY <2>4, <2>5 DEF Row
    <2>7. SetRole(c.u, c.o, "U4") \in Good(granted) BY <2>1, <2>4, <2>6, OtherCalls
    <2>8. Member(c.u, c.o, "U4") \in Good(granted) BY <2>1, <2>4, GrantedCalls
    <2> QED BY <2>2, <2>3, <2>7, <2>8
<1>3. CASE c.do = "fallback"
    <2>1. c.u \in Users /\ c.row \in Row BY <1>3 DEF Good, Call
    <2>2. PICK v : /\ v \in Row /\ (v.org = None \/ <<c.u, v.org>> \in granted)
                   /\ k = <<User(c.u, v)>>
        <3>1. k \in Fallbacks(db, c) BY <1>3 DEF Turns
        <3>2. CASE k = <<User(c.u, [c.row EXCEPT !.org = None, !.role = "U2"])>>
            <4>1. PICK v : v = [c.row EXCEPT !.org = None, !.role = "U2"] OBVIOUS
            <4>2. "U2" \in Roles BY DEF Roles
            <4>3. v \in Row /\ v.org = None BY <2>1, <4>1, <4>2, RowEdits
            <4> QED BY <3>2, <4>1, <4>3
        <3>3. CASE \E o \in Orgs : /\ Has(db.members, <<c.u, o>>)
                                   /\ k = <<User(c.u, [c.row EXCEPT !.org = o,
                                              !.role = db.members[<<c.u, o>>]])>>
            <4>1. PICK o \in Orgs : /\ Has(db.members, <<c.u, o>>)
                                    /\ k = <<User(c.u, [c.row EXCEPT !.org = o,
                                              !.role = db.members[<<c.u, o>>]])>>
                BY <3>3
            <4>2. PICK m : m = <<c.u, o>> OBVIOUS
            <4>3. m \in granted /\ db.members[m] \in Roles BY <4>1, <4>2 DEF Tables, Has
            <4>4. PICK v : v = [c.row EXCEPT !.org = o, !.role = db.members[m]] OBVIOUS
            <4>5. v \in Row /\ v.org = o BY <2>1, <4>3, <4>4, RowEdits
            <4> QED BY <4>1, <4>2, <4>3, <4>4, <4>5
        <3>4. \/ k = <<User(c.u, [c.row EXCEPT !.org = None, !.role = "U2"])>>
              \/ \E o \in Orgs : /\ Has(db.members, <<c.u, o>>)
                                 /\ k = <<User(c.u, [c.row EXCEPT !.org = o,
                                            !.role = db.members[<<c.u, o>>]])>>
            BY <3>1 DEF Fallbacks
        <3> QED BY <3>2, <3>3, <3>4
    <2>3. User(c.u, v) \in Good(granted) BY <2>1, <2>2, RowCalls
    <2>4. User(c.u, v).do \in Made BY DEF User, Made
    <2> QED BY <2>2, <2>3, <2>4
<1>4. CASE c.do = "release"
    <2>1. c.u \in Users /\ c.o \in Orgs BY <1>4 DEF Good, Call
    <2>2. PICK a, e : a = [do |-> "org.delete", o |-> c.o] /\ e = [do |-> "error"] OBVIOUS
    <2>3. k = <<>> \/ k = <<e>> \/ k = <<a>> BY <1>4, <2>2 DEF Turns, Released
    <2>4. a \in Good(granted) /\ e \in Good(granted) BY <2>1, <2>2 DEF Good, Sound, Call
    <2>5. a.do \in Made /\ e.do = "error" BY <2>2 DEF Made
    <2> QED BY <2>3, <2>4, <2>5
<1>5. CASE c.do \notin {"demote", "promote", "fallback", "release"}
    <2>1. k = <<c>> BY <1>5 DEF Turns
    <2>2. c.do \in Made \cup {"error"} BY <1>5 DEF Good, Call, Made
    <2> QED BY <2>1, <2>2
<1> QED BY <1>1, <1>2, <1>3, <1>4, <1>5

(* The tables after a call. *)
LEMMA TablesIntro ==
    ASSUME NEW g, NEW us, NEW os, NEW ms, NEW qs,
           DOMAIN us \subseteq Users,
           \A u \in DOMAIN us : us[u] \in Row /\ (us[u].org = None \/ <<u, us[u].org>> \in g),
           DOMAIN os \subseteq Orgs,
           \A o \in DOMAIN os : os[o] \in DOMAIN us /\ <<os[o], o>> \in g,
           DOMAIN ms \subseteq ((DOMAIN us) \X (DOMAIN os)) \cap g,
           \A k \in DOMAIN ms : ms[k] \in Roles,
           NEW d, d = [users |-> us, orgs |-> os, members |-> ms, requests |-> qs]
    PROVE  Tables(d, g)
<1>1. d.users = us /\ d.orgs = os /\ d.members = ms /\ d.requests = qs OBVIOUS
<1> QED BY <1>1 DEF Tables

LEMMA UserCallKeeps ==
    ASSUME NEW d, NEW g, Tables(d, g), NEW c \in Good(g), ~Refused(d, c),
           c.do \in {"user.create", "user.update", "user.switch", "user.delete"}
    PROVE  Tables(CallMade(d, c), g)
<1>1. PICK us, os, ms, qs : us = d.users /\ os = d.orgs /\ ms = d.members /\ qs = d.requests
    OBVIOUS
<1>2. /\ d = [users |-> us, orgs |-> os, members |-> ms, requests |-> qs]
      /\ DOMAIN us \subseteq Users
      /\ \A u \in DOMAIN us : us[u] \in Row /\ (us[u].org = None \/ <<u, us[u].org>> \in g)
      /\ DOMAIN os \subseteq Orgs
      /\ \A o \in DOMAIN os : os[o] \in DOMAIN us /\ <<os[o], o>> \in g
      /\ DOMAIN ms \subseteq ((DOMAIN us) \X (DOMAIN os)) \cap g
      /\ \A k \in DOMAIN ms : ms[k] \in Roles
    BY <1>1 DEF Tables
<1>3. CallMade(d, c) = UserCall(d, c) BY DEF CallMade
<1>4. c.u \in Users BY DEF Good, Call
<1>5. CASE c.do = "user.create"
    <2>1. c.row \in Row /\ (c.row.org = None \/ <<c.u, c.row.org>> \in g)
        BY <1>5 DEF Good, Call, Sound
    <2>2. PICK vs : vs = Put(us, c.u, c.row) OBVIOUS
    <2>3. DOMAIN vs = DOMAIN us \cup {c.u} /\ vs[c.u] = c.row
          /\ \A u \in DOMAIN us \ {c.u} : vs[u] = us[u]
        BY <2>2 DEF Put
    <2>4. UserCall(d, c) = [users |-> vs, orgs |-> os, members |-> ms, requests |-> qs]
        BY <1>2, <1>5, <2>2 DEF UserCall
    <2> QED BY <1>2, <1>3, <1>4, <2>1, <2>3, <2>4, TablesIntro
<1>6. CASE c.do \in {"user.update", "user.switch"}
    <2>1. c.row \in Row /\ (c.row.org = None \/ <<c.u, c.row.org>> \in g)
        BY <1>6 DEF Good, Call, Sound
    <2>2. PICK vs : vs = [us EXCEPT ![c.u] = c.row] OBVIOUS
    <2>3. c.u \in DOMAIN us BY <1>1, <1>6 DEF Refused, Has
    <2>4. DOMAIN vs = DOMAIN us /\ vs[c.u] = c.row
          /\ \A u \in DOMAIN us \ {c.u} : vs[u] = us[u]
        BY <2>2, <2>3
    <2>5. UserCall(d, c) = [users |-> vs, orgs |-> os, members |-> ms, requests |-> qs]
        BY <1>2, <1>6, <2>2 DEF UserCall
    <2> QED BY <1>2, <1>3, <1>4, <2>1, <2>4, <2>5, TablesIntro
<1>7. CASE c.do = "user.delete"
    <2>1. PICK vs : vs = Drop(us, {c.u}) OBVIOUS
    <2>2. DOMAIN vs = DOMAIN us \ {c.u} /\ \A u \in DOMAIN vs : vs[u] = us[u]
        BY <2>1 DEF Drop, Restrict
    <2>3. \A o \in DOMAIN os : os[o] # c.u BY <1>1, <1>7 DEF Refused, Range
    <2>4. \A k \in DOMAIN ms : k[1] # c.u BY <1>1, <1>7 DEF Refused
    <2>5. UserCall(d, c) = [users |-> vs, orgs |-> os, members |-> ms, requests |-> qs]
        BY <1>2, <1>7, <2>1 DEF UserCall
    <2>6. DOMAIN ms \subseteq ((DOMAIN vs) \X (DOMAIN os)) \cap g BY <1>2, <2>2, <2>4
    <2>7. \A o \in DOMAIN os : os[o] \in DOMAIN vs BY <1>2, <2>2, <2>3
    <2>8. \A u \in DOMAIN vs : vs[u] \in Row /\ (vs[u].org = None \/ <<u, vs[u].org>> \in g)
        BY <1>2, <2>2
    <2> QED BY <1>2, <1>3, <2>2, <2>5, <2>6, <2>7, <2>8, TablesIntro
<1> QED BY <1>5, <1>6, <1>7

LEMMA OrgCallKeeps ==
    ASSUME NEW d, NEW g, Tables(d, g), NEW c \in Good(g), ~Refused(d, c),
           c.do \in {"org.create", "org.update", "org.delete"}
    PROVE  Tables(CallMade(d, c), g)
<1>1. PICK us, os, ms, qs : us = d.users /\ os = d.orgs /\ ms = d.members /\ qs = d.requests
    OBVIOUS
<1>2. /\ d = [users |-> us, orgs |-> os, members |-> ms, requests |-> qs]
      /\ DOMAIN us \subseteq Users
      /\ \A u \in DOMAIN us : us[u] \in Row /\ (us[u].org = None \/ <<u, us[u].org>> \in g)
      /\ DOMAIN os \subseteq Orgs
      /\ \A o \in DOMAIN os : os[o] \in DOMAIN us /\ <<os[o], o>> \in g
      /\ DOMAIN ms \subseteq ((DOMAIN us) \X (DOMAIN os)) \cap g
      /\ \A k \in DOMAIN ms : ms[k] \in Roles
    BY <1>1 DEF Tables
<1>3. CallMade(d, c) = OrgCall(d, c) BY DEF CallMade
<1>4. c.o \in Orgs BY DEF Good, Call
<1>5. CASE c.do = "org.create"
    <2>1. <<c.u, c.o>> \in g BY <1>5 DEF Good, Sound
    <2>2. PICK vs : vs = Put(os, c.o, c.u) OBVIOUS
    <2>3. DOMAIN vs = DOMAIN os \cup {c.o} /\ vs[c.o] = c.u
          /\ \A o \in DOMAIN os \ {c.o} : vs[o] = os[o]
        BY <2>2 DEF Put
    <2>4. OrgCall(d, c) = [users |-> us, orgs |-> vs, members |-> ms, requests |-> qs]
        BY <1>2, <1>5, <2>2 DEF OrgCall
    <2>5. c.u \in DOMAIN us BY <1>1, <1>5 DEF Refused, Has
    <2>6. DOMAIN ms \subseteq ((DOMAIN us) \X (DOMAIN vs)) \cap g BY <1>2, <2>3
    <2> QED BY <1>2, <1>3, <1>4, <2>1, <2>3, <2>4, <2>5, <2>6, TablesIntro
<1>6. CASE c.do = "org.update"
    <2>1. <<c.u, c.o>> \in g BY <1>6 DEF Good, Sound
    <2>2. PICK vs : vs = [os EXCEPT ![c.o] = c.u] OBVIOUS
    <2>3. c.o \in DOMAIN os /\ c.u \in DOMAIN us BY <1>1, <1>6 DEF Refused, Has
    <2>4. DOMAIN vs = DOMAIN os /\ vs[c.o] = c.u
          /\ \A o \in DOMAIN os \ {c.o} : vs[o] = os[o]
        BY <2>2, <2>3
    <2>5. OrgCall(d, c) = [users |-> us, orgs |-> vs, members |-> ms, requests |-> qs]
        BY <1>2, <1>6, <2>2 DEF OrgCall
    <2> QED BY <1>2, <1>3, <1>4, <2>1, <2>3, <2>4, <2>5, TablesIntro
<1>7. CASE c.do = "org.delete"
    <2>1. PICK vs, ns : vs = Drop(os, {c.o}) /\ ns = Drop(ms, Users \X {c.o}) OBVIOUS
    <2>2. DOMAIN vs = DOMAIN os \ {c.o} /\ \A o \in DOMAIN vs : vs[o] = os[o]
        BY <2>1 DEF Drop, Restrict
    <2>3. DOMAIN ns = DOMAIN ms \ (Users \X {c.o}) /\ \A k \in DOMAIN ns : ns[k] = ms[k]
        BY <2>1 DEF Drop, Restrict
    <2>4. OrgCall(d, c) = [users |-> us, orgs |-> vs, members |-> ns, requests |-> qs]
        BY <1>2, <1>7, <2>1 DEF OrgCall, DeleteOrg
    <2>5. DOMAIN ns \subseteq ((DOMAIN us) \X (DOMAIN vs)) \cap g BY <1>2, <2>2, <2>3
    <2>6. \A k \in DOMAIN ns : ns[k] \in Roles BY <1>2, <2>3
    <2> QED BY <1>2, <1>3, <2>2, <2>4, <2>5, <2>6, TablesIntro
<1> QED BY <1>5, <1>6, <1>7

LEMMA MemberCallKeeps ==
    ASSUME NEW d, NEW g, Tables(d, g), NEW c \in Good(g), ~Refused(d, c),
           c.do \in {"member.create", "member.role", "member.delete", "member.deleteAll",
                     "request.create"}
    PROVE  Tables(CallMade(d, c), g)
<1>1. PICK us, os, ms, qs : us = d.users /\ os = d.orgs /\ ms = d.members /\ qs = d.requests
    OBVIOUS
<1>2. /\ d = [users |-> us, orgs |-> os, members |-> ms, requests |-> qs]
      /\ DOMAIN us \subseteq Users
      /\ \A u \in DOMAIN us : us[u] \in Row /\ (us[u].org = None \/ <<u, us[u].org>> \in g)
      /\ DOMAIN os \subseteq Orgs
      /\ \A o \in DOMAIN os : os[o] \in DOMAIN us /\ <<os[o], o>> \in g
      /\ DOMAIN ms \subseteq ((DOMAIN us) \X (DOMAIN os)) \cap g
      /\ \A k \in DOMAIN ms : ms[k] \in Roles
    BY <1>1 DEF Tables
<1>3. CASE c.do = "request.create"
    <2>1. CallMade(d, c) = [users |-> us, orgs |-> os, members |-> ms,
                            requests |-> Put(qs, c.u, "APPROVED")]
        BY <1>2, <1>3 DEF CallMade, RequestCall
    <2> QED BY <1>2, <2>1, TablesIntro
<1>4. ASSUME c.do # "request.create"
      PROVE  CallMade(d, c) = MemberCall(d, c)
    BY <1>4 DEF CallMade
<1>5. CASE c.do = "member.create"
    <2>1. <<c.u, c.o>> \in g /\ c.role \in Roles BY <1>5 DEF Good, Call, Sound
    <2>2. PICK k : k = <<c.u, c.o>> OBVIOUS
    <2>3. PICK ns : ns = Put(ms, k, c.role) OBVIOUS
    <2>4. DOMAIN ns = DOMAIN ms \cup {k} /\ ns[k] = c.role
          /\ \A x \in DOMAIN ms \ {k} : ns[x] = ms[x]
        BY <2>3 DEF Put
    <2>5. CallMade(d, c) = [users |-> us, orgs |-> os, members |-> ns, requests |-> qs]
        BY <1>2, <1>4, <1>5, <2>2, <2>3 DEF MemberCall
    <2>6. c.o \in DOMAIN os /\ c.u \in DOMAIN us BY <1>1, <1>5 DEF Refused, Has
    <2>7. DOMAIN ns \subseteq ((DOMAIN us) \X (DOMAIN os)) \cap g
        BY <1>2, <2>1, <2>2, <2>4, <2>6
    <2>8. \A x \in DOMAIN ns : ns[x] \in Roles BY <1>2, <2>1, <2>4
    <2> QED BY <1>2, <2>5, <2>7, <2>8, TablesIntro
<1>6. CASE c.do = "member.role"
    <2>1. c.role \in Roles BY <1>6 DEF Good, Call
    <2>2. PICK k : k = <<c.u, c.o>> OBVIOUS
    <2>3. PICK ns : ns = [ms EXCEPT ![k] = c.role] OBVIOUS
    <2>4. k \in DOMAIN ms BY <1>1, <1>6, <2>2 DEF Refused, Has
    <2>5. DOMAIN ns = DOMAIN ms /\ ns[k] = c.role
          /\ \A x \in DOMAIN ms \ {k} : ns[x] = ms[x]
        BY <2>3, <2>4
    <2>6. CallMade(d, c) = [users |-> us, orgs |-> os, members |-> ns, requests |-> qs]
        BY <1>2, <1>4, <1>6, <2>2, <2>3 DEF MemberCall
    <2>7. \A x \in DOMAIN ns : ns[x] \in Roles BY <1>2, <2>1, <2>5
    <2> QED BY <1>2, <2>5, <2>6, <2>7, TablesIntro
<1>7. CASE c.do \in {"member.delete", "member.deleteAll"}
    <2>1. PICK S : S = IF c.do = "member.delete" THEN {<<c.u, c.o>>} ELSE {c.u} \X Orgs
        OBVIOUS
    <2>2. PICK ns : ns = Drop(ms, S) OBVIOUS
    <2>3. DOMAIN ns = DOMAIN ms \ S /\ \A x \in DOMAIN ns : ns[x] = ms[x]
        BY <2>2 DEF Drop, Restrict
    <2>4. CallMade(d, c) = [users |-> us, orgs |-> os, members |-> ns, requests |-> qs]
        <3>1. CallMade(d, c) = MemberCall(d, c) BY <1>4, <1>7
        <3>2. CASE c.do = "member.delete" BY <1>2, <2>1, <2>2, <3>1, <3>2 DEF MemberCall
        <3>3. CASE c.do = "member.deleteAll" BY <1>2, <2>1, <2>2, <3>1, <3>3 DEF MemberCall
        <3> QED BY <1>7, <3>2, <3>3
    <2>5. DOMAIN ns \subseteq ((DOMAIN us) \X (DOMAIN os)) \cap g BY <1>2, <2>3
    <2>6. \A x \in DOMAIN ns : ns[x] \in Roles BY <1>2, <2>3
    <2> QED BY <1>2, <2>4, <2>5, <2>6, TablesIntro
<1> QED BY <1>3, <1>5, <1>6, <1>7

LEMMA CallKeeps ==
    ASSUME NEW d, NEW g, Tables(d, g), NEW c \in Good(g), ~Refused(d, c), c.do \in Made
    PROVE  Tables(CallMade(d, c), g)
BY UserCallKeeps, OrgCallKeeps, MemberCallKeeps DEF Made

------------------------------------------------------------------------------
(* The steps of a request under way, sign-ins and restarts. *)

LEMMA EndKeeps ==
    ASSUME TenancyInv, NEW r \in Requests, NEW calls \in Seq(Good(granted)), End(r, calls),
           Tables(db', granted), Claims(claims', granted), left' \in 0 .. Budget,
           granted' = granted
    PROVE  TenancyInv'
<1>1. PICK q : /\ q = IF calls = <<>> THEN Idle ELSE [calls |-> calls, begun |-> TRUE]
               /\ req' = [req EXCEPT ![r] = q]
    BY DEF End
<1>2. calls \in Seq(Call) BY GoodCalls
<1>3. q \in [calls: Seq(Call), begun: BOOLEAN] /\ q.calls = calls
    BY <1>1, <1>2, EmptySeq DEF Idle
<1>4. req' \in [Requests -> [calls: Seq(Call), begun: BOOLEAN]]
    BY <1>1, <1>3 DEF TenancyInv
<1>5. q = Idle \/ q.calls # <<>> BY <1>1, <1>3
<1>6. \A x \in Requests : /\ req'[x].calls \in Seq(Good(granted))
                          /\ req'[x] = Idle \/ req'[x].calls # <<>>
    BY <1>1, <1>3, <1>5 DEF TenancyInv
<1> QED BY <1>4, <1>6 DEF TenancyInv

LEMMA CommitKeeps ==
    ASSUME TenancyInv, NEW r \in Requests, Commit(r)
    PROVE  TenancyInv'
<1>1. req[r].calls \in Seq(Good(granted)) /\ req[r].calls # <<>>
    BY DEF TenancyInv, Commit
<1>2. PICK calls : calls = req[r].calls OBVIOUS
<1>3. Head(calls) \in Good(granted) /\ Tail(calls) \in Seq(Good(granted))
    BY <1>1, <1>2, HeadTailProperties
<1>4. PICK k \in Turns(db, Head(calls)) :
          /\ k # <<>> => ~Refused(db, k[1])
          /\ db' = IF k = <<>> THEN db ELSE CallMade(db, k[1])
          /\ claims' = IF k # <<>> /\ k[1].do = "user.switch"
                       THEN Put(claims, k[1].u, [org |-> k[1].row.org, role |-> k[1].row.role])
                       ELSE claims
    BY <1>2 DEF Commit
<1>5. Tables(db, granted) /\ Claims(claims, granted) BY DEF TenancyInv
<1>6. k = <<>> \/ \E e \in Good(granted) : k = <<e>> /\ e.do \in Made \cup {"error"}
    BY <1>3, <1>5, TurnGood
<1>7. Tables(db', granted) /\ Claims(claims', granted)
    <2>1. CASE k = <<>> BY <1>4, <1>5, <2>1
    <2>2. CASE k # <<>>
        <3>1. PICK e \in Good(granted) : k = <<e>> /\ e.do \in Made \cup {"error"}
            BY <1>6, <2>2
        <3>2. k[1] = e BY <3>1
        <3>3. ~Refused(db, e) /\ db' = CallMade(db, e) BY <1>4, <2>2, <3>2
        <3>4. e.do # "error" BY <3>3 DEF Refused
        <3>5. Tables(db', granted) BY <1>5, <3>1, <3>3, <3>4, CallKeeps
        <3>6. CASE e.do = "user.switch"
            <4>1. e.row \in Row /\ (e.row.org = None \/ <<e.u, e.row.org>> \in granted)
                BY <3>6 DEF Good, Call, Sound
            <4>2. PICK c : c = [org |-> e.row.org, role |-> e.row.role] OBVIOUS
            <4>3. c \in [org: Orgs \cup {None}, role: Roles] /\ c.org = e.row.org
                BY <4>1, <4>2 DEF Row
            <4>4. claims' = Put(claims, e.u, c) BY <1>4, <2>2, <3>2, <3>6, <4>2
            <4>5. Claims(claims', granted) BY <1>5, <4>1, <4>3, <4>4 DEF Claims, Put
            <4> QED BY <3>5, <4>5
        <3>7. CASE e.do # "user.switch" BY <1>4, <1>5, <3>2, <3>5, <3>7
        <3> QED BY <3>6, <3>7
    <2> QED BY <2>1, <2>2
<1>8. End(r, Tail(calls)) /\ granted' = granted /\ left' \in 0 .. Budget
    BY <1>2 DEF Commit, TenancyInv
<1> QED BY <1>3, <1>7, <1>8, EndKeeps

LEMMA StopKeeps ==
    ASSUME TenancyInv, NEW r \in Requests, Fail(r) \/ Abandon(r)
    PROVE  TenancyInv'
<1>1. End(r, <<>>) /\ UNCHANGED <<db, claims, granted>> BY DEF Fail, Abandon
<1>2. left' \in 0 .. Budget BY TenancyAssumption DEF Fail, Abandon, TenancyInv
<1>3. <<>> \in Seq(Good(granted)) BY EmptySeq
<1>4. Tables(db', granted) /\ Claims(claims', granted) BY <1>1 DEF TenancyInv
<1> QED BY <1>1, <1>2, <1>3, <1>4, EndKeeps

LEMMA SignInKeeps ==
    ASSUME TenancyInv, NEW u \in Users, SignIn(u)
    PROVE  TenancyInv'
<1>1. db.users[u] \in Row /\ (db.users[u].org = None \/ <<u, db.users[u].org>> \in granted)
    BY DEF TenancyInv, Tables, SignIn, Has
<1>2. PICK c : c = [org |-> db.users[u].org, role |-> db.users[u].role] OBVIOUS
<1>3. c \in [org: Orgs \cup {None}, role: Roles] /\ c.org = db.users[u].org
    BY <1>1, <1>2 DEF Row
<1>4. claims' = Put(claims, u, c) BY <1>2 DEF SignIn
<1>5. Claims(claims, granted) BY DEF TenancyInv
<1>6. Claims(claims', granted) BY <1>1, <1>3, <1>4, <1>5 DEF Claims, Put
<1> QED BY <1>6 DEF SignIn, TenancyInv

LEMMA RestartKeeps ==
    ASSUME TenancyInv, Restart
    PROVE  TenancyInv'
<1>1. PICK email \in Users : db' \in seed_admin_user(db, email) BY DEF Restart
<1>2. Tables(db, granted) BY DEF TenancyInv
<1>3. PICK us, os, ms, qs : /\ us = db.users /\ os = db.orgs
                            /\ ms = db.members /\ qs = db.requests
    OBVIOUS
<1>4. /\ db = [users |-> us, orgs |-> os, members |-> ms, requests |-> qs]
      /\ DOMAIN us \subseteq Users
      /\ \A u \in DOMAIN us : us[u] \in Row /\ (us[u].org = None \/ <<u, us[u].org>> \in granted)
      /\ DOMAIN os \subseteq Orgs
      /\ \A o \in DOMAIN os : os[o] \in DOMAIN us /\ <<os[o], o>> \in granted
      /\ DOMAIN ms \subseteq ((DOMAIN us) \X (DOMAIN os)) \cap granted
      /\ \A k \in DOMAIN ms : ms[k] \in Roles
    BY <1>2, <1>3 DEF Tables
<1>5. PICK v : v = [org |-> None, role |-> "U3", active |-> TRUE] OBVIOUS
<1>6. v \in Row /\ v.org = None BY <1>5 DEF Row, Roles
<1>7. \/ db' = db
      \/ \E a \in DOMAIN us : db' = [db EXCEPT !.users[a].org = None]
      \/ db' = [db EXCEPT !.users = Put(@, email, v)]
    BY <1>1, <1>3, <1>5 DEF seed_admin_user
<1>8. Tables(db', granted)
    <2>1. CASE db' = db BY <1>2, <2>1
    <2>2. CASE \E a \in DOMAIN us : db' = [db EXCEPT !.users[a].org = None]
        <3>1. PICK a \in DOMAIN us : db' = [db EXCEPT !.users[a].org = None] BY <2>2
        <3>2. PICK w : w = [us[a] EXCEPT !.org = None] OBVIOUS
        <3>3. us[a] \in Row BY <1>4
        <3>4. w \in Row /\ w.org = None BY <3>2, <3>3 DEF Row
        <3>5. PICK vs : vs = [us EXCEPT ![a] = w] OBVIOUS
        <3>6. db' = [users |-> vs, orgs |-> os, members |-> ms, requests |-> qs]
            BY <1>4, <3>1, <3>2, <3>5
        <3>7. DOMAIN vs = DOMAIN us /\ vs[a] = w /\ \A u \in DOMAIN us \ {a} : vs[u] = us[u]
            BY <3>5
        <3> QED BY <1>4, <3>4, <3>6, <3>7, TablesIntro
    <2>3. CASE db' = [db EXCEPT !.users = Put(@, email, v)]
        <3>1. PICK vs : vs = Put(us, email, v) OBVIOUS
        <3>2. db' = [users |-> vs, orgs |-> os, members |-> ms, requests |-> qs]
            BY <1>4, <2>3, <3>1
        <3>3. DOMAIN vs = DOMAIN us \cup {email} /\ vs[email] = v
              /\ \A u \in DOMAIN us \ {email} : vs[u] = us[u]
            BY <3>1 DEF Put
        <3> QED BY <1>4, <1>6, <3>2, <3>3, TablesIntro
    <2> QED BY <1>7, <2>1, <2>2, <2>3
<1>9. left' \in 0 .. Budget BY TenancyAssumption DEF Restart, TenancyInv
<1>10. req' = [r \in Requests |-> Idle] /\ UNCHANGED <<claims, granted>> BY DEF Restart
<1>11. req' \in [Requests -> [calls: Seq(Call), begun: BOOLEAN]]
    BY <1>10, EmptySeq DEF Idle
<1>12. \A r \in Requests : req'[r] = Idle /\ req'[r].calls \in Seq(Good(granted))
    BY <1>10, EmptySeq DEF Idle
<1> QED BY <1>8, <1>9, <1>10, <1>11, <1>12 DEF TenancyInv

------------------------------------------------------------------------------
(* The invariant, and what it says of the tables and the guards. *)

LEMMA InitTenancy == Init => TenancyInv
<1> SUFFICES ASSUME Init PROVE TenancyInv OBVIOUS
<1>1. PICK adm \in Users, man \in Users, op \in SUBSET Users, o \in Orgs :
          /\ db = FirstTables(adm, man, op, o)
          /\ claims = [u \in DOMAIN db.users |->
                          [org |-> db.users[u].org, role |-> db.users[u].role]]
          /\ granted = DOMAIN db.members
          /\ req = [r \in Requests |-> Idle]
          /\ left = Budget
    BY DEF Init
<1>2. PICK us, os, ms, qs :
          /\ us = [u \in {adm, man} \cup op |->
                      [org |-> IF u = adm THEN None ELSE o, active |-> TRUE,
                       role |-> IF u = adm THEN "U3" ELSE IF u = man THEN "U4" ELSE "U2"]]
          /\ os = Put(<<>>, o, man)
          /\ ms = [k \in ({man} \cup op) \X {o} |-> IF k[1] = man THEN "U4" ELSE "U2"]
          /\ qs = Put(<<>>, man, "APPROVED")
    OBVIOUS
<1>3. db = [users |-> us, orgs |-> os, members |-> ms, requests |-> qs]
    BY <1>1, <1>2 DEF FirstTables
<1>4. granted = ({man} \cup op) \X {o}
    <2>1. db.members = ms BY <1>3
    <2> QED BY <1>1, <1>2, <2>1
<1>5. DOMAIN us = {adm, man} \cup op /\ DOMAIN us \subseteq Users BY <1>2
<1>6. ASSUME NEW u \in DOMAIN us
      PROVE  us[u] \in Row /\ (us[u].org = None \/ <<u, us[u].org>> \in granted)
    <2>1. us[u] = [org |-> IF u = adm THEN None ELSE o, active |-> TRUE,
                   role |-> IF u = adm THEN "U3" ELSE IF u = man THEN "U4" ELSE "U2"]
        BY <1>2, <1>5
    <2>2. us[u] \in Row BY <2>1 DEF Row, Roles
    <2>3. CASE u = adm BY <2>1, <2>2, <2>3
    <2>4. CASE u # adm
        <3>1. us[u].org = o BY <2>1, <2>4
        <3>2. u \in {man} \cup op BY <1>5, <2>4
        <3> QED BY <1>4, <2>2, <3>1, <3>2
    <2> QED BY <2>3, <2>4
<1>7. DOMAIN os = {o} /\ os[o] = man BY <1>2 DEF Put
<1>8. DOMAIN ms = ({man} \cup op) \X {o} /\ \A k \in DOMAIN ms : ms[k] \in Roles
    BY <1>2 DEF Roles
<1>9. Tables(db, granted)
    <2>1. \A x \in DOMAIN os : os[x] \in DOMAIN us /\ <<os[x], x>> \in granted
        BY <1>4, <1>5, <1>7
    <2>2. DOMAIN ms \subseteq ((DOMAIN us) \X (DOMAIN os)) \cap granted
        BY <1>4, <1>5, <1>7, <1>8
    <2> QED BY <1>3, <1>5, <1>6, <1>7, <1>8, <2>1, <2>2, TablesIntro
<1>10. Claims(claims, granted)
    <2>1. db.users = us BY <1>3
    <2>2. DOMAIN claims = DOMAIN us /\ \A u \in DOMAIN us :
              claims[u] = [org |-> us[u].org, role |-> us[u].role]
        BY <1>1, <2>1
    <2> QED BY <1>6, <2>2 DEF Claims, Row
<1>11. \A r \in Requests : req[r] = Idle /\ req[r].calls = <<>> /\ req[r].begun = FALSE
    BY <1>1 DEF Idle
<1>12. req \in [Requests -> [calls: Seq(Call), begun: BOOLEAN]]
    BY <1>1, EmptySeq DEF Idle
<1>13. \A r \in Requests : req[r].calls \in Seq(Good(granted)) BY <1>11, EmptySeq
<1>14. left \in 0 .. Budget BY <1>1, TenancyAssumption
<1> QED BY <1>9, <1>10, <1>11, <1>12, <1>13, <1>14 DEF TenancyInv

LEMMA NextTenancy == TenancyInv /\ [Next]_vars => TenancyInv'
<1> SUFFICES ASSUME TenancyInv, [Next]_vars PROVE TenancyInv' OBVIOUS
<1>1. ASSUME NEW r \in Requests, Route(r) PROVE TenancyInv' BY <1>1, RouteKeeps
<1>2. ASSUME NEW r \in Requests, Commit(r) PROVE TenancyInv' BY <1>2, CommitKeeps
<1>3. ASSUME NEW r \in Requests, Fail(r) \/ Abandon(r) PROVE TenancyInv' BY <1>3, StopKeeps
<1>4. ASSUME NEW u \in Users, SignIn(u) PROVE TenancyInv' BY <1>4, SignInKeeps
<1>5. CASE Restart BY <1>5, RestartKeeps
<1>6. CASE UNCHANGED vars BY <1>6 DEF vars, TenancyInv
<1> QED BY <1>1, <1>2, <1>3, <1>4, <1>5, <1>6 DEF Next

LEMMA InvTenancy == Spec => []TenancyInv
BY InitTenancy, NextTenancy, PTL DEF Spec

(* The keys of the schema hold after every commit: owners and members are   *)
(* accounts, memberships are of organizations, however the calls of several *)
(* requests interleave (user_service.py, organization_service.py).          *)
THEOREM TenancyTypeCorrect == Spec => []TypeOK
<1>1. ASSUME TenancyInv PROVE TypeOK
    <2>1. Tables(db, granted) /\ Claims(claims, granted) /\ left \in 0 .. Budget
        BY <1>1 DEF TenancyInv
    <2>2. DOMAIN db.users \subseteq Users /\ Range(db.users) \subseteq Row
        BY <2>1 DEF Tables, Range
    <2>3. DOMAIN db.orgs \subseteq Orgs /\ Range(db.orgs) \subseteq DOMAIN db.users
        BY <2>1 DEF Tables, Range
    <2>4. DOMAIN db.members \subseteq (DOMAIN db.users) \X (DOMAIN db.orgs)
        BY <2>1 DEF Tables
    <2>5. Range(db.members) \subseteq Roles BY <2>1 DEF Tables, Range
    <2>6. Range(claims) \subseteq [org: Orgs \cup {None}, role: Roles]
        BY <2>1 DEF Claims, Range
    <2> QED BY <2>1, <2>2, <2>3, <2>4, <2>5, <2>6 DEF TypeOK
<1>2. TenancyInv => TypeOK BY <1>1
<1> QED BY <1>2, InvTenancy, PTL

(* Whatever requests overlap, fail halfway or are cut short, nobody but an  *)
(* administrator is active in, or admitted by an organization guard to, an  *)
(* organization that did not invite him, was not founded by him and was not *)
(* handed over to him.  The reads without such a guard are no part of it.   *)
THEOREM NobodyComesUninvited == Spec => []NeverAStranger
<1>1. ASSUME TenancyInv PROVE NeverAStranger
    <2>1. Tables(db, granted) /\ Claims(claims, granted) BY <1>1 DEF TenancyInv
    <2>2. \A u \in DOMAIN db.users :
              db.users[u].org # None => <<u, db.users[u].org>> \in granted
        BY <2>1 DEF Tables
    <2>3. ASSUME NEW u \in DOMAIN claims, NEW o \in Orgs, claims[u].role # "U3", Admitted(u, o)
          PROVE  <<u, o>> \in granted
        <3>1. claims[u].org = o \/ Owns(u, o) \/ Has(db.members, <<u, o>>)
            BY <2>3 DEF Admitted, require_org_access, require_project_access,
                        require_release_access, require_connector_access,
                        require_profile_access, require_rule_access,
                        require_custom_role_access, require_api_key_access,
                        require_notification_channel_access
        <3>2. CASE claims[u].org = o BY <2>1, <3>2, TenancyAssumption DEF Claims
        <3>3. CASE Owns(u, o) BY <2>1, <3>3 DEF Owns, Has, Tables
        <3>4. CASE Has(db.members, <<u, o>>) BY <2>1, <3>4 DEF Has, Tables
        <3> QED BY <3>1, <3>2, <3>3, <3>4
    <2> QED BY <2>2, <2>3 DEF NeverAStranger
<1>2. TenancyInv => NeverAStranger BY <1>1
<1> QED BY <1>2, InvTenancy, PTL

------------------------------------------------------------------------------
(* Requests that run alone and to their end.  In between they may leave an  *)
(* account in an organization it is no member of, or an organization with   *)
(* an owner who is none; the calls still to come make up for it.            *)

(* The active organizations of us and the organizations that belong to ow   *)
(* have them among the pairs P.                                             *)
Covered(d, us, ow, P) ==
    /\ \A u \in DOMAIN d.users \cap us : d.users[u].org = None \/ <<u, d.users[u].org>> \in P
    /\ \A o \in DOMAIN d.orgs : d.orgs[o] \in ow => <<d.orgs[o], o>> \in P

Consistent(d) == Covered(d, Users, Users, DOMAIN d.members)

(* The membership that a call makes, and where it places an account. *)
Due(calls) ==
    {<<c.u, c.o>> : c \in {x \in Range(calls) : x.do \in {"member.create", "promote"}}}
Places(c) ==
    IF c.do \in {"user.create", "user.update", "user.switch"}
    THEN IF c.row.org = None THEN {} ELSE {<<c.u, c.row.org>>}
    ELSE IF c.do \in {"org.create", "org.update"} THEN {<<c.u, c.o>>} ELSE {}

(* Calls that take nobody out: who is placed somewhere is or becomes a member. *)
Gentle == {"user.create", "user.update", "user.switch", "org.create", "org.update",
           "member.create", "member.role", "request.create", "demote", "promote"}
Building(calls, d) ==
    /\ \A c \in Range(calls) : /\ c.do \in Gentle
                               /\ Places(c) \subseteq DOMAIN d.members \cup Due(calls)
    /\ Covered(d, Users, Users, DOMAIN d.members \cup Due(calls))

(* A removal: of a member who does not own the organization, and then of    *)
(* his active organization.                                                 *)
Unjoin(u, o)     == [do |-> "member.delete", u |-> u, o |-> o]
Fallback(u, row) == [do |-> "fallback", u |-> u, row |-> row]
Removing(calls, d) ==
    \E u \in DOMAIN d.users, o \in Orgs, row \in Row :
       \/ /\ calls = <<Unjoin(u, o)>> /\ d.users[u].org # o
          /\ ~(Has(d.orgs, o) /\ d.orgs[o] = u) /\ Consistent(d)
       \/ /\ calls = <<Unjoin(u, o), Fallback(u, row)>>
          /\ ~(Has(d.orgs, o) /\ d.orgs[o] = u) /\ Consistent(d)
       \/ /\ calls = <<Fallback(u, row)>>
          /\ Covered(d, Users \ {u}, Users, DOMAIN d.members)

(* The deletion of an account, which ends with its row. *)
Leaving(calls, d) ==
    \E u \in Users :
       /\ calls # <<>> /\ calls[Len(calls)].do = "user.delete"
       /\ \A c \in Range(calls) : /\ c.do \in {"release", "member.deleteAll", "user.delete"}
                                  /\ c.u = u
       /\ Covered(d, Users \ {u}, Users \ {u}, DOMAIN d.members)

Resolves(calls, d) == Building(calls, d) \/ Removing(calls, d) \/ Leaving(calls, d)

Quiet == \A r \in Requests : ~req[r].begun
SmoothInv ==
    smooth => /\ Quiet => Consistent(db)
              /\ \A r \in Requests :
                    req[r] # Idle /\ (req[r].begun \/ Quiet) => Resolves(req[r].calls, db)

------------------------------------------------------------------------------
(* Lists and commits. *)

LEMMA RangeSplit ==
    ASSUME NEW S, NEW s \in Seq(S), s # <<>>
    PROVE  Range(s) = {Head(s)} \cup Range(Tail(s))
<1>1. PICK n \in Nat : n = Len(s) OBVIOUS
<1>2. n > 0 /\ DOMAIN s = 1 .. n BY <1>1, EmptySeq
<1>3. /\ Head(s) = s[1] /\ Len(Tail(s)) = n - 1 /\ DOMAIN Tail(s) = 1 .. n - 1
      /\ \A i \in 1 .. n - 1 : Tail(s)[i] = s[i + 1]
    BY <1>1, <1>2
<1>4. PICK t : t = Tail(s) OBVIOUS
<1>5. ASSUME NEW x \in Range(s) PROVE x \in {Head(s)} \cup Range(t)
    <2>1. PICK i \in 1 .. n : x = s[i] BY <1>2 DEF Range
    <2>2. CASE i = 1 BY <1>3, <2>1, <2>2
    <2>3. CASE i # 1
        <3>1. i - 1 \in DOMAIN t /\ t[i - 1] = x BY <1>3, <1>4, <2>1, <2>3
        <3> QED BY <3>1 DEF Range
    <2> QED BY <2>2, <2>3
<1>6. s[1] \in Range(s) BY <1>2 DEF Range
<1>7. ASSUME NEW x \in Range(t) PROVE x \in Range(s)
    <2>1. PICK i \in 1 .. n - 1 : x = t[i] BY <1>3, <1>4 DEF Range
    <2>2. i + 1 \in DOMAIN s /\ s[i + 1] = x BY <1>2, <1>3, <1>4, <2>1
    <2> QED BY <2>2 DEF Range
<1> QED BY <1>3, <1>4, <1>5, <1>6, <1>7

LEMMA DueSplit ==
    ASSUME NEW S, NEW s \in Seq(S), s # <<>>
    PROVE  Due(s) = Due(Tail(s)) \cup
                      (IF Head(s).do \in {"member.create", "promote"}
                       THEN {<<Head(s).u, Head(s).o>>} ELSE {})
BY RangeSplit DEF Due

(* What a commit does to users, organizations and members. *)
LEMMA UserPutEffect ==
    ASSUME NEW d, NEW g, Tables(d, g), NEW c \in Good(g), ~Refused(d, c),
           c.do \in {"user.create", "user.update", "user.switch"},
           NEW e, e = CallMade(d, c)
    PROVE  /\ e.orgs = d.orgs /\ e.members = d.members
           /\ DOMAIN e.users = DOMAIN d.users \cup {c.u} /\ e.users[c.u] = c.row
           /\ \A u \in DOMAIN d.users \ {c.u} : e.users[u] = d.users[u]
<1>1. PICK us, os, ms, qs : us = d.users /\ os = d.orgs /\ ms = d.members /\ qs = d.requests
    OBVIOUS
<1>2. d = [users |-> us, orgs |-> os, members |-> ms, requests |-> qs]
    BY <1>1 DEF Tables
<1>3. e = UserCall(d, c) BY DEF CallMade
<1>4. CASE c.do = "user.create"
    <2>1. PICK vs : vs = Put(us, c.u, c.row) OBVIOUS
    <2>2. e = [users |-> vs, orgs |-> os, members |-> ms, requests |-> qs]
        BY <1>2, <1>3, <1>4, <2>1 DEF UserCall
    <2> QED BY <1>1, <2>1, <2>2 DEF Put
<1>5. CASE c.do \in {"user.update", "user.switch"}
    <2>1. PICK vs : vs = [us EXCEPT ![c.u] = c.row] OBVIOUS
    <2>2. e = [users |-> vs, orgs |-> os, members |-> ms, requests |-> qs]
        BY <1>2, <1>3, <1>5, <2>1 DEF UserCall
    <2>3. c.u \in DOMAIN us BY <1>1, <1>5 DEF Refused, Has
    <2> QED BY <1>1, <2>1, <2>2, <2>3
<1> QED BY <1>4, <1>5

LEMMA OrgPutEffect ==
    ASSUME NEW d, NEW g, Tables(d, g), NEW c \in Good(g), ~Refused(d, c),
           c.do \in {"org.create", "org.update"}, NEW e, e = CallMade(d, c)
    PROVE  /\ e.users = d.users /\ e.members = d.members
           /\ DOMAIN e.orgs = DOMAIN d.orgs \cup {c.o} /\ e.orgs[c.o] = c.u
           /\ \A o \in DOMAIN d.orgs \ {c.o} : e.orgs[o] = d.orgs[o]
<1>1. PICK us, os, ms, qs : us = d.users /\ os = d.orgs /\ ms = d.members /\ qs = d.requests
    OBVIOUS
<1>2. d = [users |-> us, orgs |-> os, members |-> ms, requests |-> qs]
    BY <1>1 DEF Tables
<1>3. e = OrgCall(d, c) BY DEF CallMade
<1>4. CASE c.do = "org.create"
    <2>1. PICK vs : vs = Put(os, c.o, c.u) OBVIOUS
    <2>2. e = [users |-> us, orgs |-> vs, members |-> ms, requests |-> qs]
        BY <1>2, <1>3, <1>4, <2>1 DEF OrgCall
    <2> QED BY <1>1, <2>1, <2>2 DEF Put
<1>5. CASE c.do = "org.update"
    <2>1. PICK vs : vs = [os EXCEPT ![c.o] = c.u] OBVIOUS
    <2>2. e = [users |-> us, orgs |-> vs, members |-> ms, requests |-> qs]
        BY <1>2, <1>3, <1>5, <2>1 DEF OrgCall
    <2>3. c.o \in DOMAIN os BY <1>1, <1>5 DEF Refused, Has
    <2> QED BY <1>1, <2>1, <2>2, <2>3
<1> QED BY <1>4, <1>5

LEMMA MemberEffect ==
    ASSUME NEW d, NEW g, Tables(d, g), NEW c \in Good(g), ~Refused(d, c),
           c.do \in {"member.create", "member.role", "member.delete", "member.deleteAll",
                     "request.create"},
           NEW e, e = CallMade(d, c)
    PROVE  /\ e.users = d.users /\ e.orgs = d.orgs
           /\ c.do = "member.create" => DOMAIN e.members = DOMAIN d.members \cup {<<c.u, c.o>>}
           /\ c.do = "member.delete" => DOMAIN e.members = DOMAIN d.members \ {<<c.u, c.o>>}
           /\ c.do = "member.deleteAll" => DOMAIN e.members = DOMAIN d.members \ ({c.u} \X Orgs)
           /\ c.do \in {"member.role", "request.create"} => DOMAIN e.members = DOMAIN d.members
<1>1. PICK us, os, ms, qs : us = d.users /\ os = d.orgs /\ ms = d.members /\ qs = d.requests
    OBVIOUS
<1>2. d = [users |-> us, orgs |-> os, members |-> ms, requests |-> qs]
    BY <1>1 DEF Tables
<1>3. CASE c.do = "request.create"
    <2>1. e = [users |-> us, orgs |-> os, members |-> ms, requests |-> Put(qs, c.u, "APPROVED")]
        BY <1>2, <1>3 DEF CallMade, RequestCall
    <2> QED BY <1>1, <1>3, <2>1
<1>4. CASE c.do = "member.create"
    <2>1. PICK ns : ns = Put(ms, <<c.u, c.o>>, c.role) OBVIOUS
    <2>2. e = [users |-> us, orgs |-> os, members |-> ns, requests |-> qs]
        BY <1>2, <1>4, <2>1 DEF CallMade, MemberCall
    <2>3. DOMAIN ns = DOMAIN ms \cup {<<c.u, c.o>>} BY <2>1 DEF Put
    <2> QED BY <1>1, <1>4, <2>2, <2>3
<1>5. CASE c.do = "member.role"
    <2>1. PICK k : k = <<c.u, c.o>> OBVIOUS
    <2>2. PICK ns : ns = [ms EXCEPT ![k] = c.role] OBVIOUS
    <2>3. e = [users |-> us, orgs |-> os, members |-> ns, requests |-> qs]
        BY <1>2, <1>5, <2>1, <2>2 DEF CallMade, MemberCall
    <2>4. DOMAIN ns = DOMAIN ms BY <2>2
    <2> QED BY <1>1, <1>5, <2>3, <2>4
<1>6. CASE c.do = "member.delete"
    <2>1. PICK ns : ns = Drop(ms, {<<c.u, c.o>>}) OBVIOUS
    <2>2. e = [users |-> us, orgs |-> os, members |-> ns, requests |-> qs]
        BY <1>2, <1>6, <2>1 DEF CallMade, MemberCall
    <2>3. DOMAIN ns = DOMAIN ms \ {<<c.u, c.o>>} BY <2>1 DEF Drop, Restrict
    <2> QED BY <1>1, <1>6, <2>2, <2>3
<1>7. CASE c.do = "member.deleteAll"
    <2>1. PICK ns : ns = Drop(ms, {c.u} \X Orgs) OBVIOUS
    <2>2. e = [users |-> us, orgs |-> os, members |-> ns, requests |-> qs]
        BY <1>2, <1>7, <2>1 DEF CallMade, MemberCall
    <2>3. DOMAIN ns = DOMAIN ms \ ({c.u} \X Orgs) BY <2>1 DEF Drop, Restrict
    <2> QED BY <1>1, <1>7, <2>2, <2>3
<1> QED BY <1>3, <1>4, <1>5, <1>6, <1>7

LEMMA DeleteEffect ==
    ASSUME NEW d, NEW g, Tables(d, g), NEW c \in Good(g),
           c.do \in {"user.delete", "org.delete"}, NEW e, e = CallMade(d, c)
    PROVE  /\ c.do = "user.delete" =>
                /\ e.orgs = d.orgs /\ e.members = d.members
                /\ DOMAIN e.users = DOMAIN d.users \ {c.u}
                /\ \A u \in DOMAIN e.users : e.users[u] = d.users[u]
           /\ c.do = "org.delete" =>
                /\ e.users = d.users
                /\ DOMAIN e.orgs = DOMAIN d.orgs \ {c.o}
                /\ \A o \in DOMAIN e.orgs : e.orgs[o] = d.orgs[o]
                /\ DOMAIN e.members = DOMAIN d.members \ (Users \X {c.o})
<1>1. PICK us, os, ms, qs : us = d.users /\ os = d.orgs /\ ms = d.members /\ qs = d.requests
    OBVIOUS
<1>2. d = [users |-> us, orgs |-> os, members |-> ms, requests |-> qs]
    BY <1>1 DEF Tables
<1>3. CASE c.do = "user.delete"
    <2>1. PICK vs : vs = Drop(us, {c.u}) OBVIOUS
    <2>2. e = [users |-> vs, orgs |-> os, members |-> ms, requests |-> qs]
        BY <1>2, <1>3, <2>1 DEF CallMade, UserCall
    <2>3. DOMAIN vs = DOMAIN us \ {c.u} /\ \A u \in DOMAIN vs : vs[u] = us[u]
        BY <2>1 DEF Drop, Restrict
    <2> QED BY <1>1, <1>3, <2>2, <2>3
<1>4. CASE c.do = "org.delete"
    <2>1. PICK vs, ns : vs = Drop(os, {c.o}) /\ ns = Drop(ms, Users \X {c.o}) OBVIOUS
    <2>2. e = [users |-> us, orgs |-> vs, members |-> ns, requests |-> qs]
        BY <1>2, <1>4, <2>1 DEF CallMade, OrgCall, DeleteOrg
    <2>3. DOMAIN vs = DOMAIN os \ {c.o} /\ \A o \in DOMAIN vs : vs[o] = os[o]
        BY <2>1 DEF Drop, Restrict
    <2>4. DOMAIN ns = DOMAIN ms \ (Users \X {c.o}) BY <2>1 DEF Drop, Restrict
    <2> QED BY <1>1, <1>4, <2>2, <2>3, <2>4
<1> QED BY <1>3, <1>4

------------------------------------------------------------------------------
(* The calls of a smooth request, one by one. *)

LEMMA PlainTurn ==
    ASSUME NEW d, NEW c, c.do \notin {"demote", "promote", "fallback", "release"}
    PROVE  Turns(d, c) = {<<c>>}
BY DEF Turns

(* Call c of a building request: who was a member still is, and who is      *)
(* placed somewhere was there already or is placed by c.                    *)
Gathers(c, d, e) ==
    /\ DOMAIN d.members \subseteq DOMAIN e.members
    /\ c.do \in {"member.create", "promote"} => <<c.u, c.o>> \in DOMAIN e.members
    /\ \A u \in DOMAIN e.users : \/ u \in DOMAIN d.users /\ e.users[u] = d.users[u]
                                 \/ e.users[u].org = None
                                 \/ <<u, e.users[u].org>> \in Places(c)
    /\ \A o \in DOMAIN e.orgs : \/ o \in DOMAIN d.orgs /\ e.orgs[o] = d.orgs[o]
                                \/ <<e.orgs[o], o>> \in Places(c)

LEMMA GentleGathers ==
    ASSUME Tables(db, granted), NEW c \in Good(granted), c.do \in Gentle,
           NEW k \in Turns(db, c), k # <<>> => ~Refused(db, k[1]),
           NEW e, e = IF k = <<>> THEN db ELSE CallMade(db, k[1])
    PROVE  Gathers(c, db, e)
<1>1. CASE c.do \in {"user.create", "user.update", "user.switch"}
    <2>1. k = <<c>> BY <1>1, PlainTurn
    <2>2. e = CallMade(db, c) /\ ~Refused(db, c) BY <2>1
    <2>3. /\ e.orgs = db.orgs /\ e.members = db.members
          /\ DOMAIN e.users = DOMAIN db.users \cup {c.u} /\ e.users[c.u] = c.row
          /\ \A u \in DOMAIN db.users \ {c.u} : e.users[u] = db.users[u]
        BY <1>1, <2>2, UserPutEffect
    <2>4. c.row.org = None \/ <<c.u, c.row.org>> \in Places(c) BY <1>1 DEF Places
    <2> QED BY <1>1, <2>3, <2>4 DEF Gathers
<1>2. CASE c.do \in {"org.create", "org.update"}
    <2>1. k = <<c>> BY <1>2, PlainTurn
    <2>2. e = CallMade(db, c) /\ ~Refused(db, c) BY <2>1
    <2>3. /\ e.users = db.users /\ e.members = db.members
          /\ DOMAIN e.orgs = DOMAIN db.orgs \cup {c.o} /\ e.orgs[c.o] = c.u
          /\ \A o \in DOMAIN db.orgs \ {c.o} : e.orgs[o] = db.orgs[o]
        BY <1>2, <2>2, OrgPutEffect
    <2>4. <<c.u, c.o>> \in Places(c) BY <1>2 DEF Places
    <2> QED BY <1>2, <2>3, <2>4 DEF Gathers
<1>3. CASE c.do \in {"member.create", "member.role", "request.create"}
    <2>1. k = <<c>> BY <1>3, PlainTurn
    <2>2. e = CallMade(db, c) /\ ~Refused(db, c) BY <2>1
    <2>3. /\ e.users = db.users /\ e.orgs = db.orgs
          /\ c.do = "member.create" => DOMAIN e.members = DOMAIN db.members \cup {<<c.u, c.o>>}
          /\ c.do \in {"member.role", "request.create"} => DOMAIN e.members = DOMAIN db.members
        BY <1>3, <2>2, MemberEffect
    <2> QED BY <1>3, <2>3 DEF Gathers
<1>4. CASE c.do \in {"demote", "promote"}
    <2>1. c.u \in Users /\ c.o \in Orgs BY <1>4 DEF Good, Call
    <2>2. PICK r : /\ r = IF c.do = "demote" THEN "U2" ELSE "U4"
                   /\ r \in Roles
        BY DEF Roles
    <2>3. PICK s, m : s = SetRole(c.u, c.o, r) /\ m = Member(c.u, c.o, r) OBVIOUS
    <2>4. \/ k = <<>> /\ c.do = "demote"
          \/ k = <<s>> /\ <<c.u, c.o>> \in DOMAIN db.members
          \/ k = <<m>> /\ c.do = "promote"
        BY <1>4, <2>2, <2>3 DEF Turns, Demoted, Promoted, Has
    <2>5. CASE k = <<>> /\ c.do = "demote" BY <2>5 DEF Gathers
    <2>6. CASE k = <<s>> /\ <<c.u, c.o>> \in DOMAIN db.members
        <3>1. s.do = "member.role" /\ s.u = c.u /\ s.o = c.o BY <2>3 DEF SetRole
        <3>2. e = CallMade(db, s) /\ ~Refused(db, s) BY <2>6
        <3>3. k # <<>> BY <2>6
        <3>4. s \in Good(granted) BY <2>6, <3>3, TurnGood
        <3>5. e.users = db.users /\ e.orgs = db.orgs /\ DOMAIN e.members = DOMAIN db.members
            BY <3>1, <3>2, <3>4, MemberEffect
        <3> QED BY <1>4, <2>6, <3>5 DEF Gathers
    <2>7. CASE k = <<m>> /\ c.do = "promote"
        <3>1. m.do = "member.create" /\ m.u = c.u /\ m.o = c.o BY <2>3 DEF Member
        <3>2. e = CallMade(db, m) /\ ~Refused(db, m) BY <2>7
        <3>3. k # <<>> BY <2>7
        <3>4. m \in Good(granted) BY <2>7, <3>3, TurnGood
        <3>5. /\ e.users = db.users /\ e.orgs = db.orgs
              /\ DOMAIN e.members = DOMAIN db.members \cup {<<m.u, m.o>>}
            BY <3>1, <3>2, <3>4, MemberEffect
        <3> QED BY <2>7, <3>1, <3>5 DEF Gathers
    <2> QED BY <2>4, <2>5, <2>6, <2>7
<1> QED BY <1>1, <1>2, <1>3, <1>4 DEF Gentle

LEMMA BuildingStep ==
    ASSUME Tables(db, granted), NEW calls \in Seq(Good(granted)), calls # <<>>,
           Building(calls, db), NEW k \in Turns(db, Head(calls)),
           k # <<>> => ~Refused(db, k[1]),
           NEW e, e = IF k = <<>> THEN db ELSE CallMade(db, k[1])
    PROVE  IF Tail(calls) = <<>> THEN Consistent(e) ELSE Building(Tail(calls), e)
<1>1. PICK c, t : c = Head(calls) /\ t = Tail(calls) OBVIOUS
<1>2. c \in Good(granted) BY <1>1, HeadTailProperties
<1>3. Range(calls) = {c} \cup Range(t) BY <1>1, RangeSplit
<1>4. /\ c.do \in Gentle /\ Places(c) \subseteq DOMAIN db.members \cup Due(calls)
      /\ \A x \in Range(t) : /\ x.do \in Gentle
                             /\ Places(x) \subseteq DOMAIN db.members \cup Due(calls)
      /\ Covered(db, Users, Users, DOMAIN db.members \cup Due(calls))
    BY <1>3 DEF Building
<1>5. Gathers(c, db, e) BY <1>1, <1>2, <1>4, GentleGathers
<1>6. Due(calls) = Due(t) \cup (IF c.do \in {"member.create", "promote"}
                                THEN {<<c.u, c.o>>} ELSE {})
    BY <1>1, DueSplit
<1>7. PICK P, Q : /\ P = DOMAIN db.members \cup Due(calls)
                  /\ Q = DOMAIN e.members \cup Due(t)
    OBVIOUS
<1>8. P \subseteq Q BY <1>5, <1>6, <1>7 DEF Gathers
<1>9. Covered(e, Users, Users, Q)
    <2>1. ASSUME NEW u \in DOMAIN e.users \cap Users, e.users[u].org # None
          PROVE  <<u, e.users[u].org>> \in Q
        BY <1>4, <1>5, <1>7, <1>8, <2>1 DEF Gathers, Covered
    <2>2. ASSUME NEW o \in DOMAIN e.orgs, e.orgs[o] \in Users
          PROVE  <<e.orgs[o], o>> \in Q
        BY <1>4, <1>5, <1>7, <1>8, <2>2 DEF Gathers, Covered
    <2> QED BY <2>1, <2>2 DEF Covered
<1>10. CASE t = <<>>
    <2>1. Due(t) = {} BY <1>10 DEF Due, Range
    <2> QED BY <1>1, <1>7, <1>9, <1>10, <2>1 DEF Consistent
<1>11. CASE t # <<>> BY <1>1, <1>4, <1>7, <1>8, <1>9, <1>11 DEF Building
<1> QED BY <1>10, <1>11

LEMMA RemovingStep ==
    ASSUME Tables(db, granted), NEW calls \in Seq(Good(granted)), calls # <<>>,
           Removing(calls, db), NEW k \in Turns(db, Head(calls)),
           k # <<>> => ~Refused(db, k[1]),
           NEW e, e = IF k = <<>> THEN db ELSE CallMade(db, k[1])
    PROVE  IF Tail(calls) = <<>> THEN Consistent(e) ELSE Removing(Tail(calls), e)
<1>1. PICK u \in DOMAIN db.users, o \in Orgs, row \in Row :
         \/ /\ calls = <<Unjoin(u, o)>> /\ db.users[u].org # o
            /\ ~(Has(db.orgs, o) /\ db.orgs[o] = u) /\ Consistent(db)
         \/ /\ calls = <<Unjoin(u, o), Fallback(u, row)>>
            /\ ~(Has(db.orgs, o) /\ db.orgs[o] = u) /\ Consistent(db)
         \/ /\ calls = <<Fallback(u, row)>>
            /\ Covered(db, Users \ {u}, Users, DOMAIN db.members)
    BY DEF Removing
<1>2. u \in Users BY DEF Tables
<1>3. PICK c, f : c = Unjoin(u, o) /\ f = Fallback(u, row) OBVIOUS
<1>4. c.do = "member.delete" /\ c.u = u /\ c.o = o BY <1>3 DEF Unjoin
<1>5. f.do = "fallback" /\ f.u = u /\ f.row = row BY <1>3 DEF Fallback
<1>6. ASSUME ~(Has(db.orgs, o) /\ db.orgs[o] = u), Consistent(db), Head(calls) = c
      PROVE  /\ e.users = db.users
             /\ Covered(e, Users \ {u}, Users, DOMAIN e.members)
             /\ db.users[u].org # o => Consistent(e)
    <2>1. k = <<c>> BY <1>4, <1>6, PlainTurn
    <2>2. e = CallMade(db, c) /\ ~Refused(db, c) BY <2>1
    <2>3. c \in Good(granted) BY <1>6, HeadTailProperties
    <2>4. e.users = db.users /\ e.orgs = db.orgs /\ DOMAIN e.members = DOMAIN db.members \ {<<u, o>>}
        BY <1>4, <2>2, <2>3, MemberEffect
    <2>5. \A p \in DOMAIN db.orgs : db.orgs[p] \in Users => <<db.orgs[p], p>> \in DOMAIN e.members
        BY <1>6, <2>4 DEF Has, Consistent, Covered
    <2>6. ASSUME NEW x \in DOMAIN db.users \cap Users, db.users[x].org # None,
                 x # u \/ db.users[u].org # o
          PROVE  <<x, db.users[x].org>> \in DOMAIN e.members
        <3>1. <<x, db.users[x].org>> \in DOMAIN db.members BY <1>6, <2>6 DEF Consistent, Covered
        <3> QED BY <2>4, <2>6, <3>1
    <2> QED BY <2>4, <2>5, <2>6 DEF Consistent, Covered
<1>7. CASE /\ calls = <<c>> /\ db.users[u].org # o
           /\ ~(Has(db.orgs, o) /\ db.orgs[o] = u) /\ Consistent(db)
    <2>1. Head(calls) = c /\ Tail(calls) = <<>> BY <1>7
    <2> QED BY <1>6, <1>7, <2>1
<1>8. CASE /\ calls = <<c, f>>
           /\ ~(Has(db.orgs, o) /\ db.orgs[o] = u) /\ Consistent(db)
    <2>1. Head(calls) = c /\ Tail(calls) = <<f>> /\ Tail(calls) # <<>> BY <1>8
    <2>2. u \in DOMAIN e.users /\ Covered(e, Users \ {u}, Users, DOMAIN e.members)
        BY <1>6, <1>8, <2>1
    <2>3. Removing(<<Fallback(u, row)>>, e) BY <2>2 DEF Removing
    <2> QED BY <1>3, <2>1, <2>3
<1>9. CASE calls = <<f>> /\ Covered(db, Users \ {u}, Users, DOMAIN db.members)
    <2>1. Head(calls) = f /\ Tail(calls) = <<>> BY <1>9
    <2>2. f \in Good(granted) BY <2>1, HeadTailProperties
    <2>3. PICK v : /\ k = <<User(u, v)>>
                   /\ v.org = None \/ <<u, v.org>> \in DOMAIN db.members
        <3>1. k \in Fallbacks(db, f) BY <1>5, <2>1 DEF Turns
        <3>2. PICK rest : rest = {p \in Orgs : Has(db.members, <<u, p>>)} OBVIOUS
        <3>3. CASE rest = {}
            <4>1. PICK v : v = [row EXCEPT !.org = None, !.role = "U2"] OBVIOUS
            <4>2. "U2" \in Roles BY DEF Roles
            <4>3. v.org = None BY <4>1, <4>2, RowEdits
            <4>4. k = <<User(u, v)>> BY <1>5, <3>1, <3>2, <3>3, <4>1 DEF Fallbacks
            <4> QED BY <4>3, <4>4
        <3>4. CASE rest # {}
            <4>1. PICK p \in rest :
                     k = <<User(u, [row EXCEPT !.org = p, !.role = db.members[<<u, p>>]])>>
                BY <1>5, <3>1, <3>2, <3>4 DEF Fallbacks
            <4>2. PICK role : role = db.members[<<u, p>>] OBVIOUS
            <4>3. p \in Orgs /\ <<u, p>> \in DOMAIN db.members BY <3>2 DEF Has
            <4>4. role \in Roles BY <4>2, <4>3 DEF Tables
            <4>5. PICK v : v = [row EXCEPT !.org = p, !.role = role] OBVIOUS
            <4>6. v.org = p BY <4>3, <4>4, <4>5, RowEdits
            <4> QED BY <4>1, <4>2, <4>3, <4>5, <4>6
        <3> QED BY <3>3, <3>4
    <2>4. PICK w : w = User(u, v) OBVIOUS
    <2>5. w.do = "user.update" /\ w.u = u /\ w.row = v BY <2>4 DEF User
    <2>6. k = <<w>> /\ k # <<>> BY <2>3, <2>4
    <2>7. e = CallMade(db, w) /\ ~Refused(db, w) BY <2>6
    <2>8. w \in Good(granted) BY <2>1, <2>2, <2>6, TurnGood
    <2>9. /\ e.orgs = db.orgs /\ e.members = db.members
          /\ DOMAIN e.users = DOMAIN db.users \cup {u} /\ e.users[u] = v
          /\ \A x \in DOMAIN db.users \ {u} : e.users[x] = db.users[x]
        BY <2>5, <2>7, <2>8, UserPutEffect
    <2>10. ASSUME NEW x \in DOMAIN e.users \cap Users, e.users[x].org # None
           PROVE  <<x, e.users[x].org>> \in DOMAIN e.members
        BY <1>9, <2>3, <2>9, <2>10 DEF Covered
    <2>11. ASSUME NEW p \in DOMAIN e.orgs, e.orgs[p] \in Users
           PROVE  <<e.orgs[p], p>> \in DOMAIN e.members
        BY <1>9, <2>9, <2>11 DEF Covered
    <2> QED BY <2>1, <2>10, <2>11 DEF Consistent, Covered
<1> QED BY <1>1, <1>3, <1>7, <1>8, <1>9

LEMMA LeavingStep ==
    ASSUME Tables(db, granted), NEW calls \in Seq(Good(granted)), calls # <<>>,
           Leaving(calls, db), NEW k \in Turns(db, Head(calls)),
           k # <<>> => ~Refused(db, k[1]),
           NEW e, e = IF k = <<>> THEN db ELSE CallMade(db, k[1])
    PROVE  IF Tail(calls) = <<>> THEN Consistent(e) ELSE Leaving(Tail(calls), e)
<1>1. PICK u \in Users :
         /\ calls[Len(calls)].do = "user.delete"
         /\ \A c \in Range(calls) : /\ c.do \in {"release", "member.deleteAll", "user.delete"}
                                    /\ c.u = u
         /\ Covered(db, Users \ {u}, Users \ {u}, DOMAIN db.members)
    BY DEF Leaving
<1>2. PICK c, t : c = Head(calls) /\ t = Tail(calls) OBVIOUS
<1>3. c \in Good(granted) BY <1>2, HeadTailProperties
<1>4. Range(calls) = {c} \cup Range(t) BY <1>2, RangeSplit
<1>5. c.do \in {"release", "member.deleteAll", "user.delete"} /\ c.u = u BY <1>1, <1>4
<1>6. IF t = <<>> THEN c.do = "user.delete" ELSE t[Len(t)].do = "user.delete"
    <2>1. PICK n \in Nat : n = Len(calls) OBVIOUS
    <2>2. /\ n > 0 /\ Len(t) = n - 1 /\ c = calls[1]
          /\ \A i \in 1 .. n - 1 : t[i] = calls[i + 1]
        BY <1>2, <2>1, EmptySeq
    <2>3. CASE n = 1 BY <1>1, <1>2, <2>1, <2>2, <2>3
    <2>4. CASE n # 1
        <3>1. t[n - 1] = calls[n] /\ t # <<>> BY <2>2, <2>4
        <3> QED BY <1>1, <2>1, <2>2, <3>1
    <2> QED BY <2>3, <2>4
<1>7. /\ Covered(e, Users \ {u}, Users \ {u}, DOMAIN e.members)
      /\ c.do = "user.delete" => Consistent(e)
    <2>1. CASE c.do = "release"
        <3>1. \/ k = <<>> \/ k = <<[do |-> "error"]>>
              \/ /\ k = <<[do |-> "org.delete", o |-> c.o]>>
                 /\ c.o \in DOMAIN db.orgs /\ db.orgs[c.o] = u
                 /\ \A v \in DOMAIN db.users \ {u} : db.users[v].org # c.o
            BY <1>2, <1>5, <2>1 DEF Turns, Released, Has
        <3>2. CASE k = <<>> BY <1>1, <2>1, <3>2
        <3>3. CASE k = <<[do |-> "error"]>> BY <3>3 DEF Refused
        <3>4. CASE /\ k = <<[do |-> "org.delete", o |-> c.o]>>
                   /\ c.o \in DOMAIN db.orgs /\ db.orgs[c.o] = u
                   /\ \A v \in DOMAIN db.users \ {u} : db.users[v].org # c.o
            <4>1. PICK w : w = [do |-> "org.delete", o |-> c.o] OBVIOUS
            <4>2. w.do = "org.delete" /\ w.o = c.o BY <4>1
            <4>3. k = <<w>> /\ k # <<>> BY <3>4, <4>1
            <4>4. e = CallMade(db, w) BY <4>3
            <4>5. w \in Good(granted) BY <1>2, <1>3, <4>3, TurnGood
            <4>6. /\ e.users = db.users
                  /\ DOMAIN e.orgs = DOMAIN db.orgs \ {c.o}
                  /\ \A o \in DOMAIN e.orgs : e.orgs[o] = db.orgs[o]
                  /\ DOMAIN e.members = DOMAIN db.members \ (Users \X {c.o})
                BY <4>2, <4>4, <4>5, DeleteEffect
            <4>7. ASSUME NEW x \in DOMAIN e.users \cap (Users \ {u}), e.users[x].org # None
                  PROVE  <<x, e.users[x].org>> \in DOMAIN e.members
                BY <1>1, <3>4, <4>6, <4>7 DEF Covered
            <4>8. ASSUME NEW o \in DOMAIN e.orgs, e.orgs[o] \in Users \ {u}
                  PROVE  <<e.orgs[o], o>> \in DOMAIN e.members
                BY <1>1, <4>6, <4>8 DEF Covered
            <4> QED BY <2>1, <4>7, <4>8 DEF Covered
        <3> QED BY <3>1, <3>2, <3>3, <3>4
    <2>2. CASE c.do = "member.deleteAll"
        <3>1. k = <<c>> BY <1>2, <2>2, PlainTurn
        <3>2. e = CallMade(db, c) /\ ~Refused(db, c) BY <3>1
        <3>3. /\ e.users = db.users /\ e.orgs = db.orgs
              /\ DOMAIN e.members = DOMAIN db.members \ ({u} \X Orgs)
            BY <1>3, <1>5, <2>2, <3>2, MemberEffect
        <3>4. ASSUME NEW x \in Users \ {u}, NEW o, <<x, o>> \in DOMAIN db.members
              PROVE  <<x, o>> \in DOMAIN e.members
            BY <3>3, <3>4
        <3> QED BY <1>1, <2>2, <3>3, <3>4 DEF Covered
    <2>3. CASE c.do = "user.delete"
        <3>1. k = <<c>> BY <1>2, <2>3, PlainTurn
        <3>2. e = CallMade(db, c) /\ ~Refused(db, c) BY <3>1
        <3>3. /\ e.orgs = db.orgs /\ e.members = db.members
              /\ DOMAIN e.users = DOMAIN db.users \ {u}
              /\ \A x \in DOMAIN e.users : e.users[x] = db.users[x]
            BY <1>3, <1>5, <2>3, <3>2, DeleteEffect
        <3>4. \A o \in DOMAIN db.orgs : db.orgs[o] # u
            BY <1>5, <2>3, <3>2 DEF Refused, Range
        <3> QED BY <1>1, <3>3, <3>4 DEF Covered, Consistent
    <2> QED BY <1>5, <2>1, <2>2, <2>3
<1>8. CASE t = <<>> BY <1>2, <1>6, <1>7, <1>8
<1>9. CASE t # <<>>
    <2>1. \A x \in Range(t) : /\ x.do \in {"release", "member.deleteAll", "user.delete"}
                              /\ x.u = u
        BY <1>1, <1>4
    <2> QED BY <1>2, <1>6, <1>7, <1>9, <2>1 DEF Leaving
<1> QED BY <1>8, <1>9

LEMMA ResolvesStep ==
    ASSUME Tables(db, granted), NEW calls \in Seq(Good(granted)), calls # <<>>,
           Resolves(calls, db), NEW k \in Turns(db, Head(calls)),
           k # <<>> => ~Refused(db, k[1]),
           NEW e, e = IF k = <<>> THEN db ELSE CallMade(db, k[1])
    PROVE  IF Tail(calls) = <<>> THEN Consistent(e) ELSE Resolves(Tail(calls), e)
BY BuildingStep, RemovingStep, LeavingStep DEF Resolves

------------------------------------------------------------------------------
(* Steps that are not the beginning of a request. *)

LEMMA SameTables ==
    ASSUME NEW d, NEW e, e.users = d.users, e.orgs = d.orgs, e.members = d.members
    PROVE  /\ Consistent(d) => Consistent(e)
           /\ \A calls : Resolves(calls, d) => Resolves(calls, e)
<1>1. \A us, ow, P : Covered(d, us, ow, P) => Covered(e, us, ow, P) BY DEF Covered
<1>2. Consistent(d) => Consistent(e) BY <1>1 DEF Consistent
<1>3. ASSUME NEW calls, Resolves(calls, d) PROVE Resolves(calls, e)
    <2>1. CASE Building(calls, d) BY <1>1, <2>1 DEF Building, Resolves
    <2>2. CASE Removing(calls, d) BY <1>1, <1>2, <2>2 DEF Removing, Resolves
    <2>3. CASE Leaving(calls, d) BY <1>1, <2>3 DEF Leaving, Resolves
    <2> QED BY <1>3, <2>1, <2>2, <2>3 DEF Resolves
<1> QED BY <1>2, <1>3

LEMMA CommitSmooth ==
    ASSUME TenancyInv, SmoothInv, NEW r \in Requests, Commit(r)
    PROVE  SmoothInv'
<1> SUFFICES ASSUME smooth' PROVE /\ Quiet' => Consistent(db')
                                  /\ \A q \in Requests :
                                        req'[q] # Idle /\ (req'[q].begun \/ Quiet')
                                           => Resolves(req'[q].calls, db')
    BY DEF SmoothInv
<1>1. PICK calls : calls = req[r].calls OBVIOUS
<1>2. calls \in Seq(Good(granted)) /\ calls # <<>> BY <1>1 DEF TenancyInv, Commit
<1>3. smooth /\ Alone(r) BY DEF Commit
<1>4. \A q \in Requests \ {r} : req[q] = Idle BY <1>3 DEF Alone
<1>5. req[r].begun \/ Quiet BY <1>4 DEF Quiet, Idle
<1>6. Resolves(calls, db) BY <1>1, <1>3, <1>5 DEF SmoothInv, Commit
<1>7. PICK k \in Turns(db, Head(calls)) :
          /\ k # <<>> => ~Refused(db, k[1])
          /\ db' = IF k = <<>> THEN db ELSE CallMade(db, k[1])
    BY <1>1 DEF Commit
<1>8. Tables(db, granted) BY DEF TenancyInv
<1>9. IF Tail(calls) = <<>> THEN Consistent(db') ELSE Resolves(Tail(calls), db')
    BY <1>2, <1>6, <1>7, <1>8, ResolvesStep
<1>10. PICK q : /\ q = IF Tail(calls) = <<>> THEN Idle
                       ELSE [calls |-> Tail(calls), begun |-> TRUE]
                /\ req' = [req EXCEPT ![r] = q]
    BY <1>1 DEF Commit, End
<1>11. req'[r] = q /\ \A x \in Requests \ {r} : req'[x] = Idle
    BY <1>4, <1>10 DEF TenancyInv
<1>12. CASE Tail(calls) = <<>>
    <2>1. \A x \in Requests : req'[x] = Idle BY <1>10, <1>11, <1>12
    <2> QED BY <1>9, <1>12, <2>1
<1>13. CASE Tail(calls) # <<>>
    <2>1. q.calls = Tail(calls) /\ q.begun = TRUE BY <1>10, <1>13
    <2>2. ~Quiet' BY <1>11, <2>1 DEF Quiet
    <2> QED BY <1>9, <1>11, <1>13, <2>1, <2>2
<1> QED BY <1>12, <1>13

LEMMA StopSmooth ==
    ASSUME TenancyInv, SmoothInv, NEW r \in Requests, Fail(r) \/ Abandon(r)
    PROVE  SmoothInv'
<1> SUFFICES ASSUME smooth' PROVE SmoothInv' BY DEF SmoothInv
<1>1. Fail(r) BY DEF Abandon
<1>2. smooth /\ ~req[r].begun /\ db' = db BY <1>1 DEF Fail
<1>3. req' = [req EXCEPT ![r] = Idle] BY <1>1 DEF Fail, End
<1>4. req'[r] = Idle /\ \A q \in Requests \ {r} : req'[q] = req[q]
    BY <1>3 DEF TenancyInv
<1>5. Idle.begun = FALSE BY DEF Idle
<1>6. Quiet' => Quiet BY <1>2, <1>4, <1>5 DEF Quiet
<1>7. ASSUME NEW q \in Requests, req'[q] # Idle, req'[q].begun \/ Quiet'
      PROVE  Resolves(req'[q].calls, db')
    BY <1>2, <1>4, <1>6, <1>7 DEF SmoothInv
<1> QED BY <1>2, <1>6, <1>7 DEF SmoothInv

LEMMA StillSmooth ==
    ASSUME SmoothInv, db'.users = db.users, db'.orgs = db.orgs, db'.members = db.members,
           UNCHANGED <<req, smooth>>
    PROVE  SmoothInv'
<1>1. Quiet' = Quiet BY DEF Quiet
<1> QED BY <1>1, SameTables DEF SmoothInv

LEMMA ReviewSmooth ==
    ASSUME TenancyInv, SmoothInv, NEW r \in Requests, patch_access_request(r)
    PROVE  SmoothInv'
<1>1. PICK u, s : db' = [db EXCEPT !.requests[u] = s] BY DEF patch_access_request
<1>2. Tables(db, granted) BY DEF TenancyInv
<1>3. db'.users = db.users /\ db'.orgs = db.orgs /\ db'.members = db.members
    BY <1>1, <1>2 DEF Tables
<1>4. UNCHANGED <<req, smooth>> BY DEF patch_access_request
<1> QED BY <1>3, <1>4, StillSmooth

LEMMA RestartSmooth ==
    ASSUME TenancyInv, SmoothInv, Restart
    PROVE  SmoothInv'
<1> SUFFICES ASSUME smooth' PROVE SmoothInv' BY DEF SmoothInv
<1>1. Consistent(db) BY DEF Restart, SmoothInv, Quiet
<1>2. \A r \in Requests : req'[r] = Idle BY DEF Restart
<1>3. PICK email \in Users : db' \in seed_admin_user(db, email) BY DEF Restart
<1>4. PICK us, os, ms, qs : /\ us = db.users /\ os = db.orgs
                            /\ ms = db.members /\ qs = db.requests
    OBVIOUS
<1>5. db = [users |-> us, orgs |-> os, members |-> ms, requests |-> qs]
    BY <1>4 DEF TenancyInv, Tables
<1>6. PICK v : v = [org |-> None, role |-> "U3", active |-> TRUE] OBVIOUS
<1>7. v.org = None BY <1>6
<1>8. \/ db' = db
      \/ \E a \in DOMAIN us : db' = [db EXCEPT !.users[a].org = None]
      \/ db' = [db EXCEPT !.users = Put(@, email, v)]
    BY <1>3, <1>4, <1>6 DEF seed_admin_user
<1>9. CASE db' = db BY <1>1, <1>2, <1>9 DEF SmoothInv
<1>10. ASSUME NEW vs, db' = [users |-> vs, orgs |-> os, members |-> ms, requests |-> qs],
              \A u \in DOMAIN vs : (u \in DOMAIN us /\ vs[u] = us[u]) \/ vs[u].org = None
       PROVE  SmoothInv'
    <2>1. db'.users = vs /\ db'.orgs = os /\ db'.members = ms BY <1>10
    <2>2. Consistent(db') BY <1>1, <1>4, <1>10, <2>1 DEF Consistent, Covered
    <2> QED BY <1>2, <2>2 DEF SmoothInv
<1>11. CASE \E a \in DOMAIN us : db' = [db EXCEPT !.users[a].org = None]
    <2>1. PICK a \in DOMAIN us : db' = [db EXCEPT !.users[a].org = None] BY <1>11
    <2>2. PICK w : w = [us[a] EXCEPT !.org = None] OBVIOUS
    <2>3. us[a] \in Row BY <1>4 DEF TenancyInv, Tables
    <2>4. w.org = None BY <2>2, <2>3 DEF Row
    <2>5. PICK vs : vs = [us EXCEPT ![a] = w] OBVIOUS
    <2>6. db' = [users |-> vs, orgs |-> os, members |-> ms, requests |-> qs]
        BY <1>5, <2>1, <2>2, <2>5
    <2>7. \A u \in DOMAIN vs : (u \in DOMAIN us /\ vs[u] = us[u]) \/ vs[u].org = None
        BY <2>4, <2>5
    <2> QED BY <1>10, <2>6, <2>7
<1>12. CASE db' = [db EXCEPT !.users = Put(@, email, v)]
    <2>1. PICK vs : vs = Put(us, email, v) OBVIOUS
    <2>2. db' = [users |-> vs, orgs |-> os, members |-> ms, requests |-> qs]
        BY <1>5, <1>12, <2>1
    <2>3. \A u \in DOMAIN vs : (u \in DOMAIN us /\ vs[u] = us[u]) \/ vs[u].org = None
        BY <1>7, <2>1 DEF Put
    <2> QED BY <1>10, <2>2, <2>3
<1> QED BY <1>8, <1>9, <1>11, <1>12

------------------------------------------------------------------------------
(* Requests begin with calls that resolve. *)

LEMMA BuildingIntro ==
    ASSUME NEW d, Consistent(d), NEW calls,
           \A c \in Range(calls) :
              c.do \in Gentle /\ Places(c) \subseteq DOMAIN d.members \cup Due(calls)
    PROVE  Resolves(calls, d)
<1>1. Covered(d, Users, Users, DOMAIN d.members \cup Due(calls))
    BY DEF Consistent, Covered
<1> QED BY <1>1 DEF Building, Resolves

LEMMA DueIntro ==
    ASSUME NEW calls, NEW c \in Range(calls), c.do \in {"member.create", "promote"}
    PROVE  <<c.u, c.o>> \in Due(calls)
BY DEF Due

LEMMA RowPlaces ==
    ASSUME NEW u, NEW v, NEW P, v.org = None \/ <<u, v.org>> \in P
    PROVE  /\ User(u, v).do \in Gentle /\ Places(User(u, v)) \subseteq P
           /\ NewUser(u, v).do \in Gentle /\ Places(NewUser(u, v)) \subseteq P
<1>1. User(u, v).do = "user.update" /\ User(u, v).u = u /\ User(u, v).row = v BY DEF User
<1>2. NewUser(u, v).do = "user.create" /\ NewUser(u, v).u = u /\ NewUser(u, v).row = v
    BY DEF NewUser
<1>3. Places(User(u, v)) \subseteq P BY <1>1 DEF Places
<1>4. Places(NewUser(u, v)) \subseteq P BY <1>2 DEF Places
<1> QED BY <1>1, <1>2, <1>3, <1>4 DEF Gentle

LEMMA OtherPlaces ==
    ASSUME NEW u, NEW o, NEW role, NEW P
    PROVE  /\ Member(u, o, role).do \in Gentle /\ Places(Member(u, o, role)) = {}
           /\ SetRole(u, o, role).do \in Gentle /\ Places(SetRole(u, o, role)) = {}
BY DEF Member, SetRole, Places, Gentle

LEMMA StartSmooth ==
    ASSUME TenancyInv, SmoothInv, NEW r \in Requests, NEW calls, Start(r, calls),
           Consistent(db) => Resolves(calls, db)
    PROVE  SmoothInv'
<1> SUFFICES ASSUME smooth' PROVE SmoothInv' BY DEF SmoothInv
<1>1. smooth /\ req[r] = Idle /\ db' = db BY DEF Start
<1>2. PICK q : q = [calls |-> calls, begun |-> FALSE] /\ req' = [req EXCEPT ![r] = q]
    BY DEF Start
<1>3. q.calls = calls /\ q.begun = FALSE BY <1>2
<1>4. req'[r] = q /\ \A x \in Requests \ {r} : req'[x] = req[x] BY <1>2 DEF TenancyInv
<1>5. Idle.begun = FALSE BY DEF Idle
<1>6. Quiet' = Quiet BY <1>1, <1>3, <1>4, <1>5 DEF Quiet
<1>7. ASSUME NEW x \in Requests, req'[x] # Idle, req'[x].begun \/ Quiet'
      PROVE  Resolves(req'[x].calls, db')
    <2>1. CASE x = r
        <3>1. Quiet BY <1>3, <1>4, <1>6, <1>7, <2>1
        <3>2. Consistent(db) BY <1>1, <3>1 DEF SmoothInv
        <3> QED BY <1>1, <1>3, <1>4, <2>1, <3>2
    <2>2. CASE x # r BY <1>1, <1>4, <1>6, <1>7, <2>2 DEF SmoothInv
    <2> QED BY <2>1, <2>2
<1> QED BY <1>1, <1>6, <1>7 DEF SmoothInv

LEMMA FoundingPlaces ==
    ASSUME NEW u \in Users, NEW o \in Orgs, NEW v \in Row
    PROVE  /\ <<u, o>> \in Due(Founding(u, o, v))
           /\ \A c \in Range(Founding(u, o, v)) : c.do \in Gentle /\ Places(c) \subseteq {<<u, o>>}
<1>1. [v EXCEPT !.org = o].org = o BY DEF Row
<1>2. PICK a, b, c : /\ a = [do |-> "org.create", o |-> o, u |-> u]
                     /\ b = User(u, [v EXCEPT !.org = o])
                     /\ c = Member(u, o, v.role)
    OBVIOUS
<1>3. Range(Founding(u, o, v)) = {a, b, c} BY <1>2, TupleRange DEF Founding
<1>4. a.do \in Gentle /\ Places(a) \subseteq {<<u, o>>} BY <1>2 DEF Gentle, Places
<1>5. b.do \in Gentle /\ Places(b) \subseteq {<<u, o>>} BY <1>1, <1>2, RowPlaces
<1>6. c.do \in Gentle /\ Places(c) \subseteq {<<u, o>>} BY <1>2, OtherPlaces
<1>7. c.do = "member.create" /\ c.u = u /\ c.o = o BY <1>2 DEF Member
<1>8. <<u, o>> \in Due(Founding(u, o, v)) BY <1>3, <1>7, DueIntro
<1> QED BY <1>3, <1>4, <1>5, <1>6, <1>8

LEMMA FoundSmooth ==
    ASSUME TenancyInv, SmoothInv, NEW r \in Requests, create_organization(r)
    PROVE  SmoothInv'
<1>1. PICK a \in Users, o \in Orgs : CurrentUser(a) /\ Start(r, Founding(a, o, db.users[a]))
    BY DEF create_organization
<1>2. db.users[a] \in Row BY <1>1 DEF TenancyInv, Tables, CurrentUser, Has
<1>3. PICK f : f = Founding(a, o, db.users[a]) OBVIOUS
<1>4. <<a, o>> \in Due(f) BY <1>2, <1>3, FoundingPlaces
<1>5. \A c \in Range(f) : c.do \in Gentle /\ Places(c) \subseteq {<<a, o>>}
    BY <1>2, <1>3, FoundingPlaces
<1>6. \A c \in Range(f) : c.do \in Gentle /\ Places(c) \subseteq DOMAIN db.members \cup Due(f)
    BY <1>4, <1>5
<1>7. Consistent(db) => Resolves(f, db) BY <1>6, BuildingIntro
<1> QED BY <1>1, <1>3, <1>7, StartSmooth

LEMMA RequestAccessSmooth ==
    ASSUME TenancyInv, SmoothInv, NEW r \in Requests, create_access_request(r)
    PROVE  SmoothInv'
<1>1. PICK v : v = [org |-> None, role |-> "U4", active |-> FALSE] OBVIOUS
<1>2. PICK u \in Users, o \in Orgs :
          Start(r, <<NewUser(u, v)>> \o Founding(u, o, v)
                     \o <<[do |-> "request.create", u |-> u]>>)
    BY <1>1 DEF create_access_request
<1>3. v \in Row /\ v.org = None BY <1>1 DEF Row, Roles
<1>4. PICK a, c : a = NewUser(u, v) /\ c = [do |-> "request.create", u |-> u] OBVIOUS
<1>5. PICK g : g = {<<u, o>>} OBVIOUS
<1>6. a \in Good(g) /\ c \in Good(g) BY <1>3, <1>4, RowCalls, LastCalls
<1>7. PICK f : f = Founding(u, o, v) OBVIOUS
<1>8. f \in Seq(Good(g)) BY <1>3, <1>5, <1>7, FoundingGood
<1>9. PICK as, cs : as = <<a>> /\ cs = <<c>> OBVIOUS
<1>10. as \in Seq(Good(g)) /\ cs \in Seq(Good(g)) BY <1>6, <1>9
<1>101. Range(as) = {a} /\ Range(cs) = {c} BY <1>9, TupleRange
<1>11. PICK s : s = as \o f OBVIOUS
<1>12. s \in Seq(Good(g)) /\ Range(s) = {a} \cup Range(f)
    <2>1. as \o f \in Seq(Good(g)) /\ Range(as \o f) = Range(as) \cup Range(f)
        BY <1>8, <1>10, JoinedCalls
    <2> QED BY <1>101, <1>11, <2>1
<1>13. PICK w : w = s \o cs OBVIOUS
<1>14. Range(w) = Range(f) \cup {a, c}
    <2>1. Range(s \o cs) = Range(s) \cup Range(cs) BY <1>10, <1>12, JoinedCalls
    <2> QED BY <1>101, <1>12, <1>13, <2>1
<1>15. <<u, o>> \in Due(w)
    <2>1. <<u, o>> \in Due(f) BY <1>3, <1>7, FoundingPlaces
    <2> QED BY <1>14, <2>1 DEF Due
<1>16. \A x \in Range(f) : x.do \in Gentle /\ Places(x) \subseteq {<<u, o>>}
    BY <1>3, <1>7, FoundingPlaces
<1>17. a.do \in Gentle /\ Places(a) \subseteq {<<u, o>>} BY <1>3, <1>4, RowPlaces
<1>18. c.do \in Gentle /\ Places(c) = {} BY <1>4 DEF Gentle, Places
<1>19. \A x \in Range(w) : x.do \in Gentle /\ Places(x) \subseteq DOMAIN db.members \cup Due(w)
    BY <1>14, <1>15, <1>16, <1>17, <1>18
<1>20. Consistent(db) => Resolves(w, db) BY <1>19, BuildingIntro
<1>21. Start(r, w) BY <1>2, <1>4, <1>7, <1>9, <1>11, <1>13
<1> QED BY <1>20, <1>21, StartSmooth

(* Two lists of one call each. *)
LEMMA PairOf ==
    ASSUME NEW a, NEW b
    PROVE  <<a>> \o <<b>> = <<a, b>>
<1>1. PICK S : S = {a, b} OBVIOUS
<1>2. PICK s, t, p : s = <<a>> /\ t = <<b>> /\ p = <<a, b>> OBVIOUS
<1>3. s \in Seq(S) /\ t \in Seq(S) /\ p \in Seq(S) BY <1>1, <1>2
<1>4. Len(s) = 1 /\ Len(t) = 1 /\ Len(p) = 2 BY <1>2
<1>5. /\ s \o t \in Seq(S) /\ Len(s \o t) = 2
      /\ \A i \in 1 .. 2 : (s \o t)[i] = IF i <= 1 THEN s[i] ELSE t[i - 1]
    BY <1>3, <1>4, ConcatProperties
<1>6. \A i \in 1 .. 2 : (s \o t)[i] = p[i] BY <1>2, <1>5
<1>7. s \o t = p BY <1>3, <1>4, <1>5, <1>6, SeqEqual
<1> QED BY <1>2, <1>7

LEMMA TransferSmooth ==
    ASSUME TenancyInv, SmoothInv, NEW r \in Requests, transfer_ownership(r)
    PROVE  SmoothInv'
<1>1. PICK o \in DOMAIN db.orgs, n \in DOMAIN db.users : Start(r, Handover(db, o, n))
    BY DEF transfer_ownership
<1>2. PICK old : old = db.orgs[o] OBVIOUS
<1>3. /\ o \in Orgs /\ n \in Users /\ old \in DOMAIN db.users /\ old \in Users
      /\ db.users[n] \in Row /\ db.users[old] \in Row
    BY <1>2 DEF TenancyInv, Tables
<1>4. PICK v, w : /\ v = [db.users[old] EXCEPT !.role = "U2"]
                  /\ w = [db.users[n] EXCEPT !.role = "U4"]
    OBVIOUS
<1>5. v \in Row /\ v.org = db.users[old].org /\ w \in Row /\ w.org = db.users[n].org
    BY <1>3, <1>4, RowEdits DEF Roles
<1>6. PICK a, b, c, e, p : /\ a = [do |-> "org.update", o |-> o, u |-> n]
                           /\ b = User(old, v)
                           /\ c = [do |-> "demote", u |-> old, o |-> o]
                           /\ e = User(n, w)
                           /\ p = [do |-> "promote", u |-> n, o |-> o]
    OBVIOUS
<1>7. PICK as, bs, cs : /\ as = <<a>> /\ cs = <<e, p>>
                        /\ bs = IF db.users[old].role # "U4" THEN <<>> ELSE <<b, c>>
    OBVIOUS
<1>8. Handover(db, o, n) = as \o bs \o cs BY <1>2, <1>4, <1>6, <1>7 DEF Handover
<1>9. PICK S : S = {a, b, c, e, p} OBVIOUS
<1>10. /\ as \in Seq(S) /\ Range(as) \subseteq S
       /\ bs \in Seq(S) /\ Range(bs) \subseteq S
       /\ cs \in Seq(S) /\ Range(cs) \subseteq S /\ p \in Range(cs)
    <2>1. as \in Seq(S) /\ cs \in Seq(S) BY <1>7, <1>9
    <2>2. <<b, c>> \in Seq(S) BY <1>9
    <2>3. bs \in Seq(S) BY <1>7, <2>2, EmptySeq
    <2>4. p \in Range(cs) BY <1>7, TupleRange
    <2> QED BY <2>1, <2>3, <2>4, RangeOfSeq
<1>11. PICK s : s = as \o bs OBVIOUS
<1>12. PICK t : t = s \o cs OBVIOUS
<1>13. Range(t) \subseteq S /\ p \in Range(t)
    <2>1. s \in Seq(S) /\ Range(s) = Range(as) \cup Range(bs)
        BY <1>10, <1>11, ConcatProperties, RangeConcatenation
    <2>2. t \in Seq(S) /\ Range(t) = Range(s) \cup Range(cs)
        BY <1>10, <1>12, <2>1, ConcatProperties, RangeConcatenation
    <2> QED BY <1>10, <2>1, <2>2
<1>14. <<n, o>> \in Due(t)
    <2>1. p.do = "promote" /\ p.u = n /\ p.o = o BY <1>6
    <2> QED BY <1>13, <2>1, DueIntro
<1>15. ASSUME Consistent(db) PROVE Resolves(t, db)
    <2>1. PICK P : P = DOMAIN db.members \cup Due(t) OBVIOUS
    <2>2. /\ v.org = None \/ <<old, v.org>> \in P
          /\ w.org = None \/ <<n, w.org>> \in P
        BY <1>3, <1>5, <1>15, <2>1 DEF Consistent, Covered
    <2>3. a.do \in Gentle /\ Places(a) \subseteq P BY <1>6, <1>14, <2>1 DEF Gentle, Places
    <2>4. b.do \in Gentle /\ Places(b) \subseteq P BY <1>6, <2>2, RowPlaces
    <2>5. c.do \in Gentle /\ Places(c) \subseteq P BY <1>6 DEF Gentle, Places
    <2>6. e.do \in Gentle /\ Places(e) \subseteq P BY <1>6, <2>2, RowPlaces
    <2>7. p.do \in Gentle /\ Places(p) \subseteq P BY <1>6 DEF Gentle, Places
    <2>8. \A x \in Range(t) : x.do \in Gentle /\ Places(x) \subseteq P
        BY <1>9, <1>13, <2>3, <2>4, <2>5, <2>6, <2>7
    <2> QED BY <1>15, <2>1, <2>8, BuildingIntro
<1>16. Start(r, t) BY <1>1, <1>8, <1>11, <1>12
<1> QED BY <1>15, <1>16, StartSmooth

LEMMA InviteSmooth ==
    ASSUME TenancyInv, SmoothInv, NEW r \in Requests, invite_user(r)
    PROVE  SmoothInv'
<1>1. PICK o \in DOMAIN db.orgs, u \in Users, role \in Roles : Start(r, Invitation(u, o, role))
    BY DEF invite_user
<1>2. o \in Orgs BY DEF TenancyInv, Tables
<1>3. PICK m, v, w :
          /\ m = Member(u, o, role)
          /\ v = [db.users[u] EXCEPT !.org = o, !.role = role, !.active = FALSE]
          /\ w = [org |-> o, role |-> role, active |-> FALSE]
    OBVIOUS
<1>4. m.do = "member.create" /\ m.u = u /\ m.o = o BY <1>3 DEF Member
<1>5. PICK t : t = Invitation(u, o, role) OBVIOUS
<1>6. m \in Range(t) /\ \A x \in Range(t) : x.do \in Gentle /\ Places(x) \subseteq {<<u, o>>}
    <2>1. m.do \in Gentle /\ Places(m) \subseteq {<<u, o>>} BY <1>3, OtherPlaces
    <2>2. CASE Has(db.users, u) /\ db.users[u].org # None
        <3>1. t = <<m>> \o <<>> BY <1>3, <1>5, <2>2 DEF Invitation, _invite_existing_user
        <3>2. t = <<m>> BY <3>1
        <3>3. Range(t) = {m} BY <3>2, TupleRange
        <3> QED BY <2>1, <3>3
    <2>3. CASE Has(db.users, u) /\ db.users[u].org = None
        <3>1. PICK e : e = User(u, v) OBVIOUS
        <3>2. t = <<m>> \o <<e>>
            BY <1>3, <1>5, <2>3, <3>1 DEF Invitation, _invite_existing_user
        <3>3. t = <<m, e>> BY <3>2, PairOf
        <3>4. Range(t) = {m, e} BY <3>3, TupleRange
        <3>5. db.users[u] \in Row BY <2>3 DEF TenancyInv, Tables, Has
        <3>6. v.org = o BY <1>2, <1>3, <3>5, RowEdits
        <3>7. e.do \in Gentle /\ Places(e) \subseteq {<<u, o>>} BY <3>1, <3>6, RowPlaces
        <3> QED BY <2>1, <3>4, <3>7
    <2>4. CASE ~Has(db.users, u)
        <3>1. t = <<NewUser(u, w), m>> BY <1>3, <1>5, <2>4 DEF Invitation, _invite_new_user
        <3>2. Range(t) = {NewUser(u, w), m} BY <3>1, TupleRange
        <3>3. w.org = o BY <1>3
        <3>4. NewUser(u, w).do \in Gentle /\ Places(NewUser(u, w)) \subseteq {<<u, o>>}
            BY <3>3, RowPlaces
        <3> QED BY <2>1, <3>2, <3>4
    <2> QED BY <2>2, <2>3, <2>4
<1>7. <<u, o>> \in Due(t) BY <1>4, <1>6, DueIntro
<1>8. \A x \in Range(t) : x.do \in Gentle /\ Places(x) \subseteq DOMAIN db.members \cup Due(t)
    BY <1>6, <1>7
<1>9. Consistent(db) => Resolves(t, db) BY <1>8, BuildingIntro
<1> QED BY <1>1, <1>5, <1>9, StartSmooth

(* A row stored with the organization it has, or with one of its own. *)
LEMMA RowStays ==
    ASSUME Tables(db, granted), Consistent(db), NEW u \in DOMAIN db.users, NEW v,
           v.org = db.users[u].org
    PROVE  v.org = None \/ <<u, v.org>> \in DOMAIN db.members
BY DEF Tables, Consistent, Covered

LEMMA OneCallSmooth ==
    ASSUME TenancyInv, SmoothInv, NEW r \in Requests, NEW c, Start(r, <<c>>),
           Consistent(db) => c.do \in Gentle /\ Places(c) \subseteq DOMAIN db.members
    PROVE  SmoothInv'
<1>1. PICK t : t = <<c>> OBVIOUS
<1>2. Range(t) = {c} BY <1>1, TupleRange
<1>3. Consistent(db) => Resolves(t, db) BY <1>2, BuildingIntro
<1> QED BY <1>1, <1>3, StartSmooth

LEMMA StoreRowSmooth ==
    ASSUME TenancyInv, SmoothInv, NEW r \in Requests, NEW u \in DOMAIN db.users, NEW v,
           v.org = db.users[u].org, Start(r, <<User(u, v)>>)
    PROVE  SmoothInv'
<1>1. Tables(db, granted) BY DEF TenancyInv
<1>2. PICK c : c = User(u, v) OBVIOUS
<1>3. Consistent(db) => c.do \in Gentle /\ Places(c) \subseteq DOMAIN db.members
    BY <1>1, <1>2, RowStays, RowPlaces
<1> QED BY <1>2, <1>3, OneCallSmooth

LEMMA RoleChangeSmooth ==
    ASSUME TenancyInv, SmoothInv, NEW r \in Requests, update_user_role(r)
    PROVE  SmoothInv'
<1>1. PICK o \in DOMAIN db.orgs, u \in DOMAIN db.users, role \in Roles :
          Start(r, RoleChange(u, o, role))
    BY DEF update_user_role
<1>2. Tables(db, granted) /\ db.users[u] \in Row BY DEF TenancyInv, Tables
<1>3. PICK m, v, e : /\ m = SetRole(u, o, role) /\ e = User(u, v)
                     /\ v = [db.users[u] EXCEPT !.role = role]
    OBVIOUS
<1>4. v.org = db.users[u].org BY <1>2, <1>3, RowEdits
<1>5. PICK t : t = RoleChange(u, o, role) OBVIOUS
<1>6. Range(t) \subseteq {m, e}
    <2>1. CASE db.users[u].org # o
        <3>1. t = <<m>> \o <<>> BY <1>3, <1>5, <2>1 DEF RoleChange
        <3>2. t = <<m>> BY <3>1
        <3> QED BY <3>2, TupleRange
    <2>2. CASE db.users[u].org = o
        <3>1. t = <<m>> \o <<e>> BY <1>3, <1>5, <2>2 DEF RoleChange
        <3>2. t = <<m, e>> BY <3>1, PairOf
        <3> QED BY <3>2, TupleRange
    <2> QED BY <2>1, <2>2
<1>7. ASSUME Consistent(db) PROVE Resolves(t, db)
    <2>1. v.org = None \/ <<u, v.org>> \in DOMAIN db.members BY <1>2, <1>4, <1>7, RowStays
    <2>2. e.do \in Gentle /\ Places(e) \subseteq DOMAIN db.members
        BY <1>3, <2>1, RowPlaces
    <2>3. m.do \in Gentle /\ Places(m) = {} BY <1>3, OtherPlaces
    <2>4. \A x \in Range(t) : x.do \in Gentle
                              /\ Places(x) \subseteq DOMAIN db.members \cup Due(t)
        BY <1>6, <2>2, <2>3
    <2> QED BY <1>7, <2>4, BuildingIntro
<1> QED BY <1>1, <1>5, <1>7, StartSmooth

LEMMA RemovalSmooth ==
    ASSUME TenancyInv, SmoothInv, NEW r \in Requests, remove_user_from_org(r)
    PROVE  SmoothInv'
<1>1. PICK o \in DOMAIN db.orgs, u \in DOMAIN db.users : ~Owns(u, o) /\ Start(r, Removal(u, o))
    BY DEF remove_user_from_org
<1>2. o \in Orgs /\ db.users[u] \in Row BY DEF TenancyInv, Tables
<1>3. ~(Has(db.orgs, o) /\ db.orgs[o] = u) BY <1>1 DEF Owns
<1>4. PICK m, f, row : m = Unjoin(u, o) /\ f = Fallback(u, row) /\ row = db.users[u]
    OBVIOUS
<1>5. CASE row.org # o
    <2>1. Removal(u, o) = <<m>> \o <<>> BY <1>4, <1>5 DEF Removal, Unjoin
    <2>2. Removal(u, o) = <<Unjoin(u, o)>> BY <1>4, <2>1
    <2>3. Consistent(db) => Resolves(Removal(u, o), db)
        BY <1>2, <1>3, <1>4, <1>5, <2>2 DEF Resolves, Removing
    <2> QED BY <1>1, <2>3, StartSmooth
<1>6. CASE row.org = o
    <2>1. Removal(u, o) = <<m>> \o <<f>> BY <1>4, <1>6 DEF Removal, Unjoin, Fallback
    <2>2. Removal(u, o) = <<Unjoin(u, o), Fallback(u, row)>> BY <1>4, <2>1, PairOf
    <2>3. Consistent(db) => Resolves(Removal(u, o), db)
        BY <1>2, <1>3, <1>4, <2>2 DEF Resolves, Removing
    <2> QED BY <1>1, <2>3, StartSmooth
<1> QED BY <1>5, <1>6

LEMMA SwitchSmooth ==
    ASSUME TenancyInv, SmoothInv, NEW r \in Requests, switch_organization(r)
    PROVE  SmoothInv'
<1>1. PICK a \in Users, o \in Orgs :
          CurrentUser(a) /\ Has(db.members, <<a, o>>) /\ Start(r, Switch(a, o))
    BY DEF switch_organization
<1>2. db.users[a] \in Row BY <1>1 DEF TenancyInv, Tables, CurrentUser, Has
<1>3. PICK k : k = <<a, o>> OBVIOUS
<1>4. k \in DOMAIN db.members /\ db.members[k] \in Roles
    BY <1>1, <1>3 DEF TenancyInv, Tables, Has
<1>5. PICK v : v = [db.users[a] EXCEPT !.org = o, !.role = db.members[k]] OBVIOUS
<1>6. v.org = o BY <1>2, <1>4, <1>5, RowEdits
<1>7. PICK c : c = [do |-> "user.switch", u |-> a, row |-> v] OBVIOUS
<1>8. c.do \in Gentle /\ Places(c) \subseteq DOMAIN db.members
    <2>1. c.do = "user.switch" /\ c.u = a /\ c.row = v BY <1>7
    <2> QED BY <1>3, <1>4, <1>6, <2>1 DEF Gentle, Places
<1>9. Start(r, <<c>>) BY <1>1, <1>3, <1>5, <1>7 DEF Switch
<1> QED BY <1>8, <1>9, OneCallSmooth

LEMMA DeletionSmooth ==
    ASSUME TenancyInv, SmoothInv, NEW r \in Requests, delete_user_account(r)
    PROVE  SmoothInv'
<1>1. PICK a \in Users : \E os \in SetToSeqs({o \in Orgs : Has(db.members, <<a, o>>)}) :
                            Start(r, Deletion(a, os))
    BY DEF delete_user_account
<1>2. PICK S : S = {o \in Orgs : Has(db.members, <<a, o>>)} OBVIOUS
<1>3. PICK os \in SetToSeqs(S) : Start(r, Deletion(a, os)) BY <1>1, <1>2
<1>4. PICK n \in Nat : os \in [1 .. n -> S]
    <2>1. Cardinality(S) \in Nat BY <1>2, TenancyAssumption, FS_Subset, FS_CardinalityType
    <2>2. os \in [1 .. Cardinality(S) -> S] BY <1>3 DEF SetToSeqs
    <2> QED BY <2>1, <2>2
<1>5. PICK p, q, d, e :
          /\ p = [i \in DOMAIN os |-> [do |-> "release", u |-> a, o |-> os[i]]]
          /\ q = IF os = <<>> THEN <<>> ELSE <<[do |-> "member.deleteAll", u |-> a]>>
          /\ d = <<e>> /\ e = [do |-> "user.delete", u |-> a]
    OBVIOUS
<1>6. PICK T : T = {[do |-> "release", u |-> a, o |-> o] : o \in S}
                   \cup {[do |-> "member.deleteAll", u |-> a], e}
    OBVIOUS
<1>7. \A c \in T : c.do \in {"release", "member.deleteAll", "user.delete"} /\ c.u = a
    BY <1>5, <1>6
<1>8. p \in Seq(T)
    <2>1. p \in [1 .. n -> T] BY <1>4, <1>5, <1>6
    <2> QED BY <1>4, <2>1, SeqDef
<1>9. q \in Seq(T)
    <2>1. <<[do |-> "member.deleteAll", u |-> a]>> \in Seq(T) BY <1>6
    <2> QED BY <1>5, <2>1, EmptySeq
<1>10. d \in Seq(T) /\ Len(d) = 1 /\ d[1] = e BY <1>5, <1>6
<1>11. PICK s : s = p \o q OBVIOUS
<1>12. s \in Seq(T) BY <1>8, <1>9, <1>11, ConcatProperties
<1>13. PICK t : t = s \o d OBVIOUS
<1>14. /\ t \in Seq(T) /\ t # <<>>
       /\ t[Len(t)] = e
    <2>1. PICK m \in Nat : m = Len(s) BY <1>12, LenProperties
    <2>2. /\ s \o d \in Seq(T) /\ Len(s \o d) = Len(s) + Len(d)
          /\ \A i \in 1 .. Len(s) + Len(d) :
                (s \o d)[i] = IF i <= Len(s) THEN s[i] ELSE d[i - Len(s)]
        BY <1>10, <1>12, ConcatProperties
    <2>3. /\ t \in Seq(T) /\ Len(t) = m + 1
          /\ \A i \in 1 .. m + 1 : t[i] = IF i <= m THEN s[i] ELSE d[i - m]
        BY <1>10, <1>13, <2>1, <2>2
    <2>4. t[m + 1] = d[1] BY <2>3
    <2>5. t # <<>> BY <2>3
    <2> QED BY <1>10, <2>3, <2>4, <2>5
<1>15. \A c \in Range(t) : c.do \in {"release", "member.deleteAll", "user.delete"} /\ c.u = a
    <2>1. Range(t) \subseteq T BY <1>14, RangeOfSeq
    <2> QED BY <1>7, <2>1
<1>16. t[Len(t)].do = "user.delete" BY <1>5, <1>14
<1>17. ASSUME Consistent(db) PROVE Leaving(t, db)
    <2>1. Covered(db, Users \ {a}, Users \ {a}, DOMAIN db.members)
        BY <1>17 DEF Consistent, Covered
    <2> QED BY <1>14, <1>15, <1>16, <2>1 DEF Leaving
<1>18. Consistent(db) => Resolves(t, db) BY <1>17 DEF Resolves
<1>19. Start(r, t) BY <1>3, <1>5, <1>11, <1>13 DEF Deletion
<1> QED BY <1>18, <1>19, StartSmooth

LEMMA CreateUserSmooth ==
    ASSUME TenancyInv, SmoothInv, NEW r \in Requests, NEW role \in Roles, CreateUser(r, role)
    PROVE  SmoothInv'
<1>1. PICK v : v = [org |-> None, role |-> role, active |-> TRUE] OBVIOUS
<1>2. PICK u \in Users : Start(r, <<NewUser(u, v)>>) BY <1>1 DEF CreateUser
<1>3. v.org = None BY <1>1
<1>4. PICK c : c = NewUser(u, v) OBVIOUS
<1>5. c.do \in Gentle /\ Places(c) \subseteq DOMAIN db.members BY <1>3, <1>4, RowPlaces
<1> QED BY <1>2, <1>4, <1>5, OneCallSmooth

LEMMA RowRouteSmooth ==
    ASSUME TenancyInv, SmoothInv, NEW r \in Requests,
           admin_update_global_role(r) \/ activate_account(r)
    PROVE  SmoothInv'
<1>1. CASE admin_update_global_role(r)
    <2>1. PICK u \in DOMAIN db.users, role \in Roles : Start(r, GlobalRole(u, role))
        BY <1>1 DEF admin_update_global_role
    <2>2. PICK v : v = [db.users[u] EXCEPT !.role = role] OBVIOUS
    <2>3. db.users[u] \in Row BY DEF TenancyInv, Tables
    <2>4. v.org = db.users[u].org BY <2>2, <2>3, RowEdits
    <2>5. Start(r, <<User(u, v)>>) BY <2>1, <2>2 DEF GlobalRole
    <2> QED BY <2>4, <2>5, StoreRowSmooth
<1>2. CASE activate_account(r)
    <2>1. PICK u \in DOMAIN db.users :
              Start(r, <<User(u, [db.users[u] EXCEPT !.active = TRUE])>>)
        BY <1>2 DEF activate_account
    <2>2. PICK v : v = [db.users[u] EXCEPT !.active = TRUE] OBVIOUS
    <2>3. db.users[u] \in Row BY DEF TenancyInv, Tables
    <2>4. v.org = db.users[u].org BY <2>2, <2>3 DEF Row
    <2>5. Start(r, <<User(u, v)>>) BY <2>1, <2>2
    <2> QED BY <2>4, <2>5, StoreRowSmooth
<1> QED BY <1>1, <1>2

LEMMA RestoreSmooth ==
    ASSUME TenancyInv, SmoothInv, NEW r \in Requests, restore_organization(r)
    PROVE  SmoothInv'
<1>1. PICK o \in DOMAIN db.orgs : Start(r, Restored(o)) BY DEF restore_organization
<1>2. PICK u : u = db.orgs[o] OBVIOUS
<1>3. u \in Users BY <1>2 DEF TenancyInv, Tables
<1>4. PICK c : c = [do |-> "org.update", o |-> o, u |-> u] OBVIOUS
<1>5. Places(c) = {<<u, o>>} /\ c.do \in Gentle BY <1>4 DEF Places, Gentle
<1>6. Consistent(db) => c.do \in Gentle /\ Places(c) \subseteq DOMAIN db.members
    BY <1>2, <1>3, <1>5 DEF Consistent, Covered
<1>7. Start(r, <<c>>) BY <1>1, <1>2, <1>4 DEF Restored
<1> QED BY <1>6, <1>7, OneCallSmooth

LEMMA RouteSmooth ==
    ASSUME TenancyInv, SmoothInv, NEW r \in Requests, Route(r)
    PROVE  SmoothInv'
<1>1. CASE register(r) \/ admin_create_user(r)
    <2>1. PICK role \in Roles : CreateUser(r, role)
        BY <1>1 DEF register, admin_create_user, Roles
    <2> QED BY <2>1, CreateUserSmooth
<1> QED BY <1>1, FoundSmooth, TransferSmooth, InviteSmooth, RoleChangeSmooth, RemovalSmooth,
           SwitchSmooth, DeletionSmooth, RowRouteSmooth, RestoreSmooth, RequestAccessSmooth,
           ReviewSmooth
        DEF Route

LEMMA InitSmooth == Init => SmoothInv
<1> SUFFICES ASSUME Init PROVE SmoothInv OBVIOUS
<1>1. PICK adm \in Users, man \in Users, op \in SUBSET Users, o \in Orgs :
          /\ adm # man /\ db = FirstTables(adm, man, op, o)
          /\ req = [r \in Requests |-> Idle]
    BY DEF Init
<1>2. PICK us, os, ms, qs :
          /\ us = [u \in {adm, man} \cup op |->
                      [org |-> IF u = adm THEN None ELSE o, active |-> TRUE,
                       role |-> IF u = adm THEN "U3" ELSE IF u = man THEN "U4" ELSE "U2"]]
          /\ os = Put(<<>>, o, man)
          /\ ms = [k \in ({man} \cup op) \X {o} |-> IF k[1] = man THEN "U4" ELSE "U2"]
          /\ qs = Put(<<>>, man, "APPROVED")
    OBVIOUS
<1>3. db = [users |-> us, orgs |-> os, members |-> ms, requests |-> qs]
    BY <1>1, <1>2 DEF FirstTables
<1>4. db.users = us /\ db.orgs = os /\ db.members = ms BY <1>3
<1>5. DOMAIN ms = ({man} \cup op) \X {o} BY <1>2
<1>6. DOMAIN os = {o} /\ os[o] = man BY <1>2 DEF Put
<1>7. \A u \in DOMAIN us : /\ u \in {adm, man} \cup op
                           /\ us[u].org = IF u = adm THEN None ELSE o
    BY <1>2
<1>8. Consistent(db)
    <2>1. ASSUME NEW u \in DOMAIN us, us[u].org # None PROVE <<u, us[u].org>> \in DOMAIN ms
        <3>1. u # adm /\ us[u].org = o /\ u \in {man} \cup op BY <1>7, <2>1
        <3> QED BY <1>5, <3>1
    <2>2. \A p \in DOMAIN os : <<os[p], p>> \in DOMAIN ms BY <1>5, <1>6
    <2> QED BY <1>4, <2>1, <2>2 DEF Consistent, Covered
<1> QED BY <1>1, <1>8 DEF SmoothInv

LEMMA NextSmooth == TenancyInv /\ SmoothInv /\ [Next]_vars => SmoothInv'
<1> SUFFICES ASSUME TenancyInv, SmoothInv, [Next]_vars PROVE SmoothInv' OBVIOUS
<1>1. ASSUME NEW r \in Requests, Route(r) PROVE SmoothInv' BY <1>1, RouteSmooth
<1>2. ASSUME NEW r \in Requests, Commit(r) PROVE SmoothInv' BY <1>2, CommitSmooth
<1>3. ASSUME NEW r \in Requests, Fail(r) \/ Abandon(r) PROVE SmoothInv' BY <1>3, StopSmooth
<1>4. ASSUME NEW u \in Users, SignIn(u) PROVE SmoothInv'
    BY <1>4, StillSmooth DEF SignIn
<1>5. CASE Restart BY <1>5, RestartSmooth
<1>6. CASE UNCHANGED vars BY <1>6, StillSmooth DEF vars
<1> QED BY <1>1, <1>2, <1>3, <1>4, <1>5, <1>6 DEF Next

LEMMA InvSmooth == Spec => []SmoothInv
<1>1. Init => TenancyInv /\ SmoothInv BY InitTenancy, InitSmooth
<1>2. TenancyInv /\ SmoothInv /\ [Next]_vars => (TenancyInv /\ SmoothInv)'
    BY NextTenancy, NextSmooth
<1> QED BY <1>1, <1>2, PTL DEF Spec

(* Requests that run one at a time and to their end leave every account in  *)
(* an organization it is a member of, or in none: an invitation, a removal  *)
(* or a deletion passes through states where that is not so, and its last   *)
(* call makes up for it (organization_service.py, user_service.py).         *)
THEOREM ActiveAreMembers == Spec => []ActiveIsMember
<1>1. ASSUME TenancyInv, SmoothInv PROVE ActiveIsMember
    <2>1. DOMAIN db.users \subseteq Users BY <1>1 DEF TenancyInv, Tables
    <2> QED BY <1>1, <2>1 DEF ActiveIsMember, SmoothInv, Quiet, Consistent, Covered, Has
<1>2. TenancyInv /\ SmoothInv => ActiveIsMember BY <1>1
<1> QED BY <1>2, InvTenancy, InvSmooth, PTL

(* They leave every organization with an owner among its members: a         *)
(* transfer promotes the new one last, a removal spares the owner, and an   *)
(* account is deleted only after the organizations it owns.                 *)
THEOREM OwnersAreMembers == Spec => []OwnerIsMember
<1>1. ASSUME TenancyInv, SmoothInv PROVE OwnerIsMember
    <2>1. \A o \in DOMAIN db.orgs : db.orgs[o] \in Users BY <1>1 DEF TenancyInv, Tables
    <2> QED BY <1>1, <2>1 DEF OwnerIsMember, SmoothInv, Quiet, Consistent, Covered, Has
<1>2. TenancyInv /\ SmoothInv => OwnerIsMember BY <1>1
<1> QED BY <1>2, InvTenancy, InvSmooth, PTL
==============================================================================
