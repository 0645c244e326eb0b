------------------------- MODULE ReleaseIntakeProofs -------------------------
(***************************************************************************)
(* What holds of connectors, project, releases and artifacts for any       *)
(* number of requests, ids, references and secrets.                        *)
(*                                                                         *)
(* IntakeInv is inductive: besides the rows it says what a request that    *)
(* has begun knows.  An edit knows that its copy is the row it read with   *)
(* the columns it changes, as long as nobody stored the row since; a       *)
(* registration knows that there was no connector when it looked; an       *)
(* import or a webhook knows the release it works on by an id that is      *)
(* never given again.                                                      *)
(***************************************************************************)
EXTENDS ReleaseIntake, FiniteSetTheorems, SequenceTheorems, TLAPS

RowsTyped ==
    /\ DOMAIN connector \subseteq Connectors
    /\ \A c \in DOMAIN connector : connector[c] \in ConnectorRow
    /\ project \in ProjectRow /\ profile \in BOOLEAN
    /\ DOMAIN connector \cup {"project"} \subseteq DOMAIN told

(* A deleted release has no artifacts, so no launch can bring it back. *)
ReleasesTyped ==
    /\ release \in Seq(Release)
    /\ \A i \in DOMAIN release :
          /\ release[i].profile => profile
          /\ release[i].status = "deleted" => release[i].arts = {}
    /\ \A i, j \in Live : release[i].version = release[j].version => i = j

BoundsTyped ==
    /\ pushed \subseteq Refs /\ minted \in 0 .. MaxSecrets /\ left \in 0 .. Budget
    /\ stranded \subseteq DOMAIN release

(* A copy whose row nobody else stored is the row with the columns changed. *)
Fits(q) ==
    /\ q.id \in DOMAIN connector \ raced => q.row = Over(q.delta, connector[q.id])
    /\ q.id = "project" /\ q.id \notin raced => q.row = Over(q.delta, project)

RowOf(id) == IF id = "project" THEN ProjectRow ELSE ConnectorRow

(* What a request that has begun knows. *)
Knows(q) ==
    /\ q.at = "edit" =>
          /\ q.id \in (Connectors \cup {"project"}) \cap DOMAIN told
          /\ q.row \in RowOf(q.id)
          /\ Fits(q)
    /\ q.at = "register" =>
          /\ q.cred \in Credentials
          /\ DOMAIN connector = {} \/ "register" \in raced
    /\ q.at \in {"create", "insert"} =>
          q \in [at: {"create", "insert"}, version: SemVer, hook: BOOLEAN]
    /\ q.at \in {"attach", "attached", "launch"} => q.id \in DOMAIN release
    /\ q.at = "attached" => q.row.status \in {"BORRADOR", "launched"}
    /\ q.at \in {"verify", "save"} =>
          /\ q \in [at: {"verify", "save"}, id: DOMAIN release, todo: Seq(Artifact)]
          /\ q.todo # <<>>

RequestsKnow == DOMAIN req = Requests /\ \A r \in Requests : Knows(req[r])

AtMostOne == "register" \in raced \/ \A c, d \in DOMAIN connector : c = d

IntakeInv ==
    /\ RowsTyped
    /\ ReleasesTyped
    /\ BoundsTyped
    /\ RequestsKnow
    /\ EditsHold
    /\ AtMostOne
    /\ ArtifactsAnchored

------------------------------------------------------------------------------
(* Columns over a row.                                                      *)

LEMMA NoColumn == DOMAIN <<>> = {}
    OBVIOUS

LEMMA OverNothing == ASSUME NEW row, row = [k \in DOMAIN row |-> row[k]]
                     PROVE  Over(<<>>, row) = row
<1>1. \A k \in DOMAIN row : k \notin DOMAIN <<>>
  BY NoColumn
<1>2. Over(<<>>, row) = [k \in DOMAIN row |-> row[k]]
  BY <1>1 DEF Over
<1> QED
  BY <1>2

(* What the services change keeps a connector's row one. *)
LEMMA ConnectorColumns ==
    ASSUME IntakeAssumption, minted \in 0 .. MaxSecrets,
           NEW c \in DOMAIN connector, connector[c] \in ConnectorRow,
           NEW delta \in UNION {update_connector(c), test_connector_connection(c),
                                toggle_connector_status(c), configure_webhook(c)}
    PROVE  /\ Over(delta, connector[c]) \in ConnectorRow
           /\ "secret" \in DOMAIN delta => delta.secret \in 0 .. MaxSecrets
<1> DEFINE row == connector[c]
<1> HIDE DEF row
<1>0. row \in ConnectorRow
  BY DEF row
<1>1. CASE delta = <<>>
  <2>1. row = [k \in DOMAIN row |-> row[k]]
    BY <1>0 DEF ConnectorRow
  <2>2. Over(delta, row) = row
    BY <1>1, <2>1, OverNothing
  <2> QED
    BY <1>1, <1>0, <2>2, NoColumn DEF row
<1>2. CASE \E k \in Credentials : delta = [cred |-> k]
  BY <1>2, <1>0 DEF Over, ConnectorRow, row
<1>3. CASE \E s \in Status : delta = [status |-> s]
  BY <1>3, <1>0 DEF Over, ConnectorRow, row
<1>4. CASE \E on \in BOOLEAN : delta = [enabled |-> on]
  BY <1>4, <1>0 DEF Over, ConnectorRow, row
<1>5. CASE \E s \in 1 .. MaxSecrets : delta = [enabled |-> TRUE, secret |-> s]
  <2>1. PICK s \in 1 .. MaxSecrets : delta = [enabled |-> TRUE, secret |-> s]
    BY <1>5
  <2>2. s \in 0 .. MaxSecrets
    BY <2>1 DEF IntakeAssumption
  <2>3. Over(delta, row) \in ConnectorRow
    BY <2>1, <2>2, <1>0 DEF Over, ConnectorRow
  <2>4. delta.secret = s
    BY <2>1
  <2> QED
    BY <2>2, <2>3, <2>4 DEF row
<1> QED
  <2>1. \/ delta \in update_connector(c) \/ delta \in test_connector_connection(c)
        \/ delta \in toggle_connector_status(c) \/ delta \in configure_webhook(c)
    OBVIOUS
  <2>2. delta \in update_connector(c) =>
            delta = <<>> \/ \E k \in Credentials : delta = [cred |-> k]
    BY DEF update_connector
  <2>3. delta \in test_connector_connection(c) => \E s \in Status : delta = [status |-> s]
    BY DEF test_connector_connection, Status
  <2>4. delta \in toggle_connector_status(c) => \E s \in Status : delta = [status |-> s]
    BY DEF toggle_connector_status
  <2>5. delta \in configure_webhook(c) =>
            \/ \E on \in BOOLEAN : delta = [enabled |-> on]
            \/ \E s \in 1 .. MaxSecrets : delta = [enabled |-> TRUE, secret |-> s]
    BY DEF configure_webhook
  <2> QED
    BY <2>1, <2>2, <2>3, <2>4, <2>5, <1>1, <1>2, <1>3, <1>4, <1>5

LEMMA ProjectColumns ==
    ASSUME project \in ProjectRow,
           NEW delta \in {update_project, archive_project, unarchive_project}
    PROVE  Over(delta, project) \in ProjectRow
<1>1. CASE delta = update_project
  <2>1. project = [k \in DOMAIN project |-> project[k]]
    BY DEF ProjectRow
  <2> QED
    BY <1>1, <2>1, OverNothing DEF update_project
<1>2. CASE \E a \in BOOLEAN : delta = [archived |-> a]
  BY <1>2 DEF Over, ProjectRow
<1> QED
  BY <1>1, <1>2 DEF archive_project, unarchive_project

------------------------------------------------------------------------------
(* Steps that only change what one request is doing.                        *)

LEMMA IdleKnows == Knows(Idle)
    BY DEF Knows, Idle

(* Tables that stay as they are leave every request what it knows. *)
LEMMA Undisturbed ==
    ASSUME NEW q, Knows(q), UNCHANGED <<connector, project, told, raced>>,
           DOMAIN release \subseteq DOMAIN release'
    PROVE  Knows(q)'
<1>1. Fits(q) => Fits(q)'
  BY DEF Fits
<1>2. q.at \in {"verify", "save"} =>
          q \in [at: {"verify", "save"}, id: DOMAIN release', todo: Seq(Artifact)]
  BY DEF Knows
<1> QED
  BY <1>1, <1>2 DEF Knows, RowOf

LEMMA Continues ==
    ASSUME RequestsKnow, UNCHANGED <<connector, project, told, raced>>,
           DOMAIN release \subseteq DOMAIN release',
           NEW r \in Requests, NEW st, Knows(st)', Goto(r, st)
    PROVE  RequestsKnow'
<1>1. DOMAIN req' = Requests /\ \A q \in Requests : req'[q] = IF q = r THEN st ELSE req[q]
  BY DEF Goto, RequestsKnow
<1>2. ASSUME NEW q \in Requests PROVE Knows(req[q])'
  <2>1. PICK k : k = IF q = r THEN st ELSE req[q]
    OBVIOUS
  <2>2. Knows(k)'
    <3>1. CASE k = st
      BY <3>1
    <3>2. CASE k = req[q]
      <4>1. Knows(k)
        BY <3>2 DEF RequestsKnow
      <4> QED
        BY <4>1, Undisturbed
    <3> QED
      BY <2>1, <3>1, <3>2
  <2>3. k = req'[q]
    BY <1>1, <2>1
  <2> QED
    BY <2>2, <2>3 DEF Knows, Fits, RowOf
<1> QED
  BY <1>1, <1>2 DEF RequestsKnow

LEMMA RowsStay == ASSUME IntakeInv, UNCHANGED rows
                  PROVE  RowsTyped' /\ EditsHold' /\ AtMostOne'
    BY DEF IntakeInv, RowsTyped, EditsHold, AtMostOne, rows

LEMMA Moved ==
    ASSUME IntakeInv, UNCHANGED <<rows, release, stranded>>,
           NEW r \in Requests, NEW st, Knows(st), Goto(r, st),
           pushed' \subseteq Refs, minted' \in 0 .. MaxSecrets, left' \in 0 .. Budget
    PROVE  IntakeInv'
<1>1. RowsTyped' /\ EditsHold' /\ AtMostOne'
  BY RowsStay
<1>2. ReleasesTyped' /\ BoundsTyped' /\ ArtifactsAnchored'
  BY DEF IntakeInv, ReleasesTyped, BoundsTyped, Live, ArtifactsAnchored, rows
<1>3. Knows(st)'
  BY Undisturbed DEF rows
<1>4. RequestsKnow'
  BY <1>3, Continues DEF IntakeInv, rows
<1> QED
  BY <1>1, <1>2, <1>4 DEF IntakeInv

LEMMA Payment == ASSUME IntakeAssumption, left \in 0 .. Budget, Pay
                 PROVE  left' \in 0 .. Budget
    BY DEF Pay, IntakeAssumption

(* A route begins: what it takes to be in order. *)
LEMMA Begun ==
    ASSUME IntakeAssumption, IntakeInv, UNCHANGED <<rows, release, stranded, pushed>>,
           NEW r \in Requests, NEW st, Knows(st), Serve(r, st),
           minted' \in 0 .. MaxSecrets
    PROVE  IntakeInv'
<1>1. left' \in 0 .. Budget
  BY Payment DEF Serve, IntakeInv, BoundsTyped
<1>2. pushed' \subseteq Refs
  BY DEF IntakeInv, BoundsTyped
<1>3. Goto(r, st)
  BY DEF Serve
<1> QED
  BY <1>1, <1>2, <1>3, Moved

(* It goes on to its next step. *)
LEMMA WentOn ==
    ASSUME IntakeInv, UNCHANGED <<rows, release, stranded, pushed, minted>>,
           NEW r \in Requests, NEW st, Knows(st), Goto(r, st), UNCHANGED left
    PROVE  IntakeInv'
<1>1. left' \in 0 .. Budget /\ pushed' \subseteq Refs /\ minted' \in 0 .. MaxSecrets
  BY DEF IntakeInv, BoundsTyped
<1> QED
  BY <1>1, Moved

------------------------------------------------------------------------------
(* The copies are right when they are made.                                 *)

LEMMA ConnectorEdited ==
    ASSUME IntakeAssumption, IntakeInv, NEW r \in Requests, NEW c \in DOMAIN connector,
           NEW deltas \in SUBSET UNION {update_connector(c), test_connector_connection(c),
                                        toggle_connector_status(c), configure_webhook(c)},
           EditConnector(r, c, deltas)
    PROVE  IntakeInv'
<1>1. PICK delta \in deltas :
          /\ Edit(r, c, connector[c], delta)
          /\ minted' = IF "secret" \in DOMAIN delta THEN delta.secret ELSE minted
  BY DEF EditConnector
<1>2. connector[c] \in ConnectorRow /\ minted \in 0 .. MaxSecrets
  BY DEF IntakeInv, RowsTyped, BoundsTyped
<1>3. /\ Over(delta, connector[c]) \in ConnectorRow
      /\ "secret" \in DOMAIN delta => delta.secret \in 0 .. MaxSecrets
  BY <1>1, <1>2, ConnectorColumns
<1>4. PICK st : st = [at |-> "edit", id |-> c, row |-> Over(delta, connector[c]),
                      delta |-> delta]
  OBVIOUS
<1>5. c # "project" /\ c \in Connectors \cap DOMAIN told
  BY DEF IntakeInv, RowsTyped, IntakeAssumption
<1>6. Knows(st)
  <2>1. st.at = "edit" /\ st.id = c /\ st.row = Over(st.delta, connector[c])
    BY <1>4
  <2>2. st.row \in ConnectorRow
    BY <1>3, <1>4
  <2> QED
    BY <2>1, <2>2, <1>5 DEF Knows, Fits, RowOf
<1>7. Serve(r, st) /\ minted' \in 0 .. MaxSecrets
  BY <1>1, <1>2, <1>3, <1>4 DEF Edit
<1>8. UNCHANGED <<rows, release, stranded, pushed>>
  BY DEF EditConnector
<1> QED
  BY <1>6, <1>7, <1>8, Begun

LEMMA ProjectEdited ==
    ASSUME IntakeAssumption, IntakeInv, NEW r \in Requests,
           NEW delta \in {update_project, archive_project, unarchive_project},
           EditProject(r, delta)
    PROVE  IntakeInv'
<1>1. PICK st : st = [at |-> "edit", id |-> "project", row |-> Over(delta, project),
                      delta |-> delta]
  OBVIOUS
<1>2. "project" \notin Connectors /\ "project" \in DOMAIN told
  BY DEF IntakeInv, RowsTyped, IntakeAssumption
<1>3. Over(delta, project) \in ProjectRow
  BY ProjectColumns DEF IntakeInv, RowsTyped
<1>4. Knows(st)
  <2>1. st.at = "edit" /\ st.id = "project" /\ st.row = Over(st.delta, project)
    BY <1>1
  <2>2. "project" \notin DOMAIN connector
    BY <1>2 DEF IntakeInv, RowsTyped
  <2> QED
    BY <1>1, <1>2, <1>3, <2>1, <2>2 DEF Knows, Fits, RowOf
<1>5. Serve(r, st)
  BY <1>1 DEF EditProject, Edit
<1>6. UNCHANGED <<rows, release, stranded, pushed>> /\ minted' \in 0 .. MaxSecrets
  BY DEF EditProject, IntakeInv, BoundsTyped
<1> QED
  BY <1>4, <1>5, <1>6, Begun

------------------------------------------------------------------------------
(* Requests that begin or go on and leave the tables alone.                 *)

LEMMA Registering == ASSUME IntakeAssumption, IntakeInv, NEW r \in Requests,
                            register_connector(r)
                     PROVE  IntakeInv'
<1>1. PICK k \in Credentials : Serve(r, [at |-> "register", cred |-> k])
  BY DEF register_connector
<1>2. PICK st : st = [at |-> "register", cred |-> k]
  OBVIOUS
<1>3. Knows(st) /\ Serve(r, st)
  BY <1>1, <1>2 DEF Knows, register_connector
<1>4. UNCHANGED <<rows, release, stranded, pushed>> /\ minted' \in 0 .. MaxSecrets
  BY DEF register_connector, IntakeInv, BoundsTyped
<1> QED
  BY <1>3, <1>4, Begun

LEMMA Creating == ASSUME IntakeAssumption, IntakeInv, NEW r \in Requests,
                         NEW v \in SemVer, create_release(r, v)
                  PROVE  IntakeInv'
<1>1. PICK st : st = [at |-> "create", version |-> v, hook |-> FALSE]
  OBVIOUS
<1>2. Knows(st) /\ Serve(r, st)
  BY <1>1 DEF Knows, create_release
<1>3. UNCHANGED <<rows, release, stranded, pushed>> /\ minted' \in 0 .. MaxSecrets
  BY DEF create_release, IntakeInv, BoundsTyped
<1> QED
  BY <1>2, <1>3, Begun

LEMMA Delivered == ASSUME IntakeInv, NEW ref \in Refs, Deliver(ref)
                   PROVE  IntakeInv'
<1>1. PICK r \in Requests, c \in DOMAIN connector :
          receive_source_control_webhook(r, c, ref)
  BY DEF Deliver
<1>2. PICK tag \in parse_tag_push_event(ref) :
          /\ version_from_tag_name(tag) \in SemVer
          /\ Goto(r, [at |-> "create", version |-> version_from_tag_name(tag),
                      hook |-> TRUE])
  BY <1>1 DEF receive_source_control_webhook
<1>3. PICK st : st = [at |-> "create", version |-> version_from_tag_name(tag),
                      hook |-> TRUE]
  OBVIOUS
<1>4. Knows(st) /\ Goto(r, st)
  BY <1>2, <1>3 DEF Knows
<1>5. UNCHANGED <<rows, release, stranded, pushed, minted>> /\ UNCHANGED left
  BY <1>1 DEF receive_source_control_webhook
<1> QED
  BY <1>4, <1>5, WentOn

LEMMA Submitted == ASSUME IntakeAssumption, IntakeInv, NEW r \in Requests,
                          NEW list \in Seq(Artifact) \ {<<>>}, Submit(r, list)
                   PROVE  IntakeInv'
<1>1. PICK id \in Live : Serve(r, [at |-> "verify", id |-> id, todo |-> list])
  BY DEF Submit
<1>2. PICK st : st = [at |-> "verify", id |-> id, todo |-> list]
  OBVIOUS
<1>3. Knows(st) /\ Serve(r, st)
  BY <1>1, <1>2 DEF Knows, Live
<1>4. UNCHANGED <<rows, release, stranded, pushed>> /\ minted' \in 0 .. MaxSecrets
  BY DEF Submit, IntakeInv, BoundsTyped
<1> QED
  BY <1>3, <1>4, Begun

LEMMA Checked == ASSUME IntakeInv, NEW r \in Requests, CheckProject(r)
                 PROVE  IntakeInv'
<1>1. PICK st : st = IF project.archived \/ ~profile THEN Idle
                     ELSE [req[r] EXCEPT !.at = "insert"]
  OBVIOUS
<1>2. req[r].at = "create" /\ Knows(req[r])
  BY DEF CheckProject, Step, IntakeInv, RequestsKnow
<1>3. req[r] \in [at: {"create", "insert"}, version: SemVer, hook: BOOLEAN]
  BY <1>2 DEF Knows
<1>4. Knows(st)
  <2>1. CASE st = Idle
    BY <2>1, IdleKnows
  <2>2. CASE st = [req[r] EXCEPT !.at = "insert"]
    <3>1. st.at = "insert" /\ st \in [at: {"create", "insert"}, version: SemVer, hook: BOOLEAN]
      BY <2>2, <1>3
    <3> QED
      BY <3>1 DEF Knows
  <2> QED
    BY <1>1, <2>1, <2>2
<1>5. Goto(r, st) /\ UNCHANGED left /\ UNCHANGED <<rows, release, stranded, pushed, minted>>
  BY <1>1 DEF CheckProject, Step
<1> QED
  BY <1>4, <1>5, WentOn

LEMMA Loaded == ASSUME IntakeInv, NEW r \in Requests, LoadForArtifact(r)
                PROVE  IntakeInv'
<1> DEFINE id == req[r].id
<1>1. PICK st : st = IF id \in Live
                     THEN [at |-> "attached", id |-> id, row |-> release[id]] ELSE Idle
  OBVIOUS
<1>2. Knows(st)
  <2>1. CASE st = Idle
    BY <2>1, IdleKnows
  <2>2. CASE id \in Live /\ st = [at |-> "attached", id |-> id, row |-> release[id]]
    <3>1. id \in DOMAIN release /\ release[id].status # "deleted"
      BY <2>2 DEF Live
    <3>2. release[id] \in Release
      BY <3>1 DEF IntakeInv, ReleasesTyped
    <3>3. release[id].status \in {"BORRADOR", "launched"}
      BY <3>1, <3>2 DEF Release
    <3> QED
      BY <2>2, <3>1, <3>3 DEF Knows
  <2> QED
    BY <1>1, <2>1, <2>2
<1>3. Goto(r, st) /\ UNCHANGED left /\ UNCHANGED <<rows, release, stranded, pushed, minted>>
  BY <1>1 DEF LoadForArtifact, Step
<1> QED
  BY <1>2, <1>3, WentOn

LEMMA Verified == ASSUME IntakeInv, NEW r \in Requests, VerifyArtifact(r)
                  PROVE  IntakeInv'
<1>1. req[r].at = "verify" /\ Knows(req[r])
  BY DEF VerifyArtifact, Step, IntakeInv, RequestsKnow
<1>2. /\ req[r] \in [at: {"verify", "save"}, id: DOMAIN release, todo: Seq(Artifact)]
      /\ req[r].todo # <<>>
  BY <1>1 DEF Knows
<1>3. PICK st : st \in {Idle, [req[r] EXCEPT !.at = "save"]} /\ Step(r, "verify", st)
  BY DEF VerifyArtifact
<1>4. Knows(st)
  <2>1. CASE st = Idle
    BY <2>1, IdleKnows
  <2>2. CASE st = [req[r] EXCEPT !.at = "save"]
    <3>1. /\ st.at = "save" /\ st.todo = req[r].todo
          /\ st \in [at: {"verify", "save"}, id: DOMAIN release, todo: Seq(Artifact)]
      BY <2>2, <1>2
    <3> QED
      BY <3>1, <1>2 DEF Knows
  <2> QED
    BY <1>3, <2>1, <2>2
<1>5. UNCHANGED <<rows, release, stranded, pushed, minted>>
  BY DEF VerifyArtifact
<1> QED
  BY <1>3, <1>4, <1>5, WentOn DEF Step

LEMMA Failed == ASSUME IntakeAssumption, IntakeInv, NEW r \in Requests,
                       StoreFails(r) \/ Abort(r)
                PROVE  IntakeInv'
<1>1. CASE StoreFails(r)
  BY <1>1, IdleKnows, WentOn DEF StoreFails, Step
<1>2. CASE Abort(r)
  <2>1. left' \in 0 .. Budget /\ pushed' \subseteq Refs /\ minted' \in 0 .. MaxSecrets
    BY <1>2, Payment DEF Abort, IntakeInv, BoundsTyped
  <2>2. UNCHANGED <<rows, release, stranded>> /\ Goto(r, Idle)
    BY <1>2 DEF Abort
  <2> QED
    BY <2>1, <2>2, IdleKnows, Moved
<1> QED
  BY <1>1, <1>2

LEMMA Pushed == ASSUME IntakeAssumption, IntakeInv, NEW ref \in Refs, Push(ref)
                PROVE  IntakeInv'
<1>1. UNCHANGED <<rows, release, req, minted, stranded>>
  BY DEF Push
<1>2. left' \in 0 .. Budget /\ pushed' \subseteq Refs /\ minted' \in 0 .. MaxSecrets
  BY Payment DEF Push, IntakeInv, BoundsTyped
<1>3. RowsTyped' /\ ReleasesTyped' /\ BoundsTyped'
  BY <1>1, <1>2 DEF IntakeInv, RowsTyped, ReleasesTyped, BoundsTyped, Live, rows
<1>4. RequestsKnow'
  BY <1>1 DEF IntakeInv, RequestsKnow, Knows, Fits, RowOf, rows
<1>5. EditsHold' /\ AtMostOne' /\ ArtifactsAnchored'
  BY <1>1 DEF IntakeInv, EditsHold, AtMostOne, ArtifactsAnchored, rows
<1> QED
  BY <1>3, <1>4, <1>5 DEF IntakeInv

------------------------------------------------------------------------------
(* Steps that change a release.                                             *)

LEMMA Revised ==
    ASSUME IntakeInv, UNCHANGED rows, NEW id \in DOMAIN release, NEW row \in Release,
           row.profile => profile, row.status = "deleted" => row.arts = {},
           row.status # "deleted" => release[id].status # "deleted",
           row.version = release[id].version,
           \A a \in row.arts : a.conn \in DOMAIN connector,
           release' = [release EXCEPT ![id] = row]
    PROVE  /\ ReleasesTyped' /\ ArtifactsAnchored'
           /\ DOMAIN release \subseteq DOMAIN release'
<1>1. release \in Seq(Release)
  BY DEF IntakeInv, ReleasesTyped
<1>2. /\ DOMAIN release' = DOMAIN release
      /\ \A i \in DOMAIN release : release'[i] = IF i = id THEN row ELSE release[i]
  OBVIOUS
<1>3. release' \in Seq(Release)
  BY <1>1
<1>4. \A i \in DOMAIN release : release'[i].version = release[i].version
  BY <1>2
<1>5. Live' \subseteq Live
  BY <1>2 DEF Live
<1>6. \A i \in DOMAIN release' : /\ release'[i].profile => profile'
                                 /\ release'[i].status = "deleted" => release'[i].arts = {}
  BY <1>2 DEF IntakeInv, ReleasesTyped, rows
<1>7. \A i, j \in Live' : release'[i].version = release'[j].version => i = j
  BY <1>4, <1>5 DEF IntakeInv, ReleasesTyped, Live
<1>8. ArtifactsAnchored'
  BY <1>2 DEF IntakeInv, ArtifactsAnchored, rows
<1> QED
  BY <1>2, <1>3, <1>6, <1>7, <1>8 DEF ReleasesTyped

(* A route that changes one release and nothing else. *)
LEMMA Changed ==
    ASSUME IntakeAssumption, IntakeInv, NEW id \in DOMAIN release, NEW row \in Release,
           row.profile => profile, row.status = "deleted" => row.arts = {},
           row.status # "deleted" => release[id].status # "deleted",
           row.version = release[id].version,
           \A a \in row.arts : a.conn \in DOMAIN connector,
           Change(row, id)
    PROVE  IntakeInv'
<1>1. UNCHANGED <<rows, pushed, req, minted, stranded>> /\ UNCHANGED rows
  BY DEF Change
<1>2. release' = [release EXCEPT ![id] = row]
  BY DEF Change
<1>3. /\ ReleasesTyped' /\ ArtifactsAnchored'
      /\ DOMAIN release \subseteq DOMAIN release'
  BY <1>1, <1>2, Revised
<1>4. BoundsTyped'
  BY <1>1, <1>3, Payment DEF Change, IntakeInv, BoundsTyped
<1>5. RequestsKnow'
  <2>1. ASSUME NEW q \in Requests PROVE Knows(req[q])'
    <3>1. PICK k : k = req[q]
      OBVIOUS
    <3>2. Knows(k)'
      BY <3>1, <1>1, <1>3, Undisturbed DEF IntakeInv, RequestsKnow, rows
    <3> QED
      BY <3>1, <3>2, <1>1 DEF Knows, Fits, RowOf
  <2> QED
    BY <2>1, <1>1 DEF RequestsKnow, IntakeInv
<1> QED
  BY <1>1, <1>3, <1>4, <1>5, RowsStay DEF IntakeInv

LEMMA ReleaseRow ==
    ASSUME IntakeInv, NEW id \in DOMAIN release
    PROVE  /\ release[id] \in Release
           /\ release[id].profile => profile
           /\ release[id].status = "deleted" => release[id].arts = {}
           /\ \A a \in release[id].arts : a.conn \in DOMAIN connector
    BY DEF IntakeInv, ReleasesTyped, ArtifactsAnchored

LEMMA HandsOn ==
    ASSUME IntakeAssumption, IntakeInv, NEW id \in Live,
           verify_release(id) \/ remove_artifact(id) \/ delete_release(id)
    PROVE  IntakeInv'
<1>1. /\ id \in DOMAIN release /\ release[id].status # "deleted"
      /\ release[id] \in Release /\ (release[id].profile => profile)
      /\ \A a \in release[id].arts : a.conn \in DOMAIN connector
  BY ReleaseRow DEF Live
<1>2. CASE verify_release(id)
  <2>1. PICK row : row = [release[id] EXCEPT !.status = "launched"]
    OBVIOUS
  <2>2. /\ row \in Release /\ row.status = "launched" /\ row.profile = release[id].profile
        /\ row.version = release[id].version /\ row.arts = release[id].arts
    BY <1>1, <2>1 DEF Release
  <2>3. Change(row, id)
    BY <1>2, <2>1 DEF verify_release
  <2> QED
    BY <1>1, <2>2, <2>3, Changed
<1>3. CASE remove_artifact(id)
  <2>1. PICK a \in release[id].arts : Change([release[id] EXCEPT !.arts = @ \ {a}], id)
    BY <1>3 DEF remove_artifact
  <2>2. PICK row : row = [release[id] EXCEPT !.arts = @ \ {a}]
    OBVIOUS
  <2>3. /\ row \in Release /\ row.status = release[id].status
        /\ row.profile = release[id].profile
        /\ row.version = release[id].version /\ row.arts \subseteq release[id].arts
    BY <1>1, <2>2 DEF Release
  <2>4. Change(row, id)
    BY <2>1, <2>2
  <2> QED
    BY <1>1, <2>3, <2>4, Changed
<1>4. CASE delete_release(id)
  <2>1. PICK gone : gone = [release[id] EXCEPT !.status = "deleted"]
    OBVIOUS
  <2>2. PICK bare : bare = [gone EXCEPT !.arts = {}]
    OBVIOUS
  <2>3. PICK row : row = [bare EXCEPT !.profile = FALSE]
    OBVIOUS
  <2>4. gone \in Release /\ gone.status = "deleted" /\ gone.version = release[id].version
    BY <1>1, <2>1 DEF Release
  <2>5. bare \in Release /\ bare.status = "deleted" /\ bare.arts = {}
        /\ bare.version = release[id].version
    BY <2>2, <2>4 DEF Release
  <2>6. /\ row \in Release /\ row.status = "deleted" /\ row.arts = {}
        /\ row.profile = FALSE /\ row.version = release[id].version
    BY <2>3, <2>5 DEF Release
  <2>7. Change(row, id)
    BY <1>4, <2>1, <2>2, <2>3 DEF delete_release
  <2> QED
    BY <1>1, <2>6, <2>7, Changed
<1> QED
  BY <1>2, <1>3, <1>4

------------------------------------------------------------------------------
(* Requests that change a release and go on.                                *)

LEMMA Carried ==
    ASSUME IntakeInv, UNCHANGED <<rows, pushed, minted>>, stranded' \subseteq DOMAIN release',
           ReleasesTyped', ArtifactsAnchored', DOMAIN release \subseteq DOMAIN release',
           NEW r \in Requests, NEW st, Knows(st)', Goto(r, st), UNCHANGED left
    PROVE  IntakeInv'
<1>1. UNCHANGED rows
  OBVIOUS
<1>2. RowsTyped' /\ EditsHold' /\ AtMostOne'
  BY <1>1, RowsStay
<1>3. RequestsKnow'
  BY <1>1, Continues DEF IntakeInv, rows
<1>4. BoundsTyped'
  BY DEF IntakeInv, BoundsTyped
<1> QED
  BY <1>2, <1>3, <1>4 DEF IntakeInv

LEMMA Inserted == ASSUME IntakeInv, NEW r \in Requests, InsertRelease(r)
                  PROVE  IntakeInv'
<1> DEFINE v == req[r].version
           n == Len(release) + 1
           row == [version |-> v, status |-> "BORRADOR", profile |-> TRUE, arts |-> {}]
<1>1. UNCHANGED <<rows, pushed, minted, stranded>> /\ UNCHANGED rows
  BY DEF InsertRelease
<1>2. CASE ~profile \/ \E i \in Live : release[i].version = v
  <2>1. Step(r, "insert", Idle) /\ UNCHANGED release
    BY <1>2 DEF InsertRelease
  <2> QED
    BY <2>1, <1>1, IdleKnows, WentOn DEF Step
<1>3. CASE profile /\ \A i \in Live : release[i].version # v
  <2>1. /\ release' = Append(release, row)
        /\ Step(r, "insert", IF req[r].hook THEN [at |-> "attach", id |-> n] ELSE Idle)
    BY <1>3 DEF InsertRelease
  <2>2. req[r].at = "insert" /\ Knows(req[r])
    BY DEF InsertRelease, IntakeInv, RequestsKnow
  <2>3. v \in SemVer
    BY <2>2 DEF Knows
  <2>4. row \in Release
    BY <2>3 DEF Release
  <2>5. release \in Seq(Release) /\ Len(release) \in Nat /\ DOMAIN release = 1 .. Len(release)
    BY DEF IntakeInv, ReleasesTyped
  <2> HIDE DEF row, v
  <2>6. /\ release' \in Seq(Release) /\ Len(release') = n
        /\ release'[n] = row /\ \A i \in DOMAIN release : release'[i] = release[i]
    BY <2>1, <2>4, <2>5
  <2>7. DOMAIN release' = DOMAIN release \cup {n} /\ n \notin DOMAIN release
    <3>1. DOMAIN release' = 1 .. n
      BY <2>6
    <3> QED
      BY <3>1, <2>5
  <2>8. row.status = "BORRADOR" /\ row.version = v /\ row.arts = {} /\ profile'
    BY <1>1, <1>3 DEF row, rows
  <2>9. \A i \in Live' : i = n \/ i \in Live
    BY <2>6, <2>7 DEF Live
  <2>10. \A i \in Live : release'[i].version = release[i].version /\ release[i].version # v
    BY <1>3, <2>6 DEF Live
  <2>11. \A i, j \in Live' : release'[i].version = release'[j].version => i = j
    BY <2>6, <2>8, <2>9, <2>10 DEF IntakeInv, ReleasesTyped
  <2>12. \A i \in DOMAIN release' : /\ release'[i].profile => profile'
                                    /\ release'[i].status = "deleted" => release'[i].arts = {}
    <3>1. ASSUME NEW i \in DOMAIN release
          PROVE  /\ release'[i].profile => profile'
                 /\ release'[i].status = "deleted" => release'[i].arts = {}
      BY <2>6, <2>8, ReleaseRow
    <3> QED
      BY <3>1, <2>6, <2>7, <2>8
  <2>13. ReleasesTyped'
    BY <2>6, <2>11, <2>12 DEF ReleasesTyped
  <2>14. ArtifactsAnchored'
    BY <1>1, <2>6, <2>7, <2>8 DEF IntakeInv, ArtifactsAnchored, rows
  <2>15. PICK st : st = IF req[r].hook THEN [at |-> "attach", id |-> n] ELSE Idle
    OBVIOUS
  <2>16. Knows(st)'
    <3>1. CASE st = Idle
      BY <3>1 DEF Knows, Idle
    <3>2. CASE st = [at |-> "attach", id |-> n]
      BY <3>2, <2>7 DEF Knows
    <3> QED
      BY <2>15, <3>1, <3>2
  <2>17. Goto(r, st) /\ UNCHANGED left
    BY <2>1, <2>15 DEF Step
  <2>18. stranded' \subseteq DOMAIN release'
    BY <1>1, <2>7 DEF IntakeInv, BoundsTyped
  <2> QED
    BY <1>1, <2>7, <2>13, <2>14, <2>16, <2>17, <2>18, Carried
<1> QED
  BY <1>2, <1>3

LEMMA StoredBack == ASSUME IntakeInv, NEW r \in Requests, StoreWithoutArtifact(r)
                    PROVE  IntakeInv'
<1> DEFINE id == req[r].id
<1>1. UNCHANGED <<rows, pushed, minted>> /\ UNCHANGED rows
  BY DEF StoreWithoutArtifact
<1>2. /\ req[r].at = "attached" /\ id \in DOMAIN release
      /\ req[r].row.status \in {"BORRADOR", "launched"}
  BY DEF StoreWithoutArtifact, IntakeInv, RequestsKnow, Knows
<1>3. CASE id \in Live /\ req[r].row.profile /\ profile
  <2>1. /\ release' = [release EXCEPT ![id].status = req[r].row.status, ![id].profile = TRUE]
        /\ Step(r, "attached", [at |-> "launch", id |-> id]) /\ UNCHANGED stranded
    BY <1>3 DEF StoreWithoutArtifact
  <2>2. PICK draft : draft = [release[id] EXCEPT !.status = req[r].row.status]
    OBVIOUS
  <2>3. PICK row : row = [draft EXCEPT !.profile = TRUE]
    OBVIOUS
  <2>4. /\ release[id] \in Release /\ release[id].status # "deleted"
        /\ \A a \in release[id].arts : a.conn \in DOMAIN connector
    BY <1>2, <1>3, ReleaseRow DEF Live
  <2>5. /\ draft \in Release /\ draft.status = req[r].row.status
        /\ draft.version = release[id].version /\ draft.arts = release[id].arts
    BY <1>2, <2>2, <2>4 DEF Release
  <2>6. /\ row \in Release /\ row.status = req[r].row.status
        /\ row.version = release[id].version /\ row.arts = release[id].arts
    BY <2>3, <2>5 DEF Release
  <2>7. row.status # "deleted"
    BY <1>2, <2>6
  <2>8. release' = [release EXCEPT ![id] = row]
    BY <1>2, <2>1, <2>2, <2>3
  <2>9. /\ ReleasesTyped' /\ ArtifactsAnchored'
        /\ DOMAIN release \subseteq DOMAIN release'
    BY <1>1, <1>2, <1>3, <2>4, <2>6, <2>7, <2>8, Revised
  <2>10. PICK st : st = [at |-> "launch", id |-> id]
    OBVIOUS
  <2>11. Knows(st)'
    BY <1>2, <2>9, <2>10 DEF Knows
  <2>12. Goto(r, st) /\ UNCHANGED left /\ stranded' \subseteq DOMAIN release'
    BY <2>1, <2>9, <2>10 DEF Step, IntakeInv, BoundsTyped
  <2> QED
    BY <1>1, <2>9, <2>11, <2>12, Carried
<1>4. CASE ~(id \in Live /\ req[r].row.profile /\ profile)
  <2>1. /\ Step(r, "attached", Idle) /\ UNCHANGED release
        /\ stranded' = stranded \cup ({id} \cap Live)
    BY <1>4 DEF StoreWithoutArtifact
  <2>2. ReleasesTyped' /\ ArtifactsAnchored'
    BY <1>1, <2>1 DEF IntakeInv, ReleasesTyped, Live, ArtifactsAnchored, rows
  <2>3. stranded' \subseteq DOMAIN release' /\ DOMAIN release \subseteq DOMAIN release'
    BY <1>2, <2>1 DEF IntakeInv, BoundsTyped
  <2>4. Knows(Idle)'
    BY DEF Knows, Idle
  <2>5. Goto(r, Idle) /\ UNCHANGED left
    BY <2>1 DEF Step
  <2> QED
    BY <1>1, <2>2, <2>3, <2>4, <2>5, Carried
<1> QED
  BY <1>3, <1>4

LEMMA Launched == ASSUME IntakeInv, NEW r \in Requests, LaunchFromWebhook(r)
                  PROVE  IntakeInv'
<1> DEFINE id == req[r].id
<1>1. UNCHANGED <<rows, pushed, minted>> /\ UNCHANGED rows /\ Goto(r, Idle) /\ UNCHANGED left
  BY DEF LaunchFromWebhook, Step
<1>2. req[r].at = "launch" /\ id \in DOMAIN release
  BY DEF LaunchFromWebhook, IntakeInv, RequestsKnow, Knows
<1>3. Knows(Idle)'
  BY DEF Knows, Idle
<1>4. CASE release[id].arts = {}
  <2>1. UNCHANGED release /\ stranded' = stranded \cup ({id} \cap Live)
    BY <1>4 DEF LaunchFromWebhook
  <2>2. ReleasesTyped' /\ ArtifactsAnchored'
    BY <1>1, <2>1 DEF IntakeInv, ReleasesTyped, Live, ArtifactsAnchored, rows
  <2>3. stranded' \subseteq DOMAIN release' /\ DOMAIN release \subseteq DOMAIN release'
    BY <1>2, <2>1 DEF IntakeInv, BoundsTyped
  <2> QED
    BY <1>1, <1>3, <2>2, <2>3, Carried
<1>5. CASE release[id].arts # {}
  <2>1. /\ release' = [release EXCEPT ![id].status = "launched"] /\ UNCHANGED stranded
    BY <1>5 DEF LaunchFromWebhook
  <2>2. PICK row : row = [release[id] EXCEPT !.status = "launched"]
    OBVIOUS
  <2>3. /\ release[id] \in Release /\ (release[id].profile => profile)
        /\ release[id].status # "deleted"
        /\ \A a \in release[id].arts : a.conn \in DOMAIN connector
    BY <1>2, <1>5, ReleaseRow
  <2>4. /\ row \in Release /\ row.status = "launched" /\ row.profile = release[id].profile
        /\ row.version = release[id].version /\ row.arts = release[id].arts
    BY <2>2, <2>3 DEF Release
  <2>5. release' = [release EXCEPT ![id] = row]
    BY <2>1, <2>2
  <2>6. /\ ReleasesTyped' /\ ArtifactsAnchored'
        /\ DOMAIN release \subseteq DOMAIN release'
    BY <1>1, <1>2, <2>3, <2>4, <2>5, Revised
  <2>7. stranded' \subseteq DOMAIN release'
    BY <2>1, <2>6 DEF IntakeInv, BoundsTyped
  <2> QED
    BY <1>1, <1>3, <2>6, <2>7, Carried
<1> QED
  BY <1>4, <1>5

LEMMA Saved == ASSUME IntakeInv, NEW r \in Requests, SaveArtifact(r)
               PROVE  IntakeInv'
<1> DEFINE id == req[r].id
           a == Head(req[r].todo)
           rest == Tail(req[r].todo)
<1>1. UNCHANGED <<rows, pushed, minted, stranded>> /\ UNCHANGED rows
  BY DEF SaveArtifact
<1>2. req[r].at = "save" /\ Knows(req[r])
  BY DEF SaveArtifact, IntakeInv, RequestsKnow
<1>3. /\ req[r] \in [at: {"verify", "save"}, id: DOMAIN release, todo: Seq(Artifact)]
      /\ req[r].todo # <<>> /\ id \in DOMAIN release
  BY <1>2 DEF Knows
<1>4. a \in Artifact /\ rest \in Seq(Artifact)
  BY <1>3
<1>5. CASE a.conn \notin DOMAIN connector \/ id \notin Live
  <2>1. Step(r, "save", Idle) /\ UNCHANGED release
    BY <1>5 DEF SaveArtifact
  <2> QED
    BY <2>1, <1>1, IdleKnows, WentOn DEF Step
<1>6. CASE a.conn \in DOMAIN connector /\ id \in Live
  <2>1. /\ release' = [release EXCEPT ![id].arts = @ \cup {a}]
        /\ Step(r, "save", IF rest = <<>> THEN Idle
                           ELSE [req[r] EXCEPT !.at = "verify", !.todo = rest])
    BY <1>6 DEF SaveArtifact
  <2>2. PICK row : row = [release[id] EXCEPT !.arts = @ \cup {a}]
    OBVIOUS
  <2>3. /\ release[id] \in Release /\ (release[id].profile => profile)
        /\ release[id].status # "deleted"
        /\ \A b \in release[id].arts : b.conn \in DOMAIN connector
    BY <1>3, <1>6, ReleaseRow DEF Live
  <2> HIDE DEF a, rest
  <2>4. release[id].arts \cup {a} \in SUBSET Artifact
    BY <1>4, <2>3 DEF Release
  <2>5. /\ row \in Release /\ row.status = release[id].status
        /\ row.profile = release[id].profile
        /\ row.version = release[id].version /\ row.arts = release[id].arts \cup {a}
    BY <2>2, <2>3, <2>4 DEF Release
  <2>6. release' = [release EXCEPT ![id] = row]
    BY <2>1, <2>2
  <2>7. \A b \in row.arts : b.conn \in DOMAIN connector
    BY <1>6, <2>3, <2>5
  <2>8. /\ ReleasesTyped' /\ ArtifactsAnchored'
        /\ DOMAIN release \subseteq DOMAIN release'
    BY <1>1, <1>3, <2>3, <2>5, <2>6, <2>7, Revised
  <2>9. PICK first : first = [req[r] EXCEPT !.at = "verify"]
    OBVIOUS
  <2>10. PICK st : st = IF rest = <<>> THEN Idle ELSE [first EXCEPT !.todo = rest]
    OBVIOUS
  <2>11. Knows(st)'
    <3>1. CASE st = Idle
      BY <3>1 DEF Knows, Idle
    <3>2. CASE rest # <<>> /\ st = [first EXCEPT !.todo = rest]
      <4>1. /\ first.at = "verify"
            /\ first \in [at: {"verify", "save"}, id: DOMAIN release, todo: Seq(Artifact)]
        BY <1>3, <2>9
      <4>2. /\ st.at = "verify" /\ st.todo = rest
            /\ st \in [at: {"verify", "save"}, id: DOMAIN release, todo: Seq(Artifact)]
        BY <1>4, <3>2, <4>1
      <4>3. st \in [at: {"verify", "save"}, id: DOMAIN release', todo: Seq(Artifact)]
        BY <2>8, <4>2
      <4> QED
        BY <3>2, <4>2, <4>3 DEF Knows
    <3> QED
      BY <2>10, <3>1, <3>2
  <2>12. Goto(r, st) /\ UNCHANGED left
    BY <2>1, <2>9, <2>10 DEF Step
  <2>13. stranded' \subseteq DOMAIN release'
    BY <1>1, <2>8 DEF IntakeInv, BoundsTyped
  <2> QED
    BY <1>1, <2>8, <2>11, <2>12, <2>13, Carried
<1> QED
  BY <1>5, <1>6

------------------------------------------------------------------------------
(* Steps that change a connector, the project or the profile.               *)

(* What has to be shown of the requests that did not do it. *)
LEMMA StillKnows ==
    ASSUME NEW q, Knows(q), DOMAIN release' = DOMAIN release, DOMAIN told \subseteq DOMAIN told',
           q.at = "edit" => Fits(q)',
           q.at = "register" => DOMAIN connector' = {} \/ "register" \in raced'
    PROVE  Knows(q)'
    BY DEF Knows, RowOf

LEMMA OthersKnow ==
    ASSUME RequestsKnow, NEW r \in Requests, Goto(r, Idle),
           ASSUME NEW q \in Requests \ {r}, NEW k, k = req[q] PROVE Knows(k)'
    PROVE  RequestsKnow'
<1>1. DOMAIN req' = Requests /\ \A q \in Requests : req'[q] = IF q = r THEN Idle ELSE req[q]
  BY DEF Goto, RequestsKnow
<1>2. ASSUME NEW q \in Requests PROVE Knows(req[q])'
  <2>1. PICK k : k = req'[q]
    OBVIOUS
  <2>2. Knows(k)'
    <3>1. CASE q = r
      BY <3>1, <2>1, <1>1 DEF Knows, Idle
    <3>2. CASE q # r
      BY <3>2, <2>1, <1>1
    <3> QED
      BY <3>1, <3>2
  <2> QED
    BY <2>1, <2>2 DEF Knows, Fits, RowOf
<1> QED
  BY <1>1, <1>2 DEF RequestsKnow

LEMMA ReleasesStay ==
    ASSUME IntakeInv, UNCHANGED <<release, profile, pushed, minted, left, stranded>>
    PROVE  ReleasesTyped' /\ BoundsTyped'
    BY DEF IntakeInv, ReleasesTyped, BoundsTyped, Live

LEMMA ConnectorStored == ASSUME IntakeAssumption, IntakeInv, NEW r \in Requests,
                                StoreConnector(r)
                         PROVE  IntakeInv'
<1> DEFINE id == req[r].id
           row == req[r].row
<1>1. /\ req[r].at = "edit" /\ id \in DOMAIN connector
      /\ connector' = [connector EXCEPT ![id] = row]
      /\ told' = [told EXCEPT ![id] = Over(req[r].delta, @)]
      /\ Race(r, id) /\ Goto(r, Idle) /\ UNCHANGED left
      /\ UNCHANGED <<project, profile, release, pushed, minted, stranded>>
  BY DEF StoreConnector, Step
<1>2. Knows(req[r]) /\ Fits(req[r]) /\ row \in RowOf(id) /\ id \in Connectors /\ id \in DOMAIN told
  BY <1>1 DEF IntakeInv, RequestsKnow, RowsTyped, Knows
<1>3. id # "project" /\ "project" \notin DOMAIN connector /\ row \in ConnectorRow
  BY <1>2 DEF IntakeInv, RowsTyped, IntakeAssumption, RowOf
<1>4. raced \subseteq raced' /\ (Overlaps(r, id) => id \in raced')
  BY <1>1 DEF Race
<1>5. /\ DOMAIN connector' = DOMAIN connector /\ DOMAIN told' = DOMAIN told
      /\ \A c \in DOMAIN connector : connector'[c] = IF c = id THEN row ELSE connector[c]
      /\ \A c \in DOMAIN told : told'[c] = IF c = id THEN Over(req[r].delta, told[c]) ELSE told[c]
  BY <1>1
<1>6. RowsTyped'
  BY <1>1, <1>3, <1>5 DEF IntakeInv, RowsTyped
<1>7. ReleasesTyped' /\ BoundsTyped'
  BY <1>1, ReleasesStay
<1>8. EditsHold'
  <2>1. ASSUME NEW c \in DOMAIN connector \ raced' PROVE connector'[c] = told'[c]
    <3>1. c \in DOMAIN connector \ raced /\ connector[c] = told[c] /\ c \in DOMAIN told
      BY <2>1, <1>4 DEF IntakeInv, EditsHold, RowsTyped
    <3>2. CASE c = id
      BY <3>1, <3>2, <1>2, <1>5 DEF Fits
    <3>3. CASE c # id
      BY <3>1, <3>3, <1>5
    <3> QED
      BY <3>2, <3>3
  <2>2. "project" \in raced' \/ project' = told'["project"]
    BY <1>1, <1>3, <1>4, <1>5 DEF IntakeInv, EditsHold, RowsTyped
  <2> QED
    BY <2>1, <2>2, <1>5 DEF EditsHold
<1>9. RequestsKnow'
  <2>1. ASSUME NEW q \in Requests \ {r}, NEW k, k = req[q] PROVE Knows(k)'
    <3>1. Knows(k)
      BY <2>1 DEF IntakeInv, RequestsKnow
    <3>2. k.at = "edit" => Fits(k)'
      <4>1. SUFFICES ASSUME k.at = "edit" PROVE Fits(k)'
        OBVIOUS
      <4>2. Fits(k)
        BY <3>1, <4>1 DEF Knows
      <4>3. CASE k.id = id
        <5>1. id \in raced'
          BY <1>4, <2>1, <4>1, <4>3 DEF Overlaps
        <5> QED
          BY <5>1, <4>3, <1>3 DEF Fits
      <4>4. CASE k.id # id
        BY <4>2, <4>4, <1>1, <1>4, <1>5 DEF Fits
      <4> QED
        BY <4>3, <4>4
    <3>3. k.at = "register" => "register" \in raced'
      BY <3>1, <1>1, <1>4 DEF Knows
    <3> QED
      BY <3>1, <3>2, <3>3, <1>1, <1>5, StillKnows
  <2> QED
    BY <2>1, <1>1, OthersKnow DEF IntakeInv
<1>10. AtMostOne' /\ ArtifactsAnchored'
  BY <1>1, <1>4, <1>5 DEF IntakeInv, AtMostOne, ArtifactsAnchored
<1> QED
  BY <1>6, <1>7, <1>8, <1>9, <1>10 DEF IntakeInv

LEMMA ProjectStored == ASSUME IntakeAssumption, IntakeInv, NEW r \in Requests,
                              StoreProject(r)
                       PROVE  IntakeInv'
<1> DEFINE row == req[r].row
<1>1. /\ req[r].at = "edit" /\ req[r].id = "project"
      /\ project' = row
      /\ told' = [told EXCEPT !["project"] = Over(req[r].delta, @)]
      /\ Race(r, "project") /\ Goto(r, Idle) /\ UNCHANGED left
      /\ UNCHANGED <<connector, profile, release, pushed, minted, stranded>>
  BY DEF StoreProject, Step
<1>2. Fits(req[r]) /\ row \in ProjectRow /\ "project" \in DOMAIN told
  BY <1>1 DEF IntakeInv, RequestsKnow, Knows, RowOf
<1>3. "project" \notin DOMAIN connector
  BY DEF IntakeInv, RowsTyped, IntakeAssumption
<1>4. raced \subseteq raced' /\ (Overlaps(r, "project") => "project" \in raced')
  BY <1>1 DEF Race
<1>5. /\ DOMAIN told' = DOMAIN told
      /\ \A c \in DOMAIN told : told'[c] = IF c = "project" THEN Over(req[r].delta, told[c])
                                                            ELSE told[c]
  BY <1>1
<1>6. RowsTyped'
  BY <1>1, <1>2, <1>5 DEF IntakeInv, RowsTyped
<1>7. ReleasesTyped' /\ BoundsTyped'
  BY <1>1, ReleasesStay
<1>8. EditsHold'
  <2>1. \A c \in DOMAIN connector \ raced' : connector'[c] = told'[c]
    BY <1>1, <1>3, <1>4, <1>5 DEF IntakeInv, EditsHold, RowsTyped
  <2>2. "project" \in raced' \/ project' = told'["project"]
    BY <1>1, <1>2, <1>4, <1>5 DEF IntakeInv, EditsHold, Fits
  <2> QED
    BY <2>1, <2>2, <1>1 DEF EditsHold
<1>9. RequestsKnow'
  <2>1. ASSUME NEW q \in Requests \ {r}, NEW k, k = req[q] PROVE Knows(k)'
    <3>1. Knows(k)
      BY <2>1 DEF IntakeInv, RequestsKnow
    <3>2. k.at = "edit" => Fits(k)'
      <4>1. SUFFICES ASSUME k.at = "edit" PROVE Fits(k)'
        OBVIOUS
      <4>2. Fits(k)
        BY <3>1, <4>1 DEF Knows
      <4>3. k.id = "project" => "project" \in raced'
        BY <1>4, <2>1, <4>1 DEF Overlaps
      <4> QED
        BY <4>2, <4>3, <1>1, <1>4 DEF Fits
    <3>3. k.at = "register" => DOMAIN connector' = {} \/ "register" \in raced'
      BY <3>1, <1>1, <1>4 DEF Knows
    <3> QED
      BY <3>1, <3>2, <3>3, <1>1, <1>5, StillKnows
  <2> QED
    BY <2>1, <1>1, OthersKnow DEF IntakeInv
<1>10. AtMostOne' /\ ArtifactsAnchored'
  BY <1>1, <1>4 DEF IntakeInv, AtMostOne, ArtifactsAnchored
<1> QED
  BY <1>6, <1>7, <1>8, <1>9, <1>10 DEF IntakeInv

LEMMA Registered == ASSUME IntakeAssumption, IntakeInv, NEW r \in Requests,
                           SaveConnector(r)
                    PROVE  IntakeInv'
<1>1. /\ req[r].at = "register"
      /\ Race(r, "register") /\ Goto(r, Idle) /\ UNCHANGED left
      /\ UNCHANGED <<project, profile, release, pushed, minted, stranded>>
  BY DEF SaveConnector, Step
<1>2. PICK c \in Connectors \ DOMAIN told, s \in {"ACTIVO", "ERROR"} :
          LET row == [cred |-> req[r].cred, status |-> s, enabled |-> FALSE, secret |-> 0]
          IN connector' = Put(connector, c, row) /\ told' = Put(told, c, row)
  BY DEF SaveConnector
<1>3. PICK row : row = [cred |-> req[r].cred, status |-> s, enabled |-> FALSE, secret |-> 0]
  OBVIOUS
<1>4. req[r].cred \in Credentials /\ (DOMAIN connector = {} \/ "register" \in raced)
  BY <1>1 DEF IntakeInv, RequestsKnow, Knows
<1>5. row \in ConnectorRow
  BY <1>3, <1>4 DEF ConnectorRow, Status, IntakeAssumption
<1>6. connector' = Put(connector, c, row) /\ told' = Put(told, c, row)
  BY <1>2, <1>3
<1>7. /\ DOMAIN connector' = DOMAIN connector \cup {c} /\ DOMAIN told' = DOMAIN told \cup {c}
      /\ \A d \in DOMAIN connector' : connector'[d] = IF d = c THEN row ELSE connector[d]
      /\ \A d \in DOMAIN told' : told'[d] = IF d = c THEN row ELSE told[d]
  BY <1>6 DEF Put
<1>8. raced \subseteq raced' /\ (Overlaps(r, "register") => "register" \in raced')
  BY <1>1 DEF Race
<1>9. c # "project" /\ c \notin DOMAIN connector /\ c \in Connectors
  BY DEF IntakeInv, RowsTyped, IntakeAssumption
<1>10. RowsTyped'
  BY <1>1, <1>5, <1>7 DEF IntakeInv, RowsTyped
<1>11. ReleasesTyped' /\ BoundsTyped'
  BY <1>1, ReleasesStay
<1>12. EditsHold'
  BY <1>1, <1>7, <1>8, <1>9 DEF IntakeInv, EditsHold, RowsTyped
<1>13. RequestsKnow'
  <2>1. ASSUME NEW q \in Requests \ {r}, NEW k, k = req[q] PROVE Knows(k)'
    <3>1. Knows(k)
      BY <2>1 DEF IntakeInv, RequestsKnow
    <3>2. k.at = "edit" => Fits(k)'
      <4>1. SUFFICES ASSUME k.at = "edit" PROVE Fits(k)'
        OBVIOUS
      <4>2. Fits(k) /\ k.id # c
        BY <3>1, <4>1 DEF Knows
      <4> QED
        BY <4>2, <1>1, <1>7, <1>8 DEF Fits
    <3>3. k.at = "register" => "register" \in raced'
      BY <2>1, <1>8 DEF Overlaps
    <3> QED
      BY <3>1, <3>2, <3>3, <1>1, <1>7, StillKnows
  <2> QED
    BY <2>1, <1>1, OthersKnow DEF IntakeInv
<1>14. AtMostOne'
  BY <1>4, <1>7, <1>8 DEF AtMostOne
<1>15. ArtifactsAnchored'
  BY <1>1, <1>7 DEF IntakeInv, ArtifactsAnchored
<1> QED
  BY <1>10, <1>11, <1>12, <1>13, <1>14, <1>15 DEF IntakeInv

(* What has to be shown when no request takes part. *)
LEMMA NobodyMoves ==
    ASSUME RequestsKnow, UNCHANGED req,
           ASSUME NEW q \in Requests, NEW k, k = req[q] PROVE Knows(k)'
    PROVE  RequestsKnow'
<1>1. ASSUME NEW q \in Requests PROVE Knows(req[q])'
  <2>1. PICK k : k = req[q]
    OBVIOUS
  <2>2. Knows(k)'
    BY <2>1
  <2> QED
    BY <2>1, <2>2 DEF Knows, Fits, RowOf
<1> QED
  BY <1>1 DEF RequestsKnow

LEMMA ConnectorDeleted == ASSUME IntakeAssumption, IntakeInv, NEW c \in Connectors,
                                 delete_connector(c)
                          PROVE  IntakeInv'
<1>1. /\ connector' = Without(c) /\ ~Uses(c) /\ Pay
      /\ UNCHANGED <<project, profile, told, raced, release, pushed, req, minted, stranded>>
  BY DEF delete_connector
<1>2. /\ DOMAIN connector' = DOMAIN connector \ {c}
      /\ \A d \in DOMAIN connector' : connector'[d] = connector[d]
  BY <1>1 DEF Without
<1>3. RowsTyped'
  BY <1>1, <1>2 DEF IntakeInv, RowsTyped
<1>4. ReleasesTyped' /\ BoundsTyped'
  BY <1>1, Payment DEF IntakeInv, ReleasesTyped, BoundsTyped, Live
<1>5. EditsHold' /\ AtMostOne'
  BY <1>1, <1>2 DEF IntakeInv, EditsHold, AtMostOne
<1>6. ArtifactsAnchored'
  BY <1>1, <1>2 DEF IntakeInv, ArtifactsAnchored, Uses
<1>7. RequestsKnow'
  <2>1. ASSUME NEW q \in Requests, NEW k, k = req[q] PROVE Knows(k)'
    <3>1. Knows(k)
      BY <2>1 DEF IntakeInv, RequestsKnow
    <3>2. k.at = "edit" => Fits(k)'
      BY <3>1, <1>1, <1>2 DEF Knows, Fits
    <3>3. k.at = "register" => DOMAIN connector' = {} \/ "register" \in raced'
      BY <3>1, <1>1, <1>2 DEF Knows
    <3> QED
      BY <3>1, <3>2, <3>3, <1>1, StillKnows
  <2> QED
    BY <2>1, <1>1, NobodyMoves DEF IntakeInv
<1> QED
  BY <1>3, <1>4, <1>5, <1>6, <1>7 DEF IntakeInv

LEMMA ProfileDeleted == ASSUME IntakeAssumption, IntakeInv, delete_profile
                        PROVE  IntakeInv'
<1>1. /\ profile' = FALSE /\ Pay
      /\ release' = [i \in DOMAIN release |-> [release[i] EXCEPT !.profile = FALSE]]
      /\ UNCHANGED <<connector, project, told, raced, pushed, req, minted, stranded>>
  BY DEF delete_profile
<1>2. DOMAIN release' = DOMAIN release
  BY <1>1
<1>3. ASSUME NEW i \in DOMAIN release
      PROVE  /\ release'[i] \in Release /\ release'[i].profile = FALSE
             /\ release'[i].version = release[i].version
             /\ release'[i].status = release[i].status
             /\ release'[i].arts = release[i].arts
  <2>1. release[i] \in Release /\ release'[i] = [release[i] EXCEPT !.profile = FALSE]
    BY <1>1, ReleaseRow
  <2> QED
    BY <2>1 DEF Release
<1>4. ReleasesTyped'
  <2>1. release \in Seq(Release) /\ Len(release) \in Nat /\ DOMAIN release = 1 .. Len(release)
    BY DEF IntakeInv, ReleasesTyped
  <2>2. release' \in Seq(Release)
    <3>1. release' \in [1 .. Len(release) -> Release]
      BY <1>1, <1>3, <2>1
    <3> QED
      BY <3>1, <2>1, SeqDef
  <2>3. \A i, j \in Live' : release'[i].version = release'[j].version => i = j
    <3>1. Live' \subseteq Live /\ Live \subseteq DOMAIN release
      BY <1>2, <1>3 DEF Live
    <3>2. \A i \in Live : release'[i].version = release[i].version
      BY <3>1, <1>3
    <3> QED
      BY <3>1, <3>2 DEF IntakeInv, ReleasesTyped
  <2>4. \A i \in DOMAIN release' : release'[i].status = "deleted" => release'[i].arts = {}
    BY <1>2, <1>3, ReleaseRow
  <2> QED
    BY <1>2, <1>3, <2>2, <2>3, <2>4 DEF ReleasesTyped
<1>5. BoundsTyped'
  BY <1>1, <1>2, Payment DEF IntakeInv, BoundsTyped
<1>6. RowsTyped' /\ EditsHold' /\ AtMostOne'
  BY <1>1 DEF IntakeInv, RowsTyped, EditsHold, AtMostOne
<1>7. ArtifactsAnchored'
  BY <1>1, <1>2, <1>3 DEF IntakeInv, ArtifactsAnchored
<1>8. RequestsKnow'
  <2>1. ASSUME NEW q \in Requests, NEW k, k = req[q] PROVE Knows(k)'
    <3>1. Knows(k)
      BY <2>1 DEF IntakeInv, RequestsKnow
    <3> QED
      BY <3>1, <1>1, <1>2, Undisturbed
  <2> QED
    BY <2>1, <1>1, NobodyMoves DEF IntakeInv
<1> QED
  BY <1>4, <1>5, <1>6, <1>7, <1>8 DEF IntakeInv

------------------------------------------------------------------------------
(* The invariant.                                                           *)

LEMMA IntakeInit == ASSUME IntakeAssumption, Init PROVE IntakeInv
<1>1. PICK c \in Connectors, k \in Credentials, on \in BOOLEAN :
          /\ minted = IF on THEN 1 ELSE 0
          /\ connector = [d \in {c} |-> [cred |-> k, status |-> "ACTIVO", enabled |-> on,
                                         secret |-> minted]]
  BY DEF Init
<1>2. minted \in 0 .. MaxSecrets
  BY <1>1 DEF IntakeAssumption
<1>3. DOMAIN connector = {c} /\ connector[c] \in ConnectorRow
  BY <1>1, <1>2 DEF ConnectorRow, Status
<1>4. /\ project = [archived |-> FALSE] /\ profile = TRUE /\ release = <<>> /\ pushed = {}
      /\ req = [r \in Requests |-> Idle] /\ left = Budget
      /\ told = Put(connector, "project", project) /\ raced = {} /\ stranded = {}
  BY DEF Init
<1>5. /\ DOMAIN told = {c, "project"} /\ told["project"] = project
      /\ told[c] = connector[c] /\ c # "project"
  BY <1>3, <1>4 DEF Put, IntakeAssumption
<1>6. RowsTyped
  BY <1>3, <1>4, <1>5 DEF RowsTyped, ProjectRow
<1>7. release \in Seq(Release) /\ DOMAIN release = {}
  BY <1>4, NoColumn
<1>8. ReleasesTyped /\ ArtifactsAnchored
  BY <1>7 DEF ReleasesTyped, ArtifactsAnchored, Live
<1>9. BoundsTyped
  BY <1>2, <1>4 DEF BoundsTyped, IntakeAssumption
<1>10. RequestsKnow
  BY <1>4, IdleKnows DEF RequestsKnow
<1>11. EditsHold /\ AtMostOne
  BY <1>3, <1>4, <1>5 DEF EditsHold, AtMostOne
<1> QED
  BY <1>6, <1>8, <1>9, <1>10, <1>11 DEF IntakeInv

LEMMA IntakeNext == ASSUME IntakeAssumption, IntakeInv, [Next]_vars PROVE IntakeInv'
<1>1. CASE UNCHANGED vars
  <2>1. UNCHANGED <<rows, release, req, pushed, minted, left, stranded>>
    BY <1>1 DEF vars, rows
  <2>2. RowsTyped' /\ EditsHold' /\ AtMostOne'
    BY <2>1, RowsStay
  <2>3. ReleasesTyped' /\ BoundsTyped' /\ ArtifactsAnchored'
    BY <2>1 DEF IntakeInv, ReleasesTyped, BoundsTyped, ArtifactsAnchored, Live, rows
  <2>4. RequestsKnow'
    BY <2>1 DEF IntakeInv, RequestsKnow, Knows, Fits, RowOf, rows
  <2> QED
    BY <2>2, <2>3, <2>4 DEF IntakeInv
<1>2. ASSUME NEW r \in Requests, NEW c \in DOMAIN connector,
             \/ patch_connector(r, c) \/ test_connector(r, c)
             \/ patch_connector_status(r, c) \/ configure_connector_webhook(r, c)
      PROVE  IntakeInv'
  <2> DEFINE all == UNION {update_connector(c), test_connector_connection(c),
                           toggle_connector_status(c), configure_webhook(c)}
  <2>1. \E deltas \in SUBSET all : EditConnector(r, c, deltas)
    BY <1>2 DEF patch_connector, test_connector, patch_connector_status,
                configure_connector_webhook
  <2> QED
    BY <2>1, ConnectorEdited
<1>3. ASSUME NEW r \in Requests, patch_project(r) \/ post_archive(r) \/ post_unarchive(r)
      PROVE  IntakeInv'
  BY <1>3, ProjectEdited DEF patch_project, post_archive, post_unarchive
<1>4. ASSUME NEW r \in Requests, add_artifact(r) \/ import_artifacts(r)
      PROVE  IntakeInv'
  <2>1. CASE add_artifact(r)
    <3>1. PICK a \in Single : Submit(r, <<a>>)
      BY <2>1 DEF add_artifact
    <3>2. <<a>> \in Seq(Artifact) \ {<<>>}
      BY DEF IntakeAssumption, Artifact
    <3> QED
      BY <3>1, <3>2, Submitted
  <2>2. CASE import_artifacts(r)
    BY <2>2, Submitted DEF import_artifacts, IntakeAssumption, Artifact
  <2> QED
    BY <1>4, <2>1, <2>2
<1>5. ASSUME NEW r \in Requests, Work(r) \/ Abort(r)
      PROVE  IntakeInv'
  BY <1>5, ConnectorStored, Failed, ProjectStored, Registered, Checked, Inserted, Loaded,
     StoredBack, Launched, Verified, Saved DEF Work
<1>6. ASSUME NEW r \in Requests, register_connector(r) \/ \E v \in SemVer : create_release(r, v)
      PROVE  IntakeInv'
  BY <1>6, Registering, Creating
<1>7. ASSUME NEW c \in Connectors, delete_connector(c) PROVE IntakeInv'
  BY <1>7, ConnectorDeleted
<1>8. ASSUME NEW ref \in Refs, Push(ref) \/ Deliver(ref) PROVE IntakeInv'
  BY <1>8, Pushed, Delivered
<1>9. ASSUME NEW id \in Live, verify_release(id) \/ remove_artifact(id) \/ delete_release(id)
      PROVE  IntakeInv'
  BY <1>9, HandsOn
<1>10. CASE delete_profile
  BY <1>10, ProfileDeleted
<1> QED
  BY <1>1, <1>2, <1>3, <1>4, <1>5, <1>6, <1>7, <1>8, <1>9, <1>10 DEF Next

LEMMA IntakeInvariant == ASSUME IntakeAssumption PROVE Spec => []IntakeInv
<1>1. Init => IntakeInv
  BY IntakeInit
<1>2. IntakeInv /\ [Next]_vars => IntakeInv'
  BY IntakeNext
<1> QED
  BY <1>1, <1>2, PTL DEF Spec

(* Rows, releases and requests have their types; no two releases that are   *)
(* not deleted have the same version, and none has a profile that is gone.  *)
THEOREM IntakeTypeCorrect == Spec => []TypeOK
<1>1. IntakeInv => TypeOK
  <2>1. SUFFICES ASSUME IntakeInv PROVE TypeOK
    OBVIOUS
  <2>2. \A i \in DOMAIN release : release[i] \in Release /\ (release[i].profile => profile)
    BY <2>1, ReleaseRow
  <2>3. \A r \in Requests : req[r].at = "edit" =>
            req[r].row \in IF req[r].id = "project" THEN ProjectRow ELSE ConnectorRow
    BY <2>1 DEF IntakeInv, RequestsKnow, Knows, RowOf
  <2> QED
    BY <2>1, <2>2, <2>3 DEF IntakeInv, RowsTyped, ReleasesTyped, BoundsTyped, TypeOK
<1>2. Spec => []IntakeInv
  BY IntakeInvariant, IntakeAssumption
<1> QED
  BY <1>1, <1>2, PTL

(* An acknowledged edit of a connector or of the project is in the row      *)
(* until the next one, unless two requests worked on the row at once.       *)
THEOREM EditsStand == Spec => []EditsHold
<1>1. IntakeInv => EditsHold
  BY DEF IntakeInv
<1>2. Spec => []IntakeInv
  BY IntakeInvariant, IntakeAssumption
<1> QED
  BY <1>1, <1>2, PTL

(* register_connector leaves an organization with one connector of an       *)
(* implementation, unless two registrations ran at once.                    *)
THEOREM OneConnector == Spec => []OneConnectorEach
<1>1. IntakeInv => OneConnectorEach
  <2>1. SUFFICES ASSUME AtMostOne, "register" \notin raced
                 PROVE  Cardinality(DOMAIN connector) <= 1
    BY DEF IntakeInv, OneConnectorEach
  <2>2. CASE DOMAIN connector = {}
    BY <2>2, FS_EmptySet
  <2>3. CASE \E c : DOMAIN connector = {c}
    BY <2>3, FS_Singleton
  <2> QED
    BY <2>1, <2>2, <2>3 DEF AtMostOne
<1>2. Spec => []IntakeInv
  BY IntakeInvariant, IntakeAssumption
<1> QED
  BY <1>1, <1>2, PTL

(* The connector of an artifact is there as long as the artifact is, for    *)
(* any interleaving of imports, deletions, webhooks and crashes.            *)
THEOREM ConnectorsOutliveArtifacts == Spec => []ArtifactsAnchored
<1>1. IntakeInv => ArtifactsAnchored
  BY DEF IntakeInv
<1>2. Spec => []IntakeInv
  BY IntakeInvariant, IntakeAssumption
<1> QED
  BY <1>1, <1>2, PTL
==============================================================================
