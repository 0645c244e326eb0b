---------------------------- MODULE ReleaseIntake ----------------------------
(***************************************************************************)
(* How releases and artifacts come in: an organization's connectors to one *)
(* source-control service, a project, the releases created in it by hand   *)
(* or by the webhook of a pushed tag, and the artifacts attached to them   *)
(* (connectors.py, webhooks.py, organizations.py, releases.py and the      *)
(* services behind them).                                                  *)
(*                                                                         *)
(* Connectors and projects are edited by load, change, store: the store    *)
(* writes every column of the copy, and a connection test calls the        *)
(* service in between.  A launch is one step here (ReleaseVerification has *)
(* it in detail).  A request refused at its first read changes nothing and *)
(* is not a step.                                                          *)
(***************************************************************************)
EXTENDS Naturals, Sequences, FiniteSets

CONSTANTS
    Requests,       \* requests in flight
    Connectors,     \* ids for the organization's connectors
    Foreign,        \* connectors of other organizations
    Credentials,    \* credentials somebody may enter
    Refs,           \* tags and branches pushed to the repository
    Single,         \* artifacts submitted, [conn, there]: is there such a thing?
    Imports,        \* lists of artifacts submitted; an empty one changes nothing
    MaxSecrets,     \* bound: webhook secrets generated
    Budget          \* bound: requests other than redeliveries, and crashes

ASSUME IntakeAssumption ==
    /\ Connectors \cap (Foreign \cup {"project", "register"}) = {}
    /\ Single \subseteq [conn: Connectors \cup Foreign, there: BOOLEAN]
    /\ \A list \in Imports : list \in Seq([conn: Connectors \cup Foreign, there: BOOLEAN])
                             /\ list # <<>>
    /\ MaxSecrets \in Nat \ {0} /\ Budget \in Nat

VARIABLES
    connector,  \* the rows of the organization's connectors, by id
    project,    \* the row of the project
    profile,    \* the project's verification profile exists
    release,    \* the project's releases, in the order they were created
    pushed,     \* refs whose event the service delivers until it gets a 202
    req,        \* what each request is doing
    minted,     \* webhook secrets generated so far
    left,       \* requests and crashes the bound still allows
    told,       \* history: each row as its acknowledged edits leave it
    raced,      \* history: rows stored while another request held a copy
    stranded    \* history: releases whose webhook ended without a launch

vars == <<connector, project, profile, release, pushed, req, minted, left,
          told, raced, stranded>>
rows == <<connector, project, profile, told, raced>>

Status == {"ACTIVO", "INACTIVO", "ERROR"}
ConnectorRow == [cred: Credentials, status: Status, enabled: BOOLEAN,
                 secret: 0 .. MaxSecrets]           \* secret 0 is NULL
ProjectRow == [archived: BOOLEAN]                   \* name and profile left out
Artifact == [conn: Connectors \cup Foreign, there: BOOLEAN]

(* The ref of the event when it is a tag; pushes to a branch are ignored. *)
parse_tag_push_event(ref) == {ref} \ {"main"}

(* _is_valid_semver: of the tags, "v1" and "1" name a version, "latest" none. *)
SemVer == {"1"}
version_from_tag_name_verbatim(tag) == tag

version_from_tag_name(tag) == IF tag = "v1" THEN "1" ELSE tag

Release == [version: SemVer, status: {"BORRADOR", "launched", "deleted"},
            profile: BOOLEAN, arts: SUBSET Artifact]
Idle == [at |-> "idle"]

(* A deleted release leaves its place, and no other row gets its id. *)
Live == {i \in DOMAIN release : release[i].status # "deleted"}

(* The columns of delta over those of row; and one more row, or a new one. *)
Over(delta, row) ==
    [k \in DOMAIN row |-> IF k \in DOMAIN delta THEN delta[k] ELSE row[k]]
Put(f, k, v) == [x \in DOMAIN f \cup {k} |-> IF x = k THEN v ELSE f[x]]
------------------------------------------------------------------------------
Init ==
    /\ \E c \in Connectors, k \in Credentials, on \in BOOLEAN :
          /\ minted = IF on THEN 1 ELSE 0
          /\ connector = [d \in {c} |-> [cred |-> k, status |-> "ACTIVO", enabled |-> on,
                                        secret |-> minted]]
    /\ project = [archived |-> FALSE]
    /\ profile = TRUE /\ release = <<>> /\ pushed = {}
    /\ req = [r \in Requests |-> Idle] /\ left = Budget
    /\ told = Put(connector, "project", project)
    /\ raced = {} /\ stranded = {}

Pay == left > 0 /\ left' = left - 1
Goto(r, state) == req' = [req EXCEPT ![r] = state]
Step(r, from, to) == req[r].at = from /\ Goto(r, to) /\ UNCHANGED left

(* A route begins: some request is free to serve it. *)
Serve(r, state) == req[r] = Idle /\ Goto(r, state) /\ Pay

(* Who else works on the same row, or on the same decision. *)
Overlaps(r, key) == \E s \in Requests \ {r} :
    \/ req[s].at = "edit" /\ req[s].id = key
    \/ req[s].at = "register" /\ key = "register"
Race(r, key) == raced' = IF Overlaps(r, key) THEN raced \cup {key} ELSE raced

------------------------------------------------------------------------------
(* Connectors and the project: load, change, store.                         *)

(* delta: the columns the caller is told about when the store is done.  A   *)
(* service says which ones there can be.                                    *)
Edit(r, id, row, delta) ==
    Serve(r, [at |-> "edit", id |-> id, row |-> Over(delta, row), delta |-> delta])

(* The credential is replaced, or only the name is, which is left out. *)
update_connector(c) == {<<>>} \cup {[cred |-> k] : k \in Credentials}

(* test_connection answers, or does not: the HTTP call is out of our hands. *)
test_connector_connection(c) == {[status |-> s] : s \in {"ACTIVO", "ERROR"}}

toggle_connector_status(c) == {[status |-> s] : s \in Status}

(* Enabling generates a secret when there is none or a new one is asked for. *)
configure_webhook(c) ==
    {[enabled |-> FALSE]}
    \cup {[enabled |-> TRUE] : s \in {connector[c].secret} \ {0}}
    \cup {[enabled |-> TRUE, secret |-> s] : s \in {minted + 1} \cap (1 .. MaxSecrets)}

EditConnector(r, c, deltas) ==
    /\ \E delta \in deltas :
          /\ Edit(r, c, connector[c], delta)
          /\ minted' = IF "secret" \in DOMAIN delta THEN delta.secret ELSE minted
    /\ UNCHANGED <<rows, release, pushed, stranded>>

patch_connector(r, c) == EditConnector(r, c, update_connector(c))
test_connector(r, c) == EditConnector(r, c, test_connector_connection(c))
patch_connector_status(r, c) == EditConnector(r, c, toggle_connector_status(c))
configure_connector_webhook(r, c) == EditConnector(r, c, configure_webhook(c))

(* All three read the row; name and profile are left out. *)
update_project == <<>>
archive_project == [archived |-> TRUE]
unarchive_project == [archived |-> FALSE]

EditProject(r, delta) ==
    /\ Edit(r, "project", project, delta)
    /\ UNCHANGED <<rows, release, pushed, stranded, minted>>

patch_project(r) == EditProject(r, update_project)
post_archive(r) == EditProject(r, archive_project)
post_unarchive(r) == EditProject(r, unarchive_project)

(* The webhook columns are forgotten by the repository. *)
StoreConnector_oldColumns(r) ==
    LET id == req[r].id IN
    /\ req[r].at = "edit" /\ id \in DOMAIN connector
    /\ connector' = [connector EXCEPT ![id] =
                        [req[r].row EXCEPT !.secret = @, !.enabled = connector[id].enabled]]
    /\ told' = [told EXCEPT ![id] = Over(req[r].delta, @)]
    /\ Race(r, id)
    /\ Step(r, "edit", Idle)
    /\ UNCHANGED <<project, profile, release, pushed, minted, stranded>>

(* SqlConnectorRepository.update *)
StoreConnector(r) ==
    LET id == req[r].id IN
    /\ req[r].at = "edit" /\ id \in DOMAIN connector
    /\ connector' = [connector EXCEPT ![id] = req[r].row]
    /\ told' = [told EXCEPT ![id] = Over(req[r].delta, @)]
    /\ Race(r, id)
    /\ Step(r, "edit", Idle)
    /\ UNCHANGED <<project, profile, release, pushed, minted, stranded>>

(* The row is gone: ValueError. *)
StoreFails(r) ==
    /\ req[r].at = "edit" /\ req[r].id \in Connectors \ DOMAIN connector
    /\ Step(r, "edit", Idle)
    /\ UNCHANGED <<rows, release, pushed, minted, stranded>>

(* SqlProjectRepository.update *)
StoreProject(r) ==
    /\ req[r].at = "edit" /\ req[r].id = "project"
    /\ project' = req[r].row
    /\ told' = [told EXCEPT !["project"] = Over(req[r].delta, @)]
    /\ Race(r, "project")
    /\ Step(r, "edit", Idle)
    /\ UNCHANGED <<connector, profile, release, pushed, minted, stranded>>

register_connector_unchecked(r) ==
    /\ Connectors \ DOMAIN told # {}
    /\ \E k \in Credentials : Serve(r, [at |-> "register", cred |-> k])
    /\ UNCHANGED <<rows, release, pushed, minted, stranded>>

(* One connector per implementation: looked up before the connection test.  *)
register_connector(r) ==
    /\ DOMAIN connector = {} /\ Connectors \ DOMAIN told # {}
    /\ \E k \in Credentials : Serve(r, [at |-> "register", cred |-> k])
    /\ UNCHANGED <<rows, release, pushed, minted, stranded>>

(* SqlConnectorRepository.save, with what the connection test said. *)
SaveConnector(r) ==
    /\ req[r].at = "register"
    /\ \E c \in Connectors \ DOMAIN told, s \in {"ACTIVO", "ERROR"} :
          LET row == [cred |-> req[r].cred, status |-> s, enabled |-> FALSE,
                      secret |-> 0]
          IN connector' = Put(connector, c, row) /\ told' = Put(told, c, row)
    /\ Race(r, "register")
    /\ Step(r, "register", Idle)
    /\ UNCHANGED <<project, profile, release, pushed, minted, stranded>>

Without(c) == [d \in DOMAIN connector \ {c} |-> connector[d]]
Uses(c) == \E i \in DOMAIN release : \E a \in release[i].arts : a.conn = c

delete_connector_unchecked(c) ==
    /\ c \in DOMAIN connector /\ Pay
    /\ connector' = Without(c)
    /\ UNCHANGED <<project, profile, told, raced, release, pushed, req, minted, stranded>>

(* artifact.connector_instance_id refers to the row: with artifacts it stays. *)
delete_connector(c) ==
    /\ c \in DOMAIN connector /\ ~Uses(c) /\ Pay
    /\ connector' = Without(c)
    /\ UNCHANGED <<project, profile, told, raced, release, pushed, req, minted, stranded>>

delete_profile_dangling ==
    /\ profile /\ Pay
    /\ profile' = FALSE
    /\ UNCHANGED <<connector, project, told, raced, release, pushed, req, minted, stranded>>

(* The profile is deleted: releases lose it, the project keeps its id. *)
delete_profile ==
    /\ profile /\ Pay
    /\ profile' = FALSE
    /\ release' = [i \in DOMAIN release |-> [release[i] EXCEPT !.profile = FALSE]]
    /\ UNCHANGED <<connector, project, told, raced, pushed, req, minted, stranded>>

------------------------------------------------------------------------------
(* Releases: created by hand, or by the webhook of a pushed tag.            *)

create_release(r, v) ==
    /\ Serve(r, [at |-> "create", version |-> v, hook |-> FALSE])
    /\ UNCHANGED <<rows, release, pushed, minted, stranded>>

(* The repository gets a ref, and its host has an event to deliver. *)
Push(ref) ==
    /\ ref \notin pushed /\ Pay
    /\ pushed' = pushed \cup {ref}
    /\ UNCHANGED <<rows, release, req, minted, stranded>>

verify_webhook_signature(c, secret) == secret = connector[c].secret

(* Any delivery, the first or a later one, signed with some secret.  The    *)
(* project is of the connector's organization.                              *)
handle_source_control_event(c, secret) ==
    /\ connector[c].enabled /\ connector[c].secret # 0
    /\ verify_webhook_signature(c, secret)

receive_source_control_webhook(r, c, ref) ==
    /\ ref \in pushed /\ req[r] = Idle
    /\ \E secret \in 1 .. minted : handle_source_control_event(c, secret)
    /\ \E tag \in parse_tag_push_event(ref) :
          /\ version_from_tag_name(tag) \in SemVer
          /\ Goto(r, [at |-> "create", version |-> version_from_tag_name(tag),
                      hook |-> TRUE])
    /\ UNCHANGED <<rows, release, pushed, left, minted, stranded>>

(* CreateReleaseUseCase.create_release reads the project and its profile ... *)
CheckProject(r) ==
    /\ Step(r, "create", IF project.archived \/ ~profile THEN Idle
                         ELSE [req[r] EXCEPT !.at = "insert"])
    /\ UNCHANGED <<rows, release, pushed, minted, stranded>>

(* ... and inserts a draft: refused when the project has the version, or    *)
(* when the profile is gone by now (both are constraints of the table).     *)
InsertRelease(r) ==
    LET v == req[r].version IN
    /\ req[r].at = "insert"
    /\ IF ~profile \/ \E i \in Live : release[i].version = v
       THEN Step(r, "insert", Idle) /\ UNCHANGED release
       ELSE /\ release' = Append(release, [version |-> v, status |-> "BORRADOR",
                                          profile |-> TRUE, arts |-> {}])
            /\ Step(r, "insert", IF req[r].hook
                                 THEN [at |-> "attach", id |-> Len(release) + 1] ELSE Idle)
    /\ UNCHANGED <<rows, pushed, minted, stranded>>

(* CreateReleaseUseCase.add_artifact appends the tag's artifact to its copy  *)
(* of the release ...                                                        *)
LoadForArtifact(r) ==
    LET id == req[r].id IN
    /\ req[r].at = "attach"
    /\ Step(r, "attach", IF id \in Live
                         THEN [at |-> "attached", id |-> id, row |-> release[id]] ELSE Idle)
    /\ UNCHANGED <<rows, release, pushed, minted, stranded>>

(* ... and has the copy stored: name, version, status, profile and author.  *)
(* The list of artifacts is not among them.  Without a profile it fails.    *)
StoreWithoutArtifact(r) ==
    LET id == req[r].id IN
    /\ req[r].at = "attached"
    /\ IF id \in Live /\ req[r].row.profile /\ profile
       THEN /\ release' = [release EXCEPT ![id].status = req[r].row.status,
                                          ![id].profile = TRUE]
            /\ Step(r, "attached", [at |-> "launch", id |-> id])
            /\ UNCHANGED stranded
       ELSE /\ Step(r, "attached", Idle)
            /\ stranded' = stranded \cup ({id} \cap Live) /\ UNCHANGED release
    /\ UNCHANGED <<rows, pushed, minted>>

(* launch_verification reads the release again, and wants an artifact. *)
LaunchFromWebhook(r) ==
    LET id == req[r].id IN
    /\ req[r].at = "launch"
    /\ IF release[id].arts = {}
       THEN stranded' = stranded \cup ({id} \cap Live) /\ UNCHANGED release
       ELSE release' = [release EXCEPT ![id].status = "launched"] /\ UNCHANGED stranded
    /\ Step(r, "launch", Idle)
    /\ UNCHANGED <<rows, pushed, minted>>

Change(row, id) ==
    /\ Pay
    /\ release' = [release EXCEPT ![id] = row]
    /\ UNCHANGED <<rows, pushed, req, minted, stranded>>

verify_release(id) ==
    /\ release[id].arts # {} /\ release[id].status = "BORRADOR"
    /\ Change([release[id] EXCEPT !.status = "launched"], id)

remove_artifact(id) ==
    \E a \in release[id].arts : Change([release[id] EXCEPT !.arts = @ \ {a}], id)

(* The artifacts go with the release, and its version is free again. *)
delete_release(id) ==
    Change([release[id] EXCEPT !.status = "deleted", !.arts = {}, !.profile = FALSE], id)

------------------------------------------------------------------------------
(* Artifacts: one, or the list of an import, one after the other.           *)

Submit(r, list) ==
    /\ \E id \in Live : Serve(r, [at |-> "verify", id |-> id, todo |-> list])
    /\ UNCHANGED <<rows, release, pushed, minted, stranded>>

add_artifact(r) == \E a \in Single : Submit(r, <<a>>)
import_artifacts(r) == \E list \in Imports : Submit(r, list)

(* verify_artifact_ref asks the service.  Only "not found" from a connector  *)
(* that is ACTIVO counts; no answer, or another one, lets the artifact pass. *)
VerifyArtifact(r) ==
    LET a == Head(req[r].todo) IN
    /\ req[r].at = "verify"
    /\ \E reached \in BOOLEAN :
          Step(r, "verify",
               IF \/ a.conn \notin DOMAIN connector
                  \/ reached /\ ~a.there /\ connector[a.conn].status = "ACTIVO"
               THEN Idle ELSE [req[r] EXCEPT !.at = "save"])
    /\ UNCHANGED <<rows, release, pushed, minted, stranded>>

(* ArtifactService.add_artifact looks release and connector up again. *)
SaveArtifact(r) ==
    LET a == Head(req[r].todo)
        rest == Tail(req[r].todo)
    IN
    /\ req[r].at = "save"
    /\ IF a.conn \notin DOMAIN connector \/ req[r].id \notin Live
       THEN Step(r, "save", Idle) /\ UNCHANGED release
       ELSE /\ release' = [release EXCEPT ![req[r].id].arts = @ \cup {a}]
            /\ Step(r, "save", IF rest = <<>> THEN Idle
                               ELSE [req[r] EXCEPT !.at = "verify", !.todo = rest])
    /\ UNCHANGED <<rows, pushed, minted, stranded>>

------------------------------------------------------------------------------
(* The process dies, or a statement of the request fails. *)
Abort(r) ==
    /\ req[r] # Idle /\ Pay
    /\ Goto(r, Idle)
    /\ UNCHANGED <<rows, release, pushed, minted, stranded>>

Deliver(ref) == \E r \in Requests, c \in DOMAIN connector :
    receive_source_control_webhook(r, c, ref)

Work(r) ==
    \/ StoreConnector(r) \/ StoreFails(r) \/ StoreProject(r) \/ SaveConnector(r)
    \/ CheckProject(r) \/ InsertRelease(r) \/ LoadForArtifact(r)
    \/ StoreWithoutArtifact(r) \/ LaunchFromWebhook(r)
    \/ VerifyArtifact(r) \/ SaveArtifact(r)

Next ==
    \/ \E r \in Requests :
          \/ \E c \in DOMAIN connector :
                \/ patch_connector(r, c) \/ test_connector(r, c)
                \/ patch_connector_status(r, c) \/ configure_connector_webhook(r, c)
          \/ register_connector(r)
          \/ patch_project(r) \/ post_archive(r) \/ post_unarchive(r)
          \/ Work(r) \/ Abort(r)
          \/ \E v \in SemVer : create_release(r, v)
          \/ add_artifact(r) \/ import_artifacts(r)
    \/ \E c \in Connectors : delete_connector(c)
    \/ \E ref \in Refs : Push(ref) \/ Deliver(ref)
    \/ \E id \in Live : verify_release(id) \/ remove_artifact(id) \/ delete_release(id)
    \/ delete_profile

Spec == Init /\ [][Next]_vars

(* Requests are served to their end.  That an event is delivered again as   *)
(* long as it meets an error is the promise of the repository's host, or of *)
(* whoever asks it for another delivery, and not of this code.              *)
FairSpec ==
    /\ Spec
    /\ \A r \in Requests : WF_vars(Work(r))
    /\ \A ref \in Refs : SF_vars(Deliver(ref))

------------------------------------------------------------------------------
TypeOK ==
    /\ DOMAIN connector \subseteq Connectors
    /\ \A c \in DOMAIN connector : connector[c] \in ConnectorRow
    /\ project \in ProjectRow /\ profile \in BOOLEAN
    /\ \A i \in DOMAIN release : release[i] \in Release /\ (release[i].profile => profile)
    /\ \A i, j \in Live : release[i].version = release[j].version => i = j
    /\ \A r \in Requests : req[r].at = "edit" =>
          req[r].row \in IF req[r].id = "project" THEN ProjectRow ELSE ConnectorRow
    /\ pushed \subseteq Refs /\ minted \in 0 .. MaxSecrets /\ left \in 0 .. Budget
    /\ stranded \subseteq DOMAIN release

(* An edit somebody was told about is in the row until the next one, unless *)
(* two requests worked on the row at once: a connection test that began     *)
(* before a new credential was stored puts the old one back.                *)
EditsHold ==
    /\ \A c \in DOMAIN connector \ raced : connector[c] = told[c]
    /\ "project" \in raced \/ project = told["project"]

(* An organization has one connector of an implementation, unless two       *)
(* registrations both looked before either had saved its row.               *)
OneConnectorEach == Cardinality(DOMAIN connector) <= 1 \/ "register" \in raced

(* An artifact comes from a connector of the release's organization, and    *)
(* the connector is there as long as the artifact is, whatever was deleted, *)
(* edited or imported meanwhile.                                            *)
ArtifactsAnchored ==
    \A i \in DOMAIN release : \A a \in release[i].arts : a.conn \in DOMAIN connector

(* A tag v1 gets its release 1 by an enabled webhook, although requests     *)
(* crash between their commits and releases are deleted, or the way is      *)
(* closed: the project archived, its profile deleted, the webhook off.      *)
TagLands ==
    "v1" \in pushed ~>
        \/ (\E i \in Live : release[i].version = "1") \/ project.archived \/ ~profile
        \/ ~\E c \in DOMAIN connector : connector[c].enabled

(* What the webhook's documentation says: the event of a tag creates the    *)
(* release and its artifact and launches its verification.                  *)
WebhookLaunches == stranded = {}
==============================================================================
