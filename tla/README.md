# SVAES: specifications

SVAES verifies software releases. A release collects artifacts that live in
other tools (a repository, a tracker, a planner, a wiki); its verification
profile lists rules; a worker fetches the artifacts through connectors, asks an
engine to evaluate the rules and gives the release a verdict. Around that core
are the accounts, organizations and settings that decide who may do what. This
directory holds TLA+ modules that describe how these parts behave when they run
concurrently and fail, the TLC configurations that check them, and proofs about
them for TLAPS.

Paths below are relative to the root of the repository, with `API` for
`src/api/src`. `PROJECT.json` gives them in full: the source lines behind every
definition, the hazards at their lines, the runs, mutants, findings, theorems.

## Contents

| file | what it is |
| --- | --- |
| `ReleaseVerification.tla` | one release: its row, the API handlers, the Celery queue, the workers |
| `ReleaseLedger.tla` | what a release promises to those who read it (abstract specification) |
| `ReleaseVerificationProofs.tla` | type correctness, rollback, verdict and drift safety, refinement of the ledger |
| `ReleaseQueueProofs.tla` | one result per launch, cancellation, no release left behind in verification |
| `MCReleaseVerification.tla` | instances of `ReleaseVerification` |
| `RuleCatalogue.tla` | the rules of the Rust engine, as operators |
| `VerificationVerdict.tla`, `MCVerificationVerdict.tla` | one verification task from the fetch to the verdict |
| `ProfileSchedules.tla`, `MCProfileSchedules.tla` | the default profile of an organization and the scheduled sweep |
| `ReleaseIntake.tla`, `MCReleaseIntake.tla` | connectors, project, webhooks, releases and artifacts as they come in |
| `Tenancy.tla`, `MCTenancy.tla` | accounts, organizations, memberships, and who is let in |
| `UserAccount.tla`, `MCUserAccount.tla` | one account: sign-in, lock-out, second factor, sessions, reset |
| `OrganizationSettings.tla`, `MCOrganizationSettings.tla` | API keys, roles, templates, channels, subscriptions, rules |
| `OrganizationSettingsProofs.tla` | edits hold, tables stay coherent, keys limited, rules of the default frozen |
| `VerificationVerdictProofs.tla` | the verdict follows from the rules that count, for any profile and release |
| `ProfileSchedulesProofs.tla` | marks are swept, one default, one sweep per firing |
| `ReleaseIntakeProofs.tla` | edits hold, one connector, artifacts keep theirs |
| `TenancyProofs.tla` | nobody comes uninvited; members and owners are where they belong |
| `UserAccountProofs.tla` | rows stay coherent, revocation, links and edits hold |

To run: `tlc -config MCVerificationRaces.cfg MCReleaseVerification.tla`, and the
same for the other configurations; `tlapm ReleaseVerificationProofs.tla`, and the
same for the other modules of proofs.

# 1. Inventory

The API is a FastAPI process: every request is a coroutine, and every `await`
lets another one run. Several API processes and several Celery workers share a
PostgreSQL database and a broker. Three facts govern everything else:

* **every repository method opens a session of its own and commits it**
  (`async with AsyncSessionLocal() as session`). There is no transaction
  around a use case, no row lock and no version column; what a use case has
  read may be stale when it writes, and a use case that fails half-way leaves
  its first writes behind;
* **a store writes every column** of the object that was loaded, those that the
  request left alone included, so an edit may take back another one;
* **tasks are acknowledged late** (`API/infrastructure/secondary/queue/celery_app.py:20`),
  so a task may be run twice.

| component | state it keeps | operations | talks to | what is hard |
| --- | --- | --- | --- | --- |
| Releases and verification requests (`release_service.py`, `verification_service.py`) | row `release`: status, `pending_task_id`, `previous_status`, `profile_id` | create, PATCH, launch, cancel, archive, restore, delete | queue, worker, artifacts | handlers of five writes that interleave; `update` writes the whole row back |
| Queue and worker (`celery_app.py`, `verification_worker.py`) | messages, revoked ids, rows `verification_result` | enqueue, revoke, `run_verification` | engine, connectors, notifications | redelivery, revocation that arrives late, a failure between two commits |
| Engine (`src/engine/src`) | none | `evaluate`, `aggregate` | called by the worker | eleven rules that look at "the first" artifact or at all of them |
| Artifacts (`artifact_service.py`) | rows `artifact` | add, import, remove | releases, connectors | removed while a task that needs them waits; added while their connector goes |
| Scheduled sweep (`scheduler_worker.py`) | `schedule_last_run_at` | sweep every five minutes | profiles, verification requests | marks before it launches, reads all profiles at once |
| Profiles and rules (`manage_profile.py`, `profile_service.py`) | rows `verification_profile`, `verification_rule` | create, update, delete; rules one by one | sweep, worker | one default per organization, kept by separate writes; rules edited while the profile changes |
| Connectors (`connector_service.py`) | rows `connector_instance` | register, update, test, toggle, webhook settings, delete | worker, webhooks | a test calls a service between load and store |
| Webhooks (`webhooks.py`, `handle_incoming_webhook.py`) | none | one POST per event | releases, artifacts, launch | several commits, retried by the sender |
| Organizations (`organization_service.py`) | `organization`, `project`, `user_membership` | create, invite, roles, remove, transfer, switch, archive, delete | accounts | transfer writes five rows one by one; tokens say what was true at sign-in |
| Accounts (`auth_service.py`, `user_service.py`) | row `user`: password, version of tokens, failures, lock, second factor | sign-in, refresh, logout, reset, activation, profile, deletion | organizations | counters and flags kept by load, change, store around a bcrypt thread |
| Access requests (`access_requests.py`) | rows `access_request` | create, review | accounts, organizations | account, organization, membership and request in separate commits |
| API keys, custom roles, templates, channels, subscriptions | one table each | create, edit, delete | profiles | limits and names checked before the insert; every use of a key stores the key |
| History, dashboard, export, audit, feedback, rate limits, front end, migrations, scripts | projections, logs, configuration | reads | all | little |

What makes each correct, in a sentence: a release shows a verdict only if one
was issued, a verification ends and can be cancelled, a cancelled or failed one
leaves the release where it may start again; a verdict follows from the
evaluations of the rules that a connector answers for, whatever order the
artifacts come in; a schedule fires once per firing, and an organization has
one default profile; a tag gets its release, and an artifact keeps its
connector; nobody is placed in, or admitted by a guard to, an organization that
did not take him in, and an organization keeps an owner; what the owner of an account revoked stays
revoked, and he can always get back in; an edit that was answered holds, and
what was deleted stays deleted. All of these are stated and checked here, each
with the premises it needs.

# 2. The models

## ReleaseVerification

One release, because releases share none of this state. The variables are the
columns of its row (`exists`, `status`, `pendingTask`, `previousStatus`), the
tables that hang on it (`artifacts`, `results`, and `profileSet` for its
profile), the queue (`sent`, `queued`, `revoked`), the processes (`pc`, `local`
for API handlers and scheduler sweeps, `wpc`, `work` for Celery workers), what
was notified and the faults so far. A task is named by the number of the launch
that makes it, `launches`.

Each action is the code between two awaits that change shared state:

| code | actions |
| --- | --- |
| `launch_verification`, `verification_service.py:40` | `Launch` (the checks and the copy of the status), `ParkPrevious`, `MarkRunning`, `Enqueue`, `StoreTask` |
| `cancel_verification`, `verification_service.py:82` | `Cancel`, `Revoke`, `RevertStatus`, `ClearTask` |
| PATCH, `release_service.py:81` | `Rename` or `SetStatus`, then `WriteRow`, which writes every column of the object read before |
| archive, restore, delete | `Archive`; `Restore`, `WriteRow`; `Delete` |
| artifacts, deletion of the profile | `AddArtifact`, `RemoveArtifact`, `DeleteProfile` |
| sweep, `scheduler_worker.py:82` | `SweepPick` (the list), then `Launch` or `SkipLaunch` for the release listed |
| worker, `verification_worker.py:463` | `Take`, `Load`, `CallEngine` or `EngineFails`, `SaveResult`, `WriteVerdict` or `ResetPending`, `Notify` |
| broker and Celery | `Discard` (a revoked task), `Terminate` (`revoke(terminate=True)` on a running one), `Redeliver` |
| failures | `HandlerAborts`, `SaveFails`, `WorkerLost`; with `Redeliver` they are bounded by `MaxFaults` |

`Ops` says which operations the environment uses; a run or a theorem that needs
some of them left out says so. A release may have no profile from the start
(`Init`), but only where `"profile"` is in `Ops`. The engine's answer is any
verdict: how it comes about is the subject of `VerificationVerdict`. Names,
permissions and progress reports are left out.

`ReleaseLedger` is the abstract specification: a release has a set of verdicts
that have been issued for it, and shows a status. A verdict may be issued at any
time; only an issued one may be shown; nothing is withdrawn while the release
lives; erasing the release ends it. `KeepsPromise` says that
`ReleaseVerification` implements it, with `Ledger`, the set of verdicts in the
table of results, for the abstract ledger.

## RuleCatalogue and VerificationVerdict

`RuleCatalogue` has one operator per rule of the engine, `RV01` to `RV10` and
`custom_field_check`, over a sequence of artifacts, with the dispatcher
`evaluate`. An artifact is a record of what the rules tell apart (type, whether
its state is the required one, its references, the tasks it declares); evidence
texts are left out.

`VerificationVerdict` is a task: `Fetch` calls the connectors (each fetch may
fail), `CallEngine` evaluates, adds the failed fetches and aggregates,
`ReadNames`, `ReadTypes` and `ReadKinds` are three reads of the connectors
table, and `Recompute` marks as NO_EVALUADA what has no connector and computes
the verdict again. Meanwhile `unlink` takes an artifact or rule off a connector
and `delete_connector` deletes one that nothing refers to any longer: the
foreign keys of the migrations refuse it before. Four reads of the same table
in one task, with deletions in between, is what the module is about.

## ProfileSchedules

The profiles of one organization and the sweep. A request (`create_profile`,
`update_profile`, `delete_profile`, then `ReadDefault`, `Demote`, `Insert`,
`Write`) keeps the rows it read and writes them back whole, which includes
`schedule_last_run_at`. A sweep (`BeginSweep`, then `Mark` and `LaunchReleases`
for each profile that was due) works from the rows it read at its start. Time
counts the firings of the cron expression, the same for all profiles;
`schedule_last_run_at` is then the number of firings so far. `swept`, `repeated`
and `patched` record history for the properties and guard nothing.

## ReleaseIntake

What a verification starts from: the connectors of an organization to one
source-control service, a project, its releases and their artifacts.

| code | actions |
| --- | --- |
| connectors, `connector_service.py` | `patch_connector`, `test_connector`, `patch_connector_status`, `configure_connector_webhook` load and change a copy, `StoreConnector` writes it, `StoreFails` when the row is gone; `register_connector`, `SaveConnector`; `delete_connector` |
| project, `organization_service.py` | `patch_project`, `post_archive`, `post_unarchive`, `StoreProject`; `delete_profile` with its effect on project and releases |
| webhook, `webhooks.py`, `handle_incoming_webhook.py` | `receive_source_control_webhook` (signature, event, tag), `CheckProject`, `InsertRelease`, `LoadForArtifact`, `StoreWithoutArtifact`, `LaunchFromWebhook` |
| releases, `releases.py` | `create_release`, `verify_release`, `delete_release`, `remove_artifact` |
| artifacts, `artifact_service.py` | `add_artifact`, `import_artifacts`, then `VerifyArtifact` (the reference is looked up in the service) and `SaveArtifact` for each |
| the world | `Push`, the redelivery of an event until it is accepted, `Abort` |

`StoreWithoutArtifact` is named for what the code does: `CreateReleaseUseCase.add_artifact`
(`release_service.py:137`) appends to the loaded object and calls `update`, which
writes the columns of the release and none of its artifacts. A launch is one
step here; `ReleaseVerification` has it in detail.

## Tenancy

Accounts, organizations, memberships and access requests as tables (`db`), and
what the token of each user says (`claims`), which is what was true at his
sign-in. A request is the list of repository calls it has still to make, each a
commit: `transfer_ownership` is `Handover`, five calls; `remove_user_from_org`
is `Removal`; deletion of an account is `Deletion`. `Commit` makes the first call of
a list and adds those that depend on what it found (`Turns`: the fallback to
another organization after a removal, the roles in a transfer), `Fail` meets a
constraint, `Abandon` is a crash. `Restart` runs `seed_admin_user`. Guards
(`require_permission`, `require_org_access` and those for projects, connectors,
profiles, rules, channels, roles and keys) are operators over tokens and
tables; `Admitted` says that one of them admits a user. Every change of what an
organization owns stands behind such a guard, and so does every read of it but
three, which `Admitted` leaves out: `list_org_projects` and `get_project` ask for
a permission that every role has, `get_task_status` for a token (section 4).

## UserAccount

One account. A handler loads the row (`Load`), works on its copy, possibly in a
bcrypt thread, and stores every column (`Store`), then issues what it is to
issue. `authenticate`, `verify_totp`, `setup_totp`, `ChangePassword` and the
like are edits of a row, and the routes (`login`, `verify_2fa`, `refresh`,
`logout`, `forgot_password`, `reset_password`, `activate_account`, the 2FA and
administration routes) say which edit they make and what they ask of the
caller. An access and a refresh token issued together are one session, with the
`token_version` it was issued under; revocation raises the version.
`LockExpires` and `OwnerLogin` are the clock and the owner of the account.

## OrganizationSettings

Six tables whose services work alike: API keys, custom roles, rule templates,
notification channels, subscriptions and the rules of a profile. `table` says
which one a behaviour is about. A route starts a session (`Create`, `Edit`,
`Put`, `Delete` with what its service lets through: `create_api_key` counts,
`create_role` compares names, `update_rule` looks at the profile), and a later
one ends it (`SaveRow`, `StoreRow`, `WriteSubscription`, `DeleteRow`), under
the constraints of the table. Two columns stand for all: a name and whether the
row is on. `told` is what the acknowledged requests add up to, and `raced` the
rows that two requests held at once.

# 3. What is checked

All passing runs are complete explorations of their state graphs. Deadlock is
not checked: a system without requests, or one that has used up its bounds, may
stop.

| run | instance | what it shows |
| --- | --- | --- |
| `races` | 2 handlers, 2 workers, 1 artifact, 2 launches, no fault; launch, sweep, cancel, rename, archive, delete | `VerdictBacked`: the status shows no verdict without its result, whichever stale row or rollback came last; `OneResultPerLaunch`; `RollbackTarget`: a release in verification has a status to go back to, and a cancellation, now or under way, ends where a launch is possible and at no verdict without a result |
| `faults` | 1 handler, 1 worker, 2 launches, 1 fault; launch, sweep, cancel, delete, artifacts, profile | `DriftBacked`, `Cancellable` (its task is known, unrevoked and unfinished), and `KeepsPromise`, the refinement of `ReleaseLedger` |
| `liveness` | 2 handlers, 1 worker, 2 launches, no fault, fair; launch, sweep, cancel, PATCH of the status (archival with it), restore | `NeverOrphaned`: a release in EN_VERIFICACION has an unrevoked task with its status write to come, or a handler about to send one or to roll back; `VerificationEnds` |
| `verdict` | 12 releases of up to three artifacts, 25 profiles of up to three rules (each template alone, then mixtures with repeated and inactive ones), 3 connectors; any fetch may fail, any connector go at any step | `NeverHarsher`, `RejectionExplained`, `EmptyHandedFails`, `PlanMatches`, `OrderIndependent` |
| `profiles` | 2 profiles, 1 handler, 1 sweeper, 2 firings, 1 fault, fair sweeper | `OneDefault`, `SweptOncePerFiring`, `MarkedIsSwept`, `DueIsSwept` |
| `account` | 2 requests, 2 passwords, 2 attempts, 2 sessions, 2 secrets, 3 requests besides the owner's, fair | `RowsCoherent`: no row or copy mixes two states of the account; `IsolatedRevocation`, `IsolatedLinks`, `IsolatedEdits`: only overlapping requests take back what was answered; `OwnerRecovers` |
| `tenancy` | 2 requests at a time, 3 in all, 3 accounts, 2 organizations, with crashes and restarts | `ActiveIsMember`, `OwnerIsMember`, `NeverAStranger`; `TypeOK` holds the foreign keys |
| `intake` | 2 requests at a time, 4 in all besides redeliveries, 2 connectors, 2 tags and a branch, fair | `EditsHold`, `OneConnectorEach`, `ArtifactsAnchored`, `TagLands` |
| `settings` | 2 requests at a time, 4 in all, 3 rows, 2 names, 2 keys | `EditsHold`, `KeysLimited`, `Coherent`, `DefaultFrozen`, on each of the six tables |

Each run but `faults` and `liveness` checks the `TypeOK` of its module as well;
those two share the module of `races`.

**Bounds.** Two launches are what it takes for one to overwrite the other's task
id and for a task to meet the status of a later one; two handlers are what it
takes for a launch to pass a check that another has just made false; two workers
for a duplicate or a stale task to write over a newer one. One fault is enough
for every partial write, since nothing in the code repairs one and then relies
on the repair. Two firings tell a stale mark from a current one. In the other
modules two requests at a time are what a lost update, a stale check and a
refused constraint take; a third and fourth set the scene (`Budget`): a key
under the limit, an organization to hand over, a connector to delete. Two
attempts tell a lost count from a lock, two passwords and two secrets an old one
from a new one, three accounts an owner from his successor and from a stranger,
two organizations the active one from another. `gone` bounds `Tenancy`: an
address or slug that was deleted is not used again. Handlers (`races`) and
requests, people and organizations (`tenancy`) are interchangeable, and those
runs, which check invariants only, use that symmetry. The proofs lift the bounds
for every property but those of liveness.

**Fairness.** `liveness` assumes weak fairness of each handler's and each
worker's next step: the event loop resumes an await that has completed, HTTP
calls have timeouts, and an idle worker takes a queued task. No request is
obliged to come, and neither is a revocation. `profiles` assumes that of the
sweeper alone: Celery Beat sends a sweep every five minutes. `account` assumes
that handlers run on, that a lock runs out (it is a time in the row) and that
the owner keeps trying to sign in. `intake` assumes that requests are served to
their end and, as strong fairness of `Deliver`, that an event is delivered again
as long as it meets an error. The first is the code's; the second is a promise of
the repository's host, or of the operator who asks for another delivery, and
`TagLands` is worth no more than that promise.

**Where a property needs its premises.** They are part of what the models show:

* `NeverOrphaned` and `VerificationEnds` are checked without faults, without a
  PATCH that writes a stale status back and without deletion of the profile.
  Each of the three breaks them: after a crash between `MarkRunning` and
  `Enqueue` nobody ever ends the verification; a PATCH of the name restores
  EN_VERIFICACION after the verdict; a task whose profile is gone returns an
  error and leaves the status.
* `VerdictBacked` and `RollbackTarget` have no premise. They are checked without
  faults, as the races alone make millions of states, and proved with them.
* `Cancellable` needs requests served one at a time: with two launches at once
  one task id is lost.
* `OneResultPerLaunch` needs `faults = 0`: a redelivered task has a second
  result.
* `OneDefault` needs one request at a time; with two it fails (below).
* `MarkedIsSwept` needs `faults = 0`: the mark precedes the launches, so a
  worker that dies in between loses the firing. This is the price of
  `SweptOncePerFiring`, which holds with faults, and with one sweep at a time.
* `IsolatedRevocation`, `IsolatedLinks` and `IsolatedEdits` stop at the first
  store that hits the row while another request holds a copy of it
  (`overlapped`): that request may put back the old password, the version that
  makes revoked tokens good again, or a reset link already used.
* `ActiveIsMember` and `OwnerIsMember` speak of requests that ran alone and to
  their end (`smooth`). Overlapping, a member may be removed while ownership is
  being handed to him; cut short, a transfer leaves an owner who is no member.
  `NeverAStranger` has no such premise; it is about places and guards, and says
  nothing of the three reads that no organization guard protects.
* The two `EditsHold` leave out rows on which two copies met (`raced`), where an
  edit may be lost; `OneConnectorEach` and `KeysLimited` leave out two requests
  that looked before either had inserted. In `OrganizationSettings` the part of
  `EditsHold` that deleted rows stay deleted has no premise.
* `DefaultFrozen` excepts the steps of a request that was under way when the
  profile became the default one (`early`): the service looks once and writes
  later.

# 4. What the code does and its documents deny

Each of these is a run that TLC ends with a counterexample.

| run | the claim | the code |
| --- | --- | --- |
| `claim_webhook` | the event of a tag creates the release and its artifact and launches its verification (`API/application/use_cases/main/handle_incoming_webhook.py:28`) | the artifact is appended to a loaded object whose `update` stores none, so the launch finds no artifact and refuses; the release stays a draft, and its version is taken when the event comes again |
| `claim_revoked` | a revoked key can no longer authenticate a request (`API/infrastructure/primary/routers/api/v1/api_keys.py:130`) | `validate_api_key` stores the whole key with the time of its use; a request that loaded it before the revocation makes it active again |
| `claim_default` | making a profile the default unsets the previous one (`src/tests/unit/test_services.py:1866`) | two concurrent requests leave two, and `scalar_one_or_none` raises from then on |

Others were met on the way and have no run:

* a cancelled verification leaves the release in its previous state, says
  `API/infrastructure/primary/routers/api/v1/releases.py:458`; a task that has
  been taken writes its verdict over the rollback;
* a PATCH of a release's name writes back the status it read, be it a verdict
  that is out of date or EN_VERIFICACION, which `release_service.py:104` leaves to
  the engine;
* drift is to be a change from a positive verdict (`verification_worker.py:375`);
  `previous_status` is that of the last launch, not that before this result;
* of two rules with the same template `rule_lookup` keeps the last
  (`verification_worker.py:318`);
* RV-07 looks for its marker in the first artifact of the type, in the order of
  the database (`src/engine/src/rules/business_rules.rs:1165`);
* a release archived while a launch or a task is under way leaves ARCHIVADA
  again, though `src/tests/integration/README.md:42` says that it rejects
  modification;
* a release whose artifacts are removed after the launch is verified without
  any (`verification_service.py:60` refuses that at the launch only);
* `DELETE` takes a release in any status and with results, though
  `src/docs/api/reference.md:272` restricts it to drafts without verifications;
* the status INACTIVE of a connector is never read by the worker
  (`src/docs/development/specifications.md:50`);
* `ProfileService.delete_profile` replaces the check that protects the default
  profile (`src/docs/development/specifications.md:54`);
* a PATCH that names the schedule, even unchanged, forgets the last run, and the
  next sweep runs the profile at once if a firing has passed since it was created;
* a transfer of ownership writes the global role of the old and the new owner
  also when their active organization is another one;
* organizations are fully isolated, with `organization_id` on every query, says
  `src/docs/development/specifications.md:35`, and cross-tenant access fails
  closed (`src/docs/api/reference.md:344`). `list_org_projects` and `get_project`
  (`API/infrastructure/primary/routers/api/v1/organizations.py:248`, `:274`) check
  `VIEW_ORG_PROJECTS` and not the organization; every role has that permission,
  so whoever is signed in reads the projects of any organization whose id he
  knows. `get_task_status` (`tasks.py:30`) answers for any task id in the same way.
  `NeverAStranger` does not cover these routes;
* renaming a rule template does not compare names, as creating one does, so two
  active templates of a profile may bear one name.

# 5. What is proved

Every property of a passing run is proved for all values of the constants, but
the four of liveness.

| module | theorem | property | hypotheses |
| --- | --- | --- | --- |
| `ReleaseVerificationProofs` | `TypeCorrect` | `TypeOK` | |
| | `RollbackSafe` | `RollbackTarget` | |
| | `VerdictSafe` | `VerdictBacked` | |
| | `DriftIsReal` | `DriftBacked` | |
| | `ReleaseImplementsLedger` | `KeepsPromise` | |
| `ReleaseQueueProofs` | `OnceAndDone` | `OneResultPerLaunch` | |
| | `NoOrphan` | `NeverOrphaned` | `Undisturbed` |
| | `CancelFindsTask` | `Cancellable` | `OneAtATime(Handlers)`, `"rename" \notin Ops` |
| `VerificationVerdictProofs` | `VerdictTypeCorrect` | `TypeOK` | |
| | `NeverHarsherHolds` | `NeverHarsher` | |
| | `RejectionsExplained` | `RejectionExplained` | |
| | `EmptyHandedRejected` | `EmptyHandedFails` | |
| | `PlansMatch` | `PlanMatches` | |
| | `OrderIrrelevant` | `OrderIndependent` | |
| `ProfileSchedulesProofs` | `SchedulesTypeCorrect` | `TypeOK` | |
| | `MarksAreSwept` | `MarkedIsSwept` | |
| | `OneDefaultAtATime` | `OneDefault` | `OneAtATime(Handlers)` |
| | `FiringsSweptOnce` | `SweptOncePerFiring` | `OneAtATime(Sweepers)` |
| `UserAccountProofs` | `AccountTypeCorrect` | `TypeOK` | |
| | `RowsStayCoherent` | `RowsCoherent` | |
| | `RevocationHolds` | `IsolatedRevocation` | |
| | `LinksSpentOnce` | `IsolatedLinks` | |
| | `AcknowledgedEditsStand` | `IsolatedEdits` | |
| `TenancyProofs` | `TenancyTypeCorrect` | `TypeOK` | |
| | `NobodyComesUninvited` | `NeverAStranger` | |
| | `ActiveAreMembers` | `ActiveIsMember` | |
| | `OwnersAreMembers` | `OwnerIsMember` | |
| `ReleaseIntakeProofs` | `IntakeTypeCorrect` | `TypeOK` | |
| | `EditsStand` | `EditsHold` | |
| | `OneConnector` | `OneConnectorEach` | |
| | `ConnectorsOutliveArtifacts` | `ArtifactsAnchored` | |
| `OrganizationSettingsProofs` | `SettingsTypeCorrect` | `TypeOK` | |
| | `EditsSafe` | `EditsHold` | |
| | `TablesStayCoherent` | `Coherent` | |
| | `KeysStayLimited` | `KeysLimited` | |
| | `DefaultStaysFrozen` | `DefaultFrozen` | |

**Assumptions.** Those on constants are named in the modules that declare them,
and TLC evaluates them on every run. Bounds are natural numbers; the limits of the
code, `MaxKeys` and `MaxAttempts`, are not zero, and neither are `MaxSecrets` and
`MaxFresh`, since a connector and an account may have a first secret. The tags that stand for something else than an id are no ids
(`None \notin Orgs`, `"insert" \notin Ids`, `Connectors` apart from `Foreign`,
`"project"` and `"register"`). `Orgs` is finite, since the deletion of an account
goes through its memberships one by one. `Imports` are lists with something in
them, which the schema of the route asks for. `Profiles` and `Releases` are lists
of `RuleRow` and `ArtifactRow`, the records the worker builds from the two tables.

**Hypotheses.** Four theorems ask for more, and each of these breaks its property
in the code:

* `Undisturbed`: no faults, no PATCH that writes a stale status back, no deletion
  of the profile (section 3 says how each leaves a release behind).
* `OneAtATime(Handlers)`, one request at a time: with two, `Cancellable` loses a
  task id, and `OneDefault` fails as in `claim_default`.
* `"rename" \notin Ops` for `Cancellable`: after the verdict such a PATCH writes
  EN_VERIFICACION back, under a task that has ended. Faults and the profile are
  premises of the property itself. The run `faults` has none of these PATCHes and
  one handler.
* `OneAtATime(Sweepers)`: a second sweep that has read the table before the first
  one marks a profile takes that profile again. The run `profiles` has one.

**The inductive invariants.** Hardly any property is inductive as stated: it
speaks of the tables, and what a process has read is written later.

* `TypeInv` adds `PcOK` to `TypeOK`: what a process holds agrees with its program
  counter. A handler that is past the checks of a launch holds a status, a
  worker that is to save holds a verdict. Without it the next write could store
  a NULL.
* `RollbackInv` adds to what `RollbackTarget` says of the column and of the
  cancellations under way what launches and PATCHes are about to do: the status a
  launch has read and will park is launchable, and whoever is to write
  EN_VERIFICACION, or to write it back, has seen a launch park something. That the
  verdicts among them have results is `BackedInv`.
* `BackedInv` extends `VerdictBacked` to every copy of a status that may still
  be written: `previousStatus`, those that handlers hold, and the verdict a worker
  is to write, which its result already has. As results are never withdrawn while
  the release lives, a copy stays backed however stale it becomes. That is why
  stale writes cannot invent a verdict, and it is the step from which
  `ReleaseImplementsLedger` follows.
* `DriftInv` does the same for alerts: the previous status a worker has loaded
  has its result before the one the worker saves (`DriftWork`).
* `TaskInv` ties task numbers to launches: a number is fresh until sent, one
  launch owns it, and a task id that is stored or revoked was sent. So a cancellation never
  revokes a task that a launch is still to send. `QuietInv`, under `Undisturbed`:
  the release has its profile and a PATCH in progress carries a manual status.
* `OnceInv`: without faults a task is `InPlace`, on its way, in the queue, with
  one worker or done, and a worker that is still to save finds no result of its
  task.
* `CancelInv`: a release in verification is `Awaiting` a task, with one clause
  per step of a launch or a cancellation under way; the property is the clause
  for none.
* `VerdictInv` says what each stage has made of those before it: `Aligned`, that
  results, active rules and failed fetches correspond position by position. From
  it `Judged` gives the statuses the verdict is computed from in closed form,
  and the properties are facts about `aggregate` and `recompute_verdict`.
* `BaseInv` is `TypeOK` with what requests and sweeps must have read. On it stand
  three: `RunsAccounted` (every copy of a row that may be written back shows a run
  that was swept, or is being swept), `DefaultsKnown` (what a request that has
  looked for the default knows about it) and `FiringsOnce` (the firings a profile
  was swept for are ordered by the mark in its row).
* `AccountInv` says of every copy that it is coherent, and, until requests
  overlap, that it is the row with the change of its request; of sessions and
  links, how their versions compare with the row.
* `TenancyInv` says that every call still to come is `Good`: it was granted when
  its request began. So crashes and reorderings cannot matter to
  `NeverAStranger`.
* `SmoothInv`, for requests that run alone, says that the calls still to come
  `Resolves` what those made so far left open. A request either takes people in
  (`Building`: each place and each owner is a member or becomes one), or takes
  one out (`Removing`), or deletes an account (`Leaving`, which ends with its
  row). The list of every route is of one of the three kinds, and each call
  leaves the rest of its list of that kind.
* `IntakeInv` says what a request has learned: an edit, that its copy is the row
  with its own columns changed, as long as nobody stored the row since; a
  registration, that there was no connector; an import or a webhook, the release
  it works on by an id that is never given again.
* `EditsInv` adds to `TypeOK` and `EditsHold` that every request `Fits`: the copy
  it holds of a row that is still there, and that no other request met, is that
  row with the request's own columns changed. That is what makes a store of
  every column harmless, and `raced` is where it stops being so. `CoherentInv`
  adds that a preference is about the row it found; `KeysInv`, that a request
  that has counted still has room; `FrozenInv`, that a request that writes rules
  under a default profile began before it was one.

**How the proofs go.** Each lemma has one step per action; framing lemmas
(`TaskFramed`, `OrphanFramed`, `DriftFramed`, `OnceFramed`, `CancelFramed`) dispose
of the actions that leave the relevant state alone. In the modules of requests
the routes come down to a few lemmas about how a request starts
(`ServeKeeps`, `StartKeeps`, `StartSmooth`) and what its steps store. The provers
cannot use a theorem that takes an operator as a parameter, as those for
induction do. `VerificationVerdictProofs` needs induction once, for the function
`Active` that lists the rules in force of a profile of any length, and gets it
from `WFMin`, the existence of a minimal element in a well-founded relation.

**Only model-checked:** `VerificationEnds`, `DueIsSwept`, `OwnerRecovers` and
`TagLands`, since the provers have no support for fairness. No module has a
RECURSIVE operator, so theorems may follow anywhere.

# 6. What is not modelled

* `duplicate_profile` and `reorder_rules` of `manage_profile.py`: no route calls
  them.
* Names of projects and of releases, the profile of a project as a column that is
  edited, several projects or several services side by side: they share
  nothing that the properties are about.
* The type of an artifact compared with what its connector offers; the
  hashing of API keys and passwords and the expiry dates of keys; the permissions
  that custom roles list, which no guard reads.
* HTTP adapters of the connectors, e-mail and chat delivery: input and output
  whose failures are caught; the models have their failures where they matter
  (`Fetch`, `EngineFails`, `VerifyArtifact`, a reset mail that is lost).
* The request that makes the engine read its custom rules again: one call.
* History, export, dashboard, audit and feedback: projections and append-only
  logs. Rate limits: the configuration of a library. The front end shows the
  state of the API. Migrations and scripts run outside the life of the system;
  the constraints that the migrations leave are in the models.

# 7. Plan

Done: the release and its verdict, the schedules, and everything around them
that has state of its own; the safety of all of it proved. What would add most
from here:

1. Abstract specifications to refine: of an account (a session opens what was
   granted since the last revocation) and of an organization (who is in), with
   `AccountInv` and `TenancyInv` for the mappings.
2. Weaker hypotheses: `Cancellable` with overlapping requests as long as launches
   do not overlap; `SweptOncePerFiring` for sweeps that overlap on different
   profiles only.
3. The safety half of the liveness properties: a measure that every step of a
   verification lowers, so that `VerificationEnds` would follow from fairness.
