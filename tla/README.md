# Labra: models, checks and proofs

Labra deploys static sites from GitHub repositories into the user's own AWS
account. A Go API (`src/labra-backend`) keeps applications and deployments in
SQLite, runs the deployments in goroutines, and is driven by a SvelteKit client
and by GitHub's push deliveries. This directory holds TLA+ models of the parts
of it where steps of several actors meet, the TLC configurations that check
them, and proofs of the properties that matter most.

## 1. Inventory

| Component | Code (below `src/labra-backend/internal/api/` unless said) | State | Operations | Model |
|---|---|---|---|---|
| Deployment lifecycle | `handlers/deploy.go`, `deploy_runner.go`, `deploy_pipeline_network.go` | table `deployments` (status, site URL, finish time), table `deployment_logs`, one goroutine per deployment, one monitor goroutine per deployment whose site does not answer yet | deploy, cancel, retry; run; watch the site | `DeployLifecycle`, `DeploymentRecord` |
| Deployment pipeline | `handlers/deploy_pipeline*.go` | a temporary checkout, the bucket's objects | clone, install, build, find the artifacts, sync, invalidate, probe | `DeployPipeline` |
| Cloud resources | `handlers/deploy_infra_aws.go`, `deploy_teardown_aws.go` | table `app_infra_outputs`; buckets, distributions in AWS | ensure, tear down | `DeployInfra` |
| Applications | `handlers/apps_*.go`, `app_contracts.go`, `store/store_apps.go` | table `apps`, `app_config_versions` | create, patch, delete, read | `Connections` (create, delete), `RepoAccess` (the check before a create), `DeployInfra` (patch, delete), `DeployPipeline` (patch of the branch) |
| Webhook ingest | `handlers/webhook*.go` | table `webhook_deliveries` (unique per application and delivery) | receive a push, claim, queue deployments | `WebhookIngest`, `DeliveryOnce` |
| Sign-in and sessions | `auth/`, `handlers/auth.go`, `handlers/oauth.go`, `services/oauth.go`, `store/store_auth.go` | two cookies per browser; platform users, identities, sessions | log in, OAuth callback, find-or-create user, log out | `SignIn`, `AccountBook` |
| AWS connections | `handlers/aws_connections.go`, `aws/` | table `aws_connections` | validate a role, upsert, delete, choose one | `Connections`, `AppRegistry` |
| GitHub App | `handlers/github_repositories.go` | installation id per user; whether the server has credentials of the App | install, list repositories and branches, take tokens | `RepoAccess` |
| AI insights | `handlers/ai*.go` | table `ai_request_logs` | ask a provider with retries, fall back, log | `AIInsight` |
| System services, health, configuration, routes, start-up | `handlers/system_services.go`, `config/`, `routes/`, `cmd/main.go` | none | read-only reports; open the database and migrate | none |
| Web client | `src/labra-frontend/src` | browser storage, timers | pages, polling, the deletion flow that survives a reload | none |
| Infrastructure code | `src/labra-infra`, `src/*.sh` | Terraform state | none at run time | none |

How they interact. HTTP handlers, runner goroutines and monitors share the
database and nothing else: there is no lock in the program and no transaction
but the one that deletes an application. Every other handler reads rows, decides,
and writes whole rows later. A deployment goroutine works from the copy of the
application its handler read. Webhooks and the two deploy handlers queue
deployments through the same function (`queueDeployment`). Deleting an
application first removes its cloud resources, which takes minutes, and then the
rows. The database has no foreign keys between these tables, so a row can outlive
the row it points to. AWS and GitHub are outside: what they accept may change
between two calls of one deployment.

What is hard to test here:

* a decision taken on a row that changed before the write (monitor, cancel,
  retry, patch, deployment);
* the deletion of an application while handlers and goroutines still hold it;
* two deployments of one application uploading to, and deleting from, one bucket;
* GitHub repeating or delaying a delivery, also while the first is in progress;
* a request that fails between claiming a delivery and queueing its deployments;
* cloud resources that exist without a record, or records without a resource;
* sign-ins of several tabs and browsers between the statements of find-or-create,
  and e-mail addresses that move from one GitHub account to another;
* a connection or an installation that is chosen, verified or listed at one time
  and used at another;
* goroutines lost in a restart (nothing at start-up looks for unfinished rows);
* database errors that are ignored, and others that throw away finished work.

`PROJECT.json` lists these hazards line by line, with the property that covers
each, and those no property covers.

What makes each component correct:

* lifecycle: one start per row; a row never claims more than the goroutine did;
  a live row has somebody to settle it; deleted rows stay deleted; every queued
  deployment settles when nothing fails;
* pipeline: a deployment left alone makes the bucket exactly its build; one that
  breaks off loses nothing of the old site too early; the site never goes back to
  an older commit unless deployments overlap; its loops end;
* webhook ingest: one deployment per application and delivery, and no delivery
  lost;
* cloud resources: the records name what exists, nothing exists unrecorded, and
  a deployment repairs what earlier ones left wrong;
* applications: a patch changes the fields it names; one application per branch,
  for a repository that is granted if the server could ask for it; a row goes only
  after its bucket unless a deployment comes in between;
* sign-in: a session belongs to the account that signed in; one user per account;
  nobody is locked out or sent back without a cause;
* AWS connections and GitHub App: a user with one AWS account, or with one
  installation, is never refused by AWS, or denied by GitHub, what was verified;
* AI insights: the log says what happened, a paid text is not lost without a cause.

## 2. Modules

`DeploymentRecord` is the abstract specification of a deployment as its readers
may rely on it: at most one start, one conclusion, one late confirmation, in
this order, any of them possibly missing; around them cancels that overwrite
anything, and a removal that is for ever.

`DeployLifecycle` is the detailed one. An HTTP request is a slot in `req` with
the point it has reached and what it has read (`insert`, `trigger`, `retry_app`,
`cancel_write`, ...), a deployment's goroutine a point in `worker`; the points
are the places between two database calls. `UpdateDeploymentStatus` is the SQL
statement: it replaces whatever status the row has, keeps the finish time when
given none (COALESCE), and leaves a missing row missing. Handlers that ignore an
error use `ReportStatus` and `CreateDeploymentLog`, which may fail. `RecordStatus`
and `PhaseOf` are the refinement mapping to `DeploymentRecord`; an id that was
used and has no row counts as deleted.

Three more abstract specifications say what others may rely on. `DeliveryOnce` is
the promise of the webhook ledger about one claim: taken once, then used for one
deployment or lost, and then over. `AccountBook` is the promise of sign-in about
users, identity rows and sessions: whose each is, and that none ever changes hands.
`AppRegistry` is the promise of the tables and the cloud about applications: no two
for one repository and branch, ids that are not used twice, a bucket that stays in its
account and region until it is removed, and the order of a deletion, the bucket first
and the row later. In between an application has a row without its bucket, and may get
another. Applications that went `astray` are excepted from the order; why one does is
for the implementation to say. None of them shows handlers, calls or failures; those are in
`WebhookIngest`, `SignIn` and `Connections`, which implement them (`Once`, `Book` and
`Registry` are the instances with the refinement mappings).

`DeployPipeline` is what the goroutine does between its start and its end, seen
from the bucket: `objects` maps each key that is there to the commit its file was
built from (0 is the start page). A deployment in `job` has a branch from its row,
the head of that branch once cloned, and one step per file uploaded, page listed
and batch deleted. `ArtifactDirectory` is `resolveArtifactDirectory` with its
order of fallbacks, `CanBuild` the choice of the package manager by lock file.
Pushes, patches of the branch, manual deployments, late deliveries in any order
and retries (of failed rows, and of canceled ones whose goroutine still runs) go
on around it. `before` and `kept` are history: the bucket as the sync found it,
and the keys S3 would not delete, which the code does not look at.

`WebhookIngest` models one repository: `follows` is the branch an application
deploys by itself, `ledger` the table of claims, `handler` the deliveries in
progress. `made` (deployments ever inserted for an application and a delivery)
and `answer` (what GitHub was told) are history. `ClaimStage` reads the stage of a
claim in `DeliveryOnce` off the table and the handlers: open while its application is
there and no row is, owed while a handler can still insert the deployment (`Armed`),
settled otherwise. The branches of the code that
answer without touching anything (bad signature, stale timestamp, other events,
tags) are left out.

`DeployInfra` models one application's row, its infra row, and AWS as the code
uses it: buckets with the deployment whose `index.html` they show, distributions
with their origin and whether they are enabled. Deployments, patches and one
deletion at a time overlap. Names stand for bucket names, because
`buildBucketName` makes one from the other. `alone` and `orderly` are history:
which actor has run without any other, and whether any two ever overlapped.

`SignIn` numbers sign-ins in the order they begin; `pc` is the point each has
reached between two calls, and afterwards what became of its session. A browser
has one pair of cookies (`cookie` names the sign-in they belong to) however many
tabs it has. `users` is the table `platform_users`, where a user is named by the
sign-in that created it and addresses are unique; `identity` is
`auth_identities`, one row per GitHub account. Tokens are not revoked by a
log-out: they open the API until they expire, as `ValidateToken` says. In `Book` a
sign-in names both the session it may open and the user it may create.

`Connections` has the rows an application needs from AWS: `connections` in
the order `SelectValidated` chooses from (the last saved first), `apps`, the infra
rows (`recorded`), and in AWS the account and region each bucket is in (`home`). A
request that saves a connection or creates an application is a slot. Deployments and
deletions are slots too (`job`), started at any time without regard to each other, as
`queueDeployment` starts its goroutines. A deployment chooses a connection twice, once
for the uploads (`BuildDeploymentRuntime`) and once for the bucket
(`SelectForBucket`), then makes the bucket, writes the infra row, and uploads. A deletion reads
the infra row, without which it needs no connection at all (`LoadInfraOutput`), chooses
a connection, removes the bucket (`EmptyAndDeleteBucket`) and in a step of its own
deletes the row (`DeleteAppForUser`); between any two of these it may fail or the
server crash, so that the row stays without its bucket, and the deletion may be sent
again. `Usable` is what AWS
asks of a connection: the role accepts its external id, and the bucket's name, which
is taken for all of AWS, is not taken elsewhere. A job that AWS turned away ends as
`refused`. `RoleAsksForAnother` is AWS's own change. `Local` says which verifier the
server has: `main.go:68-69` installs one that looks at the form of a role only when
APP_ENV is local, and the STS one otherwise. `astray` is history: the applications of
which a deployment overlapped a deletion (either may have started first), or ended
after making the bucket and before writing the only infra row that tells of it.

`RepoAccess` has what an application needs from GitHub: whether the server has
credentials of the GitHub App (`configured`, which may differ after each restart), the user's
installation, what each installation grants, the requests that create applications
and the deployments. `EnsureUserCanTrackRepo` has both branches of
`apps_repo_access.go:26-29`: without credentials any repository is accepted unseen,
with them the installation is read and, in a later step, its repositories are
searched (`FindInList`; `Listed` is the one page of them that is read). Rows of `tracked` say whether
they were `checked`. A deployment takes a token of the installation that
is recorded by then, which needs credentials, and clones with it. The module shares no
variable with `Connections`: creation appears in both, here with its check, there with
its insert and infra row.

`AIInsight` has one slot per request, with the attempts made, the status the log
row will get, and the row. The provider's answers, hang-ups of the client, failed
inserts, crashes (after which the configuration may differ) and deletions of the
deployment happen around it.

`DeployLifecycleProofs`, `WebhookIngestProofs`, `DeployInfraProofs`,
`DeployPipelineProofs`, `SignInProofs`, `ConnectionsProofs`, `RepoAccessProofs` and
`AIInsightProofs` hold the theorems. The `MC...` modules instantiate the models
for TLC. Definitions marked "Mutant" are the plausible mistakes that
`PROJECT.json` swaps in to show that each property can fail.

How the modules compose: they share tables, not variables. `DeployLifecycle` has
the status row and the goroutine's life, with the pipeline as one step that
succeeds or fails; `DeployInfra` has that pipeline's first stage in full and the
upload as one step; `DeployPipeline` has the upload in full, with the bucket
given; `Connections` has the choice of AWS credentials around both and the rows from an
application's creation to its deletion, and `RepoAccess` the access to GitHub. Each abstraction
is one that the neighbouring module checks in detail. `MCConnections` extends both
`Connections` and `RepoAccess`, and a behaviour of it is one of either with the
other at rest, since they share nothing.

Simplifications to know about:

* Row contents the properties do not tell apart (names, commit data, messages)
  are left out; a site URL is a Boolean in `DeployLifecycle` and the number of
  its distribution in `DeployInfra`.
* Only static applications with an output directory exist, because create and
  patch accept no other, so eligibility to deploy is existence.
* The site URL a request sees in the application is chosen freely in
  `DeployLifecycle`, since earlier deployments and patches determine it.
* In `DeployInfra` a build and an upload are one step each, nobody sets
  `site_url` by hand, and one DELETE request runs at a time. `Init` covers both outcomes of
  the refresh that follows the creation of an application.
* In `DeployPipeline` the bucket exists throughout; CloudFront's edge caches are
  not modelled, so the site is the bucket. A file is told apart by its commit only.
* In `SignIn` one callback of a sign-in is in progress at a time, and audit events,
  token signing and PKCE's hashing are left out.
* In `Connections` applications keep their names, and so their buckets' (renaming and
  distributions are `DeployInfra`'s subject), looking for a bucket and creating it are
  one step, two saves within one second count as ordered, and a role stands
  for its account and region.
* In `RepoAccess` applications of one repository are told apart only by whether GitHub was
  asked for it, and a conflict of branches is a choice of the insert.
* In `AIInsight` the prompt, the wording and what is redacted are left out.
* The append-only config history is not modelled.

## 3. Runs

| Run | Shows |
|---|---|
| `DeployLifecycle` | types, the safety properties of the lifecycle and that it implements `DeploymentRecord`, with failed calls and crashes; queued deployments settle unless something fails |
| `WebhookIngest` | at most one deployment per delivery and application; it implements `DeliveryOnce`; without faults and deletions no idle claim, and each claim leads to its deployment |
| `DeployInfra` | a deployment that runs alone repairs the records; nothing escapes them without overlap and faults; without overlap a write of a whole row undoes nothing |
| `DeployPipeline` | what a sync leaves in the bucket: alone, broken off, or mixed with another; which commit a push deploys; the site does not go back; all loops end |
| `SignIn` | it implements `AccountBook`, so sessions, users and identity rows stay with their account; nobody is locked out or sent back without a cause |
| `Connections` | it implements `AppRegistry`; whom AWS refuses while connections change and deployments and deletions overlap; of which deleted applications a bucket may be left; and, of `RepoAccess`, whom GitHub denies a repository that was checked |
| `AIInsight` | the log is honest and complete, paid texts are kept, and every request ends |

Five runs are expected to find a violation. Each checks one statement made by
a comment of the repository:

| Run | Statement | What happens |
|---|---|---|
| `MonitorRespectsCancel` | `deploy_pipeline_network.go:68` | the cancel falls between the monitor's read and write |
| `RetryCompletes` | `store_deploys.go:247` | claims of a failed request make the retry a duplicate |
| `FailedDeployKeepsSite` | `deploy_infra_aws.go:27` | the start page replaces the site, then the build fails |
| `ServesWhatItUploads` | `deploy_infra_aws.go:29` | a rename changes the recorded bucket, the distribution keeps the old |
| `NothingLeftBehind` | `deploy_teardown_aws.go:24` | a deployment in flight, or a rename, leaves resources unrecorded |

None of them needs a failing call or a crash.

Several invariants carry a condition, such as "without faults" or "unless
deployments overlapped". The condition is the boundary of what the code promises,
not a convenience: beyond it the code does go wrong, and the hazards in
`PROJECT.json` say how.

Three conditions of the run `Connections` deserve a word. `GoneAppHasNoBucket` excepts
the applications in `astray`: a deployment in flight makes the bucket after a deletion
has removed it, which is what the finding `NothingLeftBehind` shows, and a bucket whose
record was never written is not looked for. What it does say is that nothing else
leaves one: no refusal, no failure in the middle of a deletion, no repetition, no two
deletions at a time. `OneAccountIsNeverRefused` holds where STS verifies connections
(`~Local`): a server whose APP_ENV is local saves any well-formed role, and AWS may refuse it
later. `OneInstallationSuffices` is about applications that were `checked`: those
created by a server without credentials of the GitHub App were accepted unseen, and a later
deployment may well be denied their repository.

### Bounds

`DeployLifecycle`: one application, two deployment ids, two requests at a time,
one fault. Two deployments are enough for a retry to overlap its original, two
requests for any pair of handlers to overlap around any state of the goroutines;
requests are reused, so their number in a behaviour is not bounded. The insert
fails once the ids are used up. Deletions of different applications touch
disjoint rows, and the proofs hold for any number of them.

`WebhookIngest`: two applications, one delivery, two handlers, one branch, two
faults. Two applications are needed for one to end the request of the other; claims of
different deliveries are different rows, and an application that follows another
branch is one that follows none. Handlers are reused, so a delivery is repeated
without bound.

`DeployInfra`: two deployments, one patch, one deletion at a time (repeatable),
two names, two settings, two distributions, one fault. When the model's
distributions are used up, `CreateDistribution` is disabled and the deployment
waits: the invariants are about deployments that got through.

`DeployPipeline`: two deployments, two branches, four commits, three keys, two
keys to a page, one patch, one fault. The four commits are one that builds nothing,
one built into `dist`, one found by falling back, and one whose package manager is
missing; each may land on each branch. Three keys with pages of two make a second
page, a second batch, and files that only one of two builds has.

`SignIn`: three sign-ins from two browsers of two accounts, two addresses, one
change of address, one fault. Two sign-ins of one account race for its user while
the third, of the other account, takes the address: with two addresses a change is a
swap, so that each account comes with an address the other's user may have already.
The proofs hold for any number of addresses and changes.

`Connections`: a behaviour begins by choosing one of four instances (`Bounds` in
`MCConnections`), because all bounds at their largest are too much at once. Two
jobs overlap in each of the first three. One has three roles in two accounts, one
application, and one failed call or crash: two roles of one account are what
`OneAccountIsNeverRefused` is about, the third is the way out of its premise. One has
two roles in two accounts and a role that asks for another external id. One has one role, two
applications that compete for two branches, and a failure: sources and the
order of deletions. In all of them one request saves and one creates, and an external id
is good, wrong or too short. The fourth is `RepoAccess`: two repositories with one to a
page, two installations of which one grants more than a page, one request, one
deployment, one change of grants and one restart. The proofs hold for any number of all
of these, and without the split.

`AIInsight`: two requests, two deployments, two retries, two faults. Requests meet
only in the deletion of a deployment.

`MaxDeployments`, `MaxDists`, `MaxFaults`, `MaxPatches`, `Commits`, `MaxAttempts`,
`MaxMoves`, `MaxChanges`, `MaxGrantChanges`, `MaxRestarts` are the only bounds in guards. Symmetry is used for
deployments, patches, addresses, requests and the like, in runs without liveness.
Deadlock is checked in `WebhookIngest` and `RetryCompletes`, where a delivery can
always be sent again; the other systems really do stop (no more ids, everything
deleted, every request answered), so their configurations switch the check off.

### Fairness

Liveness is checked under weak fairness of each goroutine's and each handler's
next step, never of requests, deletions, deliveries, faults or crashes. The code
justifies it: a database call returns, each stage of the pipeline runs under a
timeout (`runCommand`, the AWS SDK's and the probe's), the monitor has a deadline
of twelve minutes (`awaitingSiteMonitorTimeout`), an attempt at the AI provider
has one too, and Go's scheduler is fair. `QueuedSettles` and
`ClaimLeadsToDeployment` except faults in their statement, because the code gives no promise
otherwise: a lost status write or a crash leaves a row unfinished for ever.
`EveryRequestEnds` excepts nothing. That the loops of the pipeline end is stated
without fairness, by a measure every step of a pipeline reduces
(`PipelineAdvances`).

## 4. Proofs

TLAPS proves, for every value of the constants that satisfies the named
assumption of the module (`LifecycleAssumption`, `WebhookAssumption`,
`InfraAssumption`, `PipelineAssumption`, `SignInAssumption`,
`ConnectionsAssumption`, `RepoAccessAssumption`, `AIInsightAssumption`):

| Module | Theorem | Property |
|---|---|---|
| `DeployLifecycleProofs` | `TypeCorrect` | `TypeOK` |
| | `StartsOnce` | `StartedAtMostOnce` |
| | `NeverAhead` | `StatusNeverAhead` |
| | `LiveRowsAreOwned` | `LiveRowHasOwner` |
| | `SucceededIsLinked` | `SucceededHasSiteURL` (in no run) |
| | `FinishTimesSurvive` | `FinishTimeSurvives` (action property) |
| | `LifecycleImplementsRecord` | `ImplementsRecord` (refinement) |
| | `ConclusionsStay` | `ConclusionsAreFinal` (action property, in no run) |
| | `EarlyCancelsHold` | which cancels no monitor overwrites |
| `WebhookIngestProofs` | `TypeCorrect` | `TypeOK` |
| | `DeliversAtMostOnce` | `AtMostOneDeployment` |
| | `ClaimsStayBacked` | `ClaimsAreBacked` |
| | `IngestImplementsDeliveryOnce` | `ImplementsDeliveryOnce` (refinement) |
| | `LostDeliveriesStayLost` | an abandoned claim never gets its deployment |
| | `UndisturbedRetriesComplete` | `RetryCompletes`, without faults and deletions |
| `DeployInfraProofs` | `TypeCorrect` | `TypeOK` |
| | `DeploysHeal` | `UndisturbedDeployHeals` |
| | `OrderlyWritesAreExact` | `OrderlyWritesKeepFields` (action property) |
| | `NothingEscapes` | `EverythingRecorded` |
| | `UnrenamedAppsServeUploads` | `ServesWhatItUploads`, without a rename |
| | `OrderlyDeletesLeaveNothing` | `NothingLeftBehind`, without rename, overlap and failed calls |
| | `EmptySitesHaveACause` | `EmptySiteHasACause` (in no run) |
| | `SuccessfulDeploysKeepSites` | `FailedDeployKeepsSite`, while no deployment and no call fails |
| `DeployPipelineProofs` | `TypeCorrect` | `TypeOK` |
| | `PipelinesAdvance` | `PipelineAdvances` (action property) |
| | `PushesAreDeployed` | `PushIsDeployed` |
| | `SharedFilesAreKept` | `SharedFilesSurvive` |
| | `FilesNeverGoBack` | `SiteNeverGoesBack` (action property) |
| | `SyncIsExact` | `UndisturbedSyncIsExact` |
| | `OldFilesAreKept` | `BrokenSyncKeepsOldFiles` |
| | `ArtifactDirectoryIsBest` | which directory is published, for every layout |
| `SignInProofs` | `TypeCorrect` | `TypeOK` |
| | `NoSessionCrosses` | `SessionsNeverCross` (in no run) |
| | `AccountsHaveOneUser` | `OneUserPerAccount` |
| | `TokensNameIdentities` | `TokenNamesIdentity` |
| | `LockoutsHaveACause` | `LockoutHasACause` |
| | `RetriesHaveACause` | `RetryHasACause` |
| | `SignInImplementsAccountBook` | `ImplementsAccountBook` (refinement) |
| `ConnectionsProofs` | `TypeCorrect` | `TypeOK` |
| | `OneAccountSuffices` | `OneAccountIsNeverRefused` |
| | `GoneAppsLeaveNothing` | `GoneAppHasNoBucket` |
| | `BranchesAreUnique` | `OneAppPerBranch` (in no run) |
| | `ConnectionsImplementRegistry` | `ImplementsRegistry` (refinement) |
| | `BucketsStayWhereTheyAre` | `BucketsStay` (action property, in no run) |
| `RepoAccessProofs` | `AccessTypeCorrect` | `AccessTypeOK` (in no run) |
| | `GrantsComeFirst` | `AppsAreGranted` (in no run) |
| | `OneInstallationIsEnough` | `OneInstallationSuffices` |
| `AIInsightProofs` | `TypeCorrect` | `TypeOK` |
| | `LogsAreHonest` | `LogTellsWhatHappened` |
| | `AnswersAreOnRecord` | `AnswerIsOnRecord` |
| | `PaidTextsSurvive` | `PaidTextSurvives` |
| | `OnlyLateRowsStay` | `OnlyLateRowsRemain` |
| | `RequestsRunOut` | `RequestsAdvance` (action property, in no run) |

A property "in no run" is proved for all values of the constants and needs no small
instance. `SessionsNeverCross` and `OneAppPerBranch` moreover follow from the two
refinements that the runs do check: they are what the types of `AccountBook` and
`AppRegistry` say of sessions and of sources.

The findings have boundaries, and these are proved too: how much has to come
together before the code breaks what its comments say. A cancel is lost only
between the monitor's look and its write, or before the last write of the pipeline's
goroutine (`EarlyCancelsHold`); a retry is incomplete only after a failure, a crash or a deletion
(`UndisturbedRetriesComplete`); a site goes only with a failed deployment or a failed
call (`SuccessfulDeploysKeepSites`); served and uploaded buckets part only by a rename
(`UnrenamedAppsServeUploads`); and resources are left only by a rename, an overlap or a
failed call (`OrderlyDeletesLeaveNothing`).

Lifecycle. Type correctness is inductive as it stands. No other
property is inductive alone: `StatusNeverAhead` and `LiveRowHasOwner` break at
`TriggerDeployment` unless the goroutine that starts there is known not to have
begun, and at `CreateDeployment` unless the new id is known to be unused. That
is what `StartedAtMostOnce` says, so `IInv` is the conjunction of `TypeOK` and the
four safety properties, and it is inductive. `SucceededHasSiteURL` survives a
cancel that writes back an old URL because the same statement writes the status.
Lemmas say once what an UPDATE, a log line and a step of a goroutine can change
(`UpdateEffect`, `ReportEffect`, `WorkerEffect`); the proof that a step preserves
`IInv` has one step per action on top of them. The refinement then maps every
action, under `IInv`, to a step of `DeploymentRecord` or to a stutter;
`CreateDeployment` needs that the id was never used, the goroutine's writes need
the phase it is in, and the deletion is `Remove` of all rows of the application at
once. `ConclusionsStay` is read off that refinement. `EarlyCancelsHold` is an
invariant of its own: a row that is canceled and that no goroutine and no monitor past
its look will write (`Unwatched`) stays so, since a monitor that looks now finds it
canceled.

Webhook ingest. `AtMostOneDeployment` is not inductive: a deletion removes the
ledger rows that make claims exclusive, and somebody else may claim again.
`ClaimIsExclusive` says that while the application exists the ledger row makes a
claim unique; `InsertIsExclusive` says that at most one handler has passed the
reload and is about to insert, also when the application is gone. A second
claim made after the deletion cannot pass the reload, because ids of deleted
applications do not come back (`apps.id` is AUTOINCREMENT). Together with `TypeOK`
and the property itself they form the inductive `IInv`. `ClaimsAreBacked` is proved
on top of it. The refinement of `DeliveryOnce` has to explain what happens to a claim
whose row goes away with its application while a handler is about to use it: the claim
stays owed to that handler (`Armed`), and all others of the application are lost in
the same step. Whatever ends a handler loses all it is armed for, so the abstract `Lose`
takes a set. `LostDeliveriesStayLost` is then a fact about `DeliveryOnce` alone.

Cloud resources. Everything rests on who is active. `Moves(x)` says what the step
of one actor leaves alone, `SomebodyMoves` that every step is one actor's or a
crash, and `Sole` that the history variables mean what they say: `alone` holds only
an actor that no other was active with, and `orderly` that there was never more
than one. `DeploysHeal` then follows a lonely deployment call by call: `Sound(j)`
says for each point what it has put right by then. `OrderlyWritesAreExact`
needs that what an actor read is still what the rows say (`RowsAreCurrent`).
`NothingEscapes` is about every actor at once: `KeptInv` says, for each point of a
deployment, a patch and a deletion, which resource is held by the actor rather than
by the row; `OrderlyDeletesLeaveNothing` is its case without an application.
`NameInv` says that as long as one name is all anybody has sent, rows, patches, jobs and
origins of distributions know no other. For `EmptySitesHaveACause`, a deployment that put a start page
and has not uploaded stays that page's cause until it, or another deployment, uploads
to the bucket, or the bucket is removed.

Pipeline. One lemma per action says what it does to its deployment and to the
bucket, and that the types stay; `Moves(q, r)` is their sum, a step by the
deployment before (`q`) and after it (`r`), and `Steps` says that every step is
such a move, a start, a push, a patch or a crash. The five properties then have an
invariant each. `PipelinesAdvance` computes `Left` stage by stage: a file, a page
(its last key is greater than the page before) or a batch less. `PushInv` keeps the
recorded commit of a deployment at or before the head of its branch until it clones
it. `SharedInv` is the strengthening `SharedFilesSurvive` needs: as soon as one
of the deployments that sync has uploaded a file all of them have, it is there, since
no deployment ever holds a file of its own as stale; a deployment that joins them only
makes the set of such files smaller. `OrderlyInv` orders bucket, commit being
synced and head of the branch. `AloneInv` follows a lonely sync stage by stage
(`PutStage`, `ListStage`, `DeleteStage`, `DoneStage`): the files uploaded so far are
new and everything else is as the sync found it, then what is listed so far and
is no artifact is in `todo`, then only that and the artifacts are left.
Smallest and largest keys of a page exist because the numbers are well-founded.
`ArtifactDirectoryIsBest` states the choice of the directory without its order of
search: `AsGood` compares two fallbacks, and the chosen one is as good as any that is there.

Sign-in. `IInv` adds to `OneUserPerAccount` what the handlers between two statements
know: a handler past its lookup has a profile, a user, an identity (`HandlerOK`);
whoever it holds was made for the same account (`UsersMatch`); without changes of
address all profiles and users show the account's (`AddressKept`), so the unique key
on addresses separates accounts; without faults a new user is linked or about to be
(`Linked`); and a browser lost a sign-in's cookies only for the reasons in `Gone`
(`CookieOK`). The theorems are consequences of it. The refinement of `AccountBook` adds
nothing to `IInv`: `BookEffects` says what one step can do to users, identity rows and
sessions at once, and `BookStep` finds the abstract step, or none, for each action.

Connections. `RowsOfOthers` says that deleting or overwriting a row keeps the
others, once for all; `JobSteps` says which steps a deployment or deletion can make,
as a change of its one slot, so that the invariants about all slots are shown
once for each kind of step. Three invariants carry the theorems.
`IdsAreGiven` says that rows, records and slots know only ids that were given out, which
is why a new row never replaces one and no slot of an old application meets a new
one. `OthersSound` says what holds of every application that is not astray,
whatever overlaps: no deployment and deletion of it are active together; a deletion
that is about to delete the row has left no bucket; a bucket is recorded or its
deployment is about to record it; without a row there is neither bucket nor active
deployment. The third is what a deletion that finds no infra row relies on:
without it, it would conclude from a missing record that there is no bucket.
`GoneAppsLeaveNothing` is its last part, and with `TypeOK` it gives the refinement:
removing the row is `Remove`, removing the bucket `Clear`, making it `Settle`, and the
start of an overlapping job or a crash at the wrong moment `GoAstray`.
`BucketsStayWhereTheyAre` excepts no application: it needs only that a bucket is
touched with a connection that is `Usable` for it.
For `OneAccountSuffices`, a good connection (`Good`) is of a role one was saved for,
and STS accepts it unless AWS has changed or nobody asked STS; rows, savers and jobs
hold only good ones, and a bucket is where some saved role is (`RowsGood`,
`SaversVerified`, `JobsGood`, `BucketsKnown`). `RefusalStep` shows that a refusal
needs a connection that is not good or a bucket elsewhere; with one account there is
none.

Repository access. `KnownGranted` follows a checked repository from the search in the
list to the row and from the row to each deployment: as long as the grants stay, some
installation the user has had grants it. The request that is being searched for
remembers which installation it asked (`asked`), since another may be saved in
between. `GrantsComeFirst` is its part about the rows; with one installation ever
saved, the token of a deployment is of the one that grants, which is
`OneInstallationIsEnough`.

AI insights. `RequestOK` says how a request's point, calls, text and status fit
together; with the four properties it is inductive, request by request. `RequestsRunOut`
is the half of `EveryRequestEnds` that needs no fairness: `Left` counts the steps
a handler has left, each takes one away, and nothing adds any.

Only model-checked: the liveness properties (`QueuedSettles`, `ClaimLeadsToDeployment`, `EveryRequestEnds`), which
are out of the prover's reach (their halves without fairness, `PipelineAdvances` and
`RequestsAdvance`, are proved). No model needs a recursive operator.

## 5. Not modelled

* The web client. Its deletion flow (`app-delete-flow.ts` and the files beside it)
  has timers, storage that survives a reload and a request that outlives the
  page, and deserves a module; pages and polling only show what they fetched last.
* System services, health and read-only handlers: they change nothing.
* The in-memory queue (`queue/queue.go`): nothing in the program uses it.
* Parsing and validation that only refuse requests, signatures and timestamps of
  deliveries, token signing, hashing: they answer and change nothing, or are library code.
* Audit events and the append-only history of configurations: written, never read
  by anything modelled.
* The order of the deployment list within one second: listed as a hazard; the code
  states no promise a property could hold it to.
* Terraform and shell code: declarative, or run by hand.

## 6. Plan

1. Done: `DeploymentRecord`, `DeployLifecycle`, `WebhookIngest`, `DeployInfra`,
   `DeployPipeline`, `SignIn`, `Connections`, `RepoAccess`, `AIInsight`, and the proofs of all
   their safety and action properties; `DeliveryOnce`, `AccountBook`, `AppRegistry` and
   the proofs that `WebhookIngest`, `SignIn` and `Connections` implement them; the
   boundaries of the five findings.
2. An abstract specification of a site as its visitors see it, over `DeployPipeline`.
3. `AppDeleteFlow`: the client's deletion flow with its timers, the reload, the
   background check and the request that may still be running. Properties: one
   redirect per deletion; a finished deletion ends the flow.
