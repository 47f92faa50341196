------------------------------ MODULE Connections ------------------------------
(***************************************************************************)
(* What the applications of a user need from AWS: the connections          *)
(* (handlers/aws_connections.go, store_aws.go), the applications with      *)
(* their infra rows (apps_write_create.go, apps_write_delete.go,           *)
(* app_contracts.go, store_apps.go), and the deployments and deletions     *)
(* that use both (deploy.go, deploy_pipeline_runtime.go,                   *)
(* deploy_infra_aws.go, deploy_teardown_aws.go).                           *)
(*                                                                         *)
(* A connection is verified before it is saved and chosen each time it is  *)
(* needed, twice within one deployment.  Meanwhile the user saves and      *)
(* deletes connections and AWS changes what it accepts.  Deployments are   *)
(* goroutines nobody coordinates, and a deletion takes the bucket in one   *)
(* step and the row in a later one, so any of them overlap.                *)
(*                                                                         *)
(* An application keeps its name here, and so its bucket's; renaming and   *)
(* distributions are DeployInfra's, what GitHub grants is RepoAccess's.    *)
(***************************************************************************)
EXTENDS Naturals, Sequences, SequencesExt

CONSTANTS
  Roles,       \* roles of the user, each with the region it is saved for
  HomeOf,      \* the AWS account and region of each
  Externals,   \* external ids
  Short,       \* those shorter than eight characters
  Local,       \* whether APP_ENV is local: then STS is not asked
  Apps,        \* ids of applications
  Repos,       \* repositories
  Branches,    \* their branches
  Savers,      \* requests that save a connection, one slot each
  Creators,    \* requests that create an application, one slot each
  Jobs,        \* deployments and deletions, one slot each
  None,        \* where there is none
  FirstTrust,  \* the external id each role asks for in the beginning
  MaxChanges,  \* bound on what AWS changes by itself
  MaxFaults    \* bound on failed calls and crashes

Homes == {HomeOf[r] : r \in Roles}
Connection == [role : Roles, external : Externals]
Source == [repo : Repos, branch : Branches]

ASSUME ConnectionsAssumption ==
  /\ DOMAIN HomeOf = Roles
  /\ Short \subseteq Externals
  /\ Local \in BOOLEAN
  /\ FirstTrust \in [Roles -> Externals \ Short]
  /\ MaxChanges \in Nat
  /\ MaxFaults \in Nat
  /\ None \notin Homes \cup Connection \cup Apps \cup Source

VARIABLES
  trust,        \* AWS: the external id each role asks for
  changes,      \* changes of it so far
  connections,  \* table aws_connections, last saved first
  saved,        \* every role a connection was ever saved for
  saver,        \* the verified connection each request is about to save
  apps,         \* table apps: repository and branch of the rows there are
  given,        \* ids that were ever given to a row
  recorded,     \* table app_infra_outputs: applications with a row
  creator,      \* the application each request has inserted and not recorded
  home,         \* AWS: the account and region of each application's bucket
  job,          \* where the deployments and deletions are
  astray,       \* applications for which a deployment overlapped a deletion,
                \* or broke off between the bucket and the only record of it
  faults        \* failed calls and crashes so far

vars == <<trust, changes, connections, saved, saver, apps, given, recorded, creator,
          home, job, astray, faults>>
outside == <<trust, changes>>
aws == <<connections, saved, saver>>
rows == <<apps, given, recorded, creator>>

Idle == [pc |-> "idle", app |-> None, upload |-> None, use |-> None]
Refused == [Idle EXCEPT !.pc = "refused"]

Init ==
  /\ trust = FirstTrust
  /\ changes = 0
  /\ connections = <<>>
  /\ saved = {}
  /\ saver = [s \in Savers |-> None]
  /\ apps = [a \in Apps |-> None]
  /\ given = {}
  /\ recorded = {}
  /\ creator = [c \in Creators |-> None]
  /\ home = [a \in Apps |-> None]
  /\ job = [j \in Jobs |-> Idle]
  /\ astray = {}
  /\ faults = 0

-----------------------------------------------------------------------------
(* AWS connections *)

\* STS lets the role be assumed with this external id.
Assumed(c) == trust[c.role] = c.external

\* Mutant: the role is checked for its form only, wherever the server runs.
VerifyFormOnly(s) ==
  /\ saver[s] = None
  /\ \E c \in Connection :
       /\ c.external \notin Short
       /\ saver' = [saver EXCEPT ![s] = c]
  /\ UNCHANGED <<outside, connections, saved, rows, home, job, astray, faults>>

(***************************************************************************)
(* POST /v1/aws-connections: a well-formed request whose role STS lets us  *)
(* assume, and whose account, if it names one, is the role's, goes on to   *)
(* be saved; any other is answered 400.  A local server asks nobody.       *)
(***************************************************************************)
VerifyConnection(s) ==
  /\ saver[s] = None
  /\ \E c \in Connection, account \in {None} \cup Homes :
       /\ c.external \notin Short
       /\ ~Local => Assumed(c)
       /\ account \in {None, HomeOf[c.role]}
       /\ saver' = [saver EXCEPT ![s] = c]
  /\ UNCHANGED <<outside, connections, saved, rows, home, job, astray, faults>>

\* Mutant: no key, so no conflict and no overwritten row.
AllRows(r) == connections

\* The rows of the other roles; each role has one at most.
Others(r) ==
  LET at == {i \in DOMAIN connections : connections[i].role = r}
  IN  IF at = {} THEN connections ELSE RemoveAt(connections, CHOOSE i \in at : TRUE)

\* The row of the role is inserted or overwritten, and is now the latest.
UpsertAWSConnection(s) ==
  /\ saver[s] # None
  /\ connections' = <<saver[s]>> \o Others(saver[s].role)
  /\ saved' = saved \cup {saver[s].role}
  /\ saver' = [saver EXCEPT ![s] = None]
  /\ UNCHANGED <<outside, rows, home, job, astray, faults>>

\* DELETE /v1/aws-connections/:id
DeleteAWSConnection(r) ==
  /\ \E i \in DOMAIN connections : connections[i].role = r
  /\ connections' = Others(r)
  /\ UNCHANGED <<outside, saved, saver, rows, home, job, astray, faults>>

\* What a deployment or a deletion uses: the connection saved last.
SelectValidated == IF connections = <<>> THEN None ELSE Head(connections)

-----------------------------------------------------------------------------
(* Applications and their infra rows *)

\* Repository and branch are unique.
Free(x) == \A a \in Apps : apps[a] # x

\* Mutant: repository and branch are not unique.
CreateAnyApp(c) ==
  /\ creator[c] = None
  /\ \E a \in Apps \ given, x \in Source :
       /\ apps' = [apps EXCEPT ![a] = x]
       /\ given' = given \cup {a}
       /\ creator' = [creator EXCEPT ![c] = a]
  /\ UNCHANGED <<outside, aws, recorded, home, job, astray, faults>>

\* The row of POST /v1/apps is inserted; a source that is taken is answered
\* 409.  Ids are not used twice (AUTOINCREMENT).
CreateApp(c) ==
  /\ creator[c] = None
  /\ \E a \in Apps \ given, x \in Source :
       /\ Free(x)
       /\ apps' = [apps EXCEPT ![a] = x]
       /\ given' = given \cup {a}
       /\ creator' = [creator EXCEPT ![c] = a]
  /\ UNCHANGED <<outside, aws, recorded, home, job, astray, faults>>

\* Then its infra row is made, whether or not the application is still there.
EnsureAppInfraOutput(c) ==
  /\ creator[c] # None
  /\ recorded' = recorded \cup {creator[c]}
  /\ creator' = [creator EXCEPT ![c] = None]
  /\ UNCHANGED <<outside, aws, apps, given, home, job, astray, faults>>

\* GET /v1/apps/:id/infra-outputs makes the infra row if it is missing.
GetAppInfraOutputs(a) ==
  /\ apps[a] # None
  /\ a \notin recorded
  /\ recorded' = recorded \cup {a}
  /\ UNCHANGED <<outside, aws, apps, given, creator, home, job, astray, faults>>

\* PATCH /v1/apps/:id sets another branch, or a deployment writes back the one
\* it knows, and the infra row is refreshed; a branch that is taken is an error.
UpdateApp(a) ==
  /\ apps[a] # None
  /\ \E b \in Branches :
       LET moved == [apps[a] EXCEPT !.branch = b]
       IN  Free(moved) /\ apps' = [apps EXCEPT ![a] = moved]
  /\ recorded' \in {recorded, recorded \cup {a}}
  /\ UNCHANGED <<outside, aws, given, creator, home, job, astray, faults>>

-----------------------------------------------------------------------------
(* Deployments and deletions *)

Deploying == {"queued", "infra", "bucket", "upsert", "upload"}
Deleting == {"teardown", "choose", "remove", "row"}

At(j, where) == job[j].pc = where
Active(a, stages) == \E j \in Jobs : job[j].app = a /\ job[j].pc \in stages

Goes(j, where) == job' = [job EXCEPT ![j].pc = where]
Ends(j) == job' = [job EXCEPT ![j] = Idle]
IsRefused(j) == job' = [job EXCEPT ![j] = Refused]

\* The handler has loaded the application and goes on by itself.
Starts(j, a, where) ==
  /\ job[j] \in {Idle, Refused}
  /\ apps[a] # None
  /\ job' = [job EXCEPT ![j] = [pc |-> where, app |-> a, upload |-> None, use |-> None]]

\* A deployment or a deletion starts while one of the other kind is active.
Overlaps(a, others) == astray' = astray \cup {b \in {a} : Active(b, others)}

\* POST /v1/apps/:id/deploy, or a push: a goroutine with a copy of the row.
QueueDeployment(j, a) ==
  /\ Starts(j, a, "queued")
  /\ Overlaps(a, Deleting)
  /\ UNCHANGED <<outside, aws, rows, home, faults>>

\* The connection for the uploads is chosen, unless there is none or GitHub
\* gives no token.
BuildDeploymentRuntime(j) ==
  /\ At(j, "queued")
  /\ \/ Ends(j)
     \/ /\ SelectValidated # None
        /\ job' = [job EXCEPT ![j].pc = "infra", ![j].upload = SelectValidated]
  /\ UNCHANGED <<outside, aws, rows, home, astray, faults>>

\* The connection for the bucket is chosen, again or for a deletion.
SelectForBucket(j) ==
  /\ job[j].pc \in {"infra", "choose"}
  /\ IF SelectValidated = None
     THEN Ends(j)
     ELSE job' = [job EXCEPT ![j].pc = IF @ = "infra" THEN "bucket" ELSE "remove",
                             ![j].use = SelectValidated]
  /\ UNCHANGED <<outside, aws, rows, home, astray, faults>>

\* The role can be assumed, and the bucket's name, which is taken for the whole
\* of AWS, is not taken in another account or region.
Usable(c, a) == Assumed(c) /\ home[a] \in {None, HomeOf[c.role]}

\* The bucket is there, or is created.
EnsureS3WebsiteBucket(j) ==
  /\ At(j, "bucket")
  /\ LET c == job[j].use a == job[j].app IN
       IF Usable(c, a)
       THEN /\ home' = [home EXCEPT ![a] = HomeOf[c.role]]
            /\ job' = [job EXCEPT ![j].pc = "upsert", ![j].use = None]
       ELSE IsRefused(j) /\ UNCHANGED home
  /\ UNCHANGED <<outside, aws, rows, astray, faults>>

\* After the distribution the infra row is written, whether or not the
\* application is still there.
UpsertAppInfraOutput(j) ==
  /\ At(j, "upsert")
  /\ recorded' = recorded \cup {job[j].app}
  /\ Goes(j, "upload")
  /\ UNCHANGED <<outside, aws, apps, given, creator, home, astray, faults>>

\* The build is uploaded; or the row is gone, GitHub or the build fails, or the
\* bucket was removed.
UploadArtifacts(j) ==
  /\ At(j, "upload")
  /\ \/ Ends(j)
     \/ ~Usable(job[j].upload, job[j].app) /\ IsRefused(j)
  /\ UNCHANGED <<outside, aws, rows, home, astray, faults>>

\* DELETE /v1/apps/:id
BeginTeardown(j, a) ==
  /\ Starts(j, a, "teardown")
  /\ Overlaps(a, Deploying)
  /\ UNCHANGED <<outside, aws, rows, home, faults>>

\* Without an infra row there is nothing to remove, and nothing is needed.
LoadInfraOutput(j) ==
  /\ At(j, "teardown")
  /\ Goes(j, IF job[j].app \in recorded THEN "choose" ELSE "row")
  /\ UNCHANGED <<outside, aws, rows, home, astray, faults>>

\* Mutant: a bucket that cannot be removed is left, and the deletion goes on.
RefusalIsIgnored(j) ==
  /\ At(j, "remove")
  /\ home' = [home EXCEPT ![job[j].app] = IF Usable(job[j].use, job[j].app) THEN None ELSE @]
  /\ job' = [job EXCEPT ![j].pc = "row", ![j].use = None]
  /\ UNCHANGED <<outside, aws, rows, astray, faults>>

\* The bucket goes; one that is not there is as good as gone once the role is
\* assumed.
EmptyAndDeleteBucket(j) ==
  /\ At(j, "remove")
  /\ IF Usable(job[j].use, job[j].app)
     THEN /\ home' = [home EXCEPT ![job[j].app] = None]
          /\ job' = [job EXCEPT ![j].pc = "row", ![j].use = None]
     ELSE IsRefused(j) /\ UNCHANGED home
  /\ UNCHANGED <<outside, aws, rows, astray, faults>>

\* The row goes with its infra row; if it is gone already the transaction is
\* rolled back.
DeleteAppForUser(j) ==
  /\ At(j, "row")
  /\ LET a == job[j].app IN
       /\ apps' = [apps EXCEPT ![a] = None]
       /\ recorded' = IF apps[a] = None THEN recorded ELSE recorded \ {a}
  /\ Ends(j)
  /\ UNCHANGED <<outside, aws, given, creator, home, astray, faults>>

-----------------------------------------------------------------------------
(* Failures, crashes, and what changes at AWS *)

Fault == faults < MaxFaults /\ faults' = faults + 1

\* Applications with a bucket whose only record these jobs were to write.
Unwritten(js) ==
  {a \in Apps \ recorded : \E j \in js : At(j, "upsert") /\ job[j].app = a}

\* A call of a deployment or a deletion fails or times out, which ends it.
JobFails(j) ==
  /\ Fault
  /\ job[j] \notin {Idle, Refused}
  /\ Ends(j)
  /\ astray' = astray \cup Unwritten({j})
  /\ UNCHANGED <<outside, aws, rows, home>>

\* The infra row of a new application is not written; nobody looks.
RecordFails(c) ==
  /\ Fault
  /\ creator[c] # None
  /\ creator' = [creator EXCEPT ![c] = None]
  /\ UNCHANGED <<outside, aws, apps, given, recorded, home, job, astray>>

\* The server restarts and all that is under way is lost.
Crash ==
  /\ Fault
  /\ saver' = [s \in Savers |-> None]
  /\ creator' = [c \in Creators |-> None]
  /\ job' = [j \in Jobs |-> Idle]
  /\ astray' = astray \cup Unwritten(Jobs)
  /\ UNCHANGED <<outside, connections, saved, apps, given, recorded, home>>

RoleAsksForAnother(r) ==
  /\ changes < MaxChanges
  /\ changes' = changes + 1
  /\ \E x \in Externals \ Short : trust' = [trust EXCEPT ![r] = x]
  /\ UNCHANGED <<aws, rows, home, job, astray, faults>>

-----------------------------------------------------------------------------
JobNext(j) ==
  \/ \E a \in Apps : QueueDeployment(j, a) \/ BeginTeardown(j, a)
  \/ BuildDeploymentRuntime(j) \/ SelectForBucket(j) \/ EnsureS3WebsiteBucket(j)
  \/ UpsertAppInfraOutput(j) \/ UploadArtifacts(j)
  \/ LoadInfraOutput(j) \/ EmptyAndDeleteBucket(j) \/ DeleteAppForUser(j)
  \/ JobFails(j)

Next ==
  \/ \E s \in Savers : VerifyConnection(s) \/ UpsertAWSConnection(s)
  \/ \E r \in Roles : DeleteAWSConnection(r) \/ RoleAsksForAnother(r)
  \/ \E c \in Creators : CreateApp(c) \/ EnsureAppInfraOutput(c) \/ RecordFails(c)
  \/ \E a \in Apps : GetAppInfraOutputs(a) \/ UpdateApp(a)
  \/ \E j \in Jobs : JobNext(j)
  \/ Crash

Spec == Init /\ [][Next]_vars

-----------------------------------------------------------------------------
\* A job: which fields it has at each point.
Job ==
  [pc : {"idle", "refused"}, app : {None}, upload : {None}, use : {None}]
    \cup [pc : {"queued", "teardown", "choose", "row"}, app : Apps, upload : {None}, use : {None}]
    \cup [pc : {"infra", "upsert", "upload"}, app : Apps, upload : Connection, use : {None}]
    \cup [pc : {"bucket"}, app : Apps, upload : Connection, use : Connection]
    \cup [pc : {"remove"}, app : Apps, upload : {None}, use : Connection]

\* Types; and aws_connections has one row per role.
TypeOK ==
  /\ trust \in [Roles -> Externals \ Short]
  /\ changes \in 0 .. MaxChanges
  /\ connections \in Seq(Connection)
  /\ \A i, j \in DOMAIN connections : connections[i].role = connections[j].role => i = j
  /\ saved \subseteq Roles
  /\ saver \in [Savers -> {None} \cup Connection]
  /\ apps \in [Apps -> {None} \cup Source]
  /\ given \subseteq Apps
  /\ recorded \subseteq given
  /\ creator \in [Creators -> {None} \cup given]
  /\ home \in [Apps -> {None} \cup Homes]
  /\ job \in [Jobs -> Job]
  /\ astray \subseteq given
  /\ faults \in 0 .. MaxFaults

(***************************************************************************)
(* Where STS verifies connections, a user whose connections have all been  *)
(* of one account and region, and whose roles stay as they are, is never   *)
(* refused by AWS, however connections are saved and deleted while         *)
(* deployments and deletions choose one and then another, and whatever of  *)
(* them overlaps or fails.                                                 *)
(***************************************************************************)
OneAccountIsNeverRefused ==
  ~Local /\ changes = 0 /\ (\A q, r \in saved : HomeOf[q] = HomeOf[r]) =>
    \A j \in Jobs : ~At(j, "refused")

(***************************************************************************)
(* An application that is gone has a bucket left, in whatever account was  *)
(* connected when it was made, only if one of its deployments overlapped a *)
(* deletion, or broke off between the bucket and the only record of it.    *)
(* Deletions that are refused, fail, are repeated or overlap each other    *)
(* leave none.                                                             *)
(***************************************************************************)
GoneAppHasNoBucket ==
  \A a \in Apps : apps[a] = None /\ home[a] # None => a \in astray

\* Overlapping requests never create two applications for a branch.
OneAppPerBranch ==
  \A a, b \in Apps : apps[a] # None /\ apps[a] = apps[b] => a = b

(***************************************************************************)
(* The rows and buckets of the user's applications keep the promise of     *)
(* AppRegistry: sources are unique, ids are not used twice, no deployment  *)
(* moves a bucket to the account or region that happens to be connected,   *)
(* and only astray applications go before their bucket or get one after.   *)
(***************************************************************************)
Registry == INSTANCE AppRegistry WITH Sources <- Source, source <- apps

ImplementsRegistry == Registry!Spec
=============================================================================
