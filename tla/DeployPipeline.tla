---------------------------- MODULE DeployPipeline ----------------------------
(***************************************************************************)
(* What a deployment does between its start and its end                    *)
(* (handlers/deploy_pipeline*.go, deploy_runner.go): it clones the head of *)
(* a branch, builds it, finds the artifacts, uploads them object by object *)
(* and deletes what else is in the bucket.  Deployments of one application *)
(* share the bucket and run in goroutines of their own; nothing orders     *)
(* them.  Meanwhile commits are pushed and the application is patched to   *)
(* another branch.                                                         *)
(*                                                                         *)
(* DeployLifecycle has the status row, DeployInfra the bucket and the      *)
(* distribution; here the bucket exists and only its objects matter.  A    *)
(* file is told apart by the commit it was built from, and version 0 is    *)
(* the start page.  Keys are numbers in the order of the upload.           *)
(***************************************************************************)
EXTENDS Naturals, FiniteSets

CONSTANTS
  Jobs,        \* deployments of the application
  Branches,    \* branches of its repository
  FirstBranch, \* the branch the application was created with
  Commits,     \* commits, in the order they are pushed: 1, 2, ...
  Keys,        \* object keys: 1, 2, ...
  IndexKey,    \* index.html
  Repo,        \* what each commit holds: see RepoType
  OutputDir,   \* the directory the application is configured with
  Tools,       \* package managers installed where the pipeline runs
  PageSize,    \* keys in one answer to a list request or in one delete request
  MaxPatches,  \* bound on the times the application is patched to another branch
  MaxFaults    \* bound on failed calls, failed commands and crashes together

Dirs == {"dist", "build", "out", "public", "."} \cup {OutputDir}
Fallbacks == <<"dist", "build", "out", "public">>

\* A layout says which directories exist and which files are in them.
Layouts == UNION {[D -> SUBSET Keys] : D \in {D \in SUBSET Dirs : "." \in D}}
RepoType == [package : BOOLEAN, script : BOOLEAN, manager : {"pnpm", "yarn", "npm"},
             source : Layouts, built : Layouts]

ASSUME PipelineAssumption ==
  /\ IsFiniteSet(Commits) /\ Commits = 1 .. Cardinality(Commits) /\ 1 \in Commits
  /\ IsFiniteSet(Keys) /\ Keys = 1 .. Cardinality(Keys)
  /\ IndexKey \in Keys
  /\ FirstBranch \in Branches
  /\ Repo \in [Commits -> RepoType]
  /\ PageSize \in Nat \ {0}
  /\ MaxPatches \in Nat
  /\ MaxFaults \in Nat

VARIABLES
  newest,      \* the last commit that was pushed
  head,        \* the head of each branch
  appBranch,   \* the branch in the application's row
  patches,     \* times the application was patched so far
  deliveries,  \* pushes of the application's branch GitHub told about: [branch, commit]
  objects,     \* the bucket: the version of each object that is there
  job,         \* where each deployment is, and what it holds
  faults,      \* failures so far
  alone,       \* history: the deployment that started alone and was alone since
  orderly      \* history: no two deployments were ever active at the same time

repository == <<newest, head, deliveries>>
application == <<appBranch, patches>>
ghosts == <<alone, orderly>>
vars == <<newest, head, deliveries, appBranch, patches, objects, job, faults, alone, orderly>>

(***************************************************************************)
(* app is the branch of the row the request loaded; branch and recorded    *)
(* are what the deployment's row says, recorded = 0 when it names no       *)
(* commit.  before is the bucket as the sync finds it and kept what it     *)
(* could not delete (history).                                             *)
(***************************************************************************)
PC == {"idle", "row", "infra", "checkout", "build", "put", "list", "delete", "invalidate",
       "deployed", "failed"}
EmptyBucket == [k \in {} |-> 0]
NewJob == [pc |-> "idle", kind |-> "none", app |-> "", branch |-> "", recorded |-> 0,
           commit |-> 0, todo |-> {}, page |-> 0, before |-> EmptyBucket,
           kept |-> {}]

Init ==
  /\ newest = 1
  /\ head = [b \in Branches |-> 1]
  /\ appBranch = FirstBranch
  /\ patches = 0
  /\ deliveries = {}
  /\ objects = EmptyBucket
  /\ job = [j \in Jobs |-> NewJob]
  /\ faults = 0
  /\ alone = {}
  /\ orderly = TRUE

Fault == faults < MaxFaults /\ faults' = faults + 1
Ended == {"idle", "deployed", "failed"}
Active == {j \in Jobs : job[j].pc \notin Ended}

\* A failed deployment; what its goroutine held is gone.
Failed(q) == [q EXCEPT !.pc = "failed", !.todo = {}, !.page = 0]

-----------------------------------------------------------------------------
(***************************************************************************)
(* The build of a commit.                                                  *)
(***************************************************************************)

\* inspectBuildPlan, packageHasScript: a build runs only for a build script.
BuildRuns(c) == Repo[c].package /\ Repo[c].script

\* The package manager follows the lock file, and must be installed.
CanBuild(c) == BuildRuns(c) => Repo[c].manager \in Tools

Layout(c) == IF BuildRuns(c) THEN Repo[c].built ELSE Repo[c].source

FirstFallback(S) ==
  Fallbacks[CHOOSE i \in DOMAIN Fallbacks :
              Fallbacks[i] \in S /\ \A m \in 1 .. i - 1 : Fallbacks[m] \notin S]

\* resolveArtifactDirectory; "" when there is none.
ArtifactDirectory(f) ==
  LET present == {Fallbacks[i] : i \in DOMAIN Fallbacks} \cap DOMAIN f
      indexed == {d \in present : IndexKey \in f[d]}
  IN  CASE OutputDir \in DOMAIN f -> OutputDir
        [] OutputDir \notin DOMAIN f /\ indexed # {} -> FirstFallback(indexed)
        [] OutputDir \notin DOMAIN f /\ indexed = {} /\ present # {} -> FirstFallback(present)
        [] OutputDir \notin DOMAIN f /\ present = {} /\ IndexKey \in f["."] -> "."
        [] OTHER -> ""

\* The files a deployment of c uploads; none when there is no directory.
Artifacts(c) ==
  LET d == ArtifactDirectory(Layout(c)) IN IF d = "" THEN {} ELSE Layout(c)[d]

-----------------------------------------------------------------------------
(***************************************************************************)
(* Pushes and patches.                                                     *)
(***************************************************************************)

\* GitHub reports the push; the application is matched by its branch at that time.
Push(b) ==
  /\ newest + 1 \in Commits
  /\ newest' = newest + 1
  /\ head' = [head EXCEPT ![b] = newest + 1]
  /\ deliveries' = IF b = appBranch
                   THEN deliveries \cup {[branch |-> b, commit |-> newest + 1]}
                   ELSE deliveries
  /\ UNCHANGED <<application, objects, job, faults, ghosts>>

PatchBranch(b) ==
  /\ b # appBranch /\ patches < MaxPatches
  /\ appBranch' = b
  /\ patches' = patches + 1
  /\ UNCHANGED <<repository, objects, job, faults, ghosts>>

-----------------------------------------------------------------------------
(***************************************************************************)
(* Starts.  The row gets the branch and the commit the trigger names, and  *)
(* the application's branch where it names none.                           *)
(***************************************************************************)
QueueDeployment(j, kind, branch, commit) ==
  /\ job[j].pc = "idle"
  /\ job' = [job EXCEPT ![j] = [@ EXCEPT !.pc = "row", !.kind = kind, !.app = appBranch,
                                         !.branch = branch, !.recorded = commit]]
  /\ alone' = IF Active = {} THEN {j} ELSE {}
  /\ orderly' = (orderly /\ Active = {})
  /\ UNCHANGED <<newest, head, application, objects, faults>>

DeployManually(j) == QueueDeployment(j, "manual", appBranch, 0) /\ UNCHANGED deliveries

\* The application is reloaded, but its branch is not compared with the push again.
DeployPush(j) ==
  \E d \in deliveries :
    /\ QueueDeployment(j, "webhook", d.branch, d.commit)
    /\ deliveries' = deliveries \ {d}

\* i has failed, or was canceled while running, which does not stop it.
Retry(j, i) ==
  /\ job[i].pc \notin {"idle", "deployed"}
  /\ QueueDeployment(j, "retry", appBranch, job[i].recorded)
  /\ UNCHANGED deliveries

-----------------------------------------------------------------------------
(***************************************************************************)
(* The pipeline.                                                           *)
(***************************************************************************)

\* Mutant: the pipeline works from the application's row only.
LoadNoRow(j) ==
  /\ job[j].pc = "row"
  /\ job' = [job EXCEPT ![j].pc = "infra", ![j].branch = job[j].app]
  /\ UNCHANGED <<repository, application, objects, faults, ghosts>>

\* If the row cannot be read the branch of the application is taken.
LoadRow(j) ==
  /\ job[j].pc = "row"
  /\ \/ job' = [job EXCEPT ![j].pc = "infra"] /\ UNCHANGED faults
     \/ job' = [job EXCEPT ![j].pc = "infra", ![j].branch = job[j].app] /\ Fault
  /\ UNCHANGED <<repository, application, objects, ghosts>>

\* buildDeploymentRuntime, ensureDeploymentInfra: the start page is put, or putting it fails.
EnsureInfra(j) ==
  /\ job[j].pc = "infra"
  /\ \/ objects' = [k \in DOMAIN objects \cup {IndexKey} |->
                      IF k = IndexKey THEN 0 ELSE objects[k]] /\ UNCHANGED faults
     \/ UNCHANGED objects /\ Fault
  /\ job' = [job EXCEPT ![j].pc = "checkout"]
  /\ UNCHANGED <<repository, application, ghosts>>

\* Mutant: a commit the row names is checked out, also an old one.
CheckoutRecorded(j) ==
  /\ job[j].pc = "checkout"
  /\ job' = [job EXCEPT ![j].pc = "build",
                        ![j].commit = IF job[j].recorded # 0 THEN job[j].recorded
                                      ELSE head[job[j].branch]]
  /\ UNCHANGED <<repository, application, objects, faults, ghosts>>

\* git clone --depth 1 of the branch: its head, whatever the row records.
Checkout(j) ==
  /\ job[j].pc = "checkout"
  /\ job' = [job EXCEPT ![j].pc = "build", ![j].commit = head[job[j].branch]]
  /\ UNCHANGED <<repository, application, objects, faults, ghosts>>

\* Mutant: a build without files is not refused.
BuildAcceptsNoFiles(j) ==
  /\ job[j].pc = "build"
  /\ LET c == job[j].commit IN
       job' = IF CanBuild(c)
              THEN [job EXCEPT ![j].pc = "put", ![j].todo = Artifacts(c), ![j].before = objects]
              ELSE [job EXCEPT ![j] = Failed(@)]
  /\ UNCHANGED <<repository, application, objects, faults, ghosts>>

\* Install, build, look for the artifacts and list them; no files is an error.
Build(j) ==
  /\ job[j].pc = "build"
  /\ LET c == job[j].commit IN
       job' = IF CanBuild(c) /\ Artifacts(c) # {}
              THEN [job EXCEPT ![j].pc = "put", ![j].todo = Artifacts(c), ![j].before = objects]
              ELSE [job EXCEPT ![j] = Failed(@)]
  /\ UNCHANGED <<repository, application, objects, faults, ghosts>>

FirstOf(S) == CHOOSE k \in S : \A m \in S : k <= m

\* Files are uploaded one at a time in the order of their keys.
UploadArtifactFile(j) ==
  /\ job[j].pc = "put"
  /\ LET k == FirstOf(job[j].todo)
         rest == job[j].todo \ {k} IN
       /\ objects' = [m \in DOMAIN objects \cup {k} |->
                        IF m = k THEN job[j].commit ELSE objects[m]]
       /\ job' = [job EXCEPT ![j].todo = rest, ![j].page = 0,
                             ![j].pc = IF rest = {} THEN "list" ELSE "put"]
  /\ UNCHANGED <<repository, application, faults, ghosts>>

\* The first PageSize elements of S.
Page(S) == {k \in S : Cardinality({m \in S : m <= k}) <= PageSize}

\* Mutant: only the first page is looked at.
ListFirstPage(j) ==
  /\ job[j].pc = "list"
  /\ LET stale == Page(DOMAIN objects) \ Artifacts(job[j].commit) IN
       job' = [job EXCEPT ![j].todo = stale, ![j].page = 0,
                          ![j].pc = IF stale = {} THEN "invalidate" ELSE "delete"]
  /\ UNCHANGED <<repository, application, objects, faults, ghosts>>

\* Mutant: an object is stale unless it is this deployment's version.
ListOtherVersions(j) ==
  /\ job[j].pc = "list"
  /\ LET stale == {k \in DOMAIN objects : objects[k] # job[j].commit} IN
       job' = [job EXCEPT ![j].todo = stale, ![j].page = 0,
                          ![j].pc = IF stale = {} THEN "invalidate" ELSE "delete"]
  /\ UNCHANGED <<repository, application, objects, faults, ghosts>>

\* One page of the bucket is listed; keys of no artifact are stale.
ListObjects(j) ==
  /\ job[j].pc = "list"
  /\ LET rest == {k \in DOMAIN objects : k > job[j].page}
         stale == job[j].todo \cup (Page(rest) \ Artifacts(job[j].commit)) IN
       job' = IF rest = Page(rest)
              THEN [job EXCEPT ![j].todo = stale, ![j].page = 0,
                               ![j].pc = IF stale = {} THEN "invalidate" ELSE "delete"]
              ELSE [job EXCEPT ![j].todo = stale,
                               ![j].page = CHOOSE k \in Page(rest) : \A m \in Page(rest) : m <= k]
  /\ UNCHANGED <<repository, application, objects, faults, ghosts>>

\* Mutant: the batch is not taken off the stale keys.
DeleteSameBatch(j) ==
  /\ job[j].pc = "delete"
  /\ objects' = [k \in DOMAIN objects \ Page(job[j].todo) |-> objects[k]]
  /\ UNCHANGED <<repository, application, job, faults, ghosts>>

(***************************************************************************)
(* Stale keys are deleted in batches.  Deleting what is gone already is no *)
(* error; a key S3 cannot delete is named in the answer, which the code    *)
(* does not look at.                                                       *)
(***************************************************************************)
DeleteObjects(j) ==
  /\ job[j].pc = "delete"
  /\ LET batch == Page(job[j].todo)
         rest == job[j].todo \ batch IN
       \E kept \in SUBSET (batch \cap DOMAIN objects) :
         /\ (kept = {} /\ UNCHANGED faults) \/ (kept # {} /\ Fault)
         /\ objects' = [k \in DOMAIN objects \ (batch \ kept) |-> objects[k]]
         /\ job' = [job EXCEPT ![j].todo = rest, ![j].kept = @ \cup kept,
                               ![j].pc = IF rest = {} THEN "invalidate" ELSE "delete"]
  /\ UNCHANGED <<repository, application, ghosts>>

\* invalidateCloudFrontDistribution; the probe only chooses between two ways to succeed.
Invalidate(j) ==
  /\ job[j].pc = "invalidate"
  /\ job' = [job EXCEPT ![j].pc = "deployed"]
  /\ UNCHANGED <<repository, application, objects, faults, ghosts>>

\* Mutant: a file that cannot be uploaded is left out and the sync goes on.
FailedFileIsSkipped(j) ==
  /\ job[j].pc = "put" /\ Fault
  /\ LET rest == job[j].todo \ {FirstOf(job[j].todo)} IN
       job' = [job EXCEPT ![j].todo = rest, ![j].pc = IF rest = {} THEN "list" ELSE "put"]
  /\ UNCHANGED <<repository, application, objects, ghosts>>

\* A call or command fails, or times out, before it has an effect.
PipelineFails(j) ==
  /\ job[j].pc \in {"infra", "checkout", "build", "put", "list", "delete", "invalidate"}
  /\ Fault
  /\ job' = [job EXCEPT ![j] = Failed(@)]
  /\ UNCHANGED <<repository, application, objects, ghosts>>

\* The process dies with its goroutines; nothing is resumed.
Crash ==
  /\ Active # {} /\ Fault
  /\ job' = [j \in Jobs |-> IF j \in Active THEN Failed(job[j]) ELSE job[j]]
  /\ UNCHANGED <<repository, application, objects, ghosts>>

PipelineStep(j) ==
  \/ LoadRow(j) \/ EnsureInfra(j) \/ Checkout(j) \/ Build(j) \/ UploadArtifactFile(j)
  \/ ListObjects(j) \/ DeleteObjects(j) \/ Invalidate(j)

Next ==
  \/ \E b \in Branches : Push(b) \/ PatchBranch(b)
  \/ \E j \in Jobs :
       \/ DeployManually(j) \/ DeployPush(j) \/ (\E i \in Jobs : Retry(j, i))
       \/ PipelineStep(j) \/ PipelineFails(j)
  \/ Crash

Spec == Init /\ [][Next]_vars

-----------------------------------------------------------------------------
(***************************************************************************)
(* Properties.                                                             *)
(***************************************************************************)

Buckets == UNION {[K -> Commits \cup {0}] : K \in SUBSET Keys}
JobType ==
  [pc : PC, kind : {"none", "manual", "webhook", "retry"}, app : Branches \cup {""},
   branch : Branches \cup {""}, recorded : Commits \cup {0}, commit : Commits \cup {0},
   todo : SUBSET Keys, page : Keys \cup {0}, before : Buckets, kept : SUBSET Keys]

\* A deployment past its checkout has a commit, and one that uploads or deletes has what.
JobOK(q) ==
  /\ q.pc # "idle" => q.app \in Branches /\ q.branch \in Branches
  /\ q.pc \in {"build", "put", "list", "delete", "invalidate", "deployed"} => q.commit # 0
  /\ q.pc \in {"put", "delete"} => q.todo # {}

\* Every variable has its type.
TypeOK ==
  /\ newest \in Commits
  /\ head \in [Branches -> 1 .. newest]
  /\ appBranch \in Branches /\ patches \in 0 .. MaxPatches
  /\ deliveries \subseteq [branch : Branches, commit : 1 .. newest]
  /\ objects \in Buckets
  /\ job \in [Jobs -> JobType] /\ \A j \in Jobs : JobOK(job[j])
  /\ faults \in 0 .. MaxFaults
  /\ alone \subseteq Jobs /\ orderly \in BOOLEAN

(***************************************************************************)
(* A deployment that was alone from its start to its end leaves exactly    *)
(* the files of its build in the bucket, whatever deployments that         *)
(* overlapped, failed or crashed before it left there; besides them only   *)
(* what S3 would not delete for it, as it was.                             *)
(***************************************************************************)
UndisturbedSyncIsExact ==
  \A j \in Jobs : job[j].pc = "deployed" /\ j \in alone =>
    LET files == Artifacts(job[j].commit) IN
      objects = [k \in files \cup job[j].kept |->
                   IF k \in files THEN job[j].commit ELSE job[j].before[k]]

(***************************************************************************)
(* While a deployment that is alone syncs, and wherever it breaks off, an  *)
(* object is the old one or its new one, and nothing of the old site is    *)
(* gone before all of the new one is there.                                *)
(***************************************************************************)
BrokenSyncKeepsOldFiles ==
  \A j \in alone : job[j].before # EmptyBucket =>
    LET old == job[j].before  c == job[j].commit IN
      /\ \A k \in DOMAIN objects : objects[k] = c \/ (k \in DOMAIN old /\ objects[k] = old[k])
      /\ DOMAIN old \subseteq DOMAIN objects
           \/ \A k \in Artifacts(c) : k \in DOMAIN objects /\ objects[k] = c

Deployed == {j \in Jobs : job[j].pc = "deployed"}

(***************************************************************************)
(* Overlapping deployments may mix their files and delete each other's.    *)
(* What is never lost, without faults, is a file that all of them have:    *)
(* once nothing is in flight it is there, from one of them, or it is the   *)
(* start page put by a deployment whose build failed later.                *)
(***************************************************************************)
SharedFilesSurvive ==
  Active = {} /\ faults = 0 /\ Deployed # {} =>
    \A k \in Keys : (\A j \in Deployed : k \in Artifacts(job[j].commit)) =>
      /\ k \in DOMAIN objects
      /\ objects[k] \in {job[j].commit : j \in Deployed} \cup (IF k = IndexKey THEN {0} ELSE {})

(***************************************************************************)
(* A deployment that a push triggered builds that commit or a later one of *)
(* the branch, also when the application was patched to another branch in  *)
(* the meantime, unless its row could not be read.                         *)
(***************************************************************************)
PushIsDeployed ==
  \A j \in Jobs : job[j].kind = "webhook" /\ job[j].commit # 0 /\ faults = 0 =>
    job[j].commit >= job[j].recorded

(***************************************************************************)
(* As long as deployments do not overlap and the branch stays, no file of  *)
(* the site goes back to an older commit, in whatever order deliveries     *)
(* arrive and whichever old deployment is retried.                         *)
(***************************************************************************)
SiteNeverGoesBack ==
  [][orderly' /\ patches' = 0 =>
       \A k \in DOMAIN objects \cap DOMAIN objects' :
         objects'[k] = 0 \/ objects'[k] >= objects[k]]_vars

(***************************************************************************)
(* How far deployment j still has to go, whatever the others do.           *)
(***************************************************************************)
Stages == <<"invalidate", "delete", "list", "put", "build", "checkout", "infra", "row">>
Left(q) ==
  LET n == Cardinality(Keys)
      stage == {i \in DOMAIN Stages : Stages[i] = q.pc}
      loop == IF q.pc \in {"put", "delete"} THEN Cardinality(q.todo)
              ELSE IF q.pc = "list" THEN n - q.page ELSE 0
  IN  IF stage = {} THEN 0 ELSE (CHOOSE i \in stage : TRUE) * (n + 1) + loop

(***************************************************************************)
(* Every step of a pipeline brings its end nearer, and no other step moves *)
(* it away: the loops over files, pages and batches all end, also when     *)
(* overlapping deployments add and remove objects all the time.            *)
(***************************************************************************)
PipelineAdvances ==
  [][\A j \in Jobs : job[j].pc # "idle" =>
       /\ PipelineStep(j) => Left(job'[j]) < Left(job[j])
       /\ Left(job'[j]) <= Left(job[j])]_vars
=============================================================================
