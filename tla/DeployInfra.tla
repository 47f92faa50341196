------------------------------ MODULE DeployInfra ------------------------------
(***************************************************************************)
(* The cloud resources of one application: the bucket and the CloudFront   *)
(* distribution each deployment makes sure of before it uploads            *)
(* (handlers/deploy_infra_aws.go, deploy_pipeline.go), the rows that       *)
(* remember them (apps, app_infra_outputs), the PATCH handler that         *)
(* refreshes those rows (apps_write_patch.go, app_contracts.go) and the    *)
(* teardown before the application is deleted (deploy_teardown_aws.go).    *)
(*                                                                         *)
(* Deployments, patches and deletions overlap freely; every database call  *)
(* and every AWS call is a step of its own.  AWS is modelled as the code   *)
(* uses it.  Failing calls and crashes are faults, bounded by MaxFaults.   *)
(* What a build produces is told apart only by the deployment that made    *)
(* it, and an upload is one step.                                          *)
(***************************************************************************)
EXTENDS Naturals

CONSTANTS
  Jobs,        \* deployments of the application
  Patches,     \* PATCH requests
  Names,       \* names of the application; each makes its own bucket name
  Settings,    \* what else PATCH changes: branch, output directory, auto deploy
  None,        \* no row, no name
  MaxDists,    \* bound on the distributions ever created
  MaxFaults    \* bound on failed calls and crashes together

Dists == 1 .. MaxDists

App == [name : Names, setting : Settings, site : {0} \cup Dists]
Infra == [bucket : Names, dist : {0} \cup Dists, site : {0} \cup Dists]

ASSUME InfraAssumption ==
  /\ Jobs \cap {None, "none", "placeholder"} = {}
  /\ Jobs \cap Patches = {} /\ "delete" \notin Jobs \cup Patches
  /\ None \notin Names \cup App \cup Infra
  /\ MaxDists \in Nat
  /\ MaxFaults \in Nat

VARIABLES
  app,       \* the row of table apps, None once deleted
  infra,     \* the row of table app_infra_outputs, None when there is none
  buckets,   \* buckets that exist in S3
  content,   \* what index.html of each bucket shows
  alive,     \* distributions that exist in CloudFront
  enabled,   \* those of them that serve
  origin,    \* the bucket each distribution serves
  nextDist,  \* the next distribution CloudFront hands out
  job,       \* where each deployment is
  patch,     \* where each PATCH request is
  del,       \* where the DELETE request is
  faults,    \* failed calls and crashes so far
  alone,     \* history: the actor that started alone and was alone since
  orderly    \* history: no two actors were ever active at the same time

rows   == <<app, infra>>
cloud  == <<buckets, content, alive, enabled, origin, nextDist>>
actors == <<job, patch, del>>
ghosts == <<alone, orderly>>
vars   == <<app, infra, buckets, content, alive, enabled, origin, nextDist, job, patch,
            del, faults, alone, orderly>>

(***************************************************************************)
(* A deployment works from the row it read at the start; bucket and dist   *)
(* are what ensureDeploymentInfra settles on.  A patch carries the merged  *)
(* row it is going to write and the field it was asked to change.          *)
(***************************************************************************)
JobPC == {"idle", "read", "bucket", "dist", "upsert", "update", "build", "upload",
          "deployed", "failed"}
PatchPC == {"idle", "write", "infra_read", "infra_write", "done"}
DeletePC == {"idle", "read", "dist", "bucket", "rows"}
NewJob == [pc |-> "idle", app |-> None, bucket |-> None, dist |-> 0]
NewPatch == [pc |-> "idle", field |-> "none", app |-> None, dist |-> 0, site |-> 0]
NewDelete == [pc |-> "idle", bucket |-> None, dist |-> 0]

Init ==
  /\ app \in [name : Names, setting : Settings, site : {0}]
  /\ infra \in {None, [bucket |-> app.name, dist |-> 0, site |-> 0]}
  /\ buckets = {}
  /\ content = [b \in Names |-> "none"]
  /\ alive = {}
  /\ enabled = {}
  /\ origin = [d \in Dists |-> None]
  /\ nextDist = 1
  /\ job = [j \in Jobs |-> NewJob]
  /\ patch = [p \in Patches |-> NewPatch]
  /\ del = NewDelete
  /\ faults = 0
  /\ alone = {}
  /\ orderly = TRUE

Fault == faults < MaxFaults /\ faults' = faults + 1

Active ==
  {j \in Jobs : job[j].pc \notin {"idle", "deployed", "failed"}}
    \cup {p \in Patches : patch[p].pc \notin {"idle", "done"}}
    \cup (IF del.pc = "idle" THEN {} ELSE {"delete"})

\* Actor x begins.
Begin(x) ==
  /\ alone' = IF Active = {} THEN {x} ELSE {}
  /\ orderly' = (orderly /\ Active = {})

(***************************************************************************)
(* A deployment: the row is read when the deployment is requested, then    *)
(* ensureDeploymentInfra runs.  A failed read of the infra row counts as   *)
(* no row.                                                                 *)
(***************************************************************************)
StartDeployment(j) ==
  /\ job[j].pc = "idle" /\ app # None
  /\ job' = [job EXCEPT ![j].pc = "read", ![j].app = app]
  /\ Begin(j)
  /\ UNCHANGED <<rows, cloud, patch, del, faults>>

ReadInfra(j) ==
  /\ job[j].pc = "read"
  /\ \/ /\ infra # None /\ UNCHANGED faults
        /\ job' = [job EXCEPT ![j].pc = "bucket", ![j].bucket = infra.bucket,
                              ![j].dist = infra.dist]
     \/ /\ (infra = None /\ UNCHANGED faults) \/ Fault
        /\ job' = [job EXCEPT ![j].pc = "bucket", ![j].bucket = job[j].app.name]
  /\ UNCHANGED <<rows, cloud, patch, del, ghosts>>

\* The bucket is created if it is missing; the start page is put either way.
EnsureBucket(j) ==
  /\ job[j].pc = "bucket"
  /\ buckets' = buckets \cup {job[j].bucket}
  /\ \/ content' = [content EXCEPT ![job[j].bucket] = "placeholder"] /\ UNCHANGED faults
     \/ UNCHANGED content /\ Fault
  /\ job' = [job EXCEPT ![j].pc = "dist"]
  /\ UNCHANGED <<rows, alive, enabled, origin, nextDist, patch, del, ghosts>>

(***************************************************************************)
(* A recorded distribution that answers is kept; otherwise, also when the  *)
(* question itself fails, a new one is created in front of the bucket.     *)
(***************************************************************************)
KeepDistribution(j) ==
  /\ job[j].pc = "dist" /\ job[j].dist \in alive
  /\ job' = [job EXCEPT ![j].pc = "upsert"]
  /\ UNCHANGED <<rows, cloud, patch, del, faults, ghosts>>

\* Mutant: the id of the new distribution is not taken from the response.
CreateWithoutId(j) ==
  /\ job[j].pc = "dist" /\ nextDist \in Dists
  /\ (job[j].dist \notin alive /\ UNCHANGED faults) \/ Fault
  /\ alive' = alive \cup {nextDist}
  /\ enabled' = enabled \cup {nextDist}
  /\ origin' = [origin EXCEPT ![nextDist] = job[j].bucket]
  /\ nextDist' = nextDist + 1
  /\ job' = [job EXCEPT ![j].pc = "upsert"]
  /\ UNCHANGED <<rows, buckets, content, patch, del, ghosts>>

CreateDistribution(j) ==
  /\ job[j].pc = "dist" /\ nextDist \in Dists
  /\ (job[j].dist \notin alive /\ UNCHANGED faults) \/ Fault
  /\ alive' = alive \cup {nextDist}
  /\ enabled' = enabled \cup {nextDist}
  /\ origin' = [origin EXCEPT ![nextDist] = job[j].bucket]
  /\ nextDist' = nextDist + 1
  /\ job' = [job EXCEPT ![j].pc = "upsert", ![j].dist = nextDist]
  /\ UNCHANGED <<rows, buckets, content, patch, del, ghosts>>

\* Mutant: ON CONFLICT DO NOTHING.
UpsertKeepsOldRow(j) ==
  /\ job[j].pc = "upsert"
  /\ infra' = IF infra # None THEN infra
              ELSE [bucket |-> job[j].bucket, dist |-> job[j].dist, site |-> job[j].dist]
  /\ job' = [job EXCEPT ![j].pc = IF job[j].app.site = job[j].dist THEN "build" ELSE "update"]
  /\ UNCHANGED <<app, cloud, patch, del, faults, ghosts>>

\* Mutant: the application is only updated when it has no site yet.
UpsertForgetsNewSite(j) ==
  /\ job[j].pc = "upsert"
  /\ infra' = [bucket |-> job[j].bucket, dist |-> job[j].dist, site |-> job[j].dist]
  /\ job' = [job EXCEPT ![j].pc = IF job[j].app.site # 0 THEN "build" ELSE "update"]
  /\ UNCHANGED <<app, cloud, patch, del, faults, ghosts>>

UpsertAppInfraOutput(j) ==
  /\ job[j].pc = "upsert"
  /\ infra' = [bucket |-> job[j].bucket, dist |-> job[j].dist, site |-> job[j].dist]
  /\ job' = [job EXCEPT ![j].pc = IF job[j].app.site = job[j].dist THEN "build" ELSE "update"]
  /\ UNCHANGED <<app, cloud, patch, del, faults, ghosts>>

\* The whole row read at the start is written back with the new site.
UpdateAppForUser(j) ==
  /\ job[j].pc = "update" /\ app # None
  /\ app' = [job[j].app EXCEPT !.site = job[j].dist]
  /\ job' = [job EXCEPT ![j].pc = "build"]
  /\ UNCHANGED <<infra, cloud, patch, del, faults, ghosts>>

UpdateFindsNoApp(j) ==
  /\ job[j].pc = "update" /\ app = None
  /\ job' = [job EXCEPT ![j].pc = "failed"]
  /\ UNCHANGED <<rows, cloud, patch, del, faults, ghosts>>

\* Checkout, install and build; any of them may fail.
Build(j) ==
  /\ job[j].pc = "build"
  /\ \E pc \in {"upload", "failed"} : job' = [job EXCEPT ![j].pc = pc]
  /\ UNCHANGED <<rows, cloud, patch, del, faults, ghosts>>

\* The sync needs the bucket; the invalidation needs the distribution.
Upload(j) ==
  /\ job[j].pc = "upload"
  /\ IF job[j].bucket \in buckets
     THEN /\ content' = [content EXCEPT ![job[j].bucket] = j]
          /\ job' = [job EXCEPT ![j].pc = IF job[j].dist \in alive THEN "deployed" ELSE "failed"]
     ELSE UNCHANGED content /\ job' = [job EXCEPT ![j].pc = "failed"]
  /\ UNCHANGED <<rows, buckets, alive, enabled, origin, nextDist, patch, del, faults, ghosts>>

\* Any other call fails before it has an effect; the invalidation fails after the sync.
JobFails(j) ==
  /\ job[j].pc \in {"read", "bucket", "dist", "upsert", "update", "upload"}
  /\ Fault
  /\ job' = [job EXCEPT ![j].pc = "failed"]
  /\ \/ UNCHANGED content
     \/ job[j].pc = "upload" /\ job[j].bucket \in buckets
        /\ content' = [content EXCEPT ![job[j].bucket] = j]
  /\ UNCHANGED <<rows, buckets, alive, enabled, origin, nextDist, patch, del, ghosts>>

\* Mutant: the site of the earlier row is lost, as if the patch's body were the whole row.
ReadForPatchResetsSite(p) ==
  /\ patch[p].pc = "idle" /\ app # None
  /\ \E n \in Names \ {app.name} :
       patch' = [patch EXCEPT ![p] = [@ EXCEPT !.pc = "write", !.field = "name",
                                        !.app = [app EXCEPT !.name = n, !.site = 0]]]
  /\ Begin(p)
  /\ UNCHANGED <<rows, cloud, job, del, faults>>

(***************************************************************************)
(* PATCH /v1/apps/:id: the row is read and merged with the one field sent, *)
(* written as a whole, and then ensureAppInfraOutput reads the infra row   *)
(* and writes it back with the bucket name the new row makes.              *)
(***************************************************************************)
ReadForPatch(p) ==
  /\ patch[p].pc = "idle" /\ app # None
  /\ \/ \E n \in Names \ {app.name} :
          patch' = [patch EXCEPT ![p] =
                      [@ EXCEPT !.pc = "write", !.field = "name", !.app = [app EXCEPT !.name = n]]]
     \/ \E s \in Settings \ {app.setting} :
          patch' = [patch EXCEPT ![p] =
                      [@ EXCEPT !.pc = "write", !.field = "setting", !.app = [app EXCEPT !.setting = s]]]
  /\ Begin(p)
  /\ UNCHANGED <<rows, cloud, job, del, faults>>

\* GET /v1/apps/:id/infra-outputs fills in a missing row the same way.
ReadForOutputs(p) ==
  /\ patch[p].pc = "idle" /\ app # None /\ infra = None
  /\ patch' = [patch EXCEPT ![p].pc = "infra_read", ![p].app = app]
  /\ Begin(p)
  /\ UNCHANGED <<rows, cloud, job, del, faults>>

WritePatch(p) ==
  /\ patch[p].pc = "write"
  /\ IF app # None
     THEN app' = patch[p].app /\ patch' = [patch EXCEPT ![p].pc = "infra_read"]
     ELSE UNCHANGED app /\ patch' = [patch EXCEPT ![p].pc = "done"]
  /\ UNCHANGED <<infra, cloud, job, del, faults, ghosts>>

\* A failed read counts as no row.
PatchReadsInfra(p) ==
  /\ patch[p].pc = "infra_read"
  /\ \/ /\ infra # None /\ UNCHANGED faults
        /\ patch' = [patch EXCEPT ![p].pc = "infra_write", ![p].dist = infra.dist,
                       ![p].site = IF patch[p].app.site = 0 THEN infra.site ELSE patch[p].app.site]
     \/ /\ (infra = None /\ UNCHANGED faults) \/ Fault
        /\ patch' = [patch EXCEPT ![p].pc = "infra_write", ![p].site = patch[p].app.site]
  /\ UNCHANGED <<rows, cloud, job, del, ghosts>>

PatchWritesInfra(p) ==
  /\ patch[p].pc = "infra_write"
  /\ infra' = [bucket |-> patch[p].app.name, dist |-> patch[p].dist, site |-> patch[p].site]
  /\ patch' = [patch EXCEPT ![p].pc = "done"]
  /\ UNCHANGED <<app, cloud, job, del, faults, ghosts>>

\* The update fails, or the ignored refresh does.
PatchFails(p) ==
  /\ patch[p].pc \in {"write", "infra_write"} /\ Fault
  /\ patch' = [patch EXCEPT ![p].pc = "done"]
  /\ UNCHANGED <<rows, cloud, job, del, ghosts>>

(***************************************************************************)
(* DELETE /v1/apps/:id: teardown of what the infra row names, then of the  *)
(* rows.  A failure ends the request; it may be sent again.                *)
(***************************************************************************)
StartDelete ==
  /\ del.pc = "idle" /\ app # None
  /\ del' = [NewDelete EXCEPT !.pc = "read"]
  /\ Begin("delete")
  /\ UNCHANGED <<rows, cloud, job, patch, faults>>

TeardownReads ==
  /\ del.pc = "read"
  /\ del' = IF infra = None THEN [del EXCEPT !.pc = "rows"]
            ELSE [pc |-> "dist", bucket |-> infra.bucket, dist |-> infra.dist]
  /\ UNCHANGED <<rows, cloud, job, patch, faults, ghosts>>

\* CloudFront only deletes what is disabled, and disabling takes minutes.
DisableDistribution ==
  /\ del.pc = "dist" /\ del.dist \in enabled
  /\ enabled' = enabled \ {del.dist}
  /\ UNCHANGED <<rows, buckets, content, alive, origin, nextDist, actors, faults, ghosts>>

\* A distribution that is not there is as good as deleted.
DeleteDistribution ==
  /\ del.pc = "dist" /\ del.dist \notin enabled
  /\ alive' = alive \ {del.dist}
  /\ del' = [del EXCEPT !.pc = "bucket"]
  /\ UNCHANGED <<rows, buckets, content, enabled, origin, nextDist, job, patch, faults, ghosts>>

EmptyAndDeleteBucket ==
  /\ del.pc = "bucket"
  /\ buckets' = buckets \ {del.bucket}
  /\ content' = [content EXCEPT ![del.bucket] = "none"]
  /\ del' = [del EXCEPT !.pc = "rows"]
  /\ UNCHANGED <<rows, alive, enabled, origin, nextDist, job, patch, faults, ghosts>>

DeleteRows ==
  /\ del.pc = "rows"
  /\ app' = None /\ infra' = None
  /\ del' = NewDelete
  /\ UNCHANGED <<cloud, job, patch, faults, ghosts>>

\* The bucket may have been emptied by the time its deletion fails.
DeleteFails ==
  /\ del.pc # "idle" /\ Fault
  /\ del' = NewDelete
  /\ \/ UNCHANGED content
     \/ del.pc = "bucket" /\ content' = [content EXCEPT ![del.bucket] = "none"]
  /\ UNCHANGED <<rows, buckets, alive, enabled, origin, nextDist, job, patch, ghosts>>

\* Everything in flight is gone; rows and cloud stay.
Crash ==
  /\ Fault
  /\ job' = [j \in Jobs |-> IF j \in Active THEN [job[j] EXCEPT !.pc = "failed"] ELSE job[j]]
  /\ patch' = [p \in Patches |-> IF p \in Active THEN [patch[p] EXCEPT !.pc = "done"] ELSE patch[p]]
  /\ del' = NewDelete
  /\ UNCHANGED <<rows, cloud, ghosts>>

JobStep(j) ==
  \/ StartDeployment(j) \/ ReadInfra(j) \/ EnsureBucket(j)
  \/ KeepDistribution(j) \/ CreateDistribution(j) \/ UpsertAppInfraOutput(j)
  \/ UpdateAppForUser(j) \/ UpdateFindsNoApp(j) \/ Build(j) \/ Upload(j) \/ JobFails(j)

PatchStep(p) ==
  \/ ReadForPatch(p) \/ ReadForOutputs(p) \/ WritePatch(p) \/ PatchReadsInfra(p)
  \/ PatchWritesInfra(p) \/ PatchFails(p)

DeleteStep ==
  \/ StartDelete \/ TeardownReads \/ DisableDistribution \/ DeleteDistribution
  \/ EmptyAndDeleteBucket \/ DeleteRows \/ DeleteFails

Next ==
  \/ \E j \in Jobs : JobStep(j)
  \/ \E p \in Patches : PatchStep(p)
  \/ DeleteStep
  \/ Crash

Spec == Init /\ [][Next]_vars

-----------------------------------------------------------------------------
(***************************************************************************)
(* Properties.                                                             *)
(***************************************************************************)

Deployment == [pc : JobPC, app : App \cup {None}, bucket : Names \cup {None},
               dist : {0} \cup Dists]
Patching == [pc : PatchPC, field : {"none", "name", "setting"}, app : App \cup {None},
             dist : {0} \cup Dists, site : {0} \cup Dists]
Deleting == [pc : DeletePC, bucket : Names \cup {None}, dist : {0} \cup Dists]

\* A deployment that has begun holds a row; past ensureDeploymentInfra it has a distribution.
JobOK(q) ==
  /\ q.pc \in {"read", "bucket", "dist", "upsert", "update", "build", "upload", "deployed"} => q.app \in App
  /\ q.pc \in {"bucket", "dist", "upsert", "update", "build", "upload", "deployed"} => q.bucket \in Names
  /\ q.pc \in {"upsert", "update", "build", "upload", "deployed"} => q.dist \in Dists

PatchOK(q) == q.pc \in {"write", "infra_read", "infra_write"} => q.app \in App

\* Every variable has its type, and every actor past a read holds what it read.
TypeOK ==
  /\ app \in App \cup {None}
  /\ infra \in Infra \cup {None}
  /\ buckets \subseteq Names
  /\ content \in [Names -> {"none", "placeholder"} \cup Jobs]
  /\ alive \subseteq {d \in Dists : d < nextDist} /\ enabled \subseteq alive
  /\ origin \in [Dists -> Names \cup {None}]
  /\ nextDist \in 1 .. MaxDists + 1
  /\ job \in [Jobs -> Deployment] /\ \A j \in Jobs : JobOK(job[j])
  /\ patch \in [Patches -> Patching] /\ \A p \in Patches : PatchOK(patch[p])
  /\ del \in Deleting /\ (del.pc \in {"dist", "bucket"} => del.bucket \in Names)
  /\ faults \in 0 .. MaxFaults
  /\ alone \subseteq Jobs \cup Patches \cup {"delete"} /\ orderly \in BOOLEAN

(***************************************************************************)
(* Whatever overlaps, failures, half-finished deletions and crashes came   *)
(* before, a deployment that then runs alone to its end puts everything    *)
(* right: both rows name the distribution it reports, the distribution and *)
(* the bucket exist, and the bucket holds what it uploaded.                *)
(***************************************************************************)
UndisturbedDeployHeals ==
  \A j \in Jobs : job[j].pc = "deployed" /\ j \in alone =>
    /\ app # None /\ app.site = job[j].dist
    /\ infra = [bucket |-> job[j].bucket, dist |-> job[j].dist, site |-> job[j].dist]
    /\ job[j].dist \in alive
    /\ job[j].bucket \in buckets /\ content[job[j].bucket] = j

RecordedDist   == IF infra = None THEN {} ELSE {infra.dist}
RecordedBucket == IF infra = None THEN {} ELSE {infra.bucket}

(***************************************************************************)
(* As long as nothing overlapped and no call failed, no cloud resource     *)
(* escapes the infra row: between requests every distribution is the one   *)
(* recorded and, unless the application was renamed, so is every bucket.   *)
(* In particular nothing is left once the application is deleted.          *)
(***************************************************************************)
EverythingRecorded ==
  faults = 0 /\ orderly /\ Active = {} =>
    /\ alive \subseteq RecordedDist
    /\ (\A p \in Patches : patch[p].field # "name") => buckets \subseteq RecordedBucket

(***************************************************************************)
(* Deployments and patches both write back whole rows they read earlier.   *)
(* As long as no two actors were ever active together, that undoes         *)
(* nothing, failed calls and crashes included: a field only changes by a   *)
(* patch that was sent for it, and no write makes the site of the row name *)
(* another distribution than the one a deployment has settled on.          *)
(***************************************************************************)
OrderlyWritesKeepFields ==
  [][orderly /\ app # None /\ app' # None =>
       /\ app'.name # app.name => \E p \in Patches \cap Active : patch[p].field = "name"
       /\ app'.setting # app.setting => \E p \in Patches \cap Active : patch[p].field = "setting"
       /\ app'.site # app.site => \E j \in Jobs \cap Active : app'.site = job[j].dist]_vars

(***************************************************************************)
(* A bucket that exists but does not show a deployment has a cause: a      *)
(* deployment to it is between its start page and its upload or has failed *)
(* there, or a call failed that left the bucket without a page.            *)
(***************************************************************************)
EmptySiteHasACause ==
  \A b \in buckets :
    \/ content[b] \in Jobs
    \/ content[b] = "none" /\ faults > 0
    \/ \E j \in Jobs : /\ job[j].bucket = b
                       /\ job[j].pc \in {"dist", "upsert", "update", "build", "upload", "failed"}

(***************************************************************************)
(* What comments of the code say of it and the model refutes.              *)
(***************************************************************************)

(***************************************************************************)
(* deploy_infra_aws.go:27: ensureDeploymentInfra "creates them if they     *)
(* don't exist - idempotent so safe to call on every deploy".  With        *)
(* nothing in flight, a bucket that was deployed to would show some        *)
(* deployment, also when later ones fail to build.                         *)
(***************************************************************************)
FailedDeployKeepsSite ==
  Active = {} =>
    \A j \in Jobs : job[j].pc = "deployed" /\ job[j].bucket \in buckets =>
      content[job[j].bucket] \in Jobs

(***************************************************************************)
(* deploy_infra_aws.go:29: "reuse existing one if we already created it    *)
(* before".  What a deployment uploads would be what its site serves.      *)
(***************************************************************************)
ServesWhatItUploads ==
  \A j \in Jobs : job[j].pc = "deployed" => origin[job[j].dist] = job[j].bucket

(***************************************************************************)
(* deploy_teardown_aws.go:24: the teardown runs before the record goes "so *)
(* we don't leave orphaned aws resources".                                 *)
(***************************************************************************)
NothingLeftBehind ==
  app = None /\ Active = {} => buckets = {} /\ alive = {}
=============================================================================
