--------------------------- MODULE DeployInfraProofs ---------------------------
(***************************************************************************)
(* Proofs about DeployInfra, for any deployments, patches, names and       *)
(* bounds.                                                                 *)
(***************************************************************************)
EXTENDS DeployInfra, TLAPS

-----------------------------------------------------------------------------
(***************************************************************************)
(* The types.                                                              *)
(***************************************************************************)
LEMMA FaultTypes ==
  ASSUME TypeOK, Fault PROVE faults' \in 0 .. MaxFaults /\ faults' # 0
BY InfraAssumption DEF TypeOK, Fault

LEMMA InitTypes == Init => TypeOK
BY InfraAssumption DEF Init, TypeOK, App, Infra, Dists, Deployment, Patching, Deleting,
   JobPC, PatchPC, DeletePC, NewJob, NewPatch, NewDelete, JobOK, PatchOK

LEMMA BeginTypes ==
  ASSUME TypeOK, NEW x \in Jobs \cup Patches \cup {"delete"}, Begin(x)
  PROVE  alone' \subseteq Jobs \cup Patches \cup {"delete"} /\ orderly' \in BOOLEAN
BY DEF TypeOK, Begin

\* The part of TypeOK that a deployment changes, and the part it does not.
JobTypes == job \in [Jobs -> Deployment] /\ \A j \in Jobs : JobOK(job[j])
PatchTypes == patch \in [Patches -> Patching] /\ \A p \in Patches : PatchOK(patch[p])
DeleteTypes == del \in Deleting /\ (del.pc \in {"dist", "bucket"} => del.bucket \in Names)
RowTypes == app \in App \cup {None} /\ infra \in Infra \cup {None}
CloudTypes ==
  /\ buckets \subseteq Names
  /\ content \in [Names -> {"none", "placeholder"} \cup Jobs]
  /\ alive \subseteq {d \in Dists : d < nextDist} /\ enabled \subseteq alive
  /\ origin \in [Dists -> Names \cup {None}]
  /\ nextDist \in 1 .. MaxDists + 1
GhostTypes == alone \subseteq Jobs \cup Patches \cup {"delete"} /\ orderly \in BOOLEAN

LEMMA TypeParts ==
  TypeOK <=> /\ RowTypes /\ CloudTypes /\ JobTypes /\ PatchTypes /\ DeleteTypes
             /\ faults \in 0 .. MaxFaults /\ GhostTypes
BY DEF TypeOK, RowTypes, CloudTypes, JobTypes, PatchTypes, DeleteTypes, GhostTypes

LEMMA TypePartsNext ==
  TypeOK' <=> /\ RowTypes' /\ CloudTypes' /\ JobTypes' /\ PatchTypes' /\ DeleteTypes'
              /\ faults' \in 0 .. MaxFaults /\ GhostTypes'
BY DEF TypeOK, RowTypes, CloudTypes, JobTypes, PatchTypes, DeleteTypes, GhostTypes

\* What is not touched keeps its types.
LEMMA SameTypes ==
  ASSUME TypeOK
  PROVE  /\ UNCHANGED rows => RowTypes'
         /\ UNCHANGED cloud => CloudTypes'
         /\ UNCHANGED job => JobTypes'
         /\ UNCHANGED patch => PatchTypes'
         /\ UNCHANGED del => DeleteTypes'
         /\ UNCHANGED ghosts => GhostTypes'
         /\ UNCHANGED faults \/ Fault => faults' \in 0 .. MaxFaults
<1> USE DEF TypeOK
<1>1. UNCHANGED rows => RowTypes'
  BY DEF rows, RowTypes
<1>2. UNCHANGED cloud => CloudTypes'
  BY DEF cloud, CloudTypes
<1>3. UNCHANGED job => JobTypes'
  BY DEF JobTypes
<1>4. UNCHANGED patch => PatchTypes'
  BY DEF PatchTypes
<1>5. UNCHANGED del => DeleteTypes'
  BY DEF DeleteTypes
<1>6. UNCHANGED ghosts => GhostTypes'
  BY DEF ghosts, GhostTypes
<1>7. UNCHANGED faults \/ Fault => faults' \in 0 .. MaxFaults
  BY FaultTypes
<1> QED BY <1>1, <1>2, <1>3, <1>4, <1>5, <1>6, <1>7

LEMMA JobStepTypes ==
  ASSUME TypeOK, NEW j \in Jobs, JobStep(j) PROVE TypeOK'
<1> SUFFICES RowTypes' /\ CloudTypes' /\ JobTypes' /\ PatchTypes' /\ DeleteTypes'
             /\ faults' \in 0 .. MaxFaults /\ GhostTypes'
  BY TypePartsNext
<1>0. RowTypes /\ CloudTypes /\ JobTypes /\ PatchTypes /\ DeleteTypes
      /\ faults \in 0 .. MaxFaults /\ GhostTypes
  BY TypeParts
<1>1. CASE StartDeployment(j)
  <2>1. JobTypes'
    BY <1>0, <1>1 DEF StartDeployment, JobTypes, RowTypes, Deployment, JobPC, JobOK
  <2>2. GhostTypes'
    BY <1>1, BeginTypes DEF StartDeployment, GhostTypes
  <2> QED BY <1>1, <2>1, <2>2, SameTypes DEF StartDeployment
<1>2. CASE ReadInfra(j)
  <2>1. JobTypes'
    BY <1>0, <1>2, InfraAssumption DEF ReadInfra, JobTypes, RowTypes, Deployment, JobPC, JobOK, App, Infra
  <2> QED BY <1>2, <2>1, SameTypes DEF ReadInfra
<1>3. CASE EnsureBucket(j)
  <2>1. JobTypes'
    BY <1>0, <1>3 DEF EnsureBucket, JobTypes, Deployment, JobPC, JobOK
  <2>2. CloudTypes'
    BY <1>0, <1>3 DEF EnsureBucket, JobTypes, CloudTypes, JobOK
  <2> QED BY <1>3, <2>1, <2>2, SameTypes DEF EnsureBucket
<1>4. CASE KeepDistribution(j)
  <2>1. JobTypes'
    BY <1>0, <1>4 DEF KeepDistribution, JobTypes, CloudTypes, Deployment, JobPC, JobOK
  <2> QED BY <1>4, <2>1, SameTypes DEF KeepDistribution
<1>5. CASE CreateDistribution(j)
  <2>1. JobTypes'
    BY <1>0, <1>5 DEF CreateDistribution, JobTypes, Deployment, JobPC, JobOK
  <2>2. CloudTypes'
    BY <1>0, <1>5, InfraAssumption DEF CreateDistribution, JobTypes, CloudTypes, JobOK, Dists
  <2> QED BY <1>5, <2>1, <2>2, SameTypes DEF CreateDistribution
<1>6. CASE UpsertAppInfraOutput(j)
  <2>1. JobTypes'
    BY <1>0, <1>6 DEF UpsertAppInfraOutput, JobTypes, Deployment, JobPC, JobOK
  <2>2. RowTypes'
    BY <1>0, <1>6 DEF UpsertAppInfraOutput, JobTypes, RowTypes, JobOK, Infra
  <2> QED BY <1>6, <2>1, <2>2, SameTypes DEF UpsertAppInfraOutput
<1>7. CASE UpdateAppForUser(j)
  <2>1. JobTypes'
    BY <1>0, <1>7 DEF UpdateAppForUser, JobTypes, Deployment, JobPC, JobOK
  <2>2. RowTypes'
    BY <1>0, <1>7 DEF UpdateAppForUser, JobTypes, RowTypes, JobOK, App
  <2> QED BY <1>7, <2>1, <2>2, SameTypes DEF UpdateAppForUser
<1>8. CASE UpdateFindsNoApp(j)
  <2>1. JobTypes'
    BY <1>0, <1>8 DEF UpdateFindsNoApp, JobTypes, Deployment, JobPC, JobOK
  <2> QED BY <1>8, <2>1, SameTypes DEF UpdateFindsNoApp
<1>9. CASE Build(j)
  <2>1. JobTypes'
    BY <1>0, <1>9 DEF Build, JobTypes, Deployment, JobPC, JobOK
  <2> QED BY <1>9, <2>1, SameTypes DEF Build
<1>10. CASE Upload(j)
  <2>1. JobTypes'
    BY <1>0, <1>10 DEF Upload, JobTypes, Deployment, JobPC, JobOK
  <2>2. CloudTypes'
    BY <1>0, <1>10 DEF Upload, JobTypes, CloudTypes
  <2> QED BY <1>10, <2>1, <2>2, SameTypes DEF Upload
<1>11. CASE JobFails(j)
  <2>1. JobTypes'
    BY <1>0, <1>11 DEF JobFails, JobTypes, Deployment, JobPC, JobOK
  <2>2. CloudTypes'
    BY <1>0, <1>11 DEF JobFails, JobTypes, CloudTypes
  <2> QED BY <1>11, <2>1, <2>2, SameTypes DEF JobFails
<1> QED BY <1>1, <1>2, <1>3, <1>4, <1>5, <1>6, <1>7, <1>8, <1>9, <1>10, <1>11 DEF JobStep

\* A patch is going to write the row it read with one field changed.
LEMMA MergedRow ==
  ASSUME TypeOK, NEW p \in Patches, ReadForPatch(p)
  PROVE  \E f \in {"name", "setting"}, a \in App :
           /\ patch' = [patch EXCEPT ![p] = [@ EXCEPT !.pc = "write", !.field = f, !.app = a]]
           /\ a.site = app.site
           /\ a.name = app.name \/ f = "name"
           /\ a.setting = app.setting \/ f = "setting"
<1>1. app \in App
  BY DEF TypeOK, ReadForPatch
<1>2. CASE \E n \in Names :
             patch' = [patch EXCEPT ![p] = [@ EXCEPT !.pc = "write", !.field = "name",
                                                     !.app = [app EXCEPT !.name = n]]]
  <2>1. PICK n \in Names :
          patch' = [patch EXCEPT ![p] = [@ EXCEPT !.pc = "write", !.field = "name",
                                                  !.app = [app EXCEPT !.name = n]]]
    BY <1>2, Zenon
  <2> DEFINE a == [app EXCEPT !.name = n]
  <2>2. a \in App /\ a.site = app.site /\ a.setting = app.setting
    BY <1>1 DEF App
  <2>3. patch' = [patch EXCEPT ![p] = [@ EXCEPT !.pc = "write", !.field = "name", !.app = a]]
    BY <2>1, Zenon
  <2> HIDE DEF a
  <2> QED BY <2>2, <2>3, Zenon
<1>3. CASE \E s \in Settings :
             patch' = [patch EXCEPT ![p] = [@ EXCEPT !.pc = "write", !.field = "setting",
                                                     !.app = [app EXCEPT !.setting = s]]]
  <2>1. PICK s \in Settings :
          patch' = [patch EXCEPT ![p] = [@ EXCEPT !.pc = "write", !.field = "setting",
                                                  !.app = [app EXCEPT !.setting = s]]]
    BY <1>3, Zenon
  <2> DEFINE a == [app EXCEPT !.setting = s]
  <2>2. a \in App /\ a.site = app.site /\ a.name = app.name
    BY <1>1 DEF App
  <2>3. patch' = [patch EXCEPT ![p] = [@ EXCEPT !.pc = "write", !.field = "setting", !.app = a]]
    BY <2>1, Zenon
  <2> HIDE DEF a
  <2> QED BY <2>2, <2>3, Zenon
<1> QED BY <1>2, <1>3, Zenon DEF ReadForPatch

LEMMA PatchStepTypes ==
  ASSUME TypeOK, NEW p \in Patches, PatchStep(p) PROVE TypeOK'
<1> SUFFICES RowTypes' /\ CloudTypes' /\ JobTypes' /\ PatchTypes' /\ DeleteTypes'
             /\ faults' \in 0 .. MaxFaults /\ GhostTypes'
  BY TypePartsNext
<1>0. RowTypes /\ CloudTypes /\ JobTypes /\ PatchTypes /\ DeleteTypes
      /\ faults \in 0 .. MaxFaults /\ GhostTypes
  BY TypeParts
<1>1. CASE ReadForPatch(p)
  <2>1. PICK f \in {"name", "setting"}, a \in App :
          patch' = [patch EXCEPT ![p] = [@ EXCEPT !.pc = "write", !.field = f, !.app = a]]
    BY <1>1, MergedRow
  <2>2. PatchTypes'
    BY <1>0, <2>1 DEF PatchTypes, Patching, PatchPC, PatchOK
  <2>3. GhostTypes'
    BY <1>1, BeginTypes DEF ReadForPatch, GhostTypes
  <2> QED BY <1>1, <2>2, <2>3, SameTypes DEF ReadForPatch
<1>2. CASE ReadForOutputs(p)
  <2>1. PatchTypes'
    BY <1>0, <1>2 DEF ReadForOutputs, PatchTypes, RowTypes, Patching, PatchPC, PatchOK
  <2>2. GhostTypes'
    BY <1>2, BeginTypes DEF ReadForOutputs, GhostTypes
  <2> QED BY <1>2, <2>1, <2>2, SameTypes DEF ReadForOutputs
<1>3. CASE WritePatch(p)
  <2>1. PatchTypes'
    BY <1>0, <1>3 DEF WritePatch, PatchTypes, Patching, PatchPC, PatchOK
  <2>2. RowTypes'
    BY <1>0, <1>3 DEF WritePatch, PatchTypes, RowTypes, PatchOK
  <2> QED BY <1>3, <2>1, <2>2, SameTypes DEF WritePatch
<1>4. CASE PatchReadsInfra(p)
  <2>1. PatchTypes'
    BY <1>0, <1>4 DEF PatchReadsInfra, PatchTypes, RowTypes, Patching, PatchPC, PatchOK, App, Infra
  <2> QED BY <1>4, <2>1, SameTypes DEF PatchReadsInfra
<1>5. CASE PatchWritesInfra(p)
  <2>1. PatchTypes'
    BY <1>0, <1>5 DEF PatchWritesInfra, PatchTypes, Patching, PatchPC, PatchOK
  <2>2. RowTypes'
    BY <1>0, <1>5 DEF PatchWritesInfra, PatchTypes, RowTypes, PatchOK, Patching, App, Infra
  <2> QED BY <1>5, <2>1, <2>2, SameTypes DEF PatchWritesInfra
<1>6. CASE PatchFails(p)
  <2>1. PatchTypes'
    BY <1>0, <1>6 DEF PatchFails, PatchTypes, Patching, PatchPC, PatchOK
  <2> QED BY <1>6, <2>1, SameTypes DEF PatchFails
<1> QED BY <1>1, <1>2, <1>3, <1>4, <1>5, <1>6 DEF PatchStep

LEMMA DeleteStepTypes == TypeOK /\ DeleteStep => TypeOK'
<1> SUFFICES ASSUME TypeOK, DeleteStep
             PROVE  RowTypes' /\ CloudTypes' /\ JobTypes' /\ PatchTypes' /\ DeleteTypes'
                    /\ faults' \in 0 .. MaxFaults /\ GhostTypes'
  BY TypePartsNext
<1>0. RowTypes /\ CloudTypes /\ JobTypes /\ PatchTypes /\ DeleteTypes
      /\ faults \in 0 .. MaxFaults /\ GhostTypes
  BY TypeParts
<1>n. ASSUME del' = NewDelete PROVE DeleteTypes'
  BY <1>n DEF NewDelete, DeleteTypes, Deleting, DeletePC
<1>1. CASE StartDelete
  <2>1. DeleteTypes'
    BY <1>1 DEF StartDelete, DeleteTypes, Deleting, DeletePC, NewDelete
  <2>2. GhostTypes'
    BY <1>1, BeginTypes DEF StartDelete, GhostTypes
  <2> QED BY <1>1, <2>1, <2>2, SameTypes DEF StartDelete
<1>2. CASE TeardownReads
  <2>1. DeleteTypes'
    BY <1>0, <1>2 DEF TeardownReads, DeleteTypes, RowTypes, Deleting, DeletePC, Infra
  <2> QED BY <1>2, <2>1, SameTypes DEF TeardownReads
<1>3. CASE DisableDistribution
  <2>1. CloudTypes'
    BY <1>0, <1>3 DEF DisableDistribution, CloudTypes
  <2> QED BY <1>3, <2>1, SameTypes DEF DisableDistribution, actors
<1>4. CASE DeleteDistribution
  <2>1. DeleteTypes'
    BY <1>0, <1>4 DEF DeleteDistribution, DeleteTypes, Deleting, DeletePC
  <2>2. CloudTypes'
    BY <1>0, <1>4 DEF DeleteDistribution, CloudTypes
  <2> QED BY <1>4, <2>1, <2>2, SameTypes DEF DeleteDistribution
<1>5. CASE EmptyAndDeleteBucket
  <2>1. DeleteTypes'
    BY <1>0, <1>5 DEF EmptyAndDeleteBucket, DeleteTypes, Deleting, DeletePC
  <2>2. CloudTypes'
    BY <1>0, <1>5 DEF EmptyAndDeleteBucket, CloudTypes
  <2> QED BY <1>5, <2>1, <2>2, SameTypes DEF EmptyAndDeleteBucket
<1>6. CASE DeleteRows
  <2>1. RowTypes'
    BY <1>6 DEF DeleteRows, RowTypes
  <2> QED BY <1>6, <1>n, <2>1, SameTypes DEF DeleteRows
<1>7. CASE DeleteFails
  <2>1. CloudTypes'
    BY <1>0, <1>7 DEF DeleteFails, CloudTypes
  <2> QED BY <1>7, <1>n, <2>1, SameTypes DEF DeleteFails
<1> QED BY <1>1, <1>2, <1>3, <1>4, <1>5, <1>6, <1>7 DEF DeleteStep

LEMMA CrashTypes == TypeOK /\ Crash => TypeOK'
<1> SUFFICES ASSUME TypeOK, Crash
             PROVE  RowTypes' /\ CloudTypes' /\ JobTypes' /\ PatchTypes' /\ DeleteTypes'
                    /\ faults' \in 0 .. MaxFaults /\ GhostTypes'
  BY TypePartsNext
<1>1. JobTypes'
  BY TypeParts DEF Crash, JobTypes, Deployment, JobPC, JobOK
<1>2. PatchTypes'
  BY TypeParts DEF Crash, PatchTypes, Patching, PatchPC, PatchOK
<1>3. DeleteTypes'
  BY DEF Crash, NewDelete, DeleteTypes, Deleting, DeletePC
<1> QED BY <1>1, <1>2, <1>3, SameTypes DEF Crash

LEMMA TypeStep == TypeOK /\ [Next]_vars => TypeOK'
<1>1. TypeOK /\ UNCHANGED vars => TypeOK'
  BY DEF TypeOK, vars
<1> QED BY <1>1, JobStepTypes, PatchStepTypes, DeleteStepTypes, CrashTypes DEF Next

(***************************************************************************)
(* Every variable has its type, and every actor past a read holds what it  *)
(* read.                                                                   *)
(***************************************************************************)
THEOREM TypeCorrect == Spec => []TypeOK
BY InitTypes, TypeStep, PTL DEF Spec

-----------------------------------------------------------------------------
(***************************************************************************)
(* Who is active, and what a step changes of it.                           *)
(***************************************************************************)
Busy == {"read", "bucket", "dist", "upsert", "update", "build", "upload"}

LEMMA ActiveJobs ==
  ASSUME TypeOK, NEW j \in Jobs
  PROVE  /\ j \in Active <=> job[j].pc \in Busy
         /\ job[j].pc \in Busy \cup {"idle", "deployed", "failed"}
BY InfraAssumption DEF TypeOK, Active, Deployment, JobPC, Busy

LEMMA ActivePatches ==
  ASSUME TypeOK, NEW p \in Patches
  PROVE  /\ p \in Active <=> patch[p].pc \in {"write", "infra_read", "infra_write"}
         /\ patch[p].pc \in {"write", "infra_read", "infra_write", "idle", "done"}
BY InfraAssumption DEF TypeOK, Active, Patching, PatchPC

LEMMA ActiveDelete ==
  ASSUME TypeOK PROVE "delete" \in Active <=> del.pc # "idle"
BY InfraAssumption DEF Active

\* The same of the next state.
LEMMA ActiveJobsNext ==
  ASSUME TypeOK', NEW j \in Jobs PROVE j \in Active' <=> job'[j].pc \in Busy
BY InfraAssumption DEF TypeOK, Active, Deployment, JobPC, Busy

LEMMA ActivePatchesNext ==
  ASSUME TypeOK', NEW p \in Patches
  PROVE  p \in Active' <=> patch'[p].pc \in {"write", "infra_read", "infra_write"}
BY InfraAssumption DEF TypeOK, Active, Patching, PatchPC

LEMMA ActiveDeleteNext == "delete" \in Active' <=> del'.pc # "idle"
BY InfraAssumption DEF Active

LEMMA ActiveActorsNext == Active' \subseteq Jobs \cup Patches \cup {"delete"}
BY DEF Active

\* Actor x takes the step: it began just now, or was active and goes on or ends.
Moves(x) ==
  /\ \/ x \notin Active /\ Begin(x)
     \/ x \in Active /\ UNCHANGED ghosts
  /\ Active' \subseteq Active \cup {x}

LEMMA JobMoves ==
  ASSUME TypeOK, TypeOK', NEW j \in Jobs, JobStep(j)
  PROVE  Moves(j) /\ UNCHANGED <<patch, del>> /\ \A k \in Jobs \ {j} : job'[k] = job[k]
<1>1. UNCHANGED <<patch, del>>
  BY DEF JobStep, StartDeployment, ReadInfra, EnsureBucket, KeepDistribution,
     CreateDistribution, UpsertAppInfraOutput, UpdateAppForUser, UpdateFindsNoApp, Build,
     Upload, JobFails
<1>2. \A k \in Jobs \ {j} : job'[k] = job[k]
  <2>1. \E q : job' = [job EXCEPT ![j] = q]
    BY SMTT(30) DEF JobStep, StartDeployment, ReadInfra, EnsureBucket, KeepDistribution,
       CreateDistribution, UpsertAppInfraOutput, UpdateAppForUser, UpdateFindsNoApp, Build,
       Upload, JobFails
  <2> QED BY <2>1 DEF TypeOK
<1> SUFFICES Moves(j)
  BY <1>1, <1>2
<1>3. Active' \subseteq Active \cup {j}
  BY <1>1, <1>2, ActiveJobs, ActivePatches, ActiveDelete, ActiveJobsNext,
     ActivePatchesNext, ActiveDeleteNext, ActiveActorsNext
<1>4. CASE StartDeployment(j)
  <2>1. job[j].pc = "idle" /\ Begin(j)
    BY <1>4 DEF StartDeployment
  <2> QED BY <1>3, <2>1, ActiveJobs DEF Moves, Busy
<1>5. CASE ~StartDeployment(j)
  <2>1. job[j].pc \in Busy /\ UNCHANGED ghosts
    BY <1>5 DEF JobStep, ReadInfra, EnsureBucket, KeepDistribution,
       CreateDistribution, UpsertAppInfraOutput, UpdateAppForUser, UpdateFindsNoApp, Build,
       Upload, JobFails, Busy
  <2> QED BY <1>3, <2>1, ActiveJobs DEF Moves
<1> QED BY <1>1, <1>2, <1>4, <1>5

LEMMA PatchMoves ==
  ASSUME TypeOK, TypeOK', NEW p \in Patches, PatchStep(p)
  PROVE  /\ Moves(p) /\ UNCHANGED <<job, del, buckets, content, alive>>
         /\ \A k \in Patches \ {p} : patch'[k] = patch[k]
<1>1. UNCHANGED <<job, del, buckets, content, alive>>
  BY DEF PatchStep, ReadForPatch, ReadForOutputs, WritePatch, PatchReadsInfra,
     PatchWritesInfra, PatchFails, cloud
<1>2. \A k \in Patches \ {p} : patch'[k] = patch[k]
  <2>1. CASE ReadForPatch(p)
    <3>1. PICK f \in {"name", "setting"}, a \in App :
            patch' = [patch EXCEPT ![p] = [@ EXCEPT !.pc = "write", !.field = f, !.app = a]]
      BY <2>1, MergedRow
    <3> DEFINE q == [patch[p] EXCEPT !.pc = "write", !.field = f, !.app = a]
    <3>2. patch' = [patch EXCEPT ![p] = q]
      BY <3>1, Zenon
    <3> HIDE DEF q
    <3> QED BY <3>2 DEF TypeOK
  <2>2. CASE ~ReadForPatch(p)
    BY <2>2 DEF TypeOK, PatchStep, ReadForOutputs, WritePatch, PatchReadsInfra,
       PatchWritesInfra, PatchFails
  <2> QED BY <2>1, <2>2
<1> SUFFICES Moves(p)
  BY <1>1, <1>2
<1>3. Active' \subseteq Active \cup {p}
  BY <1>1, <1>2, ActiveJobs, ActivePatches, ActiveDelete, ActiveJobsNext,
     ActivePatchesNext, ActiveDeleteNext, ActiveActorsNext
<1>4. CASE ReadForPatch(p) \/ ReadForOutputs(p)
  <2>1. patch[p].pc = "idle" /\ Begin(p)
    BY <1>4, Zenon DEF ReadForPatch, ReadForOutputs
  <2> QED BY <1>3, <2>1, ActivePatches DEF Moves
<1>5. CASE ~(ReadForPatch(p) \/ ReadForOutputs(p))
  <2>1. patch[p].pc \in {"write", "infra_read", "infra_write"} /\ UNCHANGED ghosts
    BY <1>5 DEF PatchStep, WritePatch, PatchReadsInfra, PatchWritesInfra, PatchFails
  <2> QED BY <1>3, <2>1, ActivePatches DEF Moves
<1> QED BY <1>1, <1>2, <1>4, <1>5

LEMMA DeleteMoves ==
  ASSUME TypeOK, TypeOK', DeleteStep PROVE Moves("delete") /\ UNCHANGED <<job, patch>>
<1>1. UNCHANGED <<job, patch>>
  BY DEF DeleteStep, StartDelete, TeardownReads, DisableDistribution, DeleteDistribution,
     EmptyAndDeleteBucket, DeleteRows, DeleteFails, actors
<1> SUFFICES Moves("delete")
  BY <1>1
<1>2. Active' \subseteq Active \cup {"delete"}
  BY <1>1, ActiveJobs, ActivePatches, ActiveJobsNext, ActivePatchesNext, ActiveActorsNext
<1>3. CASE StartDelete
  <2>1. del.pc = "idle" /\ Begin("delete")
    BY <1>3 DEF StartDelete
  <2> QED BY <1>2, <2>1, ActiveDelete DEF Moves
<1>4. CASE ~StartDelete
  <2>1. del.pc # "idle" /\ UNCHANGED ghosts
    BY <1>4 DEF DeleteStep, TeardownReads, DisableDistribution, DeleteDistribution,
       EmptyAndDeleteBucket, DeleteRows, DeleteFails
  <2> QED BY <1>2, <2>1, ActiveDelete DEF Moves
<1> QED BY <1>1, <1>3, <1>4

LEMMA CrashEnds ==
  ASSUME TypeOK, TypeOK', Crash
  PROVE  /\ Active' = {} /\ UNCHANGED <<rows, cloud, ghosts>> /\ faults' # 0
         /\ \A j \in Jobs : job'[j] = job[j] \/ job'[j].pc = "failed"
         /\ \A p \in Patches : patch'[p].pc \in {"idle", "done"} /\ patch'[p].field = patch[p].field
<1>1. \A j \in Jobs : (job'[j] = job[j] /\ j \notin Active) \/ job'[j].pc = "failed"
  BY DEF Crash, TypeOK, Deployment
<1>2. \A p \in Patches : patch'[p].pc \in {"idle", "done"} /\ patch'[p].field = patch[p].field
  <2> SUFFICES ASSUME NEW p \in Patches
               PROVE  patch'[p].pc \in {"idle", "done"} /\ patch'[p].field = patch[p].field
    OBVIOUS
  <2> QED BY ActivePatches DEF Crash, TypeOK, Patching
<1>3. \A j \in Jobs : j \notin Active'
  BY <1>1, ActiveJobs, ActiveJobsNext DEF Busy
<1>4. del'.pc = "idle"
  BY DEF Crash, NewDelete
<1>5. Active' = {}
  BY <1>2, <1>3, <1>4, ActivePatchesNext, ActiveDeleteNext, ActiveActorsNext
<1> QED BY <1>1, <1>2, <1>5, FaultTypes DEF Crash

\* Every step is a step of one actor, a crash, or none.
LEMMA SomebodyMoves ==
  ASSUME [Next]_vars
  PROVE  \/ \E j \in Jobs : JobStep(j)
         \/ \E p \in Patches : PatchStep(p)
         \/ DeleteStep
         \/ Crash
         \/ UNCHANGED vars
BY DEF Next

-----------------------------------------------------------------------------
(***************************************************************************)
(* What the histories are for: nobody is active besides an actor in alone, *)
(* and while orderly there is one active actor at most.                    *)
(***************************************************************************)
AloneIsAlone == \A x \in alone : Active \subseteq {x}
OneAtATime == orderly => \A x, y \in Active : x = y
Sole == AloneIsAlone /\ OneAtATime

LEMMA SoleMoves ==
  ASSUME TypeOK, Sole, NEW x, Moves(x)
  PROVE  Sole' /\ alone' \subseteq {x} /\ (orderly' => orderly /\ Active \subseteq {x})
<1>1. alone' \subseteq {x} /\ (alone' # {} => Active \subseteq {x})
  BY DEF Sole, AloneIsAlone, Moves, Begin, ghosts
<1>2. orderly' => orderly /\ Active \subseteq {x}
  BY DEF TypeOK, Sole, OneAtATime, Moves, Begin, ghosts
<1>3. Active' \subseteq Active \cup {x}
  BY DEF Moves
<1>4. AloneIsAlone'
  BY <1>1, <1>3 DEF AloneIsAlone
<1>5. OneAtATime'
  BY <1>2, <1>3 DEF OneAtATime
<1> QED BY <1>1, <1>2, <1>4, <1>5 DEF Sole

LEMMA SoleStep == TypeOK /\ TypeOK' /\ Sole /\ [Next]_vars => Sole'
<1> SUFFICES ASSUME TypeOK, TypeOK', Sole, [Next]_vars PROVE Sole'
  OBVIOUS
<1>1. CASE Crash
  BY <1>1, CrashEnds DEF Sole, AloneIsAlone, OneAtATime
<1>2. CASE UNCHANGED vars
  BY <1>2 DEF Sole, AloneIsAlone, OneAtATime, Active, vars
<1> QED BY <1>1, <1>2, SomebodyMoves, JobMoves, PatchMoves, DeleteMoves, SoleMoves

-----------------------------------------------------------------------------
(***************************************************************************)
(* A deployment that is alone.                                             *)
(***************************************************************************)

\* What a deployment that is alone knows at each point.
Sound(j) ==
  LET q == job[j] IN
    /\ q.pc \in {"read", "bucket", "dist", "upsert", "update"} => app = q.app
    /\ q.pc \in {"dist", "upsert", "update", "build", "upload", "deployed"} => q.bucket \in buckets
    /\ q.pc \in {"upsert", "update", "build", "upload", "deployed"} => q.dist \in alive
    /\ q.pc \in {"update", "build", "upload", "deployed"} =>
         infra = [bucket |-> q.bucket, dist |-> q.dist, site |-> q.dist]
    /\ q.pc \in {"build", "upload", "deployed"} => app # None /\ app.site = q.dist
    /\ q.pc = "deployed" => content[q.bucket] = j

AloneIsSound == \A j \in Jobs \cap alone : Sound(j)

LEMMA SoundStep ==
  ASSUME TypeOK, NEW j \in Jobs, Sound(j) \/ StartDeployment(j), JobStep(j)
  PROVE  Sound(j)'
<1>0. /\ job \in [Jobs -> Deployment] /\ JobOK(job[j]) /\ job[j].dist \in {0} \cup Dists
      /\ content \in [Names -> {"none", "placeholder"} \cup Jobs]
      /\ None \notin App
      /\ \A a \in App : [a EXCEPT !.site = job[j].dist].site = job[j].dist
                        /\ [a EXCEPT !.site = job[j].dist] # None
  BY InfraAssumption DEF TypeOK, Deployment, App
<1>1. CASE StartDeployment(j)
  BY <1>0, <1>1 DEF StartDeployment, Sound, Deployment, rows
<1>2. CASE ReadInfra(j)
  <2>1. Sound(j) /\ job[j].pc = "read" /\ job'[j].pc = "bucket" /\ job'[j].app = job[j].app
        /\ app' = app
    BY <1>0, <1>2 DEF ReadInfra, StartDeployment, Deployment, rows
  <2> QED BY <2>1 DEF Sound
<1>3. CASE EnsureBucket(j)
  <2>1. Sound(j) /\ job[j].pc = "bucket" /\ job' = [job EXCEPT ![j].pc = "dist"]
        /\ app' = app /\ job[j].bucket \in buckets'
    BY <1>3 DEF EnsureBucket, StartDeployment, rows
  <2> QED BY <1>0, <2>1 DEF Sound, Deployment
<1>4. CASE KeepDistribution(j)
  <2>1. Sound(j) /\ job[j].pc = "dist" /\ job' = [job EXCEPT ![j].pc = "upsert"]
        /\ app' = app /\ buckets' = buckets /\ alive' = alive /\ job[j].dist \in alive
    BY <1>4 DEF KeepDistribution, StartDeployment, rows, cloud
  <2> QED BY <1>0, <2>1 DEF Sound, Deployment
<1>5. CASE CreateDistribution(j)
  <2>1. Sound(j) /\ job[j].pc = "dist"
        /\ job' = [job EXCEPT ![j].pc = "upsert", ![j].dist = nextDist]
        /\ app' = app /\ buckets' = buckets /\ nextDist \in alive'
    BY <1>5 DEF CreateDistribution, StartDeployment, rows
  <2> QED BY <1>0, <2>1 DEF Sound, Deployment
<1>6. CASE UpsertAppInfraOutput(j)
  <2>1. Sound(j) /\ job[j].pc = "upsert"
        /\ job' = [job EXCEPT ![j].pc = IF job[j].app.site = job[j].dist THEN "build" ELSE "update"]
        /\ app' = app /\ buckets' = buckets /\ alive' = alive
        /\ infra' = [bucket |-> job[j].bucket, dist |-> job[j].dist, site |-> job[j].dist]
    BY <1>6 DEF UpsertAppInfraOutput, StartDeployment, cloud
  <2>2. app = job[j].app /\ app # None /\ job[j].bucket \in buckets /\ job[j].dist \in alive
    BY <1>0, <2>1 DEF Sound, JobOK
  <2>3. /\ job'[j].pc = (IF app.site = job[j].dist THEN "build" ELSE "update")
        /\ job'[j].app = job[j].app /\ job'[j].bucket = job[j].bucket /\ job'[j].dist = job[j].dist
    BY <1>0, <2>1, <2>2 DEF Deployment
  <2> QED BY <2>1, <2>2, <2>3 DEF Sound
<1>7. CASE UpdateAppForUser(j)
  <2>1. Sound(j) /\ job[j].pc = "update" /\ job' = [job EXCEPT ![j].pc = "build"]
        /\ app' = [job[j].app EXCEPT !.site = job[j].dist]
        /\ buckets' = buckets /\ alive' = alive /\ infra' = infra
    BY <1>7 DEF UpdateAppForUser, StartDeployment, cloud
  <2>2. app' # None /\ app'.site = job[j].dist
    BY <1>0, <2>1 DEF JobOK
  <2> QED BY <1>0, <2>1, <2>2 DEF Sound, Deployment
<1>8. CASE UpdateFindsNoApp(j)
  BY <1>0, <1>8 DEF UpdateFindsNoApp, Sound, Deployment
<1>9. CASE Build(j)
  <2>1. Sound(j) /\ job[j].pc = "build"
        /\ (\E pc \in {"upload", "failed"} : job' = [job EXCEPT ![j].pc = pc])
        /\ UNCHANGED <<app, infra, buckets, alive>>
    BY <1>9 DEF Build, StartDeployment, rows, cloud
  <2> QED BY <1>0, <2>1 DEF Sound, Deployment
<1>10. CASE Upload(j)
  <2>1. Sound(j) /\ job[j].pc = "upload" /\ UNCHANGED <<app, infra, buckets, alive>>
    BY <1>10 DEF Upload, StartDeployment, rows
  <2>2. /\ job[j].bucket \in buckets /\ job[j].dist \in alive /\ app # None
        /\ app.site = job[j].dist
        /\ infra = [bucket |-> job[j].bucket, dist |-> job[j].dist, site |-> job[j].dist]
    BY <2>1 DEF Sound
  <2>3. job' = [job EXCEPT ![j].pc = "deployed"] /\ content' = [content EXCEPT ![job[j].bucket] = j]
    BY <1>10, <2>2 DEF Upload
  <2>4. content'[job[j].bucket] = j
    BY <1>0, <2>1, <2>3 DEF JobOK
  <2> QED BY <1>0, <2>1, <2>2, <2>3, <2>4 DEF Sound, Deployment
<1>11. CASE JobFails(j)
  BY <1>0, <1>11 DEF JobFails, Sound, Deployment
<1> QED BY <1>1, <1>2, <1>3, <1>4, <1>5, <1>6, <1>7, <1>8, <1>9, <1>10, <1>11 DEF JobStep

LEMMA AloneStep == TypeOK /\ TypeOK' /\ Sole /\ AloneIsSound /\ [Next]_vars => AloneIsSound'
<1> SUFFICES ASSUME TypeOK, TypeOK', Sole, AloneIsSound, [Next]_vars, NEW j \in Jobs, j \in alone'
             PROVE  Sound(j)'
  BY DEF AloneIsSound
<1>1. CASE \E k \in Jobs : JobStep(k)
  <2>1. PICK k \in Jobs : JobStep(k)
    BY <1>1
  <2>2. k = j /\ Moves(j)
    BY <2>1, JobMoves, SoleMoves
  <2>3. j \in alone \/ StartDeployment(j)
    <3>1. CASE UNCHANGED ghosts
      BY <3>1 DEF ghosts
    <3>2. CASE j \notin Active
      BY <2>1, <2>2, <3>2, ActiveJobs DEF JobStep, ReadInfra, EnsureBucket, KeepDistribution,
         CreateDistribution, UpsertAppInfraOutput, UpdateAppForUser, UpdateFindsNoApp, Build,
         Upload, JobFails, Busy
    <3> QED BY <2>2, <3>1, <3>2 DEF Moves
  <2> QED BY <2>1, <2>2, <2>3, SoundStep DEF AloneIsSound
<1>2. CASE \E p \in Patches : PatchStep(p)
  BY <1>2, PatchMoves, SoleMoves, InfraAssumption
<1>3. CASE DeleteStep
  BY <1>3, DeleteMoves, SoleMoves, InfraAssumption
<1>4. CASE Crash
  <2>1. Sound(j) /\ UNCHANGED <<app, infra, buckets, alive, content>>
        /\ (job'[j] = job[j] \/ job'[j].pc = "failed")
    BY <1>4, CrashEnds DEF AloneIsSound, rows, cloud, ghosts
  <2> QED BY <2>1 DEF Sound
<1>5. CASE UNCHANGED vars
  BY <1>5 DEF AloneIsSound, Sound, vars
<1> QED BY <1>1, <1>2, <1>3, <1>4, <1>5, SomebodyMoves

LEMMA SoundDeployHeals == AloneIsSound => UndisturbedDeployHeals
BY DEF AloneIsSound, Sound, UndisturbedDeployHeals

LEMMA AloneCorrect == Spec => [](TypeOK /\ Sole /\ AloneIsSound)
<1>1. Init => TypeOK /\ Sole /\ AloneIsSound
  <2>1. Init => Active = {}
    BY DEF Init, Active, NewJob, NewPatch, NewDelete
  <2> QED BY <2>1, InitTypes DEF Init, Sole, AloneIsAlone, OneAtATime, AloneIsSound
<1> QED BY <1>1, TypeStep, SoleStep, AloneStep, PTL DEF Spec

(***************************************************************************)
(* Whatever came before, a deployment that then runs alone to its end puts *)
(* everything right: rows, distribution, bucket and content.               *)
(***************************************************************************)
THEOREM DeploysHeal == Spec => []UndisturbedDeployHeals
BY AloneCorrect, SoundDeployHeals, PTL

-----------------------------------------------------------------------------
(***************************************************************************)
(* While no two actors overlap, what an actor has read is still true.      *)
(***************************************************************************)
JobRow(j) ==
  job[j].pc \in {"read", "bucket", "dist", "upsert", "update"} => app = job[j].app

PatchRow(p) ==
  LET q == patch[p] IN
    /\ q.pc = "write" => /\ app # None
                         /\ q.app.site = app.site
                         /\ q.app.name = app.name \/ q.field = "name"
                         /\ q.app.setting = app.setting \/ q.field = "setting"
    /\ q.pc \in {"infra_read", "infra_write"} => app = q.app

RowsAreCurrent == orderly => (\A j \in Jobs : JobRow(j)) /\ \A p \in Patches : PatchRow(p)

LEMMA JobRowStep ==
  ASSUME TypeOK, NEW j \in Jobs, JobRow(j) \/ StartDeployment(j), JobStep(j) PROVE JobRow(j)'
<1>0. job \in [Jobs -> Deployment]
  BY DEF TypeOK
<1>1. CASE StartDeployment(j)
  BY <1>0, <1>1 DEF StartDeployment, JobRow, Deployment, rows
<1>2. CASE ReadInfra(j)
  <2>1. JobRow(j) /\ job[j].pc = "read" /\ job'[j].app = job[j].app /\ app' = app
    BY <1>0, <1>2 DEF ReadInfra, StartDeployment, Deployment, rows
  <2> QED BY <2>1 DEF JobRow
<1>3. CASE EnsureBucket(j) \/ KeepDistribution(j) \/ CreateDistribution(j)
  <2>1. JobRow(j) /\ job[j].pc \in {"bucket", "dist"} /\ job'[j].app = job[j].app /\ app' = app
    BY <1>0, <1>3 DEF EnsureBucket, KeepDistribution, CreateDistribution, StartDeployment,
       Deployment, rows
  <2> QED BY <2>1 DEF JobRow
<1>4. CASE UpsertAppInfraOutput(j)
  <2>1. JobRow(j) /\ job[j].pc = "upsert" /\ job'[j].app = job[j].app /\ app' = app
    BY <1>0, <1>4 DEF UpsertAppInfraOutput, StartDeployment, Deployment
  <2> QED BY <2>1 DEF JobRow
<1>5. CASE UpdateAppForUser(j) \/ UpdateFindsNoApp(j) \/ Build(j) \/ Upload(j) \/ JobFails(j)
  <2>1. job'[j].pc \in {"build", "upload", "deployed", "failed"}
    BY <1>0, <1>5 DEF UpdateAppForUser, UpdateFindsNoApp, Build, Upload, JobFails, Deployment
  <2> QED BY <2>1 DEF JobRow
<1> QED BY <1>1, <1>2, <1>3, <1>4, <1>5 DEF JobStep

LEMMA PatchRowStep ==
  ASSUME TypeOK, NEW p \in Patches, patch[p].pc # "idle" => PatchRow(p), PatchStep(p)
  PROVE  PatchRow(p)'
<1>0. patch \in [Patches -> Patching]
  BY DEF TypeOK
<1>1. CASE ReadForPatch(p)
  <2>1. PICK f \in {"name", "setting"}, a \in App :
          /\ patch' = [patch EXCEPT ![p] = [@ EXCEPT !.pc = "write", !.field = f, !.app = a]]
          /\ a.site = app.site
          /\ a.name = app.name \/ f = "name"
          /\ a.setting = app.setting \/ f = "setting"
    BY <1>1, MergedRow
  <2>2. app' = app /\ app # None
    BY <1>1 DEF ReadForPatch, rows
  <2>3. patch'[p].pc = "write" /\ patch'[p].field = f /\ patch'[p].app = a
    BY <1>0, <2>1 DEF Patching
  <2> QED BY <2>1, <2>2, <2>3 DEF PatchRow
<1>2. CASE ReadForOutputs(p)
  <2>1. patch'[p].pc = "infra_read" /\ patch'[p].app = app /\ app' = app
    BY <1>0, <1>2 DEF ReadForOutputs, Patching, rows
  <2> QED BY <2>1 DEF PatchRow
<1>3. CASE WritePatch(p)
  <2>1. \/ patch'[p].pc = "infra_read" /\ patch'[p].app = patch[p].app /\ app' = patch[p].app
        \/ patch'[p].pc = "done"
    BY <1>0, <1>3 DEF WritePatch, Patching
  <2> QED BY <2>1 DEF PatchRow
<1>4. CASE PatchReadsInfra(p)
  <2>1. PatchRow(p) /\ patch[p].pc = "infra_read" /\ app' = app
        /\ patch'[p].pc = "infra_write" /\ patch'[p].app = patch[p].app
    BY <1>0, <1>4 DEF PatchReadsInfra, Patching, rows
  <2> QED BY <2>1 DEF PatchRow
<1>5. CASE PatchWritesInfra(p) \/ PatchFails(p)
  <2>1. patch'[p].pc = "done"
    BY <1>0, <1>5 DEF PatchWritesInfra, PatchFails, Patching
  <2> QED BY <2>1 DEF PatchRow
<1> QED BY <1>1, <1>2, <1>3, <1>4, <1>5 DEF PatchStep

\* Of an actor that is not active nothing is said.
LEMMA NotActiveRows ==
  ASSUME TypeOK'
  PROVE  /\ \A j \in Jobs : j \notin Active' => JobRow(j)'
         /\ \A p \in Patches : p \notin Active' => PatchRow(p)'
<1>1. ASSUME NEW j \in Jobs, j \notin Active' PROVE JobRow(j)'
  BY <1>1, ActiveJobsNext DEF JobRow, Busy
<1>2. ASSUME NEW p \in Patches, p \notin Active' PROVE PatchRow(p)'
  BY <1>2, ActivePatchesNext DEF PatchRow
<1> QED BY <1>1, <1>2

LEMMA RowsStep == TypeOK /\ TypeOK' /\ Sole /\ RowsAreCurrent /\ [Next]_vars => RowsAreCurrent'
<1> SUFFICES ASSUME TypeOK, TypeOK', Sole, RowsAreCurrent, [Next]_vars, orderly'
             PROVE  (\A j \in Jobs : JobRow(j)') /\ \A p \in Patches : PatchRow(p)'
  BY DEF RowsAreCurrent
<1>1. ASSUME NEW j \in Jobs, JobStep(j)
      PROVE  (\A k \in Jobs : JobRow(k)') /\ \A p \in Patches : PatchRow(p)'
  <2>1. orderly /\ Active' \subseteq {j}
    BY <1>1, JobMoves, SoleMoves DEF Moves
  <2>2. JobRow(j)'
    BY <1>1, <2>1, JobRowStep DEF RowsAreCurrent
  <2> QED BY <2>1, <2>2, NotActiveRows, InfraAssumption
<1>2. ASSUME NEW p \in Patches, PatchStep(p)
      PROVE  (\A j \in Jobs : JobRow(j)') /\ \A k \in Patches : PatchRow(k)'
  <2>1. orderly /\ Active' \subseteq {p}
    BY <1>2, PatchMoves, SoleMoves DEF Moves
  <2>2. PatchRow(p)'
    BY <1>2, <2>1, PatchRowStep DEF RowsAreCurrent
  <2> QED BY <2>1, <2>2, NotActiveRows, InfraAssumption
<1>3. CASE DeleteStep
  <2>1. Active' \subseteq {"delete"}
    BY <1>3, DeleteMoves, SoleMoves DEF Moves
  <2> QED BY <2>1, NotActiveRows, InfraAssumption
<1>4. CASE Crash
  BY <1>4, CrashEnds, NotActiveRows
<1>5. CASE UNCHANGED vars
  BY <1>5 DEF RowsAreCurrent, JobRow, PatchRow, vars
<1> QED BY <1>1, <1>2, <1>3, <1>4, <1>5, SomebodyMoves

LEMMA RowsCorrect == Spec => [](TypeOK /\ Sole /\ RowsAreCurrent)
<1>1. Init => TypeOK /\ Sole /\ RowsAreCurrent
  <2>1. Init => Active = {}
    BY DEF Init, Active, NewJob, NewPatch, NewDelete
  <2>2. Init => RowsAreCurrent
    BY DEF Init, RowsAreCurrent, JobRow, PatchRow, NewJob, NewPatch
  <2> QED BY <2>1, <2>2, InitTypes DEF Init, Sole, AloneIsAlone, OneAtATime
<1> QED BY <1>1, TypeStep, SoleStep, RowsStep, PTL DEF Spec

\* Who writes the application's row.
LEMMA AppWriters ==
  ASSUME [Next]_vars
  PROVE  \/ app' = app \/ app' = None
         \/ \E j \in Jobs : UpdateAppForUser(j)
         \/ \E p \in Patches : WritePatch(p)
<1>1. ASSUME NEW j \in Jobs, JobStep(j) PROVE app' = app \/ UpdateAppForUser(j)
  BY <1>1 DEF JobStep, StartDeployment, ReadInfra, EnsureBucket, KeepDistribution,
     CreateDistribution, UpsertAppInfraOutput, UpdateFindsNoApp, Build, Upload, JobFails, rows
<1>2. ASSUME NEW p \in Patches, PatchStep(p) PROVE app' = app \/ WritePatch(p)
  BY <1>2 DEF PatchStep, ReadForPatch, ReadForOutputs, PatchReadsInfra, PatchWritesInfra,
     PatchFails, rows
<1>3. ASSUME DeleteStep PROVE app' = app \/ app' = None
  BY <1>3 DEF DeleteStep, StartDelete, TeardownReads, DisableDistribution, DeleteDistribution,
     EmptyAndDeleteBucket, DeleteRows, DeleteFails, rows
<1>4. ASSUME Crash \/ UNCHANGED vars PROVE app' = app
  BY <1>4 DEF Crash, vars, rows
<1> QED BY <1>1, <1>2, <1>3, <1>4, SomebodyMoves

(***************************************************************************)
(* As long as no two actors were ever active together, whole-row writes    *)
(* undo nothing: a field only changes by a patch sent for it, and the site *)
(* only to what a deployment settled on.                                   *)
(***************************************************************************)
THEOREM OrderlyWritesAreExact == Spec => OrderlyWritesKeepFields
<1> DEFINE KeepsFields ==
      orderly /\ app # None /\ app' # None =>
        /\ app'.name # app.name => \E p \in Patches \cap Active : patch[p].field = "name"
        /\ app'.setting # app.setting => \E p \in Patches \cap Active : patch[p].field = "setting"
        /\ app'.site # app.site => \E j \in Jobs \cap Active : app'.site = job[j].dist
<1>1. TypeOK /\ RowsAreCurrent /\ [Next]_vars => [KeepsFields]_vars
  <2> SUFFICES ASSUME TypeOK, RowsAreCurrent, [Next]_vars, orderly, app # None, app' # None
               PROVE
        /\ app'.name # app.name => \E p \in Patches \cap Active : patch[p].field = "name"
        /\ app'.setting # app.setting => \E p \in Patches \cap Active : patch[p].field = "setting"
        /\ app'.site # app.site => \E j \in Jobs \cap Active : app'.site = job[j].dist
    OBVIOUS
  <2>1. ASSUME NEW j \in Jobs, UpdateAppForUser(j)
        PROVE  app'.name = app.name /\ app'.setting = app.setting
               /\ app'.site = job[j].dist /\ j \in Active
    <3>1. job[j].pc = "update" /\ job[j].app \in App /\ app = job[j].app
          /\ app' = [app EXCEPT !.site = job[j].dist]
      BY <2>1 DEF UpdateAppForUser, RowsAreCurrent, JobRow, TypeOK, JobOK
    <3> QED BY <3>1, ActiveJobs DEF App, Busy
  <2>2. ASSUME NEW p \in Patches, WritePatch(p)
        PROVE  /\ p \in Active /\ app'.site = app.site
               /\ app'.name = app.name \/ patch[p].field = "name"
               /\ app'.setting = app.setting \/ patch[p].field = "setting"
    <3>1. patch[p].pc = "write" /\ app' = patch[p].app /\ PatchRow(p)
      BY <2>2 DEF WritePatch, RowsAreCurrent
    <3> QED BY <3>1, ActivePatches DEF PatchRow
  <2> QED BY <2>1, <2>2, AppWriters
<1>2. Spec => [][KeepsFields]_vars
  BY <1>1, RowsCorrect, PTL DEF Spec
<1> QED BY <1>2 DEF OrderlyWritesKeepFields

-----------------------------------------------------------------------------
(***************************************************************************)
(* While nothing overlapped and no call failed, no resource escapes the    *)
(* rows.                                                                   *)
(***************************************************************************)
NoRename == \A p \in Patches : patch[p].field # "name"

\* Between requests: what exists is recorded.
Kept == alive \subseteq RecordedDist /\ (NoRename /\ infra = None => buckets = {})

\* Without a rename there is one bucket name, the application's.
Named ==
  NoRename => /\ infra # None => app # None /\ infra.bucket = app.name
              /\ buckets # {} => app # None /\ buckets = {app.name}

\* In between, what exists is what the active actor holds.
JobKept(j) ==
  LET q == job[j] IN
    /\ q.pc \in {"read", "update", "build", "upload"} => Kept
    /\ q.pc \in {"bucket", "dist", "upsert"} =>
         alive \subseteq {q.dist} /\ (NoRename => q.bucket = app.name)

PatchKept(p) ==
  LET q == patch[p] IN
    /\ q.pc = "idle" => q.field = "none"
    /\ q.pc \in {"write", "infra_read"} => Kept
    /\ q.pc = "infra_write" => alive \subseteq {q.dist}

DeleteKept ==
  /\ del.pc = "read" => Kept
  /\ del.pc = "dist" => alive \subseteq {del.dist} /\ (NoRename => buckets \subseteq {del.bucket})
  /\ del.pc = "bucket" => alive = {} /\ (NoRename => buckets \subseteq {del.bucket})
  /\ del.pc = "rows" => alive = {} /\ (NoRename => buckets = {})

KeptInv ==
  orderly /\ faults = 0 =>
    /\ Named
    /\ Active = {} => Kept
    /\ \A j \in Jobs : JobKept(j)
    /\ \A p \in Patches : PatchKept(p)
    /\ DeleteKept

LEMMA NoFault == ASSUME TypeOK, Fault PROVE faults' # 0
BY FaultTypes

LEMMA JobKeptStep ==
  ASSUME TypeOK, NEW j \in Jobs, JobStep(j), faults' = 0, Named, JobKept(j),
         job[j].pc = "idle" => Kept,
         JobRow(j) \/ StartDeployment(j)
  PROVE  Named' /\ JobKept(j)' /\ (job'[j].pc \notin Busy => Kept')
<1>0. /\ job \in [Jobs -> Deployment] /\ JobOK(job[j])
      /\ None \notin App /\ None \notin Infra /\ infra \in Infra \cup {None}
      /\ app \in App \cup {None}
  BY InfraAssumption DEF TypeOK
<1>f. ~Fault
  BY NoFault
<1>p. patch' = patch
  BY DEF JobStep, StartDeployment, ReadInfra, EnsureBucket, KeepDistribution,
     CreateDistribution, UpsertAppInfraOutput, UpdateAppForUser, UpdateFindsNoApp, Build,
     Upload, JobFails
<1>n. NoRename' <=> NoRename
  BY <1>p DEF NoRename
<1>k. ASSUME UNCHANGED <<infra, alive, buckets>> PROVE Kept => Kept'
  BY <1>k, <1>n DEF Kept, RecordedDist
<1>m. ASSUME UNCHANGED <<app, infra, buckets>> PROVE Named'
  BY <1>m, <1>n DEF Named
<1>1. CASE StartDeployment(j)
  <2>1. job[j].pc = "idle" /\ job'[j].pc = "read" /\ UNCHANGED <<app, infra, alive, buckets>>
    BY <1>0, <1>1 DEF StartDeployment, Deployment, rows, cloud
  <2> QED BY <2>1, <1>k, <1>m DEF JobKept, Busy
<1>2. CASE ReadInfra(j)
  <2>1. job[j].pc = "read" /\ job'[j].pc = "bucket" /\ UNCHANGED <<app, infra, alive, buckets>>
        /\ app = job[j].app
    BY <1>0, <1>2 DEF ReadInfra, StartDeployment, JobRow, Deployment, rows, cloud
  <2>2. Kept
    BY <2>1 DEF JobKept
  <2>3. \/ infra # None /\ job'[j].bucket = infra.bucket /\ job'[j].dist = infra.dist
        \/ infra = None /\ job'[j].bucket = app.name
    BY <1>0, <1>2, <1>f, <2>1 DEF ReadInfra, Deployment
  <2>4. alive \subseteq {job'[j].dist} /\ (NoRename => job'[j].bucket = app.name)
    BY <2>2, <2>3 DEF Kept, RecordedDist, Named
  <2> QED BY <2>1, <2>4, <1>m, <1>n DEF JobKept, Busy
<1>3. CASE EnsureBucket(j)
  <2>1. /\ job[j].pc = "bucket" /\ job'[j].pc = "dist" /\ UNCHANGED <<app, infra, alive>>
        /\ job'[j].dist = job[j].dist /\ job'[j].bucket = job[j].bucket
        /\ buckets' = buckets \cup {job[j].bucket}
        /\ app = job[j].app /\ app # None
    BY <1>0, <1>3 DEF EnsureBucket, StartDeployment, JobRow, JobOK, Deployment, rows
  <2>2. alive \subseteq {job[j].dist} /\ (NoRename => job[j].bucket = app.name)
    BY <2>1 DEF JobKept
  <2>3. Named'
    BY <2>1, <2>2, <1>n DEF Named
  <2> QED BY <2>1, <2>2, <2>3, <1>n DEF JobKept, Busy
<1>4. CASE KeepDistribution(j)
  <2>1. /\ job[j].pc = "dist" /\ job'[j].pc = "upsert" /\ UNCHANGED <<app, infra, alive, buckets>>
        /\ job'[j].dist = job[j].dist /\ job'[j].bucket = job[j].bucket
    BY <1>0, <1>4 DEF KeepDistribution, Deployment, rows, cloud
  <2> QED BY <2>1, <1>m, <1>n DEF JobKept, Busy
<1>5. CASE CreateDistribution(j)
  <2>1. /\ job[j].pc = "dist" /\ job'[j].pc = "upsert" /\ UNCHANGED <<app, infra, buckets>>
        /\ job'[j].dist = nextDist /\ job'[j].bucket = job[j].bucket
        /\ alive' = alive \cup {nextDist} /\ job[j].dist \notin alive
    BY <1>0, <1>5, <1>f DEF CreateDistribution, Deployment, rows
  <2>2. alive = {}
    BY <2>1 DEF JobKept
  <2> QED BY <2>1, <2>2, <1>m, <1>n DEF JobKept, Busy
<1>6. CASE UpsertAppInfraOutput(j)
  <2>1. /\ job[j].pc = "upsert" /\ job'[j].pc \in {"update", "build"}
        /\ UNCHANGED <<app, alive, buckets>>
        /\ infra' = [bucket |-> job[j].bucket, dist |-> job[j].dist, site |-> job[j].dist]
        /\ app = job[j].app /\ app # None
    BY <1>0, <1>6 DEF UpsertAppInfraOutput, StartDeployment, JobRow, JobOK, Deployment, cloud
  <2>2. infra' # None
    BY <1>0, <2>1 DEF JobOK, Infra
  <2>3. alive \subseteq {job[j].dist} /\ (NoRename => job[j].bucket = app.name)
    BY <2>1 DEF JobKept
  <2>4. Kept'
    BY <2>1, <2>2, <2>3 DEF Kept, RecordedDist
  <2>5. Named'
    BY <2>1, <2>3, <1>n DEF Named
  <2> QED BY <2>1, <2>4, <2>5 DEF JobKept, Busy
<1>7. CASE UpdateAppForUser(j)
  <2>1. /\ job[j].pc = "update" /\ job'[j].pc = "build" /\ UNCHANGED <<infra, alive, buckets>>
        /\ job[j].app \in App /\ app = job[j].app /\ app' = [app EXCEPT !.site = job[j].dist]
    BY <1>0, <1>7 DEF UpdateAppForUser, StartDeployment, JobRow, JobOK, Deployment, cloud
  <2>2. app'.name = app.name /\ app' # None
    BY <1>0, <2>1 DEF JobOK, App, Infra
  <2>3. Kept'
    BY <2>1, <1>k DEF JobKept
  <2>4. Named'
    BY <2>1, <2>2, <1>n DEF Named
  <2> QED BY <2>1, <2>3, <2>4 DEF JobKept, Busy
<1>8. CASE UpdateFindsNoApp(j)
  <2>1. job[j].pc = "update" /\ job'[j].pc = "failed" /\ UNCHANGED <<app, infra, alive, buckets>>
    BY <1>0, <1>8 DEF UpdateFindsNoApp, Deployment, rows, cloud
  <2> QED BY <2>1, <1>k, <1>m DEF JobKept, Busy
<1>9. CASE Build(j)
  <2>1. job[j].pc = "build" /\ job'[j].pc \in {"upload", "failed"}
        /\ UNCHANGED <<app, infra, alive, buckets>>
    BY <1>0, <1>9 DEF Build, Deployment, rows, cloud
  <2> QED BY <2>1, <1>k, <1>m DEF JobKept, Busy
<1>10. CASE Upload(j)
  <2>1. job[j].pc = "upload" /\ job'[j].pc \in {"deployed", "failed"}
        /\ UNCHANGED <<app, infra, alive, buckets>>
    BY <1>0, <1>10 DEF Upload, Deployment, rows
  <2> QED BY <2>1, <1>k, <1>m DEF JobKept, Busy
<1>11. CASE JobFails(j)
  BY <1>11, <1>f DEF JobFails
<1> QED BY <1>1, <1>2, <1>3, <1>4, <1>5, <1>6, <1>7, <1>8, <1>9, <1>10, <1>11 DEF JobStep

LEMMA PatchKeptStep ==
  ASSUME TypeOK, NEW p \in Patches, PatchStep(p), faults' = 0, Named, PatchKept(p),
         patch[p].pc = "idle" => Kept,
         patch[p].pc # "idle" => PatchRow(p),
         \A k \in Patches \ {p} : patch'[k] = patch[k]
  PROVE  Named' /\ PatchKept(p)' /\ (patch'[p].pc \in {"idle", "done"} => Kept')
<1>0. /\ patch \in [Patches -> Patching] /\ PatchOK(patch[p])
      /\ None \notin App /\ None \notin Infra /\ infra \in Infra \cup {None}
      /\ app \in App \cup {None}
  BY InfraAssumption DEF TypeOK
<1>f. ~Fault
  BY NoFault
<1>c. UNCHANGED <<alive, buckets>>
  BY DEF PatchStep, ReadForPatch, ReadForOutputs, WritePatch, PatchReadsInfra,
     PatchWritesInfra, PatchFails, cloud
<1>n. ASSUME patch'[p].field = patch[p].field PROVE NoRename' <=> NoRename
  BY <1>n DEF NoRename
<1>1. CASE ReadForPatch(p)
  <2>1. PICK f \in {"name", "setting"}, a \in App :
          patch' = [patch EXCEPT ![p] = [@ EXCEPT !.pc = "write", !.field = f, !.app = a]]
    BY <1>1, MergedRow
  <2>2. patch[p].pc = "idle" /\ UNCHANGED <<app, infra>>
    BY <1>1 DEF ReadForPatch, rows
  <2>3. patch'[p].pc = "write"
    BY <1>0, <2>1 DEF Patching
  <2>4. patch[p].field = "none"
    BY <2>2 DEF PatchKept
  <2>5. NoRename' => NoRename
    BY <2>4 DEF NoRename
  <2>6. Kept' /\ Named'
    BY <1>c, <2>2, <2>5 DEF Kept, Named, RecordedDist
  <2> QED BY <2>3, <2>6 DEF PatchKept
<1>2. CASE ReadForOutputs(p)
  <2>1. /\ patch[p].pc = "idle" /\ UNCHANGED <<app, infra>>
        /\ patch'[p].pc = "infra_read" /\ patch'[p].field = patch[p].field
    BY <1>0, <1>2 DEF ReadForOutputs, Patching, rows
  <2>2. Kept' /\ Named'
    BY <1>c, <1>n, <2>1 DEF Kept, Named, RecordedDist
  <2> QED BY <2>1, <2>2 DEF PatchKept
<1>3. CASE WritePatch(p)
  <2>1. /\ patch[p].pc = "write" /\ patch'[p].field = patch[p].field /\ infra' = infra
        /\ app # None /\ app' = patch[p].app /\ patch'[p].pc = "infra_read"
    BY <1>0, <1>3 DEF WritePatch, Patching, PatchRow
  <2>2. app' # None /\ (NoRename => app'.name = app.name)
    BY <1>0, <2>1 DEF PatchOK, PatchRow, NoRename
  <2>3. Kept'
    BY <1>c, <1>n, <2>1 DEF Kept, RecordedDist, PatchKept
  <2>4. Named'
    BY <1>c, <1>n, <2>1, <2>2 DEF Named
  <2> QED BY <2>1, <2>3, <2>4 DEF PatchKept
<1>4. CASE PatchReadsInfra(p)
  <2>1. /\ patch[p].pc = "infra_read" /\ UNCHANGED <<app, infra>>
        /\ patch'[p].pc = "infra_write" /\ patch'[p].field = patch[p].field
        /\ infra # None => patch'[p].dist = infra.dist
    BY <1>0, <1>4, <1>f DEF PatchReadsInfra, Patching, rows
  <2>2. alive' \subseteq {patch'[p].dist}
    BY <1>c, <2>1 DEF PatchKept, Kept, RecordedDist
  <2>3. Named'
    BY <1>c, <1>n, <2>1 DEF Named
  <2> QED BY <2>1, <2>2, <2>3 DEF PatchKept
<1>5. CASE PatchWritesInfra(p)
  <2>1. /\ patch[p].pc = "infra_write" /\ app' = app /\ patch'[p].pc = "done"
        /\ patch'[p].field = patch[p].field
        /\ infra' = [bucket |-> patch[p].app.name, dist |-> patch[p].dist, site |-> patch[p].site]
    BY <1>0, <1>5 DEF PatchWritesInfra, Patching
  <2>2. app = patch[p].app /\ app # None
    BY <1>0, <2>1 DEF PatchRow, PatchOK
  <2>3. infra' # None
    BY <1>0, <2>1, <2>2 DEF PatchOK, Patching, App, Infra
  <2>4. Kept'
    BY <1>c, <2>1, <2>3 DEF Kept, RecordedDist, PatchKept
  <2>5. Named'
    BY <1>c, <1>n, <2>1, <2>2 DEF Named
  <2> QED BY <2>1, <2>4, <2>5 DEF PatchKept
<1>6. CASE PatchFails(p)
  BY <1>6, <1>f DEF PatchFails
<1> QED BY <1>1, <1>2, <1>3, <1>4, <1>5, <1>6 DEF PatchStep

LEMMA DeleteKeptStep ==
  ASSUME TypeOK, DeleteStep, faults' = 0, Named, DeleteKept, del.pc = "idle" => Kept
  PROVE  Named' /\ DeleteKept' /\ (del'.pc = "idle" => Kept')
<1>0. None \notin Infra /\ infra \in Infra \cup {None} /\ del \in Deleting
  BY InfraAssumption DEF TypeOK
<1>f. ~Fault
  BY NoFault
<1>n. NoRename' <=> NoRename
  BY DEF NoRename, DeleteStep, StartDelete, TeardownReads, DisableDistribution, actors,
     DeleteDistribution, EmptyAndDeleteBucket, DeleteRows, DeleteFails
<1>1. CASE StartDelete
  <2>1. del.pc = "idle" /\ del'.pc = "read" /\ UNCHANGED <<app, infra, alive, buckets>>
    BY <1>1 DEF StartDelete, NewDelete, rows, cloud
  <2> QED BY <2>1, <1>n DEF Named, DeleteKept, Kept, RecordedDist
<1>2. CASE TeardownReads
  <2>1. /\ del.pc = "read" /\ UNCHANGED <<app, infra, alive, buckets>>
        /\ IF infra = None THEN del'.pc = "rows"
           ELSE del'.pc = "dist" /\ del'.bucket = infra.bucket /\ del'.dist = infra.dist
    BY <1>0, <1>2 DEF TeardownReads, Deleting, rows, cloud
  <2> QED BY <2>1, <1>n DEF Named, DeleteKept, Kept, RecordedDist
<1>3. CASE DisableDistribution
  <2>1. UNCHANGED <<app, infra, alive, buckets, del>> /\ del.pc = "dist"
    BY <1>3 DEF DisableDistribution, rows, actors
  <2> QED BY <2>1, <1>n DEF Named, DeleteKept
<1>4. CASE DeleteDistribution
  <2>1. /\ del.pc = "dist" /\ del'.pc = "bucket" /\ del'.bucket = del.bucket
        /\ alive' = alive \ {del.dist} /\ UNCHANGED <<app, infra, buckets>>
    BY <1>0, <1>4 DEF DeleteDistribution, Deleting, rows
  <2> QED BY <2>1, <1>n DEF Named, DeleteKept
<1>5. CASE EmptyAndDeleteBucket
  <2>1. /\ del.pc = "bucket" /\ del'.pc = "rows" /\ buckets' = buckets \ {del.bucket}
        /\ UNCHANGED <<app, infra, alive>>
    BY <1>0, <1>5 DEF EmptyAndDeleteBucket, Deleting, rows
  <2> QED BY <2>1, <1>n DEF Named, DeleteKept
<1>6. CASE DeleteRows
  <2>1. /\ del.pc = "rows" /\ del'.pc = "idle" /\ infra' = None
        /\ UNCHANGED <<alive, buckets>>
    BY <1>6 DEF DeleteRows, NewDelete, cloud
  <2> QED BY <2>1, <1>n DEF Named, DeleteKept, Kept, RecordedDist
<1>7. CASE DeleteFails
  BY <1>7, <1>f DEF DeleteFails
<1> QED BY <1>1, <1>2, <1>3, <1>4, <1>5, <1>6, <1>7 DEF DeleteStep

\* Of an actor that is not active nothing is said.
LEMMA NotActiveKept ==
  ASSUME TypeOK'
  PROVE  /\ \A j \in Jobs : j \notin Active' => JobKept(j)'
         /\ "delete" \notin Active' => DeleteKept'
         /\ \A p \in Patches : p \notin Active' /\ (patch'[p].pc = "idle" => patch'[p].field = "none")
              => PatchKept(p)'
<1>1. ASSUME NEW j \in Jobs, j \notin Active' PROVE JobKept(j)'
  BY <1>1, ActiveJobsNext DEF JobKept, Busy
<1>2. ASSUME "delete" \notin Active' PROVE DeleteKept'
  BY <1>2, ActiveDeleteNext DEF DeleteKept
<1>3. ASSUME NEW p \in Patches, p \notin Active', patch'[p].pc = "idle" => patch'[p].field = "none"
      PROVE  PatchKept(p)'
  BY <1>3, ActivePatchesNext DEF PatchKept
<1> QED BY <1>1, <1>2, <1>3

\* A call that fails is counted.
LEMMA FaultsOnlyGrow == ASSUME TypeOK, [Next]_vars, faults' = 0 PROVE faults = 0 /\ ~Crash
<1>1. ASSUME NEW j \in Jobs, JobStep(j) PROVE UNCHANGED faults \/ Fault
  BY <1>1 DEF JobStep, StartDeployment, ReadInfra, EnsureBucket, KeepDistribution,
     CreateDistribution, UpsertAppInfraOutput, UpdateAppForUser, UpdateFindsNoApp, Build,
     Upload, JobFails
<1>2. ASSUME NEW p \in Patches, PatchStep(p) PROVE UNCHANGED faults \/ Fault
  BY <1>2 DEF PatchStep, ReadForPatch, ReadForOutputs, WritePatch, PatchReadsInfra,
     PatchWritesInfra, PatchFails
<1>3. ASSUME DeleteStep PROVE UNCHANGED faults \/ Fault
  BY <1>3 DEF DeleteStep, StartDelete, TeardownReads, DisableDistribution, DeleteDistribution,
     EmptyAndDeleteBucket, DeleteRows, DeleteFails
<1>4. ASSUME Crash PROVE FALSE
  BY <1>4, NoFault DEF Crash
<1> QED BY <1>1, <1>2, <1>3, <1>4, SomebodyMoves, NoFault DEF vars

LEMMA KeptStep ==
  TypeOK /\ TypeOK' /\ Sole /\ RowsAreCurrent /\ KeptInv /\ [Next]_vars => KeptInv'
<1> SUFFICES ASSUME TypeOK, TypeOK', Sole, RowsAreCurrent, KeptInv, [Next]_vars,
                    orderly', faults' = 0
             PROVE  /\ Named' /\ (Active' = {} => Kept')
                    /\ (\A j \in Jobs : JobKept(j)') /\ (\A p \in Patches : PatchKept(p)')
                    /\ DeleteKept'
  BY DEF KeptInv
<1>0. faults = 0 /\ ~Crash
  BY FaultsOnlyGrow
<1>1. ASSUME NEW j \in Jobs, JobStep(j)
      PROVE  /\ Named' /\ (Active' = {} => Kept')
             /\ (\A k \in Jobs : JobKept(k)') /\ (\A p \in Patches : PatchKept(p)')
             /\ DeleteKept'
  <2>1. orderly /\ Active \subseteq {j} /\ Active' \subseteq {j} /\ UNCHANGED patch
    BY <1>1, JobMoves, SoleMoves DEF Moves
  <2>2. /\ Named /\ JobKept(j) /\ (Active = {} => Kept) /\ JobRow(j)
        /\ \A p \in Patches : PatchKept(p)
    BY <1>0, <2>1 DEF KeptInv, RowsAreCurrent
  <2>3. job[j].pc = "idle" => Kept
    BY <2>1, <2>2, ActiveJobs DEF Busy
  <2>4. Named' /\ JobKept(j)' /\ (job'[j].pc \notin Busy => Kept')
    BY <1>1, <2>2, <2>3, JobKeptStep
  <2>5. \A p \in Patches : PatchKept(p)'
    BY <2>1, <2>2, NotActiveKept, InfraAssumption DEF PatchKept
  <2>6. DeleteKept' /\ \A k \in Jobs : JobKept(k)'
    BY <2>1, <2>4, NotActiveKept, InfraAssumption
  <2>7. Active' = {} => Kept'
    BY <2>4, ActiveJobsNext
  <2> QED BY <2>4, <2>5, <2>6, <2>7
<1>2. ASSUME NEW p \in Patches, PatchStep(p)
      PROVE  /\ Named' /\ (Active' = {} => Kept')
             /\ (\A j \in Jobs : JobKept(j)') /\ (\A k \in Patches : PatchKept(k)')
             /\ DeleteKept'
  <2>1. /\ orderly /\ Active \subseteq {p} /\ Active' \subseteq {p}
        /\ \A k \in Patches \ {p} : patch'[k] = patch[k]
    BY <1>2, PatchMoves, SoleMoves DEF Moves
  <2>2. /\ Named /\ (Active = {} => Kept) /\ PatchRow(p)
        /\ \A k \in Patches : PatchKept(k)
    BY <1>0, <2>1 DEF KeptInv, RowsAreCurrent
  <2>3. patch[p].pc = "idle" => Kept
    BY <2>1, <2>2, ActivePatches
  <2>4. Named' /\ PatchKept(p)' /\ (patch'[p].pc \in {"idle", "done"} => Kept')
    BY <1>2, <2>1, <2>2, <2>3, PatchKeptStep
  <2>5. \A k \in Patches : PatchKept(k)'
    BY <2>1, <2>2, <2>4, NotActiveKept DEF PatchKept
  <2>6. DeleteKept' /\ \A j \in Jobs : JobKept(j)'
    BY <2>1, NotActiveKept, InfraAssumption
  <2>7. Active' = {} => Kept'
    <3>1. patch'[p].pc \in PatchPC
      BY DEF TypeOK, Patching
    <3> QED BY <2>4, <3>1, ActivePatchesNext DEF PatchPC
  <2> QED BY <2>4, <2>5, <2>6, <2>7
<1>3. ASSUME DeleteStep
      PROVE  /\ Named' /\ (Active' = {} => Kept')
             /\ (\A j \in Jobs : JobKept(j)') /\ (\A p \in Patches : PatchKept(p)')
             /\ DeleteKept'
  <2>1. /\ orderly /\ Active \subseteq {"delete"} /\ Active' \subseteq {"delete"}
        /\ UNCHANGED patch
    BY <1>3, DeleteMoves, SoleMoves DEF Moves
  <2>2. /\ Named /\ (Active = {} => Kept) /\ DeleteKept
        /\ \A p \in Patches : PatchKept(p)
    BY <1>0, <2>1 DEF KeptInv
  <2>3. del.pc = "idle" => Kept
    BY <2>1, <2>2, ActiveDelete
  <2>4. Named' /\ DeleteKept' /\ (del'.pc = "idle" => Kept')
    BY <1>3, <2>2, <2>3, DeleteKeptStep
  <2>5. \A p \in Patches : PatchKept(p)'
    BY <2>1, <2>2, NotActiveKept, InfraAssumption DEF PatchKept
  <2>6. \A j \in Jobs : JobKept(j)'
    BY <2>1, NotActiveKept, InfraAssumption
  <2>7. Active' = {} => Kept'
    BY <2>4, ActiveDeleteNext
  <2> QED BY <2>4, <2>5, <2>6, <2>7
<1>4. CASE UNCHANGED vars
  <2>1. Active' = Active
    BY <1>4 DEF Active, vars
  <2>2. (Kept' <=> Kept) /\ (Named' <=> Named) /\ orderly
    BY <1>4 DEF Kept, Named, NoRename, RecordedDist, vars
  <2>3. /\ Named /\ (Active = {} => Kept) /\ DeleteKept
        /\ (\A p \in Patches : PatchKept(p)) /\ \A j \in Jobs : JobKept(j)
    BY <1>0, <2>2 DEF KeptInv
  <2> QED BY <1>4, <2>1, <2>2, <2>3 DEF DeleteKept, PatchKept, JobKept, NoRename, vars
<1> QED BY <1>0, <1>1, <1>2, <1>3, <1>4, SomebodyMoves

LEMMA KeptIsRecorded == TypeOK /\ KeptInv => EverythingRecorded
BY DEF KeptInv, Kept, Named, NoRename, EverythingRecorded, RecordedDist, RecordedBucket

LEMMA KeptCorrect == Spec => [](TypeOK /\ KeptInv)
<1>1. Init => KeptInv
  <2> SUFFICES ASSUME Init PROVE Named /\ Kept /\ (\A j \in Jobs : JobKept(j))
                                 /\ (\A p \in Patches : PatchKept(p)) /\ DeleteKept
    BY DEF KeptInv
  <2>1. None \notin App /\ app \in App
    BY InfraAssumption DEF Init, App
  <2>2. Named /\ Kept
    BY <2>1 DEF Init, Named, Kept
  <2>3. \A j \in Jobs : JobKept(j)
    BY DEF Init, JobKept, NewJob
  <2>4. (\A p \in Patches : PatchKept(p)) /\ DeleteKept
    BY DEF Init, PatchKept, DeleteKept, NewPatch, NewDelete
  <2> QED BY <2>2, <2>3, <2>4
<1> QED BY <1>1, RowsCorrect, KeptStep, PTL DEF Spec

(***************************************************************************)
(* As long as nothing overlapped and no call failed, no cloud resource     *)
(* escapes the infra row.                                                  *)
(***************************************************************************)
THEOREM NothingEscapes == Spec => []EverythingRecorded
BY KeptCorrect, KeptIsRecorded, PTL

-----------------------------------------------------------------------------
(***************************************************************************)
(* Where the promises of the refuted comments do hold.                     *)
(***************************************************************************)

\* Without a rename the application, its rows, actors and distributions know one bucket.
OneName(n) ==
  /\ app # None => app.name = n
  /\ infra # None => infra.bucket = n
  /\ \A j \in Jobs : /\ job[j].app # None => job[j].app.name = n
                     /\ job[j].bucket # None => job[j].bucket = n
  /\ \A p \in Patches : patch[p].app # None => patch[p].app.name = n
  /\ \A d \in Dists : d < nextDist => origin[d] = n

\* A deployment past ensureDeploymentInfra has a distribution that was handed out.
DistIsKnown(j) ==
  job[j].pc \in {"upsert", "update", "build", "upload", "deployed"} => job[j].dist < nextDist

LEMMA JobKeepsName ==
  ASSUME TypeOK, TypeOK', NEW j \in Jobs, JobStep(j), NEW n \in Names, OneName(n)
  PROVE  OneName(n)'
<1>0. /\ job \in [Jobs -> Deployment] /\ JobOK(job[j])
      /\ None \notin App /\ None \notin Infra /\ None \notin Names
      /\ infra \in Infra \cup {None} /\ app \in App \cup {None}
      /\ origin \in [Dists -> Names \cup {None}] /\ nextDist \in Nat /\ Dists \subseteq Nat
  BY InfraAssumption DEF TypeOK, Dists
<1>1. UNCHANGED patch /\ \A k \in Jobs \ {j} : job'[k] = job[k]
  BY JobMoves
<1> SUFFICES /\ app' # None => app'.name = n
             /\ infra' # None => infra'.bucket = n
             /\ job'[j].app # None => job'[j].app.name = n
             /\ job'[j].bucket # None => job'[j].bucket = n
             /\ \A d \in Dists : d < nextDist' => origin'[d] = n
  BY <1>1 DEF OneName
<1>2. /\ app # None => app.name = n
      /\ infra # None => infra.bucket = n
      /\ job[j].app # None => job[j].app.name = n
      /\ job[j].bucket # None => job[j].bucket = n
      /\ \A d \in Dists : d < nextDist => origin[d] = n
  BY DEF OneName
<1>3. CASE StartDeployment(j)
  BY <1>0, <1>2, <1>3 DEF StartDeployment, rows, cloud, Deployment
<1>4. CASE ReadInfra(j)
  BY <1>0, <1>2, <1>4 DEF ReadInfra, rows, cloud, Deployment, JobOK
<1>5. CASE EnsureBucket(j) \/ KeepDistribution(j) \/ UpdateFindsNoApp(j) \/ Build(j)
           \/ Upload(j) \/ JobFails(j)
  BY <1>0, <1>2, <1>5 DEF EnsureBucket, KeepDistribution, UpdateFindsNoApp, Build,
     Upload, JobFails, rows, cloud, Deployment
<1>6. CASE CreateDistribution(j)
  <2>1. origin' = [origin EXCEPT ![nextDist] = job[j].bucket] /\ nextDist' = nextDist + 1
        /\ nextDist \in Dists /\ job[j].bucket = n
    BY <1>0, <1>2, <1>6 DEF CreateDistribution, JobOK
  <2>2. \A d \in Dists : d < nextDist' => origin'[d] = n
    BY <1>0, <1>2, <2>1
  <2>3. job'[j].app = job[j].app /\ job'[j].bucket = job[j].bucket /\ UNCHANGED <<app, infra>>
    BY <1>0, <1>6 DEF CreateDistribution, rows, Deployment
  <2> QED BY <1>2, <2>2, <2>3
<1>7. CASE UpsertAppInfraOutput(j)
  BY <1>0, <1>2, <1>7 DEF UpsertAppInfraOutput, cloud, Deployment, JobOK
<1>8. CASE UpdateAppForUser(j)
  BY <1>0, <1>2, <1>8 DEF UpdateAppForUser, cloud, Deployment, JobOK, App
<1> QED BY <1>3, <1>4, <1>5, <1>6, <1>7, <1>8 DEF JobStep

LEMMA PatchKeepsName ==
  ASSUME TypeOK, TypeOK', NEW p \in Patches, PatchStep(p), NoRename',
         NEW n \in Names, OneName(n)
  PROVE  OneName(n)'
<1>0. /\ patch \in [Patches -> Patching] /\ PatchOK(patch[p])
      /\ None \notin App /\ None \notin Infra
      /\ infra \in Infra \cup {None} /\ app \in App \cup {None}
  BY InfraAssumption DEF TypeOK
<1>1. UNCHANGED job /\ \A k \in Patches \ {p} : patch'[k] = patch[k]
  BY PatchMoves
<1>2. UNCHANGED <<origin, nextDist>>
  BY DEF PatchStep, ReadForPatch, ReadForOutputs, WritePatch, PatchReadsInfra,
     PatchWritesInfra, PatchFails, cloud
<1> SUFFICES /\ app' # None => app'.name = n
             /\ infra' # None => infra'.bucket = n
             /\ patch'[p].app # None => patch'[p].app.name = n
  BY <1>1, <1>2 DEF OneName
<1>3. /\ app # None => app.name = n
      /\ infra # None => infra.bucket = n
      /\ patch[p].app # None => patch[p].app.name = n
  BY DEF OneName
<1>4. CASE ReadForPatch(p)
  <2>1. PICK f \in {"name", "setting"}, a \in App :
          /\ patch' = [patch EXCEPT ![p] = [@ EXCEPT !.pc = "write", !.field = f, !.app = a]]
          /\ a.name = app.name \/ f = "name"
    BY <1>4, MergedRow
  <2>2. patch'[p].field = f /\ patch'[p].app = a
    BY <1>0, <2>1 DEF Patching
  <2>3. f # "name"
    BY <2>2 DEF NoRename
  <2> QED BY <1>3, <1>4, <2>1, <2>2, <2>3 DEF ReadForPatch, rows
<1>5. CASE ReadForOutputs(p)
  BY <1>0, <1>3, <1>5 DEF ReadForOutputs, rows, Patching
<1>6. CASE WritePatch(p)
  BY <1>0, <1>3, <1>6 DEF WritePatch, Patching, PatchOK
<1>7. CASE PatchReadsInfra(p)
  BY <1>0, <1>3, <1>7 DEF PatchReadsInfra, rows, Patching
<1>8. CASE PatchWritesInfra(p)
  BY <1>0, <1>3, <1>8 DEF PatchWritesInfra, Patching, PatchOK
<1>9. CASE PatchFails(p)
  BY <1>0, <1>3, <1>9 DEF PatchFails, rows, Patching
<1> QED BY <1>4, <1>5, <1>6, <1>7, <1>8, <1>9 DEF PatchStep

LEMMA OthersKeepName ==
  ASSUME TypeOK, DeleteStep \/ Crash \/ UNCHANGED vars, NEW n \in Names, OneName(n)
  PROVE  OneName(n)'
<1>1. /\ app # None => app.name = n
      /\ infra # None => infra.bucket = n
      /\ \A j \in Jobs : /\ job[j].app # None => job[j].app.name = n
                         /\ job[j].bucket # None => job[j].bucket = n
      /\ \A p \in Patches : patch[p].app # None => patch[p].app.name = n
      /\ \A d \in Dists : d < nextDist => origin[d] = n
  BY DEF OneName
<1>2. UNCHANGED <<origin, nextDist>>
  BY DEF DeleteStep, StartDelete, TeardownReads, DisableDistribution, DeleteDistribution,
     EmptyAndDeleteBucket, DeleteRows, DeleteFails, Crash, actors, cloud, vars
<1>3. UNCHANGED <<app, infra>> \/ (app' = None /\ infra' = None)
  BY DEF DeleteStep, StartDelete, TeardownReads, DisableDistribution, DeleteDistribution,
     EmptyAndDeleteBucket, DeleteRows, DeleteFails, Crash, rows, vars
<1>4. /\ \A j \in Jobs : job'[j].app = job[j].app /\ job'[j].bucket = job[j].bucket
      /\ \A p \in Patches : patch'[p].app = patch[p].app
  <2>1. CASE UNCHANGED <<job, patch>>
    BY <2>1
  <2>2. CASE Crash
    BY <2>2 DEF Crash, TypeOK, Deployment, Patching
  <2> QED BY <2>1, <2>2 DEF DeleteStep, StartDelete, TeardownReads, DisableDistribution,
          DeleteDistribution, EmptyAndDeleteBucket, DeleteRows, DeleteFails, actors, vars
<1> SUFFICES /\ app' # None => app'.name = n
             /\ infra' # None => infra'.bucket = n
             /\ \A j \in Jobs : /\ job'[j].app # None => job'[j].app.name = n
                                /\ job'[j].bucket # None => job'[j].bucket = n
             /\ \A p \in Patches : patch'[p].app # None => patch'[p].app.name = n
             /\ \A d \in Dists : d < nextDist' => origin'[d] = n
  BY DEF OneName
<1>5. \A d \in Dists : d < nextDist' => origin'[d] = n
  BY <1>1, <1>2
<1>6. (app' # None => app'.name = n) /\ (infra' # None => infra'.bucket = n)
  BY <1>1, <1>3
<1>7. /\ \A j \in Jobs : /\ job'[j].app # None => job'[j].app.name = n
                         /\ job'[j].bucket # None => job'[j].bucket = n
      /\ \A p \in Patches : patch'[p].app # None => patch'[p].app.name = n
  BY <1>1, <1>4
<1> QED BY <1>5, <1>6, <1>7

\* A patch that has not begun has no field.
IdleFields == \A p \in Patches : patch[p].pc = "idle" => patch[p].field # "name"

LEMMA PatchField ==
  ASSUME TypeOK, NEW p \in Patches, PatchStep(p)
  PROVE  /\ patch'[p].pc # "idle"
         /\ patch[p].pc = "idle" \/ patch'[p].field = patch[p].field
<1>0. patch \in [Patches -> Patching]
  BY DEF TypeOK
<1>1. CASE ReadForPatch(p)
  <2>1. PICK f \in {"name", "setting"}, a \in App :
          patch' = [patch EXCEPT ![p] = [@ EXCEPT !.pc = "write", !.field = f, !.app = a]]
    BY <1>1, MergedRow
  <2>2. patch'[p].pc = "write"
    BY <1>0, <2>1 DEF Patching
  <2> QED BY <1>1, <2>2 DEF ReadForPatch
<1>2. CASE ~ReadForPatch(p)
  BY <1>0, <1>2 DEF PatchStep, ReadForOutputs, WritePatch, PatchReadsInfra,
     PatchWritesInfra, PatchFails, Patching
<1> QED BY <1>1, <1>2

\* Once a patch was sent for the name it stays so.
LEMMA RenamesStay ==
  ASSUME TypeOK, TypeOK', IdleFields, [Next]_vars
  PROVE  IdleFields' /\ (NoRename' => NoRename)
<1>1. ASSUME NEW p \in Patches, PatchStep(p) PROVE IdleFields' /\ (NoRename' => NoRename)
  BY <1>1, PatchMoves, PatchField DEF IdleFields, NoRename
<1>2. ASSUME UNCHANGED patch PROVE IdleFields' /\ (NoRename' => NoRename)
  BY <1>2 DEF IdleFields, NoRename
<1>3. ASSUME Crash PROVE IdleFields' /\ (NoRename' => NoRename)
  <2>1. \A p \in Patches : /\ patch'[p].field = patch[p].field
                           /\ patch'[p].pc = "idle" => patch[p].pc = "idle"
    BY <1>3 DEF Crash, TypeOK, Patching
  <2> QED BY <2>1 DEF IdleFields, NoRename
<1> QED BY <1>1, <1>2, <1>3, JobMoves, DeleteMoves DEF Next, vars

LEMMA DistStaysKnown ==
  ASSUME TypeOK, TypeOK', NEW j \in Jobs, DistIsKnown(j), [Next]_vars
  PROVE  DistIsKnown(j)'
<1>0. /\ job \in [Jobs -> Deployment] /\ nextDist \in Nat /\ Dists \subseteq Nat
      /\ \A d \in alive : d < nextDist
  BY InfraAssumption DEF TypeOK, Dists
<1>1. ASSUME nextDist' = nextDist \/ nextDist' = nextDist + 1,
             job'[j] = job[j] \/ job'[j].pc = "failed"
      PROVE  DistIsKnown(j)'
  <2>1. job[j].dist \in {0} \cup Dists
    BY <1>0 DEF Deployment
  <2>2. 0 \in Nat
    OBVIOUS
  <2>3. job[j].dist \in Nat
    BY <2>1, <2>2, <1>0, Zenon
  <2> QED BY <1>0, <1>1, <2>3 DEF DistIsKnown
<1>2. ASSUME NEW k \in Jobs \ {j}, JobStep(k) PROVE DistIsKnown(j)'
  <2>1. job'[j] = job[j]
    BY <1>2, JobMoves
  <2>2. nextDist' = nextDist \/ nextDist' = nextDist + 1
    BY <1>2 DEF JobStep, StartDeployment, ReadInfra, EnsureBucket, KeepDistribution,
       CreateDistribution, UpsertAppInfraOutput, UpdateAppForUser, UpdateFindsNoApp, Build,
       Upload, JobFails, cloud
  <2> QED BY <1>1, <2>1, <2>2
<1>3. ASSUME JobStep(j) PROVE DistIsKnown(j)'
  <2>1. CASE KeepDistribution(j)
    BY <1>0, <2>1 DEF KeepDistribution, DistIsKnown, Deployment, cloud
  <2>2. CASE CreateDistribution(j)
    BY <1>0, <2>2 DEF CreateDistribution, DistIsKnown, Deployment
  <2>3. CASE UpsertAppInfraOutput(j) \/ UpdateAppForUser(j) \/ UpdateFindsNoApp(j) \/ Build(j)
    BY <1>0, <2>3 DEF UpsertAppInfraOutput, UpdateAppForUser, UpdateFindsNoApp, Build,
       DistIsKnown, Deployment, cloud
  <2>4. CASE Upload(j) \/ JobFails(j)
    BY <1>0, <2>4 DEF Upload, JobFails, DistIsKnown, Deployment
  <2>5. CASE StartDeployment(j) \/ ReadInfra(j) \/ EnsureBucket(j)
    BY <1>0, <2>5 DEF StartDeployment, ReadInfra, EnsureBucket, DistIsKnown, Deployment
  <2> QED BY <1>3, <2>1, <2>2, <2>3, <2>4, <2>5 DEF JobStep
<1>4. ASSUME NEW p \in Patches, PatchStep(p) PROVE DistIsKnown(j)'
  <2>1. job' = job /\ nextDist' = nextDist
    BY <1>4 DEF PatchStep, ReadForPatch, ReadForOutputs, WritePatch, PatchReadsInfra,
       PatchWritesInfra, PatchFails, cloud
  <2> QED BY <1>1, <2>1
<1>5. ASSUME DeleteStep PROVE DistIsKnown(j)'
  <2>1. job' = job /\ nextDist' = nextDist
    BY <1>5 DEF DeleteStep, StartDelete, TeardownReads, DisableDistribution,
       DeleteDistribution, EmptyAndDeleteBucket, DeleteRows, DeleteFails, actors, cloud
  <2> QED BY <1>1, <2>1
<1>6. ASSUME Crash PROVE DistIsKnown(j)'
  <2>1. job'[j] = job[j] \/ job'[j].pc = "failed"
    BY <1>0, <1>6 DEF Crash, Deployment
  <2> QED BY <1>1, <1>6, <2>1 DEF Crash, cloud
<1>7. ASSUME UNCHANGED vars PROVE DistIsKnown(j)'
  BY <1>1, <1>7 DEF vars
<1> QED BY <1>2, <1>3, <1>4, <1>5, <1>6, <1>7 DEF Next

NameInv ==
  /\ IdleFields
  /\ \A j \in Jobs : DistIsKnown(j)
  /\ NoRename => \E n \in Names : OneName(n)

LEMMA NameInit == Init => NameInv
<1> SUFFICES ASSUME Init PROVE NameInv
  OBVIOUS
<1>1. app \in App /\ app # None /\ app.name \in Names
  BY InfraAssumption DEF Init, App
<1>2. OneName(app.name)
  BY <1>1 DEF Init, OneName, NewJob, NewPatch, Dists
<1>3. IdleFields /\ \A j \in Jobs : DistIsKnown(j)
  BY DEF Init, IdleFields, DistIsKnown, NewJob, NewPatch
<1> QED BY <1>1, <1>2, <1>3 DEF NameInv

LEMMA NameStep == TypeOK /\ TypeOK' /\ NameInv /\ [Next]_vars => NameInv'
<1> SUFFICES ASSUME TypeOK, TypeOK', NameInv, [Next]_vars PROVE NameInv'
  OBVIOUS
<1>1. IdleFields' /\ (NoRename' => NoRename)
  BY RenamesStay DEF NameInv
<1>2. \A j \in Jobs : DistIsKnown(j)'
  BY DistStaysKnown DEF NameInv
<1>3. ASSUME NoRename' PROVE \E n \in Names : OneName(n)'
  <2>1. PICK n \in Names : OneName(n)
    BY <1>1, <1>3 DEF NameInv
  <2>2. OneName(n)'
    BY <1>3, <2>1, JobKeepsName, PatchKeepsName, OthersKeepName DEF Next
  <2> QED BY <2>2
<1> QED BY <1>1, <1>2, <1>3 DEF NameInv

(***************************************************************************)
(* Until somebody sends another name, the site of a finished deployment    *)
(* serves the bucket it uploaded to, whatever overlaps, fails or is        *)
(* deleted: only a rename separates the two.                               *)
(***************************************************************************)
THEOREM UnrenamedAppsServeUploads == Spec => [](NoRename => ServesWhatItUploads)
<1>1. TypeOK /\ NameInv => (NoRename => ServesWhatItUploads)
  <2> SUFFICES ASSUME TypeOK, NameInv, NoRename, NEW j \in Jobs, job[j].pc = "deployed"
               PROVE  origin[job[j].dist] = job[j].bucket
    BY DEF ServesWhatItUploads
  <2>1. PICK n \in Names : OneName(n)
    BY DEF NameInv
  <2>2. job[j].bucket \in Names /\ job[j].dist \in Dists /\ None \notin Names
    BY InfraAssumption DEF TypeOK, JobOK
  <2> QED BY <2>1, <2>2 DEF OneName, NameInv, DistIsKnown
<1> QED BY <1>1, NameInit, NameStep, TypeCorrect, PTL DEF Spec

(***************************************************************************)
(* Between requests of an application that was never renamed, nothing is   *)
(* left in the cloud once it is deleted, if the requests did not overlap   *)
(* and no call failed.                                                     *)
(***************************************************************************)
THEOREM OrderlyDeletesLeaveNothing ==
  Spec => [](orderly /\ faults = 0 /\ NoRename => NothingLeftBehind)
<1>1. KeptInv => (orderly /\ faults = 0 /\ NoRename => NothingLeftBehind)
  BY DEF KeptInv, Named, Kept, RecordedDist, NothingLeftBehind
<1> QED BY <1>1, KeptCorrect, PTL

-----------------------------------------------------------------------------
(***************************************************************************)
(* A site that shows no deployment.                                        *)
(***************************************************************************)
\* Deployment j has put its start page on bucket b and no upload of its own since.
Stranded(b) ==
  \E j \in Jobs : /\ job[j].bucket = b
                  /\ job[j].pc \in {"dist", "upsert", "update", "build", "upload", "failed"}

HasACause(b) ==
  b \in buckets => content[b] \in Jobs \/ (content[b] = "none" /\ faults > 0) \/ Stranded(b)

\* A deployment past its start page stays past it until its upload ends it.
LEMMA StrandedStays ==
  ASSUME TypeOK, TypeOK', [Next]_vars, NEW b \in Names, Stranded(b)
  PROVE  Stranded(b)' \/ content'[b] \in Jobs
<1>0. job \in [Jobs -> Deployment] /\ content \in [Names -> {"none", "placeholder"} \cup Jobs]
  BY DEF TypeOK
<1>1. PICK j \in Jobs :
        /\ job[j].bucket = b
        /\ job[j].pc \in {"dist", "upsert", "update", "build", "upload", "failed"}
  BY DEF Stranded
<1>2. CASE job'[j] = job[j]
  BY <1>1, <1>2 DEF Stranded
<1>3. CASE Crash
  <2>1. job'[j] = job[j] \/ job'[j] = [job[j] EXCEPT !.pc = "failed"]
    BY <1>3 DEF Crash
  <2>2. job'[j].bucket = b
        /\ job'[j].pc \in {"dist", "upsert", "update", "build", "upload", "failed"}
    BY <1>0, <1>1, <2>1 DEF Deployment
  <2> QED BY <2>2 DEF Stranded
<1>4. CASE JobStep(j)
  <2>1. CASE Upload(j)
    <3>1. CASE b \in buckets
      BY <1>0, <1>1, <2>1, <3>1 DEF Upload
    <3>2. CASE b \notin buckets
      <4>1. job'[j].bucket = b /\ job'[j].pc = "failed"
        BY <1>0, <1>1, <2>1, <3>2 DEF Upload, Deployment
      <4> QED BY <4>1 DEF Stranded
    <3> QED BY <3>1, <3>2
  <2>2. CASE ~Upload(j)
    <3>1. job'[j].bucket = b
          /\ job'[j].pc \in {"dist", "upsert", "update", "build", "upload", "failed"}
      BY <1>0, <1>1, <1>4, <2>2 DEF JobStep, StartDeployment, ReadInfra, EnsureBucket,
         KeepDistribution, CreateDistribution, UpsertAppInfraOutput, UpdateAppForUser,
         UpdateFindsNoApp, Build, JobFails, Deployment
    <3> QED BY <3>1 DEF Stranded
  <2> QED BY <2>1, <2>2
<1> QED BY <1>2, <1>3, <1>4, JobMoves, PatchMoves, DeleteMoves DEF Next, vars

\* What a step may do to a bucket: besides an upload, only a deployment that is
\* about to be past its start page or a failing teardown touches a bucket that stays.
LEMMA BucketWriters ==
  ASSUME TypeOK, TypeOK', [Next]_vars, NEW b \in Names, b \in buckets'
  PROVE  \/ b \in buckets /\ content'[b] = content[b]
         \/ content'[b] \in Jobs
         \/ content'[b] = "none" /\ faults' > 0
         \/ Stranded(b)'
<1>0. /\ job \in [Jobs -> Deployment] /\ faults \in Nat
      /\ content \in [Names -> {"none", "placeholder"} \cup Jobs]
      /\ \A j \in Jobs : JobOK(job[j])
  BY InfraAssumption DEF TypeOK
<1>1. CASE UNCHANGED <<buckets, content>>
  BY <1>1
<1>2. ASSUME NEW j \in Jobs, JobStep(j), ~UNCHANGED <<buckets, content>>
      PROVE  content'[b] \in Jobs \/ Stranded(b)' \/ (b \in buckets /\ content'[b] = content[b])
  <2>1. CASE EnsureBucket(j)
    <3>1. CASE b = job[j].bucket
      <4>1. job'[j].bucket = b /\ job'[j].pc = "dist"
        BY <1>0, <2>1, <3>1 DEF EnsureBucket, Deployment
      <4> QED BY <4>1 DEF Stranded
    <3>2. CASE b # job[j].bucket
      BY <1>0, <2>1, <3>2 DEF EnsureBucket
    <3> QED BY <3>1, <3>2
  <2>2. CASE Upload(j) \/ JobFails(j)
    <3>1. buckets' = buckets
          /\ (content' = content \/ content' = [content EXCEPT ![job[j].bucket] = j])
      BY <2>2 DEF Upload, JobFails
    <3> QED BY <1>0, <3>1
  <2> QED BY <1>2, <2>1, <2>2 DEF JobStep, StartDeployment, ReadInfra, KeepDistribution,
          CreateDistribution, UpsertAppInfraOutput, UpdateAppForUser, UpdateFindsNoApp,
          Build, cloud
<1>3. ASSUME NEW p \in Patches, PatchStep(p) PROVE UNCHANGED <<buckets, content>>
  BY <1>3 DEF PatchStep, ReadForPatch, ReadForOutputs, WritePatch, PatchReadsInfra,
     PatchWritesInfra, PatchFails, cloud
<1>4. CASE DeleteStep
  <2>1. CASE EmptyAndDeleteBucket
    BY <1>0, <2>1 DEF EmptyAndDeleteBucket
  <2>2. CASE DeleteFails
    <3>1. content' = content \/ content' = [content EXCEPT ![del.bucket] = "none"]
      BY <2>2 DEF DeleteFails
    <3>2. buckets' = buckets /\ faults' > 0
      BY <1>0, <2>2 DEF DeleteFails, Fault
    <3> QED BY <1>0, <3>1, <3>2
  <2> QED BY <1>4, <2>1, <2>2, <1>1 DEF DeleteStep, StartDelete, TeardownReads,
          DisableDistribution, DeleteDistribution, DeleteRows, cloud
<1>5. CASE Crash
  BY <1>1, <1>5 DEF Crash, cloud
<1> QED BY <1>1, <1>2, <1>3, <1>4, <1>5 DEF Next, vars

LEMMA CauseStep ==
  TypeOK /\ TypeOK' /\ EmptySiteHasACause /\ [Next]_vars => EmptySiteHasACause'
<1> SUFFICES ASSUME TypeOK, TypeOK', EmptySiteHasACause, [Next]_vars, NEW b \in Names
             PROVE  HasACause(b)'
  BY DEF TypeOK, EmptySiteHasACause, HasACause, Stranded
<1>1. HasACause(b)
  BY DEF EmptySiteHasACause, HasACause, Stranded
<1>2. faults > 0 => faults' > 0
  BY InfraAssumption, FaultsOnlyGrow DEF TypeOK
<1> QED BY <1>1, <1>2, StrandedStays, BucketWriters DEF HasACause

(***************************************************************************)
(* EmptySiteHasACause holds with any number of deployments, patches and    *)
(* deletions at any time.                                                  *)
(***************************************************************************)
THEOREM EmptySitesHaveACause == Spec => []EmptySiteHasACause
<1>1. Init => EmptySiteHasACause
  BY DEF Init, EmptySiteHasACause
<1> QED BY <1>1, CauseStep, TypeCorrect, PTL DEF Spec

(***************************************************************************)
(* So a failed deployment is the only way the site of an earlier one is    *)
(* lost while no call fails: as long as every deployment succeeds, between *)
(* requests every bucket that was deployed to shows a deployment.          *)
(***************************************************************************)
THEOREM SuccessfulDeploysKeepSites ==
  Spec => [](faults = 0 /\ (\A j \in Jobs : job[j].pc # "failed") => FailedDeployKeepsSite)
<1>1. EmptySiteHasACause /\ TypeOK =>
        (faults = 0 /\ (\A j \in Jobs : job[j].pc # "failed") => FailedDeployKeepsSite)
  BY ActiveJobs DEF EmptySiteHasACause, FailedDeployKeepsSite, Active
<1> QED BY <1>1, EmptySitesHaveACause, TypeCorrect, PTL
=============================================================================
