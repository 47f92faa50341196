------------------------ MODULE DeployPipelineProofs ------------------------
(***************************************************************************)
(* Proofs about DeployPipeline, for any deployments, branches, commits,    *)
(* keys, layouts, page size and bounds: types, that the loops of a sync    *)
(* end, which commit a push deploys, which directory is published, and     *)
(* what syncs leave in the bucket.                                         *)
(***************************************************************************)
EXTENDS DeployPipeline, FiniteSetTheorems, WellFoundedInduction, TLAPS

-----------------------------------------------------------------------------
(***************************************************************************)
(* Sets of keys, and their pages.                                          *)
(***************************************************************************)
LEMMA KeyFacts ==
  /\ Cardinality(Keys) \in Nat /\ Keys = 1 .. Cardinality(Keys) /\ Keys \subseteq Nat
  /\ \A S \in SUBSET Keys : IsFiniteSet(S) /\ Cardinality(S) \in 0 .. Cardinality(Keys)
<1>1. Cardinality(Keys) \in Nat /\ Keys = 1 .. Cardinality(Keys)
  BY PipelineAssumption, FS_CardinalityType
<1>2. ASSUME NEW S \in SUBSET Keys
      PROVE  IsFiniteSet(S) /\ Cardinality(S) \in 0 .. Cardinality(Keys)
  <2>1. IsFiniteSet(S) /\ Cardinality(S) <= Cardinality(Keys)
    BY PipelineAssumption, FS_Subset
  <2>2. Cardinality(S) \in Nat
    BY <2>1, FS_CardinalityType
  <2> QED BY <1>1, <2>1, <2>2
<1> QED BY <1>1, <1>2

LEMMA CommitFacts ==
  /\ Cardinality(Commits) \in Nat /\ Commits = 1 .. Cardinality(Commits)
  /\ \A n \in Commits : n \in Nat /\ n # 0 /\ 1 .. n \subseteq Commits
<1>1. Cardinality(Commits) \in Nat /\ Commits = 1 .. Cardinality(Commits)
  BY PipelineAssumption, FS_CardinalityType
<1>2. ASSUME NEW n \in Commits PROVE n \in Nat /\ n # 0 /\ 1 .. n \subseteq Commits
  BY <1>1
<1> QED BY <1>1, <1>2

LEMMA SmallestNumber ==
  ASSUME NEW S \in SUBSET Nat, S # {}
  PROVE  \E k \in S : \A m \in S : k <= m
<1> DEFINE R == {ss \in Nat \X Nat : ss[1] < ss[2]}
<1>1. IsWellFoundedOn(R, Nat)
  BY NatLessThanWellFounded DEF OpToRel
<1> HIDE DEF R
<1>2. PICK k \in S : \A m \in S : ~(<<m, k>> \in R)
  BY <1>1, WFMin
<1>3. \A m \in S : m \in Nat /\ k \in Nat /\ ~(m < k)
  BY <1>2 DEF R
<1> QED BY <1>3

LEMMA SmallestKey ==
  ASSUME NEW S \in SUBSET Keys, S # {}
  PROVE  FirstOf(S) \in S /\ \A m \in S : FirstOf(S) <= m
<1>1. S \in SUBSET Nat
  BY KeyFacts
<1>2. \E k \in S : \A m \in S : k <= m
  BY <1>1, SmallestNumber
<1> QED BY <1>2 DEF FirstOf

LEMMA LargestKey ==
  ASSUME NEW S \in SUBSET Keys, S # {}
  PROVE  LET k == CHOOSE k \in S : \A m \in S : m <= k
         IN  k \in S /\ \A m \in S : m <= k
<1> DEFINE n == Cardinality(Keys)
           T == {n - k : k \in S}
<1>1. n \in Nat /\ \A k \in S : k \in Nat /\ k <= n
  BY KeyFacts
<1> HIDE DEF n
<1>2. T \in SUBSET Nat /\ T # {}
  BY <1>1
<1>3. PICK t \in T : \A u \in T : t <= u
  BY <1>2, SmallestNumber
<1>4. PICK k \in S : t = n - k
  BY <1>3
<1>5. ASSUME NEW m \in S PROVE m <= k
  <2>1. t <= n - m
    BY <1>3
  <2> QED BY <1>1, <1>4, <2>1
<1> QED BY <1>5

\* A page is a first part of its set, and not empty unless the set is.
LEMMA PageFacts ==
  ASSUME NEW S \in SUBSET Keys
  PROVE  /\ Page(S) \subseteq S
         /\ S # {} => Page(S) # {}
         /\ \A k \in Page(S), m \in S : m <= k => m \in Page(S)
<1>0. PageSize \in Nat \ {0} /\ \A k \in S : k \in Nat
  BY PipelineAssumption, KeyFacts
<1>1. Page(S) \subseteq S
  BY DEF Page
<1>2. ASSUME S # {} PROVE Page(S) # {}
  <2> DEFINE k == FirstOf(S)
  <2>1. k \in S /\ \A m \in S : k <= m
    BY <1>2, SmallestKey
  <2> HIDE DEF k
  <2>2. {m \in S : m <= k} = {k}
    BY <1>0, <2>1
  <2>3. Cardinality({m \in S : m <= k}) = 1
    BY <2>2, FS_Singleton
  <2>4. k \in Page(S)
    BY <1>0, <2>1, <2>3 DEF Page
  <2> QED BY <2>4
<1>3. ASSUME NEW k \in Page(S), NEW m \in S, m <= k PROVE m \in Page(S)
  <2> DEFINE K == {q \in S : q <= k}
             M == {q \in S : q <= m}
  <2>1. k \in S /\ Cardinality(K) <= PageSize
    BY DEF Page
  <2>2. M \in SUBSET K /\ K \in SUBSET Keys /\ M \in SUBSET Keys
    BY <1>0, <1>3, <2>1
  <2>3. IsFiniteSet(K) /\ Cardinality(K) \in Nat /\ Cardinality(M) \in Nat
    BY <2>2, KeyFacts
  <2>4. Cardinality(M) <= Cardinality(K)
    BY <2>2, <2>3, FS_Subset
  <2>5. Cardinality(M) <= PageSize
    BY <1>0, <2>1, <2>3, <2>4
  <2> QED BY <2>5 DEF Page
<1> QED BY <1>1, <1>2, <1>3

-----------------------------------------------------------------------------
(***************************************************************************)
(* The artifacts of a commit are keys.                                     *)
(***************************************************************************)
LEMMA FallbackFacts ==
  ASSUME NEW S \in SUBSET {Fallbacks[i] : i \in DOMAIN Fallbacks}, S # {}
  PROVE  /\ FirstFallback(S) \in S
         /\ \E k \in DOMAIN Fallbacks :
              /\ FirstFallback(S) = Fallbacks[k]
              /\ \A i \in DOMAIN Fallbacks : Fallbacks[i] \in S => k <= i
<1> DEFINE I == {i \in DOMAIN Fallbacks : Fallbacks[i] \in S}
           First(i) == Fallbacks[i] \in S /\ \A m \in 1 .. i - 1 : Fallbacks[m] \notin S
           k == CHOOSE i \in DOMAIN Fallbacks : First(i)
<1>1. DOMAIN Fallbacks = 1 .. 4
  BY DEF Fallbacks
<1>2. I \in SUBSET Nat /\ I # {}
  BY <1>1
<1>3. PICK i \in I : \A m \in I : i <= m
  BY <1>2, SmallestNumber
<1>4. First(i)
  BY <1>1, <1>3
<1>5. k \in DOMAIN Fallbacks /\ First(k)
  BY <1>3, <1>4
<1>6. FirstFallback(S) = Fallbacks[k]
  BY DEF FirstFallback
<1> HIDE DEF k
<1>7. ASSUME NEW m \in DOMAIN Fallbacks, Fallbacks[m] \in S PROVE k <= m
  BY <1>1, <1>5, <1>7
<1> QED BY <1>5, <1>6, <1>7

LEMMA ArtifactFacts ==
  ASSUME NEW c \in Commits
  PROVE  Artifacts(c) \subseteq Keys
<1> DEFINE f == Layout(c)
           d == ArtifactDirectory(f)
<1>1. f \in Layouts
  BY PipelineAssumption DEF Layout, RepoType
<1>2. PICK D \in SUBSET Dirs : "." \in D /\ f \in [D -> SUBSET Keys]
  BY <1>1 DEF Layouts
<1>3. d = "" \/ d \in D
  <2> DEFINE present == {Fallbacks[i] : i \in DOMAIN Fallbacks} \cap DOMAIN f
             indexed == {e \in present : IndexKey \in f[e]}
  <2> HIDE DEF f
  <2>1. CASE OutputDir \in DOMAIN f
    BY <1>2, <2>1 DEF ArtifactDirectory
  <2>2. CASE OutputDir \notin DOMAIN f /\ indexed # {}
    <3>1. d = FirstFallback(indexed)
      BY <2>2 DEF ArtifactDirectory
    <3>2. FirstFallback(indexed) \in indexed
      BY <2>2, FallbackFacts
    <3> QED BY <1>2, <3>1, <3>2
  <2>3. CASE OutputDir \notin DOMAIN f /\ indexed = {} /\ present # {}
    <3>1. d = FirstFallback(present)
      BY <2>3 DEF ArtifactDirectory
    <3>2. FirstFallback(present) \in present
      BY <2>3, FallbackFacts
    <3> QED BY <1>2, <3>1, <3>2
  <2>4. CASE OutputDir \notin DOMAIN f /\ indexed = {} /\ present = {}
    <3>1. d \in {".", ""}
      BY <2>4 DEF ArtifactDirectory
    <3> QED BY <1>2, <3>1
  <2> QED BY <2>1, <2>2, <2>3, <2>4
<1> QED BY <1>2, <1>3 DEF Artifacts

-----------------------------------------------------------------------------
(***************************************************************************)
(* The choice of the artifact directory.                                   *)
(***************************************************************************)
IsFallback(d) == \E i \in DOMAIN Fallbacks : d = Fallbacks[i]
Nowhere == ""

\* Of the fallbacks of layout f, number k is as good as number i.
AsGood(f, k, i) ==
  \/ IndexKey \in f[Fallbacks[k]] /\ IndexKey \notin f[Fallbacks[i]]
  \/ (IndexKey \in f[Fallbacks[k]] <=> IndexKey \in f[Fallbacks[i]]) /\ k <= i

LEMMA FallbacksAreNames ==
  /\ DOMAIN Fallbacks = 1 .. 4
  /\ \A i \in DOMAIN Fallbacks : Fallbacks[i] # "." /\ Fallbacks[i] # Nowhere
  /\ "." # Nowhere
<1>1. DOMAIN Fallbacks = 1 .. 4 /\ \A i \in 1 .. 4 : Fallbacks[i] # "."
  BY DEF Fallbacks
<1>2. \A i \in 1 .. 4 : Fallbacks[i] \in {"dist", "build", "out", "public"}
  BY DEF Fallbacks
<1>3. "." # Nowhere /\ \A d \in {"dist", "build", "out", "public"} : d # Nowhere
  BY Zenon DEF Nowhere
<1> QED BY <1>1, <1>2, <1>3

LEMMA DirectoryIsBestIn ==
  ASSUME NEW f, NEW S \in SUBSET DOMAIN f, NEW d, S # {},
         \A e \in S : IsFallback(e), d = FirstFallback(S),
         \A i, k \in DOMAIN Fallbacks :
           Fallbacks[k] \in S /\ Fallbacks[i] \in DOMAIN f =>
             \/ IndexKey \in f[Fallbacks[k]] /\ IndexKey \notin f[Fallbacks[i]]
             \/ Fallbacks[i] \in S /\
                (IndexKey \in f[Fallbacks[k]] <=> IndexKey \in f[Fallbacks[i]])
  PROVE  /\ d \in DOMAIN f /\ IsFallback(d) /\ d # "." /\ d # Nowhere
         /\ \E k \in DOMAIN Fallbacks : d = Fallbacks[k] /\
              \A i \in DOMAIN Fallbacks : Fallbacks[i] \in DOMAIN f => AsGood(f, k, i)
<1>1. S \in SUBSET {Fallbacks[i] : i \in DOMAIN Fallbacks}
  BY DEF IsFallback
<1>2. d \in S
  BY <1>1, FallbackFacts
<1>3. PICK k \in DOMAIN Fallbacks :
        d = Fallbacks[k] /\ \A i \in DOMAIN Fallbacks : Fallbacks[i] \in S => k <= i
  BY <1>1, FallbackFacts
<1>4. ASSUME NEW i \in DOMAIN Fallbacks, Fallbacks[i] \in DOMAIN f PROVE AsGood(f, k, i)
  BY <1>2, <1>3, <1>4 DEF AsGood
<1>5. d # "." /\ d # Nowhere
  BY <1>3, FallbacksAreNames
<1> QED BY <1>2, <1>3, <1>4, <1>5

(***************************************************************************)
(* A configured directory that was built is the one that is deployed.      *)
(* Without it the choice of resolveArtifactDirectory is the best of the    *)
(* fallbacks: one with a start page before one without, among equals the   *)
(* first of the list; the root only with a start page and without any of   *)
(* them; and the deployment fails only when there is nothing to choose.    *)
(***************************************************************************)
THEOREM ArtifactDirectoryIsBest ==
  ASSUME NEW f \in Layouts
  PROVE  LET d == ArtifactDirectory(f) IN
         /\ OutputDir \in DOMAIN f => d = OutputDir
         /\ OutputDir \notin DOMAIN f =>
              IF \E e \in DOMAIN f : IsFallback(e)
              THEN \E k \in DOMAIN Fallbacks : d = Fallbacks[k] /\ d \in DOMAIN f /\
                     \A i \in DOMAIN Fallbacks : Fallbacks[i] \in DOMAIN f => AsGood(f, k, i)
              ELSE d = IF IndexKey \in f["."] THEN "." ELSE Nowhere
<1> DEFINE d == ArtifactDirectory(f)
           present == {Fallbacks[i] : i \in DOMAIN Fallbacks} \cap DOMAIN f
           indexed == {e \in present : IndexKey \in f[e]}
<1>1. OutputDir \in DOMAIN f => d = OutputDir
  BY DEF ArtifactDirectory
<1>2. /\ \A e \in DOMAIN f : IsFallback(e) <=> e \in present
      /\ present \in SUBSET DOMAIN f
  BY DEF IsFallback
<1>3. CASE OutputDir \notin DOMAIN f /\ indexed # {}
  <2>1. d = FirstFallback(indexed)
    BY <1>3 DEF ArtifactDirectory
  <2>2. \A e \in indexed : e \in present /\ IndexKey \in f[e]
    OBVIOUS
  <2>3. \A e \in present : e \notin indexed => IndexKey \notin f[e]
    OBVIOUS
  <2>4. \A i \in DOMAIN Fallbacks : Fallbacks[i] \in DOMAIN f => Fallbacks[i] \in present
    OBVIOUS
  <2> HIDE DEF d, present, indexed
  <2>5. indexed \in SUBSET DOMAIN f /\ \A e \in indexed : IsFallback(e)
    BY <1>2, <2>2
  <2>6. /\ d \in DOMAIN f /\ IsFallback(d)
        /\ \E k \in DOMAIN Fallbacks : d = Fallbacks[k] /\
             \A i \in DOMAIN Fallbacks : Fallbacks[i] \in DOMAIN f => AsGood(f, k, i)
    BY <1>3, <2>1, <2>2, <2>3, <2>4, <2>5, DirectoryIsBestIn
  <2> QED BY <1>3, <2>6 DEF d
<1>4. CASE OutputDir \notin DOMAIN f /\ indexed = {} /\ present # {}
  <2>1. d = FirstFallback(present)
    BY <1>4 DEF ArtifactDirectory
  <2>2. \A e \in present : IndexKey \notin f[e]
    BY <1>4
  <2>3. \A i \in DOMAIN Fallbacks : Fallbacks[i] \in DOMAIN f => Fallbacks[i] \in present
    OBVIOUS
  <2> HIDE DEF d, present, indexed
  <2>4. /\ d \in DOMAIN f /\ IsFallback(d)
        /\ \E k \in DOMAIN Fallbacks : d = Fallbacks[k] /\
             \A i \in DOMAIN Fallbacks : Fallbacks[i] \in DOMAIN f => AsGood(f, k, i)
    BY <1>2, <1>4, <2>1, <2>2, <2>3, DirectoryIsBestIn
  <2> QED BY <1>4, <2>4 DEF d
<1>5. CASE OutputDir \notin DOMAIN f /\ present = {}
  <2>1. IndexKey \in f["."] => d = "."
    BY <1>5 DEF ArtifactDirectory
  <2>2. IndexKey \notin f["."] => d = Nowhere
    BY <1>5, Zenon DEF ArtifactDirectory, Nowhere
  <2> HIDE DEF d, present, indexed
  <2>3. \A e \in DOMAIN f : ~IsFallback(e)
    BY <1>2, <1>5
  <2> QED BY <1>5, <2>1, <2>2, <2>3 DEF d
<1>6. present # {} \/ indexed = {}
  OBVIOUS
<1> HIDE DEF d, present, indexed
<1> QED BY <1>1, <1>3, <1>4, <1>5, <1>6 DEF d

-----------------------------------------------------------------------------
(***************************************************************************)
(* The types.                                                              *)
(***************************************************************************)
LEMMA BucketFacts ==
  /\ \A o \in Buckets : /\ DOMAIN o \subseteq Keys
                        /\ o \in [DOMAIN o -> Commits \cup {0}]
                        /\ \A k \in DOMAIN o : o[k] \in Commits \cup {0}
  /\ \A K \in SUBSET Keys : \A o : o \in [K -> Commits \cup {0}] => o \in Buckets
  /\ EmptyBucket \in Buckets /\ DOMAIN EmptyBucket = {}
BY DEF Buckets, EmptyBucket

RepositoryTypes ==
  /\ newest \in Commits
  /\ head \in [Branches -> 1 .. newest]
  /\ deliveries \subseteq [branch : Branches, commit : 1 .. newest]
ApplicationTypes == appBranch \in Branches /\ patches \in 0 .. MaxPatches
JobTypes == job \in [Jobs -> JobType] /\ \A j \in Jobs : JobOK(job[j])
GhostTypes == alone \subseteq Jobs /\ orderly \in BOOLEAN

LEMMA TypeParts ==
  /\ TypeOK <=> /\ RepositoryTypes /\ ApplicationTypes /\ JobTypes /\ GhostTypes
                /\ objects \in Buckets /\ faults \in 0 .. MaxFaults
  /\ TypeOK' <=> /\ RepositoryTypes' /\ ApplicationTypes' /\ JobTypes' /\ GhostTypes'
                 /\ objects' \in Buckets /\ faults' \in 0 .. MaxFaults
BY DEF TypeOK, RepositoryTypes, ApplicationTypes, JobTypes, GhostTypes

\* What is not touched keeps its types.
LEMMA SameTypes ==
  ASSUME TypeOK
  PROVE  /\ UNCHANGED repository => RepositoryTypes'
         /\ UNCHANGED application => ApplicationTypes'
         /\ UNCHANGED job => JobTypes'
         /\ UNCHANGED ghosts => GhostTypes'
         /\ UNCHANGED objects => objects' \in Buckets
         /\ UNCHANGED faults => faults' \in 0 .. MaxFaults
BY TypeParts DEF RepositoryTypes, ApplicationTypes, JobTypes, GhostTypes, repository, application,
   ghosts

LEMMA FaultTypes == ASSUME TypeOK, Fault PROVE faults' \in 0 .. MaxFaults /\ faults' # 0
BY PipelineAssumption DEF Fault, TypeOK

LEMMA OneJobTypes ==
  ASSUME TypeOK, NEW j \in Jobs, NEW q \in JobType, JobOK(q), job' = [job EXCEPT ![j] = q]
  PROVE  JobTypes'
BY DEF TypeOK, JobTypes

LEMMA FailedTypes ==
  ASSUME NEW q \in JobType, JobOK(q), q.pc # "idle"
  PROVE  Failed(q) \in JobType /\ JobOK(Failed(q))
<1>1. Failed(q) = [q EXCEPT !.pc = "failed", !.todo = {}, !.page = 0]
  BY DEF Failed
<1>2. Failed(q) \in JobType
  BY <1>1 DEF JobType, PC
<1>3. JobOK(Failed(q))
  BY <1>1 DEF JobType, JobOK
<1> QED BY <1>2, <1>3

LEMMA InitTypes == Init => TypeOK
<1> SUFFICES ASSUME Init PROVE TypeOK
  OBVIOUS
<1>1. RepositoryTypes /\ ApplicationTypes /\ GhostTypes
  BY CommitFacts, PipelineAssumption DEF Init, RepositoryTypes, ApplicationTypes, GhostTypes
<1>2. NewJob \in JobType /\ JobOK(NewJob)
  BY BucketFacts DEF NewJob, JobType, PC, JobOK
<1>3. JobTypes
  BY <1>2 DEF Init, JobTypes
<1>4. objects \in Buckets /\ faults \in 0 .. MaxFaults
  BY BucketFacts, PipelineAssumption DEF Init
<1> QED BY <1>1, <1>3, <1>4, TypeParts

LEMMA PushTypes == ASSUME TypeOK, NEW b \in Branches, Push(b) PROVE TypeOK'
<1>1. newest \in Nat /\ newest + 1 \in Commits
  BY CommitFacts DEF TypeOK, Push
<1>2. 1 .. newest \subseteq 1 .. newest + 1 /\ newest + 1 \in 1 .. newest + 1
  BY <1>1
<1>3. head' \in [Branches -> 1 .. newest + 1]
  BY <1>2 DEF TypeOK, Push
<1>4. deliveries' \subseteq [branch : Branches, commit : 1 .. newest + 1]
  BY <1>2 DEF TypeOK, Push
<1>5. RepositoryTypes'
  BY <1>1, <1>3, <1>4 DEF Push, RepositoryTypes
<1> QED BY <1>5, SameTypes, TypeParts DEF Push

LEMMA PatchTypes == ASSUME TypeOK, NEW b \in Branches, PatchBranch(b) PROVE TypeOK'
<1>1. ApplicationTypes'
  BY PipelineAssumption DEF TypeOK, PatchBranch, ApplicationTypes
<1> QED BY <1>1, SameTypes, TypeParts DEF PatchBranch

LEMMA QueueTypes ==
  ASSUME TypeOK, NEW j \in Jobs, NEW kind \in {"manual", "webhook", "retry"},
         NEW branch \in Branches, NEW commit \in Commits \cup {0},
         QueueDeployment(j, kind, branch, commit), deliveries' \subseteq deliveries
  PROVE  TypeOK'
<1> DEFINE q == [job[j] EXCEPT !.pc = "row", !.kind = kind, !.app = appBranch,
                               !.branch = branch, !.recorded = commit]
<1>1. job[j] \in JobType /\ job' = [job EXCEPT ![j] = q]
  BY DEF TypeOK, QueueDeployment
<1>2. q \in JobType /\ JobOK(q)
  BY <1>1 DEF TypeOK, JobType, PC, JobOK
<1>3. JobTypes'
  BY <1>1, <1>2, OneJobTypes
<1>4. RepositoryTypes' /\ ApplicationTypes'
  BY DEF TypeOK, QueueDeployment, RepositoryTypes, ApplicationTypes, application
<1>5. GhostTypes'
  BY DEF TypeOK, QueueDeployment, GhostTypes
<1>6. objects' \in Buckets /\ faults' \in 0 .. MaxFaults
  BY DEF TypeOK, QueueDeployment
<1> QED BY <1>3, <1>4, <1>5, <1>6, TypeParts

\* How a deployment is triggered: with which branch and commit.
Triggered(j, kind, branch, commit) ==
  /\ QueueDeployment(j, kind, branch, commit)
  /\ deliveries' \subseteq deliveries
  /\ \/ kind = "manual" /\ branch = appBranch /\ commit = 0
     \/ kind = "webhook" /\ [branch |-> branch, commit |-> commit] \in deliveries
     \/ kind = "retry" /\ branch = appBranch

LEMMA StartTriggers ==
  ASSUME TypeOK, NEW j \in Jobs,
         DeployManually(j) \/ DeployPush(j) \/ \E i \in Jobs : Retry(j, i)
  PROVE  \E kind \in {"manual", "webhook", "retry"}, branch \in Branches,
            commit \in Commits \cup {0} : Triggered(j, kind, branch, commit)
<1>1. CASE DeployManually(j)
  BY <1>1 DEF DeployManually, Triggered, TypeOK
<1>2. CASE DeployPush(j)
  <2>1. PICK d \in deliveries : /\ QueueDeployment(j, "webhook", d.branch, d.commit)
                                /\ deliveries' = deliveries \ {d}
    BY <1>2 DEF DeployPush
  <2>2. d.branch \in Branches /\ d.commit \in Commits
        /\ d = [branch |-> d.branch, commit |-> d.commit]
    BY CommitFacts DEF TypeOK
  <2>3. Triggered(j, "webhook", d.branch, d.commit)
    BY <2>1, <2>2 DEF Triggered
  <2> QED BY <2>2, <2>3
<1>3. CASE \E i \in Jobs : Retry(j, i)
  <2>1. PICK i \in Jobs : Retry(j, i)
    BY <1>3
  <2>2. job[i].recorded \in Commits \cup {0}
    BY DEF TypeOK, JobType
  <2>3. Triggered(j, "retry", appBranch, job[i].recorded)
    BY <2>1 DEF Retry, Triggered
  <2> QED BY <2>2, <2>3 DEF TypeOK
<1> QED BY <1>1, <1>2, <1>3

-----------------------------------------------------------------------------
(***************************************************************************)
(* What a step of deployment j does to j: it becomes q.                    *)
(***************************************************************************)
Becomes(j, q) == /\ q \in JobType /\ JobOK(q)
                 /\ job' = [job EXCEPT ![j] = q] /\ job'[j] = q
                 /\ \A i \in Jobs \ {j} : job'[i] = job[i]

LEMMA BecomesTypes ==
  ASSUME TypeOK, NEW j \in Jobs, NEW q \in JobType, JobOK(q), job' = [job EXCEPT ![j] = q]
  PROVE  Becomes(j, q) /\ JobTypes'
BY OneJobTypes DEF TypeOK, Becomes

LEMMA LoadRowStep ==
  ASSUME TypeOK, NEW j \in Jobs, LoadRow(j)
  PROVE  /\ TypeOK'
         /\ \E b \in {job[j].branch, job[j].app} :
              /\ Becomes(j, [job[j] EXCEPT !.pc = "infra", !.branch = b])
              /\ faults' = 0 => b = job[j].branch
<1> DEFINE q(b) == [job[j] EXCEPT !.pc = "infra", !.branch = b]
<1>0. job[j] \in JobType /\ JobOK(job[j]) /\ job[j].pc = "row"
  BY DEF TypeOK, LoadRow
<1>1. ASSUME NEW b \in {job[j].branch, job[j].app} PROVE q(b) \in JobType /\ JobOK(q(b))
  BY <1>0 DEF JobType, PC, JobOK
<1>2. CASE job' = [job EXCEPT ![j].pc = "infra"] /\ UNCHANGED faults
  <2>1. job' = [job EXCEPT ![j] = q(job[j].branch)]
    BY <1>0, <1>2 DEF JobType, TypeOK
  <2>2. Becomes(j, q(job[j].branch)) /\ JobTypes'
    BY <1>1, <2>1, BecomesTypes
  <2>3. TypeOK'
    BY <1>2, <2>2, SameTypes, TypeParts DEF LoadRow
  <2> QED BY <2>2, <2>3
<1>3. CASE job' = [job EXCEPT ![j].pc = "infra", ![j].branch = job[j].app] /\ Fault
  <2>1. job' = [job EXCEPT ![j] = q(job[j].app)]
    BY <1>0, <1>3 DEF JobType, TypeOK
  <2>2. Becomes(j, q(job[j].app)) /\ JobTypes'
    BY <1>1, <2>1, BecomesTypes
  <2>3. TypeOK' /\ faults' # 0
    BY <1>3, <2>2, SameTypes, TypeParts, FaultTypes DEF LoadRow
  <2> QED BY <2>2, <2>3
<1> QED BY <1>2, <1>3 DEF LoadRow

LEMMA EnsureInfraStep ==
  ASSUME TypeOK, NEW j \in Jobs, EnsureInfra(j)
  PROVE  /\ TypeOK'
         /\ Becomes(j, [job[j] EXCEPT !.pc = "checkout"])
         /\ \/ UNCHANGED objects
            \/ /\ DOMAIN objects' = DOMAIN objects \cup {IndexKey}
               /\ objects'[IndexKey] = 0
               /\ \A k \in DOMAIN objects \ {IndexKey} : objects'[k] = objects[k]
<1> DEFINE q == [job[j] EXCEPT !.pc = "checkout"]
<1>0. job[j] \in JobType /\ JobOK(job[j]) /\ job[j].pc = "infra"
  BY DEF TypeOK, EnsureInfra
<1>1. q \in JobType /\ JobOK(q)
  BY <1>0 DEF JobType, PC, JobOK
<1>2. job' = [job EXCEPT ![j] = q]
  BY <1>0 DEF JobType, TypeOK, EnsureInfra
<1>3. Becomes(j, q) /\ JobTypes'
  BY <1>1, <1>2, BecomesTypes
<1>4. faults' \in 0 .. MaxFaults
  BY SameTypes, FaultTypes DEF EnsureInfra
<1>5. CASE UNCHANGED objects
  BY <1>3, <1>4, <1>5, SameTypes, TypeParts DEF EnsureInfra
<1>6. CASE objects' = [k \in DOMAIN objects \cup {IndexKey} |->
                         IF k = IndexKey THEN 0 ELSE objects[k]]
  <2>0. objects \in Buckets
    BY DEF TypeOK
  <2>1. /\ objects' \in [DOMAIN objects \cup {IndexKey} -> Commits \cup {0}]
        /\ DOMAIN objects \cup {IndexKey} \in SUBSET Keys
        /\ DOMAIN objects' = DOMAIN objects \cup {IndexKey}
        /\ objects'[IndexKey] = 0
        /\ \A k \in DOMAIN objects \ {IndexKey} : objects'[k] = objects[k]
    BY <1>6, <2>0, BucketFacts, PipelineAssumption
  <2>2. objects' \in Buckets
    BY <2>1, BucketFacts
  <2> QED BY <1>3, <1>4, <2>1, <2>2, SameTypes, TypeParts DEF EnsureInfra
<1> QED BY <1>5, <1>6 DEF EnsureInfra

LEMMA CheckoutStep ==
  ASSUME TypeOK, NEW j \in Jobs, Checkout(j)
  PROVE  /\ TypeOK'
         /\ Becomes(j, [job[j] EXCEPT !.pc = "build", !.commit = head[job[j].branch]])
<1> DEFINE q == [job[j] EXCEPT !.pc = "build", !.commit = head[job[j].branch]]
<1>0. job[j] \in JobType /\ JobOK(job[j]) /\ job[j].pc = "checkout"
  BY DEF TypeOK, Checkout
<1>1. head[job[j].branch] \in Commits /\ head[job[j].branch] # 0
  BY <1>0, CommitFacts DEF TypeOK, JobOK
<1>2. q \in JobType /\ JobOK(q)
  BY <1>0, <1>1 DEF JobType, PC, JobOK
<1>3. job' = [job EXCEPT ![j] = q]
  BY <1>0 DEF JobType, TypeOK, Checkout
<1>4. Becomes(j, q) /\ JobTypes'
  BY <1>2, <1>3, BecomesTypes
<1> QED BY <1>4, SameTypes, TypeParts DEF Checkout

LEMMA BuildStep ==
  ASSUME TypeOK, NEW j \in Jobs, Build(j)
  PROVE  /\ TypeOK'
         /\ \/ Becomes(j, Failed(job[j]))
            \/ /\ Artifacts(job[j].commit) # {}
               /\ Becomes(j, [job[j] EXCEPT !.pc = "put", !.todo = Artifacts(job[j].commit),
                                            !.before = objects])
<1> DEFINE c == job[j].commit
           q == [job[j] EXCEPT !.pc = "put", !.todo = Artifacts(c), !.before = objects]
<1>0. job[j] \in JobType /\ JobOK(job[j]) /\ job[j].pc = "build"
  BY DEF TypeOK, Build
<1>1. CASE CanBuild(c) /\ Artifacts(c) # {}
  <2>1. c \in Commits /\ objects \in Buckets
    BY <1>0 DEF TypeOK, JobType, JobOK
  <2>2. Artifacts(c) \in SUBSET Keys
    BY <2>1, ArtifactFacts
  <2>3. q \in JobType /\ JobOK(q)
    BY <1>0, <1>1, <2>1, <2>2 DEF JobType, PC, JobOK
  <2>4. job' = [job EXCEPT ![j] = q]
    BY <1>0, <1>1 DEF JobType, TypeOK, Build
  <2>5. Becomes(j, q) /\ JobTypes'
    BY <2>3, <2>4, BecomesTypes
  <2> QED BY <1>1, <2>5, SameTypes, TypeParts DEF Build
<1>2. CASE ~(CanBuild(c) /\ Artifacts(c) # {})
  <2>1. job' = [job EXCEPT ![j] = Failed(job[j])]
    BY <1>0, <1>2 DEF Build
  <2>2. Becomes(j, Failed(job[j])) /\ JobTypes'
    BY <1>0, <2>1, FailedTypes, BecomesTypes
  <2> QED BY <2>2, SameTypes, TypeParts DEF Build
<1> QED BY <1>1, <1>2

LEMMA UploadStep ==
  ASSUME TypeOK, NEW j \in Jobs, UploadArtifactFile(j)
  PROVE  /\ TypeOK'
         /\ \E k \in job[j].todo :
              /\ DOMAIN objects' = DOMAIN objects \cup {k}
              /\ objects'[k] = job[j].commit
              /\ \A m \in DOMAIN objects \ {k} : objects'[m] = objects[m]
              /\ Becomes(j, [job[j] EXCEPT
                   !.todo = job[j].todo \ {k}, !.page = 0,
                   !.pc = IF job[j].todo \ {k} = {} THEN "list" ELSE "put"])
<1>0. /\ job[j] \in JobType /\ JobOK(job[j]) /\ job[j].pc = "put" /\ objects \in Buckets
      /\ job[j].todo \in SUBSET Keys /\ job[j].todo # {} /\ job[j].commit \in Commits
  BY DEF TypeOK, UploadArtifactFile, JobOK, JobType
<1> DEFINE k == FirstOf(job[j].todo)
           rest == job[j].todo \ {k}
           q == [job[j] EXCEPT !.todo = rest, !.page = 0,
                               !.pc = IF rest = {} THEN "list" ELSE "put"]
<1>1. k \in job[j].todo /\ k \in Keys
  BY <1>0, SmallestKey
<1>2. q \in JobType /\ JobOK(q)
  BY <1>0 DEF JobType, PC, JobOK
<1>3. job' = [job EXCEPT ![j] = q]
  BY <1>0 DEF JobType, TypeOK, UploadArtifactFile
<1>4. Becomes(j, q) /\ JobTypes'
  BY <1>2, <1>3, BecomesTypes
<1>5. objects' = [m \in DOMAIN objects \cup {k} |-> IF m = k THEN job[j].commit ELSE objects[m]]
  BY DEF UploadArtifactFile
<1> HIDE DEF k
<1>6. /\ objects' \in [DOMAIN objects \cup {k} -> Commits \cup {0}]
      /\ DOMAIN objects \cup {k} \in SUBSET Keys
      /\ DOMAIN objects' = DOMAIN objects \cup {k}
      /\ objects'[k] = job[j].commit
      /\ \A m \in DOMAIN objects \ {k} : objects'[m] = objects[m]
  BY <1>0, <1>1, <1>5, BucketFacts
<1>7. objects' \in Buckets
  BY <1>6, BucketFacts
<1>8. TypeOK'
  BY <1>4, <1>7, SameTypes, TypeParts DEF UploadArtifactFile
<1> QED BY <1>1, <1>4, <1>6, <1>8

\* The listing: what is stale of the part of the bucket seen so far.
LEMMA ListStep ==
  ASSUME TypeOK, NEW j \in Jobs, ListObjects(j)
  PROVE  LET rest == {k \in DOMAIN objects : k > job[j].page}
             stale == job[j].todo \cup (Page(rest) \ Artifacts(job[j].commit))
         IN  /\ TypeOK'
             /\ \/ rest = Page(rest)
                   /\ Becomes(j, [job[j] EXCEPT !.todo = stale, !.page = 0,
                                    !.pc = IF stale = {} THEN "invalidate" ELSE "delete"])
                \/ \E k \in Page(rest) :
                     /\ \A m \in rest : m \in Page(rest) <=> m <= k
                     /\ Becomes(j, [job[j] EXCEPT !.todo = stale, !.page = k])
<1> DEFINE rest == {k \in DOMAIN objects : k > job[j].page}
           stale == job[j].todo \cup (Page(rest) \ Artifacts(job[j].commit))
           k == CHOOSE n \in Page(rest) : \A m \in Page(rest) : m <= n
           q == [job[j] EXCEPT !.todo = stale, !.page = 0,
                               !.pc = IF stale = {} THEN "invalidate" ELSE "delete"]
           r == [job[j] EXCEPT !.todo = stale, !.page = k]
<1>0. /\ job[j] \in JobType /\ JobOK(job[j]) /\ job[j].pc = "list" /\ objects \in Buckets
      /\ job[j].todo \in SUBSET Keys
  BY DEF TypeOK, ListObjects, JobOK, JobType
<1>1. rest \in SUBSET Keys
  BY <1>0, BucketFacts
<1>2. Page(rest) \subseteq rest /\ (rest # {} => Page(rest) # {})
      /\ \A n \in Page(rest), m \in rest : m <= n => m \in Page(rest)
  BY <1>1, PageFacts
<1>3. stale \in SUBSET Keys
  BY <1>0, <1>1, <1>2
<1> HIDE DEF stale
<1>4. CASE rest = Page(rest)
  <2>1. job' = [job EXCEPT ![j] = q]
    BY <1>0, <1>4 DEF JobType, TypeOK, ListObjects, stale
  <2>2. q \in JobType /\ JobOK(q)
    BY <1>0, <1>3 DEF JobType, PC, JobOK
  <2>3. Becomes(j, q) /\ JobTypes'
    BY <2>1, <2>2, BecomesTypes
  <2>4. TypeOK'
    BY <2>3, SameTypes, TypeParts DEF ListObjects
  <2> QED BY <1>4, <2>3, <2>4 DEF stale
<1>5. CASE rest # Page(rest)
  <2>1. k \in Page(rest) /\ \A m \in Page(rest) : m <= k
    <3>1. Page(rest) \in SUBSET Keys /\ Page(rest) # {}
      BY <1>1, <1>2, <1>5
    <3> QED BY <3>1, LargestKey
  <2>0. job' = [job EXCEPT ![j].todo = stale, ![j].page = k]
    BY <1>5 DEF ListObjects, stale
  <2> HIDE DEF k
  <2>2. job' = [job EXCEPT ![j] = r]
    BY <1>0, <2>0 DEF JobType, TypeOK
  <2>3. r \in JobType /\ JobOK(r)
    BY <1>0, <1>1, <1>2, <1>3, <2>1 DEF JobType, PC, JobOK
  <2>4. Becomes(j, r) /\ JobTypes'
    BY <2>2, <2>3, BecomesTypes
  <2>5. TypeOK'
    BY <2>4, SameTypes, TypeParts DEF ListObjects
  <2>6. \A m \in rest : m \in Page(rest) <=> m <= k
    BY <1>2, <2>1
  <2> QED BY <2>1, <2>4, <2>5, <2>6 DEF stale
<1> QED BY <1>4, <1>5

LEMMA DeleteStep ==
  ASSUME TypeOK, NEW j \in Jobs, DeleteObjects(j)
  PROVE  /\ TypeOK'
         /\ Page(job[j].todo) \subseteq job[j].todo /\ Page(job[j].todo) # {}
         /\ \E kept \in SUBSET (Page(job[j].todo) \cap DOMAIN objects) :
              LET batch == Page(job[j].todo)
                  rest == job[j].todo \ batch
              IN  /\ DOMAIN objects' = DOMAIN objects \ (batch \ kept)
                  /\ \A k \in DOMAIN objects' : objects'[k] = objects[k]
                  /\ faults' = 0 => kept = {}
                  /\ Becomes(j, [job[j] EXCEPT !.todo = rest, !.kept = job[j].kept \cup kept,
                                   !.pc = IF rest = {} THEN "invalidate" ELSE "delete"])
<1> DEFINE batch == Page(job[j].todo)
           rest == job[j].todo \ batch
<1>0. /\ job[j] \in JobType /\ JobOK(job[j]) /\ job[j].pc = "delete" /\ objects \in Buckets
      /\ job[j].todo \in SUBSET Keys /\ job[j].todo # {} /\ job[j].kept \in SUBSET Keys
  BY DEF TypeOK, DeleteObjects, JobOK, JobType
<1>1. batch \subseteq job[j].todo /\ batch # {}
  BY <1>0, PageFacts
<1>2. PICK kept \in SUBSET (batch \cap DOMAIN objects) :
        /\ (kept = {} /\ UNCHANGED faults) \/ (kept # {} /\ Fault)
        /\ objects' = [k \in DOMAIN objects \ (batch \ kept) |-> objects[k]]
        /\ job' = [job EXCEPT ![j].todo = rest, ![j].kept = @ \cup kept,
                              ![j].pc = IF rest = {} THEN "invalidate" ELSE "delete"]
  BY DEF DeleteObjects
<1> DEFINE q == [job[j] EXCEPT !.todo = rest, !.kept = job[j].kept \cup kept,
                               !.pc = IF rest = {} THEN "invalidate" ELSE "delete"]
<1>3. q \in JobType /\ JobOK(q)
  BY <1>0, <1>1, <1>2 DEF JobType, PC, JobOK
<1>4. job' = [job EXCEPT ![j] = q]
  BY <1>0, <1>2 DEF JobType, TypeOK
<1>5. Becomes(j, q) /\ JobTypes'
  BY <1>3, <1>4, BecomesTypes
<1>6. /\ objects' \in [DOMAIN objects \ (batch \ kept) -> Commits \cup {0}]
      /\ DOMAIN objects \ (batch \ kept) \in SUBSET Keys
      /\ DOMAIN objects' = DOMAIN objects \ (batch \ kept)
      /\ \A k \in DOMAIN objects' : objects'[k] = objects[k]
  BY <1>0, <1>2, BucketFacts
<1>7. objects' \in Buckets
  BY <1>6, BucketFacts
<1>8. faults' \in 0 .. MaxFaults /\ (faults' = 0 => kept = {})
  BY <1>2, SameTypes, FaultTypes
<1>9. TypeOK'
  BY <1>5, <1>7, <1>8, SameTypes, TypeParts DEF DeleteObjects
<1> QED BY <1>1, <1>5, <1>6, <1>8, <1>9

LEMMA InvalidateStep ==
  ASSUME TypeOK, NEW j \in Jobs, Invalidate(j)
  PROVE  TypeOK' /\ Becomes(j, [job[j] EXCEPT !.pc = "deployed"])
<1> DEFINE q == [job[j] EXCEPT !.pc = "deployed"]
<1>0. job[j] \in JobType /\ JobOK(job[j]) /\ job[j].pc = "invalidate"
  BY DEF TypeOK, Invalidate
<1>1. q \in JobType /\ JobOK(q)
  BY <1>0 DEF JobType, PC, JobOK
<1>2. job' = [job EXCEPT ![j] = q]
  BY <1>0 DEF JobType, TypeOK, Invalidate
<1>3. Becomes(j, q) /\ JobTypes'
  BY <1>1, <1>2, BecomesTypes
<1> QED BY <1>3, SameTypes, TypeParts DEF Invalidate

LEMMA FailStep ==
  ASSUME TypeOK, NEW j \in Jobs, PipelineFails(j)
  PROVE  TypeOK' /\ Becomes(j, Failed(job[j])) /\ faults' # 0
<1>0. job[j] \in JobType /\ JobOK(job[j]) /\ job[j].pc # "idle"
  BY DEF TypeOK, PipelineFails
<1>1. job' = [job EXCEPT ![j] = Failed(job[j])]
  BY DEF PipelineFails
<1>2. Becomes(j, Failed(job[j])) /\ JobTypes'
  BY <1>0, <1>1, FailedTypes, BecomesTypes
<1>3. faults' \in 0 .. MaxFaults /\ faults' # 0
  BY FaultTypes DEF PipelineFails
<1> QED BY <1>2, <1>3, SameTypes, TypeParts DEF PipelineFails

LEMMA CrashStep ==
  ASSUME TypeOK, Crash
  PROVE  /\ TypeOK' /\ faults' # 0
         /\ \A j \in Jobs : job'[j] = IF j \in Active THEN Failed(job[j]) ELSE job[j]
<1>0. \A j \in Jobs : job[j] \in JobType /\ JobOK(job[j]) /\ (j \in Active => job[j].pc # "idle")
  BY DEF TypeOK, Active, Ended
<1>1. job' = [j \in Jobs |-> IF j \in Active THEN Failed(job[j]) ELSE job[j]]
  BY DEF Crash
<1>2. JobTypes'
  BY <1>0, <1>1, FailedTypes DEF JobTypes
<1>3. faults' \in 0 .. MaxFaults /\ faults' # 0
  BY FaultTypes DEF Crash
<1> QED BY <1>1, <1>2, <1>3, SameTypes, TypeParts DEF Crash

\* A step of one deployment leaves the others alone.
LEMMA OthersStay ==
  ASSUME TypeOK, NEW i \in Jobs, NEW j \in Jobs \ {i}, PipelineStep(i) \/ PipelineFails(i)
  PROVE  job'[j] = job[j]
<1>1. \A q : Becomes(i, q) => job'[j] = job[j]
  BY DEF Becomes
<1>2. CASE LoadRow(i)
  BY <1>1, <1>2, LoadRowStep
<1>3. CASE EnsureInfra(i)
  BY <1>1, <1>3, EnsureInfraStep
<1>4. CASE Checkout(i)
  BY <1>1, <1>4, CheckoutStep
<1>5. CASE Build(i)
  BY <1>1, <1>5, BuildStep
<1>6. CASE UploadArtifactFile(i)
  BY <1>1, <1>6, UploadStep
<1>7. CASE ListObjects(i)
  BY <1>1, <1>7, ListStep
<1>8. CASE DeleteObjects(i)
  BY <1>1, <1>8, DeleteStep
<1>9. CASE Invalidate(i)
  BY <1>1, <1>9, InvalidateStep
<1>10. CASE PipelineFails(i)
  BY <1>1, <1>10, FailStep
<1> QED BY <1>2, <1>3, <1>4, <1>5, <1>6, <1>7, <1>8, <1>9, <1>10 DEF PipelineStep

LEMMA TypeStep == TypeOK /\ [Next]_vars => TypeOK'
<1> SUFFICES ASSUME TypeOK, [Next]_vars PROVE TypeOK'
  OBVIOUS
<1>1. ASSUME NEW j \in Jobs, DeployManually(j) \/ DeployPush(j) \/ \E i \in Jobs : Retry(j, i)
      PROVE  TypeOK'
  BY <1>1, StartTriggers, QueueTypes DEF Triggered
<1>2. ASSUME NEW j \in Jobs, PipelineStep(j) PROVE TypeOK'
  BY <1>2, LoadRowStep, EnsureInfraStep, CheckoutStep, BuildStep, UploadStep, ListStep,
     DeleteStep, InvalidateStep DEF PipelineStep
<1>3. CASE UNCHANGED vars
  BY <1>3, SameTypes, TypeParts DEF vars, repository, application, ghosts
<1>4. CASE Next
  BY <1>1, <1>2, <1>4, PushTypes, PatchTypes, FailStep, CrashStep DEF Next
<1> QED BY <1>3, <1>4

\* Rows, bucket and deployments hold what the code can put there, and every
\* deployment past its checkout has a commit.
THEOREM TypeCorrect == Spec => []TypeOK
<1>1. TypeOK /\ [Next]_vars => TypeOK'
  BY TypeStep
<1> QED BY <1>1, InitTypes, PTL DEF Spec

-----------------------------------------------------------------------------
(***************************************************************************)
(* The loops end.                                                          *)
(***************************************************************************)
Rank(q, i, loop) == Left(q) = i * (Cardinality(Keys) + 1) + loop

\* The measure, stage by stage.
LEMMA LeftValues ==
  ASSUME NEW q \in JobType
  PROVE  /\ q.pc \in {"idle", "deployed", "failed"} => Left(q) = 0
         /\ q.pc = "invalidate" => Rank(q, 1, 0)
         /\ q.pc = "delete" => Rank(q, 2, Cardinality(q.todo))
         /\ q.pc = "list" => Rank(q, 3, Cardinality(Keys) - q.page)
         /\ q.pc = "put" => Rank(q, 4, Cardinality(q.todo))
         /\ q.pc = "build" => Rank(q, 5, 0)
         /\ q.pc = "checkout" => Rank(q, 6, 0)
         /\ q.pc = "infra" => Rank(q, 7, 0)
         /\ q.pc = "row" => Rank(q, 8, 0)
<1> DEFINE stage == {i \in DOMAIN Stages : Stages[i] = q.pc}
           loop == IF q.pc \in {"put", "delete"} THEN Cardinality(q.todo)
                   ELSE IF q.pc = "list" THEN Cardinality(Keys) - q.page ELSE 0
<1>1. Left(q) = IF stage = {} THEN 0
                ELSE (CHOOSE i \in stage : TRUE) * (Cardinality(Keys) + 1) + loop
  BY DEF Left
<1>2. DOMAIN Stages = 1 .. 8
  BY DEF Stages
<1>3. ASSUME q.pc \in {"idle", "deployed", "failed"} PROVE stage = {}
  BY <1>2, <1>3 DEF Stages
<1>4. ASSUME NEW i \in 1 .. 8, q.pc = Stages[i] PROVE stage = {i}
  BY <1>2, <1>4 DEF Stages
<1> HIDE DEF stage
<1>5. ASSUME NEW i \in 1 .. 8, q.pc = Stages[i]
      PROVE  Left(q) = i * (Cardinality(Keys) + 1) + loop
  <2>1. stage = {i} /\ (CHOOSE x \in stage : TRUE) = i
    BY <1>4, <1>5
  <2> QED BY <1>1, <2>1
<1>6. /\ Stages[1] = "invalidate" /\ Stages[2] = "delete" /\ Stages[3] = "list"
      /\ Stages[4] = "put" /\ Stages[5] = "build" /\ Stages[6] = "checkout"
      /\ Stages[7] = "infra" /\ Stages[8] = "row"
  BY DEF Stages
<1> QED BY <1>1, <1>3, <1>5, <1>6 DEF Rank

LEMMA LeftBound ==
  ASSUME NEW q \in JobType
  PROVE  Left(q) \in Nat
<1>0. q.todo \in SUBSET Keys /\ q.page \in Keys \cup {0}
  BY DEF JobType
<1>1. Cardinality(Keys) \in Nat /\ Cardinality(q.todo) \in Nat
      /\ Cardinality(Keys) - q.page \in Nat
  <2>1. Cardinality(Keys) \in Nat /\ Keys = 1 .. Cardinality(Keys)
        /\ Cardinality(q.todo) \in 0 .. Cardinality(Keys)
    BY <1>0, KeyFacts
  <2> QED BY <1>0, <2>1
<1>2. q.pc \in {"idle", "deployed", "failed", "invalidate", "delete", "list", "put", "build",
                "checkout", "infra", "row"}
  BY DEF JobType, PC
<1> QED BY <1>1, <1>2, LeftValues DEF Rank

LEMMA FailedIsOver == ASSUME NEW q \in JobType, JobOK(q), q.pc # "idle" PROVE Left(Failed(q)) = 0
<1>1. Failed(q) \in JobType
  BY FailedTypes
<1>2. Failed(q).pc = "failed"
  BY DEF Failed, JobType
<1> QED BY <1>1, <1>2, LeftValues

LEMMA SmallerSet ==
  ASSUME NEW S \in SUBSET Keys, NEW T \in SUBSET S, T # S
  PROVE  Cardinality(T) < Cardinality(S)
<1>1. IsFiniteSet(S) /\ Cardinality(S) \in Nat /\ Cardinality(T) \in Nat
  BY KeyFacts
<1>2. Cardinality(T) <= Cardinality(S) /\ (Cardinality(S) = Cardinality(T) => S = T)
  BY <1>1, FS_Subset
<1> QED BY <1>1, <1>2

LEMMA StepAdvances ==
  ASSUME TypeOK, NEW j \in Jobs, PipelineStep(j)
  PROVE  Left(job'[j]) < Left(job[j])
<1> DEFINE n == Cardinality(Keys)
           q == job[j]
<1>0. q \in JobType /\ JobOK(q) /\ n \in Nat /\ q.todo \in SUBSET Keys
      /\ q.page \in Keys \cup {0}
  BY KeyFacts DEF TypeOK, JobType
<1>1. \A S \in SUBSET Keys : Cardinality(S) \in 0 .. n
  BY KeyFacts
<1>2. Keys = 1 .. n
  BY KeyFacts
<1> HIDE DEF n
<1> SUFFICES ASSUME NEW r, r = job'[j] PROVE Left(r) < Left(q)
  OBVIOUS
<1>R. ASSUME NEW i, NEW loop, Rank(q, i, loop) PROVE Left(q) = i * (n + 1) + loop
  BY <1>R DEF Rank, n
<1>S. ASSUME NEW i, NEW loop, Rank(r, i, loop) PROVE Left(r) = i * (n + 1) + loop
  BY <1>S DEF Rank, n
<1>3. CASE LoadRow(j)
  <2>1. r \in JobType /\ r.pc = "infra" /\ q.pc = "row"
    <3>1. PICK b \in {q.branch, q.app} : Becomes(j, [q EXCEPT !.pc = "infra", !.branch = b])
      BY <1>3, LoadRowStep
    <3>2. r \in JobType /\ r = [q EXCEPT !.pc = "infra", !.branch = b]
      BY <3>1 DEF Becomes
    <3> QED BY <1>0, <1>3, <3>2 DEF JobType, LoadRow
  <2>2. Left(q) = 8 * (n + 1) + 0 /\ Left(r) = 7 * (n + 1) + 0
    BY <1>0, <1>R, <1>S, <2>1, LeftValues
  <2> QED BY <1>0, <2>2
<1>4. CASE EnsureInfra(j)
  <2>1. r \in JobType /\ r.pc = "checkout" /\ q.pc = "infra"
    <3>1. r \in JobType /\ r = [q EXCEPT !.pc = "checkout"]
      BY <1>4, EnsureInfraStep DEF Becomes
    <3> QED BY <1>0, <1>4, <3>1 DEF JobType, EnsureInfra
  <2>2. Left(q) = 7 * (n + 1) + 0 /\ Left(r) = 6 * (n + 1) + 0
    BY <1>0, <1>R, <1>S, <2>1, LeftValues
  <2> QED BY <1>0, <2>2
<1>5. CASE Checkout(j)
  <2>1. r \in JobType /\ r.pc = "build" /\ q.pc = "checkout"
    <3>1. r \in JobType /\ r = [q EXCEPT !.pc = "build", !.commit = head[q.branch]]
      BY <1>5, CheckoutStep DEF Becomes
    <3> QED BY <1>0, <1>5, <3>1 DEF JobType, Checkout
  <2>2. Left(q) = 6 * (n + 1) + 0 /\ Left(r) = 5 * (n + 1) + 0
    BY <1>0, <1>R, <1>S, <2>1, LeftValues
  <2> QED BY <1>0, <2>2
<1>6. CASE Build(j)
  <2>1. q.pc = "build"
    BY <1>6 DEF Build
  <2>2. Left(q) = 5 * (n + 1) + 0
    BY <1>0, <1>R, <2>1, LeftValues
  <2>3. CASE Becomes(j, Failed(q))
    <3>1. Left(r) = 0
      BY <1>0, <2>1, <2>3, FailedIsOver DEF Becomes
    <3> QED BY <1>0, <2>2, <3>1
  <2>4. CASE Becomes(j, [q EXCEPT !.pc = "put", !.todo = Artifacts(q.commit), !.before = objects])
    <3>1. r \in JobType /\ r.pc = "put" /\ r.todo \in SUBSET Keys
      BY <1>0, <2>4 DEF Becomes, JobType
    <3>2. Left(r) = 4 * (n + 1) + Cardinality(r.todo) /\ Cardinality(r.todo) \in 0 .. n
      BY <1>1, <1>S, <3>1, LeftValues
    <3> QED BY <1>0, <2>2, <3>2
  <2> QED BY <1>6, <2>3, <2>4, BuildStep
<1>7. CASE UploadArtifactFile(j)
  <2>1. PICK k \in q.todo : Becomes(j, [q EXCEPT !.todo = q.todo \ {k}, !.page = 0,
                                !.pc = IF q.todo \ {k} = {} THEN "list" ELSE "put"])
    BY <1>7, UploadStep
  <2>2. /\ r \in JobType /\ r.todo = q.todo \ {k} /\ r.page = 0 /\ q.pc = "put"
        /\ r.pc = IF q.todo \ {k} = {} THEN "list" ELSE "put"
    BY <1>0, <1>7, <2>1 DEF Becomes, JobType, UploadArtifactFile
  <2>3. Cardinality(r.todo) < Cardinality(q.todo) /\ Cardinality(q.todo) \in 0 .. n
        /\ Cardinality(r.todo) \in 0 .. n
    BY <1>0, <1>1, <2>2, SmallerSet
  <2>4. Left(q) = 4 * (n + 1) + Cardinality(q.todo)
    BY <1>0, <1>R, <2>2, LeftValues
  <2>5. CASE r.pc = "put"
    <3>1. Left(r) = 4 * (n + 1) + Cardinality(r.todo)
      BY <1>S, <2>2, <2>5, LeftValues
    <3> QED BY <1>0, <2>3, <2>4, <3>1
  <2>6. CASE r.pc = "list"
    <3>1. Rank(r, 3, n - r.page)
      BY <2>2, <2>6, LeftValues DEF n
    <3>2. Left(r) = 3 * (n + 1) + (n - 0)
      BY <1>S, <2>2, <3>1
    <3> QED BY <1>0, <2>3, <2>4, <3>2
  <2> QED BY <2>2, <2>5, <2>6
<1>8. CASE ListObjects(j)
  <2> DEFINE rest == {k \in DOMAIN objects : k > q.page}
             stale == q.todo \cup (Page(rest) \ Artifacts(q.commit))
  <2>1. q.pc = "list" /\ DOMAIN objects \subseteq Keys
    BY <1>8, BucketFacts DEF ListObjects, TypeOK
  <2>2. Left(q) = 3 * (n + 1) + (n - q.page)
    <3>1. Rank(q, 3, n - q.page)
      BY <1>0, <2>1, LeftValues DEF n
    <3> QED BY <1>R, <3>1
  <2>3. q.page \in 0 .. n
    BY <1>0, <1>2
  <2>4. CASE Becomes(j, [q EXCEPT !.todo = stale, !.page = 0,
                           !.pc = IF stale = {} THEN "invalidate" ELSE "delete"])
    <3> HIDE DEF stale
    <3>1. r \in JobType /\ r.pc \in {"invalidate", "delete"} /\ r.todo \in SUBSET Keys
      <4>1. r \in JobType /\ r = [q EXCEPT !.todo = stale, !.page = 0,
                                 !.pc = IF stale = {} THEN "invalidate" ELSE "delete"]
        BY <2>4 DEF Becomes
      <4> QED BY <1>0, <4>1 DEF JobType
    <3>2. Cardinality(r.todo) \in 0 .. n
      BY <1>1, <3>1
    <3>3. Left(r) = 1 * (n + 1) + 0 \/ Left(r) = 2 * (n + 1) + Cardinality(r.todo)
      BY <1>S, <3>1, LeftValues
    <3> QED BY <1>0, <2>2, <2>3, <3>2, <3>3
  <2>5. ASSUME NEW k \in Page(rest), Becomes(j, [q EXCEPT !.todo = stale, !.page = k])
        PROVE  Left(r) < Left(q)
    <3>1. Page(rest) \subseteq rest
      BY <2>1, PageFacts
    <3>2. k \in 1 .. n /\ k > q.page
      BY <1>2, <2>1, <2>5, <3>1
    <3> HIDE DEF stale, rest
    <3>3. r \in JobType /\ r.pc = "list" /\ r.page = k
      BY <1>0, <2>1, <2>5 DEF Becomes, JobType
    <3>4. Left(r) = 3 * (n + 1) + (n - k)
      <4>1. Rank(r, 3, n - r.page)
        BY <3>3, LeftValues DEF n
      <4> QED BY <1>S, <3>3, <4>1
    <3> QED BY <1>0, <2>2, <2>3, <3>2, <3>4
  <2> QED BY <1>8, <2>4, <2>5, ListStep
<1>9. CASE DeleteObjects(j)
  <2> DEFINE batch == Page(q.todo)
             rest == q.todo \ batch
  <2>1. PICK kept \in SUBSET (batch \cap DOMAIN objects) :
          Becomes(j, [q EXCEPT !.todo = rest, !.kept = q.kept \cup kept,
                       !.pc = IF rest = {} THEN "invalidate" ELSE "delete"])
    BY <1>9, DeleteStep
  <2>2. rest \in SUBSET q.todo /\ rest # q.todo
    BY <1>9, DeleteStep
  <2> HIDE DEF rest
  <2>3. /\ r \in JobType /\ r.todo = rest /\ q.pc = "delete"
        /\ r.pc = IF rest = {} THEN "invalidate" ELSE "delete"
    <3>1. r \in JobType /\ r = [q EXCEPT !.todo = rest, !.kept = q.kept \cup kept,
                                   !.pc = IF rest = {} THEN "invalidate" ELSE "delete"]
      BY <2>1 DEF Becomes
    <3> QED BY <1>0, <1>9, <3>1 DEF JobType, DeleteObjects
  <2>4. Cardinality(rest) < Cardinality(q.todo) /\ Cardinality(q.todo) \in 0 .. n
        /\ Cardinality(rest) \in 0 .. n
    BY <1>0, <1>1, <2>2, SmallerSet
  <2>5. Left(q) = 2 * (n + 1) + Cardinality(q.todo)
    BY <1>0, <1>R, <2>3, LeftValues
  <2>6. Left(r) = 1 * (n + 1) + 0 \/ Left(r) = 2 * (n + 1) + Cardinality(rest)
    BY <1>S, <2>3, LeftValues
  <2> QED BY <1>0, <2>4, <2>5, <2>6
<1>10. CASE Invalidate(j)
  <2>1. r \in JobType /\ r.pc = "deployed" /\ q.pc = "invalidate"
    <3>1. r \in JobType /\ r = [q EXCEPT !.pc = "deployed"]
      BY <1>10, InvalidateStep DEF Becomes
    <3> QED BY <1>0, <1>10, <3>1 DEF JobType, Invalidate
  <2>2. Left(q) = 1 * (n + 1) + 0 /\ Left(r) = 0
    BY <1>0, <1>R, <2>1, LeftValues
  <2> QED BY <1>0, <2>2
<1> QED BY <1>3, <1>4, <1>5, <1>6, <1>7, <1>8, <1>9, <1>10 DEF PipelineStep

\* No step takes a deployment away from its end.
LEMMA NoStepBack ==
  ASSUME TypeOK, [Next]_vars, NEW j \in Jobs, job[j].pc # "idle"
  PROVE  Left(job'[j]) <= Left(job[j])
<1>0. job[j] \in JobType /\ JobOK(job[j]) /\ Left(job[j]) \in Nat
  BY LeftBound DEF TypeOK
<1>1. CASE job'[j] = job[j]
  BY <1>0, <1>1
<1>2. CASE job'[j] = Failed(job[j])
  BY <1>0, <1>2, FailedIsOver
<1>3. ASSUME NEW i \in Jobs, DeployManually(i) \/ DeployPush(i) \/ \E m \in Jobs : Retry(i, m)
      PROVE  job'[j] = job[j]
  <2>1. job[i].pc = "idle" /\ \E q : job' = [job EXCEPT ![i] = q]
    BY <1>3, StartTriggers DEF Triggered, QueueDeployment
  <2> QED BY <2>1 DEF TypeOK
<1>4. ASSUME NEW i \in Jobs, PipelineStep(i)
      PROVE  Left(job'[j]) <= Left(job[j])
  <2>1. CASE i = j
    <3>1. Left(job'[j]) < Left(job[j]) /\ job'[j] \in JobType
      BY <1>4, <2>1, StepAdvances, TypeStep DEF TypeOK, Next
    <3> QED BY <1>0, <3>1, LeftBound
  <2>2. CASE i # j
    <3>1. job'[j] = job[j]
      BY <1>4, <2>2, OthersStay
    <3> QED BY <1>0, <3>1
  <2> QED BY <2>1, <2>2
<1>5. ASSUME NEW i \in Jobs, PipelineFails(i)
      PROVE  job'[j] \in {job[j], Failed(job[j])}
  BY <1>5, FailStep DEF Becomes
<1>6. CASE UNCHANGED vars
  BY <1>1, <1>6 DEF vars
<1>7. CASE \E b \in Branches : Push(b) \/ PatchBranch(b)
  BY <1>1, <1>7 DEF Push, PatchBranch
<1>8. CASE Crash
  BY <1>1, <1>2, <1>8, CrashStep
<1> QED BY <1>1, <1>2, <1>3, <1>4, <1>5, <1>6, <1>7, <1>8 DEF Next

\* The loops over files, pages and batches end, however many keys there are
\* and however deployments interleave: each step of a pipeline reduces what it
\* has left, and no other step adds to it.
THEOREM PipelinesAdvance == Spec => PipelineAdvances
<1>1. TypeOK /\ [Next]_vars =>
        [\A j \in Jobs : job[j].pc # "idle" =>
           /\ PipelineStep(j) => Left(job'[j]) < Left(job[j])
           /\ Left(job'[j]) <= Left(job[j])]_vars
  BY StepAdvances, NoStepBack
<1> QED BY <1>1, TypeCorrect, PTL DEF Spec, PipelineAdvances

-----------------------------------------------------------------------------
(***************************************************************************)
(* A step of a pipeline by what it does to the deployment, q before it and *)
(* r after it, and to the bucket.                                          *)
(***************************************************************************)
Trigger(q) == <<q.kind, q.app, q.recorded>>
Source(q) == <<q.branch, q.commit>>
Sync(q) == <<q.before, q.kept>>
SameBut(o, p, k) == \A m \in DOMAIN o \ {k} : p[m] = o[m]

Fails(q, r) ==
  /\ q.pc \notin Ended /\ r.pc = "failed" /\ UNCHANGED objects
  /\ Trigger(r) = Trigger(q) /\ Source(r) = Source(q) /\ Sync(r) = Sync(q)
  /\ q.pc = "build" \/ faults' # 0
Loads(q, r) ==
  /\ q.pc = "row" /\ r.pc = "infra" /\ UNCHANGED objects
  /\ Trigger(r) = Trigger(q) /\ Sync(r) = Sync(q) /\ r.commit = q.commit
  /\ r.branch \in {q.branch, q.app} /\ (faults' = 0 => r.branch = q.branch)
Ensures(q, r) ==
  /\ q.pc = "infra" /\ r.pc = "checkout"
  /\ Trigger(r) = Trigger(q) /\ Source(r) = Source(q) /\ Sync(r) = Sync(q)
  /\ \/ UNCHANGED objects
     \/ /\ DOMAIN objects' = DOMAIN objects \cup {IndexKey} /\ objects'[IndexKey] = 0
        /\ SameBut(objects, objects', IndexKey)
Clones(q, r) ==
  /\ q.pc = "checkout" /\ r.pc = "build" /\ UNCHANGED objects
  /\ Trigger(r) = Trigger(q) /\ Sync(r) = Sync(q) /\ Source(r) = <<q.branch, head[q.branch]>>
Builds(q, r) ==
  /\ q.pc = "build" /\ r.pc = "put" /\ UNCHANGED objects
  /\ Trigger(r) = Trigger(q) /\ Source(r) = Source(q)
  /\ r.todo = Artifacts(q.commit) /\ Sync(r) = <<objects, q.kept>>
Puts(q, r) ==
  /\ q.pc = "put" /\ r.pc = IF r.todo = {} THEN "list" ELSE "put"
  /\ Trigger(r) = Trigger(q) /\ Source(r) = Source(q) /\ Sync(r) = Sync(q)
  /\ \E k \in q.todo : /\ r.todo = q.todo \ {k} /\ r.page = 0
                       /\ DOMAIN objects' = DOMAIN objects \cup {k}
                       /\ objects'[k] = q.commit /\ SameBut(objects, objects', k)
Lists(q, r) ==
  /\ q.pc = "list" /\ UNCHANGED objects
  /\ Trigger(r) = Trigger(q) /\ Source(r) = Source(q) /\ Sync(r) = Sync(q)
  /\ LET rest == {k \in DOMAIN objects : k > q.page}
     IN  /\ r.todo = q.todo \cup (Page(rest) \ Artifacts(q.commit))
         /\ \/ rest = Page(rest) /\ r.pc = IF r.todo = {} THEN "invalidate" ELSE "delete"
            \/ /\ r.pc = "list" /\ r.page \in Page(rest)
               /\ \A m \in rest : m \in Page(rest) <=> m <= r.page
Deletes(q, r) ==
  /\ q.pc = "delete" /\ r.pc = IF r.todo = {} THEN "invalidate" ELSE "delete"
  /\ Trigger(r) = Trigger(q) /\ Source(r) = Source(q) /\ r.before = q.before
  /\ \E batch \in SUBSET q.todo : \E kept \in SUBSET (batch \cap DOMAIN objects) :
       /\ r.todo = q.todo \ batch /\ r.kept = q.kept \cup kept
       /\ DOMAIN objects' = DOMAIN objects \ (batch \ kept)
       /\ \A k \in DOMAIN objects' : objects'[k] = objects[k]
       /\ faults' = 0 => kept = {}
Invalidates(q, r) ==
  /\ q.pc = "invalidate" /\ r.pc = "deployed" /\ UNCHANGED objects
  /\ Trigger(r) = Trigger(q) /\ Source(r) = Source(q) /\ Sync(r) = Sync(q)

Moves(q, r) ==
  \/ Fails(q, r) \/ Loads(q, r) \/ Ensures(q, r) \/ Clones(q, r) \/ Builds(q, r)
  \/ Puts(q, r) \/ Lists(q, r) \/ Deletes(q, r) \/ Invalidates(q, r)

LEMMA FailedFields ==
  ASSUME NEW q \in JobType
  PROVE  /\ Failed(q).pc = "failed" /\ Trigger(Failed(q)) = Trigger(q)
         /\ Source(Failed(q)) = Source(q) /\ Sync(Failed(q)) = Sync(q)
<1>1. Failed(q) = [q EXCEPT !.pc = "failed", !.todo = {}, !.page = 0]
  BY DEF Failed
<1> QED BY <1>1 DEF JobType, Trigger, Source, Sync

LEMMA FailedMoves ==
  ASSUME TypeOK, NEW j \in Jobs, job[j].pc \notin Ended, UNCHANGED objects,
         job[j].pc = "build" \/ faults' # 0, job'[j] = Failed(job[j])
  PROVE  Fails(job[j], job'[j])
BY FailedFields DEF TypeOK, Fails

LEMMA StepMoves ==
  ASSUME TypeOK, NEW j \in Jobs, PipelineStep(j) \/ PipelineFails(j)
  PROVE  Moves(job[j], job'[j])
<1> DEFINE q == job[j]
<1>0. q \in JobType /\ JobOK(q)
  BY DEF TypeOK
<1> SUFFICES ASSUME NEW r, r = job'[j] PROVE Moves(q, r)
  OBVIOUS
<1>1. CASE LoadRow(j)
  <2>1. PICK b \in {q.branch, q.app} :
          Becomes(j, [q EXCEPT !.pc = "infra", !.branch = b]) /\ (faults' = 0 => b = q.branch)
    BY <1>1, LoadRowStep
  <2>2. r = [q EXCEPT !.pc = "infra", !.branch = b]
    BY <2>1 DEF Becomes
  <2>3. Loads(q, r)
    BY <1>0, <1>1, <2>1, <2>2 DEF JobType, LoadRow, Loads, Trigger, Sync
  <2> QED BY <2>3 DEF Moves
<1>2. CASE EnsureInfra(j)
  <2>1. r = [q EXCEPT !.pc = "checkout"]
    BY <1>2, EnsureInfraStep DEF Becomes
  <2>2. q.pc = "infra" /\ r.pc = "checkout" /\ Trigger(r) = Trigger(q)
        /\ Source(r) = Source(q) /\ Sync(r) = Sync(q)
    BY <1>0, <1>2, <2>1 DEF JobType, EnsureInfra, Trigger, Source, Sync
  <2>3. Ensures(q, r)
    BY <1>2, <2>2, EnsureInfraStep DEF Ensures, SameBut
  <2> QED BY <2>3 DEF Moves
<1>3. CASE Checkout(j)
  <2>1. r = [q EXCEPT !.pc = "build", !.commit = head[q.branch]]
    BY <1>3, CheckoutStep DEF Becomes
  <2>2. Clones(q, r)
    BY <1>0, <1>3, <2>1 DEF JobType, Checkout, Clones, Trigger, Source, Sync
  <2> QED BY <2>2 DEF Moves
<1>4. CASE Build(j)
  <2>0. q.pc = "build" /\ UNCHANGED objects
    BY <1>4 DEF Build
  <2>1. CASE Becomes(j, Failed(q))
    BY <2>0, <2>1, FailedMoves DEF Becomes, Moves, Ended
  <2>2. CASE Becomes(j, [q EXCEPT !.pc = "put", !.todo = Artifacts(q.commit), !.before = objects])
    <3>1. r = [q EXCEPT !.pc = "put", !.todo = Artifacts(q.commit), !.before = objects]
      BY <2>2 DEF Becomes
    <3>2. Builds(q, r)
      BY <1>0, <2>0, <3>1 DEF JobType, Builds, Trigger, Source, Sync
    <3> QED BY <3>2 DEF Moves
  <2> QED BY <1>4, <2>1, <2>2, BuildStep
<1>5. CASE UploadArtifactFile(j)
  <2>1. PICK k \in q.todo :
          /\ DOMAIN objects' = DOMAIN objects \cup {k}
          /\ objects'[k] = q.commit
          /\ \A m \in DOMAIN objects \ {k} : objects'[m] = objects[m]
          /\ Becomes(j, [q EXCEPT !.todo = q.todo \ {k}, !.page = 0,
                           !.pc = IF q.todo \ {k} = {} THEN "list" ELSE "put"])
    BY <1>5, UploadStep
  <2>2. r = [q EXCEPT !.todo = q.todo \ {k}, !.page = 0,
                      !.pc = IF q.todo \ {k} = {} THEN "list" ELSE "put"]
    BY <2>1 DEF Becomes
  <2>3. /\ q.pc = "put" /\ r.todo = q.todo \ {k} /\ r.page = 0
        /\ r.pc = IF r.todo = {} THEN "list" ELSE "put"
        /\ Trigger(r) = Trigger(q) /\ Source(r) = Source(q) /\ Sync(r) = Sync(q)
    BY <1>0, <1>5, <2>2 DEF JobType, UploadArtifactFile, Trigger, Source, Sync
  <2>4. Puts(q, r)
    BY <2>1, <2>3 DEF Puts, SameBut
  <2> QED BY <2>4 DEF Moves
<1>6. CASE ListObjects(j)
  <2> DEFINE rest == {k \in DOMAIN objects : k > q.page}
             stale == q.todo \cup (Page(rest) \ Artifacts(q.commit))
  <2>0. q.pc = "list" /\ UNCHANGED objects
    BY <1>6 DEF ListObjects
  <2>1. CASE /\ rest = Page(rest)
             /\ Becomes(j, [q EXCEPT !.todo = stale, !.page = 0,
                              !.pc = IF stale = {} THEN "invalidate" ELSE "delete"])
    <3>1. rest = Page(rest) /\ r = [q EXCEPT !.todo = stale, !.page = 0,
                              !.pc = IF stale = {} THEN "invalidate" ELSE "delete"]
      BY <2>1 DEF Becomes
    <3> HIDE DEF rest, stale
    <3>2. /\ r.todo = stale /\ r.pc = IF r.todo = {} THEN "invalidate" ELSE "delete"
          /\ Trigger(r) = Trigger(q) /\ Source(r) = Source(q) /\ Sync(r) = Sync(q)
      BY <1>0, <3>1 DEF JobType, Trigger, Source, Sync
    <3>3. Lists(q, r)
      BY <2>0, <3>1, <3>2 DEF Lists, rest, stale
    <3> QED BY <3>3 DEF Moves
  <2>2. CASE \E k \in Page(rest) : /\ \A m \in rest : m \in Page(rest) <=> m <= k
                                   /\ Becomes(j, [q EXCEPT !.todo = stale, !.page = k])
    <3>1. PICK k \in Page(rest) : /\ \A m \in rest : m \in Page(rest) <=> m <= k
                                  /\ Becomes(j, [q EXCEPT !.todo = stale, !.page = k])
      BY <2>2
    <3>2. r = [q EXCEPT !.todo = stale, !.page = k]
      BY <3>1 DEF Becomes
    <3> HIDE DEF rest, stale
    <3>3. /\ r.todo = stale /\ r.page = k /\ r.pc = q.pc
          /\ Trigger(r) = Trigger(q) /\ Source(r) = Source(q) /\ Sync(r) = Sync(q)
      BY <1>0, <3>2 DEF JobType, Trigger, Source, Sync
    <3>4. Lists(q, r)
      BY <2>0, <3>1, <3>3 DEF Lists, rest, stale
    <3> QED BY <3>4 DEF Moves
  <2> QED BY <1>6, <2>1, <2>2, ListStep
<1>7. CASE DeleteObjects(j)
  <2> DEFINE batch == Page(q.todo)
             rest == q.todo \ batch
  <2>1. PICK kept \in SUBSET (batch \cap DOMAIN objects) :
          /\ DOMAIN objects' = DOMAIN objects \ (batch \ kept)
          /\ \A k \in DOMAIN objects' : objects'[k] = objects[k]
          /\ faults' = 0 => kept = {}
          /\ Becomes(j, [q EXCEPT !.todo = rest, !.kept = q.kept \cup kept,
                           !.pc = IF rest = {} THEN "invalidate" ELSE "delete"])
    BY <1>7, DeleteStep
  <2>2. r = [q EXCEPT !.todo = rest, !.kept = q.kept \cup kept,
                      !.pc = IF rest = {} THEN "invalidate" ELSE "delete"]
    BY <2>1 DEF Becomes
  <2>3. batch \in SUBSET q.todo
    BY <1>7, DeleteStep
  <2> HIDE DEF batch
  <2>4. /\ q.pc = "delete" /\ r.todo = q.todo \ batch /\ r.kept = q.kept \cup kept
        /\ r.pc = IF r.todo = {} THEN "invalidate" ELSE "delete"
        /\ Trigger(r) = Trigger(q) /\ Source(r) = Source(q) /\ r.before = q.before
    BY <1>0, <1>7, <2>2 DEF JobType, DeleteObjects, Trigger, Source
  <2>5. Deletes(q, r)
    BY <2>1, <2>3, <2>4 DEF Deletes
  <2> QED BY <2>5 DEF Moves
<1>8. CASE Invalidate(j)
  <2>1. r = [q EXCEPT !.pc = "deployed"]
    BY <1>8, InvalidateStep DEF Becomes
  <2>2. Invalidates(q, r)
    BY <1>0, <1>8, <2>1 DEF JobType, Invalidate, Invalidates, Trigger, Source, Sync
  <2> QED BY <2>2 DEF Moves
<1>9. CASE PipelineFails(j)
  <2>1. q.pc \notin Ended /\ UNCHANGED objects
    BY <1>9 DEF PipelineFails, Ended
  <2> QED BY <1>9, <2>1, FailStep, FailedMoves DEF Moves, Becomes
<1> QED BY <1>1, <1>2, <1>3, <1>4, <1>5, <1>6, <1>7, <1>8, <1>9 DEF PipelineStep

\* Every step is a push, a patch, the start of a deployment, a step of one
\* pipeline, or a crash.
JobMoves(j) ==
  /\ Moves(job[j], job'[j]) /\ job[j].pc \notin Ended
  /\ \A i \in Jobs \ {j} : job'[i] = job[i]
  /\ UNCHANGED <<repository, application, ghosts>>
JobStarts(j) ==
  \E kind \in {"manual", "webhook", "retry"}, branch \in Branches, commit \in Commits \cup {0} :
    Triggered(j, kind, branch, commit)

LEMMA MovesRun == ASSUME NEW q, NEW r, Moves(q, r) PROVE q.pc \notin Ended
BY DEF Moves, Fails, Loads, Ensures, Clones, Builds, Puts, Lists, Deletes, Invalidates, Ended

LEMMA Steps ==
  ASSUME TypeOK, Next
  PROVE  \/ \E b \in Branches : Push(b) \/ PatchBranch(b)
         \/ \E j \in Jobs : JobStarts(j) \/ JobMoves(j)
         \/ Crash
<1>1. ASSUME NEW j \in Jobs, DeployManually(j) \/ DeployPush(j) \/ \E i \in Jobs : Retry(j, i)
      PROVE  JobStarts(j)
  BY <1>1, StartTriggers DEF JobStarts
<1>2. ASSUME NEW j \in Jobs, PipelineStep(j) \/ PipelineFails(j)
      PROVE  JobMoves(j)
  <2>1. Moves(job[j], job'[j])
    BY <1>2, StepMoves
  <2>2. \A i \in Jobs \ {j} : job'[i] = job[i]
    BY <1>2, OthersStay
  <2>3. UNCHANGED <<repository, application, ghosts>>
    BY <1>2 DEF PipelineStep, PipelineFails, LoadRow, EnsureInfra, Checkout, Build,
       UploadArtifactFile, ListObjects, DeleteObjects, Invalidate
  <2> QED BY <2>1, <2>2, <2>3, MovesRun DEF JobMoves
<1> QED BY <1>1, <1>2 DEF Next

LEMMA JobFacts ==
  ASSUME NEW q \in JobType, JobOK(q)
  PROVE  /\ q.recorded \in Nat /\ q.commit \in Nat /\ q.commit \in Commits \cup {0}
         /\ q.pc \in PC /\ q.todo \in SUBSET Keys /\ q.kept \in SUBSET Keys
         /\ q.page \in Keys \cup {0} /\ q.page \in Nat /\ q.before \in Buckets
         /\ q.pc # "idle" => q.branch \in Branches /\ q.app \in Branches
<1>1. /\ q.recorded \in Commits \cup {0} /\ q.commit \in Commits \cup {0}
      /\ q.pc \in PC /\ q.todo \in SUBSET Keys /\ q.kept \in SUBSET Keys
      /\ q.page \in Keys \cup {0} /\ q.before \in Buckets
  BY DEF JobType
<1>2. Commits \subseteq Nat /\ Keys \subseteq Nat
  BY CommitFacts, KeyFacts
<1>3. \A n \in Commits \cup {0}, k \in Keys \cup {0} : n \in Nat /\ k \in Nat
  BY <1>1, <1>2
<1>4. q.pc # "idle" => q.branch \in Branches /\ q.app \in Branches
  BY DEF JobOK
<1>5. q.recorded \in Nat /\ q.commit \in Nat /\ q.page \in Nat
  BY <1>1, <1>3
<1> QED BY <1>1, <1>4, <1>5

\* The job a start leaves behind.
LEMMA StartStep ==
  ASSUME TypeOK, NEW j \in Jobs, NEW kind, NEW branch, NEW commit,
         Triggered(j, kind, branch, commit)
  PROVE  /\ job[j].pc = "idle"
         /\ job'[j].pc = "row" /\ Trigger(job'[j]) = <<kind, appBranch, commit>>
         /\ Source(job'[j]) = <<branch, job[j].commit>> /\ Sync(job'[j]) = Sync(job[j])
         /\ \A i \in Jobs \ {j} : job'[i] = job[i]
         /\ UNCHANGED <<newest, head, application, objects, faults>>
         /\ alone' = IF Active = {} THEN {j} ELSE {}
         /\ orderly' = (orderly /\ Active = {})
<1>1. job[j] \in JobType /\ job[j].pc = "idle"
      /\ job' = [job EXCEPT ![j] = [job[j] EXCEPT !.pc = "row", !.kind = kind, !.app = appBranch,
                                         !.branch = branch, !.recorded = commit]]
  BY DEF TypeOK, Triggered, QueueDeployment
<1>2. job'[j] = [job[j] EXCEPT !.pc = "row", !.kind = kind, !.app = appBranch,
                               !.branch = branch, !.recorded = commit]
  BY <1>1 DEF TypeOK
<1>3. /\ job'[j].pc = "row" /\ Trigger(job'[j]) = <<kind, appBranch, commit>>
      /\ Source(job'[j]) = <<branch, job[j].commit>> /\ Sync(job'[j]) = Sync(job[j])
  <2>1. ASSUME NEW q \in JobType, NEW r,
               r = [q EXCEPT !.pc = "row", !.kind = kind, !.app = appBranch,
                             !.branch = branch, !.recorded = commit]
        PROVE  /\ r.pc = "row" /\ Trigger(r) = <<kind, appBranch, commit>>
               /\ Source(r) = <<branch, q.commit>> /\ Sync(r) = Sync(q)
    <3>1. r.pc = "row" /\ r.kind = kind /\ r.app = appBranch /\ r.recorded = commit
      BY <2>1 DEF JobType
    <3>2. r.branch = branch /\ r.commit = q.commit /\ r.before = q.before /\ r.kept = q.kept
      BY <2>1 DEF JobType
    <3> QED BY <3>1, <3>2 DEF Trigger, Source, Sync
  <2> QED BY <1>1, <1>2, <2>1
<1>4. \A i \in Jobs \ {j} : job'[i] = job[i]
  BY <1>1 DEF TypeOK
<1> QED BY <1>1, <1>3, <1>4 DEF Triggered, QueueDeployment

LEMMA FaultsGrow == ASSUME TypeOK, [Next]_vars, faults' = 0 PROVE faults = 0
<1>1. ASSUME Fault PROVE faults = 0
  BY <1>1, FaultTypes
<1>2. CASE UNCHANGED vars
  BY <1>2 DEF vars
<1>3. ASSUME NEW j \in Jobs, DeployManually(j) \/ DeployPush(j) \/ \E i \in Jobs : Retry(j, i)
      PROVE  faults = 0
  BY <1>3, StartTriggers, StartStep
<1>4. ASSUME NEW j \in Jobs, PipelineStep(j) \/ PipelineFails(j)
      PROVE  faults = 0
  BY <1>1, <1>4 DEF PipelineStep, PipelineFails, LoadRow, EnsureInfra, Checkout, Build,
     UploadArtifactFile, ListObjects, DeleteObjects, Invalidate
<1>5. CASE \E b \in Branches : Push(b) \/ PatchBranch(b)
  BY <1>5 DEF Push, PatchBranch
<1>6. CASE Crash
  BY <1>1, <1>6 DEF Crash
<1> QED BY <1>2, <1>3, <1>4, <1>5, <1>6 DEF Next

-----------------------------------------------------------------------------
(***************************************************************************)
(* A push is deployed.                                                     *)
(***************************************************************************)
Early == {"idle", "row", "infra", "checkout"}
FollowsPush(q, h) ==
  /\ q.pc = "idle" => q.kind = "none"
  /\ q.pc \in Early => q.commit = 0
  /\ q.kind = "webhook" /\ q.pc \in Early => q.recorded <= h[q.branch]
  /\ q.kind = "webhook" /\ q.commit # 0 => q.recorded <= q.commit
PushInv ==
  /\ \A d \in deliveries : d.commit <= head[d.branch]
  /\ faults = 0 => \A j \in Jobs : FollowsPush(job[j], head)

LEMMA PushInit == Init => PushInv
<1>1. FollowsPush(NewJob, head)
  BY DEF FollowsPush, NewJob
<1> QED BY <1>1 DEF Init, PushInv

LEMMA FollowsMoves ==
  ASSUME TypeOK, NEW q \in JobType, NEW r \in JobType, JobOK(q), Moves(q, r), faults' = 0,
         FollowsPush(q, head)
  PROVE  FollowsPush(r, head)
<1>0. /\ q.commit \in Nat /\ q.recorded \in Nat /\ q.pc \notin {"idle", "deployed", "failed"}
      /\ q.branch \in Branches /\ head[q.branch] \in Nat /\ q.pc \in PC
  <2>1. q.pc \notin {"idle", "deployed", "failed"}
    BY MovesRun DEF Ended
  <2>2. \A b \in Branches : head[b] \in 1 .. newest
    BY DEF TypeOK
  <2> QED BY <2>1, <2>2, JobFacts
<1>1. CASE Fails(q, r)
  BY <1>0, <1>1 DEF Fails, FollowsPush, Trigger, Source, Early
<1>2. CASE Loads(q, r)
  BY <1>0, <1>2 DEF Loads, FollowsPush, Trigger, Early
<1>3. CASE Ensures(q, r)
  BY <1>0, <1>3 DEF Ensures, FollowsPush, Trigger, Source, Early
<1>4. CASE Clones(q, r)
  BY <1>0, <1>4 DEF Clones, FollowsPush, Trigger, Source, Early
<1>5. CASE Builds(q, r)
  BY <1>0, <1>5 DEF Builds, FollowsPush, Trigger, Source, Early
<1>6. CASE Puts(q, r)
  BY <1>0, <1>6 DEF Puts, FollowsPush, Trigger, Source, Early
<1>7. CASE Lists(q, r)
  BY <1>0, <1>7 DEF Lists, FollowsPush, Trigger, Source, Early
<1>8. CASE Deletes(q, r)
  BY <1>0, <1>8 DEF Deletes, FollowsPush, Trigger, Source, Early
<1>9. CASE Invalidates(q, r)
  BY <1>0, <1>9 DEF Invalidates, FollowsPush, Trigger, Source, Early
<1> QED BY <1>1, <1>2, <1>3, <1>4, <1>5, <1>6, <1>7, <1>8, <1>9 DEF Moves

LEMMA PushNext == TypeOK /\ PushInv /\ [Next]_vars => PushInv'
<1> SUFFICES ASSUME TypeOK, PushInv, [Next]_vars PROVE PushInv'
  OBVIOUS
<1>0. TypeOK' /\ (faults' = 0 => faults = 0)
  BY TypeStep, FaultsGrow
<1>1. CASE UNCHANGED vars
  BY <1>1 DEF vars, PushInv, FollowsPush
<1>2. ASSUME NEW b \in Branches, Push(b) PROVE PushInv'
  <2>1. newest \in Nat /\ \A i \in Branches : head[i] \in 1 .. newest
    BY CommitFacts DEF TypeOK
  <2>2. \A i \in Branches : head'[i] \in Nat /\ head[i] \in Nat /\ head[i] <= head'[i]
    BY <1>2, <2>1 DEF Push, TypeOK
  <2>3. head'[b] = newest + 1
    BY <1>2 DEF Push, TypeOK
  <2>4. ASSUME NEW d \in deliveries' PROVE d.commit <= head'[d.branch]
    <3>1. CASE d \in deliveries
      <4>1. d.branch \in Branches /\ d.commit \in Nat /\ d.commit <= head[d.branch]
        BY <2>1, <3>1 DEF TypeOK, PushInv
      <4> QED BY <2>2, <4>1
    <3>2. CASE d = [branch |-> b, commit |-> newest + 1]
      BY <2>1, <2>3, <3>2
    <3> QED BY <1>2, <2>4, <3>1, <3>2 DEF Push
  <2>5. ASSUME faults' = 0, NEW j \in Jobs PROVE FollowsPush(job'[j], head')
    <3>1. job'[j] = job[j] /\ FollowsPush(job[j], head) /\ job[j] \in JobType /\ JobOK(job[j])
      BY <1>0, <1>2, <2>5 DEF Push, PushInv, TypeOK
    <3>2. job[j].recorded \in Nat /\ (job[j].pc # "idle" => job[j].branch \in Branches)
      BY <3>1, JobFacts
    <3>3. job[j].pc = "idle" => job[j].kind # "webhook"
      BY <3>1 DEF FollowsPush
    <3> QED BY <2>2, <3>1, <3>2, <3>3 DEF FollowsPush
  <2> QED BY <2>4, <2>5 DEF PushInv
<1>3. ASSUME NEW b \in Branches, PatchBranch(b) PROVE PushInv'
  BY <1>3 DEF PatchBranch, repository, PushInv
<1>4. ASSUME NEW j \in Jobs, JobStarts(j) PROVE PushInv'
  <2>1. PICK kind \in {"manual", "webhook", "retry"}, branch \in Branches,
             commit \in Commits \cup {0} : Triggered(j, kind, branch, commit)
    BY <1>4 DEF JobStarts
  <2>2. deliveries' \subseteq deliveries /\ head' = head
    BY <2>1, StartStep DEF Triggered
  <2>3. kind = "webhook" => commit <= head[branch]
    BY <2>1 DEF Triggered, PushInv
  <2>4. ASSUME faults' = 0 PROVE FollowsPush(job'[j], head)
    <3>1. job[j].commit = 0 /\ job[j].pc = "idle"
      BY <1>0, <2>1, <2>4, StartStep DEF PushInv, FollowsPush, Early
    <3>2. /\ job'[j].pc = "row" /\ job'[j].kind = kind /\ job'[j].recorded = commit
          /\ job'[j].branch = branch /\ job'[j].commit = 0
      BY <2>1, <3>1, StartStep DEF Trigger, Source
    <3> QED BY <2>3, <3>2 DEF FollowsPush
  <2>5. \A i \in Jobs \ {j} : job'[i] = job[i]
    BY <2>1, StartStep
  <2> QED BY <1>0, <2>2, <2>4, <2>5 DEF PushInv
<1>5. ASSUME NEW j \in Jobs, JobMoves(j) PROVE PushInv'
  <2>1. UNCHANGED <<deliveries, head>>
    BY <1>5 DEF JobMoves, repository
  <2>2. ASSUME faults' = 0 PROVE FollowsPush(job'[j], head)
    BY <1>0, <1>5, <2>2, FollowsMoves DEF JobMoves, TypeOK, PushInv
  <2> QED BY <1>0, <1>5, <2>1, <2>2 DEF PushInv, JobMoves
<1>6. CASE Crash
  BY <1>6, CrashStep DEF PushInv, Crash, repository
<1> QED BY <1>1, <1>2, <1>3, <1>4, <1>5, <1>6, Steps

\* A deployment that a push triggered builds that commit or a later one of the
\* branch, however many pushes, patches and deployments came in between.
THEOREM PushesAreDeployed == Spec => []PushIsDeployed
<1>1. TypeOK /\ PushInv => PushIsDeployed
  <2> SUFFICES ASSUME TypeOK, PushInv, NEW j \in Jobs, job[j].kind = "webhook",
                      job[j].commit # 0, faults = 0
               PROVE  job[j].commit >= job[j].recorded
    BY DEF PushIsDeployed
  <2>1. job[j].recorded <= job[j].commit
    BY DEF PushInv, FollowsPush
  <2>2. job[j].recorded \in Nat /\ job[j].commit \in Nat
    BY JobFacts DEF TypeOK
  <2> QED BY <2>1, <2>2
<1> QED BY <1>1, TypeCorrect, PushInit, PushNext, PTL DEF Spec

-----------------------------------------------------------------------------
(***************************************************************************)
(* Shared files survive.                                                   *)
(***************************************************************************)
Syncing(q) == q.pc \in {"put", "list", "delete", "invalidate", "deployed"}
Files(q) == Artifacts(q.commit)
Uploaded(q, k) == Syncing(q) /\ k \in Files(q) /\ (q.pc = "put" => k \notin q.todo)
TodoFits(q) ==
  /\ q.pc = "put" => q.todo \subseteq Files(q)
  /\ q.pc \in {"list", "delete"} => q.todo \cap Files(q) = {}

\* k is there, from a deployment that syncs or as the start page.
Survives(k) ==
  /\ k \in DOMAIN objects
  /\ \/ k = IndexKey /\ objects[k] = 0
     \/ \E j \in Jobs : Syncing(job[j]) /\ objects[k] = job[j].commit
SharedInv ==
  faults = 0 =>
    /\ \A j \in Jobs : TodoFits(job[j])
    /\ \A k \in Keys :
         /\ \A j \in Jobs : Syncing(job[j]) => k \in Files(job[j])
         /\ \E j \in Jobs : Uploaded(job[j], k)
         => Survives(k)

LEMMA SharedInit == Init => SharedInv
<1>1. ~Syncing(NewJob) /\ TodoFits(NewJob)
  BY DEF NewJob, Syncing, TodoFits
<1> QED BY <1>1 DEF Init, SharedInv, Uploaded

\* What a step from q to r does to the files and to key k.
KeepsSync(q, r) == Syncing(q) => Syncing(r) /\ r.commit = q.commit
Gained(q, r, k) ==
  Uploaded(r, k) => \/ Uploaded(q, k)
                    \/ Syncing(q) /\ k \in DOMAIN objects' /\ objects'[k] = q.commit
Stays(q, k) ==
  k \in DOMAIN objects /\ (Syncing(q) => k \in Files(q)) =>
    /\ k \in DOMAIN objects'
    /\ \/ objects'[k] = objects[k]
       \/ k = IndexKey /\ objects'[k] = 0
       \/ Syncing(q) /\ objects'[k] = q.commit

LEMMA SyncMoves ==
  ASSUME NEW q, NEW r, Moves(q, r), faults' = 0, TodoFits(q), NEW k
  PROVE  TodoFits(r) /\ KeepsSync(q, r) /\ Gained(q, r, k) /\ Stays(q, k)
<1>1. CASE Fails(q, r)
  <2>1. ~Syncing(q) /\ ~Syncing(r) /\ r.pc = "failed" /\ UNCHANGED objects
    BY <1>1 DEF Fails, Syncing
  <2> QED BY <2>1 DEF TodoFits, KeepsSync, Gained, Stays, Uploaded
<1>2. CASE Loads(q, r) \/ Ensures(q, r) \/ Clones(q, r)
  <2>1. ~Syncing(q) /\ ~Syncing(r) /\ r.pc \in {"infra", "checkout", "build"}
    BY <1>2 DEF Loads, Ensures, Clones, Syncing
  <2>2. TodoFits(r) /\ KeepsSync(q, r) /\ Gained(q, r, k)
    BY <2>1 DEF TodoFits, KeepsSync, Gained, Uploaded
  <2>3. Stays(q, k)
    BY <1>2 DEF Loads, Ensures, Clones, SameBut, Stays
  <2> QED BY <2>2, <2>3
<1>3. CASE Builds(q, r)
  <2>1. ~Syncing(q) /\ r.pc = "put" /\ r.todo = Files(r) /\ UNCHANGED objects
    BY <1>3 DEF Builds, Syncing, Source, Files
  <2> QED BY <2>1 DEF TodoFits, KeepsSync, Gained, Stays, Uploaded
<1>4. CASE Puts(q, r)
  <2>1. PICK m \in q.todo : /\ r.todo = q.todo \ {m} /\ DOMAIN objects' = DOMAIN objects \cup {m}
                            /\ objects'[m] = q.commit /\ SameBut(objects, objects', m)
    BY <1>4 DEF Puts
  <2>2. /\ q.pc = "put" /\ Syncing(q) /\ Syncing(r) /\ r.commit = q.commit /\ Files(r) = Files(q)
        /\ r.pc = IF r.todo = {} THEN "list" ELSE "put"
    BY <1>4 DEF Puts, Syncing, Source, Files
  <2>3. TodoFits(r) /\ KeepsSync(q, r)
    BY <2>1, <2>2 DEF TodoFits, KeepsSync
  <2>4. Gained(q, r, k)
    <3>1. CASE k = m
      BY <2>1, <2>2, <3>1 DEF Gained
    <3>2. CASE k # m
      BY <2>1, <2>2, <3>2 DEF Gained, Uploaded
    <3> QED BY <3>1, <3>2
  <2>5. Stays(q, k)
    BY <2>1, <2>2 DEF Stays, SameBut
  <2> QED BY <2>3, <2>4, <2>5
<1>5. CASE Lists(q, r)
  <2>1. /\ q.pc = "list" /\ Syncing(q) /\ Syncing(r) /\ r.commit = q.commit /\ Files(r) = Files(q)
        /\ r.pc # "put" /\ UNCHANGED objects
    BY <1>5 DEF Lists, Syncing, Source, Files
  <2>2. r.todo \cap Files(r) = {}
    BY <1>5, <2>1 DEF Lists, TodoFits, Files
  <2> QED BY <2>1, <2>2 DEF TodoFits, KeepsSync, Gained, Stays, Uploaded
<1>6. CASE Deletes(q, r)
  <2>1. PICK batch \in SUBSET q.todo : \E kept \in SUBSET (batch \cap DOMAIN objects) :
          /\ r.todo = q.todo \ batch /\ DOMAIN objects' = DOMAIN objects \ (batch \ kept)
          /\ \A m \in DOMAIN objects' : objects'[m] = objects[m]
    BY <1>6 DEF Deletes
  <2>2. /\ q.pc = "delete" /\ Syncing(q) /\ Syncing(r) /\ r.commit = q.commit
        /\ Files(r) = Files(q) /\ r.pc # "put"
    BY <1>6 DEF Deletes, Syncing, Source, Files
  <2>3. TodoFits(r)
    BY <2>1, <2>2 DEF TodoFits
  <2>4. Stays(q, k)
    <3> SUFFICES ASSUME k \in DOMAIN objects, k \in Files(q)
                 PROVE  k \in DOMAIN objects' /\ objects'[k] = objects[k]
      BY <2>2 DEF Stays
    <3>1. k \notin batch
      BY <2>1, <2>2 DEF TodoFits
    <3> QED BY <2>1, <3>1
  <2> QED BY <2>2, <2>3, <2>4 DEF KeepsSync, Gained, Uploaded
<1>7. CASE Invalidates(q, r)
  <2>1. /\ q.pc = "invalidate" /\ r.pc = "deployed" /\ Syncing(q) /\ Syncing(r)
        /\ r.commit = q.commit /\ Files(r) = Files(q) /\ UNCHANGED objects
    BY <1>7 DEF Invalidates, Syncing, Source, Files
  <2> QED BY <2>1 DEF TodoFits, KeepsSync, Gained, Stays, Uploaded
<1> QED BY <1>1, <1>2, <1>3, <1>4, <1>5, <1>6, <1>7 DEF Moves

LEMMA SharedNext == TypeOK /\ SharedInv /\ [Next]_vars => SharedInv'
<1> SUFFICES ASSUME TypeOK, SharedInv, [Next]_vars, faults' = 0
             PROVE  /\ \A j \in Jobs : TodoFits(job'[j])
                    /\ \A k \in Keys :
                         /\ \A j \in Jobs : Syncing(job'[j]) => k \in Files(job'[j])
                         /\ \E j \in Jobs : Uploaded(job'[j], k)
                         => Survives(k)'
  BY DEF SharedInv, Survives
<1>0. faults = 0
  BY FaultsGrow
<1>1. CASE UNCHANGED <<objects, job>>
  BY <1>0, <1>1 DEF SharedInv, Survives
<1>2. ASSUME NEW b \in Branches, Push(b) \/ PatchBranch(b) PROVE UNCHANGED <<objects, job>>
  BY <1>2 DEF Push, PatchBranch
<1>3. ASSUME NEW j \in Jobs, JobStarts(j)
      PROVE  /\ \A i \in Jobs : TodoFits(job'[i])
             /\ UNCHANGED objects
             /\ \A i \in Jobs : /\ Syncing(job'[i]) <=> Syncing(job[i])
                                /\ Syncing(job[i]) => job'[i] = job[i]
  <2>1. /\ job[j].pc = "idle" /\ job'[j].pc = "row" /\ UNCHANGED objects
        /\ \A i \in Jobs \ {j} : job'[i] = job[i]
    BY <1>3, StartStep DEF JobStarts
  <2>2. \A i \in Jobs : TodoFits(job'[i])
    BY <1>0, <2>1 DEF SharedInv, TodoFits
  <2> QED BY <2>1, <2>2 DEF Syncing
<1>4. CASE \E j \in Jobs : JobStarts(j)
  BY <1>0, <1>3, <1>4 DEF SharedInv, Survives, Uploaded
<1>5. ASSUME NEW j \in Jobs, JobMoves(j)
      PROVE  /\ \A i \in Jobs : TodoFits(job'[i])
             /\ \A k \in Keys :
                  /\ \A i \in Jobs : Syncing(job'[i]) => k \in Files(job'[i])
                  /\ \E i \in Jobs : Uploaded(job'[i], k)
                  => Survives(k)'
  <2>1. Moves(job[j], job'[j]) /\ \A i \in Jobs \ {j} : job'[i] = job[i]
    BY <1>5 DEF JobMoves
  <2>2. \A k : /\ TodoFits(job'[j]) /\ KeepsSync(job[j], job'[j])
               /\ Gained(job[j], job'[j], k) /\ Stays(job[j], k)
    BY <1>0, <2>1, SyncMoves DEF SharedInv
  <2>3. \A i \in Jobs : TodoFits(job'[i])
    BY <1>0, <2>1, <2>2 DEF SharedInv
  <2>4. \A i \in Jobs : Syncing(job[i]) => Syncing(job'[i]) /\ job'[i].commit = job[i].commit
    BY <2>1, <2>2 DEF KeepsSync
  <2>5. ASSUME NEW k \in Keys,
               \A i \in Jobs : Syncing(job'[i]) => k \in Files(job'[i]),
               NEW i \in Jobs, Uploaded(job'[i], k)
        PROVE  Survives(k)'
    <3>1. \A m \in Jobs : Syncing(job[m]) => k \in Files(job[m])
      BY <2>4, <2>5 DEF Files
    <3>2. ASSUME NEW m \in Jobs, Uploaded(job[m], k) PROVE Survives(k)'
      <4>1. Survives(k)
        BY <1>0, <3>1, <3>2 DEF SharedInv
      <4>2. /\ k \in DOMAIN objects'
            /\ \/ objects'[k] = objects[k]
               \/ k = IndexKey /\ objects'[k] = 0
               \/ Syncing(job[j]) /\ objects'[k] = job[j].commit
        BY <2>2, <3>1, <4>1 DEF Stays, Survives
      <4> QED BY <2>4, <4>1, <4>2 DEF Survives
    <3>3. CASE Syncing(job[j]) /\ k \in DOMAIN objects' /\ objects'[k] = job[j].commit
      BY <2>4, <3>3 DEF Survives
    <3>4. \/ Uploaded(job[i], k)
          \/ Syncing(job[j]) /\ k \in DOMAIN objects' /\ objects'[k] = job[j].commit
      BY <2>1, <2>2, <2>5 DEF Gained
    <3> QED BY <3>2, <3>3, <3>4
  <2> QED BY <2>3, <2>5
<1>6. ~Crash
  BY CrashStep
<1> QED BY <1>1, <1>2, <1>4, <1>5, <1>6, Steps DEF vars

\* Deployments that overlap in any number and any order lose no file that all
\* of them have, if nothing fails.
THEOREM SharedFilesAreKept == Spec => []SharedFilesSurvive
<1>1. TypeOK /\ SharedInv => SharedFilesSurvive
  <2> SUFFICES ASSUME TypeOK, SharedInv, Active = {}, faults = 0, NEW i \in Deployed, NEW k \in Keys,
                      \A j \in Deployed : k \in Artifacts(job[j].commit)
               PROVE  /\ k \in DOMAIN objects
                      /\ objects[k] \in {job[j].commit : j \in Deployed}
                                          \cup (IF k = IndexKey THEN {0} ELSE {})
    BY DEF SharedFilesSurvive
  <2>1. \A j \in Jobs : Syncing(job[j]) <=> j \in Deployed
    BY DEF Syncing, Deployed, Active, Ended
  <2>2. Uploaded(job[i], k)
    BY <2>1 DEF Uploaded, Deployed, Files
  <2>3. Survives(k)
    BY <2>1, <2>2 DEF SharedInv, Files, Deployed
  <2> QED BY <2>1, <2>3 DEF Survives
<1> QED BY <1>1, TypeCorrect, SharedInit, SharedNext, PTL DEF Spec

-----------------------------------------------------------------------------
(***************************************************************************)
(* The site never goes back.                                               *)
(***************************************************************************)
Built == {"build", "put", "list", "delete", "invalidate"}
AtFirst(q) == q.pc # "idle" => q.branch = FirstBranch /\ q.app = FirstBranch
Newest(q) ==
  q.pc \in Built => /\ q.commit <= head[FirstBranch]
                    /\ \A k \in DOMAIN objects : objects[k] <= q.commit
BucketBehind == \A k \in DOMAIN objects : objects[k] <= head[FirstBranch]
OrderlyInv ==
  orderly /\ patches = 0 =>
    /\ appBranch = FirstBranch
    /\ \A d \in deliveries : d.branch = FirstBranch
    /\ \A j \in Jobs : AtFirst(job[j]) /\ Newest(job[j])
    /\ BucketBehind
    /\ \A i, j \in Active : i = j

LEMMA OrderlyInit == Init => OrderlyInv
<1>1. AtFirst(NewJob) /\ NewJob.pc = "idle"
  BY DEF NewJob, AtFirst
<1>2. Init => Active = {} /\ DOMAIN objects = {}
  BY <1>1 DEF Init, Active, Ended, EmptyBucket
<1> QED BY <1>1, <1>2 DEF Init, OrderlyInv, Newest, Built, BucketBehind

LEMMA BucketNumbers ==
  ASSUME TypeOK
  PROVE  /\ \A k \in DOMAIN objects : objects[k] \in Nat
         /\ \A k \in DOMAIN objects' : TypeOK' => objects'[k] \in Nat
         /\ head[FirstBranch] \in Nat
         /\ \A j \in Jobs : job[j].commit \in Nat
<1>1. Commits \cup {0} \subseteq Nat
  BY CommitFacts
<1>2. TypeOK' => objects' \in Buckets
  BY TypeParts
<1>3. \A k \in DOMAIN objects : objects[k] \in Nat
  BY <1>1, BucketFacts DEF TypeOK
<1>4. \A k \in DOMAIN objects' : TypeOK' => objects'[k] \in Nat
  BY <1>1, <1>2, BucketFacts
<1>5. head[FirstBranch] \in 1 .. newest
  BY PipelineAssumption DEF TypeOK
<1>6. \A j \in Jobs : job[j].commit \in Nat
  BY JobFacts DEF TypeOK
<1> QED BY <1>3, <1>4, <1>5, <1>6

\* A step of the only deployment that runs.
NoFileBack ==
  \A k \in DOMAIN objects \cap DOMAIN objects' : objects'[k] = 0 \/ objects'[k] >= objects[k]
LEMMA OrderlyMoves ==
  ASSUME TypeOK, TypeOK', NEW j \in Jobs, UNCHANGED head, AtFirst(job[j]), Newest(job[j]),
         BucketBehind, Moves(job[j], job'[j])
  PROVE  AtFirst(job'[j]) /\ Newest(job[j])' /\ BucketBehind' /\ NoFileBack
<1> DEFINE q == job[j]
           h == head[FirstBranch]
           below(o, n) == \A k \in DOMAIN o : o[k] <= n
<1>0. /\ h \in Nat /\ q.commit \in Nat /\ q.pc \notin Ended
      /\ \A k \in DOMAIN objects : objects[k] \in Nat
      /\ \A k \in DOMAIN objects' : objects'[k] \in Nat
  BY BucketNumbers, MovesRun
<1>1. q.branch = FirstBranch /\ q.app = FirstBranch
  BY <1>0 DEF AtFirst, Ended
<1>2. below(objects, h) /\ (q.pc \in Built => q.commit <= h /\ below(objects, q.commit))
  BY DEF BucketBehind, Newest
<1> SUFFICES ASSUME NEW r, r = job'[j]
             PROVE  /\ AtFirst(r) /\ NoFileBack /\ below(objects', h)
                    /\ r.pc \in Built => r.commit <= h /\ below(objects', r.commit)
  BY DEF BucketBehind, Newest
<1>3. ASSUME UNCHANGED objects PROVE NoFileBack /\ below(objects', h)
  BY <1>0, <1>2, <1>3 DEF NoFileBack
<1>4. CASE Fails(q, r)
  <2>1. AtFirst(r) /\ r.pc \notin Built /\ UNCHANGED objects
    BY <1>1, <1>4 DEF Fails, AtFirst, Built, Trigger, Source
  <2> QED BY <1>3, <2>1
<1>5. CASE Loads(q, r)
  <2>1. AtFirst(r) /\ r.pc \notin Built /\ UNCHANGED objects
    BY <1>1, <1>5 DEF Loads, AtFirst, Built, Trigger
  <2> QED BY <1>3, <2>1
<1>6. CASE Ensures(q, r)
  <2>1. AtFirst(r) /\ r.pc \notin Built
    BY <1>1, <1>6 DEF Ensures, AtFirst, Built, Trigger, Source
  <2>2. CASE UNCHANGED objects
    BY <1>3, <2>1, <2>2
  <2>3. CASE /\ DOMAIN objects' = DOMAIN objects \cup {IndexKey} /\ objects'[IndexKey] = 0
             /\ SameBut(objects, objects', IndexKey)
    <3>1. \A k \in DOMAIN objects' : objects'[k] = 0 \/ (k \in DOMAIN objects /\ objects'[k] = objects[k])
      BY <2>3 DEF SameBut
    <3> QED BY <1>0, <1>2, <2>1, <3>1 DEF NoFileBack
  <2> QED BY <1>6, <2>2, <2>3 DEF Ensures
<1>7. CASE Clones(q, r)
  <2>1. AtFirst(r) /\ r.commit = h /\ UNCHANGED objects
    BY <1>1, <1>7 DEF Clones, AtFirst, Trigger, Source
  <2> QED BY <1>0, <1>3, <2>1
<1>8. CASE Puts(q, r)
  <2>1. PICK k \in q.todo : /\ DOMAIN objects' = DOMAIN objects \cup {k}
                            /\ objects'[k] = q.commit /\ SameBut(objects, objects', k)
    BY <1>8 DEF Puts
  <2>2. AtFirst(r) /\ r.commit = q.commit /\ q.pc \in Built
    BY <1>1, <1>8 DEF Puts, AtFirst, Trigger, Source, Built
  <2>3. \A m \in DOMAIN objects' : objects'[m] = q.commit \/ (m \in DOMAIN objects /\ objects'[m] = objects[m])
    BY <2>1 DEF SameBut
  <2> QED BY <1>0, <1>2, <2>2, <2>3 DEF NoFileBack
<1>9. CASE Builds(q, r) \/ Lists(q, r) \/ Invalidates(q, r)
  <2>1. AtFirst(r) /\ r.commit = q.commit /\ q.pc \in Built /\ UNCHANGED objects
    BY <1>1, <1>9 DEF Builds, Lists, Invalidates, AtFirst, Trigger, Source, Built
  <2> QED BY <1>2, <1>3, <2>1
<1>10. CASE Deletes(q, r)
  <2>1. AtFirst(r) /\ r.commit = q.commit /\ q.pc \in Built
    BY <1>1, <1>10 DEF Deletes, AtFirst, Trigger, Source, Built
  <2>2. \A k \in DOMAIN objects' : k \in DOMAIN objects /\ objects'[k] = objects[k]
    BY <1>10 DEF Deletes
  <2> QED BY <1>0, <1>2, <2>1, <2>2 DEF NoFileBack
<1> QED BY <1>4, <1>5, <1>6, <1>7, <1>8, <1>9, <1>10 DEF Moves

LEMMA OrderlyNext ==
  TypeOK /\ OrderlyInv /\ [Next]_vars => OrderlyInv' /\ (orderly' /\ patches' = 0 => NoFileBack)
<1> SUFFICES ASSUME TypeOK, OrderlyInv, [Next]_vars, orderly', patches' = 0
             PROVE  /\ appBranch' = FirstBranch
                    /\ \A d \in deliveries' : d.branch = FirstBranch
                    /\ \A j \in Jobs : AtFirst(job'[j]) /\ Newest(job[j])'
                    /\ BucketBehind'
                    /\ \A i, j \in Active' : i = j
                    /\ NoFileBack
  BY DEF OrderlyInv, AtFirst
<1>0. TypeOK' /\ PipelineAssumption
  BY TypeStep, PipelineAssumption
<1>N. /\ \A k \in DOMAIN objects : objects[k] \in Nat
      /\ head[FirstBranch] \in Nat /\ \A j \in Jobs : job[j].commit \in Nat
  BY BucketNumbers
<1>S. ASSUME UNCHANGED objects PROVE NoFileBack
  BY <1>N, <1>S DEF NoFileBack
<1>1. CASE UNCHANGED vars
  BY <1>S, <1>1 DEF vars, OrderlyInv, Newest, BucketBehind, Active
<1>2. ASSUME NEW b \in Branches, Push(b)
      PROVE  /\ appBranch' = FirstBranch
             /\ \A d \in deliveries' : d.branch = FirstBranch
             /\ \A j \in Jobs : AtFirst(job'[j]) /\ Newest(job[j])'
             /\ BucketBehind'
             /\ \A i, j \in Active' : i = j
             /\ NoFileBack
  <2>1. orderly /\ patches = 0 /\ UNCHANGED <<appBranch, job, objects>>
    BY <1>2 DEF Push, application, ghosts
  <2>2. head'[FirstBranch] \in Nat /\ head[FirstBranch] <= head'[FirstBranch]
    <3>1. newest \in Nat /\ head[FirstBranch] <= newest
      BY <1>0, CommitFacts DEF TypeOK, PipelineAssumption
    <3>2. head'[FirstBranch] \in {head[FirstBranch], newest + 1}
      BY <1>0, <1>2 DEF Push, TypeOK, PipelineAssumption
    <3> QED BY <1>N, <3>1, <3>2
  <2>3. \A d \in deliveries' : d.branch = FirstBranch
    BY <1>2, <2>1 DEF Push, OrderlyInv
  <2>4. ASSUME NEW j \in Jobs PROVE AtFirst(job'[j]) /\ Newest(job[j])'
    BY <1>N, <2>1, <2>2 DEF OrderlyInv, Newest
  <2>5. BucketBehind'
    BY <1>N, <2>1, <2>2 DEF OrderlyInv, BucketBehind
  <2>6. \A i, j \in Active' : i = j
    BY <2>1 DEF OrderlyInv, Active
  <2> QED BY <1>S, <2>1, <2>3, <2>4, <2>5, <2>6 DEF OrderlyInv
<1>3. ASSUME NEW b \in Branches PROVE ~PatchBranch(b)
  BY <1>0 DEF PatchBranch, TypeOK
<1>4. ASSUME NEW j \in Jobs, JobStarts(j)
      PROVE  /\ appBranch' = FirstBranch
             /\ \A d \in deliveries' : d.branch = FirstBranch
             /\ \A i \in Jobs : AtFirst(job'[i]) /\ Newest(job[i])'
             /\ BucketBehind'
             /\ \A i, m \in Active' : i = m
             /\ NoFileBack
  <2>1. PICK kind \in {"manual", "webhook", "retry"}, branch \in Branches,
             commit \in Commits \cup {0} : Triggered(j, kind, branch, commit)
    BY <1>4 DEF JobStarts
  <2>2. /\ orderly /\ Active = {} /\ patches = 0
        /\ UNCHANGED <<head, appBranch, objects>>
        /\ job'[j].pc = "row" /\ job'[j].branch = branch /\ job'[j].app = appBranch
        /\ \A i \in Jobs \ {j} : job'[i] = job[i]
    BY <2>1, StartStep DEF Trigger, Source, application
  <2>3. branch = FirstBranch
    BY <2>1, <2>2 DEF Triggered, OrderlyInv
  <2>4. \A d \in deliveries' : d.branch = FirstBranch
    BY <2>1, <2>2 DEF Triggered, OrderlyInv
  <2>5. \A i \in Jobs : AtFirst(job'[i]) /\ Newest(job[i])'
    BY <2>2, <2>3 DEF OrderlyInv, AtFirst, Newest, Built
  <2>6. Active' \subseteq {j}
    BY <2>2 DEF Active
  <2> QED BY <1>S, <2>2, <2>4, <2>5, <2>6 DEF OrderlyInv, BucketBehind
<1>5. ASSUME NEW j \in Jobs, JobMoves(j)
      PROVE  /\ appBranch' = FirstBranch
             /\ \A d \in deliveries' : d.branch = FirstBranch
             /\ \A i \in Jobs : AtFirst(job'[i]) /\ Newest(job[i])'
             /\ BucketBehind'
             /\ \A i, m \in Active' : i = m
             /\ NoFileBack
  <2>1. /\ orderly /\ patches = 0 /\ UNCHANGED <<head, appBranch, deliveries>>
        /\ Moves(job[j], job'[j]) /\ j \in Active
        /\ \A i \in Jobs \ {j} : job'[i] = job[i]
    BY <1>5 DEF JobMoves, repository, application, ghosts, Active
  <2>2. AtFirst(job'[j]) /\ Newest(job[j])' /\ BucketBehind' /\ NoFileBack
    BY <1>0, <2>1, OrderlyMoves DEF OrderlyInv
  <2>3. ASSUME NEW i \in Jobs \ {j} PROVE i \notin Active /\ AtFirst(job'[i]) /\ Newest(job[i])'
    <3>1. i \notin Active
      BY <2>1 DEF OrderlyInv
    <3>2. job'[i] = job[i] /\ job[i].pc \in Ended
      BY <2>1, <3>1 DEF Active
    <3> QED BY <2>1, <3>1, <3>2 DEF OrderlyInv, Newest, Built, Ended
  <2>4. Active' \subseteq {j}
    BY <2>1, <2>3 DEF Active
  <2> QED BY <2>1, <2>2, <2>3, <2>4 DEF OrderlyInv
<1>6. CASE Crash
  <2>1. UNCHANGED <<orderly, patches, head, appBranch, deliveries, objects>>
    BY <1>6 DEF Crash, repository, application, ghosts
  <2>2. \A j \in Jobs : job[j].pc \in Ended => job'[j] = job[j]
    BY <1>6, CrashStep DEF Active
  <2>3. ASSUME NEW j \in Jobs, job[j].pc \notin Ended
        PROVE  job'[j].pc = "failed" /\ job'[j].branch = job[j].branch /\ job'[j].app = job[j].app
    <3>1. job'[j] = Failed(job[j]) /\ job[j] \in JobType
      BY <1>6, <2>3, CrashStep DEF Active, TypeOK
    <3> QED BY <3>1, FailedFields DEF Trigger, Source
  <2>4. Active' = {}
    BY <2>2, <2>3 DEF Active, Ended
  <2>5. ASSUME NEW j \in Jobs PROVE AtFirst(job'[j]) /\ Newest(job[j])'
    BY <2>1, <2>2, <2>3 DEF OrderlyInv, AtFirst, Newest, Built, Ended
  <2> QED BY <1>S, <2>1, <2>4, <2>5 DEF OrderlyInv, BucketBehind
<1> QED BY <1>1, <1>2, <1>3, <1>4, <1>5, <1>6, Steps

\* Deployments that do not overlap never put an older file over a newer one,
\* in whatever order pushes are reported and whichever deployment is retried.
THEOREM FilesNeverGoBack == Spec => SiteNeverGoesBack
<1>1. TypeOK /\ OrderlyInv /\ [Next]_vars =>
        [orderly' /\ patches' = 0 =>
           \A k \in DOMAIN objects \cap DOMAIN objects' :
             objects'[k] = 0 \/ objects'[k] >= objects[k]]_vars
  BY OrderlyNext DEF NoFileBack
<1>2. TypeOK /\ OrderlyInv /\ [Next]_vars => OrderlyInv'
  BY OrderlyNext
<1> QED BY <1>1, <1>2, TypeCorrect, OrderlyInit, PTL DEF Spec, SiteNeverGoesBack

-----------------------------------------------------------------------------
(***************************************************************************)
(* The sync of a deployment that is alone, stage by stage.                 *)
(***************************************************************************)
HasNew(q, o, K) == \A k \in K : k \in DOMAIN o /\ o[k] = q.commit
ElseOld(q, o, K) == \A k \in DOMAIN o \ K : k \in DOMAIN q.before /\ o[k] = q.before[k]
Broken(q, o) ==
  /\ \A k \in DOMAIN o : o[k] = q.commit \/ (k \in DOMAIN q.before /\ o[k] = q.before[k])
  /\ DOMAIN q.before \subseteq DOMAIN o \/ HasNew(q, o, Files(q))

NotYet(q) ==
  q.pc \in {"idle", "row", "infra", "checkout", "build"} => Sync(q) = <<EmptyBucket, {}>>
PutStage(q, o) ==
  /\ q.kept = {} /\ q.todo \subseteq Files(q) /\ DOMAIN q.before \subseteq DOMAIN o
  /\ HasNew(q, o, Files(q) \ q.todo) /\ ElseOld(q, o, Files(q) \ q.todo)
AllNew(q, o) == HasNew(q, o, Files(q)) /\ ElseOld(q, o, Files(q))
ListStage(q, o) ==
  AllNew(q, o) /\ q.kept = {} /\ q.todo = {k \in DOMAIN o \ Files(q) : k <= q.page}
DeleteStage(q, o) ==
  /\ AllNew(q, o) /\ q.kept \subseteq DOMAIN o /\ q.kept \cap q.todo = {}
  /\ q.todo \cap Files(q) = {} /\ DOMAIN o \subseteq Files(q) \cup q.todo \cup q.kept
DoneStage(q, o) ==
  AllNew(q, o) /\ DOMAIN o = Files(q) \cup q.kept
Stage(q, o) ==
  /\ q.pc = "put" => PutStage(q, o)
  /\ q.pc = "list" => ListStage(q, o)
  /\ q.pc = "delete" => DeleteStage(q, o)
  /\ q.pc \in {"invalidate", "deployed"} => DoneStage(q, o)
  /\ q.pc = "failed" /\ q.before # EmptyBucket => Broken(q, o)
AloneInv ==
  /\ \A j \in Jobs : NotYet(job[j])
  /\ \A j \in alone : Active \subseteq {j} /\ Stage(job[j], objects)

LEMMA AloneInit == Init => AloneInv
<1>1. NotYet(NewJob)
  BY DEF NewJob, NotYet, Sync
<1> QED BY <1>1 DEF Init, AloneInv

\* Wherever a sync is, the site is not broken.
LEMMA StageBroken ==
  ASSUME NEW q, NEW o, Stage(q, o), NotYet(q), q.pc \in PC, q.before # EmptyBucket
  PROVE  Broken(q, o)
<1>1. CASE q.pc = "put"
  <2>1. PutStage(q, o)
    BY <1>1 DEF Stage
  <2> QED BY <2>1 DEF PutStage, Broken, HasNew, ElseOld
<1>2. CASE q.pc \in {"list", "delete", "invalidate", "deployed"}
  <2>1. AllNew(q, o)
    BY <1>2 DEF Stage, ListStage, DeleteStage, DoneStage
  <2> QED BY <2>1 DEF AllNew, Broken, HasNew, ElseOld
<1>3. CASE q.pc = "failed"
  BY <1>3 DEF Stage
<1>4. CASE q.pc \in {"idle", "row", "infra", "checkout", "build"}
  BY <1>4 DEF NotYet, Sync
<1> QED BY <1>1, <1>2, <1>3, <1>4 DEF PC

LEMMA NotYetMoves == ASSUME NEW q, NEW r, Moves(q, r), NotYet(q) PROVE NotYet(r)
<1>1. r.pc \in {"infra", "checkout", "build"} =>
        Sync(r) = Sync(q) /\ q.pc \in {"row", "infra", "checkout"}
  BY DEF Moves, Fails, Loads, Ensures, Clones, Builds, Puts, Lists, Deletes, Invalidates
<1>2. r.pc \notin {"idle", "row"}
  BY DEF Moves, Fails, Loads, Ensures, Clones, Builds, Puts, Lists, Deletes, Invalidates
<1> QED BY <1>1, <1>2 DEF NotYet

LEMMA StageMoves ==
  ASSUME TypeOK, NEW q \in JobType, JobOK(q), NEW r \in JobType, Moves(q, r),
         NotYet(q), Stage(q, objects)
  PROVE  NotYet(r) /\ Stage(r, objects')
<1>0. /\ q.commit \in Commits \cup {0} /\ DOMAIN objects \in SUBSET Keys /\ q.page \in Nat
      /\ q.pc \in PC
  BY JobFacts, BucketFacts DEF TypeOK
<1>1. CASE Fails(q, r)
  <2>1. /\ r.pc = "failed" /\ Files(r) = Files(q) /\ r.before = q.before /\ r.commit = q.commit
        /\ UNCHANGED objects
    BY <1>1 DEF Fails, Source, Sync, Files
  <2>2. q.before # EmptyBucket => Broken(q, objects)
    BY <1>0, StageBroken
  <2>3. q.before # EmptyBucket => Broken(r, objects')
    BY <2>1, <2>2 DEF Broken, HasNew
  <2> QED BY <2>1, <2>3 DEF NotYet, Stage
<1>2. CASE Loads(q, r) \/ Ensures(q, r) \/ Clones(q, r)
  <2>1. /\ q.pc \in {"row", "infra", "checkout"} /\ r.pc \in {"infra", "checkout", "build"}
        /\ Sync(r) = Sync(q)
    BY <1>2 DEF Loads, Ensures, Clones
  <2> QED BY <2>1 DEF NotYet, Stage
<1>3. CASE Builds(q, r)
  <2>1. /\ r.pc = "put" /\ r.todo = Files(r) /\ r.before = objects /\ r.kept = {}
        /\ UNCHANGED objects
    BY <1>3 DEF Builds, Source, Sync, Files, NotYet
  <2>2. PutStage(r, objects')
    BY <2>1 DEF PutStage, HasNew, ElseOld
  <2> QED BY <2>1, <2>2 DEF NotYet, Stage
<1>4. CASE Puts(q, r)
  <2>1. PICK k \in q.todo : /\ r.todo = q.todo \ {k} /\ r.page = 0
                            /\ DOMAIN objects' = DOMAIN objects \cup {k}
                            /\ objects'[k] = q.commit /\ SameBut(objects, objects', k)
    BY <1>4 DEF Puts
  <2>2. /\ q.pc = "put" /\ r.pc = IF r.todo = {} THEN "list" ELSE "put"
        /\ Files(r) = Files(q) /\ r.before = q.before /\ r.commit = q.commit /\ r.kept = q.kept
    BY <1>4 DEF Puts, Source, Sync, Files
  <2>3. PutStage(q, objects)
    BY <2>2 DEF Stage
  <2>4. Files(r) \ r.todo = (Files(q) \ q.todo) \cup {k}
    BY <2>1, <2>2, <2>3 DEF PutStage
  <2>5. HasNew(r, objects', (Files(q) \ q.todo) \cup {k})
    BY <2>1, <2>2, <2>3 DEF PutStage, HasNew, SameBut
  <2>6. ElseOld(r, objects', (Files(q) \ q.todo) \cup {k})
    BY <2>1, <2>2, <2>3 DEF PutStage, ElseOld, SameBut
  <2>7. PutStage(r, objects')
    BY <2>1, <2>2, <2>3, <2>4, <2>5, <2>6 DEF PutStage
  <2>8. ASSUME r.todo = {} PROVE ListStage(r, objects')
    <3>1. Files(r) \ r.todo = Files(r)
      BY <2>8
    <3>2. AllNew(r, objects') /\ r.kept = {}
      BY <2>7, <3>1 DEF PutStage, AllNew
    <3>3. \A m \in DOMAIN objects' : ~ (m <= 0)
      <4>1. DOMAIN objects' \subseteq Keys
        BY <1>0, <2>1, JobFacts
      <4>2. \A m \in Keys : ~ (m <= 0)
        BY KeyFacts
      <4> QED BY <4>1, <4>2
    <3> QED BY <2>1, <2>8, <3>2, <3>3 DEF ListStage
  <2> QED BY <2>2, <2>7, <2>8 DEF NotYet, Stage
<1>5. CASE Lists(q, r)
  <2> DEFINE rest == {k \in DOMAIN objects : k > q.page}
  <2>1. /\ q.pc = "list" /\ Files(r) = Files(q) /\ r.before = q.before /\ r.commit = q.commit
        /\ r.kept = q.kept /\ UNCHANGED objects
        /\ r.todo = q.todo \cup (Page(rest) \ Files(q))
        /\ \/ rest = Page(rest) /\ r.pc = IF r.todo = {} THEN "invalidate" ELSE "delete"
           \/ /\ r.pc = "list" /\ r.page \in Page(rest)
              /\ \A m \in rest : m \in Page(rest) <=> m <= r.page
    BY <1>5 DEF Lists, Source, Sync, Files
  <2>2. ListStage(q, objects)
    BY <2>1 DEF Stage
  <2>3. AllNew(r, objects')
    BY <2>1, <2>2 DEF ListStage, AllNew, HasNew, ElseOld
  <2>4. q.todo = {k \in DOMAIN objects \ Files(q) : k <= q.page} /\ q.kept = {}
    BY <2>2 DEF ListStage
  <2>5. DOMAIN objects \subseteq Nat
    BY <1>0, KeyFacts
  <2>6. CASE rest = Page(rest)
    <3>1. r.todo = DOMAIN objects \ Files(q)
      BY <1>0, <2>1, <2>4, <2>5, <2>6
    <3>2. CASE r.todo = {} /\ r.pc = "invalidate"
      <4>1. DOMAIN objects' = Files(r) \cup r.kept
        BY <2>1, <2>3, <2>4, <3>1, <3>2 DEF AllNew, HasNew
      <4> QED BY <2>3, <3>2, <4>1 DEF NotYet, Stage, DoneStage
    <3>3. CASE r.pc = "delete"
      <4>1. DeleteStage(r, objects')
        BY <2>1, <2>3, <2>4, <3>1 DEF DeleteStage
      <4> QED BY <3>3, <4>1 DEF NotYet, Stage
    <3>4. CASE r.pc = "list" /\ r.page \in Page(rest)
      <4>1. r.page \in rest /\ \A m \in rest : m <= r.page
        BY <2>1, <2>6, <3>4
      <4>2. r.todo = {k \in DOMAIN objects \ Files(q) : k <= r.page}
        BY <1>0, <2>5, <3>1, <4>1
      <4>3. ListStage(r, objects')
        BY <2>1, <2>3, <2>4, <4>2 DEF ListStage
      <4> QED BY <3>4, <4>3 DEF NotYet, Stage
    <3> QED BY <2>1, <3>2, <3>3, <3>4
  <2>7. CASE /\ r.pc = "list" /\ r.page \in Page(rest)
             /\ \A m \in rest : m \in Page(rest) <=> m <= r.page
    <3>1. Page(rest) \subseteq rest
      <4>1. rest \in SUBSET Keys
        BY <1>0
      <4> QED BY <4>1, PageFacts
    <3>2. r.todo = {k \in DOMAIN objects \ Files(q) : k <= r.page}
      BY <1>0, <2>1, <2>4, <2>5, <2>7, <3>1
    <3>3. ListStage(r, objects')
      BY <2>1, <2>3, <2>4, <3>2 DEF ListStage
    <3> QED BY <2>7, <3>3 DEF NotYet, Stage
  <2> QED BY <2>1, <2>6, <2>7
<1>6. CASE Deletes(q, r)
  <2>1. PICK batch \in SUBSET q.todo, kept \in SUBSET q.todo :
          /\ kept \subseteq batch \cap DOMAIN objects
          /\ r.todo = q.todo \ batch /\ r.kept = q.kept \cup kept
          /\ DOMAIN objects' = DOMAIN objects \ (batch \ kept)
          /\ \A k \in DOMAIN objects' : objects'[k] = objects[k]
    BY <1>6 DEF Deletes
  <2>2. /\ q.pc = "delete" /\ r.pc = IF r.todo = {} THEN "invalidate" ELSE "delete"
        /\ Files(r) = Files(q) /\ r.before = q.before /\ r.commit = q.commit
    BY <1>6 DEF Deletes, Source, Files
  <2>3. DeleteStage(q, objects)
    BY <2>2 DEF Stage
  <2>4. AllNew(r, objects')
    <3>1. HasNew(r, objects', Files(r))
      BY <2>1, <2>2, <2>3 DEF DeleteStage, AllNew, HasNew
    <3>2. ElseOld(r, objects', Files(r))
      BY <2>1, <2>2, <2>3 DEF DeleteStage, AllNew, ElseOld
    <3> QED BY <3>1, <3>2 DEF AllNew
  <2>5. DeleteStage(r, objects')
    BY <2>1, <2>2, <2>3, <2>4 DEF DeleteStage
  <2>6. ASSUME r.todo = {} PROVE DoneStage(r, objects')
    BY <2>5, <2>6 DEF DeleteStage, DoneStage, AllNew, HasNew
  <2> QED BY <2>2, <2>5, <2>6 DEF NotYet, Stage
<1>7. CASE Invalidates(q, r)
  <2>1. /\ q.pc = "invalidate" /\ r.pc = "deployed" /\ Files(r) = Files(q)
        /\ r.before = q.before /\ r.commit = q.commit /\ r.kept = q.kept /\ UNCHANGED objects
    BY <1>7 DEF Invalidates, Source, Sync, Files
  <2>2. DoneStage(q, objects)
    BY <2>1 DEF Stage
  <2>3. DoneStage(r, objects')
    BY <2>1, <2>2 DEF DoneStage, AllNew, HasNew, ElseOld
  <2> QED BY <2>1, <2>3 DEF NotYet, Stage
<1> QED BY <1>1, <1>2, <1>3, <1>4, <1>5, <1>6, <1>7 DEF Moves

LEMMA FailedStage ==
  ASSUME NEW q \in JobType, NEW o, Stage(q, o), NotYet(q)
  PROVE  NotYet(Failed(q)) /\ Stage(Failed(q), o)
<1> DEFINE r == Failed(q)
<1>1. r.pc = "failed" /\ r.before = q.before /\ r.commit = q.commit /\ Files(r) = Files(q)
  BY FailedFields DEF Source, Sync, Files
<1>2. q.pc \in PC
  BY DEF JobType
<1> HIDE DEF r
<1>3. q.before # EmptyBucket => Broken(q, o)
  BY <1>2, StageBroken
<1>4. r.before # EmptyBucket => Broken(r, o)
  BY <1>1, <1>3 DEF Broken, HasNew
<1>5. NotYet(r) /\ Stage(r, o)
  BY <1>1, <1>4 DEF NotYet, Stage
<1> QED BY <1>5 DEF r

LEMMA AloneNext == TypeOK /\ AloneInv /\ [Next]_vars => AloneInv'
<1> SUFFICES ASSUME TypeOK, AloneInv, [Next]_vars
             PROVE  /\ \A j \in Jobs : NotYet(job'[j])
                    /\ \A j \in alone' : Active' \subseteq {j} /\ Stage(job'[j], objects')
  BY DEF AloneInv, NotYet, Stage, PutStage, ListStage, DeleteStage, DoneStage, AllNew, HasNew,
         ElseOld, Broken, Files, Sync
<1>0. TypeOK' /\ alone \subseteq Jobs
  BY TypeStep DEF TypeOK
<1>1. CASE UNCHANGED <<job, objects, alone>>
  BY <1>1 DEF AloneInv, Active
<1>2. ASSUME NEW b \in Branches, Push(b) \/ PatchBranch(b) PROVE UNCHANGED <<job, objects, alone>>
  BY <1>2 DEF Push, PatchBranch, ghosts
<1>3. ASSUME NEW j \in Jobs, JobStarts(j)
      PROVE  /\ \A i \in Jobs : NotYet(job'[i])
             /\ \A i \in alone' : Active' \subseteq {i} /\ Stage(job'[i], objects')
  <2>1. /\ job[j].pc = "idle" /\ job'[j].pc = "row" /\ Sync(job'[j]) = Sync(job[j])
        /\ \A i \in Jobs \ {j} : job'[i] = job[i]
        /\ UNCHANGED objects /\ alone' = IF Active = {} THEN {j} ELSE {}
    BY <1>3, StartStep DEF JobStarts
  <2>2. \A i \in Jobs : NotYet(job'[i])
    BY <2>1 DEF AloneInv, NotYet
  <2>3. Stage(job'[j], objects')
    BY <2>1 DEF Stage
  <2>4. Active = {} => Active' \subseteq {j}
    BY <2>1 DEF Active
  <2> QED BY <2>1, <2>2, <2>3, <2>4
<1>4. ASSUME NEW j \in Jobs, JobMoves(j)
      PROVE  /\ \A i \in Jobs : NotYet(job'[i])
             /\ \A i \in alone' : Active' \subseteq {i} /\ Stage(job'[i], objects')
  <2>1. /\ Moves(job[j], job'[j]) /\ j \in Active /\ UNCHANGED alone
        /\ \A i \in Jobs \ {j} : job'[i] = job[i]
    BY <1>4 DEF JobMoves, ghosts, Active
  <2>2. job[j] \in JobType /\ JobOK(job[j]) /\ job'[j] \in JobType /\ NotYet(job[j])
    BY <1>0 DEF TypeOK, AloneInv
  <2>3. NotYet(job'[j])
    BY <2>1, <2>2, NotYetMoves
  <2>4. ASSUME NEW i \in alone' PROVE Active' \subseteq {i} /\ Stage(job'[i], objects')
    <3>1. i = j /\ Active \subseteq {j} /\ Stage(job[j], objects)
      BY <2>1 DEF AloneInv
    <3>2. Active' \subseteq {j}
      BY <2>1, <3>1 DEF Active
    <3> QED BY <2>1, <2>2, <3>1, <3>2, StageMoves
  <2> QED BY <2>1, <2>3, <2>4 DEF AloneInv
<1>5. CASE Crash
  <2>1. UNCHANGED <<objects, alone>>
    BY <1>5 DEF Crash, ghosts
  <2>2. \A j \in Jobs : /\ job'[j] = IF j \in Active THEN Failed(job[j]) ELSE job[j]
                        /\ job[j] \in JobType /\ NotYet(job[j])
    BY <1>5, CrashStep DEF AloneInv, TypeOK
  <2>3. \A j \in Jobs : Failed(job[j]).pc = "failed"
    BY <2>2, FailedFields
  <2>4. Active' = {} /\ \A j \in Jobs : NotYet(job'[j])
    BY <2>2, <2>3 DEF Active, Ended, NotYet
  <2>5. \A j \in alone : Stage(job'[j], objects)
    BY <1>0, <2>2, FailedStage DEF AloneInv
  <2> QED BY <2>1, <2>4, <2>5
<1> QED BY <1>1, <1>2, <1>3, <1>4, <1>5, Steps DEF vars, ghosts

LEMMA AloneSpec == Spec => []AloneInv
BY TypeCorrect, AloneInit, AloneNext, PTL DEF Spec

\* A deployment that is alone from start to end leaves exactly the files of its
\* build, whatever was in the bucket and however many keys, pages and batches.
THEOREM SyncIsExact == Spec => []UndisturbedSyncIsExact
<1>1. TypeOK /\ AloneInv => UndisturbedSyncIsExact
  <2> SUFFICES ASSUME TypeOK, AloneInv, NEW j \in Jobs, job[j].pc = "deployed", j \in alone
               PROVE  LET files == Artifacts(job[j].commit) IN
                        objects = [k \in files \cup job[j].kept |->
                                     IF k \in files THEN job[j].commit ELSE job[j].before[k]]
    BY DEF UndisturbedSyncIsExact
  <2> DEFINE q == job[j]
             files == Artifacts(q.commit)
  <2>1. DoneStage(q, objects) /\ files = Files(q)
    BY DEF AloneInv, Stage, Files
  <2>2. /\ DOMAIN objects = files \cup q.kept
        /\ \A k \in files : objects[k] = q.commit
        /\ \A k \in DOMAIN objects \ files : objects[k] = q.before[k]
    BY <2>1 DEF DoneStage, AllNew, HasNew, ElseOld
  <2>3. objects \in [DOMAIN objects -> Commits \cup {0}]
    BY BucketFacts DEF TypeOK
  <2> HIDE DEF q, files
  <2>4. objects = [k \in files \cup q.kept |-> IF k \in files THEN q.commit ELSE q.before[k]]
    BY <2>2, <2>3
  <2> QED BY <2>4 DEF q, files
<1> QED BY <1>1, TypeCorrect, AloneSpec, PTL

\* While such a deployment syncs, and wherever it breaks off, no old file is
\* gone before all the new ones are there.
THEOREM OldFilesAreKept == Spec => []BrokenSyncKeepsOldFiles
<1>1. TypeOK /\ AloneInv => BrokenSyncKeepsOldFiles
  <2> SUFFICES ASSUME TypeOK, AloneInv, NEW j \in alone, job[j].before # EmptyBucket
               PROVE  Broken(job[j], objects)
    BY DEF BrokenSyncKeepsOldFiles, Broken, HasNew, Files
  <2>1. j \in Jobs /\ job[j].pc \in PC
    BY DEF TypeOK, JobType
  <2> QED BY <2>1, StageBroken DEF AloneInv
<1> QED BY <1>1, TypeCorrect, AloneSpec, PTL
=============================================================================
