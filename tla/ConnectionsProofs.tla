--------------------------- MODULE ConnectionsProofs ---------------------------
(***************************************************************************)
(* Proofs about Connections, for any roles, accounts, applications,        *)
(* requests, deployments and deletions, and any bounds.                    *)
(***************************************************************************)
EXTENDS Connections, SequenceTheorems, TLAPS

-----------------------------------------------------------------------------
(***************************************************************************)
(* The table of connections.                                               *)
(***************************************************************************)
OneRowPerRole(s) == \A i, j \in DOMAIN s : s[i].role = s[j].role => i = j

LEMMA RowsOfOthers ==
  ASSUME connections \in Seq(Connection), OneRowPerRole(connections), NEW r \in Roles
  PROVE  /\ Others(r) \in Seq(Connection)
         /\ OneRowPerRole(Others(r))
         /\ \A i \in DOMAIN Others(r) : Others(r)[i].role # r
         /\ \A i \in DOMAIN Others(r) : \E k \in DOMAIN connections : Others(r)[i] = connections[k]
<1> DEFINE at == {i \in DOMAIN connections : connections[i].role = r}
<1>0. Len(connections) \in Nat /\ DOMAIN connections = 1 .. Len(connections)
      /\ \A i \in 1 .. Len(connections) : connections[i] \in Connection
  BY LenProperties, ElementOfSeq
<1>1. CASE at = {}
  <2>1. Others(r) = connections
    BY <1>1 DEF Others
  <2> QED BY <1>1, <2>1
<1>2. CASE at # {}
  <2> DEFINE k == CHOOSE i \in at : TRUE
             s == SubSeq(connections, 1, k - 1)
             t == SubSeq(connections, k + 1, Len(connections))
  <2>1. k \in 1 .. Len(connections) /\ connections[k].role = r
    BY <1>0, <1>2
  <2>2. Others(r) = s \o t
    BY <1>2 DEF Others, RemoveAt
  <2> HIDE DEF k
  <2>3. s \in Seq(Connection) /\ Len(s) = k - 1 /\ \A i \in 1 .. k - 1 : s[i] = connections[i]
    <3>1. k - 1 \in Int /\ 1 \in Int /\ \A i \in 1 .. k - 1 : connections[i] \in Connection
      BY <1>0, <2>1
    <3>2. /\ s \in Seq(Connection)
          /\ Len(s) = IF 1 <= k - 1 THEN (k - 1) - 1 + 1 ELSE 0
          /\ \A i \in 1 .. (k - 1) - 1 + 1 : s[i] = connections[1 + i - 1]
      BY <3>1, SubSeqProperties
    <3> QED BY <1>0, <2>1, <3>2
  <2>4. /\ t \in Seq(Connection) /\ Len(t) = Len(connections) - k
        /\ \A i \in 1 .. Len(connections) - k : t[i] = connections[k + i]
    <3>1. k + 1 \in Int /\ Len(connections) \in Int
          /\ \A i \in k + 1 .. Len(connections) : connections[i] \in Connection
      BY <1>0, <2>1
    <3>2. /\ t \in Seq(Connection)
          /\ Len(t) = IF k + 1 <= Len(connections) THEN Len(connections) - (k + 1) + 1 ELSE 0
          /\ \A i \in 1 .. Len(connections) - (k + 1) + 1 : t[i] = connections[(k + 1) + i - 1]
      BY <3>1, SubSeqProperties
    <3> QED BY <1>0, <2>1, <3>2
  <2> HIDE DEF s, t
  <2>5. /\ s \o t \in Seq(Connection) /\ Len(s \o t) = Len(s) + Len(t)
        /\ \A i \in 1 .. Len(s) + Len(t) : (s \o t)[i] = IF i <= Len(s) THEN s[i] ELSE t[i - Len(s)]
    BY <2>3, <2>4, ConcatProperties
  <2>k. k \in Nat /\ k <= Len(connections) /\ k >= 1
    BY <1>0, <2>1
  <2>6. DOMAIN (s \o t) = 1 .. Len(connections) - 1
    <3>1. DOMAIN (s \o t) = 1 .. Len(s \o t)
      BY <2>5, LenProperties
    <3>2. Len(s \o t) = Len(connections) - 1
      BY <1>0, <2>k, <2>3, <2>4, <2>5
    <3> QED BY <3>1, <3>2
  <2>7. \A i \in DOMAIN (s \o t) :
          \/ i < k /\ i \in DOMAIN connections /\ (s \o t)[i] = connections[i]
          \/ i >= k /\ i + 1 \in DOMAIN connections /\ (s \o t)[i] = connections[i + 1]
    <3> SUFFICES ASSUME NEW i \in 1 .. Len(connections) - 1
                 PROVE  \/ i < k /\ i \in DOMAIN connections /\ (s \o t)[i] = connections[i]
                        \/ i >= k /\ i + 1 \in DOMAIN connections
                           /\ (s \o t)[i] = connections[i + 1]
      BY <2>6
    <3>0. i \in Nat /\ i \in DOMAIN connections /\ i + 1 \in DOMAIN connections
          /\ i \in 1 .. Len(s) + Len(t)
      BY <1>0, <2>3, <2>4, <2>k
    <3>1. CASE i < k
      <4>1. i <= Len(s) /\ i \in 1 .. k - 1
        BY <2>3, <2>k, <3>0, <3>1
      <4> QED BY <2>3, <2>5, <3>0, <3>1, <4>1
    <3>2. CASE i >= k
      <4>1. ~(i <= Len(s)) /\ i - (k - 1) \in 1 .. Len(connections) - k
            /\ k + (i - (k - 1)) = i + 1
        BY <1>0, <2>3, <2>k, <3>0, <3>2
      <4>2. (s \o t)[i] = t[i - (k - 1)]
        BY <2>3, <2>5, <3>0, <4>1
      <4>3. t[i - (k - 1)] = connections[k + (i - (k - 1))]
        BY <2>4, <4>1
      <4> QED BY <3>0, <3>2, <4>1, <4>2, <4>3
    <3> QED BY <2>k, <3>0, <3>1, <3>2
  <2>8. \A i \in DOMAIN (s \o t) : i \in Nat
    <3> SUFFICES ASSUME NEW i \in 1 .. Len(connections) - 1 PROVE i \in Nat
      BY <2>6
    <3> QED BY <1>0
  <2>9. \A i \in DOMAIN (s \o t) : (s \o t)[i].role # r
    <3> SUFFICES ASSUME NEW i \in DOMAIN (s \o t) PROVE (s \o t)[i].role # r
      OBVIOUS
    <3>1. k \in DOMAIN connections /\ connections[k].role = r
      BY <1>0, <2>1
    <3>2. PICK m \in DOMAIN connections : m # k /\ (s \o t)[i] = connections[m]
      <4>1. i # k \/ i + 1 # k
        BY <2>8, <2>k
      <4>2. i < k => i # k
        BY <2>8, <2>k
      <4>3. i >= k => i + 1 # k
        BY <2>8, <2>k
      <4> QED BY <2>7, <4>2, <4>3
    <3> QED BY <3>1, <3>2 DEF OneRowPerRole
  <2>10. OneRowPerRole(s \o t)
    <3> SUFFICES ASSUME NEW i \in DOMAIN (s \o t), NEW j \in DOMAIN (s \o t),
                        (s \o t)[i].role = (s \o t)[j].role
                 PROVE  i = j
      BY DEF OneRowPerRole
    <3>1. i \in Nat /\ j \in Nat
      BY <2>8
    <3>2. CASE i < k /\ j < k
      <4>1. i \in DOMAIN connections /\ j \in DOMAIN connections
            /\ (s \o t)[i] = connections[i] /\ (s \o t)[j] = connections[j]
        BY <2>7, <2>k, <3>1, <3>2
      <4> QED BY <4>1 DEF OneRowPerRole
    <3>3. CASE i < k /\ j >= k
      <4>1. i \in DOMAIN connections /\ j + 1 \in DOMAIN connections
            /\ (s \o t)[i] = connections[i] /\ (s \o t)[j] = connections[j + 1]
        BY <2>7, <2>k, <3>1, <3>3
      <4>2. i = j + 1
        BY <4>1 DEF OneRowPerRole
      <4> QED BY <2>k, <3>1, <3>3, <4>2
    <3>4. CASE i >= k /\ j < k
      <4>1. i + 1 \in DOMAIN connections /\ j \in DOMAIN connections
            /\ (s \o t)[i] = connections[i + 1] /\ (s \o t)[j] = connections[j]
        <5>1. ~(i < k) /\ ~(j >= k)
          BY <2>k, <3>1, <3>4
        <5> QED BY <2>7, <5>1
      <4>2. i + 1 = j
        BY <4>1 DEF OneRowPerRole
      <4> QED BY <2>k, <3>1, <3>4, <4>2
    <3>5. CASE i >= k /\ j >= k
      <4>1. i + 1 \in DOMAIN connections /\ j + 1 \in DOMAIN connections
            /\ (s \o t)[i] = connections[i + 1] /\ (s \o t)[j] = connections[j + 1]
        BY <2>7, <2>k, <3>1, <3>5
      <4>2. i + 1 = j + 1
        BY <4>1 DEF OneRowPerRole
      <4> QED BY <3>1, <4>2
    <3> QED BY <2>k, <3>1, <3>2, <3>3, <3>4, <3>5
  <2>11. \A i \in DOMAIN (s \o t) : \E m \in DOMAIN connections : (s \o t)[i] = connections[m]
    BY <2>7
  <2> QED BY <2>2, <2>5, <2>9, <2>10, <2>11
<1> QED BY <1>1, <1>2

LEMMA LatestConnection ==
  ASSUME connections \in Seq(Connection)
  PROVE  \/ SelectValidated = None
         \/ SelectValidated \in Connection
            /\ \E i \in DOMAIN connections : SelectValidated = connections[i]
<1>1. CASE connections = <<>>
  BY <1>1 DEF SelectValidated
<1>2. CASE connections # <<>>
  <2>1. SelectValidated = connections[1]
    BY <1>2 DEF SelectValidated
  <2>2. 1 \in DOMAIN connections /\ connections[1] \in Connection
    BY <1>2, EmptySeq, LenProperties, ElementOfSeq
  <2> QED BY <2>1, <2>2
<1> QED BY <1>1, <1>2

\* The row of c is the first; the rows of other roles follow.
LEMMA UpsertedRows ==
  ASSUME connections \in Seq(Connection), OneRowPerRole(connections), NEW c \in Connection
  PROVE  /\ <<c>> \o Others(c.role) \in Seq(Connection)
         /\ OneRowPerRole(<<c>> \o Others(c.role))
         /\ \A i \in DOMAIN (<<c>> \o Others(c.role)) :
              \/ (<<c>> \o Others(c.role))[i] = c
              \/ \E k \in DOMAIN connections : (<<c>> \o Others(c.role))[i] = connections[k]
<1> DEFINE s == Others(c.role)
           t == <<c>> \o s
<1>1. /\ s \in Seq(Connection) /\ OneRowPerRole(s)
      /\ \A i \in DOMAIN s : s[i].role # c.role
      /\ \A i \in DOMAIN s : \E k \in DOMAIN connections : s[i] = connections[k]
  BY RowsOfOthers DEF Connection
<1> HIDE DEF s
<1>2. <<c>> \in Seq(Connection) /\ Len(<<c>>) = 1 /\ <<c>>[1] = c
  OBVIOUS
<1>3. /\ t \in Seq(Connection) /\ Len(t) = 1 + Len(s)
      /\ \A i \in 1 .. 1 + Len(s) : t[i] = IF i <= 1 THEN <<c>>[i] ELSE s[i - 1]
  BY <1>1, <1>2, ConcatProperties
<1>4. DOMAIN t = 1 .. 1 + Len(s) /\ DOMAIN s = 1 .. Len(s) /\ Len(s) \in Nat
  BY <1>1, <1>3, LenProperties
<1>5. \A i \in DOMAIN t : \/ i = 1 /\ t[i] = c
                          \/ i # 1 /\ i \in Nat /\ i - 1 \in DOMAIN s /\ t[i] = s[i - 1]
  <2> SUFFICES ASSUME NEW i \in 1 .. 1 + Len(s)
               PROVE  \/ i = 1 /\ t[i] = c
                      \/ i # 1 /\ i \in Nat /\ i - 1 \in 1 .. Len(s) /\ t[i] = s[i - 1]
    BY <1>4
  <2>1. CASE i = 1
    BY <1>2, <1>3, <2>1
  <2>2. CASE i # 1
    <3>1. i \in Nat /\ ~(i <= 1) /\ i - 1 \in 1 .. Len(s)
      BY <1>4, <2>2
    <3> QED BY <1>3, <2>2, <3>1
  <2> QED BY <2>1, <2>2
<1>6. OneRowPerRole(t)
  <2> SUFFICES ASSUME NEW i \in DOMAIN t, NEW j \in DOMAIN t, t[i].role = t[j].role
               PROVE  i = j
    BY DEF OneRowPerRole
  <2>1. CASE i = 1
    BY <1>1, <1>5, <2>1
  <2>2. CASE j = 1
    BY <1>1, <1>5, <2>2
  <2>3. CASE i # 1 /\ j # 1
    <3>1. i \in Nat /\ j \in Nat /\ i - 1 \in DOMAIN s /\ j - 1 \in DOMAIN s
          /\ t[i] = s[i - 1] /\ t[j] = s[j - 1]
      BY <1>5, <2>3
    <3>2. i - 1 = j - 1
      BY <1>1, <3>1 DEF OneRowPerRole
    <3> QED BY <3>1, <3>2
  <2> QED BY <2>1, <2>2, <2>3
<1>7. \A i \in DOMAIN t : t[i] = c \/ \E k \in DOMAIN connections : t[i] = connections[k]
  BY <1>1, <1>5
<1> QED BY <1>3, <1>6, <1>7 DEF s

-----------------------------------------------------------------------------
(***************************************************************************)
(* The deployments and deletions.                                          *)
(***************************************************************************)
Writes(j, v) == job' = [job EXCEPT ![j] = v]

\* Only what is written changes.
LEMMA Written ==
  ASSUME job \in [Jobs -> Job], NEW j \in Jobs, NEW v \in Job, Writes(j, v)
  PROVE  /\ job' \in [Jobs -> Job]
         /\ \A k \in Jobs : job'[k] = IF k = j THEN v ELSE job[k]
BY DEF Writes

\* A job's stage says what it carries.
LEMMA JobAtWork ==
  ASSUME NEW v \in Job
  PROVE  /\ v = [pc |-> v.pc, app |-> v.app, upload |-> v.upload, use |-> v.use]
         /\ v.pc \in {"idle", "refused"} => v.app = None /\ v.upload = None /\ v.use = None
         /\ v.pc \in {"queued", "teardown", "choose", "row"} =>
              v.app \in Apps /\ v.upload = None /\ v.use = None
         /\ v.pc \in {"infra", "upsert", "upload"} =>
              v.app \in Apps /\ v.upload \in Connection /\ v.use = None
         /\ v.pc = "bucket" => v.app \in Apps /\ v.upload \in Connection /\ v.use \in Connection
         /\ v.pc = "remove" => v.app \in Apps /\ v.upload = None /\ v.use \in Connection
         /\ v.pc \in {"idle", "refused"} \cup Deploying \cup Deleting
BY DEF Job, Deploying, Deleting

LEMMA NewJobs ==
  /\ Idle \in Job /\ Refused \in Job
  /\ \A p \in {"queued", "teardown", "choose", "row"}, a \in Apps :
       [pc |-> p, app |-> a, upload |-> None, use |-> None] \in Job
  /\ \A p \in {"infra", "upsert", "upload"}, a \in Apps, c \in Connection :
       [pc |-> p, app |-> a, upload |-> c, use |-> None] \in Job
  /\ \A a \in Apps, c \in Connection, d \in Connection :
       [pc |-> "bucket", app |-> a, upload |-> c, use |-> d] \in Job
  /\ \A a \in Apps, d \in Connection :
       [pc |-> "remove", app |-> a, upload |-> None, use |-> d] \in Job
BY DEF Job, Idle, Refused

\* Two fields of a job are changed at once.
LEMMA Changed ==
  ASSUME NEW v, v = [pc |-> v.pc, app |-> v.app, upload |-> v.upload, use |-> v.use],
         NEW p, NEW y
  PROVE  /\ [v EXCEPT !.pc = p, !.upload = y]
              = [pc |-> p, app |-> v.app, upload |-> y, use |-> v.use]
         /\ [v EXCEPT !.pc = p, !.use = y]
              = [pc |-> p, app |-> v.app, upload |-> v.upload, use |-> y]
<1> DEFINE w == [v EXCEPT !.pc = p]
<1>1. w = [pc |-> p, app |-> v.app, upload |-> v.upload, use |-> v.use]
  OBVIOUS
<1>2. /\ [v EXCEPT !.pc = p, !.upload = y] = [w EXCEPT !.upload = y]
      /\ [v EXCEPT !.pc = p, !.use = y] = [w EXCEPT !.use = y]
  OBVIOUS
<1> HIDE DEF w
<1>3. /\ [w EXCEPT !.upload = y] = [pc |-> p, app |-> v.app, upload |-> y, use |-> v.use]
      /\ [w EXCEPT !.use = y] = [pc |-> p, app |-> v.app, upload |-> v.upload, use |-> y]
  BY <1>1
<1> QED BY <1>2, <1>3

\* How each step of a job goes on.
LEMMA JobSteps ==
  ASSUME job \in [Jobs -> Job], connections \in Seq(Connection), NEW j \in Jobs
  PROVE
    /\ \A a \in Apps : QueueDeployment(j, a) =>
         Writes(j, [pc |-> "queued", app |-> a, upload |-> None, use |-> None])
    /\ \A a \in Apps : BeginTeardown(j, a) =>
         Writes(j, [pc |-> "teardown", app |-> a, upload |-> None, use |-> None])
    /\ BuildDeploymentRuntime(j) =>
         \/ Writes(j, Idle)
         \/ /\ SelectValidated \in Connection /\ job[j].app \in Apps /\ At(j, "queued")
            /\ Writes(j, [pc |-> "infra", app |-> job[j].app, upload |-> SelectValidated,
                          use |-> None])
    /\ SelectForBucket(j) =>
         \/ Writes(j, Idle)
         \/ /\ SelectValidated \in Connection /\ job[j].app \in Apps /\ At(j, "infra")
            /\ job[j].upload \in Connection
            /\ Writes(j, [pc |-> "bucket", app |-> job[j].app, upload |-> job[j].upload,
                          use |-> SelectValidated])
         \/ /\ SelectValidated \in Connection /\ job[j].app \in Apps /\ At(j, "choose")
            /\ Writes(j, [pc |-> "remove", app |-> job[j].app, upload |-> None,
                          use |-> SelectValidated])
    /\ EnsureS3WebsiteBucket(j) =>
         /\ job[j].app \in Apps /\ job[j].use \in Connection /\ job[j].upload \in Connection
         /\ At(j, "bucket")
         /\ \/ /\ Usable(job[j].use, job[j].app)
               /\ home' = [home EXCEPT ![job[j].app] = HomeOf[job[j].use.role]]
               /\ Writes(j, [pc |-> "upsert", app |-> job[j].app, upload |-> job[j].upload,
                             use |-> None])
            \/ ~Usable(job[j].use, job[j].app) /\ UNCHANGED home /\ Writes(j, Refused)
    /\ UpsertAppInfraOutput(j) =>
         /\ job[j].app \in Apps /\ job[j].upload \in Connection /\ At(j, "upsert")
         /\ recorded' = recorded \cup {job[j].app}
         /\ Writes(j, [pc |-> "upload", app |-> job[j].app, upload |-> job[j].upload,
                       use |-> None])
    /\ UploadArtifacts(j) =>
         /\ job[j].app \in Apps /\ job[j].upload \in Connection /\ At(j, "upload")
         /\ \/ Writes(j, Idle)
            \/ ~Usable(job[j].upload, job[j].app) /\ Writes(j, Refused)
    /\ LoadInfraOutput(j) =>
         /\ job[j].app \in Apps /\ At(j, "teardown")
         /\ \/ /\ job[j].app \in recorded
               /\ Writes(j, [pc |-> "choose", app |-> job[j].app, upload |-> None, use |-> None])
            \/ /\ job[j].app \notin recorded
               /\ Writes(j, [pc |-> "row", app |-> job[j].app, upload |-> None, use |-> None])
    /\ EmptyAndDeleteBucket(j) =>
         /\ job[j].app \in Apps /\ job[j].use \in Connection /\ At(j, "remove")
         /\ \/ /\ Usable(job[j].use, job[j].app)
               /\ home' = [home EXCEPT ![job[j].app] = None]
               /\ Writes(j, [pc |-> "row", app |-> job[j].app, upload |-> None, use |-> None])
            \/ ~Usable(job[j].use, job[j].app) /\ UNCHANGED home /\ Writes(j, Refused)
    /\ DeleteAppForUser(j) =>
         /\ job[j].app \in Apps /\ At(j, "row") /\ apps' = [apps EXCEPT ![job[j].app] = None]
         /\ Writes(j, Idle)
    /\ JobFails(j) => Writes(j, Idle)
<1>0. /\ job[j] \in Job
      /\ SelectValidated = None \/ SelectValidated \in Connection
  BY LatestConnection
<1>1. ASSUME NEW a, NEW p, Starts(j, a, p)
      PROVE  Writes(j, [pc |-> p, app |-> a, upload |-> None, use |-> None])
  BY <1>1 DEF Starts, Writes
<1>2. ASSUME NEW p, Goes(j, p)
      PROVE  Writes(j, [pc |-> p, app |-> job[j].app, upload |-> job[j].upload,
                        use |-> job[j].use])
  <2>1. job' = [job EXCEPT ![j] = [job[j] EXCEPT !.pc = p]]
    BY <1>2 DEF Goes
  <2>2. [job[j] EXCEPT !.pc = p] = [pc |-> p, app |-> job[j].app, upload |-> job[j].upload,
                                    use |-> job[j].use]
    <3> DEFINE v == job[j]
    <3>1. v = [pc |-> v.pc, app |-> v.app, upload |-> v.upload, use |-> v.use]
      BY <1>0, JobAtWork
    <3> HIDE DEF v
    <3>2. [v EXCEPT !.pc = p] = [pc |-> p, app |-> v.app, upload |-> v.upload, use |-> v.use]
      BY <3>1
    <3> QED BY <3>2 DEF v
  <2> QED BY <2>1, <2>2 DEF Writes
<1>3. ASSUME NEW a \in Apps
      PROVE  /\ QueueDeployment(j, a) =>
                  Writes(j, [pc |-> "queued", app |-> a, upload |-> None, use |-> None])
             /\ BeginTeardown(j, a) =>
                  Writes(j, [pc |-> "teardown", app |-> a, upload |-> None, use |-> None])
  BY <1>1 DEF QueueDeployment, BeginTeardown
<1>4. ASSUME BuildDeploymentRuntime(j)
      PROVE  \/ Writes(j, Idle)
             \/ /\ SelectValidated \in Connection /\ job[j].app \in Apps /\ At(j, "queued")
                /\ Writes(j, [pc |-> "infra", app |-> job[j].app, upload |-> SelectValidated,
                              use |-> None])
  <2>1. CASE Ends(j)
    BY <2>1 DEF Ends, Writes
  <2>2. CASE ~Ends(j)
    <3>1. At(j, "queued") /\ SelectValidated # None
          /\ job' = [job EXCEPT ![j] = [job[j] EXCEPT !.pc = "infra", !.upload = SelectValidated]]
      BY <1>4, <2>2 DEF BuildDeploymentRuntime
    <3>2. job[j].app \in Apps /\ job[j].use = None
          /\ job[j] = [pc |-> job[j].pc, app |-> job[j].app, upload |-> job[j].upload,
                       use |-> job[j].use]
      BY <1>0, <3>1, JobAtWork DEF At
    <3>3. [job[j] EXCEPT !.pc = "infra", !.upload = SelectValidated]
            = [pc |-> "infra", app |-> job[j].app, upload |-> SelectValidated, use |-> None]
      BY <3>2, Changed
    <3> QED BY <1>0, <3>1, <3>2, <3>3 DEF Writes
  <2> QED BY <2>1, <2>2
<1>5. ASSUME SelectForBucket(j)
      PROVE  \/ Writes(j, Idle)
             \/ /\ SelectValidated \in Connection /\ job[j].app \in Apps /\ At(j, "infra")
                /\ job[j].upload \in Connection
                /\ Writes(j, [pc |-> "bucket", app |-> job[j].app, upload |-> job[j].upload,
                              use |-> SelectValidated])
             \/ /\ SelectValidated \in Connection /\ job[j].app \in Apps /\ At(j, "choose")
                /\ Writes(j, [pc |-> "remove", app |-> job[j].app, upload |-> None,
                              use |-> SelectValidated])
  <2>1. CASE SelectValidated = None
    BY <1>5, <2>1 DEF SelectForBucket, Ends, Writes
  <2>2. CASE SelectValidated # None
    <3>1. /\ job[j].pc \in {"infra", "choose"}
          /\ job' = [job EXCEPT ![j] = [job[j] EXCEPT
                       !.pc = IF job[j].pc = "infra" THEN "bucket" ELSE "remove",
                       !.use = SelectValidated]]
      BY <1>5, <2>2 DEF SelectForBucket
    <3>2. /\ job[j].app \in Apps
          /\ job[j].pc = "infra" => job[j].upload \in Connection
          /\ job[j].pc = "choose" => job[j].upload = None
          /\ job[j] = [pc |-> job[j].pc, app |-> job[j].app, upload |-> job[j].upload,
                       use |-> job[j].use]
      BY <1>0, <3>1, JobAtWork
    <3>3. [job[j] EXCEPT !.pc = IF job[j].pc = "infra" THEN "bucket" ELSE "remove",
                         !.use = SelectValidated]
            = [pc |-> IF job[j].pc = "infra" THEN "bucket" ELSE "remove", app |-> job[j].app,
               upload |-> job[j].upload, use |-> SelectValidated]
      BY <3>2, Changed
    <3> QED BY <1>0, <2>2, <3>1, <3>2, <3>3 DEF Writes, At
  <2> QED BY <2>1, <2>2
<1>6. ASSUME EnsureS3WebsiteBucket(j)
      PROVE  /\ job[j].app \in Apps /\ job[j].use \in Connection /\ job[j].upload \in Connection
             /\ At(j, "bucket")
             /\ \/ /\ Usable(job[j].use, job[j].app)
                   /\ home' = [home EXCEPT ![job[j].app] = HomeOf[job[j].use.role]]
                   /\ Writes(j, [pc |-> "upsert", app |-> job[j].app,
                                 upload |-> job[j].upload, use |-> None])
                \/ ~Usable(job[j].use, job[j].app) /\ UNCHANGED home /\ Writes(j, Refused)
  <2>1. /\ At(j, "bucket")
        /\ job[j].app \in Apps /\ job[j].use \in Connection /\ job[j].upload \in Connection
        /\ job[j] = [pc |-> job[j].pc, app |-> job[j].app, upload |-> job[j].upload,
                     use |-> job[j].use]
    BY <1>0, <1>6, JobAtWork DEF EnsureS3WebsiteBucket, At
  <2>2. CASE Usable(job[j].use, job[j].app)
    <3>1. /\ home' = [home EXCEPT ![job[j].app] = HomeOf[job[j].use.role]]
          /\ job' = [job EXCEPT ![j] = [job[j] EXCEPT !.pc = "upsert", !.use = None]]
      BY <1>6, <2>2 DEF EnsureS3WebsiteBucket
    <3>2. [job[j] EXCEPT !.pc = "upsert", !.use = None]
            = [pc |-> "upsert", app |-> job[j].app, upload |-> job[j].upload, use |-> None]
      BY <2>1, Changed
    <3> QED BY <2>1, <2>2, <3>1, <3>2 DEF Writes
  <2>3. CASE ~Usable(job[j].use, job[j].app)
    BY <1>6, <2>1, <2>3 DEF EnsureS3WebsiteBucket, IsRefused, Writes
  <2> QED BY <2>2, <2>3
<1>7. ASSUME UpsertAppInfraOutput(j)
      PROVE  /\ job[j].app \in Apps /\ job[j].upload \in Connection /\ At(j, "upsert")
             /\ recorded' = recorded \cup {job[j].app}
             /\ Writes(j, [pc |-> "upload", app |-> job[j].app, upload |-> job[j].upload,
                           use |-> None])
  BY <1>0, <1>2, <1>7, JobAtWork DEF UpsertAppInfraOutput, At
<1>8. ASSUME UploadArtifacts(j)
      PROVE  /\ job[j].app \in Apps /\ job[j].upload \in Connection /\ At(j, "upload")
             /\ \/ Writes(j, Idle)
                \/ ~Usable(job[j].upload, job[j].app) /\ Writes(j, Refused)
  BY <1>0, <1>8, JobAtWork DEF UploadArtifacts, At, Ends, IsRefused, Writes
<1>9. ASSUME LoadInfraOutput(j)
      PROVE  /\ job[j].app \in Apps /\ At(j, "teardown")
             /\ \/ /\ job[j].app \in recorded
                   /\ Writes(j, [pc |-> "choose", app |-> job[j].app, upload |-> None,
                                 use |-> None])
                \/ /\ job[j].app \notin recorded
                   /\ Writes(j, [pc |-> "row", app |-> job[j].app, upload |-> None,
                                 use |-> None])
  <2>1. /\ job[j].app \in Apps /\ At(j, "teardown") /\ job[j].upload = None /\ job[j].use = None
        /\ Goes(j, IF job[j].app \in recorded THEN "choose" ELSE "row")
    BY <1>0, <1>9, JobAtWork DEF LoadInfraOutput, At
  <2> QED BY <1>2, <2>1
<1>10. ASSUME EmptyAndDeleteBucket(j)
       PROVE  /\ job[j].app \in Apps /\ job[j].use \in Connection /\ At(j, "remove")
              /\ \/ /\ Usable(job[j].use, job[j].app)
                    /\ home' = [home EXCEPT ![job[j].app] = None]
                    /\ Writes(j, [pc |-> "row", app |-> job[j].app, upload |-> None,
                                  use |-> None])
                 \/ ~Usable(job[j].use, job[j].app) /\ UNCHANGED home /\ Writes(j, Refused)
  <2>1. /\ At(j, "remove")
        /\ job[j].app \in Apps /\ job[j].use \in Connection /\ job[j].upload = None
        /\ job[j] = [pc |-> job[j].pc, app |-> job[j].app, upload |-> job[j].upload,
                     use |-> job[j].use]
    BY <1>0, <1>10, JobAtWork DEF EmptyAndDeleteBucket, At
  <2>2. CASE Usable(job[j].use, job[j].app)
    <3>1. /\ home' = [home EXCEPT ![job[j].app] = None]
          /\ job' = [job EXCEPT ![j] = [job[j] EXCEPT !.pc = "row", !.use = None]]
      BY <1>10, <2>2 DEF EmptyAndDeleteBucket
    <3>2. [job[j] EXCEPT !.pc = "row", !.use = None]
            = [pc |-> "row", app |-> job[j].app, upload |-> None, use |-> None]
      BY <2>1, Changed
    <3> QED BY <2>1, <2>2, <3>1, <3>2 DEF Writes
  <2>3. CASE ~Usable(job[j].use, job[j].app)
    BY <1>10, <2>1, <2>3 DEF EmptyAndDeleteBucket, IsRefused, Writes
  <2> QED BY <2>2, <2>3
<1>11. ASSUME DeleteAppForUser(j)
       PROVE  /\ job[j].app \in Apps /\ At(j, "row")
              /\ apps' = [apps EXCEPT ![job[j].app] = None]
              /\ Writes(j, Idle)
  BY <1>0, <1>11, JobAtWork DEF DeleteAppForUser, At, Ends, Writes
<1>12. JobFails(j) => Writes(j, Idle)
  BY DEF JobFails, Ends, Writes
<1> QED BY <1>3, <1>4, <1>5, <1>6, <1>7, <1>8, <1>9, <1>10, <1>11, <1>12
-----------------------------------------------------------------------------
(***************************************************************************)
(* The types.                                                              *)
(***************************************************************************)
\* Rows and jobs are of applications whose ids were given.
IdsAreGiven ==
  /\ \A a \in Apps : apps[a] # None => a \in given
  /\ \A j \in Jobs : job[j].app \in {None} \cup given

OutsideTypes == trust \in [Roles -> Externals \ Short] /\ changes \in 0 .. MaxChanges
TableTypes ==
  /\ connections \in Seq(Connection) /\ OneRowPerRole(connections) /\ saved \subseteq Roles
SaverTypes == saver \in [Savers -> {None} \cup Connection]
AppTypes ==
  /\ apps \in [Apps -> {None} \cup Source] /\ given \subseteq Apps
  /\ \A a \in Apps : apps[a] # None => a \in given
RecordTypes == recorded \subseteq given /\ creator \in [Creators -> {None} \cup given]
HomeTypes == home \in [Apps -> {None} \cup Homes]
JobTypes == job \in [Jobs -> Job] /\ \A j \in Jobs : job[j].app \in {None} \cup given
FaultTypes == astray \subseteq given /\ faults \in 0 .. MaxFaults

LEMMA TypeParts ==
  /\ TypeOK /\ IdsAreGiven <=>
       /\ OutsideTypes /\ TableTypes /\ SaverTypes /\ AppTypes /\ RecordTypes
       /\ HomeTypes /\ JobTypes /\ FaultTypes
  /\ (TypeOK /\ IdsAreGiven)' <=>
       /\ OutsideTypes' /\ TableTypes' /\ SaverTypes' /\ AppTypes' /\ RecordTypes'
       /\ HomeTypes' /\ JobTypes' /\ FaultTypes'
BY DEF TypeOK, IdsAreGiven, OutsideTypes, TableTypes, SaverTypes, AppTypes, RecordTypes,
   HomeTypes, JobTypes, FaultTypes, OneRowPerRole

\* What is not touched keeps its types.
LEMMA SameTypes ==
  ASSUME TypeOK, IdsAreGiven
  PROVE  /\ UNCHANGED outside => OutsideTypes'
         /\ UNCHANGED <<connections, saved>> => TableTypes'
         /\ UNCHANGED saver => SaverTypes'
         /\ UNCHANGED <<apps, given>> => AppTypes'
         /\ UNCHANGED <<given, recorded, creator>> => RecordTypes'
         /\ UNCHANGED home => HomeTypes'
         /\ UNCHANGED <<given, job>> => JobTypes'
         /\ UNCHANGED <<given, astray, faults>> => FaultTypes'
BY TypeParts DEF OutsideTypes, TableTypes, SaverTypes, AppTypes, RecordTypes, HomeTypes,
   JobTypes, FaultTypes, outside

LEMMA InitTypes == Init => TypeOK /\ IdsAreGiven
<1> SUFFICES ASSUME Init PROVE TypeOK /\ IdsAreGiven
  OBVIOUS
<1>1. OutsideTypes /\ FaultTypes
  BY ConnectionsAssumption DEF Init, OutsideTypes, FaultTypes
<1>2. TableTypes
  BY DEF Init, TableTypes, OneRowPerRole
<1>3. SaverTypes /\ AppTypes /\ RecordTypes /\ HomeTypes
  BY DEF Init, SaverTypes, AppTypes, RecordTypes, HomeTypes
<1>4. JobTypes
  BY NewJobs DEF Init, JobTypes, Idle
<1> QED BY <1>1, <1>2, <1>3, <1>4, TypeParts

\* A job goes on with the application it has.
LEMMA JobTypesKept ==
  ASSUME JobTypes, NEW j \in Jobs, NEW v \in Job, v.app \in {None} \cup given', Writes(j, v),
         given \subseteq given'
  PROVE  JobTypes'
BY Written DEF JobTypes

LEMMA JobTypesStep ==
  ASSUME TypeOK, IdsAreGiven, NEW j \in Jobs, JobNext(j)
  PROVE  JobTypes' /\ HomeTypes'
<1>0. /\ JobTypes /\ HomeTypes /\ AppTypes /\ connections \in Seq(Connection)
      /\ job \in [Jobs -> Job] /\ job[j].app \in {None} \cup given
  BY TypeParts DEF JobTypes, TableTypes
<1>1. given' = given
  BY DEF JobNext, QueueDeployment, BuildDeploymentRuntime, SelectForBucket,
     EnsureS3WebsiteBucket, UpsertAppInfraOutput, UploadArtifacts, BeginTeardown,
     LoadInfraOutput, EmptyAndDeleteBucket, DeleteAppForUser, JobFails, rows
<1>2. ASSUME Writes(j, Idle) \/ Writes(j, Refused)
      PROVE  JobTypes'
  <2>1. Idle \in Job /\ Refused \in Job /\ Idle.app = None /\ Refused.app = None
    BY NewJobs DEF Idle, Refused
  <2> QED BY <1>0, <1>1, <1>2, <2>1, JobTypesKept
<1>3. ASSUME NEW p, NEW u, NEW c, job[j].app \in Apps,
             [pc |-> p, app |-> job[j].app, upload |-> u, use |-> c] \in Job,
             Writes(j, [pc |-> p, app |-> job[j].app, upload |-> u, use |-> c])
      PROVE  JobTypes'
  <2> DEFINE v == [pc |-> p, app |-> job[j].app, upload |-> u, use |-> c]
  <2>1. v \in Job /\ v.app = job[j].app /\ Writes(j, v)
    BY <1>3
  <2> HIDE DEF v
  <2> QED BY <1>0, <1>1, <2>1, JobTypesKept
<1>4. ASSUME NEW a \in Apps, QueueDeployment(j, a) \/ BeginTeardown(j, a)
      PROVE  JobTypes' /\ UNCHANGED home
  <2>1. apps[a] # None /\ UNCHANGED home
    BY <1>4 DEF QueueDeployment, BeginTeardown, Starts
  <2>2. PICK v \in Job : v.app = a /\ Writes(j, v)
    <3>1. CASE QueueDeployment(j, a)
      <4> DEFINE v == [pc |-> "queued", app |-> a, upload |-> None, use |-> None]
      <4>1. v \in Job /\ v.app = a /\ Writes(j, v)
        BY <1>0, <3>1, JobSteps, NewJobs
      <4> QED BY <4>1
    <3>2. CASE BeginTeardown(j, a)
      <4> DEFINE v == [pc |-> "teardown", app |-> a, upload |-> None, use |-> None]
      <4>1. v \in Job /\ v.app = a /\ Writes(j, v)
        BY <1>0, <3>2, JobSteps, NewJobs
      <4> QED BY <4>1
    <3> QED BY <1>4, <3>1, <3>2
  <2> QED BY <1>0, <1>1, <2>1, <2>2, JobTypesKept DEF AppTypes
<1>5. CASE BuildDeploymentRuntime(j)
  <2>1. UNCHANGED home
    BY <1>5 DEF BuildDeploymentRuntime
  <2> QED BY <1>0, <1>2, <1>3, <1>5, <2>1, JobSteps, NewJobs, SameTypes
<1>6. CASE SelectForBucket(j)
  <2>1. UNCHANGED home
    BY <1>6 DEF SelectForBucket
  <2> QED BY <1>0, <1>2, <1>3, <1>6, <2>1, JobSteps, NewJobs, SameTypes
<1>7. CASE EnsureS3WebsiteBucket(j)
  <2>1. JobTypes'
    BY <1>0, <1>2, <1>3, <1>7, JobSteps, NewJobs
  <2>2. \A c \in Connection : HomeOf[c.role] \in Homes
    BY DEF Connection, Homes
  <2>3. /\ job[j].app \in Apps /\ job[j].use \in Connection
        /\ \/ home' = [home EXCEPT ![job[j].app] = HomeOf[job[j].use.role]]
           \/ UNCHANGED home
    BY <1>0, <1>7, JobSteps
  <2>4. HomeTypes'
    BY <1>0, <2>2, <2>3 DEF HomeTypes
  <2> QED BY <2>1, <2>4
<1>8. CASE UpsertAppInfraOutput(j)
  <2>1. UNCHANGED home
    BY <1>8 DEF UpsertAppInfraOutput
  <2> QED BY <1>0, <1>3, <1>8, <2>1, JobSteps, NewJobs, SameTypes
<1>9. CASE UploadArtifacts(j)
  <2>1. UNCHANGED home
    BY <1>9 DEF UploadArtifacts
  <2> QED BY <1>0, <1>2, <1>9, <2>1, JobSteps, SameTypes
<1>10. CASE LoadInfraOutput(j)
  <2>1. UNCHANGED home
    BY <1>10 DEF LoadInfraOutput
  <2> QED BY <1>0, <1>3, <1>10, <2>1, JobSteps, NewJobs, SameTypes
<1>11. CASE EmptyAndDeleteBucket(j)
  <2>1. JobTypes'
    BY <1>0, <1>2, <1>3, <1>11, JobSteps, NewJobs
  <2>2. job[j].app \in Apps /\ (UNCHANGED home \/ home' = [home EXCEPT ![job[j].app] = None])
    BY <1>0, <1>11, JobSteps
  <2>3. HomeTypes'
    BY <1>0, <2>2 DEF HomeTypes
  <2> QED BY <2>1, <2>3
<1>12. CASE DeleteAppForUser(j) \/ JobFails(j)
  <2>1. UNCHANGED home
    BY <1>12 DEF DeleteAppForUser, JobFails
  <2> QED BY <1>0, <1>2, <1>12, <2>1, JobSteps, SameTypes
<1> QED BY <1>4, <1>5, <1>6, <1>7, <1>8, <1>9, <1>10, <1>11, <1>12, SameTypes DEF JobNext

LEMMA TypeStep ==
  ASSUME TypeOK, IdsAreGiven, [Next]_vars
  PROVE  TypeOK' /\ IdsAreGiven'
<1> SUFFICES /\ OutsideTypes' /\ TableTypes' /\ SaverTypes' /\ AppTypes' /\ RecordTypes'
             /\ HomeTypes' /\ JobTypes' /\ FaultTypes'
  BY TypeParts
<1>0. /\ OutsideTypes /\ TableTypes /\ SaverTypes /\ AppTypes /\ RecordTypes
      /\ HomeTypes /\ JobTypes /\ FaultTypes
  BY TypeParts
<1>1. CASE UNCHANGED vars
  BY <1>1, SameTypes DEF vars, outside
<1>2. ASSUME NEW s \in Savers, VerifyConnection(s)
      PROVE  SaverTypes'
  BY <1>0, <1>2 DEF VerifyConnection, SaverTypes
<1>3. ASSUME NEW s \in Savers, UpsertAWSConnection(s)
      PROVE  TableTypes' /\ SaverTypes'
  <2>1. saver[s] \in Connection /\ saver[s].role \in Roles
    BY <1>0, <1>3 DEF UpsertAWSConnection, SaverTypes, Connection
  <2>2. TableTypes'
    BY <1>0, <1>3, <2>1, UpsertedRows DEF UpsertAWSConnection, TableTypes
  <2> QED BY <1>0, <1>3, <2>2 DEF UpsertAWSConnection, SaverTypes
<1>4. ASSUME NEW r \in Roles, DeleteAWSConnection(r)
      PROVE  TableTypes'
  BY <1>0, <1>4, RowsOfOthers DEF DeleteAWSConnection, TableTypes
<1>5. ASSUME NEW r \in Roles, RoleAsksForAnother(r)
      PROVE  OutsideTypes'
  BY <1>0, <1>5, ConnectionsAssumption DEF RoleAsksForAnother, OutsideTypes
<1>6. ASSUME NEW c \in Creators, CreateApp(c)
      PROVE  AppTypes' /\ RecordTypes' /\ JobTypes' /\ FaultTypes'
  <2>1. PICK a \in Apps \ given, x \in Source :
          /\ apps' = [apps EXCEPT ![a] = x] /\ given' = given \cup {a}
          /\ creator' = [creator EXCEPT ![c] = a]
    BY <1>6 DEF CreateApp
  <2>2. AppTypes'
    BY <1>0, <2>1 DEF AppTypes
  <2>3. RecordTypes'
    BY <1>0, <1>6, <2>1 DEF CreateApp, RecordTypes
  <2> QED BY <1>0, <1>6, <2>1, <2>2, <2>3 DEF CreateApp, JobTypes, FaultTypes
<1>7. ASSUME NEW c \in Creators, EnsureAppInfraOutput(c) \/ RecordFails(c)
      PROVE  RecordTypes' /\ FaultTypes'
  BY <1>0, <1>7, ConnectionsAssumption
     DEF EnsureAppInfraOutput, RecordFails, Fault, RecordTypes, FaultTypes
<1>8. ASSUME NEW a \in Apps, GetAppInfraOutputs(a) \/ UpdateApp(a)
      PROVE  AppTypes' /\ RecordTypes'
  <2>1. CASE GetAppInfraOutputs(a)
    BY <1>0, <2>1 DEF GetAppInfraOutputs, AppTypes, RecordTypes
  <2>2. CASE UpdateApp(a)
    <3>1. /\ apps[a] # None /\ recorded' \in {recorded, recorded \cup {a}}
          /\ UNCHANGED <<given, creator>>
      BY <2>2 DEF UpdateApp
    <3>2. PICK b \in Branches : apps' = [apps EXCEPT ![a] = [apps[a] EXCEPT !.branch = b]]
      BY <2>2 DEF UpdateApp
    <3>3. apps[a] \in Source
      BY <1>0, <3>1 DEF AppTypes
    <3>4. [apps[a] EXCEPT !.branch = b] \in Source
      BY <3>3 DEF Source
    <3> QED BY <1>0, <3>1, <3>2, <3>4 DEF AppTypes, RecordTypes
  <2> QED BY <1>8, <2>1, <2>2
<1>9. ASSUME NEW j \in Jobs, JobNext(j)
      PROVE  AppTypes' /\ RecordTypes' /\ HomeTypes' /\ JobTypes' /\ FaultTypes'
  <2>0. JobTypes' /\ HomeTypes' /\ connections \in Seq(Connection) /\ job \in [Jobs -> Job]
    BY <1>0, <1>9, JobTypesStep DEF TableTypes, JobTypes
  <2>1. CASE \E a \in Apps : QueueDeployment(j, a) \/ BeginTeardown(j, a)
    <3>1. PICK a \in Apps : apps[a] # None /\ astray' \subseteq astray \cup {a} /\ UNCHANGED faults
                            /\ UNCHANGED rows
      BY <2>1 DEF QueueDeployment, BeginTeardown, Starts, Overlaps
    <3> QED BY <1>0, <2>0, <3>1, SameTypes DEF AppTypes, FaultTypes, rows
  <2>2. CASE JobFails(j)
    <3>1. /\ astray' = astray \cup Unwritten({j}) /\ faults < MaxFaults /\ faults' = faults + 1
          /\ UNCHANGED rows
      BY <2>2 DEF JobFails, Fault
    <3>2. Unwritten({j}) \subseteq given
      BY <1>0, ConnectionsAssumption DEF Unwritten, JobTypes
    <3>3. FaultTypes'
      <4>1. faults' \in 0 .. MaxFaults
        BY <1>0, <3>1, ConnectionsAssumption DEF FaultTypes
      <4>2. given' = given /\ astray' \subseteq given
        BY <1>0, <3>1, <3>2 DEF FaultTypes, rows
      <4> QED BY <4>1, <4>2 DEF FaultTypes
    <3>4. AppTypes' /\ RecordTypes'
      BY <3>1, SameTypes DEF rows
    <3> QED BY <2>0, <3>3, <3>4
  <2>3. CASE UpsertAppInfraOutput(j)
    <3>1. job[j].app \in given /\ recorded' = recorded \cup {job[j].app}
      BY <1>0, <2>0, <2>3, JobSteps, ConnectionsAssumption DEF JobTypes
    <3> QED BY <1>0, <2>0, <2>3, <3>1, SameTypes DEF UpsertAppInfraOutput, RecordTypes
  <2>4. CASE DeleteAppForUser(j)
    <3>1. /\ apps' = [apps EXCEPT ![job[j].app] = None] /\ recorded' \subseteq recorded
          /\ UNCHANGED <<given, creator, astray, faults>>
      BY <2>4 DEF DeleteAppForUser
    <3> QED BY <1>0, <2>0, <3>1, SameTypes DEF AppTypes, RecordTypes
  <2>5. CASE UNCHANGED <<rows, astray, faults>>
    BY <2>0, <2>5, SameTypes DEF rows
  <2> QED BY <1>9, <2>1, <2>2, <2>3, <2>4, <2>5 DEF JobNext, BuildDeploymentRuntime,
          SelectForBucket, EnsureS3WebsiteBucket, UploadArtifacts, LoadInfraOutput,
          EmptyAndDeleteBucket
<1>10. CASE Crash
  <2>1. Unwritten(Jobs) \subseteq given
    BY <1>0, ConnectionsAssumption DEF Unwritten, JobTypes
  <2>2. FaultTypes'
    BY <1>0, <1>10, <2>1, ConnectionsAssumption DEF Crash, Fault, FaultTypes
  <2>3. JobTypes'
    BY <1>10, NewJobs DEF Crash, JobTypes, Idle
  <2>4. SaverTypes' /\ RecordTypes'
    BY <1>0, <1>10 DEF Crash, SaverTypes, RecordTypes
  <2> QED BY <1>10, <2>2, <2>3, <2>4, SameTypes DEF Crash
<1>11. CASE Next
  <2>1. CASE \E j \in Jobs : JobNext(j)
    <3>1. UNCHANGED <<outside, aws>>
      BY <2>1 DEF JobNext, QueueDeployment, BuildDeploymentRuntime, SelectForBucket,
         EnsureS3WebsiteBucket, UpsertAppInfraOutput, UploadArtifacts, BeginTeardown,
         LoadInfraOutput, EmptyAndDeleteBucket, DeleteAppForUser, JobFails
    <3> QED BY <1>9, <2>1, <3>1, SameTypes DEF aws
  <2>2. CASE ~ \E j \in Jobs : JobNext(j)
    BY <1>2, <1>3, <1>4, <1>5, <1>6, <1>7, <1>8, <1>10, <1>11, <2>2, SameTypes
       DEF Next, VerifyConnection, UpsertAWSConnection, DeleteAWSConnection,
       RoleAsksForAnother, CreateApp, EnsureAppInfraOutput, RecordFails, GetAppInfraOutputs,
       UpdateApp, Crash, outside, aws, rows
  <2> QED BY <2>1, <2>2
<1> QED BY <1>1, <1>11

\* However requests, deployments, deletions, failures and the outside
\* interleave, aws_connections keeps one row per role, infra rows are of
\* applications there were, and a job carries what its stage needs.
THEOREM TypeCorrect == Spec => []TypeOK
<1>1. Init => TypeOK /\ IdsAreGiven
  BY InitTypes
<1>2. TypeOK /\ IdsAreGiven /\ [Next]_vars => TypeOK' /\ IdsAreGiven'
  BY TypeStep
<1> QED BY <1>1, <1>2, PTL DEF Spec
-----------------------------------------------------------------------------
(***************************************************************************)
(* Applications and their buckets.                                         *)
(***************************************************************************)
\* Branches are taken by one application only.
LEMMA BranchStep ==
  ASSUME TypeOK, OneAppPerBranch, [Next]_vars
  PROVE  OneAppPerBranch'
<1>0. apps \in [Apps -> {None} \cup Source]
  BY DEF TypeOK
<1>1. CASE UNCHANGED apps
  BY <1>1 DEF OneAppPerBranch
<1>2. ASSUME NEW a \in Apps, NEW x, Free(x), apps' = [apps EXCEPT ![a] = x]
      PROVE  OneAppPerBranch'
  BY <1>0, <1>2 DEF OneAppPerBranch, Free
<1>3. ASSUME NEW a, apps' = [apps EXCEPT ![a] = None]
      PROVE  OneAppPerBranch'
  BY <1>0, <1>3 DEF OneAppPerBranch
<1>4. ASSUME NEW c \in Creators, CreateApp(c)
      PROVE  OneAppPerBranch'
  BY <1>2, <1>4 DEF CreateApp
<1>5. ASSUME NEW a \in Apps, UpdateApp(a)
      PROVE  OneAppPerBranch'
  BY <1>2, <1>5 DEF UpdateApp
<1>6. ASSUME NEW j \in Jobs, DeleteAppForUser(j)
      PROVE  OneAppPerBranch'
  BY <1>3, <1>6 DEF DeleteAppForUser
<1> QED BY <1>1, <1>4, <1>5, <1>6 DEF Next, JobNext, VerifyConnection, UpsertAWSConnection,
        DeleteAWSConnection, RoleAsksForAnother, EnsureAppInfraOutput, RecordFails,
        GetAppInfraOutputs, QueueDeployment, BuildDeploymentRuntime, SelectForBucket,
        EnsureS3WebsiteBucket, UpsertAppInfraOutput, UploadArtifacts, BeginTeardown,
        LoadInfraOutput, EmptyAndDeleteBucket, JobFails, Crash, rows, vars

\* Creations that race for a branch, and applications moved to it, leave it
\* with one application.
THEOREM BranchesAreUnique == Spec => []OneAppPerBranch
<1>1. Init => OneAppPerBranch
  BY DEF Init, OneAppPerBranch
<1>2. TypeOK /\ OneAppPerBranch /\ [Next]_vars => OneAppPerBranch'
  BY BranchStep
<1> QED BY <1>1, <1>2, TypeCorrect, PTL DEF Spec

(***************************************************************************)
(* Of an application that has not gone astray, deployments or deletions    *)
(* are under way but never both; its row goes after its bucket; its bucket *)
(* is recorded or about to be; and without a row it has neither bucket nor *)
(* deployment.                                                             *)
(***************************************************************************)
Sound(a) ==
  /\ ~(Active(a, Deploying) /\ Active(a, Deleting))
  /\ Active(a, {"row"}) => home[a] = None
  /\ home[a] # None => a \in recorded \/ Active(a, {"upsert"})
  /\ apps[a] = None => home[a] = None /\ ~Active(a, Deploying)

OthersSound == \A a \in Apps : a \in astray \/ Sound(a)

\* A job that goes on within its stages, and records what it has to.
GoesOn(j, v) ==
  /\ Writes(j, v)
  /\ v.pc \in Deploying => job[j].pc \in Deploying /\ v.app = job[j].app
  /\ v.pc \in Deleting => job[j].pc \in Deleting /\ v.app = job[j].app
  /\ v.pc = "row" => home'[v.app] = None \/ v.app \in astray'
  /\ At(j, "upsert") => job[j].app \in recorded' \cup astray'

LEMMA StillSound ==
  ASSUME TypeOK, OthersSound, astray \subseteq astray', NEW j \in Jobs, NEW v \in Job,
         GoesOn(j, v), UNCHANGED apps, recorded \subseteq recorded',
         \A a \in Apps : home'[a] \in {home[a], None}
  PROVE  OthersSound'
<1> SUFFICES ASSUME NEW a \in Apps, a \notin astray' PROVE Sound(a)'
  BY DEF OthersSound
<1>0. /\ Sound(a) /\ home'[a] \in {home[a], None} /\ apps' = apps
      /\ \A k \in Jobs : job'[k] = IF k = j THEN v ELSE job[k]
  BY Written DEF OthersSound, GoesOn, TypeOK
<1>1. /\ Active(a, Deploying)' => Active(a, Deploying)
      /\ Active(a, Deleting)' => Active(a, Deleting)
  BY <1>0 DEF Active, GoesOn
<1>2. Active(a, {"row"})' => home'[a] = None
  BY <1>0 DEF Active, GoesOn, Sound
<1>3. home'[a] # None => a \in recorded' \/ Active(a, {"upsert"})'
  BY <1>0 DEF Active, GoesOn, Sound, At
<1> QED BY <1>0, <1>1, <1>2, <1>3 DEF Sound
LEMMA JobKeepsSound ==
  ASSUME TypeOK, IdsAreGiven, OthersSound, NEW j \in Jobs, JobNext(j)
  PROVE  OthersSound'
<1>0. /\ apps \in [Apps -> {None} \cup Source] /\ home \in [Apps -> {None} \cup Homes]
      /\ job \in [Jobs -> Job] /\ connections \in Seq(Connection) /\ None \notin Apps
  BY ConnectionsAssumption DEF TypeOK
<1>1. ASSUME Writes(j, Idle) \/ Writes(j, Refused), UNCHANGED apps,
             UNCHANGED home, astray \subseteq astray', recorded \subseteq recorded',
             At(j, "upsert") => job[j].app \in recorded' \cup astray'
      PROVE  OthersSound'
  <2>1. Idle \in Job /\ Refused \in Job /\ Idle.pc = "idle" /\ Refused.pc = "refused"
    BY NewJobs DEF Idle, Refused
  <2>2. PICK v \in {Idle, Refused} : Writes(j, v)
    BY <1>1
  <2>3. v \in Job /\ v.pc \notin Deploying \cup Deleting /\ v.pc # "row"
    BY <2>1, <2>2 DEF Deploying, Deleting
  <2> HIDE DEF Idle, Refused
  <2>4. GoesOn(j, v)
    BY <1>1, <2>2, <2>3 DEF GoesOn
  <2> QED BY <1>0, <1>1, <2>3, <2>4, StillSound
<1>2. ASSUME NEW p, NEW u, NEW c, job[j].app \in Apps,
             [pc |-> p, app |-> job[j].app, upload |-> u, use |-> c] \in Job,
             Writes(j, [pc |-> p, app |-> job[j].app, upload |-> u, use |-> c]),
             p \in Deploying => job[j].pc \in Deploying,
             p \in Deleting => job[j].pc \in Deleting,
             p = "row" => home'[job[j].app] = None \/ job[j].app \in astray',
             At(j, "upsert") => job[j].app \in recorded' \cup astray',
             UNCHANGED <<apps, astray>>, recorded \subseteq recorded',
             \A a \in Apps : home'[a] \in {home[a], None}
      PROVE  OthersSound'
  <2> DEFINE v == [pc |-> p, app |-> job[j].app, upload |-> u, use |-> c]
  <2>1. v \in Job /\ v.app = job[j].app /\ v.pc = p /\ Writes(j, v)
    BY <1>2
  <2> HIDE DEF v
  <2>2. GoesOn(j, v)
    BY <1>2, <2>1 DEF GoesOn
  <2> QED BY <1>2, <2>1, <2>2, StillSound
<1>3. ASSUME NEW b \in Apps, QueueDeployment(j, b) \/ BeginTeardown(j, b)
      PROVE  OthersSound'
  <2>1. /\ job[j] \in {Idle, Refused} /\ apps[b] # None /\ UNCHANGED <<home, apps, recorded>>
        /\ astray \subseteq astray'
        /\ QueueDeployment(j, b) /\ b \notin astray' => ~Active(b, Deleting)
        /\ BeginTeardown(j, b) /\ b \notin astray' => ~Active(b, Deploying)
    BY <1>3 DEF QueueDeployment, BeginTeardown, Starts, Overlaps, rows
  <2>2. PICK p \in {"queued", "teardown"} :
          /\ p = "queued" => QueueDeployment(j, b)
          /\ p = "teardown" => BeginTeardown(j, b)
          /\ Writes(j, [pc |-> p, app |-> b, upload |-> None, use |-> None])
    BY <1>0, <1>3, JobSteps
  <2> DEFINE v == [pc |-> p, app |-> b, upload |-> None, use |-> None]
  <2>3. v \in Job /\ v.app = b /\ v.pc = p /\ Writes(j, v)
    BY <2>2, NewJobs
  <2> HIDE DEF v
  <2>4. \A k \in Jobs : job'[k] = IF k = j THEN v ELSE job[k]
    BY <1>0, <2>3, Written
  <2>5. job[j].pc \in {"idle", "refused"}
    BY <2>1 DEF Idle, Refused
  <2> SUFFICES ASSUME NEW a \in Apps, a \notin astray' PROVE Sound(a)'
    BY DEF OthersSound
  <2>6. Sound(a) /\ home' = home /\ apps' = apps /\ recorded' = recorded
    BY <2>1 DEF OthersSound
  <2>7. /\ Active(a, {"row"})' => Active(a, {"row"})
        /\ Active(a, {"upsert"}) => Active(a, {"upsert"})'
    <3>1. v.pc # "row" /\ job[j].pc # "upsert"
      BY <2>3, <2>5
    <3> QED BY <2>4, <3>1 DEF Active
  <2>8. /\ ~(Active(a, Deploying) /\ Active(a, Deleting))'
        /\ Active(a, Deploying)' => Active(a, Deploying) \/ a = b
    <3>1. CASE a # b
      <4>1. /\ Active(a, Deploying)' => Active(a, Deploying)
            /\ Active(a, Deleting)' => Active(a, Deleting)
        BY <2>3, <2>4, <3>1 DEF Active
      <4> QED BY <2>6, <4>1 DEF Sound
    <3>2. CASE a = b /\ p = "queued"
      <4>1. ~Active(a, Deleting) /\ v.pc \notin Deleting
        BY <2>1, <2>2, <2>3, <3>2 DEF Deleting
      <4>2. ~Active(a, Deleting)'
        BY <2>4, <4>1 DEF Active
      <4> QED BY <3>2, <4>2
    <3>3. CASE a = b /\ p = "teardown"
      <4>1. ~Active(a, Deploying) /\ v.pc \notin Deploying
        BY <2>1, <2>2, <2>3, <3>3 DEF Deploying
      <4>2. ~Active(a, Deploying)'
        BY <2>4, <4>1 DEF Active
      <4> QED BY <3>3, <4>2
    <3> QED BY <3>1, <3>2, <3>3
  <2> QED BY <2>1, <2>6, <2>7, <2>8 DEF Sound
<1>4. CASE BuildDeploymentRuntime(j)
  <2>1. UNCHANGED <<home, apps, recorded, astray>> /\ ~At(j, "upsert")
    BY <1>4 DEF BuildDeploymentRuntime, At, rows
  <2>2. \/ Writes(j, Idle)
        \/ /\ SelectValidated \in Connection /\ job[j].app \in Apps /\ At(j, "queued")
           /\ Writes(j, [pc |-> "infra", app |-> job[j].app, upload |-> SelectValidated,
                         use |-> None])
    BY <1>0, <1>4, JobSteps
  <2> QED BY <1>1, <1>2, <2>1, <2>2, NewJobs DEF At, Deploying, Deleting
<1>5. CASE SelectForBucket(j)
  <2>1. UNCHANGED <<home, apps, recorded, astray>> /\ ~At(j, "upsert")
    BY <1>5 DEF SelectForBucket, At, rows
  <2>2. \/ Writes(j, Idle)
        \/ /\ SelectValidated \in Connection /\ job[j].app \in Apps /\ At(j, "infra")
           /\ job[j].upload \in Connection
           /\ Writes(j, [pc |-> "bucket", app |-> job[j].app, upload |-> job[j].upload,
                         use |-> SelectValidated])
        \/ /\ SelectValidated \in Connection /\ job[j].app \in Apps /\ At(j, "choose")
           /\ Writes(j, [pc |-> "remove", app |-> job[j].app, upload |-> None,
                         use |-> SelectValidated])
    BY <1>0, <1>5, JobSteps
  <2> QED BY <1>1, <1>2, <2>1, <2>2, NewJobs DEF At, Deploying, Deleting
<1>6. CASE EnsureS3WebsiteBucket(j)
  <2>1. UNCHANGED <<apps, recorded, astray>> /\ ~At(j, "upsert") /\ job[j].app \in Apps
        /\ At(j, "bucket") /\ job[j].upload \in Connection
    BY <1>0, <1>6, JobSteps DEF EnsureS3WebsiteBucket, At, rows
  <2>2. CASE UNCHANGED home /\ Writes(j, Refused)
    BY <1>1, <2>1, <2>2
  <2>3. CASE /\ home' = [home EXCEPT ![job[j].app] = HomeOf[job[j].use.role]]
             /\ Writes(j, [pc |-> "upsert", app |-> job[j].app, upload |-> job[j].upload,
                           use |-> None])
    <3> DEFINE v == [pc |-> "upsert", app |-> job[j].app, upload |-> job[j].upload,
                     use |-> None]
    <3>1. v \in Job /\ v.app = job[j].app /\ v.pc = "upsert" /\ Writes(j, v)
      BY <2>1, <2>3, NewJobs
    <3> HIDE DEF v
    <3>2. \A k \in Jobs : job'[k] = IF k = j THEN v ELSE job[k]
      BY <1>0, <3>1, Written
    <3> SUFFICES ASSUME NEW a \in Apps, a \notin astray' PROVE Sound(a)'
      BY DEF OthersSound
    <3>3. Sound(a)
      BY <2>1 DEF OthersSound
    <3>4. /\ Active(a, Deploying)' => Active(a, Deploying)
          /\ Active(a, Deleting)' => Active(a, Deleting)
          /\ Active(a, {"row"})' => Active(a, {"row"})
          /\ Active(a, {"upsert"}) => Active(a, {"upsert"})'
      BY <2>1, <3>1, <3>2 DEF Active, At, Deploying, Deleting
    <3>5. CASE a # job[j].app
      <4>1. home'[a] = home[a]
        BY <1>0, <2>3, <3>5
      <4> QED BY <2>1, <3>3, <3>4, <4>1 DEF Sound
    <3>6. CASE a = job[j].app
      <4>1. Active(a, {"upsert"})'
        BY <3>1, <3>2, <3>6 DEF Active
      <4>2. Active(a, Deploying)
        BY <2>1, <3>6 DEF Active, At, Deploying
      <4>3. ~Active(a, {"row"})
        BY <3>3, <4>2 DEF Sound, Active, Deleting
      <4> QED BY <2>1, <3>3, <3>4, <4>1, <4>2, <4>3 DEF Sound
    <3> QED BY <3>5, <3>6
  <2> QED BY <1>0, <1>6, <2>2, <2>3, JobSteps
<1>7. CASE UpsertAppInfraOutput(j)
  <2>1. UNCHANGED <<home, apps, astray>>
    BY <1>7 DEF UpsertAppInfraOutput
  <2>2. /\ job[j].app \in Apps /\ job[j].upload \in Connection /\ At(j, "upsert")
        /\ recorded' = recorded \cup {job[j].app}
        /\ Writes(j, [pc |-> "upload", app |-> job[j].app, upload |-> job[j].upload,
                      use |-> None])
    BY <1>0, <1>7, JobSteps
  <2> QED BY <1>2, <2>1, <2>2, NewJobs DEF At, Deploying, Deleting
<1>8. CASE UploadArtifacts(j)
  <2>1. UNCHANGED <<home, apps, recorded, astray>> /\ ~At(j, "upsert")
    BY <1>8 DEF UploadArtifacts, At, rows
  <2> QED BY <1>0, <1>1, <1>8, <2>1, JobSteps
<1>9. CASE LoadInfraOutput(j)
  <2>1. UNCHANGED <<home, apps, recorded, astray>> /\ ~At(j, "upsert")
        /\ At(j, "teardown") /\ job[j].app \in Apps
    BY <1>0, <1>9, JobSteps DEF LoadInfraOutput, At, rows
  <2>2. CASE Writes(j, [pc |-> "choose", app |-> job[j].app, upload |-> None, use |-> None])
    BY <1>2, <2>1, <2>2, NewJobs DEF At, Deploying, Deleting
  <2>3. CASE /\ job[j].app \notin recorded
             /\ Writes(j, [pc |-> "row", app |-> job[j].app, upload |-> None, use |-> None])
    <3>1. job[j].app \in astray \/ home[job[j].app] = None
      <4>1. SUFFICES ASSUME job[j].app \notin astray, home[job[j].app] # None PROVE FALSE
        OBVIOUS
      <4>2. Sound(job[j].app)
        BY <2>1, <4>1 DEF OthersSound
      <4>3. Active(job[j].app, {"upsert"})
        BY <2>3, <4>1, <4>2 DEF Sound
      <4>4. Active(job[j].app, Deploying) /\ Active(job[j].app, Deleting)
        BY <2>1, <4>3 DEF Active, At, Deploying, Deleting
      <4> QED BY <4>2, <4>4 DEF Sound
    <3> QED BY <1>2, <2>1, <2>3, <3>1, NewJobs DEF At, Deploying, Deleting
  <2> QED BY <1>0, <1>9, <2>2, <2>3, JobSteps
<1>10. CASE EmptyAndDeleteBucket(j)
  <2>1. UNCHANGED <<apps, recorded, astray>> /\ ~At(j, "upsert") /\ job[j].app \in Apps
        /\ At(j, "remove")
    BY <1>0, <1>10, JobSteps DEF EmptyAndDeleteBucket, At, rows
  <2>2. CASE UNCHANGED home /\ Writes(j, Refused)
    BY <1>1, <2>1, <2>2
  <2>3. CASE /\ home' = [home EXCEPT ![job[j].app] = None]
             /\ Writes(j, [pc |-> "row", app |-> job[j].app, upload |-> None, use |-> None])
    <3>1. home'[job[j].app] = None /\ \A a \in Apps : home'[a] \in {home[a], None}
      BY <1>0, <2>1, <2>3
    <3> QED BY <1>2, <2>1, <2>3, <3>1, NewJobs DEF At, Deploying, Deleting
  <2> QED BY <1>0, <1>10, <2>2, <2>3, JobSteps
<1>11. CASE DeleteAppForUser(j)
  <2>1. /\ job[j].app \in Apps /\ At(j, "row") /\ apps' = [apps EXCEPT ![job[j].app] = None]
        /\ Writes(j, Idle) /\ UNCHANGED <<home, astray>>
        /\ \A a \in Apps : a # job[j].app /\ a \in recorded => a \in recorded'
    BY <1>0, <1>11, JobSteps DEF DeleteAppForUser
  <2>2. Idle \in Job /\ Idle.pc = "idle"
    BY NewJobs DEF Idle
  <2>3. \A k \in Jobs : job'[k] = IF k = j THEN Idle ELSE job[k]
    BY <1>0, <2>1, <2>2, Written
  <2> SUFFICES ASSUME NEW a \in Apps, a \notin astray' PROVE Sound(a)'
    BY DEF OthersSound
  <2>4. Sound(a) /\ home' = home
    BY <2>1 DEF OthersSound
  <2>5. /\ Active(a, Deploying)' => Active(a, Deploying)
        /\ Active(a, Deleting)' => Active(a, Deleting)
        /\ Active(a, {"row"})' => Active(a, {"row"})
        /\ Active(a, {"upsert"}) => Active(a, {"upsert"})'
    <3>1. Idle.pc \notin Deploying \cup Deleting \cup {"row"} /\ job[j].pc # "upsert"
      BY <2>1, <2>2 DEF At, Deploying, Deleting
    <3> QED BY <2>3, <3>1 DEF Active
  <2>6. CASE a # job[j].app
    <3>1. apps'[a] = apps[a]
      BY <1>0, <2>1, <2>6
    <3> QED BY <2>1, <2>4, <2>5, <2>6, <3>1 DEF Sound
  <2>7. CASE a = job[j].app
    <3>1. Active(a, {"row"}) /\ Active(a, Deleting)
      BY <2>1, <2>7 DEF Active, At, Deleting
    <3>2. home[a] = None /\ ~Active(a, Deploying)
      BY <2>4, <3>1 DEF Sound
    <3> QED BY <2>4, <2>5, <3>2 DEF Sound
  <2> QED BY <2>6, <2>7
<1>12. CASE JobFails(j)
  <2>1. UNCHANGED <<home, apps, recorded>> /\ astray' = astray \cup Unwritten({j})
    BY <1>12 DEF JobFails, rows
  <2>2. At(j, "upsert") => job[j].app \in recorded \cup astray'
    <3>1. SUFFICES ASSUME At(j, "upsert"), job[j].app \notin recorded
                   PROVE  job[j].app \in Unwritten({j})
      BY <2>1
    <3>2. job[j].app \in Apps
      BY <1>0, <3>1, JobAtWork DEF At
    <3> QED BY <3>1, <3>2 DEF Unwritten
  <2> QED BY <1>0, <1>1, <1>12, <2>1, <2>2, JobSteps
<1> QED BY <1>3, <1>4, <1>5, <1>6, <1>7, <1>8, <1>9, <1>10, <1>11, <1>12 DEF JobNext

LEMMA SoundStep ==
  ASSUME TypeOK, IdsAreGiven, OthersSound, [Next]_vars
  PROVE  OthersSound'
<1>0. apps \in [Apps -> {None} \cup Source] /\ job \in [Jobs -> Job]
  BY DEF TypeOK
<1>1. ASSUME UNCHANGED <<home, job, astray>>, recorded \subseteq recorded',
             \A a \in Apps : apps[a] # None => apps'[a] # None
      PROVE  OthersSound'
  BY <1>1 DEF OthersSound, Sound, Active
<1>2. ASSUME NEW c \in Creators, CreateApp(c)
      PROVE  OthersSound'
  <2>1. PICK b \in Apps, x \in Source : apps' = [apps EXCEPT ![b] = x]
    BY <1>2 DEF CreateApp
  <2>2. \A a \in Apps : apps[a] # None => apps'[a] # None
    BY <1>0, <2>1, ConnectionsAssumption
  <2> QED BY <1>1, <1>2, <2>2 DEF CreateApp
<1>3. ASSUME NEW b \in Apps, UpdateApp(b)
      PROVE  OthersSound'
  <2>1. PICK z \in Branches : apps' = [apps EXCEPT ![b] = [apps[b] EXCEPT !.branch = z]]
    BY <1>3 DEF UpdateApp
  <2>2. apps[b] \in Source
    BY <1>0, <1>3 DEF UpdateApp
  <2>3. [apps[b] EXCEPT !.branch = z] \in Source
    BY <2>2 DEF Source
  <2>4. \A a \in Apps : apps[a] # None => apps'[a] # None
    BY <1>0, <2>1, <2>3, ConnectionsAssumption
  <2>5. recorded \subseteq recorded' /\ UNCHANGED <<home, job, astray>>
    BY <1>3 DEF UpdateApp
  <2> QED BY <1>1, <2>4, <2>5
<1>4. CASE Crash
  <2>1. /\ UNCHANGED <<apps, recorded, home>> /\ astray' = astray \cup Unwritten(Jobs)
        /\ job' = [k \in Jobs |-> Idle]
    BY <1>4 DEF Crash
  <2> SUFFICES ASSUME NEW a \in Apps, a \notin astray' PROVE Sound(a)'
    BY DEF OthersSound
  <2>2. Sound(a) /\ a \notin Unwritten(Jobs)
    BY <2>1 DEF OthersSound
  <2>3. Active(a, {"upsert"}) => a \in recorded
    BY <2>2 DEF Active, Unwritten, At
  <2>4. ~Active(a, Deploying)' /\ ~Active(a, Deleting)' /\ ~Active(a, {"row"})'
    BY <2>1 DEF Active, Deploying, Deleting, Idle
  <2> QED BY <2>1, <2>2, <2>3, <2>4 DEF Sound
<1>5. CASE UNCHANGED vars
  BY <1>1, <1>5 DEF vars
<1>6. CASE Next
  BY <1>1, <1>2, <1>3, <1>4, <1>6, JobKeepsSound DEF Next, VerifyConnection, UpsertAWSConnection,
     DeleteAWSConnection, RoleAsksForAnother, EnsureAppInfraOutput, RecordFails,
     GetAppInfraOutputs, rows
<1> QED BY <1>5, <1>6

LEMMA InitSound == Init => OthersSound
BY DEF Init, OthersSound, Sound, Active, Deploying, Deleting, Idle

LEMMA SoundAlways == Spec => [](TypeOK /\ IdsAreGiven /\ OthersSound)
<1>1. Init => TypeOK /\ IdsAreGiven /\ OthersSound
  BY InitTypes, InitSound
<1>2. TypeOK /\ IdsAreGiven /\ OthersSound /\ [Next]_vars
        => (TypeOK /\ IdsAreGiven /\ OthersSound)'
  BY TypeStep, SoundStep
<1> QED BY <1>1, <1>2, PTL DEF Spec

\* A bucket outlives its application only if a deployment overlapped the
\* deletion, or broke off before the bucket was recorded.
THEOREM GoneAppsLeaveNothing == Spec => []GoneAppHasNoBucket
<1>1. OthersSound => GoneAppHasNoBucket
  BY DEF OthersSound, Sound, GoneAppHasNoBucket
<1> QED BY <1>1, SoundAlways, PTL
-----------------------------------------------------------------------------
(***************************************************************************)
(* Who is refused.                                                         *)
(***************************************************************************)
\* For its role one was saved, and STS accepts it unless nobody asked STS or
\* AWS has changed.
Good == {c \in Connection : c.role \in saved /\ (~Local /\ changes = 0 => Assumed(c))}

RowsGood == \A i \in DOMAIN connections : connections[i] \in Good
SaversVerified ==
  ~Local /\ changes = 0 => \A s \in Savers : saver[s] # None => Assumed(saver[s])
JobsGood ==
  \A j \in Jobs : job[j].upload \in {None} \cup Good /\ job[j].use \in {None} \cup Good

\* A bucket is in an account that a connection was saved for.
BucketsKnown == \A a \in Apps : home[a] # None => \E r \in saved : home[a] = HomeOf[r]

LEMMA LatestIsGood ==
  ASSUME TypeOK, RowsGood, SelectValidated # None
  PROVE  SelectValidated \in Good
BY LatestConnection DEF RowsGood, TypeOK

\* The steps of jobs leave what surrounds them alone.
LEMMA JobsTouch ==
  ASSUME NEW j \in Jobs, JobNext(j)
  PROVE  UNCHANGED <<trust, changes, connections, saved, saver>>
BY DEF JobNext, QueueDeployment, BuildDeploymentRuntime, SelectForBucket, EnsureS3WebsiteBucket,
   UpsertAppInfraOutput, UploadArtifacts, BeginTeardown, LoadInfraOutput, EmptyAndDeleteBucket,
   DeleteAppForUser, JobFails, outside, aws

\* What is good stays so.
LEMMA GoodStays ==
  ASSUME TypeOK, [Next]_vars
  PROVE  saved \subseteq saved' /\ Good \subseteq Good' /\ (changes' = 0 => changes = 0)
<1>0. changes \in Nat
  BY ConnectionsAssumption DEF TypeOK
<1>1. CASE UNCHANGED <<trust, changes>> /\ saved \subseteq saved'
  BY <1>1 DEF Good, Assumed
<1>2. ASSUME NEW r \in Roles, RoleAsksForAnother(r)
      PROVE  changes' # 0 /\ saved' = saved
  BY <1>0, <1>2 DEF RoleAsksForAnother, aws
<1>3. CASE \E r \in Roles : RoleAsksForAnother(r)
  BY <1>2, <1>3 DEF Good
<1>4. CASE \E j \in Jobs : JobNext(j)
  BY <1>1, <1>4, JobsTouch
<1> QED BY <1>1, <1>3, <1>4 DEF Next, VerifyConnection, UpsertAWSConnection, DeleteAWSConnection,
        CreateApp, EnsureAppInfraOutput, RecordFails, GetAppInfraOutputs, UpdateApp, Crash,
        outside, aws, vars

LEMMA RowsStep ==
  ASSUME TypeOK, RowsGood, SaversVerified, [Next]_vars
  PROVE  RowsGood'
<1>a. /\ connections \in Seq(Connection) /\ OneRowPerRole(connections)
      /\ saver \in [Savers -> {None} \cup Connection]
  BY DEF TypeOK, OneRowPerRole
<1>1. CASE UNCHANGED connections
  BY <1>1, GoodStays DEF RowsGood
<1>2. ASSUME NEW s \in Savers, UpsertAWSConnection(s)
      PROVE  RowsGood'
  <2> DEFINE c == saver[s]
  <2>1. c \in Connection
    BY <1>a, <1>2 DEF UpsertAWSConnection
  <2>2. c \in Good'
    BY <1>2, <2>1 DEF UpsertAWSConnection, SaversVerified, Good, Assumed, outside
  <2>3. connections' = <<c>> \o Others(c.role)
    BY <1>2 DEF UpsertAWSConnection
  <2>4. c.role \in Roles
    BY <2>1 DEF Connection
  <2> HIDE DEF c
  <2> QED BY <1>a, <2>1, <2>2, <2>3, <2>4, UpsertedRows, GoodStays DEF RowsGood
<1>3. ASSUME NEW r \in Roles, DeleteAWSConnection(r)
      PROVE  RowsGood'
  <2>1. connections' = Others(r)
    BY <1>3 DEF DeleteAWSConnection
  <2> QED BY <1>a, <2>1, RowsOfOthers, GoodStays DEF RowsGood
<1>4. CASE \E j \in Jobs : JobNext(j)
  BY <1>1, <1>4, JobsTouch
<1> QED BY <1>1, <1>2, <1>3, <1>4 DEF Next, VerifyConnection, RoleAsksForAnother, CreateApp,
        EnsureAppInfraOutput, RecordFails, GetAppInfraOutputs, UpdateApp, Crash, aws, vars

LEMMA SaversStep ==
  ASSUME TypeOK, SaversVerified, [Next]_vars
  PROVE  SaversVerified'
<1>a. saver \in [Savers -> {None} \cup Connection]
  BY DEF TypeOK
<1>1. CASE UNCHANGED <<trust, changes, saver>>
  BY <1>1 DEF SaversVerified, Assumed
<1>2. ASSUME NEW s \in Savers, VerifyConnection(s)
      PROVE  SaversVerified'
  <2>1. PICK c \in Connection : (~Local => Assumed(c)) /\ saver' = [saver EXCEPT ![s] = c]
    BY <1>2 DEF VerifyConnection
  <2> QED BY <1>a, <1>2, <2>1 DEF VerifyConnection, SaversVerified, Assumed, outside
<1>3. ASSUME NEW s \in Savers, UpsertAWSConnection(s)
      PROVE  SaversVerified'
  BY <1>a, <1>3 DEF UpsertAWSConnection, SaversVerified, Assumed, outside
<1>4. ASSUME NEW r \in Roles, RoleAsksForAnother(r)
      PROVE  SaversVerified'
  <2>1. changes' # 0
    BY <1>4, ConnectionsAssumption DEF RoleAsksForAnother, TypeOK
  <2> QED BY <2>1 DEF SaversVerified
<1>5. CASE Crash
  BY <1>5 DEF Crash, SaversVerified, outside
<1>6. CASE \E j \in Jobs : JobNext(j)
  BY <1>1, <1>6, JobsTouch
<1> QED BY <1>1, <1>2, <1>3, <1>4, <1>5, <1>6 DEF Next, DeleteAWSConnection, CreateApp,
        EnsureAppInfraOutput, RecordFails, GetAppInfraOutputs, UpdateApp, outside, aws, vars

\* A job refused is refused by the role or the bucket's account.
RefusedRightly(j) ==
  job'[j].pc = "refused" => \E c \in Good, a \in Apps : ~Usable(c, a)

LEMMA JobGoesOnGood ==
  ASSUME TypeOK, RowsGood, JobsGood, BucketsKnown, NEW j \in Jobs, JobNext(j)
  PROVE  /\ JobsGood' /\ BucketsKnown'
         /\ \A k \in Jobs : k # j => job'[k] = job[k]
         /\ RefusedRightly(j)
<1>0. /\ home \in [Apps -> {None} \cup Homes] /\ job \in [Jobs -> Job]
      /\ connections \in Seq(Connection) /\ Good' = Good /\ saved' = saved
      /\ Good \subseteq Connection /\ None \notin Connection
      /\ job[j].upload \in {None} \cup Good /\ job[j].use \in {None} \cup Good
      /\ SelectValidated \in {None} \cup Good
  BY JobsTouch, LatestIsGood, ConnectionsAssumption DEF TypeOK, Good, Assumed, JobsGood
<1>1. UNCHANGED home => BucketsKnown'
  BY <1>0 DEF BucketsKnown
<1>2. ASSUME NEW v \in Job, Writes(j, v),
             v.upload \in {None} \cup Good, v.use \in {None} \cup Good
      PROVE  /\ JobsGood' /\ job'[j] = v
             /\ \A k \in Jobs : k # j => job'[k] = job[k]
  BY <1>0, <1>2, Written DEF JobsGood
<1>3. ASSUME Writes(j, Idle) \/ Writes(j, Refused),
             Writes(j, Refused) => \E c \in Good, a \in Apps : ~Usable(c, a)
      PROVE  /\ JobsGood' /\ RefusedRightly(j)
             /\ \A k \in Jobs : k # j => job'[k] = job[k]
  <2>1. /\ Idle \in Job /\ Idle.upload = None /\ Idle.use = None /\ Idle.pc = "idle"
        /\ Refused \in Job /\ Refused.upload = None /\ Refused.use = None
    BY NewJobs DEF Idle, Refused
  <2>2. CASE Writes(j, Idle)
    BY <1>2, <2>1, <2>2 DEF RefusedRightly
  <2>3. CASE Writes(j, Refused)
    BY <1>2, <1>3, <2>1, <2>3 DEF RefusedRightly
  <2> QED BY <1>3, <2>2, <2>3
<1>4. ASSUME NEW p, NEW b, NEW u \in {None} \cup Good, NEW c \in {None} \cup Good, p # "refused",
             [pc |-> p, app |-> b, upload |-> u, use |-> c] \in Job,
             Writes(j, [pc |-> p, app |-> b, upload |-> u, use |-> c])
      PROVE  /\ JobsGood' /\ RefusedRightly(j)
             /\ \A k \in Jobs : k # j => job'[k] = job[k]
  <2> DEFINE v == [pc |-> p, app |-> b, upload |-> u, use |-> c]
  <2>1. v \in Job /\ v.pc = p /\ v.upload = u /\ v.use = c /\ Writes(j, v)
    BY <1>4
  <2> HIDE DEF v
  <2> QED BY <1>2, <1>4, <2>1 DEF RefusedRightly
<1>5. ASSUME NEW a \in Apps, QueueDeployment(j, a) \/ BeginTeardown(j, a)
      PROVE  /\ JobsGood' /\ BucketsKnown' /\ RefusedRightly(j)
             /\ \A k \in Jobs : k # j => job'[k] = job[k]
  <2>1. UNCHANGED home
    BY <1>5 DEF QueueDeployment, BeginTeardown
  <2> QED BY <1>0, <1>1, <1>4, <1>5, <2>1, JobSteps, NewJobs
<1>6. CASE BuildDeploymentRuntime(j)
  <2>1. UNCHANGED home
    BY <1>6 DEF BuildDeploymentRuntime
  <2>2. \/ Writes(j, Idle)
        \/ /\ SelectValidated \in Connection /\ job[j].app \in Apps
           /\ Writes(j, [pc |-> "infra", app |-> job[j].app, upload |-> SelectValidated,
                         use |-> None])
    BY <1>0, <1>6, JobSteps
  <2>3. CASE Writes(j, Idle)
    BY <1>0, <1>1, <1>2, <2>1, <2>3, NewJobs DEF RefusedRightly, Idle
  <2> QED BY <1>0, <1>1, <1>4, <2>1, <2>2, <2>3, NewJobs
<1>7. CASE SelectForBucket(j)
  <2>1. UNCHANGED home
    BY <1>7 DEF SelectForBucket
  <2>2. \/ Writes(j, Idle)
        \/ /\ SelectValidated \in Connection /\ job[j].app \in Apps
           /\ job[j].upload \in Connection
           /\ Writes(j, [pc |-> "bucket", app |-> job[j].app, upload |-> job[j].upload,
                         use |-> SelectValidated])
        \/ /\ SelectValidated \in Connection /\ job[j].app \in Apps
           /\ Writes(j, [pc |-> "remove", app |-> job[j].app, upload |-> None,
                         use |-> SelectValidated])
    BY <1>0, <1>7, JobSteps
  <2>3. CASE Writes(j, Idle)
    BY <1>0, <1>1, <1>2, <2>1, <2>3, NewJobs DEF RefusedRightly, Idle
  <2> QED BY <1>0, <1>1, <1>4, <2>1, <2>2, <2>3, NewJobs
<1>8. CASE EnsureS3WebsiteBucket(j)
  <2>1. /\ job[j].app \in Apps /\ job[j].use \in Good /\ job[j].upload \in Good
        /\ job[j].upload \in Connection
    BY <1>0, <1>8, JobSteps
  <2>2. CASE ~Usable(job[j].use, job[j].app) /\ UNCHANGED home /\ Writes(j, Refused)
    BY <1>1, <1>3, <2>1, <2>2
  <2>3. CASE /\ home' = [home EXCEPT ![job[j].app] = HomeOf[job[j].use.role]]
             /\ Writes(j, [pc |-> "upsert", app |-> job[j].app, upload |-> job[j].upload,
                           use |-> None])
    <3>1. job[j].use.role \in saved
      BY <2>1 DEF Good
    <3>2. BucketsKnown'
      BY <1>0, <2>1, <2>3, <3>1 DEF BucketsKnown
    <3> QED BY <1>4, <2>1, <2>3, <3>2, NewJobs
  <2> QED BY <1>0, <1>8, <2>2, <2>3, JobSteps
<1>9. CASE UpsertAppInfraOutput(j)
  <2>1. UNCHANGED home
    BY <1>9 DEF UpsertAppInfraOutput
  <2>2. /\ job[j].app \in Apps /\ job[j].upload \in Connection
        /\ Writes(j, [pc |-> "upload", app |-> job[j].app, upload |-> job[j].upload,
                      use |-> None])
    BY <1>0, <1>9, JobSteps
  <2> QED BY <1>0, <1>1, <1>4, <2>1, <2>2, NewJobs
<1>10. CASE UploadArtifacts(j)
  <2>1. UNCHANGED home
    BY <1>10 DEF UploadArtifacts
  <2>2. /\ job[j].app \in Apps /\ job[j].upload \in Good
        /\ \/ Writes(j, Idle)
           \/ ~Usable(job[j].upload, job[j].app) /\ Writes(j, Refused)
    BY <1>0, <1>10, JobSteps
  <2>3. CASE Writes(j, Idle)
    BY <1>0, <1>1, <1>2, <2>1, <2>3, NewJobs DEF RefusedRightly, Idle
  <2> QED BY <1>1, <1>3, <2>1, <2>2, <2>3
<1>11. CASE LoadInfraOutput(j)
  <2>1. UNCHANGED home
    BY <1>11 DEF LoadInfraOutput
  <2>2. PICK p \in {"choose", "row"} :
          /\ job[j].app \in Apps
          /\ Writes(j, [pc |-> p, app |-> job[j].app, upload |-> None, use |-> None])
    BY <1>0, <1>11, JobSteps
  <2>3. [pc |-> p, app |-> job[j].app, upload |-> None, use |-> None] \in Job /\ p # "refused"
    BY <2>2, NewJobs
  <2> QED BY <1>1, <1>4, <2>1, <2>2, <2>3
<1>12. CASE EmptyAndDeleteBucket(j)
  <2>1. job[j].app \in Apps /\ job[j].use \in Good
    BY <1>0, <1>12, JobSteps
  <2>2. CASE ~Usable(job[j].use, job[j].app) /\ UNCHANGED home /\ Writes(j, Refused)
    BY <1>1, <1>3, <2>1, <2>2
  <2>3. CASE /\ home' = [home EXCEPT ![job[j].app] = None]
             /\ Writes(j, [pc |-> "row", app |-> job[j].app, upload |-> None, use |-> None])
    <3>1. BucketsKnown'
      BY <1>0, <2>1, <2>3 DEF BucketsKnown
    <3> QED BY <1>4, <2>1, <2>3, <3>1, NewJobs
  <2> QED BY <1>0, <1>12, <2>2, <2>3, JobSteps
<1>13. CASE DeleteAppForUser(j) \/ JobFails(j)
  <2>1. UNCHANGED home /\ Writes(j, Idle)
    BY <1>0, <1>13, JobSteps DEF DeleteAppForUser, JobFails
  <2> QED BY <1>0, <1>1, <1>2, <2>1, NewJobs DEF RefusedRightly, Idle
<1> QED BY <1>5, <1>6, <1>7, <1>8, <1>9, <1>10, <1>11, <1>12, <1>13 DEF JobNext

LEMMA JobsGoodStep ==
  ASSUME TypeOK, RowsGood, JobsGood, BucketsKnown, [Next]_vars
  PROVE  /\ JobsGood' /\ BucketsKnown'
         /\ \A j \in Jobs : job'[j].pc = "refused" =>
              job[j].pc = "refused" \/ \E c \in Good, a \in Apps : ~Usable(c, a)
<1>1. CASE UNCHANGED <<home, job>>
  BY <1>1, GoodStays DEF JobsGood, BucketsKnown
<1>2. CASE \E j \in Jobs : JobNext(j)
  BY <1>2, JobGoesOnGood DEF RefusedRightly
<1>3. CASE Crash
  <2>1. job' = [k \in Jobs |-> Idle] /\ UNCHANGED home
    BY <1>3 DEF Crash
  <2> QED BY <2>1, GoodStays DEF JobsGood, BucketsKnown, Idle
<1> QED BY <1>1, <1>2, <1>3 DEF Next, VerifyConnection, UpsertAWSConnection, DeleteAWSConnection,
        RoleAsksForAnother, CreateApp, EnsureAppInfraOutput, RecordFails, GetAppInfraOutputs,
        UpdateApp, vars

LEMMA RefusalStep ==
  ASSUME TypeOK, RowsGood, JobsGood, BucketsKnown, OneAccountIsNeverRefused, [Next]_vars
  PROVE  OneAccountIsNeverRefused'
<1> SUFFICES ASSUME ~Local, changes' = 0, \A q, r \in saved' : HomeOf[q] = HomeOf[r],
                    NEW j \in Jobs, job'[j].pc = "refused"
             PROVE  FALSE
  BY DEF OneAccountIsNeverRefused, At
<1>1. changes = 0 /\ \A q, r \in saved : HomeOf[q] = HomeOf[r]
  BY GoodStays
<1>2. job[j].pc # "refused"
  BY <1>1 DEF OneAccountIsNeverRefused, At
<1>3. PICK c \in Good, a \in Apps : ~Usable(c, a)
  BY <1>2, JobsGoodStep
<1>4. c.role \in saved /\ Assumed(c)
  BY <1>1 DEF Good
<1>5. home[a] # None /\ home[a] # HomeOf[c.role]
  BY <1>3, <1>4 DEF Usable
<1> QED BY <1>1, <1>4, <1>5 DEF BucketsKnown

\* Where STS verifies connections, with one account and region and roles that
\* stay as they are, no deployment or deletion is refused by AWS, though each
\* chooses its connection again while connections come and go.
THEOREM OneAccountSuffices == Spec => []OneAccountIsNeverRefused
<1> DEFINE IInv == /\ TypeOK /\ IdsAreGiven /\ RowsGood /\ SaversVerified /\ JobsGood
                   /\ BucketsKnown /\ OneAccountIsNeverRefused
<1>1. Init => IInv
  <2> SUFFICES ASSUME Init PROVE IInv
    OBVIOUS
  <2>1. RowsGood
    BY DEF Init, RowsGood
  <2>2. SaversVerified /\ JobsGood /\ BucketsKnown /\ OneAccountIsNeverRefused
    BY DEF Init, Idle, SaversVerified, JobsGood, BucketsKnown, OneAccountIsNeverRefused, At
  <2> QED BY <2>1, <2>2, InitTypes
<1>2. IInv /\ [Next]_vars => IInv'
  BY TypeStep, RowsStep, SaversStep, JobsGoodStep, RefusalStep
<1> QED BY <1>1, <1>2, PTL DEF Spec

-----------------------------------------------------------------------------
(***************************************************************************)
(* The applications and their buckets implement AppRegistry.               *)
(***************************************************************************)
LEMMA RegistryStep ==
  ASSUME TypeOK, IdsAreGiven, OthersSound, TypeOK', [Next]_vars
  PROVE  [Registry!Next]_(Registry!vars)
<1>0. /\ apps \in [Apps -> {None} \cup Source] /\ home \in [Apps -> {None} \cup Homes]
      /\ job \in [Jobs -> Job] /\ connections \in Seq(Connection)
      /\ None \notin Source \cup Homes
  BY ConnectionsAssumption DEF TypeOK
<1>1. CASE UNCHANGED <<apps, given, home, astray>>
  BY <1>1 DEF Registry!vars
<1>2. ASSUME UNCHANGED <<apps, given, home>>, astray \subseteq astray'
      PROVE  Registry!GoAstray
  <2>1. astray' \in SUBSET Apps
    BY DEF TypeOK
  <2> QED BY <1>2, <2>1 DEF Registry!GoAstray
<1>3. ASSUME NEW x \in Source, Free(x)
      PROVE  x \in Registry!Free
  BY <1>3 DEF Free, Registry!Free
<1>4. ASSUME NEW c \in Creators, CreateApp(c)
      PROVE  \E a \in Apps : Registry!Create(a)
  <2>1. PICK a \in Apps \ given, x \in Source :
          Free(x) /\ apps' = [apps EXCEPT ![a] = x] /\ given' = given \cup {a}
    BY <1>4 DEF CreateApp
  <2>2. apps'[a] = x
    BY <1>0, <2>1
  <2>3. UNCHANGED <<home, astray>>
    BY <1>4 DEF CreateApp
  <2> QED BY <1>3, <2>1, <2>2, <2>3 DEF Registry!Create
<1>5. ASSUME NEW a \in Apps, UpdateApp(a)
      PROVE  Registry!Retarget(a)
  <2>1. PICK b \in Branches : /\ Free([apps[a] EXCEPT !.branch = b])
                              /\ apps' = [apps EXCEPT ![a] = [apps[a] EXCEPT !.branch = b]]
    BY <1>5 DEF UpdateApp
  <2> DEFINE x == [apps[a] EXCEPT !.branch = b]
  <2>2. apps[a] # None /\ apps[a] \in Source
    BY <1>0, <1>5 DEF UpdateApp
  <2>3. x \in Source /\ Free(x) /\ apps' = [apps EXCEPT ![a] = x]
    BY <2>1, <2>2 DEF Source
  <2> HIDE DEF x
  <2>4. apps'[a] = x
    BY <1>0, <2>3
  <2> QED BY <1>3, <1>5, <2>2, <2>3, <2>4 DEF UpdateApp, Registry!Retarget
<1>6. ASSUME NEW j \in Jobs, EnsureS3WebsiteBucket(j)
      PROVE  UNCHANGED Registry!vars \/ \E a \in Apps : Registry!Settle(a)
  <2>1. /\ job[j].app \in Apps /\ job[j].use \in Connection /\ At(j, "bucket")
        /\ \/ /\ Usable(job[j].use, job[j].app)
              /\ home' = [home EXCEPT ![job[j].app] = HomeOf[job[j].use.role]]
           \/ UNCHANGED home
    BY <1>0, <1>6, JobSteps
  <2>2. UNCHANGED <<apps, given, astray>>
    BY <1>6 DEF EnsureS3WebsiteBucket, rows
  <2> DEFINE a == job[j].app
             h == HomeOf[job[j].use.role]
  <2>3. h \in Homes
    BY <2>1 DEF Connection, Homes
  <2>4. CASE UNCHANGED home
    BY <2>2, <2>4 DEF Registry!vars
  <2>5. CASE Usable(job[j].use, a) /\ home' = [home EXCEPT ![a] = h]
    <3>1. home[a] \in {None, h}
      BY <2>5 DEF Usable
    <3>2. CASE home[a] = h
      <4>1. home' = home
        BY <1>0, <2>5, <3>2
      <4> QED BY <2>4, <4>1
    <3>3. CASE home[a] = None
      <4>1. Active(a, Deploying)
        BY <2>1 DEF Active, At, Deploying
      <4>2. apps[a] # None \/ a \in astray
        BY <2>1, <4>1 DEF OthersSound, Sound
      <4>3. home'[a] = h
        BY <1>0, <2>1, <2>5
      <4>4. a \in Apps /\ home' = [home EXCEPT ![a] = home'[a]] /\ home'[a] \in Homes
        BY <2>1, <2>3, <2>5, <4>3
      <4> HIDE DEF a, h
      <4>5. Registry!Settle(a)
        BY <2>2, <3>3, <4>2, <4>4 DEF Registry!Settle
      <4> QED BY <4>4, <4>5
    <3> QED BY <3>1, <3>2, <3>3
  <2> QED BY <2>1, <2>4, <2>5
<1>7. ASSUME NEW j \in Jobs, EmptyAndDeleteBucket(j)
      PROVE  UNCHANGED Registry!vars \/ \E a \in Apps : Registry!Clear(a)
  <2>1. /\ job[j].app \in Apps
        /\ home' = [home EXCEPT ![job[j].app] = None] \/ UNCHANGED home
    BY <1>0, <1>7, JobSteps
  <2>2. UNCHANGED <<apps, given, astray>>
    BY <1>7 DEF EmptyAndDeleteBucket, rows
  <2>3. CASE UNCHANGED home
    BY <2>2, <2>3 DEF Registry!vars
  <2>4. CASE home' = [home EXCEPT ![job[j].app] = None] /\ home[job[j].app] # None
    <3>1. Registry!Clear(job[j].app)
      BY <2>2, <2>4 DEF Registry!Clear
    <3> QED BY <2>1, <3>1
  <2>5. CASE home' = [home EXCEPT ![job[j].app] = None] /\ home[job[j].app] = None
    <3>1. home' = home
      BY <1>0, <2>5
    <3> QED BY <2>3, <3>1
  <2> QED BY <2>1, <2>3, <2>4, <2>5
<1>8. ASSUME NEW j \in Jobs, DeleteAppForUser(j)
      PROVE  UNCHANGED Registry!vars \/ \E a \in Apps : Registry!Remove(a)
  <2>1. /\ job[j].app \in Apps /\ At(j, "row")
        /\ apps' = [apps EXCEPT ![job[j].app] = None]
    BY <1>0, <1>8, JobSteps
  <2>2. UNCHANGED <<given, home, astray>>
    BY <1>8 DEF DeleteAppForUser
  <2>3. CASE apps[job[j].app] = None
    <3>1. apps' = apps
      BY <1>0, <2>1, <2>3
    <3> QED BY <2>2, <3>1 DEF Registry!vars
  <2>4. CASE apps[job[j].app] # None
    <3>1. home[job[j].app] = None \/ job[j].app \in astray
      BY <2>1 DEF OthersSound, Sound, Active, At
    <3>2. Registry!Remove(job[j].app)
      BY <2>1, <2>2, <2>4, <3>1 DEF Registry!Remove
    <3> QED BY <2>1, <3>2
  <2> QED BY <2>3, <2>4
<1>9. CASE \/ \E j \in Jobs, a \in Apps : QueueDeployment(j, a) \/ BeginTeardown(j, a)
           \/ \E j \in Jobs : JobFails(j)
           \/ Crash
  <2>1. UNCHANGED <<apps, given, home>> /\ astray \subseteq astray'
    BY <1>9 DEF JobFails, QueueDeployment, BeginTeardown, Overlaps, Crash, rows
  <2> QED BY <1>2, <2>1 DEF Registry!Next
<1> QED BY <1>1, <1>4, <1>5, <1>6, <1>7, <1>8, <1>9 DEF Registry!Next, Next, JobNext,
        VerifyConnection, UpsertAWSConnection, DeleteAWSConnection, RoleAsksForAnother,
        EnsureAppInfraOutput, RecordFails, GetAppInfraOutputs, BuildDeploymentRuntime,
        SelectForBucket, UpsertAppInfraOutput, UploadArtifacts, LoadInfraOutput, rows, vars

(***************************************************************************)
(* However deployments, deletions and patches overlap, fail or are         *)
(* refused, and whichever connections are chosen: every step is one of     *)
(* AppRegistry or leaves rows and buckets alone, the bucket of an          *)
(* application that is not astray going before its row.                    *)
(***************************************************************************)
THEOREM ConnectionsImplementRegistry == Spec => ImplementsRegistry
<1>1. Init => Registry!Init
  BY DEF Init, Registry!Init
<1>2. TypeOK /\ IdsAreGiven /\ OthersSound /\ TypeOK' /\ [Next]_vars
        => [Registry!Next]_(Registry!vars)
  BY RegistryStep
<1> QED BY <1>1, <1>2, SoundAlways, PTL DEF Spec, ImplementsRegistry, Registry!Spec

(***************************************************************************)
(* A bucket never moves.  Where it was made it stays, whatever is          *)
(* connected by then and however deployments fail, until a deletion of its *)
(* application removes it with a connection of its own account and region; *)
(* astray or not.                                                          *)
(***************************************************************************)
Removes(j, a) ==
  At(j, "remove") /\ job[j].app = a /\ HomeOf[job[j].use.role] = home[a] /\ home'[a] = None

BucketsStay ==
  [][\A a \in Apps : home[a] # None /\ home'[a] # home[a] => \E j \in Jobs : Removes(j, a)]_vars

THEOREM BucketsStayWhereTheyAre == Spec => BucketsStay
<1> DEFINE Stay == \A a \in Apps : home[a] # None /\ home'[a] # home[a] =>
                                     \E j \in Jobs : Removes(j, a)
<1>1. TypeOK /\ [Next]_vars => [Stay]_vars
  <2> SUFFICES ASSUME TypeOK, Next, NEW a \in Apps, home[a] # None, home'[a] # home[a]
               PROVE  \E j \in Jobs : Removes(j, a)
    OBVIOUS
  <2>0. /\ home \in [Apps -> {None} \cup Homes] /\ job \in [Jobs -> Job]
        /\ connections \in Seq(Connection)
    BY DEF TypeOK
  <2>1. PICK j \in Jobs : EnsureS3WebsiteBucket(j) \/ EmptyAndDeleteBucket(j)
    BY DEF Next, JobNext, VerifyConnection, UpsertAWSConnection, DeleteAWSConnection,
       RoleAsksForAnother, CreateApp, EnsureAppInfraOutput, RecordFails, GetAppInfraOutputs,
       UpdateApp, QueueDeployment, BuildDeploymentRuntime, SelectForBucket,
       UpsertAppInfraOutput, UploadArtifacts, BeginTeardown, LoadInfraOutput,
       DeleteAppForUser, JobFails, Crash
  <2>2. ~EnsureS3WebsiteBucket(j)
    <3>1. SUFFICES ASSUME EnsureS3WebsiteBucket(j) PROVE FALSE
      OBVIOUS
    <3>2. /\ Usable(job[j].use, job[j].app)
          /\ home' = [home EXCEPT ![job[j].app] = HomeOf[job[j].use.role]]
      BY <2>0, <3>1, JobSteps
    <3> QED BY <2>0, <3>2 DEF Usable
  <2>3. /\ At(j, "remove") /\ Usable(job[j].use, job[j].app)
        /\ home' = [home EXCEPT ![job[j].app] = None]
    BY <2>0, <2>1, <2>2, JobSteps
  <2>4. a = job[j].app /\ home'[a] = None
    BY <2>0, <2>3
  <2> QED BY <2>3, <2>4 DEF Removes, Usable
<1> QED BY <1>1, TypeCorrect, PTL DEF Spec, BucketsStay
=============================================================================
