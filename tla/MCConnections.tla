----------------------------- MODULE MCConnections -----------------------------
(***************************************************************************)
(* An instance of Connections, and of RepoAccess, for TLC.  Two roles are  *)
(* of one AWS account and one is of another; one installation grants a     *)
(* page of repositories, the other more than a page.                       *)
(*                                                                         *)
(* The two modules share no variable, so what holds of each alone holds of *)
(* both: a behaviour is one of either, with the other at rest.  It begins  *)
(* by choosing which, and how much there is of everything: all bounds at   *)
(* their largest are too much for one exploration.                         *)
(***************************************************************************)
EXTENDS Connections, RepoAccess, TLC

CONSTANTS r1, r2, r3, x, y, i1, i2

VARIABLE bounds

MCHomeOf == (r1 :> "home1") @@ (r2 :> "home1") @@ (r3 :> "home2")
MCFirstTrust == [r \in Roles |-> x]
MCFirstGrants == (i1 :> {1}) @@ (i2 :> {1, 2})

\* Many connections around failures; a role that asks for another external id;
\* applications that compete for their branches; and GitHub.
Bounds ==
  {[aws |-> TRUE, roles |-> {r1, r2, r3}, apps |-> 1, changes |-> 0, faults |-> 1],
   [aws |-> TRUE, roles |-> {r1, r3}, apps |-> 1, changes |-> 1, faults |-> 0],
   [aws |-> TRUE, roles |-> {r1}, apps |-> 2, changes |-> 0, faults |-> 1],
   [aws |-> FALSE]}

MCInit == bounds \in Bounds /\ Init /\ AccessInit /\ (bounds.aws => configured)

AWS == bounds.aws /\ UNCHANGED <<accessVars, bounds>>
GitHub == ~bounds.aws /\ UNCHANGED <<vars, bounds>>
Faulty == AWS /\ faults < bounds.faults

\* The disjuncts of Next, within the bounds, and those of AccessNext.
MCNext ==
  \/ \E s \in Savers : AWS /\ VerifyConnection(s) /\ saver'[s].role \in bounds.roles
  \/ \E s \in Savers : AWS /\ UpsertAWSConnection(s)
  \/ \E r \in Roles : AWS /\ DeleteAWSConnection(r)
  \/ \E r \in Roles : AWS /\ changes < bounds.changes /\ RoleAsksForAnother(r)
  \/ \E c \in Creators : AWS /\ CreateApp(c) /\ Cardinality(given') <= bounds.apps
  \/ \E c \in Creators : AWS /\ EnsureAppInfraOutput(c)
  \/ \E a \in Apps : AWS /\ GetAppInfraOutputs(a)
  \/ \E a \in Apps : AWS /\ UpdateApp(a)
  \/ \E j \in Jobs, a \in Apps : AWS /\ QueueDeployment(j, a)
  \/ \E j \in Jobs : AWS /\ BuildDeploymentRuntime(j)
  \/ \E j \in Jobs : AWS /\ SelectForBucket(j)
  \/ \E j \in Jobs : AWS /\ EnsureS3WebsiteBucket(j)
  \/ \E j \in Jobs : AWS /\ UpsertAppInfraOutput(j)
  \/ \E j \in Jobs : AWS /\ UploadArtifacts(j)
  \/ \E j \in Jobs, a \in Apps : AWS /\ BeginTeardown(j, a)
  \/ \E j \in Jobs : AWS /\ LoadInfraOutput(j)
  \/ \E j \in Jobs : AWS /\ EmptyAndDeleteBucket(j)
  \/ \E j \in Jobs : AWS /\ DeleteAppForUser(j)
  \/ \E j \in Jobs : Faulty /\ JobFails(j)
  \/ \E c \in Creators : Faulty /\ RecordFails(c)
  \/ Faulty /\ Crash
  \/ \E i \in Installations : GitHub /\ UpsertGitHubInstallation(i)
  \/ \E i \in Installations : GitHub /\ GrantsChange(i)
  \/ \E c \in Applicants : GitHub /\ EnsureUserCanTrackRepo(c)
  \/ \E c \in Applicants : GitHub /\ FindInList(c)
  \/ \E c \in Applicants : GitHub /\ InsertApp(c)
  \/ \E a \in Kind : GitHub /\ RemoveApp(a)
  \/ \E d \in Runs, a \in Kind : GitHub /\ StartDeployment(d, a)
  \/ \E d \in Runs : GitHub /\ TakeToken(d)
  \/ \E d \in Runs : GitHub /\ CheckoutGitHubRepository(d)
  \/ \E d \in Runs : GitHub /\ EndsBefore(d)
  \/ GitHub /\ Restart

MCSpec == MCInit /\ [][MCNext]_<<vars, accessVars, bounds>>

\* The roles of one account are interchangeable, and so are ids, slots and branches.
Symmetry == Permutations({r1, r2}) \cup Permutations(Apps) \cup Permutations(Jobs)
              \cup Permutations(Branches)
=============================================================================
