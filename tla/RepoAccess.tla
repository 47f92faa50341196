------------------------------- MODULE RepoAccess -------------------------------
(***************************************************************************)
(* What the applications of a user need from GitHub: the installation of   *)
(* the GitHub App (github_repositories.go), the check that it grants the   *)
(* repository of a new application (apps_repo_access.go,                   *)
(* apps_write_create.go), and the token a deployment clones with           *)
(* (deploy_pipeline_runtime.go).                                           *)
(*                                                                         *)
(* The installation is asked for its repositories before an application is *)
(* inserted, and its row is read again when a deployment starts.  In       *)
(* between the user saves other installations and changes what they grant, *)
(* and the server restarts, with or without credentials of the GitHub App: *)
(* without them any repository is accepted and nothing is deployed.        *)
(*                                                                         *)
(* Definitions have names of their own, since the instance for TLC extends *)
(* this module together with Connections.                                  *)
(***************************************************************************)
EXTENDS Naturals, FiniteSets

CONSTANTS
  Repositories,    \* numbers, in the order GitHub lists them
  PageSize,        \* repositories in the one page that is read (100)
  Installations,   \* installations of the GitHub App
  NoInstallation,
  Applicants,      \* requests that create an application, one slot each
  Runs,            \* deployments, one slot each
  FirstGrants,     \* what each installation grants in the beginning
  MaxGrantChanges, \* bound on changes of the grants
  MaxRestarts      \* bound on restarts of the server

\* An application is told apart by its repository, and by whether GitHub was
\* asked for it when the application was created.
Kind == [repo : Repositories, checked : BOOLEAN]

ASSUME RepoAccessAssumption ==
  /\ Repositories \subseteq Nat
  /\ PageSize \in Nat
  /\ NoInstallation \notin Installations
  /\ FirstGrants \in [Installations -> SUBSET Repositories]
  /\ MaxGrantChanges \in Nat
  /\ MaxRestarts \in Nat

VARIABLES
  configured,    \* whether the server has credentials of the GitHub App
  restarts,      \* restarts so far
  grants,        \* GitHub: the repositories each installation grants
  grantChanges,  \* changes of them so far
  installation,  \* table github_installations: the row of the user, or none
  installed,     \* every installation ever saved
  applicant,     \* where the requests that create applications are
  tracked,       \* table apps: the kinds of the rows there are
  checkout       \* where the deployments are

accessVars == <<configured, restarts, grants, grantChanges, installation, installed,
                applicant, tracked, checkout>>
server == <<configured, restarts>>
github == <<grants, grantChanges>>
rowOfUser == <<installation, installed>>

NoRequest == [pc |-> "idle"]

AccessInit ==
  /\ configured \in BOOLEAN
  /\ restarts = 0
  /\ grants = FirstGrants
  /\ grantChanges = 0
  /\ installation = NoInstallation
  /\ installed = {}
  /\ applicant = [c \in Applicants |-> NoRequest]
  /\ tracked = {}
  /\ checkout = [d \in Runs |-> NoRequest]

-----------------------------------------------------------------------------
(* The installation and the creation of applications *)

\* POST /v1/github/installations: one row per user, the last one stays.
UpsertGitHubInstallation(i) ==
  /\ installation # i
  /\ installation' = i
  /\ installed' = installed \cup {i}
  /\ UNCHANGED <<server, github, applicant, tracked, checkout>>

(***************************************************************************)
(* POST /v1/apps: without credentials of the GitHub App any repository is  *)
(* accepted; with them the user's installation is loaded, and without one  *)
(* the answer is 400.                                                      *)
(***************************************************************************)
EnsureUserCanTrackRepo(c) ==
  /\ applicant[c].pc = "idle"
  /\ \E r \in Repositories :
       \/ /\ ~configured
          /\ applicant' = [applicant EXCEPT ![c] =
               [pc |-> "insert", app |-> [repo |-> r, checked |-> FALSE]]]
       \/ /\ configured
          /\ installation # NoInstallation
          /\ applicant' = [applicant EXCEPT ![c] =
               [pc |-> "ask", app |-> [repo |-> r, checked |-> TRUE], asked |-> installation]]
  /\ UNCHANGED <<server, github, rowOfUser, tracked, checkout>>

\* The installation's token lists its repositories, one page of them.
Listed(i) == {r \in grants[i] : Cardinality({q \in grants[i] : q <= r}) <= PageSize}

\* Mutant: a repository that is not in the list is accepted.
AcceptUnlisted(c) ==
  /\ applicant[c].pc = "ask"
  /\ applicant' = [applicant EXCEPT ![c] = [pc |-> "insert", app |-> applicant[c].app]]
  /\ UNCHANGED <<server, github, rowOfUser, tracked, checkout>>

\* The repository is looked for in the list; without it the answer is 403.
FindInList(c) ==
  /\ applicant[c].pc = "ask"
  /\ applicant' = [applicant EXCEPT ![c] =
       IF applicant[c].app.repo \in Listed(applicant[c].asked)
       THEN [pc |-> "insert", app |-> applicant[c].app]
       ELSE NoRequest]
  /\ UNCHANGED <<server, github, rowOfUser, tracked, checkout>>

\* The row is inserted, unless its repository and branch are taken.
InsertApp(c) ==
  /\ applicant[c].pc = "insert"
  /\ tracked' \in {tracked, tracked \cup {applicant[c].app}}
  /\ applicant' = [applicant EXCEPT ![c] = NoRequest]
  /\ UNCHANGED <<server, github, rowOfUser, checkout>>

\* The last application of a kind is deleted.
RemoveApp(a) ==
  /\ a \in tracked
  /\ tracked' = tracked \ {a}
  /\ UNCHANGED <<server, github, rowOfUser, applicant, checkout>>

-----------------------------------------------------------------------------
(* Deployments *)

\* A deployment starts with a copy of the application's row.
StartDeployment(d, a) ==
  /\ checkout[d].pc \in {"idle", "denied"}
  /\ a \in tracked
  /\ checkout' = [checkout EXCEPT ![d] = [pc |-> "queued", app |-> a]]
  /\ UNCHANGED <<server, github, rowOfUser, applicant, tracked>>

\* It takes a token of the installation the user has by now.
TakeToken(d) ==
  /\ checkout[d].pc = "queued"
  /\ configured
  /\ installation # NoInstallation
  /\ checkout' = [checkout EXCEPT ![d] =
       [pc |-> "clone", app |-> checkout[d].app, token |-> installation]]
  /\ UNCHANGED <<server, github, rowOfUser, applicant, tracked>>

\* The token clones whatever the installation grants by now.
CheckoutGitHubRepository(d) ==
  /\ checkout[d].pc = "clone"
  /\ checkout' = [checkout EXCEPT ![d] =
       IF checkout[d].app.repo \in grants[checkout[d].token]
       THEN NoRequest
       ELSE [pc |-> "denied", app |-> checkout[d].app]]
  /\ UNCHANGED <<server, github, rowOfUser, applicant, tracked>>

\* There are no credentials or no installation, or AWS or a call fails first.
EndsBefore(d) ==
  /\ checkout[d].pc \in {"queued", "clone"}
  /\ checkout' = [checkout EXCEPT ![d] = NoRequest]
  /\ UNCHANGED <<server, github, rowOfUser, applicant, tracked>>

-----------------------------------------------------------------------------
(* What happens around them *)

\* A repository is granted, or no longer.
GrantsChange(i) ==
  /\ grantChanges < MaxGrantChanges
  /\ grantChanges' = grantChanges + 1
  /\ \E r \in Repositories :
       grants' = [grants EXCEPT ![i] = IF r \in @ THEN @ \ {r} ELSE @ \cup {r}]
  /\ UNCHANGED <<server, rowOfUser, applicant, tracked, checkout>>

\* The server stops, losing what is under way, and starts with the credentials
\* its environment has by then.
Restart ==
  /\ restarts < MaxRestarts
  /\ restarts' = restarts + 1
  /\ configured' \in BOOLEAN
  /\ applicant' = [c \in Applicants |-> NoRequest]
  /\ checkout' = [d \in Runs |-> NoRequest]
  /\ UNCHANGED <<github, rowOfUser, tracked>>

AccessNext ==
  \/ \E i \in Installations : UpsertGitHubInstallation(i) \/ GrantsChange(i)
  \/ \E c \in Applicants : EnsureUserCanTrackRepo(c) \/ FindInList(c) \/ InsertApp(c)
  \/ \E a \in Kind : RemoveApp(a) \/ \E d \in Runs : StartDeployment(d, a)
  \/ \E d \in Runs : TakeToken(d) \/ CheckoutGitHubRepository(d) \/ EndsBefore(d)
  \/ Restart

AccessSpec == AccessInit /\ [][AccessNext]_accessVars

-----------------------------------------------------------------------------
\* Types.
AccessTypeOK ==
  /\ configured \in BOOLEAN
  /\ restarts \in 0 .. MaxRestarts
  /\ grants \in [Installations -> SUBSET Repositories]
  /\ grantChanges \in 0 .. MaxGrantChanges
  /\ installation \in {NoInstallation} \cup installed
  /\ installed \subseteq Installations
  /\ applicant \in [Applicants -> {NoRequest} \cup [pc : {"insert"}, app : Kind]
                                    \cup [pc : {"ask"}, app : Kind, asked : installed]]
  /\ tracked \subseteq Kind
  /\ checkout \in [Runs -> {NoRequest} \cup [pc : {"queued", "denied"}, app : Kind]
                             \cup [pc : {"clone"}, app : Kind, token : installed]]

(***************************************************************************)
(* While the grants stay as they are, every application that was created   *)
(* by a server with credentials is for a repository that an installation   *)
(* of the user grants.  The others were accepted unseen.                   *)
(***************************************************************************)
AppsAreGranted ==
  grantChanges = 0 =>
    \A a \in tracked : a.checked => \E i \in installed : a.repo \in grants[i]

(***************************************************************************)
(* A user who only ever had one installation, and leaves its grants as     *)
(* they are, is denied no repository of an application that was checked    *)
(* when it was created, whenever it is deployed, also after its deletion   *)
(* or a restart of the server.                                             *)
(***************************************************************************)
OneInstallationSuffices ==
  grantChanges = 0 /\ (\A i, k \in installed : i = k) =>
    \A d \in Runs : checkout[d].pc = "denied" => ~checkout[d].app.checked
=============================================================================
