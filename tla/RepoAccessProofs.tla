--------------------------- MODULE RepoAccessProofs ---------------------------
(***************************************************************************)
(* Proofs about RepoAccess, for any repositories, installations, requests, *)
(* deployments, page size and bounds.                                      *)
(***************************************************************************)
EXTENDS RepoAccess, TLAPS

-----------------------------------------------------------------------------
(***************************************************************************)
(* The types.                                                              *)
(***************************************************************************)
Inserting == [pc : {"insert"}, app : Kind]
Asking == [pc : {"ask"}, app : Kind, asked : installed]
Ready == [pc : {"queued", "denied"}, app : Kind]
Cloning == [pc : {"clone"}, app : Kind, token : installed]

\* A request or deployment that is somewhere carries what it needs there.
LEMMA Carried ==
  ASSUME AccessTypeOK
  PROVE  /\ \A c \in Applicants :
              /\ applicant[c].pc = "ask" => /\ applicant[c].app \in Kind
                                            /\ applicant[c].asked \in installed
              /\ applicant[c].pc = "insert" => applicant[c].app \in Kind
         /\ \A d \in Runs :
              /\ checkout[d].pc \in {"queued", "denied", "clone"} => checkout[d].app \in Kind
              /\ checkout[d].pc = "clone" => checkout[d].token \in installed
BY DEF AccessTypeOK, NoRequest

LEMMA InitAccessTypes == AccessInit => AccessTypeOK
<1> SUFFICES ASSUME AccessInit PROVE AccessTypeOK
  OBVIOUS
<1>1. /\ configured \in BOOLEAN /\ restarts \in 0 .. MaxRestarts
      /\ grants \in [Installations -> SUBSET Repositories] /\ grantChanges \in 0 .. MaxGrantChanges
  BY RepoAccessAssumption DEF AccessInit
<1>2. /\ installation \in {NoInstallation} \cup installed /\ installed \subseteq Installations
      /\ tracked \subseteq Kind
  BY DEF AccessInit
<1>3. \A S : applicant \in [Applicants -> {NoRequest} \cup S]
             /\ checkout \in [Runs -> {NoRequest} \cup S]
  BY DEF AccessInit
<1> QED BY <1>1, <1>2, <1>3 DEF AccessTypeOK

ApplicantTypes == applicant \in [Applicants -> {NoRequest} \cup Inserting \cup Asking]
CheckoutTypes == checkout \in [Runs -> {NoRequest} \cup Ready \cup Cloning]
GitHubTypes ==
  /\ configured \in BOOLEAN /\ restarts \in 0 .. MaxRestarts
  /\ grants \in [Installations -> SUBSET Repositories] /\ grantChanges \in 0 .. MaxGrantChanges
RowTypes == /\ installation \in {NoInstallation} \cup installed /\ installed \subseteq Installations
            /\ tracked \subseteq Kind

LEMMA AccessTypeParts ==
  /\ AccessTypeOK <=> ApplicantTypes /\ CheckoutTypes /\ GitHubTypes /\ RowTypes
  /\ AccessTypeOK' <=> ApplicantTypes' /\ CheckoutTypes' /\ GitHubTypes' /\ RowTypes'
BY DEF AccessTypeOK, ApplicantTypes, CheckoutTypes, GitHubTypes, RowTypes, Inserting, Asking,
   Ready, Cloning

LEMMA SameAccessTypes ==
  ASSUME AccessTypeOK
  PROVE  /\ UNCHANGED <<applicant, installed>> => ApplicantTypes'
         /\ UNCHANGED <<checkout, installed>> => CheckoutTypes'
         /\ UNCHANGED <<server, github>> => GitHubTypes'
         /\ UNCHANGED <<rowOfUser, tracked>> => RowTypes'
BY AccessTypeParts DEF ApplicantTypes, CheckoutTypes, GitHubTypes, RowTypes, Asking, Cloning,
   server, github, rowOfUser

LEMMA AccessTypeStep == AccessTypeOK /\ [AccessNext]_accessVars => AccessTypeOK'
<1> SUFFICES ASSUME AccessTypeOK, [AccessNext]_accessVars
             PROVE  ApplicantTypes' /\ CheckoutTypes' /\ GitHubTypes' /\ RowTypes'
  BY AccessTypeParts
<1>0. ApplicantTypes /\ CheckoutTypes /\ GitHubTypes /\ RowTypes
  BY AccessTypeParts
<1>1. ASSUME NEW i \in Installations, UpsertGitHubInstallation(i)
      PROVE  ApplicantTypes' /\ CheckoutTypes' /\ RowTypes'
  <2>1. installed \subseteq installed' /\ Asking \subseteq Asking' /\ Cloning \subseteq Cloning'
    BY <1>1 DEF UpsertGitHubInstallation, Asking, Cloning
  <2> QED BY <1>0, <1>1, <2>1
          DEF UpsertGitHubInstallation, ApplicantTypes, CheckoutTypes, RowTypes, Inserting, Ready
<1>2. ASSUME NEW c \in Applicants, EnsureUserCanTrackRepo(c)
      PROVE  ApplicantTypes'
  <2>1. PICK v \in Inserting \cup Asking : applicant' = [applicant EXCEPT ![c] = v]
    BY <1>0, <1>2 DEF EnsureUserCanTrackRepo, Inserting, Asking, Kind, RowTypes
  <2>2. UNCHANGED installed
    BY <1>2 DEF EnsureUserCanTrackRepo, rowOfUser
  <2> QED BY <1>0, <2>1, <2>2 DEF ApplicantTypes, Asking
<1>3. ASSUME NEW c \in Applicants, FindInList(c)
      PROVE  ApplicantTypes'
  <2>1. PICK v \in {NoRequest} \cup Inserting : applicant' = [applicant EXCEPT ![c] = v]
    BY <1>3, Carried DEF FindInList, Inserting
  <2>2. UNCHANGED installed
    BY <1>3 DEF FindInList, rowOfUser
  <2> QED BY <1>0, <2>1, <2>2 DEF ApplicantTypes, Asking
<1>4. ASSUME NEW c \in Applicants, InsertApp(c)
      PROVE  ApplicantTypes' /\ RowTypes'
  <2>1. applicant[c].app \in Kind
    BY <1>4, Carried DEF InsertApp
  <2> QED BY <1>0, <1>4, <2>1 DEF InsertApp, ApplicantTypes, RowTypes, Asking, rowOfUser
<1>5. ASSUME NEW a \in Kind, RemoveApp(a)
      PROVE  RowTypes'
  BY <1>0, <1>5 DEF RemoveApp, RowTypes, rowOfUser
<1>6. ASSUME NEW d \in Runs, \/ \E a \in Kind : StartDeployment(d, a)
                             \/ TakeToken(d) \/ CheckoutGitHubRepository(d) \/ EndsBefore(d)
      PROVE  CheckoutTypes'
  <2>1. PICK v \in {NoRequest} \cup Ready \cup Cloning : checkout' = [checkout EXCEPT ![d] = v]
    <3>1. CASE \E a \in Kind : StartDeployment(d, a)
      BY <3>1 DEF StartDeployment, Ready
    <3>2. CASE TakeToken(d)
      BY <1>0, <3>2, Carried DEF TakeToken, Cloning, RowTypes
    <3>3. CASE CheckoutGitHubRepository(d)
      BY <3>3, Carried DEF CheckoutGitHubRepository, Ready
    <3>4. CASE EndsBefore(d)
      BY <3>4 DEF EndsBefore
    <3> QED BY <1>6, <3>1, <3>2, <3>3, <3>4
  <2>2. UNCHANGED installed
    BY <1>6 DEF StartDeployment, TakeToken, CheckoutGitHubRepository, EndsBefore, rowOfUser
  <2> QED BY <1>0, <2>1, <2>2 DEF CheckoutTypes, Cloning
<1>7. ASSUME NEW i \in Installations, GrantsChange(i)
      PROVE  GitHubTypes'
  <2>1. grantChanges' \in 0 .. MaxGrantChanges
    BY <1>0, <1>7, RepoAccessAssumption DEF GrantsChange, GitHubTypes
  <2>2. PICK r \in Repositories :
          grants' = [grants EXCEPT ![i] = IF r \in grants[i] THEN grants[i] \ {r}
                                                             ELSE grants[i] \cup {r}]
    BY <1>7 DEF GrantsChange
  <2>3. grants' \in [Installations -> SUBSET Repositories]
    BY <1>0, <2>2 DEF GitHubTypes
  <2> QED BY <1>0, <1>7, <2>1, <2>3 DEF GrantsChange, GitHubTypes, server
<1>8. CASE Restart
  <2>1. GitHubTypes'
    BY <1>0, <1>8, RepoAccessAssumption DEF Restart, GitHubTypes, github
  <2>2. ApplicantTypes' /\ CheckoutTypes'
    BY <1>8 DEF Restart, ApplicantTypes, CheckoutTypes
  <2> QED BY <1>8, <2>1, <2>2, SameAccessTypes DEF Restart
<1>9. CASE UNCHANGED accessVars
  BY <1>9, SameAccessTypes DEF accessVars, server, github, rowOfUser
<1>10. CASE AccessNext
  BY <1>1, <1>2, <1>3, <1>4, <1>5, <1>6, <1>7, <1>8, <1>10, SameAccessTypes
     DEF AccessNext, UpsertGitHubInstallation, EnsureUserCanTrackRepo, FindInList, InsertApp,
     RemoveApp, StartDeployment, TakeToken, CheckoutGitHubRepository, EndsBefore, GrantsChange,
     rowOfUser
<1> QED BY <1>9, <1>10

\* Requests and deployments only know installations that were saved once.
THEOREM AccessTypeCorrect == AccessSpec => []AccessTypeOK
<1>1. AccessTypeOK /\ [AccessNext]_accessVars => AccessTypeOK'
  BY AccessTypeStep
<1> QED BY <1>1, InitAccessTypes, PTL DEF AccessSpec

-----------------------------------------------------------------------------
(***************************************************************************)
(* What is granted.                                                        *)
(***************************************************************************)
Granted(a) == a.checked => \E i \in installed : a.repo \in grants[i]

\* Unless the grants change, what is checked was granted: an application, one
\* about to be inserted, and one that is being deployed or was denied.
KnownGranted ==
  grantChanges = 0 =>
    /\ \A a \in tracked : Granted(a)
    /\ \A c \in Applicants : applicant[c].pc = "insert" => Granted(applicant[c].app)
    /\ \A d \in Runs : checkout[d].pc \in {"queued", "clone"} => Granted(checkout[d].app)

\* What is granted stays so, as long as the grants do.
LEMMA GrantedStays ==
  ASSUME AccessTypeOK, [AccessNext]_accessVars, grantChanges' = 0
  PROVE  grantChanges = 0 /\ grants' = grants /\ \A a \in Kind : Granted(a) => Granted(a)'
<1>1. grantChanges \in Nat /\ ~ \E i \in Installations : GrantsChange(i)
  BY RepoAccessAssumption DEF AccessTypeOK, GrantsChange
<1>2. UNCHANGED github /\ installed \subseteq installed'
  BY <1>1 DEF AccessNext, UpsertGitHubInstallation, EnsureUserCanTrackRepo, FindInList,
     InsertApp, RemoveApp, StartDeployment, TakeToken, CheckoutGitHubRepository, EndsBefore,
     Restart, accessVars, github, rowOfUser
<1> QED BY <1>2 DEF github, Granted

LEMMA KnownGrantedStep ==
  ASSUME AccessTypeOK, KnownGranted, [AccessNext]_accessVars
  PROVE  KnownGranted'
<1> SUFFICES ASSUME grantChanges' = 0
             PROVE  /\ \A a \in tracked' : Granted(a)'
                    /\ \A c \in Applicants :
                         applicant'[c].pc = "insert" => Granted(applicant[c].app)'
                    /\ \A d \in Runs :
                         checkout'[d].pc \in {"queued", "clone"} => Granted(checkout[d].app)'
  BY DEF KnownGranted
<1> DEFINE Rows == \A a \in tracked' : Granted(a)'
           Requests == \A c \in Applicants :
                         applicant'[c].pc = "insert" => Granted(applicant[c].app)'
           Clones == \A d \in Runs :
                       checkout'[d].pc \in {"queued", "clone"} => Granted(checkout[d].app)'
<1>0. /\ grantChanges = 0 /\ grants' = grants /\ \A a \in Kind : Granted(a) => Granted(a)'
      /\ tracked \subseteq Kind
      /\ DOMAIN applicant = Applicants /\ DOMAIN checkout = Runs
      /\ \A a \in tracked : Granted(a)
      /\ \A c \in Applicants : applicant[c].pc = "insert" =>
           applicant[c].app \in Kind /\ Granted(applicant[c].app)
      /\ \A d \in Runs : checkout[d].pc \in {"queued", "clone"} =>
           checkout[d].app \in Kind /\ Granted(checkout[d].app)
  BY GrantedStays, Carried DEF KnownGranted, AccessTypeOK
<1>1. tracked' \subseteq tracked => Rows
  BY <1>0
<1>2. UNCHANGED applicant => Requests
  BY <1>0 DEF Granted
<1>3. UNCHANGED checkout => Clones
  BY <1>0 DEF Granted
<1>4. ASSUME NEW c \in Applicants, NEW v, applicant' = [applicant EXCEPT ![c] = v],
             v.pc = "insert" => v.app \in Kind /\ Granted(v.app)
      PROVE  Requests
  <2> SUFFICES ASSUME NEW k \in Applicants, applicant'[k].pc = "insert"
               PROVE  Granted(applicant[k].app)'
    OBVIOUS
  <2>1. applicant'[k] = IF k = c THEN v ELSE applicant[k]
    BY <1>0, <1>4
  <2>2. applicant'[k].app \in Kind /\ Granted(applicant'[k].app)
    BY <1>0, <1>4, <2>1
  <2> QED BY <1>0, <2>2 DEF Granted
<1>5. ASSUME NEW d \in Runs, NEW v, checkout' = [checkout EXCEPT ![d] = v],
             v.pc \in {"queued", "clone"} => v.app \in Kind /\ Granted(v.app)
      PROVE  Clones
  <2> SUFFICES ASSUME NEW k \in Runs, checkout'[k].pc \in {"queued", "clone"}
               PROVE  Granted(checkout[k].app)'
    OBVIOUS
  <2>1. checkout'[k] = IF k = d THEN v ELSE checkout[k]
    BY <1>0, <1>5
  <2>2. checkout'[k].app \in Kind /\ Granted(checkout'[k].app)
    BY <1>0, <1>5, <2>1
  <2> QED BY <1>0, <2>2 DEF Granted
<1>6. ASSUME NEW c \in Applicants, EnsureUserCanTrackRepo(c)
      PROVE  Requests /\ UNCHANGED <<tracked, checkout>>
  <2>1. PICK r \in Repositories :
          \E v \in {[pc |-> "insert", app |-> [repo |-> r, checked |-> FALSE]],
                    [pc |-> "ask", app |-> [repo |-> r, checked |-> TRUE],
                     asked |-> installation]} :
            applicant' = [applicant EXCEPT ![c] = v]
    BY <1>6 DEF EnsureUserCanTrackRepo
  <2>2. PICK v \in {[pc |-> "insert", app |-> [repo |-> r, checked |-> FALSE]],
                    [pc |-> "ask", app |-> [repo |-> r, checked |-> TRUE],
                     asked |-> installation]} :
          applicant' = [applicant EXCEPT ![c] = v]
    BY <2>1
  <2>3. v.pc = "insert" => v.app \in Kind /\ Granted(v.app)
    <3>1. CASE v = [pc |-> "insert", app |-> [repo |-> r, checked |-> FALSE]]
      <4>1. v.app \in Kind /\ v.app.checked = FALSE
        BY <3>1 DEF Kind
      <4> QED BY <4>1 DEF Granted
    <3>2. CASE v.pc = "ask"
      BY <3>2
    <3> QED BY <3>1, <3>2
  <2> QED BY <1>4, <1>6, <2>2, <2>3 DEF EnsureUserCanTrackRepo
<1>7. ASSUME NEW c \in Applicants, FindInList(c)
      PROVE  Requests /\ UNCHANGED <<tracked, checkout>>
  <2>1. applicant[c].app \in Kind /\ applicant[c].asked \in installed
    BY <1>7, Carried DEF FindInList
  <2>2. PICK v \in {NoRequest, [pc |-> "insert", app |-> applicant[c].app]} :
          /\ applicant' = [applicant EXCEPT ![c] = v]
          /\ v # NoRequest => applicant[c].app.repo \in Listed(applicant[c].asked)
    BY <1>7 DEF FindInList
  <2>3. v.pc = "insert" => v.app \in Kind /\ Granted(v.app)
    <3>1. CASE v = NoRequest
      BY <3>1 DEF NoRequest
    <3>2. CASE v # NoRequest
      <4>1. v = [pc |-> "insert", app |-> applicant[c].app]
            /\ applicant[c].app.repo \in grants[applicant[c].asked]
        BY <2>2, <3>2 DEF Listed
      <4> QED BY <2>1, <4>1 DEF Granted
    <3> QED BY <3>1, <3>2
  <2>4. applicant' = [applicant EXCEPT ![c] = v]
    BY <2>2
  <2> QED BY <1>4, <1>7, <2>3, <2>4 DEF FindInList
<1>8. ASSUME NEW c \in Applicants, InsertApp(c)
      PROVE  Rows /\ Requests /\ UNCHANGED checkout
  <2>1. Rows
    BY <1>0, <1>8 DEF InsertApp
  <2>2. applicant' = [applicant EXCEPT ![c] = NoRequest] /\ UNCHANGED checkout
    BY <1>8 DEF InsertApp
  <2>3. Requests
    BY <1>4, <2>2 DEF NoRequest
  <2> QED BY <2>1, <2>2, <2>3
<1>9. ASSUME NEW d \in Runs, NEW a \in Kind, StartDeployment(d, a)
      PROVE  Clones /\ UNCHANGED <<tracked, applicant>>
  <2> DEFINE v == [pc |-> "queued", app |-> a]
  <2>1. checkout' = [checkout EXCEPT ![d] = v] /\ v.app = a /\ Granted(a)
    BY <1>0, <1>9 DEF StartDeployment
  <2> HIDE DEF v
  <2>2. Clones
    BY <1>5, <2>1
  <2> QED BY <1>9, <2>2 DEF StartDeployment
<1>10. ASSUME NEW d \in Runs, TakeToken(d) \/ CheckoutGitHubRepository(d) \/ EndsBefore(d)
       PROVE  Clones /\ UNCHANGED <<tracked, applicant>>
  <2>1. PICK v \in {[pc |-> "clone", app |-> checkout[d].app, token |-> installation],
                    NoRequest, [pc |-> "denied", app |-> checkout[d].app]} :
          /\ checkout' = [checkout EXCEPT ![d] = v]
          /\ v.pc = "clone" => checkout[d].pc = "queued" /\ v.app = checkout[d].app
    BY <1>10 DEF TakeToken, CheckoutGitHubRepository, EndsBefore, NoRequest
  <2>2. v.pc # "queued"
    BY DEF NoRequest
  <2>3. checkout' = [checkout EXCEPT ![d] = v]
    BY <2>1
  <2>4. v.pc \in {"queued", "clone"} => v.app \in Kind /\ Granted(v.app)
    BY <1>0, <2>1, <2>2
  <2>5. Clones
    BY <1>5, <2>3, <2>4
  <2> QED BY <1>10, <2>5 DEF TakeToken, CheckoutGitHubRepository, EndsBefore
<1>11. ASSUME Restart
       PROVE  Rows /\ Requests /\ Clones
  BY <1>0, <1>11 DEF Restart, NoRequest
<1> SUFFICES Rows /\ Requests /\ Clones
  OBVIOUS
<1> HIDE DEF Rows, Requests, Clones
<1> QED
  <2>1. CASE UNCHANGED <<tracked, applicant, checkout>>
    BY <1>1, <1>2, <1>3, <2>1
  <2>2. CASE \E a \in Kind : RemoveApp(a)
    BY <1>1, <1>2, <1>3, <2>2 DEF RemoveApp
  <2>3. CASE \E i \in Installations : UpsertGitHubInstallation(i) \/ GrantsChange(i)
    BY <2>1, <2>3 DEF UpsertGitHubInstallation, GrantsChange
  <2>4. CASE \E c \in Applicants : EnsureUserCanTrackRepo(c) \/ FindInList(c)
    BY <1>1, <1>3, <1>6, <1>7, <2>4
  <2>5. CASE \E c \in Applicants : InsertApp(c)
    BY <1>3, <1>8, <2>5
  <2>6. CASE \E d \in Runs : \/ \E a \in Kind : StartDeployment(d, a)
                             \/ TakeToken(d) \/ CheckoutGitHubRepository(d) \/ EndsBefore(d)
    BY <1>1, <1>2, <1>9, <1>10, <2>6
  <2> QED BY <1>11, <2>1, <2>2, <2>3, <2>4, <2>5, <2>6 DEF AccessNext, accessVars

LEMMA KnownAlways == AccessSpec => [](AccessTypeOK /\ KnownGranted)
<1>1. AccessInit => AccessTypeOK /\ KnownGranted
  BY InitAccessTypes DEF AccessInit, KnownGranted, NoRequest
<1>2. AccessTypeOK /\ KnownGranted /\ [AccessNext]_accessVars
        => (AccessTypeOK /\ KnownGranted)'
  BY AccessTypeStep, KnownGrantedStep
<1> QED BY <1>1, <1>2, PTL DEF AccessSpec

\* While the grants stay as they are, every application the check against
\* GitHub's list let through is for a granted repository, though the
\* installation may be replaced between the check and the insertion, and the
\* server restarted with or without credentials.
THEOREM GrantsComeFirst == AccessSpec => []AppsAreGranted
<1>1. KnownGranted => AppsAreGranted
  BY DEF KnownGranted, Granted, AppsAreGranted
<1> QED BY <1>1, KnownAlways, PTL

-----------------------------------------------------------------------------
(***************************************************************************)
(* Who is denied.                                                          *)
(***************************************************************************)
LEMMA DenialStep ==
  ASSUME AccessTypeOK, KnownGranted, OneInstallationSuffices, [AccessNext]_accessVars
  PROVE  OneInstallationSuffices'
<1> SUFFICES ASSUME grantChanges' = 0, \A i, k \in installed' : i = k,
                    NEW d \in Runs, checkout'[d].pc = "denied", checkout'[d].app.checked
             PROVE  FALSE
  BY DEF OneInstallationSuffices
<1>1. grantChanges = 0
  BY GrantedStays
<1>2. installed \subseteq installed'
  BY DEF AccessNext, UpsertGitHubInstallation, EnsureUserCanTrackRepo, FindInList, InsertApp,
     RemoveApp, StartDeployment, TakeToken, CheckoutGitHubRepository, EndsBefore, GrantsChange,
     Restart, accessVars, rowOfUser
<1>3. ~(checkout[d].pc = "denied" /\ checkout[d].app.checked)
  BY <1>1, <1>2 DEF OneInstallationSuffices
<1>4. DOMAIN checkout = Runs
  BY DEF AccessTypeOK
<1>5. CheckoutGitHubRepository(d)
  <2>1. checkout' # checkout
    BY <1>3
  <2>2. ~Restart
    BY DEF Restart, NoRequest
  <2>3. PICK k \in Runs : \/ \E a \in Kind : StartDeployment(k, a)
                          \/ TakeToken(k) \/ CheckoutGitHubRepository(k) \/ EndsBefore(k)
    BY <2>1, <2>2 DEF AccessNext, UpsertGitHubInstallation, EnsureUserCanTrackRepo, FindInList,
       InsertApp, RemoveApp, GrantsChange, accessVars
  <2>4. PICK v : checkout' = [checkout EXCEPT ![k] = v]
    BY <2>3 DEF StartDeployment, TakeToken, CheckoutGitHubRepository, EndsBefore
  <2>5. k = d
    BY <1>3, <1>4, <2>4
  <2>6. ~TakeToken(d) /\ ~EndsBefore(d) /\ ~ \E a \in Kind : StartDeployment(d, a)
    BY <1>4 DEF TakeToken, EndsBefore, StartDeployment, NoRequest
  <2> QED BY <2>3, <2>5, <2>6
<1>6. /\ checkout[d].pc = "clone" /\ checkout'[d].app = checkout[d].app
      /\ checkout[d].app.repo \notin grants[checkout[d].token]
  BY <1>4, <1>5 DEF CheckoutGitHubRepository, NoRequest
<1>7. checkout[d].token \in installed /\ Granted(checkout[d].app)
  BY <1>1, <1>6, Carried DEF KnownGranted
<1>8. PICK i \in installed : checkout[d].app.repo \in grants[i]
  BY <1>6, <1>7 DEF Granted
<1>9. i = checkout[d].token
  BY <1>2, <1>7, <1>8
<1> QED BY <1>6, <1>8, <1>9

\* With one installation and grants that stay as they are, GitHub denies no
\* repository of an application that was checked, though the check, the
\* insertion and each token are apart.
THEOREM OneInstallationIsEnough == AccessSpec => []OneInstallationSuffices
<1>1. AccessInit => OneInstallationSuffices
  BY DEF AccessInit, OneInstallationSuffices, NoRequest
<1>2. AccessTypeOK /\ KnownGranted /\ OneInstallationSuffices /\ [AccessNext]_accessVars
        => OneInstallationSuffices'
  BY DenialStep
<1> QED BY <1>1, <1>2, KnownAlways, PTL DEF AccessSpec
=============================================================================
