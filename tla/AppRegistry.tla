------------------------------ MODULE AppRegistry ------------------------------
(***************************************************************************)
(* What the table of applications promises together with the cloud.  No    *)
(* two applications are for one repository and branch, and none comes back *)
(* once it is gone.  A bucket stays in its account and region until it is  *)
(* removed; its application may outlive it, and may be given another.  An  *)
(* application goes only after its bucket, and a bucket is made only for   *)
(* an application that is there, unless the application went astray.       *)
(* Why applications go astray is for the implementation to say.            *)
(***************************************************************************)

CONSTANTS
  Apps,     \* ids of applications
  Sources,  \* repository and branch of an application
  Homes,    \* where a bucket can be
  None

VARIABLES
  source,   \* what each application is for, None where there is none
  given,    \* the ids that were ever given to one
  home,     \* where its bucket is, None where there is none
  astray    \* the applications whose bucket and row may part

vars == <<source, given, home, astray>>

Init ==
  /\ source = [a \in Apps |-> None]
  /\ given = {}
  /\ home = [a \in Apps |-> None]
  /\ astray = {}

\* A repository and branch no application is for.
Free == Sources \ {source[a] : a \in Apps}

\* An application is made, under an id that was never used.
Create(a) ==
  /\ a \notin given
  /\ source'[a] \in Free
  /\ source' = [source EXCEPT ![a] = source'[a]]
  /\ given' = given \cup {a}
  /\ UNCHANGED <<home, astray>>

\* An application that is there follows another branch.
Retarget(a) ==
  /\ source[a] # None
  /\ source'[a] \in Free
  /\ source' = [source EXCEPT ![a] = source'[a]]
  /\ UNCHANGED <<given, home, astray>>

\* Its bucket is made.
Settle(a) ==
  /\ source[a] # None \/ a \in astray
  /\ home[a] = None
  /\ home'[a] \in Homes
  /\ home' = [home EXCEPT ![a] = home'[a]]
  /\ UNCHANGED <<source, given, astray>>

\* Its bucket is removed.
Clear(a) ==
  /\ home[a] # None
  /\ home' = [home EXCEPT ![a] = None]
  /\ UNCHANGED <<source, given, astray>>

\* The application goes, for good.
Remove(a) ==
  /\ source[a] # None
  /\ home[a] = None \/ a \in astray
  /\ source' = [source EXCEPT ![a] = None]
  /\ UNCHANGED <<given, home, astray>>

\* Applications go astray, for good.
GoAstray ==
  /\ astray' \in SUBSET Apps
  /\ astray \subseteq astray'
  /\ UNCHANGED <<source, given, home>>

Next ==
  \/ \E a \in Apps : Create(a) \/ Retarget(a) \/ Settle(a) \/ Clear(a) \/ Remove(a)
  \/ GoAstray

Spec == Init /\ [][Next]_vars

(***************************************************************************)
(* Types; applications that are there have ids that were given and sources *)
(* of their own, and a bucket without its application is an astray one's.  *)
(***************************************************************************)
TypeOK ==
  /\ source \in [Apps -> {None} \cup Sources]
  /\ given \subseteq Apps
  /\ home \in [Apps -> {None} \cup Homes]
  /\ astray \subseteq Apps
  /\ \A a \in Apps : source[a] # None => a \in given
  /\ \A a, b \in Apps : source[a] # None /\ source[a] = source[b] => a = b
  /\ \A a \in Apps : source[a] = None /\ home[a] # None => a \in astray
=============================================================================
