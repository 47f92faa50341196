------------------------------ MODULE AccountBook ------------------------------
(***************************************************************************)
(* What sign-in promises to everything behind it: who is whose user, and   *)
(* whom a session speaks for.                                              *)
(*                                                                         *)
(* A platform user belongs to one account at GitHub and never to another,  *)
(* and is never taken away.  An account's identity row names one of its    *)
(* own users, and once it names one it always does.  A session is opened   *)
(* once, for a user of the account that signed in; it keeps that user,     *)
(* can be revoked, and expires for good.  How sign-ins overlap, fail and   *)
(* are repeated does not show here.                                        *)
(***************************************************************************)

CONSTANTS
  Accounts,  \* accounts at GitHub
  Users,     \* platform users there may ever be
  Sessions,  \* sessions there may ever be, one for each sign-in
  None

VARIABLES
  whose,     \* the account each session is asked for
  owner,     \* the account each user was made for, or None
  named,     \* the user each account's identity row names, or None
  session,   \* what became of each session
  holder     \* the user each session is for, None before it is opened

vars == <<whose, owner, named, session, holder>>

States == {"none", "open", "revoked", "expired"}

Init ==
  /\ whose \in [Sessions -> Accounts]
  /\ owner = [u \in Users |-> None]
  /\ named = [a \in Accounts |-> None]
  /\ session = [s \in Sessions |-> "none"]
  /\ holder = [s \in Sessions |-> None]

\* A user is created for account a.
Register(a, u) ==
  /\ owner[u] = None
  /\ owner' = [owner EXCEPT ![u] = a]
  /\ UNCHANGED <<whose, named, session, holder>>

\* The identity row of the account u was made for is written and names u.
Name(u) ==
  /\ owner[u] # None
  /\ named' = [named EXCEPT ![owner[u]] = u]
  /\ UNCHANGED <<whose, owner, session, holder>>

\* A session is opened for some user of the account it was asked for.
Open(s) ==
  /\ session[s] = "none"
  /\ session' = [session EXCEPT ![s] = "open"]
  /\ \E u \in Users : owner[u] = whose[s] /\ holder' = [holder EXCEPT ![s] = u]
  /\ UNCHANGED <<whose, owner, named>>

Revoke(s) ==
  /\ session[s] = "open"
  /\ session' = [session EXCEPT ![s] = "revoked"]
  /\ UNCHANGED <<whose, owner, named, holder>>

Expire(s) ==
  /\ session[s] \in {"open", "revoked"}
  /\ session' = [session EXCEPT ![s] = "expired"]
  /\ UNCHANGED <<whose, owner, named, holder>>

Next ==
  \/ \E u \in Users : (\E a \in Accounts : Register(a, u)) \/ Name(u)
  \/ \E s \in Sessions : Open(s) \/ Revoke(s) \/ Expire(s)

Spec == Init /\ [][Next]_vars

\* Types; and no session or identity row is for another account's user.
TypeOK ==
  /\ whose \in [Sessions -> Accounts]
  /\ owner \in [Users -> {None} \cup Accounts]
  /\ named \in [Accounts -> {None} \cup Users]
  /\ session \in [Sessions -> States]
  /\ holder \in [Sessions -> {None} \cup Users]
  /\ \A a \in Accounts : named[a] # None => owner[named[a]] = a
  /\ \A s \in Sessions : session[s] # "none" => owner[holder[s]] = whose[s]
=============================================================================
