-------------------------------- MODULE SignIn --------------------------------
(***************************************************************************)
(* Signing in with GitHub (services/oauth.go, handlers/oauth.go and the    *)
(* provisioning in handlers/auth.go): /v1/login puts a state and a         *)
(* verifier in two cookies of the browser and sends it to GitHub;          *)
(* /v1/callback checks them, exchanges GitHub's code for the profile,      *)
(* finds or creates the platform user of that GitHub account, and stores a *)
(* session for it.                                                         *)
(*                                                                         *)
(* Nothing serializes sign-ins: a browser has one pair of cookies however  *)
(* many tabs sign in, two browsers may sign in to one account at once, and *)
(* finding and creating a user are separate statements.  Database calls    *)
(* and calls to GitHub fail, the process crashes, cookies and tokens       *)
(* expire, and at GitHub an e-mail address may move to another account.    *)
(***************************************************************************)
EXTENDS Naturals

CONSTANTS
  Accounts,     \* accounts at GitHub
  Browsers,
  AccountOf,    \* the account each browser is signed in to at GitHub
  Emails,       \* e-mail addresses
  NoEmail,      \* where there is none
  MaxAttempts,  \* bound on sign-ins
  MaxMoves,     \* bound on changes of e-mail address
  MaxFaults     \* bound on failed calls and crashes together

Attempts == 1 .. MaxAttempts
None == 0

ASSUME SignInAssumption ==
  /\ AccountOf \in [Browsers -> Accounts] /\ None \notin Accounts
  /\ NoEmail \notin Emails
  /\ MaxAttempts \in Nat
  /\ MaxMoves \in Nat
  /\ MaxFaults \in Nat

VARIABLES
  email,     \* the address each account has at GitHub
  started,   \* sign-ins so far; they are numbered in the order they began
  browser,   \* the browser of each sign-in
  cookie,    \* the sign-in the cookies of each browser belong to, or None
  pc,        \* where each sign-in is, and then what its session is: a row of
             \* auth_sessions is stored for it, or its token expired
  profile,   \* the address in the profile a sign-in was given
  user,      \* the platform user a sign-in found or created
  users,     \* table platform_users: the address of the user each sign-in created
  identity,  \* table auth_identities: the user of each account, or None
  lapsed,    \* sign-ins whose cookies were dropped after five minutes
  moves,     \* changes of address so far
  faults     \* failed calls and crashes so far

vars == <<email, started, browser, cookie, pc, profile, user, users, identity,
          lapsed, moves, faults>>

\* A user is named by the sign-in that created it.
Exists(u) == users[u] # NoEmail
Account(t) == AccountOf[browser[t]]

HasSession == {"signed in", "signed out", "expired"}
InHandler == {"exchange", "lookup", "refresh", "create", "link", "session"}

\* GitHub gives an address, like a login name, to one account at a time.
Addresses == {f \in [Accounts -> Emails] :
                \A a, b \in Accounts : f[a] = f[b] => a = b}

Init ==
  /\ email \in Addresses
  /\ started = 0
  /\ browser \in [Attempts -> Browsers]
  /\ cookie = [b \in Browsers |-> None]
  /\ pc = [t \in Attempts |-> "idle"]
  /\ profile = [t \in Attempts |-> NoEmail]
  /\ user = [t \in Attempts |-> None]
  /\ users = [t \in Attempts |-> NoEmail]
  /\ identity = [a \in Accounts |-> None]
  /\ lapsed = {}
  /\ moves = 0
  /\ faults = 0

Fault == faults < MaxFaults /\ faults' = faults + 1

Go(t, where) == pc' = [pc EXCEPT ![t] = where]

(***************************************************************************)
(* Every answer of a handler that got past the checks clears the cookies   *)
(* the browser has by then, whoever set them.                              *)
(***************************************************************************)
Answer(t, what) ==
  /\ Go(t, what)
  /\ cookie' = [cookie EXCEPT ![browser[t]] = None]

\* GET /v1/login: the cookies of an earlier sign-in are overwritten.
Login(t) ==
  /\ t = started + 1
  /\ started' = t
  /\ cookie' = [cookie EXCEPT ![browser[t]] = t]
  /\ Go(t, "github")
  /\ UNCHANGED <<email, browser, profile, user, users, identity, lapsed, moves, faults>>

\* The user declines at GitHub, which sends no code: the cookies are kept.
Decline(t) ==
  /\ pc[t] = "github"
  /\ Go(t, "declined")
  /\ UNCHANGED <<email, started, browser, cookie, profile, user, users, identity,
                 lapsed, moves, faults>>

\* Mutant: a refused callback clears the cookies as well.
RefusalClearsCookies(t) ==
  /\ pc[t] \in {"github", "lost"}
  /\ IF cookie[browser[t]] = t THEN Go(t, "exchange") /\ UNCHANGED cookie
                               ELSE Answer(t, "retry")
  /\ UNCHANGED <<email, started, browser, profile, user, users, identity,
                 lapsed, moves, faults>>

(***************************************************************************)
(* GET /v1/callback, for the first time or again after a crash: with the   *)
(* cookies of this sign-in the handler goes on; without them, or with      *)
(* those of another, the browser is sent back to /login and the cookies    *)
(* are kept.                                                               *)
(***************************************************************************)
CallbackWithToken(t) ==
  /\ pc[t] \in {"github", "lost"}
  /\ Go(t, IF cookie[browser[t]] = t THEN "exchange" ELSE "retry")
  /\ UNCHANGED <<email, started, browser, cookie, profile, user, users, identity,
                 lapsed, moves, faults>>

\* GitHub takes a code once, and gives the profile of the account for it.
Exchange(t) ==
  /\ pc[t] = "exchange"
  /\ IF profile[t] = NoEmail
     THEN /\ profile' = [profile EXCEPT ![t] = email[Account(t)]]
          /\ Go(t, "lookup")
          /\ UNCHANGED cookie
     ELSE Answer(t, "error") /\ UNCHANGED profile
  /\ UNCHANGED <<email, started, browser, user, users, identity, lapsed, moves, faults>>

\* The account's user, or the decision to create one.
GetPlatformUserByIdentity(t) ==
  /\ pc[t] = "lookup"
  /\ LET u == identity[Account(t)] IN
       /\ user' = [user EXCEPT ![t] = u]
       /\ Go(t, IF u = None THEN "create" ELSE "refresh")
  /\ UNCHANGED <<email, started, browser, cookie, profile, users, identity,
                 lapsed, moves, faults>>

(***************************************************************************)
(* The identity row is written with the user that was found; an error of   *)
(* this call is ignored.                                                   *)
(***************************************************************************)
RefreshIdentity(t) ==
  /\ pc[t] = "refresh"
  /\ Go(t, "session")
  /\ \/ identity' = [identity EXCEPT ![Account(t)] = user[t]] /\ UNCHANGED faults
     \/ Fault /\ UNCHANGED identity
  /\ UNCHANGED <<email, started, browser, cookie, profile, user, users,
                 lapsed, moves>>

\* Mutant: the insert returns the user that already has the address.
TakeUserOfAddress(t) ==
  /\ pc[t] = "create"
  /\ LET had == {u \in Attempts : users[u] = profile[t]}
         u == IF had = {} THEN t ELSE CHOOSE v \in had : TRUE
     IN /\ users' = [users EXCEPT ![u] = profile[t]]
        /\ user' = [user EXCEPT ![t] = u]
  /\ Go(t, "link")
  /\ UNCHANGED <<email, started, browser, cookie, profile, identity, lapsed, moves, faults>>

\* Mutant: platform_users has no unique address.
CreateDuplicate(t) ==
  /\ pc[t] = "create"
  /\ users' = [users EXCEPT ![t] = profile[t]]
  /\ user' = [user EXCEPT ![t] = t]
  /\ Go(t, "link")
  /\ UNCHANGED <<email, started, browser, cookie, profile, identity, lapsed, moves, faults>>

\* Mutant: the identity of a new user is not stored.
CreateWithoutIdentity(t) ==
  /\ pc[t] = "create"
  /\ \A u \in Attempts : users[u] # profile[t]
  /\ users' = [users EXCEPT ![t] = profile[t]]
  /\ user' = [user EXCEPT ![t] = t]
  /\ Go(t, "session")
  /\ UNCHANGED <<email, started, browser, cookie, profile, identity, lapsed, moves, faults>>

\* The address is unique in platform_users: with a user of that address the
\* insert, and with it the sign-in, fails.
CreatePlatformUser(t) ==
  /\ pc[t] = "create"
  /\ IF \E u \in Attempts : users[u] = profile[t]
     THEN Answer(t, "error") /\ UNCHANGED <<user, users>>
     ELSE /\ users' = [users EXCEPT ![t] = profile[t]]
          /\ user' = [user EXCEPT ![t] = t]
          /\ Go(t, "link")
          /\ UNCHANGED cookie
  /\ UNCHANGED <<email, started, browser, profile, identity, lapsed, moves, faults>>

\* The identity row of the new user; a row another sign-in has stored
\* meanwhile is pointed at this user instead.
UpsertAuthIdentity(t) ==
  /\ pc[t] = "link"
  /\ identity' = [identity EXCEPT ![Account(t)] = user[t]]
  /\ Go(t, "session")
  /\ UNCHANGED <<email, started, browser, cookie, profile, user, users,
                 lapsed, moves, faults>>

\* The session is stored and the token that names it goes to the browser.
CreateAuthSession(t) ==
  /\ pc[t] = "session"
  /\ Answer(t, "signed in")
  /\ UNCHANGED <<email, started, browser, profile, user, users, identity,
                 lapsed, moves, faults>>

\* Mutant: an error of the second insert is ignored like one of RefreshIdentity.
LinkErrorIgnored(t) ==
  /\ pc[t] \in InHandler \ {"refresh"}
  /\ Fault
  /\ IF pc[t] = "link" THEN Go(t, "session") /\ UNCHANGED cookie ELSE Answer(t, "error")
  /\ UNCHANGED <<email, started, browser, profile, user, users, identity,
                 lapsed, moves>>

\* A call of the handler fails (but see RefreshIdentity): it answers an
\* error, and what it has stored so far stays.
CallFails(t) ==
  /\ pc[t] \in InHandler \ {"refresh"}
  /\ Fault
  /\ Answer(t, "error")
  /\ UNCHANGED <<email, started, browser, profile, user, users, identity,
                 lapsed, moves>>

\* The process crashes: no handler goes on, and no answer clears a cookie.
Crash ==
  /\ \E t \in Attempts : pc[t] \in InHandler
  /\ Fault
  /\ pc' = [t \in Attempts |-> IF pc[t] \in InHandler THEN "lost" ELSE pc[t]]
  /\ UNCHANGED <<email, started, browser, cookie, profile, user, users, identity,
                 lapsed, moves>>

\* A token opens the API until it expires, whatever became of its session.
ValidateToken(t) == pc[t] \in {"signed in", "signed out"}

\* Mutant: logging out asks for no token.
LogoutOfAny(t) ==
  /\ Go(t, "signed out")
  /\ UNCHANGED <<email, started, browser, cookie, profile, user, users,
                 identity, lapsed, moves, faults>>

\* POST /v1/auth/logout marks the session revoked, once.
PostLogout(t) ==
  /\ ValidateToken(t)
  /\ Go(t, "signed out")
  /\ UNCHANGED <<email, started, browser, cookie, profile, user, users,
                 identity, lapsed, moves, faults>>

\* A browser drops the cookies of a sign-in after five minutes.
CookiesLapse(b) ==
  /\ cookie[b] # None
  /\ lapsed' = lapsed \cup {cookie[b]}
  /\ cookie' = [cookie EXCEPT ![b] = None]
  /\ UNCHANGED <<email, started, browser, pc, profile, user, users, identity,
                 moves, faults>>

TokenExpires(t) ==
  /\ ValidateToken(t)
  /\ Go(t, "expired")
  /\ UNCHANGED <<email, started, browser, cookie, profile, user, users,
                 identity, lapsed, moves, faults>>

\* At GitHub accounts give up addresses and take others.
MoveEmails ==
  /\ moves < MaxMoves
  /\ moves' = moves + 1
  /\ email' \in Addresses
  /\ UNCHANGED <<started, browser, cookie, pc, profile, user, users, identity,
                 lapsed, faults>>

Next ==
  \/ \E t \in Attempts :
       \/ Login(t) \/ Decline(t) \/ CallbackWithToken(t) \/ Exchange(t)
       \/ GetPlatformUserByIdentity(t) \/ RefreshIdentity(t)
       \/ CreatePlatformUser(t) \/ UpsertAuthIdentity(t) \/ CreateAuthSession(t)
       \/ CallFails(t) \/ PostLogout(t) \/ TokenExpires(t)
  \/ \E b \in Browsers : CookiesLapse(b)
  \/ Crash
  \/ MoveEmails

Spec == Init /\ [][Next]_vars

-----------------------------------------------------------------------------
Sessions == {t \in Attempts : pc[t] \in HasSession}
States == {"idle", "github", "declined", "retry", "error", "lost"}
          \cup InHandler \cup HasSession

\* The variables hold what the tables and the browsers can hold.
TypeOK ==
  /\ email \in Addresses
  /\ started \in 0 .. MaxAttempts
  /\ browser \in [Attempts -> Browsers]
  /\ cookie \in [Browsers -> 0 .. started]
  /\ \A b \in Browsers : cookie[b] # None => browser[cookie[b]] = b
  /\ pc \in [Attempts -> States]
  /\ \A t \in Attempts : pc[t] # "idle" <=> t <= started
  /\ profile \in [Attempts -> Emails \cup {NoEmail}]
  /\ user \in [Attempts -> {None} \cup Attempts]
  /\ users \in [Attempts -> Emails \cup {NoEmail}]
  /\ identity \in [Accounts -> {None} \cup Attempts]
  /\ lapsed \subseteq Attempts
  /\ moves \in 0 .. MaxMoves
  /\ faults \in 0 .. MaxFaults

(***************************************************************************)
(* However sign-ins overlap, fail and are repeated, a session is for a     *)
(* user that was created for the same GitHub account, never for the user   *)
(* of another account that had the address before, and so is every         *)
(* identity row.                                                           *)
(***************************************************************************)
SessionsNeverCross ==
  /\ \A t \in Sessions : Exists(user[t]) /\ Account(user[t]) = Account(t)
  /\ \A a \in Accounts :
       identity[a] # None => Exists(identity[a]) /\ Account(identity[a]) = a

(***************************************************************************)
(* Two overlapping first sign-ins of an account both find no user, but     *)
(* only one of them creates one, as long as the account keeps its address. *)
(***************************************************************************)
OneUserPerAccount ==
  moves = 0 => \A s, t \in Attempts :
                 Exists(s) /\ Exists(t) /\ Account(s) = Account(t) => s = t

\* And then every token names the user its account's identity row names.
TokenNamesIdentity ==
  moves = 0 => \A t \in Sessions : user[t] = identity[Account(t)]

(***************************************************************************)
(* An account with no identity row whose address a user already has cannot *)
(* sign in again.  It takes a failure between the two inserts, or a change *)
(* of address, to get there.                                               *)
(***************************************************************************)
LockoutHasACause ==
  \A a \in Accounts :
    identity[a] = None /\ (\E u \in Attempts : users[u] = email[a])
      => \/ faults > 0
         \/ moves > 0
         \/ \E t \in Attempts : pc[t] = "link" /\ Account(t) = a

(***************************************************************************)
(* A sign-in is sent back to /login only if its cookies lapsed, the        *)
(* browser began another sign-in later, or an earlier one of the browser   *)
(* got past the checks: what a refused callback answers disturbs nobody.   *)
(***************************************************************************)
RetryHasACause ==
  \A t \in Attempts : pc[t] = "retry" =>
    \/ t \in lapsed
    \/ \E s \in Attempts : /\ s # t
                           /\ browser[s] = browser[t]
                           /\ IF s > t THEN s <= started
                                       ELSE pc[s] \in HasSession \cup {"error"}

(***************************************************************************)
(* The tables of users, identities and sessions keep the promise of        *)
(* AccountBook.  An open session is one whose token is valid and that was  *)
(* not logged out.                                                         *)
(***************************************************************************)
SessionState(t) ==
  CASE pc[t] = "signed in" -> "open"
    [] pc[t] = "signed out" -> "revoked"
    [] pc[t] = "expired" -> "expired"
    [] OTHER -> "none"

Book == INSTANCE AccountBook WITH
          Users <- Attempts,
          Sessions <- Attempts,
          whose <- [t \in Attempts |-> Account(t)],
          owner <- [u \in Attempts |-> IF Exists(u) THEN Account(u) ELSE None],
          named <- identity,
          session <- [t \in Attempts |-> SessionState(t)],
          holder <- [t \in Attempts |-> IF pc[t] \in HasSession THEN user[t] ELSE None]

ImplementsAccountBook == Book!Spec

=============================================================================
