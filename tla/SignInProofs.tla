----------------------------- MODULE SignInProofs -----------------------------
(***************************************************************************)
(* Proofs about SignIn for any number of accounts, browsers, sign-ins,     *)
(* changes of address and faults: types, and the five invariants about     *)
(* users, identities, sessions and cookies.                                *)
(*                                                                         *)
(* The invariants hold together because of what a sign-in holds on its way *)
(* through the callback (HandlerOK), because users and identity rows never *)
(* name another account (UsersMatch), because without changes of address   *)
(* an address stands for an account (AddressKept), because a new user is   *)
(* linked at once unless a call fails (Linked), and because the cookies of *)
(* a sign-in only go for one of three reasons (CookieOK).                  *)
(***************************************************************************)
EXTENDS SignIn, TLAPS

\* What a sign-in that is this far has.
HandlerOK ==
  \A t \in Attempts :
    /\ pc[t] \in {"lookup", "refresh", "create", "link", "session"} => profile[t] # NoEmail
    /\ pc[t] \in {"refresh", "link", "session"} \cup HasSession => user[t] # None
    /\ pc[t] \in {"refresh", "session"} \cup HasSession => identity[Account(t)] # None

\* Users and identity rows stay with the account they were made for.
UsersMatch ==
  /\ \A t \in Attempts : user[t] # None => Exists(user[t]) /\ Account(user[t]) = Account(t)
  /\ \A a \in Accounts : identity[a] # None => Exists(identity[a]) /\ Account(identity[a]) = a

\* Without changes of address profiles and users show the address of their account.
AddressKept ==
  moves = 0 => \A t \in Attempts : /\ profile[t] \in {NoEmail, email[Account(t)]}
                                   /\ users[t] \in {NoEmail, email[Account(t)]}

\* Without faults a new user is about to be linked to its account, or is linked.
Linked ==
  faults = 0 => \A u \in Attempts : Exists(u) => identity[Account(u)] # None \/ pc[u] = "link"

Gone(t) ==
  \/ t \in lapsed
  \/ \E s \in Attempts : /\ s # t /\ browser[s] = browser[t]
                         /\ IF s > t THEN s <= started ELSE pc[s] \in HasSession \cup {"error"}

\* The browser has the cookies of a sign-in under way, unless it lost them for a reason.
CookieOK ==
  \A t \in Attempts :
    /\ pc[t] \in {"github", "lost"} \cup InHandler => cookie[browser[t]] = t \/ Gone(t)
    /\ pc[t] = "retry" => Gone(t)

IInv ==
  /\ TypeOK
  /\ HandlerOK
  /\ UsersMatch
  /\ AddressKept
  /\ OneUserPerAccount
  /\ Linked
  /\ CookieOK

-----------------------------------------------------------------------------
LEMMA AccountTypes ==
  ASSUME TypeOK, NEW t \in Attempts PROVE browser[t] \in Browsers /\ Account(t) \in Accounts
BY SignInAssumption DEF TypeOK, Account

LEMMA AccountStays ==
  ASSUME browser' = browser, NEW t \in Attempts PROVE Account(t)' = Account(t)
BY DEF Account

LEMMA FaultTypes == ASSUME TypeOK, Fault PROVE faults' \in 0 .. MaxFaults /\ faults' # 0
BY SignInAssumption DEF Fault, TypeOK

\* What of TypeOK is about sign-ins under way and cookies.
LEMMA GoTypes ==
  ASSUME TypeOK, NEW t \in Attempts, NEW what \in States \ {"idle"}, pc[t] # "idle",
         Go(t, what), started' = started
  PROVE  pc' \in [Attempts -> States] /\ \A s \in Attempts : pc'[s] # "idle" <=> s <= started'
BY DEF TypeOK, Go

LEMMA CookieTypes ==
  ASSUME TypeOK, NEW b \in Browsers, cookie' = [cookie EXCEPT ![b] = None],
         browser' = browser, started' = started
  PROVE  /\ cookie' \in [Browsers -> 0 .. started']
         /\ \A c \in Browsers : cookie'[c] # None => browser'[cookie'[c]] = c
BY SignInAssumption DEF TypeOK, None

LEMMA InitIInv == Init => IInv
<1> SUFFICES ASSUME Init PROVE IInv
  OBVIOUS
<1>1. TypeOK
  BY SignInAssumption DEF Init, TypeOK, Attempts, None, States
<1>2. HandlerOK /\ UsersMatch /\ AddressKept
  BY SignInAssumption DEF Init, HandlerOK, UsersMatch, AddressKept, HasSession, None
<1>3. OneUserPerAccount /\ Linked
  BY DEF Init, OneUserPerAccount, Linked, Exists
<1>4. CookieOK
  BY DEF Init, CookieOK, InHandler
<1> QED
  BY <1>1, <1>2, <1>3, <1>4 DEF IInv

-----------------------------------------------------------------------------
(***************************************************************************)
(* The types.                                                              *)
(***************************************************************************)
LEMMA TypeStep ==
  ASSUME TypeOK, [Next]_vars PROVE TypeOK'
<1>1. ASSUME NEW t \in Attempts, Login(t) PROVE TypeOK'
  <2>1. started' \in 0 .. MaxAttempts /\ started' = started + 1 /\ started' = t
    BY <1>1, SignInAssumption DEF Login, TypeOK, Attempts
  <2>2. pc' \in [Attempts -> States] /\ \A s \in Attempts : pc'[s] # "idle" <=> s <= started'
    BY <1>1, <2>1 DEF Login, Go, TypeOK, Attempts, States
  <2>3. /\ cookie' \in [Browsers -> 0 .. started']
        /\ \A c \in Browsers : cookie'[c] # None => browser'[cookie'[c]] = c
    BY <1>1, <2>1, AccountTypes DEF Login, TypeOK
  <2> QED
    BY <1>1, <2>1, <2>2, <2>3 DEF Login, TypeOK
<1>2. ASSUME NEW t \in Attempts, Decline(t) PROVE TypeOK'
  BY <1>2, AccountTypes DEF Decline, Go, TypeOK, Attempts, None, States, HasSession, InHandler
<1>3. ASSUME NEW t \in Attempts, CallbackWithToken(t) PROVE TypeOK'
  BY <1>3, AccountTypes
     DEF CallbackWithToken, Go, TypeOK, Attempts, None, States, HasSession, InHandler
<1>4. ASSUME NEW t \in Attempts, Exchange(t) PROVE TypeOK'
  <2>1. pc' \in [Attempts -> States] /\ \A s \in Attempts : pc'[s] # "idle" <=> s <= started'
    BY <1>4, GoTypes DEF Exchange, Answer, States, HasSession, InHandler
  <2>2. /\ cookie' \in [Browsers -> 0 .. started']
        /\ \A c \in Browsers : cookie'[c] # None => browser'[cookie'[c]] = c
    BY <1>4, AccountTypes, CookieTypes DEF Exchange, Answer, TypeOK
  <2> QED
    BY <1>4, <2>1, <2>2, AccountTypes DEF Exchange, TypeOK, Addresses
<1>5. ASSUME NEW t \in Attempts, GetPlatformUserByIdentity(t) PROVE TypeOK'
  BY <1>5, AccountTypes
     DEF GetPlatformUserByIdentity, Go, TypeOK, Attempts, None, States, HasSession, InHandler
<1>6. ASSUME NEW t \in Attempts, RefreshIdentity(t) PROVE TypeOK'
  BY <1>6, AccountTypes, FaultTypes
     DEF RefreshIdentity, Go, TypeOK, Attempts, None, States, HasSession, InHandler
<1>7. ASSUME NEW t \in Attempts, CreatePlatformUser(t) PROVE TypeOK'
  <2>1. pc' \in [Attempts -> States] /\ \A s \in Attempts : pc'[s] # "idle" <=> s <= started'
    BY <1>7, GoTypes DEF CreatePlatformUser, Answer, States, HasSession, InHandler
  <2>2. /\ cookie' \in [Browsers -> 0 .. started']
        /\ \A c \in Browsers : cookie'[c] # None => browser'[cookie'[c]] = c
    BY <1>7, AccountTypes, CookieTypes DEF CreatePlatformUser, Answer, TypeOK
  <2> QED
    BY <1>7, <2>1, <2>2, AccountTypes DEF CreatePlatformUser, TypeOK
<1>8. ASSUME NEW t \in Attempts, UpsertAuthIdentity(t) PROVE TypeOK'
  BY <1>8, AccountTypes
     DEF UpsertAuthIdentity, Go, TypeOK, Attempts, None, States, HasSession, InHandler
<1>9. ASSUME NEW t \in Attempts, CreateAuthSession(t) PROVE TypeOK'
  <2>1. pc' \in [Attempts -> States] /\ \A s \in Attempts : pc'[s] # "idle" <=> s <= started'
    BY <1>9, GoTypes DEF CreateAuthSession, Answer, States, HasSession, InHandler
  <2>2. /\ cookie' \in [Browsers -> 0 .. started']
        /\ \A c \in Browsers : cookie'[c] # None => browser'[cookie'[c]] = c
    BY <1>9, AccountTypes, CookieTypes DEF CreateAuthSession, Answer, TypeOK
  <2> QED
    BY <1>9, <2>1, <2>2, AccountTypes DEF CreateAuthSession, TypeOK
<1>10. ASSUME NEW t \in Attempts, CallFails(t) PROVE TypeOK'
  <2>1. pc' \in [Attempts -> States] /\ \A s \in Attempts : pc'[s] # "idle" <=> s <= started'
    BY <1>10, GoTypes DEF CallFails, Answer, States, HasSession, InHandler
  <2>2. /\ cookie' \in [Browsers -> 0 .. started']
        /\ \A c \in Browsers : cookie'[c] # None => browser'[cookie'[c]] = c
    BY <1>10, AccountTypes, CookieTypes DEF CallFails, Answer, TypeOK
  <2> QED
    BY <1>10, <2>1, <2>2, AccountTypes, FaultTypes DEF CallFails, TypeOK
<1>11. ASSUME NEW t \in Attempts, PostLogout(t) PROVE TypeOK'
  BY <1>11, AccountTypes
     DEF PostLogout, Go, ValidateToken, TypeOK, Attempts, None, States, HasSession, InHandler
<1>12. ASSUME NEW t \in Attempts, TokenExpires(t) PROVE TypeOK'
  BY <1>12, AccountTypes
     DEF TokenExpires, Go, ValidateToken, TypeOK, Attempts, None, States, HasSession, InHandler
<1>13. ASSUME NEW b \in Browsers, CookiesLapse(b) PROVE TypeOK'
  <2>1. cookie[b] \in Attempts
    BY <1>13, SignInAssumption DEF CookiesLapse, TypeOK, Attempts, None
  <2> QED
    BY <1>13, <2>1, CookieTypes DEF CookiesLapse, TypeOK
<1>14. ASSUME Crash PROVE TypeOK'
  BY <1>14, AccountTypes, FaultTypes
     DEF Crash, InHandler, TypeOK, Attempts, None, States, HasSession
<1>15. ASSUME MoveEmails PROVE TypeOK'
  <2>1. moves' \in 0 .. MaxMoves
    BY <1>15, SignInAssumption DEF MoveEmails, TypeOK
  <2> QED
    BY <1>15, <2>1 DEF MoveEmails, TypeOK
<1>16. ASSUME UNCHANGED vars PROVE TypeOK'
  BY <1>16 DEF vars, TypeOK
<1> QED
  BY <1>1, <1>2, <1>3, <1>4, <1>5, <1>6, <1>7, <1>8,
     <1>9, <1>10, <1>11, <1>12, <1>13, <1>14, <1>15, <1>16 DEF Next

-----------------------------------------------------------------------------
(***************************************************************************)
(* What sign-ins hold, and whose users are.                                *)
(***************************************************************************)
LEMMA HandlerStep ==
  ASSUME TypeOK, HandlerOK, [Next]_vars PROVE HandlerOK'
<1>1. ASSUME NEW t \in Attempts, Login(t) PROVE HandlerOK'
  BY <1>1, AccountTypes, AccountStays DEF Login, Go, TypeOK, HandlerOK, HasSession, None
<1>2. ASSUME NEW t \in Attempts, Decline(t) PROVE HandlerOK'
  BY <1>2, AccountTypes, AccountStays DEF Decline, Go, TypeOK, HandlerOK, HasSession, None
<1>3. ASSUME NEW t \in Attempts, CallbackWithToken(t) PROVE HandlerOK'
  BY <1>3, AccountTypes, AccountStays
     DEF CallbackWithToken, Go, TypeOK, HandlerOK, HasSession, None
<1>4. ASSUME NEW t \in Attempts, Exchange(t) PROVE HandlerOK'
  <2>1. /\ \A s \in Attempts : profile[s] # NoEmail => profile'[s] # NoEmail
        /\ pc' = [pc EXCEPT ![t] = "lookup"] => profile'[t] # NoEmail
        /\ pc' \in {[pc EXCEPT ![t] = "lookup"], [pc EXCEPT ![t] = "error"]}
    BY <1>4, AccountTypes, SignInAssumption DEF Exchange, Answer, Go, TypeOK, Addresses
  <2> QED
    BY <1>4, <2>1, AccountStays DEF Exchange, TypeOK, HandlerOK, HasSession
<1>5. ASSUME NEW t \in Attempts, GetPlatformUserByIdentity(t) PROVE HandlerOK'
  BY <1>5, AccountTypes, AccountStays
     DEF GetPlatformUserByIdentity, Go, TypeOK, HandlerOK, HasSession, None
<1>6. ASSUME NEW t \in Attempts, RefreshIdentity(t) PROVE HandlerOK'
  <2>1. user[t] # None /\ identity[Account(t)] # None
    BY <1>6 DEF RefreshIdentity, HandlerOK
  <2>2. \A a \in Accounts : identity[a] # None => identity'[a] # None
    BY <1>6, <2>1, AccountTypes DEF RefreshIdentity, TypeOK
  <2> QED
    BY <1>6, <2>1, <2>2, AccountTypes, AccountStays
       DEF RefreshIdentity, Go, TypeOK, HandlerOK, HasSession
<1>7. ASSUME NEW t \in Attempts, CreatePlatformUser(t) PROVE HandlerOK'
  <2>1. /\ pc' \in {[pc EXCEPT ![t] = "error"], [pc EXCEPT ![t] = "link"]}
        /\ pc' = [pc EXCEPT ![t] = "link"] => user' = [user EXCEPT ![t] = t]
        /\ pc' = [pc EXCEPT ![t] = "error"] => user' = user
        /\ UNCHANGED <<browser, profile, identity>> /\ pc[t] = "create"
    BY <1>7 DEF CreatePlatformUser, Answer, Go, TypeOK
  <2> QED
    <3>1. CASE pc' = [pc EXCEPT ![t] = "error"]
      BY <2>1, <3>1, AccountStays DEF TypeOK, HandlerOK, HasSession
    <3>2. CASE pc' = [pc EXCEPT ![t] = "link"]
      <4> user' = [user EXCEPT ![t] = t]
        BY <2>1, <3>2
      <4>1. ASSUME NEW s \in Attempts, s # t
            PROVE  pc'[s] = pc[s] /\ user'[s] = user[s] /\ Account(s)' = Account(s)
        <5>1. pc'[s] = pc[s] /\ user'[s] = user[s]
          BY <3>2, <4>1 DEF TypeOK
        <5>2. Account(s)' = Account(s)
          BY <2>1, AccountStays
        <5> QED
          BY <5>1, <5>2
      <4>2. pc'[t] = "link" /\ user'[t] # None /\ profile'[t] # NoEmail
        BY <2>1, <3>2 DEF TypeOK, HandlerOK, Attempts, None
      <4> QED
        BY <2>1, <4>1, <4>2 DEF HandlerOK, HasSession
    <3> QED
      BY <2>1, <3>1, <3>2
<1>8. ASSUME NEW t \in Attempts, UpsertAuthIdentity(t) PROVE HandlerOK'
  BY <1>8, AccountTypes, AccountStays
     DEF UpsertAuthIdentity, Go, TypeOK, HandlerOK, HasSession, None
<1>9. ASSUME NEW t \in Attempts, CreateAuthSession(t) PROVE HandlerOK'
  BY <1>9, AccountTypes, AccountStays
     DEF CreateAuthSession, Answer, Go, TypeOK, HandlerOK, HasSession, None
<1>10. ASSUME NEW t \in Attempts, CallFails(t) PROVE HandlerOK'
  BY <1>10, AccountTypes, AccountStays
     DEF CallFails, Answer, Go, InHandler, TypeOK, HandlerOK, HasSession, None
<1>11. ASSUME NEW t \in Attempts, PostLogout(t) PROVE HandlerOK'
  BY <1>11, AccountTypes, AccountStays
     DEF PostLogout, Go, ValidateToken, TypeOK, HandlerOK, HasSession, None
<1>12. ASSUME NEW t \in Attempts, TokenExpires(t) PROVE HandlerOK'
  BY <1>12, AccountTypes, AccountStays
     DEF TokenExpires, Go, ValidateToken, TypeOK, HandlerOK, HasSession, None
<1>13. ASSUME NEW b \in Browsers, CookiesLapse(b) PROVE HandlerOK'
  BY <1>13, AccountTypes, AccountStays DEF CookiesLapse, TypeOK, HandlerOK, HasSession, None
<1>14. ASSUME Crash PROVE HandlerOK'
  BY <1>14, AccountTypes, AccountStays
     DEF Crash, InHandler, TypeOK, HandlerOK, HasSession, None
<1>15. ASSUME MoveEmails PROVE HandlerOK'
  BY <1>15, AccountTypes, AccountStays DEF MoveEmails, TypeOK, HandlerOK, HasSession, None
<1>16. ASSUME UNCHANGED vars PROVE HandlerOK'
  BY <1>16, AccountStays DEF vars, HandlerOK
<1> QED
  BY <1>1, <1>2, <1>3, <1>4, <1>5, <1>6, <1>7, <1>8,
     <1>9, <1>10, <1>11, <1>12, <1>13, <1>14, <1>15, <1>16 DEF Next

LEMMA UsersStep ==
  ASSUME TypeOK, HandlerOK, UsersMatch, [Next]_vars PROVE UsersMatch'
<1>1. ASSUME NEW t \in Attempts, Login(t) PROVE UsersMatch'
  BY <1>1, AccountTypes, AccountStays
     DEF Login, Go, TypeOK, HandlerOK, UsersMatch, Exists, HasSession, Attempts, None
<1>2. ASSUME NEW t \in Attempts, Decline(t) PROVE UsersMatch'
  BY <1>2, AccountTypes, AccountStays
     DEF Decline, Go, TypeOK, HandlerOK, UsersMatch, Exists, HasSession, Attempts, None
<1>3. ASSUME NEW t \in Attempts, CallbackWithToken(t) PROVE UsersMatch'
  BY <1>3, AccountTypes, AccountStays
     DEF CallbackWithToken, Go, TypeOK, HandlerOK, UsersMatch, Exists, HasSession, Attempts, None
<1>4. ASSUME NEW t \in Attempts, Exchange(t) PROVE UsersMatch'
  BY <1>4, AccountTypes, AccountStays
     DEF Exchange, Answer, Go, TypeOK, HandlerOK, UsersMatch, Exists, HasSession, Attempts, None
<1>5. ASSUME NEW t \in Attempts, GetPlatformUserByIdentity(t) PROVE UsersMatch'
  BY <1>5, AccountTypes, AccountStays
     DEF GetPlatformUserByIdentity, Go, TypeOK, HandlerOK, UsersMatch, Exists, HasSession, Attempts, None
<1>6. ASSUME NEW t \in Attempts, RefreshIdentity(t) PROVE UsersMatch'
  <2>1. user[t] # None
    BY <1>6 DEF RefreshIdentity, HandlerOK
  <2>2. Exists(user[t]) /\ Account(user[t]) = Account(t) /\ user[t] \in Attempts
    BY <2>1 DEF UsersMatch, TypeOK
  <2>3. \A a \in Accounts : identity'[a] = identity[a] \/ (a = Account(t) /\ identity'[a] = user[t])
    BY <1>6 DEF RefreshIdentity, TypeOK
  <2>4. UNCHANGED <<browser, user, users>>
    BY <1>6 DEF RefreshIdentity
  <2> QED
    BY <2>2, <2>3, <2>4 DEF UsersMatch, Exists, Account, TypeOK
<1>7. ASSUME NEW t \in Attempts, CreatePlatformUser(t) PROVE UsersMatch'
  <2>1. CASE UNCHANGED <<user, users>>
    BY <1>7, <2>1, AccountTypes, AccountStays DEF CreatePlatformUser, UsersMatch, Exists, TypeOK, None
  <2>2. CASE ~UNCHANGED <<user, users>>
    <3>1. /\ user' = [user EXCEPT ![t] = t] /\ users' = [users EXCEPT ![t] = profile[t]]
          /\ UNCHANGED <<browser, identity>> /\ profile[t] # NoEmail
      BY <1>7, <2>2 DEF CreatePlatformUser, HandlerOK
    <3>2. \A u \in Attempts : Exists(u) => Exists(u)'
      BY <3>1 DEF Exists, TypeOK
    <3>3. \A s \in Attempts : user'[s] = user[s] \/ (s = t /\ user'[s] = t)
      BY <3>1 DEF TypeOK
    <3>4. Exists(t)'
      BY <3>1 DEF Exists, TypeOK
    <3> QED
      BY <3>1, <3>2, <3>3, <3>4, AccountStays DEF UsersMatch, TypeOK
  <2> QED
    BY <2>1, <2>2
<1>8. ASSUME NEW t \in Attempts, UpsertAuthIdentity(t) PROVE UsersMatch'
  BY <1>8, AccountTypes, AccountStays
     DEF UpsertAuthIdentity, Go, TypeOK, HandlerOK, UsersMatch, Exists, HasSession, Attempts, None
<1>9. ASSUME NEW t \in Attempts, CreateAuthSession(t) PROVE UsersMatch'
  BY <1>9, AccountTypes, AccountStays
     DEF CreateAuthSession, Answer, Go, TypeOK, HandlerOK, UsersMatch, Exists, HasSession, Attempts, None
<1>10. ASSUME NEW t \in Attempts, CallFails(t) PROVE UsersMatch'
  BY <1>10, AccountTypes, AccountStays
     DEF CallFails, Answer, Go, InHandler, TypeOK, HandlerOK, UsersMatch, Exists, HasSession, Attempts, None
<1>11. ASSUME NEW t \in Attempts, PostLogout(t) PROVE UsersMatch'
  BY <1>11, AccountTypes, AccountStays
     DEF PostLogout, Go, ValidateToken, TypeOK, HandlerOK, UsersMatch, Exists, HasSession, Attempts, None
<1>12. ASSUME NEW t \in Attempts, TokenExpires(t) PROVE UsersMatch'
  BY <1>12, AccountTypes, AccountStays
     DEF TokenExpires, Go, ValidateToken, TypeOK, HandlerOK, UsersMatch, Exists, HasSession, Attempts, None
<1>13. ASSUME NEW b \in Browsers, CookiesLapse(b) PROVE UsersMatch'
  BY <1>13, AccountTypes, AccountStays
     DEF CookiesLapse, TypeOK, HandlerOK, UsersMatch, Exists, HasSession, Attempts, None
<1>14. ASSUME Crash PROVE UsersMatch'
  BY <1>14, AccountTypes, AccountStays
     DEF Crash, InHandler, TypeOK, HandlerOK, UsersMatch, Exists, HasSession, Attempts, None
<1>15. ASSUME MoveEmails PROVE UsersMatch'
  BY <1>15, AccountTypes, AccountStays
     DEF MoveEmails, TypeOK, HandlerOK, UsersMatch, Exists, HasSession, Attempts, None
<1>16. ASSUME UNCHANGED vars PROVE UsersMatch'
  BY <1>16, AccountStays, AccountTypes DEF vars, UsersMatch, Exists, TypeOK, None
<1> QED
  BY <1>1, <1>2, <1>3, <1>4, <1>5, <1>6, <1>7, <1>8,
     <1>9, <1>10, <1>11, <1>12, <1>13, <1>14, <1>15, <1>16 DEF Next

-----------------------------------------------------------------------------
(***************************************************************************)
(* Without changes of address: one user for each account.                  *)
(***************************************************************************)
LEMMA AddressStep ==
  ASSUME TypeOK, AddressKept, [Next]_vars PROVE AddressKept'
<1>1. ASSUME NEW t \in Attempts, Login(t) PROVE AddressKept'
  BY <1>1, AccountTypes, AccountStays DEF Login, TypeOK, AddressKept
<1>2. ASSUME NEW t \in Attempts, Decline(t) PROVE AddressKept'
  BY <1>2, AccountTypes, AccountStays DEF Decline, TypeOK, AddressKept
<1>3. ASSUME NEW t \in Attempts, CallbackWithToken(t) PROVE AddressKept'
  BY <1>3, AccountTypes, AccountStays DEF CallbackWithToken, TypeOK, AddressKept
<1>4. ASSUME NEW t \in Attempts, Exchange(t) PROVE AddressKept'
  BY <1>4, AccountTypes, AccountStays DEF Exchange, TypeOK, AddressKept
<1>5. ASSUME NEW t \in Attempts, GetPlatformUserByIdentity(t) PROVE AddressKept'
  BY <1>5, AccountTypes, AccountStays DEF GetPlatformUserByIdentity, TypeOK, AddressKept
<1>6. ASSUME NEW t \in Attempts, RefreshIdentity(t) PROVE AddressKept'
  BY <1>6, AccountTypes, AccountStays DEF RefreshIdentity, TypeOK, AddressKept
<1>7. ASSUME NEW t \in Attempts, CreatePlatformUser(t) PROVE AddressKept'
  BY <1>7, AccountTypes, AccountStays DEF CreatePlatformUser, TypeOK, AddressKept
<1>8. ASSUME NEW t \in Attempts, UpsertAuthIdentity(t) PROVE AddressKept'
  BY <1>8, AccountTypes, AccountStays DEF UpsertAuthIdentity, TypeOK, AddressKept
<1>9. ASSUME NEW t \in Attempts, CreateAuthSession(t) PROVE AddressKept'
  BY <1>9, AccountTypes, AccountStays DEF CreateAuthSession, TypeOK, AddressKept
<1>10. ASSUME NEW t \in Attempts, CallFails(t) PROVE AddressKept'
  BY <1>10, AccountTypes, AccountStays DEF CallFails, TypeOK, AddressKept
<1>11. ASSUME NEW t \in Attempts, PostLogout(t) PROVE AddressKept'
  BY <1>11, AccountTypes, AccountStays DEF PostLogout, TypeOK, AddressKept
<1>12. ASSUME NEW t \in Attempts, TokenExpires(t) PROVE AddressKept'
  BY <1>12, AccountTypes, AccountStays DEF TokenExpires, TypeOK, AddressKept
<1>13. ASSUME NEW b \in Browsers, CookiesLapse(b) PROVE AddressKept'
  BY <1>13, AccountTypes, AccountStays DEF CookiesLapse, TypeOK, AddressKept
<1>14. ASSUME Crash PROVE AddressKept'
  BY <1>14, AccountTypes, AccountStays DEF Crash, TypeOK, AddressKept
<1>15. ASSUME MoveEmails PROVE AddressKept'
  BY <1>15 DEF MoveEmails, AddressKept, TypeOK
<1>16. ASSUME UNCHANGED vars PROVE AddressKept'
  BY <1>16, AccountStays DEF vars, AddressKept
<1> QED
  BY <1>1, <1>2, <1>3, <1>4, <1>5, <1>6, <1>7, <1>8,
     <1>9, <1>10, <1>11, <1>12, <1>13, <1>14, <1>15, <1>16 DEF Next

LEMMA OneUserStep ==
  ASSUME TypeOK, HandlerOK, AddressKept, OneUserPerAccount, [Next]_vars PROVE OneUserPerAccount'
<1>1. ASSUME NEW t \in Attempts, Login(t) PROVE OneUserPerAccount'
  BY <1>1, AccountStays DEF Login, OneUserPerAccount, Exists
<1>2. ASSUME NEW t \in Attempts, Decline(t) PROVE OneUserPerAccount'
  BY <1>2, AccountStays DEF Decline, OneUserPerAccount, Exists
<1>3. ASSUME NEW t \in Attempts, CallbackWithToken(t) PROVE OneUserPerAccount'
  BY <1>3, AccountStays DEF CallbackWithToken, OneUserPerAccount, Exists
<1>4. ASSUME NEW t \in Attempts, Exchange(t) PROVE OneUserPerAccount'
  BY <1>4, AccountStays DEF Exchange, OneUserPerAccount, Exists
<1>5. ASSUME NEW t \in Attempts, GetPlatformUserByIdentity(t) PROVE OneUserPerAccount'
  BY <1>5, AccountStays DEF GetPlatformUserByIdentity, OneUserPerAccount, Exists
<1>6. ASSUME NEW t \in Attempts, RefreshIdentity(t) PROVE OneUserPerAccount'
  BY <1>6, AccountStays DEF RefreshIdentity, OneUserPerAccount, Exists
<1>7. ASSUME NEW t \in Attempts, CreatePlatformUser(t) PROVE OneUserPerAccount'
  <2> SUFFICES ASSUME moves' = 0, users' = [users EXCEPT ![t] = profile[t]],
                      \A u \in Attempts : users[u] # profile[t],
                      NEW r \in Attempts, NEW s \in Attempts,
                      Exists(r)', Exists(s)', Account(r)' = Account(s)'
               PROVE  r = s
    BY <1>7, AccountStays DEF CreatePlatformUser, OneUserPerAccount, Exists
  <2>1. moves = 0 /\ profile[t] = email[Account(t)]
    BY <1>7 DEF CreatePlatformUser, HandlerOK, AddressKept
  <2>2. ASSUME NEW u \in Attempts, Account(u) = Account(t) PROVE ~Exists(u)
    BY <2>1, <2>2 DEF AddressKept, Exists
  <2>3. \A u \in Attempts : Exists(u)' => u = t \/ Exists(u)
    BY DEF Exists, TypeOK
  <2>4. Account(r) = Account(s)
    BY <1>7, AccountStays DEF CreatePlatformUser
  <2> QED
    BY <2>1, <2>2, <2>3, <2>4 DEF OneUserPerAccount
<1>8. ASSUME NEW t \in Attempts, UpsertAuthIdentity(t) PROVE OneUserPerAccount'
  BY <1>8, AccountStays DEF UpsertAuthIdentity, OneUserPerAccount, Exists
<1>9. ASSUME NEW t \in Attempts, CreateAuthSession(t) PROVE OneUserPerAccount'
  BY <1>9, AccountStays DEF CreateAuthSession, OneUserPerAccount, Exists
<1>10. ASSUME NEW t \in Attempts, CallFails(t) PROVE OneUserPerAccount'
  BY <1>10, AccountStays DEF CallFails, OneUserPerAccount, Exists
<1>11. ASSUME NEW t \in Attempts, PostLogout(t) PROVE OneUserPerAccount'
  BY <1>11, AccountStays DEF PostLogout, OneUserPerAccount, Exists
<1>12. ASSUME NEW t \in Attempts, TokenExpires(t) PROVE OneUserPerAccount'
  BY <1>12, AccountStays DEF TokenExpires, OneUserPerAccount, Exists
<1>13. ASSUME NEW b \in Browsers, CookiesLapse(b) PROVE OneUserPerAccount'
  BY <1>13, AccountStays DEF CookiesLapse, OneUserPerAccount, Exists
<1>14. ASSUME Crash PROVE OneUserPerAccount'
  BY <1>14, AccountStays DEF Crash, OneUserPerAccount, Exists
<1>15. ASSUME MoveEmails PROVE OneUserPerAccount'
  BY <1>15 DEF MoveEmails, OneUserPerAccount, TypeOK
<1>16. ASSUME UNCHANGED vars PROVE OneUserPerAccount'
  BY <1>16, AccountStays DEF vars, OneUserPerAccount, Exists
<1> QED
  BY <1>1, <1>2, <1>3, <1>4, <1>5, <1>6, <1>7, <1>8,
     <1>9, <1>10, <1>11, <1>12, <1>13, <1>14, <1>15, <1>16 DEF Next

-----------------------------------------------------------------------------
(***************************************************************************)
(* Without faults: every user is linked, or about to be.                   *)
(***************************************************************************)
LEMMA LinkedStep ==
  ASSUME TypeOK, HandlerOK, Linked, [Next]_vars PROVE Linked'
<1>1. ASSUME NEW t \in Attempts, Login(t) PROVE Linked'
  BY <1>1, AccountStays DEF Login, Go, TypeOK, Linked, Exists
<1>2. ASSUME NEW t \in Attempts, Decline(t) PROVE Linked'
  BY <1>2, AccountStays DEF Decline, Go, TypeOK, Linked, Exists
<1>3. ASSUME NEW t \in Attempts, CallbackWithToken(t) PROVE Linked'
  BY <1>3, AccountStays DEF CallbackWithToken, Go, TypeOK, Linked, Exists
<1>4. ASSUME NEW t \in Attempts, Exchange(t) PROVE Linked'
  BY <1>4, AccountStays DEF Exchange, Answer, Go, TypeOK, Linked, Exists
<1>5. ASSUME NEW t \in Attempts, GetPlatformUserByIdentity(t) PROVE Linked'
  BY <1>5, AccountStays DEF GetPlatformUserByIdentity, Go, TypeOK, Linked, Exists
<1>6. ASSUME NEW t \in Attempts, RefreshIdentity(t) PROVE Linked'
  <2>1. user[t] # None
    BY <1>6 DEF RefreshIdentity, HandlerOK
  <2>2. \A a \in Accounts : identity[a] # None => identity'[a] # None
    BY <1>6, <2>1, AccountTypes DEF RefreshIdentity, TypeOK
  <2>3. faults' = 0 => faults = 0
    BY <1>6, FaultTypes DEF RefreshIdentity
  <2>4. \A u \in Attempts : pc[u] = "link" => pc'[u] = "link"
    BY <1>6 DEF RefreshIdentity, Go, TypeOK
  <2> QED
    BY <1>6, <2>2, <2>3, <2>4, AccountTypes, AccountStays DEF RefreshIdentity, Linked, Exists
<1>7. ASSUME NEW t \in Attempts, CreatePlatformUser(t) PROVE Linked'
  <2> SUFFICES ASSUME faults' = 0, NEW u \in Attempts, Exists(u)'
               PROVE  identity'[Account(u)'] # None \/ pc'[u] = "link"
    BY DEF Linked
  <2>1. faults = 0 /\ Account(u)' = Account(u) /\ identity' = identity /\ pc[t] = "create"
    BY <1>7, AccountStays DEF CreatePlatformUser
  <2>2. CASE u = t /\ ~Exists(t)
    BY <1>7, <2>2 DEF CreatePlatformUser, Go, Exists, TypeOK
  <2>3. CASE Exists(u)
    <3>1. pc[u] = "link" => pc'[u] = "link"
      BY <1>7 DEF CreatePlatformUser, Answer, Go, TypeOK
    <3> QED
      BY <2>1, <2>3, <3>1 DEF Linked
  <2>4. u = t \/ Exists(u)
    BY <1>7 DEF CreatePlatformUser, Exists, TypeOK
  <2> QED
    BY <2>2, <2>3, <2>4
<1>8. ASSUME NEW t \in Attempts, UpsertAuthIdentity(t) PROVE Linked'
  <2>1. user[t] # None
    BY <1>8 DEF UpsertAuthIdentity, HandlerOK
  <2>2. identity'[Account(t)] # None /\ \A a \in Accounts : identity[a] # None => identity'[a] # None
    BY <1>8, <2>1, AccountTypes DEF UpsertAuthIdentity, TypeOK
  <2>3. \A u \in Attempts \ {t} : pc[u] = "link" => pc'[u] = "link"
    BY <1>8 DEF UpsertAuthIdentity, Go, TypeOK
  <2> QED
    BY <1>8, <2>2, <2>3, AccountTypes, AccountStays DEF UpsertAuthIdentity, Linked, Exists
<1>9. ASSUME NEW t \in Attempts, CreateAuthSession(t) PROVE Linked'
  BY <1>9, AccountStays DEF CreateAuthSession, Answer, Go, TypeOK, Linked, Exists
<1>10. ASSUME NEW t \in Attempts, CallFails(t) PROVE Linked'
  BY <1>10, FaultTypes DEF CallFails, Linked
<1>11. ASSUME NEW t \in Attempts, PostLogout(t) PROVE Linked'
  BY <1>11, AccountStays DEF PostLogout, Go, ValidateToken, TypeOK, Linked, Exists
<1>12. ASSUME NEW t \in Attempts, TokenExpires(t) PROVE Linked'
  BY <1>12, AccountStays DEF TokenExpires, Go, ValidateToken, TypeOK, Linked, Exists
<1>13. ASSUME NEW b \in Browsers, CookiesLapse(b) PROVE Linked'
  BY <1>13, AccountStays DEF CookiesLapse, TypeOK, Linked, Exists
<1>14. ASSUME Crash PROVE Linked'
  BY <1>14, FaultTypes DEF Crash, Linked
<1>15. ASSUME MoveEmails PROVE Linked'
  BY <1>15, AccountStays DEF MoveEmails, TypeOK, Linked, Exists
<1>16. ASSUME UNCHANGED vars PROVE Linked'
  BY <1>16, AccountStays DEF vars, Linked, Exists
<1> QED
  BY <1>1, <1>2, <1>3, <1>4, <1>5, <1>6, <1>7, <1>8,
     <1>9, <1>10, <1>11, <1>12, <1>13, <1>14, <1>15, <1>16 DEF Next

-----------------------------------------------------------------------------
(***************************************************************************)
(* The cookies of a sign-in under way.                                     *)
(***************************************************************************)
Answered == HasSession \cup {"error"}
Using == {"github", "lost"} \cup InHandler

LEMMA GoneStays ==
  ASSUME TypeOK, TypeOK', NEW t \in Attempts, Gone(t),
         browser' = browser, started' >= started, lapsed \subseteq lapsed',
         \A s \in Attempts : pc[s] \in Answered => pc'[s] \in Answered
  PROVE  Gone(t)'
<1>1. CASE t \in lapsed
  BY <1>1 DEF Gone
<1>2. CASE t \notin lapsed
  <2>1. PICK s \in Attempts : /\ s # t /\ browser[s] = browser[t]
                              /\ IF s > t THEN s <= started ELSE pc[s] \in HasSession \cup {"error"}
    BY <1>2 DEF Gone
  <2>2. IF s > t THEN s <= started' ELSE pc'[s] \in HasSession \cup {"error"}
    BY <2>1 DEF Answered, TypeOK, Attempts
  <2>3. browser'[s] = browser'[t]
    BY <2>1
  <2> QED
    BY <2>1, <2>2, <2>3 DEF Gone
<1> QED
  BY <1>1, <1>2

\* A step that sends nobody back to /login and takes cookies only from sign-ins that are gone.
LEMMA CookieFrame ==
  ASSUME TypeOK, TypeOK', CookieOK,
         browser' = browser, started' = started, lapsed \subseteq lapsed',
         \A s \in Attempts : pc[s] \in Answered => pc'[s] \in Answered,
         \A s \in Attempts : pc'[s] \in Using => pc[s] \in Using,
         \A s \in Attempts : pc'[s] = "retry" => pc[s] = "retry",
         \A s \in Attempts : pc'[s] \in Using =>
                               cookie'[browser[s]] = cookie[browser[s]] \/ Gone(s)'
  PROVE  CookieOK'
<1> SUFFICES ASSUME NEW s \in Attempts
             PROVE  /\ pc'[s] \in Using => cookie'[browser'[s]] = s \/ Gone(s)'
                    /\ pc'[s] = "retry" => Gone(s)'
  BY DEF CookieOK, Using
<1>1. Gone(s) => Gone(s)'
  <2>1. started' >= started
    BY DEF TypeOK
  <2> QED
    BY <2>1, GoneStays
<1> QED
  BY <1>1 DEF CookieOK, Using

LEMMA MoveFrame ==
  ASSUME TypeOK, TypeOK', CookieOK, NEW t \in Attempts, NEW what, Go(t, what),
         UNCHANGED <<browser, started, lapsed, cookie>>,
         pc[t] \in Answered => what \in Answered,
         what \in Using => pc[t] \in Using,
         what # "retry"
  PROVE  CookieOK'
<1>1. pc'[t] = what /\ \A s \in Attempts \ {t} : pc'[s] = pc[s]
  BY DEF Go, TypeOK
<1>2. /\ \A s \in Attempts : pc[s] \in Answered => pc'[s] \in Answered
      /\ \A s \in Attempts : pc'[s] \in Using => pc[s] \in Using
      /\ \A s \in Attempts : pc'[s] = "retry" => pc[s] = "retry"
  BY <1>1
<1> QED
  BY <1>2, CookieFrame

LEMMA AnswerClears ==
  ASSUME TypeOK, TypeOK', CookieOK, NEW t \in Attempts, NEW what \in {"error", "signed in"},
         pc[t] \in InHandler, Answer(t, what),
         browser' = browser, started' = started, lapsed' = lapsed
  PROVE  CookieOK'
<1>1. pc'[t] = what /\ \A s \in Attempts \ {t} : pc'[s] = pc[s]
  BY DEF Answer, Go, TypeOK
<1>2. t <= started
  BY DEF TypeOK, InHandler
<1>3. ASSUME NEW s \in Attempts, pc'[s] \in Using
      PROVE  cookie'[browser[s]] = cookie[browser[s]] \/ Gone(s)'
  <2>1. s # t
    BY <1>1, <1>3 DEF Using, InHandler
  <2>2. CASE browser[s] = browser[t]
    BY <1>1, <1>2, <2>1, <2>2 DEF Gone, HasSession
  <2>3. CASE browser[s] # browser[t]
    BY <2>3, AccountTypes DEF Answer, TypeOK
  <2> QED
    BY <2>2, <2>3
<1>4. /\ \A s \in Attempts : pc[s] \in Answered => pc'[s] \in Answered
      /\ \A s \in Attempts : pc'[s] \in Using => pc[s] \in Using
      /\ \A s \in Attempts : pc'[s] = "retry" => pc[s] = "retry"
  BY <1>1 DEF Answered, Using, HasSession, InHandler
<1> QED
  BY <1>3, <1>4, CookieFrame

LEMMA CookieStep ==
  ASSUME TypeOK, TypeOK', CookieOK, [Next]_vars PROVE CookieOK'
<1>1. ASSUME NEW t \in Attempts, Login(t) PROVE CookieOK'
  <2>1. started' = t /\ pc[t] = "idle" /\ \A s \in Attempts : pc[s] # "idle" => s < t
    BY <1>1 DEF Login, TypeOK, Attempts
  <2>2. pc'[t] = "github" /\ \A s \in Attempts \ {t} : pc'[s] = pc[s]
    BY <1>1 DEF Login, Go, TypeOK
  <2>3. cookie'[browser[t]] = t
    BY <1>1, AccountTypes DEF Login, TypeOK
  <2> SUFFICES ASSUME NEW s \in Attempts
               PROVE  /\ pc'[s] \in Using => cookie'[browser'[s]] = s \/ Gone(s)'
                      /\ pc'[s] = "retry" => Gone(s)'
    BY DEF CookieOK, Using
  <2>4. CASE s = t
    BY <1>1, <2>2, <2>3, <2>4 DEF Login
  <2>5. CASE s # t /\ pc'[s] \in Using \cup {"retry"}
    <3>1. s < t
      BY <2>1, <2>2, <2>5 DEF Using, InHandler
    <3>2. browser[s] = browser[t] => Gone(s)'
      BY <1>1, <2>1, <3>1 DEF Login, Gone, Attempts
    <3>3. browser[s] # browser[t] => cookie'[browser[s]] = cookie[browser[s]]
      BY <1>1, AccountTypes DEF Login, TypeOK
    <3>4. Gone(s) => Gone(s)'
      <4>1. browser' = browser /\ started' >= started /\ lapsed \subseteq lapsed'
        BY <1>1 DEF Login, TypeOK
      <4>2. \A q \in Attempts : pc[q] \in Answered => pc'[q] \in Answered
        BY <2>1, <2>2 DEF Answered, HasSession
      <4> QED
        BY <4>1, <4>2, GoneStays
    <3> QED
      BY <1>1, <2>2, <2>5, <3>2, <3>3, <3>4 DEF Login, CookieOK, Using
  <2> QED
    BY <2>4, <2>5
<1>2. ASSUME NEW t \in Attempts, Decline(t) PROVE CookieOK'
  BY <1>2, MoveFrame DEF Decline, Answered, Using, HasSession, InHandler
<1>3. ASSUME NEW t \in Attempts, CallbackWithToken(t) PROVE CookieOK'
  <2>1. pc[t] \in Using /\ (cookie[browser[t]] = t \/ Gone(t))
    BY <1>3 DEF CallbackWithToken, CookieOK, Using
  <2>2. /\ pc'[t] = IF cookie[browser[t]] = t THEN "exchange" ELSE "retry"
        /\ \A s \in Attempts \ {t} : pc'[s] = pc[s]
    BY <1>3 DEF CallbackWithToken, Go, TypeOK
  <2>3. \A s \in Attempts : Gone(s) => Gone(s)'
    <3>1. \A q \in Attempts : pc[q] \in Answered => pc'[q] \in Answered
      BY <2>1, <2>2 DEF Answered, Using, HasSession, InHandler
    <3>2. browser' = browser /\ started' >= started /\ lapsed \subseteq lapsed'
      BY <1>3 DEF CallbackWithToken, TypeOK
    <3> QED
      BY <3>1, <3>2, GoneStays
  <2> QED
    BY <1>3, <2>1, <2>2, <2>3 DEF CallbackWithToken, CookieOK, InHandler
<1>4. ASSUME NEW t \in Attempts, Exchange(t) PROVE CookieOK'
  <2>1. CASE Answer(t, "error")
    BY <1>4, <2>1, AnswerClears DEF Exchange, InHandler
  <2>2. CASE ~Answer(t, "error")
    <3>1. /\ UNCHANGED <<browser, started, lapsed, cookie>>
          /\ pc[t] \in InHandler /\ pc'[t] \in InHandler
          /\ \A s \in Attempts \ {t} : pc'[s] = pc[s]
      BY <1>4, <2>2 DEF Exchange, Go, TypeOK, InHandler
    <3>2. /\ \A s \in Attempts : pc[s] \in Answered => pc'[s] \in Answered
          /\ \A s \in Attempts : pc'[s] \in Using => pc[s] \in Using
          /\ \A s \in Attempts : pc'[s] = "retry" => pc[s] = "retry"
      BY <3>1 DEF Answered, Using, HasSession, InHandler
    <3> QED
      BY <3>1, <3>2, CookieFrame
  <2> QED
    BY <2>1, <2>2
<1>5. ASSUME NEW t \in Attempts, GetPlatformUserByIdentity(t) PROVE CookieOK'
  BY <1>5, MoveFrame DEF GetPlatformUserByIdentity, Answered, Using, HasSession, InHandler
<1>6. ASSUME NEW t \in Attempts, RefreshIdentity(t) PROVE CookieOK'
  BY <1>6, MoveFrame DEF RefreshIdentity, Answered, Using, HasSession, InHandler
<1>7. ASSUME NEW t \in Attempts, CreatePlatformUser(t) PROVE CookieOK'
  <2>1. CASE Answer(t, "error")
    BY <1>7, <2>1, AnswerClears DEF CreatePlatformUser, InHandler
  <2>2. CASE ~Answer(t, "error")
    <3>1. /\ UNCHANGED <<browser, started, lapsed, cookie>>
          /\ pc[t] \in InHandler /\ pc'[t] \in InHandler
          /\ \A s \in Attempts \ {t} : pc'[s] = pc[s]
      BY <1>7, <2>2 DEF CreatePlatformUser, Go, TypeOK, InHandler
    <3>2. /\ \A s \in Attempts : pc[s] \in Answered => pc'[s] \in Answered
          /\ \A s \in Attempts : pc'[s] \in Using => pc[s] \in Using
          /\ \A s \in Attempts : pc'[s] = "retry" => pc[s] = "retry"
      BY <3>1 DEF Answered, Using, HasSession, InHandler
    <3> QED
      BY <3>1, <3>2, CookieFrame
  <2> QED
    BY <2>1, <2>2
<1>8. ASSUME NEW t \in Attempts, UpsertAuthIdentity(t) PROVE CookieOK'
  BY <1>8, MoveFrame DEF UpsertAuthIdentity, Answered, Using, HasSession, InHandler
<1>9. ASSUME NEW t \in Attempts, CreateAuthSession(t) PROVE CookieOK'
  BY <1>9, AnswerClears DEF CreateAuthSession, InHandler
<1>10. ASSUME NEW t \in Attempts, CallFails(t) PROVE CookieOK'
  BY <1>10, AnswerClears DEF CallFails, InHandler
<1>11. ASSUME NEW t \in Attempts, PostLogout(t) PROVE CookieOK'
  BY <1>11, MoveFrame DEF PostLogout, Answered, Using, HasSession, InHandler, ValidateToken
<1>12. ASSUME NEW t \in Attempts, TokenExpires(t) PROVE CookieOK'
  BY <1>12, MoveFrame DEF TokenExpires, Answered, Using, HasSession, InHandler, ValidateToken
<1>13. ASSUME NEW b \in Browsers, CookiesLapse(b) PROVE CookieOK'
  <2>1. ASSUME NEW s \in Attempts, pc'[s] \in Using
        PROVE  cookie'[browser[s]] = cookie[browser[s]] \/ Gone(s)'
    <3>1. CASE browser[s] = b /\ cookie[b] = s
      BY <1>13, <3>1 DEF CookiesLapse, Gone
    <3>2. CASE browser[s] = b /\ cookie[b] # s
      <4>1. Gone(s)
        BY <1>13, <2>1, <3>2 DEF CookiesLapse, CookieOK, Using
      <4> QED
        BY <1>13, <4>1, GoneStays DEF CookiesLapse, TypeOK
    <3>3. CASE browser[s] # b
      BY <1>13, <3>3, AccountTypes DEF CookiesLapse, TypeOK
    <3> QED
      BY <3>1, <3>2, <3>3
  <2> QED
    BY <1>13, <2>1, CookieFrame DEF CookiesLapse
<1>14. ASSUME Crash PROVE CookieOK'
  <2>1. /\ \A s \in Attempts : pc[s] \in Answered => pc'[s] \in Answered
        /\ \A s \in Attempts : pc'[s] \in Using => pc[s] \in Using
        /\ \A s \in Attempts : pc'[s] = "retry" => pc[s] = "retry"
    BY <1>14 DEF Crash, InHandler, TypeOK, Answered, Using, HasSession
  <2> QED
    BY <1>14, <2>1, CookieFrame DEF Crash
<1>15. ASSUME MoveEmails PROVE CookieOK'
  BY <1>15, CookieFrame DEF MoveEmails
<1>16. ASSUME UNCHANGED vars PROVE CookieOK'
  BY <1>16, CookieFrame DEF vars
<1> QED
  BY <1>1, <1>2, <1>3, <1>4, <1>5, <1>6, <1>7, <1>8,
     <1>9, <1>10, <1>11, <1>12, <1>13, <1>14, <1>15, <1>16 DEF Next

-----------------------------------------------------------------------------
LEMMA IInvCorrect == Spec => []IInv
<1>1. IInv /\ [Next]_vars => IInv'
  <2> SUFFICES ASSUME IInv, [Next]_vars PROVE IInv'
    OBVIOUS
  <2>1. TypeOK'
    BY TypeStep DEF IInv
  <2>2. HandlerOK' /\ UsersMatch'
    BY HandlerStep, UsersStep DEF IInv
  <2>3. AddressKept' /\ OneUserPerAccount'
    BY AddressStep, OneUserStep DEF IInv
  <2>4. Linked'
    BY LinkedStep DEF IInv
  <2>5. CookieOK'
    BY <2>1, CookieStep DEF IInv
  <2> QED
    BY <2>1, <2>2, <2>3, <2>4, <2>5 DEF IInv
<1> QED
  BY <1>1, InitIInv, PTL DEF Spec

\* Every variable of SignIn has its type.
THEOREM TypeCorrect == Spec => []TypeOK
<1>1. IInv => TypeOK
  BY DEF IInv
<1> QED
  BY <1>1, IInvCorrect, PTL

\* A session, like an identity row, is for a user made for the same account.
THEOREM NoSessionCrosses == Spec => []SessionsNeverCross
<1>1. IInv => SessionsNeverCross
  BY DEF IInv, TypeOK, HandlerOK, UsersMatch, SessionsNeverCross, Sessions
<1> QED
  BY <1>1, IInvCorrect, PTL

\* Overlapping first sign-ins never make two users of one account.
THEOREM AccountsHaveOneUser == Spec => []OneUserPerAccount
<1>1. IInv => OneUserPerAccount
  BY DEF IInv
<1> QED
  BY <1>1, IInvCorrect, PTL

\* A token names the user of its account's identity row.
THEOREM TokensNameIdentities == Spec => []TokenNamesIdentity
<1>1. IInv => TokenNamesIdentity
  <2> SUFFICES ASSUME IInv, moves = 0, NEW t \in Sessions
               PROVE  user[t] = identity[Account(t)]
    BY DEF TokenNamesIdentity
  <2>1. t \in Attempts /\ Account(t) \in Accounts
    BY AccountTypes DEF Sessions, IInv
  <2>2. user[t] # None /\ identity[Account(t)] # None
    BY <2>1 DEF Sessions, IInv, HandlerOK
  <2>3. /\ user[t] \in Attempts /\ Exists(user[t]) /\ Account(user[t]) = Account(t)
        /\ identity[Account(t)] \in Attempts
        /\ Exists(identity[Account(t)]) /\ Account(identity[Account(t)]) = Account(t)
    BY <2>1, <2>2 DEF IInv, UsersMatch, TypeOK
  <2> QED
    BY <2>3 DEF IInv, OneUserPerAccount
<1> QED
  BY <1>1, IInvCorrect, PTL

\* An account is only ever locked out after a failed call or a change of address.
THEOREM LockoutsHaveACause == Spec => []LockoutHasACause
<1>1. IInv => LockoutHasACause
  <2> SUFFICES ASSUME IInv, faults = 0, moves = 0, NEW a \in Accounts, identity[a] = None,
                      NEW u \in Attempts, users[u] = email[a]
               PROVE  \E t \in Attempts : pc[t] = "link" /\ Account(t) = a
    BY SignInAssumption DEF IInv, TypeOK, LockoutHasACause
  <2>1. email[a] \in Emails /\ Exists(u)
    BY SignInAssumption DEF IInv, TypeOK, Addresses, Exists
  <2>2. Account(u) \in Accounts /\ email[Account(u)] = email[a]
    BY <2>1, AccountTypes DEF IInv, AddressKept, Exists
  <2>3. Account(u) = a
    BY <2>2 DEF IInv, TypeOK, Addresses
  <2> QED
    BY <2>1, <2>3 DEF IInv, Linked
<1> QED
  BY <1>1, IInvCorrect, PTL

\* A sign-in is only sent back for one of the three reasons.
THEOREM RetriesHaveACause == Spec => []RetryHasACause
<1>1. IInv => RetryHasACause
  BY DEF IInv, CookieOK, Gone, RetryHasACause
<1> QED
  BY <1>1, IInvCorrect, PTL

-----------------------------------------------------------------------------
(***************************************************************************)
(* The tables implement AccountBook.  Each of its variables is a function  *)
(* of the tables.                                                          *)
(***************************************************************************)
WhoseBook == [t \in Attempts |-> Account(t)]
OwnerBook == [u \in Attempts |-> IF Exists(u) THEN Account(u) ELSE None]
SessionBook == [t \in Attempts |-> SessionState(t)]
HolderBook == [t \in Attempts |-> IF pc[t] \in HasSession THEN user[t] ELSE None]

\* A step of a sign-in that touches no session, its own or another.
SameSession(t) ==
  \/ pc'[t] = pc[t] /\ user'[t] = user[t]
  \/ pc[t] \notin HasSession /\ pc'[t] \notin HasSession

LEMMA SameSessions ==
  ASSUME \A t \in Attempts : SameSession(t)
  PROVE  UNCHANGED <<SessionBook, HolderBook>>
<1>1. ASSUME NEW t \in Attempts
      PROVE  /\ SessionState(t)' = SessionState(t)
             /\ pc'[t] \in HasSession <=> pc[t] \in HasSession
             /\ pc[t] \in HasSession => user'[t] = user[t]
  BY DEF SameSession, SessionState, HasSession
<1> QED BY <1>1 DEF SessionBook, HolderBook

LEMMA SameBook ==
  ASSUME browser' = browser
  PROVE  /\ UNCHANGED WhoseBook
         /\ UNCHANGED users => UNCHANGED OwnerBook
BY AccountStays DEF WhoseBook, OwnerBook, Exists

\* What a step does to the tables.
LEMMA BookEffects ==
  ASSUME TypeOK, [Next]_vars
  PROVE  /\ browser' = browser
         /\ \/ UNCHANGED <<users, identity>> /\ \A t \in Attempts : SameSession(t)
            \/ \E t \in Attempts : RefreshIdentity(t) \/ UpsertAuthIdentity(t)
            \/ \E t \in Attempts : CreatePlatformUser(t)
            \/ \E t \in Attempts : CreateAuthSession(t) \/ PostLogout(t) \/ TokenExpires(t)
<1>0. pc \in [Attempts -> States] /\ user \in [Attempts -> {None} \cup Attempts]
  BY DEF TypeOK
<1>1. ASSUME NEW t \in Attempts, Login(t) \/ Decline(t) \/ CallbackWithToken(t) \/ Exchange(t)
                                 \/ GetPlatformUserByIdentity(t) \/ CallFails(t)
      PROVE  browser' = browser /\ UNCHANGED <<users, identity>> /\ \A s \in Attempts : SameSession(s)
  <2>1. browser' = browser /\ UNCHANGED <<users, identity>>
        /\ \A s \in Attempts \ {t} : user'[s] = user[s]
    BY <1>0, <1>1 DEF Login, Decline, CallbackWithToken, Exchange, GetPlatformUserByIdentity,
       CallFails, Answer
  <2>2. \E what \in States \ HasSession : Go(t, what)
    BY <1>1 DEF Login, Decline, CallbackWithToken, Exchange, GetPlatformUserByIdentity,
       CallFails, Answer, States, InHandler, HasSession
  <2>3. pc[t] \notin HasSession
    <3>1. CASE Login(t)
      <4>1. started \in Nat /\ t = started + 1
        BY <3>1, SignInAssumption DEF Login, TypeOK
      <4>2. pc[t] = "idle"
        BY <4>1 DEF TypeOK
      <4> QED BY <4>2 DEF HasSession
    <3> QED BY <1>1, <3>1 DEF Decline, CallbackWithToken, Exchange,
            GetPlatformUserByIdentity, CallFails, InHandler, HasSession
  <2> QED BY <1>0, <2>1, <2>2, <2>3 DEF Go, SameSession
<1>2. ASSUME NEW t \in Attempts, RefreshIdentity(t) \/ UpsertAuthIdentity(t)
             \/ CreatePlatformUser(t) \/ CreateAuthSession(t) \/ PostLogout(t) \/ TokenExpires(t)
      PROVE  browser' = browser
  BY <1>2 DEF RefreshIdentity, UpsertAuthIdentity, CreatePlatformUser, CreateAuthSession,
     PostLogout, TokenExpires
<1>3. CASE (\E b \in Browsers : CookiesLapse(b)) \/ MoveEmails \/ UNCHANGED vars
  BY <1>3 DEF CookiesLapse, MoveEmails, vars, SameSession
<1>4. CASE Crash
  BY <1>0, <1>4 DEF Crash, SameSession, InHandler, HasSession
<1> QED BY <1>1, <1>2, <1>3, <1>4 DEF Next

LEMMA BookStep ==
  ASSUME IInv, TypeOK', [Next]_vars
  PROVE  [Book!Next]_(Book!vars)
<1>0. /\ TypeOK /\ HandlerOK /\ UsersMatch
      /\ pc \in [Attempts -> States] /\ user \in [Attempts -> {None} \cup Attempts]
      /\ users \in [Attempts -> Emails \cup {NoEmail}]
      /\ identity \in [Accounts -> {None} \cup Attempts]
      /\ \A t \in Attempts : Account(t) \in Accounts /\ Account(t) # None
  BY AccountTypes, SignInAssumption DEF IInv, TypeOK
<1>1. browser' = browser /\ UNCHANGED WhoseBook
  BY <1>0, BookEffects, SameBook
<1>2. ASSUME UNCHANGED <<OwnerBook, identity, SessionBook, HolderBook>>
      PROVE  UNCHANGED Book!vars
  BY <1>1, <1>2 DEF Book!vars, WhoseBook, OwnerBook, SessionBook, HolderBook
<1>3. CASE UNCHANGED <<users, identity>> /\ \A t \in Attempts : SameSession(t)
  BY <1>1, <1>2, <1>3, SameSessions, SameBook
<1>4. ASSUME NEW t \in Attempts, RefreshIdentity(t) \/ UpsertAuthIdentity(t)
      PROVE  [Book!Next]_(Book!vars)
  <2>1. \A s \in Attempts : SameSession(s)
    BY <1>0, <1>4 DEF RefreshIdentity, UpsertAuthIdentity, Go, SameSession, HasSession, States
  <2>2. UNCHANGED <<WhoseBook, OwnerBook, SessionBook, HolderBook>>
    BY <1>1, <1>4, <2>1, SameSessions, SameBook DEF RefreshIdentity, UpsertAuthIdentity
  <2>3. /\ user[t] \in Attempts /\ Exists(user[t]) /\ Account(user[t]) = Account(t)
    BY <1>0, <1>4 DEF RefreshIdentity, UpsertAuthIdentity, HandlerOK, UsersMatch
  <2>4. CASE UNCHANGED identity
    BY <1>2, <2>2, <2>4
  <2>5. CASE identity' = [identity EXCEPT ![Account(t)] = user[t]]
    <3>1. OwnerBook[user[t]] = Account(t) /\ OwnerBook[user[t]] # None
      BY <1>0, <2>3 DEF OwnerBook
    <3>2. Book!Name(user[t])
      BY <2>2, <2>5, <3>1 DEF Book!Name, WhoseBook, OwnerBook, SessionBook, HolderBook
    <3> QED BY <2>3, <3>2 DEF Book!Next
  <2> QED BY <1>4, <2>4, <2>5 DEF RefreshIdentity, UpsertAuthIdentity
<1>5. ASSUME NEW t \in Attempts, CreatePlatformUser(t)
      PROVE  [Book!Next]_(Book!vars)
  <2>1. \A s \in Attempts : SameSession(s)
    BY <1>0, <1>5 DEF CreatePlatformUser, Answer, Go, SameSession, HasSession, States
  <2>2. UNCHANGED <<WhoseBook, SessionBook, HolderBook, identity>>
    BY <1>1, <1>5, <2>1, SameSessions DEF CreatePlatformUser
  <2>3. CASE UNCHANGED users
    BY <1>1, <1>2, <2>2, <2>3, SameBook
  <2>4. CASE users' = [users EXCEPT ![t] = profile[t]]
    <3>1. profile[t] # NoEmail
      BY <1>0, <1>5 DEF CreatePlatformUser, HandlerOK
    <3>2. \A u \in Attempts : /\ Account(u)' = Account(u)
                              /\ Exists(u)' <=> (u = t \/ Exists(u))
      BY <1>0, <1>1, <2>4, <3>1, AccountStays DEF Exists
    <3>3. OwnerBook' = [OwnerBook EXCEPT ![t] = Account(t)]
      BY <3>2 DEF OwnerBook
    <3>4. CASE Exists(t)
      <4>1. OwnerBook' = OwnerBook
        BY <3>3, <3>4 DEF OwnerBook
      <4> QED BY <1>2, <2>2, <4>1
    <3>5. CASE ~Exists(t)
      <4>1. OwnerBook[t] = None
        BY <3>5 DEF OwnerBook
      <4>2. Book!Register(Account(t), t)
        BY <2>2, <3>3, <4>1 DEF Book!Register, WhoseBook, OwnerBook, SessionBook, HolderBook
      <4> QED BY <1>0, <4>2 DEF Book!Next
    <3> QED BY <3>4, <3>5
  <2> QED BY <1>5, <2>3, <2>4 DEF CreatePlatformUser
<1>6. ASSUME NEW t \in Attempts, CreateAuthSession(t) \/ PostLogout(t) \/ TokenExpires(t)
      PROVE  [Book!Next]_(Book!vars)
  <2>1. UNCHANGED <<users, identity, user>>
    BY <1>6 DEF CreateAuthSession, PostLogout, TokenExpires
  <2>2. UNCHANGED <<WhoseBook, OwnerBook>>
    BY <1>1, <2>1, SameBook
  <2>3. ASSUME NEW what \in HasSession, pc' = [pc EXCEPT ![t] = what]
        PROVE  /\ SessionBook' = [SessionBook EXCEPT ![t] = SessionState(t)']
               /\ HolderBook' = [HolderBook EXCEPT ![t] = user[t]]
    <3>1. pc'[t] = what /\ \A s \in Attempts \ {t} : pc'[s] = pc[s]
      BY <1>0, <2>3
    <3> QED BY <2>1, <2>3, <3>1 DEF SessionBook, HolderBook, SessionState
  <2>4. CASE CreateAuthSession(t)
    <3>1. pc' = [pc EXCEPT ![t] = "signed in"] /\ pc[t] = "session"
      BY <2>4 DEF CreateAuthSession, Answer, Go
    <3>2. SessionState(t) = "none" /\ SessionState(t)' = "open"
      BY <1>0, <3>1 DEF SessionState
    <3>3. user[t] \in Attempts /\ Exists(user[t]) /\ Account(user[t]) = Account(t)
      BY <1>0, <3>1 DEF HandlerOK, UsersMatch
    <3>4. OwnerBook[user[t]] = WhoseBook[t]
      BY <3>3 DEF OwnerBook, WhoseBook
    <3>5. /\ SessionBook[t] = "none"
          /\ SessionBook' = [SessionBook EXCEPT ![t] = "open"]
          /\ HolderBook' = [HolderBook EXCEPT ![t] = user[t]]
      BY <2>3, <3>1, <3>2 DEF SessionBook, HasSession
    <3>6. Book!Open(t)
      BY <2>1, <2>2, <3>3, <3>4, <3>5
         DEF Book!Open, WhoseBook, OwnerBook, SessionBook, HolderBook
    <3> QED BY <3>6 DEF Book!Next
  <2>5. CASE PostLogout(t) \/ TokenExpires(t)
    <3>1. pc[t] \in {"signed in", "signed out"}
      BY <2>5 DEF PostLogout, TokenExpires, ValidateToken
    <3>2. HolderBook[t] = user[t]
      BY <3>1 DEF HolderBook, HasSession
    <3>3. HolderBook' = HolderBook
      BY <2>3, <2>5, <3>2 DEF PostLogout, TokenExpires, Go, HasSession, HolderBook
    <3>4. CASE TokenExpires(t)
      <4>1. SessionBook[t] \in {"open", "revoked"}
        BY <3>1 DEF SessionBook, SessionState
      <4>2. pc' = [pc EXCEPT ![t] = "expired"] /\ SessionState(t)' = "expired"
        BY <1>0, <3>4 DEF TokenExpires, Go, SessionState
      <4>3. SessionBook' = [SessionBook EXCEPT ![t] = "expired"]
        BY <2>3, <4>2 DEF HasSession
      <4>4. Book!Expire(t)
        BY <2>1, <2>2, <3>3, <4>1, <4>3
           DEF Book!Expire, WhoseBook, OwnerBook, SessionBook, HolderBook
      <4> QED BY <4>4 DEF Book!Next
    <3>5. CASE PostLogout(t)
      <4>1. pc' = [pc EXCEPT ![t] = "signed out"] /\ SessionState(t)' = "revoked"
        BY <1>0, <3>5 DEF PostLogout, Go, SessionState
      <4>2. SessionBook' = [SessionBook EXCEPT ![t] = "revoked"]
        BY <2>3, <4>1 DEF HasSession
      <4>3. CASE pc[t] = "signed in"
        <5>1. SessionBook[t] = "open"
          BY <4>3 DEF SessionBook, SessionState
        <5>2. Book!Revoke(t)
          BY <2>1, <2>2, <3>3, <4>2, <5>1
             DEF Book!Revoke, WhoseBook, OwnerBook, SessionBook, HolderBook
        <5> QED BY <5>2 DEF Book!Next
      <4>4. CASE pc[t] = "signed out"
        <5>1. SessionBook[t] = "revoked"
          BY <4>4 DEF SessionBook, SessionState
        <5>2. SessionBook' = SessionBook
          BY <4>2, <5>1 DEF SessionBook
        <5> QED BY <1>2, <2>1, <2>2, <3>3, <5>2
      <4> QED BY <3>1, <4>3, <4>4
    <3> QED BY <2>5, <3>4, <3>5
  <2> QED BY <1>6, <2>4, <2>5
<1> QED BY <1>0, <1>3, <1>4, <1>5, <1>6, BookEffects

LEMMA BookInit == Init => Book!Init
<1> SUFFICES ASSUME Init PROVE Book!Init
  OBVIOUS
<1>1. WhoseBook \in [Attempts -> Accounts]
  BY InitIInv, AccountTypes DEF WhoseBook, IInv
<1>2. OwnerBook = [u \in Attempts |-> None]
  BY DEF Init, OwnerBook, Exists
<1>3. SessionBook = [t \in Attempts |-> "none"] /\ HolderBook = [t \in Attempts |-> None]
  BY DEF Init, SessionBook, SessionState, HolderBook, HasSession
<1> QED BY <1>1, <1>2, <1>3
        DEF Init, Book!Init, WhoseBook, OwnerBook, SessionBook, HolderBook

(***************************************************************************)
(* Every step of overlapping, failing and repeated sign-ins is a step of   *)
(* AccountBook or leaves the tables as the API sees them alone.            *)
(***************************************************************************)
THEOREM SignInImplementsAccountBook == Spec => ImplementsAccountBook
<1>1. IInv /\ TypeOK' /\ [Next]_vars => [Book!Next]_(Book!vars)
  BY BookStep
<1> QED BY <1>1, BookInit, IInvCorrect, TypeCorrect, PTL
        DEF Spec, ImplementsAccountBook, Book!Spec
=============================================================================
