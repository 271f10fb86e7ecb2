---------------------------- MODULE ClientProofs -----------------------------
(***************************************************************************)
(* The client programs, for every value of the constants: no login attempt *)
(* is lost and none is made into two accounts; nothing of the collection   *)
(* is missing from a terminal that says it is ready, and no save of gram   *)
(* puts an old name back; the search window shows the cursor.              *)
(***************************************************************************)
EXTENDS MCClients, FiniteSetTheorems, TLAPS

(* Logging in                                                                *)
(* A token belongs to one attempt.                                           *)
OneAttempt == \A a, b \in attempts : a.token = b.token => a = b

(* An attempt in the list has not been taken, and no account is made of it.  *)
NotTaken ==
  \A a \in attempts :
    generated[a.token] = 0 /\ \A s \in serving : s.token # a.token

(* An account is made in the first step of an attempt taken, and not before. *)
MadeOnce ==
  /\ \A s \in serving : generated[s.token] = IF s.step = "generate" THEN 0 ELSE 1
  /\ \A t \in Tokens : generated[t] <= 1

AttemptInv == OneAttempt /\ NotTaken /\ MadeOnce

(* The records of a type, and what changes one field of one of them.         *)
LEMMA AttemptFields ==
  ASSUME NEW a \in UserLoginAttempt
  PROVE  /\ a.token \in Tokens /\ a.confirmed \in BOOLEAN /\ a.age \in 0 .. 3
         /\ [a EXCEPT !.confirmed = TRUE] \in UserLoginAttempt
         /\ [a EXCEPT !.age = IF a.age = 3 THEN 3 ELSE a.age + 1] \in UserLoginAttempt
<1>1. a.token \in Tokens /\ a.confirmed \in BOOLEAN /\ a.age \in 0 .. 3
  BY DEF UserLoginAttempt
<1>2. [a EXCEPT !.confirmed = TRUE] \in UserLoginAttempt
  BY DEF UserLoginAttempt
<1>3. PICK n \in 0 .. 3 : n = IF a.age = 3 THEN 3 ELSE a.age + 1
  BY <1>1
<1>4. [a EXCEPT !.age = n] \in UserLoginAttempt
  BY DEF UserLoginAttempt
<1> QED
  BY <1>1, <1>2, <1>3, <1>4

(* What gram may be doing.                                                   *)
LEMMA GramStates ==
  /\ [at |-> "idle", token |-> Nobody] \in Gram /\ [at |-> "url", token |-> Nobody] \in Gram
  /\ \A t \in Tokens, at \in {"wait", "poll", "served", "answered"} : [at |-> at, token |-> t] \in Gram
  /\ \A g \in Gram :
       /\ g = [at |-> g.at, token |-> g.token]
       /\ g.at \in {"wait", "poll", "served", "answered"} => g.token \in Tokens
BY DEF Gram, GetURLRequest, GetURLResponse, GetLoginRequest, GetLoginResponse

(* A move is counted within its bound.                                       *)
LEMMA LoginMoveCounted ==
  ASSUME logins \in 0 .. MaxLoginMove, LoginMove
  PROVE  logins' \in 0 .. MaxLoginMove
BY LoginAssumption DEF LoginMove

(* The steps of the server keep the types.                                   *)
LEMMA ServerTypes ==
  ASSUME LoginTypeOK,
         \/ \E m \in Machines : (\E t \in Tokens : GetURL(m, t)) \/ RefuseURL(m) \/ TakeAttempt(m) \/ RefuseLogin(m)
         \/ \E t \in Tokens : BeginCallback(t) \/ SaveLogins(t) \/ UpgradeUser(t) \/ FailCallback(t)
         \/ Serve \/ Refresh \/ Age \/ \E s \in serving : FailLogin(s)
  PROVE  LoginTypeOK'
<1> USE GramStates, LoginMoveCounted DEF LoginTypeOK, UserLoginAttempts, SetGram
<1>1. ASSUME NEW m \in Machines, NEW t \in Tokens, GetURL(m, t) PROVE LoginTypeOK'
  <2>1. [token |-> t, confirmed |-> FALSE, age |-> 0] \in UserLoginAttempt
    BY DEF UserLoginAttempt
  <2> QED
    BY <1>1, <2>1 DEF GetURL, LoadLogins
<1>2. ASSUME NEW m \in Machines, RefuseURL(m) PROVE LoginTypeOK'
  BY <1>2 DEF RefuseURL, server
<1>3. ASSUME NEW m \in Machines, TakeAttempt(m) PROVE LoginTypeOK'
  <2>1. gram[m].token \in Tokens
    BY <1>3 DEF TakeAttempt
  <2>2. gram' \in [Machines -> Gram]
    BY <1>3, <2>1 DEF TakeAttempt
  <2>3. serving' \subseteq [token : Tokens, step : {"generate", "save"}]
    BY <1>3, <2>1 DEF TakeAttempt
  <2>4. attempts' \subseteq UserLoginAttempt
    BY <1>3 DEF TakeAttempt, LoadLogins
  <2> QED
    BY <1>3, <2>2, <2>3, <2>4 DEF TakeAttempt
<1>4. ASSUME NEW m \in Machines, RefuseLogin(m) PROVE LoginTypeOK'
  BY <1>4 DEF RefuseLogin, server
<1>5. ASSUME NEW t \in Tokens, BeginCallback(t) PROVE LoginTypeOK'
  BY <1>5 DEF BeginCallback
<1>6. ASSUME NEW t \in Tokens, SaveLogins(t) PROVE LoginTypeOK'
  <2>1. attempts' \subseteq UserLoginAttempt
    <3>1. \A a \in attempts : a \in UserLoginAttempt /\ [a EXCEPT !.confirmed = TRUE] \in UserLoginAttempt
      BY AttemptFields
    <3> QED
      BY <1>6, <3>1 DEF SaveLogins
  <2> QED
    BY <1>6, <2>1 DEF SaveLogins
<1>7. ASSUME NEW t \in Tokens, UpgradeUser(t) PROVE LoginTypeOK'
  <2>1. users' \in [GramophileAuth -> StoredUser]
    BY <1>7 DEF UpgradeUser, StoredUser, UserState
  <2> QED
    BY <1>7, <2>1 DEF UpgradeUser
<1>8. ASSUME NEW t \in Tokens, FailCallback(t) PROVE LoginTypeOK'
  BY <1>8 DEF FailCallback
<1>9. ASSUME NEW s \in serving, GenerateToken(s) PROVE LoginTypeOK'
  <2>1. /\ s.token \in Tokens
        /\ [s EXCEPT !.step = "save"] \in [token : Tokens, step : {"generate", "save"}]
    OBVIOUS
  <2>2. generated' \in [Tokens -> Nat]
    <3>1. generated \in [Tokens -> Nat] /\ generated[s.token] + 1 \in Nat
      BY <2>1
    <3> QED
      BY <1>9, <3>1 DEF GenerateToken
  <2>3. users' \in [GramophileAuth -> StoredUser]
    BY <1>9, <2>1 DEF GenerateToken, StoredUser, UserState
  <2>4. serving' \subseteq [token : Tokens, step : {"generate", "save"}]
    BY <1>9, <2>1 DEF GenerateToken
  <2> QED
    BY <1>9, <2>2, <2>3, <2>4 DEF GenerateToken
<1>10. ASSUME NEW s \in serving, SaveUser(s) PROVE LoginTypeOK'
  <2>1. gram' \in [Machines -> Gram]
    <3>1. \A m \in Machines : gram[m].at = "served" =>
            gram[m].token \in Tokens /\ [gram[m] EXCEPT !.at = "answered"] = [at |-> "answered", token |-> gram[m].token]
      OBVIOUS
    <3>2. \A m \in Machines :
            (IF gram[m] = [at |-> "served", token |-> s.token] THEN [gram[m] EXCEPT !.at = "answered"] ELSE gram[m]) \in Gram
      BY <3>1
    <3> QED
      BY <1>10, <3>2 DEF SaveUser
  <2>2. users' \in [GramophileAuth -> StoredUser]
    BY <1>10 DEF SaveUser, StoredUser, UserState
  <2> QED
    BY <1>10, <2>1, <2>2 DEF SaveUser
<1>11. ASSUME NEW s \in serving, FailLogin(s) PROVE LoginTypeOK'
  <2>1. gram' \in [Machines -> Gram]
    BY <1>11 DEF FailLogin
  <2> QED
    BY <1>11, <2>1 DEF FailLogin
<1>12. ASSUME NEW a \in Tokens, LoadForRefresh(a) PROVE LoginTypeOK'
  BY <1>12 DEF LoadForRefresh
<1>13. ASSUME NEW a \in Tokens, SaveRefreshed(a) PROVE LoginTypeOK'
  BY <1>13 DEF SaveRefreshed, StoredUser, UserState
<1>14. ASSUME Age PROVE LoginTypeOK'
  <2>1. attempts' \subseteq UserLoginAttempt
    <3>1. \A a \in attempts : [a EXCEPT !.age = IF a.age = 3 THEN 3 ELSE a.age + 1] \in UserLoginAttempt
      BY AttemptFields
    <3> QED
      BY <1>14, <3>1 DEF Age
  <2>2. gram' \in [Machines -> Gram]
    BY <1>14 DEF Age
  <2> QED
    BY <1>14, <2>1, <2>2 DEF Age
<1> QED
  BY <1>1, <1>2, <1>3, <1>4, <1>5, <1>6, <1>7, <1>8, <1>9, <1>10, <1>11, <1>12, <1>13, <1>14
  DEF Serve, Refresh

(* ... and so do those of gram and the terminal.                             *)
LEMMA MachineTypes ==
  ASSUME LoginTypeOK, NEW m \in Machines,
         \/ StartLogin(m) \/ PollLogin(m) \/ SaveToken(m)
         \/ HandleStartup(m) \/ PollAccount(m) \/ FailGetUser(m)
         \/ \E auth \in GramophileAuth \ {Nobody} : TypeToken(m, auth)
  PROVE  LoginTypeOK'
<1> USE LoginMoveCounted DEF LoginTypeOK, server
<1> USE DEF SetGram, SetTui, SetPoll
<1>1. CASE StartLogin(m)
  BY <1>1, GramStates DEF StartLogin
<1>2. CASE PollLogin(m)
  BY <1>2, GramStates DEF PollLogin
<1>3. CASE SaveToken(m)
  <2>1. gram[m].token \in GramophileAuth
    BY <1>3, GramStates DEF SaveToken, GramophileAuth
  <2> QED
    BY <1>3, <2>1, GramStates DEF SaveToken
<1>4. CASE HandleStartup(m)
  BY <1>4 DEF HandleStartup, AppState, SyncStatus, GramophileAuth
<1>5. CASE FailGetUser(m)
  BY <1>5 DEF FailGetUser, SyncStatus
<1>6. ASSUME NEW auth \in GramophileAuth, TypeToken(m, auth) PROVE LoginTypeOK'
  BY <1>6 DEF TypeToken, AppState, SyncStatus
<1>7. CASE PollSync(m)
  BY <1>7 DEF PollSync, SyncStatus
<1>8. CASE GetUser(m)
  BY <1>8 DEF GetUser, SyncStatus, StoredUser
<1>9. CASE ReceiveLoadingSync(m)
  BY <1>9 DEF ReceiveLoadingSync, AppState, SyncStatus
<1>10. CASE ReceiveWaitlist(m)
  BY <1>10 DEF ReceiveWaitlist, AppState, SyncStatus
<1> QED
  BY <1>1, <1>2, <1>3, <1>4, <1>5, <1>6, <1>7, <1>8, <1>9, <1>10 DEF PollAccount

(* No step leaves the types.                                                 *)
LEMMA LoginTypeStep == LoginTypeOK /\ [LoginNext]_loginVars => LoginTypeOK'
<1> SUFFICES ASSUME LoginTypeOK, [LoginNext]_loginVars
             PROVE  LoginTypeOK'
  OBVIOUS
<1>1. CASE UNCHANGED loginVars
  BY <1>1 DEF loginVars, LoginTypeOK
<1>2. CASE LoginNext
  BY <1>2, ServerTypes, MachineTypes DEF LoginNext, LoginStep, LoginFault
<1> QED
  BY <1>1, <1>2

(* Attempts, accounts, gram and the terminal keep their types               *)
(* (server/external.go, server/callback.go, gram/login.go, tui.go).         *)
THEOREM LoginTypeCorrect == LoginSpec => []LoginTypeOK
<1>1. LoginInit => LoginTypeOK
  <2> SUFFICES ASSUME LoginInit PROVE LoginTypeOK
    OBVIOUS
  <2>1. attempts \in UserLoginAttempts /\ callback \in [Tokens -> {"none", "asking", "done"}]
    BY DEF LoginInit, UserLoginAttempts
  <2>2. users \in [GramophileAuth -> StoredUser] /\ file \in [Machines -> GramophileAuth]
    BY DEF LoginInit, StoredUser, UserState, GramophileAuth
  <2>3. generated \in [Tokens -> Nat] /\ logins \in 0 .. MaxLoginMove
    BY LoginAssumption DEF LoginInit
  <2>4. gram \in [Machines -> Gram]
    BY GramStates DEF LoginInit
  <2>5. tui \in [Machines -> [state : AppState, auth : GramophileAuth, poll : SyncStatus]]
    BY DEF LoginInit, AppState, SyncStatus, GramophileAuth
  <2> QED
    BY <2>1, <2>2, <2>3, <2>4, <2>5 DEF LoginInit, LoginTypeOK
<1> QED
  BY <1>1, LoginTypeStep, PTL DEF LoginSpec

-----------------------------------------------------------------------------
(* What gram, the terminal and the refresh do leaves the attempts alone.     *)
LEMMA OthersLeaveAttempts ==
  ASSUME \/ UNCHANGED loginVars
         \/ \E m \in Machines :
              \/ RefuseURL(m) \/ RefuseLogin(m) \/ StartLogin(m) \/ PollLogin(m) \/ SaveToken(m)
              \/ HandleStartup(m) \/ PollAccount(m) \/ FailGetUser(m)
              \/ \E auth \in GramophileAuth \ {Nobody} : TypeToken(m, auth)
         \/ \E t \in Tokens : BeginCallback(t) \/ UpgradeUser(t) \/ FailCallback(t)
         \/ Refresh
  PROVE  UNCHANGED <<attempts, serving, generated>>
<1> USE DEF server
<1>1. CASE UNCHANGED loginVars
  BY <1>1 DEF loginVars
<1>2. ASSUME NEW m \in Machines,
             \/ RefuseURL(m) \/ RefuseLogin(m) \/ StartLogin(m) \/ PollLogin(m) \/ SaveToken(m)
             \/ HandleStartup(m) \/ PollAccount(m) \/ FailGetUser(m)
             \/ \E auth \in GramophileAuth \ {Nobody} : TypeToken(m, auth)
      PROVE  UNCHANGED <<attempts, serving, generated>>
  BY <1>2 DEF RefuseURL, RefuseLogin, StartLogin, PollLogin, SaveToken, HandleStartup, PollAccount,
              PollSync, GetUser, ReceiveLoadingSync, ReceiveWaitlist, FailGetUser, TypeToken
<1>3. ASSUME NEW t \in Tokens, BeginCallback(t) \/ UpgradeUser(t) \/ FailCallback(t)
      PROVE  UNCHANGED <<attempts, serving, generated>>
  BY <1>3 DEF BeginCallback, UpgradeUser, FailCallback
<1>4. CASE Refresh
  BY <1>4 DEF Refresh, LoadForRefresh, SaveRefreshed
<1> QED
  BY <1>1, <1>2, <1>3, <1>4

(* What AttemptsKept says of a step.                                         *)
Loss ==
  /\ \A a \in attempts : Fresh(a) => Kept(a) \/ Taken(a)
  /\ \A t \in Tokens : generated'[t] <= 1

(* GetURL adds an attempt of a token that is new.                            *)
LEMMA GetURLKeeps ==
  ASSUME LoginTypeOK, AttemptInv, NEW m \in Machines, NEW t \in Tokens, GetURL(m, t)
  PROVE  AttemptInv' /\ Loss
<1> DEFINE new == [token |-> t, confirmed |-> FALSE, age |-> 0]
<1>1. /\ attempts' = LoadLogins \cup {new} /\ LoadLogins \subseteq attempts
      /\ UNCHANGED <<serving, generated>>
  BY DEF GetURL, LoadLogins
<1>2. /\ \A a \in attempts : a.token # t
      /\ \A s \in serving : s.token # t
      /\ generated[t] = 0
  BY DEF GetURL, Issued
<1>3. AttemptInv'
  <2>1. new.token = t /\ \A a \in attempts' : a \in attempts \/ a = new
    BY <1>1
  <2> HIDE DEF new
  <2>2. OneAttempt'
    BY <1>2, <2>1 DEF AttemptInv, OneAttempt
  <2>3. NotTaken'
    BY <1>1, <1>2, <2>1 DEF AttemptInv, NotTaken
  <2> QED
    BY <1>1, <2>2, <2>3 DEF AttemptInv, MadeOnce
<1>4. Loss
  BY <1>1 DEF Loss, Kept, LoadLogins, AttemptInv, MadeOnce
<1> QED
  BY <1>3, <1>4

(* GetLogin takes the one attempt of a token if it is confirmed.             *)
LEMMA TakeAttemptKeeps ==
  ASSUME LoginTypeOK, AttemptInv, NEW m \in Machines, TakeAttempt(m)
  PROVE  AttemptInv' /\ Loss
<1> DEFINE t == gram[m].token
           new == [token |-> t, step |-> "generate"]
<1>1. /\ attempts' = LoadLogins \ Ready(t) /\ LoadLogins \subseteq attempts
      /\ serving' = serving \cup {new}
      /\ UNCHANGED generated
  BY DEF TakeAttempt, LoadLogins
<1>2. PICK a \in attempts : a.token = t /\ a \in Ready(t)
  BY DEF TakeAttempt, Ready, LoadLogins
<1>3. generated[t] = 0 /\ \A s \in serving : s.token # t
  BY <1>2 DEF AttemptInv, NotTaken
<1>4. \A b \in attempts' : b \in attempts /\ b.token # t
  BY <1>1, <1>2 DEF AttemptInv, OneAttempt
<1>5. AttemptInv'
  BY <1>1, <1>3, <1>4 DEF AttemptInv, OneAttempt, NotTaken, MadeOnce
<1>6. ASSUME NEW b \in attempts, Fresh(b) PROVE Kept(b) \/ Taken(b)
  <2>1. CASE b \in Ready(t)
    BY <1>1, <1>3, <2>1 DEF Taken, Ready
  <2>2. CASE b \notin Ready(t)
    BY <1>1, <1>6, <2>2 DEF Kept, LoadLogins
  <2> QED
    BY <2>1, <2>2
<1> QED
  BY <1>1, <1>5, <1>6 DEF Loss, AttemptInv, MadeOnce

(* What GetLogin goes on to do, to the end or to a failure, makes one        *)
(* account.                                                                  *)
LEMMA ServingKeeps ==
  ASSUME LoginTypeOK, AttemptInv, NEW s \in serving, GenerateToken(s) \/ SaveUser(s) \/ FailLogin(s)
  PROVE  AttemptInv' /\ Loss
<1>1. UNCHANGED attempts
  BY DEF GenerateToken, SaveUser, FailLogin
<1>2. AttemptInv'
  <2>1. CASE GenerateToken(s)
    <3>1. s.token \in Tokens /\ s.step = "generate" /\ generated[s.token] = 0
      BY <2>1 DEF GenerateToken, LoginTypeOK, AttemptInv, MadeOnce
    <3>2. \A r \in serving : r.token = s.token => r = s
      <4> SUFFICES ASSUME NEW r \in serving, r.token = s.token PROVE r = s
        OBVIOUS
      <4>1. r.step = "generate"
        BY <3>1 DEF AttemptInv, MadeOnce
      <4> QED
        BY <3>1, <4>1 DEF LoginTypeOK
    <3>3. generated'[s.token] = 1 /\ \A t \in Tokens \ {s.token} : generated'[t] = generated[t]
      BY <2>1, <3>1 DEF GenerateToken, LoginTypeOK
    <3>4. \A r \in serving' : \/ r \in serving /\ r.token # s.token
                              \/ r.token = s.token /\ r.step = "save"
      BY <2>1, <3>2 DEF GenerateToken, LoginTypeOK
    <3>5. /\ \A r \in serving : r.token \in Tokens
          /\ \A a \in attempts : a.token \in Tokens /\ a.token # s.token
      BY AttemptFields DEF LoginTypeOK, UserLoginAttempts, AttemptInv, NotTaken
    <3>6. MadeOnce'
      BY <3>1, <3>3, <3>4, <3>5 DEF AttemptInv, MadeOnce
    <3>7. NotTaken'
      BY <1>1, <3>3, <3>4, <3>5 DEF AttemptInv, NotTaken
    <3> QED
      BY <1>1, <3>6, <3>7 DEF AttemptInv, OneAttempt
  <2>2. CASE SaveUser(s) \/ FailLogin(s)
    <3>1. serving' \subseteq serving /\ UNCHANGED generated
      BY <2>2 DEF SaveUser, FailLogin
    <3> QED
      BY <1>1, <3>1 DEF AttemptInv, OneAttempt, NotTaken, MadeOnce
  <2> QED
    BY <2>1, <2>2
<1> QED
  BY <1>1, <1>2 DEF Loss, Kept, AttemptInv, MadeOnce

(* The callback and the time change attempts one by one and keep tokens.     *)
LEMMA RewriteKeeps ==
  ASSUME LoginTypeOK, AttemptInv, Age \/ \E t \in Tokens : SaveLogins(t)
  PROVE  AttemptInv' /\ Loss
<1>1. UNCHANGED <<serving, generated>>
  BY DEF Age, SaveLogins
<1>2. PICK f \in [attempts -> UserLoginAttempt] :
        /\ attempts' = {f[a] : a \in attempts}
        /\ \A a \in attempts : f[a].token = a.token /\ (a.confirmed => f[a].confirmed)
  <2>1. CASE Age
    <3> DEFINE f == [a \in attempts |-> [a EXCEPT !.age = IF a.age = 3 THEN 3 ELSE a.age + 1]]
    <3>1. \A a \in attempts : /\ a \in UserLoginAttempt /\ f[a] \in UserLoginAttempt
                              /\ f[a].token = a.token /\ f[a].confirmed = a.confirmed
      BY AttemptFields DEF LoginTypeOK, UserLoginAttempts, UserLoginAttempt
    <3>2. attempts' = {f[a] : a \in attempts}
      BY <2>1 DEF Age
    <3>3. f \in [attempts -> UserLoginAttempt]
      BY <3>1
    <3> HIDE DEF f
    <3> QED
      BY <3>1, <3>2, <3>3
  <2>2. ASSUME NEW t \in Tokens, SaveLogins(t)
        PROVE  \E f \in [attempts -> UserLoginAttempt] :
                 /\ attempts' = {f[a] : a \in attempts}
                 /\ \A a \in attempts : f[a].token = a.token /\ (a.confirmed => f[a].confirmed)
    <3> DEFINE f == [a \in attempts |-> IF a.token = t THEN [a EXCEPT !.confirmed = TRUE] ELSE a]
    <3>1. \A a \in attempts : /\ a \in UserLoginAttempt /\ f[a] \in UserLoginAttempt
                              /\ f[a].token = a.token /\ (a.confirmed => f[a].confirmed)
      BY AttemptFields DEF LoginTypeOK, UserLoginAttempts, UserLoginAttempt
    <3>2. attempts' = {f[a] : a \in attempts}
      BY <2>2 DEF SaveLogins
    <3>3. f \in [attempts -> UserLoginAttempt]
      BY <3>1
    <3> HIDE DEF f
    <3> QED
      BY <3>1, <3>2, <3>3
  <2> QED
    BY <2>1, <2>2
<1>3. AttemptInv'
  BY <1>1, <1>2 DEF AttemptInv, OneAttempt, NotTaken, MadeOnce
<1>4. \A a \in attempts : Kept(a)
  BY <1>2 DEF Kept
<1> QED
  BY <1>1, <1>3, <1>4 DEF Loss, AttemptInv, MadeOnce

(* Every step keeps the invariant and loses no attempt.                      *)
LEMMA AttemptStep ==
  LoginTypeOK /\ AttemptInv /\ [LoginNext]_loginVars => AttemptInv' /\ Loss
<1> SUFFICES ASSUME LoginTypeOK, AttemptInv, [LoginNext]_loginVars
             PROVE  AttemptInv' /\ Loss
  OBVIOUS
<1>1. CASE UNCHANGED <<attempts, serving, generated>>
  BY <1>1 DEF AttemptInv, OneAttempt, NotTaken, MadeOnce, Loss, Kept
<1>2. CASE \E m \in Machines : TakeAttempt(m) \/ \E t \in Tokens : GetURL(m, t)
  BY <1>2, GetURLKeeps, TakeAttemptKeeps
<1>3. CASE Serve \/ \E s \in serving : FailLogin(s)
  BY <1>3, ServingKeeps DEF Serve
<1>4. CASE Age \/ \E t \in Tokens : SaveLogins(t)
  BY <1>4, RewriteKeeps
<1> QED
  BY <1>1, <1>2, <1>3, <1>4, OthersLeaveAttempts DEF LoginNext, LoginStep, LoginFault

(* No login attempt younger than fifteen minutes is lost unless an account   *)
(* is being made of it, and never two are made: for any number of machines   *)
(* that log in at once, with failures at any step (external.go:34-127,       *)
(* callback.go:38-86).                                                       *)
THEOREM NoAttemptLost == LoginSpec => AttemptsKept
<1>1. LoginInit => AttemptInv
  BY DEF LoginInit, AttemptInv, OneAttempt, NotTaken, MadeOnce
<1>2. LoginTypeOK /\ AttemptInv /\ [LoginNext]_loginVars => AttemptInv' /\ [Loss]_loginVars
  BY AttemptStep
<1> QED
  BY <1>1, <1>2, LoginTypeCorrect, PTL DEF LoginSpec, AttemptsKept, Loss

(* The cache file                                                            *)
Disk == [file : 0 .. 4, tmp : 0 .. 4, data : [Inodes -> Inode]]
Saver == [at : {"idle", "marshalled", "opened", "written", "failed"}, content : Content, inode : 0 .. 4]
Flight == [at : {"none", "queued", "fetching", "stored", "saving"}, tries : 0 .. Attempts - 1, content : Content]
Caller == {NoCaller} \cup [key : Keys, at : {"missed", "waiting"}]
Syncing == [at : {"none", "asked", "answered", "saving"}, records : SUBSET Records]

(* Only a save that has opened the temporary file holds an inode, and while  *)
(* there is a save that does, the temporary file is one of theirs: so of the *)
(* four inodes one is always free.                                           *)
Holds ==
  /\ \A s \in Savers : saver[s].at \in {"idle", "marshalled"} => saver[s].inode = 0
  /\ disk.tmp = 0 \/ (\A s \in Savers : saver[s].inode = 0) \/ (\E s \in Savers : saver[s].inode = disk.tmp)

TypeInv == CacheTypeOK /\ week <= cacheMoves /\ Holds

(* Nothing is a content, and what changes a part of one makes another.       *)
LEMMA Contents ==
  /\ Nothing \in Content
  /\ \A c \in Content, rs \in SUBSET Records, w \in Stamp :
       [c EXCEPT !.collection = [records |-> rs, synced |-> w]] \in Content
  /\ \A c \in Content, rs \in SUBSET Records : [c EXCEPT !.collection.records = rs] \in Content
  /\ \A c \in Content, k \in Keys, w \in Stamp : [c EXCEPT !.names[k] = w] \in Content
<1>1. -1 \in Stamp
  BY CacheAssumption DEF Stamp
<1>2. [k \in Keys |-> -1] \in RecordCache
  BY <1>1 DEF RecordCache, RecordCacheEntry
<1>3. Nothing \in Content
  BY <1>1, <1>2 DEF Nothing, Content, CollectionCache, CachedRecord
<1>4. ASSUME NEW c \in Content
      PROVE  /\ c = [collection |-> c.collection, names |-> c.names]
             /\ c.collection \in CollectionCache /\ c.names \in RecordCache
  BY DEF Content
<1>5. ASSUME NEW c \in Content, NEW rs \in SUBSET Records, NEW w \in Stamp
      PROVE  [c EXCEPT !.collection = [records |-> rs, synced |-> w]] \in Content
  BY <1>4 DEF Content, CollectionCache, CachedRecord
<1>6. ASSUME NEW c \in Content, NEW rs \in SUBSET Records
      PROVE  [c EXCEPT !.collection.records = rs] \in Content
  BY <1>4 DEF Content, CollectionCache, CachedRecord
<1>7. ASSUME NEW c \in Content, NEW k \in Keys, NEW w \in Stamp
      PROVE  [c EXCEPT !.names[k] = w] \in Content
  BY <1>4 DEF Content, RecordCache, RecordCacheEntry
<1> QED
  BY <1>3, <1>5, <1>6, <1>7

(* An inode is free when a file is made.                                     *)
LEMMA FreeInode ==
  ASSUME TypeInv
  PROVE  Free \in Inodes
<1> DEFINE a == saver["screen"].inode
           b == saver["sync"].inode
<1>1. /\ disk.file \in 0 .. 4 /\ disk.tmp \in 0 .. 4 /\ a \in 0 .. 4 /\ b \in 0 .. 4
      /\ {saver[s].inode : s \in Savers} = {a, b}
      /\ disk.tmp = 0 \/ (a = 0 /\ b = 0) \/ disk.tmp \in {a, b}
  BY DEF TypeInv, CacheTypeOK, Holds, Savers
<1>2. \E i \in 1 .. 4 : i \notin {disk.file, disk.tmp, a, b}
  <2> HIDE DEF a, b
  <2>1. 1 \in 1 .. 4 /\ 2 \in 1 .. 4 /\ 3 \in 1 .. 4 /\ 4 \in 1 .. 4
    OBVIOUS
  <2> QED
    BY <1>1, <2>1
<1> QED
  BY <1>1, <1>2 DEF Free, Inodes

(* What is read from the disk is a content, and one of those on it.          *)
LEMMA ReadingTypes ==
  ASSUME TypeInv, NEW r \in Readings
  PROVE  /\ r \in [content : Content, status : CacheStatus]
         /\ r.content = Nothing \/ \E i \in Inodes : r.content = disk.data[i].content
<1>1. disk.file = 0 \/ (disk.file \in Inodes /\ disk.data[disk.file] \in Inode)
  BY DEF TypeInv, CacheTypeOK, Inodes
<1> QED
  BY <1>1, Contents DEF Readings, Inode, CacheStatus

(* Renaming the temporary file.                                              *)
LEMMA RenameKeepsDisk ==
  ASSUME NEW d \in Disk
  PROVE  [d EXCEPT !.file = d.tmp, !.tmp = 0] \in Disk
<1>1. d.tmp \in 0 .. 4 /\ 0 \in 0 .. 4
  BY DEF Disk
<1>2. [d EXCEPT !.file = d.tmp] \in Disk
  BY <1>1 DEF Disk
<1>3. [[d EXCEPT !.file = d.tmp] EXCEPT !.tmp = 0] \in Disk
  BY <1>1, <1>2 DEF Disk
<1>4. [d EXCEPT !.file = d.tmp, !.tmp = 0] = [[d EXCEPT !.file = d.tmp] EXCEPT !.tmp = 0]
  BY Zenon
<1> QED
  BY <1>3, <1>4

(* What a save does to the disk.                                             *)
LEMMA DiskWrites ==
  ASSUME NEW d \in Disk, NEW i \in Inodes, NEW n \in Inode
  PROVE  /\ [d EXCEPT !.tmp = i, !.data[i].state = "empty"] \in Disk
         /\ [d EXCEPT !.data[i] = n] \in Disk
         /\ [d EXCEPT !.file = d.tmp, !.tmp = 0] \in Disk
         /\ [d EXCEPT !.file = i, !.data[i] = n] \in Disk
<1>1. d.data \in [Inodes -> Inode] /\ i \in 0 .. 4
  BY DEF Disk, Inodes
<1>2. [d.data[i] EXCEPT !.state = "empty"] \in Inode
  BY <1>1 DEF Inode
<1>3. [d EXCEPT !.tmp = i, !.data[i].state = "empty"] \in Disk
  BY <1>1, <1>2 DEF Disk
<1>4. [d EXCEPT !.data[i] = n] \in Disk
  BY <1>1 DEF Disk
<1>5. [d EXCEPT !.file = d.tmp, !.tmp = 0] \in Disk
  BY RenameKeepsDisk
<1>6. [d EXCEPT !.file = i, !.data[i] = n] \in Disk
  BY <1>1 DEF Disk
<1> QED
  BY <1>3, <1>4, <1>5, <1>6

(* A move is counted within its bound, and so are the weeks.                 *)
LEMMA CacheMoveCounted ==
  ASSUME TypeInv, CacheMove
  PROVE  /\ cacheMoves' \in 0 .. MaxCacheMove /\ cacheMoves' = cacheMoves + 1
         /\ week + 1 \in Weeks
BY CacheAssumption DEF TypeInv, CacheTypeOK, CacheMove, Weeks

(* The week is a time stamp.                                                 *)
LEMMA WeekIsStamp ==
  ASSUME TypeInv
  PROVE  week \in Stamp /\ -1 \in Stamp /\ week >= 0
BY CacheAssumption DEF TypeInv, CacheTypeOK, Weeks, Stamp

(* The screen, the synchronization and the user leave the disk and the types *)
(* alone.                                                                    *)
LEMMA TerminalTypes ==
  ASSUME TypeInv,
         \/ StartTerminal \/ GetAllRecords \/ FailGetAllRecords \/ Populate \/ ReceiveCacheSyncStatus
         \/ UpsertRecord \/ \E r \in Records : FetchPriorityRecord(r)
  PROVE  TypeInv'
<1> USE DEF CacheTypeOK
<1>1. CASE StartTerminal
  <2>1. PICK r \in Readings :
          LET usable == r.content.collection.records # {} /\ r.status # "rebuilding" /\ ~IsExpired(r.content)
          IN /\ cm' = [r EXCEPT !.status = IF usable THEN "ready" ELSE "syncing"]
             /\ index' = r.content.collection.records
             /\ syncing' = IF usable THEN NoSync ELSE [at |-> "asked", records |-> {}]
    BY <1>1 DEF StartTerminal, LoadFromDisk
  <2>2. r \in [content : Content, status : CacheStatus]
    BY ReadingTypes
  <2>3. cm' \in [content : Content, status : CacheStatus]
    BY <2>1, <2>2 DEF CacheStatus
  <2>4. index' \subseteq Records
    BY <2>1, <2>2 DEF Content, CollectionCache, CachedRecord
  <2>5. syncing' \in Syncing
    BY <2>1 DEF Syncing, NoSync
  <2>6. saver' \in [Savers -> Saver] /\ \A s \in Savers : saver'[s].inode = 0
    BY <1>1, Contents DEF StartTerminal, NoSaves, Idle, Saver
  <2>7. Holds'
    BY <2>6 DEF Holds
  <2>8. started' \in Stamp /\ priority' \in Records \cup {NoRecord}
    BY <1>1, WeekIsStamp DEF StartTerminal
  <2>9. cacheMoves' \in 0 .. MaxCacheMove /\ week' <= cacheMoves'
    BY <1>1, CacheMoveCounted DEF StartTerminal, TypeInv, Weeks
  <2> QED
    BY <1>1, <2>3, <2>4, <2>5, <2>6, <2>7, <2>8, <2>9 DEF StartTerminal, TypeInv, Syncing, Saver
<1>2. CASE GetAllRecords
  <2>1. syncing' \in Syncing
    BY <1>2 DEF GetAllRecords, Syncing, InCollection
  <2> QED
    BY <1>2, <2>1 DEF GetAllRecords, TypeInv, Holds, Syncing
<1>3. CASE FailGetAllRecords
  <2>1. cm' \in [content : Content, status : CacheStatus] /\ syncing' \in Syncing
    BY <1>3 DEF FailGetAllRecords, TypeInv, CacheStatus, Syncing, NoSync
  <2>2. cacheMoves' \in 0 .. MaxCacheMove /\ week' <= cacheMoves'
    BY <1>3, CacheMoveCounted DEF FailGetAllRecords, TypeInv, Weeks
  <2> QED
    BY <1>3, <2>1, <2>2 DEF FailGetAllRecords, TypeInv, Holds, Syncing
<1>4. CASE Populate
  <2> DEFINE content == [Nothing EXCEPT !.collection = [records |-> syncing.records, synced |-> week]]
  <2>1. content \in Content /\ syncing.records \subseteq Records
    BY Contents, WeekIsStamp DEF TypeInv
  <2> HIDE DEF content
  <2>2. /\ cm' = [content |-> content, status |-> "ready"]
        /\ syncing' = [syncing EXCEPT !.at = "saving"]
        /\ saver' = [saver EXCEPT !["sync"] = [at |-> "marshalled", content |-> content, inode |-> 0]]
        /\ saver["sync"].at = "idle"
    BY <1>4 DEF Populate, Marshal, content
  <2>3. saver' \in [Savers -> Saver]
    BY <2>1, <2>2 DEF TypeInv, Saver, Savers
  <2>4. Holds'
    BY <1>4, <2>2 DEF Populate, TypeInv, Holds, Savers
  <2>5. cm' \in [content : Content, status : CacheStatus] /\ syncing' \in Syncing
    BY <2>1, <2>2 DEF TypeInv, CacheStatus, Syncing
  <2> QED
    BY <1>4, <2>3, <2>4, <2>5 DEF Populate, TypeInv, Saver, Syncing
<1>5. CASE ReceiveCacheSyncStatus
  <2>1. cm' \in [content : Content, status : CacheStatus] /\ syncing' \in Syncing
    BY <1>5 DEF ReceiveCacheSyncStatus, TypeInv, CacheStatus, Syncing, NoSync
  <2>2. index' \subseteq Records
    BY <1>5 DEF ReceiveCacheSyncStatus, TypeInv
  <2> QED
    BY <1>5, <2>1, <2>2 DEF ReceiveCacheSyncStatus, TypeInv, Holds, Syncing
<1>6. CASE UpsertRecord
  <2> DEFINE content == Upserted(priority)
  <2>1. priority \in Records
    BY <1>6 DEF UpsertRecord, TypeInv
  <2>2. content \in Content
    <3>1. cm.content \in Content /\ cm.content.collection.records \cup {priority} \in SUBSET Records
      BY <2>1 DEF TypeInv, Content, CollectionCache, CachedRecord
    <3> QED
      BY <3>1, Contents DEF Upserted
  <2> HIDE DEF content
  <2>3. /\ cm' = [cm EXCEPT !.content = content] /\ index' = index \cup {priority} /\ priority' = NoRecord
        /\ saver' = [saver EXCEPT !["screen"] = [at |-> "marshalled", content |-> content, inode |-> 0]]
        /\ saver["screen"].at = "idle"
    BY <1>6 DEF UpsertRecord, Marshal, content
  <2>4. saver' \in [Savers -> Saver]
    BY <2>2, <2>3 DEF TypeInv, Saver, Savers
  <2>5. Holds'
    BY <1>6, <2>3 DEF UpsertRecord, TypeInv, Holds, Savers
  <2>6. cm' \in [content : Content, status : CacheStatus] /\ index' \subseteq Records
    BY <2>1, <2>2, <2>3 DEF TypeInv
  <2> QED
    BY <1>6, <2>3, <2>4, <2>5, <2>6 DEF UpsertRecord, TypeInv, Saver
<1>7. ASSUME NEW r \in Records, FetchPriorityRecord(r) PROVE TypeInv'
  <2>1. cacheMoves' \in 0 .. MaxCacheMove /\ week' <= cacheMoves'
    BY <1>7, CacheMoveCounted DEF FetchPriorityRecord, TypeInv, Weeks
  <2> QED
    BY <1>7, <2>1 DEF FetchPriorityRecord, TypeInv, Holds
<1> QED
  BY <1>1, <1>2, <1>3, <1>4, <1>5, <1>6, <1>7

(* A save writes the disk file by file.                                      *)
LEMMA SaverTypes ==
  ASSUME TypeInv, Saving \/ \E s \in Savers : FailRenameTmp(s)
  PROVE  TypeInv'
<1>1. disk \in Disk /\ saver \in [Savers -> Saver]
  BY DEF TypeInv, CacheTypeOK, Disk, Saver
<1>0. cacheMoves' \in 0 .. MaxCacheMove /\ cacheMoves <= cacheMoves'
  <2>1. cacheMoves \in 0 .. MaxCacheMove
    BY DEF TypeInv, CacheTypeOK
  <2>2. CacheMove \/ UNCHANGED cacheMoves
    BY DEF Saving, OpenTmp, WriteTmp, RenameTmp, RemoveTmp, FailRenameTmp
  <2>3. CASE CacheMove
    BY <2>1, <2>3, CacheMoveCounted
  <2> QED
    BY <2>1, <2>2, <2>3
<1> SUFFICES ASSUME NEW s \in Savers, OpenTmp(s) \/ WriteTmp(s) \/ RenameTmp(s) \/ RemoveTmp(s) \/ FailRenameTmp(s)
             PROVE  disk' \in Disk /\ saver' \in [Savers -> Saver] /\ Holds'
  <2>1. UNCHANGED <<week, collection, cm, index, started, syncing, priority, names, flight, caller>>
    BY DEF Saving, OpenTmp, WriteTmp, RenameTmp, RemoveTmp, FailRenameTmp
  <2>2. week' <= cacheMoves'
    BY <1>0, <2>1 DEF TypeInv, CacheTypeOK, Weeks
  <2> QED
    BY <1>0, <2>1, <2>2 DEF Saving, TypeInv, CacheTypeOK, Disk, Saver
<1>2. CASE OpenTmp(s)
  <2> DEFINE i == IF disk.tmp = 0 THEN Free ELSE disk.tmp
  <2>1. i \in Inodes /\ i # 0
    BY <1>1, FreeInode DEF Disk, Inodes
  <2> HIDE DEF i
  <2>2. /\ disk' = [disk EXCEPT !.tmp = i, !.data[i].state = "empty"]
        /\ saver' = [saver EXCEPT ![s].at = "opened", ![s].inode = i]
    BY <1>2 DEF OpenTmp, i
  <2>3. \A n \in Inode : disk' \in Disk
    BY <1>1, <2>1, <2>2, DiskWrites
  <2>4. disk' \in Disk
    BY <1>1, <2>1, <2>3 DEF Disk
  <2>5. i \in 0 .. 4
    BY <2>1 DEF Inodes
  <2>6. saver' \in [Savers -> Saver]
    BY <1>1, <2>2, <2>5 DEF Saver
  <2>7. disk'.tmp = i /\ saver'[s].inode = i /\ saver'[s].at = "opened"
    BY <1>1, <2>2 DEF Disk, Saver
  <2>8. \A r \in Savers \ {s} : saver'[r] = saver[r]
    BY <1>1, <2>2
  <2> QED
    BY <2>4, <2>6, <2>7, <2>8 DEF TypeInv, Holds
<1>3. CASE WriteTmp(s)
  <2> DEFINE i == saver[s].inode
             n == [state |-> IF disk.data[i].state = "empty" \/ disk.data[i].content = saver[s].content
                             THEN "whole" ELSE "mixed",
                   content |-> saver[s].content]
  <2>1. n \in Inode
    BY <1>1 DEF Saver, Inode
  <2>2. disk' = [disk EXCEPT !.data[i] = n] /\ saver' = [saver EXCEPT ![s].at = "written"]
    BY <1>3 DEF WriteTmp
  <2> HIDE DEF n
  <2>3. disk' \in Disk
    <3>1. CASE i \in Inodes
      BY <1>1, <2>1, <2>2, <3>1, DiskWrites
    <3>2. CASE i \notin Inodes
      BY <1>1, <2>1, <2>2, <3>2 DEF Disk
    <3> QED
      BY <3>1, <3>2
  <2>4. saver' \in [Savers -> Saver]
    BY <1>1, <2>2 DEF Saver
  <2>5. disk'.tmp = disk.tmp /\ \A r \in Savers : saver'[r].inode = saver[r].inode
    BY <1>1, <2>2 DEF Disk, Saver
  <2>6. saver[s].at = "opened" /\ saver'[s].at = "written" /\ \A r \in Savers \ {s} : saver'[r] = saver[r]
    BY <1>1, <1>3, <2>2 DEF WriteTmp, Saver
  <2> QED
    BY <2>3, <2>4, <2>5, <2>6 DEF TypeInv, Holds
<1>4. CASE RenameTmp(s)
  <2>0. CASE disk.tmp = 0
    <3>1. disk' = disk /\ saver' = [saver EXCEPT ![s].at = "failed"]
      BY <1>4, <2>0 DEF RenameTmp
    <3>2. saver' \in [Savers -> Saver] /\ \A r \in Savers : saver'[r].inode = saver[r].inode
      BY <1>1, <3>1 DEF Saver
    <3>3. saver'[s].at = "failed" /\ \A r \in Savers \ {s} : saver'[r] = saver[r]
      BY <1>1, <3>1 DEF Saver
    <3> QED
      BY <1>1, <2>0, <3>1, <3>2, <3>3 DEF TypeInv, Holds
  <2> SUFFICES ASSUME disk.tmp # 0
               PROVE  disk' \in Disk /\ saver' \in [Savers -> Saver] /\ Holds'
    BY <2>0
  <2>1. /\ disk' = [disk EXCEPT !.file = disk.tmp, !.tmp = 0]
        /\ saver' = [saver EXCEPT ![s] = Idle]
    BY <1>4 DEF RenameTmp
  <2>2. disk' \in Disk
    BY <1>1, <2>1, RenameKeepsDisk
  <2>3. Idle \in Saver /\ Idle.inode = 0
    BY Contents DEF Idle, Saver
  <2>4. saver' \in [Savers -> Saver] /\ saver'[s].inode = 0 /\ \A r \in Savers \ {s} : saver'[r] = saver[r]
    BY <1>1, <2>1, <2>3
  <2>5. disk'.tmp = 0
    BY <1>1, <2>1 DEF Disk
  <2> QED
    BY <2>2, <2>4, <2>5 DEF TypeInv, Holds
<1>5. CASE FailRenameTmp(s)
  <2>1. disk' = disk /\ saver' = [saver EXCEPT ![s].at = "failed"]
    BY <1>5 DEF FailRenameTmp
  <2>2. saver' \in [Savers -> Saver] /\ \A r \in Savers : saver'[r].inode = saver[r].inode
    BY <1>1, <2>1 DEF Saver
  <2>3. saver'[s].at = "failed" /\ \A r \in Savers \ {s} : saver'[r] = saver[r]
    BY <1>1, <2>1 DEF Saver
  <2> QED
    BY <1>1, <2>1, <2>2, <2>3 DEF TypeInv, Holds
<1>6. CASE RemoveTmp(s)
  <2>1. disk' = [disk EXCEPT !.tmp = 0] /\ saver' = [saver EXCEPT ![s] = Idle]
    BY <1>6 DEF RemoveTmp
  <2>2. disk' \in Disk /\ disk'.tmp = 0
    BY <1>1, <2>1 DEF Disk
  <2>3. Idle \in Saver /\ Idle.inode = 0
    BY Contents DEF Idle, Saver
  <2>4. saver' \in [Savers -> Saver] /\ saver'[s].inode = 0 /\ \A r \in Savers \ {s} : saver'[r] = saver[r]
    BY <1>1, <2>1, <2>3
  <2> QED
    BY <2>2, <2>4 DEF TypeInv, Holds
<1> QED
  BY <1>2, <1>3, <1>4, <1>5, <1>6

(* gram's lookups and refreshes, and what happens to the collection.         *)
LEMMA GramTypes ==
  ASSUME TypeInv,
         \/ Restart \/ NextWeek \/ \E r \in Records : ChangeCollection(r)
         \/ \E k \in Keys : Refreshing(k) \/ FailGetRecord(k) \/ FailSave(k) \/ \E c \in Callers : Resolve(c, k)
  PROVE  TypeInv'
<1> USE DEF CacheTypeOK
<1>1. /\ flight \in [Keys -> Flight] /\ caller \in [Callers -> Caller] /\ disk \in Disk
      /\ NoFlight \in Flight /\ NoCaller \in Caller
  <2>1. 0 \in 0 .. Attempts - 1
    BY CacheAssumption
  <2> QED
    BY <2>1, Contents DEF TypeInv, Flight, Caller, Disk, NoFlight
<1>2. \A k \in Keys, at \in {"none", "queued", "fetching", "stored", "saving"} :
        [flight EXCEPT ![k].at = at] \in [Keys -> Flight]
  BY <1>1 DEF Flight
<1>3. ASSUME Restart PROVE TypeInv'
  <2>1. names' \in Content
    BY <1>3, ReadingTypes DEF Restart, NewRecordCacheManager
  <2>2. flight' \in [Keys -> Flight] /\ caller' \in [Callers -> Caller]
    BY <1>1, <1>3 DEF Restart
  <2>3. cacheMoves' \in 0 .. MaxCacheMove /\ week' <= cacheMoves'
    BY <1>3, CacheMoveCounted DEF Restart, TypeInv, Weeks
  <2> QED
    BY <1>3, <2>1, <2>2, <2>3 DEF Restart, terminal, TypeInv, Holds, Flight, Caller
<1>4. ASSUME NextWeek PROVE TypeInv'
  <2>1. cacheMoves' \in 0 .. MaxCacheMove /\ week' <= cacheMoves' /\ week' \in Weeks
    BY <1>4, CacheMoveCounted DEF NextWeek, TypeInv, Weeks
  <2> QED
    BY <1>4, <2>1 DEF NextWeek, terminal, lookups, TypeInv, Holds
<1>5. ASSUME NEW r \in Records, ChangeCollection(r) PROVE TypeInv'
  <2>1. cacheMoves' \in 0 .. MaxCacheMove /\ week' <= cacheMoves'
    BY <1>5, CacheMoveCounted DEF ChangeCollection, TypeInv, Weeks
  <2>2. collection' \in [Records -> Stamp]
    BY <1>5, WeekIsStamp DEF ChangeCollection, TypeInv
  <2> QED
    BY <1>5, <2>1, <2>2 DEF ChangeCollection, terminal, lookups, TypeInv, Holds
<1>6. ASSUME NEW k \in Keys, NEW c \in Callers, Resolve(c, k) PROVE TypeInv'
  <2>1. cacheMoves' \in 0 .. MaxCacheMove /\ week' <= cacheMoves'
    BY <1>6, CacheMoveCounted DEF Resolve, TypeInv, Weeks
  <2>2. caller' \in [Callers -> Caller]
    BY <1>1, <1>6 DEF Resolve, Caller
  <2> QED
    BY <1>6, <2>1, <2>2 DEF Resolve, terminal, TypeInv, Holds, Caller
<1>7. ASSUME NEW k \in Keys, NEW c \in Callers, caller[c].key = k, Join(c) PROVE TypeInv'
  <2>1. caller[c] \in [key : Keys, at : {"missed", "waiting"}]
    BY <1>1, <1>7 DEF Join, Caller, NoCaller
  <2>2. [caller[c] EXCEPT !.at = "waiting"] \in Caller
    BY <2>1 DEF Caller
  <2>3. caller' \in [Callers -> Caller]
    BY <1>1, <1>7, <2>2 DEF Join
  <2>4. flight' \in [Keys -> Flight]
    <3>1. flight' = flight \/ flight' = [flight EXCEPT ![k].at = "queued"]
      BY <1>7 DEF Join
    <3> QED
      BY <1>1, <1>2, <3>1
  <2> QED
    BY <1>7, <2>3, <2>4 DEF Join, terminal, TypeInv, Holds, Caller, Flight
<1>8. ASSUME NEW k \in Keys, AcquireWorker(k) PROVE TypeInv'
  <2>1. flight' \in [Keys -> Flight]
    BY <1>2, <1>8 DEF AcquireWorker, Step
  <2> QED
    BY <1>8, <2>1 DEF AcquireWorker, terminal, TypeInv, Holds, Flight
<1>9. ASSUME NEW k \in Keys, GetRecord(k) PROVE TypeInv'
  <2>1. flight' \in [Keys -> Flight]
    BY <1>2, <1>9 DEF GetRecord, Step
  <2>2. names' \in Content
    BY <1>9, Contents, WeekIsStamp DEF GetRecord, TypeInv
  <2> QED
    BY <1>9, <2>1, <2>2 DEF GetRecord, terminal, TypeInv, Holds, Flight
<1>10. ASSUME NEW k \in Keys, FailGetRecord(k) PROVE TypeInv'
  <2>1. cacheMoves' \in 0 .. MaxCacheMove /\ week' <= cacheMoves'
    BY <1>10, CacheMoveCounted DEF FailGetRecord, TypeInv, Weeks
  <2>2. flight' \in [Keys -> Flight] /\ caller' \in [Callers -> Caller]
    <3>1. CASE Land(k)
      BY <1>1, <3>1 DEF Land
    <3>2. CASE flight[k].tries + 1 # Attempts /\ flight' = [flight EXCEPT ![k].tries = @ + 1] /\ UNCHANGED caller
      <4>1. flight[k].tries \in 0 .. Attempts - 1
        BY <1>1 DEF Flight
      <4>2. flight[k].tries + 1 \in 0 .. Attempts - 1
        BY <3>2, <4>1, CacheAssumption
      <4>3. [flight[k] EXCEPT !.tries = @ + 1] \in Flight
        BY <1>1, <4>2 DEF Flight
      <4> QED
        BY <1>1, <3>2, <4>3
    <3> QED
      BY <1>10, <3>1, <3>2 DEF FailGetRecord
  <2> QED
    BY <1>10, <2>1, <2>2 DEF FailGetRecord, terminal, TypeInv, Holds, Flight, Caller
<1>11. ASSUME NEW k \in Keys, Save(k) PROVE TypeInv'
  <2>1. [flight[k] EXCEPT !.at = "saving", !.content = names] \in Flight
    BY <1>1 DEF TypeInv, Flight
  <2>2. flight' \in [Keys -> Flight]
    BY <1>1, <1>11, <2>1 DEF Save
  <2> QED
    BY <1>11, <2>2 DEF Save, terminal, TypeInv, Holds, Flight
<1>12. ASSUME NEW k \in Keys, RenameNames(k) PROVE TypeInv'
  <2>1. [state |-> "whole", content |-> flight[k].content] \in Inode
    BY <1>1 DEF Flight, Inode
  <2>2. disk' \in Disk
    BY <1>1, <1>12, <2>1, FreeInode, DiskWrites DEF RenameNames
  <2>3. disk'.tmp = disk.tmp
    BY <1>1, <1>12 DEF RenameNames, Disk
  <2>4. flight' \in [Keys -> Flight] /\ caller' \in [Callers -> Caller]
    BY <1>1, <1>12 DEF RenameNames, Land
  <2> QED
    BY <1>12, <2>2, <2>3, <2>4 DEF RenameNames, terminal, TypeInv, Holds, Flight, Caller, Disk
<1>13. ASSUME NEW k \in Keys, FailSave(k) PROVE TypeInv'
  <2>1. cacheMoves' \in 0 .. MaxCacheMove /\ week' <= cacheMoves'
    BY <1>13, CacheMoveCounted DEF FailSave, TypeInv, Weeks
  <2>2. flight' \in [Keys -> Flight] /\ caller' \in [Callers -> Caller]
    BY <1>1, <1>13 DEF FailSave, Land
  <2> QED
    BY <1>13, <2>1, <2>2 DEF FailSave, terminal, TypeInv, Holds, Flight, Caller
<1> QED
  BY <1>3, <1>4, <1>5, <1>6, <1>7, <1>8, <1>9, <1>10, <1>11, <1>12, <1>13 DEF Refreshing

(* The files, the caches and the refreshes keep their types                  *)
(* (cmd/gramophile/cache.go, gram/cache.go).                                 *)
LEMMA CacheTypeStep == TypeInv /\ [CacheNext]_cacheVars => TypeInv'
<1> SUFFICES ASSUME TypeInv, [CacheNext]_cacheVars
             PROVE  TypeInv'
  OBVIOUS
<1>1. CASE UNCHANGED cacheVars
  BY <1>1 DEF cacheVars, TypeInv, CacheTypeOK, Holds
<1>2. CASE CacheNext
  BY <1>2, TerminalTypes, SaverTypes, GramTypes DEF CacheNext, Screen
<1> QED
  BY <1>1, <1>2

(* A terminal that has not started, and whatever file there is.              *)
LEMMA TypeInit == CacheInit => TypeInv
<1> SUFFICES ASSUME CacheInit PROVE TypeInv
  OBVIOUS
<1>1. week \in Weeks /\ cacheMoves \in 0 .. MaxCacheMove /\ week <= cacheMoves /\ started \in Stamp
  BY CacheAssumption DEF CacheInit, Weeks, Stamp
<1>2. collection \in [Records -> Stamp]
  BY CacheAssumption DEF CacheInit, Stamp
<1>3. disk \in Disk
  BY Contents DEF CacheInit, Disk, Inodes, Inode
<1>4. cm \in [content : Content, status : CacheStatus] /\ index \subseteq Records /\ names \in Content
  BY Contents DEF CacheInit, NotStarted, CacheStatus
<1>5. syncing \in Syncing /\ priority \in Records \cup {NoRecord}
  BY DEF CacheInit, Syncing, NoSync
<1>6. saver \in [Savers -> Saver] /\ Holds
  BY Contents DEF CacheInit, NoSaves, Idle, Saver, Holds
<1>7. flight \in [Keys -> Flight] /\ caller \in [Callers -> Caller]
  <2>1. 0 \in 0 .. Attempts - 1
    BY CacheAssumption
  <2> QED
    BY <2>1, Contents DEF CacheInit, NoFlight, Flight, Caller
<1> QED
  BY <1>1, <1>2, <1>3, <1>4, <1>5, <1>6, <1>7
  DEF TypeInv, CacheTypeOK, Disk, Syncing, Saver, Flight, Caller

(* The files, the caches and the refreshes keep their types                  *)
(* (cmd/gramophile/cache.go, gram/cache.go).                                 *)
THEOREM CacheTypeCorrect == CacheSpec => []CacheTypeOK
<1>1. TypeInv => CacheTypeOK
  BY DEF TypeInv
<1> QED
  BY <1>1, TypeInit, CacheTypeStep, PTL DEF CacheSpec

-----------------------------------------------------------------------------
(* A content has all the records that were in the collection w when it was   *)
(* synchronized, c being the week each was added.                            *)
Covers(content, c, w) ==
  /\ content.collection.synced <= w
  /\ \A r \in Records : c[r] >= 0 /\ c[r] < content.collection.synced => r \in content.collection.records

(* Whatever is held, on its way or on the disk does so, and what was last    *)
(* answered has the records of the weeks before.                             *)
HeldCover ==
  /\ Covers(cm.content, collection, week) /\ Covers(names, collection, week)
  /\ \A s \in Savers : Covers(saver[s].content, collection, week)
  /\ \A k \in Keys : Covers(flight[k].content, collection, week)
DiskCovers == \A i \in Inodes : Covers(disk.data[i].content, collection, week)
SyncCovers ==
  syncing.at \in {"answered", "saving"} =>
    \A r \in Records : collection[r] >= 0 /\ collection[r] < week => r \in syncing.records

CoverInv == HeldCover /\ DiskCovers /\ SyncCovers /\ started <= week /\ NothingMissing

(* Nothing covers what is to be had by the time it was synchronized: never.  *)
LEMMA NothingCovers ==
  ASSUME TypeInv
  PROVE  Covers(Nothing, collection, week)
<1>1. Nothing.collection.synced = -1
  BY DEF Nothing
<1>2. week \in Int /\ week >= 0 /\ \A r \in Records : collection[r] \in Int
  BY WeekIsStamp DEF TypeInv, CacheTypeOK, Stamp
<1> QED
  BY <1>1, <1>2 DEF Covers

(* Whatever the terminal's views do keeps what the cache covers.             *)
LEMMA TerminalCovers ==
  ASSUME TypeInv, CoverInv,
         \/ StartTerminal \/ GetAllRecords \/ FailGetAllRecords \/ Populate \/ ReceiveCacheSyncStatus
         \/ UpsertRecord \/ \E r \in Records : FetchPriorityRecord(r)
  PROVE  CoverInv'
<1>1. UNCHANGED <<week, collection, disk, names, flight>>
  BY DEF StartTerminal, GetAllRecords, FailGetAllRecords, Populate, ReceiveCacheSyncStatus,
         UpsertRecord, FetchPriorityRecord
<1>2. week \in Int /\ collection \in [Records -> Int] /\ week >= 0
  BY DEF TypeInv, CacheTypeOK, Weeks, Stamp
<1>3. DiskCovers'
  BY <1>1 DEF CoverInv, DiskCovers
<1>4. CASE StartTerminal
  <2>1. PICK r \in Readings :
          LET usable == r.content.collection.records # {} /\ r.status # "rebuilding" /\ ~IsExpired(r.content)
          IN /\ cm' = [r EXCEPT !.status = IF usable THEN "ready" ELSE "syncing"]
             /\ index' = r.content.collection.records
             /\ syncing' = IF usable THEN NoSync ELSE [at |-> "asked", records |-> {}]
    BY <1>4 DEF StartTerminal, LoadFromDisk
  <2>2. r \in [content : Content, status : CacheStatus] /\ Covers(r.content, collection, week)
    BY ReadingTypes, NothingCovers DEF CoverInv, DiskCovers
  <2>3. cm'.content = r.content /\ (cm'.status = "ready" => ~IsExpired(r.content))
    BY <2>1, <2>2
  <2>4. \A s \in Savers : saver'[s].content = Nothing
    BY <1>4 DEF StartTerminal, NoSaves, Idle
  <2>5. HeldCover'
    BY <1>1, <2>2, <2>3, <2>4, NothingCovers DEF CoverInv, HeldCover
  <2>6. SyncCovers' /\ started' = week
    BY <1>4, <2>1 DEF StartTerminal, SyncCovers, NoSync
  <2>7. NothingMissing'
    <3> SUFFICES ASSUME ~IsExpired(r.content), NEW q \in Records, collection[q] >= 0, collection[q] < week
                 PROVE  q \in r.content.collection.records
      BY <1>1, <2>1, <2>3, <2>6 DEF NothingMissing, InCollection
    <3>1. r.content.collection.synced \in Int
      BY <2>2 DEF Content, CollectionCache, Stamp
    <3>2. collection[q] < r.content.collection.synced
      BY <1>2, <3>1 DEF IsExpired, IsFresh
    <3> QED
      BY <2>2, <3>2 DEF Covers
  <2> QED
    BY <1>1, <1>3, <2>5, <2>6, <2>7, <1>2 DEF CoverInv
<1>5. CASE GetAllRecords
  <2>1. syncing' = [at |-> "answered", records |-> InCollection] /\ UNCHANGED <<cm, index, started, saver>>
    BY <1>5 DEF GetAllRecords
  <2>2. SyncCovers' /\ NothingMissing'
    BY <1>1, <2>1 DEF SyncCovers, InCollection, NothingMissing, NoSync
  <2> QED
    BY <1>1, <1>3, <2>1, <2>2 DEF CoverInv, HeldCover
<1>6. CASE FailGetAllRecords
  <2>1. /\ cm'.content = cm.content /\ cm'.status = "stale" /\ syncing' = NoSync
        /\ UNCHANGED <<index, started, saver>>
    BY <1>6 DEF FailGetAllRecords, TypeInv, CacheTypeOK
  <2>2. SyncCovers' /\ NothingMissing'
    BY <2>1 DEF SyncCovers, NothingMissing, NoSync
  <2> QED
    BY <1>1, <1>3, <2>1, <2>2 DEF CoverInv, HeldCover
<1>7. CASE Populate
  <2> DEFINE content == [Nothing EXCEPT !.collection = [records |-> syncing.records, synced |-> week]]
  <2>1. /\ cm'.content = content /\ syncing'.at = "saving" /\ syncing'.records = syncing.records
        /\ saver'["sync"].content = content /\ saver'["screen"] = saver["screen"]
        /\ UNCHANGED <<index, started>>
    BY <1>7 DEF Populate, Marshal, TypeInv, CacheTypeOK, Savers
  <2>2. content.collection.synced = week /\ content.collection.records = syncing.records
    BY DEF Nothing
  <2>3. syncing.at = "answered"
    BY <1>7 DEF Populate
  <2>4. Covers(content, collection, week)
    <3> HIDE DEF content
    <3> QED
      BY <1>2, <2>2, <2>3 DEF Covers, CoverInv, SyncCovers
  <2> HIDE DEF content
  <2>5. HeldCover'
    BY <1>1, <2>1, <2>4 DEF CoverInv, HeldCover, Savers
  <2>6. SyncCovers' /\ NothingMissing'
    BY <1>1, <2>1, <2>3 DEF CoverInv, SyncCovers, NothingMissing, NoSync
  <2> QED
    BY <1>1, <1>3, <2>1, <2>5, <2>6 DEF CoverInv
<1>8. CASE ReceiveCacheSyncStatus
  <2>1. /\ cm'.content = cm.content /\ syncing.at = "saving" /\ syncing' = NoSync
        /\ syncing.records \subseteq index'
        /\ UNCHANGED <<started, saver>>
    BY <1>8 DEF ReceiveCacheSyncStatus, TypeInv, CacheTypeOK
  <2>2. NothingMissing'
    <3> SUFFICES ASSUME NEW q \in Records, collection[q] >= 0, collection[q] < started
                 PROVE  q \in syncing.records
      BY <1>1, <2>1 DEF NothingMissing, InCollection
    <3>1. started \in Int /\ started <= week
      BY DEF TypeInv, CacheTypeOK, Stamp, CoverInv
    <3> QED
      BY <1>2, <2>1, <3>1 DEF CoverInv, SyncCovers
  <2>3. SyncCovers'
    BY <2>1 DEF SyncCovers, NoSync
  <2> QED
    BY <1>1, <1>3, <2>1, <2>2, <2>3 DEF CoverInv, HeldCover
<1>9. CASE UpsertRecord
  <2> DEFINE content == Upserted(priority)
  <2>1. /\ cm'.content = content /\ cm'.status = cm.status
        /\ saver'["screen"].content = content /\ saver'["sync"] = saver["sync"]
        /\ index' = index \cup {priority} /\ UNCHANGED <<started, syncing>>
    BY <1>9 DEF UpsertRecord, Marshal, TypeInv, CacheTypeOK, Savers
  <2>2. /\ content.collection.synced = cm.content.collection.synced
        /\ content.collection.records = cm.content.collection.records \cup {priority}
    <3>1. cm.content.collection \in CollectionCache /\ cm.content \in Content
      BY DEF TypeInv, CacheTypeOK, Content
    <3> QED
      BY <3>1 DEF Upserted, Content, CollectionCache
  <2> HIDE DEF content
  <2>3. Covers(content, collection, week)
    BY <2>2 DEF CoverInv, HeldCover, Covers
  <2>4. HeldCover'
    BY <1>1, <2>1, <2>3 DEF CoverInv, HeldCover, Savers
  <2>5. SyncCovers' /\ NothingMissing'
    BY <1>1, <2>1 DEF CoverInv, SyncCovers, NothingMissing, InCollection
  <2> QED
    BY <1>1, <1>3, <2>1, <2>4, <2>5 DEF CoverInv
<1>10. ASSUME NEW r \in Records, FetchPriorityRecord(r) PROVE CoverInv'
  BY <1>1, <1>3, <1>10 DEF FetchPriorityRecord, CoverInv, HeldCover, SyncCovers, NothingMissing, InCollection
<1> QED
  BY <1>4, <1>5, <1>6, <1>7, <1>8, <1>9, <1>10

(* A save puts on the disk what it has marshalled.                           *)
LEMMA SaverCovers ==
  ASSUME TypeInv, CoverInv, Saving \/ \E s \in Savers : FailRenameTmp(s)
  PROVE  CoverInv'
<1> SUFFICES ASSUME NEW s \in Savers, OpenTmp(s) \/ WriteTmp(s) \/ RenameTmp(s) \/ RemoveTmp(s) \/ FailRenameTmp(s)
             PROVE  CoverInv'
  BY DEF Saving
<1>1. UNCHANGED <<week, collection, cm, index, started, syncing, names, flight>>
  BY DEF OpenTmp, WriteTmp, RenameTmp, RemoveTmp, FailRenameTmp
<1>2. disk \in Disk /\ saver \in [Savers -> Saver]
  BY DEF TypeInv, CacheTypeOK, Disk, Saver
<1>3. \A r \in Savers : saver'[r].content \in {saver[r].content, Nothing}
  BY <1>2 DEF OpenTmp, WriteTmp, RenameTmp, RemoveTmp, FailRenameTmp, Saver, Idle
<1>4. \A i \in Inodes : disk'.data[i].content \in {disk.data[i].content, saver[s].content}
  <2>1. disk.data \in [Inodes -> Inode] /\ disk = [file |-> disk.file, tmp |-> disk.tmp, data |-> disk.data]
    BY <1>2 DEF Disk
  <2>2. CASE OpenTmp(s)
    <3> DEFINE n == IF disk.tmp = 0 THEN Free ELSE disk.tmp
    <3>1. n \in Inodes
      BY <1>2, FreeInode DEF Disk, Inodes
    <3>2. disk'.data = [disk.data EXCEPT ![n].state = "empty"]
      BY <2>1, <2>2 DEF OpenTmp
    <3> HIDE DEF n
    <3> QED
      BY <2>1, <3>1, <3>2 DEF Inode
  <2>3. CASE WriteTmp(s)
    <3>1. PICK x : disk'.data = [disk.data EXCEPT ![saver[s].inode] = [state |-> x, content |-> saver[s].content]]
      BY <2>1, <2>3 DEF WriteTmp
    <3> QED
      BY <2>1, <3>1
  <2>4. CASE RenameTmp(s) \/ RemoveTmp(s) \/ FailRenameTmp(s)
    <3>1. disk'.data = disk.data
      BY <2>1, <2>4 DEF RenameTmp, RemoveTmp, FailRenameTmp
    <3> QED
      BY <3>1
  <2> QED
    BY <2>2, <2>3, <2>4
<1>5. HeldCover'
  BY <1>1, <1>3, NothingCovers DEF CoverInv, HeldCover
<1>6. DiskCovers'
  BY <1>1, <1>4 DEF CoverInv, HeldCover, DiskCovers
<1> QED
  BY <1>1, <1>5, <1>6 DEF CoverInv, SyncCovers, NothingMissing, InCollection

(* gram changes names only, and saves what it has read of the collection.    *)
LEMMA GramCovers ==
  ASSUME TypeInv, CoverInv,
         Restart \/ \E k \in Keys : Refreshing(k) \/ FailGetRecord(k) \/ FailSave(k) \/ \E c \in Callers : Resolve(c, k)
  PROVE  CoverInv'
<1>1. UNCHANGED <<week, collection, terminal>>
  BY DEF Restart, Refreshing, FailGetRecord, FailSave, Resolve, Join, AcquireWorker, GetRecord, Save, RenameNames
<1>2. /\ flight \in [Keys -> Flight] /\ disk \in Disk /\ names \in Content
  BY DEF TypeInv, CacheTypeOK, Flight, Disk
<1>3. Covers(names', collection, week)
  <2>1. CASE Restart
    BY <2>1, ReadingTypes, NothingCovers DEF Restart, NewRecordCacheManager, CoverInv, DiskCovers
  <2>2. ASSUME NEW k \in Keys, GetRecord(k) PROVE Covers(names', collection, week)
    <3>1. names'.collection = names.collection
      BY <1>2, <2>2 DEF GetRecord, Content
    <3> QED
      BY <3>1 DEF CoverInv, HeldCover, Covers
  <2>3. CASE UNCHANGED names
    BY <2>3 DEF CoverInv, HeldCover
  <2> QED
    BY <2>1, <2>2, <2>3 DEF Refreshing, FailGetRecord, FailSave, Resolve, Join, AcquireWorker, Save, RenameNames
<1>4. \A j \in Keys : flight'[j].content \in {flight[j].content, Nothing, names}
  <2>1. CASE Restart
    BY <2>1 DEF Restart, NoFlight
  <2>2. ASSUME NEW k \in Keys, NEW c \in Callers, Join(c) \/ Resolve(c, k)
        PROVE  \A j \in Keys : flight'[j].content = flight[j].content
    <3>1. flight' = flight \/ \E key : flight' = [flight EXCEPT ![key].at = "queued"]
      BY <2>2 DEF Join, Resolve
    <3> QED
      BY <1>2, <3>1 DEF Flight
  <2>3. ASSUME NEW k \in Keys, AcquireWorker(k) \/ GetRecord(k) \/ Save(k) \/ RenameNames(k) \/ FailGetRecord(k) \/ FailSave(k)
        PROVE  \A j \in Keys : flight'[j].content \in {flight[j].content, Nothing, names}
    <3>1. CASE \E at : Step(k, at)
      BY <1>2, <3>1 DEF Step, Flight
    <3>2. CASE Land(k)
      BY <1>2, <3>2 DEF Land, NoFlight
    <3>3. CASE flight' = [flight EXCEPT ![k].tries = @ + 1]
      BY <1>2, <3>3 DEF Flight
    <3>4. CASE flight' = [flight EXCEPT ![k] = [@ EXCEPT !.at = "saving", !.content = names]]
      BY <1>2, <3>4 DEF Flight
    <3> QED
      BY <2>3, <3>1, <3>2, <3>3, <3>4 DEF AcquireWorker, GetRecord, Save, RenameNames, FailGetRecord, FailSave
  <2> QED
    BY <2>1, <2>2, <2>3 DEF Refreshing
<1>5. \A i \in Inodes : \/ disk'.data[i].content = disk.data[i].content
                        \/ \E k \in Keys : disk'.data[i].content = flight[k].content
  <2>1. CASE UNCHANGED disk
    BY <2>1
  <2>2. ASSUME NEW k \in Keys, RenameNames(k)
        PROVE  \A i \in Inodes : disk'.data[i].content \in {disk.data[i].content, flight[k].content}
    BY <1>2, <2>2, FreeInode DEF RenameNames, Disk, Inode
  <2> QED
    BY <2>1, <2>2 DEF Restart, Refreshing, FailGetRecord, FailSave, Resolve, Join, AcquireWorker, GetRecord, Save
<1>6. HeldCover'
  BY <1>1, <1>3, <1>4, NothingCovers DEF terminal, CoverInv, HeldCover
<1>7. DiskCovers'
  BY <1>1, <1>5 DEF CoverInv, HeldCover, DiskCovers
<1> QED
  BY <1>1, <1>6, <1>7 DEF terminal, CoverInv, SyncCovers, NothingMissing, InCollection

(* What is added to the collection is added no earlier than anything was     *)
(* synchronized.                                                             *)
LEMMA WorldCovers ==
  ASSUME TypeInv, CoverInv, NextWeek \/ \E r \in Records : ChangeCollection(r)
  PROVE  CoverInv'
<1>1. UNCHANGED <<disk, terminal, lookups>>
  BY DEF NextWeek, ChangeCollection
<1>2. /\ week \in Int /\ week' \in Int /\ week <= week' /\ started \in Int
      /\ collection \in [Records -> Int] /\ collection' \in [Records -> Int]
      /\ \A r \in Records : collection'[r] >= 0 => collection'[r] = collection[r] \/ collection'[r] = week
  BY DEF NextWeek, ChangeCollection, TypeInv, CacheTypeOK, Weeks, Stamp
<1>3. ASSUME NEW content \in Content, Covers(content, collection, week)
      PROVE  Covers(content, collection', week')
  <2>1. content.collection.synced \in Int
    BY DEF Content, CollectionCache, Stamp
  <2> QED
    BY <1>2, <1>3, <2>1 DEF Covers
<1>4. /\ cm.content \in Content /\ names \in Content
      /\ \A s \in Savers : saver[s].content \in Content
      /\ \A k \in Keys : flight[k].content \in Content
      /\ \A i \in Inodes : disk.data[i].content \in Content
  BY DEF TypeInv, CacheTypeOK, Inode
<1>5. HeldCover' /\ DiskCovers'
  BY <1>1, <1>3, <1>4 DEF terminal, lookups, CoverInv, HeldCover, DiskCovers
<1>6. SyncCovers'
  <2>1. CASE NextWeek
    BY <1>1, <2>1 DEF terminal, NextWeek, SyncCovers, NoSync
  <2>2. ASSUME NEW r \in Records, ChangeCollection(r) PROVE SyncCovers'
    <3>1. week' = week
      BY <2>2 DEF ChangeCollection
    <3> QED
      BY <1>1, <1>2, <3>1 DEF terminal, CoverInv, SyncCovers
  <2> QED
    BY <2>1, <2>2
<1>7. NothingMissing'
  BY <1>1, <1>2 DEF terminal, CoverInv, NothingMissing, InCollection
<1>8. started' <= week'
  BY <1>1, <1>2 DEF terminal, CoverInv
<1> QED
  BY <1>5, <1>6, <1>7, <1>8 DEF CoverInv

(* A terminal that says it is ready has every record that was in the         *)
(* collection a week before it was started, for any number of records: the   *)
(* saves of its two goroutines and of gram may cross in any way and be       *)
(* killed at any step (cache.go:188-320, gram/cache.go:95-146).              *)
THEOREM NothingGoesMissing == CacheSpec => []NothingMissing
<1>1. CacheInit => CoverInv
  <2> SUFFICES ASSUME CacheInit PROVE CoverInv
    OBVIOUS
  <2>1. Covers(Nothing, collection, week)
    BY TypeInit, NothingCovers
  <2>2. /\ cm.content = Nothing /\ names = Nothing /\ syncing.at = "none" /\ started = -1 /\ week = 0
        /\ \A s \in Savers : saver[s].content = Nothing
        /\ \A k \in Keys : flight[k].content = Nothing
        /\ \A i \in Inodes : disk.data[i].content = Nothing
    BY DEF CacheInit, NotStarted, NoSync, NoSaves, Idle, NoFlight
  <2> QED
    BY <2>1, <2>2 DEF CoverInv, HeldCover, DiskCovers, SyncCovers, NothingMissing
<1>2. TypeInv /\ CoverInv /\ [CacheNext]_cacheVars => CoverInv'
  <2> SUFFICES ASSUME TypeInv, CoverInv, [CacheNext]_cacheVars PROVE CoverInv'
    OBVIOUS
  <2>1. CASE UNCHANGED cacheVars
    BY <2>1 DEF cacheVars, CoverInv, HeldCover, DiskCovers, SyncCovers, NothingMissing, InCollection
  <2>2. CASE CacheNext
    BY <2>2, TerminalCovers, SaverCovers, GramCovers, WorldCovers DEF CacheNext, Screen
  <2> QED
    BY <2>1, <2>2
<1>3. CoverInv => NothingMissing
  BY DEF CoverInv
<1> QED
  BY <1>1, <1>2, <1>3, TypeInit, CacheTypeStep, PTL DEF CacheSpec

-----------------------------------------------------------------------------
(* One refresh saves at a time, and what it saves has every name but those   *)
(* whose refresh stored one since and will save it after.                    *)
SavesInOrder ==
  \A k \in Keys : flight[k].at = "saving" =>
    \A j \in Keys : /\ j # k => flight[j].at # "saving"
                    /\ flight[j].at # "stored" => flight[k].content.names[j] = names.names[j]

(* A refresh that starts, fails or ends leaves the save of another alone.    *)
LEMMA SavesInOrderStep ==
  ASSUME TypeInv, SavesInOrder, [CacheNext]_cacheVars
  PROVE  SavesInOrder'
<1>1. flight \in [Keys -> Flight] /\ names \in Content
  BY DEF TypeInv, CacheTypeOK, Flight
<1>2. CASE UNCHANGED <<names, flight>>
  BY <1>2 DEF SavesInOrder
<1>3. CASE Restart
  BY <1>3 DEF Restart, NoFlight, SavesInOrder
<1>4. ASSUME NEW k \in Keys, NEW at \in {"queued", "fetching"}, Step(k, at), flight[k].at \in {"none", "queued"},
             UNCHANGED names
      PROVE  SavesInOrder'
  <2>1. /\ flight'[k].at = at
        /\ \A j \in Keys : flight'[j].content = flight[j].content /\ (j # k => flight'[j].at = flight[j].at)
    BY <1>1, <1>4 DEF Step, Flight
  <2> QED
    BY <1>4, <2>1 DEF SavesInOrder
<1>5. ASSUME NEW k \in Keys, GetRecord(k)
      PROVE  SavesInOrder'
  <2>1. /\ flight[k].at = "fetching" /\ flight'[k].at = "stored"
        /\ \A j \in Keys : flight'[j].content = flight[j].content /\ (j # k => flight'[j].at = flight[j].at)
    BY <1>1, <1>5 DEF GetRecord, Step, Flight
  <2>2. \A j \in Keys : j # k => names'.names[j] = names.names[j]
    BY <1>1, <1>5 DEF GetRecord, Content, RecordCache
  <2> QED
    BY <2>1, <2>2 DEF SavesInOrder
<1>6. ASSUME NEW k \in Keys, Save(k)
      PROVE  SavesInOrder'
  <2>1. /\ flight'[k].at = "saving" /\ flight'[k].content = names /\ UNCHANGED names
        /\ \A j \in Keys : flight[j].at # "saving" /\ (j # k => flight'[j] = flight[j])
    BY <1>1, <1>6 DEF Save, Flight
  <2> QED
    BY <2>1 DEF SavesInOrder
<1>7. ASSUME NEW k \in Keys, Land(k), flight[k].at \in {"fetching", "saving"}, UNCHANGED names
      PROVE  SavesInOrder'
  <2>1. flight'[k].at = "none" /\ \A j \in Keys : j # k => flight'[j] = flight[j]
    BY <1>1, <1>7 DEF Land, NoFlight
  <2> QED
    BY <1>7, <2>1 DEF SavesInOrder
<1>8. ASSUME NEW k \in Keys, FailGetRecord(k)
      PROVE  SavesInOrder'
  <2>1. CASE flight' = [flight EXCEPT ![k].tries = @ + 1] /\ UNCHANGED names
    <3>1. \A j \in Keys : flight'[j].content = flight[j].content /\ flight'[j].at = flight[j].at
      BY <1>1, <2>1 DEF Flight
    <3> QED
      BY <2>1, <3>1 DEF SavesInOrder
  <2> QED
    BY <1>7, <1>8, <2>1 DEF FailGetRecord
<1>9. ASSUME NEW c \in Callers, Join(c), caller[c].key \in Keys
      PROVE  SavesInOrder'
  BY <1>2, <1>4, <1>9 DEF Join, Step
<1>10. ASSUME NEW k \in Keys, Refreshing(k)
       PROVE  SavesInOrder'
  <2>1. CASE AcquireWorker(k)
    BY <1>4, <2>1 DEF AcquireWorker
  <2>2. CASE RenameNames(k)
    BY <1>7, <2>2 DEF RenameNames
  <2> QED
    BY <1>5, <1>6, <1>9, <1>10, <2>1, <2>2 DEF Refreshing
<1>11. CASE CacheNext
  <2>1. CASE StartTerminal \/ Screen \/ FailGetAllRecords \/ NextWeek
    BY <1>2, <2>1 DEF StartTerminal, Screen, Saving, OpenTmp, WriteTmp, RenameTmp, RemoveTmp, GetAllRecords, Populate,
                     ReceiveCacheSyncStatus, UpsertRecord, FailGetAllRecords, NextWeek, lookups
  <2>2. ASSUME NEW r \in Records, FetchPriorityRecord(r) \/ ChangeCollection(r)
        PROVE  SavesInOrder'
    BY <1>2, <2>2 DEF FetchPriorityRecord, ChangeCollection, lookups
  <2>3. ASSUME NEW k \in Keys, NEW c \in Callers, Resolve(c, k)
        PROVE  SavesInOrder'
    BY <1>2, <2>3 DEF Resolve
  <2>4. ASSUME NEW s \in Savers, FailRenameTmp(s)
        PROVE  SavesInOrder'
    BY <1>2, <2>4 DEF FailRenameTmp
  <2>5. ASSUME NEW k \in Keys, FailSave(k)
        PROVE  SavesInOrder'
    BY <1>7, <2>5 DEF FailSave
  <2> QED
    BY <1>3, <1>8, <1>10, <1>11, <2>1, <2>2, <2>3, <2>4, <2>5 DEF CacheNext
<1> QED
  BY <1>2, <1>11 DEF cacheVars

(* What a save of gram renames is what the refresh has marshalled.           *)
LEMMA SaveIsForward ==
  ASSUME TypeInv, SavesInOrder, NEW k \in Keys, NEW j \in Keys, RenameNames(k), flight[j].at = "none"
  PROVE  disk'.data[disk'.file].content.names[j] >= names.names[j]
<1>1. disk \in Disk /\ Free \in Inodes /\ names.names[j] \in Int
  BY FreeInode DEF TypeInv, CacheTypeOK, Disk, Content, RecordCache, RecordCacheEntry, Stamp
<1>2. disk'.file = Free /\ disk'.data[Free].content = flight[k].content
  BY <1>1 DEF RenameNames, Disk
<1>3. flight[k].content.names[j] = names.names[j]
  BY DEF RenameNames, SavesInOrder
<1> QED
  BY <1>1, <1>2, <1>3

(* A name whose refresh has ended is in whatever gram saves afterwards, for  *)
(* any number of keys, goroutines and workers (gram/cache.go:95-146,         *)
(* 186-380).                                                                 *)
THEOREM SavesGoForward == CacheSpec => SavesForward
<1>1. CacheInit => SavesInOrder
  BY DEF CacheInit, NoFlight, SavesInOrder
<1>2. TypeInv /\ SavesInOrder /\ [CacheNext]_cacheVars => SavesInOrder'
  BY SavesInOrderStep
<1>3. TypeInv /\ SavesInOrder /\ [CacheNext]_cacheVars =>
        [\A k, j \in Keys : RenameNames(k) /\ flight[j].at = "none" =>
           disk'.data[disk'.file].content.names[j] >= names.names[j]]_cacheVars
  BY SaveIsForward
<1> QED
  BY <1>1, <1>2, <1>3, TypeInit, CacheTypeStep, PTL DEF CacheSpec, SavesForward

(* The views of the terminal                                                 *)
(* The lists are finite: what is synchronized, and at most one placeholder.  *)
Lists ==
  /\ have \subseteq Copies
  /\ IsFiniteSet(filteredReleases) /\ IsFiniteSet(filteredLocateRecords)

(* The window holds the cursor in every view: a list may be replaced while   *)
(* another view is open, and the search is returned to from there.           *)
Window ==
  /\ cursor \in Nat /\ offset \in Nat
  /\ cursor < Max({1, Cardinality(Shown)})
  /\ offset <= cursor /\ cursor < offset + Rows
  /\ offset + Rows <= Max({Rows, Cardinality(Shown)})

(* The greater of two numbers.                                               *)
LEMMA MaxOfTwo ==
  ASSUME NEW a \in Int, NEW b \in Int
  PROVE  Max({a, b}) = IF a >= b THEN a ELSE b
<1>1. \E x \in {a, b} : \A y \in {a, b} : x >= y
  OBVIOUS
<1>2. Max({a, b}) \in {a, b} /\ \A y \in {a, b} : Max({a, b}) >= y
  BY <1>1 DEF Max
<1> QED
  BY <1>2

(* The lesser of two numbers.                                                *)
LEMMA MinOfTwo ==
  ASSUME NEW a \in Int, NEW b \in Int
  PROVE  Min({a, b}) = IF a <= b THEN a ELSE b
<1>1. \E x \in {a, b} : \A y \in {a, b} : x <= y
  OBVIOUS
<1>2. Min({a, b}) \in {a, b} /\ \A y \in {a, b} : Min({a, b}) <= y
  BY <1>1 DEF Min
<1> QED
  BY <1>2

(* A list that is shown has a number of rows.                                *)
LEMMA ShownCounted ==
  ASSUME Lists
  PROVE  Cardinality(Shown) \in Nat
BY FS_CardinalityType DEF Lists, Shown

(* clampLocateViewportOffset brings the window to where the cursor is, and   *)
(* keeps it within the list.                                                 *)
LEMMA ClampShows ==
  ASSUME Lists, NEW cur \in Nat, NEW off \in Nat, cur < Max({1, Cardinality(Shown)})
  PROVE  /\ Clamp(cur, off) \in Nat
         /\ Clamp(cur, off) <= cur /\ cur < Clamp(cur, off) + Rows
         /\ Clamp(cur, off) + Rows <= Max({Rows, Cardinality(Shown)})
<1> DEFINE n == Cardinality(Shown)
           low == IF cur > off + Rows - 1 THEN cur - (Rows - 1) ELSE off
           high == IF cur < low THEN cur ELSE low
           last == Max({0, n - Rows})
<1>1. n \in Nat /\ Rows \in Nat /\ Rows > 0
  BY ShownCounted, TerminalAssumption
<1>2. high \in Nat /\ high <= cur /\ cur < high + Rows
  BY <1>1
<1>3. last = IF n >= Rows THEN n - Rows ELSE 0
  BY <1>1, MaxOfTwo
<1>4. Clamp(cur, off) = IF high <= last THEN high ELSE last
  <2>1. Clamp(cur, off) = Min({high, last})
    BY Zenon DEF Clamp
  <2>2. high \in Int /\ last \in Int
    BY <1>1, <1>2, <1>3
  <2> HIDE DEF high, last
  <2> QED
    BY <2>1, <2>2, MinOfTwo
<1>5. cur < IF 1 >= n THEN 1 ELSE n
  BY <1>1, MaxOfTwo
<1>6. Max({Rows, n}) = IF Rows >= n THEN Rows ELSE n
  BY <1>1, MaxOfTwo
<1> HIDE DEF n, high, last
<1> QED
  BY <1>1, <1>2, <1>3, <1>4, <1>5, <1>6 DEF n

(* A list that is replaced is shown from its top.                            *)
LEMMA TopShows ==
  ASSUME Lists', cursor' = 0, offset' = 0
  PROVE  Window'
<1>1. Cardinality(Shown)' \in Nat /\ Rows \in Nat /\ Rows > 0
  BY ShownCounted, TerminalAssumption, FS_CardinalityType DEF Lists, Shown
<1>2. /\ Max({1, Cardinality(Shown)'}) = IF 1 >= Cardinality(Shown)' THEN 1 ELSE Cardinality(Shown)'
      /\ Max({Rows, Cardinality(Shown)'}) = IF Rows >= Cardinality(Shown)' THEN Rows ELSE Cardinality(Shown)'
  BY <1>1, MaxOfTwo
<1> QED
  BY <1>1, <1>2 DEF Window

(* There are no more releases than copies of them.                           *)
LEMMA ReleasesFinite ==
  ASSUME NEW copies \in SUBSET Copies
  PROVE  IsFiniteSet(copies) /\ IsFiniteSet(Releases(copies))
<1>1. IsFiniteSet(copies)
  BY TerminalAssumption, FS_Subset
<1> DEFINE f == [c \in copies |-> ReleaseOf[c]]
<1>2. f \in Surjection(copies, Releases(copies))
  BY DEF Surjection, Releases
<1> QED
  BY <1>1, <1>2, FS_Surjection

(* FilterCollectionIndex makes finite lists of finite ones.                  *)
LEMMA FilterLists ==
  ASSUME NEW copies \in SUBSET Copies, NEW q, FilterCollectionIndex(copies, q), have' = copies
  PROVE  Lists' /\ Window'
<1>1. IsFiniteSet(copies)
  BY ReleasesFinite
<1>2. IsFiniteSet(Releases(copies))
  BY ReleasesFinite
<1>3. IsFiniteSet(Releases(copies) \cap q.title)
  BY <1>2, FS_Subset
<1>4. IsFiniteSet(FilterRecords(copies, q))
  <2> DEFINE matched == {c \in copies : ReleaseOf[c] \in q.title \cup {q.id}}
  <2>1. IsFiniteSet(matched)
    BY <1>1, FS_Subset
  <2>2. IsFiniteSet(matched \cup {Placeholder(q.id)})
    BY <2>1, FS_AddElement
  <2> QED
    BY <2>1, <2>2 DEF FilterRecords
<1>5. Lists'
  BY <1>3, <1>4 DEF FilterCollectionIndex, Lists
<1> QED
  BY <1>5, TopShows DEF FilterCollectionIndex

(* The cursor moves within the list and the window goes with it.             *)
LEMMA CursorShows ==
  ASSUME Lists, Window, CursorUp \/ CursorDown
  PROVE  Lists' /\ Window'
<1>1. UNCHANGED <<have, filteredReleases, filteredLocateRecords>>
  BY DEF CursorUp, CursorDown
<1>2. Lists' /\ Shown' = Shown
  BY <1>1 DEF Lists, Shown
<1>3. PICK off \in Nat : offset' = Clamp(cursor', off) /\ cursor' \in Nat /\ cursor' < Max({1, Cardinality(Shown)})
  <2>1. Cardinality(Shown) \in Nat
    BY ShownCounted
  <2>2. Max({1, Cardinality(Shown)}) = IF 1 >= Cardinality(Shown) THEN 1 ELSE Cardinality(Shown)
    BY <2>1, MaxOfTwo
  <2>3. CASE CursorUp
    <3>1. cursor' \in Nat /\ cursor' <= cursor
      BY <2>3 DEF CursorUp, Window
    <3>2. (IF cursor' < offset THEN offset - 1 ELSE offset) \in Nat
      BY <3>1 DEF Window
    <3>3. cursor' < Max({1, Cardinality(Shown)})
      BY <2>1, <2>2, <3>1 DEF Window
    <3> QED
      BY <2>3, <3>1, <3>2, <3>3 DEF CursorUp
  <2>4. CASE CursorDown
    <3>1. cursor' \in Nat /\ cursor' < Max({1, Cardinality(Shown)})
      BY <2>1, <2>2, <2>4 DEF CursorDown, Window
    <3>2. (IF cursor' > offset + Rows - 1 THEN offset + 1 ELSE offset) \in Nat
      BY DEF Window
    <3> QED
      BY <2>4, <3>1, <3>2 DEF CursorDown
  <2> QED
    BY <2>3, <2>4
<1>4. /\ offset' \in Nat
      /\ offset' <= cursor' /\ cursor' < offset' + Rows
      /\ offset' + Rows <= Max({Rows, Cardinality(Shown)})
  BY <1>3, ClampShows
<1> QED
  BY <1>2, <1>3, <1>4 DEF Window

(* Only the search and the answers it takes change what it shows.            *)
LEMMA SearchStep ==
  Lists /\ Window /\ [TerminalNext]_terminalVars => Lists' /\ Window'
<1> SUFFICES ASSUME Lists, Window, [TerminalNext]_terminalVars
             PROVE  Lists' /\ Window'
  OBVIOUS
<1> DEFINE ListsStay == UNCHANGED <<have, filteredReleases, filteredLocateRecords, cursor, offset>>
<1>1. CASE ListsStay
  BY <1>1 DEF Lists, Window, Shown
<1>2. CASE UNCHANGED terminalVars
  BY <1>1, <1>2 DEF terminalVars
<1>3. ASSUME NEW c \in calls, Receive(c) \/ FailCall(c) \/ FailCollection(c)
      PROVE  Lists' /\ Window'
  <2>1. CASE ReceiveCollection(c)
    BY <2>1, FilterLists DEF ReceiveCollection, Collection
  <2>2. CASE \/ GetOrg(c) \/ ReceiveOrg(c) \/ ResolveRecord(c) \/ LocateRecord(c) \/ ReceiveLocation(c)
             \/ FailCall(c) \/ FailCollection(c)
    BY <1>1, <2>2 DEF GetOrg, ReceiveOrg, ResolveRecord, ReceiveRecord, LocateRecord, ReceiveLocation, FailCall,
                      FailCollection, search
  <2> QED
    BY <1>3, <2>1, <2>2 DEF Receive
<1>4. ASSUME NEW q \in Typed, Type(q) PROVE Lists' /\ Window'
  BY <1>4, FilterLists DEF Type, Lists
<1>5. CASE CursorUp \/ CursorDown
  BY <1>5, CursorShows
<1>6. CASE LeaveSearch \/ OpenSearch
  <2>1. IsFiniteSet(have) /\ IsFiniteSet(Releases(have))
    BY ReleasesFinite DEF Lists
  <2>2. Lists' /\ cursor' = 0 /\ offset' = 0
    BY <1>6, <2>1 DEF LeaveSearch, OpenSearch, Lists
  <2> QED
    BY <2>2, TopShows
<1>7. CASE ReceiveSynced
  BY <1>7, FilterLists DEF ReceiveSynced, Collection
<1>8. CASE \/ \E o \in Orgs : OpenOrg(o)
           \/ \E r \in Release : OpenLocate(r)
           \/ \E n \in 0 .. Cardinality(Copies) : MoveVersion(n)
           \/ \E c \in Copies, place \in Orgs \cup {Gone} : Reshelve(c, place)
           \/ Enter \/ EnterVersion \/ LeaveVersions \/ Leave
  BY <1>1, <1>8 DEF OpenOrg, OpenLocate, MoveVersion, Reshelve, Enter, EnterVersion, LeaveVersions, Leave, search
<1> QED
  BY <1>2, <1>3, <1>4, <1>5, <1>6, <1>7, <1>8 DEF TerminalNext

(* In the search, the row the cursor is on is in the list and in the window, *)
(* and the window is as full as it can be, for any number of rows and        *)
(* whatever answers replace the list (tui.go, clampLocateViewportOffset).    *)
THEOREM WindowFollows == TerminalSpec => []WindowShowsCursor
<1>1. TerminalInit => Lists /\ Window
  <2> SUFFICES ASSUME TerminalInit PROVE Lists /\ Window
    OBVIOUS
  <2>1. Shown = {} /\ Cardinality(Shown) = 0 /\ Lists
    BY FS_EmptySet DEF TerminalInit, Shown, Lists
  <2>2. Rows \in Nat /\ Rows > 0
    BY TerminalAssumption
  <2>3. Max({1, 0}) = 1 /\ Max({Rows, 0}) = Rows
    BY <2>2, MaxOfTwo
  <2> QED
    BY <2>1, <2>2, <2>3 DEF TerminalInit, Window
<1>2. Window => WindowShowsCursor
  BY DEF Window, WindowShowsCursor
<1> QED
  BY <1>1, <1>2, SearchStep, PTL DEF TerminalSpec

(* The rows of a list can be counted off: there is one for every place.      *)
LEMMA NthExists ==
  ASSUME NEW s \in SUBSET Int, IsFiniteSet(s), NEW n \in 0 .. Cardinality(s) - 1
  PROVE  Nth(s, n) \in s
<1> DEFINE Below(x) == {y \in s : y < x}
           rank == [x \in s |-> Cardinality(Below(x))]
           places == 0 .. Cardinality(s) - 1
<1>1. Cardinality(s) \in Nat
  BY FS_CardinalityType
<1>2. IsFiniteSet(places) /\ Cardinality(places) = Cardinality(s)
  BY <1>1, FS_Interval
<1>3. \A x \in s : IsFiniteSet(Below(x)) /\ Cardinality(Below(x)) \in Nat
  <2> TAKE x \in s
  <2>1. Below(x) \in SUBSET s
    OBVIOUS
  <2>2. IsFiniteSet(Below(x))
    BY <2>1, FS_Subset
  <2> QED
    BY <2>2, FS_CardinalityType
<1>4. \A x \in s : Cardinality(Below(x)) < Cardinality(s)
  <2> TAKE x \in s
  <2>1. Below(x) \in SUBSET s /\ Below(x) # s
    OBVIOUS
  <2>2. Cardinality(Below(x)) <= Cardinality(s) /\ Cardinality(Below(x)) # Cardinality(s)
    BY <2>1, FS_Subset
  <2> QED
    BY <1>1, <1>3, <2>2
<1>5. \A x, z \in s : x < z => Cardinality(Below(x)) < Cardinality(Below(z))
  <2> SUFFICES ASSUME NEW x \in s, NEW z \in s, x < z
               PROVE  Cardinality(Below(x)) < Cardinality(Below(z))
    OBVIOUS
  <2>1. Below(x) \in SUBSET Below(z) /\ Below(x) # Below(z)
    <3>1. x \in Int /\ z \in Int /\ ~(x < x)
      OBVIOUS
    <3>2. \A y \in s : y < x => y < z
      BY <3>1
    <3>3. x \in Below(z) /\ x \notin Below(x)
      BY <3>1
    <3> QED
      BY <3>2, <3>3
  <2>2. Cardinality(Below(x)) <= Cardinality(Below(z)) /\ Cardinality(Below(x)) # Cardinality(Below(z))
    BY <1>3, <2>1, FS_Subset
  <2> QED
    BY <1>3, <2>2
<1> HIDE DEF Below
<1>6. rank \in [s -> places]
  BY <1>1, <1>3, <1>4
<1>7. \A x, z \in s : rank[x] = rank[z] => x = z
  <2> SUFFICES ASSUME NEW x \in s, NEW z \in s, rank[x] = rank[z], x # z
               PROVE  FALSE
    OBVIOUS
  <2>1. x < z \/ z < x
    OBVIOUS
  <2> QED
    BY <1>3, <1>5, <2>1
<1>8. rank \in Injection(s, places)
  BY <1>6, <1>7 DEF Injection, IsInjective
<1>9. rank \in Surjection(s, places)
  BY <1>2, <1>8, FS_Injection
<1>10. \E x \in s : Cardinality(Below(x)) = n
  BY <1>9 DEF Surjection
<1> QED
  BY <1>10 DEF Nth, Below

(* What the proof of the types needs beside them: a placeholder stands for   *)
(* a number that was typed, and there is a row under the cursor of the list  *)
(* of versions.                                                              *)
Choosing ==
  /\ \A row \in filteredLocateRecords : row \in Copies \/ row < 0
  /\ IsFiniteSet(choice.records)
  /\ view = "versions" => choice.cursor < Cardinality(choice.records)
ScreenInv == TerminalTypeOK /\ Lists /\ Window /\ Choosing

(* A command counts as a move and adds calls that it describes well.         *)
LEMMA CallTypes ==
  ASSUME TerminalTypeOK, TerminalMove, NEW kind, NEW of, Call(kind, of),
         \/ kind = "org" /\ of \in Orgs
         \/ kind = "locate" /\ of \in Release \cup {q.id : q \in Queries}
         \/ kind = "collection" /\ of = 0
  PROVE  calls' \subseteq Calls /\ terminalMoves' \in 0 .. MaxTerminalMove
<1>1. terminalMoves' \in 1 .. MaxTerminalMove
  BY TerminalAssumption DEF TerminalTypeOK, TerminalMove
<1>2. [kind |-> kind, of |-> of, id |-> terminalMoves'] \in Calls
  BY <1>1 DEF Calls, GetOrgRequest, LocateRecordRequest, GetRecordWithId, GetRecordRequest
<1> QED
  BY <1>1, <1>2 DEF Call, TerminalTypeOK

(* A call is one of six kinds, known by its kind.                            *)
LEMMA CallKinds ==
  ASSUME NEW c \in Calls
  PROVE  /\ c.id \in 1 .. MaxTerminalMove
         /\ c.kind = "org" => c.of \in Orgs
         /\ c.kind = "record" => c.of \in Copies
         /\ c.kind = "organisation" => c.of \in GetOrgResponse
         /\ c.kind = "location" => c.of \in LocateRecordResponse
BY DEF Calls, GetOrgRequest, LocateRecordRequest, GetRecordWithId, GetRecordRequest, OrgFetched, LocateFetched

(* FilterCollectionIndex lists releases and copies, and a placeholder for    *)
(* the number typed.                                                         *)
LEMMA FilterTypes ==
  ASSUME NEW copies \in SUBSET Copies, NEW q \in Typed, FilterCollectionIndex(copies, q)
  PROVE  /\ filteredReleases' \subseteq Release
         /\ filteredLocateRecords' \subseteq Copies \cup {Placeholder(k.id) : k \in Queries}
         /\ \A row \in filteredLocateRecords' : row \in Copies \/ row < 0
         /\ cursor' = 0 /\ offset' = 0
<1>1. q.id = 0 \/ q \in Queries
  BY DEF Typed
<1>2. \A k \in Queries : k.id \in Nat
  BY TerminalAssumption
<1>3. Releases(copies) \subseteq Release
  BY DEF Releases, Release
<1>4. q.id # 0 => Placeholder(q.id) < 0 /\ Placeholder(q.id) \in {Placeholder(k.id) : k \in Queries}
  BY <1>1, <1>2 DEF Placeholder
<1> QED
  BY <1>3, <1>4 DEF FilterCollectionIndex, FilterRecords

(* The search goes on to a release of the collection or to the number typed. *)
LEMMA EnterTypes ==
  ASSUME ScreenInv, Enter
  PROVE  TerminalTypeOK' /\ Choosing'
<1> DEFINE row == Nth(Shown, Min({cursor, Cardinality(Shown) - 1}))
           release == IF filteredReleases # {} THEN row ELSE IF row < 0 THEN -row ELSE ReleaseOf[row]
           copies == {c \in have : ReleaseOf[c] = release}
<1>1. Copies \subseteq Nat \ {0} /\ ReleaseOf \in [Copies -> Nat \ {0}]
  BY TerminalAssumption
<1>2. row \in Shown
  <2>1. IsFiniteSet(Shown) /\ Shown # {}
    BY DEF ScreenInv, Lists, Shown, Enter
  <2>2. Cardinality(Shown) \in Nat /\ Cardinality(Shown) > 0
    BY <2>1, FS_EmptySet, FS_CardinalityType
  <2>3. Min({cursor, Cardinality(Shown) - 1}) \in 0 .. Cardinality(Shown) - 1
    BY <2>2, MinOfTwo DEF ScreenInv, Window
  <2>4. Shown \subseteq Int
    <3>1. Release \subseteq Int
      BY <1>1 DEF Release
    <3>2. filteredLocateRecords \subseteq Int
      BY <1>1, TerminalAssumption DEF ScreenInv, TerminalTypeOK, Placeholder
    <3> QED
      BY <3>1, <3>2 DEF ScreenInv, TerminalTypeOK, Shown
  <2> HIDE DEF row
  <2> QED
    BY <2>1, <2>3, <2>4, NthExists DEF row
<1> HIDE DEF row
<1>3. release \in Release \cup {q.id : q \in Queries}
  <2>1. CASE filteredReleases # {}
    BY <1>2, <2>1 DEF ScreenInv, TerminalTypeOK, Shown
  <2>2. CASE filteredReleases = {} /\ row < 0
    <3>1. row \notin Copies
      <4>1. \A c \in Copies : ~(c < 0)
        BY <1>1
      <4> QED
        BY <2>2, <4>1
    <3>2. PICK q \in Queries : row = -q.id
      BY <1>2, <2>2, <3>1 DEF ScreenInv, TerminalTypeOK, Shown, Placeholder
    <3>3. q.id \in Nat
      BY TerminalAssumption
    <3>4. -row = q.id
      BY <3>2, <3>3
    <3> QED
      BY <2>2, <3>4
  <2>3. CASE filteredReleases = {} /\ ~(row < 0)
    <3>1. row \in Copies
      BY <1>2, <2>3 DEF ScreenInv, Choosing, Shown
    <3> QED
      BY <2>3, <3>1 DEF Release
  <2> QED
    BY <2>1, <2>2, <2>3
<1>4. copies \subseteq Copies /\ IsFiniteSet(copies) /\ Cardinality(copies) \in Nat
  <2>1. copies \in SUBSET have /\ copies \in SUBSET Copies
    BY DEF ScreenInv, Lists
  <2>2. IsFiniteSet(have)
    BY ReleasesFinite DEF ScreenInv, Lists
  <2> HIDE DEF release, copies
  <2>3. IsFiniteSet(copies)
    BY <2>1, <2>2, FS_Subset
  <2> QED
    BY <2>1, <2>3, FS_CardinalityType
<1> HIDE DEF release, copies
<1>5. CASE view' = "versions" /\ choice' = [records |-> copies, cursor |-> 0] /\ UNCHANGED <<located, calls>> /\ Cardinality(copies) > 1
  <2>1. terminalMoves' \in 0 .. MaxTerminalMove
    BY TerminalAssumption DEF Enter, TerminalMove, ScreenInv, TerminalTypeOK
  <2>2. choice' \in [records : SUBSET Copies, cursor : Nat] /\ view' \in ViewState
    BY <1>4, <1>5 DEF ViewState
  <2>3. Choosing'
    BY <1>4, <1>5 DEF Enter, search, ScreenInv, Choosing
  <2> QED
    BY <1>5, <2>1, <2>2, <2>3 DEF Enter, ScreenInv, TerminalTypeOK, stored, org, search
<1>6. CASE FetchLocate(release) /\ UNCHANGED choice
  <2>1. calls' \subseteq Calls /\ terminalMoves' \in 0 .. MaxTerminalMove
    BY <1>3, <1>6, CallTypes DEF Enter, ScreenInv, FetchLocate
  <2>2. view' = "locate"
    BY <1>6 DEF FetchLocate
  <2>3. Choosing'
    BY <1>6, <2>2 DEF Enter, search, ScreenInv, Choosing
  <2> QED
    BY <1>6, <2>1, <2>2, <2>3 DEF Enter, FetchLocate, ScreenInv, TerminalTypeOK, ViewState, LocateRecordResponse, Unread,
                                  stored, org, search
<1> QED
  BY <1>5, <1>6 DEF Enter, row, release, copies

(* The answers keep the types.                                               *)
LEMMA AnswerTypes ==
  ASSUME ScreenInv, Lists', Window', NEW c \in calls, Receive(c) \/ FailCall(c) \/ FailCollection(c)
  PROVE  TerminalTypeOK' /\ Choosing'
<1>1. c \in Calls /\ TerminalTypeOK
  BY DEF ScreenInv, TerminalTypeOK
<1>2. CASE GetOrg(c)
  <2>1. c.of \in Orgs /\ c.id \in 1 .. MaxTerminalMove
    BY <1>1, <1>2, CallKinds DEF GetOrg
  <2>2. BuildSnapshot(c.of) \in GetOrgResponse
    BY DEF BuildSnapshot, GetOrgResponse, OrganisationSnapshot
  <2>3. [kind |-> "organisation", of |-> BuildSnapshot(c.of), id |-> c.id] \in Calls
    BY <2>1, <2>2 DEF Calls, OrgFetched
  <2>4. calls' \subseteq Calls
    BY <1>1, <1>2, <2>3 DEF GetOrg, Answered, TerminalTypeOK
  <2>5. snapshots' \in [Orgs -> OrganisationSnapshot]
    BY <1>1, <1>2, <2>2 DEF GetOrg, TerminalTypeOK, GetOrgResponse
  <2> QED
    BY <1>1, <1>2, <2>4, <2>5 DEF GetOrg, TerminalTypeOK, org, search, ScreenInv, Choosing
<1>3. CASE ResolveRecord(c)
  <2>1. c.of \in Copies
    BY <1>1, <1>3, CallKinds DEF ResolveRecord, ReceiveRecord
  <2> QED
    BY <1>1, <1>3, <2>1 DEF ResolveRecord, ReceiveRecord, Arrives, TerminalTypeOK, stored, search, ScreenInv, Choosing
<1>4. CASE LocateRecord(c)
  <2>1. PICK places \in LocateRecordResponse : Answered(c, "location", places)
    <3>1. {} \in LocateRecordResponse /\
          {l \in Location : l[2] \in snapshots[l[1]] /\ ReleaseOf[l[2]] = c.of} \in LocateRecordResponse
      BY DEF LocateRecordResponse
    <3> QED
      BY <1>4, <3>1 DEF LocateRecord
  <2>2. [kind |-> "location", of |-> places, id |-> c.id] \in Calls
    BY <1>1, CallKinds DEF Calls, LocateFetched
  <2>3. calls' \subseteq Calls
    BY <1>1, <2>1, <2>2 DEF Answered, TerminalTypeOK
  <2> QED
    BY <1>1, <1>4, <2>3 DEF LocateRecord, TerminalTypeOK, stored, org, search, ScreenInv, Choosing
<1>7. CASE ReceiveOrg(c)
  <2>1. c.of \in GetOrgResponse /\ c.id \in 1 .. MaxTerminalMove
    BY <1>1, <1>7, CallKinds DEF ReceiveOrg
  <2> DEFINE asked == {[kind |-> "record", of |-> p, id |-> c.id] : p \in c.of}
  <2>2. asked \subseteq Calls
    BY <2>1 DEF Calls, GetRecordWithId, GetOrgResponse, OrganisationSnapshot
  <2> HIDE DEF asked
  <2>3. calls' \subseteq Calls
    BY <1>1, <1>7, <2>2 DEF ReceiveOrg, TerminalTypeOK, asked
  <2>4. placements' \in GetOrgResponse /\ resolved' \subseteq Copies
    BY <1>1, <1>7, <2>1 DEF ReceiveOrg, TerminalTypeOK, org
  <2> QED
    BY <1>1, <1>7, <2>3, <2>4 DEF ReceiveOrg, TerminalTypeOK, stored, search, ScreenInv, Choosing
<1>8. CASE ReceiveLocation(c)
  <2>1. c.of \in LocateRecordResponse
    BY <1>1, <1>8, CallKinds DEF ReceiveLocation
  <2> QED
    BY <1>1, <1>8, <2>1 DEF ReceiveLocation, Arrives, TerminalTypeOK, stored, org, search, ScreenInv, Choosing
<1>5. CASE ReceiveCollection(c)
  <2>1. Collection \subseteq Copies
    BY DEF Collection
  <2>2. /\ filteredReleases' \subseteq Release
        /\ filteredLocateRecords' \subseteq Copies \cup {Placeholder(k.id) : k \in Queries}
        /\ \A row \in filteredLocateRecords' : row \in Copies \/ row < 0
        /\ cursor' = 0 /\ offset' = 0
    BY <1>1, <1>5, <2>1, FilterTypes DEF ReceiveCollection, TerminalTypeOK
  <2> QED
    BY <1>1, <1>5, <2>1, <2>2 DEF ReceiveCollection, Arrives, TerminalTypeOK, GetRecordResponse, RecordResponse, stored, org, ScreenInv, Choosing
<1>6. CASE FailCall(c) \/ FailCollection(c)
  <2>1. terminalMoves' \in 0 .. MaxTerminalMove
    BY <1>1, <1>6, TerminalAssumption DEF FailCall, FailCollection, TerminalMove, TerminalTypeOK
  <2> QED
    BY <1>1, <1>6, <2>1 DEF FailCall, FailCollection, Arrives, TerminalTypeOK, stored, org, search, ScreenInv, Choosing
<1> QED
  BY <1>2, <1>3, <1>4, <1>5, <1>6, <1>7, <1>8 DEF Receive

(* The commands keep the types.                                              *)
LEMMA CommandTypes ==
  ASSUME ScreenInv, Lists', Window',
         \/ \E q \in Typed : Type(q)
         \/ \E o \in Orgs : OpenOrg(o)
         \/ \E r \in Release : OpenLocate(r)
         \/ \E n \in 0 .. Cardinality(Copies) : MoveVersion(n)
         \/ \E c \in Copies, place \in Orgs \cup {Gone} : Reshelve(c, place)
         \/ CursorUp \/ CursorDown \/ LeaveSearch \/ EnterVersion \/ LeaveVersions
         \/ OpenSearch \/ Leave \/ ReceiveSynced
  PROVE  TerminalTypeOK' /\ Choosing'
<1>1. TerminalTypeOK /\ Choosing /\ Lists /\ cursor' \in Nat /\ offset' \in Nat
  BY DEF ScreenInv, Window
<1>2. TerminalMove => terminalMoves' \in 0 .. MaxTerminalMove
  BY <1>1, TerminalAssumption DEF TerminalMove, TerminalTypeOK
<1>3. ASSUME NEW q \in Typed, Type(q) PROVE TerminalTypeOK' /\ Choosing'
  <2>1. /\ filteredReleases' \subseteq Release
        /\ filteredLocateRecords' \subseteq Copies \cup {Placeholder(k.id) : k \in Queries}
        /\ \A row \in filteredLocateRecords' : row \in Copies \/ row < 0
    BY <1>1, <1>3, FilterTypes DEF Type, TerminalTypeOK, GetRecordResponse, RecordResponse
  <2> QED
    BY <1>1, <1>2, <1>3, <2>1 DEF Type, TerminalTypeOK, stored, org, Choosing
<1>4. ASSUME NEW o \in Orgs, OpenOrg(o) PROVE TerminalTypeOK' /\ Choosing'
  <2>1. calls' \subseteq Calls
    BY <1>1, <1>4, CallTypes DEF OpenOrg
  <2> QED
    BY <1>1, <1>2, <1>4, <2>1 DEF OpenOrg, TerminalTypeOK, ViewState, GetOrgResponse, OrganisationSnapshot, stored, search, Choosing
<1>5. ASSUME NEW r \in Release, OpenLocate(r) PROVE TerminalTypeOK' /\ Choosing'
  <2>1. calls' \subseteq Calls
    BY <1>1, <1>5, CallTypes DEF OpenLocate
  <2> QED
    BY <1>1, <1>2, <1>5, <2>1 DEF OpenLocate, TerminalTypeOK, ViewState, LocateRecordResponse, Unread, stored, org, search, Choosing
<1>6. ASSUME NEW n \in 0 .. Cardinality(Copies), MoveVersion(n) PROVE TerminalTypeOK' /\ Choosing'
  <2>1. n \in Nat /\ n < Cardinality(choice.records)
    <3>1. Cardinality(choice.records) \in Nat
      BY <1>1, FS_CardinalityType DEF Choosing
    <3> QED
      BY <1>6, <3>1 DEF MoveVersion
  <2>2. choice' = [records |-> choice.records, cursor |-> n]
    BY <1>1, <1>6 DEF MoveVersion, TerminalTypeOK
  <2> QED
    BY <1>1, <1>6, <2>1, <2>2 DEF MoveVersion, TerminalTypeOK, stored, org, search, Choosing
<1>7. ASSUME NEW c \in Copies, NEW place \in Orgs \cup {Gone}, Reshelve(c, place) PROVE TerminalTypeOK' /\ Choosing'
  BY <1>1, <1>2, <1>7 DEF Reshelve, TerminalTypeOK, org, search, Choosing
<1>8. CASE CursorUp \/ CursorDown
  BY <1>1, <1>8 DEF CursorUp, CursorDown, TerminalTypeOK, stored, org, Choosing
<1>9. CASE LeaveSearch \/ OpenSearch
  <2>1. Releases(have) \subseteq Release /\ have \subseteq Copies
    BY <1>1 DEF Releases, Release, Lists
  <2>2. Typed # {} /\ AnyTitle \in Typed
    BY DEF Typed, AnyTitle
  <2>3. CASE LeaveSearch
    BY <1>1, <2>1, <2>2, <2>3 DEF LeaveSearch, TerminalTypeOK, ViewState, stored, org, Choosing
  <2>4. CASE OpenSearch
    <3>1. calls' \subseteq Calls
      BY <1>1, <2>4, CallTypes DEF OpenSearch, TerminalTypeOK
    <3> QED
      BY <1>1, <1>2, <2>1, <2>2, <2>4, <3>1 DEF OpenSearch, TerminalTypeOK, ViewState, stored, org, Choosing
  <2> QED
    BY <1>9, <2>3, <2>4
<1>10. CASE EnterVersion
  <2> DEFINE copy == Nth(choice.records, choice.cursor)
  <2>1. choice.records \in SUBSET Int /\ choice.records \subseteq Copies /\ choice.cursor \in Nat
    <3>1. choice.records \in SUBSET Copies /\ choice.cursor \in Nat
      BY <1>1 DEF TerminalTypeOK
    <3>2. Copies \subseteq Int
      BY TerminalAssumption
    <3> QED
      BY <3>1, <3>2
  <2>2. choice.cursor \in 0 .. Cardinality(choice.records) - 1 /\ IsFiniteSet(choice.records)
    BY <1>1, <1>10, <2>1, FS_CardinalityType DEF EnterVersion, Choosing
  <2>3. copy \in Copies
    BY <2>1, <2>2, NthExists
  <2> HIDE DEF copy
  <2>4. ReleaseOf[copy] \in Release
    BY <2>3 DEF Release
  <2>5. calls' \subseteq Calls
    BY <1>1, <1>10, <2>4, CallTypes DEF EnterVersion, FetchLocate, copy
  <2> QED
    BY <1>1, <1>2, <1>10, <2>5 DEF EnterVersion, FetchLocate, TerminalTypeOK, ViewState, LocateRecordResponse, Unread,
                                   stored, org, search, Choosing
<1>11. CASE LeaveVersions \/ Leave
  BY <1>1, <1>11 DEF LeaveVersions, Leave, TerminalTypeOK, ViewState, stored, org, search, Choosing
<1>12. CASE ReceiveSynced
  <2>1. Collection \subseteq Copies
    BY DEF Collection
  <2>2. /\ filteredReleases' \subseteq Release
        /\ filteredLocateRecords' \subseteq Copies \cup {Placeholder(k.id) : k \in Queries}
        /\ \A row \in filteredLocateRecords' : row \in Copies \/ row < 0
    BY <1>1, <1>12, <2>1, FilterTypes DEF ReceiveSynced, TerminalTypeOK
  <2> QED
    BY <1>1, <1>2, <1>12, <2>1, <2>2 DEF ReceiveSynced, TerminalTypeOK, GetRecordResponse, RecordResponse, stored, org, Choosing
<1> QED
  BY <1>3, <1>4, <1>5, <1>6, <1>7, <1>8, <1>9, <1>10, <1>11, <1>12

(* A terminal only ever asks for what there is, whatever row or version is   *)
(* taken from lists that were replaced meanwhile.                            *)
LEMMA ScreenStep == ScreenInv /\ [TerminalNext]_terminalVars => ScreenInv'
<1> SUFFICES ASSUME ScreenInv, [TerminalNext]_terminalVars PROVE ScreenInv'
  OBVIOUS
<1>1. Lists' /\ Window'
  BY SearchStep DEF ScreenInv
<1>2. CASE UNCHANGED terminalVars
  BY <1>2 DEF terminalVars, ScreenInv, TerminalTypeOK, Lists, Window, Shown, Choosing
<1>3. CASE \E c \in calls : Receive(c) \/ FailCall(c) \/ FailCollection(c)
  BY <1>1, <1>3, AnswerTypes DEF ScreenInv
<1>4. CASE Enter
  BY <1>1, <1>4, EnterTypes DEF ScreenInv
<1>5. CASE \/ \E q \in Typed : Type(q)
           \/ \E o \in Orgs : OpenOrg(o)
           \/ \E r \in Release : OpenLocate(r)
           \/ \E n \in 0 .. Cardinality(Copies) : MoveVersion(n)
           \/ \E c \in Copies, place \in Orgs \cup {Gone} : Reshelve(c, place)
           \/ CursorUp \/ CursorDown \/ LeaveSearch \/ EnterVersion \/ LeaveVersions
           \/ OpenSearch \/ Leave \/ ReceiveSynced
  BY <1>1, <1>5, CommandTypes DEF ScreenInv
<1> QED
  BY <1>2, <1>3, <1>4, <1>5 DEF TerminalNext

(* A behaviour of the client programs is one of each of them.                *)
LEMMA ClientsImplement == ClientsSpec => LoginSpec /\ CacheSpec /\ TerminalSpec
<1>1. ClientsInit => LoginInit /\ CacheInit /\ TerminalInit
  BY DEF ClientsInit
<1>2. [ClientsNext]_clientVars => [LoginNext]_loginVars /\ [CacheNext]_cacheVars /\ [TerminalNext]_terminalVars
  BY DEF ClientsNext, InLogin, InCache, InTerminal, clientVars
<1> QED
  BY <1>1, <1>2, PTL DEF ClientsSpec, LoginSpec, CacheSpec, TerminalSpec

(* Every part of the client programs stays within its types: in particular   *)
(* a command of the terminal asks for an organisation, a copy or a release   *)
(* there is, or for the number that was typed.                               *)
THEOREM ClientsTypeCorrect == ClientsSpec => []ClientsTypeOK
<1>1. TerminalInit => Lists /\ Window
  <2> SUFFICES ASSUME TerminalInit PROVE Lists /\ Window
    OBVIOUS
  <2>1. Shown = {} /\ Cardinality(Shown) = 0 /\ Lists
    BY FS_EmptySet DEF TerminalInit, Shown, Lists
  <2>2. Rows \in Nat /\ Rows > 0
    BY TerminalAssumption
  <2>3. Max({1, 0}) = 1 /\ Max({Rows, 0}) = Rows
    BY <2>2, MaxOfTwo
  <2> QED
    BY <2>1, <2>2, <2>3 DEF TerminalInit, Window
<1>2. TerminalInit => TerminalTypeOK /\ Choosing
  <2> SUFFICES ASSUME TerminalInit PROVE TerminalTypeOK /\ Choosing
    OBVIOUS
  <2>1. query \in Typed
    BY DEF TerminalInit, AnyTitle, Typed
  <2>2. choice \in [records : SUBSET Copies, cursor : Nat]
    BY DEF TerminalInit, NoChoice
  <2>3. shelf \in [Copies -> Orgs \cup {Gone}] /\ snapshots \in [Orgs -> OrganisationSnapshot]
    BY TerminalAssumption DEF TerminalInit, OrganisationSnapshot
  <2>4. Choosing
    BY FS_EmptySet DEF TerminalInit, NoChoice, Choosing
  <2>5. terminalMoves \in 0 .. MaxTerminalMove /\ cursor \in Nat /\ offset \in Nat
    BY TerminalAssumption DEF TerminalInit
  <2>6. view \in ViewState /\ failed \in BOOLEAN /\ loading \in BOOLEAN
    BY DEF TerminalInit, ViewState
  <2>7. placements \in GetOrgResponse /\ located \in LocateRecordResponse /\ have \in GetRecordResponse
    BY DEF TerminalInit, GetOrgResponse, OrganisationSnapshot, LocateRecordResponse, Unread, GetRecordResponse
  <2> QED
    BY <2>1, <2>2, <2>3, <2>4, <2>5, <2>6, <2>7 DEF TerminalInit, TerminalTypeOK
<1>3. ScreenInv => TerminalTypeOK
  BY DEF ScreenInv
<1>4. TerminalSpec => []TerminalTypeOK
  BY <1>1, <1>2, <1>3, ScreenStep, PTL DEF TerminalSpec, ScreenInv
<1>5. LoginTypeOK /\ CacheTypeOK /\ TerminalTypeOK => ClientsTypeOK
  BY DEF ClientsTypeOK
<1> QED
  BY <1>4, <1>5, ClientsImplement, LoginTypeCorrect, CacheTypeCorrect, PTL
==============================================================================
