-------------------------------- MODULE Login --------------------------------
(***************************************************************************)
(* Logging in (server/external.go, server/callback.go, gram/login.go and   *)
(* the login states of cmd/gramophile/tui.go).                             *)
(*                                                                         *)
(* gram login asks the server for a URL, which starts a login attempt, and *)
(* polls GetLogin until the user has come back from Discogs through the    *)
(* callback; the account made then is refreshed and put on the waitlist.   *)
(* The terminal takes its token from the file gram leaves behind or from   *)
(* the keyboard, and waits for the account to become LIVE.  A terminal     *)
(* that has no token asks for a URL as well and is refused, because        *)
(* AuthCheck wants a LIVE user for GetURL: of that way in only the refusal *)
(* is modelled.                                                            *)
(*                                                                         *)
(* An account is named by the request token it was made from.              *)
(***************************************************************************)
EXTENDS Naturals, FiniteSets

CONSTANTS
  Machines,    \* each with one token file, one gram and one terminal
  Tokens,      \* request tokens Discogs gives out
  Owner,       \* the token of a LIVE user that exists from the start
  Nobody,      \* no token
  MaxLoginMove \* bound: logins, faults, tokens typed, upgrades and 5 minutes gone by

ASSUME LoginAssumption == MaxLoginMove \in Nat

UserState == {"unknown", "refreshing", "in_waitlist", "live"}
StoredUser == {"none"} \cup UserState
GramophileAuth == Tokens \cup {Owner, Nobody}
UserLoginAttempt == [token : Tokens, confirmed : BOOLEAN, age : 0 .. 3] \* in fives of minutes
UserLoginAttempts == SUBSET UserLoginAttempt
GetURLRequest == [at : {"url"}, token : {Nobody}]
GetURLResponse == [at : {"wait"}, token : Tokens]
GetLoginRequest == [at : {"poll", "served"}, token : Tokens]
GetLoginResponse == [at : {"answered"}, token : Tokens]
Gram == {[at |-> "idle", token |-> Nobody]} \cup GetURLRequest \cup GetURLResponse
        \cup GetLoginRequest \cup GetLoginResponse
AppState == {"off", "login", "sync", "waitlist", "main"}
SyncStatus == {"none", "due", "asked", "failed"} \cup UserState

VARIABLES
  attempts,  \* the stored UserLoginAttempts
  callback,  \* how far the callback of a token is
  serving,   \* the attempts GetLogin took, and how far it is with each
  users,     \* the stored accounts
  generated, \* how many accounts GetLogin made of an attempt
  loaded,    \* the accounts a refresh holds a copy of
  file,      \* ~/.gramophile of each machine
  gram,      \* the gram login of each machine
  tui,       \* the terminal of each machine
  logins     \* bound: the moves so far

server == <<attempts, callback, serving, users, generated, loaded>>
loginVars == <<attempts, callback, serving, users, generated, loaded, file, gram, tui, logins>>

LoginInit ==
  /\ attempts = {} /\ serving = {} /\ loaded = {}
  /\ callback = [t \in Tokens |-> "none"]
  /\ users = [a \in GramophileAuth |-> IF a = Owner THEN "live" ELSE "none"]
  /\ generated = [t \in Tokens |-> 0]
  /\ file \in [Machines -> {Owner, Nobody}]
  /\ gram = [m \in Machines |-> [at |-> "idle", token |-> Nobody]]
  /\ tui = [m \in Machines |-> [state |-> "off", auth |-> Nobody, poll |-> "none"]]
  /\ logins = 0

LoginMove == logins < MaxLoginMove /\ logins' = logins + 1
Fresh(a) == a.age < 3
Issued == {a.token : a \in attempts}

SetGram(m, at, token) == gram' = [gram EXCEPT ![m] = [at |-> at, token |-> token]]
SetTui(m, state, auth, poll) == tui' = [tui EXCEPT ![m] = [state |-> state, auth |-> auth, poll |-> poll]]
SetPoll(m, poll) == tui' = [tui EXCEPT ![m].poll = poll]
----------------------------------------------------------------------------
(* The server *)

(* Only a LIVE user is given a URL. *)
AuthCheck(auth) == users[auth] = "live"

LoadLogins == {a \in attempts : Fresh(a)}

GetURL(m, t) ==
  /\ gram[m].at = "url" /\ AuthCheck(file[m])
  /\ callback[t] = "none"
  /\ t \notin Issued \cup {a.token : a \in serving} /\ generated[t] = 0
  /\ attempts' = LoadLogins \cup {[token |-> t, confirmed |-> FALSE, age |-> 0]}
  /\ SetGram(m, "wait", t)
  /\ UNCHANGED <<callback, serving, users, generated, loaded, file, tui, logins>>

RefuseURL(m) ==
  /\ gram[m].at = "url" /\ ~AuthCheck(file[m])
  /\ SetGram(m, "idle", Nobody)
  /\ UNCHANGED <<server, file, tui, logins>>

(* The attempt is taken under loginMutex, which is released before the       *)
(* account is made.                                                          *)
(* Mutant: an attempt is taken before the callback has confirmed it.        *)
ReadyUnconfirmed(t) == {a \in LoadLogins : a.token = t}
Ready(t) == {a \in LoadLogins : a.token = t /\ a.confirmed}
TakeAttempt(m) ==
  LET t == gram[m].token
  IN /\ gram[m].at = "poll" /\ Ready(t) # {}
     /\ attempts' = LoadLogins \ Ready(t)
     /\ serving' = serving \cup {[token |-> t, step |-> "generate"]}
     /\ SetGram(m, "served", t)
     /\ UNCHANGED <<callback, users, generated, loaded, file, tui, logins>>

(* codes.DataLoss *)
RefuseLogin(m) ==
  /\ gram[m].at = "poll" /\ Ready(gram[m].token) = {}
  /\ SetGram(m, "wait", gram[m].token)
  /\ UNCHANGED <<server, file, tui, logins>>

GenerateToken(s) ==
  /\ s.step = "generate"
  /\ users' = [users EXCEPT ![s.token] = "unknown"]
  /\ generated' = [generated EXCEPT ![s.token] = @ + 1]
  /\ serving' = (serving \ {s}) \cup {[s EXCEPT !.step = "save"]}
  /\ UNCHANGED <<attempts, callback, loaded, file, gram, tui, logins>>

(* Whoever still waits for the answer gets it. *)
SaveUser(s) ==
  /\ s.step = "save"
  /\ users' = [users EXCEPT ![s.token] = "refreshing"]
  /\ serving' = serving \ {s}
  /\ gram' = [m \in Machines |->
       IF gram[m] = [at |-> "served", token |-> s.token] THEN [gram[m] EXCEPT !.at = "answered"] ELSE gram[m]]
  /\ UNCHANGED <<attempts, callback, generated, loaded, file, tui, logins>>

(* Discogs or the store fails GetLogin after it took the attempt. *)
FailLogin(s) ==
  /\ LoginMove
  /\ serving' = serving \ {s}
  /\ gram' = [m \in Machines |->
       IF gram[m] = [at |-> "served", token |-> s.token] THEN [at |-> "idle", token |-> Nobody] ELSE gram[m]]
  /\ UNCHANGED <<attempts, callback, users, generated, loaded, file, tui>>

(* ServeHTTP reads the attempts, asks Discogs without the lock, and reads    *)
(* them again to record what Discogs said.                                   *)
BeginCallback(t) ==
  /\ callback[t] = "none" /\ t \in Issued
  /\ callback' = [callback EXCEPT ![t] = "asking"]
  /\ UNCHANGED <<attempts, serving, users, generated, loaded, file, gram, tui, logins>>

SaveLogins(t) ==
  /\ callback[t] = "asking"
  /\ attempts' = {IF a.token = t THEN [a EXCEPT !.confirmed = TRUE] ELSE a : a \in attempts}
  /\ callback' = [callback EXCEPT ![t] = "done"]
  /\ UNCHANGED <<serving, users, generated, loaded, file, gram, tui, logins>>

(* Discogs refuses, and the user tries the page again. *)
FailCallback(t) ==
  /\ LoginMove
  /\ callback[t] = "asking"
  /\ callback' = [callback EXCEPT ![t] = "none"]
  /\ UNCHANGED <<attempts, serving, users, generated, loaded, file, gram, tui>>

(* The last page of a collection refresh puts the account on the waitlist,   *)
(* in the copy the task was started with.                                    *)
LoadForRefresh(a) ==
  /\ users[a] = "refreshing" /\ a \notin loaded
  /\ loaded' = loaded \cup {a}
  /\ UNCHANGED <<attempts, callback, serving, users, generated, file, gram, tui, logins>>
SaveRefreshed(a) ==
  /\ a \in loaded
  /\ users' = [users EXCEPT ![a] = "in_waitlist"]
  /\ loaded' = loaded \ {a}
  /\ UNCHANGED <<attempts, callback, serving, generated, file, gram, tui, logins>>

UpgradeUser(a) ==
  /\ LoginMove
  /\ users[a] \in UserState \ {"live"}
  /\ users' = [users EXCEPT ![a] = "live"]
  /\ UNCHANGED <<attempts, callback, serving, generated, loaded, file, gram, tui>>

(* Five minutes pass: gram gives up on what it waits for, an attempt ends    *)
(* after fifteen.                                                            *)
Age ==
  /\ LoginMove
  /\ attempts' = {[a EXCEPT !.age = IF a.age = 3 THEN 3 ELSE a.age + 1] : a \in attempts}
  /\ gram' = [m \in Machines |-> IF gram[m].at \in {"wait", "poll", "served"}
                                 THEN [at |-> "idle", token |-> Nobody] ELSE gram[m]]
  /\ UNCHANGED <<callback, serving, users, generated, loaded, file, tui>>
----------------------------------------------------------------------------
(* gram login *)
StartLogin(m) ==
  /\ LoginMove
  /\ gram[m].at = "idle"
  /\ SetGram(m, "url", Nobody)
  /\ UNCHANGED <<server, file, tui>>

PollLogin(m) ==
  /\ gram[m].at = "wait"
  /\ SetGram(m, "poll", gram[m].token)
  /\ UNCHANGED <<server, file, tui, logins>>

SaveToken(m) ==
  /\ gram[m].at = "answered"
  /\ file' = [file EXCEPT ![m] = gram[m].token]
  /\ SetGram(m, "idle", Nobody)
  /\ UNCHANGED <<server, tui, logins>>
----------------------------------------------------------------------------
(* The terminal *)
HandleStartup(m) ==
  /\ LoginMove
  /\ IF file[m] # Nobody THEN SetTui(m, "main", file[m], "none") ELSE SetTui(m, "login", Nobody, "none")
  /\ UNCHANGED <<server, file, gram>>

TypeToken(m, auth) ==
  /\ LoginMove
  /\ tui[m].state = "login"
  /\ file' = [file EXCEPT ![m] = auth]
  /\ SetTui(m, "sync", auth, "asked")
  /\ UNCHANGED <<server, gram>>

PollSync(m) ==
  /\ tui[m].poll = "due"
  /\ SetPoll(m, "asked")
  /\ UNCHANGED <<server, file, gram, logins>>

(* GetUser, then GetState, for which any account will do. *)
GetUser(m) ==
  /\ tui[m].poll = "asked"
  /\ SetPoll(m, IF users[tui[m].auth] = "none" THEN "failed" ELSE users[tui[m].auth])
  /\ UNCHANGED <<server, file, gram, logins>>
FailGetUser(m) ==
  /\ LoginMove
  /\ tui[m].poll = "asked"
  /\ SetPoll(m, "failed")
  /\ UNCHANGED <<server, file, gram>>

(* Mutant: a poll that failed is not repeated.                              *)
ReceiveOnlyState(m) ==
  /\ tui[m].state = "sync" /\ tui[m].poll \in UserState
  /\ CASE tui[m].poll = "in_waitlist" -> SetTui(m, "waitlist", tui[m].auth, "due")
       [] tui[m].poll = "live" -> SetTui(m, "main", tui[m].auth, "none")
       [] OTHER -> SetPoll(m, "due")
  /\ UNCHANGED <<server, file, gram, logins>>
ReceiveLoadingSync(m) ==
  /\ tui[m].state = "sync" /\ tui[m].poll \in UserState \cup {"failed"}
  /\ CASE tui[m].poll = "in_waitlist" -> SetTui(m, "waitlist", tui[m].auth, "due")
       [] tui[m].poll = "live" -> SetTui(m, "main", tui[m].auth, "none")
       [] OTHER -> SetPoll(m, "due")
  /\ UNCHANGED <<server, file, gram, logins>>
ReceiveWaitlist(m) ==
  /\ tui[m].state = "waitlist" /\ tui[m].poll \in UserState \cup {"failed"}
  /\ IF tui[m].poll = "live" THEN SetTui(m, "main", tui[m].auth, "none") ELSE SetPoll(m, "due")
  /\ UNCHANGED <<server, file, gram, logins>>

PollAccount(m) == PollSync(m) \/ GetUser(m) \/ ReceiveLoadingSync(m) \/ ReceiveWaitlist(m)
LoginStep(m) ==
  \/ \E t \in Tokens : GetURL(m, t)
  \/ RefuseURL(m) \/ TakeAttempt(m) \/ RefuseLogin(m) \/ PollLogin(m) \/ SaveToken(m)
Serve == \E s \in serving : GenerateToken(s) \/ SaveUser(s)
Refresh == \E a \in Tokens : LoadForRefresh(a) \/ SaveRefreshed(a)
LoginFault ==
  \/ \E s \in serving : FailLogin(s)
  \/ \E t \in Tokens : FailCallback(t)
  \/ \E m \in Machines : FailGetUser(m)
  \/ Age

LoginNext ==
  \/ \E m \in Machines : StartLogin(m) \/ LoginStep(m) \/ HandleStartup(m) \/ PollAccount(m)
  \/ \E m \in Machines, auth \in GramophileAuth \ {Nobody} : TypeToken(m, auth)
  \/ \E t \in Tokens : BeginCallback(t) \/ SaveLogins(t) \/ UpgradeUser(t)
  \/ Serve \/ Refresh \/ LoginFault

LoginSpec == LoginInit /\ [][LoginNext]_loginVars
----------------------------------------------------------------------------
LoginTypeOK ==
  /\ attempts \in UserLoginAttempts
  /\ callback \in [Tokens -> {"none", "asking", "done"}]
  /\ serving \subseteq [token : Tokens, step : {"generate", "save"}]
  /\ users \in [GramophileAuth -> StoredUser] /\ generated \in [Tokens -> Nat]
  /\ loaded \subseteq Tokens /\ file \in [Machines -> GramophileAuth] /\ gram \in [Machines -> Gram]
  /\ tui \in [Machines -> [state : AppState, auth : GramophileAuth, poll : SyncStatus]]
  /\ logins \in 0 .. MaxLoginMove

(* A login attempt younger than fifteen minutes is lost only by being made   *)
(* into an account, of which there is never a second, and what the callback  *)
(* said of it is not lost before: GetURL, GetLogin and the callback may      *)
(* rewrite the list of attempts in any order.                                *)
Kept(a) == \E b \in attempts' : b.token = a.token /\ (a.confirmed => b.confirmed)
Taken(a) == a.confirmed /\ [token |-> a.token, step |-> "generate"] \in serving' \ serving
AttemptsKept ==
  [][/\ \A a \in attempts : Fresh(a) => Kept(a) \/ Taken(a)
     /\ \A t \in Tokens : generated'[t] <= 1]_loginVars

(* What must come about when nothing more goes wrong: a login the user       *)
(* confirmed leaves its token on the machine, an account being refreshed     *)
(* brings its terminal to the waitlist, and one that is LIVE to the program. *)
Quiet == logins = MaxLoginMove
Waits(m, t) == gram[m].at \in {"wait", "poll"} /\ gram[m].token = t /\ t \in {a.token : a \in {b \in LoadLogins : b.confirmed}}
Behind(m) ==
  \/ tui[m].state = "sync" /\ users[tui[m].auth] \in {"refreshing", "in_waitlist", "live"}
  \/ tui[m].state = "waitlist" /\ users[tui[m].auth] = "live" /\ tui[m].auth \notin loaded
=============================================================================
