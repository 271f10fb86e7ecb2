------------------------------ MODULE MCClients ------------------------------
(* The three modules of the client programs, checked in one run: they share  *)
(* no state, and a behaviour is one of the part it starts with.              *)
EXTENDS Login, ClientCache, Terminal

VARIABLE part
clientVars == <<loginVars, cacheVars, terminalVars, part>>

(* Four copies of three releases in two organisations, one of them not yet   *)
(* in the collection, and a window of two rows.                              *)
MCCopies == 1 .. 4
MCReleaseOf == <<1, 1, 2, 3>>
MCShelved == <<"shelves", "crate", "shelves", Gone>>
MCQueries == {[title |-> {1}, id |-> 0], [title |-> {}, id |-> 3], [title |-> {}, id |-> 7]}

ClientsInit ==
  /\ part \in {"login", "cache", "terminal"}
  /\ LoginInit /\ CacheInit /\ TerminalInit
  /\ part # "login" => \A m \in Machines : file[m] = Nobody
  /\ part # "cache" => InCollection = Records

InLogin(A) == part = "login" /\ A /\ UNCHANGED <<cacheVars, terminalVars, part>>
InCache(A) == part = "cache" /\ A /\ UNCHANGED <<loginVars, terminalVars, part>>
InTerminal(A) == part = "terminal" /\ A /\ UNCHANGED <<loginVars, cacheVars, part>>
ClientsNext == InLogin(LoginNext) \/ InCache(CacheNext) \/ InTerminal(TerminalNext)

(* The server, the commands and the goroutines go on, gram polls and so does *)
(* the terminal.                                                             *)
Progress ==
  \/ InLogin(Serve \/ Refresh)
  \/ InCache(Screen \/ \E k \in Keys : Refreshing(k))
  \/ InTerminal(\E c \in calls : Receive(c))
Fairness ==
  /\ WF_clientVars(Progress)
  /\ \A m \in Machines : WF_clientVars(InLogin(LoginStep(m))) /\ WF_clientVars(InLogin(PollAccount(m)))
ClientsSpec == ClientsInit /\ [][ClientsNext]_clientVars /\ Fairness

(* Every part stays within its types.                                        *)
ClientsTypeOK == LoginTypeOK /\ CacheTypeOK /\ TerminalTypeOK

(* A login the user confirmed leaves its token in the file of the machine    *)
(* that waits for it, and no terminal stays behind its account.  Machines    *)
(* and tokens are all alike, so one of each stands for all in the first.     *)
AnyMachine == CHOOSE m \in Machines : TRUE
AnyToken == CHOOSE t \in Tokens : TRUE
Landed ==
  /\ (Quiet /\ Waits(AnyMachine, AnyToken)) ~> (file[AnyMachine] = AnyToken)
  /\ (Quiet /\ \E m \in Machines : Behind(m)) ~> (\A m \in Machines : ~Behind(m))

(* Whoever waits for an answer, a name, the collection, a record of the      *)
(* organisation shown or a location, does not wait for ever.                 *)
AnswersCome == (CacheWaits \/ ViewWaits) ~> ~(CacheWaits \/ ViewWaits)
=============================================================================
