-------------------------------- MODULE Wants --------------------------------
(***************************************************************************)
(* Wants and wantlists (background/refreshwants.go, refreshwantlists.go,   *)
(* syncwants.go, alignwants.go, server/wants.go, server/setconfig.go,      *)
(* server/add.go).                                                         *)
(*                                                                         *)
(* The state of a want is kept in three places: the stored want, with the  *)
(* state it should have, the entry of every wantlist that names it, and    *)
(* the user's wantlist at Discogs.  Tasks of the queue copy them to each   *)
(* other, one task at a time, while the API server writes the same wants   *)
(* and wantlists: a task works on the copies it has read.                  *)
(*                                                                         *)
(* A task saves a want and then asks for its refresh: it may be cut off in *)
(* between, and the queue may refuse what it is asked for.                 *)
(*                                                                         *)
(* One user; releases and wantlists are numbers, in the order of the store.*)
(* Master wants and the digital wantlist are left out.                     *)
(***************************************************************************)
EXTENDS Integers, Sequences, FiniteSets, Subsequences

CONSTANTS
  None,        \* no value
  MaxRelease,  \* releases there are
  MaxList,     \* wantlists there may be
  PageSize,    \* wants on a page of the wantlist at Discogs
  Types,       \* the types the wantlists may have; the transfer list is one by one
  Configs,     \* the types and releases, in order, a wantlist may be configured with
  Starts,      \* the wantlists, records, wants at Discogs and policy to start from
  MaxMoves     \* bound: what users and failures do

ASSUME BoundsAssumption ==
  /\ {MaxRelease, MaxList, MaxMoves} \subseteq Nat
  /\ PageSize \in Nat \ {0}
  /\ "ONE_BY_ONE" \in Types /\ Types \subseteq {"ONE_BY_ONE", "EN_MASSE", "DATE_BOUNDED"}

VARIABLES
  wants,   \* the stored Want of each release, or None
  lists,   \* the stored Wantlist of each name, or None
  stock,   \* the record of each release: none, in transit or arrived
  shop,    \* Discogs: the releases on the user's wantlist
  shut,    \* wantlists over the listening threshold, or scored too low
  span,    \* how many wants a date bounded list should have by now
  policy,  \* the wants configuration of the user
  due,     \* LastWantRefresh is more than a day ago
  jobs,    \* entries of the task queue, by RunDate; the worker has the first
  stuck,   \* wants whose deduplication key the throttle left behind, until a restart
  work,    \* the step the worker is at and the copies it has read
  astray,  \* history: releases the user put on or took off the wantlist at Discogs,
           \* those whose refresh was given up, and those whose refresh was put back
           \* while the two differed
  lost,    \* history: wants whose last request for a refresh came to nothing
  moves    \* how many moves there were

vars == <<wants, lists, stock, shop, shut, span, policy, due, jobs, stuck, work, astray, lost, moves>>
world == <<stock, shut, span, policy>>
queue == <<jobs, stuck, lost>>
store == <<wants, lists>>

Release == 1 .. MaxRelease
List    == 1 .. MaxList
WantState == {"UNKNOWN", "PENDING", "WANTED", "IN_TRANSIT", "PURCHASED", "RETIRED"}
Bought  == {"IN_TRANSIT", "PURCHASED"}
WantsBasis == {"GRAMOPHILE", "DISCOGS"}
WantsExisting == {"DROP", "LIST"}
WantsConfig == [origin : WantsBasis, existing : WantsExisting]

Want == [state : WantState, intended : WantState, clean : BOOLEAN, from : SUBSET List]
ASSUME NoneAssumption == None \notin Want \cup Release
WantlistEntry == [id : Release, state : WantState, index : 0 .. MaxRelease]
Wantlist == [type : Types, entries : UNION {[1 .. n -> WantlistEntry] : n \in 0 .. MaxRelease}]

(* RefreshWant, RefreshWants, RefreshWantlists, and SyncWants with its page. *)
QueueElement == [kind : {"want"}, id : Release] \cup [kind : {"wants", "lists"}, id : {0}]
                \cup [kind : {"sync"}, id : 1 .. MaxRelease + 1]
RefreshWant(r) == [kind |-> "want", id |-> r]
RefreshWants == [kind |-> "wants", id |-> 0]
RefreshWantlists == [kind |-> "lists", id |-> 0]
SyncWants(p) == [kind |-> "sync", id |-> p]

Idle == [pc |-> "idle", want |-> None, todo |-> <<>>, wants |-> None, recs |-> None, lists |-> None,
         at |-> 0, ask |-> None]

NewWant(state, intended, from) ==
  [state |-> state, intended |-> intended, clean |-> FALSE, from |-> from]
Entry(r, i) == [id |-> r, state |-> "UNKNOWN", index |-> i]
Configured(ids) == [i \in DOMAIN ids |-> Entry(ids[i], i)]
Ids(list) == {list.entries[i].id : i \in DOMAIN list.entries}
StoredWantlist == {ids \in UNION {[1 .. n -> Release] : n \in 0 .. MaxRelease} :
                     \A i, j \in DOMAIN ids : ids[i] = ids[j] => i = j}
Start ==
  [lists : [List -> {None} \cup [type : Types, entries : {Configured(ids) : ids \in StoredWantlist}]],
   stock : [Release -> {"none", "arrived"}], shop : SUBSET Release, policy : WantsConfig]
ASSUME StartsAssumption == Configs \subseteq [type : Types, ids : StoredWantlist] /\ Starts \subseteq Start

Init ==
  /\ wants = [r \in Release |-> None]
  /\ \E start \in Starts :
       lists = start.lists /\ stock = start.stock /\ shop = start.shop /\ policy = start.policy
  /\ shut = {}
  /\ span = 1
  /\ due = FALSE
  /\ jobs = <<RefreshWantlists>> /\ stuck = {}
  /\ work = Idle
  /\ astray = {} /\ lost = {}
  /\ moves = 0

Move == moves < MaxMoves /\ moves' = moves + 1

(* RefreshWant and RefreshWantlists carry a deduplication key, also while    *)
(* they are executed.  A RefreshWant that the throttle refuses leaves its    *)
(* key behind without an entry.                                              *)
Present == {jobs[i] : i \in DOMAIN jobs}
Once(j) == IF j \in Present THEN <<>> ELSE <<j>>
New(S) == {r \in S : RefreshWant(r) \notin Present} \ stuck
Doing == Head(jobs).id

(* In the order of the store.                                                *)
AsSeq(S) == Subsequence([i \in S |-> i], S)
RefreshEach(S) == Subsequence([r \in S |-> RefreshWant(r)], S)

(* Refreshes of the wants S are asked for: those of T get in, ahead of rest. *)
(* A key stays taken until the task it belongs to is removed, after it has   *)
(* saved what it read.                                                       *)
Late == IF work.pc = "stored" THEN {Doing} ELSE {}
Put(before, S, T, rest) ==
  /\ jobs' = before \o RefreshEach(T) \o rest
  /\ lost' = (lost \cup (New(S) \cup (S \cap Late))) \ T
  /\ stuck' \in {stuck, stuck \cup (New(S) \ T)}

(* The queue is full, the user's share of it is, or the program that asks    *)
(* stops before it has: nobody is told.                                      *)
Offer(before, S, rest) == \E T \in SUBSET New(S), queued \in {<<>>, rest} : Put(before, S, T, queued)

(* What the worker asks for. *)
Enqueue(before, S, rest) ==
  \/ Put(before, S, New(S), rest) /\ UNCHANGED moves
  \/ Move /\ Offer(before, S, rest)

----------------------------------------------------------------------------
(* The worker.                                                               *)

Begin(kind) == work.pc = "idle" /\ jobs # <<>> /\ Head(jobs).kind = kind
Refreshing == work.pc \in {"call", "save", "retire", "store", "stored"}
Asked == IF work.ask = None THEN {} ELSE {work.ask}

Done == work' = Idle /\ jobs' = Tail(jobs) /\ UNCHANGED <<stuck, lost>>

(* A restart leaves the task in the queue and forgets the keys nobody has.   *)
Restart ==
  /\ work # Idle \/ stuck # {}
  /\ Move
  /\ work' = Idle /\ stuck' = {}
  /\ lost' = lost \cup Asked
  /\ UNCHANGED <<store, world, shop, due, jobs, astray>>

(* A want's state says nothing of Discogs before its first refresh, and      *)
(* where a want was retired in the store alone: pulled with the origin       *)
(* GRAMOPHILE, or dropped by AlignWants.                                     *)
SaysNothing(state) ==
  \/ state = "UNKNOWN"
  \/ state = "RETIRED" /\ (policy.existing = "DROP" \/ policy.origin = "GRAMOPHILE")
Agrees(r, state) == SaysNothing(state) \/ (state = "WANTED" <=> r \in shop)

(* A call of Discogs fails: after a rate limit the task is tried again at    *)
(* once, after an internal error later, behind what has come in meanwhile.   *)
(* An earlier attempt may have been cut off after its call: behind another   *)
(* change of mind nothing tells that any more.                               *)
FailCall ==
  /\ work.pc \in {"call", "retire", "pull"}
  /\ Move
  /\ work' = Idle
  /\ \/ UNCHANGED <<jobs, astray>>
     \/ /\ jobs' = Tail(jobs) \o <<Head(jobs)>>
        /\ astray' = astray \cup {r \in {Doing} : Refreshing /\ ~ Agrees(r, wants[r].state)}
  /\ UNCHANGED <<store, world, shop, due, stuck, lost>>

(* Any other failure, of the store too, moves it to the dead letters.        *)
Bury ==
  /\ work.pc \notin {"idle", "stored"}
  /\ Move
  /\ work' = Idle /\ jobs' = Tail(jobs) /\ UNCHANGED stuck
  /\ lost' = lost \cup Asked
  /\ astray' = IF Refreshing THEN astray \cup {Doing} ELSE astray
  /\ UNCHANGED <<store, world, shop, due>>

(* The refresh of a want that was saved is asked for. *)
Ask ==
  /\ work.ask # None
  /\ Enqueue(jobs, {work.ask}, <<>>)
  /\ work' = [work EXCEPT !.ask = None]
  /\ UNCHANGED <<store, world, shop, due, astray>>

----------------------------------------------------------------------------
(* RefreshWant: bring one want to its intended state.                        *)

Balanced(w) == w.intended = w.state

(* A mutant: the state is saved before Discogs is called. *)
BeginWantSaving ==
  /\ Begin("want")
  /\ work' = [Idle EXCEPT !.pc = IF Balanced(wants[Doing]) THEN "store" ELSE "call",
                          !.want = wants[Doing]]
  /\ wants' = [wants EXCEPT ![Doing].state = wants[Doing].intended]
  /\ UNCHANGED <<lists, world, shop, due, queue, astray, moves>>

BeginWant ==
  /\ Begin("want")
  /\ work' = [Idle EXCEPT !.pc = IF Balanced(wants[Doing]) THEN "store" ELSE "call",
                          !.want = wants[Doing]]
  /\ UNCHANGED <<store, world, shop, due, queue, astray, moves>>

(* RefreshWantInternal: AddWant or DeleteWant. *)
CallDiscogs ==
  /\ work.pc = "call"
  /\ shop' = IF work.want.intended = "WANTED" THEN shop \cup {Doing}
                                              ELSE shop \ {Doing}
  /\ work' = [work EXCEPT !.pc = "save", !.want.state = work.want.intended]
  /\ UNCHANGED <<store, world, due, queue, astray, moves>>

(* The entries of the release in the wantlists of L follow. *)
Follow(L, r, state) ==
  lists' = [l \in List |->
             IF l \notin L THEN lists[l] ELSE
             [lists[l] EXCEPT !.entries = [i \in DOMAIN @ |->
                IF @[i].id = r THEN [@[i] EXCEPT !.state = state] ELSE @[i]]]]

Stored == {l \in List : lists[l] # None}

(* A want that is in none of its wantlists is retired at once.               *)
SaveCalled ==
  LET r == Doing
      w == work.want
      listed == \E l \in w.from : r \in Ids(lists[l])
  IN /\ work.pc = "save"
     /\ wants' = [wants EXCEPT ![r] = w]
     /\ \/ /\ w.from \subseteq Stored
           /\ Follow(w.from, r, w.state)
           /\ work' = [work EXCEPT !.pc = IF listed \/ w.state = "RETIRED"
                                         THEN "store" ELSE "retire"]
           /\ UNCHANGED queue
        \/ \* a wantlist is gone: NotFound removes the task
           /\ ~ (w.from \subseteq Stored)
           /\ \E L \in SUBSET (w.from \cap Stored) : Follow(L, r, w.state)
           /\ Done
     /\ UNCHANGED <<world, shop, due, astray, moves>>

Retire ==
  /\ work.pc = "retire"
  /\ shop' = shop \ {Doing}
  /\ LET w == [work.want EXCEPT !.state = "RETIRED", !.intended = "RETIRED"]
     IN /\ wants' = [wants EXCEPT ![Doing] = w]
        /\ work' = [work EXCEPT !.pc = "store", !.want = w]
  /\ UNCHANGED <<lists, world, due, queue, astray, moves>>

StoreWant ==
  /\ work.pc = "store"
  /\ wants' = [wants EXCEPT ![Doing] = [work.want EXCEPT !.clean = TRUE]]
  /\ work' = [Idle EXCEPT !.pc = "stored"]
  /\ UNCHANGED <<lists, world, shop, due, queue, astray, moves>>

(* The task leaves the queue, and its key with it. *)
Remove ==
  /\ work.pc = "stored"
  /\ Done
  /\ UNCHANGED <<store, world, shop, due, astray, moves>>

----------------------------------------------------------------------------
(* RefreshWants: retire the wants that have left their wantlists, and mark   *)
(* those whose record is there.  The wantlists are read as they are met, the *)
(* wants and records all at the start.                                       *)

BeginWants ==
  /\ Begin("wants")
  /\ work' = [Idle EXCEPT !.pc = "wants", !.wants = wants, !.recs = stock,
                          !.todo = AsSeq({r \in Release : wants[r] # None})]
  /\ UNCHANGED <<store, world, shop, due, queue, astray, moves>>

(* No entry of its wantlists names it, but for retired ones; a want from no  *)
(* wantlist counts as listed.                                                *)
Unlisted(r, w) ==
  /\ w.from # {}
  /\ ~ \E l \in w.from \cap Stored : \E i \in DOMAIN lists[l].entries :
         lists[l].entries[i].id = r /\ lists[l].entries[i].state # "RETIRED"

(* A mutant: the change is saved and nothing is enqueued. *)
RetireWantQuiet ==
  /\ work.pc = "wants" /\ work.todo # <<>> /\ work.ask = None
  /\ LET r == Head(work.todo)
         w == work.wants[r]
         kept == IF Unlisted(r, w) THEN [w EXCEPT !.intended = "RETIRED"] ELSE w
     IN /\ wants' = IF kept # w THEN [wants EXCEPT ![r] = kept] ELSE wants
        /\ work' = [work EXCEPT !.pc = "claim", !.wants[r] = kept]
  /\ UNCHANGED <<lists, world, shop, due, queue, astray, moves>>

RetireWant ==
  /\ work.pc = "wants" /\ work.todo # <<>> /\ work.ask = None
  /\ LET r == Head(work.todo)
         w == work.wants[r]
         kept == IF Unlisted(r, w) THEN [w EXCEPT !.intended = "RETIRED"] ELSE w
     IN /\ wants' = IF kept # w THEN [wants EXCEPT ![r] = kept] ELSE wants
        /\ work' = [work EXCEPT !.pc = "claim", !.wants[r] = kept,
                                !.ask = IF kept # w THEN r ELSE None]
  /\ UNCHANGED <<lists, world, shop, due, queue, astray, moves>>

(* A mutant: an arrived record is no reason to stop wanting it. *)
OwnedInTransit(w, rec) ==
  IF rec = "transit" /\ w.intended \notin Bought THEN [w EXCEPT !.intended = "IN_TRANSIT"] ELSE w

Owned(w, rec) ==
  IF rec = "arrived" THEN [w EXCEPT !.intended = "PURCHASED"]
  ELSE IF rec = "transit" /\ w.intended \notin Bought
  THEN [w EXCEPT !.intended = "IN_TRANSIT"] ELSE w

ClaimWant ==
  /\ work.pc = "claim" /\ work.ask = None
  /\ LET r == Head(work.todo)
         w == work.wants[r]
         owned == Owned(w, work.recs[r])
         claimed == work.recs[r] # "none" /\ (owned # w \/ w.clean)
     IN /\ wants' = IF claimed THEN [wants EXCEPT ![r] = [owned EXCEPT !.clean = FALSE]] ELSE wants
        /\ work' = [work EXCEPT !.pc = "wants", !.todo = Tail(@), !.ask = IF claimed THEN r ELSE None]
  /\ UNCHANGED <<lists, world, shop, due, queue, astray, moves>>

Finish ==
  /\ work.pc \in {"wants", "lists"} /\ work.todo = <<>> /\ work.ask = None
  /\ Done
  /\ UNCHANGED <<store, world, shop, due, astray, moves>>

----------------------------------------------------------------------------
(* RefreshWantlists: every wantlist, as it was when all were read, takes the *)
(* states of its wants, decides which of them to want, and is saved.         *)

BeginLists ==
  /\ Begin("lists")
  /\ work' = [Idle EXCEPT !.pc = "lists", !.lists = lists, !.at = 1,
                          !.todo = AsSeq({l \in List : lists[l] # None})]
  /\ UNCHANGED <<store, world, shop, due, queue, astray, moves>>

(* The wantlist in hand and its entries, changed in memory only. *)
This == Head(work.todo)
Entries == work.lists[This].entries
Here == Entries[work.at]
AtEnd == work.at > Len(Entries)

(* processWantlist: a want is created for an entry without one, and notes    *)
(* the wantlist.                                                             *)
Annotated(l, r) ==
  IF wants[r] = None THEN NewWant("UNKNOWN", "UNKNOWN", {l})
  ELSE [wants[r] EXCEPT !.from = @ \cup {l}]

(* An entry takes the state its want should have, or has, unless it is       *)
(* purchased.                                                                *)
Aim(w) == IF w.intended = "UNKNOWN" THEN w.state ELSE w.intended
Synced(l, e) ==
  [e EXCEPT !.state = IF stock[e.id] = "arrived" \/ @ = "PURCHASED" THEN "PURCHASED"
                      ELSE Aim(Annotated(l, e.id))]

SyncEntry ==
  /\ work.pc = "lists" /\ work.todo # <<>> /\ ~ AtEnd
  /\ wants' = [wants EXCEPT ![Here.id] = Annotated(This, Here.id)]
  /\ work' = [work EXCEPT !.lists[This].entries[work.at] = Synced(This, Here), !.at = @ + 1]
  /\ UNCHANGED <<lists, world, shop, due, queue, astray, moves>>

(* refreshWantlist: a list that is shut gives up its wants; a one-by-one     *)
(* list goes in the order of its index.                                      *)
InOrder(es) ==
  LET unnumbered == {i \in DOMAIN es : es[i].index = 0}
  IN Subsequence(es, unnumbered) \o Subsequence(es, DOMAIN es \ unnumbered)

Judge ==
  /\ work.pc = "lists" /\ work.todo # <<>> /\ AtEnd
  /\ work' = IF This \in shut THEN [work EXCEPT !.pc = "shut", !.at = 1]
             ELSE [work EXCEPT !.pc = "visit", !.at = 1, !.lists[This].entries =
                     IF work.lists[This].type = "ONE_BY_ONE" THEN InOrder(@) ELSE @]
  /\ UNCHANGED <<store, world, shop, due, queue, astray, moves>>

(* What is decided for an entry e: the entry's state, the state its want is  *)
(* to reach if that is saved, and whether a refresh is asked for.            *)
Verdict == [state : WantState, intended : {"WANTED", "PENDING", "RETIRED", None}, ask : BOOLEAN]
Leave(e) == [state |-> e.state, intended |-> None, ask |-> FALSE]
Set(state, intended) == [state |-> state, intended |-> intended, ask |-> TRUE]

Open(e) == e.state \in {"PENDING", "UNKNOWN", "RETIRED"}
RetireAll(e) == IF e.state = "RETIRED" THEN Leave(e) ELSE Set("RETIRED", "RETIRED")

EnMasse(e) ==
  IF wants[e.id].intended \in Bought \cup {"WANTED"} THEN Leave(e) ELSE Set("WANTED", "WANTED")

(* In a date bounded list the state to reach is told to the task only: the   *)
(* stored want is not given an intended state.                               *)
DateBounded(e, before) ==
  LET wanted == {i \in DOMAIN before : ~ Open(before[i])}
  IN IF Open(e) /\ Cardinality(wanted) < span THEN Set("WANTED", None) ELSE Leave(e)

(* One by one: the first entry not purchased is wanted; once it is, those    *)
(* behind it are put off.                                                    *)
OneByOne(e, before) ==
  IF \E i \in DOMAIN before : before[i].state # "PURCHASED"
  THEN IF e.state = "PENDING" THEN Leave(e) ELSE Set(e.state, "PENDING")
  ELSE IF Open(e) THEN Set("WANTED", "WANTED") ELSE Leave(e)

(* The list ends with the entry that a one-by-one list has come to want.     *)
Visit(type, e, before) ==
  IF work.pc = "shut" THEN RetireAll(e)
  ELSE CASE type = "ONE_BY_ONE" -> OneByOne(e, before)
         [] type = "EN_MASSE" -> EnMasse(e)
         [] type = "DATE_BOUNDED" -> DateBounded(e, before)

VisitEntry ==
  /\ work.pc \in {"visit", "shut"} /\ ~ AtEnd /\ work.ask = None
  /\ LET type == work.lists[This].type
         v == Visit(type, Here, SubSeq(Entries, 1, work.at - 1))
         last == work.pc = "visit" /\ type = "ONE_BY_ONE" /\ v.intended = "WANTED"
     IN /\ wants' = IF v.intended = None THEN wants
                    ELSE [wants EXCEPT ![Here.id].intended = v.intended,
                                       ![Here.id].clean = @ /\ ~ (work.pc = "visit" /\ type = "EN_MASSE")]
        /\ work' = [work EXCEPT !.lists[This].entries[work.at].state = v.state,
                                !.at = IF last THEN Len(Entries) + 1 ELSE @ + 1,
                                !.ask = IF v.ask THEN Here.id ELSE None]
  /\ UNCHANGED <<lists, world, shop, due, queue, astray, moves>>

KeepList ==
  /\ work.pc \in {"visit", "shut"} /\ AtEnd /\ work.ask = None
  /\ lists' = [lists EXCEPT ![This] = work.lists[This]]
  /\ work' = [work EXCEPT !.pc = "lists", !.todo = Tail(@), !.at = 1]
  /\ UNCHANGED <<wants, world, shop, due, queue, astray, moves>>

----------------------------------------------------------------------------
(* SyncWants: pull a page of the wantlist at Discogs; the last page aligns.  *)

Page(p) ==
  LET Before(r) == Cardinality({t \in shop : t < r})
  IN {r \in shop : Before(r) >= (p - 1) * PageSize /\ Before(r) < p * PageSize}
Pages == (Cardinality(shop) + PageSize - 1) \div PageSize

(* ProcessSyncWants syncs once a day. *)
BeginSync ==
  /\ Begin("sync")
  /\ IF due THEN work' = [Idle EXCEPT !.pc = "pull"] /\ UNCHANGED queue ELSE Done
  /\ UNCHANGED <<store, world, shop, due, astray, moves>>

(* PullWants: the page and the stored wants are read, and what is on the     *)
(* page is saved want by want.                                               *)
ReadPage ==
  /\ work.pc = "pull"
  /\ work' = [work EXCEPT !.pc = "page", !.wants = wants, !.todo = AsSeq(Page(Doing)), !.at = Pages]
  /\ UNCHANGED <<store, world, shop, due, queue, astray, moves>>

Found == NewWant(IF policy.origin = "GRAMOPHILE" THEN "RETIRED" ELSE "WANTED", "UNKNOWN", {})
PullWant ==
  /\ work.pc = "page" /\ work.todo # <<>>
  /\ LET r == Head(work.todo)
     IN wants' = [wants EXCEPT ![r] = IF work.wants[r] = None THEN Found ELSE work.wants[r]]
  /\ work' = [work EXCEPT !.todo = Tail(@)]
  /\ UNCHANGED <<lists, world, shop, due, queue, astray, moves>>

EndPage ==
  LET p == Doing
      later == [i \in 1 .. IF p = 1 /\ work.at > 1 THEN work.at - 1 ELSE 0 |-> SyncWants(i + 1)]
  IN /\ work.pc = "page" /\ work.todo = <<>>
     /\ IF p >= work.at THEN /\ work' = [Idle EXCEPT !.pc = "align"]
                             /\ Enqueue(jobs, {}, later)
        ELSE work' = Idle /\ Enqueue(Tail(jobs), {}, later)
     /\ UNCHANGED <<store, world, shop, due, astray>>

(* AlignWants: a want in no wantlist is dropped, though not at Discogs, or   *)
(* goes to the transfer list.                                                *)
TransferList == MaxList
Loose == {r \in Release : wants[r] # None /\ \A l \in Stored : r \notin Ids(lists[l])}

Transferred(S) ==
  LET new == [i \in DOMAIN AsSeq(S) |-> Entry(AsSeq(S)[i], 0)]
      list == IF lists[TransferList] = None THEN [type |-> "ONE_BY_ONE", entries |-> <<>>]
              ELSE lists[TransferList]
  IN [lists EXCEPT ![TransferList] = [list EXCEPT !.entries = @ \o new]]

AlignWants ==
  /\ work.pc = "align"
  /\ wants' = [r \in Release |-> IF r \in Loose /\ policy.existing = "DROP"
                                 THEN [wants[r] EXCEPT !.state = "RETIRED"] ELSE wants[r]]
  /\ lists' = IF Loose # {} /\ policy.existing = "LIST" THEN Transferred(Loose) ELSE lists
  /\ work' = [Idle EXCEPT !.pc = "spread"]
  /\ UNCHANGED <<world, shop, due, queue, astray, moves>>

(* The refreshes that a sync ends with. *)
Spread ==
  /\ work.pc = "spread"
  /\ Enqueue(Tail(jobs), {r \in Release : wants[r] # None /\ ~ wants[r].clean},
             <<RefreshWants>> \o Once(RefreshWantlists))
  /\ due' = FALSE
  /\ work' = Idle
  /\ UNCHANGED <<store, world, shop, astray>>

Worker ==
  \/ BeginWant \/ CallDiscogs \/ SaveCalled \/ Retire \/ StoreWant \/ Remove
  \/ BeginWants \/ RetireWant \/ ClaimWant \/ Finish \/ Ask
  \/ BeginLists \/ SyncEntry \/ Judge \/ VisitEntry \/ KeepList
  \/ BeginSync \/ ReadPage \/ PullWant \/ EndPage \/ AlignWants \/ Spread

----------------------------------------------------------------------------
(* The API server, which saves first and ignores what becomes of its         *)
(* requests to the queue.                                                    *)

(* AddWant writes the want afresh. *)
AddWant(r) ==
  /\ Move
  /\ wants' = [wants EXCEPT ![r] = NewWant("UNKNOWN", "WANTED", {})]
  /\ Offer(jobs, {r}, <<>>)
  /\ UNCHANGED <<lists, world, shop, due, work, astray>>

AskRefresh(r) ==
  /\ Move
  /\ wants[r] # None
  /\ wants' = [wants EXCEPT ![r].state = "UNKNOWN"]
  /\ Offer(jobs, {r}, <<>>)
  /\ UNCHANGED <<lists, world, shop, due, work, astray>>

(* A mutant: the refresh is enqueued whether there is a want or not. *)
AddRecordBlind(r) ==
  /\ Move
  /\ stock[r] = "none"
  /\ stock' = [stock EXCEPT ![r] = "transit"]
  /\ Offer(jobs, {r}, Once(RefreshWantlists))
  /\ UNCHANGED <<store, shut, span, policy, shop, due, work, astray>>

(* The server may also stop when the record alone is saved. *)
AddRecord(r) ==
  /\ Move
  /\ stock[r] = "none"
  /\ stock' = [stock EXCEPT ![r] = "transit"]
  /\ \/ /\ IF wants[r] = None THEN UNCHANGED wants
           ELSE wants' = [wants EXCEPT ![r].intended = "IN_TRANSIT"]
        /\ Offer(jobs, {t \in {r} : wants[t] # None}, Once(RefreshWantlists))
     \/ UNCHANGED <<wants, queue>>
  /\ UNCHANGED <<lists, shut, span, policy, shop, due, work, astray>>

(* ProcessArrived: an intent the worker executes between two of these tasks. *)
Arrive(r) ==
  /\ work.pc = "idle"
  /\ stock[r] = "transit"
  /\ stock' = [stock EXCEPT ![r] = "arrived"]
  /\ Enqueue(jobs, {}, <<RefreshWants>> \o Once(RefreshWantlists))
  /\ UNCHANGED <<store, shut, span, policy, shop, due, work, astray>>

(* handleWantslists: entries are matched by their index and keep the state;  *)
(* those beyond the last index go.                                           *)
Merged(old, ids) ==
  LET At(i) == {j \in DOMAIN old : old[j].index = i}
      kept == Subsequence(old, {j \in DOMAIN old : ids # <<>> /\ old[j].index <= Len(ids)})
      named == [j \in DOMAIN kept |-> IF kept[j].index = 0 THEN kept[j]
                                      ELSE [kept[j] EXCEPT !.id = ids[kept[j].index]]]
  IN named \o Subsequence(Configured(ids), {i \in DOMAIN ids : At(i) = {}})

SetWantlist(l, c) ==
  /\ Move
  /\ lists' = [lists EXCEPT ![l] =
                 [type |-> c.type, entries |-> IF lists[l] = None THEN Configured(c.ids)
                                               ELSE Merged(lists[l].entries, c.ids)]]
  /\ Offer(jobs, {}, Once(RefreshWantlists))
  /\ UNCHANGED <<wants, world, shop, due, work, astray>>

DeleteWantlist(l) ==
  /\ Move
  /\ lists[l] # None
  /\ lists' = [lists EXCEPT ![l] = None]
  /\ Offer(jobs, {}, Once(RefreshWantlists))
  /\ UNCHANGED <<wants, world, shop, due, work, astray>>

----------------------------------------------------------------------------
(* The user at Discogs, time, and the validator.                             *)

EditWantlist(r) ==
  /\ Move
  /\ shop' = IF r \in shop THEN shop \ {r} ELSE shop \cup {r}
  /\ astray' = astray \cup {r}
  /\ UNCHANGED <<store, world, due, queue, work>>

Toggle(l) ==
  /\ Move
  /\ shut' = IF l \in shut THEN shut \ {l} ELSE shut \cup {l}
  /\ UNCHANGED <<store, stock, span, policy, shop, due, queue, work, astray>>

Advance ==
  /\ Move
  /\ span' = span + 1
  /\ UNCHANGED <<store, stock, shut, policy, shop, due, queue, work, astray>>

(* A day has passed since the last sync; the validator enqueues another.     *)
(* Bound: the queue has drained by then.                                     *)
NextDay ==
  /\ jobs = <<>>
  /\ due' = TRUE
  /\ jobs' = <<SyncWants(1)>>
  /\ UNCHANGED <<store, world, shop, stuck, work, astray, lost, moves>>

Users ==
  \/ \E r \in Release : AddWant(r) \/ AskRefresh(r) \/ AddRecord(r) \/ Arrive(r) \/ EditWantlist(r)
  \/ \E l \in List : DeleteWantlist(l) \/ Toggle(l)
  \/ \E l \in List, c \in Configs : SetWantlist(l, c)

Next == Worker \/ Restart \/ FailCall \/ Bury \/ Users \/ Advance \/ NextDay

Spec == Init /\ [][Next]_vars
FairSpec == Spec /\ WF_vars(Worker \/ NextDay)

----------------------------------------------------------------------------
(* The stores, the queue and the worker hold values of their types, and      *)
(* every RefreshWant enqueued names a want that is stored: nothing deletes a *)
(* want.                                                                     *)
TypeOK ==
  /\ wants \in [Release -> Want \cup {None}]
  /\ \A l \in List : lists[l] = None \/ (lists[l].type \in Types /\ lists[l].entries \in Seq(WantlistEntry))
  /\ stock \in [Release -> {"none", "transit", "arrived"}]
  /\ shop \subseteq Release /\ astray \subseteq Release
  /\ stuck \subseteq lost /\ lost \subseteq Release
  /\ shut \subseteq List /\ span \in 1 .. MaxMoves + 1 /\ due \in BOOLEAN
  /\ jobs \in Seq(QueueElement)
  /\ \A j \in Present : j.kind = "want" => wants[j.id] # None
  /\ work.pc # "idle" => jobs # <<>>

(* A want the program holds for clean and has no task for, nor is about to.  *)
Settled(r) ==
  wants[r] # None /\ wants[r].clean /\ RefreshWant(r) \notin Present /\ r \notin Asked

(* What is stored of a settled want is so at Discogs: it is WANTED if and    *)
(* only if it is on the wantlist there.  RefreshWant calls Discogs before it *)
(* saves, in copies it has read, so a crash or a second writer in between    *)
(* could make the two differ for good (refreshwants.go:157-207).             *)
CleanMatches == \A r \in Release \ astray : Settled(r) => Agrees(r, wants[r].state)

(* Whoever gives a want another state to reach also enqueues its refresh or  *)
(* leaves it unclean for the daily sync: a change of mind is forgotten only  *)
(* with a request for a refresh that was cut off or refused, and until the   *)
(* next one that is not.  Crashes, copies and tasks that are repeated,       *)
(* put back or overtaken forget none.  Where AlignWants may drop wants it    *)
(* writes the state itself.                                                  *)
(* (refreshwantlists.go:306-547, refreshwants.go:246-366, server/add.go:68)  *)
Pursued ==
  policy.existing = "LIST" => \A r \in Release \ (astray \cup lost) : Settled(r) => Balanced(wants[r])

Sharing(r) == {l \in Stored : r \in Ids(lists[l])}
Alone(l) == \A r \in Ids(lists[l]) : Sharing(r) = {l}

(* No record the user has is still on the wantlist at Discogs,    *)
(* whichever wantlist asks for it, however its arrival interleaved with      *)
(* their refresh and whatever request was lost.  Two wantlists may disagree  *)
(* for ever: behind the first of a one-by-one list an owned record is put    *)
(* off, and for an en masse list that asks for it it is then wanted again.   *)
(* A list that is shut keeps the wants retired that never were at Discogs.   *)
(* A want whose key the throttle has left behind waits for a restart.        *)
(* (refreshwants.go:318-360, refreshwantlists.go:317-326, 406-411, 491-493)  *)
Agreed(r) ==
  /\ Cardinality(Sharing(r)) <= 1
  /\ Sharing(r) \cap shut = {} \/ ~ SaysNothing(wants[r].state)
OwnedUnwanted ==
  \A r \in Release \ (astray \cup stuck) :
    stock[r] # "none" /\ wants[r] # None /\ Agreed(r) => r \notin shop

InTurn(l) == l \in Stored \ shut /\ lists[l].type = "ONE_BY_ONE" /\ Alone(l)

(* In the end a one-by-one wantlist has at most one of its releases on the   *)
(* wantlist at Discogs, but for those whose refresh was cut off or refused:  *)
(* nothing asks for that again (refreshwantlists.go:472-547).                *)
AtMostOne ==
  \A l \in List : InTurn(l) => Cardinality(Ids(lists[l]) \cap (shop \ (astray \cup lost))) <= 1

(* Where the wants end up once nobody interferes any more.                   *)
WantsConverge == <>[](OwnedUnwanted /\ AtMostOne)

=============================================================================
