----------------------------- MODULE SalesSync -----------------------------
(***************************************************************************)
(* Synchronisation of a user's Discogs inventory with the stored sales     *)
(* (background/sales.go, cleancollection.go) and its scheduling by the     *)
(* validator (validatorlogic.go).                                          *)
(*                                                                         *)
(* A RefreshSales or ReconcileSales entry reads one page of the inventory, *)
(* newest listing first, stamps the sales it finds with the id of the sync *)
(* and enqueues the next page.  A refresh stops at the first sale it knows *)
(* from an earlier sync; a reconcile reads everything and then deletes the *)
(* sales that do not carry its stamp.  The worker of the task queue runs   *)
(* the entries one at a time; the validator, the administrator and the     *)
(* users at Discogs act between any two of its steps.                      *)
(*                                                                         *)
(* The nth sale a user lists is sale n, so that a smaller number is an     *)
(* earlier listing; times of day are counted in days.                      *)
(***************************************************************************)
EXTENDS Integers, Sequences, FiniteSets

CONSTANTS
  User,            \* user tokens
  None,            \* no value
  PageSize,        \* sales on a page of the inventory
  Week,            \* SaleReconcileCadence and queuelogic.SaleReconcile, in days
  InitiallyListed, \* sales each user has listed at the start
  MaxListings,     \* bound: listings of each user
  MaxDays,         \* bound: days that pass
  MaxSyncs,        \* bound: syncs the validator enqueues
  Mixed,           \* bound: whether forced and scheduled syncs meet
  MaxForced,       \* bound: syncs AdjustSales asks for
  MaxAdmin,        \* bound: entries the administrator enqueues
  MaxDelists,      \* bound: listings sold or taken down
  MaxAdds,         \* bound: AddSale entries
  MaxFaults        \* bound: Discogs calls and Enqueue calls that fail

ASSUME BoundsAssumption ==
  /\ PageSize \in Nat \ {0} /\ Week \in Nat \ {0}
  /\ Mixed \in BOOLEAN
  /\ InitiallyListed \in Nat /\ MaxListings \in Nat /\ InitiallyListed <= MaxListings
  /\ {MaxDays, MaxSyncs, MaxForced, MaxAdmin, MaxDelists, MaxAdds, MaxFaults} \subseteq Nat

ASSUME NoneAssumption == None \notin Nat

VARIABLES
  day,        \* the clock
  user,       \* StoredUser: what the sales sync reads and writes of it
  sales,      \* SaleInfo by user and sale: the RefreshId, or None
  shop,       \* Discogs: the sales each user has listed now
  posted,     \* Discogs: how many sales each user has listed so far
  linked,     \* the sales the user's records were last linked with
  queue,      \* waiting entries by priority
  work,       \* the entry the worker executes
  validator,  \* progress of a validation pass
  ids,        \* RefreshIds given out
  round,      \* history: the last sync of each user that began
  spent       \* what is used up of each bound

clock == <<day, spent>>
store == <<user, sales, linked>>
vars  == <<day, user, sales, shop, posted, linked, queue, work, validator, ids, round, spent>>

Sale     == 1 .. MaxListings
Kind     == {"refresh", "reconcile", "link", "adjust"}
Priority == {"HIGH", "UNSET"}

(* Every timestamp starts long ago. *)
Start == Week + 1

StoredUser == [refreshed : Nat,    \* LastSaleRefresh, in days
               upTo : Nat,         \* sales listed before LastSaleRefresh
               reconciled : Nat,   \* LastSaleReconcile
               active : Nat]       \* SaleSyncActiveTime, 0 when unset
Element    == [kind : Kind, auth : User, page : Nat, id : Nat,
               force : BOOLEAN, prio : Priority]

(* What the worker holds while it is idle is not an entry. *)
ASSUME EntryAssumption == None \notin Element

Idle == [pc |-> "idle", entry |-> None, id |-> 0, user |-> None, last |-> FALSE]

Init ==
  /\ day = Start
  /\ user = [a \in User |-> [refreshed |-> 0, upTo |-> 0, reconciled |-> 0, active |-> 0]]
  /\ sales = [a \in User |-> [s \in Sale |-> None]]
  /\ shop = [a \in User |-> 1 .. InitiallyListed]
  /\ posted = [a \in User |-> InitiallyListed]
  /\ linked = [a \in User |-> {}]
  /\ queue = [p \in Priority |-> <<>>]
  /\ work = Idle
  /\ validator = [pc |-> "idle", auth |-> None, user |-> None]
  /\ ids = 0
  /\ round = [a \in User |-> [id |-> 0, listed |-> {}, mark |-> 0, whole |-> TRUE, sound |-> TRUE]]
  /\ spent = [syncs |-> 0, forced |-> 0, admin |-> 0, delists |-> 0, adds |-> 0, faults |-> 0]

Spend(what, max) ==
  /\ spent[what] < max
  /\ spent' = [spent EXCEPT ![what] = @ + 1]

(* Who has asked for syncs so far: the validator; AdjustSales and the        *)
(* administrator, whose syncs ignore the lock.                               *)
Scheduled == spent.syncs > 0
Forced == spent.forced > 0 \/ spent.admin > 0

(* time.Since(t) < 24 h. *)
WithinDay(t) == day = t
WithinWeek(t) == day - t < Week

Stored(a) == {s \in Sale : sales[a][s] # None}

----------------------------------------------------------------------------
(* Enqueue, as these entries see it: refused while an element with the same  *)
(* deduplication key waits or runs.                                          *)

(* "LinkSales" names no user. *)
Key(e) == <<e.kind, IF e.kind = "link" THEN None ELSE e.auth, e.page>>

Waiting == UNION {{queue[p][i] : i \in 1 .. Len(queue[p])} : p \in Priority}
Present == Waiting \cup (IF work.entry = None THEN {} ELSE {work.entry})
Exists(e) == \E f \in Present : Key(f) = Key(e)

Accept(e) == ~Exists(e) /\ queue' = [queue EXCEPT ![e.prio] = Append(@, e)]

(* EnqueueIfNotExists: an element that exists counts as enqueued. *)
Ensure(e) == Accept(e) \/ (Exists(e) /\ UNCHANGED queue)

Sync(kind, a, page, id, force, prio) ==
  [kind |-> kind, auth |-> a, page |-> page, id |-> id, force |-> force, prio |-> prio]
Link(a, id) == Sync("link", a, 0, id, FALSE, "UNSET")
Adjust(a)   == Sync("adjust", a, 0, 0, FALSE, "UNSET")

----------------------------------------------------------------------------
(* The worker.                                                               *)

(* Mutant: the handler runs although its user could not be loaded. *)
TakeWithoutUser(p) ==
  /\ work.pc = "idle"
  /\ queue[p] # <<>>
  /\ p = "UNSET" => queue["HIGH"] = <<>>
  /\ queue' = [queue EXCEPT ![p] = Tail(@)]
  /\ LET e == Head(queue[p]) IN
       work' = [pc |-> "loaded", entry |-> e, id |-> e.id, last |-> FALSE,
                user |-> IF e.kind = "adjust" THEN None ELSE user[e.auth]]
  /\ UNCHANGED <<store, shop, posted, validator, ids, round, clock>>

(* Run takes the oldest urgent entry, or else the oldest, and loads its user. *)
Take(p) ==
  /\ work.pc = "idle"
  /\ queue[p] # <<>>
  /\ p = "UNSET" => queue["HIGH"] = <<>>
  /\ queue' = [queue EXCEPT ![p] = Tail(@)]
  /\ LET e == Head(queue[p]) IN
       work' = [pc |-> "loaded", entry |-> e, id |-> e.id, user |-> user[e.auth], last |-> FALSE]
  /\ UNCHANGED <<store, shop, posted, validator, ids, round, clock>>

Done == work' = Idle

(* The sync is not due: ProcessRefreshSales looks at LastSaleRefresh and     *)
(* ProcessReconcileSales at LastSaleReconcile, on every page.                *)
Due(e, u) ==
  \/ e.force
  \/ e.kind = "refresh" /\ ~WithinDay(u.refreshed)
  \/ e.kind = "reconcile" /\ ~WithinWeek(u.reconciled)

Skip ==
  /\ work.pc = "loaded"
  /\ work.entry.kind \in {"refresh", "reconcile"}
  /\ ~Due(work.entry, work.user)
  /\ Done
  /\ UNCHANGED <<store, shop, posted, queue, validator, ids, round, clock>>

(* Page 1 takes the lock unless another sync holds it. *)
TakesLock(e, u) == e.force \/ u.active = 0 \/ ~WithinDay(u.active)

(* Mutant: the lock is not taken. *)
NoLock(e, u) == u

Locked(e, u) == IF TakesLock(e, u) THEN [u EXCEPT !.active = day] ELSE u

(* The sync begins: page 1 picks a RefreshId and takes the lock.  Of the     *)
(* sales listed before round.mark a stored one may stop it.  round.whole     *)
(* says that nothing disturbs what it reads, and round.sound that the last   *)
(* sync to read a page completed and left nothing out but the newest sales.  *)
BeginSync ==
  LET e == work.entry
      a == e.auth
      u == Locked(e, work.user)
      id == IF e.id = 0 THEN ids + 1 ELSE e.id
      full == e.kind = "reconcile" \/ e.force
  IN
  /\ work.pc = "loaded"
  /\ e.kind \in {"refresh", "reconcile"}
  /\ Due(e, work.user)
  /\ IF e.page = 1
     THEN /\ user' = [user EXCEPT ![a] = IF TakesLock(e, work.user) THEN u ELSE @]
          /\ work' = [work EXCEPT !.pc = "sync", !.user = u, !.id = id]
          /\ ids' = IF e.id = 0 THEN id ELSE ids
          /\ round' = [round EXCEPT ![a] =
                         [id |-> id, listed |-> shop[a], mark |-> IF full THEN 0 ELSE work.user.upTo,
                          whole |-> full \/ @.sound, sound |-> @.sound]]
     ELSE work' = [work EXCEPT !.pc = "sync"] /\ UNCHANGED <<user, ids, round>>
  /\ UNCHANGED <<sales, linked, shop, posted, queue, validator, clock>>

(* ListSales: the given page of what is listed, newest first. *)
Newer(a, s) == Cardinality({t \in shop[a] : t > s})
PageOf(a, page) ==
  {s \in shop[a] : Newer(a, s) >= (page - 1) * PageSize /\ Newer(a, s) < page * PageSize}
LastPage(a, page) == page * PageSize >= Cardinality(shop[a])

(* Mutant: any stored sale stops the refresh. *)
StopsAtStored(e, u) ==
  {s \in PageOf(e.auth, e.page) :
     e.kind = "refresh" /\ ~e.force /\ u.refreshed > 0 /\ sales[e.auth][s] # None}

(* Mutant: a reconcile stops like a refresh. *)
StopsReconcile(e, u) ==
  {s \in PageOf(e.auth, e.page) :
     ~e.force /\ u.refreshed > 0 /\ s <= u.upTo /\ sales[e.auth][s] # None}

(* Where a refresh stops: at a stored sale listed before the last one.       *)
Stops(e, u) ==
  {s \in PageOf(e.auth, e.page) :
     /\ e.kind = "refresh" /\ ~e.force /\ u.refreshed > 0
     /\ s <= u.upTo
     /\ sales[e.auth][s] # None}

(* SyncSales creates or stamps the sales of the page one by one, newest      *)
(* first, the one it stops at included.                                      *)
Reached(e, u) == {s \in PageOf(e.auth, e.page) : \A t \in Stops(e, u) : s >= t}
(* Mutant: a stored sale keeps its stamp. *)
StampNew(a, S, id) ==
  sales' = [sales EXCEPT ![a] = [s \in Sale |-> IF s \in S /\ @[s] = None THEN id ELSE @[s]]]

Stamp(a, S, id) == sales' = [sales EXCEPT ![a] = [s \in Sale |-> IF s \in S THEN id ELSE @[s]]]

(* The stamps of another sync get in the way of the last one that began. *)
Disturb(a, id) == round' = [round EXCEPT ![a].whole = @ /\ id = round[a].id, ![a].sound = FALSE]

SyncPage ==
  LET e == work.entry IN
  /\ work.pc = "sync"
  /\ Stamp(e.auth, Reached(e, work.user), work.id)
  /\ Disturb(e.auth, work.id)
  /\ work' = [work EXCEPT !.pc = "synced",
                !.last = Stops(e, work.user) # {} \/ LastPage(e.auth, e.page)]
  /\ UNCHANGED <<user, linked, shop, posted, queue, validator, ids, clock>>

(* Discogs or pstore fails.  A rate limit leaves the entry where it is, an   *)
(* internal error enqueues it anew, RefreshId included, and any other error, *)
(* which may strike half way through a page, moves it to the dead letters.   *)
RateLimit ==
  /\ work.pc = "sync"
  /\ Spend("faults", MaxFaults)
  /\ queue' = [queue EXCEPT ![work.entry.prio] = <<work.entry>> \o @]
  /\ Done
  /\ UNCHANGED <<day, store, shop, posted, validator, ids, round>>

Requeue ==
  LET e == [work.entry EXCEPT !.id = work.id] IN
  /\ work.pc = "sync"
  /\ Spend("faults", MaxFaults)
  /\ queue' = [queue EXCEPT ![e.prio] = Append(@, e)]
  /\ Done
  /\ UNCHANGED <<day, store, shop, posted, validator, ids, round>>

Bury ==
  LET e == work.entry IN
  /\ work.pc = "sync"
  /\ Spend("faults", MaxFaults)
  /\ \E n \in {0} \cup Sale :
       Stamp(e.auth, {s \in Reached(e, work.user) : s > MaxListings - n}, work.id)
  /\ Disturb(e.auth, work.id)
  /\ Done
  /\ UNCHANGED <<day, user, linked, shop, posted, queue, validator, ids>>

(* The queue refuses an entry of the handler, which ends with that error.    *)
Refused ==
  /\ work.pc \in {"synced", "cleaned"}
  /\ Spend("faults", MaxFaults)
  /\ Done
  /\ UNCHANGED <<day, store, shop, posted, queue, validator, ids, round>>

NextPage ==
  LET e == work.entry IN
  /\ work.pc = "synced"
  /\ ~work.last
  /\ Ensure(Sync(e.kind, e.auth, e.page + 1, work.id, e.force, "UNSET"))
  /\ Done
  /\ UNCHANGED <<store, shop, posted, validator, ids, round, clock>>

(* CleanSales: a reconcile deletes what does not carry its stamp. *)
CleanSales ==
  LET a == work.entry.auth IN
  /\ work.pc = "synced"
  /\ work.last
  /\ work.entry.kind = "reconcile"
  /\ sales' = [sales EXCEPT ![a] = [s \in Sale |-> IF @[s] = work.id THEN @[s] ELSE None]]
  /\ work' = [work EXCEPT !.pc = "cleaned"]
  /\ UNCHANGED <<user, linked, shop, posted, queue, validator, ids, round, clock>>

(* Mutant: only a refresh has its sales linked. *)
EnqueueLinkOnRefresh ==
  /\ \/ work.pc = "cleaned" /\ UNCHANGED queue
     \/ /\ work.pc = "synced" /\ work.last /\ work.entry.kind = "refresh"
        /\ Ensure(Link(work.entry.auth, work.id))
  /\ work' = [work EXCEPT !.pc = "save"]
  /\ UNCHANGED <<store, shop, posted, validator, ids, round, clock>>

EnqueueLink ==
  /\ \/ work.pc = "cleaned"
     \/ work.pc = "synced" /\ work.last /\ work.entry.kind = "refresh"
  /\ Ensure(Link(work.entry.auth, work.id))
  /\ work' = [work EXCEPT !.pc = "save"]
  /\ UNCHANGED <<store, shop, posted, validator, ids, round, clock>>

(* Mutants: the lock is kept; a refresh forgets the last reconcile. *)
CompletedLocked(e, u) ==
  [u EXCEPT !.refreshed = day, !.upTo = posted[e.auth],
            !.reconciled = IF e.kind = "reconcile" THEN day ELSE @]
CompletedAnew(e, u) ==
  [u EXCEPT !.refreshed = day, !.upTo = posted[e.auth], !.active = 0,
            !.reconciled = IF e.kind = "reconcile" THEN day ELSE 0]

(* The sync is complete: the user is written back as it was loaded, with the *)
(* new timestamps and without the lock.                                      *)
Completed(e, u) ==
  [u EXCEPT !.refreshed = day, !.upTo = posted[e.auth], !.active = 0,
            !.reconciled = IF e.kind = "reconcile" THEN day ELSE @]

(* What Discogs lists and is not stored is newer than all that is stored.    *)
OnlyNewestLeft(a) == \A s, t \in shop[a] : s < t /\ t \in Stored(a) => s \in Stored(a)

SaveSync ==
  /\ work.pc = "save"
  /\ user' = [user EXCEPT ![work.entry.auth] = Completed(work.entry, work.user)]
  /\ LET r == round[work.entry.auth] IN
       round' = [round EXCEPT ![work.entry.auth].sound = r.whole /\ r.id = work.id /\ OnlyNewestLeft(work.entry.auth)]
  /\ Done
  /\ UNCHANGED <<sales, linked, shop, posted, queue, validator, ids, clock>>

(* LinkSales: the records of the user are linked with the stored sales. *)
LinkSales ==
  /\ work.pc = "loaded"
  /\ work.entry.kind = "link"
  /\ linked' = [linked EXCEPT ![work.entry.auth] = Stored(work.entry.auth)]
  /\ Done
  /\ UNCHANGED <<user, sales, shop, posted, queue, validator, ids, round, clock>>

(* AdjustSales: a sale without a condition asks for a forced refresh of      *)
(* everything, the prices are adjusted, and the user is written back as it   *)
(* was loaded.                                                               *)
AdjustSales ==
  LET a == work.entry.auth IN
  /\ work.pc = "loaded"
  /\ work.entry.kind = "adjust"
  /\ \/ UNCHANGED <<queue, spent>>
     \/ /\ Stored(a) # {}
        /\ Mixed \/ ~Scheduled
        /\ Spend("forced", MaxForced)
        /\ Ensure(Sync("refresh", a, 1, 0, TRUE, "UNSET"))
  /\ work' = [work EXCEPT !.pc = "adjusted"]
  /\ UNCHANGED <<day, store, shop, posted, validator, ids, round>>

SaveAdjusted ==
  /\ work.pc = "adjusted"
  /\ user' = [user EXCEPT ![work.entry.auth] = work.user]
  /\ Done
  /\ UNCHANGED <<sales, linked, shop, posted, queue, validator, ids, round, clock>>

(* A listing moves the pages on: what a refresh has just stored may be on    *)
(* the next one, and stop it above a sale it has yet to store.               *)
Shift(a) ==
  round' = [round EXCEPT ![a].whole = @ /\ \A s \in shop[a] : s <= round[a].mark => s \in Stored(a)]

(* AddSale: the handler lists a sale at Discogs and stores it, unstamped. *)
AddSale(a) ==
  LET s == posted[a] + 1 IN
  /\ work.pc = "idle"
  /\ s \in Sale
  /\ Spend("adds", MaxAdds)
  /\ posted' = [posted EXCEPT ![a] = s]
  /\ shop' = [shop EXCEPT ![a] = @ \cup {s}]
  /\ sales' = [sales EXCEPT ![a][s] = 0]
  /\ Shift(a)
  /\ UNCHANGED <<day, user, linked, queue, work, validator, ids>>

(* UpdateSale: a price change of a sale that Discogs no longer has deletes it. *)
UpdateSale(a, s) ==
  /\ work.pc = "idle"
  /\ s \in Stored(a) \ shop[a]
  /\ sales' = [sales EXCEPT ![a][s] = None]
  /\ UNCHANGED <<user, linked, shop, posted, queue, work, validator, ids, round, clock>>

----------------------------------------------------------------------------
(* The validator: one user of a pass, loaded when the pass began.            *)

ValidatorStep(a, pc) == validator.pc = pc /\ validator.auth = a
Goto(pc) == validator' = [validator EXCEPT !.pc = pc]

ListUsers(a) ==
  /\ validator.pc = "idle"
  /\ validator' = [pc |-> "sales", auth |-> a, user |-> user[a]]
  /\ UNCHANGED <<store, shop, posted, queue, work, ids, round, clock>>

(* Mutant: the age of the lock is compared the wrong way round. *)
LockIsStale(u) == u.active # 0 /\ ~WithinDay(u.active)

IsSalesSyncActive(u) == u.active # 0 /\ WithinDay(u.active)

(* The element goes in, is there already, or the queue refuses it.           *)
(* Bound: it refuses every sync beyond MaxSyncs.                             *)
Schedule(e, accepted, exists, refused) ==
  \/ (Mixed \/ ~Forced) /\ Spend("syncs", MaxSyncs) /\ Accept(e) /\ Goto(accepted)
  \/ Exists(e) /\ UNCHANGED <<queue, spent>> /\ Goto(exists)
  \/ Spend("faults", MaxFaults) /\ UNCHANGED queue /\ Goto(refused)
  \/ /\ spent["syncs"] = MaxSyncs \/ (~Mixed /\ Forced)
     /\ UNCHANGED <<queue, spent>> /\ Goto(refused)

ScheduleReconcile(a) ==
  LET u == validator.user IN
  /\ ValidatorStep(a, "sales")
  /\ IF IsSalesSyncActive(u) THEN Goto("adjust") /\ UNCHANGED <<queue, spent>>
     ELSE IF WithinWeek(u.reconciled) THEN Goto("refresh") /\ UNCHANGED <<queue, spent>>
     ELSE Schedule(Sync("reconcile", a, 1, 0, FALSE, "UNSET"), "save", "adjust", "refresh")
  /\ UNCHANGED <<day, store, shop, posted, work, ids, round>>

ScheduleRefresh(a) ==
  /\ ValidatorStep(a, "refresh")
  /\ IF WithinDay(validator.user.refreshed) THEN Goto("adjust") /\ UNCHANGED <<queue, spent>>
     ELSE Schedule(Sync("refresh", a, 1, 0, FALSE, "UNSET"), "save", "adjust", "adjust")
  /\ UNCHANGED <<day, store, shop, posted, work, ids, round>>

(* The user is written back as the pass loaded it, with the lock taken. *)
TakeLock(a) ==
  /\ ValidatorStep(a, "save")
  /\ user' = [user EXCEPT ![a] = [validator.user EXCEPT !.active = day]]
  /\ validator' = [validator EXCEPT !.pc = "adjust", !.user.active = day]
  /\ UNCHANGED <<sales, linked, shop, posted, queue, work, ids, round, clock>>

(* AdjustSales is enqueued when the last one is more than an hour old. *)
ScheduleAdjust(a) ==
  /\ ValidatorStep(a, "adjust")
  /\ UNCHANGED queue \/ Ensure(Adjust(a))
  /\ validator' = [pc |-> "idle", auth |-> None, user |-> None]
  /\ UNCHANGED <<store, shop, posted, work, ids, round, clock>>

Validate(a) ==
  ListUsers(a) \/ ScheduleReconcile(a) \/ ScheduleRefresh(a) \/ TakeLock(a) \/ ScheduleAdjust(a)

----------------------------------------------------------------------------
(* The administrator's syncsales and reconcilesales, urgent and forced. *)
AdminSync(a, kind) ==
  /\ Mixed \/ ~Scheduled
  /\ Spend("admin", MaxAdmin)
  /\ Accept(Sync(kind, a, 1, 0, TRUE, "HIGH"))
  /\ UNCHANGED <<day, store, shop, posted, work, validator, ids, round>>

(* The user lists a sale at Discogs; one is sold or taken down. *)
List(a) ==
  /\ posted[a] < MaxListings
  /\ posted' = [posted EXCEPT ![a] = @ + 1]
  /\ shop' = [shop EXCEPT ![a] = @ \cup {posted[a] + 1}]
  /\ Shift(a)
  /\ UNCHANGED <<store, queue, work, validator, ids, clock>>

Delist(a, s) ==
  /\ s \in shop[a]
  /\ Spend("delists", MaxDelists)
  /\ shop' = [shop EXCEPT ![a] = @ \ {s}]
  /\ round' = [round EXCEPT ![a].whole = FALSE]
  /\ UNCHANGED <<day, store, posted, queue, work, validator, ids>>

Tick ==
  /\ day < Start + MaxDays
  /\ day' = day + 1
  /\ UNCHANGED <<store, shop, posted, queue, work, validator, ids, round, spent>>

----------------------------------------------------------------------------
WorkerStep ==
  \/ \E p \in Priority : Take(p)
  \/ Skip \/ BeginSync \/ SyncPage
  \/ NextPage \/ CleanSales \/ EnqueueLink \/ SaveSync
  \/ LinkSales \/ AdjustSales \/ SaveAdjusted

Next ==
  \/ WorkerStep
  \/ RateLimit \/ Requeue \/ Bury \/ Refused
  \/ \E a \in User : AddSale(a) \/ Validate(a) \/ List(a)
  \/ \E a \in User, kind \in {"refresh", "reconcile"} : AdminSync(a, kind)
  \/ \E a \in User, s \in Sale : Delist(a, s) \/ UpdateSale(a, s)
  \/ Tick

Spec == Init /\ [][Next]_vars
----------------------------------------------------------------------------
(* Properties.                                                               *)

TypeOK ==
  /\ day \in Nat /\ ids \in Nat
  /\ user \in [User -> StoredUser]
  /\ sales \in [User -> [Sale -> Nat \cup {None}]]
  /\ shop \in [User -> SUBSET Sale]
  /\ posted \in [User -> Nat]
  /\ linked \in [User -> SUBSET Sale]
  /\ queue \in [Priority -> Seq(Element)]
  /\ work \in [pc : {"idle", "loaded", "sync", "synced", "cleaned", "save", "adjusted"},
                entry : Element \cup {None}, id : Nat, user : StoredUser \cup {None},
                last : BOOLEAN]
  /\ validator \in [pc : {"idle", "sales", "refresh", "save", "adjust"},
                     auth : User \cup {None}, user : StoredUser \cup {None}]
  /\ round \in [User -> [id : Nat, listed : SUBSET Sale, mark : Nat, whole : BOOLEAN, sound : BOOLEAN]]
  /\ spent \in [{"syncs", "forced", "admin", "delists", "adds", "faults"} -> Nat]

(* When a reconcile cleans the sales, what is stored is what Discogs lists:  *)
(* every sale that was listed when its first page was read is kept, however  *)
(* many pages, failures and retries it took, and everything Discogs no       *)
(* longer lists is gone; as long as no sale left a page already read and no  *)
(* other sync restamped one.                                                 *)
Cleans(a) == work.pc = "synced" /\ work'.pc = "cleaned" /\ work.entry.auth = a
ReconcileMirrorsShop ==
  [][\A a \in User : Cleans(a) /\ round[a].whole /\ round[a].id = work.id =>
       round[a].listed \subseteq Stored(a)' /\ Stored(a)' \subseteq shop[a]]_vars

(* A refresh that completes has stored every sale that was listed when it    *)
(* began, although it stops at the first sale it knows that was listed       *)
(* before LastSaleRefresh, the time the last sync ended and not the time it  *)
(* began; as long as that sync completed and left out the newest sales at    *)
(* most, and what it left out is stored before a listing moves the pages on. *)
Completes(a) == work.pc = "save" /\ work'.pc = "idle" /\ work.entry.auth = a
RefreshCatchesUp ==
  [][\A a \in User : Completes(a) /\ round[a].whole /\ round[a].id = work.id =>
       round[a].listed \subseteq Stored(a)]_vars

(* The pages of either sync cover what they should.                          *)
PagesCover == ReconcileMirrorsShop /\ RefreshCatchesUp

(* Among syncs that heed the lock, it is held from the first page of a sync  *)
(* until its last one.                                                       *)
Syncs(a) == {e \in Present : e.auth = a /\ e.kind \in {"refresh", "reconcile"}}
LockedBetweenPages ==
  ~Forced => \A a \in User : (\E e \in Syncs(a) : e.page > 1) => user[a].active # 0

(* A lock that still bars the validator belongs to a sync that is queued,    *)
(* running or just being enqueued.                                           *)
Quiet(a) == Syncs(a) = {} /\ ~ValidatorStep(a, "save")
UnlockedWhenQuiet ==
  \A a \in User : Quiet(a) => ~IsSalesSyncActive(user[a])

(* Forced syncs, one after another or together, leave no lock behind. *)
ForcedUnlocks == ~Scheduled => UnlockedWhenQuiet

(* The validator never has a refresh and a reconcile of one user in flight   *)
(* together, nor two of a kind.                                              *)
OneSyncAtATime == ~Forced => \A a \in User : Cardinality(Syncs(a)) <= 1

(* What a sync has achieved is not undone: however forced syncs and price    *)
(* adjustments follow one another, no write takes LastSaleRefresh or         *)
(* LastSaleReconcile back.                                                   *)
TimestampsAdvance ==
  [][~Scheduled => \A a \in User :
                     /\ user'[a].refreshed >= user[a].refreshed
                     /\ user'[a].reconciled >= user[a].reconciled]_vars

(* Once nothing is left to do for a user, every sale a sync has stored has   *)
(* been linked with the records.                                             *)
LinkedWhenQuiet ==
  \A a \in User : (\A e \in Present : e.auth # a) =>
    {s \in Stored(a) : sales[a][s] # 0} \subseteq linked[a]

(* What the lock and the entries a sync leaves behind promise together.      *)
LockHolds == LockedBetweenPages /\ OneSyncAtATime /\ ForcedUnlocks /\ LinkedWhenQuiet

(* A refresh stops at a sale an earlier sync has stored (README.md:36).      *)
StopsAtEarlierSync ==
  [][work.pc = "sync" /\ work'.pc = "synced" =>
       \A s \in Stops(work.entry, work.user) : sales[work.entry.auth][s] # work.id]_vars

(* No sale that Discogs lists is pruned. *)
NeverPrunesListed ==
  [][\A a \in User : Cleans(a) => Stored(a) \cap shop[a] \subseteq Stored(a)']_vars
============================================================================
