----------------------------- MODULE SalesProofs -----------------------------
(***************************************************************************)
(* The sales for any number of users and sales, page sizes, configurations *)
(* and faults.  SalesSync: a reconcile leaves the sales Discogs lists, and *)
(* no sync is undone by a price adjustment.  Market: a sale is never       *)
(* offered below the least price its configuration reduces to, unless the  *)
(* reduction is timed.  The two have no state in common.                   *)
(***************************************************************************)
EXTENDS SalesSync, Market, FiniteSetTheorems, TLAPS

WorkRecord ==
  [pc : {"idle", "loaded", "sync", "synced", "cleaned", "save", "adjusted"},
   entry : Element \cup {None}, id : Nat, user : StoredUser \cup {None}, last : BOOLEAN]
ValidatorRecord ==
  [pc : {"idle", "sales", "refresh", "save", "adjust"}, auth : User \cup {None}, user : StoredUser \cup {None}]
Round == [id : Nat, listed : SUBSET Sale, mark : Nat, whole : BOOLEAN, sound : BOOLEAN]
Spent == [{"syncs", "forced", "admin", "delists", "adds", "faults"} -> Nat]

(* A worker or a validator that is not idle has an entry, and a user.        *)
Loaded ==
  /\ work.pc # "idle" => work.entry \in Element /\ work.user \in StoredUser
  /\ work.pc \in {"sync", "synced", "cleaned", "save"} => work.entry.kind \in {"refresh", "reconcile"}
  /\ validator.pc # "idle" => validator.auth \in User /\ validator.user \in StoredUser
Types ==
  /\ day \in Nat /\ ids \in Nat
  /\ user \in [User -> StoredUser]
  /\ sales \in [User -> [Sale -> Nat \cup {None}]]
  /\ shop \in [User -> SUBSET Sale] /\ posted \in [User -> Nat] /\ linked \in [User -> SUBSET Sale]
  /\ queue \in [Priority -> Seq(Element)]
  /\ work \in WorkRecord /\ validator \in ValidatorRecord
  /\ round \in [User -> Round] /\ spent \in Spent
TypeInv == Types /\ Loaded

(* That is TypeOK.                                                           *)
LEMMA TypesAreOK ==
  Types <=> TypeOK
BY DEF Types, TypeOK, WorkRecord, ValidatorRecord, Round, Spent

-----------------------------------------------------------------------------
(* What changes one field of a stored user, an entry or a round.             *)
LEMMA Fields ==
  /\ \A u \in StoredUser, n \in Nat : [u EXCEPT !.active = n] \in StoredUser
  /\ \A u \in StoredUser, d, n, r \in Nat :
       [u EXCEPT !.refreshed = d, !.upTo = n, !.active = 0, !.reconciled = r] \in StoredUser
  /\ \A e \in Element, n \in Nat : [e EXCEPT !.id = n] \in Element
  /\ \A r \in Round, b \in BOOLEAN :
       [r EXCEPT !.whole = b] \in Round /\ [r EXCEPT !.sound = b] \in Round
  /\ \A r \in Round, b, c \in BOOLEAN : [r EXCEPT !.whole = b, !.sound = c] \in Round
  /\ \A sp \in Spent, w \in {"syncs", "forced", "admin", "delists", "adds", "faults"} : [sp EXCEPT ![w] = @ + 1] \in Spent
<1>1. ASSUME NEW u \in StoredUser, NEW n \in Nat PROVE [u EXCEPT !.active = n] \in StoredUser
  BY DEF StoredUser
<1>2. ASSUME NEW u \in StoredUser, NEW d \in Nat, NEW n \in Nat, NEW r \in Nat
      PROVE  [u EXCEPT !.refreshed = d, !.upTo = n, !.active = 0, !.reconciled = r] \in StoredUser
  BY DEF StoredUser
<1>3. ASSUME NEW e \in Element, NEW n \in Nat PROVE [e EXCEPT !.id = n] \in Element
  BY DEF Element
<1>4. ASSUME NEW r \in Round, NEW b \in BOOLEAN, NEW c \in BOOLEAN
      PROVE  /\ [r EXCEPT !.whole = b] \in Round /\ [r EXCEPT !.sound = b] \in Round
             /\ [r EXCEPT !.whole = b, !.sound = c] \in Round
  BY DEF Round
<1>5. ASSUME NEW sp \in Spent, NEW w \in {"syncs", "forced", "admin", "delists", "adds", "faults"}
      PROVE  [sp EXCEPT ![w] = @ + 1] \in Spent
  BY DEF Spent
<1> QED
  BY <1>1, <1>2, <1>3, <1>4, <1>5

(* The queue with an entry put at either end of a priority, or taken.        *)
LEMMA QueueTypes ==
  ASSUME NEW q \in [Priority -> Seq(Element)], NEW p \in Priority, NEW e \in Element
  PROVE  /\ [q EXCEPT ![p] = Append(@, e)] \in [Priority -> Seq(Element)]
         /\ [q EXCEPT ![p] = <<e>> \o @] \in [Priority -> Seq(Element)]
         /\ q[p] # <<>> => [q EXCEPT ![p] = Tail(@)] \in [Priority -> Seq(Element)] /\ Head(q[p]) \in Element
<1>1. Append(q[p], e) \in Seq(Element) /\ <<e>> \o q[p] \in Seq(Element)
  OBVIOUS
<1>2. q[p] # <<>> => Tail(q[p]) \in Seq(Element) /\ Head(q[p]) \in Element
  OBVIOUS
<1> QED
  BY <1>1, <1>2

(* What a handler, the validator or the administrator enqueues.              *)
LEMMA Entries ==
  /\ \A kind \in Kind, a \in User, page, id \in Nat, force \in BOOLEAN, prio \in Priority :
       /\ Sync(kind, a, page, id, force, prio) \in Element
       /\ Sync(kind, a, page, id, force, prio).kind = kind /\ Sync(kind, a, page, id, force, prio).auth = a
       /\ Sync(kind, a, page, id, force, prio).id = id /\ Sync(kind, a, page, id, force, prio).page = page
       /\ Sync(kind, a, page, id, force, prio).prio = prio
  /\ \A a \in User, id \in Nat : Link(a, id) \in Element /\ Link(a, id).kind = "link" /\ Link(a, id).prio = "UNSET"
  /\ \A a \in User : Adjust(a) \in Element /\ Adjust(a).kind = "adjust" /\ Adjust(a).prio = "UNSET"
BY DEF Sync, Link, Adjust, Element, Kind, Priority

(* Enqueue takes an entry or leaves the queue alone.                         *)
LEMMA EnsureTypes ==
  ASSUME queue \in [Priority -> Seq(Element)], NEW e \in Element, Ensure(e) \/ Accept(e)
  PROVE  queue' \in [Priority -> Seq(Element)]
<1>1. e.prio \in Priority
  BY DEF Element
<1>2. [queue EXCEPT ![e.prio] = Append(@, e)] \in [Priority -> Seq(Element)]
  BY <1>1, QueueTypes
<1> QED
  BY <1>2 DEF Ensure, Accept

(* The worker at rest.                                                       *)
LEMMA IdleTypes ==
  Idle \in WorkRecord /\ Idle.pc = "idle"
BY DEF Idle, WorkRecord

(* A stamp is a number.                                                      *)
LEMMA StampTypes ==
  ASSUME sales \in [User -> [Sale -> Nat \cup {None}]], NEW a \in User, NEW S, NEW id \in Nat, Stamp(a, S, id)
  PROVE  sales' \in [User -> [Sale -> Nat \cup {None}]]
<1>1. [s \in Sale |-> IF s \in S THEN id ELSE sales[a][s]] \in [Sale -> Nat \cup {None}]
  OBVIOUS
<1> QED
  BY <1>1 DEF Stamp

(* What stamps, listings and a sync that is saved do to a round.             *)
LEMMA RoundChanges ==
  ASSUME round \in [User -> Round], NEW a \in User,
         \/ \E id : Disturb(a, id)
         \/ Shift(a)
         \/ \E c \in BOOLEAN : round' = [round EXCEPT ![a].sound = c]
         \/ round' = [round EXCEPT ![a].whole = FALSE]
  PROVE  /\ round' \in [User -> Round]
         /\ \A b \in User : /\ round'[b].id = round[b].id /\ round'[b].listed = round[b].listed
                            /\ round'[b].mark = round[b].mark /\ (round'[b].whole => round[b].whole)
                            /\ b # a => round'[b] = round[b]
         /\ \A id : Disturb(a, id) => ~round'[a].sound /\ (round'[a].whole => round[a].id = id)
         /\ Shift(a) => /\ round'[a].sound = round[a].sound
                        /\ round'[a].whole => \A s \in shop[a] : s <= round[a].mark => s \in Stored(a)
<1>1. round[a] \in Round /\ round[a].whole \in BOOLEAN /\ round[a].sound \in BOOLEAN
  BY DEF Round
<1>2. ASSUME NEW v \in BOOLEAN, NEW c \in BOOLEAN, v => round[a].whole,
             round' = [round EXCEPT ![a] = [round[a] EXCEPT !.whole = v, !.sound = c]]
      PROVE  /\ round' \in [User -> Round] /\ round'[a].whole = v /\ round'[a].sound = c
             /\ \A b \in User : /\ round'[b].id = round[b].id /\ round'[b].listed = round[b].listed
                                /\ round'[b].mark = round[b].mark /\ (round'[b].whole => round[b].whole)
                                /\ b # a => round'[b] = round[b]
  <2>1. [round[a] EXCEPT !.whole = v, !.sound = c] \in Round
    BY <1>1, Fields
  <2> QED
    BY <1>1, <1>2, <2>1 DEF Round
<1>3. ASSUME NEW id, Disturb(a, id)
      PROVE  round' = [round EXCEPT ![a] = [round[a] EXCEPT !.whole = (round[a].whole /\ id = round[a].id), !.sound = FALSE]]
  BY <1>1, <1>3 DEF Disturb
<1>4. ASSUME Shift(a)
      PROVE  round' = [round EXCEPT ![a] =
                         [round[a] EXCEPT !.whole = (round[a].whole /\ \A s \in shop[a] : s <= round[a].mark => s \in Stored(a)),
                                          !.sound = round[a].sound]]
  BY <1>1, <1>4 DEF Shift, Round
<1>5. ASSUME NEW c \in BOOLEAN, round' = [round EXCEPT ![a].sound = c]
      PROVE  round' = [round EXCEPT ![a] = [round[a] EXCEPT !.whole = round[a].whole, !.sound = c]]
  BY <1>1, <1>5 DEF Round
<1>6. ASSUME round' = [round EXCEPT ![a].whole = FALSE]
      PROVE  round' = [round EXCEPT ![a] = [round[a] EXCEPT !.whole = FALSE, !.sound = round[a].sound]]
  BY <1>1, <1>6 DEF Round
<1>7. \A id : Disturb(a, id) => ~round'[a].sound /\ (round'[a].whole => round[a].id = id)
  <2> SUFFICES ASSUME NEW id, Disturb(a, id) PROVE ~round'[a].sound /\ (round'[a].whole => round[a].id = id)
    OBVIOUS
  <2>1. PICK v \in BOOLEAN : v <=> (round[a].whole /\ id = round[a].id)
    OBVIOUS
  <2> QED
    BY <1>1, <1>2, <1>3, <2>1
<1>8. Shift(a) => /\ round'[a].sound = round[a].sound
                  /\ round'[a].whole => \A s \in shop[a] : s <= round[a].mark => s \in Stored(a)
  BY <1>1, <1>2, <1>4
<1>9. /\ round' \in [User -> Round]
      /\ \A b \in User : /\ round'[b].id = round[b].id /\ round'[b].listed = round[b].listed
                         /\ round'[b].mark = round[b].mark /\ (round'[b].whole => round[b].whole)
                         /\ b # a => round'[b] = round[b]
  <2>1. CASE \E id : Disturb(a, id)
    BY <1>1, <1>2, <1>3, <2>1
  <2>2. CASE Shift(a)
    BY <1>1, <1>2, <1>4, <2>2
  <2>3. CASE \E c \in BOOLEAN : round' = [round EXCEPT ![a].sound = c]
    BY <1>1, <1>2, <1>5, <2>3
  <2>4. CASE round' = [round EXCEPT ![a].whole = FALSE]
    BY <1>1, <1>2, <1>6, <2>4
  <2> QED
    BY <2>1, <2>2, <2>3, <2>4
<1> QED
  BY <1>7, <1>8, <1>9

(* A bound is used up.                                                       *)
LEMMA SpendTypes ==
  ASSUME spent \in Spent, NEW w \in {"syncs", "forced", "admin", "delists", "adds", "faults"}, NEW n, Spend(w, n)
  PROVE  spent' \in Spent
BY Fields DEF Spend

(* The steps of a sync keep the types.                                       *)
LEMMA SyncTypes ==
  ASSUME TypeInv, \/ \E p \in Priority : Take(p)
                  \/ Skip \/ BeginSync \/ SyncPage \/ NextPage \/ CleanSales \/ EnqueueLink \/ SaveSync
  PROVE  TypeInv'
<1>1. /\ day \in Nat /\ ids \in Nat /\ user \in [User -> StoredUser]
      /\ sales \in [User -> [Sale -> Nat \cup {None}]] /\ posted \in [User -> Nat]
      /\ shop \in [User -> SUBSET Sale] /\ queue \in [Priority -> Seq(Element)]
      /\ work \in WorkRecord /\ round \in [User -> Round]
      /\ Loaded
  BY DEF TypeInv, Types
<1>2. ASSUME NEW p \in Priority, Take(p) PROVE TypeInv'
  <2>1. queue' \in [Priority -> Seq(Element)] /\ Head(queue[p]) \in Element
    BY <1>1, <1>2, QueueTypes, Entries DEF Take
  <2>2. PICK e \in Element : e = Head(queue[p])
    BY <2>1
  <2>3. /\ work' = [pc |-> "loaded", entry |-> e, id |-> e.id, user |-> user[e.auth], last |-> FALSE]
        /\ UNCHANGED <<store, shop, posted, validator, ids, round, clock>>
    BY <1>2, <2>2 DEF Take
  <2>4. e.id \in Nat /\ user[e.auth] \in StoredUser
    BY <1>1 DEF Element
  <2>5. work' \in WorkRecord /\ work'.entry = e /\ work'.user = user[e.auth] /\ work'.pc = "loaded"
    BY <2>3, <2>4 DEF WorkRecord
  <2> QED
    BY <2>1, <2>3, <2>4, <2>5 DEF TypeInv, Types, Loaded, store, clock
<1>3. ASSUME work' = Idle, queue' \in [Priority -> Seq(Element)], user' \in [User -> StoredUser],
             round' \in [User -> Round], UNCHANGED <<sales, linked, shop, posted, validator, ids, day, spent>>
      PROVE  TypeInv'
  BY <1>3, IdleTypes DEF TypeInv, Types, Loaded
<1>4. CASE Skip
  BY <1>1, <1>3, <1>4 DEF Skip, Done, store, clock
<1>5. CASE BeginSync
  <2> DEFINE e == work.entry
             u == Locked(e, work.user)
             id == IF e.id = 0 THEN ids + 1 ELSE e.id
  <2>1. e \in Element /\ e.auth \in User /\ e.id \in Nat /\ work.user \in StoredUser
        /\ e.kind \in {"refresh", "reconcile"}
    BY <1>1, <1>5 DEF BeginSync, Loaded, Element
  <2>2. u \in StoredUser /\ id \in Nat
    <3>1. [work.user EXCEPT !.active = day] \in StoredUser
      BY <1>1, <2>1, Fields
    <3> QED
      BY <1>1, <2>1, <3>1 DEF Locked
  <2>3. /\ user' \in [User -> StoredUser] /\ ids' \in Nat
        /\ UNCHANGED <<sales, linked, shop, posted, queue, validator, day, spent>>
    BY <1>1, <1>5, <2>1, <2>2 DEF BeginSync, clock
  <2>4. work' \in WorkRecord /\ work'.entry = e /\ work'.pc = "sync" /\ work'.user \in {u, work.user}
    <3>1. CASE work' = [work EXCEPT !.pc = "sync", !.user = u, !.id = id]
      BY <1>1, <2>2, <3>1 DEF WorkRecord
    <3>2. CASE work' = [work EXCEPT !.pc = "sync"]
      BY <1>1, <3>2 DEF WorkRecord
    <3> QED
      BY <1>5, <3>1, <3>2 DEF BeginSync
  <2>5. round' \in [User -> Round]
    <3>1. CASE e.page = 1
      <4>1. PICK b \in BOOLEAN, m \in Nat :
              round' = [round EXCEPT ![e.auth] = [id |-> id, listed |-> shop[e.auth], mark |-> m, whole |-> b,
                                                  sound |-> round[e.auth].sound]]
        <5>1. work.user.upTo \in Nat /\ round[e.auth].sound \in BOOLEAN /\ e.force \in BOOLEAN
          BY <1>1, <2>1 DEF StoredUser, Round, Element
        <5> QED
          BY <1>1, <1>5, <2>1, <3>1, <5>1 DEF BeginSync
      <4>2. [id |-> id, listed |-> shop[e.auth], mark |-> m, whole |-> b, sound |-> round[e.auth].sound] \in Round
        BY <1>1, <2>1, <2>2, <4>1 DEF Round
      <4> QED
        BY <1>1, <4>1, <4>2
    <3>2. CASE e.page # 1
      BY <1>1, <1>5, <3>2 DEF BeginSync
    <3> QED
      BY <3>1, <3>2
  <2> HIDE DEF e, u, id
  <2> QED
    BY <2>1, <2>2, <2>3, <2>4, <2>5 DEF TypeInv, Types, Loaded
<1>6. CASE SyncPage
  <2>1. work.entry \in Element /\ work.entry.auth \in User /\ work.id \in Nat
    BY <1>1, <1>6 DEF SyncPage, Loaded, Element, WorkRecord
  <2>2. sales' \in [User -> [Sale -> Nat \cup {None}]]
    BY <1>1, <1>6, <2>1, StampTypes DEF SyncPage
  <2>3. round' \in [User -> Round]
    BY <1>1, <1>6, <2>1, RoundChanges DEF SyncPage
  <2>4. PICK b \in BOOLEAN : work' = [work EXCEPT !.pc = "synced", !.last = b]
    BY <1>6 DEF SyncPage
  <2>5. work' \in WorkRecord /\ work'.entry = work.entry /\ work'.pc = "synced" /\ work'.user = work.user
    BY <1>1, <2>4 DEF WorkRecord
  <2> QED
    BY <1>1, <1>6, <2>1, <2>2, <2>3, <2>5 DEF TypeInv, Types, Loaded, SyncPage, clock
<1>7. CASE NextPage
  <2>1. /\ work.entry.kind \in Kind /\ work.entry.auth \in User /\ work.entry.page + 1 \in Nat
        /\ work.entry.force \in BOOLEAN /\ work.id \in Nat
    BY <1>1, <1>7 DEF NextPage, Loaded, Element, WorkRecord
  <2>2. Sync(work.entry.kind, work.entry.auth, work.entry.page + 1, work.id, work.entry.force, "UNSET") \in Element
    BY <2>1, Entries DEF Priority
  <2>3. queue' \in [Priority -> Seq(Element)]
    BY <1>1, <1>7, <2>2, EnsureTypes DEF NextPage
  <2> QED
    BY <1>1, <1>3, <1>7, <2>3 DEF NextPage, Done, store, clock
<1>8. CASE CleanSales
  <2>1. work.entry \in Element /\ work.entry.auth \in User /\ work.user \in StoredUser
        /\ work.entry.kind \in {"refresh", "reconcile"}
    BY <1>1, <1>8 DEF CleanSales, Loaded, Element
  <2>2. sales' \in [User -> [Sale -> Nat \cup {None}]]
    BY <1>1, <1>8, <2>1 DEF CleanSales
  <2>3. work' \in WorkRecord /\ work'.entry = work.entry /\ work'.pc = "cleaned" /\ work'.user = work.user
    BY <1>1, <1>8 DEF CleanSales, WorkRecord
  <2> QED
    BY <1>1, <1>8, <2>1, <2>2, <2>3 DEF TypeInv, Types, Loaded, CleanSales, clock
<1>9. CASE EnqueueLink
  <2>1. work.pc \in {"cleaned", "synced"} /\ work.entry \in Element /\ work.entry.auth \in User
        /\ work.user \in StoredUser /\ work.id \in Nat /\ work.entry.kind \in {"refresh", "reconcile"}
    BY <1>1, <1>9 DEF EnqueueLink, Loaded, Element, WorkRecord
  <2>2. queue' \in [Priority -> Seq(Element)]
    BY <1>1, <1>9, <2>1, Entries, EnsureTypes DEF EnqueueLink
  <2>3. work' \in WorkRecord /\ work'.entry = work.entry /\ work'.pc = "save" /\ work'.user = work.user
    BY <1>1, <1>9 DEF EnqueueLink, WorkRecord
  <2> QED
    BY <1>1, <1>9, <2>1, <2>2, <2>3 DEF TypeInv, Types, Loaded, EnqueueLink, store, clock
<1>10. CASE SaveSync
  <2>1. work.entry.auth \in User /\ work.user \in StoredUser /\ work.user.reconciled \in Nat
    BY <1>1, <1>10 DEF SaveSync, Loaded, Element, StoredUser
  <2>2. Completed(work.entry, work.user) \in StoredUser
    BY <1>1, <2>1, Fields DEF Completed
  <2>3. user' \in [User -> StoredUser]
    BY <1>1, <1>10, <2>2 DEF SaveSync
  <2>4. PICK b \in BOOLEAN : round' = [round EXCEPT ![work.entry.auth].sound = b]
    BY <1>1, <1>10, <2>1 DEF SaveSync, Round
  <2>5. round' \in [User -> Round]
    BY <1>1, <2>1, <2>4, Fields
  <2> QED
    BY <1>1, <1>3, <1>10, <2>3, <2>5 DEF SaveSync, Done, clock
<1> QED
  BY <1>2, <1>4, <1>5, <1>6, <1>7, <1>8, <1>9, <1>10

(* So do its failures, the other tasks and the API.                          *)
LEMMA TaskTypes ==
  ASSUME TypeInv, \/ RateLimit \/ Requeue \/ Bury \/ Refused \/ LinkSales \/ AdjustSales \/ SaveAdjusted
                  \/ \E a \in User : AddSale(a) \/ \E s \in Sale : UpdateSale(a, s)
  PROVE  TypeInv'
<1>1. /\ day \in Nat /\ ids \in Nat /\ user \in [User -> StoredUser]
      /\ sales \in [User -> [Sale -> Nat \cup {None}]] /\ posted \in [User -> Nat]
      /\ shop \in [User -> SUBSET Sale] /\ queue \in [Priority -> Seq(Element)]
      /\ linked \in [User -> SUBSET Sale] /\ spent \in Spent
      /\ work \in WorkRecord /\ round \in [User -> Round]
      /\ Loaded
  BY DEF TypeInv, Types
<1>2. work.pc # "idle" => /\ work.entry \in Element /\ work.entry.auth \in User /\ work.entry.prio \in Priority
                          /\ work.user \in StoredUser /\ work.id \in Nat
  BY <1>1 DEF Loaded, Element, WorkRecord
<1>3. ASSUME work' = Idle, queue' \in [Priority -> Seq(Element)], user' \in [User -> StoredUser],
             round' \in [User -> Round], linked' \in [User -> SUBSET Sale], spent' \in Spent,
             sales' \in [User -> [Sale -> Nat \cup {None}]], UNCHANGED <<shop, posted, validator, ids, day>>
      PROVE  TypeInv'
  BY <1>1, <1>3, IdleTypes DEF TypeInv, Types, Loaded
<1>4. CASE RateLimit
  <2>1. [queue EXCEPT ![work.entry.prio] = <<work.entry>> \o @] \in [Priority -> Seq(Element)]
    BY <1>1, <1>2, <1>4, QueueTypes DEF RateLimit
  <2>2. spent' \in Spent
    BY <1>1, <1>4, SpendTypes DEF RateLimit
  <2> QED
    BY <1>1, <1>3, <1>4, <2>1, <2>2 DEF RateLimit, Done, store
<1>5. CASE Requeue
  <2> DEFINE e == [work.entry EXCEPT !.id = work.id]
  <2>1. e \in Element
    BY <1>2, <1>5, Fields DEF Requeue
  <2>2. e.prio \in Priority
    BY <2>1 DEF Element
  <2>3. spent' \in Spent
    BY <1>1, <1>5, SpendTypes DEF Requeue
  <2>4. queue' = [queue EXCEPT ![e.prio] = Append(@, e)]
    BY <1>5 DEF Requeue
  <2> HIDE DEF e
  <2>5. [queue EXCEPT ![e.prio] = Append(@, e)] \in [Priority -> Seq(Element)]
    BY <1>1, <2>1, <2>2, QueueTypes
  <2> QED
    BY <1>1, <1>3, <1>5, <2>3, <2>4, <2>5 DEF Requeue, Done, store
<1>6. CASE Bury
  <2>1. sales' \in [User -> [Sale -> Nat \cup {None}]]
    BY <1>1, <1>2, <1>6, StampTypes DEF Bury
  <2>2. spent' \in Spent
    BY <1>1, <1>6, SpendTypes DEF Bury
  <2>3. round' \in [User -> Round]
    BY <1>1, <1>2, <1>6, RoundChanges DEF Bury
  <2> QED
    BY <1>1, <1>3, <1>6, <2>1, <2>2, <2>3 DEF Bury, Done
<1>7. CASE Refused
  <2>1. spent' \in Spent
    BY <1>1, <1>7, SpendTypes DEF Refused
  <2> QED
    BY <1>1, <1>3, <1>7, <2>1 DEF Refused, Done, store
<1>8. CASE LinkSales
  <2>1. linked' \in [User -> SUBSET Sale]
    BY <1>1, <1>8 DEF LinkSales, Stored
  <2> QED
    BY <1>1, <1>3, <1>8, <2>1 DEF LinkSales, Done, clock
<1>9. CASE AdjustSales
  <2>1. /\ work.entry \in Element /\ work.entry.auth \in User /\ work.user \in StoredUser
        /\ Sync("refresh", work.entry.auth, 1, 0, TRUE, "UNSET") \in Element
    BY <1>2, <1>9, Entries DEF AdjustSales, Kind, Priority
  <2>2. queue' \in [Priority -> Seq(Element)] /\ spent' \in Spent
    BY <1>1, <1>9, <2>1, EnsureTypes, SpendTypes DEF AdjustSales
  <2>3. work' \in WorkRecord /\ work'.entry = work.entry /\ work'.pc = "adjusted" /\ work'.user = work.user
    BY <1>1, <1>9 DEF AdjustSales, WorkRecord
  <2> QED
    BY <1>1, <1>9, <2>1, <2>2, <2>3 DEF TypeInv, Types, Loaded, AdjustSales, store
<1>10. CASE SaveAdjusted
  <2>1. user' \in [User -> StoredUser]
    BY <1>1, <1>2, <1>10 DEF SaveAdjusted
  <2> QED
    BY <1>1, <1>3, <1>10, <2>1 DEF SaveAdjusted, Done, clock
<1>11. ASSUME NEW a \in User, AddSale(a) PROVE TypeInv'
  <2>1. posted' \in [User -> Nat] /\ shop' \in [User -> SUBSET Sale] /\ spent' \in Spent
    BY <1>1, <1>11, SpendTypes DEF AddSale
  <2>2. sales' \in [User -> [Sale -> Nat \cup {None}]]
    <3>1. sales' = [sales EXCEPT ![a][posted[a] + 1] = 0] /\ posted[a] + 1 \in Sale
      BY <1>11 DEF AddSale
    <3> QED
      BY <1>1, <3>1
  <2> QED
    BY <1>1, <1>11, <2>1, <2>2, RoundChanges DEF TypeInv, Types, Loaded, AddSale
<1>12. ASSUME NEW a \in User, NEW s \in Sale, UpdateSale(a, s) PROVE TypeInv'
  <2>1. sales' \in [User -> [Sale -> Nat \cup {None}]]
    BY <1>1, <1>12 DEF UpdateSale
  <2> QED
    BY <1>1, <1>12, <2>1 DEF TypeInv, Types, Loaded, UpdateSale, clock
<1> QED
  BY <1>4, <1>5, <1>6, <1>7, <1>8, <1>9, <1>10, <1>11, <1>12

(* The validator, the administrator, the users and time keep the types.      *)
LEMMA OthersTypes ==
  ASSUME TypeInv, \/ \E a \in User : Validate(a) \/ List(a) \/ \E s \in Sale : Delist(a, s)
                  \/ \E a \in User, kind \in {"refresh", "reconcile"} : AdminSync(a, kind)
                  \/ Tick
  PROVE  TypeInv'
<1>1. /\ day \in Nat /\ ids \in Nat /\ user \in [User -> StoredUser]
      /\ sales \in [User -> [Sale -> Nat \cup {None}]] /\ posted \in [User -> Nat]
      /\ shop \in [User -> SUBSET Sale] /\ queue \in [Priority -> Seq(Element)]
      /\ linked \in [User -> SUBSET Sale] /\ spent \in Spent
      /\ validator \in ValidatorRecord /\ round \in [User -> Round]
      /\ Loaded
  BY DEF TypeInv, Types
<1>2. ASSUME NEW a \in User, NEW e \in Element, NEW x \in {"save", "adjust", "refresh"},
             NEW y \in {"save", "adjust", "refresh"}, NEW z \in {"save", "adjust", "refresh"},
             validator.pc # "idle", Schedule(e, x, y, z)
      PROVE  /\ queue' \in [Priority -> Seq(Element)] /\ spent' \in Spent
             /\ \E pc \in {"save", "adjust", "refresh"} : Goto(pc)
  BY <1>1, <1>2, EnsureTypes, SpendTypes DEF Schedule
<1>3. ASSUME NEW a \in User, ScheduleReconcile(a) \/ ScheduleRefresh(a)
      PROVE  TypeInv'
  <2>1. validator.pc # "idle" /\ UNCHANGED <<day, store, shop, posted, work, ids, round>>
    BY <1>3 DEF ScheduleReconcile, ScheduleRefresh, ValidatorStep
  <2>2. Sync("reconcile", a, 1, 0, FALSE, "UNSET") \in Element /\ Sync("refresh", a, 1, 0, FALSE, "UNSET") \in Element
    BY Entries DEF Kind, Priority
  <2>3. /\ queue' \in [Priority -> Seq(Element)] /\ spent' \in Spent
        /\ \E pc \in {"save", "adjust", "refresh"} : Goto(pc)
    BY <1>1, <1>2, <1>3, <2>1, <2>2 DEF ScheduleReconcile, ScheduleRefresh
  <2>4. /\ validator' \in ValidatorRecord /\ validator'.auth = validator.auth /\ validator'.user = validator.user
    BY <1>1, <2>3 DEF Goto, ValidatorRecord
  <2> QED
    BY <1>1, <2>1, <2>3, <2>4 DEF TypeInv, Types, Loaded, store
<1>4. ASSUME NEW a \in User, ListUsers(a) \/ ScheduleAdjust(a)
      PROVE  TypeInv'
  <2>1. validator' \in ValidatorRecord /\ (validator'.pc # "idle" => validator'.auth \in User /\ validator'.user \in StoredUser)
    BY <1>1, <1>4 DEF ListUsers, ScheduleAdjust, ValidatorRecord
  <2>2. queue' \in [Priority -> Seq(Element)]
    BY <1>1, <1>4, Entries, EnsureTypes DEF ListUsers, ScheduleAdjust
  <2>3. UNCHANGED <<store, shop, posted, work, ids, round, clock>>
    BY <1>4 DEF ListUsers, ScheduleAdjust
  <2> QED
    BY <1>1, <2>1, <2>2, <2>3 DEF TypeInv, Types, Loaded, store, clock
<1>5. ASSUME NEW a \in User, TakeLock(a)
      PROVE  TypeInv'
  <2>1. validator.auth \in User /\ validator.user \in StoredUser
    BY <1>1, <1>5 DEF TakeLock, ValidatorStep, Loaded
  <2>2. [validator.user EXCEPT !.active = day] \in StoredUser
    BY <1>1, <2>1, Fields
  <2>3. user' \in [User -> StoredUser]
    BY <1>1, <1>5, <2>2 DEF TakeLock
  <2>4. /\ validator' \in ValidatorRecord /\ validator'.auth = validator.auth
        /\ validator'.user = [validator.user EXCEPT !.active = day]
    BY <1>1, <1>5, <2>2 DEF TakeLock, ValidatorRecord
  <2> QED
    BY <1>1, <1>5, <2>1, <2>2, <2>3, <2>4 DEF TypeInv, Types, Loaded, TakeLock, clock
<1>6. ASSUME NEW a \in User, NEW kind \in {"refresh", "reconcile"}, AdminSync(a, kind)
      PROVE  TypeInv'
  <2>1. Sync(kind, a, 1, 0, TRUE, "HIGH") \in Element
    BY Entries DEF Kind, Priority
  <2>2. queue' \in [Priority -> Seq(Element)] /\ spent' \in Spent
    BY <1>1, <1>6, <2>1, EnsureTypes, SpendTypes DEF AdminSync
  <2> QED
    BY <1>1, <1>6, <2>2 DEF TypeInv, Types, Loaded, AdminSync, store
<1>7. ASSUME NEW a \in User, List(a)
      PROVE  TypeInv'
  <2>1. posted[a] + 1 \in Sale
    BY <1>1, <1>7, BoundsAssumption DEF List, Sale
  <2>2. posted' \in [User -> Nat] /\ shop' \in [User -> SUBSET Sale]
    BY <1>1, <1>7, <2>1 DEF List
  <2> QED
    BY <1>1, <1>7, <2>2, RoundChanges DEF TypeInv, Types, Loaded, List, store, clock
<1>8. ASSUME NEW a \in User, NEW s \in Sale, Delist(a, s)
      PROVE  TypeInv'
  <2>1. shop' \in [User -> SUBSET Sale] /\ spent' \in Spent
    BY <1>1, <1>8, SpendTypes DEF Delist
  <2>2. round' \in [User -> Round]
    BY <1>1, <1>8, RoundChanges DEF Delist
  <2> QED
    BY <1>1, <1>8, <2>1, <2>2 DEF TypeInv, Types, Loaded, Delist, store
<1>9. CASE Tick
  BY <1>1, <1>9 DEF Tick, TypeInv, Types, Loaded, store
<1> QED
  BY <1>3, <1>4, <1>5, <1>6, <1>7, <1>8, <1>9 DEF Validate

(* The types hold at the start.                                              *)
LEMMA TypeInit ==
  ASSUME Init
  PROVE  TypeInv
<1>1. user \in [User -> StoredUser] /\ posted \in [User -> Nat] /\ day \in Nat /\ ids \in Nat
  BY BoundsAssumption DEF Init, StoredUser, Start
<1>2. shop \in [User -> SUBSET Sale] /\ linked \in [User -> SUBSET Sale] /\ sales \in [User -> [Sale -> Nat \cup {None}]]
  BY BoundsAssumption DEF Init, Sale
<1>3. queue \in [Priority -> Seq(Element)]
  BY DEF Init
<1>4. work \in WorkRecord /\ work.pc = "idle" /\ validator \in ValidatorRecord /\ validator.pc = "idle"
  BY IdleTypes DEF Init, ValidatorRecord
<1>5. round \in [User -> Round] /\ spent \in Spent
  BY DEF Init, Round, Spent
<1> QED
  BY <1>1, <1>2, <1>3, <1>4, <1>5 DEF TypeInv, Types, Loaded

(* And every step keeps them.                                                *)
LEMMA TypeStep ==
  ASSUME TypeInv, [Next]_vars
  PROVE  TypeInv'
<1>1. CASE UNCHANGED vars
  BY <1>1 DEF vars, TypeInv, Types, Loaded
<1>2. CASE Next
  BY <1>2, SyncTypes, TaskTypes, OthersTypes DEF Next, WorkerStep
<1> QED
  BY <1>1, <1>2

(* Every variable keeps its type (background/sales.go,                       *)
(* validatorlogic/validatorlogic.go).                                        *)
THEOREM SalesTypeCorrect == Spec => []TypeOK
<1>1. Init => TypeInv
  BY TypeInit
<1>2. TypeInv => TypeOK
  BY TypesAreOK DEF TypeInv
<1> QED
  BY <1>1, <1>2, TypeStep, PTL DEF Spec

-----------------------------------------------------------------------------
(* What a sync has achieved.                                                 *)

(* As long as the validator has enqueued no sync, its pass has no lock to    *)
(* take, and the timestamps of the user a handler has loaded are those that  *)
(* are stored.                                                               *)
Times ==
  spent["syncs"] = 0 =>
    /\ validator.pc # "save"
    /\ \A a \in User : user[a].refreshed <= day /\ user[a].reconciled <= day
    /\ work.pc # "idle" =>
         /\ work.user.refreshed = user[work.entry.auth].refreshed
         /\ work.user.reconciled = user[work.entry.auth].reconciled

(* A step takes no timestamp back.                                           *)
TimesGrow ==
  \A a \in User : user'[a].refreshed >= user[a].refreshed /\ user'[a].reconciled >= user[a].reconciled

(* The syncs the validator has enqueued are never forgotten.                 *)
LEMMA SyncsSpent ==
  ASSUME spent \in Spent
  PROVE  /\ \A w \in {"forced", "admin", "delists", "adds", "faults"} : \A n : Spend(w, n) => spent'["syncs"] = spent["syncs"]
         /\ \A n : Spend("syncs", n) => spent'["syncs"] # 0
BY DEF Spend, Spent

(* Steps that write no user: the worker's.                                   *)
LEMMA TimesOfWork ==
  ASSUME TypeInv, Times,
         \/ \E p \in Priority : Take(p)
         \/ Skip \/ SyncPage \/ NextPage \/ CleanSales \/ EnqueueLink
         \/ RateLimit \/ Requeue \/ Bury \/ Refused \/ LinkSales \/ AdjustSales
  PROVE  Times' /\ TimesGrow
<1>1. work \in WorkRecord /\ spent \in Spent /\ user \in [User -> StoredUser] /\ Loaded
  BY DEF TypeInv, Types
<1>2. user' = user /\ day' = day /\ validator' = validator
  BY DEF Take, Skip, SyncPage, NextPage, CleanSales, EnqueueLink, RateLimit, Requeue, Bury, Refused,
         LinkSales, AdjustSales, store, clock
<1>3. spent'["syncs"] = spent["syncs"]
  BY <1>1, SyncsSpent DEF Take, Skip, SyncPage, NextPage, CleanSales, EnqueueLink, RateLimit, Requeue, Bury,
         Refused, LinkSales, AdjustSales, clock
<1>4. work'.pc # "idle" => /\ work'.user.refreshed = user[work'.entry.auth].refreshed \/ spent["syncs"] # 0
                           /\ work'.user.reconciled = user[work'.entry.auth].reconciled \/ spent["syncs"] # 0
  <2>1. ASSUME NEW p \in Priority, Take(p)
        PROVE  work'.user = user[work'.entry.auth]
    BY <2>1 DEF Take
  <2>2. CASE Skip \/ NextPage \/ RateLimit \/ Requeue \/ Bury \/ Refused \/ LinkSales
    BY <2>2, IdleTypes DEF Skip, NextPage, RateLimit, Requeue, Bury, Refused, LinkSales, Done
  <2>3. CASE SyncPage \/ CleanSales \/ EnqueueLink \/ AdjustSales
    <3>1. work.pc # "idle" /\ work'.entry = work.entry /\ work'.user = work.user
      BY <1>1, <2>3 DEF SyncPage, CleanSales, EnqueueLink, AdjustSales, WorkRecord
    <3> QED
      BY <3>1 DEF Times
  <2> QED
    BY <2>1, <2>2, <2>3
<1>5. TimesGrow
  BY <1>1, <1>2 DEF TimesGrow, StoredUser
<1> QED
  BY <1>2, <1>3, <1>4, <1>5 DEF Times

(* The worker's that do.                                                     *)
LEMMA TimesOfSync ==
  ASSUME TypeInv, Times, BeginSync \/ SaveSync \/ SaveAdjusted
  PROVE  Times' /\ (spent["syncs"] = 0 => TimesGrow)
<1> DEFINE e == work.entry
<1>1. /\ work \in WorkRecord /\ user \in [User -> StoredUser] /\ e \in Element /\ e.auth \in User
      /\ work.user \in StoredUser /\ posted \in [User -> Nat] /\ day \in Nat
  BY DEF TypeInv, Types, Loaded, Element, BeginSync, SaveSync, SaveAdjusted
<1>2. UNCHANGED <<day, spent, validator>>
  BY DEF BeginSync, SaveSync, SaveAdjusted, clock
<1>3. SUFFICES ASSUME spent["syncs"] = 0
               PROVE  Times' /\ TimesGrow
  BY <1>2 DEF Times
<1>4. /\ validator.pc # "save"
      /\ \A a \in User : user[a].refreshed <= day /\ user[a].reconciled <= day
      /\ \A a \in User : user[a].refreshed \in Nat /\ user[a].reconciled \in Nat
      /\ work.user.refreshed = user[e.auth].refreshed /\ work.user.reconciled = user[e.auth].reconciled
  BY <1>1, <1>3 DEF Times, StoredUser, BeginSync, SaveSync, SaveAdjusted
<1>5. CASE BeginSync
  <2>1. /\ Locked(e, work.user).refreshed = work.user.refreshed
        /\ Locked(e, work.user).reconciled = work.user.reconciled
    BY <1>1 DEF Locked, StoredUser
  <2>2. \A a \in User : user'[a].refreshed = user[a].refreshed /\ user'[a].reconciled = user[a].reconciled
    <3>1. \/ user' = user
          \/ user' = [user EXCEPT ![e.auth] = Locked(e, work.user)]
      BY <1>1, <1>5 DEF BeginSync
    <3> QED
      BY <1>1, <1>4, <2>1, <3>1
  <2>3. work'.entry = e /\ (work'.user = work.user \/ work'.user = Locked(e, work.user))
    BY <1>1, <1>5 DEF BeginSync, WorkRecord
  <2> QED
    BY <1>1, <1>2, <1>4, <2>1, <2>2, <2>3 DEF Times, TimesGrow
<1>6. CASE SaveSync
  <2>1. /\ Completed(e, work.user).refreshed = day
        /\ Completed(e, work.user).reconciled \in {day, work.user.reconciled}
    BY <1>1 DEF Completed, StoredUser
  <2>2. \A a \in User : /\ user'[a].refreshed \in {day, user[a].refreshed}
                        /\ user'[a].reconciled \in {day, user[a].reconciled}
    BY <1>1, <1>4, <1>6, <2>1 DEF SaveSync
  <2>3. work'.pc = "idle"
    BY <1>6, IdleTypes DEF SaveSync, Done
  <2> QED
    BY <1>1, <1>2, <1>4, <2>2, <2>3 DEF Times, TimesGrow
<1>7. CASE SaveAdjusted
  <2>1. \A a \in User : user'[a].refreshed = user[a].refreshed /\ user'[a].reconciled = user[a].reconciled
    BY <1>1, <1>4, <1>7 DEF SaveAdjusted
  <2>2. work'.pc = "idle"
    BY <1>7, IdleTypes DEF SaveAdjusted, Done
  <2> QED
    BY <1>1, <1>2, <1>4, <2>1, <2>2 DEF Times, TimesGrow
<1> QED
  BY <1>5, <1>6, <1>7

(* Everybody else's.                                                         *)
LEMMA TimesOfOthers ==
  ASSUME TypeInv, Times,
         \/ \E a \in User : AddSale(a) \/ Validate(a) \/ List(a) \/ \E s \in Sale : Delist(a, s) \/ UpdateSale(a, s)
         \/ \E a \in User, kind \in {"refresh", "reconcile"} : AdminSync(a, kind)
         \/ Tick
  PROVE  Times' /\ (spent["syncs"] = 0 => TimesGrow)
<1>1. spent \in Spent /\ user \in [User -> StoredUser] /\ day \in Nat /\ validator \in ValidatorRecord
  BY DEF TypeInv, Types
<1>2. spent["syncs"] \in Nat /\ \A a \in User : user[a].refreshed \in Nat /\ user[a].reconciled \in Nat
  BY <1>1 DEF Spent, StoredUser
<1>3. ASSUME user' = user, work' = work, day' \in {day, day + 1},
             spent'["syncs"] # 0 \/ (spent'["syncs"] = spent["syncs"] /\ (validator'.pc = "save" => validator.pc = "save"))
      PROVE  Times' /\ TimesGrow
  BY <1>1, <1>2, <1>3 DEF Times, TimesGrow
<1>4. ASSUME NEW a \in User, NEW s, AddSale(a) \/ List(a) \/ Delist(a, s) \/ UpdateSale(a, s)
      PROVE  Times' /\ TimesGrow
  BY <1>1, <1>3, <1>4, SyncsSpent DEF AddSale, List, Delist, UpdateSale, store, clock
<1>5. ASSUME NEW a \in User, NEW kind, AdminSync(a, kind)
      PROVE  Times' /\ TimesGrow
  BY <1>1, <1>3, <1>5, SyncsSpent DEF AdminSync, store
<1>6. CASE Tick
  BY <1>3, <1>6 DEF Tick, store
<1>7. ASSUME NEW a \in User, ListUsers(a) \/ ScheduleAdjust(a)
      PROVE  Times' /\ TimesGrow
  BY <1>1, <1>3, <1>7 DEF ListUsers, ScheduleAdjust, store, clock
<1>8. ASSUME NEW a \in User, ScheduleReconcile(a) \/ ScheduleRefresh(a)
      PROVE  Times' /\ TimesGrow
  <2>1. UNCHANGED <<day, store, work>>
    BY <1>8 DEF ScheduleReconcile, ScheduleRefresh
  <2>2. ASSUME NEW pc \in {"adjust", "refresh"}, Goto(pc)
        PROVE  validator'.pc # "save"
    BY <1>1, <2>2 DEF Goto, ValidatorRecord
  <2>3. ASSUME NEW e, NEW x \in {"adjust", "refresh"}, NEW y \in {"adjust", "refresh"}, Schedule(e, "save", x, y)
        PROVE  spent'["syncs"] # 0 \/ (spent'["syncs"] = spent["syncs"] /\ validator'.pc # "save")
    BY <1>1, <2>2, <2>3, SyncsSpent DEF Schedule
  <2>4. spent'["syncs"] # 0 \/ (spent'["syncs"] = spent["syncs"] /\ validator'.pc # "save")
    BY <1>8, <2>2, <2>3 DEF ScheduleReconcile, ScheduleRefresh
  <2> QED
    BY <1>3, <2>1, <2>4 DEF store
<1>9. ASSUME NEW a \in User, TakeLock(a)
      PROVE  Times' /\ (spent["syncs"] = 0 => TimesGrow)
  <2>1. validator.pc = "save" /\ spent' = spent
    BY <1>9 DEF TakeLock, ValidatorStep, clock
  <2>2. spent["syncs"] # 0
    BY <2>1 DEF Times
  <2> QED
    BY <2>1, <2>2 DEF Times
<1> QED
  BY <1>4, <1>5, <1>6, <1>7, <1>8, <1>9 DEF Validate

(* Every step's.                                                             *)
LEMMA TimesStep ==
  ASSUME TypeInv, Times, [Next]_vars
  PROVE  Times'
<1>1. UNCHANGED vars => Times'
  BY DEF vars, Times
<1> QED
  BY <1>1, TimesOfWork, TimesOfSync, TimesOfOthers DEF Next, WorkerStep

LEMMA TimesInit ==
  ASSUME Init
  PROVE  Times
BY BoundsAssumption DEF Init, Times, Start, Idle

(* However forced syncs and price adjustments follow one another, no write   *)
(* takes LastSaleRefresh or LastSaleReconcile back (sales.go, SyncSales and  *)
(* AdjustSales both write the user back as they loaded it).                  *)
THEOREM NoSyncUndone == Spec => TimestampsAdvance
<1>1. Init => TypeInv /\ Times
  BY TypeInit, TimesInit
<1>2. TypeInv /\ Times /\ [Next]_vars => TypeInv' /\ Times'
  BY TypeStep, TimesStep
<1>3. TypeInv /\ Times /\ [Next]_vars =>
        [~Scheduled => \A a \in User :
                     /\ user'[a].refreshed >= user[a].refreshed
                     /\ user'[a].reconciled >= user[a].reconciled]_vars
  <2>1. TypeInv /\ Times /\ Next => (spent["syncs"] = 0 => TimesGrow)
    BY TimesOfWork, TimesOfSync, TimesOfOthers DEF Next, WorkerStep
  <2>2. TypeInv /\ ~Scheduled => spent["syncs"] = 0
    BY DEF TypeInv, Types, Spent, Scheduled
  <2> QED
    BY <2>1, <2>2 DEF TimesGrow
<1> QED
  BY <1>1, <1>2, <1>3, PTL DEF Spec, TimestampsAdvance

-----------------------------------------------------------------------------
(* What a reconcile has read.                                                *)

IsSync(e) == e.kind \in {"refresh", "reconcile"}
In(q, e) == \E p \in Priority : \E i \in 1 .. Len(q[p]) : q[p][i] = e
SyncId(e) == IF IsSync(e) THEN e.id ELSE 0
NoneHas(q, id) == \A p \in Priority : \A i \in 1 .. Len(q[p]) : SyncId(q[p][i]) # id

(* No two waiting entries are of the same sync.                              *)
Alone(q) ==
  \A p, r \in Priority : \A i \in 1 .. Len(q[p]), j \in 1 .. Len(q[r]) :
    SyncId(q[p][i]) # 0 /\ SyncId(q[p][i]) = SyncId(q[r][j]) => p = r /\ i = j

(* No sale has the stamp of a sync before its first page is read; of those   *)
(* that were listed at its beginning, the pages read before have it.         *)
Fresh(a, id) == \A s \in Sale : sales[a][s] # id
ReadTo(a, n) == \A s \in round[a].listed : Newer(a, s) < n * PageSize => sales[a][s] = round[a].id
Whole(a, id) == round[a].whole /\ round[a].id = id
Ok(e, id) ==
  IsSync(e) =>
    /\ id <= ids /\ e.page >= 1 /\ (id = 0 => e.page = 1)
    /\ id # 0 /\ e.page = 1 => Fresh(e.auth, id)
    /\ id # 0 /\ Whole(e.auth, id) => ReadTo(e.auth, e.page - 1)

WaitingOk == \A e \in Element : In(queue, e) => Ok(e, e.id)

(* After SyncPage, the page itself is read as well, unless the sync stopped  *)
(* on it, and when it is the last of a reconcile, everything is.             *)
Read(e, id) ==
  /\ id # 0 /\ id <= ids /\ e.page >= 1 /\ (round[e.auth].whole => round[e.auth].id = id)
  /\ round[e.auth].whole =>
       /\ ~work.last => ReadTo(e.auth, e.page)
       /\ e.kind = "reconcile" /\ work.last => \A s \in round[e.auth].listed : sales[e.auth][s] = id
WorkOk ==
  \A e \in Element, id \in Nat : work.entry = e /\ work.id = id =>
    /\ work.pc = "loaded" => id = e.id /\ Ok(e, id)
    /\ work.pc = "sync" => id # 0 /\ Ok(e, id) /\ (e.id = id \/ (e.id = 0 /\ e.page = 1))
    /\ work.pc = "synced" => Read(e, id)
    /\ work.pc \in {"loaded", "sync", "synced"} /\ IsSync(e) /\ id # 0 => NoneHas(queue, id)

(* A sale with the stamp of a sync nothing has disturbed is still listed.    *)
Rounds ==
  \A a \in User :
    /\ round[a].listed \subseteq 1 .. posted[a] /\ shop[a] \subseteq 1 .. posted[a] /\ round[a].id <= ids
    /\ round[a].whole => /\ round[a].listed \subseteq shop[a]
                         /\ \A s \in Sale : sales[a][s] = round[a].id => s \in shop[a]
Stamps == \A a \in User, s \in Sale : sales[a][s] # None => sales[a][s] <= ids

SyncInv == Alone(queue) /\ WaitingOk /\ WorkOk /\ Rounds /\ Stamps

(* The sales listed after one, of those of a shop, and of one that has more. *)
LEMMA CountNewer ==
  ASSUME NEW S \in SUBSET Sale, NEW T \in SUBSET Sale, S \subseteq T, NEW s
  PROVE  /\ Cardinality({t \in S : t > s}) \in Nat /\ Cardinality({t \in T : t > s}) \in Nat
         /\ Cardinality({t \in S : t > s}) <= Cardinality({t \in T : t > s})
<1>1. IsFiniteSet(Sale)
  BY FS_Interval, BoundsAssumption DEF Sale
<1>2. IsFiniteSet({t \in S : t > s}) /\ IsFiniteSet({t \in T : t > s}) /\ {t \in S : t > s} \subseteq {t \in T : t > s}
  BY <1>1, FS_Subset
<1> QED
  BY <1>2, FS_CardinalityType, FS_Subset

(* Of the sales of a shop, one has fewer newer ones than there are.          *)
LEMMA FewerNewer ==
  ASSUME NEW S \in SUBSET Sale, NEW s \in S
  PROVE  Cardinality({t \in S : t > s}) < Cardinality(S) /\ Cardinality(S) \in Nat
<1>1. IsFiniteSet(S) /\ S \subseteq Int
  <2>1. IsFiniteSet(Sale) /\ Sale \subseteq Int
    BY FS_Interval, BoundsAssumption DEF Sale
  <2> QED
    BY <2>1, FS_Subset
<1>2. {t \in S : t > s} \subseteq S \ {s}
  BY <1>1
<1>3. /\ IsFiniteSet(S \ {s}) /\ Cardinality(S \ {s}) = Cardinality(S) - 1 /\ Cardinality(S) \in Nat
      /\ Cardinality({t \in S : t > s}) \in Nat
      /\ Cardinality({t \in S : t > s}) <= Cardinality(S \ {s})
  BY <1>1, <1>2, FS_RemoveElement, FS_Subset, FS_CardinalityType
<1> QED
  BY <1>3

(* An entry put at either end: where it is, and where the others are then.   *)
PutAt(q, p, e, n) == n = [q EXCEPT ![p] = Append(@, e)] \/ n = [q EXCEPT ![p] = <<e>> \o @]
Placed(q, p, e, n, k) ==
  \A r \in Priority : \A i \in 1 .. Len(n[r]) :
    \/ r = p /\ i = (IF k = 0 THEN Len(q[p]) + 1 ELSE 1) /\ n[r][i] = e
    \/ \E j \in 1 .. Len(q[r]) : n[r][i] = q[r][j] /\ i = IF r = p THEN j + k ELSE j
LEMMA PutPlaces ==
  ASSUME NEW q \in [Priority -> Seq(Element)], NEW p \in Priority, NEW e \in Element,
         NEW n, PutAt(q, p, e, n)
  PROVE  /\ \E k \in {0, 1} : Placed(q, p, e, n, k)
         /\ \A f : In(n, f) <=> f = e \/ In(q, f)
<1>1. \A r \in Priority : q[r] \in Seq(Element) /\ Len(q[r]) \in Nat
  OBVIOUS
<1>2. PICK k \in {0, 1} : \A r \in Priority, i \in Nat : i \in 1 .. Len(n[r]) =>
          \/ r # p /\ i \in 1 .. Len(q[r]) /\ n[r][i] = q[r][i]
          \/ r = p /\ i = (IF k = 0 THEN Len(q[p]) + 1 ELSE 1) /\ n[r][i] = e
          \/ r = p /\ i - k \in 1 .. Len(q[p]) /\ n[r][i] = q[p][i - k]
  <2>1. CASE n = [q EXCEPT ![p] = Append(@, e)]
    <3>1. Len(Append(q[p], e)) = Len(q[p]) + 1
      BY <1>1
    <3>2. \A i \in 1 .. Len(q[p]) + 1 : Append(q[p], e)[i] = IF i = Len(q[p]) + 1 THEN e ELSE q[p][i]
      BY <1>1
    <3>3. \A r \in Priority, i \in Nat : i \in 1 .. Len(n[r]) =>
            \/ r # p /\ i \in 1 .. Len(q[r]) /\ n[r][i] = q[r][i]
            \/ r = p /\ i = Len(q[p]) + 1 /\ n[r][i] = e
            \/ r = p /\ i \in 1 .. Len(q[p]) /\ n[r][i] = q[p][i]
      BY <1>1, <2>1, <3>1, <3>2
    <3>4. WITNESS 0 \in {0, 1}
    <3> QED
      BY <3>3
  <2>2. CASE n = [q EXCEPT ![p] = <<e>> \o @]
    <3>1. /\ Len(<<e>> \o q[p]) = Len(q[p]) + 1 /\ (<<e>> \o q[p])[1] = e
          /\ \A i \in 2 .. Len(q[p]) + 1 : (<<e>> \o q[p])[i] = q[p][i - 1]
      BY <1>1
    <3>2. \A r \in Priority, i \in Nat : i \in 1 .. Len(n[r]) =>
            \/ r # p /\ i \in 1 .. Len(q[r]) /\ n[r][i] = q[r][i]
            \/ r = p /\ i = 1 /\ n[r][i] = e
            \/ r = p /\ i - 1 \in 1 .. Len(q[p]) /\ n[r][i] = q[p][i - 1]
      BY <1>1, <2>2, <3>1
    <3>3. WITNESS 1 \in {0, 1}
    <3> QED
      BY <3>2
  <2> QED
    BY <2>1, <2>2 DEF PutAt
<1>3. n[p] \in Seq(Element) /\ \A r \in Priority : Len(n[r]) \in Nat
  <2>1. Append(q[p], e) \in Seq(Element) /\ <<e>> \o q[p] \in Seq(Element)
    BY <1>1
  <2>2. n[p] \in Seq(Element) /\ \A r \in Priority \ {p} : n[r] = q[r]
    BY <2>1 DEF PutAt
  <2>3. Len(n[p]) \in Nat
    BY <2>2
  <2> QED
    BY <1>1, <2>2, <2>3
<1>4. ASSUME NEW r \in Priority, NEW i \in 1 .. Len(n[r])
      PROVE  \/ r = p /\ i = (IF k = 0 THEN Len(q[p]) + 1 ELSE 1) /\ n[r][i] = e
             \/ \E j \in 1 .. Len(q[r]) : n[r][i] = q[r][j] /\ i = IF r = p THEN j + k ELSE j
  <2>1. i \in Nat
    BY <1>3
  <2>2. \/ r # p /\ i \in 1 .. Len(q[r]) /\ n[r][i] = q[r][i]
        \/ r = p /\ i = (IF k = 0 THEN Len(q[p]) + 1 ELSE 1) /\ n[r][i] = e
        \/ r = p /\ i - k \in 1 .. Len(q[p]) /\ n[r][i] = q[p][i - k]
    BY <1>2, <2>1
  <2>3. ASSUME r = p, i - k \in 1 .. Len(q[p]), n[r][i] = q[p][i - k]
        PROVE  \E j \in 1 .. Len(q[r]) : n[r][i] = q[r][j] /\ i = IF r = p THEN j + k ELSE j
    <3>1. i = (i - k) + k
      BY <2>1
    <3> QED
      BY <2>3, <3>1
  <2> QED
    BY <2>2, <2>3
<1>5. \A f : In(n, f) => f = e \/ In(q, f)
  BY <1>4 DEF In
<1>6. ASSUME NEW f, f = e \/ In(q, f)
      PROVE  In(n, f)
  <2>1. CASE n = [q EXCEPT ![p] = Append(@, e)]
    <3>1. /\ n[p] = Append(q[p], e) /\ Len(n[p]) = Len(q[p]) + 1
          /\ \A i \in 1 .. Len(q[p]) + 1 : n[p][i] = IF i = Len(q[p]) + 1 THEN e ELSE q[p][i]
      BY <1>1, <2>1
    <3>2. \A r \in Priority : \A i \in 1 .. Len(q[r]) : i \in 1 .. Len(n[r]) /\ n[r][i] = q[r][i]
      BY <1>1, <2>1, <3>1
    <3>3. Len(q[p]) + 1 \in 1 .. Len(n[p]) /\ n[p][Len(q[p]) + 1] = e
      BY <1>1, <3>1
    <3> QED
      BY <1>6, <3>2, <3>3 DEF In
  <2>2. CASE n = [q EXCEPT ![p] = <<e>> \o @]
    <3>1. /\ n[p] = <<e>> \o q[p] /\ Len(n[p]) = Len(q[p]) + 1 /\ n[p][1] = e
          /\ \A i \in 1 .. Len(q[p]) : n[p][i + 1] = q[p][i]
      BY <1>1, <2>2
    <3>2. \A r \in Priority : \A i \in 1 .. Len(q[r]) : \E j \in 1 .. Len(n[r]) : n[r][j] = q[r][i]
      <4> SUFFICES ASSUME NEW r \in Priority, NEW i \in 1 .. Len(q[r])
                   PROVE  \E j \in 1 .. Len(n[r]) : n[r][j] = q[r][i]
        OBVIOUS
      <4>1. CASE r = p
        <5>1. i + 1 \in 1 .. Len(n[p]) /\ n[p][i + 1] = q[p][i]
          BY <1>1, <3>1, <4>1
        <5> QED
          BY <4>1, <5>1
      <4>2. CASE r # p
        BY <2>2, <4>2
      <4> QED
        BY <4>1, <4>2
    <3>3. 1 \in 1 .. Len(n[p]) /\ n[p][1] = e
      BY <1>1, <3>1
    <3> QED
      BY <1>6, <3>2, <3>3 DEF In
  <2> QED
    BY <2>1, <2>2 DEF PutAt
<1>7. Placed(q, p, e, n, k)
  BY <1>4 DEF Placed
<1> QED
  BY <1>5, <1>6, <1>7

(* No two entries of a sync.                                                 *)
LEMMA PutAlone ==
  ASSUME NEW q \in [Priority -> Seq(Element)], Alone(q), NEW p \in Priority, NEW e \in Element,
         IsSync(e) /\ e.id # 0 => NoneHas(q, e.id),
         NEW n, n = [q EXCEPT ![p] = Append(@, e)] \/ n = [q EXCEPT ![p] = <<e>> \o @]
  PROVE  Alone(n) /\ \A f : In(n, f) => f = e \/ In(q, f)
<1>1. PICK k \in {0, 1} : Placed(q, p, e, n, k)
  <2>1. PutAt(q, p, e, n)
    BY DEF PutAt
  <2> QED
    BY <2>1, PutPlaces
<1>2. ASSUME NEW r \in Priority, NEW i \in 1 .. Len(n[r])
      PROVE  \/ r = p /\ i = (IF k = 0 THEN Len(q[p]) + 1 ELSE 1) /\ n[r][i] = e
             \/ \E j \in 1 .. Len(q[r]) : n[r][i] = q[r][j] /\ i = IF r = p THEN j + k ELSE j
  BY <1>1 DEF Placed
<1>3. Alone(n)
  <2> SUFFICES ASSUME NEW r \in Priority, NEW v \in Priority, NEW i \in 1 .. Len(n[r]), NEW j \in 1 .. Len(n[v]),
                      SyncId(n[r][i]) # 0, SyncId(n[r][i]) = SyncId(n[v][j])
               PROVE  r = v /\ i = j
    BY DEF Alone
  <2>1. SyncId(e) # 0 => IsSync(e) /\ e.id # 0 /\ SyncId(e) = e.id
    BY DEF SyncId
  <2>2. SyncId(e) # 0 => \A w \in Priority : \A m \in 1 .. Len(q[w]) : SyncId(q[w][m]) # SyncId(e)
    BY <2>1 DEF NoneHas
  <2>3. CASE \E m \in 1 .. Len(q[r]) : n[r][i] = q[r][m] /\ i = IF r = p THEN m + k ELSE m
    <3>1. PICK m \in 1 .. Len(q[r]) : n[r][i] = q[r][m] /\ i = IF r = p THEN m + k ELSE m
      BY <2>3
    <3>2. n[v][j] # e
      BY <2>2, <3>1
    <3>3. PICK l \in 1 .. Len(q[v]) : n[v][j] = q[v][l] /\ j = IF v = p THEN l + k ELSE l
      BY <1>2, <3>2
    <3> QED
      BY <3>1, <3>3 DEF Alone
  <2>4. CASE r = p /\ i = (IF k = 0 THEN Len(q[p]) + 1 ELSE 1) /\ n[r][i] = e
    <3>1. ~\E l \in 1 .. Len(q[v]) : n[v][j] = q[v][l]
      BY <2>2, <2>4
    <3> QED
      BY <1>2, <2>4, <3>1
  <2> QED
    BY <1>2, <2>3, <2>4
<1>4. \A f : In(n, f) => f = e \/ In(q, f)
  BY <1>2 DEF In
<1> QED
  BY <1>3, <1>4

(* The first entry taken.                                                    *)
LEMMA TakeAlone ==
  ASSUME NEW q \in [Priority -> Seq(Element)], Alone(q), NEW p \in Priority, q[p] # <<>>,
         NEW n, n = [q EXCEPT ![p] = Tail(@)], NEW e, e = Head(q[p])
  PROVE  /\ Alone(n) /\ \A f : In(n, f) => In(q, f)
         /\ In(q, e) /\ \A id : id # 0 /\ SyncId(e) = id => NoneHas(n, id)
<1>1. /\ q[p] \in Seq(Element) /\ Len(q[p]) \in Nat /\ Len(q[p]) > 0 /\ Len(Tail(q[p])) = Len(q[p]) - 1
      /\ \A i \in 1 .. Len(q[p]) - 1 : Tail(q[p])[i] = q[p][i + 1]
  OBVIOUS
<1>2. \A r \in Priority, i \in Nat : i \in 1 .. Len(n[r]) =>
        \/ r # p /\ i \in 1 .. Len(q[r]) /\ n[r][i] = q[r][i]
        \/ r = p /\ i + 1 \in 1 .. Len(q[p]) /\ n[r][i] = q[p][i + 1]
  BY <1>1
<1>3. 1 \in 1 .. Len(q[p]) /\ q[p][1] = e
  BY <1>1
<1>4. ASSUME NEW r \in Priority, NEW i \in 1 .. Len(n[r])
      PROVE  \E j \in 1 .. Len(q[r]) : n[r][i] = q[r][j] /\ j = IF r = p THEN i + 1 ELSE i
  BY <1>1, <1>2
<1>5. Alone(n)
  <2> SUFFICES ASSUME NEW r \in Priority, NEW v \in Priority, NEW i \in 1 .. Len(n[r]), NEW j \in 1 .. Len(n[v]),
                      SyncId(n[r][i]) # 0, SyncId(n[r][i]) = SyncId(n[v][j])
               PROVE  r = v /\ i = j
    BY DEF Alone
  <2>1. PICK m \in 1 .. Len(q[r]) : n[r][i] = q[r][m] /\ m = IF r = p THEN i + 1 ELSE i
    BY <1>4
  <2>2. PICK l \in 1 .. Len(q[v]) : n[v][j] = q[v][l] /\ l = IF v = p THEN j + 1 ELSE j
    BY <1>4
  <2> QED
    BY <2>1, <2>2 DEF Alone
<1>6. \A id : id # 0 /\ SyncId(e) = id => NoneHas(n, id)
  <2> SUFFICES ASSUME SyncId(e) # 0, NEW r \in Priority, NEW i \in 1 .. Len(n[r])
               PROVE  SyncId(n[r][i]) # SyncId(e)
    BY DEF NoneHas
  <2>1. PICK m \in 1 .. Len(q[r]) : n[r][i] = q[r][m] /\ m = IF r = p THEN i + 1 ELSE i
    BY <1>4
  <2>2. r = p => m # 1
    BY <1>1, <2>1
  <2> QED
    BY <1>3, <2>1, <2>2 DEF Alone
<1>7. \A f : In(n, f) => In(q, f)
  BY <1>4 DEF In
<1> QED
  BY <1>3, <1>5, <1>6, <1>7 DEF In

(* What a queue holds, entry by entry.                                       *)
LEMMA NoneIn ==
  ASSUME NEW q, NEW id
  PROVE  NoneHas(q, id) <=> \A f : In(q, f) => SyncId(f) # id
<1>1. NoneHas(q, id) => \A f : In(q, f) => SyncId(f) # id
  BY DEF NoneHas, In
<1>2. (\A f : In(q, f) => SyncId(f) # id) => NoneHas(q, id)
  <2> SUFFICES ASSUME \A f : In(q, f) => SyncId(f) # id, NEW p \in Priority, NEW i \in 1 .. Len(q[p])
               PROVE  SyncId(q[p][i]) # id
    BY DEF NoneHas
  <2>1. In(q, q[p][i])
    BY DEF In
  <2> QED
    BY <2>1
<1> QED
  BY <1>1, <1>2

(* What is in a queue is an entry.                                           *)
LEMMA InElement ==
  ASSUME NEW q \in [Priority -> Seq(Element)], NEW f, In(q, f)
  PROVE  f \in Element
<1>1. PICK p \in Priority : \E i \in 1 .. Len(q[p]) : q[p][i] = f
  BY DEF In
<1>2. q[p] \in Seq(Element)
  OBVIOUS
<1> QED
  BY <1>1, <1>2

(* What keeps an entry as it should be: its id is not stamped, and what it   *)
(* has read of an undisturbed sync stays as it was.                          *)
Kept(a, id) ==
  /\ \A s \in Sale : sales'[a][s] = id => \E t \in Sale : sales[a][t] = id
  /\ round'[a].whole /\ round'[a].id = id =>
       /\ round[a].whole /\ round[a].id = id /\ round'[a].listed = round[a].listed
       /\ shop[a] \subseteq shop'[a] /\ \A s \in round[a].listed : sales[a][s] = id => sales'[a][s] = id

(* A sale never has fewer newer ones as long as none is delisted.            *)
LEMMA NewerGrows ==
  ASSUME TypeInv, TypeInv', NEW a \in User, NEW s, shop[a] \subseteq shop'[a]
  PROVE  /\ Cardinality({t \in shop[a] : t > s}) \in Nat /\ Cardinality({t \in shop'[a] : t > s}) \in Nat
         /\ Cardinality({t \in shop[a] : t > s}) <= Cardinality({t \in shop'[a] : t > s})
<1>1. shop[a] \in SUBSET Sale /\ shop'[a] \in SUBSET Sale
  BY DEF TypeInv, Types
<1> QED
  BY <1>1, CountNewer

(* What has been read of a sync stays so, up to the same page.               *)
LEMMA ReadToKept ==
  ASSUME TypeInv, TypeInv', NEW a \in User, NEW n \in Int, ReadTo(a, n), shop[a] \subseteq shop'[a],
         round'[a].listed = round[a].listed, round'[a].id = round[a].id,
         \A s \in round[a].listed : sales[a][s] = round[a].id => sales'[a][s] = round[a].id
  PROVE  ReadTo(a, n)'
<1> SUFFICES ASSUME NEW s \in round[a].listed, Cardinality({t \in shop'[a] : t > s}) < n * PageSize
             PROVE  sales'[a][s] = round[a].id
  BY DEF ReadTo, Newer
<1>1. n * PageSize \in Int
  <2>1. PageSize \in Int
    BY BoundsAssumption
  <2> QED
    BY <2>1
<1>2. Cardinality({t \in shop[a] : t > s}) < n * PageSize
  <2>1. /\ Cardinality({t \in shop[a] : t > s}) \in Nat /\ Cardinality({t \in shop'[a] : t > s}) \in Nat
        /\ Cardinality({t \in shop[a] : t > s}) <= Cardinality({t \in shop'[a] : t > s})
    BY NewerGrows
  <2> QED
    BY <1>1, <2>1
<1> QED
  BY <1>2 DEF ReadTo, Newer

(* An entry that is kept stays in order.                                     *)
LEMMA OkKept ==
  ASSUME TypeInv, TypeInv', NEW e \in Element, NEW id \in Nat, Ok(e, id), ids <= ids', id # 0 => Kept(e.auth, id)
  PROVE  Ok(e, id)'
<1>1. e.auth \in User /\ e.page \in Nat /\ e.page - 1 \in Int /\ ids \in Nat /\ ids' \in Nat
  BY DEF Element, TypeInv, Types
<1>2. id # 0 /\ Fresh(e.auth, id) => Fresh(e.auth, id)'
  BY DEF Fresh, Kept
<1>3. id # 0 /\ Whole(e.auth, id)' /\ ReadTo(e.auth, e.page - 1) => ReadTo(e.auth, e.page - 1)'
  BY <1>1, ReadToKept DEF Whole, Kept
<1>4. id # 0 /\ Whole(e.auth, id)' => Whole(e.auth, id)
  BY DEF Whole, Kept
<1> QED
  BY <1>1, <1>2, <1>3, <1>4 DEF Ok

(* An entry is put into the queue.                                           *)
Put(e) ==
  \E p \in Priority : queue' = [queue EXCEPT ![p] = Append(@, e)] \/ queue' = [queue EXCEPT ![p] = <<e>> \o @]
(* The queue stays in order when the entry is.                               *)
LEMMA PutKept ==
  ASSUME TypeInv, Alone(queue), WaitingOk,
         \A f \in Element : In(queue, f) /\ Ok(f, f.id) => Ok(f, f.id)',
         NEW e \in Element, queue' = queue \/ (Put(e) /\ Ok(e, e.id)' /\ (IsSync(e) /\ e.id # 0 => NoneHas(queue, e.id)))
  PROVE  /\ Alone(queue') /\ WaitingOk'
         /\ \A id \in Nat : id # 0 /\ SyncId(e) # id /\ NoneHas(queue, id) => NoneHas(queue', id)
<1>1. queue \in [Priority -> Seq(Element)]
  BY DEF TypeInv, Types
<1>2. Alone(queue') /\ \A f : In(queue', f) => (f = e /\ Ok(e, e.id)') \/ In(queue, f)
  <2>1. CASE queue' = queue
    BY <2>1
  <2>2. CASE queue' # queue
    BY <1>1, <2>2, PutAlone DEF Put
  <2> QED
    BY <2>1, <2>2
<1>3. WaitingOk'
  <2> SUFFICES ASSUME NEW f \in Element, In(queue', f)
               PROVE  Ok(f, f.id)'
    BY DEF WaitingOk
  <2> QED
    BY <1>2 DEF WaitingOk
<1>4. \A id \in Nat : id # 0 /\ SyncId(e) # id /\ NoneHas(queue, id) => NoneHas(queue', id)
  BY <1>2, NoneIn
<1> QED
  BY <1>2, <1>3, <1>4

(* Nothing is read, stamped or listed.                                       *)
Settled ==
  /\ UNCHANGED <<sales, shop, posted, ids>>
  /\ \A a \in User : round'[a].id = round[a].id /\ round'[a].listed = round[a].listed /\ round'[a].whole = round[a].whole

(* Then every entry in order stays in order.                                 *)
LEMMA SettledKept ==
  ASSUME TypeInv, TypeInv', SyncInv, Settled
  PROVE  /\ Rounds' /\ Stamps' /\ \A e \in Element, id \in Nat : Ok(e, id) => Ok(e, id)'
         /\ \A f \in Element : In(queue, f) /\ Ok(f, f.id) => Ok(f, f.id)'
<1>1. Rounds' /\ Stamps'
  BY DEF Settled, SyncInv, Rounds, Stamps
<1>2. ASSUME NEW e \in Element, NEW id \in Nat, Ok(e, id)
      PROVE  Ok(e, id)'
  <2>1. e.auth \in User
    BY DEF Element
  <2>2. ids <= ids' /\ Kept(e.auth, id)
    BY <2>1 DEF Settled, Kept, TypeInv, Types
  <2> QED
    BY <1>2, <2>2, OkKept
<1>3. \A f \in Element : f.id \in Nat
  BY DEF Element
<1> QED
  BY <1>1, <1>2, <1>3

(* What Enqueue does with an entry.                                          *)
LEMMA EnsurePuts ==
  ASSUME NEW e \in Element, Ensure(e) \/ Accept(e)
  PROVE  queue' = queue \/ Put(e)
BY DEF Ensure, Accept, Put, Element

(* The first page of a sync that has not begun, and what is no sync at all.  *)
LEMMA NewOk ==
  ASSUME TypeInv, NEW e \in Element, ~IsSync(e) \/ (e.id = 0 /\ e.page = 1)
  PROVE  Ok(e, e.id) /\ SyncId(e) = 0
BY DEF Ok, SyncId, TypeInv, Types

(* Steps that leave the worker idle, or about to save.                       *)
LEMMA RestingKept ==
  ASSUME TypeInv, TypeInv', SyncInv,
         \/ Skip \/ LinkSales \/ SaveAdjusted \/ SaveSync \/ Refused
         \/ RateLimit \/ Requeue \/ NextPage \/ EnqueueLink \/ AdjustSales
  PROVE  SyncInv'
<1> DEFINE w == work.entry
<1>1. /\ w \in Element /\ w.auth \in User /\ w.id \in Nat /\ w.page \in Nat /\ work.id \in Nat /\ w.prio \in Priority
      /\ w.kind \in Kind /\ w.force \in BOOLEAN
      /\ work \in WorkRecord /\ round \in [User -> Round] /\ ids \in Nat /\ ids' \in Nat
      /\ work.pc \in {"sync", "synced", "cleaned", "save"} => IsSync(w)
  BY DEF TypeInv, Types, Loaded, Element, WorkRecord, IsSync, Skip, LinkSales, SaveAdjusted, SaveSync, Refused,
         RateLimit, Requeue, NextPage, EnqueueLink, AdjustSales
<1>2. Settled
  <2>1. CASE SaveSync
    <3>1. PICK b \in BOOLEAN : round' = [round EXCEPT ![w.auth].sound = b]
      BY <1>1, <2>1 DEF SaveSync, Round
    <3> QED
      BY <1>1, <2>1, <3>1, RoundChanges DEF Settled, SaveSync, Round
  <2>2. CASE ~SaveSync
    BY <2>2 DEF Settled, Skip, LinkSales, SaveAdjusted, Refused, RateLimit, Requeue, NextPage, EnqueueLink, AdjustSales, store
  <2> QED
    BY <2>1, <2>2
<1>3. Alone(queue) /\ WaitingOk /\ WorkOk
  BY DEF SyncInv
<1>4. /\ Rounds' /\ Stamps' /\ \A e \in Element, id \in Nat : Ok(e, id) => Ok(e, id)'
      /\ \A f \in Element : In(queue, f) /\ Ok(f, f.id) => Ok(f, f.id)'
  BY <1>2, SettledKept
<1>5. WorkOk'
  <2>1. work'.pc \in {"idle", "save", "adjusted"}
    BY <1>1, IdleTypes DEF Skip, LinkSales, SaveAdjusted, SaveSync, Refused, RateLimit, Requeue, NextPage,
         EnqueueLink, AdjustSales, Done, WorkRecord
  <2> QED
    BY <2>1 DEF WorkOk
<1>6. ASSUME NEW e \in Element,
             queue' = queue \/ (Put(e) /\ Ok(e, e.id)' /\ (IsSync(e) /\ e.id # 0 => NoneHas(queue, e.id)))
      PROVE  SyncInv'
  <2>1. Alone(queue') /\ WaitingOk'
    BY <1>3, <1>4, <1>6, PutKept
  <2> QED
    BY <1>4, <1>5, <2>1 DEF SyncInv
<1>7. CASE Skip \/ LinkSales \/ SaveAdjusted \/ SaveSync \/ Refused
  BY <1>1, <1>6, <1>7 DEF Skip, LinkSales, SaveAdjusted, SaveSync, Refused
<1>8. ASSUME work.pc = "sync"
      PROVE  /\ work.id # 0 /\ Ok(w, work.id) /\ (w.id = work.id \/ (w.id = 0 /\ w.page = 1))
             /\ NoneHas(queue, work.id)
  BY <1>1, <1>3, <1>8 DEF WorkOk
<1>9. CASE RateLimit
  <2>1. work.pc = "sync" /\ Put(w)
    BY <1>1, <1>9 DEF RateLimit, Put
  <2>2. Ok(w, w.id)
    BY <1>1, <1>8, <2>1, NewOk
  <2> QED
    BY <1>1, <1>4, <1>6, <1>8, <2>1, <2>2
<1>10. CASE Requeue
  <2>1. work.pc = "sync" /\ [w EXCEPT !.id = work.id] \in Element
    BY <1>1, <1>10, Fields DEF Requeue
  <2>2. PICK e \in Element : e = [w EXCEPT !.id = work.id]
    BY <2>1
  <2>3. /\ e.prio \in Priority /\ e.id \in Nat
        /\ e.id = work.id /\ e.kind = w.kind /\ e.page = w.page /\ e.auth = w.auth
    BY <1>1, <2>2 DEF Element
  <2>4. Put(e)
    BY <1>10, <2>2, <2>3 DEF Put, Requeue
  <2>5. Ok(e, e.id) /\ NoneHas(queue, e.id)
    BY <1>8, <2>1, <2>3 DEF Ok, IsSync
  <2> QED
    BY <1>4, <1>6, <2>3, <2>4, <2>5
<1>11. CASE NextPage
  <2> DEFINE e == Sync(w.kind, w.auth, w.page + 1, work.id, w.force, "UNSET")
  <2>1. /\ e \in Element /\ e.kind = w.kind /\ e.auth = w.auth /\ e.page = w.page + 1 /\ e.id = work.id
    BY <1>1 DEF Sync, Element, Priority
  <2>2. work.pc = "synced" /\ ~work.last /\ Ensure(e)
    BY <1>11 DEF NextPage
  <2> HIDE DEF e
  <2>3. Read(w, work.id) /\ (work.id # 0 => NoneHas(queue, work.id))
    BY <1>1, <1>3, <2>2 DEF WorkOk
  <2>4. e.page - 1 = w.page
    BY <1>1, <2>1
  <2>5. Ok(e, e.id) /\ e.id \in Nat
    BY <1>1, <2>1, <2>2, <2>3, <2>4 DEF Ok, Read, Whole, IsSync
  <2>6. NoneHas(queue, e.id)
    BY <1>1, <2>1, <2>3 DEF Read
  <2>7. queue' = queue \/ Put(e)
    BY <2>1, <2>2, EnsurePuts
  <2> QED
    BY <1>4, <1>6, <2>1, <2>5, <2>6, <2>7
<1>12. CASE EnqueueLink
  <2> DEFINE e == Link(w.auth, work.id)
  <2>1. e \in Element /\ e.kind = "link" /\ e.id \in Nat
    BY <1>1 DEF Link, Sync, Element, Kind, Priority
  <2>2. Ensure(e)
    BY <1>12 DEF EnqueueLink
  <2> HIDE DEF e
  <2>3. ~IsSync(e) /\ Ok(e, e.id)
    BY <2>1, NewOk DEF IsSync
  <2>4. queue' = queue \/ Put(e)
    BY <2>1, <2>2, EnsurePuts
  <2> QED
    BY <1>4, <1>6, <2>1, <2>3, <2>4
<1>13. CASE AdjustSales
  <2> DEFINE e == Sync("refresh", w.auth, 1, 0, TRUE, "UNSET")
  <2>1. e \in Element /\ e.id = 0 /\ e.page = 1
    BY <1>1 DEF Sync, Element, Kind, Priority
  <2>2. queue' = queue \/ Ensure(e)
    BY <1>13 DEF AdjustSales
  <2> HIDE DEF e
  <2>3. Ok(e, e.id)
    BY <2>1, NewOk
  <2>4. queue' = queue \/ Put(e)
    BY <2>1, <2>2, EnsurePuts
  <2> QED
    BY <1>4, <1>6, <2>1, <2>3, <2>4
<1> QED
  BY <1>7, <1>9, <1>10, <1>11, <1>12, <1>13

(* An entry taken.                                                           *)
LEMMA TakeKept ==
  ASSUME TypeInv, TypeInv', SyncInv, NEW p \in Priority, Take(p)
  PROVE  SyncInv'
<1>1. queue \in [Priority -> Seq(Element)] /\ queue[p] # <<>> /\ queue' = [queue EXCEPT ![p] = Tail(@)]
  BY DEF TypeInv, Types, Take
<1>2. PICK e : e = Head(queue[p])
  OBVIOUS
<1>3. e \in Element /\ e.id \in Nat
  <2>1. queue[p] \in Seq(Element)
    BY <1>1
  <2>2. e \in Element
    BY <1>1, <1>2, <2>1
  <2> QED
    BY <2>2 DEF Element
<1>4. /\ Alone(queue') /\ \A f : In(queue', f) => In(queue, f)
      /\ In(queue, e) /\ \A id : id # 0 /\ SyncId(e) = id => NoneHas(queue', id)
  <2>1. Alone(queue)
    BY DEF SyncInv
  <2> QED
    BY <1>1, <1>2, <2>1, TakeAlone, ZenonT(60)
<1>5. /\ Rounds' /\ Stamps' /\ \A f \in Element, id \in Nat : Ok(f, id) => Ok(f, id)'
  <2>1. Settled
    BY DEF Take, Settled, store
  <2> QED
    BY <2>1, SettledKept
<1>6. WaitingOk'
  <2> SUFFICES ASSUME NEW f \in Element, In(queue', f)
               PROVE  Ok(f, f.id)'
    BY DEF WaitingOk
  <2>1. Ok(f, f.id) /\ f.id \in Nat
    BY <1>4 DEF SyncInv, WaitingOk, Element
  <2> QED
    BY <1>5, <2>1
<1>7. work'.pc = "loaded" /\ work'.entry = e /\ work'.id = e.id
  BY <1>2 DEF Take
<1>8. Ok(e, e.id)'
  BY <1>3, <1>4, <1>5 DEF SyncInv, WaitingOk
<1>9. WorkOk'
  BY <1>4, <1>7, <1>8 DEF WorkOk, SyncId
<1> QED
  BY <1>4, <1>5, <1>6, <1>9 DEF SyncInv

(* Sales are stamped: those of a page, or of a part of it.                   *)
LEMMA StampKept ==
  ASSUME TypeInv, TypeInv', SyncInv, UNCHANGED <<shop, posted, ids, queue>>,
         NEW a \in User, NEW id \in Nat, id # 0, id <= ids, NoneHas(queue, id),
         NEW S, S \subseteq shop[a], Stamp(a, S, id),
         \A b \in User : /\ round'[b].id = round[b].id /\ round'[b].listed = round[b].listed
                         /\ round'[b].whole => round[b].whole /\ (b = a => round[a].id = id)
  PROVE  Alone(queue') /\ WaitingOk' /\ Rounds' /\ Stamps'
<1>1. /\ sales \in [User -> [Sale -> Nat \cup {None}]] /\ shop \in [User -> SUBSET Sale]
      /\ ids \in Nat /\ round \in [User -> Round]
  BY DEF TypeInv, Types
<1>2. \A b \in User, s \in Sale : sales'[b][s] = IF b = a /\ s \in S THEN id ELSE sales[b][s]
  BY <1>1 DEF Stamp
<1>3. Rounds' /\ Stamps'
  <2>1. Stamps'
    BY <1>1, <1>2 DEF SyncInv, Stamps
  <2>2. ASSUME NEW b \in User
        PROVE  /\ round'[b].listed \subseteq 1 .. posted'[b] /\ shop'[b] \subseteq 1 .. posted'[b] /\ round'[b].id <= ids'
               /\ round'[b].whole => /\ round'[b].listed \subseteq shop'[b]
                                     /\ \A s \in Sale : sales'[b][s] = round'[b].id => s \in shop'[b]
    <3>1. /\ round[b].listed \subseteq 1 .. posted[b] /\ shop[b] \subseteq 1 .. posted[b] /\ round[b].id <= ids
          /\ round[b].whole => /\ round[b].listed \subseteq shop[b]
                               /\ \A s \in Sale : sales[b][s] = round[b].id => s \in shop[b]
      BY DEF SyncInv, Rounds
    <3> QED
      BY <1>1, <1>2, <3>1
  <2> QED
    BY <2>1, <2>2 DEF Rounds
<1>4. ASSUME NEW e \in Element, NEW f \in Nat, f # id, Ok(e, f)
      PROVE  Ok(e, f)'
  <2>1. e.auth \in User
    BY DEF Element
  <2>2. f # 0 => Kept(e.auth, f)
    <3>1. \A s \in Sale : sales'[e.auth][s] = f => sales[e.auth][s] = f
      BY <1>2, <1>4, <2>1
    <3>2. round'[e.auth].whole /\ round'[e.auth].id = f => e.auth # a /\ round[e.auth].whole
      BY <1>4, <2>1
    <3>3. e.auth # a => \A s \in Sale : sales'[e.auth][s] = sales[e.auth][s]
      BY <1>2, <2>1
    <3>4. round[e.auth].listed \subseteq Sale
      BY <1>1, <2>1 DEF Round
    <3> QED
      BY <2>1, <3>1, <3>2, <3>3, <3>4 DEF Kept
  <2> QED
    BY <1>1, <1>4, <2>2, OkKept
<1>5. WaitingOk'
  <2> SUFFICES ASSUME NEW f \in Element, In(queue, f)
               PROVE  Ok(f, f.id)'
    BY DEF WaitingOk
  <2>1. SyncId(f) # id /\ f.id \in Nat /\ Ok(f, f.id)
    BY NoneIn DEF Element, SyncInv, WaitingOk
  <2>2. CASE IsSync(f)
    BY <1>4, <2>1, <2>2 DEF SyncId
  <2>3. CASE ~IsSync(f)
    BY <2>3 DEF Ok
  <2> QED
    BY <2>2, <2>3
<1> QED
  BY <1>3, <1>5 DEF SyncInv

(* A page read: with those before it, it covers what it should; the last one *)
(* covers everything.                                                        *)
LEMMA PageKept ==
  ASSUME TypeInv, TypeInv', SyncInv, SyncPage \/ Bury
  PROVE  SyncInv'
<1>1. PICK e \in Element, id \in Nat : work.entry = e /\ work.id = id
  BY DEF TypeInv, Types, Loaded, WorkRecord, SyncPage, Bury
<1>2. /\ e.auth \in User /\ e.page \in Nat /\ work \in WorkRecord /\ round \in [User -> Round] /\ ids \in Nat
      /\ sales \in [User -> [Sale -> Nat \cup {None}]] /\ shop \in [User -> SUBSET Sale] /\ IsSync(e)
      /\ work.pc = "sync"
  BY <1>1 DEF TypeInv, Types, Loaded, Element, IsSync, SyncPage, Bury
<1>3. id # 0 /\ Ok(e, id) /\ NoneHas(queue, id) /\ id <= ids
  BY <1>1, <1>2 DEF SyncInv, WorkOk, Ok
<1>4. UNCHANGED <<shop, posted, ids, queue>>
  BY DEF SyncPage, Bury
<1>5. Reached(e, work.user) \subseteq shop[e.auth]
  BY DEF Reached, PageOf
<1>6. \A b \in User : /\ round'[b].id = round[b].id /\ round'[b].listed = round[b].listed
                      /\ round'[b].whole => round[b].whole /\ (b = e.auth => round[e.auth].id = id)
  <2>1. Disturb(e.auth, id)
    BY <1>1 DEF SyncPage, Bury
  <2>2. \A b \in User : round'[b].id = round[b].id /\ round'[b].listed = round[b].listed /\ (round'[b].whole => round[b].whole)
    BY <1>2, <2>1, RoundChanges
  <2>3. round'[e.auth].whole => round[e.auth].id = id
    BY <1>2, <2>1, RoundChanges
  <2> QED
    BY <2>2, <2>3
<1>7. CASE Bury
  <2>1. PICK n : Stamp(e.auth, {s \in Reached(e, work.user) : s > MaxListings - n}, id)
    BY <1>1, <1>7 DEF Bury
  <2>2. {s \in Reached(e, work.user) : s > MaxListings - n} \subseteq shop[e.auth]
    BY <1>5
  <2>3. Alone(queue') /\ WaitingOk' /\ Rounds' /\ Stamps'
    BY <1>2, <1>3, <1>4, <1>6, <2>1, <2>2, StampKept
  <2>4. work'.pc = "idle"
    BY <1>7, IdleTypes DEF Bury, Done
  <2>5. WorkOk'
    BY <2>4 DEF WorkOk
  <2> QED
    BY <2>3, <2>5 DEF SyncInv
<1>8. CASE SyncPage
  <2>1. Stamp(e.auth, Reached(e, work.user), id)
    BY <1>1, <1>8 DEF SyncPage
  <2>2. Alone(queue') /\ WaitingOk' /\ Rounds' /\ Stamps'
    BY <1>2, <1>3, <1>4, <1>5, <1>6, <2>1, StampKept
  <2>3. /\ work'.pc = "synced" /\ work'.entry = e /\ work'.id = id
        /\ work'.last = (Stops(e, work.user) # {} \/ LastPage(e.auth, e.page))
    BY <1>1, <1>2, <1>8 DEF SyncPage, WorkRecord
  <2>4. ASSUME round'[e.auth].whole, NEW s \in round[e.auth].listed, ~work'.last \/ e.kind = "reconcile"
        PROVE  /\ Cardinality({t \in shop[e.auth] : t > s}) < e.page * PageSize => sales'[e.auth][s] = id
               /\ work'.last => sales'[e.auth][s] = id
    <3>1. s \in Sale /\ s \in shop[e.auth] /\ round[e.auth].whole /\ round[e.auth].id = id /\ shop[e.auth] \in SUBSET Sale
      BY <1>2, <1>6, <2>4 DEF SyncInv, Rounds, Round
    <3>2. Stops(e, work.user) = {}
      BY <2>3, <2>4 DEF Stops
    <3>3. Reached(e, work.user) = PageOf(e.auth, e.page)
      BY <3>2 DEF Reached
    <3>4. sales'[e.auth][s] = IF s \in PageOf(e.auth, e.page) THEN id ELSE sales[e.auth][s]
      BY <1>2, <2>1, <3>1, <3>3 DEF Stamp
    <3>5. Cardinality({t \in shop[e.auth] : t > s}) < (e.page - 1) * PageSize => sales[e.auth][s] = id
      BY <1>2, <1>3, <2>4, <3>1 DEF Ok, Whole, ReadTo, Newer
    <3>6. /\ Cardinality({t \in shop[e.auth] : t > s}) \in Nat
          /\ Cardinality({t \in shop[e.auth] : t > s}) < Cardinality(shop[e.auth]) /\ Cardinality(shop[e.auth]) \in Nat
      BY <3>1, FewerNewer, CountNewer
    <3>7. (e.page - 1) * PageSize \in Int /\ e.page * PageSize \in Int
      <4>1. PageSize \in Int /\ e.page \in Int /\ e.page - 1 \in Int
        BY <1>2, BoundsAssumption
      <4> QED
        BY <4>1
    <3>8. Cardinality({t \in shop[e.auth] : t > s}) < e.page * PageSize => sales'[e.auth][s] = id
      BY <3>1, <3>4, <3>5, <3>6, <3>7 DEF PageOf, Newer
    <3>9. work'.last => e.page * PageSize >= Cardinality(shop[e.auth])
      BY <2>3, <3>2 DEF LastPage
    <3> QED
      BY <3>6, <3>7, <3>8, <3>9
  <2>5. e.page >= 1
    BY <1>2, <1>3 DEF Ok
  <2>6. Read(e, id)'
    BY <1>2, <1>3, <1>4, <1>6, <2>4, <2>5 DEF Read, ReadTo, Newer
  <2>7. WorkOk'
    BY <1>3, <1>4, <2>3, <2>6 DEF WorkOk
  <2> QED
    BY <2>2, <2>7 DEF SyncInv
<1> QED
  BY <1>7, <1>8

(* The first page of a sync gives it an id no sale and no entry has.         *)
LEMMA BeginKept ==
  ASSUME TypeInv, TypeInv', SyncInv, BeginSync
  PROVE  SyncInv'
<1>1. PICK e \in Element : work.entry = e
  BY DEF TypeInv, Types, Loaded, BeginSync
<1>2. PICK id \in Nat : id = IF e.id = 0 THEN ids + 1 ELSE e.id
  <2>1. e.id \in Nat /\ ids \in Nat
    BY DEF TypeInv, Types, Element
  <2>2. (IF e.id = 0 THEN ids + 1 ELSE e.id) \in Nat
    BY <2>1
  <2> QED
    BY <2>2
<1>3. /\ e.auth \in User /\ e.page \in Nat /\ e.id \in Nat /\ IsSync(e)
      /\ work \in WorkRecord /\ round \in [User -> Round] /\ ids \in Nat /\ ids' \in Nat /\ work.id \in Nat
      /\ sales \in [User -> [Sale -> Nat \cup {None}]] /\ shop \in [User -> SUBSET Sale] /\ work.pc = "loaded"
  BY <1>1 DEF TypeInv, Types, Element, IsSync, WorkRecord, BeginSync
<1>4. work.id = e.id /\ Ok(e, e.id) /\ (e.id # 0 => NoneHas(queue, e.id))
  BY <1>1, <1>3 DEF SyncInv, WorkOk
<1>5. UNCHANGED <<sales, shop, posted, queue>>
  BY DEF BeginSync
<1>6. CASE e.page # 1
  <2>1. e.id # 0 /\ id = e.id
    BY <1>2, <1>3, <1>4, <1>6 DEF Ok
  <2>2. work' = [work EXCEPT !.pc = "sync"] /\ UNCHANGED <<ids, round>>
    BY <1>1, <1>6 DEF BeginSync
  <2>3. work'.pc = "sync" /\ work'.entry = e /\ work'.id = id
    BY <1>1, <1>3, <1>4, <2>1, <2>2 DEF WorkRecord
  <2>4. Settled
    BY <1>5, <2>2 DEF Settled
  <2>5. /\ Rounds' /\ Stamps' /\ Ok(e, id)'
        /\ \A f \in Element : In(queue, f) /\ Ok(f, f.id) => Ok(f, f.id)'
    BY <1>4, <2>1, <2>4, SettledKept
  <2>6. Alone(queue') /\ WaitingOk'
    BY <1>5, <2>5 DEF SyncInv, WaitingOk
  <2>7. WorkOk'
    BY <1>4, <1>5, <2>1, <2>3, <2>5 DEF WorkOk
  <2> QED
    BY <2>5, <2>6, <2>7 DEF SyncInv
<1>7. CASE e.page = 1
  <2>1. PICK b, m : /\ round' = [round EXCEPT ![e.auth] = [id |-> id, listed |-> shop[e.auth], mark |-> m, whole |-> b,
                                                            sound |-> round[e.auth].sound]]
                    /\ ids' = IF e.id = 0 THEN id ELSE ids
    <3>1. PICK full : full = (e.kind = "reconcile" \/ e.force)
      OBVIOUS
    <3>2. /\ round' = [round EXCEPT ![e.auth] =
                        [id |-> id, listed |-> shop[e.auth], mark |-> IF full THEN 0 ELSE work.user.upTo,
                         whole |-> full \/ round[e.auth].sound, sound |-> round[e.auth].sound]]
          /\ ids' = IF e.id = 0 THEN id ELSE ids
      BY <1>1, <1>2, <1>3, <1>7, <3>1 DEF BeginSync
    <3> QED
      BY <3>2
  <2>2. work'.pc = "sync" /\ work'.entry = e /\ work'.id = id
    BY <1>1, <1>2, <1>3, <1>7 DEF BeginSync, WorkRecord
  <2>3. id # 0 /\ ids <= ids' /\ id <= ids'
    BY <1>2, <1>3, <1>4, <2>1 DEF Ok
  <2>4. /\ round'[e.auth].id = id /\ round'[e.auth].listed = shop[e.auth]
        /\ \A a \in User \ {e.auth} : round'[a] = round[a]
    BY <1>3, <2>1 DEF Round
  <2>5. \A s \in Sale : sales[e.auth][s] # id
    <3>1. CASE e.id = 0
      <4>1. \A s \in Sale : sales[e.auth][s] # None => sales[e.auth][s] <= ids
        BY <1>3 DEF SyncInv, Stamps
      <4>2. id = ids + 1 /\ id # None
        BY <1>2, <3>1, NoneAssumption
      <4> QED
        BY <1>3, <4>1, <4>2
    <3>2. CASE e.id # 0
      BY <1>2, <1>3, <1>4, <1>7, <3>2 DEF Ok, Fresh
    <3> QED
      BY <3>1, <3>2
  <2>6. NoneHas(queue, id)
    <3>1. CASE e.id # 0
      BY <1>2, <1>4, <3>1
    <3>2. CASE e.id = 0
      <4>1. ASSUME NEW f, In(queue, f)
            PROVE  SyncId(f) # id
        <5>1. f \in Element
          BY <4>1, InElement DEF TypeInv, Types
        <5>2. Ok(f, f.id) /\ f.id \in Nat
          BY <4>1, <5>1 DEF SyncInv, WaitingOk, Element
        <5> QED
          BY <1>2, <1>3, <3>2, <5>2 DEF SyncId, Ok
      <4> QED
        BY <4>1, NoneIn
    <3> QED
      BY <3>1, <3>2
  <2>7. Rounds' /\ Stamps'
    <3>1. ASSUME NEW a \in User
          PROVE  /\ round'[a].listed \subseteq 1 .. posted'[a] /\ shop'[a] \subseteq 1 .. posted'[a] /\ round'[a].id <= ids'
                 /\ round'[a].whole => /\ round'[a].listed \subseteq shop'[a]
                                       /\ \A s \in Sale : sales'[a][s] = round'[a].id => s \in shop'[a]
      <4>1. /\ round[a].listed \subseteq 1 .. posted[a] /\ shop[a] \subseteq 1 .. posted[a] /\ round[a].id <= ids
            /\ round[a].whole => /\ round[a].listed \subseteq shop[a]
                                 /\ \A s \in Sale : sales[a][s] = round[a].id => s \in shop[a]
        BY DEF SyncInv, Rounds
      <4>2. CASE a = e.auth
        BY <1>5, <2>3, <2>4, <2>5, <4>1, <4>2
      <4>3. CASE a # e.auth
        <5>1. round'[a] = round[a] /\ round[a].id \in Nat
          BY <1>3, <2>4, <4>3 DEF Round
        <5> QED
          BY <1>3, <1>5, <2>3, <4>1, <5>1
      <4> QED
        BY <4>2, <4>3
    <3>2. Stamps'
      BY <1>3, <1>5, <2>3 DEF SyncInv, Stamps
    <3> QED
      BY <3>1, <3>2 DEF Rounds
  <2>8. WaitingOk'
    <3> SUFFICES ASSUME NEW f \in Element, In(queue, f)
                 PROVE  Ok(f, f.id)'
      BY <1>5 DEF WaitingOk
    <3>1. SyncId(f) # id /\ f.id \in Nat /\ f.auth \in User /\ Ok(f, f.id)
      BY <2>6, NoneIn DEF Element, SyncInv, WaitingOk
    <3>2. IsSync(f) => Kept(f.auth, f.id)
      <4>1. IsSync(f) => f.id # id
        BY <3>1 DEF SyncId
      <4>2. CASE f.auth = e.auth
        BY <1>5, <2>4, <4>1, <4>2 DEF Kept
      <4>3. CASE f.auth # e.auth
        BY <1>5, <2>4, <3>1, <4>3 DEF Kept
      <4> QED
        BY <4>2, <4>3
    <3>3. CASE IsSync(f)
      <4>1. PICK n \in Nat : n = f.id
        BY <3>1
      <4>2. Ok(f, n) /\ Kept(f.auth, n)
        BY <3>1, <3>2, <3>3, <4>1
      <4>3. Ok(f, n)'
        BY <2>3, <4>2, OkKept
      <4> QED
        BY <4>1, <4>3
    <3>4. CASE ~IsSync(f)
      BY <3>4 DEF Ok
    <3> QED
      BY <3>3, <3>4
  <2>9. Ok(e, id)'
    <3>1. Fresh(e.auth, id)'
      BY <1>5, <2>5 DEF Fresh
    <3>2. ReadTo(e.auth, e.page - 1)'
      <4>1. e.page - 1 = 0 /\ 0 * PageSize = 0
        BY <1>7, BoundsAssumption
      <4>2. \A s : Cardinality({t \in shop[e.auth] : t > s}) \in Nat
        BY <1>3, CountNewer
      <4>3. \A s : ~(Cardinality({t \in shop[e.auth] : t > s}) < (e.page - 1) * PageSize)
        BY <4>1, <4>2
      <4> QED
        BY <1>5, <4>3 DEF ReadTo, Newer
    <3> QED
      BY <1>3, <1>7, <2>3, <3>1, <3>2 DEF Ok
  <2>10. WorkOk'
    BY <1>2, <1>5, <1>7, <2>2, <2>3, <2>6, <2>9 DEF WorkOk
  <2> QED
    BY <1>5, <2>7, <2>8, <2>10 DEF SyncInv
<1> QED
  BY <1>6, <1>7

(* A reconcile deletes what does not carry its stamp: the sync of no other   *)
(* entry is among those of the round.                                        *)
LEMMA CleanKept ==
  ASSUME TypeInv, TypeInv', SyncInv, CleanSales
  PROVE  SyncInv'
<1>1. PICK e \in Element, id \in Nat : work.entry = e /\ work.id = id
  BY DEF TypeInv, Types, Loaded, WorkRecord, CleanSales
<1>2. /\ e.auth \in User /\ work \in WorkRecord /\ round \in [User -> Round] /\ ids \in Nat
      /\ sales \in [User -> [Sale -> Nat \cup {None}]] /\ work.pc = "synced" /\ IsSync(e)
  BY <1>1 DEF TypeInv, Types, Loaded, Element, IsSync, CleanSales
<1>3. Read(e, id) /\ (id # 0 => NoneHas(queue, id))
  BY <1>1, <1>2 DEF SyncInv, WorkOk
<1>4. UNCHANGED <<shop, posted, ids, queue, round>>
  BY DEF CleanSales
<1>5. \A a \in User, s \in Sale :
        sales'[a][s] = IF a # e.auth \/ sales[a][s] = id THEN sales[a][s] ELSE None
  BY <1>1, <1>2 DEF CleanSales
<1>6. work'.pc = "cleaned"
  BY <1>2 DEF CleanSales, WorkRecord
<1>7. Rounds' /\ Stamps'
  <2>1. Stamps'
    BY <1>4, <1>5 DEF SyncInv, Stamps
  <2>2. \A a \in User : round[a].id # None
    BY <1>2, NoneAssumption DEF Round
  <2>3. Rounds'
    BY <1>4, <1>5, <2>2 DEF SyncInv, Rounds
  <2> QED
    BY <2>1, <2>3
<1>8. WaitingOk'
  <2> SUFFICES ASSUME NEW f \in Element, In(queue, f)
               PROVE  Ok(f, f.id)'
    BY <1>4 DEF WaitingOk
  <2>1. SyncId(f) # id /\ f.id \in Nat /\ f.auth \in User /\ Ok(f, f.id)
    BY <1>3, NoneIn DEF Read, Element, SyncInv, WaitingOk
  <2>2. CASE IsSync(f)
    <3>1. PICK n \in Nat : n = f.id /\ n # id /\ n # None
      BY <2>1, <2>2, NoneAssumption DEF SyncId
    <3>2. \A s \in Sale : sales'[f.auth][s] = n => sales[f.auth][s] = n
      BY <1>5, <2>1, <3>1
    <3>3. round[f.auth].whole /\ round[f.auth].id = n => f.auth # e.auth
      BY <1>3, <3>1 DEF Read
    <3>4. round[f.auth].listed \subseteq Sale
      BY <1>2, <2>1 DEF Round
    <3>5. Kept(f.auth, n)
      BY <1>4, <1>5, <2>1, <3>2, <3>3, <3>4 DEF Kept
    <3>6. Ok(f, n) /\ ids <= ids'
      BY <1>2, <1>4, <2>1, <3>1
    <3>7. Ok(f, n)'
      BY <3>5, <3>6, OkKept
    <3> QED
      BY <3>1, <3>7
  <2>3. CASE ~IsSync(f)
    BY <2>3 DEF Ok
  <2> QED
    BY <2>2, <2>3
<1>9. WorkOk'
  BY <1>6 DEF WorkOk
<1> QED
  BY <1>4, <1>7, <1>8, <1>9 DEF SyncInv

(* What the worker is about to clean or to go on with stays read while only  *)
(* sales are listed.                                                         *)
LEMMA ReadKept ==
  ASSUME TypeInv, TypeInv', NEW e \in Element, NEW id \in Nat, Read(e, id), ids <= ids', work' = work,
         sales' = sales, round'[e.auth].id = round[e.auth].id, round'[e.auth].listed = round[e.auth].listed,
         round'[e.auth].whole => round[e.auth].whole /\ shop[e.auth] \subseteq shop'[e.auth]
  PROVE  Read(e, id)'
<1>1. e.auth \in User /\ e.page \in Int /\ ids \in Nat /\ ids' \in Nat
  BY DEF Element, TypeInv, Types
<1>2. round'[e.auth].whole /\ ReadTo(e.auth, e.page) => ReadTo(e.auth, e.page)'
  BY <1>1, ReadToKept
<1> QED
  BY <1>1, <1>2 DEF Read

(* Listings appear, sell, are added and removed: an undisturbed sync has     *)
(* still read what it has read.                                              *)
LEMMA ShopKept ==
  ASSUME TypeInv, TypeInv', SyncInv,
         NEW a \in User, AddSale(a) \/ List(a) \/ \E s \in Sale : Delist(a, s) \/ UpdateSale(a, s)
  PROVE  SyncInv'
<1>1. /\ sales \in [User -> [Sale -> Nat \cup {None}]] /\ shop \in [User -> SUBSET Sale] /\ posted \in [User -> Nat]
      /\ round \in [User -> Round] /\ ids \in Nat
  BY DEF TypeInv, Types
<1>2. UNCHANGED <<queue, work, ids>>
  BY DEF AddSale, List, Delist, UpdateSale, store
<1>3. \A b \in User : /\ round'[b].id = round[b].id /\ round'[b].listed = round[b].listed
                      /\ round'[b].whole => round[b].whole /\ shop[b] \subseteq shop'[b]
  <2>1. \A b \in User : /\ round'[b].id = round[b].id /\ round'[b].listed = round[b].listed
                        /\ round'[b].whole => round[b].whole
    <3>1. CASE \E s \in Sale : Delist(a, s)
      <4>1. round' = [round EXCEPT ![a].whole = FALSE]
        BY <3>1 DEF Delist
      <4> QED
        BY <1>1, <4>1, RoundChanges
    <3>2. CASE AddSale(a) \/ List(a)
      <4>1. Shift(a)
        BY <3>2 DEF AddSale, List
      <4>2. \A b \in User : /\ round'[b].id = round[b].id /\ round'[b].listed = round[b].listed
                            /\ round'[b].mark = round[b].mark /\ (round'[b].whole => round[b].whole)
                            /\ b # a => round'[b] = round[b]
        BY <1>1, <4>1, RoundChanges
      <4> QED
        BY <4>2
    <3>3. CASE \E s \in Sale : UpdateSale(a, s)
      BY <3>3 DEF UpdateSale
    <3> QED
      BY <3>1, <3>2, <3>3
  <2>2. ASSUME NEW b \in User, round'[b].whole
        PROVE  shop[b] \subseteq shop'[b]
    <3>1. CASE \E s \in Sale : Delist(a, s)
      <4>1. round' = [round EXCEPT ![a].whole = FALSE] /\ \E s \in Sale : shop' = [shop EXCEPT ![a] = @ \ {s}]
        BY <3>1 DEF Delist
      <4>2. b # a
        BY <1>1, <2>2, <4>1 DEF Round
      <4> QED
        BY <1>1, <4>1, <4>2
    <3>2. CASE AddSale(a) \/ List(a) \/ \E s \in Sale : UpdateSale(a, s)
      BY <1>1, <3>2 DEF AddSale, List, UpdateSale
    <3> QED
      BY <3>1, <3>2
  <2> QED
    BY <2>1, <2>2
<1>4. \A b \in User, s \in Sale :
        \/ sales'[b][s] = sales[b][s]
        \/ sales'[b][s] = 0 /\ s \in shop'[b] /\ s \notin 1 .. posted[b]
        \/ sales'[b][s] = None /\ s \notin shop[b]
  BY <1>1 DEF AddSale, List, Delist, UpdateSale, Stored, store
<1>5. \A b \in User : posted[b] <= posted'[b] /\ posted'[b] \in Nat /\ shop'[b] \subseteq shop[b] \cup {posted'[b]}
                      /\ (shop'[b] # shop[b] => posted'[b] # 0 \/ shop'[b] \subseteq shop[b])
  BY <1>1 DEF AddSale, List, Delist, UpdateSale
<1>6. Rounds' /\ Stamps'
  <2>1. ASSUME NEW b \in User
        PROVE  /\ round'[b].listed \subseteq 1 .. posted'[b] /\ shop'[b] \subseteq 1 .. posted'[b] /\ round'[b].id <= ids'
               /\ round'[b].whole => /\ round'[b].listed \subseteq shop'[b]
                                     /\ \A s \in Sale : sales'[b][s] = round'[b].id => s \in shop'[b]
    <3>1. /\ round[b].listed \subseteq 1 .. posted[b] /\ shop[b] \subseteq 1 .. posted[b] /\ round[b].id <= ids
          /\ round[b].whole => /\ round[b].listed \subseteq shop[b]
                               /\ \A s \in Sale : sales[b][s] = round[b].id => s \in shop[b]
      BY DEF SyncInv, Rounds
    <3>2. round[b].id # None /\ posted[b] \in Nat
      BY <1>1, NoneAssumption DEF Round
    <3>3. shop'[b] \subseteq 1 .. posted'[b] /\ 1 .. posted[b] \subseteq 1 .. posted'[b]
      BY <1>5, <3>1, <3>2
    <3>4. round'[b].whole => \A s \in Sale : sales'[b][s] = round'[b].id => s \in shop'[b]
      BY <1>3, <1>4, <3>1, <3>2
    <3> QED
      BY <1>2, <1>3, <3>1, <3>3, <3>4
  <2>2. Stamps'
    BY <1>1, <1>2, <1>4 DEF SyncInv, Stamps
  <2> QED
    BY <2>1, <2>2 DEF Rounds
<1>7. ASSUME NEW e \in Element, NEW id \in Nat, Ok(e, id)
      PROVE  Ok(e, id)'
  <2>1. e.auth \in User
    BY DEF Element
  <2>2. id # 0 => Kept(e.auth, id)
    <3>1. round[e.auth].listed \subseteq Sale /\ round[e.auth].listed \subseteq 1 .. posted[e.auth]
      BY <1>1, <2>1 DEF SyncInv, Rounds, Round
    <3>2. round[e.auth].whole => round[e.auth].listed \subseteq shop[e.auth]
      BY <2>1 DEF SyncInv, Rounds
    <3>3. id # 0 => \A s \in Sale : sales'[e.auth][s] = id => sales[e.auth][s] = id
      BY <1>4, <2>1, NoneAssumption
    <3>4. round[e.auth].whole => \A s \in round[e.auth].listed : sales'[e.auth][s] = sales[e.auth][s]
      BY <1>4, <2>1, <3>1, <3>2
    <3> QED
      BY <1>3, <2>1, <3>3, <3>4 DEF Kept
  <2>3. ids <= ids'
    BY <1>1, <1>2
  <2> QED
    BY <1>7, <2>2, <2>3, OkKept
<1>8. WaitingOk'
  <2> SUFFICES ASSUME NEW f \in Element, In(queue, f)
               PROVE  Ok(f, f.id)'
    BY <1>2 DEF WaitingOk
  <2>1. Ok(f, f.id) /\ f.id \in Nat
    BY DEF SyncInv, WaitingOk, Element
  <2> QED
    BY <1>7, <2>1
<1>9. WorkOk'
  <2>1. CASE AddSale(a) \/ \E s \in Sale : UpdateSale(a, s)
    <3>1. work'.pc = "idle"
      BY <1>2, <2>1 DEF AddSale, UpdateSale
    <3> QED
      BY <3>1 DEF WorkOk
  <2>2. CASE List(a) \/ \E s \in Sale : Delist(a, s)
    <3>1. sales' = sales
      BY <2>2 DEF List, Delist, store
    <3>2. ASSUME NEW e \in Element, NEW id \in Nat, Read(e, id)
          PROVE  Read(e, id)'
      <4>1. e.auth \in User /\ ids <= ids'
        BY <1>1, <1>2 DEF Element
      <4> QED
        BY <1>2, <1>3, <3>1, <3>2, <4>1, ReadKept
    <3>3. ASSUME NEW e \in Element, NEW id \in Nat, work.entry = e, work.id = id
          PROVE  /\ work.pc = "loaded" => id = e.id /\ Ok(e, id)'
                 /\ work.pc = "sync" => id # 0 /\ Ok(e, id)' /\ (e.id = id \/ (e.id = 0 /\ e.page = 1))
                 /\ work.pc = "synced" => Read(e, id)'
                 /\ work.pc \in {"loaded", "sync", "synced"} /\ IsSync(e) /\ id # 0 => NoneHas(queue, id)
      BY <1>7, <3>2, <3>3 DEF SyncInv, WorkOk
    <3> QED
      BY <1>2, <3>3 DEF WorkOk
  <2> QED
    BY <2>1, <2>2
<1> QED
  BY <1>2, <1>6, <1>8, <1>9 DEF SyncInv

(* The validator, the administrator and time enqueue first pages without an  *)
(* id, and read nothing; a stutter is the same.                              *)
LEMMA CallersPut ==
  ASSUME \/ Tick \/ UNCHANGED vars \/ \E a \in User : Validate(a)
         \/ \E a \in User, kind \in {"refresh", "reconcile"} : AdminSync(a, kind)
  PROVE  /\ Settled /\ work' = work
         /\ \/ queue' = queue
            \/ \E e \in Element : (queue' = queue \/ Put(e)) /\ (~IsSync(e) \/ (e.id = 0 /\ e.page = 1))
<1>1. Settled /\ work' = work
  BY DEF Settled, Tick, Validate, ListUsers, ScheduleReconcile, ScheduleRefresh, TakeLock, ScheduleAdjust,
         AdminSync, store, vars
<1>2. \/ queue' = queue
      \/ \E e \in Element : (queue' = queue \/ Put(e)) /\ (~IsSync(e) \/ (e.id = 0 /\ e.page = 1))
  <2>1. \A a \in User, kind \in {"refresh", "reconcile"}, force \in BOOLEAN, prio \in Priority :
          /\ Sync(kind, a, 1, 0, force, prio) \in Element
          /\ Sync(kind, a, 1, 0, force, prio).id = 0 /\ Sync(kind, a, 1, 0, force, prio).page = 1
    BY DEF Sync, Element, Kind
  <2>2. ASSUME NEW a \in User, NEW kind \in {"refresh", "reconcile"}, NEW force \in BOOLEAN, NEW prio \in Priority,
               Accept(Sync(kind, a, 1, 0, force, prio))
        PROVE  \E e \in Element : (queue' = queue \/ Put(e)) /\ (~IsSync(e) \/ (e.id = 0 /\ e.page = 1))
    <3>1. PICK e \in Element : e = Sync(kind, a, 1, 0, force, prio)
      BY <2>1
    <3>2. e.id = 0 /\ e.page = 1
      BY <3>1 DEF Sync
    <3>3. Accept(e)
      BY <2>2, <3>1
    <3> QED
      BY <3>2, <3>3, EnsurePuts
  <2>3. CASE Tick \/ UNCHANGED vars
    BY <2>3 DEF Tick, vars
  <2>4. ASSUME NEW a \in User, ListUsers(a) \/ TakeLock(a)
        PROVE  queue' = queue
    BY <2>4 DEF ListUsers, TakeLock
  <2>5. ASSUME NEW a \in User, ScheduleReconcile(a)
        PROVE  queue' = queue \/ Accept(Sync("reconcile", a, 1, 0, FALSE, "UNSET"))
    BY <2>5 DEF ScheduleReconcile, Schedule
  <2>6. ASSUME NEW a \in User, ScheduleRefresh(a)
        PROVE  queue' = queue \/ Accept(Sync("refresh", a, 1, 0, FALSE, "UNSET"))
    BY <2>6 DEF ScheduleRefresh, Schedule
  <2>7. ASSUME NEW a \in User, ScheduleAdjust(a)
        PROVE  \E e \in Element : (queue' = queue \/ Put(e)) /\ ~IsSync(e)
    <3>1. Adjust(a) \in Element
      BY DEF Adjust, Sync, Element, Kind, Priority
    <3>2. PICK e \in Element : e = Adjust(a)
      BY <3>1
    <3>3. ~IsSync(e)
      BY <3>2 DEF Adjust, Sync, IsSync
    <3>4. queue' = queue \/ Ensure(e)
      BY <2>7, <3>2 DEF ScheduleAdjust
    <3> QED
      BY <3>3, <3>4, EnsurePuts
  <2>8. ASSUME NEW a \in User, NEW kind \in {"refresh", "reconcile"}, AdminSync(a, kind)
        PROVE  Accept(Sync(kind, a, 1, 0, TRUE, "HIGH"))
    BY <2>8 DEF AdminSync
  <2> QED
    BY <2>2, <2>3, <2>4, <2>5, <2>6, <2>7, <2>8 DEF Validate, Priority
<1> QED
  BY <1>1, <1>2

(* So they keep what is in order.                                            *)
LEMMA CallersKept ==
  ASSUME TypeInv, TypeInv', SyncInv,
         \/ Tick \/ UNCHANGED vars \/ \E a \in User : Validate(a)
         \/ \E a \in User, kind \in {"refresh", "reconcile"} : AdminSync(a, kind)
  PROVE  SyncInv'
<1>1. Settled /\ work' = work
  BY CallersPut
<1>2. \/ queue' = queue
      \/ \E e \in Element : (queue' = queue \/ Put(e)) /\ (~IsSync(e) \/ (e.id = 0 /\ e.page = 1))
  BY CallersPut
<1>3. /\ Rounds' /\ Stamps' /\ \A e \in Element, id \in Nat : Ok(e, id) => Ok(e, id)'
      /\ \A f \in Element : In(queue, f) /\ Ok(f, f.id) => Ok(f, f.id)'
  BY <1>1, SettledKept
<1>4. Alone(queue') /\ WaitingOk' /\ \A id \in Nat : id # 0 /\ NoneHas(queue, id) => NoneHas(queue', id)
  <2>1. CASE queue' = queue
    BY <1>3, <2>1 DEF SyncInv, WaitingOk
  <2>2. CASE queue' # queue
    <3>1. PICK e \in Element : Put(e) /\ (~IsSync(e) \/ (e.id = 0 /\ e.page = 1))
      BY <1>2, <2>2
    <3>2. Ok(e, e.id) /\ SyncId(e) = 0 /\ e.id \in Nat /\ ~(IsSync(e) /\ e.id # 0)
      BY <3>1, NewOk DEF Element
    <3>3. Ok(e, e.id)'
      BY <1>3, <3>2
    <3> QED
      BY <1>3, <3>1, <3>2, <3>3, PutKept DEF SyncInv
  <2> QED
    BY <2>1, <2>2
<1>5. WorkOk'
  <2>1. ASSUME NEW e \in Element, NEW id \in Nat, Read(e, id)
        PROVE  Read(e, id)'
    <3>1. /\ e.auth \in User /\ ids <= ids' /\ sales' = sales /\ shop' = shop
          /\ round'[e.auth].id = round[e.auth].id /\ round'[e.auth].listed = round[e.auth].listed
          /\ round'[e.auth].whole = round[e.auth].whole
      BY <1>1 DEF Settled, Element, TypeInv, Types
    <3> QED
      BY <1>1, <2>1, <3>1, ReadKept
  <2>2. ASSUME NEW e \in Element, NEW id \in Nat, work.entry = e, work.id = id
        PROVE  /\ work.pc = "loaded" => id = e.id /\ Ok(e, id)'
               /\ work.pc = "sync" => id # 0 /\ Ok(e, id)' /\ (e.id = id \/ (e.id = 0 /\ e.page = 1))
               /\ work.pc = "synced" => Read(e, id)'
               /\ work.pc \in {"loaded", "sync", "synced"} /\ IsSync(e) /\ id # 0 => NoneHas(queue', id)
    BY <1>3, <1>4, <2>1, <2>2 DEF SyncInv, WorkOk
  <2> QED
    BY <1>1, <2>2 DEF WorkOk
<1> QED
  BY <1>3, <1>4, <1>5 DEF SyncInv

(* The invariant, from the beginning and by every step.                      *)
LEMMA SyncInit ==
  Init => SyncInv
<1> SUFFICES ASSUME Init PROVE SyncInv
  OBVIOUS
<1>1. \A p \in Priority : queue[p] = <<>>
  BY DEF Init
<1>2. Alone(queue) /\ WaitingOk
  BY <1>1 DEF Alone, WaitingOk, In
<1>3. WorkOk
  BY DEF Init, Idle, WorkOk
<1>4. Rounds /\ Stamps
  BY BoundsAssumption, NoneAssumption DEF Init, Rounds, Stamps
<1> QED
  BY <1>2, <1>3, <1>4 DEF SyncInv

LEMMA SyncStep ==
  TypeInv /\ TypeInv' /\ SyncInv /\ [Next]_vars => SyncInv'
BY TakeKept, BeginKept, PageKept, CleanKept, RestingKept, ShopKept, CallersKept DEF Next, WorkerStep

(* When a reconcile cleans the sales, what is stored is what Discogs lists:  *)
(* every sale that was listed when its first page was read is kept, however  *)
(* many pages, failures and retries it took, and everything Discogs no       *)
(* longer lists is gone (sales.go, SyncSales; cleancollection.go).           *)
THEOREM ReconcileIsExact == Spec => ReconcileMirrorsShop
<1>1. Init => TypeInv /\ SyncInv
  BY TypeInit, SyncInit
<1>2. TypeInv /\ SyncInv /\ [Next]_vars => TypeInv' /\ SyncInv'
  BY TypeStep, SyncStep
<1>3. TypeInv /\ SyncInv /\ [Next]_vars =>
        [\A a \in User : Cleans(a) /\ round[a].whole /\ round[a].id = work.id =>
           round[a].listed \subseteq Stored(a)' /\ Stored(a)' \subseteq shop[a]]_vars
  <2> SUFFICES ASSUME TypeInv, SyncInv, Next, NEW a \in User, Cleans(a), round[a].whole, round[a].id = work.id
               PROVE  round[a].listed \subseteq Stored(a)' /\ Stored(a)' \subseteq shop[a]
    OBVIOUS
  <2>1. PICK e \in Element, id \in Nat : work.entry = e /\ work.id = id
    BY DEF TypeInv, Types, Loaded, WorkRecord, Cleans
  <2>2. /\ work \in WorkRecord /\ sales \in [User -> [Sale -> Nat \cup {None}]] /\ round \in [User -> Round]
        /\ work.pc = "synced" /\ e.auth = a
    BY <2>1 DEF TypeInv, Types, Cleans
  <2>3. CleanSales
    <3>1. work'.pc = "cleaned"
      BY DEF Cleans
    <3> QED
      BY <2>2, <3>1, IdleTypes DEF Next, WorkerStep, Take, Skip, BeginSync, SyncPage, NextPage, EnqueueLink, SaveSync,
         LinkSales, AdjustSales, SaveAdjusted, RateLimit, Requeue, Bury, Refused, AddSale, UpdateSale, Validate,
         ListUsers, ScheduleReconcile, ScheduleRefresh, TakeLock, ScheduleAdjust, List, Delist, AdminSync, Tick,
         Done, WorkRecord
  <2>4. Read(e, id) /\ e.kind = "reconcile" /\ work.last
    BY <2>1, <2>2, <2>3 DEF SyncInv, WorkOk, CleanSales
  <2>5. \A s \in round[a].listed : sales[a][s] = id
    BY <2>2, <2>4 DEF Read
  <2>6. \A s \in Sale : sales[a][s] = id => s \in shop[a]
    BY <2>1 DEF SyncInv, Rounds
  <2>7. \A s \in Sale : sales'[a][s] = IF sales[a][s] = id THEN id ELSE None
    BY <2>1, <2>2, <2>3 DEF CleanSales
  <2>8. round[a].listed \subseteq Sale /\ id # None
    BY <2>2, NoneAssumption DEF Round
  <2> QED
    BY <2>5, <2>6, <2>7, <2>8 DEF Stored
<1> QED
  BY <1>1, <1>2, <1>3, PTL DEF Spec, ReconcileMirrorsShop

-----------------------------------------------------------------------------
(* What a refresh has stored when it stops.                                  *)

(* LastSaleRefresh as a sync that begins now would read it; it passes no     *)
(* sale that is yet to be listed, nor does any copy of the user, and the     *)
(* validator's is the oldest, the worker's the newest.                       *)
Busy(a) == work.pc # "idle" /\ work.entry.auth = a
Top(a) == IF Busy(a) THEN work.user.upTo ELSE user[a].upTo
Marks ==
  /\ \A a \in User : user[a].upTo <= Top(a) /\ Top(a) <= posted[a] /\ round[a].mark <= posted[a]
  /\ validator.pc # "idle" => validator.user.upTo <= user[validator.auth].upTo

(* Of the sales up to one, those stored are the oldest; of those a sync has  *)
(* yet to read, after n pages.                                               *)
Ordered(a, m) == \A s, t \in shop[a] : s < t /\ t <= m /\ t \in Stored(a) => s \in Stored(a)
Layered(a, m, n) ==
  \A s, t \in shop[a] : s < t /\ t <= m /\ t \in Stored(a) /\ Newer(a, t) >= n * PageSize => s \in Stored(a)

(* The last sync left out the newest sales at most.                          *)
Sounds ==
  \A a \in User : round[a].sound =>
    Ordered(a, Top(a)) /\ ~(Busy(a) /\ work.pc \in {"synced", "cleaned", "save"})

(* Wherever an undisturbed refresh that has read n pages stops, all older    *)
(* sales are stored.                                                         *)
Stopping(e) == e.kind = "refresh" /\ ~e.force
Open(e, id, n) ==
  Stopping(e) /\ Whole(e.auth, id) =>
    Top(e.auth) <= round[e.auth].mark /\ Layered(e.auth, round[e.auth].mark, n)
CaughtUp(e, id) == Whole(e.auth, id) => round[e.auth].listed \subseteq Stored(e.auth)
WaitingOpen == \A e \in Element : In(queue, e) /\ e.page > 1 => Open(e, e.id, e.page - 1)
WorkOpen ==
  \A e \in Element, id \in Nat : work.entry = e /\ work.id = id =>
    /\ work.pc = "loaded" /\ e.page > 1 => Open(e, id, e.page - 1)
    /\ work.pc = "sync" => Open(e, id, e.page - 1)
    /\ work.pc = "synced" /\ ~work.last => Open(e, id, e.page)
    /\ work.pc = "synced" /\ work.last /\ e.kind = "refresh" => CaughtUp(e, id)
    /\ work.pc \in {"cleaned", "save"} =>
         /\ CaughtUp(e, id) /\ id # 0 /\ NoneHas(queue, id)
         /\ round[e.auth].whole => round[e.auth].id = id

CatchInv == Marks /\ Sounds /\ WaitingOpen /\ WorkOpen

(* The copies of a user's LastSaleRefresh are numbers.                       *)
LEMMA TopTypes ==
  ASSUME TypeInv, TypeInv', NEW a \in User
  PROVE  /\ Top(a) \in Nat /\ Top(a)' \in Nat /\ user[a].upTo \in Nat /\ user'[a].upTo \in Nat
         /\ posted[a] \in Nat /\ posted'[a] \in Nat /\ round[a].mark \in Nat /\ round'[a].mark \in Nat
<1>1. /\ user \in [User -> StoredUser] /\ user' \in [User -> StoredUser]
      /\ posted \in [User -> Nat] /\ posted' \in [User -> Nat]
      /\ round \in [User -> Round] /\ round' \in [User -> Round]
      /\ work.pc # "idle" => work.user \in StoredUser
      /\ work'.pc # "idle" => work'.user \in StoredUser
  BY DEF TypeInv, Types, Loaded
<1>2. \A u \in StoredUser : u.upTo \in Nat
  BY DEF StoredUser
<1>3. user[a] \in StoredUser /\ user'[a] \in StoredUser
  BY <1>1
<1>4. Top(a) \in Nat /\ Top(a)' \in Nat
  BY <1>1, <1>2, <1>3 DEF Top, Busy
<1>5. round[a].mark \in Nat /\ round'[a].mark \in Nat
  BY <1>1 DEF Round
<1> QED
  BY <1>1, <1>2, <1>3, <1>4, <1>5

(* What a step does to the copies: only a sync that is saved raises one.     *)
Raised(a) == work.pc = "save" /\ work.entry.auth = a /\ SaveSync
Copied ==
  /\ \A a \in User : \/ user'[a].upTo <= Top(a)' /\ Top(a)' <= Top(a)
                     \/ Raised(a) /\ user'[a].upTo = posted[a] /\ Top(a)' = posted[a]
  /\ validator'.pc # "idle" => validator'.user.upTo <= user'[validator'.auth].upTo

(* The worker puts its entry down, goes on with it, or is not concerned.     *)
LEMMA CopiesStay ==
  ASSUME TypeInv, TypeInv', Marks, user' = user,
         \/ work'.pc = "idle"
         \/ work' = work
         \/ work.pc # "idle" /\ work'.entry = work.entry /\ work'.user = work.user,
         validator' = validator \/ validator'.pc = "idle" \/ validator'.user = user[validator'.auth]
           \/ (validator.pc # "idle" /\ validator'.auth = validator.auth /\ validator'.user = validator.user)
  PROVE  Copied
<1>1. ASSUME NEW a \in User
      PROVE  user'[a].upTo <= Top(a)' /\ Top(a)' <= Top(a)
  <2>1. user[a].upTo <= Top(a)
    BY DEF Marks
  <2>2. Top(a)' = user[a].upTo \/ Top(a)' = Top(a)
    BY DEF Top, Busy
  <2> QED
    BY <2>1, <2>2, TopTypes
<1>2. validator'.pc # "idle" => validator'.user.upTo <= user'[validator'.auth].upTo
  <2>1. validator'.pc # "idle" => user[validator'.auth].upTo \in Nat
    <3>1. validator'.pc # "idle" => validator'.auth \in User
      BY DEF TypeInv, Types, Loaded
    <3> QED
      BY <3>1, TopTypes
  <2> QED
    BY <2>1 DEF Marks
<1> QED
  BY <1>1, <1>2 DEF Copied

(* The steps that write the user, or read it.                                *)
LEMMA CopiesWritten ==
  ASSUME TypeInv, TypeInv', Marks,
         (\E p \in Priority : Take(p)) \/ BeginSync \/ SaveSync \/ SaveAdjusted \/ \E a \in User : TakeLock(a)
  PROVE  Copied
<1>1. /\ user \in [User -> StoredUser] /\ work \in WorkRecord /\ validator \in ValidatorRecord
      /\ work.pc # "idle" => work.entry \in Element /\ work.entry.auth \in User /\ work.user \in StoredUser
      /\ validator.pc # "idle" => validator.auth \in User /\ validator.user \in StoredUser
  BY DEF TypeInv, Types, Loaded, Element
<1>2. \A a \in User : user[a].upTo <= Top(a) /\ Top(a) \in Nat /\ user[a].upTo \in Nat
  BY TopTypes DEF Marks
<1>3. validator.pc # "idle" => validator.user.upTo <= user[validator.auth].upTo
  BY DEF Marks
<1>4. CASE \E p \in Priority : Take(p)
  <2>1. PICK p \in Priority : Take(p)
    BY <1>4
  <2>2. user' = user /\ validator' = validator /\ work.pc = "idle" /\ work'.pc = "loaded"
        /\ work'.user = user[work'.entry.auth]
    BY <2>1 DEF Take, store
  <2>3. \A a \in User : Top(a)' = user[a].upTo
    BY <2>2 DEF Top, Busy
  <2>4. \A a \in User : Top(a) = user[a].upTo
    BY <2>2 DEF Top, Busy
  <2> QED
    BY <1>2, <1>3, <2>2, <2>3, <2>4 DEF Copied
<1>5. CASE BeginSync
  <2>1. PICK e \in Element : work.entry = e /\ e.auth \in User
    BY <1>1, <1>5 DEF BeginSync
  <2>2. PICK u : u = Locked(e, work.user)
    OBVIOUS
  <2>3. u.upTo = work.user.upTo
    BY <1>1, <1>5, <2>2 DEF Locked, StoredUser, BeginSync
  <2>4. validator' = validator /\ work.pc = "loaded" /\ work'.pc = "sync" /\ work'.entry = e
        /\ (work'.user = u \/ work'.user = work.user) /\ (user' = user \/ user' = [user EXCEPT ![e.auth] = u])
    <3>1. CASE e.page = 1
      <4>1. PICK b, id : /\ user' = [user EXCEPT ![e.auth] = IF b THEN u ELSE @]
                         /\ work' = [work EXCEPT !.pc = "sync", !.user = u, !.id = id]
        BY <1>5, <2>1, <2>2, <3>1 DEF BeginSync
      <4>2. user' = user \/ user' = [user EXCEPT ![e.auth] = u]
        BY <1>1, <4>1
      <4>3. work'.pc = "sync" /\ work'.entry = e /\ work'.user = u
        BY <1>1, <2>1, <4>1 DEF WorkRecord
      <4> QED
        BY <1>5, <4>2, <4>3 DEF BeginSync
    <3>2. CASE e.page # 1
      <4>1. work' = [work EXCEPT !.pc = "sync"] /\ user' = user
        BY <1>5, <2>1, <3>2 DEF BeginSync
      <4> QED
        BY <1>1, <1>5, <2>1, <4>1 DEF WorkRecord, BeginSync
    <3> QED
      BY <3>1, <3>2
  <2>5. \A a \in User : Top(a)' = IF e.auth = a THEN work.user.upTo ELSE user[a].upTo
    BY <1>1, <2>1, <2>3, <2>4 DEF Top, Busy
  <2>6. \A a \in User : Top(a) = IF e.auth = a THEN work.user.upTo ELSE user[a].upTo
    BY <2>1, <2>4 DEF Top, Busy
  <2>7. \A a \in User : user'[a].upTo = user[a].upTo \/ (a = e.auth /\ user'[a].upTo = work.user.upTo)
    BY <1>1, <2>1, <2>3, <2>4
  <2>8. \A a \in User : user[a].upTo <= user'[a].upTo /\ user'[a].upTo <= Top(a)
    BY <1>2, <2>6, <2>7
  <2>9. \A a \in User : user'[a].upTo \in Nat /\ user[a].upTo \in Nat
    BY TopTypes
  <2>10. validator.pc # "idle" => validator.user.upTo \in Nat /\ validator.auth \in User
    BY <1>1 DEF StoredUser
  <2> QED
    BY <1>2, <1>3, <2>4, <2>5, <2>6, <2>8, <2>9, <2>10 DEF Copied
<1>6. CASE SaveSync \/ SaveAdjusted
  <2>1. PICK e \in Element : work.entry = e /\ e.auth \in User /\ work.user \in StoredUser /\ work.pc # "idle"
    BY <1>1, <1>6 DEF SaveSync, SaveAdjusted
  <2>2. PICK u : /\ user' = [user EXCEPT ![e.auth] = u]
                 /\ u.upTo = (IF SaveSync THEN posted[e.auth] ELSE work.user.upTo)
    <3>1. CASE SaveSync
      <4>1. Completed(e, work.user).upTo = posted[e.auth]
        BY <2>1 DEF Completed, StoredUser
      <4> QED
        BY <2>1, <3>1, <4>1 DEF SaveSync
    <3>2. CASE ~SaveSync
      BY <1>6, <2>1, <3>2 DEF SaveAdjusted
    <3> QED
      BY <3>1, <3>2
  <2>3. work'.pc = "idle" /\ validator' = validator
    BY <1>6, IdleTypes DEF SaveSync, SaveAdjusted, Done
  <2>4. /\ \A a \in User : Top(a)' = user'[a].upTo
        /\ \A a \in User : Top(a) = IF e.auth = a THEN work.user.upTo ELSE user[a].upTo
    BY <2>1, <2>3 DEF Top, Busy
  <2>5. \A a \in User : user'[a].upTo = IF a = e.auth THEN u.upTo ELSE user[a].upTo
    BY <1>1, <2>2
  <2>6. \A a \in User : \/ user'[a].upTo <= Top(a)' /\ Top(a)' <= Top(a)
                        \/ Raised(a) /\ user'[a].upTo = posted[a] /\ Top(a)' = posted[a]
    <3>1. SaveSync => work.pc = "save"
      BY DEF SaveSync
    <3> QED
      BY <1>2, <2>1, <2>2, <2>4, <2>5, <3>1 DEF Raised
  <2>7. \A a \in User : user[a].upTo <= user'[a].upTo
    <3>1. user[e.auth].upTo <= Top(e.auth) /\ Top(e.auth) <= posted[e.auth] /\ Top(e.auth) = work.user.upTo
      BY <2>1, <2>4 DEF Marks
    <3>2. Top(e.auth) \in Nat /\ posted[e.auth] \in Nat /\ \A a \in User : user[a].upTo \in Nat
      BY <2>1, TopTypes
    <3> QED
      BY <2>1, <2>2, <2>5, <3>1, <3>2
  <2>8. validator.pc # "idle" => validator.user.upTo \in Nat /\ validator.auth \in User
    BY <1>1 DEF StoredUser
  <2>9. \A a \in User : user'[a].upTo \in Nat /\ user[a].upTo \in Nat
    BY TopTypes
  <2> QED
    BY <1>3, <2>3, <2>6, <2>7, <2>8, <2>9 DEF Copied
<1>7. CASE \E a \in User : TakeLock(a)
  <2>1. PICK a \in User : TakeLock(a)
    BY <1>7
  <2>2. validator.pc = "save" /\ validator.auth = a /\ work' = work
    BY <2>1 DEF TakeLock, ValidatorStep
  <2>3. PICK u : u = [validator.user EXCEPT !.active = day] /\ user' = [user EXCEPT ![a] = u]
    BY <2>1 DEF TakeLock
  <2>4. u.upTo = validator.user.upTo
    BY <1>1, <2>2, <2>3 DEF StoredUser
  <2>5. validator'.auth = a /\ validator'.user.upTo = validator.user.upTo
    <3>1. validator' = [validator EXCEPT !.pc = "adjust", !.user.active = day]
      BY <2>1 DEF TakeLock
    <3> QED
      BY <1>1, <2>2, <3>1 DEF ValidatorRecord, StoredUser
  <2>6. user'[a].upTo = validator.user.upTo /\ \A b \in User \ {a} : user'[b] = user[b]
    BY <1>1, <2>3, <2>4
  <2>7. \A b \in User : user'[b].upTo <= user[b].upTo
    BY <1>2, <1>3, <2>2, <2>6
  <2>8. \A b \in User : Top(b)' = IF Busy(b) THEN Top(b) ELSE user'[b].upTo
    BY <2>2 DEF Top, Busy
  <2>9. \A b \in User : user'[b].upTo \in Nat /\ (~Busy(b) => Top(b) = user[b].upTo)
    BY TopTypes DEF Top
  <2>10. \A b \in User : user'[b].upTo <= Top(b)' /\ Top(b)' <= Top(b)
    BY <1>2, <2>7, <2>8, <2>9
  <2>11. validator'.user.upTo <= user'[validator'.auth].upTo
    BY <2>5, <2>6, <2>9
  <2> QED
    BY <2>10, <2>11 DEF Copied
<1> QED
  BY <1>4, <1>5, <1>6, <1>7

(* Every step.                                                               *)
LEMMA CopiesKept ==
  ASSUME TypeInv, TypeInv', Marks, [Next]_vars
  PROVE  Copied
<1>1. /\ validator \in ValidatorRecord /\ work \in WorkRecord
      /\ validator.pc # "idle" => validator.user \in StoredUser
  BY DEF TypeInv, Types, Loaded
<1>2. CASE Skip \/ RateLimit \/ Requeue \/ Bury \/ Refused \/ NextPage \/ LinkSales
  <2>1. user' = user /\ validator' = validator /\ work'.pc = "idle"
    BY <1>2, IdleTypes DEF Skip, RateLimit, Requeue, Bury, Refused, NextPage, LinkSales, Done, store
  <2> QED
    BY <2>1, CopiesStay
<1>3. CASE SyncPage \/ CleanSales \/ EnqueueLink \/ AdjustSales
  <2>1. /\ user' = user /\ validator' = validator /\ work.pc # "idle"
        /\ work'.entry = work.entry /\ work'.user = work.user
    BY <1>1, <1>3 DEF SyncPage, CleanSales, EnqueueLink, AdjustSales, store, WorkRecord
  <2> QED
    BY <2>1, CopiesStay
<1>4. CASE \/ Tick \/ UNCHANGED vars
           \/ \E a \in User : AddSale(a) \/ List(a)
           \/ \E a \in User, kind \in {"refresh", "reconcile"} : AdminSync(a, kind)
           \/ \E a \in User, s \in Sale : Delist(a, s) \/ UpdateSale(a, s)
  <2>1. user' = user /\ validator' = validator /\ work' = work
    BY <1>4 DEF Tick, vars, AddSale, List, AdminSync, Delist, UpdateSale, store
  <2> QED
    BY <2>1, CopiesStay
<1>5. CASE \E a \in User : ListUsers(a) \/ ScheduleAdjust(a)
  <2>1. /\ user' = user /\ work' = work
        /\ validator'.pc = "idle" \/ validator'.user = user[validator'.auth]
    BY <1>5 DEF ListUsers, ScheduleAdjust, store
  <2> QED
    BY <2>1, CopiesStay
<1>6. CASE \E a \in User : ScheduleReconcile(a) \/ ScheduleRefresh(a)
  <2>1. user' = user /\ work' = work /\ validator.pc # "idle"
    BY <1>6 DEF ScheduleReconcile, ScheduleRefresh, ValidatorStep, store
  <2>2. \E pc : validator' = [validator EXCEPT !.pc = pc]
    BY <1>6 DEF ScheduleReconcile, ScheduleRefresh, Schedule, Goto
  <2>3. validator'.auth = validator.auth /\ validator'.user = validator.user
    BY <1>1, <2>2 DEF ValidatorRecord
  <2> QED
    BY <2>1, <2>3, CopiesStay
<1> QED
  BY <1>2, <1>3, <1>4, <1>5, <1>6, CopiesWritten DEF Next, WorkerStep, Validate

(* So LastSaleRefresh passes no sale that is yet to be listed.               *)
LEMMA MarksKept ==
  ASSUME TypeInv, TypeInv', Marks, [Next]_vars
  PROVE  Marks'
<1>1. Copied
  BY CopiesKept
<1>2. ASSUME NEW a \in User
      PROVE  posted[a] <= posted'[a] /\ (round'[a].mark = round[a].mark \/ round'[a].mark <= posted[a])
  <2>1. /\ posted \in [User -> Nat] /\ round \in [User -> Round] /\ posted[a] \in Nat /\ work \in WorkRecord
    BY DEF TypeInv, Types
  <2>2. posted[a] <= posted'[a]
    <3>1. posted' = posted \/ \E b \in User : posted' = [posted EXCEPT ![b] = posted[b] + 1]
      BY DEF Next, WorkerStep, Take, Skip, BeginSync, SyncPage, NextPage, CleanSales, EnqueueLink, SaveSync,
         LinkSales, AdjustSales, SaveAdjusted, RateLimit, Requeue, Bury, Refused, AddSale, UpdateSale, Validate,
         ListUsers, ScheduleReconcile, ScheduleRefresh, TakeLock, ScheduleAdjust, List, Delist, AdminSync, Tick, vars
    <3> QED
      BY <2>1, <3>1
  <2>3. CASE ~BeginSync
    <3>1. \/ round' = round
          \/ \E b \in User : \/ \E id : Disturb(b, id)
                             \/ Shift(b)
                             \/ \E c \in BOOLEAN : round' = [round EXCEPT ![b].sound = c]
                             \/ round' = [round EXCEPT ![b].whole = FALSE]
      <4>1. CASE SyncPage \/ Bury \/ SaveSync
        <5>1. PICK b \in User : work.entry.auth = b
          BY <4>1 DEF TypeInv, Types, Loaded, Element, SyncPage, Bury, SaveSync
        <5>2. CASE SyncPage \/ Bury
          BY <5>1, <5>2 DEF SyncPage, Bury
        <5>3. CASE SaveSync
          <6>1. round[b].whole \in BOOLEAN
            BY <2>1 DEF Round
          <6>2. PICK c \in BOOLEAN : c = (round[b].whole /\ round[b].id = work.id /\ OnlyNewestLeft(b))
            OBVIOUS
          <6>3. round' = [round EXCEPT ![b].sound = c]
            BY <5>1, <5>3, <6>2 DEF SaveSync
          <6> QED
            BY <6>3
        <5> QED
          BY <4>1, <5>2, <5>3
      <4>2. CASE ~(SyncPage \/ Bury \/ SaveSync)
        BY <2>3, <4>2 DEF Next, WorkerStep, Take, Skip, NextPage, CleanSales, EnqueueLink,
           LinkSales, AdjustSales, SaveAdjusted, RateLimit, Requeue, Refused, AddSale, UpdateSale, Validate,
           ListUsers, ScheduleReconcile, ScheduleRefresh, TakeLock, ScheduleAdjust, List, Delist, AdminSync, Tick, vars
      <4> QED
        BY <4>1, <4>2
    <3>2. round'[a].mark = round[a].mark
      BY <2>1, <3>1, RoundChanges
    <3> QED
      BY <2>2, <3>2
  <2>4. CASE BeginSync
    <3>1. PICK e \in Element : work.entry = e /\ e.auth \in User /\ work.pc = "loaded"
      BY <2>4 DEF TypeInv, Types, Loaded, Element, BeginSync
    <3>2. PICK full : full = (e.kind = "reconcile" \/ e.force)
      OBVIOUS
    <3>3. PICK m : m = (IF full THEN 0 ELSE work.user.upTo) /\ m <= posted[e.auth]
      <4>1. work.user.upTo <= posted[e.auth] /\ 0 <= posted[e.auth]
        BY <2>1, <3>1 DEF Marks, Top, Busy, TypeInv, Types
      <4> QED
        BY <4>1
    <3>4. CASE e.page = 1
      <4>1. PICK id : id = IF e.id = 0 THEN ids + 1 ELSE e.id
        OBVIOUS
      <4>2. round' = [round EXCEPT ![e.auth] =
                        [id |-> id, listed |-> shop[e.auth], mark |-> m,
                         whole |-> full \/ round[e.auth].sound, sound |-> round[e.auth].sound]]
        BY <2>1, <2>4, <3>1, <3>2, <3>3, <3>4, <4>1 DEF BeginSync
      <4> QED
        BY <2>1, <2>2, <3>1, <3>3, <4>2
    <3>5. CASE e.page # 1
      BY <2>2, <2>4, <3>1, <3>5 DEF BeginSync
    <3> QED
      BY <3>4, <3>5
  <2> QED
    BY <2>2, <2>3, <2>4
<1>3. ASSUME NEW a \in User
      PROVE  user'[a].upTo <= Top(a)' /\ Top(a)' <= posted'[a] /\ round'[a].mark <= posted'[a]
  <2>1. Top(a) <= posted[a] /\ round[a].mark <= posted[a]
    BY DEF Marks
  <2>2. \/ user'[a].upTo <= Top(a)' /\ Top(a)' <= Top(a)
        \/ user'[a].upTo = posted[a] /\ Top(a)' = posted[a]
    BY <1>1 DEF Copied
  <2> QED
    BY <1>2, <2>1, <2>2, TopTypes
<1> QED
  BY <1>1, <1>3 DEF Copied, Marks

(* What a step may do to the last sync of a user, if it leaves it whole: the *)
(* sales listed stay as they are, or all the old ones are stored.            *)
Undisturbed(a) ==
  round'[a].whole =>
    /\ round[a].whole /\ round'[a].id = round[a].id /\ round'[a].mark = round[a].mark /\ Top(a)' <= Top(a)
    /\ \/ shop'[a] = shop[a] /\ \A s \in shop[a] : s \in Stored(a)' => s \in Stored(a)
       \/ \A s \in shop'[a] : s <= round[a].mark => s \in Stored(a)'
    /\ \A s \in shop[a] : s \in Stored(a) => s \in Stored(a)'

(* Then a refresh may still stop wherever it might have.                     *)
LEMMA OpenKept ==
  ASSUME TypeInv, TypeInv', NEW e \in Element, NEW id \in Nat, NEW n \in Nat, Open(e, id, n), Undisturbed(e.auth)
  PROVE  Open(e, id, n)'
<1> SUFFICES ASSUME Stopping(e), Whole(e.auth, id)'
             PROVE  Top(e.auth)' <= round'[e.auth].mark /\ Layered(e.auth, round[e.auth].mark, n)'
  BY DEF Open, Whole, Undisturbed
<1>1. e.auth \in User
  BY DEF Element
<1>2. Whole(e.auth, id) /\ Undisturbed(e.auth) /\ round'[e.auth].whole
  BY DEF Whole, Undisturbed
<1>3. Top(e.auth) <= round[e.auth].mark /\ Layered(e.auth, round[e.auth].mark, n)
  BY <1>2 DEF Open
<1>4. Top(e.auth)' <= round'[e.auth].mark
  BY <1>1, <1>2, <1>3, TopTypes DEF Undisturbed
<1>5. ASSUME NEW s \in shop'[e.auth], NEW t \in shop'[e.auth], s < t, t <= round'[e.auth].mark, t \in Stored(e.auth)',
             Cardinality({x \in shop'[e.auth] : x > t}) >= n * PageSize
      PROVE  s \in Stored(e.auth)'
  <2>1. s \in Int /\ t \in Int /\ round[e.auth].mark \in Int /\ round'[e.auth].mark = round[e.auth].mark
    <3>1. shop'[e.auth] \in SUBSET Sale
      BY <1>1 DEF TypeInv, Types
    <3> QED
      BY <1>1, <1>2, <3>1, TopTypes DEF Sale, Undisturbed
  <2>2. CASE \A x \in shop'[e.auth] : x <= round[e.auth].mark => x \in Stored(e.auth)'
    BY <1>5, <2>1, <2>2
  <2>3. CASE shop'[e.auth] = shop[e.auth] /\ \A x \in shop[e.auth] : x \in Stored(e.auth)' => x \in Stored(e.auth)
    <3>1. s \in Stored(e.auth)
      BY <1>3, <1>5, <2>1, <2>3 DEF Layered, Newer
    <3> QED
      BY <1>2, <2>3, <3>1 DEF Undisturbed
  <2> QED
    BY <1>2, <2>2, <2>3 DEF Undisturbed
<1>6. round'[e.auth].mark = round[e.auth].mark
  BY <1>2 DEF Undisturbed
<1> QED
  BY <1>4, <1>5, <1>6 DEF Layered, Newer

(* Nor does another sync of the user take its place, as long as no entry of  *)
(* that one waits.                                                           *)
Unrivalled(a) == Undisturbed(a) \/ (round'[a].whole => NoneHas(queue, round'[a].id))
LEMMA WaitingKept ==
  ASSUME TypeInv, TypeInv', WaitingOpen, NEW f \in Element, In(queue, f), f.page > 1, Unrivalled(f.auth)
  PROVE  Open(f, f.id, f.page - 1)'
<1>1. f.auth \in User /\ f.id \in Nat /\ f.page - 1 \in Nat
  BY DEF Element
<1>2. Open(f, f.id, f.page - 1)
  BY DEF WaitingOpen
<1>3. CASE Undisturbed(f.auth)
  BY <1>1, <1>2, <1>3, OpenKept
<1>4. CASE round'[f.auth].whole => NoneHas(queue, round'[f.auth].id)
  <2>1. Stopping(f) => SyncId(f) = f.id
    BY DEF Stopping, SyncId, IsSync
  <2>2. Stopping(f) => ~Whole(f.auth, f.id)'
    BY <1>4, <2>1, NoneIn DEF Whole
  <2> QED
    BY <2>2 DEF Open
<1> QED
  BY <1>3, <1>4 DEF Unrivalled

(* What waits stays so if nothing is added.                                  *)
LEMMA WaitingStays ==
  ASSUME TypeInv, TypeInv', WaitingOpen, \A a \in User : Unrivalled(a), \A f : In(queue', f) => In(queue, f)
  PROVE  WaitingOpen'
<1>1. \A f \in Element : f.auth \in User
  BY DEF Element
<1> QED
  BY <1>1, WaitingKept DEF WaitingOpen

(* What waits after an entry is added.                                       *)
LEMMA AddedIn ==
  ASSUME TypeInv, SyncInv, NEW e \in Element,
         queue' = queue \/ (Put(e) /\ (IsSync(e) /\ e.id # 0 => NoneHas(queue, e.id)))
  PROVE  /\ \A f : In(queue', f) => f = e \/ In(queue, f)
         /\ \A id \in Nat : id # SyncId(e) /\ NoneHas(queue, id) => NoneHas(queue', id)
<1>1. \A f : In(queue', f) => f = e \/ In(queue, f)
  <2>1. CASE queue' = queue
    BY <2>1
  <2>2. CASE queue' # queue
    <3>1. PICK p \in Priority : queue' = [queue EXCEPT ![p] = Append(@, e)] \/ queue' = [queue EXCEPT ![p] = <<e>> \o @]
      BY <2>2 DEF Put
    <3>2. queue \in [Priority -> Seq(Element)] /\ Alone(queue) /\ (IsSync(e) /\ e.id # 0 => NoneHas(queue, e.id))
      BY <2>2 DEF SyncInv, TypeInv, Types
    <3> QED
      BY <3>1, <3>2, PutAlone
  <2> QED
    BY <2>1, <2>2
<1> QED
  BY <1>1, NoneIn

(* What waits stays so if what is added does.                                *)
LEMMA WaitingAdded ==
  ASSUME TypeInv, TypeInv', SyncInv, WaitingOpen, \A a \in User : Unrivalled(a),
         NEW e \in Element, queue' = queue \/ (Put(e) /\ (IsSync(e) /\ e.id # 0 => NoneHas(queue, e.id))),
         e.page > 1 => Open(e, e.id, e.page - 1)'
  PROVE  WaitingOpen'
<1>1. \A f : In(queue', f) => f = e \/ In(queue, f)
  BY AddedIn
<1>2. \A f \in Element : f.auth \in User
  BY DEF Element
<1> QED
  BY <1>1, <1>2, WaitingKept DEF WaitingOpen

-----------------------------------------------------------------------------
(* The steps that read, stamp and list nothing.                              *)
Still == UNCHANGED <<round, sales, shop, posted>>

LEMMA StillSteps ==
  ASSUME TypeInv, [Next]_vars
  PROVE  \/ Still
         \/ SaveSync \/ SyncPage \/ Bury \/ CleanSales \/ (BeginSync /\ work.entry.page = 1)
         \/ \E a \in User : AddSale(a) \/ List(a) \/ \E s \in Sale : Delist(a, s) \/ UpdateSale(a, s)
<1>1. BeginSync /\ work.entry.page # 1 => Still
  BY DEF BeginSync, Still
<1>2. \A p \in Priority : Take(p) => Still
  BY DEF Take, Still, store
<1>3. \A a \in User : Validate(a) => Still
  BY DEF Validate, ListUsers, ScheduleReconcile, ScheduleRefresh, TakeLock, ScheduleAdjust, Still, store
<1>4. Skip \/ NextPage \/ EnqueueLink \/ LinkSales \/ AdjustSales \/ SaveAdjusted
        \/ RateLimit \/ Requeue \/ Refused => Still
  BY DEF Skip, NextPage, EnqueueLink, LinkSales, AdjustSales, SaveAdjusted, RateLimit, Requeue, Refused, Still, store
<1>5. \A a \in User, kind \in {"refresh", "reconcile"} : AdminSync(a, kind) => Still
  BY DEF AdminSync, Still, store
<1>6. Tick \/ UNCHANGED vars => Still
  BY DEF Tick, vars, Still, store
<1> QED
  BY <1>1, <1>2, <1>3, <1>4, <1>5, <1>6 DEF Next, WorkerStep

(* The steps of a sync that do, by where the worker goes.                    *)
LEMMA WorkMoves ==
  ASSUME TypeInv
  PROVE  /\ SaveSync => work.pc = "save" /\ work'.pc = "idle"
         /\ SyncPage => work.pc = "sync" /\ work'.pc = "synced"
         /\ CleanSales => work.pc = "synced" /\ work'.pc = "cleaned"
<1>1. work \in WorkRecord
  BY DEF TypeInv, Types
<1>2. SaveSync => work.pc = "save" /\ work'.pc = "idle"
  BY IdleTypes DEF SaveSync, Done
<1>3. SyncPage => work.pc = "sync" /\ work'.pc = "synced"
  BY <1>1 DEF SyncPage, WorkRecord
<1>4. CleanSales => work.pc = "synced" /\ work'.pc = "cleaned"
  BY <1>1 DEF CleanSales, WorkRecord
<1> QED
  BY <1>2, <1>3, <1>4

(* They disturb nothing.                                                     *)
LEMMA StillUndisturbed ==
  ASSUME TypeInv, TypeInv', Marks, [Next]_vars, Still, ~SaveSync, NEW a \in User
  PROVE  Undisturbed(a)
<1>1. Top(a)' <= Top(a)
  BY CopiesKept DEF Copied, Raised
<1> QED
  BY <1>1 DEF Still, Undisturbed, Stored

(* The order of the sales up to one is not lost while nothing below it is    *)
(* stored, listed or removed.                                                *)
LEMMA OrderKept ==
  ASSUME TypeInv, TypeInv', NEW a \in User, Ordered(a, Top(a)), Top(a)' <= Top(a),
         \A s \in shop'[a] : s <= Top(a) => s \in shop[a] /\ (s \in Stored(a)' <=> s \in Stored(a))
  PROVE  Ordered(a, Top(a))'
<1>1. Top(a) \in Int /\ Top(a)' \in Int /\ shop'[a] \subseteq Int
  <2>1. shop'[a] \in SUBSET Sale
    BY DEF TypeInv, Types
  <2> QED
    BY <2>1, TopTypes DEF Sale
<1>2. ASSUME NEW s \in shop'[a], NEW t \in shop'[a], s < t, t <= Top(a)', t \in Stored(a)'
      PROVE  s \in Stored(a)'
  <2>1. s \in Int /\ t \in Int /\ s <= Top(a) /\ t <= Top(a)
    BY <1>1, <1>2
  <2> QED
    BY <1>2, <2>1 DEF Ordered
<1> QED
  BY <1>2 DEF Ordered

(* Such a step leaves the worker past its page only if it was.              *)
LEMMA StillWork ==
  ASSUME TypeInv, [Next]_vars, Still, ~SaveSync, ~SyncPage, ~CleanSales, work'.pc \in {"synced", "cleaned", "save"}
  PROVE  work.pc \in {"synced", "cleaned", "save"} /\ work'.entry = work.entry
<1>1. work \in WorkRecord
  BY DEF TypeInv, Types
<1>2. CASE EnqueueLink
  BY <1>1, <1>2 DEF EnqueueLink, WorkRecord
<1>3. CASE ~EnqueueLink
  <2>1. work' = work \/ work'.pc \in {"idle", "loaded", "sync", "adjusted"}
    <3>1. Skip \/ NextPage \/ LinkSales \/ SaveAdjusted \/ RateLimit \/ Requeue \/ Bury \/ Refused => work'.pc = "idle"
      BY IdleTypes DEF Skip, NextPage, LinkSales, SaveAdjusted, RateLimit, Requeue, Bury, Refused, Done
    <3>2. (\E p \in Priority : Take(p)) \/ AdjustSales => work'.pc \in {"loaded", "adjusted"}
      <4>1. \A p \in Priority : Take(p) => work'.pc = "loaded"
        BY DEF Take
      <4>2. AdjustSales => work'.pc = "adjusted"
        BY <1>1 DEF AdjustSales, WorkRecord
      <4> QED
        BY <4>1, <4>2
    <3>3. BeginSync => work'.pc = "sync"
      <4>1. PICK u, id : u = Locked(work.entry, work.user) /\ id = IF work.entry.id = 0 THEN ids + 1 ELSE work.entry.id
        OBVIOUS
      <4>2. BeginSync => \/ work' = [work EXCEPT !.pc = "sync"]
                         \/ work' = [work EXCEPT !.pc = "sync", !.user = u, !.id = id]
        BY <4>1 DEF BeginSync
      <4> QED
        BY <1>1, <4>2 DEF WorkRecord
    <3>4. \/ Tick \/ UNCHANGED vars \/ \E a \in User : AddSale(a) \/ List(a) \/ Validate(a)
          \/ \E a \in User, kind \in {"refresh", "reconcile"} : AdminSync(a, kind)
          \/ \E a \in User, s \in Sale : Delist(a, s) \/ UpdateSale(a, s)
          => work' = work
      BY DEF AddSale, UpdateSale, Validate, ListUsers, ScheduleReconcile, ScheduleRefresh, TakeLock, ScheduleAdjust,
         List, Delist, AdminSync, Tick, vars
    <3> QED
      BY <1>3, <3>1, <3>2, <3>3, <3>4 DEF Next, WorkerStep
  <2> QED
    BY <2>1
<1> QED
  BY <1>2, <1>3

(* What a sync has stored of the sales listed when it began stays stored.    *)
LEMMA CaughtKept ==
  ASSUME SyncInv, NEW e \in Element, NEW id \in Nat, CaughtUp(e, id), Undisturbed(e.auth),
         round'[e.auth].listed = round[e.auth].listed
  PROVE  CaughtUp(e, id)'
<1>1. e.auth \in User
  BY DEF Element
<1>2. round[e.auth].whole => round[e.auth].listed \subseteq shop[e.auth]
  BY <1>1 DEF SyncInv, Rounds
<1> QED
  BY <1>2 DEF CaughtUp, Whole, Undisturbed

(* The worker's entry, while others act.                                     *)
LEMMA WorkKept ==
  ASSUME TypeInv, TypeInv', SyncInv, WorkOpen, work' = work,
         \A a \in User : Undisturbed(a) /\ round'[a].listed = round[a].listed,
         \A id \in Nat : id # 0 /\ NoneHas(queue, id) => NoneHas(queue', id)
  PROVE  WorkOpen'
<1> SUFFICES ASSUME NEW e \in Element, NEW id \in Nat, work.entry = e, work.id = id
             PROVE  /\ work.pc = "loaded" /\ e.page > 1 => Open(e, id, e.page - 1)'
                    /\ work.pc = "sync" => Open(e, id, e.page - 1)'
                    /\ work.pc = "synced" /\ ~work.last => Open(e, id, e.page)'
                    /\ work.pc = "synced" /\ work.last /\ e.kind = "refresh" => CaughtUp(e, id)'
                    /\ work.pc \in {"cleaned", "save"} =>
                         /\ CaughtUp(e, id)' /\ id # 0 /\ NoneHas(queue', id)
                         /\ round'[e.auth].whole => round'[e.auth].id = id
  BY DEF WorkOpen
<1>1. e.auth \in User /\ e.page \in Nat /\ (e.page >= 1 => e.page - 1 \in Nat)
  BY DEF Element
<1>2. work.pc = "sync" => e.page >= 1
  <2>1. work.pc = "sync" => IsSync(e)
    BY DEF TypeInv, Loaded, IsSync
  <2> QED
    BY <2>1 DEF SyncInv, WorkOk, Ok
<1>3. ASSUME NEW n \in Nat, Open(e, id, n)
      PROVE  Open(e, id, n)'
  BY <1>1, <1>3, OpenKept
<1>4. CaughtUp(e, id) => CaughtUp(e, id)'
  BY <1>1, CaughtKept
<1>5. /\ work.pc = "loaded" /\ e.page > 1 => Open(e, id, e.page - 1)
      /\ work.pc = "sync" => Open(e, id, e.page - 1)
      /\ work.pc = "synced" /\ ~work.last => Open(e, id, e.page)
      /\ work.pc = "synced" /\ work.last /\ e.kind = "refresh" => CaughtUp(e, id)
      /\ work.pc \in {"cleaned", "save"} =>
           /\ CaughtUp(e, id) /\ id # 0 /\ NoneHas(queue, id)
           /\ round[e.auth].whole => round[e.auth].id = id
  BY DEF WorkOpen
<1>6. work.pc = "loaded" /\ e.page > 1 => Open(e, id, e.page - 1)'
  BY <1>1, <1>3, <1>5
<1>7. work.pc = "sync" => Open(e, id, e.page - 1)'
  BY <1>1, <1>2, <1>3, <1>5
<1>8. work.pc = "synced" /\ ~work.last => Open(e, id, e.page)'
  BY <1>1, <1>3, <1>5
<1>9. round'[e.auth].whole => round[e.auth].whole /\ round'[e.auth].id = round[e.auth].id
  BY <1>1 DEF Undisturbed
<1> QED
  BY <1>4, <1>5, <1>6, <1>7, <1>8, <1>9

(* The sales in order stay so in a step that is no sync's.                   *)
LEMMA StillSounds ==
  ASSUME TypeInv, TypeInv', CatchInv, [Next]_vars, Still, ~SaveSync, ~SyncPage, ~CleanSales
  PROVE  Sounds'
<1> SUFFICES ASSUME NEW a \in User, round'[a].sound
             PROVE  Ordered(a, Top(a))' /\ ~(Busy(a)' /\ work'.pc \in {"synced", "cleaned", "save"})
  BY DEF Sounds
<1>1. Ordered(a, Top(a)) /\ ~(Busy(a) /\ work.pc \in {"synced", "cleaned", "save"})
  BY DEF CatchInv, Sounds, Still
<1>2. Top(a)' <= Top(a)
  BY CopiesKept DEF Copied, Raised, CatchInv
<1>3. Ordered(a, Top(a))'
  BY <1>1, <1>2, OrderKept DEF Still, Stored
<1>4. Busy(a)' /\ work'.pc \in {"synced", "cleaned", "save"} => Busy(a)
  BY StillWork DEF Busy
<1>5. Busy(a)' /\ work'.pc \in {"synced", "cleaned", "save"} => work.pc \in {"synced", "cleaned", "save"}
  BY StillWork
<1> QED
  BY <1>1, <1>3, <1>4, <1>5

(* Steps that leave the worker idle, or about to save.                       *)
LEMMA RestingOpen ==
  ASSUME TypeInv, TypeInv', SyncInv, CatchInv,
         \/ Skip \/ LinkSales \/ SaveAdjusted \/ Refused
         \/ RateLimit \/ Requeue \/ NextPage \/ EnqueueLink \/ AdjustSales
  PROVE  Sounds' /\ WaitingOpen' /\ WorkOpen'
<1> DEFINE w == work.entry
<1>1. /\ w \in Element /\ w.auth \in User /\ w.id \in Nat /\ w.page \in Nat /\ work.id \in Nat /\ w.prio \in Priority
      /\ w.kind \in Kind /\ w.force \in BOOLEAN /\ work \in WorkRecord
      /\ work.pc \in {"sync", "synced", "cleaned", "save"} => IsSync(w)
  BY DEF TypeInv, Types, Loaded, Element, WorkRecord, IsSync, Skip, LinkSales, SaveAdjusted, Refused,
         RateLimit, Requeue, NextPage, EnqueueLink, AdjustSales
<1>2. [Next]_vars /\ Still
  BY DEF Next, WorkerStep, Skip, NextPage, EnqueueLink, LinkSales, AdjustSales, SaveAdjusted, RateLimit, Requeue,
     Refused, Still, store
<1>3. ~SaveSync /\ ~SyncPage /\ ~CleanSales
  <2>1. work'.pc \in {"idle", "adjusted"} \/ EnqueueLink
    BY <1>1, IdleTypes DEF Skip, LinkSales, SaveAdjusted, Refused, RateLimit, Requeue, NextPage, AdjustSales,
       Done, WorkRecord
  <2>2. EnqueueLink => work'.pc = "save" /\ work.pc # "save"
    BY <1>1 DEF EnqueueLink, WorkRecord
  <2>3. SyncPage => work'.pc = "synced"
    BY <1>1 DEF SyncPage, WorkRecord
  <2>4. CleanSales => work'.pc = "cleaned"
    BY <1>1 DEF CleanSales, WorkRecord
  <2>5. SaveSync => work.pc = "save"
    BY DEF SaveSync
  <2>6. Skip \/ LinkSales \/ SaveAdjusted \/ Refused \/ RateLimit \/ Requeue \/ NextPage \/ AdjustSales => work.pc # "save"
    BY DEF Skip, LinkSales, SaveAdjusted, Refused, RateLimit, Requeue, NextPage, AdjustSales
  <2> QED
    BY <2>1, <2>2, <2>3, <2>4, <2>5, <2>6
<1>4. Sounds' /\ \A a \in User : Undisturbed(a) /\ round'[a].listed = round[a].listed
  BY <1>2, <1>3, StillSounds, StillUndisturbed DEF CatchInv, Still
<1>5. ASSUME NEW e \in Element, NEW id \in Nat, NEW n \in Nat, Open(e, id, n)
      PROVE  Open(e, id, n)'
  <2>1. Undisturbed(e.auth)
    BY <1>4 DEF Element
  <2> QED
    BY <1>5, <2>1, OpenKept
<1>6. ASSUME NEW e \in Element, queue' = queue \/ (Put(e) /\ (IsSync(e) /\ e.id # 0 => NoneHas(queue, e.id))),
             e.page > 1 => Open(e, e.id, e.page - 1)
      PROVE  WaitingOpen'
  <2>1. e.id \in Nat /\ (e.page > 1 => e.page - 1 \in Nat)
    BY DEF Element
  <2>2. e.page > 1 => Open(e, e.id, e.page - 1)'
    BY <1>5, <1>6, <2>1
  <2>3. WaitingOpen /\ \A a \in User : Unrivalled(a)
    BY <1>4 DEF Unrivalled, CatchInv
  <2> QED
    BY <1>6, <2>2, <2>3, WaitingAdded
<1>7. ~EnqueueLink => WorkOpen'
  <2>1. ~EnqueueLink => work'.pc \in {"idle", "adjusted"}
    BY <1>1, IdleTypes DEF Skip, LinkSales, SaveAdjusted, Refused, RateLimit, Requeue, NextPage, AdjustSales,
       Done, WorkRecord
  <2> QED
    BY <2>1 DEF WorkOpen
<1>8. CASE Skip \/ LinkSales \/ SaveAdjusted \/ Refused
  <2>1. queue' = queue /\ ~EnqueueLink
    BY <1>8 DEF Skip, LinkSales, SaveAdjusted, Refused, EnqueueLink, Done, Idle
  <2>2. WaitingOpen'
    <3> SUFFICES ASSUME NEW f \in Element, In(queue, f), f.page > 1 PROVE Open(f, f.id, f.page - 1)'
      BY <2>1 DEF WaitingOpen
    <3>1. Unrivalled(f.auth)
      BY <1>4 DEF Unrivalled, Element
    <3> QED
      BY <3>1, WaitingKept DEF CatchInv
  <2> QED
    BY <1>4, <1>7, <2>1, <2>2
<1>9. work.pc = "sync" => /\ work.id # 0 /\ NoneHas(queue, work.id) /\ Open(w, work.id, w.page - 1)
                          /\ (w.id = work.id \/ (w.id = 0 /\ w.page = 1))
  BY <1>1 DEF SyncInv, WorkOk, CatchInv, WorkOpen
<1>10. CASE RateLimit
  <2>1. work.pc = "sync" /\ Put(w) /\ ~EnqueueLink
    BY <1>1, <1>10 DEF RateLimit, Put, EnqueueLink
  <2>2. /\ IsSync(w) /\ w.id # 0 => NoneHas(queue, w.id)
        /\ w.page > 1 => Open(w, w.id, w.page - 1)
    BY <1>9, <2>1
  <2>3. WaitingOpen'
    BY <1>1, <1>6, <2>1, <2>2
  <2> QED
    BY <1>4, <1>7, <2>1, <2>3
<1>11. CASE Requeue
  <2>1. work.pc = "sync" /\ ~EnqueueLink /\ [w EXCEPT !.id = work.id] \in Element
    BY <1>1, <1>11, Fields DEF Requeue, EnqueueLink
  <2>2. PICK e \in Element : e = [w EXCEPT !.id = work.id]
    BY <2>1
  <2>3. /\ e.prio \in Priority /\ e.id = work.id /\ e.kind = w.kind /\ e.page = w.page /\ e.auth = w.auth
        /\ e.force = w.force
    BY <1>1, <2>2 DEF Element
  <2>4. Put(e)
    BY <1>11, <2>2, <2>3 DEF Put, Requeue
  <2>5. NoneHas(queue, e.id) /\ Open(e, e.id, e.page - 1)
    BY <1>9, <2>1, <2>3 DEF Open, Stopping
  <2>6. WaitingOpen'
    BY <1>6, <2>4, <2>5
  <2> QED
    BY <1>4, <1>7, <2>1, <2>6
<1>12. CASE NextPage
  <2> DEFINE e == Sync(w.kind, w.auth, w.page + 1, work.id, w.force, "UNSET")
  <2>1. /\ e \in Element /\ e.kind = w.kind /\ e.auth = w.auth /\ e.page = w.page + 1 /\ e.id = work.id
        /\ e.force = w.force
    BY <1>1 DEF Sync, Element, Priority
  <2>2. work.pc = "synced" /\ ~work.last /\ Ensure(e) /\ ~EnqueueLink
    BY <1>12 DEF NextPage, EnqueueLink, Done, Idle
  <2> HIDE DEF e
  <2>3. Read(w, work.id) /\ (work.id # 0 => NoneHas(queue, work.id)) /\ Open(w, work.id, w.page)
    BY <1>1, <2>2 DEF SyncInv, WorkOk, CatchInv, WorkOpen
  <2>4. e.page - 1 = w.page
    BY <1>1, <2>1
  <2>5. NoneHas(queue, e.id) /\ Open(e, e.id, e.page - 1)
    BY <2>1, <2>3, <2>4 DEF Read, Open, Stopping
  <2>6. queue' = queue \/ Put(e)
    BY <2>1, <2>2, EnsurePuts
  <2>7. WaitingOpen'
    BY <1>6, <2>1, <2>5, <2>6
  <2> QED
    BY <1>4, <1>7, <2>2, <2>7
<1>13. CASE EnqueueLink
  <2> DEFINE e == Link(w.auth, work.id)
  <2>1. e \in Element /\ e.kind = "link" /\ e.id \in Nat /\ e.page = 0
    BY <1>1 DEF Link, Sync, Element, Kind, Priority
  <2>2. Ensure(e)
    BY <1>13 DEF EnqueueLink
  <2> HIDE DEF e
  <2>3. ~IsSync(e) /\ SyncId(e) = 0
    BY <2>1 DEF IsSync, SyncId
  <2>4. queue' = queue \/ Put(e)
    BY <2>1, <2>2, EnsurePuts
  <2>5. WaitingOpen'
    BY <1>6, <2>1, <2>3, <2>4
  <2>6. \A id \in Nat : id # 0 /\ NoneHas(queue, id) => NoneHas(queue', id)
    BY <2>1, <2>3, <2>4, AddedIn
  <2>7. work'.pc = "save" /\ work'.entry = w /\ work'.id = work.id
    BY <1>1, <1>13 DEF EnqueueLink, WorkRecord
  <2>8. /\ CaughtUp(w, work.id) /\ work.id # 0 /\ NoneHas(queue, work.id)
        /\ round[w.auth].whole => round[w.auth].id = work.id
    BY <1>1, <1>13 DEF EnqueueLink, CatchInv, WorkOpen, SyncInv, WorkOk, Read
  <2>9. WorkOpen'
    <3>1. PICK v \in Element, i \in Nat : v = w /\ i = work.id
      BY <1>1
    <3>2. CaughtUp(v, i)'
      BY <1>1, <1>4, <2>8, <3>1, CaughtKept
    <3>3. i # 0 /\ NoneHas(queue', i) /\ (round'[v.auth].whole => round'[v.auth].id = i)
      BY <1>2, <2>6, <2>8, <3>1 DEF Still
    <3>4. work'.entry = v /\ work'.id = i
      BY <2>7, <3>1
    <3> QED
      BY <2>7, <3>2, <3>3, <3>4 DEF WorkOpen
  <2> QED
    BY <1>4, <2>5, <2>9
<1>14. CASE AdjustSales
  <2> DEFINE e == Sync("refresh", w.auth, 1, 0, TRUE, "UNSET")
  <2>1. e \in Element /\ e.id = 0 /\ e.page = 1
    BY <1>1 DEF Sync, Element, Kind, Priority
  <2>2. (queue' = queue \/ Ensure(e)) /\ ~EnqueueLink
    BY <1>14 DEF AdjustSales, EnqueueLink
  <2> HIDE DEF e
  <2>3. queue' = queue \/ Put(e)
    BY <2>1, <2>2, EnsurePuts
  <2>4. WaitingOpen'
    BY <1>6, <2>1, <2>3
  <2> QED
    BY <1>4, <1>7, <2>2, <2>4
<1> QED
  BY <1>8, <1>10, <1>11, <1>12, <1>13, <1>14

(* The validator, the administrator and time.                                *)
LEMMA CallersOpen ==
  ASSUME TypeInv, TypeInv', SyncInv, CatchInv,
         \/ Tick \/ UNCHANGED vars \/ \E a \in User : Validate(a)
         \/ \E a \in User, kind \in {"refresh", "reconcile"} : AdminSync(a, kind)
  PROVE  Sounds' /\ WaitingOpen' /\ WorkOpen'
<1>1. Settled /\ work' = work
  BY CallersPut
<1>2. [Next]_vars /\ Still
  BY DEF Next, Tick, Validate, ListUsers, ScheduleReconcile, ScheduleRefresh, TakeLock, ScheduleAdjust,
     AdminSync, Still, store, vars
<1>3. ~SaveSync /\ ~SyncPage /\ ~CleanSales
  BY <1>1, WorkMoves
<1>4. Sounds' /\ \A a \in User : Undisturbed(a) /\ round'[a].listed = round[a].listed
  BY <1>2, <1>3, StillSounds, StillUndisturbed DEF CatchInv, Still
<1>5. WaitingOpen /\ WorkOpen /\ \A a \in User : Unrivalled(a)
  BY <1>4 DEF Unrivalled, CatchInv
<1>6. WaitingOpen' /\ \A id \in Nat : id # 0 /\ NoneHas(queue, id) => NoneHas(queue', id)
  <2>1. CASE queue' = queue
    BY <1>5, <2>1, WaitingStays
  <2>2. CASE queue' # queue
    <3>1. PICK e \in Element : Put(e) /\ (~IsSync(e) \/ (e.id = 0 /\ e.page = 1))
      BY <2>2, CallersPut
    <3>2. SyncId(e) = 0 /\ ~(IsSync(e) /\ e.id # 0)
      BY <3>1 DEF SyncId
    <3>3. e.page > 1 => Open(e, e.id, e.page - 1)'
      BY <3>1 DEF Open, Stopping, IsSync
    <3> QED
      BY <1>5, <3>1, <3>2, <3>3, WaitingAdded, AddedIn
  <2> QED
    BY <2>1, <2>2
<1>7. WorkOpen'
  BY <1>1, <1>4, <1>5, <1>6, WorkKept
<1> QED
  BY <1>4, <1>6, <1>7

(* An entry taken.                                                           *)
LEMMA TakeOpen ==
  ASSUME TypeInv, TypeInv', SyncInv, CatchInv, NEW p \in Priority, Take(p)
  PROVE  Sounds' /\ WaitingOpen' /\ WorkOpen'
<1>1. /\ queue \in [Priority -> Seq(Element)] /\ queue[p] # <<>> /\ queue' = [queue EXCEPT ![p] = Tail(@)]
      /\ work.pc = "idle" /\ work'.pc = "loaded"
  BY DEF TypeInv, Types, Take
<1>2. PICK e \in Element : e = Head(queue[p])
  <2>1. queue[p] \in Seq(Element)
    BY <1>1
  <2>2. Head(queue[p]) \in Element
    BY <1>1, <2>1
  <2> QED
    BY <2>2
<1>3. In(queue, e) /\ \A f : In(queue', f) => In(queue, f)
  <2>1. Alone(queue)
    BY DEF SyncInv
  <2> QED
    BY <1>1, <1>2, <2>1, TakeAlone, ZenonT(60)
<1>4. [Next]_vars /\ Still
  BY DEF Next, WorkerStep, Take, Still, store
<1>5. ~SaveSync /\ ~SyncPage /\ ~CleanSales
  BY <1>1, WorkMoves
<1>6. Sounds' /\ \A a \in User : Undisturbed(a)
  BY <1>4, <1>5, StillSounds, StillUndisturbed DEF CatchInv
<1>7. WaitingOpen'
  BY <1>3, <1>6, WaitingStays DEF Unrivalled, CatchInv
<1>8. work'.entry = e /\ work'.id = e.id
  BY <1>2 DEF Take
<1>9. e.page > 1 => Open(e, e.id, e.page - 1)'
  <2>1. e.auth \in User
    BY DEF Element
  <2> QED
    BY <1>3, <1>6, <2>1, WaitingKept DEF Unrivalled, CatchInv
<1>10. WorkOpen'
  BY <1>1, <1>8, <1>9 DEF WorkOpen
<1> QED
  BY <1>6, <1>7, <1>10

(* A later page of a sync goes on where the last one ended, the first one    *)
(* begins with what the last sync left.                                      *)
LEMMA BeginOpen ==
  ASSUME TypeInv, TypeInv', SyncInv, SyncInv', CatchInv, BeginSync
  PROVE  Sounds' /\ WaitingOpen' /\ WorkOpen'
<1>1. PICK e \in Element : work.entry = e /\ work.pc = "loaded" /\ IsSync(e)
  BY DEF TypeInv, Types, Loaded, BeginSync, IsSync
<1>2. PICK id \in Nat : id = IF e.id = 0 THEN ids + 1 ELSE e.id
  <2>1. e.id \in Nat /\ ids \in Nat
    BY DEF TypeInv, Types, Element
  <2>2. (IF e.id = 0 THEN ids + 1 ELSE e.id) \in Nat
    BY <2>1
  <2> QED
    BY <2>2
<1>3. /\ e.auth \in User /\ e.page \in Nat /\ e.id \in Nat /\ work.id = e.id /\ work \in WorkRecord
      /\ Ok(e, e.id) /\ round \in [User -> Round] /\ shop \in [User -> SUBSET Sale] /\ shop' = shop /\ sales' = sales
      /\ queue' = queue /\ work.user \in StoredUser
  <2>1. /\ e.auth \in User /\ e.page \in Nat /\ e.id \in Nat /\ work.id \in Nat /\ work \in WorkRecord
        /\ round \in [User -> Round] /\ shop \in [User -> SUBSET Sale] /\ work.user \in StoredUser
    BY <1>1 DEF TypeInv, Types, Loaded, Element, WorkRecord
  <2>2. work.id = e.id /\ Ok(e, e.id)
    BY <1>1, <2>1 DEF SyncInv, WorkOk
  <2>3. shop' = shop /\ sales' = sales /\ queue' = queue
    BY DEF BeginSync
  <2> QED
    BY <2>1, <2>2, <2>3
<1>4. [Next]_vars
  BY DEF Next, WorkerStep
<1>5. ~SaveSync /\ ~SyncPage /\ ~CleanSales
  BY <1>1, WorkMoves
<1>6. Copied
  BY <1>4, CopiesKept DEF CatchInv
<1>7. Top(e.auth) = work.user.upTo
  BY <1>1, <1>3 DEF Top, Busy
<1>8. CASE e.page # 1
  <2>1. work' = [work EXCEPT !.pc = "sync"] /\ round' = round
    BY <1>1, <1>8 DEF BeginSync
  <2>2. work'.pc = "sync" /\ work'.entry = e /\ work'.id = e.id
    BY <1>1, <1>3, <2>1 DEF WorkRecord
  <2>3. Still
    BY <2>1 DEF Still, BeginSync
  <2>4. Sounds' /\ \A a \in User : Undisturbed(a)
    BY <1>4, <1>5, <2>3, StillSounds, StillUndisturbed DEF CatchInv
  <2>5. WaitingOpen'
    BY <1>3, <2>4, WaitingStays DEF Unrivalled, CatchInv
  <2>6. e.page > 1 /\ e.page - 1 \in Nat
    BY <1>1, <1>3, <1>8 DEF Ok
  <2>7. Open(e, e.id, e.page - 1)
    BY <1>1, <1>3, <2>6 DEF CatchInv, WorkOpen
  <2>8. Open(e, e.id, e.page - 1)'
    BY <1>3, <2>4, <2>6, <2>7, OpenKept
  <2>9. WorkOpen'
    BY <2>2, <2>8 DEF WorkOpen
  <2> QED
    BY <2>4, <2>5, <2>9
<1>9. CASE e.page = 1
  <2>1. PICK full : full = (e.kind = "reconcile" \/ e.force)
    OBVIOUS
  <2>2. PICK w, m : /\ w \in BOOLEAN /\ w = (full \/ round[e.auth].sound) /\ m = (IF full THEN 0 ELSE work.user.upTo)
                    /\ round' = [round EXCEPT ![e.auth] = [id |-> id, listed |-> shop[e.auth], mark |-> m, whole |-> w,
                                                           sound |-> round[e.auth].sound]]
    <3>1. PICK m : m = (IF full THEN 0 ELSE work.user.upTo)
      OBVIOUS
    <3>2. round' = [round EXCEPT ![e.auth] =
                      [id |-> id, listed |-> shop[e.auth], mark |-> m,
                       whole |-> full \/ round[e.auth].sound, sound |-> round[e.auth].sound]]
      BY <1>1, <1>2, <1>3, <1>9, <2>1, <3>1 DEF BeginSync
    <3>3. PICK w \in BOOLEAN : w = (full \/ round[e.auth].sound)
      OBVIOUS
    <3> QED
      BY <3>1, <3>2, <3>3
  <2>3. work'.pc = "sync" /\ work'.entry = e /\ work'.id = id
    BY <1>1, <1>2, <1>3, <1>9 DEF BeginSync, WorkRecord
  <2>4. /\ round'[e.auth].id = id /\ round'[e.auth].mark = m /\ round'[e.auth].whole = w
        /\ round'[e.auth].sound = round[e.auth].sound
        /\ \A a \in User \ {e.auth} : round'[a] = round[a]
    BY <1>3, <2>2
  <2>5. NoneHas(queue, id)
    <3>1. id # 0 /\ NoneHas(queue', id)
      BY <1>1, <2>3 DEF SyncInv, WorkOk
    <3> QED
      BY <1>3, <3>1
  <2>6. \A a \in User : Top(a)' <= Top(a)
    BY <1>5, <1>6 DEF Copied, Raised
  <2>7. \A a \in User : Unrivalled(a)
    <3>1. ASSUME NEW a \in User, a # e.auth
          PROVE  Undisturbed(a)
      BY <1>3, <2>4, <2>6, <3>1 DEF Undisturbed, Stored
    <3> QED
      BY <2>4, <2>5, <3>1 DEF Unrivalled
  <2>8. WaitingOpen'
    BY <1>3, <2>7, WaitingStays DEF CatchInv
  <2>9. Sounds'
    <3> SUFFICES ASSUME NEW a \in User, round'[a].sound
                 PROVE  Ordered(a, Top(a))' /\ ~(Busy(a)' /\ work'.pc \in {"synced", "cleaned", "save"})
      BY DEF Sounds
    <3>1. round[a].sound
      BY <2>4
    <3>2. Ordered(a, Top(a))
      BY <3>1 DEF CatchInv, Sounds
    <3>3. Ordered(a, Top(a))'
      BY <1>3, <2>6, <3>2, OrderKept DEF Stored
    <3> QED
      BY <2>3, <3>3
  <2>10. Open(e, id, e.page - 1)'
    <3> SUFFICES ASSUME Stopping(e), w
                 PROVE  Top(e.auth)' <= m /\ Layered(e.auth, round[e.auth].mark, e.page - 1)'
      BY <2>4 DEF Open, Whole
    <3>1. ~full /\ m = Top(e.auth) /\ round[e.auth].sound
      BY <1>1, <1>7, <2>1, <2>2 DEF Stopping
    <3>2. Ordered(e.auth, m)
      BY <1>3, <3>1 DEF CatchInv, Sounds
    <3>3. Layered(e.auth, round[e.auth].mark, e.page - 1)'
      BY <1>3, <2>4, <3>2 DEF Layered, Ordered, Stored
    <3> QED
      BY <1>3, <2>6, <3>1, <3>3
  <2>11. WorkOpen'
    BY <2>3, <2>10 DEF WorkOpen
  <2> QED
    BY <2>8, <2>9, <2>11
<1> QED
  BY <1>8, <1>9

(* Of two sales, the later one has no more newer ones.                       *)
LEMMA NewerFalls ==
  ASSUME TypeInv, NEW a \in User, NEW s \in Int, NEW t \in Int, t <= s
  PROVE  Newer(a, s) \in Nat /\ Newer(a, t) \in Nat /\ Newer(a, s) <= Newer(a, t)
<1>1. IsFiniteSet(Sale) /\ Sale \subseteq Int
  BY FS_Interval, BoundsAssumption DEF Sale
<1>2. shop[a] \in SUBSET Sale
  BY DEF TypeInv, Types
<1>3. IsFiniteSet({x \in shop[a] : x > t}) /\ {x \in shop[a] : x > s} \subseteq {x \in shop[a] : x > t}
  <2>1. IsFiniteSet(shop[a]) /\ shop[a] \subseteq Int
    BY <1>1, <1>2, FS_Subset
  <2>2. {x \in shop[a] : x > t} \subseteq shop[a]
    OBVIOUS
  <2> QED
    BY <2>1, <2>2, FS_Subset
<1>4. IsFiniteSet({x \in shop[a] : x > s})
  BY <1>3, FS_Subset
<1> QED
  BY <1>3, <1>4, FS_Subset, FS_CardinalityType DEF Newer

(* A page read: a refresh that stops on it has stored everything that was    *)
(* listed when it began, and one that goes on may stop on a later page.      *)
LEMMA PageOpen ==
  ASSUME TypeInv, TypeInv', SyncInv, CatchInv, SyncPage \/ Bury
  PROVE  Sounds' /\ WaitingOpen' /\ WorkOpen'
<1>1. PICK e \in Element, id \in Nat : work.entry = e /\ work.id = id
  BY DEF TypeInv, Types, Loaded, WorkRecord, SyncPage, Bury
<1>2. /\ e.auth \in User /\ e.page \in Nat /\ work \in WorkRecord /\ round \in [User -> Round]
      /\ sales \in [User -> [Sale -> Nat \cup {None}]] /\ shop \in [User -> SUBSET Sale] /\ IsSync(e)
      /\ work.pc = "sync"
  BY <1>1 DEF TypeInv, Types, Loaded, Element, IsSync, SyncPage, Bury
<1>3. id # 0 /\ Ok(e, id) /\ NoneHas(queue, id) /\ Open(e, id, e.page - 1)
  BY <1>1, <1>2 DEF SyncInv, WorkOk, CatchInv, WorkOpen
<1>4. shop' = shop /\ queue' = queue /\ user' = user /\ [Next]_vars
  BY DEF SyncPage, Bury, Next, WorkerStep
<1>5. /\ \A b \in User : /\ round'[b].id = round[b].id /\ round'[b].listed = round[b].listed
                         /\ round'[b].mark = round[b].mark /\ (round'[b].whole => round[b].whole)
                         /\ b # e.auth => round'[b] = round[b]
      /\ ~round'[e.auth].sound /\ (round'[e.auth].whole => round[e.auth].id = id)
  <2>1. Disturb(e.auth, id)
    BY <1>1 DEF SyncPage, Bury
  <2> QED
    BY <1>2, <2>1, RoundChanges
<1>6. PICK S : Stamp(e.auth, S, id) /\ (SyncPage => S = Reached(e, work.user))
  BY <1>1 DEF SyncPage, Bury
<1>7. \A b \in User, s \in Sale : sales'[b][s] = IF b = e.auth /\ s \in S THEN id ELSE sales[b][s]
  BY <1>2, <1>6 DEF Stamp
<1>8. \A a \in User : Top(a)' <= Top(a)
  <2>1. ~SaveSync
    BY <1>2, WorkMoves
  <2> QED
    BY <1>4, <2>1, CopiesKept DEF Copied, Raised, CatchInv
<1>9. \A b \in User : b # e.auth => Stored(b)' = Stored(b)
  BY <1>7 DEF Stored
<1>10. \A a \in User : Unrivalled(a)
  <2>1. ASSUME NEW a \in User, a # e.auth
        PROVE  Undisturbed(a)
    BY <1>4, <1>5, <1>8, <1>9, <2>1 DEF Undisturbed
  <2> QED
    BY <1>3, <1>5, <2>1 DEF Unrivalled
<1>11. WaitingOpen'
  BY <1>4, <1>10, WaitingStays DEF CatchInv
<1>12. Sounds'
  <2> SUFFICES ASSUME NEW a \in User, round'[a].sound
               PROVE  Ordered(a, Top(a))' /\ ~(Busy(a)' /\ work'.pc \in {"synced", "cleaned", "save"})
    BY DEF Sounds
  <2>1. a # e.auth /\ round[a].sound
    BY <1>5
  <2>2. Ordered(a, Top(a))
    BY <2>1 DEF CatchInv, Sounds
  <2>3. Ordered(a, Top(a))'
    BY <1>4, <1>8, <1>9, <2>1, <2>2, OrderKept
  <2>4. ~Busy(a)'
    <3>1. work'.pc = "idle" \/ work'.entry = e
      BY <1>1, <1>2, IdleTypes DEF SyncPage, Bury, Done, WorkRecord
    <3> QED
      BY <2>1, <3>1 DEF Busy
  <2> QED
    BY <2>3, <2>4
<1>13. CASE Bury
  <2>1. work'.pc = "idle"
    BY <1>13, IdleTypes DEF Bury, Done
  <2>2. WorkOpen'
    BY <2>1 DEF WorkOpen
  <2> QED
    BY <1>11, <1>12, <2>2
<1>14. CASE SyncPage
  <2> DEFINE a == e.auth
  <2>1. /\ work'.pc = "synced" /\ work'.entry = e /\ work'.id = id
        /\ work'.last = (Stops(e, work.user) # {} \/ LastPage(a, e.page))
    BY <1>1, <1>2, <1>14 DEF SyncPage, WorkRecord
  <2>2. S = Reached(e, work.user)
    BY <1>6, <1>14
  <2>3. PICK lo \in Int, hi \in Int : lo = (e.page - 1) * PageSize /\ hi = e.page * PageSize /\ lo <= hi
    <3>1. PageSize \in Nat /\ e.page \in Nat
      BY <1>2, BoundsAssumption
    <3>2. (e.page - 1) * PageSize = e.page * PageSize - PageSize /\ e.page * PageSize \in Int
      BY <3>1
    <3> QED
      BY <3>1, <3>2
  <2>4. PageOf(a, e.page) = {s \in shop[a] : Newer(a, s) >= lo /\ Newer(a, s) < hi}
    BY <2>3 DEF PageOf
  <2>5. \A s \in Sale : s \in Stored(a) \/ s \in S => s \in Stored(a)'
    BY <1>2, <1>7, NoneAssumption DEF Stored
  <2>6. \A s \in Sale : s \in Stored(a)' => s \in Stored(a) \/ s \in S
    BY <1>2, <1>7 DEF Stored
  <2>7. shop[a] \subseteq Sale /\ Sale \subseteq Int /\ \A s \in Int : Newer(a, s) \in Nat
    <3>1. shop[a] \subseteq Sale /\ Sale \subseteq Int
      BY <1>2 DEF Sale
    <3>2. \A s \in Int : Newer(a, s) \in Nat
      BY <1>2, NewerFalls
    <3> QED
      BY <3>1, <3>2
  <2>8. ASSUME Whole(a, id)'
        PROVE  /\ Whole(a, id) /\ round[a].listed \subseteq shop[a]
               /\ \A s \in round[a].listed : Newer(a, s) < lo => s \in Stored(a)'
               /\ Stopping(e) => Top(a) <= round[a].mark /\ Layered(a, round[a].mark, e.page - 1)
    <3>1. Whole(a, id)
      BY <1>2, <1>5, <2>8 DEF Whole
    <3>2. round[a].listed \subseteq shop[a]
      BY <1>2, <3>1 DEF SyncInv, Rounds, Whole
    <3>3. ASSUME NEW s \in round[a].listed, Newer(a, s) < lo
          PROVE  s \in Stored(a)'
      <4>1. sales[a][s] = id
        BY <1>2, <1>3, <2>3, <3>1, <3>3 DEF Ok, ReadTo, Whole
      <4>2. s \in Stored(a)
        BY <2>7, <3>2, <4>1, NoneAssumption DEF Stored
      <4> QED
        BY <2>5, <2>7, <3>2, <4>2
    <3>4. Stopping(e) => Top(a) <= round[a].mark /\ Layered(a, round[a].mark, e.page - 1)
      BY <1>3, <3>1 DEF Open
    <3> QED
      BY <3>1, <3>2, <3>3, <3>4
  <2>9. ASSUME ~work'.last
        PROVE  Open(e, id, e.page)'
    <3> SUFFICES ASSUME Stopping(e), Whole(a, id)'
                 PROVE  Top(a)' <= round'[a].mark /\ Layered(a, round[a].mark, e.page)'
      BY DEF Open
    <3>1. Top(a) <= round[a].mark /\ Layered(a, round[a].mark, e.page - 1)
      BY <2>8
    <3>2. Top(a)' <= round'[a].mark
      BY <1>2, <1>5, <1>8, <3>1, TopTypes
    <3>3. Stops(e, work.user) = {}
      BY <2>1, <2>9
    <3>4. ASSUME NEW s \in shop[a], NEW t \in shop[a], s < t, t <= round[a].mark, t \in Stored(a)', Newer(a, t) >= hi
          PROVE  s \in Stored(a)'
      <4>1. Newer(a, t) >= lo /\ t \notin PageOf(a, e.page)
        <5>1. t \in Int /\ Newer(a, t) \in Nat
          BY <2>7
        <5>2. Newer(a, t) >= lo /\ ~(Newer(a, t) < hi)
          BY <2>3, <3>4, <5>1
        <5> QED
          BY <2>4, <5>2
      <4>2. t \notin S
        BY <2>2, <4>1 DEF Reached
      <4>3. t \in Stored(a)
        BY <2>6, <2>7, <3>4, <4>2
      <4>4. s \in Stored(a)
        BY <2>3, <3>1, <3>4, <4>1, <4>3 DEF Layered
      <4> QED
        BY <2>5, <2>7, <4>4
    <3>5. Layered(a, round[a].mark, e.page)'
      BY <1>2, <1>4, <1>5, <2>3, <3>4 DEF Layered, Newer
    <3> QED
      BY <3>2, <3>5
  <2>10. ASSUME work'.last, e.kind = "refresh"
         PROVE  CaughtUp(e, id)'
    <3> SUFFICES ASSUME Whole(a, id)', NEW s \in round[a].listed
                 PROVE  s \in Stored(a)'
      BY <1>2, <1>5 DEF CaughtUp
    <3>1. s \in shop[a] /\ s \in Sale /\ s \in Int /\ Newer(a, s) \in Nat
      BY <2>7, <2>8
    <3>2. CASE Newer(a, s) < lo
      BY <2>8, <3>2
    <3>3. CASE s \in S
      BY <2>5, <3>1, <3>3
    <3>4. ASSUME NEW t \in Stops(e, work.user), ~(Newer(a, s) < lo), s \notin S
          PROVE  s \in Stored(a)'
      <4>1. /\ Stopping(e) /\ t <= work.user.upTo /\ sales[a][t] # None /\ t \in PageOf(a, e.page)
        BY DEF Stops, Stopping
      <4>2. t \in shop[a] /\ t \in Sale /\ t \in Int /\ Newer(a, t) >= lo /\ Newer(a, t) < hi /\ Newer(a, t) \in Nat
        BY <2>4, <2>7, <4>1
      <4>3. PICK u \in Int : u \in Stops(e, work.user) /\ s < u
        <5>1. CASE Newer(a, s) < hi
          <6>1. s \in PageOf(a, e.page)
            BY <2>3, <2>4, <3>1, <3>4, <5>1
          <6>2. PICK u \in Stops(e, work.user) : ~(s >= u)
            BY <2>2, <3>4, <6>1 DEF Reached
          <6>3. u \in Int
            BY <2>7 DEF Stops, PageOf
          <6> QED
            BY <3>1, <6>2, <6>3
        <5>2. CASE ~(Newer(a, s) < hi)
          <6>1. ~(t <= s)
            BY <1>2, <2>3, <3>1, <4>2, <5>2, NewerFalls
          <6> QED
            BY <3>1, <3>4, <4>2, <6>1
        <5> QED
          BY <5>1, <5>2
      <4>4. u <= work.user.upTo /\ u \in Stored(a) /\ u \in shop[a] /\ Newer(a, u) >= lo
        <5>1. u <= work.user.upTo /\ sales[a][u] # None /\ u \in PageOf(a, e.page)
          BY <4>3 DEF Stops
        <5>2. u \in shop[a] /\ Newer(a, u) >= lo
          BY <2>4, <5>1
        <5> QED
          BY <2>7, <5>1, <5>2 DEF Stored
      <4>5. work.user.upTo = Top(a)
        BY <1>1, <1>2 DEF Top, Busy
      <4>6. u <= round[a].mark
        BY <1>2, <2>8, <4>1, <4>3, <4>4, <4>5, TopTypes
      <4>7. s \in Stored(a)
        BY <2>3, <2>8, <3>1, <4>1, <4>3, <4>4, <4>6 DEF Layered
      <4> QED
        BY <2>5, <3>1, <4>7
    <3>5. ASSUME Stops(e, work.user) = {}, ~(Newer(a, s) < lo)
          PROVE  s \in S
      <4>1. hi >= Cardinality(shop[a])
        BY <2>1, <2>3, <2>10, <3>5 DEF LastPage
      <4>2. Newer(a, s) < Cardinality(shop[a]) /\ Cardinality(shop[a]) \in Nat
        BY <1>2, <3>1, FewerNewer DEF Newer
      <4>3. s \in PageOf(a, e.page)
        BY <2>3, <2>4, <3>1, <3>5, <4>1, <4>2
      <4> QED
        BY <2>2, <3>5, <4>3 DEF Reached
    <3> QED
      BY <3>2, <3>3, <3>4, <3>5
  <2>11. WorkOpen'
    BY <2>1, <2>9, <2>10 DEF WorkOpen
  <2> QED
    BY <1>11, <1>12, <2>11
<1> QED
  BY <1>13, <1>14

(* A reconcile is cleaned up: it has stored what was listed when it began.   *)
LEMMA CleanOpen ==
  ASSUME TypeInv, TypeInv', SyncInv, CatchInv, CleanSales
  PROVE  Sounds' /\ WaitingOpen' /\ WorkOpen'
<1>1. PICK e \in Element, id \in Nat : work.entry = e /\ work.id = id
  BY DEF TypeInv, Types, Loaded, WorkRecord, CleanSales
<1>2. /\ e.auth \in User /\ work \in WorkRecord /\ round \in [User -> Round] /\ IsSync(e)
      /\ sales \in [User -> [Sale -> Nat \cup {None}]]
      /\ work.pc = "synced" /\ work.last /\ e.kind = "reconcile"
  BY <1>1 DEF TypeInv, Types, Element, CleanSales, IsSync
<1>3. Read(e, id) /\ (id # 0 => NoneHas(queue, id))
  BY <1>1, <1>2 DEF SyncInv, WorkOk
<1>4. shop' = shop /\ queue' = queue /\ round' = round /\ user' = user /\ [Next]_vars
  BY DEF CleanSales, Next, WorkerStep
<1>5. \A b \in User, s \in Sale :
        sales'[b][s] = IF b # e.auth \/ sales[b][s] = id THEN sales[b][s] ELSE None
  BY <1>1, <1>2 DEF CleanSales
<1>6. work'.pc = "cleaned" /\ work'.entry = e /\ work'.id = id
  BY <1>1, <1>2 DEF CleanSales, WorkRecord
<1>7. \A a \in User : Top(a)' <= Top(a)
  <2>1. ~SaveSync
    BY <1>2, WorkMoves
  <2> QED
    BY <1>4, <2>1, CopiesKept DEF Copied, Raised, CatchInv
<1>8. \A b \in User : b # e.auth => Stored(b)' = Stored(b)
  BY <1>5 DEF Stored
<1>9. id # 0 /\ (round[e.auth].whole => round[e.auth].id = id)
  BY <1>3 DEF Read
<1>10. \A a \in User : Unrivalled(a)
  <2>1. ASSUME NEW a \in User, a # e.auth
        PROVE  Undisturbed(a)
    BY <1>4, <1>7, <1>8, <2>1 DEF Undisturbed
  <2> QED
    BY <1>3, <1>4, <1>9, <2>1 DEF Unrivalled
<1>11. WaitingOpen'
  BY <1>4, <1>10, WaitingStays DEF CatchInv
<1>12. Sounds'
  <2> SUFFICES ASSUME NEW a \in User, round[a].sound
               PROVE  Ordered(a, Top(a))' /\ ~(Busy(a)' /\ work'.pc \in {"synced", "cleaned", "save"})
    BY <1>4 DEF Sounds
  <2>1. Ordered(a, Top(a)) /\ a # e.auth
    BY <1>1, <1>2 DEF CatchInv, Sounds, Busy
  <2>2. Ordered(a, Top(a))'
    BY <1>4, <1>7, <1>8, <2>1, OrderKept
  <2> QED
    BY <1>6, <2>1, <2>2 DEF Busy
<1>13. CaughtUp(e, id)'
  <2> SUFFICES ASSUME round[e.auth].whole, NEW s \in round[e.auth].listed
               PROVE  s \in Stored(e.auth)'
    BY <1>4 DEF CaughtUp, Whole
  <2>1. s \in Sale /\ sales[e.auth][s] = id
    BY <1>2, <1>3 DEF Read, Round
  <2>2. sales'[e.auth][s] = id /\ id # None
    BY <1>2, <1>5, <2>1, NoneAssumption
  <2> QED
    BY <2>1, <2>2 DEF Stored
<1>14. WorkOpen'
  BY <1>3, <1>4, <1>6, <1>9, <1>13 DEF WorkOpen
<1> QED
  BY <1>11, <1>12, <1>14

(* A sync is saved: only what is newer than all that is stored was left out, *)
(* or it is not sound.                                                       *)
LEMMA SaveOpen ==
  ASSUME TypeInv, TypeInv', SyncInv, CatchInv, SaveSync
  PROVE  Sounds' /\ WaitingOpen' /\ WorkOpen'
<1>1. PICK e \in Element, id \in Nat : work.entry = e /\ work.id = id
  BY DEF TypeInv, Types, Loaded, WorkRecord, SaveSync
<1>2. /\ e.auth \in User /\ work.pc = "save" /\ work'.pc = "idle" /\ round \in [User -> Round]
      /\ shop' = shop /\ sales' = sales /\ queue' = queue /\ [Next]_vars
  BY <1>1, IdleTypes DEF TypeInv, Types, Element, SaveSync, Done, Next, WorkerStep
<1>3. PICK c \in BOOLEAN : c = (round[e.auth].whole /\ round[e.auth].id = work.id /\ OnlyNewestLeft(e.auth))
  OBVIOUS
<1>4. round' = [round EXCEPT ![e.auth].sound = c]
  BY <1>1, <1>3 DEF SaveSync
<1>5. /\ \A b \in User : /\ round'[b].id = round[b].id /\ round'[b].mark = round[b].mark
                         /\ (round'[b].whole => round[b].whole) /\ (b # e.auth => round'[b] = round[b])
      /\ round'[e.auth].sound => OnlyNewestLeft(e.auth)
  <2>1. \A b \in User : /\ round'[b].id = round[b].id /\ round'[b].mark = round[b].mark
                        /\ (round'[b].whole => round[b].whole) /\ (b # e.auth => round'[b] = round[b])
    BY <1>2, <1>4, RoundChanges
  <2>2. round'[e.auth].sound = c
    BY <1>2, <1>4 DEF Round
  <2> QED
    BY <1>3, <2>1, <2>2
<1>6. NoneHas(queue, id) /\ (round[e.auth].whole => round[e.auth].id = id)
  BY <1>1, <1>2 DEF CatchInv, WorkOpen
<1>7. \A a \in User : a # e.auth => Top(a)' <= Top(a)
  BY <1>1, <1>2, CopiesKept DEF Copied, Raised, CatchInv
<1>8. \A a \in User : Unrivalled(a)
  <2>1. ASSUME NEW a \in User, a # e.auth
        PROVE  Undisturbed(a)
    BY <1>2, <1>5, <1>7, <2>1 DEF Undisturbed, Stored
  <2> QED
    BY <1>5, <1>6, <2>1 DEF Unrivalled
<1>9. WaitingOpen'
  BY <1>2, <1>8, WaitingStays DEF CatchInv
<1>10. Sounds'
  <2> SUFFICES ASSUME NEW a \in User, round'[a].sound
               PROVE  Ordered(a, Top(a))'
    BY <1>2 DEF Sounds
  <2>1. CASE a = e.auth
    BY <1>2, <1>5, <2>1 DEF OnlyNewestLeft, Ordered, Stored
  <2>2. CASE a # e.auth
    <3>1. Ordered(a, Top(a))
      BY <1>5, <2>2 DEF CatchInv, Sounds
    <3> QED
      BY <1>2, <1>7, <2>2, <3>1, OrderKept DEF Stored
  <2> QED
    BY <2>1, <2>2
<1>11. WorkOpen'
  BY <1>2 DEF WorkOpen
<1> QED
  BY <1>9, <1>10, <1>11

(* Listings appear, sell, are added and removed: before one moves the pages  *)
(* on, all the sales a refresh might stop at are stored, or it is not whole. *)
LEMMA ShopOpen ==
  ASSUME TypeInv, TypeInv', SyncInv, CatchInv,
         NEW a \in User, AddSale(a) \/ List(a) \/ \E s \in Sale : Delist(a, s) \/ UpdateSale(a, s)
  PROVE  Sounds' /\ WaitingOpen' /\ WorkOpen'
<1>1. /\ sales \in [User -> [Sale -> Nat \cup {None}]] /\ shop \in [User -> SUBSET Sale] /\ posted \in [User -> Nat]
      /\ round \in [User -> Round] /\ \A b \in User : shop[b] \subseteq 1 .. posted[b]
  BY DEF TypeInv, Types, SyncInv, Rounds
<1>2. work' = work /\ queue' = queue /\ user' = user /\ [Next]_vars
  BY DEF AddSale, List, Delist, UpdateSale, store, Next
<1>3. \A b \in User : Top(b)' <= Top(b)
  <2>1. ~SaveSync
    BY <1>2, WorkMoves
  <2> QED
    BY <1>2, <2>1, CopiesKept DEF Copied, Raised, CatchInv
<1>4. \A b \in User : b # a => round'[b] = round[b] /\ shop'[b] = shop[b] /\ sales'[b] = sales[b]
  <2>1. \A b \in User : b # a => round'[b] = round[b]
    BY <1>1 DEF AddSale, List, Delist, UpdateSale, Shift
  <2>2. \A b \in User : b # a => shop'[b] = shop[b] /\ sales'[b] = sales[b]
    BY <1>1 DEF AddSale, List, Delist, UpdateSale, store
  <2> QED
    BY <2>1, <2>2
<1>5. ASSUME NEW b \in User, b # a
      PROVE  Undisturbed(b) /\ round'[b].listed = round[b].listed /\ (round'[b].sound => Ordered(b, Top(b))')
  <2>1. Stored(b)' = Stored(b) /\ round'[b] = round[b] /\ shop'[b] = shop[b]
    BY <1>4, <1>5 DEF Stored
  <2>2. round[b].sound => Ordered(b, Top(b))
    BY DEF CatchInv, Sounds
  <2> QED
    BY <1>3, <2>1, <2>2, OrderKept DEF Undisturbed
<1>6. Undisturbed(a) /\ round'[a].listed = round[a].listed /\ (round'[a].sound => round[a].sound /\ Ordered(a, Top(a))')
  <2>1. round[a].sound => Ordered(a, Top(a))
    BY DEF CatchInv, Sounds
  <2>2. /\ Top(a) <= posted[a] /\ round[a].mark <= posted[a] /\ Top(a) \in Nat /\ posted[a] \in Nat
        /\ round[a].mark \in Nat
    BY TopTypes DEF CatchInv, Marks
  <2>3. CASE AddSale(a) \/ List(a)
    <3>1. Shift(a)
      BY <2>3 DEF AddSale, List
    <3>2. /\ round'[a].id = round[a].id /\ round'[a].listed = round[a].listed /\ round'[a].mark = round[a].mark
          /\ (round'[a].whole => round[a].whole) /\ round'[a].sound = round[a].sound
          /\ round'[a].whole => \A s \in shop[a] : s <= round[a].mark => s \in Stored(a)
      BY <1>1, <3>1, RoundChanges
    <3>3. shop'[a] = shop[a] \cup {posted[a] + 1}
      BY <1>1, <2>3 DEF AddSale, List
    <3>4. \A s \in Sale : s # posted[a] + 1 => sales'[a][s] = sales[a][s]
      BY <1>1, <2>3 DEF AddSale, List, store
    <3>5. shop[a] \subseteq Sale /\ \A s \in shop[a] : s # posted[a] + 1
      BY <1>1, <2>2
    <3>6. \A s \in shop[a] : s \in Stored(a)' <=> s \in Stored(a)
      BY <3>4, <3>5 DEF Stored
    <3>7. round'[a].whole => \A s \in shop'[a] : s <= round[a].mark => s \in Stored(a)'
      BY <2>2, <3>2, <3>3, <3>6
    <3>8. Undisturbed(a)
      BY <1>3, <3>2, <3>6, <3>7 DEF Undisturbed
    <3>9. \A s \in shop'[a] : s <= Top(a) => s \in shop[a]
      BY <2>2, <3>3
    <3>10. Ordered(a, Top(a)) => Ordered(a, Top(a))'
      BY <1>3, <3>6, <3>9, OrderKept
    <3> QED
      BY <2>1, <3>2, <3>8, <3>10
  <2>4. CASE \E s \in Sale : Delist(a, s)
    <3>1. round' = [round EXCEPT ![a].whole = FALSE] /\ sales' = sales /\ shop'[a] \subseteq shop[a]
      BY <1>1, <2>4 DEF Delist, store
    <3>2. round'[a].listed = round[a].listed /\ round'[a].sound = round[a].sound /\ ~round'[a].whole
      BY <1>1, <3>1 DEF Round
    <3>3. Stored(a)' = Stored(a)
      BY <3>1 DEF Stored
    <3>4. Ordered(a, Top(a)) => Ordered(a, Top(a))'
      BY <1>3, <3>1, <3>3, OrderKept
    <3> QED
      BY <2>1, <3>2, <3>4 DEF Undisturbed
  <2>5. CASE \E s \in Sale : UpdateSale(a, s)
    <3>1. PICK s \in Sale : UpdateSale(a, s)
      BY <2>5
    <3>2. round' = round /\ shop' = shop /\ s \notin shop[a] /\ \A t \in Sale : t # s => sales'[a][t] = sales[a][t]
      BY <1>1, <3>1 DEF UpdateSale
    <3>3. \A t \in shop[a] : t \in Stored(a)' <=> t \in Stored(a)
      BY <1>1, <3>2 DEF Stored
    <3>4. Ordered(a, Top(a)) => Ordered(a, Top(a))'
      BY <1>3, <3>2, <3>3, OrderKept
    <3>5. Undisturbed(a)
      BY <1>3, <3>2, <3>3 DEF Undisturbed
    <3> QED
      BY <2>1, <3>2, <3>4, <3>5
  <2> QED
    BY <2>3, <2>4, <2>5
<1>7. WaitingOpen'
  <2>1. \A b \in User : Unrivalled(b)
    BY <1>5, <1>6 DEF Unrivalled
  <2> QED
    BY <1>2, <2>1, WaitingStays DEF CatchInv
<1>8. WorkOpen'
  <2>1. \A b \in User : Undisturbed(b) /\ round'[b].listed = round[b].listed
    BY <1>5, <1>6
  <2> QED
    BY <1>2, <2>1, WorkKept DEF CatchInv
<1>9. Sounds'
  <2> SUFFICES ASSUME NEW b \in User, round'[b].sound
               PROVE  Ordered(b, Top(b))' /\ ~(Busy(b)' /\ work'.pc \in {"synced", "cleaned", "save"})
    BY DEF Sounds
  <2>1. round[b].sound /\ Ordered(b, Top(b))'
    BY <1>4, <1>5, <1>6
  <2>2. ~(Busy(b) /\ work.pc \in {"synced", "cleaned", "save"})
    BY <2>1 DEF CatchInv, Sounds
  <2> QED
    BY <1>2, <2>1, <2>2 DEF Busy
<1> QED
  BY <1>7, <1>8, <1>9

(* Both halves of the invariant, from the beginning and by every step.       *)
LEMMA CatchUp ==
  Spec => [](TypeInv /\ SyncInv /\ CatchInv)
<1>1. Init => TypeInv /\ SyncInv /\ CatchInv
  <2> SUFFICES ASSUME Init PROVE CatchInv
    BY TypeInit, SyncInit
  <2>1. work.pc = "idle" /\ validator.pc = "idle"
    BY DEF Init, Idle
  <2>2. \A p \in Priority : queue[p] = <<>>
    BY DEF Init
  <2>3. WaitingOpen /\ WorkOpen
    BY <2>1, <2>2 DEF WaitingOpen, WorkOpen, In
  <2>4. \A a \in User : /\ user[a].upTo = 0 /\ Top(a) = 0 /\ round[a].mark = 0 /\ posted[a] \in Nat
    BY <2>1, BoundsAssumption DEF Init, Top, Busy
  <2>5. Marks
    BY <2>1, <2>4 DEF Marks
  <2>6. \A a \in User : Ordered(a, Top(a))
    BY <2>4 DEF Init, Ordered, Stored
  <2>7. Sounds
    BY <2>1, <2>6 DEF Sounds, Busy
  <2> QED
    BY <2>3, <2>5, <2>7 DEF CatchInv
<1>2. TypeInv /\ SyncInv /\ CatchInv /\ [Next]_vars => TypeInv' /\ SyncInv' /\ CatchInv'
  <2> SUFFICES ASSUME TypeInv, SyncInv, CatchInv, [Next]_vars
               PROVE  TypeInv' /\ SyncInv' /\ CatchInv'
    OBVIOUS
  <2>1. TypeInv' /\ SyncInv'
    BY TypeStep, SyncStep
  <2>2. Marks'
    BY <2>1, MarksKept DEF CatchInv
  <2>3. Sounds' /\ WaitingOpen' /\ WorkOpen'
    BY <2>1, TakeOpen, BeginOpen, PageOpen, CleanOpen, SaveOpen, RestingOpen, ShopOpen, CallersOpen DEF Next, WorkerStep
  <2> QED
    BY <2>1, <2>2, <2>3 DEF CatchInv
<1> QED
  BY <1>1, <1>2, PTL DEF Spec

(* A refresh that completes has stored every sale that was listed when it    *)
(* began, although it stops at the first sale it knows that was listed       *)
(* before LastSaleRefresh (sales.go, SyncSales); and so has a reconcile.     *)
THEOREM RefreshIsComplete == Spec => RefreshCatchesUp
<1>1. TypeInv /\ SyncInv /\ CatchInv /\ [Next]_vars =>
        [\A a \in User : Completes(a) /\ round[a].whole /\ round[a].id = work.id =>
           round[a].listed \subseteq Stored(a)]_vars
  <2> SUFFICES ASSUME TypeInv, CatchInv, NEW a \in User, Completes(a), round[a].whole, round[a].id = work.id
               PROVE  round[a].listed \subseteq Stored(a)
    OBVIOUS
  <2>1. PICK e \in Element, id \in Nat : work.entry = e /\ work.id = id
    BY DEF TypeInv, Types, Loaded, WorkRecord, Completes
  <2>2. CaughtUp(e, id) /\ e.auth = a
    BY <2>1 DEF CatchInv, WorkOpen, Completes
  <2> QED
    BY <2>1, <2>2 DEF CaughtUp, Whole
<1> QED
  BY <1>1, CatchUp, PTL DEF Spec, RefreshCatchesUp

(* The pages of either sync cover what they should.                          *)
THEOREM PagesAreCovered == Spec => PagesCover
BY ReconcileIsExact, RefreshIsComplete DEF PagesCover

-----------------------------------------------------------------------------
(* Who waits, and who runs.                                                  *)

Here(f) == In(queue, f) \/ (work.pc # "idle" /\ work.entry = f)
Mine(a, f) == IsSync(f) /\ f.auth = a
NoSync(q, a) == \A f \in Element : In(q, f) => ~Mine(a, f)
Lone(q, a) ==
  \A p, r \in Priority : \A i \in 1 .. Len(q[p]), j \in 1 .. Len(q[r]) :
    Mine(a, q[p][i]) /\ Mine(a, q[r][j]) => p = r /\ i = j
Rests ==
  /\ work.pc = "idle" => work.entry = None
  /\ work.pc = "adjusted" => work.entry.kind = "adjust"

(* The entries the properties speak of.                                      *)
LEMMA PresentHere ==
  ASSUME TypeInv, Rests
  PROVE  Present \subseteq Element /\ \A f \in Element : f \in Present <=> Here(f)
<1>1. queue \in [Priority -> Seq(Element)] /\ (work.pc # "idle" => work.entry \in Element)
  BY DEF TypeInv, Types, Loaded
<1>2. \A f : f \in Waiting <=> In(queue, f)
  BY DEF Waiting, In
<1>3. Waiting \subseteq Element
  BY <1>1, <1>2, InElement
<1>4. IF work.pc = "idle" THEN work.entry = None ELSE work.entry # None
  BY <1>1, EntryAssumption DEF Rests
<1> QED
  BY <1>1, <1>2, <1>3, <1>4 DEF Present, Here

(* The worker is at rest with no entry.                                      *)
LEMMA RestsKept ==
  ASSUME TypeInv, Rests, [Next]_vars
  PROVE  Rests'
<1>1. work \in WorkRecord
  BY DEF TypeInv, Types
<1>2. Idle.entry = None /\ Idle.pc = "idle"
  BY DEF Idle
<1>3. CASE \/ Skip \/ RateLimit \/ Requeue \/ Bury \/ Refused \/ NextPage \/ LinkSales \/ SaveSync \/ SaveAdjusted
  BY <1>2, <1>3 DEF Rests, Skip, RateLimit, Requeue, Bury, Refused, NextPage, LinkSales, SaveSync, SaveAdjusted, Done
<1>4. CASE BeginSync \/ SyncPage \/ CleanSales \/ EnqueueLink \/ AdjustSales
  <2>1. work'.pc # "idle" /\ (work'.pc = "adjusted" => work'.entry.kind = "adjust")
    BY <1>1, <1>4 DEF BeginSync, SyncPage, CleanSales, EnqueueLink, AdjustSales, WorkRecord
  <2> QED
    BY <2>1 DEF Rests
<1>5. CASE \E p \in Priority : Take(p)
  BY <1>5 DEF Rests, Take
<1>6. CASE work' = work
  BY <1>6 DEF Rests
<1>7. CASE \E a \in User : AddSale(a) \/ Validate(a) \/ List(a) \/ \E s \in Sale : Delist(a, s) \/ UpdateSale(a, s)
  BY <1>6, <1>7 DEF AddSale, Validate, ListUsers, ScheduleReconcile, ScheduleRefresh, TakeLock, ScheduleAdjust,
         List, Delist, UpdateSale
<1>8. CASE Tick \/ UNCHANGED vars \/ \E a \in User, kind \in {"refresh", "reconcile"} : AdminSync(a, kind)
  BY <1>6, <1>8 DEF Tick, vars, AdminSync
<1> QED
  BY <1>3, <1>4, <1>5, <1>7, <1>8 DEF Next, WorkerStep

(* One sync of a user, however the queue changes.                            *)
LEMMA PutLone ==
  ASSUME NEW q \in [Priority -> Seq(Element)], NEW a, Lone(q, a), NEW p \in Priority, NEW e \in Element,
         Mine(a, e) => NoSync(q, a), NEW n, PutAt(q, p, e, n)
  PROVE  Lone(n, a)
<1>1. PICK k \in {0, 1} : Placed(q, p, e, n, k)
  BY PutPlaces
<1>2. ASSUME NEW r \in Priority, NEW i \in 1 .. Len(n[r])
      PROVE  \/ r = p /\ i = (IF k = 0 THEN Len(q[p]) + 1 ELSE 1) /\ n[r][i] = e
             \/ \E j \in 1 .. Len(q[r]) : n[r][i] = q[r][j] /\ i = IF r = p THEN j + k ELSE j
  BY <1>1 DEF Placed
<1>3. Mine(a, e) => \A w \in Priority : \A m \in 1 .. Len(q[w]) : ~Mine(a, q[w][m])
  <2> SUFFICES ASSUME Mine(a, e), NEW w \in Priority, NEW m \in 1 .. Len(q[w]) PROVE ~Mine(a, q[w][m])
    OBVIOUS
  <2>1. In(q, q[w][m])
    BY DEF In
  <2> QED
    BY <2>1, InElement DEF NoSync
<1> SUFFICES ASSUME NEW r \in Priority, NEW v \in Priority, NEW i \in 1 .. Len(n[r]), NEW j \in 1 .. Len(n[v]),
                    Mine(a, n[r][i]), Mine(a, n[v][j])
             PROVE  r = v /\ i = j
  BY DEF Lone
<1>4. CASE \E m \in 1 .. Len(q[r]) : n[r][i] = q[r][m] /\ i = IF r = p THEN m + k ELSE m
  <2>1. PICK m \in 1 .. Len(q[r]) : n[r][i] = q[r][m] /\ i = IF r = p THEN m + k ELSE m
    BY <1>4
  <2>2. n[v][j] # e
    BY <1>3, <2>1
  <2>3. PICK l \in 1 .. Len(q[v]) : n[v][j] = q[v][l] /\ j = IF v = p THEN l + k ELSE l
    BY <1>2, <2>2
  <2>4. r = v /\ m = l
    BY <2>1, <2>3 DEF Lone
  <2> QED
    BY <2>1, <2>3, <2>4
<1>5. CASE r = p /\ i = (IF k = 0 THEN Len(q[p]) + 1 ELSE 1) /\ n[r][i] = e
  <2>1. ~\E l \in 1 .. Len(q[v]) : n[v][j] = q[v][l]
    BY <1>3, <1>5
  <2> QED
    BY <1>2, <1>5, <2>1
<1> QED
  BY <1>2, <1>4, <1>5

TakenAt(q, p, e, n) == q[p] # <<>> /\ n = [q EXCEPT ![p] = Tail(@)] /\ e = Head(q[p])
LEMMA TakeLone ==
  ASSUME NEW q \in [Priority -> Seq(Element)], NEW p \in Priority, NEW e, NEW n, TakenAt(q, p, e, n)
  PROVE  /\ \A f : In(q, f) <=> f = e \/ In(n, f)
         /\ \A a : Lone(q, a) => Lone(n, a) /\ (Mine(a, e) => NoSync(n, a))
<1> USE DEF TakenAt
<1>1. /\ q[p] \in Seq(Element) /\ Len(q[p]) \in Nat /\ Len(q[p]) > 0 /\ Len(Tail(q[p])) = Len(q[p]) - 1
      /\ \A i \in 1 .. Len(q[p]) - 1 : Tail(q[p])[i] = q[p][i + 1]
  OBVIOUS
<1>2. \A r \in Priority, i \in Nat : i \in 1 .. Len(n[r]) =>
        \/ r # p /\ i \in 1 .. Len(q[r]) /\ n[r][i] = q[r][i]
        \/ r = p /\ i + 1 \in 1 .. Len(q[p]) /\ n[r][i] = q[p][i + 1]
  BY <1>1
<1>3. 1 \in 1 .. Len(q[p]) /\ q[p][1] = e
  BY <1>1
<1>4. ASSUME NEW r \in Priority, NEW i \in 1 .. Len(n[r])
      PROVE  \E j \in 1 .. Len(q[r]) : n[r][i] = q[r][j] /\ j = IF r = p THEN i + 1 ELSE i
  BY <1>1, <1>2
<1>5. ASSUME NEW a, Lone(q, a)
      PROVE  Lone(n, a)
  <2>1. ASSUME NEW r \in Priority, NEW v \in Priority, NEW i \in 1 .. Len(n[r]), NEW j \in 1 .. Len(n[v]),
               Mine(a, n[r][i]) /\ Mine(a, n[v][j])
        PROVE  r = v /\ i = j
    <3>1. PICK m \in 1 .. Len(q[r]) : n[r][i] = q[r][m] /\ m = IF r = p THEN i + 1 ELSE i
      BY <1>4
    <3>2. PICK l \in 1 .. Len(q[v]) : n[v][j] = q[v][l] /\ l = IF v = p THEN j + 1 ELSE j
      BY <1>4
    <3>3. r = v /\ m = l
      BY <1>5, <2>1, <3>1, <3>2 DEF Lone
    <3> QED
      BY <3>1, <3>2, <3>3
  <2> QED
    BY <2>1, Zenon DEF Lone
<1>6. ASSUME NEW a, Lone(q, a), Mine(a, e)
      PROVE  NoSync(n, a)
  <2> SUFFICES ASSUME NEW r \in Priority, NEW i \in 1 .. Len(n[r])
               PROVE  ~Mine(a, n[r][i])
    BY DEF NoSync, In
  <2>1. PICK m \in 1 .. Len(q[r]) : n[r][i] = q[r][m] /\ m = IF r = p THEN i + 1 ELSE i
    BY <1>4
  <2>2. ~(r = p /\ m = 1)
    BY <1>1, <2>1
  <2> QED
    BY <1>3, <1>6, <2>1, <2>2 DEF Lone
<1>7. \A f : In(n, f) => In(q, f)
  BY <1>4 DEF In
<1>8. ASSUME NEW f, In(q, f), f # e
      PROVE  In(n, f)
  <2>1. PICK r \in Priority : \E i \in 1 .. Len(q[r]) : q[r][i] = f
    BY <1>8 DEF In
  <2>2. PICK i \in 1 .. Len(q[r]) : q[r][i] = f
    BY <2>1
  <2>3. CASE r # p
    BY <2>2, <2>3 DEF In
  <2>4. CASE r = p
    <3>1. i # 1
      BY <1>3, <1>8, <2>2, <2>4
    <3>2. i - 1 \in 1 .. Len(q[p]) - 1 /\ (i - 1) + 1 = i
      BY <1>1, <2>4, <3>1
    <3>3. i - 1 \in 1 .. Len(n[p]) /\ n[p][i - 1] = f
      BY <1>1, <2>2, <2>4, <3>2
    <3> QED
      BY <3>3 DEF In
  <2> QED
    BY <2>3, <2>4
<1>9. In(q, e)
  BY <1>3 DEF In
<1> QED
  BY <1>5, <1>6, <1>7, <1>8, <1>9

-----------------------------------------------------------------------------
(* What a step does to the worker's entry, and which entries it puts.        *)

LEMMA WorkerMoves ==
  ASSUME TypeInv, [Next]_vars
  PROVE  \/ \E p \in Priority : Take(p)
         \/ work.pc # "idle" /\ work'.pc = "idle"
         \/ work.pc # "idle" /\ work'.pc # "idle" /\ work'.entry = work.entry
         \/ work' = work
<1>1. work \in WorkRecord
  BY DEF TypeInv, Types
<1>2. CASE \/ Skip \/ RateLimit \/ Requeue \/ Bury \/ Refused \/ NextPage \/ LinkSales \/ SaveSync \/ SaveAdjusted
  BY <1>2, IdleTypes DEF Skip, RateLimit, Requeue, Bury, Refused, NextPage, LinkSales, SaveSync, SaveAdjusted, Done
<1>3. CASE BeginSync \/ SyncPage \/ CleanSales \/ EnqueueLink \/ AdjustSales
  BY <1>1, <1>3 DEF BeginSync, SyncPage, CleanSales, EnqueueLink, AdjustSales, WorkRecord
<1>4. CASE \E a \in User : AddSale(a) \/ Validate(a) \/ List(a) \/ \E s \in Sale : Delist(a, s) \/ UpdateSale(a, s)
  BY <1>4 DEF AddSale, Validate, ListUsers, ScheduleReconcile, ScheduleRefresh, TakeLock, ScheduleAdjust,
         List, Delist, UpdateSale
<1>5. CASE Tick \/ UNCHANGED vars \/ \E a \in User, kind \in {"refresh", "reconcile"} : AdminSync(a, kind)
  BY <1>5 DEF Tick, vars, AdminSync
<1> QED
  BY <1>2, <1>3, <1>4, <1>5 DEF Next, WorkerStep

(* What is put into the queue is there, and what was there still is.         *)
LEMMA PutIn ==
  ASSUME TypeInv, NEW e \in Element, Put(e)
  PROVE  \A f : In(queue', f) <=> f = e \/ In(queue, f)
<1>1. queue \in [Priority -> Seq(Element)]
  BY DEF TypeInv, Types
<1>2. PICK p \in Priority : PutAt(queue, p, e, queue')
  BY DEF Put, PutAt
<1> QED
  BY <1>1, <1>2, PutPlaces

LEMMA EnsureIn ==
  ASSUME TypeInv, NEW e \in Element, Ensure(e) \/ Accept(e)
  PROVE  /\ \A f : In(queue, f) => In(queue', f)
         /\ \A f : In(queue', f) => f = e \/ In(queue, f)
         /\ In(queue', e) \/ Exists(e)
<1>1. CASE Put(e)
  BY <1>1, PutIn
<1>2. CASE queue' = queue /\ Exists(e)
  BY <1>2
<1>3. Put(e) \/ (queue' = queue /\ Exists(e))
  BY DEF Ensure, Accept, Put, Element
<1> QED
  BY <1>1, <1>2, <1>3

(* A new entry is a link, the validator's adjustment, a sync that somebody   *)
(* asked for, or what the handler leaves of its own.                         *)
Comes(f) ==
  \/ f.kind = "link"
  \/ f.kind = "adjust" /\ validator.pc = "adjust" /\ validator.auth = f.auth
  \/ IsSync(f) /\ f.force /\ Forced'
  \/ /\ IsSync(f) /\ ~f.force /\ Scheduled' /\ validator.auth = f.auth
     /\ validator.pc \in {"sales", "refresh"} /\ validator'.pc = "save"
  \/ /\ work.pc # "idle" /\ work'.pc = "idle" /\ IsSync(work.entry)
     /\ f.auth = work.entry.auth /\ f.kind = work.entry.kind /\ f.force = work.entry.force

(* Each handler that puts an entry.                                          *)
LEMMA WorkerComes ==
  ASSUME TypeInv, RateLimit \/ Requeue \/ NextPage \/ EnqueueLink \/ AdjustSales
  PROVE  \E e \in Element : Comes(e) /\ (queue' = queue \/ Put(e))
<1>1. /\ work \in WorkRecord /\ work.entry \in Element /\ work.id \in Nat /\ spent \in Spent
      /\ work.pc \in {"sync", "synced", "cleaned", "save"} => work.entry.kind \in {"refresh", "reconcile"}
  BY DEF TypeInv, Types, Loaded, WorkRecord, RateLimit, Requeue, NextPage, EnqueueLink, AdjustSales
<1>2. work.entry.auth \in User /\ work.entry.prio \in Priority /\ work.entry.page \in Nat
      /\ work.entry.force \in BOOLEAN /\ work.entry.kind \in Kind
  BY <1>1 DEF Element
<1>3. CASE RateLimit
  <2>1. Comes(work.entry)
    BY <1>1, <1>3, IdleTypes DEF RateLimit, Done, Comes, IsSync
  <2>2. Put(work.entry)
    BY <1>2, <1>3 DEF RateLimit, Put
  <2> QED
    BY <1>1, <2>1, <2>2
<1>4. CASE Requeue
  <2>1. PICK e \in Element : e = [work.entry EXCEPT !.id = work.id]
    BY <1>1, Fields
  <2>2. e.auth = work.entry.auth /\ e.kind = work.entry.kind /\ e.force = work.entry.force /\ e.prio \in Priority
    BY <1>1, <2>1 DEF Element
  <2>3. Comes(e)
    BY <1>1, <1>4, <2>2, IdleTypes DEF Requeue, Done, Comes, IsSync
  <2>4. Put(e)
    BY <1>4, <2>1, <2>2 DEF Requeue, Put
  <2> QED
    BY <2>3, <2>4
<1>5. CASE NextPage
  <2>1. PICK e : e = Sync(work.entry.kind, work.entry.auth, work.entry.page + 1, work.id, work.entry.force, "UNSET")
    OBVIOUS
  <2>2. /\ e \in Element /\ e.auth = work.entry.auth /\ e.kind = work.entry.kind /\ e.force = work.entry.force
    BY <1>1, <1>2, <2>1 DEF Sync, Element, Priority
  <2>3. Comes(e)
    BY <1>1, <1>5, <2>2, IdleTypes DEF NextPage, Done, Comes, IsSync
  <2>4. queue' = queue \/ Put(e)
    BY <1>5, <2>1, <2>2, EnsurePuts DEF NextPage
  <2> QED
    BY <2>2, <2>3, <2>4
<1>6. CASE EnqueueLink
  <2>1. Link(work.entry.auth, work.id) \in Element /\ Comes(Link(work.entry.auth, work.id))
    BY <1>1, <1>2, Entries DEF Comes, IsSync
  <2>2. queue' = queue \/ Put(Link(work.entry.auth, work.id))
    BY <1>6, <2>1, EnsurePuts DEF EnqueueLink
  <2> QED
    BY <2>1, <2>2
<1>7. CASE AdjustSales
  <2>1. PICK e : e = Sync("refresh", work.entry.auth, 1, 0, TRUE, "UNSET")
    OBVIOUS
  <2>2. e \in Element /\ e.force /\ IsSync(e)
    BY <1>2, <2>1 DEF Sync, Element, Priority, Kind, IsSync
  <2>3. CASE queue' = queue
    <3>1. Link(work.entry.auth, 0) \in Element /\ Comes(Link(work.entry.auth, 0))
      BY <1>2, Entries DEF Comes
    <3> QED
      BY <2>3, <3>1
  <2>4. CASE queue' # queue
    <3>1. Spend("forced", MaxForced) /\ Ensure(e)
      BY <1>7, <2>1, <2>4 DEF AdjustSales
    <3>2. Forced'
      BY <1>1, <3>1, BoundsAssumption DEF Spend, Spent, Forced
    <3>3. Comes(e) /\ (queue' = queue \/ Put(e))
      BY <2>2, <3>1, <3>2, EnsurePuts DEF Comes
    <3> QED
      BY <2>2, <3>3
  <2> QED
    BY <2>3, <2>4
<1> QED
  BY <1>3, <1>4, <1>5, <1>6, <1>7

(* The validator and the administrator.                                      *)
LEMMA CallerComes ==
  ASSUME TypeInv, \/ \E a \in User : Validate(a)
                  \/ \E a \in User, kind \in {"refresh", "reconcile"} : AdminSync(a, kind)
  PROVE  \E e \in Element : Comes(e) /\ (queue' = queue \/ Put(e))
<1>1. spent \in Spent /\ validator \in ValidatorRecord
  BY DEF TypeInv, Types
<1>2. ASSUME NEW a \in User, queue' = queue
      PROVE  \E e \in Element : Comes(e) /\ (queue' = queue \/ Put(e))
  <2>1. Link(a, 0) \in Element /\ Comes(Link(a, 0))
    BY Entries DEF Comes
  <2> QED
    BY <1>2, <2>1
<1>3. ASSUME NEW a \in User, ListUsers(a) \/ TakeLock(a)
      PROVE  \E e \in Element : Comes(e) /\ (queue' = queue \/ Put(e))
  BY <1>2, <1>3 DEF ListUsers, TakeLock
<1>4. ASSUME NEW a \in User, ScheduleAdjust(a)
      PROVE  \E e \in Element : Comes(e) /\ (queue' = queue \/ Put(e))
  <2>1. PICK e : e = Adjust(a)
    OBVIOUS
  <2>2. e \in Element /\ e.kind = "adjust" /\ e.auth = a
    BY <2>1, Entries DEF Adjust, Sync
  <2>3. validator.pc = "adjust" /\ validator.auth = a /\ (UNCHANGED queue \/ Ensure(e))
    BY <1>4, <2>1 DEF ScheduleAdjust, ValidatorStep
  <2> QED
    BY <2>2, <2>3, EnsurePuts DEF Comes
<1>5. ASSUME NEW a \in User, ScheduleReconcile(a) \/ ScheduleRefresh(a)
      PROVE  \E e \in Element : Comes(e) /\ (queue' = queue \/ Put(e))
  <2>1. CASE queue' = queue
    BY <1>2, <2>1
  <2>2. CASE queue' # queue
    <3>1. PICK kind \in {"refresh", "reconcile"} :
            Spend("syncs", MaxSyncs) /\ Accept(Sync(kind, a, 1, 0, FALSE, "UNSET")) /\ Goto("save")
      BY <1>5, <2>2 DEF ScheduleReconcile, ScheduleRefresh, Schedule
    <3>2. PICK e : e = Sync(kind, a, 1, 0, FALSE, "UNSET")
      OBVIOUS
    <3>3. e \in Element /\ ~e.force /\ e.auth = a /\ IsSync(e)
      BY <3>2 DEF Sync, Element, Priority, Kind, IsSync
    <3>4. Scheduled'
      BY <1>1, <3>1, BoundsAssumption DEF Spend, Spent, Scheduled
    <3>5. validator'.pc = "save" /\ validator.auth = a /\ validator.pc \in {"sales", "refresh"}
      BY <1>1, <1>5, <3>1 DEF Goto, ValidatorRecord, ScheduleReconcile, ScheduleRefresh, ValidatorStep
    <3> QED
      BY <3>1, <3>2, <3>3, <3>4, <3>5, EnsurePuts DEF Comes
  <2> QED
    BY <2>1, <2>2
<1>6. ASSUME NEW a \in User, NEW kind \in {"refresh", "reconcile"}, AdminSync(a, kind)
      PROVE  \E e \in Element : Comes(e) /\ (queue' = queue \/ Put(e))
  <2>1. PICK e : e = Sync(kind, a, 1, 0, TRUE, "HIGH")
    OBVIOUS
  <2>2. e \in Element /\ e.force /\ IsSync(e)
    BY <2>1 DEF Sync, Element, Priority, Kind, IsSync
  <2>3. Forced'
    BY <1>1, <1>6, BoundsAssumption DEF AdminSync, Spend, Spent, Forced
  <2> QED
    BY <1>6, <2>1, <2>2, <2>3, EnsurePuts DEF AdminSync, Comes
<1> QED
  BY <1>3, <1>4, <1>5, <1>6 DEF Validate

(* Every step that is not a Take.                                            *)
LEMMA Puts ==
  ASSUME TypeInv, [Next]_vars, ~\E p \in Priority : Take(p)
  PROVE  queue' = queue \/ \E e \in Element : Comes(e) /\ Put(e)
<1>1. queue' = queue \/ \E e \in Element : Comes(e) /\ (queue' = queue \/ Put(e))
  <2>1. CASE \/ Skip \/ BeginSync \/ SyncPage \/ CleanSales \/ SaveSync \/ LinkSales \/ SaveAdjusted \/ Bury \/ Refused
             \/ \E a \in User : AddSale(a) \/ List(a) \/ \E s \in Sale : Delist(a, s) \/ UpdateSale(a, s)
             \/ Tick \/ UNCHANGED vars
    BY <2>1 DEF Skip, BeginSync, SyncPage, CleanSales, SaveSync, LinkSales, SaveAdjusted, Bury, Refused,
         AddSale, List, Delist, UpdateSale, Tick, vars
  <2> QED
    BY <2>1, WorkerComes, CallerComes DEF Next, WorkerStep
<1> QED
  BY <1>1

LEMMA NewEntries ==
  ASSUME TypeInv, [Next]_vars, ~\E p \in Priority : Take(p)
  PROVE  /\ \A f : In(queue, f) => In(queue', f)
         /\ \A f : In(queue', f) => In(queue, f) \/ (f \in Element /\ Comes(f))
BY Puts, PutIn

(* The entry taken is the worker's, and no longer waits.                     *)
LEMMA TakeHere ==
  ASSUME TypeInv, NEW p \in Priority, Take(p)
  PROVE  \E e \in Element :
           /\ work.pc = "idle" /\ work'.pc = "loaded" /\ work'.entry = e /\ work'.user = user[e.auth]
           /\ UNCHANGED <<day, user, sales, linked, validator, spent>>
           /\ \A f : In(queue, f) <=> f = e \/ In(queue', f)
           /\ \A a : Lone(queue, a) => Lone(queue', a) /\ (Mine(a, e) => NoSync(queue', a))
<1>1. queue \in [Priority -> Seq(Element)]
  BY DEF TypeInv, Types
<1>2. queue[p] # <<>> /\ queue' = [queue EXCEPT ![p] = Tail(@)]
  BY DEF Take
<1>3. PICK e \in Element : e = Head(queue[p])
  BY <1>1, <1>2, QueueTypes, Entries
<1>4. /\ work.pc = "idle" /\ work'.pc = "loaded" /\ work'.entry = e /\ work'.user = user[e.auth]
      /\ UNCHANGED <<day, user, sales, linked, validator, spent>>
  BY <1>3 DEF Take, store, clock
<1>5. /\ \A f : In(queue, f) <=> f = e \/ In(queue', f)
      /\ \A a : Lone(queue, a) => Lone(queue', a) /\ (Mine(a, e) => NoSync(queue', a))
  <2>1. TakenAt(queue, p, e, queue')
    BY <1>2, <1>3 DEF TakenAt
  <2> QED
    BY <1>1, <2>1, TakeLone
<1> QED
  BY <1>4, <1>5

(* An entry that has a key of its own is present only if it waits or runs.   *)
LEMMA ExistsHere ==
  ASSUME TypeInv, Rests, NEW e \in Element, Exists(e)
  PROVE  \E f \in Element : Here(f) /\ Key(f) = Key(e)
BY PresentHere DEF Exists

LEMMA KeyOfSync ==
  ASSUME NEW e \in Element, NEW f \in Element, Key(f) = Key(e), IsSync(e)
  PROVE  f.kind = e.kind /\ f.auth = e.auth /\ f.page = e.page
BY DEF Key, IsSync

-----------------------------------------------------------------------------
(* Forced syncs leave no lock behind.                                        *)

(* As long as the validator has enqueued no sync, every sync is forced and   *)
(* takes the lock, what a handler writes back has the lock that is stored,   *)
(* and a user who has it has a sync.                                         *)
ForcedInv ==
  ~Scheduled =>
    /\ \A f \in Element : Here(f) /\ IsSync(f) => f.force
    /\ \A a \in User : Busy(a) => work.user.active = user[a].active
    /\ \A a \in User : user[a].active # 0 => \E f \in Element : Here(f) /\ Mine(a, f)

(* No sync is given up.                                                      *)
NothingGivenUp == ~Bury /\ ~Refused

(* The steps that put an entry down.                                         *)
LEMMA ForcedEnds ==
  ASSUME TypeInv, Rests, Times, ForcedInv, ~Scheduled, Next, work.pc # "idle", work'.pc = "idle",
         NothingGivenUp, ~\E p \in Priority : Take(p), NEW a \in User, user'[a].active # 0
  PROVE  \E f \in Element : In(queue', f) /\ Mine(a, f)
<1>1. /\ work \in WorkRecord /\ work.entry \in Element /\ work.user \in StoredUser /\ user \in [User -> StoredUser]
      /\ work.entry.auth \in User /\ work.id \in Nat
      /\ work.pc \in {"sync", "synced", "cleaned", "save"} => IsSync(work.entry)
  BY DEF TypeInv, Types, Loaded, Element, WorkRecord, IsSync
<1>2. \A f : In(queue, f) => In(queue', f)
  BY NewEntries
<1>3. ASSUME NEW f \in Element, Here(f), Mine(a, f), f # work.entry
      PROVE  In(queue', f)
  BY <1>2, <1>3 DEF Here
<1>4. Skip \/ RateLimit \/ Requeue \/ NextPage \/ LinkSales \/ SaveSync \/ SaveAdjusted
  <2>1. \/ Skip \/ RateLimit \/ Requeue \/ NextPage \/ LinkSales \/ SaveSync \/ SaveAdjusted
        \/ BeginSync \/ SyncPage \/ CleanSales \/ EnqueueLink \/ AdjustSales \/ work' = work
    BY DEF NothingGivenUp, Next, WorkerStep, AddSale, Validate, ListUsers, ScheduleReconcile, ScheduleRefresh, TakeLock,
           ScheduleAdjust, List, Delist, UpdateSale, Tick, AdminSync
  <2>2. BeginSync \/ SyncPage \/ CleanSales \/ EnqueueLink \/ AdjustSales => work'.pc # "idle"
    BY <1>1 DEF BeginSync, SyncPage, CleanSales, EnqueueLink, AdjustSales, WorkRecord
  <2> QED
    BY <2>1, <2>2
<1>5. CASE Skip
  <2>1. IsSync(work.entry) /\ ~Due(work.entry, work.user)
    BY <1>5 DEF Skip, IsSync
  <2>2. work.entry.force
    BY <1>1, <2>1 DEF ForcedInv, Here
  <2> QED
    BY <2>1, <2>2 DEF Due
<1>6. CASE RateLimit \/ Requeue
  <2>1. PICK e \in Element : Put(e) /\ e.auth = work.entry.auth /\ e.kind = work.entry.kind
    <3>1. CASE RateLimit
      <4>1. Put(work.entry)
        BY <1>1, <3>1 DEF RateLimit, Put, Element
      <4> QED
        BY <1>1, <4>1
    <3>2. CASE Requeue
      <4>1. PICK e \in Element : e = [work.entry EXCEPT !.id = work.id]
        BY <1>1, Fields
      <4>2. e.auth = work.entry.auth /\ e.kind = work.entry.kind /\ e.prio \in Priority
        BY <1>1, <4>1 DEF Element
      <4>3. Put(e)
        BY <3>2, <4>1, <4>2 DEF Requeue, Put
      <4> QED
        BY <4>2, <4>3
    <3> QED
      BY <1>6, <3>1, <3>2
  <2>2. user' = user
    BY <1>6 DEF RateLimit, Requeue, store
  <2>3. In(queue', e) /\ (Mine(a, work.entry) => Mine(a, e))
    BY <2>1, PutIn DEF Mine, IsSync
  <2> QED
    BY <1>3, <2>2, <2>3 DEF ForcedInv
<1>7. CASE NextPage
  <2>1. PICK e : e = Sync(work.entry.kind, work.entry.auth, work.entry.page + 1, work.id, work.entry.force, "UNSET")
    OBVIOUS
  <2>2. /\ e \in Element /\ e.auth = work.entry.auth /\ e.kind = work.entry.kind /\ e.page # work.entry.page
        /\ IsSync(e)
    BY <1>1, <1>7, <2>1 DEF Sync, Element, Priority, NextPage, IsSync
  <2>3. Ensure(e) /\ user' = user
    BY <1>7, <2>1 DEF NextPage, store
  <2>4. \E g \in Element : In(queue', g) /\ g.kind = e.kind /\ g.auth = e.auth
    <3>1. CASE In(queue', e)
      BY <2>2, <3>1
    <3>2. CASE Exists(e)
      <4>1. PICK g \in Element : Here(g) /\ Key(g) = Key(e)
        BY <2>2, <3>2, ExistsHere
      <4>2. g.kind = e.kind /\ g.auth = e.auth /\ g.page = e.page
        BY <2>2, <4>1, KeyOfSync
      <4> QED
        BY <1>2, <2>2, <4>1, <4>2 DEF Here
    <3> QED
      BY <2>2, <2>3, <3>1, <3>2, EnsureIn
  <2> QED
    BY <1>3, <2>2, <2>3, <2>4 DEF ForcedInv, Mine, IsSync
<1>8. CASE LinkSales
  <2>1. user' = user /\ ~IsSync(work.entry)
    BY <1>8 DEF LinkSales, IsSync
  <2> QED
    BY <1>3, <2>1 DEF ForcedInv, Mine
<1>9. CASE SaveSync
  <2>1. user' = [user EXCEPT ![work.entry.auth] = Completed(work.entry, work.user)]
    BY <1>9 DEF SaveSync
  <2>2. Completed(work.entry, work.user).active = 0
    BY <1>1 DEF Completed, StoredUser
  <2>3. a # work.entry.auth /\ user'[a] = user[a]
    BY <1>1, <2>1, <2>2
  <2> QED
    BY <1>3, <2>3 DEF ForcedInv, Mine
<1>10. CASE SaveAdjusted
  <2>1. user' = [user EXCEPT ![work.entry.auth] = work.user] /\ ~IsSync(work.entry)
    BY <1>10 DEF SaveAdjusted, Rests, IsSync
  <2>2. user'[a].active = user[a].active
    BY <1>1, <2>1 DEF ForcedInv, Busy
  <2> QED
    BY <1>3, <2>1, <2>2 DEF ForcedInv, Mine
<1> QED
  BY <1>4, <1>5, <1>6, <1>7, <1>8, <1>9, <1>10

(* Every step.                                                               *)
LEMMA ForcedKept ==
  ASSUME TypeInv, TypeInv', Rests, Times, ForcedInv, [Next]_vars, [NothingGivenUp]_vars
  PROVE  ForcedInv'
<1>1. SUFFICES ASSUME ~Scheduled'
               PROVE  /\ \A f \in Element : Here(f)' /\ IsSync(f) => f.force
                      /\ \A a \in User : Busy(a)' => work'.user.active = user'[a].active
                      /\ \A a \in User : user'[a].active # 0 => \E f \in Element : Here(f)' /\ Mine(a, f)
  BY DEF ForcedInv, Mine, IsSync
<1>2. /\ work \in WorkRecord /\ user \in [User -> StoredUser] /\ spent \in Spent /\ spent' \in Spent /\ day \in Nat
      /\ work.pc # "idle" => work.entry \in Element /\ work.entry.auth \in User /\ work.user \in StoredUser
  BY DEF TypeInv, Types, Loaded, Element
<1>3. ~Scheduled /\ spent["syncs"] = 0
  <2>1. spent'["syncs"] = 0 /\ spent["syncs"] \in Nat
    BY <1>1, <1>2 DEF Scheduled, Spent
  <2>2. spent["syncs"] = 0 \/ spent'["syncs"] # 0
    <3>1. spent' = spent \/ \E w \in {"syncs", "forced", "admin", "delists", "adds", "faults"} : \E n : Spend(w, n)
      BY DEF Next, WorkerStep, Take, Skip, BeginSync, SyncPage, NextPage, CleanSales, EnqueueLink, SaveSync, LinkSales,
             AdjustSales, SaveAdjusted, RateLimit, Requeue, Bury, Refused, AddSale, Validate, ListUsers, ScheduleReconcile,
             ScheduleRefresh, Schedule, TakeLock, ScheduleAdjust, List, AdminSync, Delist, UpdateSale, Tick, vars, clock
    <3> QED
      BY <1>2, <2>1, <3>1 DEF Spend, Spent
  <2> QED
    BY <2>1, <2>2 DEF Scheduled
<1>4. validator.pc # "save" /\ ~\E a \in User : TakeLock(a)
  BY <1>3 DEF Times, TakeLock, ValidatorStep
<1>5. CASE \E p \in Priority : Take(p)
  <2>1. PICK e \in Element :
          /\ work.pc = "idle" /\ work'.pc = "loaded" /\ work'.entry = e /\ work'.user = user[e.auth]
          /\ user' = user /\ \A f : In(queue, f) <=> f = e \/ In(queue', f)
    BY <1>5, TakeHere
  <2>2. \A f \in Element : Here(f)' <=> Here(f)
    BY <2>1 DEF Here
  <2>3. \A a \in User : Busy(a)' => work'.user.active = user'[a].active
    BY <2>1 DEF Busy
  <2> QED
    BY <1>3, <2>1, <2>2, <2>3 DEF ForcedInv
<1>6. CASE ~\E p \in Priority : Take(p)
  <2>1. /\ \A f : In(queue, f) => In(queue', f)
        /\ \A f : In(queue', f) => In(queue, f) \/ (f \in Element /\ Comes(f))
    BY <1>6, NewEntries
  <2>2. work'.pc = "idle" \/ (work.pc # "idle" /\ work'.entry = work.entry) \/ work' = work
    BY <1>6, WorkerMoves
  <2>3. ASSUME NEW f \in Element, Here(f)', IsSync(f)
        PROVE  f.force
    <3>1. Here(f) \/ Comes(f)
      BY <2>1, <2>2, <2>3 DEF Here
    <3>2. Here(f) => f.force
      BY <1>3, <2>3 DEF ForcedInv
    <3>3. work.pc # "idle" /\ IsSync(work.entry) => work.entry.force
      BY <1>2, <1>3 DEF ForcedInv, Here
    <3> QED
      BY <1>1, <2>3, <3>1, <3>2, <3>3 DEF Comes, IsSync
  <2>4. CASE work.pc # "idle" /\ work'.pc = "idle"
    <3>1. Next /\ NothingGivenUp
      BY <2>4 DEF vars
    <3>2. \A a \in User : user'[a].active # 0 => \E f \in Element : Here(f)' /\ Mine(a, f)
      BY <1>3, <1>6, <2>4, <3>1, ForcedEnds DEF Here
    <3> QED
      BY <2>3, <2>4, <3>2 DEF Busy
  <2>5. CASE BeginSync
    <3>1. PICK e \in Element : e = work.entry /\ e.auth \in User
      BY <1>2, <2>5 DEF BeginSync
    <3>2. IsSync(e) /\ work.pc = "loaded" /\ e.force
      BY <1>3, <2>5, <3>1 DEF BeginSync, IsSync, ForcedInv, Here
    <3>3. PICK u : u = Locked(e, work.user)
      OBVIOUS
    <3>4. work'.entry = e /\ work'.pc = "sync"
      BY <1>2, <2>5, <3>1 DEF BeginSync, WorkRecord
    <3>5. /\ \A a \in User : a # e.auth => user'[a] = user[a]
          /\ work'.user.active = user'[e.auth].active
      <4>1. CASE e.page = 1
        <5>1. user' = [user EXCEPT ![e.auth] = u] /\ work' = [work EXCEPT !.pc = "sync", !.user = u, !.id = work'.id]
          BY <1>2, <2>5, <3>1, <3>2, <3>3, <4>1 DEF BeginSync, TakesLock, WorkRecord
        <5>2. work'.user = u
          BY <1>2, <5>1 DEF WorkRecord
        <5> QED
          BY <1>2, <3>1, <5>1, <5>2
      <4>2. CASE e.page # 1
        <5>1. user' = user /\ work' = [work EXCEPT !.pc = "sync"]
          BY <2>5, <3>1, <4>2 DEF BeginSync
        <5>2. work'.user = work.user
          BY <1>2, <5>1 DEF WorkRecord
        <5> QED
          BY <1>3, <3>1, <3>2, <5>1, <5>2 DEF ForcedInv, Busy
      <4> QED
        BY <4>1, <4>2
    <3>6. \A f : Here(f) => Here(f)'
      BY <2>1, <3>1, <3>4 DEF Here
    <3>7. \A a \in User : Busy(a)' => work'.user.active = user'[a].active
      BY <3>4, <3>5 DEF Busy
    <3>8. \A a \in User : user'[a].active # 0 => \E f \in Element : Here(f)' /\ Mine(a, f)
      BY <1>3, <3>1, <3>2, <3>4, <3>5, <3>6 DEF ForcedInv, Mine, Here
    <3> QED
      BY <2>3, <3>7, <3>8
  <2>6. CASE ~BeginSync /\ (work'.pc # "idle" \/ work' = work)
    <3>1. user' = user /\ (work' = work \/ (work.pc # "idle" /\ work'.entry = work.entry /\ work'.user = work.user))
      <4>1. CASE SyncPage \/ CleanSales \/ EnqueueLink \/ AdjustSales
        BY <1>2, <4>1 DEF SyncPage, CleanSales, EnqueueLink, AdjustSales, WorkRecord, store
      <4>2. CASE \E a \in User : Validate(a)
        BY <1>4, <4>2 DEF Validate, ListUsers, ScheduleReconcile, ScheduleRefresh, ScheduleAdjust, store
      <4>3. CASE \/ Tick \/ UNCHANGED vars \/ \E a \in User, kind \in {"refresh", "reconcile"} : AdminSync(a, kind)
                 \/ \E a \in User : AddSale(a) \/ List(a) \/ \E s \in Sale : Delist(a, s) \/ UpdateSale(a, s)
        BY <4>3 DEF Tick, vars, AdminSync, AddSale, List, Delist, UpdateSale, store
      <4>4. Skip \/ RateLimit \/ Requeue \/ Bury \/ Refused \/ NextPage \/ LinkSales \/ SaveSync \/ SaveAdjusted =>
              work.pc # "idle" /\ work'.pc = "idle"
        BY IdleTypes DEF Skip, RateLimit, Requeue, Bury, Refused, NextPage, LinkSales, SaveSync, SaveAdjusted, Done
      <4> QED
        BY <1>6, <2>6, <4>1, <4>2, <4>3, <4>4 DEF Next, WorkerStep
    <3>2. \A f : Here(f) => Here(f)'
      BY <2>1, <2>2, <2>6, <3>1 DEF Here
    <3>3. \A a \in User : Busy(a)' => Busy(a)
      BY <3>1 DEF Busy
    <3>4. \A a \in User : Busy(a)' => work'.user.active = user'[a].active
      BY <1>3, <3>1, <3>3 DEF ForcedInv
    <3>5. \A a \in User : user'[a].active # 0 => \E f \in Element : Here(f)' /\ Mine(a, f)
      BY <1>3, <3>1, <3>2 DEF ForcedInv
    <3> QED
      BY <2>3, <3>4, <3>5
  <2> QED
    BY <1>6, <2>2, <2>4, <2>5, <2>6, WorkerMoves
<1> QED
  BY <1>5, <1>6

(* Forced syncs, one after another or together, leave no lock behind: one    *)
(* that still bars the validator belongs to a sync that is queued or running *)
(* (background/sales.go, SyncSales), unless a sync is given up half way.     *)
THEOREM ForcedSyncsUnlock == Spec /\ [][NothingGivenUp]_vars => []ForcedUnlocks
<1>1. Init => TypeInv /\ Rests /\ Times /\ ForcedInv
  <2> SUFFICES ASSUME Init PROVE Rests /\ ForcedInv
    BY TypeInit, TimesInit
  <2>1. work.pc = "idle" /\ work.entry = None /\ \A p \in Priority : queue[p] = <<>>
    BY DEF Init, Idle
  <2>2. \A f : ~Here(f)
    BY <2>1 DEF Here, In
  <2>3. \A a \in User : user[a].active = 0
    BY DEF Init
  <2> QED
    BY <2>1, <2>2, <2>3 DEF Rests, ForcedInv, Busy
<1>2. /\ TypeInv /\ Rests /\ Times /\ ForcedInv /\ [Next]_vars /\ [NothingGivenUp]_vars
      => TypeInv' /\ Rests' /\ Times' /\ ForcedInv'
  BY TypeStep, RestsKept, TimesStep, ForcedKept
<1>3. TypeInv /\ Rests /\ ForcedInv => ForcedUnlocks
  <2> SUFFICES ASSUME TypeInv, Rests, ForcedInv, ~Scheduled, NEW a \in User, Quiet(a)
               PROVE  ~IsSalesSyncActive(user[a])
    BY DEF ForcedUnlocks, UnlockedWhenQuiet
  <2>1. ~\E f \in Element : Here(f) /\ Mine(a, f)
    BY PresentHere DEF Quiet, Syncs, Mine, IsSync
  <2> QED
    BY <2>1 DEF ForcedInv, IsSalesSyncActive
<1> QED
  BY <1>1, <1>2, <1>3, PTL DEF Spec

-----------------------------------------------------------------------------
(* What a sync has stored is linked.                                         *)

(* The user as a handler that begins now would read it: no timestamp of it   *)
(* lies ahead, and of the copies of it the validator's is the oldest and the *)
(* worker's the newest.                                                      *)
Reads(a) == IF Busy(a) THEN work.user ELSE user[a]
Older(u, v) == u.refreshed <= v.refreshed /\ u.reconciled <= v.reconciled
Past(u) == u.refreshed <= day /\ u.reconciled <= day
Aged ==
  /\ \A a \in User : Older(user[a], Reads(a)) /\ Past(Reads(a))
  /\ validator.pc # "idle" => Older(validator.user, user[validator.auth])

(* Only a sync that is saved brings the timestamps forward.                  *)
Ages ==
  /\ Aged'
  /\ \A a \in User : (work.pc = "save" /\ SaveSync /\ work.entry.auth = a) \/ Older(Reads(a)', Reads(a))

LEMMA ReadTypes ==
  ASSUME TypeInv, NEW a \in User
  PROVE  Reads(a) \in StoredUser /\ user[a] \in StoredUser
BY DEF TypeInv, Types, Loaded, Reads, Busy

LEMMA OlderOrder ==
  /\ \A u \in StoredUser : Older(u, u) /\ u.refreshed \in Nat /\ u.reconciled \in Nat
  /\ \A u \in StoredUser, v \in StoredUser, w \in StoredUser : Older(u, v) /\ Older(v, w) => Older(u, w)
  /\ \A u \in StoredUser, d \in Nat :
       LET v == [u EXCEPT !.active = d] IN
       v \in StoredUser /\ v.active = d /\ v.refreshed = u.refreshed /\ v.reconciled = u.reconciled
<1>1. \A u \in StoredUser : u.refreshed \in Nat /\ u.reconciled \in Nat
  BY DEF StoredUser
<1>2. ASSUME NEW u \in StoredUser, NEW d \in Nat
      PROVE  LET v == [u EXCEPT !.active = d] IN
             v \in StoredUser /\ v.active = d /\ v.refreshed = u.refreshed /\ v.reconciled = u.reconciled
  BY DEF StoredUser
<1>3. \A u \in StoredUser, v \in StoredUser, w \in StoredUser : Older(u, v) /\ Older(v, w) => Older(u, w)
  BY <1>1 DEF Older
<1> QED
  BY <1>1, <1>2, <1>3 DEF Older

(* The steps that write no user.                                             *)
LEMMA AgedStays ==
  ASSUME TypeInv, TypeInv', Aged, user' = user, day' \in {day, day + 1},
         \/ work'.pc = "idle"
         \/ work' = work
         \/ work.pc = "idle" /\ work'.user = user[work'.entry.auth]
         \/ work.pc # "idle" /\ work'.entry = work.entry /\ work'.user = work.user,
         validator' = validator \/ validator'.pc = "idle" \/ validator'.user = user[validator'.auth]
           \/ (validator.pc # "idle" /\ validator'.auth = validator.auth /\ validator'.user = validator.user)
  PROVE  Ages
<1>1. day \in Nat /\ day' \in Nat /\ (validator'.pc # "idle" => validator'.auth \in User)
  BY DEF TypeInv, Types, Loaded
<1>2. ASSUME NEW a \in User
      PROVE  Older(user'[a], Reads(a)') /\ Past(Reads(a))' /\ Older(Reads(a)', Reads(a))
  <2>1. Older(user[a], Reads(a)) /\ Past(Reads(a)) /\ Reads(a) \in StoredUser /\ user[a] \in StoredUser
    BY ReadTypes DEF Aged
  <2>2. Reads(a)' = user[a] \/ Reads(a)' = Reads(a)
    BY DEF Reads, Busy
  <2>3. Older(Reads(a)', Reads(a)) /\ Older(user'[a], Reads(a)')
    BY <2>1, <2>2, OlderOrder
  <2>4. PICK u \in StoredUser, v \in StoredUser : u = Reads(a) /\ v = Reads(a)'
    BY <2>1, <2>2
  <2>5. u.refreshed \in Nat /\ u.reconciled \in Nat /\ v.refreshed \in Nat /\ v.reconciled \in Nat
    BY OlderOrder
  <2>6. v.refreshed <= day' /\ v.reconciled <= day'
    BY <1>1, <2>1, <2>3, <2>4, <2>5 DEF Older, Past
  <2> QED
    BY <2>3, <2>4, <2>6 DEF Past
<1>3. validator'.pc # "idle" => Older(validator'.user, user'[validator'.auth])
  BY <1>1, ReadTypes, OlderOrder DEF Aged
<1> QED
  BY <1>2, <1>3 DEF Ages, Aged

(* The worker's steps that do.                                               *)
LEMMA AgedWritten ==
  ASSUME TypeInv, TypeInv', Aged, BeginSync \/ SaveSync \/ SaveAdjusted
  PROVE  Ages
<1>1. PICK e \in Element : e = work.entry /\ e.auth \in User /\ work.pc # "idle"
  BY DEF TypeInv, Types, Loaded, Element, BeginSync, SaveSync, SaveAdjusted
<1>2. /\ user \in [User -> StoredUser] /\ work \in WorkRecord /\ day \in Nat /\ day' = day /\ validator' = validator
      /\ work.user \in StoredUser /\ (validator.pc # "idle" => validator.auth \in User /\ validator.user \in StoredUser)
  BY <1>1 DEF TypeInv, Types, Loaded, BeginSync, SaveSync, SaveAdjusted, clock
<1>3. /\ work.user.refreshed \in Nat /\ work.user.reconciled \in Nat
      /\ \A a \in User : user[a].refreshed \in Nat /\ user[a].reconciled \in Nat
  BY <1>2, OlderOrder
<1>4. /\ \A a \in User : Reads(a) = IF a = e.auth THEN work.user ELSE user[a]
      /\ \A a \in User : Older(user[a], Reads(a)) /\ Past(Reads(a))
      /\ validator.pc # "idle" => Older(validator.user, user[validator.auth])
  BY <1>1 DEF Reads, Busy, Aged
<1>5. PICK w \in StoredUser :
        /\ \A a \in User : /\ Reads(a)' = IF a = e.auth THEN w ELSE user[a]
                           /\ a # e.auth => user'[a] = user[a]
        /\ Older(user'[e.auth], w) /\ Past(w) /\ Older(user[e.auth], user'[e.auth])
        /\ ~SaveSync => Older(w, work.user)
  <2>1. CASE BeginSync
    <3>1. PICK u : u = Locked(e, work.user)
      OBVIOUS
    <3>2. u \in StoredUser /\ u.refreshed = work.user.refreshed /\ u.reconciled = work.user.reconciled
      BY <1>2, <3>1, OlderOrder DEF Locked
    <3>3. /\ work'.pc = "sync" /\ work'.entry = e /\ (work'.user = u \/ work'.user = work.user)
          /\ user' = user \/ user' = [user EXCEPT ![e.auth] = u]
      <4>1. CASE e.page = 1
        <5>1. PICK b, id : /\ user' = [user EXCEPT ![e.auth] = IF b THEN u ELSE @]
                           /\ work' = [work EXCEPT !.pc = "sync", !.user = u, !.id = id]
          BY <1>1, <2>1, <3>1, <4>1 DEF BeginSync
        <5>2. user' = user \/ user' = [user EXCEPT ![e.auth] = u]
          BY <1>2, <5>1
        <5>3. work'.pc = "sync" /\ work'.entry = e /\ work'.user = u
          BY <1>1, <1>2, <5>1 DEF WorkRecord
        <5> QED
          BY <5>2, <5>3
      <4>2. CASE e.page # 1
        <5>1. work' = [work EXCEPT !.pc = "sync"] /\ user' = user
          BY <1>1, <2>1, <4>2 DEF BeginSync
        <5> QED
          BY <1>1, <1>2, <5>1 DEF WorkRecord
      <4> QED
        BY <4>1, <4>2
    <3>4. work'.user \in StoredUser /\ Older(work'.user, work.user) /\ Older(work.user, work'.user) /\ Past(work'.user)
      BY <1>1, <1>2, <1>3, <1>4, <3>2, <3>3 DEF Older, Past
    <3>5. \A a \in User : Reads(a)' = IF a = e.auth THEN work'.user ELSE user'[a]
      BY <3>3 DEF Reads, Busy
    <3>6. \A a \in User : user'[a] = user[a] \/ (a = e.auth /\ user'[a] = u)
      BY <1>1, <1>2, <3>3
    <3>7. Older(user'[e.auth], work'.user) /\ Older(user[e.auth], user'[e.auth])
      <4>1. Older(user[e.auth], work.user)
        BY <1>1, <1>4
      <4> QED
        BY <1>1, <1>2, <1>3, <3>2, <3>3, <3>6, <4>1 DEF Older
    <3> QED
      BY <3>4, <3>5, <3>6, <3>7
  <2>2. CASE SaveSync \/ SaveAdjusted
    <3>1. PICK u : /\ user' = [user EXCEPT ![e.auth] = u] /\ u \in StoredUser /\ Older(work.user, u) /\ Past(u)
                   /\ ~SaveSync => u = work.user
      <4>1. CASE SaveSync
        <5>1. PICK u : u = Completed(e, work.user)
          OBVIOUS
        <5>2. u \in StoredUser
          <6>1. user' = [user EXCEPT ![e.auth] = u] /\ user' \in [User -> StoredUser]
            BY <1>1, <4>1, <5>1 DEF SaveSync, TypeInv, Types
          <6>2. user'[e.auth] = u /\ user'[e.auth] \in StoredUser
            BY <1>1, <1>2, <6>1
          <6> QED
            BY <6>2
        <5>3. u.refreshed = day /\ u.reconciled \in {day, work.user.reconciled}
          BY <1>2, <5>1 DEF Completed, StoredUser
        <5>4. work.user.refreshed <= day /\ work.user.reconciled <= day
          BY <1>1, <1>4 DEF Past
        <5>5. Older(work.user, u) /\ Past(u)
          BY <1>2, <1>3, <5>3, <5>4 DEF Older, Past
        <5> QED
          BY <1>1, <4>1, <5>1, <5>2, <5>5 DEF SaveSync
      <4>2. CASE ~SaveSync
        <5>1. user' = [user EXCEPT ![e.auth] = work.user]
          BY <1>1, <2>2, <4>2 DEF SaveAdjusted
        <5>2. Older(work.user, work.user) /\ Past(work.user)
          BY <1>1, <1>2, <1>4, OlderOrder
        <5> QED
          BY <1>2, <4>2, <5>1, <5>2
      <4> QED
        BY <4>1, <4>2
    <3>2. work'.pc = "idle"
      BY <2>2, IdleTypes DEF SaveSync, SaveAdjusted, Done
    <3>3. \A a \in User : Reads(a)' = user'[a]
      BY <3>2 DEF Reads, Busy
    <3>4. user'[e.auth] = u /\ \A a \in User : a # e.auth => user'[a] = user[a]
      BY <1>1, <1>2, <3>1
    <3>5. Older(user[e.auth], u)
      <4>1. Older(user[e.auth], work.user) /\ user[e.auth] \in StoredUser
        BY <1>1, <1>2, <1>4
      <4> QED
        BY <1>2, <3>1, <4>1, OlderOrder
    <3> QED
      BY <1>1, <1>2, <3>1, <3>3, <3>4, <3>5, OlderOrder
  <2> QED
    BY <2>1, <2>2
<1>6. ASSUME NEW a \in User
      PROVE  /\ Older(user'[a], Reads(a)') /\ Past(Reads(a))'
             /\ (work.pc = "save" /\ SaveSync /\ work.entry.auth = a) \/ Older(Reads(a)', Reads(a))
  <2>1. CASE a = e.auth
    <3>1. SaveSync => work.pc = "save"
      BY DEF SaveSync
    <3>2. Past(w)' <=> Past(w)
      BY <1>2 DEF Past
    <3> QED
      BY <1>1, <1>4, <1>5, <2>1, <3>1, <3>2 DEF Past
  <2>2. CASE a # e.auth
    <3>1. Reads(a)' = user[a] /\ Reads(a) = user[a] /\ user'[a] = user[a]
      BY <1>4, <1>5, <2>2
    <3>2. Older(user[a], user[a])
      BY <1>2, OlderOrder
    <3> QED
      BY <1>2, <1>4, <3>1, <3>2 DEF Past
  <2> QED
    BY <2>1, <2>2
<1>7. validator'.pc # "idle" => Older(validator'.user, user'[validator'.auth])
  <2> SUFFICES ASSUME validator.pc # "idle" PROVE Older(validator.user, user'[validator.auth])
    BY <1>2
  <2>1. user' \in [User -> StoredUser]
    BY DEF TypeInv, Types
  <2>2. Older(user[validator.auth], user'[validator.auth])
    BY <1>1, <1>2, <1>5, OlderOrder
  <2> QED
    BY <1>2, <1>4, <2>1, <2>2, OlderOrder
<1> QED
  BY <1>6, <1>7 DEF Ages, Aged

(* The validator's.                                                          *)
LEMMA AgedLocked ==
  ASSUME TypeInv, TypeInv', Aged, NEW a \in User, TakeLock(a)
  PROVE  Ages
<1>1. /\ validator.pc = "save" /\ validator.auth = a /\ work' = work /\ day' = day /\ validator.user \in StoredUser
      /\ user \in [User -> StoredUser] /\ validator \in ValidatorRecord /\ day \in Nat
  BY DEF TypeInv, Types, Loaded, TakeLock, ValidatorStep, clock
<1>2. PICK u \in StoredUser : /\ u = [validator.user EXCEPT !.active = day]
                              /\ u.refreshed = validator.user.refreshed /\ u.reconciled = validator.user.reconciled
  BY <1>1, OlderOrder
<1>3. user' = [user EXCEPT ![a] = u]
  BY <1>2 DEF TakeLock
<1>4. user'[a] = u /\ \A b \in User : b # a => user'[b] = user[b]
  BY <1>1, <1>3
<1>5. Older(u, user[a]) /\ Older(u, u)
  <2>1. Older(validator.user, user[a])
    BY <1>1 DEF Aged
  <2> QED
    BY <1>2, <2>1, OlderOrder DEF Older
<1>6. \A b \in User : Older(user'[b], user[b]) /\ user'[b] \in StoredUser /\ user[b] \in StoredUser
  BY <1>1, <1>4, <1>5, OlderOrder
<1>7. ASSUME NEW b \in User
      PROVE  Older(user'[b], Reads(b)') /\ Past(Reads(b))' /\ Older(Reads(b)', Reads(b))
  <2>1. Older(user[b], Reads(b)) /\ Past(Reads(b)) /\ Reads(b) \in StoredUser
    BY ReadTypes DEF Aged
  <2>2. Reads(b)' = Reads(b) \/ (Reads(b)' = user'[b] /\ Reads(b) = user[b])
    BY <1>1 DEF Reads, Busy
  <2>3. Older(user'[b], Reads(b)') /\ Older(Reads(b)', Reads(b)) /\ Reads(b)' \in StoredUser
    BY <1>6, <2>1, <2>2, OlderOrder
  <2>4. PICK v \in StoredUser, w \in StoredUser : v = Reads(b) /\ w = Reads(b)'
    BY <2>1, <2>3
  <2>5. v.refreshed \in Nat /\ v.reconciled \in Nat /\ w.refreshed \in Nat /\ w.reconciled \in Nat
    BY OlderOrder
  <2>6. w.refreshed <= day' /\ w.reconciled <= day'
    BY <1>1, <2>1, <2>3, <2>4, <2>5 DEF Older, Past
  <2> QED
    BY <2>3, <2>4, <2>6 DEF Past
<1>8. validator'.auth = a /\ validator'.user = u
  <2>1. validator' = [validator EXCEPT !.pc = "adjust", !.user.active = day]
    BY DEF TakeLock
  <2> QED
    BY <1>1, <1>2, <2>1 DEF ValidatorRecord
<1> QED
  BY <1>4, <1>5, <1>7, <1>8 DEF Ages, Aged

(* Every step.                                                               *)
LEMMA AgedStep ==
  ASSUME TypeInv, TypeInv', Aged, [Next]_vars
  PROVE  Ages
<1>1. validator \in ValidatorRecord /\ work \in WorkRecord /\ day \in Nat
  BY DEF TypeInv, Types
<1>2. CASE Skip \/ RateLimit \/ Requeue \/ Bury \/ Refused \/ NextPage \/ LinkSales
  <2>1. user' = user /\ validator' = validator /\ work'.pc = "idle" /\ day' = day
    BY <1>2, IdleTypes DEF Skip, RateLimit, Requeue, Bury, Refused, NextPage, LinkSales, Done, store, clock
  <2> QED
    BY <2>1, AgedStays
<1>3. CASE SyncPage \/ CleanSales \/ EnqueueLink \/ AdjustSales
  <2>1. /\ user' = user /\ validator' = validator /\ work.pc # "idle" /\ day' = day
        /\ work'.entry = work.entry /\ work'.user = work.user
    BY <1>1, <1>3 DEF SyncPage, CleanSales, EnqueueLink, AdjustSales, store, clock, WorkRecord
  <2> QED
    BY <2>1, AgedStays
<1>4. CASE \/ Tick \/ UNCHANGED vars
           \/ \E a \in User : AddSale(a) \/ List(a)
           \/ \E a \in User, kind \in {"refresh", "reconcile"} : AdminSync(a, kind)
           \/ \E a \in User, s \in Sale : Delist(a, s) \/ UpdateSale(a, s)
  <2>1. user' = user /\ validator' = validator /\ work' = work /\ day' \in {day, day + 1}
    BY <1>4 DEF Tick, vars, AddSale, List, AdminSync, Delist, UpdateSale, store, clock
  <2> QED
    BY <2>1, AgedStays
<1>5. CASE \E a \in User : ListUsers(a) \/ ScheduleAdjust(a)
  <2>1. /\ user' = user /\ work' = work /\ day' = day
        /\ validator'.pc = "idle" \/ validator'.user = user[validator'.auth]
    BY <1>5 DEF ListUsers, ScheduleAdjust, store, clock
  <2> QED
    BY <2>1, AgedStays
<1>6. CASE \E a \in User : ScheduleReconcile(a) \/ ScheduleRefresh(a)
  <2>1. user' = user /\ work' = work /\ day' = day /\ validator.pc # "idle"
    BY <1>6 DEF ScheduleReconcile, ScheduleRefresh, ValidatorStep, store
  <2>2. \E pc : validator' = [validator EXCEPT !.pc = pc]
    BY <1>6 DEF ScheduleReconcile, ScheduleRefresh, Schedule, Goto
  <2>3. validator'.auth = validator.auth /\ validator'.user = validator.user
    BY <1>1, <2>2 DEF ValidatorRecord
  <2> QED
    BY <2>1, <2>3, AgedStays
<1>7. CASE \E p \in Priority : Take(p)
  <2>1. PICK e : /\ work.pc = "idle" /\ work'.entry = e /\ work'.user = user[e.auth]
                 /\ UNCHANGED <<day, user, validator>>
    BY <1>7, TakeHere
  <2> QED
    BY <2>1, AgedStays
<1> QED
  BY <1>2, <1>3, <1>4, <1>5, <1>6, <1>7, AgedWritten, AgedLocked DEF Next, WorkerStep, Validate

-----------------------------------------------------------------------------
(* A sync that is due stays due: its user is read as it was, or as it was    *)
(* before, and the day does not go back.                                     *)
DueOn(d, e, u) ==
  e.force \/ (e.kind = "refresh" /\ d # u.refreshed) \/ (e.kind = "reconcile" /\ ~(d - u.reconciled < Week))
LEMMA DueStays ==
  ASSUME NEW e \in Element, NEW u \in StoredUser, NEW v \in StoredUser, NEW d \in Nat, NEW n \in {d, d + 1},
         Older(v, u), u.refreshed <= d, u.reconciled <= d, DueOn(d, e, u)
  PROVE  DueOn(n, e, v)
<1>1. u.refreshed \in Nat /\ u.reconciled \in Nat /\ v.refreshed \in Nat /\ v.reconciled \in Nat
  BY OlderOrder
<1>2. v.refreshed <= u.refreshed /\ v.reconciled <= u.reconciled
  BY DEF Older
<1>3. d # u.refreshed => n # v.refreshed
  BY <1>1, <1>2
<1>4. ~(d - u.reconciled < Week) => ~(n - v.reconciled < Week)
  BY <1>1, <1>2, BoundsAssumption
<1> QED
  BY <1>3, <1>4 DEF DueOn

(* The day moves on by one.                                                  *)
LEMMA DayMoves ==
  ASSUME [Next]_vars
  PROVE  day' \in {day, day + 1} /\ (day' # day => Tick)
BY DEF Next, WorkerStep, Take, Skip, BeginSync, SyncPage, NextPage, CleanSales, EnqueueLink, SaveSync, LinkSales,
   AdjustSales, SaveAdjusted, RateLimit, Requeue, Bury, Refused, AddSale, UpdateSale, Validate, ListUsers,
   ScheduleReconcile, ScheduleRefresh, TakeLock, ScheduleAdjust, List, Delist, AdminSync, Tick, vars, clock

(* Any sync of a user whose timestamps nobody brings forward.                *)
LEMMA DueKept ==
  ASSUME TypeInv, TypeInv', Aged, [Next]_vars, NEW a \in User, ~(SaveSync /\ work.entry.auth = a),
         NEW e \in Element, Due(e, Reads(a))
  PROVE  Due(e, Reads(a))' /\ Due(e, user[a])'
<1>1. Ages
  BY AgedStep
<1>2. PICK u \in StoredUser, v \in StoredUser, w \in StoredUser : u = Reads(a) /\ v = Reads(a)' /\ w = user'[a]
  <2>1. Reads(a)' \in StoredUser /\ user'[a] \in StoredUser
    BY DEF TypeInv, Types, Loaded, Reads, Busy
  <2> QED
    BY <2>1, ReadTypes
<1>3. Older(v, u) /\ Older(w, u) /\ u.refreshed <= day /\ u.reconciled <= day
  <2>1. Older(v, u) /\ Older(w, v)
    BY <1>1, <1>2 DEF Ages, Aged
  <2>2. u.refreshed <= day /\ u.reconciled <= day
    BY <1>2 DEF Aged, Past
  <2> QED
    BY <2>1, <2>2, OlderOrder
<1>4. DueOn(day, e, u) /\ day \in Nat /\ day' \in {day, day + 1}
  BY <1>2, DayMoves DEF Due, DueOn, WithinDay, WithinWeek, TypeInv, Types
<1>5. DueOn(day', e, v) /\ DueOn(day', e, w)
  BY <1>3, <1>4, DueStays
<1> QED
  BY <1>2, <1>5 DEF Due, DueOn, WithinDay, WithinWeek

-----------------------------------------------------------------------------
(* Whoever has asked for syncs has; every sync is forced or not, as those    *)
(* who asked for it would have it.                                           *)
LEMMA AskedStays ==
  ASSUME TypeInv, [Next]_vars
  PROVE  (Scheduled => Scheduled') /\ (Forced => Forced')
<1>1. spent \in Spent
  BY DEF TypeInv, Types
<1>2. spent' = spent \/ \E w \in {"syncs", "forced", "admin", "delists", "adds", "faults"} : \E n : Spend(w, n)
  BY DEF Next, WorkerStep, Take, Skip, BeginSync, SyncPage, NextPage, CleanSales, EnqueueLink, SaveSync, LinkSales,
         AdjustSales, SaveAdjusted, RateLimit, Requeue, Bury, Refused, AddSale, UpdateSale, Validate, ListUsers,
         ScheduleReconcile, ScheduleRefresh, Schedule, TakeLock, ScheduleAdjust, List, AdminSync, Delist, Tick, vars, clock
<1>3. /\ spent["syncs"] \in Nat /\ spent'["syncs"] \in Nat /\ spent'["syncs"] >= spent["syncs"]
      /\ spent["forced"] \in Nat /\ spent'["forced"] \in Nat /\ spent'["forced"] >= spent["forced"]
      /\ spent["admin"] \in Nat /\ spent'["admin"] \in Nat /\ spent'["admin"] >= spent["admin"]
  BY <1>1, <1>2 DEF Spend, Spent
<1> QED
  BY <1>3 DEF Scheduled, Forced

Bidden ==
  /\ ~Scheduled => \A f \in Element : Here(f) /\ IsSync(f) => f.force
  /\ ~Forced => \A f \in Element : Here(f) /\ IsSync(f) => ~f.force

(* Where an entry that is here after a step comes from.                      *)
LEMMA HereBefore ==
  ASSUME TypeInv, [Next]_vars, NEW f \in Element, Here(f)'
  PROVE  Here(f) \/ Comes(f)
<1>1. CASE \E p \in Priority : Take(p)
  <2>1. PICK e : work.pc = "idle" /\ work'.entry = e /\ \A g : In(queue, g) <=> g = e \/ In(queue', g)
    BY <1>1, TakeHere
  <2> QED
    BY <2>1 DEF Here
<1>2. CASE ~\E p \in Priority : Take(p)
  <2>1. \A g : In(queue', g) => In(queue, g) \/ (g \in Element /\ Comes(g))
    BY <1>2, NewEntries
  <2>2. work'.pc = "idle" \/ (work.pc # "idle" /\ work'.entry = work.entry) \/ work' = work
    BY <1>2, WorkerMoves
  <2> QED
    BY <2>1, <2>2 DEF Here
<1> QED
  BY <1>1, <1>2

(* Only the entry that is put down may be gone.                              *)
LEMMA HereAfter ==
  ASSUME TypeInv, [Next]_vars, NEW f, Here(f)
  PROVE  /\ Here(f)' \/ (work.pc # "idle" /\ work'.pc = "idle" /\ work.entry = f)
         /\ In(queue, f) => Here(f)'
<1>1. CASE \E p \in Priority : Take(p)
  <2>1. PICK e : /\ work.pc = "idle" /\ work'.pc = "loaded" /\ work'.entry = e
                 /\ \A g : In(queue, g) <=> g = e \/ In(queue', g)
    BY <1>1, TakeHere
  <2> QED
    BY <2>1 DEF Here
<1>2. CASE ~\E p \in Priority : Take(p)
  <2>1. \A g : In(queue, g) => In(queue', g)
    BY <1>2, NewEntries
  <2>2. (work.pc # "idle" /\ work'.pc = "idle") \/ (work'.pc # "idle" /\ work'.entry = work.entry) \/ work' = work
    BY <1>2, WorkerMoves
  <2> QED
    BY <2>1, <2>2 DEF Here
<1> QED
  BY <1>1, <1>2

LEMMA BiddenKept ==
  ASSUME TypeInv, Bidden, [Next]_vars
  PROVE  Bidden'
<1>1. ASSUME NEW f \in Element, Here(f)', IsSync(f)
      PROVE  (~Scheduled' => f.force) /\ (~Forced' => ~f.force)
  <2>1. CASE Here(f)
    BY <1>1, <2>1, AskedStays DEF Bidden
  <2>2. CASE Comes(f)
    <3>1. work.pc # "idle" /\ IsSync(work.entry) => work.entry \in Element /\ Here(work.entry)
      BY DEF TypeInv, Types, Loaded, Here
    <3>2. work.pc # "idle" /\ IsSync(work.entry) =>
            (~Scheduled' => work.entry.force) /\ (~Forced' => ~work.entry.force)
      BY <3>1, AskedStays DEF Bidden
    <3> QED
      BY <1>1, <2>2, <3>2 DEF Comes, IsSync
  <2> QED
    BY <1>1, <2>1, <2>2, HereBefore
<1> QED
  BY <1>1 DEF Bidden, IsSync

-----------------------------------------------------------------------------
(* The sales that carry the stamp of a sync and are not linked; and what     *)
(* will still link them: the entry that does it, a page of a sync that is    *)
(* due, or the worker at the end of a page.                                  *)
Unlinked(a) == {s \in Stored(a) : sales[a][s] # 0} \ linked[a]
LinkWaits(a) == \E f \in Element : Here(f) /\ f.kind = "link" /\ f.auth = a
Continues(a) == \E f \in Element : Here(f) /\ Mine(a, f) /\ f.page > 1 /\ Due(f, Reads(a))
LinkInv ==
  /\ \A a \in User : Unlinked(a) # {} =>
       LinkWaits(a) \/ Continues(a) \/ (Busy(a) /\ work.pc \in {"synced", "cleaned"})
  /\ work.pc = "save" => LinkWaits(work.entry.auth)
  /\ work.pc \in {"sync", "synced", "cleaned", "save"} => Due(work.entry, work.user)

(* A handler's link does not meet another user's: they have one key.         *)
LinksApart == EnqueueLink => \A f \in Present : f.kind = "link" => f.auth = work.entry.auth

(* Only a page that is read leaves something to link.                        *)
LEMMA UnlinkedGrows ==
  ASSUME TypeInv, [Next]_vars, NEW a \in User, ~((SyncPage \/ Bury) /\ work.entry.auth = a)
  PROVE  Unlinked(a)' \subseteq Unlinked(a)
<1>1. sales \in [User -> [Sale -> Nat \cup {None}]] /\ linked \in [User -> SUBSET Sale]
  BY DEF TypeInv, Types
<1>2. ASSUME linked' = linked, \A s \in Sale : sales'[a][s] \in {sales[a][s], None, 0}
      PROVE  Unlinked(a)' \subseteq Unlinked(a)
  BY <1>2 DEF Unlinked, Stored
<1>3. CASE LinkSales
  <2>1. PICK b \in User : work.entry.auth = b
    BY <1>3 DEF LinkSales, TypeInv, Types, Loaded, Element
  <2>2. sales' = sales /\ linked' = [linked EXCEPT ![b] = Stored(b)]
    BY <1>3, <2>1 DEF LinkSales
  <2>3. linked'[a] = linked[a] \/ linked'[a] = Stored(a)
    BY <1>1, <2>2
  <2> QED
    BY <2>2, <2>3 DEF Unlinked, Stored
<1>4. CASE SyncPage \/ Bury \/ CleanSales
  <2>1. PICK b \in User : work.entry.auth = b
    BY <1>4 DEF SyncPage, Bury, CleanSales, TypeInv, Types, Loaded, Element
  <2>2. linked' = linked
    BY <1>4 DEF SyncPage, Bury, CleanSales
  <2>3. CASE b = a
    <3>1. sales' = [sales EXCEPT ![a] = [s \in Sale |-> IF @[s] = work.id THEN @[s] ELSE None]]
      BY <1>4, <2>1, <2>3 DEF CleanSales
    <3>2. sales'[a] = [s \in Sale |-> IF sales[a][s] = work.id THEN sales[a][s] ELSE None]
      BY <1>1, <3>1
    <3> QED
      BY <1>2, <2>2, <3>2
  <2>4. CASE b # a
    <3>1. \E f : sales' = [sales EXCEPT ![b] = f]
      BY <1>4, <2>1 DEF SyncPage, Bury, CleanSales, Stamp
    <3>2. sales'[a] = sales[a]
      BY <1>1, <2>4, <3>1
    <3> QED
      BY <1>2, <2>2, <3>2
  <2> QED
    BY <2>3, <2>4
<1>5. CASE \E b \in User : AddSale(b) \/ \E s \in Sale : UpdateSale(b, s)
  <2>1. PICK b \in User : AddSale(b) \/ \E s \in Sale : UpdateSale(b, s)
    BY <1>5
  <2>2. PICK s \in Sale, v \in {None, 0} : sales' = [sales EXCEPT ![b][s] = v] /\ linked' = linked
    BY <2>1 DEF AddSale, UpdateSale
  <2>3. \A t \in Sale : sales'[a][t] \in {sales[a][t], v}
    BY <1>1, <2>2
  <2> QED
    BY <1>2, <2>2, <2>3
<1>6. CASE sales' = sales /\ linked' = linked
  BY <1>2, <1>6
<1> QED
  BY <1>3, <1>4, <1>5, <1>6 DEF Next, WorkerStep, Take, Skip, BeginSync, NextPage, EnqueueLink, SaveSync,
     AdjustSales, SaveAdjusted, RateLimit, Requeue, Refused, Validate, ListUsers, ScheduleReconcile,
     ScheduleRefresh, TakeLock, ScheduleAdjust, List, AdminSync, Delist, Tick, vars, store

(* A promise is kept unless the entry that made it is put down.              *)
LEMMA PromiseStays ==
  ASSUME TypeInv, TypeInv', Aged, [Next]_vars, NEW a \in User, ~(SaveSync /\ work.entry.auth = a),
         LinkWaits(a) \/ Continues(a),
         work.pc # "idle" /\ work'.pc = "idle" /\ work.entry.auth = a =>
           work.entry.kind # "link" /\ ~(Mine(a, work.entry) /\ Due(work.entry, Reads(a)))
  PROVE  LinkWaits(a)' \/ Continues(a)'
<1>1. CASE LinkWaits(a)
  <2>1. PICK f \in Element : Here(f) /\ f.kind = "link" /\ f.auth = a
    BY <1>1 DEF LinkWaits
  <2>2. Here(f)'
    BY <2>1, HereAfter
  <2> QED
    BY <2>1, <2>2 DEF LinkWaits
<1>2. CASE Continues(a)
  <2>1. PICK f \in Element : Here(f) /\ Mine(a, f) /\ f.page > 1 /\ Due(f, Reads(a))
    BY <1>2 DEF Continues
  <2>2. Here(f)'
    BY <2>1, HereAfter DEF Mine
  <2>3. Due(f, Reads(a))'
    BY <2>1, DueKept
  <2> QED
    BY <2>1, <2>2, <2>3 DEF Continues, Mine, IsSync
<1> QED
  BY <1>1, <1>2

(* The page is put back.                                                     *)
LEMMA PromiseRetried ==
  ASSUME TypeInv, TypeInv', Aged, [Next]_vars, NEW a \in User, RateLimit \/ Requeue,
         LinkWaits(a) \/ Continues(a)
  PROVE  LinkWaits(a)' \/ Continues(a)'
<1>1. /\ work.entry \in Element /\ work.pc = "sync" /\ IsSync(work.entry) /\ ~SaveSync
      /\ work \in WorkRecord /\ work.id \in Nat
  BY DEF TypeInv, Types, Loaded, RateLimit, Requeue, IsSync, SaveSync, WorkRecord
<1>2. PICK e \in Element : /\ e.kind = work.entry.kind /\ e.auth = work.entry.auth /\ e.page = work.entry.page
                           /\ e.force = work.entry.force /\ Put(e)
  <2>1. CASE RateLimit
    <3>1. Put(work.entry)
      BY <1>1, <2>1 DEF RateLimit, Put, Element
    <3> QED
      BY <1>1, <3>1
  <2>2. CASE Requeue
    <3>1. PICK e \in Element : e = [work.entry EXCEPT !.id = work.id]
      BY <1>1, Fields
    <3>2. /\ e.kind = work.entry.kind /\ e.auth = work.entry.auth /\ e.page = work.entry.page
          /\ e.force = work.entry.force /\ e.prio \in Priority
      BY <1>1, <3>1 DEF Element
    <3>3. Put(e)
      BY <2>2, <3>1, <3>2 DEF Requeue, Put
    <3> QED
      BY <3>2, <3>3
  <2> QED
    BY <2>1, <2>2
<1>3. Here(e)'
  BY <1>2, PutIn DEF Here
<1>4. CASE LinkWaits(a)
  <2>1. PICK f \in Element : Here(f) /\ f.kind = "link" /\ f.auth = a
    BY <1>4 DEF LinkWaits
  <2>2. Here(f)'
    BY <1>1, <2>1, HereAfter DEF IsSync
  <2> QED
    BY <2>1, <2>2 DEF LinkWaits
<1>5. CASE Continues(a)
  <2>1. PICK f \in Element : Here(f) /\ Mine(a, f) /\ f.page > 1 /\ Due(f, Reads(a))
    BY <1>5 DEF Continues
  <2>2. Due(f, Reads(a))'
    BY <1>1, <2>1, DueKept
  <2>3. CASE f = work.entry
    <3>1. Mine(a, e) /\ e.page > 1 /\ Due(e, Reads(a))'
      BY <1>2, <2>1, <2>2, <2>3 DEF Mine, IsSync, Due
    <3> QED
      BY <1>3, <3>1 DEF Continues, Mine, IsSync
  <2>4. CASE f # work.entry
    <3>1. Here(f)'
      BY <2>1, <2>4, HereAfter
    <3> QED
      BY <2>1, <2>2, <3>1 DEF Continues, Mine, IsSync
  <2> QED
    BY <2>3, <2>4
<1> QED
  BY <1>4, <1>5

(* The next page, and the link.                                              *)
LEMMA PageContinues ==
  ASSUME TypeInv, TypeInv', Rests, SyncInv, Bidden, Aged, LinkInv, Next, NextPage, ~(Scheduled /\ Forced),
         NEW a \in User, work.entry.auth = a
  PROVE  Continues(a)'
<1>1. /\ work.pc = "synced" /\ work \in WorkRecord /\ work.entry \in Element /\ IsSync(work.entry) /\ work.id \in Nat
      /\ work.user \in StoredUser /\ Reads(a) = work.user /\ ~SaveSync
  BY DEF NextPage, TypeInv, Types, Loaded, WorkRecord, IsSync, Reads, Busy, SaveSync
<1>2. work.entry.page >= 1 /\ work.entry.page \in Nat /\ Due(work.entry, work.user)
  BY <1>1 DEF SyncInv, WorkOk, Read, LinkInv, Element
<1>3. PICK e : e = Sync(work.entry.kind, a, work.entry.page + 1, work.id, work.entry.force, "UNSET")
  OBVIOUS
<1>4. /\ e \in Element /\ e.kind = work.entry.kind /\ e.auth = a /\ e.page = work.entry.page + 1
      /\ e.force = work.entry.force /\ IsSync(e) /\ Ensure(e)
  BY <1>1, <1>3 DEF Sync, Element, Priority, IsSync, NextPage
<1>5. PICK g \in Element : /\ Here(g)' /\ g.kind = e.kind /\ g.auth = a /\ g.page = e.page /\ g.force = e.force
  <2>1. CASE In(queue', e)
    BY <1>4, <2>1 DEF Here
  <2>2. CASE Exists(e)
    <3>1. PICK g \in Element : Here(g) /\ Key(g) = Key(e)
      BY <1>4, <2>2, ExistsHere
    <3>2. g.kind = e.kind /\ g.auth = e.auth /\ g.page = e.page /\ IsSync(g)
      BY <1>4, <3>1, KeyOfSync DEF IsSync
    <3>3. g # work.entry
      BY <1>2, <1>4, <3>2
    <3>4. Here(g)'
      BY <3>1, <3>3, HereAfter
    <3>5. g.force = e.force
      <4>1. g.force \in BOOLEAN /\ e.force \in BOOLEAN
        BY <1>4 DEF Element
      <4>2. Here(work.entry)
        BY <1>1 DEF Here
      <4>3. \/ g.force /\ work.entry.force
            \/ ~g.force /\ ~work.entry.force
        BY <1>1, <3>1, <3>2, <4>2 DEF Bidden
      <4> QED
        BY <1>4, <4>1, <4>3
    <3> QED
      BY <1>4, <3>2, <3>4, <3>5
  <2> QED
    BY <1>4, <2>1, <2>2, EnsureIn
<1>6. Due(g, Reads(a))
  BY <1>1, <1>2, <1>4, <1>5 DEF Due
<1>7. Due(g, Reads(a))'
  BY <1>1, <1>6, DueKept
<1> QED
  BY <1>2, <1>4, <1>5, <1>7 DEF Continues, Mine, IsSync

LEMMA LinkComes ==
  ASSUME TypeInv, Rests, Next, EnqueueLink, LinksApart
  PROVE  work'.pc = "save" /\ work'.entry = work.entry /\ LinkWaits(work.entry.auth)'
<1>1. /\ work \in WorkRecord /\ work.entry \in Element /\ work.id \in Nat /\ work.pc # "idle" /\ IsSync(work.entry)
  BY DEF EnqueueLink, TypeInv, Types, Loaded, WorkRecord, IsSync
<1>2. work'.pc = "save" /\ work'.entry = work.entry
  BY <1>1 DEF EnqueueLink, WorkRecord
<1>3. PICK e \in Element : e = Link(work.entry.auth, work.id) /\ e.kind = "link" /\ e.auth = work.entry.auth
  <2>1. work.entry.auth \in User
    BY <1>1 DEF Element
  <2>2. PICK e : e = Link(work.entry.auth, work.id)
    OBVIOUS
  <2>3. e \in Element /\ e.kind = "link" /\ e.auth = work.entry.auth
    BY <1>1, <2>1, <2>2, Entries DEF Link, Sync
  <2> QED
    BY <2>2, <2>3
<1>4. \E f \in Element : Here(f)' /\ f.kind = "link" /\ f.auth = work.entry.auth
  <2>1. In(queue', e) \/ Exists(e)
    BY <1>3, EnsureIn DEF EnqueueLink
  <2>2. CASE In(queue', e)
    BY <1>3, <2>2 DEF Here
  <2>3. CASE Exists(e)
    <3>1. PICK f \in Element : Here(f) /\ Key(f) = Key(e)
      BY <2>3, ExistsHere
    <3>2. f.kind = "link"
      BY <1>3, <3>1 DEF Key
    <3>3. f.auth = work.entry.auth
      BY <3>1, <3>2, PresentHere DEF LinksApart
    <3>4. Here(f)'
      BY <1>2, <3>1, HereAfter
    <3> QED
      BY <3>2, <3>3, <3>4
  <2> QED
    BY <2>1, <2>2, <2>3
<1>5. LinkWaits(work.entry.auth)'
  BY <1>2, <1>4 DEF LinkWaits
<1> QED
  BY <1>2, <1>5

(* What is left to link.                                                     *)
LEMMA PromiseKept ==
  ASSUME TypeInv, TypeInv', Rests, SyncInv, Bidden, Aged, LinkInv, Next, NothingGivenUp, LinksApart,
         ~(Scheduled /\ Forced), NEW a \in User, Unlinked(a)' # {}
  PROVE  LinkWaits(a)' \/ Continues(a)' \/ (Busy(a) /\ work.pc \in {"synced", "cleaned"})'
<1>1. /\ work \in WorkRecord
      /\ work.pc # "idle" => work.entry \in Element /\ work.user \in StoredUser
      /\ work.pc \in {"sync", "synced", "cleaned", "save"} => IsSync(work.entry)
  BY DEF TypeInv, Types, Loaded, IsSync
<1>2. CASE (SyncPage \/ CleanSales) /\ work.entry.auth = a
  <2>1. work'.pc \in {"synced", "cleaned"} /\ work'.entry = work.entry
    BY <1>1, <1>2 DEF SyncPage, CleanSales, WorkRecord
  <2> QED
    BY <1>2, <2>1 DEF Busy
<1>3. CASE NextPage /\ work.entry.auth = a
  BY <1>3, PageContinues
<1>4. CASE EnqueueLink /\ work.entry.auth = a
  BY <1>4, LinkComes DEF LinkWaits
<1>5. CASE ~((SyncPage \/ CleanSales \/ NextPage \/ EnqueueLink) /\ work.entry.auth = a)
  <2>1. Unlinked(a) # {}
    BY <1>5, UnlinkedGrows DEF NothingGivenUp
  <2>2. CASE SaveSync /\ work.entry.auth = a
    <3>1. LinkWaits(a) /\ work.pc = "save"
      BY <2>2 DEF LinkInv, SaveSync
    <3>2. PICK f \in Element : Here(f) /\ f.kind = "link" /\ f.auth = a
      BY <3>1 DEF LinkWaits
    <3>3. Here(f)'
      BY <1>1, <3>1, <3>2, HereAfter DEF IsSync
    <3> QED
      BY <3>2, <3>3 DEF LinkWaits
  <2>3. CASE LinkSales /\ work.entry.auth = a
    <3>1. linked \in [User -> SUBSET Sale]
      BY DEF TypeInv, Types
    <3>2. linked'[a] = Stored(a) /\ sales' = sales
      BY <2>3, <3>1 DEF LinkSales
    <3>3. Unlinked(a)' = {}
      BY <3>2 DEF Unlinked, Stored
    <3> QED
      BY <3>3
  <2>4. CASE ~((SaveSync \/ LinkSales) /\ work.entry.auth = a)
    <3>1. CASE LinkWaits(a) \/ Continues(a)
      <4>1. CASE RateLimit \/ Requeue
        BY <3>1, <4>1, PromiseRetried
      <4>2. CASE ~(RateLimit \/ Requeue)
        <5>1. work.pc # "idle" /\ work'.pc = "idle" /\ work.entry.auth = a =>
                work.entry.kind # "link" /\ ~(Mine(a, work.entry) /\ Due(work.entry, Reads(a)))
          <6>1. SUFFICES ASSUME work.pc # "idle", work'.pc = "idle", work.entry.auth = a
                         PROVE  work.entry.kind # "link" /\ ~(Mine(a, work.entry) /\ Due(work.entry, Reads(a)))
            OBVIOUS
          <6>2. Skip \/ SaveAdjusted
            <7>1. \/ Skip \/ SaveAdjusted \/ BeginSync \/ AdjustSales \/ work' = work \/ \E p \in Priority : Take(p)
              BY <1>5, <2>4, <4>2, <6>1 DEF NothingGivenUp, Next, WorkerStep, AddSale, Validate, ListUsers,
                 ScheduleReconcile, ScheduleRefresh, TakeLock, ScheduleAdjust, List, Delist, UpdateSale, Tick, AdminSync
            <7>2. BeginSync \/ AdjustSales => work'.pc # "idle"
              BY <1>1 DEF BeginSync, AdjustSales, WorkRecord
            <7> QED
              BY <6>1, <7>1, <7>2 DEF Take
          <6>3. Reads(a) = work.user
            BY <6>1 DEF Reads, Busy
          <6>4. CASE Skip
            BY <6>3, <6>4 DEF Skip
          <6>5. CASE SaveAdjusted
            BY <6>5 DEF Rests, SaveAdjusted, Mine, IsSync
          <6> QED
            BY <6>2, <6>4, <6>5
        <5> QED
          BY <2>4, <3>1, <5>1, PromiseStays
      <4> QED
        BY <4>1, <4>2
    <3>2. CASE Busy(a) /\ work.pc \in {"synced", "cleaned"}
      <4>1. work' = work
        BY <1>5, <3>2 DEF Busy, NothingGivenUp, Next, WorkerStep, Take, Skip, BeginSync, SyncPage, NextPage, CleanSales,
           EnqueueLink, SaveSync, LinkSales, AdjustSales, SaveAdjusted, RateLimit, Requeue, AddSale, Validate, ListUsers,
           ScheduleReconcile, ScheduleRefresh, TakeLock, ScheduleAdjust, List, Delist, UpdateSale, Tick, AdminSync
      <4> QED
        BY <3>2, <4>1 DEF Busy
    <3> QED
      BY <2>1, <3>1, <3>2 DEF LinkInv
  <2> QED
    BY <2>2, <2>3, <2>4
<1> QED
  BY <1>2, <1>3, <1>4, <1>5

(* Every step.                                                               *)
LEMMA LinkKept ==
  ASSUME TypeInv, TypeInv', Rests, SyncInv, Bidden, Aged, LinkInv, [Next]_vars,
         [NothingGivenUp]_vars, [LinksApart]_vars, ~(Scheduled /\ Forced)
  PROVE  LinkInv'
<1>1. CASE UNCHANGED vars
  BY <1>1 DEF vars, LinkInv, LinkWaits, Continues, Unlinked, Stored, Here, Busy, Reads, Due, WithinDay, WithinWeek
<1>2. CASE Next /\ NothingGivenUp /\ LinksApart
  <2>1. /\ work \in WorkRecord
        /\ work.pc # "idle" => work.entry \in Element /\ work.entry.auth \in User
    BY DEF TypeInv, Types, Loaded, Element
  <2>2. \A a \in User : Unlinked(a)' # {} =>
          LinkWaits(a)' \/ Continues(a)' \/ (Busy(a) /\ work.pc \in {"synced", "cleaned"})'
    BY <1>2, PromiseKept
  <2>3. work'.pc = "save" => LinkWaits(work.entry.auth)' /\ work'.entry = work.entry
    <3>1. CASE EnqueueLink
      BY <1>2, <3>1, LinkComes
    <3>2. CASE ~EnqueueLink
      <4> SUFFICES ASSUME work'.pc = "save" PROVE LinkWaits(work.entry.auth)' /\ work'.entry = work.entry
        OBVIOUS
      <4>1. work' = work
        <5>1. CASE BeginSync \/ SyncPage \/ CleanSales \/ AdjustSales
          BY <2>1, <5>1 DEF BeginSync, SyncPage, CleanSales, AdjustSales, WorkRecord
        <5>2. CASE \/ Skip \/ RateLimit \/ Requeue \/ Bury \/ Refused \/ NextPage \/ LinkSales \/ SaveSync \/ SaveAdjusted
          BY <5>2, IdleTypes DEF Skip, RateLimit, Requeue, Bury, Refused, NextPage, LinkSales, SaveSync, SaveAdjusted, Done
        <5>3. CASE \E p \in Priority : Take(p)
          BY <5>3 DEF Take
        <5> QED
          BY <1>2, <3>2, <5>1, <5>2, <5>3 DEF Next, WorkerStep, AddSale, Validate, ListUsers, ScheduleReconcile,
             ScheduleRefresh, TakeLock, ScheduleAdjust, List, Delist, UpdateSale, Tick, AdminSync
      <4>2. PICK f \in Element : Here(f) /\ f.kind = "link" /\ f.auth = work.entry.auth
        BY <4>1 DEF LinkInv, LinkWaits
      <4>3. Here(f)'
        BY <4>1, <4>2, HereAfter
      <4> QED
        BY <4>1, <4>2, <4>3 DEF LinkWaits
    <3> QED
      BY <3>1, <3>2
  <2>4. (work.pc \in {"sync", "synced", "cleaned", "save"} => Due(work.entry, work.user))'
    <3> SUFFICES ASSUME work'.pc \in {"sync", "synced", "cleaned", "save"} PROVE Due(work.entry, work.user)'
      OBVIOUS
    <3>1. /\ work.pc # "idle" /\ work'.entry = work.entry /\ Due(work.entry, work.user) /\ ~SaveSync
      <4>1. CASE BeginSync
        BY <2>1, <4>1 DEF BeginSync, WorkRecord, SaveSync
      <4>2. CASE SyncPage \/ CleanSales \/ EnqueueLink
        BY <2>1, <4>2 DEF SyncPage, CleanSales, EnqueueLink, WorkRecord, LinkInv, SaveSync
      <4>3. CASE \/ Skip \/ RateLimit \/ Requeue \/ Bury \/ Refused \/ NextPage \/ LinkSales \/ SaveSync \/ SaveAdjusted
        BY <4>3, IdleTypes DEF Skip, RateLimit, Requeue, Bury, Refused, NextPage, LinkSales, SaveSync, SaveAdjusted, Done
      <4>4. CASE \E p \in Priority : Take(p)
        BY <4>4 DEF Take
      <4>5. CASE AdjustSales
        BY <2>1, <4>5 DEF AdjustSales, WorkRecord
      <4>6. CASE work' = work
        BY <4>3, <4>6 DEF LinkInv
      <4> QED
        BY <1>2, <4>1, <4>2, <4>3, <4>4, <4>5, <4>6 DEF Next, WorkerStep, AddSale, Validate, ListUsers, ScheduleReconcile,
           ScheduleRefresh, TakeLock, ScheduleAdjust, List, Delist, UpdateSale, Tick, AdminSync
    <3>2. PICK a \in User, e \in Element : a = work.entry.auth /\ e = work.entry
      BY <2>1, <3>1
    <3>3. Reads(a) = work.user /\ Reads(a)' = work'.user
      BY <3>1, <3>2 DEF Reads, Busy
    <3>4. Due(e, Reads(a))'
      BY <3>1, <3>2, <3>3, DueKept
    <3> QED
      BY <3>1, <3>2, <3>3, <3>4 DEF Due, WithinDay, WithinWeek
  <2>5. (work.pc = "save" => LinkWaits(work.entry.auth))'
    BY <2>3 DEF LinkWaits
  <2> QED
    BY <2>2, <2>4, <2>5 DEF LinkInv
<1> QED
  BY <1>1, <1>2

(* Once nothing is left to do for a user, every sale a sync has stored has   *)
(* been linked with the records (sales.go, SyncSales enqueues LinkSales when *)
(* it is done): unless a sync is given up half way, a LinkSales entry finds  *)
(* another user's in the queue and is dropped, as the key that tells entries *)
(* apart names no user, or forced and scheduled syncs meet.                  *)
THEOREM SyncsAreLinked ==
  Spec /\ [][NothingGivenUp]_vars /\ [][LinksApart]_vars /\ []~(Scheduled /\ Forced) => []LinkedWhenQuiet
<1> DEFINE Linking == TypeInv /\ Rests /\ SyncInv /\ Bidden /\ Aged /\ LinkInv
<1>1. Init => Linking
  <2> SUFFICES ASSUME Init PROVE Rests /\ Bidden /\ Aged /\ LinkInv
    BY TypeInit, SyncInit
  <2>1. /\ work.pc = "idle" /\ work.entry = None /\ validator.pc = "idle" /\ \A p \in Priority : queue[p] = <<>>
        /\ day \in Nat /\ \A a \in User : user[a].refreshed = 0 /\ user[a].reconciled = 0
        /\ \A a \in User, s \in Sale : sales[a][s] = None
    BY BoundsAssumption DEF Init, Idle, Start
  <2>2. \A f : ~Here(f)
    BY <2>1 DEF Here, In
  <2>3. Aged
    BY <2>1 DEF Aged, Reads, Busy, Older, Past
  <2>4. LinkInv
    BY <2>1 DEF LinkInv, Unlinked, Stored
  <2> QED
    BY <2>1, <2>2, <2>3, <2>4 DEF Rests, Bidden
<1>2. /\ Linking /\ [Next]_vars /\ [NothingGivenUp]_vars /\ [LinksApart]_vars /\ ~(Scheduled /\ Forced)
      => Linking'
  <2> SUFFICES ASSUME Linking, [Next]_vars, [NothingGivenUp]_vars, [LinksApart]_vars, ~(Scheduled /\ Forced)
               PROVE  Linking'
    OBVIOUS
  <2>1. TypeInv' /\ Rests' /\ SyncInv' /\ Bidden'
    BY TypeStep, RestsKept, SyncStep, BiddenKept
  <2>2. Aged'
    BY <2>1, AgedStep DEF Ages
  <2>3. LinkInv'
    BY <2>1, LinkKept
  <2> QED
    BY <2>1, <2>2, <2>3
<1>3. Linking => LinkedWhenQuiet
  <2> SUFFICES ASSUME Linking, NEW a \in User, \A e \in Present : e.auth # a
               PROVE  {s \in Stored(a) : sales[a][s] # 0} \subseteq linked[a]
    BY DEF LinkedWhenQuiet
  <2>1. \A f \in Element : Here(f) => f.auth # a
    BY PresentHere
  <2>2. ~LinkWaits(a) /\ ~Continues(a)
    BY <2>1 DEF LinkWaits, Continues, Mine
  <2>3. ~Busy(a)
    BY <2>1 DEF Busy, Here, TypeInv, Types, Loaded
  <2>4. Unlinked(a) = {}
    BY <2>2, <2>3 DEF LinkInv
  <2> QED
    BY <2>4 DEF Unlinked
<1> QED
  BY <1>1, <1>2, <1>3, PTL DEF Spec

-----------------------------------------------------------------------------
(* The lock among the syncs of the validator.                                *)

(* What the validator and the worker have of a user, links aside.            *)
On(a) == validator.pc # "idle" /\ validator.auth = a
Working(a) == work.pc # "idle" /\ work.entry.auth = a /\ work.entry.kind # "link"
AdjustFree(a) == \A f \in Element : Here(f) /\ f.auth = a => f.kind # "adjust"
NoSyncs(a) == \A f \in Element : Here(f) => ~Mine(a, f)
OneSync(a) == Lone(queue, a) /\ (Working(a) /\ IsSync(work.entry) => NoSync(queue, a))
Refreshing(a) == \E f \in Element : Here(f) /\ f.auth = a /\ f.kind = "refresh"
UpToDate(u) == u.refreshed = day /\ WithinWeek(u.reconciled)

(* A user on a day is yet to be validated: no sync, no lock, no adjustment.  *)
Anew(a) ==
  /\ AdjustFree(a) /\ NoSyncs(a) /\ user[a].active # day /\ user[a].refreshed # day
  /\ On(a) => /\ validator.user = user[a]
              /\ validator.pc = "sales" \/ (validator.pc = "refresh" /\ WithinWeek(user[a].reconciled))

(* Its sync is enqueued and the validator has the lock to take: the sync may *)
(* run before that, and takes it as well.                                    *)
Entered(a) ==
  /\ ValidatorStep(a, "save") /\ AdjustFree(a) /\ OneSync(a)
  /\ Refreshing(a) => WithinWeek(validator.user.reconciled)
  /\ \A f \in Element : In(queue, f) /\ Mine(a, f) /\ f.page # 1 => user[a].active = day
  /\ Working(a) => IF work.pc = "loaded"
                   THEN work.user = user[a] /\ (work.entry.page # 1 => user[a].active = day)
                   ELSE user[a].active = day

(* The lock is held, and everybody who could write the user back has it.     *)
Held(a) ==
  /\ user[a].active = day /\ ~ValidatorStep(a, "save") /\ OneSync(a)
  /\ On(a) /\ validator.pc # "adjust" => validator.pc = "sales" /\ validator.user.active = day
  /\ Working(a) /\ work.entry.kind = "adjust" => work.user.active = day
  /\ Refreshing(a) => WithinWeek(user[a].reconciled)

(* The sync is done; a pass that began before finds the lock or that.        *)
Served(a) ==
  /\ NoSyncs(a) /\ ~ValidatorStep(a, "save") /\ UpToDate(user[a])
  /\ On(a) /\ validator.pc # "adjust" =>
       UpToDate(validator.user) \/ (validator.pc = "sales" /\ validator.user.active = day)

(* The validator enqueues no more syncs.                                     *)
Barred(a) == spent["syncs"] = MaxSyncs /\ NoSyncs(a) /\ ~ValidatorStep(a, "save")

Stage(a) == Anew(a) \/ Entered(a) \/ Held(a) \/ Served(a) \/ Barred(a)
Lockings == ~Forced => \A a \in User : Stage(a)

(* The lock's time is not ahead.                                             *)
Timely ==
  /\ day > 0 /\ \A a \in User : user[a].active <= day
  /\ work.pc # "idle" => work.user.active <= day

(* A day passes when the syncs of the day before, and the price adjustments, *)
(* are done; the validator's own entries are not lost.                       *)
AtRest == validator.pc = "idle" /\ \A e \in Present : e.kind = "link"
DayTurnsAtRest == day' # day => AtRest
Accepted == spent'["faults"] # spent["faults"] => UNCHANGED validator

(* Who writes a user.                                                        *)
LEMMA UserWrites ==
  ASSUME TypeInv, [Next]_vars, NEW a \in User
  PROVE  \/ user'[a] = user[a]
         \/ (BeginSync \/ SaveSync \/ SaveAdjusted) /\ work.entry.auth = a
         \/ TakeLock(a)
<1>1. user \in [User -> StoredUser]
  BY DEF TypeInv, Types
<1>2. CASE BeginSync \/ SaveSync \/ SaveAdjusted
  <2>1. \E u : user' = [user EXCEPT ![work.entry.auth] = u]
    <3>1. CASE BeginSync
      <4>1. user' = user \/ \E u : user' = [user EXCEPT ![work.entry.auth] = u]
        BY <3>1 DEF BeginSync
      <4>2. user' = user => user' = [user EXCEPT ![work.entry.auth] = user[work.entry.auth]]
        BY <1>1
      <4> QED
        BY <4>1, <4>2
    <3> QED
      BY <1>2, <3>1 DEF SaveSync, SaveAdjusted
  <2> QED
    BY <1>1, <1>2, <2>1
<1>3. CASE \E b \in User : TakeLock(b)
  <2>1. PICK b \in User : TakeLock(b)
    BY <1>3
  <2>2. PICK u : user' = [user EXCEPT ![b] = u]
    BY <2>1 DEF TakeLock
  <2> QED
    BY <1>1, <2>1, <2>2
<1> QED
  BY <1>2, <1>3 DEF Next, WorkerStep, Take, Skip, SyncPage, NextPage, CleanSales, EnqueueLink, LinkSales,
     AdjustSales, RateLimit, Requeue, Bury, Refused, AddSale, UpdateSale, Validate, ListUsers, ScheduleReconcile,
     ScheduleRefresh, ScheduleAdjust, List, AdminSync, Delist, Tick, vars, store

(* What the worker writes.                                                   *)
LEMMA WorkerWrites ==
  ASSUME TypeInv, BeginSync \/ SaveSync \/ SaveAdjusted, NEW a \in User, work.entry.auth = a
  PROVE  /\ work.pc # "idle" /\ day' = day
         /\ BeginSync => /\ work'.pc = "sync" /\ work'.entry = work.entry
                         /\ user'[a] = user[a] \/ user'[a] = Locked(work.entry, work.user)
                         /\ work.entry.page = 1 => /\ user'[a] = user[a] \/ TakesLock(work.entry, work.user)
                                                   /\ TakesLock(work.entry, work.user) => user'[a].active = day
                         /\ work.entry.page # 1 => user'[a] = user[a]
                         /\ work'.user = Locked(work.entry, work.user) \/ work'.user = work.user
                         /\ Locked(work.entry, work.user).active \in {day, work.user.active}
                         /\ Locked(work.entry, work.user).reconciled = work.user.reconciled
         /\ SaveSync => /\ work.pc = "save" /\ work'.pc = "idle" /\ queue' = queue
                        /\ user'[a].active = 0 /\ user'[a].refreshed = day
                        /\ user'[a].reconciled = IF work.entry.kind = "reconcile" THEN day ELSE work.user.reconciled
         /\ SaveAdjusted => /\ work.pc = "adjusted" /\ work'.pc = "idle" /\ queue' = queue /\ user'[a] = work.user
<1>1. PICK e \in Element : e = work.entry /\ e.auth = a
  BY DEF TypeInv, Types, Loaded, BeginSync, SaveSync, SaveAdjusted
<1>2. user \in [User -> StoredUser] /\ work \in WorkRecord /\ work.user \in StoredUser /\ work.pc # "idle" /\ day \in Nat
  BY DEF TypeInv, Types, Loaded, BeginSync, SaveSync, SaveAdjusted
<1>3. day' = day
  BY DEF BeginSync, SaveSync, SaveAdjusted, clock
<1>4. CASE BeginSync
  <2>1. PICK u : u = Locked(e, work.user)
    OBVIOUS
  <2>2. u.active \in {day, work.user.active} /\ u.reconciled = work.user.reconciled /\ (TakesLock(e, work.user) => u.active = day)
    BY <1>2, <2>1, OlderOrder DEF Locked
  <2>3. CASE e.page = 1
    <3>1. PICK id : work' = [work EXCEPT !.pc = "sync", !.user = u, !.id = id]
      BY <1>1, <1>4, <2>1, <2>3 DEF BeginSync
    <3>2. user'[a] = IF TakesLock(e, work.user) THEN u ELSE user[a]
      <4>1. user' = [user EXCEPT ![a] = IF TakesLock(e, work.user) THEN u ELSE @]
        BY <1>1, <1>4, <2>1, <2>3 DEF BeginSync
      <4> QED
        BY <1>2, <4>1
    <3>3. work'.pc = "sync" /\ work'.entry = e /\ work'.user = u
      BY <1>1, <1>2, <3>1 DEF WorkRecord
    <3> QED
      BY <1>1, <1>2, <1>3, <1>4, <2>1, <2>2, <2>3, <3>1, <3>2, <3>3 DEF BeginSync, SaveSync, SaveAdjusted
  <2>4. CASE e.page # 1
    <3>1. work' = [work EXCEPT !.pc = "sync"] /\ user' = user
      BY <1>1, <1>4, <2>4 DEF BeginSync
    <3>2. work'.pc = "sync" /\ work'.entry = e /\ work'.user = work.user
      BY <1>1, <1>2, <3>1 DEF WorkRecord
    <3> QED
      BY <1>1, <1>2, <1>3, <1>4, <2>1, <2>2, <2>4, <3>1, <3>2 DEF BeginSync, SaveSync, SaveAdjusted
  <2> QED
    BY <2>3, <2>4
<1>5. CASE SaveSync
  <2>1. PICK u : u = Completed(e, work.user)
    OBVIOUS
  <2>2. u.active = 0 /\ u.refreshed = day /\ u.reconciled = IF e.kind = "reconcile" THEN day ELSE work.user.reconciled
    BY <1>2, <2>1 DEF Completed, StoredUser
  <2>3. user'[a] = u
    BY <1>1, <1>2, <1>5, <2>1 DEF SaveSync
  <2>4. work'.pc = "idle" /\ work.pc = "save" /\ queue' = queue
    BY <1>5, IdleTypes DEF SaveSync, Done
  <2> QED
    BY <1>1, <1>2, <1>3, <2>2, <2>3, <2>4 DEF BeginSync, SaveAdjusted
<1>6. CASE SaveAdjusted
  <2>1. user'[a] = work.user
    BY <1>1, <1>2, <1>6 DEF SaveAdjusted
  <2>2. work'.pc = "idle" /\ work.pc = "adjusted" /\ queue' = queue
    BY <1>6, IdleTypes DEF SaveAdjusted, Done
  <2> QED
    BY <1>1, <1>2, <1>3, <2>1, <2>2 DEF BeginSync, SaveSync
<1> QED
  BY <1>4, <1>5, <1>6

(* The lock's time.                                                          *)
LEMMA TimelyKept ==
  ASSUME TypeInv, TypeInv', Timely, [Next]_vars
  PROVE  Timely'
<1>1. /\ work \in WorkRecord /\ work' \in WorkRecord /\ user \in [User -> StoredUser] /\ user' \in [User -> StoredUser]
      /\ day \in Nat /\ day' \in {day, day + 1}
      /\ work.pc # "idle" => work.user \in StoredUser /\ work.entry.auth \in User
      /\ work'.pc # "idle" => work'.user \in StoredUser /\ work'.entry.auth \in User
      /\ validator.pc # "idle" => validator.user \in StoredUser
  BY DayMoves DEF TypeInv, Types, Loaded, Element
<1>2. /\ \A a \in User : user[a].active \in Nat /\ user'[a].active \in Nat /\ user[a].active <= day
      /\ work.pc # "idle" => work.user.active \in Nat /\ work.user.active <= day
      /\ work'.pc # "idle" => work'.user.active \in Nat
  BY <1>1 DEF StoredUser, Timely
<1>3. ASSUME NEW a \in User
      PROVE  user'[a].active \in {user[a].active, day, 0} \/ (work.pc # "idle" /\ user'[a].active = work.user.active)
  <2>1. CASE TakeLock(a)
    <3>1. user' = [user EXCEPT ![a] = [validator.user EXCEPT !.active = day]] /\ validator.user \in StoredUser
      BY <1>1, <2>1 DEF TakeLock, ValidatorStep
    <3>2. [validator.user EXCEPT !.active = day].active = day
      BY <1>1, <3>1, OlderOrder
    <3>3. user'[a] = [validator.user EXCEPT !.active = day]
      BY <1>1, <3>1
    <3> QED
      BY <3>2, <3>3
  <2>2. CASE (BeginSync \/ SaveSync \/ SaveAdjusted) /\ work.entry.auth = a
    BY <2>2, WorkerWrites
  <2> QED
    BY <2>1, <2>2, UserWrites
<1>4. work'.pc # "idle" => \/ work.pc # "idle" /\ work'.user.active \in {work.user.active, day}
                           \/ \E a \in User : work'.user = user[a]
  <2>1. CASE \E p \in Priority : Take(p)
    <3>1. work'.user = user[work'.entry.auth]
      BY <2>1 DEF Take
    <3> QED
      BY <1>1, <3>1
  <2>2. CASE BeginSync
    <3>1. PICK a \in User : work.entry.auth = a
      BY <1>1, <2>2 DEF BeginSync
    <3> QED
      BY <2>2, <3>1, WorkerWrites
  <2>3. CASE SyncPage \/ CleanSales \/ EnqueueLink \/ AdjustSales
    BY <1>1, <2>3 DEF SyncPage, CleanSales, EnqueueLink, AdjustSales, WorkRecord
  <2>4. CASE work' = work
    BY <2>4
  <2>5. CASE work'.pc = "idle"
    BY <2>5
  <2>6. CASE \/ Skip \/ RateLimit \/ Requeue \/ Bury \/ Refused \/ NextPage \/ LinkSales \/ SaveSync \/ SaveAdjusted
    BY <2>6, IdleTypes DEF Skip, RateLimit, Requeue, Bury, Refused, NextPage, LinkSales, SaveSync, SaveAdjusted, Done
  <2> QED
    BY <2>1, <2>2, <2>3, <2>4, <2>6 DEF Next, WorkerStep, AddSale, Validate, ListUsers, ScheduleReconcile,
       ScheduleRefresh, TakeLock, ScheduleAdjust, List, Delist, UpdateSale, Tick, AdminSync, vars
<1>5. \A a \in User : user'[a].active <= day'
  BY <1>1, <1>2, <1>3
<1>6. work'.pc # "idle" => work'.user.active <= day'
  BY <1>1, <1>2, <1>4
<1> QED
  BY <1>1, <1>5, <1>6 DEF Timely

(* What becomes of a user's syncs and adjustments.                           *)
Schedules(a) == validator.auth = a /\ validator.pc \in {"sales", "refresh"} /\ validator'.pc = "save"

LEMMA NoSyncsKept ==
  ASSUME TypeInv, [Next]_vars, ~Forced', NEW a \in User, ~Schedules(a), NoSyncs(a)
  PROVE  NoSyncs(a)'
<1>1. ASSUME NEW f \in Element, Here(f)', Mine(a, f)
      PROVE  FALSE
  <2>1. Comes(f)
    BY <1>1, HereBefore DEF NoSyncs
  <2>2. work.pc # "idle" => work.entry \in Element /\ Here(work.entry)
    BY DEF TypeInv, Types, Loaded, Here
  <2>3. work.pc # "idle" => ~Mine(a, work.entry)
    BY <2>2 DEF NoSyncs
  <2> QED
    BY <1>1, <2>1, <2>3 DEF Comes, Mine, IsSync, Schedules
<1> QED
  BY <1>1 DEF NoSyncs, Mine, IsSync

LEMMA AdjustFreeKept ==
  ASSUME TypeInv, [Next]_vars, NEW a \in User, ~(validator.pc = "adjust" /\ validator.auth = a), AdjustFree(a)
  PROVE  AdjustFree(a)'
<1>1. ASSUME NEW f \in Element, Here(f)', f.auth = a, f.kind = "adjust"
      PROVE  FALSE
  <2>1. Comes(f)
    BY <1>1, HereBefore DEF AdjustFree
  <2> QED
    BY <1>1, <2>1 DEF Comes, IsSync
<1> QED
  BY <1>1 DEF AdjustFree

LEMMA RefreshingBack ==
  ASSUME TypeInv, [Next]_vars, ~Forced', NEW a \in User, ~Schedules(a), Refreshing(a)'
  PROVE  Refreshing(a)
<1>1. PICK f \in Element : Here(f)' /\ f.auth = a /\ f.kind = "refresh"
  BY DEF Refreshing
<1>2. work.pc # "idle" => work.entry \in Element /\ Here(work.entry)
  BY DEF TypeInv, Types, Loaded, Here
<1>3. Here(f) \/ Comes(f)
  BY <1>1, HereBefore
<1> QED
  BY <1>1, <1>2, <1>3 DEF Refreshing, Comes, IsSync, Schedules

LEMMA OneSyncKept ==
  ASSUME TypeInv, [Next]_vars, ~Forced', NEW a \in User, Schedules(a) => NoSyncs(a), OneSync(a)
  PROVE  OneSync(a)'
<1>1. queue \in [Priority -> Seq(Element)] /\ (work.pc # "idle" => work.entry \in Element)
  BY DEF TypeInv, Types, Loaded
<1>2. CASE \E p \in Priority : Take(p)
  <2>1. PICK e \in Element : /\ work'.pc = "loaded" /\ work'.entry = e
                             /\ \A b : Lone(queue, b) => Lone(queue', b) /\ (Mine(b, e) => NoSync(queue', b))
    BY <1>2, TakeHere
  <2> QED
    BY <2>1 DEF OneSync, Working, Mine, IsSync
<1>3. CASE ~\E p \in Priority : Take(p)
  <2>1. Working(a)' /\ IsSync(work'.entry) => Working(a) /\ work'.entry = work.entry
    BY <1>3, WorkerMoves DEF Working
  <2>2. CASE queue' = queue
    BY <2>1, <2>2 DEF OneSync
  <2>3. CASE \E e \in Element : Comes(e) /\ Put(e)
    <3>1. PICK e \in Element : Comes(e) /\ Put(e)
      BY <2>3
    <3>2. PICK p \in Priority : PutAt(queue, p, e, queue')
      BY <3>1 DEF Put, PutAt
    <3>3. \A f : In(queue', f) <=> f = e \/ In(queue, f)
      BY <3>1, PutIn
    <3>4. CASE ~Mine(a, e)
      <4>1. Lone(queue', a)
        BY <1>1, <3>2, <3>4, PutLone DEF OneSync
      <4>2. NoSync(queue, a) => NoSync(queue', a)
        BY <3>3, <3>4 DEF NoSync
      <4> QED
        BY <2>1, <4>1, <4>2 DEF OneSync
    <3>5. CASE Mine(a, e)
      <4>1. NoSync(queue, a) /\ ~(Working(a) /\ IsSync(work.entry) /\ work'.pc # "idle")
        <5>1. CASE Schedules(a)
          <6>1. NoSyncs(a)
            BY <5>1
          <6>2. NoSync(queue, a)
            BY <6>1 DEF NoSyncs, NoSync, Here
          <6>3. ~(Working(a) /\ IsSync(work.entry))
            BY <1>1, <6>1 DEF NoSyncs, Working, Here, Mine
          <6> QED
            BY <6>2, <6>3
        <5>2. CASE ~Schedules(a)
          BY <3>1, <3>5, <5>2 DEF Comes, Mine, IsSync, Schedules, OneSync, Working
        <5> QED
          BY <5>1, <5>2
      <4>2. Lone(queue', a)
        BY <1>1, <3>2, <4>1, PutLone DEF OneSync
      <4> QED
        BY <2>1, <4>1, <4>2 DEF OneSync, Working
    <3> QED
      BY <3>4, <3>5
  <2> QED
    BY <1>3, <2>2, <2>3, Puts
<1> QED
  BY <1>2, <1>3

(* No sync, at most one.                                                     *)
LEMMA NoSyncsOne ==
  ASSUME TypeInv, NEW a \in User, NoSyncs(a)
  PROVE  OneSync(a) /\ NoSync(queue, a) /\ ~(Working(a) /\ IsSync(work.entry)) /\ ~Refreshing(a)
<1>1. queue \in [Priority -> Seq(Element)] /\ (work.pc # "idle" => work.entry \in Element)
  BY DEF TypeInv, Types, Loaded
<1>2. NoSync(queue, a)
  BY DEF NoSyncs, NoSync, Here
<1>3. ~(Working(a) /\ IsSync(work.entry))
  BY <1>1 DEF NoSyncs, Working, Here, Mine
<1>4. Lone(queue, a)
  <2>1. ASSUME NEW p \in Priority, NEW i \in 1 .. Len(queue[p]) PROVE ~Mine(a, queue[p][i])
    <3>1. In(queue, queue[p][i])
      BY DEF In
    <3> QED
      BY <1>1, <1>2, <3>1, InElement DEF NoSync
  <2> QED
    BY <2>1 DEF Lone
<1>5. ~Refreshing(a)
  BY DEF NoSyncs, Refreshing, Mine, IsSync
<1> QED
  BY <1>2, <1>3, <1>4, <1>5 DEF OneSync

(* The validator is with the user, or with somebody else.                    *)
LEMMA ValidatorMoves ==
  ASSUME TypeInv, [Next]_vars, NEW a \in User
  PROVE  Validate(a) \/ validator' = validator \/ (~On(a) /\ ~On(a)')
<1>1. validator \in ValidatorRecord
  BY DEF TypeInv, Types
<1>2. ASSUME NEW b \in User, Validate(b), b # a
      PROVE  ~On(a) /\ ~On(a)'
  <2>1. validator.pc = "idle" \/ validator.auth = b
    BY <1>2 DEF Validate, ListUsers, ScheduleReconcile, ScheduleRefresh, TakeLock, ScheduleAdjust, ValidatorStep
  <2>2. validator'.pc = "idle" \/ validator'.auth = b
    <3>1. CASE ListUsers(b) \/ ScheduleAdjust(b)
      BY <3>1 DEF ListUsers, ScheduleAdjust
    <3>2. CASE ScheduleReconcile(b) \/ ScheduleRefresh(b)
      <4>1. \E pc : validator' = [validator EXCEPT !.pc = pc]
        BY <3>2 DEF ScheduleReconcile, ScheduleRefresh, Schedule, Goto
      <4> QED
        BY <1>1, <3>2, <4>1 DEF ValidatorRecord, ScheduleReconcile, ScheduleRefresh, ValidatorStep
    <3>3. CASE TakeLock(b)
      <4>1. validator' = [validator EXCEPT !.pc = "adjust", !.user.active = day]
        BY <3>3 DEF TakeLock
      <4> QED
        BY <1>1, <3>3, <4>1 DEF ValidatorRecord, TakeLock, ValidatorStep
    <3> QED
      BY <1>2, <3>1, <3>2, <3>3 DEF Validate
  <2> QED
    BY <1>2, <2>1, <2>2 DEF On
<1>3. (\E b \in User : Validate(b)) \/ validator' = validator
  BY DEF Next, WorkerStep, Take, Skip, BeginSync, SyncPage, NextPage, CleanSales, EnqueueLink, SaveSync, LinkSales,
         AdjustSales, SaveAdjusted, RateLimit, Requeue, Bury, Refused, AddSale, UpdateSale,
         List, AdminSync, Delist, Tick, vars
<1> QED
  BY <1>2, <1>3

(* The bound on the validator's syncs.                                       *)
LEMMA BarredStays ==
  ASSUME TypeInv, [Next]_vars, spent["syncs"] = MaxSyncs
  PROVE  spent'["syncs"] = MaxSyncs
<1>1. spent \in Spent
  BY DEF TypeInv, Types
<1>2. spent' = spent \/ (\E n : Spend("syncs", n) /\ n = MaxSyncs)
      \/ \E w \in {"forced", "admin", "delists", "adds", "faults"} : \E n : Spend(w, n)
  BY DEF Next, WorkerStep, Take, Skip, BeginSync, SyncPage, NextPage, CleanSales, EnqueueLink, SaveSync, LinkSales,
         AdjustSales, SaveAdjusted, RateLimit, Requeue, Bury, Refused, AddSale, UpdateSale, Validate, ListUsers,
         ScheduleReconcile, ScheduleRefresh, Schedule, TakeLock, ScheduleAdjust, List, AdminSync, Delist, Tick, vars, clock
<1>3. ~Spend("syncs", MaxSyncs)
  BY BoundsAssumption DEF Spend
<1> QED
  BY <1>1, <1>2, <1>3, SyncsSpent

(* A day turns.                                                              *)
LEMMA NewDay ==
  ASSUME TypeInv, TypeInv', Rests, Aged, Timely, Tick, AtRest, NEW a \in User
  PROVE  Anew(a)'
<1>1. /\ day' = day + 1 /\ day \in Nat /\ validator' = validator /\ validator.pc = "idle" /\ user' = user
      /\ queue' = queue /\ work' = work
  BY DEF Tick, AtRest, TypeInv, Types, store
<1>2. \A f \in Element : Here(f)' => f.kind = "link"
  BY <1>1, PresentHere DEF Here, AtRest
<1>3. user[a].active # day + 1 /\ user[a].refreshed # day + 1
  <2>1. /\ user[a].refreshed \in Nat /\ user[a].active \in Nat /\ user[a] \in StoredUser /\ Reads(a) \in StoredUser
    BY ReadTypes DEF StoredUser
  <2>2. user[a].active <= day /\ user[a].refreshed <= Reads(a).refreshed /\ Reads(a).refreshed <= day
    BY DEF Timely, Aged, Older, Past
  <2>3. Reads(a).refreshed \in Nat
    BY <2>1, OlderOrder
  <2> QED
    BY <1>1, <2>1, <2>2, <2>3
<1>4. AdjustFree(a)' /\ NoSyncs(a)' /\ ~On(a)'
  BY <1>1, <1>2 DEF AdjustFree, NoSyncs, On, Mine, IsSync
<1> QED
  BY <1>1, <1>3, <1>4 DEF Anew

(* A worker that has neither a sync nor an adjustment of the user.           *)
LEMMA NoWork ==
  ASSUME TypeInv, NEW a \in User, AdjustFree(a), NoSyncs(a)
  PROVE  ~Working(a)
<1>1. work.pc # "idle" => work.entry \in Element /\ Here(work.entry)
  BY DEF TypeInv, Types, Loaded, Here
<1> QED
  BY <1>1 DEF AdjustFree, NoSyncs, Working, Mine, IsSync, Element, Kind

(* The validator enqueues a sync for a user who has none.                    *)
LEMMA Outcomes ==
  ASSUME TypeInv, Rests, [Next]_vars, Accepted, ~Forced', NEW a \in User, NoSyncs(a), NEW e \in Element, Mine(a, e),
         NEW x, NEW y, Schedule(e, "save", x, y), validator.pc # y
  PROVE  \/ Accept(e) /\ Goto("save")
         \/ spent["syncs"] = MaxSyncs /\ UNCHANGED <<queue, spent>> /\ Goto(y)
<1>1. ~Exists(e)
  <2> SUFFICES ASSUME Exists(e) PROVE FALSE
    OBVIOUS
  <2>1. PICK f \in Element : Here(f) /\ Key(f) = Key(e)
    BY ExistsHere
  <2>2. Mine(a, f)
    BY <2>1, KeyOfSync DEF Mine, IsSync
  <2> QED
    BY <2>1, <2>2 DEF NoSyncs
<1>2. ~(Spend("faults", MaxFaults) /\ Goto(y))
  <2> SUFFICES ASSUME Spend("faults", MaxFaults), Goto(y) PROVE FALSE
    OBVIOUS
  <2>1. spent \in Spent /\ validator \in ValidatorRecord
    BY DEF TypeInv, Types
  <2>2. spent'["faults"] # spent["faults"]
    BY <2>1 DEF Spend, Spent
  <2>3. validator'.pc = y
    BY <2>1 DEF Goto, ValidatorRecord
  <2> QED
    BY <2>2, <2>3 DEF Accepted
<1>3. ~Forced
  BY AskedStays
<1> QED
  BY <1>1, <1>2, <1>3 DEF Schedule

(* It is in, and the lock is to be taken.                                    *)
LEMMA EnteredNow ==
  ASSUME TypeInv, [Next]_vars, ~Forced', NEW a \in User, NoSyncs(a), AdjustFree(a), NEW e \in Element, Mine(a, e),
         e.page = 1, e.kind = "refresh" => WithinWeek(validator.user.reconciled),
         Accept(e), Goto("save"), ValidatorStep(a, "sales") \/ ValidatorStep(a, "refresh"), UNCHANGED <<day, user, work>>
  PROVE  Entered(a)'
<1>1. validator'.pc = "save" /\ validator'.auth = a /\ validator'.user = validator.user
  BY DEF TypeInv, Types, Goto, ValidatorRecord, ValidatorStep
<1>2. AdjustFree(a)' /\ OneSync(a)'
  BY AdjustFreeKept, OneSyncKept, NoSyncsOne DEF ValidatorStep
<1>3. ~Working(a) /\ ~Working(a)'
  BY NoWork DEF Working
<1>4. Put(e)
  BY DEF Accept, Put, Element
<1>5. \A f : In(queue', f) <=> f = e \/ In(queue, f)
  BY <1>4, PutIn
<1>6. \A f \in Element : Here(f)' /\ Mine(a, f) => f = e
  BY <1>5 DEF Here, NoSyncs
<1>7. Refreshing(a)' => WithinWeek(validator.user.reconciled)
  BY <1>6 DEF Refreshing, Mine, IsSync
<1>8. \A f \in Element : In(queue', f) /\ Mine(a, f) => f.page = 1
  BY <1>6 DEF Here
<1> QED
  BY <1>1, <1>2, <1>3, <1>7, <1>8 DEF Entered, ValidatorStep, WithinWeek, Mine, IsSync

(* A user yet to be validated.                                               *)
LEMMA FromAnew ==
  ASSUME TypeInv, TypeInv', Rests, Bidden, Aged, Timely, [Next]_vars, Accepted, ~Forced', day' = day,
         NEW a \in User, Anew(a)
  PROVE  Stage(a)'
<1>1. validator \in ValidatorRecord /\ spent \in Spent
  BY DEF TypeInv, Types
<1>2. CASE Validate(a)
  <2>1. AdjustFree(a) /\ NoSyncs(a) /\ UNCHANGED <<day, work>>
    BY <1>2 DEF Anew, Validate, ListUsers, ScheduleReconcile, ScheduleRefresh, TakeLock, ScheduleAdjust, clock
  <2>2. AdjustFree(a)'
    <3>1. validator.pc = "adjust" /\ validator.auth = a => FALSE
      BY DEF Anew, On
    <3> QED
      BY <2>1, <3>1, AdjustFreeKept
  <2>3. CASE ListUsers(a)
    <3>1. validator'.pc = "sales" /\ validator'.user = user[a] /\ user' = user /\ ~Schedules(a)
      BY <2>3 DEF ListUsers, store, Schedules
    <3>2. NoSyncs(a)'
      BY <2>1, <3>1, NoSyncsKept
    <3> QED
      BY <2>1, <2>2, <3>1, <3>2 DEF Anew, Stage
  <2>4. CASE ScheduleReconcile(a)
    <3>1. /\ validator.pc = "sales" /\ validator.auth = a /\ validator.user = user[a] /\ user' = user
          /\ ~IsSalesSyncActive(validator.user)
      BY <2>4 DEF ScheduleReconcile, ValidatorStep, Anew, On, store, IsSalesSyncActive, WithinDay
    <3>2. ASSUME Goto("refresh")
          PROVE  /\ validator'.pc = "refresh" /\ validator'.user = user[a] /\ validator'.auth = a /\ NoSyncs(a)'
      <4>1. validator'.pc = "refresh" /\ validator'.user = user[a] /\ validator'.auth = a
        BY <1>1, <3>1, <3>2 DEF Goto, ValidatorRecord
      <4> QED
        BY <2>1, <4>1, NoSyncsKept DEF Schedules
    <3>3. CASE WithinWeek(validator.user.reconciled)
      <4>1. Goto("refresh")
        BY <2>4, <3>1, <3>3 DEF ScheduleReconcile
      <4> QED
        BY <2>1, <2>2, <3>1, <3>2, <3>3, <4>1 DEF Anew, Stage, WithinWeek
    <3>4. CASE ~WithinWeek(validator.user.reconciled)
      <4>1. PICK e : e = Sync("reconcile", a, 1, 0, FALSE, "UNSET")
        OBVIOUS
      <4>2. e \in Element /\ Mine(a, e) /\ e.kind = "reconcile" /\ e.page = 1
        BY <4>1 DEF Sync, Element, Kind, Priority, Mine, IsSync
      <4>3. Schedule(e, "save", "adjust", "refresh")
        BY <2>4, <3>1, <3>4, <4>1 DEF ScheduleReconcile
      <4>4. \/ Accept(e) /\ Goto("save")
            \/ spent["syncs"] = MaxSyncs /\ UNCHANGED <<queue, spent>> /\ Goto("refresh")
        BY <2>1, <3>1, <4>2, <4>3, Outcomes
      <4>5. CASE Accept(e) /\ Goto("save")
        BY <2>1, <3>1, <4>2, <4>5, EnteredNow DEF Stage, ValidatorStep
      <4>6. CASE spent["syncs"] = MaxSyncs /\ UNCHANGED <<queue, spent>> /\ Goto("refresh")
        BY <3>2, <4>6 DEF Barred, Stage, ValidatorStep
      <4> QED
        BY <4>4, <4>5, <4>6
    <3> QED
      BY <3>3, <3>4
  <2>5. CASE ScheduleRefresh(a)
    <3>1. /\ validator.pc = "refresh" /\ validator.auth = a /\ validator.user = user[a] /\ user' = user
          /\ WithinWeek(user[a].reconciled) /\ ~WithinDay(validator.user.refreshed)
      BY <2>5 DEF ScheduleRefresh, ValidatorStep, Anew, On, store, WithinDay
    <3>2. PICK e : e = Sync("refresh", a, 1, 0, FALSE, "UNSET")
      OBVIOUS
    <3>3. e \in Element /\ Mine(a, e) /\ e.page = 1
      BY <3>2 DEF Sync, Element, Kind, Priority, Mine, IsSync
    <3>4. Schedule(e, "save", "adjust", "adjust")
      BY <2>5, <3>1, <3>2 DEF ScheduleRefresh
    <3>5. \/ Accept(e) /\ Goto("save")
          \/ spent["syncs"] = MaxSyncs /\ UNCHANGED <<queue, spent>> /\ Goto("adjust")
      BY <2>1, <3>1, <3>3, <3>4, Outcomes
    <3>6. CASE Accept(e) /\ Goto("save")
      BY <2>1, <3>1, <3>3, <3>6, EnteredNow DEF Stage, ValidatorStep
    <3>7. CASE spent["syncs"] = MaxSyncs /\ UNCHANGED <<queue, spent>> /\ Goto("adjust")
      <4>1. validator'.pc = "adjust"
        BY <1>1, <3>7 DEF Goto, ValidatorRecord
      <4>2. NoSyncs(a)'
        BY <2>1, <4>1, NoSyncsKept DEF Schedules
      <4> QED
        BY <3>7, <4>1, <4>2 DEF Barred, Stage, ValidatorStep
    <3> QED
      BY <3>5, <3>6, <3>7
  <2>6. ~TakeLock(a) /\ ~ScheduleAdjust(a)
    BY DEF Anew, On, TakeLock, ScheduleAdjust, ValidatorStep
  <2> QED
    BY <1>2, <2>3, <2>4, <2>5, <2>6 DEF Validate
<1>3. CASE ~Validate(a)
  <2>1. AdjustFree(a) /\ NoSyncs(a) /\ ~Working(a)
    BY NoWork DEF Anew
  <2>2. validator' = validator \/ (~On(a) /\ ~On(a)')
    BY <1>3, ValidatorMoves
  <2>3. NoSyncs(a)' /\ AdjustFree(a)'
    <3>1. ~Schedules(a)
      BY <2>2 DEF Schedules, On
    <3>2. ~(validator.pc = "adjust" /\ validator.auth = a)
      BY DEF Anew, On
    <3> QED
      BY <2>1, <3>1, <3>2, NoSyncsKept, AdjustFreeKept
  <2>4. user'[a] = user[a]
    <3>1. ~((BeginSync \/ SaveSync \/ SaveAdjusted) /\ work.entry.auth = a)
      BY <2>1 DEF Working, BeginSync, SaveSync, SaveAdjusted, TypeInv, Types, Loaded, Rests
    <3> QED
      BY <1>3, <3>1, UserWrites DEF Validate
  <2> QED
    BY <2>2, <2>3, <2>4 DEF Anew, Stage, On, WithinWeek
<1> QED
  BY <1>2, <1>3

(* The worker's steps with an entry of a user that is not put down.          *)
LEMMA WorkingOn ==
  ASSUME TypeInv, [Next]_vars, work.pc # "idle", work'.pc # "idle"
  PROVE  /\ work'.entry = work.entry
         /\ BeginSync \/ work'.user = work.user
         /\ \/ work' = work
            \/ work.pc = "loaded" /\ BeginSync /\ work.entry.kind \in {"refresh", "reconcile"}
            \/ work.pc = "loaded" /\ AdjustSales /\ work.entry.kind = "adjust"
            \/ work.pc # "loaded" /\ work'.pc # "loaded"
<1>1. work \in WorkRecord
  BY DEF TypeInv, Types
<1>2. CASE SyncPage \/ CleanSales \/ EnqueueLink \/ AdjustSales
  BY <1>1, <1>2 DEF SyncPage, CleanSales, EnqueueLink, AdjustSales, WorkRecord
<1>3. CASE BeginSync
  BY <1>1, <1>3 DEF BeginSync, WorkRecord
<1>4. CASE work' = work
  BY <1>4
<1>5. CASE \/ Skip \/ RateLimit \/ Requeue \/ Bury \/ Refused \/ NextPage \/ LinkSales \/ SaveSync \/ SaveAdjusted
  BY <1>5, IdleTypes DEF Skip, RateLimit, Requeue, Bury, Refused, NextPage, LinkSales, SaveSync, SaveAdjusted, Done
<1> QED
  BY <1>2, <1>3, <1>4, <1>5 DEF Next, WorkerStep, Take, AddSale, Validate, ListUsers, ScheduleReconcile, ScheduleRefresh,
     TakeLock, ScheduleAdjust, List, AdminSync, Delist, UpdateSale, Tick, vars

(* A sync of which no page has been read leaves nothing behind.              *)
LEMMA NothingLeft ==
  ASSUME TypeInv, [Next]_vars, work.pc = "loaded", work'.pc = "idle"
  PROVE  queue' = queue
<1>1. work \in WorkRecord
  BY DEF TypeInv, Types
<1>2. CASE BeginSync \/ AdjustSales
  BY <1>1, <1>2 DEF BeginSync, AdjustSales, WorkRecord
<1>3. Skip \/ LinkSales => queue' = queue
  BY DEF Skip, LinkSales
<1> QED
  BY <1>2, <1>3 DEF Next, WorkerStep, Take, SyncPage, NextPage, CleanSales, EnqueueLink, SaveSync, SaveAdjusted,
     RateLimit, Requeue, Bury, Refused, AddSale, Validate, ListUsers, ScheduleReconcile, ScheduleRefresh, TakeLock,
     ScheduleAdjust, List, AdminSync, Delist, UpdateSale, Tick, vars

(* A user whose sync is enqueued: before the validator takes the lock.       *)
LEMMA EnteredStays ==
  ASSUME TypeInv, TypeInv', Rests, Bidden, Aged, Timely, [Next]_vars, ~Forced', day' = day,
         NEW a \in User, Entered(a), ~Validate(a)
  PROVE  Entered(a)'
<1>1. /\ validator.pc = "save" /\ validator.auth = a /\ AdjustFree(a) /\ OneSync(a)
      /\ work.pc # "idle" => work.entry \in Element /\ work.user \in StoredUser
  BY DEF Entered, ValidatorStep, TypeInv, Types, Loaded
<1>2. validator' = validator /\ ~Schedules(a)
  BY <1>1, ValidatorMoves DEF On, Schedules
<1>3. /\ AdjustFree(a)' /\ OneSync(a)' /\ ValidatorStep(a, "save")'
      /\ Refreshing(a)' => WithinWeek(validator'.user.reconciled)
  BY <1>1, <1>2, AdjustFreeKept, OneSyncKept, RefreshingBack DEF Entered, ValidatorStep, WithinWeek
<1>4. Working(a) => IsSync(work.entry) /\ Mine(a, work.entry) /\ Here(work.entry)
  <2> SUFFICES ASSUME Working(a) PROVE IsSync(work.entry) /\ Mine(a, work.entry) /\ Here(work.entry)
    OBVIOUS
  <2>1. work.entry \in Element /\ Here(work.entry) /\ work.entry.auth = a /\ work.entry.kind # "link"
    BY <1>1 DEF Working, Here
  <2>2. work.entry.kind # "adjust"
    BY <1>1, <2>1 DEF AdjustFree
  <2> QED
    BY <2>1, <2>2 DEF Element, Kind, IsSync, Mine
<1>5. SUFFICES /\ \A f \in Element : In(queue', f) /\ Mine(a, f) /\ f.page # 1 => user'[a].active = day
               /\ Working(a)' => IF work'.pc = "loaded"
                                 THEN work'.user = user'[a] /\ (work'.entry.page # 1 => user'[a].active = day)
                                 ELSE user'[a].active = day
  BY <1>3, day' = day DEF Entered, Mine, IsSync, WithinWeek
<1>6. CASE SaveSync /\ work.entry.auth = a
  <2>1. work.pc = "save" /\ work'.pc = "idle" /\ queue' = queue
    BY <1>6, WorkerWrites
  <2>2. Working(a) /\ NoSync(queue, a)
    BY <1>1, <1>6, <2>1 DEF Working, TypeInv, Types, Loaded, OneSync, IsSync
  <2> QED
    BY <2>1, <2>2 DEF NoSync, Working
<1>7. CASE BeginSync /\ work.entry.auth = a
  <2>1. Working(a) /\ work.pc = "loaded"
    BY <1>7 DEF Working, BeginSync
  <2>2. work.user = user[a] /\ (work.entry.page # 1 => user[a].active = day)
    BY <2>1 DEF Entered
  <2>3. work'.pc = "sync"
    BY <1>7, WorkerWrites
  <2>4. user'[a].active = day
    <3>1. CASE work.entry.page # 1
      BY <1>7, <2>2, <3>1, WorkerWrites
    <3>2. CASE work.entry.page = 1 /\ TakesLock(work.entry, work.user)
      BY <1>7, <3>2, WorkerWrites
    <3>3. CASE work.entry.page = 1 /\ ~TakesLock(work.entry, work.user)
      <4>1. user'[a] = user[a]
        BY <1>7, <3>3, WorkerWrites
      <4> QED
        BY <2>2, <3>3, <4>1 DEF TakesLock, WithinDay
    <3> QED
      BY <3>1, <3>2, <3>3
  <2> QED
    BY <2>3, <2>4
<1>8. CASE ~((BeginSync \/ SaveSync) /\ work.entry.auth = a)
  <2>1. user'[a] = user[a]
    <3>1. ~(SaveAdjusted /\ work.entry.auth = a)
      BY <1>4 DEF SaveAdjusted, Rests, Working, IsSync
    <3> QED
      BY <1>8, <3>1, UserWrites DEF Validate
  <2>2. ASSUME NEW f \in Element, In(queue', f), Mine(a, f), f.page # 1
        PROVE  user[a].active = day
    <3>1. CASE In(queue, f)
      BY <2>2, <3>1 DEF Entered
    <3>2. CASE ~In(queue, f)
      <4>1. Here(f) \/ Comes(f)
        BY <2>2, HereBefore DEF Here
      <4>2. Working(a) /\ (work.entry = f \/ work'.pc = "idle")
        <5>1. CASE Here(f)
          BY <2>2, <3>2, <5>1 DEF Here, Working, Mine, IsSync
        <5>2. CASE Comes(f)
          <6>1. ~Forced' /\ validator.pc = "save"
            BY <1>1
          <6> QED
            BY <2>2, <5>2, <6>1 DEF Comes, Working, Mine, IsSync
        <5> QED
          BY <4>1, <5>1, <5>2
      <4>3. CASE work.pc # "loaded"
        BY <4>2, <4>3 DEF Entered
      <4>4. CASE work.pc = "loaded" /\ work.entry = f
        BY <2>2, <4>2, <4>4 DEF Entered
      <4>5. CASE work.pc = "loaded" /\ work'.pc = "idle"
        BY <2>2, <3>2, <4>5, NothingLeft
      <4> QED
        BY <4>2, <4>3, <4>4, <4>5
    <3> QED
      BY <3>1, <3>2
  <2>3. Working(a)' => IF work'.pc = "loaded"
                       THEN work'.user = user[a] /\ (work'.entry.page # 1 => user[a].active = day)
                       ELSE user[a].active = day
    <3> SUFFICES ASSUME Working(a)'
                 PROVE  IF work'.pc = "loaded"
                        THEN work'.user = user[a] /\ (work'.entry.page # 1 => user[a].active = day)
                        ELSE user[a].active = day
      OBVIOUS
    <3>1. CASE work.pc = "idle"
      <4>1. \E p \in Priority : Take(p)
        BY <3>1, WorkerMoves DEF Working
      <4>2. PICK e \in Element : /\ work'.pc = "loaded" /\ work'.entry = e /\ work'.user = user[e.auth] /\ In(queue, e)
        BY <4>1, TakeHere
      <4>3. e.auth = a /\ e.kind # "link"
        BY <4>2 DEF Working
      <4>4. Mine(a, e)
        BY <1>1, <4>2, <4>3 DEF AdjustFree, Here, Mine, IsSync, Element, Kind
      <4> QED
        BY <4>2, <4>3, <4>4 DEF Entered
    <3>2. CASE work.pc # "idle"
      <4>1. work'.pc # "idle" /\ work'.entry = work.entry /\ Working(a)
        BY <3>2, WorkingOn DEF Working
      <4>2. work' = work \/ (work.pc # "loaded" /\ work'.pc # "loaded")
        BY <1>4, <1>8, <3>2, <4>1, WorkingOn DEF Working, IsSync
      <4> QED
        BY <4>1, <4>2 DEF Entered
    <3> QED
      BY <3>1, <3>2
  <2> QED
    BY <2>1, <2>2, <2>3
<1> QED
  BY <1>6, <1>7, <1>8

LEMMA FromEntered ==
  ASSUME TypeInv, TypeInv', Rests, Bidden, Aged, Timely, [Next]_vars, ~Forced', day' = day,
         NEW a \in User, Entered(a)
  PROVE  Stage(a)'
<1>1. CASE Validate(a)
  <2>1. TakeLock(a)
    BY <1>1 DEF Entered, Validate, ListUsers, ScheduleReconcile, ScheduleRefresh, TakeLock, ScheduleAdjust, ValidatorStep
  <2>2. /\ validator \in ValidatorRecord /\ validator.pc = "save" /\ validator.auth = a /\ work' = work
        /\ user \in [User -> StoredUser] /\ validator.user \in StoredUser /\ day \in Nat /\ queue' = queue
    BY <2>1 DEF TypeInv, Types, Loaded, TakeLock, ValidatorStep
  <2>3. validator'.pc = "adjust"
    BY <2>1, <2>2 DEF TakeLock, ValidatorRecord
  <2>4. user'[a].active = day /\ user'[a].reconciled = validator.user.reconciled
    <3>1. user'[a] = [validator.user EXCEPT !.active = day]
      BY <2>1, <2>2 DEF TakeLock
    <3> QED
      BY <2>2, <3>1, OlderOrder
  <2>5. ~Schedules(a)
    BY <2>2 DEF Schedules
  <2>6. OneSync(a)' /\ (Refreshing(a)' => WithinWeek(user'[a].reconciled))
    BY <2>4, <2>5, OneSyncKept, RefreshingBack DEF Entered
  <2>7. ~(Working(a) /\ work.entry.kind = "adjust")
    <3>1. work.pc # "idle" => work.entry \in Element /\ Here(work.entry)
      BY DEF TypeInv, Types, Loaded, Here
    <3> QED
      BY <3>1 DEF Entered, AdjustFree, Working
  <2> QED
    BY <2>2, <2>3, <2>4, <2>6, <2>7 DEF Held, Stage, ValidatorStep, Working, WithinWeek
<1>2. CASE ~Validate(a)
  BY <1>2, EnteredStays DEF Stage
<1> QED
  BY <1>1, <1>2

(* A user whose lock is held.                                                *)
LEMMA HeldStays ==
  ASSUME TypeInv, TypeInv', Rests, Bidden, Aged, Timely, [Next]_vars, ~Forced', day' = day,
         NEW a \in User, Held(a), ~(SaveSync /\ work.entry.auth = a)
  PROVE  Held(a)'
<1>1. /\ user[a].active = day /\ ~ValidatorStep(a, "save") /\ OneSync(a) /\ validator \in ValidatorRecord
      /\ On(a) /\ validator.pc # "adjust" => validator.pc = "sales" /\ validator.user.active = day
      /\ Working(a) /\ work.entry.kind = "adjust" => work.user.active = day
      /\ day > 0 /\ day \in Nat
  BY DEF Held, TypeInv, Types, Timely
<1>2. /\ ~ValidatorStep(a, "save")'
      /\ On(a)' /\ validator'.pc # "adjust" => validator'.pc = "sales" /\ validator'.user.active = day
      /\ ~Schedules(a)
  <2>1. CASE Validate(a)
    <3>1. CASE ListUsers(a)
      BY <1>1, <3>1 DEF ListUsers, ValidatorStep, On, Schedules
    <3>2. CASE ScheduleReconcile(a)
      <4>1. IsSalesSyncActive(validator.user)
        BY <1>1, <3>2 DEF ScheduleReconcile, ValidatorStep, On, IsSalesSyncActive, WithinDay
      <4>2. Goto("adjust")
        BY <3>2, <4>1 DEF ScheduleReconcile
      <4> QED
        BY <1>1, <4>2 DEF Goto, ValidatorRecord, ValidatorStep, On, Schedules
    <3>3. ~ScheduleRefresh(a) /\ ~TakeLock(a)
      BY <1>1 DEF ScheduleRefresh, TakeLock, ValidatorStep, On
    <3>4. CASE ScheduleAdjust(a)
      BY <3>4 DEF ScheduleAdjust, ValidatorStep, On, Schedules
    <3> QED
      BY <2>1, <3>1, <3>2, <3>3, <3>4 DEF Validate
  <2>2. CASE ~Validate(a)
    BY <1>1, <2>2, ValidatorMoves DEF ValidatorStep, On, Schedules
  <2> QED
    BY <2>1, <2>2
<1>3. OneSync(a)' /\ (Refreshing(a)' => WithinWeek(user[a].reconciled))
  BY <1>1, <1>2, OneSyncKept, RefreshingBack DEF Held
<1>4. user'[a].active = day /\ (WithinWeek(user[a].reconciled) => WithinWeek(user'[a].reconciled))
  <2>1. CASE user'[a] = user[a]
    BY <1>1, <2>1
  <2>2. CASE TakeLock(a)
    BY <1>1, <2>2 DEF TakeLock
  <2>3. CASE (BeginSync \/ SaveAdjusted) /\ work.entry.auth = a
    <3>1. Reads(a) = work.user /\ work.pc # "idle" /\ work.user \in StoredUser /\ user[a] \in StoredUser
      BY <2>3, ReadTypes DEF Reads, Busy, BeginSync, SaveAdjusted
    <3>2. user[a].reconciled <= work.user.reconciled
      BY <3>1 DEF Aged, Older
    <3>3. user[a].reconciled \in Nat /\ work.user.reconciled \in Nat
      BY <3>1, OlderOrder
    <3>4. WithinWeek(user[a].reconciled) => WithinWeek(work.user.reconciled)
      BY <1>1, <3>2, <3>3, BoundsAssumption DEF WithinWeek
    <3>5. CASE BeginSync
      <4>1. user'[a] = user[a] \/ (user'[a] = Locked(work.entry, work.user) /\ user'[a].active = day
                                   /\ user'[a].reconciled = work.user.reconciled)
        BY <2>3, <3>5, WorkerWrites
      <4> QED
        BY <1>1, <3>4, <4>1
    <3>6. CASE SaveAdjusted
      <4>1. user'[a] = work.user
        BY <2>3, <3>6, WorkerWrites
      <4>2. Working(a) /\ work.entry.kind = "adjust"
        BY <2>3, <3>6 DEF Working, Rests, SaveAdjusted
      <4> QED
        BY <1>1, <3>4, <4>1, <4>2
    <3> QED
      BY <2>3, <3>5, <3>6
  <2> QED
    BY <2>1, <2>2, <2>3, UserWrites
<1>5. Working(a)' /\ work'.entry.kind = "adjust" => work'.user.active = day
  <2> SUFFICES ASSUME Working(a)', work'.entry.kind = "adjust" PROVE work'.user.active = day
    OBVIOUS
  <2>1. CASE work.pc = "idle"
    <3>1. \E p \in Priority : Take(p)
      BY <2>1, WorkerMoves DEF Working
    <3>2. PICK e : work'.entry = e /\ work'.user = user[e.auth]
      BY <3>1, TakeHere
    <3> QED
      BY <1>1, <3>2 DEF Working
  <2>2. CASE work.pc # "idle"
    <3>1. work'.pc # "idle" /\ work'.entry = work.entry /\ Working(a)
      BY <2>2, WorkingOn DEF Working
    <3>2. work'.user = work.user
      BY <2>2, <3>1, WorkingOn DEF BeginSync
    <3> QED
      BY <1>1, <3>1, <3>2
  <2> QED
    BY <2>1, <2>2
<1> QED
  BY <1>2, <1>3, <1>4, <1>5 DEF Held, WithinWeek

LEMMA FromHeld ==
  ASSUME TypeInv, TypeInv', Rests, Bidden, Aged, Timely, [Next]_vars, ~Forced', day' = day,
         NEW a \in User, Held(a)
  PROVE  Stage(a)'
<1>1. CASE SaveSync /\ work.entry.auth = a
  <2>1. /\ work.pc = "save" /\ work'.pc = "idle" /\ queue' = queue /\ user'[a].refreshed = day
        /\ user'[a].reconciled = IF work.entry.kind = "reconcile" THEN day ELSE work.user.reconciled
    BY <1>1, WorkerWrites
  <2>2. /\ work.entry \in Element /\ IsSync(work.entry) /\ Working(a) /\ Here(work.entry) /\ day \in Nat
        /\ validator' = validator
    BY <1>1, <2>1 DEF TypeInv, Types, Loaded, Working, Here, IsSync, SaveSync
  <2>3. NoSync(queue, a)
    BY <2>2 DEF Held, OneSync
  <2>4. NoSyncs(a)'
    BY <2>1, <2>3 DEF NoSyncs, NoSync, Here, Mine, IsSync
  <2>5. WithinWeek(user'[a].reconciled)
    <3>1. CASE work.entry.kind = "reconcile"
      BY <2>1, <2>2, <3>1, BoundsAssumption DEF WithinWeek
    <3>2. CASE work.entry.kind = "refresh"
      <4>1. Refreshing(a)
        BY <1>1, <2>2, <3>2 DEF Refreshing
      <4>2. WithinWeek(user[a].reconciled)
        BY <4>1 DEF Held
      <4>3. Reads(a) = work.user /\ user[a] \in StoredUser /\ Reads(a) \in StoredUser
        BY <1>1, <2>1, ReadTypes DEF Reads, Busy
      <4>4. user[a].reconciled <= work.user.reconciled /\ user[a].reconciled \in Nat /\ work.user.reconciled \in Nat
        BY <4>3, OlderOrder DEF Aged, Older
      <4> QED
        BY <2>1, <2>2, <3>2, <4>2, <4>4, BoundsAssumption DEF WithinWeek
    <3> QED
      BY <2>2, <3>1, <3>2 DEF IsSync
  <2> QED
    BY <2>1, <2>2, <2>4, <2>5 DEF Held, Served, Stage, UpToDate, ValidatorStep, On, WithinWeek
<1>2. CASE ~(SaveSync /\ work.entry.auth = a)
  BY <1>2, HeldStays DEF Stage
<1> QED
  BY <1>1, <1>2

(* A user whose sync is done.                                                *)
LEMMA FromServed ==
  ASSUME TypeInv, TypeInv', Rests, Bidden, Aged, Timely, [Next]_vars, ~Forced', day' = day,
         NEW a \in User, Served(a)
  PROVE  Stage(a)'
<1>1. /\ NoSyncs(a) /\ ~ValidatorStep(a, "save") /\ UpToDate(user[a]) /\ validator \in ValidatorRecord
      /\ On(a) /\ validator.pc # "adjust" =>
           UpToDate(validator.user) \/ (validator.pc = "sales" /\ validator.user.active = day)
      /\ day > 0 /\ day \in Nat
  BY DEF Served, TypeInv, Types, Timely
<1>2. /\ ~ValidatorStep(a, "save")' /\ ~Schedules(a)
      /\ On(a)' /\ validator'.pc # "adjust" =>
           UpToDate(validator'.user) \/ (validator'.pc = "sales" /\ validator'.user.active = day)
  <2>1. CASE Validate(a)
    <3>1. CASE ListUsers(a)
      BY <1>1, <3>1 DEF ListUsers, ValidatorStep, On, Schedules
    <3>2. CASE ScheduleReconcile(a)
      <4>1. Goto("adjust") \/ (Goto("refresh") /\ UpToDate(validator.user))
        <5>1. validator.pc = "sales" /\ On(a)
          BY <3>2 DEF ScheduleReconcile, ValidatorStep, On
        <5>2. CASE validator.user.active = day
          <6>1. IsSalesSyncActive(validator.user)
            BY <1>1, <5>2 DEF IsSalesSyncActive, WithinDay
          <6> QED
            BY <3>2, <6>1 DEF ScheduleReconcile
        <5>3. CASE UpToDate(validator.user)
          <6>1. WithinWeek(validator.user.reconciled)
            BY <5>3 DEF UpToDate
          <6> QED
            BY <3>2, <5>3, <6>1 DEF ScheduleReconcile
        <5> QED
          BY <1>1, <5>1, <5>2, <5>3
      <4>2. \A pc \in {"adjust", "refresh"} : Goto(pc) => validator'.pc = pc /\ validator'.user = validator.user
        BY <1>1 DEF Goto, ValidatorRecord
      <4> QED
        BY <4>1, <4>2 DEF ValidatorStep, On, Schedules
    <3>3. CASE ScheduleRefresh(a)
      <4>1. validator.pc = "refresh" /\ On(a)
        BY <3>3 DEF ScheduleRefresh, ValidatorStep, On
      <4>2. WithinDay(validator.user.refreshed)
        BY <1>1, <4>1 DEF UpToDate, WithinDay
      <4>3. Goto("adjust")
        BY <3>3, <4>2 DEF ScheduleRefresh
      <4> QED
        BY <1>1, <4>3 DEF Goto, ValidatorRecord, ValidatorStep, On, Schedules
    <3>4. ~TakeLock(a)
      BY <1>1 DEF TakeLock
    <3>5. CASE ScheduleAdjust(a)
      BY <3>5 DEF ScheduleAdjust, ValidatorStep, On, Schedules
    <3> QED
      BY <2>1, <3>1, <3>2, <3>3, <3>4, <3>5 DEF Validate
  <2>2. CASE ~Validate(a)
    BY <1>1, <2>2, ValidatorMoves DEF ValidatorStep, On, Schedules
  <2> QED
    BY <2>1, <2>2
<1>3. NoSyncs(a)'
  BY <1>1, <1>2, NoSyncsKept
<1>4. UpToDate(user'[a])
  <2>1. CASE user'[a] = user[a]
    BY <1>1, <2>1
  <2>2. ~TakeLock(a)
    BY <1>1 DEF TakeLock
  <2>3. ~((BeginSync \/ SaveSync) /\ work.entry.auth = a)
    BY <1>1, NoSyncsOne DEF Working, BeginSync, SaveSync, TypeInv, Types, Loaded, IsSync
  <2>4. CASE SaveAdjusted /\ work.entry.auth = a
    <3>1. user'[a] = work.user /\ work.pc # "idle"
      BY <2>4, WorkerWrites
    <3>2. Reads(a) = work.user /\ user[a] \in StoredUser /\ Reads(a) \in StoredUser
      BY <2>4, <3>1, ReadTypes DEF Reads, Busy
    <3>3. Older(user[a], work.user) /\ Past(work.user)
      BY <3>2 DEF Aged
    <3>4. /\ user[a].reconciled \in Nat /\ work.user.reconciled \in Nat
          /\ user[a].refreshed \in Nat /\ work.user.refreshed \in Nat
      BY <3>2, OlderOrder
    <3>5. user[a].refreshed = day /\ day - user[a].reconciled < Week
      BY <1>1 DEF UpToDate, WithinWeek
    <3>6. work.user.refreshed = day /\ day - work.user.reconciled < Week
      BY <1>1, <3>3, <3>4, <3>5, BoundsAssumption DEF Older, Past
    <3> QED
      BY <3>1, <3>6 DEF UpToDate, WithinWeek
  <2> QED
    BY <2>1, <2>2, <2>3, <2>4, UserWrites
<1> QED
  BY <1>2, <1>3, <1>4 DEF Served, Stage, UpToDate, WithinWeek

(* A user whose syncs are refused.                                           *)
LEMMA FromBarred ==
  ASSUME TypeInv, TypeInv', Rests, [Next]_vars, ~Forced', NEW a \in User, Barred(a)
  PROVE  Stage(a)'
<1>1. spent["syncs"] = MaxSyncs /\ NoSyncs(a) /\ ~ValidatorStep(a, "save") /\ validator \in ValidatorRecord
  BY DEF Barred, TypeInv, Types
<1>2. ~ValidatorStep(a, "save")' /\ ~Schedules(a)
  <2>1. CASE Validate(a)
    <3>1. CASE ListUsers(a) \/ ScheduleAdjust(a)
      BY <3>1 DEF ListUsers, ScheduleAdjust, ValidatorStep, Schedules
    <3>2. CASE ScheduleReconcile(a) \/ ScheduleRefresh(a)
      <4>1. ~Spend("syncs", MaxSyncs)
        BY <1>1, BoundsAssumption DEF Spend
      <4>2. Goto("adjust") \/ Goto("refresh")
        BY <3>2, <4>1 DEF ScheduleReconcile, ScheduleRefresh, Schedule
      <4> QED
        BY <1>1, <4>2 DEF Goto, ValidatorRecord, ValidatorStep, Schedules
    <3>3. ~TakeLock(a)
      BY <1>1 DEF TakeLock
    <3> QED
      BY <2>1, <3>1, <3>2, <3>3 DEF Validate
  <2>2. CASE ~Validate(a)
    BY <1>1, <2>2, ValidatorMoves DEF ValidatorStep, On, Schedules
  <2> QED
    BY <2>1, <2>2
<1>3. NoSyncs(a)' /\ spent'["syncs"] = MaxSyncs
  BY <1>1, <1>2, NoSyncsKept, BarredStays
<1> QED
  BY <1>2, <1>3 DEF Barred, Stage

(* Every step.                                                               *)
LEMMA LockingsKept ==
  ASSUME TypeInv, TypeInv', Rests, Bidden, Aged, Timely, Lockings, [Next]_vars,
         [DayTurnsAtRest]_vars, [Accepted]_vars
  PROVE  Lockings'
<1>1. SUFFICES ASSUME ~Forced', NEW a \in User PROVE Stage(a)'
  BY DEF Lockings
<1>2. Stage(a)
  BY <1>1, AskedStays DEF Lockings
<1>3. Accepted
  BY DEF Accepted, vars
<1>4. CASE day' # day
  <2>1. Tick /\ AtRest
    BY <1>4, DayMoves DEF DayTurnsAtRest, vars
  <2> QED
    BY <2>1, NewDay DEF Stage
<1>5. CASE day' = day
  BY <1>1, <1>2, <1>3, <1>5, FromAnew, FromEntered, FromHeld, FromServed, FromBarred DEF Stage
<1> QED
  BY <1>4, <1>5

(* Two syncs of a user that are here are one.                                *)
LEMMA OnlyOne ==
  ASSUME TypeInv, NEW a \in User, OneSync(a), NEW e \in Element, NEW f \in Element,
         Here(e), Mine(a, e), Here(f), Mine(a, f)
  PROVE  e = f
<1>1. CASE In(queue, e) /\ In(queue, f)
  BY <1>1 DEF In, OneSync, Lone
<1>2. ~(Working(a) /\ IsSync(work.entry) /\ (In(queue, e) \/ In(queue, f)))
  BY DEF OneSync, NoSync
<1> QED
  BY <1>1, <1>2 DEF Here, Working, Mine, IsSync

(* What the stages promise.                                                  *)
LEMMA StagesLock ==
  ASSUME TypeInv, Rests, Timely, Lockings
  PROVE  LockedBetweenPages /\ OneSyncAtATime
<1> SUFFICES ASSUME ~Forced, NEW a \in User
             PROVE  ((\E e \in Syncs(a) : e.page > 1) => user[a].active # 0) /\ Cardinality(Syncs(a)) <= 1
  BY DEF LockedBetweenPages, OneSyncAtATime
<1>1. Stage(a)
  BY DEF Lockings
<1>2. \A e \in Syncs(a) : e \in Element /\ Here(e) /\ Mine(a, e)
  BY PresentHere DEF Syncs, Mine, IsSync
<1>3. OneSync(a)
  BY <1>1, NoSyncsOne DEF Stage, Anew, Entered, Held, Served, Barred
<1>4. Cardinality(Syncs(a)) <= 1
  <2>1. CASE Syncs(a) = {}
    BY <2>1, FS_EmptySet
  <2>2. CASE Syncs(a) # {}
    <3>1. PICK e : e \in Syncs(a)
      BY <2>2
    <3>2. \A f \in Syncs(a) : f = e
      BY <1>2, <1>3, <3>1, OnlyOne
    <3>3. Syncs(a) = {e}
      BY <3>1, <3>2
    <3> QED
      BY <3>3, FS_Singleton
  <2> QED
    BY <2>1, <2>2
<1>5. ASSUME NEW e \in Syncs(a), e.page > 1
      PROVE  user[a].active # 0
  <2>1. e \in Element /\ Here(e) /\ Mine(a, e) /\ e.page # 1 /\ day > 0
    BY <1>2, <1>5 DEF Timely, Element
  <2>2. ~NoSyncs(a)
    BY <2>1 DEF NoSyncs
  <2>3. CASE Held(a)
    BY <2>1, <2>3 DEF Held
  <2>4. CASE Entered(a)
    <3>1. user[a].active = day
      BY <2>1, <2>4 DEF Entered, Here, Working, Mine, IsSync
    <3> QED
      BY <2>1, <3>1
  <2> QED
    BY <1>1, <2>2, <2>3, <2>4 DEF Stage, Anew, Served, Barred
<1> QED
  BY <1>4, <1>5

(* Among syncs that heed the lock, it is held from the first page of a sync  *)
(* until its last one, and the validator never has two syncs of a user in    *)
(* flight (validatorlogic.go takes the lock when it has enqueued the sync,   *)
(* sales.go at the first page, unless another has it); as long as a day, the *)
(* time for which the lock is heeded, ends when its syncs and price          *)
(* adjustments are done, and none of the validator's own entries is lost.    *)
THEOREM SyncsAreLocked ==
  Spec /\ [][DayTurnsAtRest]_vars /\ [][Accepted]_vars => [](LockedBetweenPages /\ OneSyncAtATime)
<1> DEFINE Locking == TypeInv /\ Rests /\ Bidden /\ Aged /\ Timely /\ Lockings
<1>1. Init => Locking
  <2> SUFFICES ASSUME Init PROVE Rests /\ Bidden /\ Aged /\ Timely /\ Lockings
    BY TypeInit
  <2>1. /\ work.pc = "idle" /\ work.entry = None /\ validator.pc = "idle" /\ \A p \in Priority : queue[p] = <<>>
        /\ day \in Nat /\ day > 0
        /\ \A a \in User : user[a].refreshed = 0 /\ user[a].reconciled = 0 /\ user[a].active = 0
    BY BoundsAssumption DEF Init, Idle, Start
  <2>2. \A f : ~Here(f)
    BY <2>1 DEF Here, In
  <2>3. Aged
    BY <2>1 DEF Aged, Reads, Busy, Older, Past
  <2>4. \A a \in User : Anew(a)
    BY <2>1, <2>2 DEF Anew, AdjustFree, NoSyncs, On
  <2> QED
    BY <2>1, <2>2, <2>3, <2>4 DEF Rests, Bidden, Timely, Lockings, Stage
<1>2. Locking /\ [Next]_vars /\ [DayTurnsAtRest]_vars /\ [Accepted]_vars => Locking'
  <2> SUFFICES ASSUME Locking, [Next]_vars, [DayTurnsAtRest]_vars, [Accepted]_vars
               PROVE  Locking'
    OBVIOUS
  <2>1. TypeInv' /\ Rests' /\ Bidden'
    BY TypeStep, RestsKept, BiddenKept
  <2>2. Aged' /\ Timely'
    BY <2>1, AgedStep, TimelyKept DEF Ages
  <2>3. Lockings'
    BY <2>1, LockingsKept
  <2> QED
    BY <2>1, <2>2, <2>3
<1>3. Locking => LockedBetweenPages /\ OneSyncAtATime
  BY StagesLock
<1> QED
  BY <1>1, <1>2, <1>3, PTL DEF Spec

-----------------------------------------------------------------------------
(* Everything the lock and the entries promise together (sales.go,           *)
(* validatorlogic.go), for any number of users, pages, days and failures,    *)
(* under the assumptions each part needs.                                    *)
THEOREM LockIsSound ==
  /\ Spec
  /\ [][NothingGivenUp]_vars /\ [][LinksApart]_vars /\ []~(Scheduled /\ Forced)
  /\ [][DayTurnsAtRest]_vars /\ [][Accepted]_vars
  => []LockHolds
<1>1. LockedBetweenPages /\ OneSyncAtATime /\ ForcedUnlocks /\ LinkedWhenQuiet => LockHolds
  BY DEF LockHolds
<1> QED
  BY <1>1, ForcedSyncsUnlock, SyncsAreLinked, SyncsAreLocked, PTL

(* Syncs of both kinds do not meet when the bound says so.                   *)
LEMMA KindsApart ==
  ASSUME TypeInv, ~Mixed, ~(Scheduled /\ Forced), [Next]_vars
  PROVE  ~(Scheduled /\ Forced)'
<1>1. spent \in Spent
  BY DEF TypeInv, Types
<1>2. \/ spent' = spent
      \/ ~Forced /\ \E n : Spend("syncs", n)
      \/ ~Scheduled /\ \E w \in {"forced", "admin"} : \E n : Spend(w, n)
      \/ \E w \in {"delists", "adds", "faults"} : \E n : Spend(w, n)
  BY DEF Next, WorkerStep, Take, Skip, BeginSync, SyncPage, NextPage, CleanSales, EnqueueLink, SaveSync, LinkSales,
         AdjustSales, SaveAdjusted, RateLimit, Requeue, Bury, Refused, AddSale, UpdateSale, Validate, ListUsers,
         ScheduleReconcile, ScheduleRefresh, Schedule, TakeLock, ScheduleAdjust, List, AdminSync, Delist, Tick, vars, clock
<1>3. \A w \in {"syncs", "forced", "admin", "delists", "adds", "faults"} : spent[w] \in Nat
  BY <1>1 DEF Spent
<1>4. ASSUME NEW w \in {"syncs", "forced", "admin", "delists", "adds", "faults"}, NEW n, Spend(w, n)
      PROVE  \A v \in {"syncs", "forced", "admin", "delists", "adds", "faults"} : v # w => spent'[v] = spent[v]
  BY <1>1, <1>4 DEF Spend, Spent
<1>5. CASE spent' = spent
  BY <1>5 DEF Scheduled, Forced
<1>6. CASE ~Forced /\ \E n : Spend("syncs", n)
  <2>1. spent'["forced"] = spent["forced"] /\ spent'["admin"] = spent["admin"]
    BY <1>4, <1>6
  <2> QED
    BY <1>6, <2>1 DEF Forced
<1>7. CASE ~Scheduled /\ \E w \in {"forced", "admin"} : \E n : Spend(w, n)
  <2>1. spent'["syncs"] = spent["syncs"]
    BY <1>4, <1>7
  <2> QED
    BY <1>7, <2>1 DEF Scheduled
<1>8. CASE \E w \in {"delists", "adds", "faults"} : \E n : Spend(w, n)
  <2>1. spent'["syncs"] = spent["syncs"] /\ spent'["forced"] = spent["forced"] /\ spent'["admin"] = spent["admin"]
    BY <1>4, <1>8
  <2> QED
    BY <2>1 DEF Scheduled, Forced
<1> QED
  BY <1>2, <1>5, <1>6, <1>7, <1>8

(* No failure is left to spend.                                              *)
LEMMA NoFaults ==
  ASSUME TypeInv, MaxFaults = 0, Next
  PROVE  NothingGivenUp /\ Accepted
<1>1. spent \in Spent
  BY DEF TypeInv, Types
<1>2. ~Spend("faults", MaxFaults)
  BY <1>1 DEF Spend, Spent
<1>3. NothingGivenUp
  BY <1>2 DEF NothingGivenUp, Bury, Refused
<1>4. spent' = spent \/ \E w \in {"syncs", "forced", "admin", "delists", "adds"} : \E n : Spend(w, n)
  BY <1>2 DEF Next, WorkerStep, Take, Skip, BeginSync, SyncPage, NextPage, CleanSales, EnqueueLink, SaveSync, LinkSales,
         AdjustSales, SaveAdjusted, RateLimit, Requeue, Bury, Refused, AddSale, UpdateSale, Validate, ListUsers,
         ScheduleReconcile, ScheduleRefresh, Schedule, TakeLock, ScheduleAdjust, List, AdminSync, Delist, Tick, clock
<1>5. spent'["faults"] = spent["faults"]
  BY <1>1, <1>4 DEF Spend, Spent
<1> QED
  BY <1>3, <1>5 DEF Accepted

(* The same for one user, on one day, without failures and with syncs of one *)
(* kind, whatever the inventory, the page size and the number of syncs: the  *)
(* bounds alone then see to the assumptions.                                 *)
THEOREM LockHoldsForADay ==
  ASSUME ~Mixed, MaxFaults = 0, MaxDays = 0, \A a, b \in User : a = b
  PROVE  Spec => []LockHolds
<1> DEFINE Bounded == TypeInv /\ Rests /\ ~(Scheduled /\ Forced) /\ day >= Start
<1>1. Init => Bounded
  BY TypeInit, BoundsAssumption DEF Init, Idle, Rests, Scheduled, Start
<1>2. Bounded /\ [Next]_vars => Bounded'
  <2> SUFFICES ASSUME Bounded, [Next]_vars PROVE Bounded'
    OBVIOUS
  <2>1. TypeInv' /\ Rests' /\ ~(Scheduled /\ Forced)'
    BY TypeStep, RestsKept, KindsApart
  <2>2. day' >= Start
    BY DayMoves, BoundsAssumption DEF Start, TypeInv, Types
  <2> QED
    BY <2>1, <2>2
<1>3. Bounded /\ [Next]_vars =>
        /\ [NothingGivenUp]_vars /\ [LinksApart]_vars /\ [DayTurnsAtRest]_vars /\ [Accepted]_vars
        /\ ~(Scheduled /\ Forced)
  <2> SUFFICES ASSUME Bounded, Next PROVE NothingGivenUp /\ LinksApart /\ DayTurnsAtRest /\ Accepted
    OBVIOUS
  <2>1. NothingGivenUp /\ Accepted
    BY NoFaults
  <2>2. LinksApart
    <3>1. EnqueueLink => work.entry \in Element
      BY DEF EnqueueLink, TypeInv, Types, Loaded
    <3> QED
      BY <3>1, PresentHere DEF LinksApart, Element
  <2>3. day' = day
    <3>1. ~(day < Start + MaxDays)
      BY BoundsAssumption DEF Start, TypeInv, Types
    <3>2. ~Tick
      BY <3>1 DEF Tick
    <3> QED
      BY <3>2, DayMoves
  <2> QED
    BY <2>1, <2>2, <2>3 DEF DayTurnsAtRest
<1> QED
  BY <1>1, <1>2, <1>3, LockIsSound, PTL DEF Spec

-----------------------------------------------------------------------------
(* What a record sells for.                                                  *)

Stats == [median : Nat, low : Nat]
Job == [stage : {"none", "save", "unmark"}, stats : Stats, failed : BOOLEAN]
Request == [stage : {"none", "validated", "marked"}, force : BOOLEAN]

(* The types, those of the requests and of the refresh included.             *)
MarketTypes == MarketTypeOK /\ job \in Job /\ request \in [Caller -> Request]

(* What is stored of the market was read from one, the median and the low    *)
(* together; 0 stands for a median not read yet.                             *)
PricesRead ==
  /\ job.stage = "save" => job.stats \in Markets
  /\ record.median # 0 => \E m \in Markets : record.median = m.median /\ record.low = m.low
  /\ sale.median # 0 => \E m \in Markets : sale.median = m.median /\ sale.low = m.low

(* The price at Discogs, the one stored and those on their way that Discogs  *)
(* will take are prices the configuration allows.                            *)
Allowed(price) == \E bound \in Bounds \cup {StartPrice} : price >= bound
Offers(q) == \A i \in 1 .. Len(q) : q[i].kind = "UpdateSale" /\ q[i].price > 0 => Allowed(q[i].price)
Prices == config.timeToMedian = 0 => Allowed(offer) /\ Allowed(sale.price) /\ Offers(tasks)

FloorInv == PricesRead /\ Prices

-----------------------------------------------------------------------------
(* The configuration and the market, field by field.                         *)
LEMMA ConfigFields ==
  ASSUME MarketTypes
  PROVE  /\ config \in SaleConfig /\ market \in Stats /\ MaxMove[config] \in Nat
         /\ \A m \in Markets : m.median \in Nat /\ m.low \in Nat
  BY ConstantsAssumption DEF MarketTypes, MarketTypeOK, ReleaseStats, Stats

(* A new price is a whole number of cents.                                   *)
LEMMA NewPriceIsInt ==
  ASSUME MarketTypes, ~ Unpriced
  PROVE  NewPrice \in Int
<1>1. /\ sale.price \in Nat /\ sale.median \in Nat /\ sale.low \in Nat /\ sale.listed \in Nat
      /\ sale.atMedian \in Int
  BY DEF MarketTypes, MarketTypeOK, SaleInfo, Never
<1>2. /\ config.reduction \in Nat /\ config.timeToMedian \in Nat
      /\ config.timeToLower \in Nat \ {0} /\ config.postMedianTime \in Nat /\ config.postMedianReduction \in Nat
      /\ config.postMedianReductionFrequency \in Nat /\ config.lowerBound \in Nat
      /\ config.postLowReduction \in Nat /\ config.staleBound \in Nat
  BY ConfigFields DEF SaleConfig
<1>3. config.timeToMedian > 0 => TimeReduce \in Int
  <2>1. config.timeToMedian > 0 => Share(sale.median, sale.listed, config.timeToMedian) \in Int
    BY <1>1, <1>2 DEF Share, Smaller
  <2>2. Share(sale.median - sale.low, sale.atMedian - config.postMedianTime, config.timeToLower) \in Int
    BY <1>1, <1>2 DEF Share, Smaller
  <2> QED
    BY <1>1, <2>1, <2>2 DEF TimeReduce
<1>4. config.postMedianReductionFrequency > 0 => Cycles \in Int
  BY <1>1, <1>2 DEF Cycles
<1>5. /\ sale.price - 1 \in Int /\ Larger(sale.price - config.postLowReduction, config.staleBound) \in Int
      /\ Larger(sale.price - config.reduction, sale.median) \in Int
  BY <1>1, <1>2 DEF Larger
<1>6. config.postMedianReductionFrequency > 0 =>
        Larger(sale.median - Cycles * config.postMedianReduction, LowerBound) \in Int
  BY <1>1, <1>2, <1>4 DEF Larger, LowerBound
<1>7. PostMedian /\ ~ Stale /\ config.timeToMedian = 0 => config.postMedianReductionFrequency > 0
  BY <1>2 DEF Unpriced
<1> QED
  BY <1>1, <1>3, <1>5, <1>6, <1>7 DEF NewPrice

(* A price of the configuration, or a greater one, is one.                   *)
LEMMA GreaterAllowed ==
  ASSUME MarketTypes, NEW b \in Bounds \cup {StartPrice}, NEW p \in Int, p >= b
  PROVE  Allowed(p)
BY DEF Allowed

(* adjustPrice asks for no price below what the configuration allows, unless *)
(* Discogs will not take it anyway.                                          *)
LEMMA NewPriceAllowed ==
  ASSUME MarketTypes, FloorInv, config.timeToMedian = 0, ~ Unpriced, NewPrice > 0
  PROVE  Allowed(NewPrice)
<1>1. /\ sale.price \in Nat /\ sale.median \in Nat /\ sale.low \in Nat /\ sale.atMedian \in Int
  BY DEF MarketTypes, MarketTypeOK, SaleInfo, Never
<1>2. /\ config.reduction \in Nat /\ config.postMedianTime \in Nat /\ config.postMedianReduction \in Nat
      /\ config.postMedianReductionFrequency \in Nat /\ config.lowerBound \in Nat
      /\ config.postLowReduction \in Nat /\ config.staleBound \in Nat
      /\ config.type \in SaleUpdateType
  BY ConfigFields DEF SaleConfig
<1>3. CASE config.type = "none"
  <2>1. NewPrice = sale.price
    BY <1>3 DEF NewPrice, Reduces, Stale, PostMedian
  <2> QED
    BY <2>1 DEF FloorInv, Prices
<1>4. CASE config.type = "minimal"
  <2>1. NewPrice >= 1 /\ NewPrice \in Int
    BY NewPriceIsInt
  <2>2. 1 \in Bounds
    BY <1>4 DEF Bounds
  <2> QED
    BY <2>1, <2>2, GreaterAllowed
<1>5. CASE Reduces
  <2>1. PICK m \in Markets : sale.median = m.median /\ sale.low = m.low
    BY <1>5 DEF FloorInv, PricesRead, Unpriced
  <2>2. sale.median \in Bounds
    BY <1>5, <2>1 DEF Bounds, Reduces
  <2>3. CASE Stale
    <3>1. NewPrice = Larger(sale.price - config.postLowReduction, config.staleBound)
      BY <2>3 DEF NewPrice, Stale
    <3>2. NewPrice >= config.staleBound
      BY <1>1, <1>2, <3>1 DEF Larger
    <3>3. config.staleBound \in Bounds
      BY <2>3 DEF Bounds, Stale
    <3> QED
      BY <3>2, <3>3, NewPriceIsInt, GreaterAllowed
  <2>4. CASE PostMedian /\ ~ Stale
    <3>1. NewPrice = Larger(sale.median - Cycles * config.postMedianReduction, LowerBound)
      BY <1>5, <2>4 DEF NewPrice, Reduces
    <3>2. LowerBound # 0 /\ config.postMedianReductionFrequency # 0
      BY <2>4 DEF Unpriced
    <3>5. LowerBound \in Int /\ LowerBound \in Bounds
      BY <1>1, <1>2, <2>1, <2>4, <3>2 DEF LowerBound, Bounds, PostMedian
    <3>3. Cycles \in Int
      BY <1>1, <1>2, <3>2 DEF Cycles
    <3>4. NewPrice >= LowerBound
      BY <1>1, <1>2, <3>1, <3>3, <3>5 DEF Larger
    <3> QED
      BY <3>5, <3>4, NewPriceIsInt, GreaterAllowed
  <2>5. CASE ~ Stale /\ ~ PostMedian
    <3>1. NewPrice = Larger(sale.price - config.reduction, sale.median)
      BY <1>5, <2>5 DEF NewPrice, Reduces
    <3>2. NewPrice >= sale.median
      BY <1>1, <1>2, <3>1 DEF Larger
    <3> QED
      BY <2>2, <3>2, NewPriceIsInt, GreaterAllowed
  <2> QED
    BY <2>3, <2>4, <2>5
<1> QED
  BY <1>2, <1>3, <1>4, <1>5 DEF Reduces, SaleUpdateType

-----------------------------------------------------------------------------
(* q has entries of the queue, and t.                                        *)
From(q, t) == \A i \in 1 .. Len(q) : q[i] = t \/ \E j \in 1 .. Len(tasks) : q[i] = tasks[j]

(* What becomes of the queue when an entry is added, has ended, or is        *)
(* replaced by another.                                                      *)
LEMMA QueueChanges ==
  ASSUME tasks \in Seq(Task), NEW t \in Task
  PROVE  /\ Append(tasks, t) \in Seq(Task) /\ From(Append(tasks, t), t)
         /\ tasks # <<>> => Append(tasks, t) # <<>> /\ Append(tasks, t)[1] = tasks[1]
         /\ tasks # <<>> => /\ Tail(tasks) \in Seq(Task) /\ From(Tail(tasks), t)
                            /\ Append(Tail(tasks), t) \in Seq(Task) /\ From(Append(Tail(tasks), t), t)
<1>1. Append(tasks, t) \in Seq(Task) /\ From(Append(tasks, t), t)
  BY DEF From
<1>2. tasks # <<>> => Append(tasks, t) # <<>> /\ Append(tasks, t)[1] = tasks[1]
  OBVIOUS
<1>3. ASSUME tasks # <<>>
      PROVE  /\ Tail(tasks) \in Seq(Task) /\ From(Tail(tasks), t)
             /\ Append(Tail(tasks), t) \in Seq(Task) /\ From(Append(Tail(tasks), t), t)
  <2>1. Tail(tasks) \in Seq(Task) /\ Len(Tail(tasks)) = Len(tasks) - 1 /\ Len(tasks) \in Nat
    BY <1>3
  <2>2. \A i \in 1 .. Len(Tail(tasks)) : i + 1 \in 1 .. Len(tasks) /\ Tail(tasks)[i] = tasks[i + 1]
    BY <1>3, <2>1
  <2>3. Append(Tail(tasks), t) \in Seq(Task)
    BY <2>1
  <2>4. \A i \in 1 .. Len(Append(Tail(tasks), t)) :
          Append(Tail(tasks), t)[i] = t \/ (i \in 1 .. Len(Tail(tasks)) /\ Append(Tail(tasks), t)[i] = Tail(tasks)[i])
    BY <2>1
  <2> QED
    BY <2>1, <2>2, <2>3, <2>4 DEF From
<1> QED
  BY <1>1, <1>2, <1>3

(* The tasks there are.                                                      *)
LEMMA Tasks ==
  /\ \A kind \in {"RefreshCollection", "RefreshSales", "LinkSales", "AdjustSales"} :
       Of(kind) \in Task /\ Of(kind).kind = kind
  /\ \A force \in BOOLEAN : Refresh(force) \in Task /\ Refresh(force).kind = "RefreshRelease"
  /\ Resync \in Task /\ Resync.kind = "RefreshSales"
  /\ \A price \in Int : Update(price) \in Task /\ Update(price).price = price
  /\ \A t \in Task : t.price \in Int
BY DEF Of, Refresh, Resync, Update, Task, TaskKind

(* What ValidateUser adds are no price changes.                              *)
LEMMA InTurnTasks ==
  ASSUME tasks \in Seq(Task)
  PROVE  /\ tasks \o InTurn \in Seq(Task)
         /\ tasks # <<>> => tasks \o InTurn # <<>> /\ (tasks \o InTurn)[1] = tasks[1]
         /\ \A i \in 1 .. Len(tasks \o InTurn) :
              \/ (tasks \o InTurn)[i].kind # "UpdateSale"
              \/ \E j \in 1 .. Len(tasks) : (tasks \o InTurn)[i] = tasks[j]
<1> DEFINE Asked == {Of("RefreshCollection"), Of("RefreshSales"), Of("AdjustSales")}
<1>1. Asked \subseteq Task /\ \A t \in Asked : t.kind # "UpdateSale"
  BY Tasks
<1>2. InTurn \in Seq(Asked)
  <2>1. Turn("RefreshCollection") \in Seq(Asked) /\ Turn("RefreshSales") \in Seq(Asked) /\ Turn("AdjustSales") \in Seq(Asked)
    <3>1. \A t \in Asked : <<t>> \in Seq(Asked) /\ <<>> \in Seq(Asked)
      OBVIOUS
    <3> QED
      BY <3>1 DEF Turn
  <2> HIDE DEF Asked
  <2> QED
    BY <2>1 DEF InTurn
<1> HIDE DEF Asked
<1>3. InTurn \in Seq(Task)
  BY <1>1, <1>2
<1>4. \A i \in 1 .. Len(InTurn) : InTurn[i].kind # "UpdateSale"
  BY <1>1, <1>2
<1>5. /\ tasks \o InTurn \in Seq(Task) /\ Len(tasks \o InTurn) = Len(tasks) + Len(InTurn)
      /\ \A i \in 1 .. Len(tasks) + Len(InTurn) :
           (tasks \o InTurn)[i] = IF i <= Len(tasks) THEN tasks[i] ELSE InTurn[i - Len(tasks)]
  BY <1>3
<1>6. Len(tasks) \in Nat /\ Len(InTurn) \in Nat /\ (tasks # <<>> => Len(tasks) > 0)
  BY <1>3
<1>7. tasks # <<>> => tasks \o InTurn # <<>> /\ (tasks \o InTurn)[1] = tasks[1]
  BY <1>5, <1>6
<1>8. ASSUME NEW i \in 1 .. Len(tasks \o InTurn)
      PROVE  \/ (tasks \o InTurn)[i].kind # "UpdateSale"
             \/ \E j \in 1 .. Len(tasks) : (tasks \o InTurn)[i] = tasks[j]
  <2>1. CASE i <= Len(tasks)
    BY <1>5, <1>6, <1>8, <2>1
  <2>2. CASE ~(i <= Len(tasks))
    <3>1. i - Len(tasks) \in 1 .. Len(InTurn) /\ (tasks \o InTurn)[i] = InTurn[i - Len(tasks)]
      BY <1>5, <1>6, <1>8, <2>2
    <3> QED
      BY <1>4, <3>1
  <2> QED
    BY <2>1, <2>2
<1> QED
  BY <1>5, <1>7, <1>8
-----------------------------------------------------------------------------
(* The first entry of the queue is being executed.                           *)
Executing ==
  /\ job # NoJob => First("RefreshRelease") /\ request["worker"] = NoRequest
  /\ request["worker"] # NoRequest => First("RefreshCollection")

(* The invariants hold at the start.                                        *)
LEMMA InitInv ==
  ASSUME MarketInit
  PROVE  MarketTypes /\ FloorInv
<1>0. PICK complete \in BOOLEAN :
        sale = [state |-> "for sale", complete |-> complete, price |-> StartPrice, median |-> 0, low |-> 0,
                listed |-> 0, updated |-> 0, atMedian |-> Never, atLow |-> Never]
  BY DEF MarketInit
<1>1. /\ sale.price = StartPrice /\ sale.median = 0 /\ record.median = 0 /\ job = NoJob /\ tasks = <<>> /\ offer = StartPrice
      /\ request["worker"] = NoRequest
  BY <1>0 DEF MarketInit, Caller
<1>2. FloorInv
  <2>1. StartPrice >= StartPrice
    BY ConstantsAssumption
  <2> QED
    BY <1>1, <2>1 DEF FloorInv, PricesRead, Prices, Offers, Allowed, NoJob
<1>3. job \in Job /\ request \in [Caller -> Request]
  BY DEF MarketInit, Job, Stats, NoJob, Request, NoRequest
<1>4. MarketTypeOK
  <2>1. sale \in SaleInfo /\ record \in [median : Nat, low : Nat, age : Clock] /\ offer \in Nat \ {0}
    <3>1. sale \in SaleInfo
      BY <1>0, ConstantsAssumption DEF SaleInfo, SaleStatus
    <3>2. record = [median |-> 0, low |-> 0, age |-> 0] /\ offer = StartPrice
      BY DEF MarketInit
    <3>3. 0 \in Clock
      BY ConstantsAssumption DEF Clock
    <3> QED
      BY <3>1, <3>2, <3>3, ConstantsAssumption
  <2>2. \A c \in Caller : request[c].stage = "none"
    BY DEF MarketInit, NoRequest
  <2>3. moves \in 0 .. MaxMove[config] /\ checked \in 0 .. 1 /\ synced \in 0 .. 1 /\ config \in Configs
    <3>1. config \in Configs /\ moves = 0 /\ checked = 1 /\ synced = 1
      BY DEF MarketInit
    <3>2. MaxMove[config] \in Nat
      BY <3>1, ConstantsAssumption
    <3> QED
      BY <3>1, <3>2
  <2>4. listing \in Listing
    BY DEF MarketInit, Listing, SaleStatus, Grade
  <2>5. market \in Markets /\ marker = "none"
    BY DEF MarketInit
  <2> QED
    BY <1>1, <2>1, <2>2, <2>3, <2>4, <2>5 DEF MarketTypeOK
<1> QED
  BY <1>2, <1>3, <1>4 DEF MarketTypes

(* The requests of the server and of the worker keep the types.              *)
LEMMA RequestTypes ==
  ASSUME MarketTypes, \/ \E force \in BOOLEAN : Ask(force)
                  \/ \E c \in Caller : SetRefreshMarker(c) \/ AcceptRequest(c) \/ Refuse(c)
  PROVE  MarketTypes'
<1>1. /\ tasks \in Seq(Task) /\ request \in [Caller -> Request] /\ job \in Job /\ Executing
      /\ moves \in 0 .. MaxMove[config]
  BY DEF MarketTypes, MarketTypeOK, Executing
<1>2. /\ NoRequest \in Request /\ \A force \in BOOLEAN : [stage |-> "validated", force |-> force] \in Request
      /\ \A r \in Request : [r EXCEPT !.stage = "marked"] \in Request
      /\ Caller = {"server", "worker"}
  BY DEF Request, NoRequest, Caller
<1>3. /\ request' \in [Caller -> Request] /\ moves' \in 0 .. MaxMove[config] /\ marker' \in {"none", "fresh", "old"}
      /\ checked' \in 0 .. 1
  <2>1. ASSUME NEW force \in BOOLEAN, Ask(force) PROVE request' \in [Caller -> Request]
    BY <1>1, <1>2, <2>1 DEF Ask
  <2>2. ASSUME NEW c \in Caller, SetRefreshMarker(c) PROVE request' \in [Caller -> Request]
    BY <1>1, <1>2, <2>2 DEF SetRefreshMarker
  <2>3. ASSUME NEW c \in Caller, AcceptRequest(c) \/ Refuse(c) PROVE request' \in [Caller -> Request]
    BY <1>1, <1>2, <2>3 DEF AcceptRequest, Refuse
  <2>4. marker' \in {"none", "fresh", "old"} /\ checked' \in 0 .. 1
    <3>1. marker \in {"none", "fresh", "old"} /\ checked \in 0 .. 1
      BY DEF MarketTypes, MarketTypeOK
    <3>2. marker' = marker \/ marker' = "fresh"
      BY DEF Ask, SetRefreshMarker, AcceptRequest, Refuse
    <3>3. checked' = checked \/ checked' = 0
      BY DEF Ask, SetRefreshMarker, AcceptRequest, Refuse
    <3> QED
      BY <3>1, <3>2, <3>3
  <2>5. Move \/ moves' = moves
    BY DEF Ask, SetRefreshMarker, AcceptRequest, Refuse
  <2>6. moves' \in 0 .. MaxMove[config]
    BY <1>1, <2>5, ConfigFields DEF Move
  <2> QED
    BY <2>1, <2>2, <2>3, <2>4, <2>6
<1>4. \A c \in Caller : request'[c].stage \in {"none", "validated", "marked"}
  BY <1>3 DEF Request
<1>5. UNCHANGED <<config, market, listing, record, sale, offer, job, synced>>
  BY DEF Ask, SetRefreshMarker, AcceptRequest, Refuse
<1>6. tasks' \in Seq(Task) /\ Executing'
  <2>1. ASSUME NEW force \in BOOLEAN, Ask(force) PROVE tasks' \in Seq(Task) /\ Executing'
    BY <1>1, <1>2, <2>1 DEF Ask, Executing, First
  <2>2. ASSUME NEW c \in Caller, SetRefreshMarker(c) PROVE tasks' \in Seq(Task) /\ Executing'
    <3>1. c = "worker" => request["worker"] # NoRequest
      BY <2>2 DEF SetRefreshMarker, NoRequest
    <3>2. UNCHANGED <<tasks, job>> /\ (c # "worker" => request'["worker"] = request["worker"])
      BY <1>1, <1>2, <2>2 DEF SetRefreshMarker
    <3> QED
      BY <1>1, <1>2, <3>1, <3>2 DEF Executing, First
  <2>3. ASSUME AcceptRequest("server") PROVE tasks' \in Seq(Task) /\ Executing'
    <3>1. request["server"].force \in BOOLEAN
      BY <1>1, <1>2 DEF Request
    <3>2. /\ tasks' = Append(tasks, Refresh(request["server"].force)) /\ UNCHANGED job
          /\ request'["worker"] = request["worker"]
      BY <1>1, <1>2, <2>3 DEF AcceptRequest
    <3>3. tasks' \in Seq(Task) /\ (tasks # <<>> => tasks' # <<>> /\ tasks'[1] = tasks[1])
      BY <1>1, <3>1, <3>2, Tasks, QueueChanges
    <3> QED
      BY <1>1, <3>2, <3>3 DEF Executing, First
  <2>4. ASSUME Refuse("server") PROVE tasks' \in Seq(Task) /\ Executing'
    BY <1>1, <1>2, <2>4 DEF Refuse, Executing, First
  <2>5. ASSUME AcceptRequest("worker") \/ Refuse("worker") PROVE tasks' \in Seq(Task) /\ Executing'
    <3>1. request["worker"] # NoRequest /\ request'["worker"] = NoRequest /\ UNCHANGED job
      <4>1. request["worker"].stage = "marked" /\ request' = [request EXCEPT !["worker"] = NoRequest] /\ UNCHANGED job
        BY <2>5 DEF AcceptRequest, Refuse
      <4>2. NoRequest.stage = "none"
        BY DEF NoRequest
      <4> QED
        BY <1>1, <1>2, <4>1, <4>2
    <3>2. tasks # <<>> /\ job = NoJob
      BY <1>1, <3>1 DEF Executing, First
    <3>3. tasks' \in {Tail(tasks), Append(Tail(tasks), Refresh(FALSE))}
      BY <2>5 DEF AcceptRequest, Refuse
    <3>4. tasks' \in Seq(Task)
      BY <1>1, <3>2, <3>3, Tasks, QueueChanges
    <3> QED
      BY <3>1, <3>2, <3>4 DEF Executing
  <2> QED
    BY <1>2, <2>1, <2>2, <2>3, <2>4, <2>5
<1> QED
  BY <1>1, <1>3, <1>4, <1>5, <1>6 DEF MarketTypes, MarketTypeOK, Executing

(* What the first entry of the queue does keeps the types.                   *)
LEMMA WorkTypes ==
  ASSUME MarketTypes,
         \/ DoRefreshCollection \/ BeginRefresh \/ SaveRefresh \/ FailRefresh
         \/ DeleteRefreshMarker \/ KeepRefreshMarker \/ DoRefreshSales \/ DoLinkSales
  PROVE  MarketTypes'
<1>1. /\ tasks \in Seq(Task) /\ request \in [Caller -> Request] /\ job \in Job /\ Executing
      /\ moves \in 0 .. MaxMove[config] /\ market \in Stats /\ sale \in SaleInfo
      /\ record \in [median : Nat, low : Nat, age : Clock] /\ offer \in Nat \ {0}
  BY ConfigFields DEF MarketTypes, MarketTypeOK, Executing
<1>2. /\ NoJob \in Job /\ 0 \in Clock /\ NoJob.stage = "none"
      /\ \A failed \in BOOLEAN : [NoJob EXCEPT !.stage = "unmark", !.failed = failed] \in Job
      /\ [NoJob EXCEPT !.stage = "unmark"] \in Job
      /\ \A stats \in Stats : [NoJob EXCEPT !.stage = "save", !.stats = stats] \in Job
  <2>1. NoJob \in Job /\ NoJob.stage = "none" /\ 0 \in Clock
    BY ConstantsAssumption DEF Job, NoJob, Stats, Clock
  <2>2. ASSUME NEW failed \in BOOLEAN PROVE [NoJob EXCEPT !.stage = "unmark", !.failed = failed] \in Job
    BY <2>1 DEF Job
  <2>3. [NoJob EXCEPT !.stage = "unmark"] \in Job
    BY <2>1 DEF Job
  <2>4. ASSUME NEW stats \in Stats PROVE [NoJob EXCEPT !.stage = "save", !.stats = stats] \in Job
    BY <2>1 DEF Job
  <2> QED
    BY <2>1, <2>2, <2>3, <2>4
<1>3. CASE DoRefreshCollection
  <2>1. tasks # <<>> /\ First("RefreshCollection") /\ request["worker"] = NoRequest /\ UNCHANGED job
    BY <1>3 DEF DoRefreshCollection, First
  <2>2. job = NoJob
    BY <1>1, <2>1 DEF Executing, First
  <2>3. CASE tasks' = Tail(tasks) /\ checked' = 0 /\ UNCHANGED request
    BY <1>1, <1>3, <2>1, <2>2, <2>3, Tasks, QueueChanges DEF DoRefreshCollection, MarketTypes, MarketTypeOK, Executing
  <2>4. CASE request' = [request EXCEPT !["worker"] = [stage |-> "validated", force |-> FALSE]] /\ UNCHANGED <<tasks, checked>>
    <3>1. request' \in [Caller -> Request]
      BY <1>1, <2>4 DEF Request
    <3>2. \A c \in Caller : request'[c].stage \in {"none", "validated", "marked"}
      BY <3>1 DEF Request
    <3>3. UNCHANGED <<config, market, listing, record, sale, offer, marker, job, synced, moves>>
      BY <1>3 DEF DoRefreshCollection
    <3> QED
      BY <1>1, <2>1, <2>2, <2>4, <3>1, <3>2, <3>3 DEF MarketTypes, MarketTypeOK, First
  <2> QED
    BY <1>3, <2>3, <2>4 DEF DoRefreshCollection
<1>4. CASE BeginRefresh
  <2>1. job' \in Job /\ First("RefreshRelease") /\ request["worker"] = NoRequest
    BY <1>1, <1>2, <1>4 DEF BeginRefresh, Executing, First
  <2> QED
    BY <1>4, <2>1 DEF BeginRefresh, MarketTypes, MarketTypeOK, First
<1>5. CASE SaveRefresh
  <2>1. job' \in Job /\ record' \in [median : Nat, low : Nat, age : Clock]
    BY <1>1, <1>2, <1>5 DEF SaveRefresh, Job, Stats
  <2>2. First("RefreshRelease") /\ request["worker"] = NoRequest
    BY <1>1, <1>2, <1>5 DEF SaveRefresh, Executing
  <2> QED
    BY <1>5, <2>1, <2>2 DEF SaveRefresh, MarketTypes, MarketTypeOK, First
<1>6. CASE FailRefresh
  <2>1. job' \in Job /\ moves' \in 0 .. MaxMove[config]
    <3>1. job' \in Job
      BY <1>2, <1>6 DEF FailRefresh
    <3> QED
      BY <1>1, <1>6, <3>1, ConfigFields DEF FailRefresh, Move
  <2>2. First("RefreshRelease") /\ request["worker"] = NoRequest
    BY <1>1, <1>2, <1>6 DEF FailRefresh, Executing
  <2> QED
    BY <1>6, <2>1, <2>2 DEF FailRefresh, MarketTypes, MarketTypeOK, First
<1>7. CASE DeleteRefreshMarker \/ KeepRefreshMarker
  <2>1. job.stage = "unmark" /\ job' = NoJob /\ (tasks' = Tail(tasks) \/ tasks' = tasks)
    BY <1>7 DEF DeleteRefreshMarker, KeepRefreshMarker
  <2>2. tasks # <<>> /\ request["worker"] = NoRequest
    BY <1>1, <1>2, <2>1 DEF Executing, First
  <2>3. tasks' \in Seq(Task)
    BY <1>1, <2>1, <2>2, Tasks, QueueChanges
  <2>4. moves' = moves \/ Move
    BY <1>7 DEF DeleteRefreshMarker, KeepRefreshMarker
  <2>5. moves' \in 0 .. MaxMove[config]
    BY <1>1, <2>4, ConfigFields DEF Move
  <2>6. UNCHANGED <<config, market, listing, record, sale, offer, request, checked, synced>> /\ (marker' = "none" \/ marker' = marker)
    BY <1>7 DEF DeleteRefreshMarker, KeepRefreshMarker
  <2> QED
    BY <1>2, <2>1, <2>2, <2>3, <2>5, <2>6 DEF MarketTypes, MarketTypeOK
<1>8. CASE DoRefreshSales \/ DoLinkSales
  <2>1. tasks # <<>> /\ job = NoJob /\ request["worker"] = NoRequest /\ UNCHANGED <<job, request>>
    BY <1>1, <1>8 DEF DoRefreshSales, DoLinkSales, Executing, First
  <2>2. tasks' \in {Tail(tasks), Append(Tail(tasks), Of("LinkSales"))}
    BY <1>8 DEF DoRefreshSales, DoLinkSales
  <2>3. tasks' \in Seq(Task)
    BY <1>1, <2>1, <2>2, Tasks, QueueChanges
  <2>4. sale' \in SaleInfo
    <3>1. listing.state \in SaleStatus
      BY DEF MarketTypes, MarketTypeOK, Listing
    <3>2. ASSUME NEW b \in BOOLEAN PROVE [sale EXCEPT !.state = listing.state, !.price = offer, !.complete = b] \in SaleInfo
      BY <1>1, <3>1 DEF SaleInfo
    <3>3. ASSUME NEW b \in BOOLEAN, NEW m \in Nat, NEW l \in Nat
          PROVE  [sale EXCEPT !.complete = b, !.median = m, !.low = l] \in SaleInfo
      BY <1>1 DEF SaleInfo
    <3>4. SyncedSale \in SaleInfo
      BY <1>1, <3>2 DEF SyncedSale, SaleInfo
    <3>5. HardLink \in SaleInfo
      BY <1>1, <3>3 DEF HardLink, SaleInfo
    <3> QED
      BY <1>1, <1>8, <3>4, <3>5 DEF DoRefreshSales, DoLinkSales
  <2>5. UNCHANGED <<config, market, listing, record, offer, marker, checked, moves>> /\ (synced' = 0 \/ synced' = synced)
    BY <1>8 DEF DoRefreshSales, DoLinkSales
  <2> QED
    BY <2>1, <2>3, <2>4, <2>5 DEF MarketTypes, MarketTypeOK
<1> QED
  BY <1>3, <1>4, <1>5, <1>6, <1>7, <1>8

(* A price change keeps the types, and so does its failure.                  *)
LEMMA PriceTypes ==
  ASSUME MarketTypes, DoAdjustSales \/ FailAdjustSales \/ DoUpdateSale \/ FailTask \/ StopInUpdateSale \/ Stop
  PROVE  MarketTypes'
<1>1. /\ tasks \in Seq(Task) /\ request \in [Caller -> Request] /\ job \in Job /\ Executing
      /\ moves \in 0 .. MaxMove[config] /\ sale \in SaleInfo /\ offer \in Nat \ {0}
  BY DEF MarketTypes, MarketTypeOK, Executing
<1>2. ASSUME First("UpdateSale") \/ First("AdjustSales") \/ First("RefreshSales") \/ First("LinkSales")
      PROVE  tasks # <<>> /\ job = NoJob /\ request["worker"] = NoRequest
  BY <1>1, <1>2 DEF Executing, First
<1>3. CASE DoAdjustSales \/ FailAdjustSales
  <2>1. tasks # <<>> /\ job = NoJob /\ request["worker"] = NoRequest
    BY <1>2, <1>3 DEF DoAdjustSales, FailAdjustSales
  <2>2. \/ tasks' \in {Tail(tasks), Append(Tail(tasks), Resync)}
        \/ ~ Unpriced /\ tasks' = Append(Tail(tasks), Update(NewPrice))
    BY <1>3 DEF DoAdjustSales, FailAdjustSales, Adjusts
  <2>3. tasks' \in Seq(Task)
    BY <1>1, <2>1, <2>2, Tasks, QueueChanges, NewPriceIsInt
  <2>4. sale' \in SaleInfo
    <3>1. ASSUME NEW b \in BOOLEAN, NEW c \in BOOLEAN
          PROVE  [sale EXCEPT !.atMedian = IF b THEN 0 ELSE @, !.atLow = IF c THEN 0 ELSE @] \in SaleInfo
      BY <1>1 DEF SaleInfo
    <3>2. ReachedTimes \in SaleInfo
      BY <3>1 DEF ReachedTimes
    <3> QED
      BY <1>1, <1>3, <3>2 DEF DoAdjustSales, FailAdjustSales
  <2>5. /\ UNCHANGED <<config, market, listing, record, offer, marker, request, job, checked, synced>>
        /\ moves' = moves \/ Move
    BY <1>3 DEF DoAdjustSales, FailAdjustSales
  <2>6. moves' \in 0 .. MaxMove[config]
    BY <1>1, <2>5, ConfigFields DEF Move
  <2> QED
    BY <2>1, <2>3, <2>4, <2>5, <2>6 DEF MarketTypes, MarketTypeOK
<1>4. CASE DoUpdateSale \/ FailTask
  <2>1. tasks # <<>> /\ job = NoJob /\ request["worker"] = NoRequest /\ UNCHANGED <<job, request>>
    BY <1>2, <1>4 DEF DoUpdateSale, FailTask
  <2>7. tasks[1] \in Task
    BY <1>1, <2>1
  <2>2. tasks' \in Seq(Task)
    BY <1>1, <1>4, <2>1, <2>7, QueueChanges DEF DoUpdateSale, FailTask
  <2>3. sale' \in SaleInfo /\ offer' \in Nat \ {0}
    <3>2. tasks[1].price \in Int
      BY <2>7, Tasks
    <3> QED
      <4>1. ASSUME NEW p \in Nat \ {0}
            PROVE  [sale EXCEPT !.price = p, !.updated = 0] \in SaleInfo
        BY <1>1 DEF SaleInfo
      <4>2. Taken(tasks[1].price) => tasks[1].price \in Nat \ {0}
        BY <3>2 DEF Taken
      <4>3. [sale EXCEPT !.updated = 0] \in SaleInfo /\ [sale EXCEPT !.state = "gone"] \in SaleInfo
        BY <1>1 DEF SaleInfo, SaleStatus
      <4> QED
        BY <1>1, <1>4, <4>1, <4>2, <4>3 DEF DoUpdateSale, FailTask
  <2>4. UNCHANGED <<config, market, listing, record, marker, checked, synced>> /\ (moves' = moves \/ Move)
    BY <1>4 DEF DoUpdateSale, FailTask
  <2>5. moves' \in 0 .. MaxMove[config]
    BY <1>1, <2>4, ConfigFields DEF Move
  <2> QED
    BY <2>1, <2>2, <2>3, <2>4, <2>5 DEF MarketTypes, MarketTypeOK
<1>5. CASE StopInUpdateSale \/ Stop
  <2>1. request' = [c \in Caller |-> NoRequest] /\ NoRequest \in Request /\ "worker" \in Caller
    BY <1>5 DEF StopInUpdateSale, Stop, Request, NoRequest, Caller
  <2>2. job' = NoJob /\ NoJob \in Job
    BY <1>2, <1>5 DEF StopInUpdateSale, Stop, Job, NoJob, Stats
  <2>3. offer' \in Nat \ {0}
    <3>1. ASSUME StopInUpdateSale PROVE tasks[1] \in Task
      <4>1. tasks # <<>>
        BY <3>1 DEF StopInUpdateSale, First
      <4> QED
        BY <1>1, <4>1
    <3>2. ASSUME StopInUpdateSale PROVE tasks[1].price \in Int
      BY <3>1, <3>2, Tasks
    <3> QED
      <4>1. CASE StopInUpdateSale
        <5>1. tasks[1].price \in Int
          BY <3>2, <4>1
        <5>2. tasks[1].price > 0 /\ offer' = tasks[1].price
          BY <4>1 DEF StopInUpdateSale, Taken
        <5> QED
          BY <5>1, <5>2
      <4>2. CASE Stop
        BY <1>1, <4>2 DEF Stop
      <4> QED
        BY <1>5, <4>1, <4>2
  <2>4. UNCHANGED <<config, market, listing, record, sale, marker, tasks, checked, synced>> /\ Move
    BY <1>5 DEF StopInUpdateSale, Stop
  <2>5. moves' \in 0 .. MaxMove[config]
    BY <1>1, <2>4, ConfigFields DEF Move
  <2>6. \A c \in Caller : request'[c].stage = "none"
    BY <2>1 DEF NoRequest
  <2> QED
    BY <2>1, <2>2, <2>3, <2>4, <2>5, <2>6 DEF MarketTypes, MarketTypeOK
<1> QED
  BY <1>3, <1>4, <1>5

(* The validator, time, the market and the shop keep the types.              *)
LEMMA WorldTypes ==
  ASSUME MarketTypes,
         \/ ValidateUser \/ MarketTick \/ \E stats \in Markets : ChangeMarket(stats)
         \/ \E state \in SaleStatus : Leave(state)
         \/ \E where \in Grade : GiveGrade(where)
  PROVE  MarketTypes'
<1>1. UNCHANGED <<config, offer, request, job>>
  BY DEF ValidateUser, MarketTick, ChangeMarket, Leave, GiveGrade
<1>2. tasks' \in Seq(Task) /\ (tasks # <<>> => tasks' # <<>> /\ tasks'[1] = tasks[1])
  BY InTurnTasks DEF ValidateUser, MarketTick, ChangeMarket, Leave, GiveGrade, MarketTypes, MarketTypeOK
<1>3. market' \in Markets /\ moves' \in 0 .. MaxMove[config] /\ marker' \in {"none", "fresh", "old"}
      /\ checked' \in 0 .. 1 /\ synced' \in 0 .. 1 /\ listing' \in Listing
  <2>1. CASE ValidateUser
    BY <2>1 DEF ValidateUser, MarketTypes, MarketTypeOK
  <2>2. CASE MarketTick
    BY <2>2 DEF MarketTick, MarketTypes, MarketTypeOK
  <2>3. ASSUME NEW stats \in Markets, ChangeMarket(stats)
        PROVE  market' \in Markets /\ UNCHANGED <<marker, checked, synced, listing>> /\ Move
    BY <2>3 DEF ChangeMarket, MarketTypes, MarketTypeOK
  <2>4. ASSUME NEW state \in SaleStatus, Leave(state)
        PROVE  listing' \in Listing /\ UNCHANGED <<marker, checked, synced, market>> /\ Move
    BY <2>4 DEF Leave, Listing, MarketTypes, MarketTypeOK
  <2>5. ASSUME NEW where \in Grade, GiveGrade(where)
        PROVE  listing' \in Listing /\ UNCHANGED <<marker, checked, synced, market>> /\ Move
    BY <2>5 DEF GiveGrade, Listing, MarketTypes, MarketTypeOK
  <2>6. Move => moves' \in 0 .. MaxMove[config]
    BY ConfigFields DEF Move, MarketTypes, MarketTypeOK
  <2> QED
    BY <2>1, <2>2, <2>3, <2>4, <2>5, <2>6 DEF MarketTypes, MarketTypeOK
<1>4. record' \in [median : Nat, low : Nat, age : Clock]
  <2>1. \A n \in Clock : Later(n, MinRefreshFreq) \in Clock
    BY ConstantsAssumption DEF Later, Smaller, Clock, Never
  <2> QED
    BY <2>1 DEF ValidateUser, MarketTick, ChangeMarket, Leave, GiveGrade, MarketTypes, MarketTypeOK
<1>5. sale' \in SaleInfo
  <2>1. \A n, most \in Nat : Later(n, most) \in Nat /\ Larger(n, most) \in Nat
    BY DEF Later, Smaller, Larger, Never
  <2>2. \A n \in Nat \cup {Never}, most \in Nat : Later(n, most) \in Nat \cup {Never}
    BY <2>1 DEF Later
  <2>3. /\ config.timeToMedian \in Nat /\ config.updateFrequency \in Nat /\ config.timeToStale \in Nat
        /\ config.postLowReductionFrequency \in Nat /\ MaxClock \in Nat
    BY ConfigFields, ConstantsAssumption DEF SaleConfig
  <2>4. CASE MarketTick
    BY <2>1, <2>2, <2>3, <2>4 DEF MarketTick, MarketTypes, MarketTypeOK, SaleInfo
  <2> QED
    BY <2>4 DEF ValidateUser, ChangeMarket, Leave, GiveGrade, MarketTypes, MarketTypeOK
<1> QED
  BY <1>1, <1>2, <1>3, <1>4, <1>5 DEF MarketTypes, MarketTypeOK, First

(* Every step keeps the types.                                               *)
LEMMA MarketTypeStep ==
  ASSUME MarketTypes, [MarketNext]_marketVars
  PROVE  MarketTypes'
<1>1. CASE UNCHANGED marketVars
  BY <1>1 DEF marketVars, MarketTypes, MarketTypeOK, First
<1>2. CASE MarketNext
  BY <1>2, RequestTypes, WorkTypes, PriceTypes, WorldTypes DEF MarketNext, Enqueue, Work, Fault
<1> QED
  BY <1>1, <1>2

(* Every variable of the market keeps its type, for every configuration      *)
(* (background/sales.go, background/refreshrelease.go).                      *)
THEOREM MarketTypeCorrect == MarketSpec => []MarketTypeOK
<1>1. MarketInit => MarketTypes
  BY InitInv
<1>2. MarketTypes => MarketTypeOK
  BY DEF MarketTypes
<1> QED
  BY <1>1, <1>2, MarketTypeStep, PTL DEF MarketSpec

-----------------------------------------------------------------------------
(* What is read of the market stays together on its way to the sale.         *)
LEMMA ReadStep ==
  ASSUME MarketTypes, PricesRead, MarketNext
  PROVE  PricesRead'
<1>1. /\ job \in Job /\ sale \in SaleInfo /\ record \in [median : Nat, low : Nat, age : Clock]
      /\ market \in Markets
  BY DEF MarketTypes, MarketTypeOK
<1>2. job'.stage = "save" => job'.stats \in Markets
  <2>1. CASE BeginRefresh
    <3>1. job' = [NoJob EXCEPT !.stage = "unmark"] \/ job' = [NoJob EXCEPT !.stage = "save", !.stats = market]
      BY <2>1 DEF BeginRefresh
    <3>2. NoJob.stage = "none" /\ [NoJob EXCEPT !.stage = "unmark"].stage = "unmark"
          /\ [NoJob EXCEPT !.stage = "save", !.stats = market].stats = market
      BY DEF NoJob
    <3> QED
      BY <1>1, <3>1, <3>2
  <2>2. CASE SaveRefresh \/ FailRefresh
    BY <2>2 DEF SaveRefresh, FailRefresh, NoJob
  <2>3. CASE job' = NoJob \/ UNCHANGED job
    BY <2>3 DEF PricesRead, NoJob
  <2> QED
    BY <2>1, <2>2, <2>3
    DEF MarketNext, Ask, Enqueue, SetRefreshMarker, AcceptRequest, Work, DoRefreshCollection, DeleteRefreshMarker, DoRefreshSales,
        DoLinkSales, DoAdjustSales, DoUpdateSale, ValidateUser, MarketTick, Fault, Refuse, KeepRefreshMarker,
        StopInUpdateSale, FailAdjustSales, FailTask, Stop, ChangeMarket, Leave, GiveGrade
<1>3. record'.median # 0 => \E m \in Markets : record'.median = m.median /\ record'.low = m.low
  <2>1. CASE SaveRefresh
    BY <2>1 DEF SaveRefresh, PricesRead
  <2>2. CASE record'.median = record.median /\ record'.low = record.low
    BY <2>2 DEF PricesRead
  <2>3. CASE MarketTick
    BY <1>1, <2>2, <2>3 DEF MarketTick
  <2> QED
    BY <2>1, <2>2, <2>3
    DEF MarketNext, Ask, Enqueue, SetRefreshMarker, AcceptRequest, Work, DoRefreshCollection, BeginRefresh, DeleteRefreshMarker,
        DoRefreshSales, DoLinkSales, DoAdjustSales, DoUpdateSale, ValidateUser, Fault, Refuse, FailRefresh,
        KeepRefreshMarker, StopInUpdateSale, FailAdjustSales, FailTask, Stop, ChangeMarket, Leave, GiveGrade
<1>4. sale'.median # 0 => \E m \in Markets : sale'.median = m.median /\ sale'.low = m.low
  <2>1. CASE DoLinkSales
    <3>1. \/ sale'.median = record.median /\ sale'.low = record.low
          \/ sale'.median = sale.median /\ sale'.low = sale.low
      BY <1>1, <2>1 DEF DoLinkSales, HardLink, SaleInfo
    <3> QED
      BY <3>1 DEF PricesRead
  <2>2. CASE sale'.median = sale.median /\ sale'.low = sale.low
    BY <2>2 DEF PricesRead
  <2>3. CASE DoRefreshSales \/ DoAdjustSales \/ FailAdjustSales \/ DoUpdateSale \/ MarketTick
    <3>1. sale'.median = sale.median /\ sale'.low = sale.low
      BY <1>1, <2>3 DEF DoRefreshSales, SyncedSale, DoAdjustSales, FailAdjustSales, ReachedTimes, DoUpdateSale, MarketTick, SaleInfo
    <3> QED
      BY <2>2, <3>1
  <2> QED
    BY <2>1, <2>2, <2>3
    DEF MarketNext, Ask, Enqueue, SetRefreshMarker, AcceptRequest, Work, DoRefreshCollection, BeginRefresh, SaveRefresh,
        DeleteRefreshMarker, ValidateUser, Fault, Refuse, FailRefresh, KeepRefreshMarker, StopInUpdateSale,
        FailTask, Stop, ChangeMarket, Leave, GiveGrade
<1> QED
  BY <1>2, <1>3, <1>4 DEF PricesRead

(* Every price on its way is allowed, whatever becomes of the queue.         *)
LEMMA OffersFrom ==
  ASSUME tasks \in Seq(Task), Offers(tasks), NEW t \in Task, NEW q, From(q, t),
         t.kind # "UpdateSale" \/ (t.price > 0 => Allowed(t.price))
  PROVE  Offers(q)
BY DEF Offers, From

(* Every step keeps the prices allowed.                                      *)
LEMMA PricesStep ==
  ASSUME MarketTypes, FloorInv, MarketNext
  PROVE  Prices'
<1>1. /\ tasks \in Seq(Task) /\ Executing /\ sale \in SaleInfo /\ request \in [Caller -> Request]
      /\ Caller = {"server", "worker"}
  BY DEF MarketTypes, MarketTypeOK, Executing, Caller
<1>2. UNCHANGED config
  BY DEF MarketNext, Ask, Enqueue, SetRefreshMarker, AcceptRequest, Work, DoRefreshCollection, BeginRefresh, SaveRefresh,
         DeleteRefreshMarker, DoRefreshSales, DoLinkSales, DoAdjustSales, DoUpdateSale, ValidateUser, MarketTick, Fault,
         Refuse, FailRefresh, KeepRefreshMarker, StopInUpdateSale, FailAdjustSales, FailTask, Stop, ChangeMarket, Leave, GiveGrade
<1> SUFFICES ASSUME config.timeToMedian = 0
             PROVE  Allowed(offer') /\ Allowed(sale'.price) /\ Offers(tasks')
  BY <1>2 DEF Prices, Offers, Allowed, Bounds
<1>3. Allowed(offer) /\ Allowed(sale.price) /\ Offers(tasks)
  BY DEF FloorInv, Prices
<1>4. ASSUME tasks # <<>>, NEW t \in Task, t.kind # "UpdateSale",
             tasks' \in {tasks, Tail(tasks), Append(Tail(tasks), t)}
      PROVE  Offers(tasks')
  BY <1>1, <1>3, <1>4, QueueChanges, OffersFrom
<1>5. \A kind \in {"RefreshCollection", "RefreshSales", "LinkSales", "AdjustSales"} :
        Of(kind) \in Task /\ Of(kind).kind # "UpdateSale"
  BY Tasks
<1>6. \A force \in BOOLEAN : Refresh(force) \in Task /\ Refresh(force).kind # "UpdateSale"
  BY Tasks
<1>7. CASE /\ UNCHANGED <<offer, tasks>> /\ sale'.price = sale.price
  BY <1>3, <1>7
<1>8. CASE MarketTick
  <2>1. sale'.price = sale.price
    BY <1>1, <1>8 DEF MarketTick, SaleInfo
  <2> QED
    BY <1>7, <1>8, <2>1 DEF MarketTick
<1>9. ASSUME NEW c \in Caller, AcceptRequest(c) \/ Refuse(c)
      PROVE  Allowed(offer') /\ Allowed(sale'.price) /\ Offers(tasks')
  <2>1. UNCHANGED <<offer, sale>>
    BY <1>9 DEF AcceptRequest, Refuse
  <2>2. CASE c = "worker"
    <3>1. request["worker"] # NoRequest
      <4>1. request["worker"].stage = "marked" /\ NoRequest.stage = "none"
        BY <1>9, <2>2 DEF AcceptRequest, Refuse, NoRequest
      <4> QED
        BY <4>1
    <3>2. tasks # <<>>
      BY <1>1, <3>1 DEF Executing, First
    <3>3. tasks' \in {Tail(tasks), Append(Tail(tasks), Refresh(FALSE))}
      BY <1>9, <2>2 DEF AcceptRequest, Refuse
    <3> QED
      BY <1>3, <1>4, <1>6, <2>1, <3>2, <3>3
  <2>3. CASE c = "server"
    <3>1. request["server"].force \in BOOLEAN
      BY <1>1 DEF Request
    <3>2. tasks' \in {tasks, Append(tasks, Refresh(request["server"].force))}
      BY <1>9, <2>3 DEF AcceptRequest, Refuse
    <3>3. Offers(tasks')
      BY <1>1, <1>3, <1>6, <3>1, <3>2, QueueChanges, OffersFrom
    <3> QED
      BY <1>3, <2>1, <3>3
  <2> QED
    BY <1>1, <2>2, <2>3
<1>10. CASE DoRefreshCollection \/ DeleteRefreshMarker \/ KeepRefreshMarker
  <2>1. tasks # <<>>
    <3>1. NoJob.stage = "none"
      BY DEF NoJob
    <3>2. DoRefreshCollection \/ job # NoJob
      BY <1>10, <3>1 DEF DeleteRefreshMarker, KeepRefreshMarker
    <3> QED
      BY <1>1, <3>2 DEF DoRefreshCollection, Executing, First
  <2>2. tasks' \in {tasks, Tail(tasks)} /\ UNCHANGED <<offer, sale>>
    BY <1>10 DEF DoRefreshCollection, DeleteRefreshMarker, KeepRefreshMarker
  <2> QED
    BY <1>3, <1>4, <1>5, <2>1, <2>2
<1>11. CASE DoRefreshSales \/ DoLinkSales
  <2>1. tasks # <<>> /\ tasks' \in {Tail(tasks), Append(Tail(tasks), Of("LinkSales"))} /\ UNCHANGED offer
    BY <1>11 DEF DoRefreshSales, DoLinkSales, First
  <2>2. sale'.price = offer \/ sale'.price = sale.price
    BY <1>1, <1>11 DEF DoRefreshSales, SyncedSale, DoLinkSales, HardLink, SaleInfo
  <2> QED
    BY <1>3, <1>4, <1>5, <2>1, <2>2
<1>12. CASE DoAdjustSales \/ FailAdjustSales
  <2>1. tasks # <<>> /\ UNCHANGED offer
    BY <1>12 DEF DoAdjustSales, FailAdjustSales, First
  <2>2. sale'.price = sale.price
    BY <1>1, <1>12 DEF DoAdjustSales, FailAdjustSales, ReachedTimes, SaleInfo
  <2>3. CASE tasks' \in {Tail(tasks), Append(Tail(tasks), Resync)}
    BY <1>3, <1>4, <2>1, <2>2, <2>3, Tasks
  <2>4. CASE tasks' = Append(Tail(tasks), Update(NewPrice)) /\ ~ Unpriced
    <3>1. NewPrice > 0 => Allowed(NewPrice)
      BY <2>4, NewPriceAllowed
    <3>2. Update(NewPrice) \in Task /\ Update(NewPrice).price = NewPrice
      BY <2>4, NewPriceIsInt, Tasks
    <3>3. From(tasks', Update(NewPrice))
      BY <1>1, <2>1, <2>4, <3>2, QueueChanges
    <3> QED
      BY <1>1, <1>3, <2>1, <2>2, <3>1, <3>2, <3>3, OffersFrom
  <2> QED
    BY <1>12, <2>3, <2>4 DEF DoAdjustSales, FailAdjustSales, Adjusts
<1>13. CASE DoUpdateSale \/ StopInUpdateSale
  <2>1. tasks # <<>> /\ tasks' \in {tasks, Tail(tasks)} /\ tasks[1].kind = "UpdateSale"
    BY <1>13 DEF DoUpdateSale, StopInUpdateSale, First
  <2>2. Taken(tasks[1].price) => Allowed(tasks[1].price)
    <3>1. 1 \in 1 .. Len(tasks)
      BY <1>1, <2>1
    <3> QED
      BY <1>3, <2>1, <3>1 DEF Offers, Taken
  <2>3. /\ offer' = offer \/ (Taken(tasks[1].price) /\ offer' = tasks[1].price)
        /\ sale'.price = sale.price \/ (Taken(tasks[1].price) /\ sale'.price = tasks[1].price)
    BY <1>1, <1>13 DEF DoUpdateSale, StopInUpdateSale, SaleInfo
  <2> QED
    BY <1>3, <1>4, <1>5, <2>1, <2>2, <2>3
<1>15. CASE FailTask
  <2>1. tasks # <<>> /\ tasks' \in {Tail(tasks), Append(Tail(tasks), tasks[1])} /\ UNCHANGED <<offer, sale>>
    BY <1>15 DEF FailTask, First
  <2>2. 1 \in 1 .. Len(tasks) /\ tasks[1] \in Task
    BY <1>1, <2>1
  <2>3. tasks[1].kind # "UpdateSale" \/ (tasks[1].price > 0 => Allowed(tasks[1].price))
    BY <1>3, <2>2 DEF Offers
  <2>4. From(tasks', tasks[1])
    BY <1>1, <2>1, <2>2, QueueChanges
  <2> QED
    BY <1>1, <1>3, <2>1, <2>2, <2>3, <2>4, OffersFrom
<1>14. CASE ValidateUser
  <2>1. UNCHANGED <<offer, sale>> /\ tasks' = tasks \o InTurn
    BY <1>14 DEF ValidateUser
  <2>2. Offers(tasks')
    BY <1>1, <1>3, <2>1, InTurnTasks DEF Offers
  <2> QED
    BY <1>3, <2>1, <2>2
<1> QED
  BY <1>7, <1>8, <1>9, <1>10, <1>11, <1>12, <1>13, <1>14, <1>15
  DEF MarketNext, Ask, Enqueue, SetRefreshMarker, Work, BeginRefresh, SaveRefresh, Fault, FailRefresh, Stop, ChangeMarket,
      Leave, GiveGrade

(* A sale is never offered below the least price its configuration reduces   *)
(* to, for every configuration that is not timed, however the market moves   *)
(* and whatever is lost (background/sales.go, adjustPrice).                  *)
THEOREM FloorHolds == MarketSpec => []PriceFloor
<1>1. MarketInit => MarketTypes /\ FloorInv
  BY InitInv
<1>2. MarketTypes /\ FloorInv /\ [MarketNext]_marketVars => FloorInv'
  <2> SUFFICES ASSUME MarketTypes, FloorInv, [MarketNext]_marketVars PROVE FloorInv'
    OBVIOUS
  <2>1. CASE UNCHANGED marketVars
    BY <2>1 DEF marketVars, FloorInv, PricesRead, Prices, Offers, Allowed, Bounds
  <2>2. CASE MarketNext
    BY <2>2, ReadStep, PricesStep DEF FloorInv
  <2> QED
    BY <2>1, <2>2
<1>3. FloorInv => PriceFloor
  BY DEF FloorInv, Prices, Allowed, PriceFloor
<1> QED
  BY <1>1, <1>2, <1>3, MarketTypeStep, PTL DEF MarketSpec
==============================================================================
