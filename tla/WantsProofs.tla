----------------------------- MODULE WantsProofs -----------------------------
(***************************************************************************)
(* What is stored of a want nothing is queued for is so at Discogs, and no *)
(* change of mind about it is forgotten but with a request that came to    *)
(* nothing, for any number of releases, wantlists, moves of the users and  *)
(* failures.                                                               *)
(***************************************************************************)
EXTENDS Wants, SubsequenceProofs

(*-------------------------------------------------------------------------*)
(* The types, the copies the worker holds, and that nothing deletes a want *)

StoredList == [type : Types, entries : Seq(WantlistEntry)]
StoredWants == [Release -> Want \cup {None}]
StoredLists == [List -> StoredList \cup {None}]
Records == [Release -> {"none", "transit", "arrived"}]
Steps == {"idle", "call", "save", "retire", "store", "stored", "wants", "claim", "lists", "visit", "shut",
          "pull", "page", "align", "spread"}
WorkState ==
  [pc : Steps, want : Want \cup {None}, todo : Seq(Nat), wants : StoredWants \cup {None},
   recs : Records \cup {None}, lists : StoredLists \cup {None}, at : Nat, ask : Release \cup {None}]

Stores == wants \in StoredWants /\ lists \in StoredLists
World ==
  /\ stock \in Records
  /\ shop \subseteq Release /\ astray \subseteq Release /\ shut \subseteq List
  /\ due \in BOOLEAN /\ policy \in WantsConfig
  /\ moves \in 0 .. MaxMoves /\ span \in 1 .. moves + 1
Queued ==
  /\ jobs \in Seq(QueueElement)
  /\ \A j \in Present : j.kind = "want" => wants[j.id] # None
  /\ stuck \subseteq lost /\ lost \subseteq Release

(* The worker has the entry of the task it executes, and copies of what it   *)
(* works through.                                                            *)
Sweeping == work.pc \in {"wants", "claim"}
Listing == work.pc \in {"lists", "visit", "shut"}
Taken ==
  /\ work.pc # "idle" => jobs # <<>>
  /\ Refreshing => Head(jobs).kind = "want"
  /\ Sweeping => Head(jobs).kind = "wants"
  /\ Listing => Head(jobs).kind = "lists"
  /\ work.pc \in {"pull", "page", "align", "spread"} => Head(jobs).kind = "sync"

(* The wants of the entries that were gone through are stored.               *)
Noted(list, n) == \A i \in DOMAIN list.entries : i < n => wants[list.entries[i].id] # None
Copied ==
  /\ work.pc \in {"call", "save", "retire", "store"} => work.want \in Want
  /\ Sweeping => /\ work.wants \in StoredWants /\ work.recs \in Records
                 /\ \A r \in Elements(work.todo) : r \in Release /\ work.wants[r] # None
                 /\ \A r \in Release : work.wants[r] # None => wants[r] # None
  /\ work.pc = "claim" => work.todo # <<>>
  /\ Listing => /\ work.lists \in StoredLists /\ work.at \in Nat \ {0}
                /\ \A l \in Elements(work.todo) : l \in List /\ work.lists[l] \in StoredList
  /\ work.pc = "lists" /\ work.todo # <<>> => Noted(work.lists[This], work.at)
  /\ work.pc \in {"visit", "shut"} =>
       work.todo # <<>> /\ \A i \in DOMAIN Entries : wants[Entries[i].id] # None
  /\ work.pc = "page" => /\ work.wants \in StoredWants /\ work.at \in 0 .. MaxRelease
                         /\ Elements(work.todo) \subseteq Release
  /\ work.ask # None => (Sweeping \/ work.pc \in {"visit", "shut"}) /\ wants[work.ask] # None
Working == work \in WorkState /\ Taken /\ Copied

TypeInv == Stores /\ World /\ Queued /\ Working

(* The invariant says all that TypeOK does.                                  *)
LEMMA TypeInvTypes == TypeInv => TypeOK
<1> SUFFICES ASSUME TypeInv PROVE TypeOK
  OBVIOUS
<1>1. \A l \in List : lists[l] = None \/ (lists[l].type \in Types /\ lists[l].entries \in Seq(WantlistEntry))
  BY DEF TypeInv, Stores, StoredLists, StoredList
<1>2. span \in 1 .. MaxMoves + 1
  BY BoundsAssumption DEF TypeInv, World
<1> QED
  BY <1>1, <1>2 DEF TypeInv, Stores, StoredWants, World, Records, Queued, Working, Taken, TypeOK

(* No want is deleted, so the entries of the queue keep theirs.              *)
KeepsWants == wants' \in StoredWants /\ \A r \in Release : wants[r] # None => wants'[r] # None

(* Entries of the queue are for releases.                                    *)
LEMMA WantEntries ==
  ASSUME NEW j \in QueueElement, j.kind = "want"
  PROVE  j.id \in Release /\ j = RefreshWant(j.id)
<1>1. j \in [kind : {"want"}, id : Release]
  BY DEF QueueElement
<1> QED
  BY <1>1 DEF RefreshWant

(* What else may be in the queue.                                            *)
LEMMA OtherEntries ==
  /\ \A r \in Release : RefreshWant(r) \in QueueElement /\ RefreshWant(r).kind = "want" /\ RefreshWant(r).id = r
  /\ RefreshWants \in QueueElement /\ RefreshWants.kind = "wants"
  /\ RefreshWantlists \in QueueElement /\ RefreshWantlists.kind = "lists"
  /\ \A p \in 1 .. MaxRelease + 1 : SyncWants(p) \in QueueElement /\ SyncWants(p).kind = "sync"
BY DEF QueueElement, RefreshWant, RefreshWants, RefreshWantlists, SyncWants

(* Refreshes of different releases are different entries.                    *)
LEMMA RefreshWantDiffers == \A r, d \in Release : RefreshWant(r) = RefreshWant(d) => r = d
BY DEF RefreshWant

(*-------------------------------------------------------------------------*)
(* The queue                                                               *)

(* Present is what is in the queue, and the tail of the queue what is left   *)
(* of it when its first entry is removed.                                    *)
LEMMA PresentElements == Present = Elements(jobs) /\ Present' = Elements(jobs')
BY DEF Present, Elements

(* The places of the store in order.                                         *)
LEMMA AsSeqElements ==
  ASSUME NEW n \in Nat, NEW S \in SUBSET (1 .. n)
  PROVE  /\ AsSeq(S) \in Seq(S) /\ Elements(AsSeq(S)) = S
         /\ DOMAIN AsSeq(S) = 1 .. Cardinality(S) /\ Cardinality(S) \in 0 .. n
<1> DEFINE same == [i \in S |-> i]
<1>1. IsFiniteSet(S) /\ S \in SUBSET Int /\ Cardinality(S) \in 0 .. n
  BY PlacesFinite
<1>2. \A i \in S : same[i] = i
  OBVIOUS
<1>3. AsSeq(S) = Subsequence(same, S)
  BY DEF AsSeq
<1> HIDE DEF same
<1>4. /\ Subsequence(same, S) \in Seq({same[i] : i \in S})
      /\ Elements(Subsequence(same, S)) = {same[i] : i \in S}
  BY <1>1, ElementsOfPart
<1>5. DOMAIN Subsequence(same, S) = 1 .. Cardinality(S)
  BY <1>1, SubsequenceElements
<1>6. {same[i] : i \in S} = S
  BY <1>2
<1> QED
  BY <1>1, <1>3, <1>4, <1>5, <1>6

(* The refreshes of several wants.                                           *)
LEMMA RefreshEachAdds ==
  ASSUME NEW T \in SUBSET Release
  PROVE  /\ RefreshEach(T) \in Seq(QueueElement)
         /\ Elements(RefreshEach(T)) = {RefreshWant(r) : r \in T}
<1> DEFINE refresh == [r \in T |-> RefreshWant(r)]
<1>1. IsFiniteSet(T) /\ T \in SUBSET Int
  <2>1. T \in SUBSET (1 .. MaxRelease) /\ MaxRelease \in Nat
    BY BoundsAssumption DEF Release
  <2> QED
    BY <2>1, PlacesFinite
<1>2. RefreshEach(T) = Subsequence(refresh, T)
  BY DEF RefreshEach
<1>3. \A r \in T : refresh[r] = RefreshWant(r) /\ RefreshWant(r) \in QueueElement
  BY DEF QueueElement, RefreshWant
<1> HIDE DEF refresh
<1>4. /\ Subsequence(refresh, T) \in Seq({refresh[r] : r \in T})
      /\ Elements(Subsequence(refresh, T)) = {refresh[r] : r \in T}
  BY <1>1, ElementsOfPart
<1>5. {refresh[r] : r \in T} \subseteq QueueElement
  BY <1>3
<1>6. Subsequence(refresh, T) \in Seq(QueueElement)
  BY <1>4, <1>5, SeqMonotonic
<1>7. {refresh[r] : r \in T} = {RefreshWant(r) : r \in T}
  BY <1>3
<1> QED
  BY <1>2, <1>4, <1>6, <1>7

(* The first entry of a queue that is not empty, and the others.             *)
LEMMA HeadAndTail ==
  ASSUME jobs \in Seq(QueueElement), jobs # <<>>
  PROVE  /\ Head(jobs) \in QueueElement /\ Head(jobs) \in Present
         /\ Tail(jobs) \in Seq(QueueElement) /\ Present = {Head(jobs)} \cup Elements(Tail(jobs))
BY TailElements, PresentElements

(* Entries behind others leave the first where it is.                        *)
LEMMA HeadStays ==
  ASSUME NEW s \in Seq(QueueElement), NEW t \in Seq(QueueElement), s # <<>>
  PROVE  s \o t # <<>> /\ Head(s \o t) = Head(s)
<1>1. Len(s) \in Nat /\ Len(s) > 0 /\ Len(t) \in Nat
  BY EmptySeq, LenProperties
<1>2. Len(s \o t) = Len(s) + Len(t) /\ (s \o t)[1] = s[1]
  BY <1>1, ConcatProperties
<1>3. s \o t # <<>>
  BY <1>1, <1>2
<1> QED
  BY <1>2, <1>3

(* What is asked for gets in behind the others, or is noted as lost.         *)
LEMMA PutAdds ==
  ASSUME jobs \in Seq(QueueElement), NEW before \in Seq(QueueElement), NEW S \in SUBSET Release,
         NEW T \in SUBSET New(S), NEW rest \in Seq(QueueElement), Put(before, S, T, rest)
  PROVE  /\ jobs' \in Seq(QueueElement)
         /\ Present' = Elements(before) \cup {RefreshWant(r) : r \in T} \cup Elements(rest)
         /\ before # <<>> => jobs' # <<>> /\ Head(jobs') = Head(before)
<1>1. T \in SUBSET Release
  BY DEF New
<1>2. PICK first \in Seq(QueueElement) : first = RefreshEach(T) /\ Elements(first) = {RefreshWant(r) : r \in T}
  BY <1>1, RefreshEachAdds
<1>3. jobs' = before \o first \o rest
  BY <1>2 DEF Put
<1>4. PICK two \in Seq(QueueElement) :
        /\ two = before \o first /\ Elements(two) = Elements(before) \cup Elements(first)
        /\ before # <<>> => two # <<>> /\ Head(two) = Head(before)
  BY ConcatElements, HeadStays
<1>5. /\ two \o rest \in Seq(QueueElement) /\ Elements(two \o rest) = Elements(two) \cup Elements(rest)
      /\ two # <<>> => two \o rest # <<>> /\ Head(two \o rest) = Head(two)
  BY ConcatElements, HeadStays
<1> QED
  BY <1>2, <1>3, <1>4, <1>5, PresentElements

(* The worker and the API server put their requests behind the queue, or     *)
(* behind what is left of it without its head.                               *)
Asks(before, S, rest) == Enqueue(before, S, rest) \/ Offer(before, S, rest)
NoWant(rest) == rest \in Seq(QueueElement) /\ \A j \in Elements(rest) : j.kind # "want"

LEMMA AsksPut ==
  ASSUME NEW before, NEW S, NEW rest, NoWant(rest), Asks(before, S, rest)
  PROVE  \E T \in SUBSET New(S), queued \in Seq(QueueElement) : NoWant(queued) /\ Put(before, S, T, queued)
<1>1. <<>> \in Seq(QueueElement) /\ Elements(<<>>) = {}
  BY DEF Elements
<1>2. NoWant(<<>>)
  BY <1>1 DEF NoWant
<1>3. CASE Offer(before, S, rest)
  BY <1>2, <1>3 DEF Offer, NoWant
<1>4. CASE Put(before, S, New(S), rest)
  BY <1>4 DEF NoWant
<1> QED
  BY <1>3, <1>4 DEF Asks, Enqueue

(* No request is forgotten: what was queued stays, but for the head where it *)
(* is removed, and what is asked for is queued or lost.                      *)
Kept == \A j \in Present : j # Head(jobs) => j \in Present'
Remembered == \A r \in lost \ lost' : RefreshWant(r) \in Present'

LEMMA AsksAdds ==
  ASSUME Queued, NEW before \in {jobs, Tail(jobs)}, before = jobs \/ jobs # <<>>,
         NEW S \in SUBSET Release, NEW rest, NoWant(rest), Asks(before, S, rest),
         KeepsWants, \A r \in S : wants'[r] # None
  PROVE  /\ Queued' /\ Kept /\ Remembered
         /\ \A r \in S : r \in lost' \/ RefreshWant(r) \in Present'
                       \/ (before # jobs /\ RefreshWant(r) = Head(jobs))
         /\ before = jobs => /\ Present \subseteq Present' /\ (jobs # <<>> => jobs' # <<>> /\ Head(jobs') = Head(jobs))
                             /\ \A r \in lost \ lost' : RefreshWant(r) \notin Present
                             /\ \A r \in S \cap Late : RefreshWant(r) \in Present => r \in lost'
<1>1. before \in Seq(QueueElement) /\ jobs \in Seq(QueueElement) /\ Elements(before) \subseteq Present
      /\ \A j \in Present : j # Head(jobs) \/ before = jobs => j \in Elements(before)
  BY HeadAndTail, PresentElements DEF Queued
<1>2. PICK T \in SUBSET New(S), queued \in Seq(QueueElement) : NoWant(queued) /\ Put(before, S, T, queued)
  BY AsksPut
<1>3. /\ jobs' \in Seq(QueueElement)
      /\ Present' = Elements(before) \cup {RefreshWant(r) : r \in T} \cup Elements(queued)
      /\ before # <<>> => jobs' # <<>> /\ Head(jobs') = Head(before)
  BY <1>1, <1>2, PutAdds
<1>4. /\ lost' = (lost \cup (New(S) \cup (S \cap Late))) \ T
      /\ stuck' = stuck \/ stuck' = stuck \cup (New(S) \ T)
  BY <1>2 DEF Put
<1>5. T \subseteq S /\ New(S) \subseteq S /\ New(S) \cap stuck = {} /\ \A r \in T : RefreshWant(r) \notin Present
  BY DEF New
<1>6. \A j \in Present' : j.kind = "want" => wants'[j.id] # None
  <2> SUFFICES ASSUME NEW j \in Present', j.kind = "want" PROVE wants'[j.id] # None
    OBVIOUS
  <2>1. CASE j \in Present
    <3>1. j \in QueueElement /\ wants[j.id] # None
      BY <2>1 DEF Queued, Present
    <3> QED
      BY <3>1, WantEntries DEF KeepsWants
  <2>2. CASE j \in {RefreshWant(r) : r \in T}
    BY <1>5, <2>2, OtherEntries
  <2> QED
    BY <1>1, <1>2, <1>3, <2>1, <2>2 DEF NoWant
<1>7. stuck' \subseteq lost' /\ lost' \subseteq Release
  BY <1>4, <1>5 DEF Queued
<1>8. Remembered /\ \A r \in lost \ lost' : r \in T
  BY <1>3, <1>4 DEF Remembered
<1>9. ASSUME NEW r \in S PROVE r \in lost' \/ RefreshWant(r) \in Present' \/ (before # jobs /\ RefreshWant(r) = Head(jobs))
  <2>1. CASE r \in New(S)
    BY <1>3, <1>4, <2>1
  <2>2. CASE r \in stuck
    BY <1>4, <1>5, <2>2 DEF Queued
  <2>3. CASE RefreshWant(r) \in Present
    BY <1>1, <1>3, <2>3
  <2> QED
    BY <2>1, <2>2, <2>3 DEF New
<1>10. Kept /\ (before = jobs => Present \subseteq Present')
  BY <1>1, <1>3 DEF Kept
<1>11. \A r \in S \cap Late : RefreshWant(r) \in Present => r \in lost'
  BY <1>4, <1>5
<1> QED
  BY <1>3, <1>5, <1>6, <1>7, <1>8, <1>9, <1>10, <1>11 DEF Queued

(* The queue stays as it is.                                                 *)
LEMMA QueueStays ==
  ASSUME Queued, UNCHANGED <<jobs, stuck>>, lost \subseteq lost', lost' \subseteq Release, KeepsWants
  PROVE  Queued' /\ Present' = Present
<1>1. Present' = Present
  BY DEF Present
<1>2. \A j \in Present : j.kind = "want" => wants'[j.id] # None
  <2> SUFFICES ASSUME NEW j \in Present, j.kind = "want" PROVE wants'[j.id] # None
    OBVIOUS
  <2>1. j \in QueueElement
    BY DEF Queued, Present
  <2> QED
    BY <2>1, WantEntries DEF Queued, KeepsWants
<1> QED
  BY <1>1, <1>2 DEF Queued

(* The first entry goes, for good or to the end of the queue.                *)
LEMMA HeadGoes ==
  ASSUME Queued, jobs # <<>>, KeepsWants, stuck' \subseteq stuck, lost \subseteq lost', lost' \subseteq Release,
         jobs' = Tail(jobs) \/ jobs' = Tail(jobs) \o <<Head(jobs)>>
  PROVE  Queued' /\ Kept /\ Present' \subseteq Present /\ (jobs' # Tail(jobs) => Present' = Present)
<1>1. /\ Head(jobs) \in QueueElement /\ Head(jobs) \in Present
      /\ Tail(jobs) \in Seq(QueueElement) /\ Present = {Head(jobs)} \cup Elements(Tail(jobs))
  BY HeadAndTail DEF Queued
<1>2. <<Head(jobs)>> \in Seq(QueueElement) /\ Elements(<<Head(jobs)>>) = {Head(jobs)}
  <2>1. DOMAIN <<Head(jobs)>> = {1} /\ <<Head(jobs)>>[1] = Head(jobs)
    OBVIOUS
  <2> QED
    BY <1>1, <2>1 DEF Elements
<1>3. /\ jobs' \in Seq(QueueElement) /\ Present' \subseteq Present /\ Kept /\ (jobs' # Tail(jobs) => Present' = Present)
  <2>1. CASE jobs' = Tail(jobs)
    BY <1>1, <2>1, PresentElements DEF Kept
  <2>2. CASE jobs' = Tail(jobs) \o <<Head(jobs)>>
    <3>1. PICK last \in Seq(QueueElement) : last = <<Head(jobs)>> /\ Elements(last) = {Head(jobs)}
      BY <1>2
    <3>2. jobs' \in Seq(QueueElement) /\ Elements(jobs') = Elements(Tail(jobs)) \cup Elements(last)
      BY <1>1, <2>2, <3>1, ConcatElements
    <3> QED
      BY <1>1, <3>1, <3>2, PresentElements DEF Kept
  <2> QED
    BY <2>1, <2>2
<1>4. \A j \in Present : j.kind = "want" => wants'[j.id] # None
  <2> SUFFICES ASSUME NEW j \in Present, j.kind = "want" PROVE wants'[j.id] # None
    OBVIOUS
  <2>1. j \in QueueElement
    BY DEF Queued, Present
  <2> QED
    BY <2>1, WantEntries DEF Queued, KeepsWants
<1> QED
  BY <1>3, <1>4 DEF Queued

(* The task the worker executes is for a release whose want is stored.       *)
LEMMA DoingWant ==
  ASSUME TypeInv, jobs # <<>>, Head(jobs).kind = "want"
  PROVE  /\ Doing \in Release /\ wants[Doing] \in Want /\ Head(jobs) = RefreshWant(Doing)
         /\ Head(jobs) \in Present
<1>1. Head(jobs) \in QueueElement /\ Head(jobs) \in Present
  BY HeadAndTail DEF TypeInv, Queued
<1>2. Head(jobs).id \in Release /\ Head(jobs) = RefreshWant(Head(jobs).id)
  BY <1>1, WantEntries
<1>3. wants[Head(jobs).id] # None
  BY <1>1 DEF TypeInv, Queued
<1> QED
  BY <1>1, <1>2, <1>3 DEF Doing, TypeInv, Stores, StoredWants

(*-------------------------------------------------------------------------*)
(* What a refresh of a wantlist decides                                    *)

(* The entries of a wantlist are of releases.                                *)
LEMMA EntryFields ==
  ASSUME NEW es \in Seq(WantlistEntry)
  PROVE  /\ DOMAIN es = 1 .. Len(es) /\ Len(es) \in Nat
         /\ \A i \in DOMAIN es : es[i] \in WantlistEntry /\ es[i].id \in Release
<1>1. DOMAIN es = 1 .. Len(es) /\ Len(es) \in Nat /\ \A i \in DOMAIN es : es[i] \in WantlistEntry
  BY LenProperties, ElementOfSeq
<1> QED
  BY <1>1 DEF WantlistEntry

(* Entries without an index come first, and none is lost or made up.         *)
LEMMA InOrderTypes ==
  ASSUME NEW es \in Seq(WantlistEntry)
  PROVE  InOrder(es) \in Seq(WantlistEntry) /\ \A i \in DOMAIN InOrder(es) : \E j \in DOMAIN es : InOrder(es)[i] = es[j]
<1> DEFINE unnumbered == {i \in DOMAIN es : es[i].index = 0}
           others == DOMAIN es \ unnumbered
<1>1. DOMAIN es = 1 .. Len(es) /\ Len(es) \in Nat
  BY LenProperties
<1>2. unnumbered \in SUBSET (1 .. Len(es)) /\ others \in SUBSET (1 .. Len(es))
  BY <1>1
<1>3. /\ {es[i] : i \in unnumbered} \subseteq WantlistEntry
      /\ {es[i] : i \in others} \subseteq WantlistEntry
  BY EntryFields
<1>4. InOrder(es) = Subsequence(es, unnumbered) \o Subsequence(es, others)
  BY DEF InOrder
<1> HIDE DEF unnumbered, others
<1>5. unnumbered \in SUBSET Int /\ IsFiniteSet(unnumbered) /\ others \in SUBSET Int /\ IsFiniteSet(others)
  BY <1>1, <1>2, PlacesFinite
<1>6. /\ Subsequence(es, unnumbered) \in Seq({es[i] : i \in unnumbered})
      /\ Subsequence(es, others) \in Seq({es[i] : i \in others})
  BY <1>5, ElementsOfPart
<1>7. Subsequence(es, unnumbered) \in Seq(WantlistEntry) /\ Subsequence(es, others) \in Seq(WantlistEntry)
  BY <1>3, <1>6, SeqMonotonic
<1>8. /\ Elements(Subsequence(es, unnumbered)) = {es[i] : i \in unnumbered}
      /\ Elements(Subsequence(es, others)) = {es[i] : i \in others}
  BY <1>5, ElementsOfPart
<1>9. /\ InOrder(es) \in Seq(WantlistEntry)
      /\ Elements(InOrder(es)) = Elements(Subsequence(es, unnumbered)) \cup Elements(Subsequence(es, others))
  BY <1>4, <1>7, ConcatElements
<1>10. \A i \in DOMAIN InOrder(es) : \E j \in DOMAIN es : InOrder(es)[i] = es[j]
  <2> TAKE i \in DOMAIN InOrder(es)
  <2>1. InOrder(es)[i] \in Elements(InOrder(es))
    BY DEF Elements
  <2> QED
    BY <1>1, <1>2, <1>8, <1>9, <2>1
<1> QED
  BY <1>9, <1>10

(* A want that is given another state to reach is asked for, and none is     *)
(* given one that says a record was bought.                                  *)
LEMMA VisitTypes ==
  ASSUME NEW type \in Types, NEW e \in WantlistEntry, NEW before
  PROVE  /\ Visit(type, e, before).state \in WantState
         /\ Visit(type, e, before).intended \in {"WANTED", "PENDING", "RETIRED", None}
         /\ Visit(type, e, before).intended # None => Visit(type, e, before).ask
<1> DEFINE Good(v) == /\ v.state \in WantState /\ v.intended \in {"WANTED", "PENDING", "RETIRED", None}
                      /\ v.intended # None => v.ask
<1>1. e.state \in WantState
  BY DEF WantlistEntry
<1>2. Good(Leave(e)) /\ Good(Set("RETIRED", "RETIRED")) /\ Good(Set("WANTED", "WANTED"))
      /\ Good(Set("WANTED", None)) /\ Good(Set(e.state, "PENDING"))
  BY <1>1 DEF Leave, Set, WantState
<1> HIDE DEF Good
<1>3. Good(RetireAll(e)) /\ Good(EnMasse(e)) /\ Good(DateBounded(e, before)) /\ Good(OneByOne(e, before))
  BY <1>2 DEF RetireAll, EnMasse, DateBounded, OneByOne
<1>4. type \in {"ONE_BY_ONE", "EN_MASSE", "DATE_BOUNDED"}
  BY BoundsAssumption
<1>5. Good(Visit(type, e, before))
  BY <1>3, <1>4 DEF Visit
<1> QED
  BY <1>5 DEF Good

(* A want that is noted or owned is a want.                                  *)
LEMMA WantTypes ==
  ASSUME Stores, NEW r \in Release
  PROVE  /\ \A w \in Want : [w EXCEPT !.intended = "RETIRED"] \in Want /\ w # None
         /\ \A w \in Want : \A rec : Owned(w, rec) \in Want
         /\ \A state \in WantState, intended \in WantState, L \in SUBSET List : NewWant(state, intended, L) \in Want
         /\ \A l \in List : Annotated(l, r) \in Want
<1>1. \A state \in WantState, intended \in WantState, L \in SUBSET List : NewWant(state, intended, L) \in Want
  BY DEF NewWant, Want
<1>2. \A l \in List : Annotated(l, r) \in Want
  <2> TAKE l \in List
  <2>1. CASE wants[r] = None
    BY <1>1, <2>1 DEF Annotated, WantState
  <2>2. CASE wants[r] # None
    BY <2>2 DEF Stores, StoredWants, Annotated, Want
  <2> QED
    BY <2>1, <2>2
<1>3. \A w \in Want : [w EXCEPT !.intended = "RETIRED"] \in Want
  BY DEF Want, WantState
<1>4. \A w \in Want : \A rec : Owned(w, rec) \in Want
  BY DEF Owned, Want, WantState
<1> QED
  BY <1>1, <1>2, <1>3, <1>4, NoneAssumption

(* An entry that takes the state of its want is an entry.                    *)
LEMMA SyncedTypes ==
  ASSUME Stores, NEW l \in List, NEW e \in WantlistEntry
  PROVE  Synced(l, e) \in WantlistEntry /\ Synced(l, e).id = e.id
<1>1. e.id \in Release
  BY DEF WantlistEntry
<1>2. Annotated(l, e.id) \in Want
  BY <1>1, WantTypes
<1>3. Aim(Annotated(l, e.id)) \in WantState
  BY <1>2 DEF Aim, Want
<1> QED
  BY <1>3 DEF Synced, WantlistEntry, WantState

(* The entry in the worker's hand, and its wantlist when it is changed.      *)
LEMMA HereTypes ==
  ASSUME Entries \in Seq(WantlistEntry), work.at \in Nat \ {0}, ~ AtEnd
  PROVE  work.at \in DOMAIN Entries /\ Here \in WantlistEntry /\ Here.id \in Release
BY EntryFields DEF AtEnd, Here

With(e) == [work.lists EXCEPT ![This].entries[work.at] = e]
LEMMA EntryChanged ==
  ASSUME work.lists \in StoredLists, This \in List, work.lists[This] \in StoredList, work.at \in DOMAIN Entries,
         NEW e \in WantlistEntry
  PROVE  /\ With(e) \in StoredLists /\ \A l \in List \ {This} : With(e)[l] = work.lists[l]
         /\ With(e)[This] \in StoredList /\ DOMAIN With(e)[This].entries = DOMAIN Entries
         /\ With(e)[This].entries[work.at] = e
         /\ \A i \in DOMAIN Entries \ {work.at} : With(e)[This].entries[i] = Entries[i]
<1> DEFINE es == [Entries EXCEPT ![work.at] = e]
           list == [work.lists[This] EXCEPT !.entries = es]
<1>1. Entries \in Seq(WantlistEntry)
  BY DEF Entries, StoredList
<1>2. es \in Seq(WantlistEntry) /\ DOMAIN es = DOMAIN Entries /\ es[work.at] = e
      /\ \A i \in DOMAIN Entries \ {work.at} : es[i] = Entries[i]
  BY <1>1, EntryFields
<1>3. With(e) = [work.lists EXCEPT ![This] = list]
  BY DEF Entries, With
<1> HIDE DEF es
<1>4. list \in StoredList /\ list.entries = es
  BY <1>2 DEF StoredList
<1> HIDE DEF list
<1>5. With(e) \in StoredLists /\ With(e)[This] = list /\ \A l \in List \ {This} : With(e)[l] = work.lists[l]
  BY <1>3, <1>4 DEF StoredLists
<1> QED
  BY <1>2, <1>4, <1>5

(*-------------------------------------------------------------------------*)
(* The steps keep the types                                                *)

(* The worker without a task.                                                *)
LEMMA IdleTypes == Idle \in WorkState
<1>1. <<>> \in Seq(Nat)
  OBVIOUS
<1> QED
  BY <1>1 DEF Idle, WorkState, Steps

(* It has no copies then.                                                    *)
LEMMA IdleWorks == ASSUME work' = Idle PROVE Working'
BY IdleTypes DEF Working, Taken, Copied, Refreshing, Sweeping, Listing, Idle

(* While the worker stays where it is, its copies do.                        *)
LEMMA WorkerWaits ==
  ASSUME TypeInv, UNCHANGED work, KeepsWants, jobs # <<>> => jobs' # <<>> /\ Head(jobs') = Head(jobs)
  PROVE  Working'
<1>1. Taken'
  BY DEF TypeInv, Working, Taken, Refreshing, Sweeping, Listing
<1>2. ASSUME Listing, work.todo # <<>>
      PROVE  \A i \in DOMAIN Entries : Entries[i].id \in Release
  <2>1. This \in Elements(work.todo)
    <3>1. work.todo \in Seq(Nat)
      BY DEF TypeInv, Working, WorkState
    <3> QED
      BY <1>2, <3>1, TailElements DEF This
  <2>2. work.lists[This] \in StoredList
    BY <1>2, <2>1 DEF TypeInv, Working, Copied
  <2>3. Entries \in Seq(WantlistEntry)
    BY <2>2 DEF Entries, StoredList
  <2> QED
    BY <2>3, EntryFields
<1>3. work.ask # None => work.ask \in Release
  BY DEF TypeInv, Working, WorkState
<1>4. Copied'
  <2>1. work.pc = "lists" /\ work.todo # <<>> => Noted(work.lists[This], work.at)'
    BY <1>2 DEF TypeInv, Working, Copied, Listing, Noted, KeepsWants, Entries, This
  <2>2. work.pc \in {"visit", "shut"} =>
          work.todo # <<>> /\ \A i \in DOMAIN Entries : wants'[Entries[i].id] # None
    BY <1>2 DEF TypeInv, Working, Copied, Listing, KeepsWants
  <2>3. work.ask # None => wants'[work.ask] # None
    BY <1>3 DEF TypeInv, Working, Copied, KeepsWants
  <2>4. Sweeping => \A r \in Release : work.wants[r] # None => wants'[r] # None
    BY DEF TypeInv, Working, Copied, KeepsWants
  <2> QED
    BY <2>1, <2>2, <2>3, <2>4 DEF TypeInv, Working, Copied, Sweeping, Listing, This, Entries
<1> QED
  BY <1>1, <1>4 DEF TypeInv, Working

(* The world, and the bound of its moves.                                    *)
LEMMA WorldStays ==
  ASSUME World, UNCHANGED world, UNCHANGED moves \/ Move,
         shop' \subseteq Release, astray' \subseteq Release, due' \in BOOLEAN
  PROVE  World'
BY BoundsAssumption DEF World, world, Move

(* A step that leaves the queue alone.                                       *)
LEMMA QuietTypes ==
  ASSUME TypeInv, UNCHANGED <<world, due, queue, astray, moves>>, shop' \subseteq Release,
         KeepsWants, lists' \in StoredLists, Working'
  PROVE  TypeInv'
<1>1. Queued' /\ World'
  BY QueueStays, WorldStays DEF TypeInv, Queued, World, queue
<1> QED
  BY <1>1 DEF TypeInv, Stores, KeepsWants

(* The task the worker is done with leaves the queue.                        *)
LEMMA DoneTypes ==
  ASSUME TypeInv, jobs # <<>>, Done, UNCHANGED <<world, shop, due, astray, moves>>,
         KeepsWants, lists' \in StoredLists
  PROVE  TypeInv' /\ Kept
<1>1. Queued' /\ Kept
  BY HeadGoes DEF TypeInv, Queued, Done
<1>2. World'
  BY WorldStays DEF TypeInv, World
<1>3. Working'
  BY IdleWorks DEF Done
<1> QED
  BY <1>1, <1>2, <1>3 DEF TypeInv, Stores, KeepsWants

(* What is stored may stay as it is.                                         *)
LEMMA SameWants == TypeInv /\ UNCHANGED wants => KeepsWants
BY DEF TypeInv, Stores, KeepsWants

(* The places of a store that are filled, in order.                          *)
LEMMA PlacesInOrder ==
  ASSUME NEW n \in Nat, NEW S \in SUBSET (1 .. n)
  PROVE  AsSeq(S) \in Seq(Nat) /\ Elements(AsSeq(S)) = S
<1>1. AsSeq(S) \in Seq(S) /\ Elements(AsSeq(S)) = S
  BY AsSeqElements
<1>2. S \subseteq Nat
  OBVIOUS
<1> QED
  BY <1>1, <1>2, SeqMonotonic

(* The steps that begin a task.                                              *)
LEMMA BeginTypes ==
  ASSUME TypeInv, BeginWant \/ BeginWants \/ BeginLists \/ BeginSync
  PROVE  TypeInv'
<1>1. /\ work \in WorkState /\ Stores /\ World /\ jobs # <<>> /\ KeepsWants /\ lists' \in StoredLists
      /\ UNCHANGED <<wants, world, shop, due, astray, moves>> /\ shop' \subseteq Release
  BY SameWants DEF TypeInv, Working, Stores, World, BeginWant, BeginWants, BeginLists, BeginSync, Begin, store
<1>2. CASE BeginWant
  <2>1. Head(jobs).kind = "want" /\ UNCHANGED queue
    BY <1>2 DEF BeginWant, Begin
  <2>2. wants[Doing] \in Want
    BY <1>1, <2>1, DoingWant
  <2>3. PICK pc \in {"store", "call"} : work' = [Idle EXCEPT !.pc = pc, !.want = wants[Doing]]
    BY <1>2 DEF BeginWant
  <2>4. work' \in WorkState
    BY <2>2, <2>3, IdleTypes DEF WorkState, Steps
  <2>5. Taken' /\ Copied'
    BY <1>1, <2>1, <2>2, <2>3 DEF Idle, Taken, Copied, Refreshing, Sweeping, Listing, queue
  <2> QED
    BY <1>1, <2>1, <2>4, <2>5, QuietTypes DEF Working
<1>3. CASE BeginWants
  <2> DEFINE there == {r \in Release : wants[r] # None}
             todo == AsSeq(there)
  <2>1. todo \in Seq(Nat) /\ Elements(todo) = there
    <3>1. there \in SUBSET (1 .. MaxRelease) /\ MaxRelease \in Nat
      BY BoundsAssumption DEF Release
    <3> HIDE DEF there
    <3> QED
      BY <3>1, PlacesInOrder
  <2>2. work' = [Idle EXCEPT !.pc = "wants", !.wants = wants, !.recs = stock, !.todo = todo]
    BY <1>3 DEF BeginWants
  <2> HIDE DEF todo
  <2>3. work' \in WorkState
    BY <1>1, <2>1, <2>2 DEF Idle, WorkState, Stores, World, Steps
  <2>4. work'.pc = "wants" /\ work'.wants = wants /\ work'.todo = todo /\ work'.recs = stock /\ work'.ask = None
    BY <2>2 DEF Idle
  <2>5. Taken' /\ Copied'
    BY <1>1, <1>3, <2>1, <2>4 DEF BeginWants, Begin, Taken, Copied, Refreshing, Sweeping, Listing, Stores, World, queue
  <2> QED
    BY <1>1, <1>3, <2>3, <2>5, QuietTypes DEF BeginWants, Working
<1>4. CASE BeginLists
  <2> DEFINE there == {l \in List : lists[l] # None}
             todo == AsSeq(there)
  <2>1. todo \in Seq(Nat) /\ Elements(todo) = there
    <3>1. there \in SUBSET (1 .. MaxList) /\ MaxList \in Nat
      BY BoundsAssumption DEF List
    <3> HIDE DEF there
    <3> QED
      BY <3>1, PlacesInOrder
  <2>2. work' = [Idle EXCEPT !.pc = "lists", !.lists = lists, !.at = 1, !.todo = todo]
    BY <1>4 DEF BeginLists
  <2> HIDE DEF todo
  <2>3. work' \in WorkState
    BY <1>1, <2>1, <2>2 DEF Idle, WorkState, Stores, Steps
  <2>4. work'.pc = "lists" /\ work'.lists = lists /\ work'.todo = todo /\ work'.at = 1 /\ work'.ask = None
    BY <2>2 DEF Idle
  <2>5. \A l \in there : lists[l] \in StoredList
    BY <1>1 DEF Stores, StoredLists
  <2>6. ASSUME work'.todo # <<>> PROVE Noted(work.lists[This], work.at)'
    <3>1. This' \in there
      BY <2>1, <2>4, <2>6, TailElements DEF This
    <3>2. lists[This'].entries \in Seq(WantlistEntry)
      BY <2>5, <3>1 DEF StoredList
    <3>3. DOMAIN lists[This'].entries \subseteq Nat \ {0}
      BY <3>2, EntryFields
    <3> QED
      BY <2>4, <3>3 DEF Noted
  <2>7. Taken'
    BY <1>1, <1>4, <2>4 DEF BeginLists, Begin, Taken, Refreshing, Sweeping, Listing, queue
  <2>8. /\ work'.lists \in StoredLists /\ work'.at \in Nat \ {0}
        /\ \A l \in Elements(work'.todo) : l \in List /\ work'.lists[l] \in StoredList
    BY <1>1, <2>1, <2>4, <2>5 DEF Stores
  <2>9. Copied'
    BY <2>4, <2>6, <2>8 DEF Copied, Sweeping, Listing
  <2> QED
    BY <1>1, <1>4, <2>3, <2>7, <2>9, QuietTypes DEF BeginLists, Working
<1>5. CASE BeginSync
  <2>1. Head(jobs).kind = "sync"
    BY <1>5 DEF BeginSync, Begin
  <2>2. CASE due
    <3>1. work' = [Idle EXCEPT !.pc = "pull"] /\ UNCHANGED queue
      BY <1>5, <2>2 DEF BeginSync
    <3>2. work' \in WorkState
      BY <3>1, IdleTypes DEF WorkState, Steps
    <3>3. Taken' /\ Copied'
      BY <1>1, <2>1, <3>1 DEF Idle, Taken, Copied, Refreshing, Sweeping, Listing, queue
    <3> QED
      BY <1>1, <3>1, <3>2, <3>3, QuietTypes DEF Working
  <2>3. CASE ~due
    BY <1>1, <1>5, <2>3, DoneTypes DEF BeginSync
  <2> QED
    BY <2>2, <2>3
<1> QED
  BY <1>2, <1>3, <1>4, <1>5

(* A crash, a failure, and the end of a task that has gone through its list. *)
LEMMA EndTypes ==
  ASSUME TypeInv, Restart \/ FailCall \/ Bury \/ Finish \/ Remove
  PROVE  TypeInv'
<1>1. /\ Stores /\ World /\ Queued /\ KeepsWants /\ lists' \in StoredLists /\ Asked \subseteq Release
      /\ UNCHANGED <<wants, world, shop, due>>
  BY SameWants DEF TypeInv, Working, WorkState, Stores, Restart, FailCall, Bury, Finish, Remove, store, Asked
<1>2. CASE Restart
  <2>1. Queued'
    <3>1. /\ jobs' = jobs /\ stuck' = {} /\ lost' \subseteq Release /\ Present' = Present
      BY <1>1, <1>2 DEF Restart, Queued, Present
    <3> QED
      BY <1>1, <3>1 DEF Queued, Restart
  <2>2. World'
    BY <1>1, <1>2, WorldStays DEF Restart, World
  <2> QED
    BY <1>1, <1>2, <2>1, <2>2, IdleWorks DEF Restart, TypeInv, Stores, KeepsWants
<1>3. CASE FailCall
  <2>1. jobs # <<>> /\ (Refreshing => Doing \in Release)
    BY <1>3, DoingWant DEF FailCall, TypeInv, Working, Taken
  <2>2. Queued'
    <3>1. CASE UNCHANGED jobs
      BY <1>1, <1>3, <3>1, QueueStays DEF FailCall, Queued
    <3>2. CASE jobs' = Tail(jobs) \o <<Head(jobs)>>
      BY <1>1, <1>3, <2>1, <3>2, HeadGoes DEF FailCall, Queued
    <3> QED
      BY <1>3, <3>1, <3>2 DEF FailCall
  <2>3. astray' \subseteq Release
    BY <1>1, <1>3, <2>1 DEF FailCall, World
  <2>4. World'
    BY <1>1, <1>3, <2>3, WorldStays DEF FailCall, World
  <2> QED
    BY <1>1, <1>3, <2>2, <2>4, IdleWorks DEF FailCall, TypeInv, Stores, KeepsWants
<1>4. CASE Bury
  <2>1. jobs # <<>> /\ (Refreshing => Doing \in Release)
    BY <1>4, DoingWant DEF Bury, TypeInv, Working, Taken
  <2>2. Queued'
    BY <1>1, <1>4, <2>1, HeadGoes DEF Bury, Queued
  <2>3. astray' \subseteq Release
    BY <1>1, <1>4, <2>1 DEF Bury, World
  <2>4. World'
    BY <1>1, <1>4, <2>3, WorldStays DEF Bury, World
  <2> QED
    BY <1>1, <1>4, <2>2, <2>4, IdleWorks DEF Bury, TypeInv, Stores, KeepsWants
<1>5. CASE Finish \/ Remove
  <2>1. jobs # <<>>
    BY <1>5 DEF Finish, Remove, TypeInv, Working, Taken
  <2> QED
    BY <1>1, <1>5, <2>1, DoneTypes DEF Finish, Remove
<1> QED
  BY <1>2, <1>3, <1>4, <1>5

(* The entries of a release follow its want.                                 *)
LEMMA FollowTypes ==
  ASSUME Stores, NEW L \in SUBSET Stored, NEW r, NEW state \in WantState, Follow(L, r, state)
  PROVE  lists' \in StoredLists
<1>1. ASSUME NEW l \in L
      PROVE  [lists[l] EXCEPT !.entries = [i \in DOMAIN @ |->
                IF @[i].id = r THEN [@[i] EXCEPT !.state = state] ELSE @[i]]] \in StoredList
  <2>1. l \in List /\ lists[l] \in StoredList
    BY DEF Stored, Stores, StoredLists
  <2> DEFINE es == lists[l].entries
             new == [i \in DOMAIN es |-> IF es[i].id = r THEN [es[i] EXCEPT !.state = state] ELSE es[i]]
  <2>2. es \in Seq(WantlistEntry)
    BY <2>1 DEF StoredList
  <2>3. /\ DOMAIN es = 1 .. Len(es) /\ Len(es) \in Nat
        /\ \A i \in DOMAIN es : es[i] \in WantlistEntry
    BY <2>2, EntryFields
  <2>4. \A i \in DOMAIN es : (IF es[i].id = r THEN [es[i] EXCEPT !.state = state] ELSE es[i]) \in WantlistEntry
    <3> HIDE DEF es
    <3> QED
      BY <2>3 DEF WantlistEntry
  <2>5. new \in Seq(WantlistEntry)
    BY <2>3, <2>4
  <2> HIDE DEF new
  <2>6. [lists[l] EXCEPT !.entries = new] \in StoredList
    BY <2>1, <2>5 DEF StoredList
  <2> QED
    BY <2>6 DEF new
<1>2. \A l \in List \ L : lists[l] \in StoredList \cup {None}
  BY DEF Stores, StoredLists
<1> QED
  BY <1>1, <1>2 DEF Follow, StoredLists

(* The steps of the refresh of one want.                                     *)
LEMMA RefreshWantTypes ==
  ASSUME TypeInv, CallDiscogs \/ SaveCalled \/ Retire \/ StoreWant
  PROVE  TypeInv'
<1>1. /\ work \in WorkState /\ Stores /\ World /\ jobs # <<>> /\ Head(jobs).kind = "want" /\ work.want \in Want
      /\ work.ask = None /\ UNCHANGED <<world, due, astray, moves>>
  BY DEF TypeInv, Working, Taken, Copied, Refreshing, Sweeping, CallDiscogs, SaveCalled, Retire, StoreWant
<1>2. Doing \in Release /\ wants[Doing] \in Want
  BY <1>1, DoingWant
<1>3. ASSUME NEW w \in Want, wants' = [wants EXCEPT ![Doing] = w]
      PROVE  KeepsWants
  BY <1>1, <1>2, <1>3, NoneAssumption DEF KeepsWants, Stores, StoredWants
<1>4. shop' \subseteq Release
  BY <1>1, <1>2 DEF CallDiscogs, SaveCalled, Retire, StoreWant, World
<1>5. ASSUME NEW w \in Want, NEW pc \in {"save", "retire", "store"}, work' = [work EXCEPT !.pc = pc, !.want = w],
             UNCHANGED jobs
      PROVE  Working'
  <2>1. work'.pc = pc /\ work'.want = w /\ work'.ask = None
    BY <1>1, <1>5 DEF WorkState
  <2>2. work' \in WorkState
    BY <1>1, <1>5 DEF WorkState, Steps
  <2>3. Taken' /\ Copied'
    BY <1>1, <1>5, <2>1 DEF Taken, Copied, Refreshing, Sweeping, Listing
  <2> QED
    BY <2>2, <2>3 DEF Working
<1>6. CASE CallDiscogs
  <2>1. [work.want EXCEPT !.state = work.want.intended] \in Want
    BY <1>1 DEF Want
  <2>2. work' = [work EXCEPT !.pc = "save", !.want = [work.want EXCEPT !.state = work.want.intended]]
    BY <1>1, <1>6 DEF CallDiscogs, WorkState
  <2>3. Working'
    BY <1>5, <1>6, <2>1, <2>2 DEF CallDiscogs, queue
  <2> QED
    BY <1>1, <1>4, <1>6, <2>3, SameWants, QuietTypes DEF CallDiscogs, store, Stores
<1>7. CASE SaveCalled
  <2> DEFINE w == work.want
  <2>1. KeepsWants
    BY <1>1, <1>3, <1>7 DEF SaveCalled
  <2>2. w.state \in WantState
    BY <1>1 DEF Want
  <2>3. CASE w.from \subseteq Stored
    <3>1. PICK pc \in {"store", "retire"} : work' = [work EXCEPT !.pc = pc]
      BY <1>7, <2>3 DEF SaveCalled
    <3>2. Follow(w.from, Doing, w.state) /\ UNCHANGED queue
      BY <1>7, <2>3 DEF SaveCalled
    <3>3. lists' \in StoredLists
      BY <1>1, <2>2, <2>3, <3>2, FollowTypes
    <3>4. work' = [work EXCEPT !.pc = pc, !.want = w]
      BY <1>1, <3>1 DEF WorkState
    <3>5. Working'
      BY <1>1, <1>5, <3>2, <3>4 DEF queue
    <3> QED
      BY <1>1, <1>4, <2>1, <3>2, <3>3, <3>5, QuietTypes
  <2>4. CASE ~(w.from \subseteq Stored)
    <3>1. Done /\ \E L \in SUBSET (w.from \cap Stored) : Follow(L, Doing, w.state)
      BY <1>7, <2>4 DEF SaveCalled
    <3>2. lists' \in StoredLists
      BY <1>1, <2>2, <3>1, FollowTypes
    <3> QED
      BY <1>1, <1>7, <2>1, <3>1, <3>2, DoneTypes DEF SaveCalled
  <2> QED
    BY <2>3, <2>4
<1>8. CASE Retire
  <2> DEFINE w == [work.want EXCEPT !.state = "RETIRED", !.intended = "RETIRED"]
  <2>1. w \in Want
    BY <1>1 DEF Want, WantState
  <2>2. wants' = [wants EXCEPT ![Doing] = w] /\ work' = [work EXCEPT !.pc = "store", !.want = w]
    BY <1>8 DEF Retire
  <2> HIDE DEF w
  <2>3. KeepsWants /\ Working'
    BY <1>3, <1>5, <1>8, <2>1, <2>2 DEF Retire, queue
  <2> QED
    BY <1>1, <1>4, <1>8, <2>3, QuietTypes DEF Retire, Stores
<1>9. CASE StoreWant
  <2>1. [work.want EXCEPT !.clean = TRUE] \in Want
    BY <1>1 DEF Want
  <2>2. KeepsWants
    BY <1>3, <1>9, <2>1 DEF StoreWant
  <2>3. work' = [Idle EXCEPT !.pc = "stored"]
    BY <1>9 DEF StoreWant
  <2>4. work' \in WorkState
    BY <2>3, IdleTypes DEF WorkState, Steps
  <2>5. Taken' /\ Copied'
    BY <1>1, <1>9, <2>3 DEF StoreWant, Idle, Taken, Copied, Refreshing, Sweeping, Listing, queue
  <2> QED
    BY <1>1, <1>4, <1>9, <2>2, <2>4, <2>5, QuietTypes DEF StoreWant, Stores, Working
<1> QED
  BY <1>6, <1>7, <1>8, <1>9

(* The first of the places left, and those behind it.                        *)
LEMMA TodoTypes ==
  ASSUME TypeInv, work.todo # <<>>
  PROVE  /\ Head(work.todo) \in Elements(work.todo)
         /\ Tail(work.todo) \in Seq(Nat) /\ Elements(Tail(work.todo)) \subseteq Elements(work.todo)
<1>1. work.todo \in Seq(Nat)
  BY DEF TypeInv, Working, WorkState
<1> QED
  BY <1>1, TailElements

(* The wants that RefreshWants goes through.                                 *)
LEMMA SweepTypes ==
  ASSUME TypeInv, RetireWant \/ ClaimWant
  PROVE  TypeInv'
<1>1. /\ work \in WorkState /\ Stores /\ World /\ jobs # <<>> /\ Head(jobs).kind = "wants" /\ Sweeping
      /\ work.wants \in StoredWants /\ work.recs \in Records /\ work.todo # <<>> /\ lists' \in StoredLists
      /\ UNCHANGED <<lists, world, shop, due, queue, astray, moves>> /\ shop' \subseteq Release
  BY DEF TypeInv, Working, Taken, Copied, Sweeping, Stores, World, RetireWant, ClaimWant
<1>2. PICK r \in Release : /\ r = Head(work.todo) /\ work.wants[r] \in Want /\ wants[r] # None
                          /\ r \in Elements(work.todo)
  BY <1>1, TodoTypes DEF TypeInv, Working, Copied, Sweeping, StoredWants
<1> DEFINE w == work.wants[r]
<1>3. ASSUME NEW v \in Want, wants' = [wants EXCEPT ![r] = v]
      PROVE  KeepsWants /\ wants'[r] # None
  BY <1>1, <1>2, <1>3, NoneAssumption DEF KeepsWants, Stores, StoredWants
<1>4. CASE RetireWant
  <2> DEFINE kept == IF Unlisted(r, w) THEN [w EXCEPT !.intended = "RETIRED"] ELSE w
             W == [work.wants EXCEPT ![r] = kept]
             a == IF kept # w THEN r ELSE None
  <2>1. kept \in Want
    BY <1>1, <1>2, WantTypes
  <2>2. /\ wants' = IF kept # w THEN [wants EXCEPT ![r] = kept] ELSE wants
        /\ work' = [work EXCEPT !.pc = "claim", !.wants[r] = kept, !.ask = a]
    BY <1>2, <1>4 DEF RetireWant
  <2> HIDE DEF kept
  <2>3. KeepsWants
    BY <1>3, <2>1, <2>2, SameWants
  <2>4. W \in StoredWants /\ \A s \in Release : work.wants[s] # None <=> W[s] # None
    BY <1>1, <1>2, <2>1, NoneAssumption DEF StoredWants
  <2>5. a \in Release \cup {None}
    OBVIOUS
  <2> HIDE DEF W, a
  <2>6. work' = [work EXCEPT !.pc = "claim", !.wants = W, !.ask = a]
    BY <2>2 DEF W
  <2>7. /\ work' \in WorkState /\ work'.pc = "claim" /\ work'.wants = W /\ work'.ask = a
        /\ work'.todo = work.todo /\ work'.recs = work.recs
    BY <1>1, <2>4, <2>5, <2>6 DEF WorkState, Steps
  <2>8. Taken'
    BY <1>1, <2>7 DEF Taken, Refreshing, Sweeping, Listing, queue
  <2>9. /\ \A s \in Elements(work'.todo) : s \in Release /\ work'.wants[s] # None
        /\ \A s \in Release : work'.wants[s] # None => wants'[s] # None
    BY <1>1, <2>3, <2>4, <2>7 DEF TypeInv, Working, Copied, KeepsWants
  <2>10. work'.ask # None => wants'[work'.ask] # None
    BY <1>2, <2>3, <2>7 DEF a, KeepsWants
  <2>11. Copied'
    BY <1>1, <2>4, <2>7, <2>9, <2>10 DEF Copied, Sweeping, Listing
  <2> QED
    BY <1>1, <2>3, <2>7, <2>8, <2>11, QuietTypes DEF Working
<1>5. CASE ClaimWant
  <2> DEFINE owned == Owned(w, work.recs[r])
             new == [owned EXCEPT !.clean = FALSE]
             claimed == work.recs[r] # "none" /\ (owned # w \/ w.clean)
             a == IF claimed THEN r ELSE None
  <2>1. owned \in Want
    BY <1>1, <1>2, WantTypes
  <2>2. new \in Want
    BY <2>1 DEF Want
  <2>3. /\ wants' = IF claimed THEN [wants EXCEPT ![r] = new] ELSE wants
        /\ work' = [work EXCEPT !.pc = "wants", !.todo = Tail(@), !.ask = a]
    BY <1>2, <1>5 DEF ClaimWant
  <2> HIDE DEF new, claimed
  <2>4. KeepsWants
    BY <1>3, <2>2, <2>3, SameWants
  <2>5. a \in Release \cup {None} /\ (a # None => a = r)
    OBVIOUS
  <2> HIDE DEF a
  <2>6. Tail(work.todo) \in Seq(Nat) /\ Elements(Tail(work.todo)) \subseteq Elements(work.todo)
    BY <1>1, TodoTypes
  <2>7. work' = [work EXCEPT !.pc = "wants", !.todo = Tail(work.todo), !.ask = a]
    BY <1>1, <2>3 DEF WorkState
  <2>8. /\ work' \in WorkState /\ work'.pc = "wants" /\ work'.wants = work.wants /\ work'.ask = a
        /\ work'.todo = Tail(work.todo) /\ work'.recs = work.recs
    BY <1>1, <2>5, <2>6, <2>7 DEF WorkState, Steps
  <2>9. Taken'
    BY <1>1, <2>8 DEF Taken, Refreshing, Sweeping, Listing, queue
  <2>10. /\ \A s \in Elements(work'.todo) : s \in Release /\ work'.wants[s] # None
        /\ \A s \in Release : work'.wants[s] # None => wants'[s] # None
    BY <1>1, <2>4, <2>6, <2>8 DEF TypeInv, Working, Copied, KeepsWants
  <2>11. work'.ask # None => wants'[work'.ask] # None
    BY <1>2, <2>4, <2>5, <2>8 DEF KeepsWants
  <2>12. Copied'
    BY <1>1, <2>8, <2>10, <2>11 DEF Copied, Sweeping, Listing
  <2> QED
    BY <1>1, <2>4, <2>8, <2>9, <2>12, QuietTypes DEF Working
<1> QED
  BY <1>4, <1>5

(* The queue takes the refresh that is asked for, or it is lost.             *)
LEMMA AskTypes ==
  ASSUME TypeInv, Ask
  PROVE  /\ TypeInv' /\ Present \subseteq Present' /\ Remembered
         /\ work.ask \in Release /\ (work.ask \in lost' \/ RefreshWant(work.ask) \in Present')
<1>1. /\ work \in WorkState /\ work.ask # None /\ work.ask \in Release /\ wants[work.ask] # None
      /\ (Sweeping \/ work.pc \in {"visit", "shut"}) /\ UNCHANGED <<wants, world, shop, due, astray>>
      /\ lists' \in StoredLists
  BY DEF Ask, TypeInv, Stores, Working, WorkState, Copied, store
<1>2. KeepsWants
  BY <1>1, SameWants
<1>3. Asks(jobs, {work.ask}, <<>>) /\ (UNCHANGED moves \/ Move)
  BY DEF Ask, Asks, Enqueue
<1>4. NoWant(<<>>)
  BY DEF NoWant, Elements
<1>5. {work.ask} \in SUBSET Release /\ \A r \in {work.ask} : wants'[r] # None
  BY <1>1
<1>6. /\ Queued' /\ Remembered /\ Present \subseteq Present' /\ (jobs # <<>> => jobs' # <<>> /\ Head(jobs') = Head(jobs))
      /\ work.ask \in lost' \/ RefreshWant(work.ask) \in Present'
  BY <1>2, <1>3, <1>4, <1>5, AsksAdds DEF TypeInv
<1>7. World'
  BY <1>1, <1>3, WorldStays DEF TypeInv, World
<1>8. work' = [work EXCEPT !.ask = None]
  BY DEF Ask
<1>9. /\ work' \in WorkState /\ work'.pc = work.pc /\ work'.wants = work.wants /\ work'.ask = None
      /\ work'.todo = work.todo /\ work'.recs = work.recs /\ work'.lists = work.lists /\ work'.at = work.at
      /\ work'.want = work.want
  BY <1>1, <1>8 DEF WorkState
<1>10. Taken'
  BY <1>6, <1>9 DEF TypeInv, Working, Taken, Refreshing, Sweeping, Listing
<1>11. Copied'
  BY <1>1, <1>9 DEF TypeInv, Working, Copied, Sweeping, Listing, Noted, This, Entries
<1> QED
  BY <1>1, <1>2, <1>6, <1>7, <1>9, <1>10, <1>11 DEF TypeInv, Stores, Working, KeepsWants

(* The wantlist in hand.                                                     *)
LEMMA ThisTypes ==
  ASSUME TypeInv, Listing, work.todo # <<>>
  PROVE  /\ work \in WorkState /\ work.lists \in StoredLists /\ This \in List /\ work.lists[This] \in StoredList
         /\ Entries \in Seq(WantlistEntry) /\ work.at \in Nat \ {0} /\ jobs # <<>> /\ Head(jobs).kind = "lists"
         /\ \A l \in Elements(work.todo) : l \in List /\ work.lists[l] \in StoredList
<1>1. This \in Elements(work.todo)
  BY TodoTypes DEF This
<1> QED
  BY <1>1 DEF TypeInv, Working, Taken, Copied, Listing, Entries, StoredList

(* The wantlists that RefreshWantlists goes through.                         *)
LEMMA SyncEntryTypes == ASSUME TypeInv, SyncEntry PROVE TypeInv'
<1>1. /\ work \in WorkState /\ work.lists \in StoredLists /\ This \in List /\ work.lists[This] \in StoredList
      /\ Entries \in Seq(WantlistEntry) /\ work.at \in Nat \ {0} /\ jobs # <<>> /\ Head(jobs).kind = "lists"
      /\ \A l \in Elements(work.todo) : l \in List /\ work.lists[l] \in StoredList
  BY ThisTypes DEF SyncEntry, Listing
<1>2. /\ work.pc = "lists" /\ work.todo # <<>> /\ ~ AtEnd /\ work.ask = None /\ Stores
      /\ UNCHANGED <<lists, world, shop, due, queue, astray, moves>> /\ shop' \subseteq Release /\ lists' \in StoredLists
  BY DEF SyncEntry, TypeInv, Working, Copied, Sweeping, Stores, World
<1>3. Noted(work.lists[This], work.at)
  BY <1>2 DEF TypeInv, Working, Copied
<1>4. work.at \in DOMAIN Entries /\ Here \in WantlistEntry /\ Here.id \in Release
  BY <1>1, <1>2, HereTypes
<1>5. Annotated(This, Here.id) \in Want
  BY <1>1, <1>2, <1>4, WantTypes
<1>6. wants' = [wants EXCEPT ![Here.id] = Annotated(This, Here.id)]
  BY DEF SyncEntry
<1>7. KeepsWants /\ wants'[Here.id] # None
  BY <1>2, <1>4, <1>5, <1>6, NoneAssumption DEF KeepsWants, Stores, StoredWants
<1>8. PICK e \in WantlistEntry : e = Synced(This, Here) /\ e.id = Here.id
  BY <1>1, <1>2, <1>4, SyncedTypes
<1> DEFINE L == With(e)
<1>9. work.todo \in Seq(Nat) /\ work.at + 1 \in Nat /\ "lists" \in Steps
  BY <1>1 DEF WorkState, Steps
<1>10. /\ L \in StoredLists /\ L[This] \in StoredList /\ \A l \in List \ {This} : L[l] = work.lists[l]
       /\ DOMAIN L[This].entries = DOMAIN Entries /\ L[This].entries[work.at] = e
       /\ \A i \in DOMAIN Entries \ {work.at} : L[This].entries[i] = Entries[i]
  BY <1>1, <1>4, EntryChanged
<1>11. PICK n \in Nat : n = work.at + 1 /\ work' = [work EXCEPT !.lists = L, !.at = n]
  <2>1. work' = [work EXCEPT !.lists = L, !.at = work.at + 1]
    BY <1>1, <1>8 DEF SyncEntry, WorkState, With
  <2> HIDE DEF L
  <2> QED
    BY <1>9, <2>1
<1> HIDE DEF L
<1>12. /\ work' \in WorkState /\ work'.pc = "lists" /\ work'.lists = L /\ work'.at = work.at + 1
       /\ work'.todo = work.todo /\ work'.ask = None
  <2>1. work \in WorkState /\ L \in StoredLists /\ n \in Nat /\ work' = [work EXCEPT !.lists = L, !.at = n]
    BY <1>1, <1>10, <1>11
  <2>2. /\ work' \in WorkState /\ work'.pc = work.pc /\ work'.lists = L /\ work'.at = n
        /\ work'.todo = work.todo /\ work'.ask = work.ask
    BY <2>1 DEF WorkState
  <2> QED
    BY <1>2, <1>11, <2>2
<1>13. Taken'
  BY <1>1, <1>2, <1>12 DEF Taken, Refreshing, Sweeping, Listing, queue
<1>14. Noted(work.lists[This], work.at)'
  <2> SUFFICES ASSUME NEW i \in DOMAIN L[This].entries, i < work.at + 1
               PROVE  wants'[L[This].entries[i].id] # None
    BY <1>12 DEF Noted, This
  <2>1. CASE i = work.at
    BY <1>7, <1>8, <1>10, <2>1
  <2>2. CASE i # work.at
    <3>1. i \in DOMAIN Entries /\ i < work.at /\ L[This].entries[i] = Entries[i]
      BY <1>1, <1>10, <2>2, EntryFields
    <3> QED
      BY <1>1, <1>3, <1>7, <3>1, EntryFields DEF Noted, Entries, KeepsWants
  <2> QED
    BY <2>1, <2>2
<1>15. \A l \in Elements(work.todo) : l \in List /\ L[l] \in StoredList
  BY <1>1, <1>10
<1>16. Copied'
  BY <1>1, <1>10, <1>12, <1>14, <1>15 DEF Copied, Sweeping, Listing
<1> QED
  BY <1>2, <1>7, <1>12, <1>13, <1>16, QuietTypes DEF Working

(* All its entries have wants by then, in whichever order they are.          *)
LEMMA JudgeTypes == ASSUME TypeInv, Judge PROVE TypeInv'
<1>1. /\ work \in WorkState /\ work.lists \in StoredLists /\ This \in List /\ work.lists[This] \in StoredList
      /\ Entries \in Seq(WantlistEntry) /\ work.at \in Nat \ {0} /\ jobs # <<>> /\ Head(jobs).kind = "lists"
      /\ \A l \in Elements(work.todo) : l \in List /\ work.lists[l] \in StoredList
  BY ThisTypes DEF Judge, Listing
<1>2. /\ work.pc = "lists" /\ work.todo # <<>> /\ AtEnd /\ work.ask = None /\ Stores /\ KeepsWants
      /\ UNCHANGED <<wants, lists, world, shop, due, queue, astray, moves>> /\ shop' \subseteq Release /\ lists' \in StoredLists
  BY SameWants DEF Judge, TypeInv, Working, Copied, Sweeping, Stores, World, store
<1>3. \A i \in DOMAIN Entries : wants[Entries[i].id] # None
  <2>1. Noted(work.lists[This], work.at)
    BY <1>2 DEF TypeInv, Working, Copied
  <2>2. \A i \in DOMAIN Entries : i < work.at
    BY <1>1, <1>2, EntryFields DEF AtEnd
  <2> QED
    BY <2>1, <2>2 DEF Noted, Entries
<1> DEFINE es == IF This \notin shut /\ work.lists[This].type = "ONE_BY_ONE" THEN InOrder(Entries) ELSE Entries
           L == [work.lists EXCEPT ![This] = [work.lists[This] EXCEPT !.entries = es]]
           pc == IF This \in shut THEN "shut" ELSE "visit"
<1>4. es \in Seq(WantlistEntry) /\ \A i \in DOMAIN es : \E j \in DOMAIN Entries : es[i] = Entries[j]
  BY <1>1, InOrderTypes
<1>5. work' = [work EXCEPT !.pc = pc, !.at = 1, !.lists = L]
  <2>1. CASE This \in shut
    <3>1. L = work.lists
      BY <1>1, <2>1 DEF StoredLists, StoredList, Entries
    <3> HIDE DEF L
    <3>2. work' = [work EXCEPT !.pc = "shut", !.at = 1]
      BY <2>1 DEF Judge
    <3> QED
      BY <1>1, <2>1, <3>1, <3>2 DEF WorkState
  <2>2. CASE This \notin shut
    <3>1. work' = [work EXCEPT !.pc = "visit", !.at = 1, !.lists[This].entries =
                     IF work.lists[This].type = "ONE_BY_ONE" THEN InOrder(Entries) ELSE Entries]
      BY <2>2 DEF Judge, Entries
    <3> QED
      BY <2>2, <3>1
  <2> QED
    BY <2>1, <2>2
<1> HIDE DEF es
<1>6. /\ L \in StoredLists /\ L[This] \in StoredList /\ L[This].entries = es
      /\ \A l \in List \ {This} : L[l] = work.lists[l]
  BY <1>1, <1>4 DEF StoredLists, StoredList
<1> HIDE DEF L
<1>7. /\ work' \in WorkState /\ work'.pc \in {"visit", "shut"} /\ work'.lists = L /\ work'.at = 1
      /\ work'.todo = work.todo /\ work'.ask = None
  <2>1. pc \in Steps /\ pc \in {"visit", "shut"}
    BY DEF Steps
  <2> HIDE DEF pc
  <2>2. work \in WorkState /\ L \in StoredLists /\ work' = [work EXCEPT !.pc = pc, !.at = 1, !.lists = L]
    BY <1>1, <1>5, <1>6
  <2>3. /\ work' \in WorkState /\ work'.pc = pc /\ work'.lists = L /\ work'.at = 1
        /\ work'.todo = work.todo /\ work'.ask = work.ask
    BY <2>1, <2>2 DEF WorkState
  <2> QED
    BY <1>2, <2>1, <2>3
<1>8. Taken'
  BY <1>1, <1>2, <1>7 DEF Taken, Refreshing, Sweeping, Listing, queue
<1>9. \A l \in Elements(work.todo) : l \in List /\ L[l] \in StoredList
  BY <1>1, <1>6
<1>10. \A i \in DOMAIN Entries' : wants'[Entries'[i].id] # None
  <2>1. Entries' = es
    BY <1>6, <1>7 DEF Entries, This
  <2> QED
    BY <1>2, <1>3, <1>4, <2>1
<1>11. Copied'
  BY <1>2, <1>6, <1>7, <1>9, <1>10 DEF Copied, Sweeping, Listing
<1> QED
  BY <1>2, <1>7, <1>8, <1>11, QuietTypes DEF Working

(* An entry is decided, and its want with it.                                *)
LEMMA VisitEntryTypes == ASSUME TypeInv, VisitEntry PROVE TypeInv'
<1>1. /\ work \in WorkState /\ work.lists \in StoredLists /\ This \in List /\ work.lists[This] \in StoredList
      /\ Entries \in Seq(WantlistEntry) /\ work.at \in Nat \ {0} /\ jobs # <<>> /\ Head(jobs).kind = "lists"
      /\ \A l \in Elements(work.todo) : l \in List /\ work.lists[l] \in StoredList
  BY ThisTypes DEF VisitEntry, Listing, TypeInv, Working, Copied
<1>2. /\ work.pc \in {"visit", "shut"} /\ work.todo # <<>> /\ ~ AtEnd /\ work.ask = None /\ Stores
      /\ \A i \in DOMAIN Entries : wants[Entries[i].id] # None
      /\ UNCHANGED <<lists, world, shop, due, queue, astray, moves>> /\ shop' \subseteq Release /\ lists' \in StoredLists
  BY DEF VisitEntry, TypeInv, Working, Copied, Stores, World
<1>3. work.at \in DOMAIN Entries /\ Here \in WantlistEntry /\ Here.id \in Release /\ wants[Here.id] \in Want
  BY <1>1, <1>2, HereTypes DEF Here, Stores, StoredWants
<1> DEFINE type == work.lists[This].type
           v == Visit(type, Here, SubSeq(Entries, 1, work.at - 1))
           last == work.pc = "visit" /\ type = "ONE_BY_ONE" /\ v.intended = "WANTED"
<1>4. type \in Types
  BY <1>1 DEF StoredList
<1>5. v.state \in WantState /\ v.intended \in {"WANTED", "PENDING", "RETIRED", None}
  BY <1>3, <1>4, VisitTypes
<1>6. PICK after : after = IF last THEN Len(Entries) + 1 ELSE work.at + 1
  OBVIOUS
<1>7. after \in Nat \ {0}
  BY <1>1, <1>6, EntryFields
<1>8. /\ wants' = IF v.intended = None THEN wants
                  ELSE [wants EXCEPT ![Here.id].intended = v.intended,
                                     ![Here.id].clean = @ /\ ~ (work.pc = "visit" /\ type = "EN_MASSE")]
      /\ work' = [work EXCEPT !.lists[This].entries[work.at].state = v.state, !.at = after,
                              !.ask = IF v.ask THEN Here.id ELSE None]
  BY <1>1, <1>6 DEF VisitEntry, WorkState
<1> HIDE DEF v, type
<1>9. KeepsWants
  <2>1. CASE v.intended = None
    BY <1>8, <2>1, SameWants
  <2>2. CASE v.intended # None
    <3> DEFINE w == [wants[Here.id] EXCEPT !.intended = v.intended,
                                           !.clean = @ /\ ~ (work.pc = "visit" /\ type = "EN_MASSE")]
    <3>1. v.intended \in WantState
      BY <1>5, <2>2 DEF WantState
    <3>2. w \in Want
      BY <1>3, <3>1 DEF Want
    <3>3. wants' = [wants EXCEPT ![Here.id] = w]
      BY <1>2, <1>3, <1>8, <2>2 DEF Stores, StoredWants, Want
    <3> HIDE DEF w
    <3> QED
      BY <1>2, <3>2, <3>3, NoneAssumption DEF KeepsWants, Stores, StoredWants
  <2> QED
    BY <2>1, <2>2
<1> DEFINE e == [Here EXCEPT !.state = v.state]
           L == With(e)
           a == IF v.ask THEN Here.id ELSE None
<1>10. e \in WantlistEntry /\ e.id = Here.id
  BY <1>3, <1>5 DEF WantlistEntry
<1>11. work' = [work EXCEPT !.lists = L, !.at = after, !.ask = a]
  BY <1>1, <1>3, <1>8 DEF With, Here, Entries, WorkState
<1> HIDE DEF e
<1>12. /\ L \in StoredLists /\ L[This] \in StoredList /\ \A l \in List \ {This} : L[l] = work.lists[l]
       /\ DOMAIN L[This].entries = DOMAIN Entries /\ L[This].entries[work.at] = e
       /\ \A i \in DOMAIN Entries \ {work.at} : L[This].entries[i] = Entries[i]
  BY <1>1, <1>3, <1>10, EntryChanged
<1> HIDE DEF L
<1>13. a \in Release \cup {None} /\ (a # None => wants'[a] # None)
  BY <1>3, <1>9, NoneAssumption DEF KeepsWants
<1> HIDE DEF a
<1>14. /\ work' \in WorkState /\ work'.pc = work.pc /\ work'.lists = L /\ work'.at = after
       /\ work'.todo = work.todo /\ work'.ask = a
  <2>1. /\ work \in WorkState /\ L \in StoredLists /\ after \in Nat /\ a \in Release \cup {None}
        /\ work' = [work EXCEPT !.lists = L, !.at = after, !.ask = a]
    BY <1>1, <1>7, <1>11, <1>12, <1>13
  <2> QED
    BY <2>1 DEF WorkState
<1>15. Taken'
  BY <1>1, <1>2, <1>14 DEF Taken, Refreshing, Sweeping, Listing, queue
<1>16. \A i \in DOMAIN Entries' : wants'[Entries'[i].id] # None
  <2>1. Entries' = L[This].entries
    BY <1>14 DEF Entries, This
  <2>2. \A i \in DOMAIN Entries : wants'[Entries[i].id] # None
    BY <1>1, <1>2, <1>9, EntryFields DEF KeepsWants
  <2>3. e.id = Entries[work.at].id
    BY <1>10 DEF Here
  <2> QED
    BY <1>3, <1>12, <2>1, <2>2, <2>3
<1>17. \A l \in Elements(work.todo) : l \in List /\ L[l] \in StoredList
  BY <1>1, <1>12
<1>18. Copied'
  BY <1>2, <1>7, <1>12, <1>13, <1>14, <1>16, <1>17 DEF Copied, Sweeping, Listing
<1> QED
  BY <1>2, <1>9, <1>14, <1>15, <1>18, QuietTypes DEF Working

(* A wantlist is saved.                                                      *)
LEMMA KeepListTypes == ASSUME TypeInv, KeepList PROVE TypeInv'
<1>1. /\ work \in WorkState /\ work.lists \in StoredLists /\ This \in List /\ work.lists[This] \in StoredList
      /\ work.at \in Nat \ {0} /\ jobs # <<>> /\ Head(jobs).kind = "lists"
      /\ \A l \in Elements(work.todo) : l \in List /\ work.lists[l] \in StoredList
  BY ThisTypes DEF KeepList, Listing, TypeInv, Working, Copied
<1>2. /\ work.todo # <<>> /\ work.ask = None /\ Stores /\ KeepsWants
      /\ UNCHANGED <<wants, world, shop, due, queue, astray, moves>> /\ shop' \subseteq Release
  BY SameWants DEF KeepList, TypeInv, Working, Copied, Stores, World
<1>3. lists' \in StoredLists
  BY <1>1, <1>2 DEF KeepList, Stores, StoredLists
<1>4. Tail(work.todo) \in Seq(Nat) /\ Elements(Tail(work.todo)) \subseteq Elements(work.todo)
  BY <1>2, TodoTypes
<1>5. work' = [work EXCEPT !.pc = "lists", !.todo = Tail(work.todo), !.at = 1]
  BY <1>1 DEF KeepList, WorkState
<1>6. /\ work' \in WorkState /\ work'.pc = "lists" /\ work'.lists = work.lists /\ work'.at = 1
      /\ work'.todo = Tail(work.todo) /\ work'.ask = None
  BY <1>1, <1>2, <1>4, <1>5 DEF WorkState, Steps
<1>7. Taken'
  BY <1>1, <1>6, <1>2 DEF Taken, Refreshing, Sweeping, Listing, queue
<1>8. ASSUME work'.todo # <<>> PROVE Noted(work.lists[This], work.at)'
  <2>1. This' \in Elements(work'.todo)
    BY <1>4, <1>6, <1>8, TailElements DEF This
  <2>2. work.lists[This'] \in StoredList
    BY <1>1, <1>4, <1>6, <2>1
  <2>3. work.lists[This'].entries \in Seq(WantlistEntry)
    BY <2>2 DEF StoredList
  <2>4. \A i \in DOMAIN work.lists[This'].entries : ~ (i < 1)
    BY <2>3, EntryFields
  <2> QED
    BY <1>6, <2>4 DEF Noted
<1>9. Copied'
  BY <1>1, <1>4, <1>6, <1>8 DEF Copied, Sweeping, Listing
<1> QED
  BY <1>2, <1>3, <1>6, <1>7, <1>9, QuietTypes DEF Working

(* There are no more pages than wants on the wantlist at Discogs.            *)
LEMMA PagesBounded == shop \subseteq Release => Pages \in 0 .. MaxRelease
<1> SUFFICES ASSUME shop \subseteq Release PROVE Pages \in 0 .. MaxRelease
  OBVIOUS
<1>1. Cardinality(shop) \in 0 .. MaxRelease
  BY BoundsAssumption, PlacesFinite DEF Release
<1>2. \A c \in Nat, p \in Nat \ {0} : (c + p - 1) \div p \in 0 .. c
  <2> TAKE c \in Nat, p \in Nat \ {0}
  <2> DEFINE q == (c + p - 1) \div p
             m == (c + p - 1) % p
  <2>1. c + p - 1 \in Nat
    OBVIOUS
  <2>2. q \in Nat /\ m \in 0 .. p - 1 /\ c + p - 1 = p * q + m
    BY <2>1, Z3
  <2> HIDE DEF q, m
  <2>3. p * q <= c + p - 1
    BY <2>2
  <2>4. CASE q > c
    <3>1. p * q >= p * (c + 1)
      BY <2>2, <2>4, Z3
    <3>2. p * (c + 1) = p * c + p
      BY Z3
    <3>3. p * c >= c /\ p * c \in Nat
      BY Z3
    <3> QED
      BY <2>2, <2>3, <3>1, <3>2, <3>3
  <2> QED
    BY <2>2, <2>4 DEF q
<1> QED
  BY <1>1, <1>2, BoundsAssumption DEF Pages

(* A page of the wantlist at Discogs is read and stored.                     *)
LEMMA PageTypes ==
  ASSUME TypeInv, ReadPage \/ PullWant
  PROVE  TypeInv'
<1>1. /\ work \in WorkState /\ Stores /\ World /\ jobs # <<>> /\ Head(jobs).kind = "sync" /\ work.ask = None
      /\ UNCHANGED <<lists, world, shop, due, queue, astray, moves>> /\ shop' \subseteq Release /\ lists' \in StoredLists
  BY DEF TypeInv, Working, Taken, Copied, Sweeping, ReadPage, PullWant, Stores, World, store
<1>2. CASE ReadPage
  <2> DEFINE todo == AsSeq(Page(Doing))
  <2>1. todo \in Seq(Nat) /\ Elements(todo) = Page(Doing) /\ Page(Doing) \subseteq Release
    <3>1. Page(Doing) \in SUBSET (1 .. MaxRelease) /\ MaxRelease \in Nat
      BY <1>1, BoundsAssumption DEF Release, Page, World
    <3> QED
      BY <3>1, PlacesInOrder DEF Release
  <2>2. Pages \in 0 .. MaxRelease /\ Pages \in Nat
    BY <1>1, PagesBounded, BoundsAssumption DEF World
  <2>3. work' = [work EXCEPT !.pc = "page", !.wants = wants, !.todo = todo, !.at = Pages]
    BY <1>2 DEF ReadPage
  <2> HIDE DEF todo
  <2>4. /\ work' \in WorkState /\ work'.pc = "page" /\ work'.wants = wants /\ work'.todo = todo
        /\ work'.at = Pages /\ work'.ask = None
    BY <1>1, <2>1, <2>2, <2>3 DEF WorkState, Steps, Stores
  <2>5. Taken' /\ Copied'
    BY <1>1, <2>1, <2>2, <2>4 DEF Taken, Copied, Refreshing, Sweeping, Listing, Stores, queue
  <2> QED
    BY <1>1, <1>2, <2>4, <2>5, SameWants, QuietTypes DEF ReadPage, store, Working
<1>3. CASE PullWant
  <2> DEFINE r == Head(work.todo)
             w == IF work.wants[r] = None THEN Found ELSE work.wants[r]
  <2>1. work.pc = "page" /\ work.todo # <<>> /\ work.wants \in StoredWants /\ work.at \in 0 .. MaxRelease
        /\ Elements(work.todo) \subseteq Release
    BY <1>3 DEF PullWant, TypeInv, Working, Copied
  <2>2. r \in Release /\ Tail(work.todo) \in Seq(Nat) /\ Elements(Tail(work.todo)) \subseteq Release
    BY <2>1, TodoTypes
  <2>3. Found \in Want
    BY DEF Found, NewWant, Want, WantState
  <2>4. w \in Want /\ wants' = [wants EXCEPT ![r] = w]
    BY <1>3, <2>1, <2>2, <2>3 DEF PullWant, StoredWants
  <2> HIDE DEF w
  <2>5. KeepsWants
    BY <1>1, <2>2, <2>4, NoneAssumption DEF KeepsWants, Stores, StoredWants
  <2>6. work' = [work EXCEPT !.todo = Tail(work.todo)]
    BY <1>1, <1>3 DEF PullWant, WorkState
  <2>7. /\ work' \in WorkState /\ work'.pc = "page" /\ work'.wants = work.wants /\ work'.todo = Tail(work.todo)
        /\ work'.at = work.at /\ work'.ask = None
    BY <1>1, <2>1, <2>2, <2>6 DEF WorkState
  <2>8. Taken' /\ Copied'
    BY <1>1, <2>1, <2>2, <2>7 DEF Taken, Copied, Refreshing, Sweeping, Listing, queue
  <2> QED
    BY <1>1, <2>5, <2>7, <2>8, QuietTypes DEF Working
<1> QED
  BY <1>2, <1>3

(* The first page enqueues the others, and the last leads on to AlignWants.  *)
LEMMA EndPageTypes == ASSUME TypeInv, EndPage PROVE TypeInv' /\ Kept /\ Remembered
<1> DEFINE n == IF Doing = 1 /\ work.at > 1 THEN work.at - 1 ELSE 0
           later == [i \in 1 .. n |-> SyncWants(i + 1)]
<1>1. /\ work \in WorkState /\ Stores /\ World /\ Queued /\ jobs # <<>> /\ Head(jobs).kind = "sync"
      /\ work.at \in 0 .. MaxRelease /\ MaxRelease \in Nat
      /\ UNCHANGED <<wants, lists, world, shop, due, astray>> /\ KeepsWants
  BY SameWants, BoundsAssumption DEF TypeInv, Working, Taken, Copied, EndPage, store
<1>2. NoWant(later)
  <2>1. n \in 0 .. MaxRelease /\ \A i \in 1 .. n : i + 1 \in 1 .. MaxRelease + 1
    BY <1>1
  <2> HIDE DEF n
  <2>2. \A i \in 1 .. n : SyncWants(i + 1) \in QueueElement /\ SyncWants(i + 1).kind = "sync"
    BY <2>1, OtherEntries
  <2>3. later \in Seq(QueueElement)
    BY <1>1, <2>1, <2>2
  <2> QED
    BY <2>2, <2>3 DEF NoWant, Elements
<1>3. \/ work' = [Idle EXCEPT !.pc = "align"] /\ Enqueue(jobs, {}, later)
      \/ work' = Idle /\ Enqueue(Tail(jobs), {}, later)
  BY DEF EndPage
<1> HIDE DEF later
<1>4. {} \in SUBSET Release
  OBVIOUS
<1>5. UNCHANGED moves \/ Move
  BY <1>3 DEF Enqueue
<1>6. World'
  BY <1>1, <1>5, WorldStays DEF World
<1>7. CASE work' = [Idle EXCEPT !.pc = "align"] /\ Enqueue(jobs, {}, later)
  <2>1. Asks(jobs, {}, later)
    BY <1>7 DEF Asks
  <2>2. Queued' /\ Kept /\ Remembered /\ jobs' # <<>> /\ Head(jobs') = Head(jobs)
    BY <1>1, <1>2, <1>4, <2>1, AsksAdds
  <2>3. work' \in WorkState
    BY <1>7, IdleTypes DEF WorkState, Steps
  <2>4. Taken' /\ Copied'
    BY <1>1, <1>7, <2>2 DEF Idle, Taken, Copied, Refreshing, Sweeping, Listing
  <2> QED
    BY <1>1, <1>6, <2>2, <2>3, <2>4 DEF TypeInv, Working, Stores
<1>8. CASE work' = Idle /\ Enqueue(Tail(jobs), {}, later)
  <2>1. Asks(Tail(jobs), {}, later)
    BY <1>8 DEF Asks
  <2>2. Queued' /\ Kept /\ Remembered
    BY <1>1, <1>2, <1>4, <2>1, AsksAdds
  <2> QED
    BY <1>1, <1>6, <1>8, <2>2, IdleWorks DEF TypeInv, Stores
<1> QED
  BY <1>3, <1>7, <1>8

(* The entries of a wantlist as it is configured.                            *)
LEMMA ConfiguredTypes ==
  ASSUME NEW ids \in StoredWantlist
  PROVE  /\ Configured(ids) \in Seq(WantlistEntry)
         /\ \E n \in 0 .. MaxRelease : DOMAIN Configured(ids) = 1 .. n /\ ids \in [1 .. n -> Release] /\ Len(ids) = n
<1>1. PICK n \in 0 .. MaxRelease : ids \in [1 .. n -> Release]
  BY DEF StoredWantlist
<1>2. DOMAIN Configured(ids) = 1 .. n /\ n \in Nat /\ Len(ids) = n
  BY <1>1 DEF Configured
<1>3. \A i \in 1 .. n : Entry(ids[i], i) \in WantlistEntry
  BY <1>1, BoundsAssumption DEF Entry, WantlistEntry, WantState
<1>4. Configured(ids) \in Seq(WantlistEntry)
  BY <1>1, <1>2, <1>3 DEF Configured
<1> QED
  BY <1>1, <1>2, <1>4

(* A wantlist that is configured again keeps entries and gets others.        *)
LEMMA MergedTypes ==
  ASSUME NEW old \in Seq(WantlistEntry), NEW ids \in StoredWantlist
  PROVE  Merged(old, ids) \in Seq(WantlistEntry)
<1> DEFINE At(i) == {j \in DOMAIN old : old[j].index = i}
           stay == {j \in DOMAIN old : ids # <<>> /\ old[j].index <= Len(ids)}
           kept == Subsequence(old, stay)
           named == [j \in DOMAIN kept |-> IF kept[j].index = 0 THEN kept[j]
                                           ELSE [kept[j] EXCEPT !.id = ids[kept[j].index]]]
           fresh == {i \in DOMAIN ids : At(i) = {}}
           added == Subsequence(Configured(ids), fresh)
<1>1. PICK n \in 0 .. MaxRelease : DOMAIN Configured(ids) = 1 .. n /\ ids \in [1 .. n -> Release] /\ Len(ids) = n
  BY ConfiguredTypes
<1>2. DOMAIN old = 1 .. Len(old) /\ Len(old) \in Nat /\ n \in Nat
  BY <1>1, LenProperties
<1>3. named \in Seq(WantlistEntry)
  <2>1. stay \in SUBSET (1 .. Len(old))
    BY <1>2
  <2>2. \A j \in stay : old[j] \in WantlistEntry /\ old[j].index <= n
    BY <1>1, EntryFields
  <2> HIDE DEF stay
  <2>3. stay \in SUBSET Int /\ IsFiniteSet(stay)
    BY <1>2, <2>1, PlacesFinite
  <2>4. kept \in Seq({old[j] : j \in stay})
    BY <2>3, ElementsOfPart
  <2> HIDE DEF kept
  <2>5. DOMAIN kept = 1 .. Len(kept) /\ Len(kept) \in Nat
        /\ \A j \in DOMAIN kept : kept[j] \in {old[k] : k \in stay}
    BY <2>4, LenProperties, ElementOfSeq
  <2>6. \A j \in DOMAIN kept : kept[j] \in WantlistEntry /\ kept[j].index <= n
    <3> TAKE j \in DOMAIN kept
    <3>1. PICK k \in stay : kept[j] = old[k]
      BY <2>5
    <3> QED
      BY <2>2, <3>1
  <2>7. \A j \in DOMAIN kept : (IF kept[j].index = 0 THEN kept[j]
                                ELSE [kept[j] EXCEPT !.id = ids[kept[j].index]]) \in WantlistEntry
    <3> TAKE j \in DOMAIN kept
    <3>1. PICK e \in WantlistEntry : e = kept[j] /\ e.index <= n
      BY <2>6
    <3>2. e.index # 0 => ids[e.index] \in Release
      BY <1>1, <1>2, <3>1 DEF WantlistEntry
    <3>3. e.index # 0 => [e EXCEPT !.id = ids[e.index]] \in WantlistEntry
      BY <3>2 DEF WantlistEntry
    <3> QED
      BY <3>1, <3>3
  <2> QED
    BY <2>5, <2>7
<1>4. added \in Seq(WantlistEntry)
  <2>1. fresh \in SUBSET (1 .. n)
    BY <1>1
  <2>2. \A i \in fresh : Configured(ids)[i] \in WantlistEntry
    BY <1>1, <2>1, ConfiguredTypes, EntryFields
  <2> HIDE DEF fresh
  <2>3. fresh \in SUBSET Int /\ IsFiniteSet(fresh)
    BY <1>2, <2>1, PlacesFinite
  <2>4. added \in Seq({Configured(ids)[i] : i \in fresh})
    BY <2>3, ElementsOfPart
  <2>5. {Configured(ids)[i] : i \in fresh} \subseteq WantlistEntry
    BY <2>2
  <2> QED
    BY <2>4, <2>5, SeqMonotonic
<1>5. Merged(old, ids) = named \o added
  BY DEF Merged
<1> HIDE DEF named, added
<1> QED
  BY <1>3, <1>4, <1>5, ConcatProperties

(* The wants of no wantlist go to the transfer list.                         *)
LEMMA TransferredTypes ==
  ASSUME Stores, NEW S \in SUBSET Release
  PROVE  Transferred(S) \in StoredLists
<1> DEFINE seq == AsSeq(S)
           new == [i \in DOMAIN seq |-> Entry(seq[i], 0)]
           list == IF lists[TransferList] = None THEN [type |-> "ONE_BY_ONE", entries |-> <<>>]
                   ELSE lists[TransferList]
<1>1. Transferred(S) = [lists EXCEPT ![TransferList] = [list EXCEPT !.entries = @ \o new]]
  BY DEF Transferred
<1>2. new \in Seq(WantlistEntry)
  <2>1. S \in SUBSET (1 .. MaxRelease) /\ MaxRelease \in Nat
    BY BoundsAssumption DEF Release
  <2>2. seq \in Seq(S) /\ DOMAIN seq = 1 .. Cardinality(S) /\ Cardinality(S) \in 0 .. MaxRelease
    BY <2>1, AsSeqElements
  <2> HIDE DEF seq
  <2>3. \A i \in DOMAIN seq : seq[i] \in Release
    BY <2>2, LenProperties, ElementOfSeq
  <2>4. \A i \in DOMAIN seq : Entry(seq[i], 0) \in WantlistEntry
    BY <2>1, <2>3 DEF Entry, WantlistEntry, WantState
  <2> QED
    BY <2>2, <2>4
<1> HIDE DEF new
<1>3. CASE TransferList \in List
  <2>1. list \in StoredList
    <3>1. <<>> \in Seq(WantlistEntry) /\ "ONE_BY_ONE" \in Types
      BY BoundsAssumption
    <3> QED
      BY <1>3, <3>1 DEF Stores, StoredLists, StoredList
  <2> HIDE DEF list
  <2>2. list.entries \o new \in Seq(WantlistEntry)
    BY <1>2, <2>1, ConcatProperties DEF StoredList
  <2>3. [list EXCEPT !.entries = @ \o new] \in StoredList
    BY <2>1, <2>2 DEF StoredList
  <2> QED
    BY <1>1, <1>3, <2>3 DEF Stores, StoredLists
<1>4. CASE TransferList \notin List
  BY <1>1, <1>4 DEF Stores, StoredLists
<1> QED
  BY <1>3, <1>4

(* AlignWants drops wants or puts them on a wantlist.                        *)
LEMMA AlignWantsTypes == ASSUME TypeInv, AlignWants PROVE TypeInv'
<1> DEFINE drop == policy.existing = "DROP"
<1>1. /\ Stores /\ World /\ jobs # <<>> /\ Head(jobs).kind = "sync"
      /\ UNCHANGED <<world, shop, due, queue, astray, moves>> /\ shop' \subseteq Release
  BY DEF TypeInv, Working, Taken, AlignWants, World
<1>2. KeepsWants
  <2>1. \A r \in Loose : [wants[r] EXCEPT !.state = "RETIRED"] \in Want
    BY <1>1 DEF Loose, Stores, StoredWants, Want, WantState
  <2>2. \A r \in Release : wants'[r] = IF r \in Loose /\ drop THEN [wants[r] EXCEPT !.state = "RETIRED"] ELSE wants[r]
    BY DEF AlignWants
  <2>3. \A r \in Release : wants'[r] \in Want \cup {None} /\ (wants[r] # None => wants'[r] # None)
    <3> TAKE r \in Release
    <3>1. wants[r] \in Want \cup {None}
      BY <1>1 DEF Stores, StoredWants
    <3>2. CASE r \in Loose /\ drop
      BY <2>1, <2>2, <3>2, NoneAssumption
    <3>3. CASE ~(r \in Loose /\ drop)
      BY <2>2, <3>1, <3>3
    <3> QED
      BY <3>2, <3>3
  <2>4. wants' = [r \in Release |-> wants'[r]]
    BY DEF AlignWants
  <2> QED
    BY <2>3, <2>4 DEF StoredWants, KeepsWants
<1>3. lists' \in StoredLists
  <2>1. Loose \in SUBSET Release
    BY DEF Loose
  <2>2. Transferred(Loose) \in StoredLists
    BY <1>1, <2>1, TransferredTypes
  <2> QED
    BY <1>1, <2>2 DEF AlignWants, Stores
<1>4. Working'
  <2>1. work' = [Idle EXCEPT !.pc = "spread"]
    BY DEF AlignWants
  <2>2. work' \in WorkState
    BY <2>1, IdleTypes DEF WorkState, Steps
  <2>3. Taken' /\ Copied'
    BY <1>1, <2>1 DEF Idle, Taken, Copied, Refreshing, Sweeping, Listing, queue
  <2> QED
    BY <2>2, <2>3 DEF Working
<1> QED
  BY <1>1, <1>2, <1>3, <1>4, QuietTypes

(* The entries for the two sweeps.                                           *)
LEMMA SweepEntries ==
  /\ NoWant(<<RefreshWants>> \o Once(RefreshWantlists)) /\ NoWant(Once(RefreshWantlists)) /\ NoWant(<<>>)
<1>1. <<>> \in Seq(QueueElement) /\ Elements(<<>>) = {}
  BY DEF Elements
<1>2. <<RefreshWantlists>> \in Seq(QueueElement) /\ Elements(<<RefreshWantlists>>) = {RefreshWantlists}
  <2>1. DOMAIN <<RefreshWantlists>> = {1} /\ <<RefreshWantlists>>[1] = RefreshWantlists
    OBVIOUS
  <2> QED
    BY <2>1, OtherEntries DEF Elements
<1>3. <<RefreshWants>> \in Seq(QueueElement) /\ Elements(<<RefreshWants>>) = {RefreshWants}
  <2>1. DOMAIN <<RefreshWants>> = {1} /\ <<RefreshWants>>[1] = RefreshWants
    OBVIOUS
  <2> QED
    BY <2>1, OtherEntries DEF Elements
<1>4. NoWant(Once(RefreshWantlists)) /\ NoWant(<<>>) /\ NoWant(<<RefreshWants>>)
  BY <1>1, <1>2, <1>3, OtherEntries DEF NoWant, Once
<1>5. ASSUME NEW s, NEW t, NoWant(s), NoWant(t) PROVE NoWant(s \o t)
  BY <1>5, ConcatElements DEF NoWant
<1> QED
  BY <1>4, <1>5

(* A sync ends with the refreshes and the two sweeps in the queue.           *)
LEMMA SpreadTypes == ASSUME TypeInv, Spread PROVE TypeInv' /\ Kept /\ Remembered
<1> DEFINE open == {r \in Release : wants[r] # None /\ ~ wants[r].clean}
           sweeps == <<RefreshWants>> \o Once(RefreshWantlists)
<1>1. /\ Stores /\ World /\ Queued /\ jobs # <<>>
      /\ UNCHANGED <<wants, lists, world, shop, astray>> /\ KeepsWants /\ due' \in BOOLEAN
  BY SameWants DEF TypeInv, Working, Taken, Spread, store
<1>2. NoWant(sweeps)
  BY SweepEntries
<1>3. open \in SUBSET Release /\ \A r \in open : wants'[r] # None
  BY <1>1
<1>4. Enqueue(Tail(jobs), open, sweeps) /\ work' = Idle
  BY DEF Spread
<1> HIDE DEF sweeps, open
<1>5. Asks(Tail(jobs), open, sweeps) /\ (UNCHANGED moves \/ Move)
  BY <1>4 DEF Asks, Enqueue
<1>6. Queued' /\ Kept /\ Remembered
  BY <1>1, <1>2, <1>3, <1>5, AsksAdds
<1>7. World'
  BY <1>1, <1>5, WorldStays DEF World
<1> QED
  BY <1>1, <1>4, <1>6, <1>7, IdleWorks DEF TypeInv, Stores

(*-------------------------------------------------------------------------*)
(* The users, the world and the start                                      *)

(* Users write stores, and the queue gets their requests or loses them.      *)
LEMMA OfferTypes ==
  ASSUME TypeInv, UNCHANGED <<work, shop, astray, due, policy, shut, span>>, UNCHANGED moves \/ Move,
         KeepsWants, lists' \in StoredLists, stock' \in Records,
         NEW S \in SUBSET Release, NEW rest, NoWant(rest), Asks(jobs, S, rest), \A r \in S : wants'[r] # None
  PROVE  TypeInv'
<1>1. Queued' /\ (jobs # <<>> => jobs' # <<>> /\ Head(jobs') = Head(jobs))
  BY AsksAdds DEF TypeInv
<1>2. World'
  BY BoundsAssumption DEF TypeInv, World, Move
<1>3. Working'
  BY <1>1, WorkerWaits
<1> QED
  BY <1>1, <1>2, <1>3 DEF TypeInv, Stores, KeepsWants

(* Users write wants.                                                        *)
LEMMA UserWantTypes ==
  ASSUME TypeInv, NEW r \in Release, AddWant(r) \/ AskRefresh(r) \/ AddRecord(r)
  PROVE  TypeInv'
<1>1. /\ Stores /\ World /\ UNCHANGED <<work, lists, shop, astray, due, policy, shut, span>> /\ Move
      /\ lists' \in StoredLists
  BY DEF TypeInv, AddWant, AskRefresh, AddRecord, store, Stores, world
<1>2. ASSUME NEW w \in Want, wants' = [wants EXCEPT ![r] = w]
      PROVE  KeepsWants /\ wants'[r] # None
  BY <1>1, <1>2, NoneAssumption DEF KeepsWants, Stores, StoredWants
<1>3. CASE AddWant(r) \/ AskRefresh(r)
  <2>1. KeepsWants /\ wants'[r] # None
    <3>1. CASE AddWant(r)
      <4>1. NewWant("UNKNOWN", "WANTED", {}) \in Want
        BY DEF NewWant, Want, WantState
      <4> QED
        BY <1>2, <3>1, <4>1 DEF AddWant
    <3>2. CASE AskRefresh(r)
      <4>1. [wants[r] EXCEPT !.state = "UNKNOWN"] \in Want
        BY <1>1, <3>2 DEF AskRefresh, Stores, StoredWants, Want, WantState
      <4>2. wants' = [wants EXCEPT ![r] = [wants[r] EXCEPT !.state = "UNKNOWN"]]
        BY <1>1, <3>2 DEF AskRefresh, Stores, StoredWants
      <4> QED
        BY <1>2, <4>1, <4>2
    <3> QED
      BY <1>3, <3>1, <3>2
  <2>2. stock' \in Records /\ Asks(jobs, {r}, <<>>)
    BY <1>1, <1>3 DEF AddWant, AskRefresh, world, World, Asks
  <2>3. {r} \in SUBSET Release /\ \A t \in {r} : wants'[t] # None
    BY <2>1
  <2> QED
    BY <1>1, <2>1, <2>2, <2>3, OfferTypes, SweepEntries
<1>4. CASE AddRecord(r)
  <2> DEFINE there == {t \in {r} : wants[t] # None}
  <2>1. stock' \in Records
    BY <1>1, <1>4 DEF AddRecord, World, Records
  <2>2. CASE UNCHANGED <<wants, queue>>
    <3>1. Queued' /\ Working'
      BY <1>1, <2>2, SameWants, QueueStays, WorkerWaits DEF queue, TypeInv, Queued
    <3>2. World'
      BY <1>1, <2>1, BoundsAssumption DEF World, Move
    <3> QED
      BY <1>1, <2>2, <3>1, <3>2 DEF TypeInv, Stores
  <2>3. CASE ~ UNCHANGED <<wants, queue>>
    <3>1. /\ IF wants[r] = None THEN UNCHANGED wants ELSE wants' = [wants EXCEPT ![r].intended = "IN_TRANSIT"]
          /\ Asks(jobs, there, Once(RefreshWantlists))
      BY <1>4, <2>3 DEF AddRecord, Asks
    <3>2. KeepsWants
      <4>1. CASE wants[r] = None
        BY <3>1, <4>1, SameWants
      <4>2. CASE wants[r] # None
        <5>1. [wants[r] EXCEPT !.intended = "IN_TRANSIT"] \in Want
          BY <1>1, <4>2 DEF Stores, StoredWants, Want, WantState
        <5>2. wants' = [wants EXCEPT ![r] = [wants[r] EXCEPT !.intended = "IN_TRANSIT"]]
          BY <1>1, <3>1, <4>2 DEF Stores, StoredWants
        <5> QED
          BY <1>2, <5>1, <5>2
      <4> QED
        BY <4>1, <4>2
    <3>3. there \in SUBSET Release /\ \A t \in there : wants'[t] # None
      BY <3>2 DEF KeepsWants
    <3> HIDE DEF there
    <3> QED
      BY <1>1, <2>1, <3>1, <3>2, <3>3, OfferTypes, SweepEntries
  <2> QED
    BY <2>2, <2>3
<1> QED
  BY <1>3, <1>4

(* A record arrives, or wantlists change.                                    *)
LEMMA UserListTypes ==
  ASSUME TypeInv,
         \/ \E r \in Release : Arrive(r)
         \/ \E l \in List : DeleteWantlist(l)
         \/ \E l \in List, c \in Configs : SetWantlist(l, c)
  PROVE  TypeInv'
<1>1. /\ Stores /\ World /\ UNCHANGED <<work, wants, shop, astray, due, policy, shut, span>> /\ KeepsWants
      /\ {} \in SUBSET Release
  BY SameWants DEF TypeInv, Arrive, DeleteWantlist, SetWantlist, store, world
<1>2. CASE \E r \in Release : Arrive(r)
  <2>1. PICK r \in Release : stock' = [stock EXCEPT ![r] = "arrived"]
    BY <1>2 DEF Arrive
  <2>2. stock' \in Records
    BY <1>1, <2>1 DEF World, Records
  <2>3. lists' \in StoredLists /\ Enqueue(jobs, {}, <<RefreshWants>> \o Once(RefreshWantlists))
    BY <1>1, <1>2 DEF Arrive, store, Stores
  <2>4. Asks(jobs, {}, <<RefreshWants>> \o Once(RefreshWantlists)) /\ (UNCHANGED moves \/ Move)
    BY <2>3 DEF Asks, Enqueue
  <2> QED
    BY <1>1, <2>2, <2>3, <2>4, OfferTypes, SweepEntries
<1>3. CASE \/ \E l \in List : DeleteWantlist(l)
           \/ \E l \in List, c \in Configs : SetWantlist(l, c)
  <2>1. Move /\ stock' = stock /\ Asks(jobs, {}, Once(RefreshWantlists))
    BY <1>3 DEF DeleteWantlist, SetWantlist, world, Asks
  <2>2. lists' \in StoredLists
    <3>1. CASE \E l \in List : DeleteWantlist(l)
      BY <1>1, <3>1 DEF DeleteWantlist, Stores, StoredLists
    <3>2. CASE \E l \in List, c \in Configs : SetWantlist(l, c)
      <4>1. PICK l \in List, c \in Configs : SetWantlist(l, c)
        BY <3>2
      <4>2. c.type \in Types /\ c.ids \in StoredWantlist
        BY StartsAssumption
      <4> DEFINE es == IF lists[l] = None THEN Configured(c.ids) ELSE Merged(lists[l].entries, c.ids)
      <4>3. es \in Seq(WantlistEntry)
        <5>1. Configured(c.ids) \in Seq(WantlistEntry)
          BY <4>2, ConfiguredTypes
        <5>2. lists[l] # None => lists[l].entries \in Seq(WantlistEntry)
          BY <1>1 DEF Stores, StoredLists, StoredList
        <5>3. lists[l] # None => Merged(lists[l].entries, c.ids) \in Seq(WantlistEntry)
          BY <4>2, <5>2, MergedTypes
        <5> QED
          BY <5>1, <5>3
      <4>4. lists' = [lists EXCEPT ![l] = [type |-> c.type, entries |-> es]]
        BY <4>1 DEF SetWantlist
      <4> HIDE DEF es
      <4> QED
        BY <1>1, <4>2, <4>3, <4>4 DEF Stores, StoredLists, StoredList
    <3> QED
      BY <1>3, <3>1, <3>2
  <2>3. stock' \in Records
    BY <1>1, <2>1 DEF World
  <2> QED
    BY <1>1, <2>1, <2>2, <2>3, OfferTypes, SweepEntries
<1> QED
  BY <1>2, <1>3

(* The user at Discogs and time leave the stores alone.                      *)
LEMMA OutsideTypes ==
  ASSUME TypeInv, \/ \E r \in Release : EditWantlist(r)
                  \/ \E l \in List : Toggle(l)
                  \/ Advance \/ NextDay
  PROVE  TypeInv'
<1>1. Stores /\ World /\ UNCHANGED <<work, wants, lists>> /\ KeepsWants
  BY SameWants DEF TypeInv, EditWantlist, Toggle, Advance, NextDay, store
<1>2. /\ moves' \in 0 .. MaxMoves /\ moves <= moves' /\ span' \in 1 .. moves' + 1
      /\ shut' \subseteq List /\ shop' \subseteq Release /\ astray' \subseteq Release
  <2>1. CASE \E r \in Release : EditWantlist(r)
    BY <1>1, <2>1, BoundsAssumption DEF EditWantlist, Move, World, world
  <2>2. CASE \E l \in List : Toggle(l)
    BY <1>1, <2>2, BoundsAssumption DEF Toggle, Move, World
  <2>3. CASE Advance \/ NextDay
    BY <1>1, <2>3, BoundsAssumption DEF Advance, NextDay, Move, World, world
  <2> QED
    BY <2>1, <2>2, <2>3
<1>3. World'
  BY <1>1, <1>2 DEF EditWantlist, Toggle, Advance, NextDay, World, world
<1>4. Queued' /\ Working'
  <2>1. CASE NextDay
    <3>1. SyncWants(1) \in QueueElement /\ SyncWants(1).kind = "sync"
      BY OtherEntries, BoundsAssumption
    <3>2. jobs = <<>> /\ jobs' = <<SyncWants(1)>> /\ UNCHANGED <<stuck, lost>>
      BY <2>1 DEF NextDay
    <3>3. DOMAIN jobs' = {1} /\ jobs'[1] = SyncWants(1)
      BY <3>2
    <3>4. Queued'
      BY <1>1, <3>1, <3>2, <3>3 DEF TypeInv, Queued, Present
    <3> QED
      BY <1>1, <3>2, <3>4, WorkerWaits
  <2>2. CASE ~NextDay
    <3>1. UNCHANGED <<jobs, stuck, lost>>
      BY <2>2 DEF EditWantlist, Toggle, Advance, queue
    <3> QED
      BY <1>1, <3>1, QueueStays, WorkerWaits DEF TypeInv, Queued
  <2> QED
    BY <2>1, <2>2
<1> QED
  BY <1>1, <1>3, <1>4 DEF TypeInv, Stores

(* At the start only the wantlists are to be refreshed.                      *)
LEMMA InitTypes == Init => TypeInv
<1> SUFFICES ASSUME Init PROVE TypeInv
  OBVIOUS
<1>1. PICK start \in Start :
        lists = start.lists /\ stock = start.stock /\ shop = start.shop /\ policy = start.policy
  BY StartsAssumption DEF Init
<1>2. Stores
  <2> DEFINE all == {Configured(ids) : ids \in StoredWantlist}
  <2>1. all \subseteq Seq(WantlistEntry)
    BY ConfiguredTypes
  <2>2. lists \in [List -> {None} \cup [type : Types, entries : all]]
    BY <1>1 DEF Start
  <2> HIDE DEF all
  <2>3. lists \in StoredLists
    BY <2>1, <2>2 DEF StoredLists, StoredList
  <2>4. wants \in StoredWants
    BY DEF Init, StoredWants
  <2> QED
    BY <2>3, <2>4 DEF Stores
<1>3. World
  <2>1. stock \in [Release -> {"none", "arrived"}] /\ shop \subseteq Release /\ policy \in WantsConfig
    BY <1>1 DEF Start
  <2>2. moves = 0 /\ span = 1 /\ MaxMoves \in Nat
    BY BoundsAssumption DEF Init
  <2>3. moves \in 0 .. MaxMoves /\ span \in 1 .. moves + 1
    BY <2>2
  <2>4. stock \in Records
    BY <2>1 DEF Records
  <2> QED
    BY <2>1, <2>3, <2>4 DEF Init, World
<1>4. jobs \in Seq(QueueElement) /\ Elements(jobs) = {RefreshWantlists}
  <2>1. jobs = <<RefreshWantlists>> /\ RefreshWantlists \in QueueElement
    BY OtherEntries DEF Init
  <2>2. DOMAIN jobs = {1} /\ jobs[1] = RefreshWantlists
    BY <2>1
  <2> QED
    BY <2>1, <2>2 DEF Elements
<1>5. Queued
  BY <1>4, PresentElements, OtherEntries DEF Queued, Init
<1>6. Working
  BY IdleTypes DEF Init, Working, Taken, Copied, Refreshing, Sweeping, Listing, Idle
<1> QED
  BY <1>2, <1>3, <1>5, <1>6 DEF TypeInv

(* Every step keeps the types.                                               *)
LEMMA TypeStep == TypeInv /\ [Next]_vars => TypeInv'
<1> SUFFICES ASSUME TypeInv, [Next]_vars PROVE TypeInv'
  OBVIOUS
<1>1. CASE Worker
  BY <1>1, BeginTypes, EndTypes, RefreshWantTypes, SweepTypes, AskTypes, SyncEntryTypes, JudgeTypes, VisitEntryTypes,
     KeepListTypes, PageTypes, EndPageTypes, AlignWantsTypes, SpreadTypes DEF Worker
<1>2. CASE Restart \/ FailCall \/ Bury
  BY <1>2, EndTypes
<1>3. CASE Users
  BY <1>3, UserWantTypes, UserListTypes, OutsideTypes DEF Users
<1>4. CASE Advance \/ NextDay
  BY <1>4, OutsideTypes
<1>5. CASE UNCHANGED vars
  <2>1. UNCHANGED <<wants, lists, world, shop, due, queue, work, astray, moves>>
    BY <1>5 DEF vars, world, queue
  <2>2. KeepsWants /\ shop' \subseteq Release /\ lists' \in StoredLists
    BY <2>1, SameWants DEF TypeInv, World, Stores
  <2>3. Working'
    BY <2>1, <2>2, WorkerWaits DEF queue
  <2> QED
    BY <2>1, <2>2, <2>3, QuietTypes
<1> QED
  BY <1>1, <1>2, <1>3, <1>4, <1>5 DEF Next

(* Every refresh in the queue is of a want that is stored, and the stores,   *)
(* the queue and the worker's copies hold values of their types.             *)
THEOREM WantsTypeCorrect == Spec => []TypeOK
<1>1. Spec => []TypeInv
  BY InitTypes, TypeStep, PTL DEF Spec
<1> QED
  BY <1>1, TypeInvTypes, PTL

(*-------------------------------------------------------------------------*)
(* What is stored of a want and what is so at Discogs                      *)

(* Only the want whose refresh is at the head of the queue may differ from   *)
(* Discogs, between the call and the save: it still has a state to reach, so *)
(* the next attempt calls Discogs again.                                     *)
InWindow(r) ==
  /\ jobs # <<>> /\ Head(jobs) = RefreshWant(r)
  /\ work.pc \in {"idle", "call", "save"} /\ ~ Balanced(wants[r])
Matched(r) == wants[r] # None /\ r \notin astray => Agrees(r, wants[r].state) \/ InWindow(r)

(* Only a record the user has makes a want bought: a new record always gives *)
(* its want another state to reach.                                          *)
Backed(r, w) == w.state \in Bought \/ w.intended \in Bought => stock[r] # "none"
Supported(r) == wants[r] # None => Backed(r, wants[r])

(* A want that has a state to reach is queued, about to be, or left for the  *)
(* daily sync.                                                               *)
Forgettable(r, w) ==
  policy.existing = "LIST" /\ r \notin astray \cup lost /\ w # None /\ w.clean /\ ~ Balanced(w)
Chased(r) == Forgettable(r, wants[r]) => RefreshWant(r) \in Present \/ r \in Asked

(* The copy of the want that is refreshed, before the call and after it.     *)
Unreached(w) == w.state = "UNKNOWN" \/ ~ Balanced(w)
RefreshedCopy ==
  /\ work.pc \in {"call", "save", "retire", "store"} => Backed(Doing, work.want)
  /\ work.pc = "call" => ~ Balanced(work.want) /\ Unreached(wants[Doing])
  /\ work.pc \in {"save", "retire", "store"} =>
       Balanced(work.want) /\ (Doing \in astray \/ Agrees(Doing, work.want.state))
  /\ work.pc = "stored" => ~ Forgettable(Doing, wants[Doing])

(* The copies RefreshWants and SyncWants write back.                         *)
CopySound(r, w) == w # None => Backed(r, w) /\ (r \in astray \/ Agrees(r, w.state))
SweptCopies ==
  Sweeping => \A r \in Release : CopySound(r, work.wants[r]) /\ (work.recs[r] # "none" => stock[r] # "none")
PageCopies ==
  work.pc = "page" =>
    /\ \A r \in Release : /\ CopySound(r, work.wants[r])
                          /\ Forgettable(r, work.wants[r]) => RefreshWant(r) \in Present
    /\ \A r \in Elements(work.todo) : r \in shop \cup astray

Sound(r) == Matched(r) /\ Supported(r) /\ Chased(r)
MatchInv == (\A r \in Release : Sound(r)) /\ RefreshedCopy /\ SweptCopies /\ PageCopies

(* What the invariant says of settled wants.                                 *)
LEMMA MatchInvShows == TypeInv /\ MatchInv => CleanMatches /\ Pursued
<1> SUFFICES ASSUME TypeInv, MatchInv PROVE CleanMatches /\ Pursued
  OBVIOUS
<1>1. ASSUME NEW r \in Release, Settled(r) PROVE ~InWindow(r)
  <2>1. jobs # <<>> => Head(jobs) \in Present
    BY TailElements, PresentElements DEF TypeInv, Queued
  <2> QED
    BY <1>1, <2>1 DEF Settled, InWindow
<1>2. CleanMatches
  BY <1>1 DEF MatchInv, Sound, Matched, CleanMatches, Settled
<1>3. Pursued
  BY DEF MatchInv, Sound, Chased, Forgettable, Pursued, Settled
<1> QED
  BY <1>2, <1>3

(* Only the sweeps ask for refreshes.                                        *)
LEMMA NobodyAsks ==
  ASSUME TypeInv, ~ Sweeping, work.pc \notin {"visit", "shut"}
  PROVE  work.ask = None /\ Asked = {}
BY DEF TypeInv, Working, Copied, Asked

(* The refresh of one want leaves the others as they are.                    *)
LEMMA OthersStaySound ==
  ASSUME TypeInv, MatchInv, jobs # <<>>, NEW d \in Release, Head(jobs) = RefreshWant(d), Asked = {},
         NEW r \in Release, r # d, UNCHANGED <<policy, stock, lost>>, astray \subseteq astray',
         wants'[r] = wants[r], r \in shop' <=> r \in shop, Kept
  PROVE  Sound(r)'
<1>1. RefreshWant(r) # Head(jobs)
  BY RefreshWantDiffers
<1>2. Sound(r) /\ ~InWindow(r)
  BY <1>1 DEF MatchInv, InWindow
<1>3. Matched(r)'
  BY <1>2 DEF Sound, Matched, Agrees, SaysNothing
<1>4. Supported(r)'
  BY <1>2 DEF Sound, Supported, Backed
<1>5. Chased(r)'
  BY <1>1, <1>2 DEF Sound, Chased, Forgettable, Kept
<1> QED
  BY <1>3, <1>4, <1>5 DEF Sound

(* There are no copies to write back then.                                   *)
LEMMA NoCopies ==
  ASSUME work'.pc \notin {"wants", "claim", "page"}
  PROVE  SweptCopies' /\ PageCopies'
BY DEF SweptCopies, PageCopies, Sweeping

(* BeginWant: the copy is what is stored.                                    *)
LEMMA BeginWantMatches == ASSUME TypeInv, MatchInv, BeginWant PROVE MatchInv'
<1>1. PICK d \in Release : /\ d = Doing /\ jobs # <<>> /\ wants[d] \in Want /\ Head(jobs) = RefreshWant(d)
                           /\ Sound(d)
  BY DoingWant DEF BeginWant, Begin, Doing, MatchInv
<1>2. /\ work'.want = wants[d] /\ work'.pc = IF Balanced(wants[d]) THEN "store" ELSE "call"
      /\ UNCHANGED <<wants, jobs, lost, shop, stock, policy, astray>> /\ work.pc = "idle"
  BY <1>1 DEF BeginWant, Idle, Begin, store, world, queue
<1>3. Matched(d)'
  BY <1>1, <1>2 DEF Sound, Matched, Agrees, SaysNothing, InWindow, Balanced
<1>4. Asked = {} /\ Present' = Present
  BY <1>2, NobodyAsks DEF Present, Sweeping
<1>5. Sound(d)'
  BY <1>1, <1>2, <1>3, <1>4 DEF Sound, Supported, Backed, Chased, Forgettable
<1>6. \A r \in Release : Sound(r)'
  BY <1>1, <1>2, <1>4, <1>5, OthersStaySound DEF Kept
<1>7. RefreshedCopy'
  <2>1. Backed(d, work.want)'
    BY <1>1, <1>2, NoneAssumption DEF Sound, Supported, Backed
  <2>2. work'.pc = "call" => ~ Balanced(work'.want) /\ Unreached(wants'[d])
    BY <1>2 DEF Unreached
  <2>3. Balanced(wants[d]) => d \in astray \/ Agrees(d, wants[d].state)
    BY <1>1, NoneAssumption DEF Sound, Matched, InWindow
  <2>4. work'.pc = "store" => Balanced(work'.want) /\ (d \in astray' \/ Agrees(d, work.want.state)')
    BY <1>2, <2>3 DEF Agrees, SaysNothing
  <2> QED
    BY <1>1, <1>2, <2>1, <2>2, <2>4 DEF RefreshedCopy, Doing
<1> QED
  BY <1>2, <1>6, <1>7, NoCopies DEF MatchInv

(* What the worker has when it refreshes a want.                             *)
LEMMA RefreshingWant ==
  ASSUME TypeInv, work.pc \in {"call", "save", "retire", "store"}
  PROVE  /\ \E d \in Release : d = Doing /\ wants[d] \in Want /\ Head(jobs) = RefreshWant(d)
         /\ jobs # <<>> /\ work.want \in Want /\ work \in WorkState /\ wants \in StoredWants
         /\ work.ask = None /\ Asked = {}
BY DoingWant, NobodyAsks DEF TypeInv, Stores, Working, Taken, Copied, Refreshing, Sweeping

(* CallDiscogs: the copy has the state Discogs was told.                     *)
LEMMA CallDiscogsMatches == ASSUME TypeInv, MatchInv, CallDiscogs PROVE MatchInv'
<1>1. PICK d \in Release : /\ d = Doing /\ jobs # <<>> /\ wants[d] \in Want /\ Head(jobs) = RefreshWant(d)
                           /\ Sound(d) /\ work.want \in Want /\ work \in WorkState /\ Asked = {} /\ work.ask = None
  BY RefreshingWant DEF CallDiscogs, MatchInv
<1>2. /\ work'.want.state = work.want.intended /\ work'.want.intended = work.want.intended
      /\ work'.pc = "save" /\ UNCHANGED <<wants, jobs, lost, stock, policy, astray>> /\ work.pc = "call"
      /\ shop' = IF work.want.intended = "WANTED" THEN shop \cup {d} ELSE shop \ {d}
  BY <1>1 DEF CallDiscogs, store, world, queue, WorkState, Want
<1>3. Present' = Present
  BY <1>2 DEF Present
<1>4. Unreached(wants[d]) /\ Backed(d, work.want)
  BY <1>1, <1>2 DEF MatchInv, RefreshedCopy, Doing
<1>5. Matched(d)'
  BY <1>1, <1>2, <1>4 DEF Unreached, Matched, Agrees, SaysNothing, InWindow, Balanced
<1>6. Sound(d)'
  BY <1>1, <1>2, <1>3, <1>5 DEF Sound, Supported, Backed, Chased, Forgettable
<1>7. \A r \in Release : Sound(r)'
  BY <1>1, <1>2, <1>3, <1>6, OthersStaySound DEF Kept
<1>8. RefreshedCopy'
  <2>1. Backed(d, work.want)'
    BY <1>2, <1>4 DEF Backed
  <2>2. Agrees(d, work.want.state)' /\ Balanced(work'.want)
    BY <1>2 DEF Agrees, Balanced
  <2> QED
    BY <1>1, <1>2, <2>1, <2>2 DEF RefreshedCopy, Doing
<1> QED
  BY <1>2, <1>7, <1>8, NoCopies DEF MatchInv

(* The queue loses nothing but the task that is done.                        *)
LEMMA DoneKeeps == TypeInv /\ jobs # <<>> /\ Done => Kept /\ UNCHANGED lost /\ work' = Idle
<1> SUFFICES ASSUME TypeInv, jobs # <<>>, Done PROVE Kept
  BY DEF Done
<1> QED
  BY HeadAndTail, PresentElements DEF Done, Kept, TypeInv, Queued

(* SaveCalled: what Discogs was told is stored.                              *)
LEMMA SaveCalledMatches == ASSUME TypeInv, MatchInv, SaveCalled PROVE MatchInv'
<1>1. PICK d \in Release : /\ d = Doing /\ jobs # <<>> /\ wants[d] \in Want /\ Head(jobs) = RefreshWant(d)
                           /\ work.want \in Want /\ work \in WorkState /\ wants \in StoredWants /\ Asked = {}
  BY RefreshingWant DEF SaveCalled
<1>2. wants' = [wants EXCEPT ![d] = work.want] /\ UNCHANGED <<shop, stock, policy, astray>> /\ work.pc = "save"
  BY <1>1 DEF SaveCalled, world
<1>3. /\ Backed(d, work.want) /\ Balanced(work.want) /\ (d \in astray \/ Agrees(d, work.want.state))
  BY <1>1, <1>2 DEF MatchInv, RefreshedCopy, Doing
<1>4. \/ work'.pc \in {"store", "retire"} /\ work'.want = work.want /\ UNCHANGED <<jobs, lost>>
      \/ Done
  BY <1>1 DEF SaveCalled, WorkState, queue
<1>5. Kept /\ UNCHANGED lost
  BY <1>1, <1>4, DoneKeeps DEF Kept, Present
<1>6. wants'[d] = work.want /\ \A r \in Release \ {d} : wants'[r] = wants[r]
  BY <1>1, <1>2 DEF StoredWants
<1>7. Sound(d)'
  BY <1>1, <1>2, <1>3, <1>6 DEF Sound, Matched, Agrees, SaysNothing, Supported, Backed, Chased, Forgettable
<1>8. \A r \in Release : Sound(r)'
  BY <1>1, <1>2, <1>5, <1>6, <1>7, OthersStaySound
<1>9. RefreshedCopy' /\ SweptCopies' /\ PageCopies'
  <2>1. CASE work'.pc \in {"store", "retire"} /\ work'.want = work.want /\ UNCHANGED <<jobs, lost>>
    <3>1. Doing' = d
      BY <1>1, <2>1 DEF Doing
    <3>2. Backed(d, work.want)' /\ (d \in astray' \/ Agrees(d, work.want.state)')
      BY <1>2, <1>3, <2>1 DEF Backed, Agrees, SaysNothing
    <3> QED
      BY <1>3, <2>1, <3>1, <3>2, NoCopies DEF RefreshedCopy
  <2>2. CASE Done
    <3>1. work'.pc = "idle"
      BY <2>2 DEF Done, Idle
    <3> QED
      BY <3>1, NoCopies DEF RefreshedCopy
  <2> QED
    BY <1>4, <2>1, <2>2
<1> QED
  BY <1>8, <1>9 DEF MatchInv

(* Retire: a want in none of its wantlists leaves Discogs and is stored so.  *)
LEMMA RetireMatches == ASSUME TypeInv, MatchInv, Retire PROVE MatchInv'
<1>1. PICK d \in Release : /\ d = Doing /\ jobs # <<>> /\ wants[d] \in Want /\ Head(jobs) = RefreshWant(d)
                           /\ work.want \in Want /\ work \in WorkState /\ wants \in StoredWants /\ Asked = {}
  BY RefreshingWant DEF Retire
<1>2. PICK w : /\ w = [work.want EXCEPT !.state = "RETIRED", !.intended = "RETIRED"]
               /\ wants' = [wants EXCEPT ![d] = w] /\ work' = [work EXCEPT !.pc = "store", !.want = w]
  BY <1>1 DEF Retire
<1>3. w.state = "RETIRED" /\ w.intended = "RETIRED"
  BY <1>1, <1>2 DEF Want
<1>4. work'.pc = "store" /\ work'.want = w
  BY <1>1, <1>2 DEF WorkState
<1>5. shop' = shop \ {d} /\ UNCHANGED <<jobs, lost, stock, policy, astray>>
  BY <1>1 DEF Retire, world, Doing, queue
<1>6. Present' = Present
  BY <1>5 DEF Present
<1>7. wants'[d] = w /\ \A r \in Release \ {d} : wants'[r] = wants[r]
  BY <1>1, <1>2 DEF StoredWants
<1>8. Agrees(d, w.state)' /\ Backed(d, w)' /\ Balanced(w)
  BY <1>3, <1>5 DEF Agrees, Backed, Bought, Balanced
<1>9. Sound(d)'
  BY <1>7, <1>8 DEF Sound, Matched, Supported, Chased, Forgettable
<1>10. \A r \in Release : Sound(r)'
  BY <1>1, <1>5, <1>6, <1>7, <1>9, OthersStaySound DEF Kept
<1>11. RefreshedCopy'
  BY <1>1, <1>4, <1>5, <1>8 DEF RefreshedCopy, Doing
<1> QED
  BY <1>4, <1>10, <1>11, NoCopies DEF MatchInv

(* StoreWant: the copy is saved.                                             *)
LEMMA StoreWantMatches == ASSUME TypeInv, MatchInv, StoreWant PROVE MatchInv'
<1>1. PICK d \in Release : /\ d = Doing /\ jobs # <<>> /\ wants[d] \in Want /\ Head(jobs) = RefreshWant(d)
                           /\ work.want \in Want /\ wants \in StoredWants /\ Asked = {}
  BY RefreshingWant DEF StoreWant
<1>2. PICK w : w = [work.want EXCEPT !.clean = TRUE] /\ wants' = [wants EXCEPT ![d] = w]
  BY <1>1 DEF StoreWant
<1>3. w.state = work.want.state /\ w.intended = work.want.intended
  BY <1>1, <1>2 DEF Want
<1>4. UNCHANGED <<shop, stock, policy, astray, jobs, lost>> /\ work.pc = "store" /\ work'.pc = "stored"
  BY DEF StoreWant, world, queue, Idle
<1>5. Backed(d, work.want) /\ Balanced(work.want) /\ (d \in astray \/ Agrees(d, work.want.state))
  BY <1>1, <1>4 DEF MatchInv, RefreshedCopy, Doing
<1>6. Kept
  BY <1>4 DEF Kept, Present
<1>7. wants'[d] = w /\ \A r \in Release \ {d} : wants'[r] = wants[r] /\ Balanced(w)
  BY <1>1, <1>2, <1>3, <1>5 DEF StoredWants, Balanced
<1>8. Sound(d)'
  BY <1>3, <1>4, <1>5, <1>7 DEF Sound, Matched, Agrees, SaysNothing, Supported, Backed, Chased, Forgettable, Balanced
<1>9. \A r \in Release : Sound(r)'
  BY <1>1, <1>4, <1>6, <1>7, <1>8, OthersStaySound
<1>10. RefreshedCopy'
  <2>1. Balanced(wants'[d])
    BY <1>3, <1>5, <1>7 DEF Balanced
  <2> QED
    BY <1>1, <1>4, <2>1 DEF RefreshedCopy, Doing, Forgettable
<1> QED
  BY <1>4, <1>9, <1>10, NoCopies DEF MatchInv

(* Remove: the task leaves the queue once what it saved holds.               *)
LEMMA RemoveMatches == ASSUME TypeInv, MatchInv, Remove PROVE MatchInv'
<1>1. work.pc = "stored" /\ Done /\ UNCHANGED <<wants, shop, stock, policy, astray>> /\ jobs # <<>>
  BY DEF Remove, store, world, TypeInv, Working, Taken
<1>2. PICK d \in Release : d = Doing /\ Head(jobs) = RefreshWant(d) /\ Sound(d)
  BY <1>1, DoingWant DEF TypeInv, Working, Taken, Refreshing, MatchInv
<1>3. Kept /\ UNCHANGED lost /\ work'.pc = "idle" /\ Asked = {}
  BY <1>1, DoneKeeps, NobodyAsks DEF Idle, Sweeping
<1>4. ~ Forgettable(d, wants[d]) /\ ~ InWindow(d)
  BY <1>1, <1>2 DEF MatchInv, RefreshedCopy, Doing, InWindow
<1>5. Sound(d)'
  BY <1>1, <1>2, <1>3, <1>4 DEF Sound, Matched, Agrees, SaysNothing, Supported, Backed, Chased, Forgettable
<1>6. \A r \in Release : Sound(r)'
  BY <1>1, <1>2, <1>3, <1>5, OthersStaySound
<1> QED
  BY <1>3, <1>6, NoCopies DEF MatchInv, RefreshedCopy

(* A task that ends early: what it saved holds, and what it was about to ask *)
(* for is lost.                                                              *)
LEMMA EndMatches ==
  ASSUME TypeInv, MatchInv, UNCHANGED <<wants, shop, stock, policy>>, work' = Idle,
         astray \subseteq astray', lost \subseteq lost', Asked \subseteq lost',
         \A r \in Release : \/ RefreshWant(r) \in Present => RefreshWant(r) \in Present'
                            \/ r \in astray',
         \A r \in Release : InWindow(r) => InWindow(r)' \/ r \in astray' \/ Agrees(r, wants[r].state)
  PROVE  MatchInv'
<1>1. work'.pc = "idle"
  BY DEF Idle
<1>2. \A r \in Release : Sound(r)'
  <2> TAKE r \in Release
  <2>1. Sound(r)
    BY DEF MatchInv
  <2>2. Matched(r)'
    BY <2>1 DEF Sound, Matched, Agrees, SaysNothing
  <2>3. Supported(r)'
    BY <2>1 DEF Sound, Supported, Backed
  <2>4. Chased(r)'
    BY <2>1 DEF Sound, Chased, Forgettable
  <2> QED
    BY <2>2, <2>3, <2>4 DEF Sound
<1> QED
  BY <1>1, <1>2, NoCopies DEF MatchInv, RefreshedCopy

(* A crash and a rate limit leave the task in the queue, an internal error   *)
(* puts it back, and any other ends it.                                      *)
LEMMA FailureMatches ==
  ASSUME TypeInv, MatchInv, Restart \/ FailCall \/ Bury
  PROVE  MatchInv'
<1>1. UNCHANGED <<wants, shop, stock, policy>> /\ work' = Idle /\ work'.pc = "idle"
      /\ astray \subseteq astray' /\ lost \subseteq lost'
  BY DEF Restart, FailCall, Bury, store, world, Idle
<1>2. Asked \subseteq lost'
  <2>1. CASE FailCall
    BY <2>1, NobodyAsks DEF FailCall, Sweeping
  <2> QED
    BY <2>1 DEF Restart, Bury
<1>3. CASE UNCHANGED jobs
  <2>1. Present' = Present
    BY <1>3 DEF Present
  <2>2. \A r \in Release : InWindow(r) => InWindow(r)'
    BY <1>1, <1>3 DEF InWindow
  <2> QED
    BY <1>1, <1>2, <2>1, <2>2, EndMatches
<1>4. CASE jobs' # jobs
  <2>1. work.pc \notin {"idle", "stored"} /\ jobs # <<>> /\ (jobs' = Tail(jobs) \/ jobs' = Tail(jobs) \o <<Head(jobs)>>)
    BY <1>4 DEF Restart, FailCall, Bury, TypeInv, Working, Taken
  <2>2. Kept
    <3>1. KeepsWants /\ stuck' \subseteq stuck /\ lost' \subseteq Release
      <4>1. Asked \subseteq Release /\ lost \subseteq Release
        BY DEF TypeInv, Queued, Working, WorkState, Asked
      <4> QED
        BY <1>1, <1>4, <4>1, SameWants DEF Restart, FailCall, Bury
    <3> QED
      BY <1>1, <2>1, <3>1, HeadGoes DEF TypeInv
  <2>3. CASE Refreshing
    <3>1. PICK d \in Release : d = Doing /\ Head(jobs) = RefreshWant(d)
      BY <2>1, <2>3, DoingWant DEF TypeInv, Working, Taken
    <3>2. \A r \in Release \ {d} : RefreshWant(r) # Head(jobs) /\ ~ InWindow(r)
      BY <3>1, RefreshWantDiffers DEF InWindow
    <3>3. CASE Bury
      <4>1. d \in astray'
        BY <2>3, <3>1, <3>3 DEF Bury
      <4> QED
        BY <1>1, <1>2, <2>2, <3>2, <4>1, EndMatches DEF Kept
    <3>4. CASE FailCall
      <4>1. jobs' = Tail(jobs) \o <<Head(jobs)>> /\ (d \in astray' \/ Agrees(d, wants[d].state))
        BY <1>4, <2>3, <3>1, <3>4 DEF FailCall
      <4>2. Present' = Present
        <5>1. PICK last \in Seq(QueueElement) : last = <<Head(jobs)>> /\ Elements(last) = {Head(jobs)}
          <6>1. DOMAIN <<Head(jobs)>> = {1} /\ <<Head(jobs)>>[1] = Head(jobs)
            OBVIOUS
          <6>2. <<Head(jobs)>> \in Seq(QueueElement)
            BY <2>1, HeadAndTail DEF TypeInv, Queued
          <6> QED
            BY <6>1, <6>2 DEF Elements
        <5>2. Elements(jobs') = Elements(Tail(jobs)) \cup Elements(last)
          BY <2>1, <4>1, <5>1, HeadAndTail, ConcatElements DEF TypeInv, Queued
        <5> QED
          BY <2>1, <5>1, <5>2, HeadAndTail, PresentElements DEF TypeInv, Queued
      <4> QED
        BY <1>1, <1>2, <3>2, <4>1, <4>2, EndMatches
    <3>5. ~ Restart
      BY <1>4 DEF Restart
    <3> QED
      BY <3>3, <3>4, <3>5
  <2>4. CASE ~ Refreshing
    <3>1. Head(jobs).kind # "want" /\ \A r \in Release : ~ InWindow(r)
      <4>1. work.pc \in {"wants", "claim", "lists", "visit", "shut", "pull", "page", "align", "spread"}
        BY <2>1, <2>4 DEF TypeInv, Working, WorkState, Steps, Refreshing
      <4> QED
        BY <4>1 DEF TypeInv, Working, Taken, Sweeping, Listing, InWindow
    <3>2. \A r \in Release : RefreshWant(r) # Head(jobs)
      BY <3>1, OtherEntries
    <3> QED
      BY <1>1, <1>2, <2>2, <3>1, <3>2, EndMatches DEF Kept
  <2> QED
    BY <2>3, <2>4
<1> QED
  BY <1>3, <1>4

(* While another task is at the head no want is in the window.               *)
LEMMA SweepAgrees ==
  ASSUME TypeInv, MatchInv, Head(jobs).kind # "want"
  PROVE  \A r \in Release : CopySound(r, wants[r])
<1>1. \A r \in Release : ~InWindow(r)
  BY OtherEntries DEF InWindow
<1> QED
  BY <1>1 DEF MatchInv, Sound, Matched, Supported, CopySound

(* So it is enough to look at the wants the task writes.                     *)
LEMMA SweepMatches ==
  ASSUME TypeInv, MatchInv, Head(jobs).kind # "want", UNCHANGED <<policy, shop, stock, astray>>,
         Kept, Remembered, \A r \in Asked : r \in Asked' \cup lost' \/ RefreshWant(r) \in Present',
         work'.pc \notin {"call", "save", "retire", "store", "stored"}, SweptCopies', PageCopies',
         \A r \in Release : wants'[r] = wants[r] \/ Sound(r)'
  PROVE  MatchInv'
<1>1. \A r \in Release : CopySound(r, wants[r])
  BY SweepAgrees
<1>2. \A r \in Release : Sound(r)'
  <2> SUFFICES ASSUME NEW r \in Release, wants'[r] = wants[r] PROVE Sound(r)'
    OBVIOUS
  <2>1. Sound(r) /\ RefreshWant(r) # Head(jobs)
    BY OtherEntries DEF MatchInv
  <2>2. Matched(r)'
    BY <1>1 DEF CopySound, Matched, Agrees, SaysNothing
  <2>3. Supported(r)'
    BY <2>1 DEF Sound, Supported, Backed
  <2>4. Chased(r)'
    BY <2>1 DEF Sound, Chased, Forgettable, Kept, Remembered
  <2> QED
    BY <2>2, <2>3, <2>4 DEF Sound
<1> QED
  BY <1>2 DEF MatchInv, RefreshedCopy

(* What the worker has when it sweeps.                                       *)
LEMMA SweepingWork ==
  ASSUME TypeInv, work.pc \in {"wants", "claim", "lists", "visit", "shut", "pull", "page", "align", "spread"}
  PROVE  /\ jobs # <<>> /\ Head(jobs).kind # "want" /\ work \in WorkState /\ wants \in StoredWants
         /\ stock \in Records
BY DEF TypeInv, Stores, World, Working, Taken, Sweeping, Listing

(* A step that leaves the queue alone keeps all that was asked for.          *)
LEMMA QuietKeeps == UNCHANGED queue => Kept /\ Remembered /\ Present' = Present /\ lost' = lost
BY DEF queue, Kept, Remembered, Present

(* The steps of a sweep that write no want and hold no copies.               *)
LEMMA SweepBeginsMatches ==
  ASSUME TypeInv, MatchInv, BeginLists \/ BeginSync \/ Finish \/ Judge \/ KeepList
  PROVE  MatchInv'
<1>1. UNCHANGED <<wants, shop, stock, policy, astray>> /\ jobs # <<>> /\ Head(jobs).kind # "want" /\ Asked = {}
  <2>1. CASE BeginLists \/ BeginSync
    BY <2>1, NobodyAsks DEF BeginLists, BeginSync, Begin, store, world, Sweeping
  <2>2. CASE Finish \/ Judge \/ KeepList
    <3>1. work.ask = None
      BY <2>2, NobodyAsks DEF Finish, Judge, KeepList, Sweeping
    <3> QED
      BY <2>2, <3>1, SweepingWork DEF Finish, Judge, KeepList, store, world, Asked
  <2> QED
    BY <2>1, <2>2
<1>2. UNCHANGED queue \/ Done
  BY DEF BeginLists, BeginSync, Finish, Judge, KeepList
<1>3. Kept /\ Remembered
  BY <1>1, <1>2, DoneKeeps, QuietKeeps DEF Remembered
<1>4. work'.pc \in {"idle", "lists", "pull", "visit", "shut"}
  <2>1. CASE BeginLists
    BY <2>1 DEF BeginLists, Idle
  <2>2. CASE BeginSync \/ Finish
    <3>1. work' = [Idle EXCEPT !.pc = "pull"] \/ work' = Idle
      BY <2>2 DEF BeginSync, Finish, Done
    <3> QED
      BY <3>1 DEF Idle
  <2>3. CASE Judge
    <3>1. work \in WorkState
      BY DEF TypeInv, Working
    <3> QED
      BY <2>3, <3>1 DEF Judge, WorkState
  <2>4. CASE KeepList
    <3>1. work \in WorkState
      BY DEF TypeInv, Working
    <3> QED
      BY <2>4, <3>1 DEF KeepList, WorkState
  <2> QED
    BY <2>1, <2>2, <2>3, <2>4
<1> QED
  BY <1>1, <1>3, <1>4, NoCopies, SweepMatches

(* BeginWants: the copies are what is stored.                                *)
LEMMA BeginWantsMatches == ASSUME TypeInv, MatchInv, BeginWants PROVE MatchInv'
<1>1. /\ UNCHANGED <<wants, shop, stock, policy, astray, queue>> /\ jobs # <<>> /\ Head(jobs).kind # "want" /\ Asked = {}
      /\ work'.pc = "wants" /\ work'.wants = wants /\ work'.recs = stock
  BY NobodyAsks DEF BeginWants, Begin, store, world, Idle, Sweeping
<1>2. \A r \in Release : CopySound(r, wants[r])
  BY <1>1, SweepAgrees
<1>3. SweptCopies' /\ PageCopies'
  BY <1>1, <1>2 DEF SweptCopies, PageCopies, CopySound, Backed, Agrees, SaysNothing
<1> QED
  BY <1>1, <1>3, QuietKeeps, SweepMatches

(* The copies stay sound when one of them takes another state to reach that  *)
(* does not say it was bought, or was.                                       *)
LEMMA SweptStay ==
  ASSUME MatchInv, Sweeping, UNCHANGED <<policy, shop, stock, astray>>, work'.recs = work.recs, work'.pc \notin {"page"},
         \A r \in Release : work'.wants[r] = work.wants[r] \/ CopySound(r, work'.wants[r])
  PROVE  SweptCopies' /\ PageCopies'
<1>1. \A r \in Release : CopySound(r, work'.wants[r])
  BY DEF MatchInv, SweptCopies
<1>2. \A r \in Release : work'.recs[r] # "none" => stock'[r] # "none"
  BY DEF MatchInv, SweptCopies
<1>3. \A r \in Release : CopySound(r, work.wants[r])'
  BY <1>1 DEF CopySound, Backed, Agrees, SaysNothing
<1> QED
  BY <1>2, <1>3 DEF SweptCopies, PageCopies

(* Ask: the refresh is queued or lost.                                       *)
LEMMA AskedMatches == ASSUME TypeInv, MatchInv, Ask PROVE MatchInv'
<1>1. /\ UNCHANGED <<wants, shop, stock, policy, astray>> /\ work.ask # None
      /\ Sweeping \/ work.pc \in {"visit", "shut"}
  BY NobodyAsks DEF Ask, store, world
<1>2. /\ jobs # <<>> /\ Head(jobs).kind # "want" /\ work \in WorkState
  BY <1>1, SweepingWork DEF Sweeping
<1>3. /\ Present \subseteq Present' /\ Remembered /\ (work.ask \in lost' \/ RefreshWant(work.ask) \in Present')
  BY AskTypes
<1>4. work' = [work EXCEPT !.ask = None]
  BY DEF Ask
<1>5. work'.pc = work.pc /\ work'.wants = work.wants /\ work'.recs = work.recs
  BY <1>2, <1>4 DEF WorkState
<1>6. SweptCopies' /\ PageCopies'
  BY <1>1, <1>5, SweptStay, NoCopies DEF Sweeping
<1> QED
  BY <1>1, <1>2, <1>3, <1>5, <1>6, SweepMatches DEF Kept, Asked, Sweeping

(* RefreshWants writes copies back: what they say of Discogs holds, and the  *)
(* refresh of those that changed is about to be asked for.                   *)
LEMMA SweepWritesMatch ==
  ASSUME TypeInv, MatchInv, RetireWant \/ ClaimWant
  PROVE  MatchInv'
<1>1. /\ UNCHANGED <<shop, stock, policy, astray, queue>> /\ Sweeping /\ work.todo # <<>> /\ Asked = {}
      /\ jobs # <<>> /\ Head(jobs).kind # "want" /\ work \in WorkState /\ wants \in StoredWants
      /\ work.wants \in StoredWants
  BY SweepingWork DEF RetireWant, ClaimWant, Sweeping, world, Asked, TypeInv, Working, Copied
<1>2. PICK r \in Release : /\ r = Head(work.todo) /\ work.wants[r] \in Want /\ wants[r] # None
  BY <1>1, TodoTypes DEF TypeInv, Working, Copied, Sweeping, StoredWants
<1> DEFINE w == work.wants[r]
<1>3. CopySound(r, w) /\ Backed(r, w) /\ (r \in astray \/ Agrees(r, w.state)) /\ (work.recs[r] # "none" => stock[r] # "none")
  BY <1>1, <1>2, NoneAssumption DEF MatchInv, SweptCopies, CopySound
<1>4. ASSUME NEW v \in Want, v.state = w.state, Backed(r, v), wants' = [wants EXCEPT ![r] = v],
             work'.ask = r \/ ~ v.clean
      PROVE  Sound(r)' /\ \A s \in Release \ {r} : wants'[s] = wants[s]
  <2>1. wants'[r] = v /\ \A s \in Release \ {r} : wants'[s] = wants[s]
    BY <1>1, <1>2, <1>4 DEF StoredWants
  <2>2. Matched(r)' /\ Supported(r)'
    BY <1>1, <1>3, <1>4, <2>1 DEF Matched, Supported, Backed, Agrees, SaysNothing
  <2>3. Chased(r)'
    BY <1>2, <1>4, <2>1, NoneAssumption DEF Chased, Forgettable, Asked
  <2> QED
    BY <2>1, <2>2, <2>3 DEF Sound
<1>5. CASE RetireWant
  <2> DEFINE kept == IF Unlisted(r, w) THEN [w EXCEPT !.intended = "RETIRED"] ELSE w
             W == [work.wants EXCEPT ![r] = kept]
             a == IF kept # w THEN r ELSE None
  <2>1. kept \in Want /\ kept.state = w.state /\ kept.intended \in {w.intended, "RETIRED"}
    BY <1>2 DEF Want, WantState
  <2>2. Backed(r, kept) /\ CopySound(r, kept)
    BY <1>3, <2>1 DEF Backed, Bought, CopySound
  <2>3. /\ wants' = IF kept # w THEN [wants EXCEPT ![r] = kept] ELSE wants
        /\ work' = [work EXCEPT !.pc = "claim", !.wants[r] = kept, !.ask = a]
    BY <1>2, <1>5 DEF RetireWant
  <2> HIDE DEF kept
  <2>4. W[r] = kept /\ \A s \in Release \ {r} : W[s] = work.wants[s]
    BY <1>1, <1>2 DEF StoredWants
  <2>5. kept # w => a = r
    OBVIOUS
  <2> HIDE DEF W, a
  <2>6. work' = [work EXCEPT !.pc = "claim", !.wants = W, !.ask = a]
    BY <2>3 DEF W
  <2>7. work'.pc = "claim" /\ work'.wants = W /\ work'.ask = a /\ work'.recs = work.recs
    BY <1>1, <2>6 DEF WorkState
  <2>8. SweptCopies' /\ PageCopies'
    BY <1>1, <2>2, <2>4, <2>7, SweptStay
  <2>9. \A s \in Release : wants'[s] = wants[s] \/ Sound(s)'
    BY <1>4, <2>1, <2>2, <2>3, <2>5, <2>7
  <2> QED
    BY <1>1, <2>7, <2>8, <2>9, QuietKeeps, SweepMatches
<1>6. CASE ClaimWant
  <2> DEFINE owned == Owned(w, work.recs[r])
             new == [owned EXCEPT !.clean = FALSE]
             claimed == work.recs[r] # "none" /\ (owned # w \/ w.clean)
             a == IF claimed THEN r ELSE None
  <2>1. owned \in Want /\ owned.state = w.state
    BY <1>2 DEF Owned, Want, WantState
  <2>2. new \in Want /\ new.state = w.state /\ new.clean = FALSE
    BY <2>1 DEF Want
  <2>3. /\ wants' = IF claimed THEN [wants EXCEPT ![r] = new] ELSE wants
        /\ work' = [work EXCEPT !.pc = "wants", !.todo = Tail(@), !.ask = a]
    BY <1>2, <1>6 DEF ClaimWant
  <2>4. claimed => Backed(r, new)
    BY <1>3 DEF Backed
  <2> HIDE DEF new, claimed, a
  <2>5. work'.pc = "wants" /\ work'.wants = work.wants /\ work'.recs = work.recs
    BY <1>1, <2>3 DEF WorkState
  <2>6. SweptCopies' /\ PageCopies'
    BY <1>1, <2>5, SweptStay
  <2>7. \A s \in Release : wants'[s] = wants[s] \/ Sound(s)'
    BY <1>4, <2>2, <2>3, <2>4
  <2> QED
    BY <1>1, <2>5, <2>6, <2>7, QuietKeeps, SweepMatches
<1> QED
  BY <1>5, <1>6

(* SyncEntry: the want notes the wantlist, or is created and says nothing.   *)
LEMMA SyncEntryMatches == ASSUME TypeInv, MatchInv, SyncEntry PROVE MatchInv'
<1>1. /\ UNCHANGED <<shop, stock, policy, astray, queue>> /\ work.pc = "lists" /\ work.todo # <<>> /\ ~ AtEnd
      /\ jobs # <<>> /\ Head(jobs).kind # "want" /\ work \in WorkState /\ wants \in StoredWants /\ Asked = {}
  BY SweepingWork, NobodyAsks DEF SyncEntry, world, Sweeping
<1>2. Entries \in Seq(WantlistEntry) /\ work.at \in Nat \ {0} /\ This \in List
  BY <1>1, ThisTypes DEF Listing
<1>3. PICK r \in Release : r = Here.id
  BY <1>1, <1>2, HereTypes
<1>4. work'.pc = "lists"
  BY <1>1 DEF SyncEntry, WorkState
<1>5. PICK w \in Want : w = Annotated(This, r) /\ wants' = [wants EXCEPT ![r] = w]
  BY <1>2, <1>3, WantTypes DEF SyncEntry, TypeInv
<1>6. wants'[r] = w /\ \A s \in Release \ {r} : wants'[s] = wants[s]
  BY <1>1, <1>5 DEF StoredWants
<1>7. Sound(r)'
  <2>1. CASE wants[r] = None
    <3>1. w.state = "UNKNOWN" /\ w.intended = "UNKNOWN" /\ w.clean = FALSE
      BY <1>5, <2>1 DEF Annotated, NewWant
    <3> QED
      BY <1>6, <3>1 DEF Sound, Matched, Agrees, SaysNothing, Supported, Backed, Bought, Chased, Forgettable
  <2>2. CASE wants[r] # None
    <3>1. w.state = wants[r].state /\ w.intended = wants[r].intended /\ w.clean = wants[r].clean
      BY <1>1, <1>5, <2>2 DEF Annotated, StoredWants, Want
    <3>2. CopySound(r, wants[r])
      BY <1>1, SweepAgrees
    <3>3. Chased(r)
      BY DEF MatchInv, Sound
    <3>4. Matched(r)' /\ Supported(r)'
      BY <1>1, <1>6, <2>2, <3>1, <3>2 DEF CopySound, Matched, Supported, Agrees, SaysNothing, Backed
    <3>5. Present' = Present /\ lost' = lost
      BY <1>1, QuietKeeps
    <3>6. Chased(r)'
      BY <1>1, <1>6, <2>2, <3>1, <3>3, <3>5 DEF Chased, Forgettable, Balanced
    <3> QED
      BY <3>4, <3>6 DEF Sound
  <2> QED
    BY <2>1, <2>2
<1> QED
  BY <1>1, <1>4, <1>6, <1>7, NoCopies, QuietKeeps, SweepMatches

(* VisitEntry: a want is given another state to reach, never a bought one,   *)
(* and its refresh is about to be asked for.                                 *)
LEMMA VisitEntryMatches == ASSUME TypeInv, MatchInv, VisitEntry PROVE MatchInv'
<1>1. /\ UNCHANGED <<shop, stock, policy, astray, queue>> /\ work.pc \in {"visit", "shut"} /\ ~ AtEnd /\ Asked = {}
      /\ jobs # <<>> /\ Head(jobs).kind # "want" /\ work \in WorkState /\ wants \in StoredWants /\ work.todo # <<>>
  BY SweepingWork DEF VisitEntry, world, Asked, TypeInv, Working, Copied
<1>2. Entries \in Seq(WantlistEntry) /\ work.at \in Nat \ {0} /\ This \in List /\ work.lists[This] \in StoredList
  BY <1>1, ThisTypes DEF Listing
<1>3. work.at \in DOMAIN Entries /\ Here \in WantlistEntry /\ Here.id \in Release
  BY <1>1, <1>2, HereTypes
<1>4. PICK r \in Release : r = Here.id
  BY <1>3
<1>5. wants[r] \in Want
  BY <1>1, <1>3, <1>4 DEF TypeInv, Working, Copied, Here, StoredWants
<1> DEFINE type == work.lists[This].type
           v == Visit(type, Here, SubSeq(Entries, 1, work.at - 1))
           same == wants[r].clean /\ ~ (work.pc = "visit" /\ type = "EN_MASSE")
           w == [wants[r] EXCEPT !.intended = v.intended, !.clean = same]
<1>6. type \in Types
  BY <1>2 DEF StoredList
<1>7. v.intended \in {"WANTED", "PENDING", "RETIRED", None} /\ (v.intended # None => v.ask)
  BY <1>3, <1>6, VisitTypes
<1>8. /\ wants' = IF v.intended = None THEN wants
                  ELSE [wants EXCEPT ![r].intended = v.intended,
                                     ![r].clean = @ /\ ~ (work.pc = "visit" /\ type = "EN_MASSE")]
      /\ work'.pc = work.pc /\ work'.ask = IF v.ask THEN r ELSE None
  BY <1>1, <1>4 DEF VisitEntry, WorkState
<1> HIDE DEF v, type
<1>9. \A s \in Release : wants'[s] = wants[s] \/ Sound(s)'
  <2> SUFFICES ASSUME v.intended # None PROVE Sound(r)' /\ \A s \in Release \ {r} : wants'[s] = wants[s]
    BY <1>8
  <2>1. w.state = wants[r].state /\ w.intended = v.intended
    BY <1>5 DEF Want
  <2>2. wants' = [wants EXCEPT ![r] = w]
    BY <1>1, <1>5, <1>8 DEF StoredWants, Want
  <2> HIDE DEF w
  <2>3. wants'[r] = w /\ \A s \in Release \ {r} : wants'[s] = wants[s]
    BY <1>1, <2>2 DEF StoredWants
  <2>4. CopySound(r, wants[r])
    BY <1>1, SweepAgrees
  <2>5. Matched(r)' /\ Supported(r)'
    BY <1>1, <1>5, <1>7, <2>1, <2>3, <2>4, NoneAssumption
       DEF CopySound, Matched, Supported, Agrees, SaysNothing, Backed, Bought
  <2>6. Chased(r)'
    BY <1>4, <1>7, <1>8, NoneAssumption DEF Chased, Asked
  <2> QED
    BY <2>3, <2>5, <2>6 DEF Sound
<1>10. SweptCopies' /\ PageCopies'
  BY <1>1, <1>8, NoCopies
<1> QED
  BY <1>1, <1>8, <1>9, <1>10, QuietKeeps, SweepMatches

(* ReadPage: the copies are what is stored, and the page what is at Discogs. *)
LEMMA ReadPageMatches == ASSUME TypeInv, MatchInv, ReadPage PROVE MatchInv'
<1>1. /\ UNCHANGED <<wants, shop, stock, policy, astray, queue>> /\ Asked = {}
      /\ jobs # <<>> /\ Head(jobs).kind # "want" /\ work \in WorkState
  BY SweepingWork, NobodyAsks DEF ReadPage, store, world, Sweeping
<1> DEFINE todo == AsSeq(Page(Doing))
<1>2. Elements(todo) \subseteq shop
  <2>1. shop \subseteq Release
    BY DEF TypeInv, World
  <2>2. Page(Doing) \in SUBSET (1 .. MaxRelease) /\ MaxRelease \in Nat /\ Page(Doing) \subseteq shop
    BY <2>1, BoundsAssumption DEF Release, Page
  <2> QED
    BY <2>2, PlacesInOrder
<1>3. work' = [work EXCEPT !.pc = "page", !.wants = wants, !.todo = todo, !.at = Pages]
  BY DEF ReadPage
<1> HIDE DEF todo
<1>4. work'.pc = "page" /\ work'.wants = wants /\ work'.todo = todo
  BY <1>1, <1>3 DEF WorkState
<1>5. \A r \in Release : CopySound(r, wants[r])
  BY <1>1, SweepAgrees
<1>6. \A r \in Release : CopySound(r, work.wants[r])'
  BY <1>1, <1>4, <1>5 DEF CopySound, Backed, Agrees, SaysNothing
<1>7. \A r \in Release : Forgettable(r, work.wants[r])' => RefreshWant(r) \in Present'
  <2>1. Present' = Present /\ lost' = lost
    BY <1>1, QuietKeeps
  <2> QED
    BY <1>1, <1>4, <2>1 DEF MatchInv, Sound, Chased, Forgettable
<1>8. SweptCopies' /\ PageCopies'
  BY <1>1, <1>2, <1>4, <1>6, <1>7 DEF SweptCopies, PageCopies, Sweeping
<1> QED
  BY <1>1, <1>4, <1>8, QuietKeeps, SweepMatches

(* PullWant: the copy is written back, or a want that is so at Discogs.      *)
LEMMA PullWantMatches == ASSUME TypeInv, MatchInv, PullWant PROVE MatchInv'
<1>1. /\ UNCHANGED <<shop, stock, policy, astray, queue>> /\ work.pc = "page" /\ work.todo # <<>> /\ Asked = {}
      /\ jobs # <<>> /\ Head(jobs).kind # "want" /\ work \in WorkState /\ wants \in StoredWants
  BY SweepingWork, NobodyAsks DEF PullWant, world, Sweeping
<1>2. PICK r \in Release : r = Head(work.todo) /\ r \in shop \cup astray
  BY <1>1, TodoTypes DEF TypeInv, Working, Copied, MatchInv, PageCopies
<1> DEFINE w == IF work.wants[r] = None THEN Found ELSE work.wants[r]
<1>3. /\ \A s \in Release : CopySound(s, work.wants[s]) /\ (Forgettable(s, work.wants[s]) => RefreshWant(s) \in Present)
      /\ \A s \in Elements(work.todo) : s \in shop \cup astray
  BY <1>1 DEF MatchInv, PageCopies
<1>4. wants' = [wants EXCEPT ![r] = w] /\ work' = [work EXCEPT !.todo = Tail(work.todo)]
  BY <1>1, <1>2 DEF PullWant, WorkState
<1>5. /\ CopySound(r, w) /\ w # None /\ (Forgettable(r, w) => RefreshWant(r) \in Present)
  <2>1. Found # None
    <3>1. Found \in Want
      BY DEF Found, NewWant, Want, WantState
    <3> QED
      BY <3>1, NoneAssumption
  <2>2. CopySound(r, Found) /\ ~ Forgettable(r, Found)
    BY <1>2 DEF Found, NewWant, CopySound, Backed, Bought, Agrees, SaysNothing, Forgettable
  <2> QED
    BY <1>2, <1>3, <2>1, <2>2
<1> HIDE DEF w
<1>6. wants'[r] = w /\ \A s \in Release \ {r} : wants'[s] = wants[s]
  BY <1>1, <1>2, <1>4 DEF StoredWants
<1>7. Present' = Present /\ lost' = lost
  BY <1>1, QuietKeeps
<1>8. Sound(r)'
  BY <1>1, <1>5, <1>6, <1>7
     DEF Sound, Matched, Supported, Chased, Forgettable, CopySound, Backed, Agrees, SaysNothing
<1>9. work'.pc = "page" /\ work'.wants = work.wants /\ work'.todo = Tail(work.todo)
  BY <1>1, <1>4 DEF WorkState
<1>10. PageCopies' /\ SweptCopies'
  <2>1. \A s \in Release : CopySound(s, work.wants[s])'
    BY <1>1, <1>3, <1>9 DEF CopySound, Backed, Agrees, SaysNothing
  <2>2. \A s \in Release : Forgettable(s, work.wants[s])' => RefreshWant(s) \in Present'
    BY <1>1, <1>3, <1>7, <1>9 DEF Forgettable
  <2>3. Elements(Tail(work.todo)) \subseteq Elements(work.todo)
    BY <1>1, TodoTypes
  <2> QED
    BY <1>1, <1>3, <1>9, <2>1, <2>2, <2>3 DEF PageCopies, SweptCopies, Sweeping
<1> QED
  BY <1>1, <1>6, <1>8, <1>9, <1>10, QuietKeeps, SweepMatches

(* The end of a page and of a sync write no want.                            *)
LEMMA EndPageMatches == ASSUME TypeInv, MatchInv, EndPage \/ Spread PROVE MatchInv'
<1>1. /\ UNCHANGED <<wants, shop, stock, policy, astray>> /\ Asked = {}
      /\ jobs # <<>> /\ Head(jobs).kind # "want"
  BY SweepingWork, NobodyAsks DEF EndPage, Spread, store, world, Sweeping
<1>2. Kept /\ Remembered
  BY EndPageTypes, SpreadTypes
<1>3. work' = Idle \/ work' = [Idle EXCEPT !.pc = "align"]
  BY DEF EndPage, Spread
<1>4. work'.pc \in {"idle", "align"}
  BY <1>3 DEF Idle
<1> QED
  BY <1>1, <1>2, <1>4, NoCopies, SweepMatches

(* AlignWants gives up wants where the configuration drops them.             *)
LEMMA AlignWantsMatches == ASSUME TypeInv, MatchInv, AlignWants PROVE MatchInv'
<1>1. /\ UNCHANGED <<shop, stock, policy, astray, queue>> /\ jobs # <<>> /\ Head(jobs).kind # "want"
      /\ wants \in StoredWants /\ Asked = {}
  BY SweepingWork, NobodyAsks DEF AlignWants, world, Sweeping
<1>2. work'.pc = "spread"
  BY DEF AlignWants, Idle
<1>3. \A r \in Release : wants'[r] = wants[r] \/ Sound(r)'
  <2> SUFFICES ASSUME NEW r \in Release, wants'[r] # wants[r] PROVE Sound(r)'
    OBVIOUS
  <2>1. /\ wants'[r] = [wants[r] EXCEPT !.state = "RETIRED"] /\ policy.existing = "DROP"
        /\ wants[r] # None
    BY DEF AlignWants, Loose
  <2>2. wants'[r].state = "RETIRED" /\ wants'[r].intended = wants[r].intended
    BY <1>1, <2>1 DEF StoredWants, Want
  <2>3. Backed(r, wants[r])
    BY <2>1 DEF MatchInv, Sound, Supported
  <2>4. Agrees(r, "RETIRED")' /\ policy'.existing # "LIST"
    BY <1>1, <2>1 DEF Agrees, SaysNothing
  <2> QED
    BY <1>1, <2>2, <2>3, <2>4 DEF Sound, Matched, Supported, Backed, Bought, Chased, Forgettable
<1> QED
  BY <1>1, <1>2, <1>3, NoCopies, QuietKeeps, SweepMatches

(* What users and the world leave of the queue: its first entry is where it  *)
(* was, and a request stays lost until it is made again.                     *)
Grown ==
  /\ Present \subseteq Present' /\ (jobs # <<>> => jobs' # <<>> /\ Head(jobs') = Head(jobs))
  /\ \A r \in lost \ lost' : RefreshWant(r) \in Present' /\ RefreshWant(r) \notin Present

(* What they do keeps the copies of the worker sound, and only the wants     *)
(* they write are to be looked at.  While a refresh that was saved is not    *)
(* removed its key is taken, and the request is lost.                        *)
LEMMA UserMatches ==
  ASSUME TypeInv, MatchInv, UNCHANGED <<policy, work>>, Grown,
         \A r \in Release : stock[r] # "none" => stock'[r] # "none", astray \subseteq astray',
         \A r \in Release \ astray' : r \in shop' <=> r \in shop,
         \A r \in Release : \/ wants'[r] = wants[r]
                            \/ /\ Sound(r)' /\ (Unreached(wants[r]) => Unreached(wants'[r]))
                               /\ r \in Late => r \in lost'
  PROVE  MatchInv'
<1>1. \A r \in Release : Sound(r)'
  <2> SUFFICES ASSUME NEW r \in Release, wants'[r] = wants[r] PROVE Sound(r)'
    OBVIOUS
  <2>1. Sound(r)
    BY DEF MatchInv
  <2>2. InWindow(r) => InWindow(r)'
    BY DEF InWindow, Grown
  <2>3. Matched(r)'
    BY <2>1, <2>2 DEF Sound, Matched, Agrees, SaysNothing
  <2>4. Supported(r)' /\ Chased(r)'
    BY <2>1 DEF Sound, Supported, Backed, Chased, Forgettable, Grown, Asked
  <2> QED
    BY <2>3, <2>4 DEF Sound
<1>2. RefreshedCopy'
  <2> SUFFICES ASSUME Refreshing PROVE RefreshedCopy'
    BY DEF RefreshedCopy, Refreshing
  <2>1. jobs # <<>> /\ Doing' = Doing
    BY DEF TypeInv, Working, Taken, Refreshing, Doing, Grown
  <2>2. PICK d \in Release : d = Doing /\ Head(jobs) = RefreshWant(d) /\ Head(jobs) \in Present
    BY <2>1, DoingWant DEF TypeInv, Working, Taken
  <2>3. work.pc \in {"call", "save", "retire", "store"} => Backed(d, work.want)'
    BY <2>2 DEF MatchInv, RefreshedCopy, Backed
  <2>4. work.pc = "call" => ~ Balanced(work.want) /\ Unreached(wants[d])'
    BY <2>2 DEF MatchInv, RefreshedCopy
  <2>5. work.pc \in {"save", "retire", "store"} => Balanced(work.want) /\ (d \in astray' \/ Agrees(d, work.want.state)')
    BY <2>2 DEF MatchInv, RefreshedCopy, Agrees, SaysNothing
  <2>6. work.pc = "stored" => ~ Forgettable(d, wants[d])'
    <3> SUFFICES ASSUME work.pc = "stored" PROVE ~ Forgettable(d, wants[d])'
      OBVIOUS
    <3>1. ~ Forgettable(d, wants[d]) /\ d \in Late
      BY <2>2 DEF MatchInv, RefreshedCopy, Late
    <3>2. d \in lost => d \in lost'
      BY <2>2 DEF Grown
    <3> QED
      BY <3>1, <3>2 DEF Forgettable
  <2> QED
    BY <2>1, <2>2, <2>3, <2>4, <2>5, <2>6 DEF RefreshedCopy
<1>3. SweptCopies'
  <2> SUFFICES ASSUME Sweeping, NEW r \in Release
               PROVE  CopySound(r, work.wants[r])' /\ (work.recs[r] # "none" => stock'[r] # "none")
    BY DEF SweptCopies, Sweeping
  <2> QED
    BY DEF MatchInv, SweptCopies, CopySound, Backed, Agrees, SaysNothing
<1>4. PageCopies'
  <2> SUFFICES ASSUME work.pc = "page" PROVE PageCopies'
    BY DEF PageCopies
  <2>1. ASSUME NEW r \in Release
        PROVE  CopySound(r, work.wants[r])' /\ (Forgettable(r, work.wants[r])' => RefreshWant(r) \in Present')
    BY DEF MatchInv, PageCopies, CopySound, Backed, Agrees, SaysNothing, Forgettable, Grown
  <2>2. \A r \in Elements(work.todo) : r \in shop' \cup astray'
    BY DEF MatchInv, PageCopies, TypeInv, Working, Copied
  <2> QED
    BY <2>1, <2>2 DEF PageCopies
<1> QED
  BY <1>1, <1>2, <1>3, <1>4 DEF MatchInv

(* The requests of users.                                                    *)
LEMMA OfferGrows ==
  ASSUME TypeInv, NEW S \in SUBSET Release, NEW rest, NoWant(rest), Asks(jobs, S, rest), KeepsWants,
         \A r \in S : wants'[r] # None
  PROVE  /\ Grown /\ \A r \in S : r \in lost' \/ RefreshWant(r) \in Present'
         /\ \A r \in S \cap Late : r \in lost'
<1>1. /\ Remembered /\ Present \subseteq Present' /\ (jobs # <<>> => jobs' # <<>> /\ Head(jobs') = Head(jobs))
      /\ \A r \in lost \ lost' : RefreshWant(r) \notin Present
      /\ \A r \in S \cap Late : RefreshWant(r) \in Present => r \in lost'
      /\ \A r \in S : r \in lost' \/ RefreshWant(r) \in Present'
  BY AsksAdds DEF TypeInv
<1>2. \A r \in Late : RefreshWant(r) \in Present
  BY DoingWant DEF Late, TypeInv, Working, Taken, Refreshing
<1> QED
  BY <1>1, <1>2 DEF Grown, Remembered

(* A user wants a release, or asks for its refresh: what is stored says      *)
(* nothing of Discogs until then.                                            *)
LEMMA AskMatches ==
  ASSUME TypeInv, MatchInv, NEW r \in Release, AddWant(r) \/ AskRefresh(r)
  PROVE  MatchInv'
<1>1. /\ UNCHANGED <<shop, stock, policy, astray, work>> /\ wants \in StoredWants
      /\ Asks(jobs, {r}, <<>>) /\ TypeInv'
  BY UserWantTypes DEF AddWant, AskRefresh, world, TypeInv, Stores, Asks
<1>2. /\ \A s \in Release \ {r} : wants'[s] = wants[s]
      /\ wants'[r].state = "UNKNOWN" /\ Backed(r, wants[r])' /\ wants'[r] # None
  <2>1. CASE AddWant(r)
    <3>1. wants' = [wants EXCEPT ![r] = NewWant("UNKNOWN", "WANTED", {})]
      BY <2>1 DEF AddWant
    <3>2. NewWant("UNKNOWN", "WANTED", {}) \in Want
      BY DEF NewWant, Want, WantState
    <3> QED
      BY <1>1, <3>1, <3>2, NoneAssumption DEF StoredWants, NewWant, Backed, Bought
  <2>2. CASE AskRefresh(r)
    <3>1. wants' = [wants EXCEPT ![r].state = "UNKNOWN"] /\ wants[r] \in Want /\ Backed(r, wants[r])
      BY <1>1, <2>2 DEF AskRefresh, StoredWants, MatchInv, Sound, Supported
    <3>2. wants'[r] = [wants[r] EXCEPT !.state = "UNKNOWN"] /\ wants'[r] \in Want
          /\ \A s \in Release \ {r} : wants'[s] = wants[s]
      BY <1>1, <3>1 DEF StoredWants, Want, WantState
    <3>3. wants'[r].state = "UNKNOWN" /\ wants'[r].intended = wants[r].intended
      BY <3>1, <3>2 DEF Want
    <3> QED
      BY <1>1, <3>1, <3>2, <3>3, NoneAssumption DEF Backed, Bought
  <2> QED
    BY <2>1, <2>2
<1>3. KeepsWants
  BY <1>1, <1>2 DEF KeepsWants, TypeInv, Stores
<1>4. Grown /\ (r \in lost' \/ RefreshWant(r) \in Present') /\ (r \in Late => r \in lost')
  <2>1. {r} \in SUBSET Release /\ \A s \in {r} : wants'[s] # None
    BY <1>2
  <2>2. /\ Grown /\ \A s \in {r} : s \in lost' \/ RefreshWant(s) \in Present'
        /\ \A s \in {r} \cap Late : s \in lost'
    BY <1>1, <1>3, <2>1, SweepEntries, OfferGrows
  <2> QED
    BY <2>2
<1>5. Sound(r)' /\ Unreached(wants'[r])
  BY <1>2, <1>4 DEF Sound, Matched, Agrees, SaysNothing, Supported, Chased, Forgettable, Unreached
<1> QED
  BY <1>1, <1>2, <1>4, <1>5, UserMatches

(* A new record: as nothing was bought before, its want has a state to reach.*)
LEMMA AddRecordMatches ==
  ASSUME TypeInv, MatchInv, NEW r \in Release, AddRecord(r)
  PROVE  MatchInv'
<1>1. /\ UNCHANGED <<shop, policy, astray, work>> /\ wants \in StoredWants /\ stock[r] = "none"
      /\ stock' = [stock EXCEPT ![r] = "transit"] /\ stock \in Records /\ TypeInv'
  BY UserWantTypes DEF AddRecord, TypeInv, Stores, World
<1>2. \A s \in Release : stock[s] # "none" => stock'[s] # "none"
  BY <1>1 DEF Records
<1>3. CASE UNCHANGED <<wants, queue>>
  <2>1. Grown
    BY <1>3 DEF Grown, queue, Present
  <2> QED
    BY <1>1, <1>2, <1>3, <2>1, UserMatches
<1>4. CASE ~ UNCHANGED <<wants, queue>>
  <2> DEFINE there == {t \in {r} : wants[t] # None}
  <2>1. /\ IF wants[r] = None THEN UNCHANGED wants ELSE wants' = [wants EXCEPT ![r].intended = "IN_TRANSIT"]
        /\ Asks(jobs, there, Once(RefreshWantlists))
    BY <1>4 DEF AddRecord, Asks
  <2>2. wants[r] # None => r \in there
    OBVIOUS
  <2>3. there \in SUBSET Release /\ \A t \in there : wants[t] # None
    OBVIOUS
  <2> HIDE DEF there
  <2>4. CASE wants[r] = None
    <3>1. wants' = wants
      BY <2>1, <2>4
    <3>2. Grown
      BY <2>1, <2>3, <3>1, SameWants, SweepEntries, OfferGrows
    <3> QED
      BY <1>1, <1>2, <3>1, <3>2, UserMatches
  <2>5. CASE wants[r] # None
    <3>1. wants[r] \in Want /\ wants' = [wants EXCEPT ![r].intended = "IN_TRANSIT"] /\ Sound(r)
      BY <1>1, <2>1, <2>5 DEF StoredWants, MatchInv
    <3>2. /\ wants'[r] = [wants[r] EXCEPT !.intended = "IN_TRANSIT"]
          /\ \A s \in Release \ {r} : wants'[s] = wants[s]
      BY <1>1, <3>1 DEF StoredWants, Want
    <3>3. wants'[r].state = wants[r].state /\ wants'[r].intended = "IN_TRANSIT" /\ wants'[r] \in Want
      BY <3>1, <3>2 DEF Want, WantState
    <3>4. KeepsWants
      BY <1>1, <3>2, <3>3, NoneAssumption DEF KeepsWants, TypeInv, Stores
    <3>5. Grown /\ (r \in lost' \/ RefreshWant(r) \in Present') /\ (r \in Late => r \in lost')
      <4>1. \A t \in there : wants'[t] # None
        BY <2>3, <3>4 DEF KeepsWants
      <4>2. /\ Grown /\ \A t \in there : t \in lost' \/ RefreshWant(t) \in Present'
            /\ \A t \in there \cap Late : t \in lost'
        BY <2>1, <2>3, <3>4, <4>1, SweepEntries, OfferGrows
      <4> QED
        BY <2>2, <2>5, <4>2
    <3>6. wants[r].state # "IN_TRANSIT"
      BY <1>1, <2>5, <3>1 DEF Sound, Supported, Backed, Bought
    <3>7. ~Balanced(wants'[r])
      BY <3>3, <3>6 DEF Balanced
    <3>8. Matched(r)'
      <4>1. InWindow(r) => InWindow(r)'
        BY <1>1, <3>5, <3>7 DEF InWindow, Grown
      <4> QED
        BY <1>1, <2>5, <3>1, <3>3, <4>1 DEF Sound, Matched, Agrees, SaysNothing
    <3>9. Supported(r)'
      BY <1>1 DEF Supported, Backed, Records
    <3>10. Sound(r)' /\ Unreached(wants'[r])
      BY <3>5, <3>7, <3>8, <3>9 DEF Sound, Chased, Forgettable, Unreached
    <3> QED
      BY <1>1, <1>2, <3>2, <3>5, <3>10, UserMatches
  <2> QED
    BY <2>4, <2>5
<1> QED
  BY <1>3, <1>4

(* The others write no want.                                                 *)
LEMMA OtherUserMatches ==
  ASSUME TypeInv, MatchInv,
         \/ \E r \in Release : Arrive(r) \/ EditWantlist(r)
         \/ \E l \in List : DeleteWantlist(l) \/ Toggle(l)
         \/ \E l \in List, c \in Configs : SetWantlist(l, c)
         \/ Advance \/ NextDay
  PROVE  MatchInv'
<1>1. UNCHANGED <<wants, policy, work>> /\ stock \in Records
  BY DEF Arrive, EditWantlist, DeleteWantlist, Toggle, SetWantlist, Advance, NextDay, store, world, TypeInv, World
<1>2. \A r \in Release : stock[r] # "none" => stock'[r] # "none"
  <2>1. CASE \E r \in Release : Arrive(r)
    BY <1>1, <2>1 DEF Arrive, Records
  <2>2. CASE ~ \E r \in Release : Arrive(r)
    BY <1>1, <2>2 DEF EditWantlist, DeleteWantlist, Toggle, SetWantlist, Advance, NextDay, world
  <2> QED
    BY <2>1, <2>2
<1>3. astray \subseteq astray' /\ \A r \in Release \ astray' : r \in shop' <=> r \in shop
  <2>1. CASE \E r \in Release : EditWantlist(r)
    BY <2>1 DEF EditWantlist
  <2>2. CASE ~ \E r \in Release : EditWantlist(r)
    BY <2>2 DEF Arrive, DeleteWantlist, Toggle, SetWantlist, Advance, NextDay, world
  <2> QED
    BY <2>1, <2>2
<1>4. Grown
  <2>1. CASE \E r \in Release : Arrive(r)
    <3>1. Asks(jobs, {}, <<RefreshWants>> \o Once(RefreshWantlists))
      BY <2>1 DEF Arrive, Asks
    <3> QED
      BY <1>1, <3>1, SameWants, SweepEntries, OfferGrows
  <2>2. CASE \/ \E l \in List : DeleteWantlist(l)
             \/ \E l \in List, c \in Configs : SetWantlist(l, c)
    <3>1. Asks(jobs, {}, Once(RefreshWantlists))
      BY <2>2 DEF DeleteWantlist, SetWantlist, Asks
    <3> QED
      BY <1>1, <3>1, SameWants, SweepEntries, OfferGrows
  <2>3. CASE NextDay
    BY <2>3 DEF NextDay, Grown, Present
  <2>4. CASE (\E r \in Release : EditWantlist(r)) \/ (\E l \in List : Toggle(l)) \/ Advance
    BY <2>4 DEF EditWantlist, Toggle, Advance, queue, Grown, Present
  <2> QED
    BY <2>1, <2>2, <2>3, <2>4
<1> QED
  BY <1>1, <1>2, <1>3, <1>4, UserMatches

(* At the start no want is stored.                                           *)
LEMMA InitMatches == Init => MatchInv
BY DEF Init, Idle, MatchInv, Sound, Matched, Supported, Chased, Forgettable, RefreshedCopy, SweptCopies, PageCopies,
       Sweeping

(* Every step keeps the invariant.                                           *)
LEMMA MatchStep == TypeInv /\ MatchInv /\ [Next]_vars => MatchInv'
<1> SUFFICES ASSUME TypeInv, MatchInv, [Next]_vars PROVE MatchInv'
  OBVIOUS
<1>1. CASE Worker
  BY <1>1, BeginWantMatches, CallDiscogsMatches, SaveCalledMatches, RetireMatches, StoreWantMatches, RemoveMatches,
     BeginWantsMatches, SweepWritesMatch, SweepBeginsMatches, AskedMatches, SyncEntryMatches, VisitEntryMatches,
     ReadPageMatches, PullWantMatches, EndPageMatches, AlignWantsMatches DEF Worker
<1>2. CASE Restart \/ FailCall \/ Bury
  BY <1>2, FailureMatches
<1>3. CASE Users
  BY <1>3, AskMatches, AddRecordMatches, OtherUserMatches DEF Users
<1>4. CASE Advance \/ NextDay
  BY <1>4, OtherUserMatches
<1>5. CASE UNCHANGED vars
  <2>1. Grown
    BY <1>5 DEF vars, Present, Grown
  <2> QED
    BY <1>5, <2>1, UserMatches DEF vars
<1> QED
  BY <1>1, <1>2, <1>3, <1>4, <1>5 DEF Next

(* Both parts of the invariant hold in every state.                          *)
LEMMA WantsInvariant == Spec => [](TypeInv /\ MatchInv)
BY InitTypes, TypeStep, InitMatches, MatchStep, PTL DEF Spec

(* What is stored of a settled want is so at Discogs: between the call to    *)
(* Discogs and the save the want still has a state to reach, whatever the    *)
(* API server writes meanwhile and wherever the task is broken off.          *)
THEOREM SettledWantsMatchDiscogs == Spec => []CleanMatches
BY WantsInvariant, MatchInvShows, PTL

(* No change of mind is forgotten but with a request that came to nothing:   *)
(* any other settled want has the state it should have, where AlignWants may *)
(* not drop wants.                                                           *)
THEOREM SettledWantsArePursued == Spec => []Pursued
BY WantsInvariant, MatchInvShows, PTL

==============================================================================
