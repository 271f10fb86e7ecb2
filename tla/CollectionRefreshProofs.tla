---------------------- MODULE CollectionRefreshProofs ----------------------
(***************************************************************************)
(* The refresh of the collection for any size of its pages and any number  *)
(* of records, rounds and mishaps: no record Discogs still has is deleted, *)
(* and a round that nothing disturbs mirrors what it found.                *)
(***************************************************************************)
EXTENDS CollectionRefresh, SubsequenceProofs

(* An entry is of a record there is, or of a page: page 1 has no RefreshId   *)
(* before it begins a round, and the others have that of their round.        *)
Proper(e) ==
  /\ e \in Element
  /\ e.kind # "page" => e.id = 0
  /\ e.kind = "delete" => e.n \in Record
  /\ e.kind = "page" => e.n # 0
  /\ e.kind = "page" /\ e.n = 1 => e.id = 0
  /\ e.kind = "page" /\ e.n # 1 => e.id \in Begun /\ e.prio = "UNSET"

WorkState ==
  [pc : {"idle", "page", "delete", "read", "fresh", "last", "clean", "cleaned", "check", "user", "folders"},
   entry : Element \cup {None}, user : StoredUser \cup {None},
   id : Nat, pages : Nat, found : Nat, page : Nat]

(* Discogs, the stored records and the copies of them: what the API server   *)
(* saves has no stamp, or that of a round.                                   *)
Stamps == 0 .. ids
Collection ==
  /\ added \in 0 .. MaxRecords /\ shop \subseteq 1 .. added
  /\ records \in [Record -> Stamps \cup {None}]
  /\ saves \subseteq [r : Record, stamp : Stamps]
  /\ undone \subseteq Record
Rounds ==
  /\ ids \in 0 .. MaxRounds /\ mishaps \in 0 .. MaxMishaps /\ steady \in BOOLEAN
  /\ rounds \in [Round -> [listed : SUBSET Record, sound : BOOLEAN]]

(* There is a user before anything is enqueued, and whoever is at work has   *)
(* a copy of it.                                                             *)
Users ==
  /\ user \in StoredUser \cup {None}
  /\ login \in [pc : {"idle", "token", "queued"}, user : StoredUser \cup {None}]
  /\ validator \in [pc : {"idle", "collection", "sales"}, user : StoredUser \cup {None}]
  /\ login.pc = "idle" <=> login.user = None
  /\ validator.pc = "idle" <=> validator.user = None
  /\ user = None =>
       login.pc = "idle" /\ validator.pc = "idle" /\ work.pc = "idle" /\ \A p \in Priority : queue[p] = <<>>
Queued ==
  /\ queue \in [Priority -> Seq(Element)]
  /\ \A p \in Priority : \A k \in DOMAIN queue[p] : Proper(queue[p][k]) /\ queue[p][k].prio = p

(* The worker has the entry it executes; from the reading of a page on it    *)
(* has the RefreshId of the round.                                           *)
Working ==
  /\ work \in WorkState
  /\ work.pc = "idle" => work.entry = None /\ work.user = None
  /\ work.pc # "idle" => Proper(work.entry) /\ work.user \in StoredUser
  /\ work.pc \in {"page", "delete", "user"} => work.entry.kind = work.pc
  /\ work.pc \in {"page", "delete", "check", "user", "folders"} => work.id = work.entry.id
  /\ work.pc = "check" => work.entry.kind = "delete"
  /\ work.pc = "folders" => work.entry.kind = "user"
  /\ work.pc \in {"read", "fresh", "last", "clean", "cleaned"} =>
       work.entry.kind = "page" /\ work.id \in Begun /\ (work.entry.n # 1 => work.id = work.entry.id)

TypeInv == Collection /\ Rounds /\ Users /\ Queued /\ Working

(* What the round found is listed still, and what is gone has an older stamp. *)
Sound(i) == i \in Begun /\ rounds[i].sound
Stays(i) ==
  /\ rounds[i].listed \subseteq shop
  /\ \A r \in Record \ shop : records[r] # None => records[r] < i
  /\ \A s \in saves : s.r \notin shop => s.stamp < i

(* What stood on the pages before page n when the round began, or stands on  *)
(* them now, has the stamp of the round or a later one, if none but pages    *)
(* has touched it since.                                                     *)
Stamped(r, i) == r \in undone \/ (records[r] # None /\ records[r] >= i)
Reached(i, n) == \A r \in rounds[i].listed : Newer(r) < (n - 1) * PageSize => Stamped(r, i)
Whole(i) == \A r \in rounds[i].listed : Stamped(r, i)

(* A page of a round follows the one before it, which waits, is about to be  *)
(* read or has been read.                                                    *)
Before(d, e) == d.kind = "page" /\ d.id = e.id /\ d.n + 1 = e.n
Numbered(e) == e.kind = "page" /\ e.n # 1 /\ Sound(e.id)
Due(e) == Reached(e.id, e.n)
Follows(e) == Due(e) \/ (work.pc = "page" /\ Before(work.entry, e))
InTurn ==
  \A k \in DOMAIN queue["UNSET"] :
    Numbered(queue["UNSET"][k]) =>
      \/ Follows(queue["UNSET"][k])
      \/ \E j \in 1 .. k - 1 : Before(queue["UNSET"][j], queue["UNSET"][k])

(* Retries that others overtake are of rounds that are sound no longer.      *)
Timely ==
  /\ \A p \in Priority : \A k \in DOMAIN queue[p] : Numbered(queue[p][k]) => ~ queue[p][k].late
  /\ work.pc = "page" /\ Numbered(work.entry) => ~ work.entry.late /\ Due(work.entry)

(* How far the round of the page that is read has come: at the last page, as *)
(* far as the collection goes.                                               *)
Reading ==
  \A i \in Round : work.id = i /\ Sound(i) =>
    /\ work.pc = "read" => Reached(i, work.entry.n + 1)
    /\ work.pc \in {"read", "fresh", "last", "clean"} /\ work.entry.n = work.pages /\ ~ work.entry.miss => Whole(i)
Ending ==
  /\ work.pc \in {"last", "clean"} => work.entry.n = work.pages
  /\ work.pc = "clean" => ~ work.entry.miss

(* A record that is looked for in vain among copies that do not move is on   *)
(* none of the pages read so far.                                            *)
CheckInv ==
  work.pc = "check" /\ steady =>
    /\ work.pages = CopyPages(work.entry.n)
    /\ work.entry.n \in shop => NewerCopies(work.entry.n) >= work.page * PageSize

Undisturbed == \A i \in Round : Sound(i) => Stays(i)
MirrorInv == Undisturbed /\ InTurn /\ Timely /\ Reading /\ Ending

----------------------------------------------------------------------------
(* Sequences.                                                                *)

(* A sequence without one of its entries.                                    *)
LEMMA RemoveAtPlaces ==
  ASSUME NEW S, NEW s \in Seq(S), NEW i \in 1 .. Len(s)
  PROVE  /\ RemoveAt(s, i) \in Seq(S)
         /\ Len(RemoveAt(s, i)) = Len(s) - 1
         /\ \A k \in 1 .. Len(s) - 1 : RemoveAt(s, i)[k] = s[IF k < i THEN k ELSE k + 1]
<1> DEFINE a == SubSeq(s, 1, i - 1)
           b == SubSeq(s, i + 1, Len(s))
<1>1. Len(s) \in Nat /\ i \in Int /\ i >= 1 /\ i <= Len(s)
  OBVIOUS
<1>2. a \in Seq(S) /\ Len(a) = i - 1 /\ \A k \in 1 .. i - 1 : a[k] = s[k]
  BY <1>1
<1>3. b \in Seq(S) /\ Len(b) = Len(s) - i /\ \A k \in 1 .. Len(s) - i : b[k] = s[i + k]
  BY <1>1
<1> HIDE DEF a, b
<1>a. /\ a \o b \in Seq(S) /\ Len(a \o b) = Len(a) + Len(b)
      /\ \A k \in 1 .. Len(a) + Len(b) : (a \o b)[k] = IF k <= Len(a) THEN a[k] ELSE b[k - Len(a)]
  BY <1>2, <1>3, ConcatProperties
<1>b. Len(a) + Len(b) = Len(s) - 1
  BY <1>1, <1>2, <1>3
<1>4. /\ a \o b \in Seq(S) /\ Len(a \o b) = Len(s) - 1
      /\ \A k \in 1 .. Len(s) - 1 : (a \o b)[k] = IF k <= Len(a) THEN a[k] ELSE b[k - Len(a)]
  BY <1>a, <1>b
<1>5. \A k \in 1 .. Len(s) - 1 : (a \o b)[k] = s[IF k < i THEN k ELSE k + 1]
  <2> TAKE k \in 1 .. Len(s) - 1
  <2>1. CASE k < i
    BY <1>1, <1>2, <1>4, <2>1
  <2>2. CASE ~(k < i)
    <3>1. k - (i - 1) \in 1 .. Len(s) - i /\ i + (k - (i - 1)) = k + 1
      BY <1>1, <2>2
    <3>a. ~(k <= Len(a)) /\ k - Len(a) = k - (i - 1)
      BY <1>1, <1>2, <2>2
    <3>2. (a \o b)[k] = b[k - (i - 1)]
      BY <1>4, <3>a
    <3> QED
      BY <1>3, <2>2, <3>1, <3>2
  <2> QED
    BY <2>1, <2>2
<1> QED
  BY <1>4, <1>5 DEF RemoveAt, a, b

(* One entry before the others.                                              *)
LEMMA FrontPlaces ==
  ASSUME NEW S, NEW s \in Seq(S), NEW e \in S
  PROVE  /\ <<e>> \o s \in Seq(S)
         /\ Len(<<e>> \o s) = Len(s) + 1
         /\ (<<e>> \o s)[1] = e
         /\ \A k \in 1 .. Len(s) : (<<e>> \o s)[k + 1] = s[k]
<1>1. <<e>> \in Seq(S) /\ Len(<<e>>) = 1 /\ <<e>>[1] = e /\ Len(s) \in Nat
  OBVIOUS
<1>2. /\ <<e>> \o s \in Seq(S) /\ Len(<<e>> \o s) = Len(<<e>>) + Len(s)
      /\ \A k \in 1 .. Len(<<e>>) + Len(s) :
           (<<e>> \o s)[k] = IF k <= Len(<<e>>) THEN <<e>>[k] ELSE s[k - Len(<<e>>)]
  BY <1>1, ConcatProperties
<1>3. \A k \in 1 .. Len(s) : (<<e>> \o s)[k + 1] = s[k]
  <2> TAKE k \in 1 .. Len(s)
  <2>1. k + 1 \in 1 .. 1 + Len(s) /\ ~(k + 1 <= 1) /\ (k + 1) - 1 = k
    BY <1>1
  <2> QED
    BY <1>1, <1>2, <2>1
<1>4. (<<e>> \o s)[1] = e
  BY <1>1, <1>2
<1> QED
  BY <1>1, <1>2, <1>3, <1>4

(* An entry of a part of a sequence that stands later in the sequence stands *)
(* later in the part.                                                        *)
LEMMA SubsequenceOrder ==
  ASSUME NEW s, NEW I \in SUBSET Int, IsFiniteSet(I), NEW i \in I, NEW j \in I, j < i,
         NEW k \in 1 .. Cardinality(I), Subsequence(s, I)[k] = s[i],
         \A x \in I : s[x] = s[i] => x = i
  PROVE  \E l \in 1 .. k - 1 : Subsequence(s, I)[l] = s[j]
<1> DEFINE UpTo(x) == {y \in I : y <= x}
           place(m) == CHOOSE x \in I : Cardinality(UpTo(x)) = m
<1>1. Cardinality(I) \in Nat
  BY FS_CardinalityType
<1>2. \A x \in I : UpTo(x) \in SUBSET I /\ IsFiniteSet(UpTo(x)) /\ Cardinality(UpTo(x)) \in Nat
  <2> TAKE x \in I
  <2>1. UpTo(x) \in SUBSET I
    OBVIOUS
  <2>2. IsFiniteSet(UpTo(x))
    BY <2>1, FS_Subset
  <2> QED
    BY <2>1, <2>2, FS_CardinalityType
<1>3. \A x, z \in I : x < z => Cardinality(UpTo(x)) < Cardinality(UpTo(z))
  <2> SUFFICES ASSUME NEW x \in I, NEW z \in I, x < z
               PROVE  Cardinality(UpTo(x)) < Cardinality(UpTo(z))
    OBVIOUS
  <2>1. UpTo(x) \in SUBSET UpTo(z) /\ UpTo(x) # UpTo(z)
    <3>1. x \in Int /\ z \in Int /\ ~(z <= x)
      OBVIOUS
    <3>2. \A y \in I : y <= x => y <= z
      BY <3>1
    <3>3. z \in UpTo(z) /\ z \notin UpTo(x)
      BY <3>1
    <3> QED
      BY <3>2, <3>3
  <2>2. Cardinality(UpTo(x)) <= Cardinality(UpTo(z)) /\ Cardinality(UpTo(x)) # Cardinality(UpTo(z))
    BY <1>2, <2>1, FS_Subset
  <2> QED
    BY <1>2, <2>2
<1>4. \A x \in I : Cardinality(UpTo(x)) \in 1 .. Cardinality(I)
  <2> TAKE x \in I
  <2>1. Cardinality(UpTo(x)) <= Cardinality(I)
    BY <1>2, FS_Subset
  <2>2. UpTo(x) # {}
    OBVIOUS
  <2>3. Cardinality(UpTo(x)) # 0
    BY <1>2, <2>2, FS_EmptySet
  <2> QED
    BY <1>1, <1>2, <2>1, <2>3
<1>5. Subsequence(s, I) = [m \in 1 .. Cardinality(I) |-> s[place(m)]]
  BY DEF Subsequence
<1>6. \A m \in 1 .. Cardinality(I) : place(m) \in I /\ Cardinality(UpTo(place(m))) = m
  <2> TAKE m \in 1 .. Cardinality(I)
  <2>1. \E x \in I : Cardinality(UpTo(x)) = m
    BY RankExists
  <2> QED
    BY <2>1
<1> HIDE DEF UpTo, place
<1>7. place(k) = i
  BY <1>5, <1>6
<1>8. Cardinality(UpTo(j)) < Cardinality(UpTo(i)) /\ Cardinality(UpTo(i)) = k
  BY <1>3, <1>6, <1>7
<1> DEFINE l == Cardinality(UpTo(j))
<1>9. l \in 1 .. Cardinality(I) /\ l \in 1 .. k - 1
  BY <1>1, <1>2, <1>4, <1>8
<1> HIDE DEF l
<1>10. place(l) = j
  <2>1. PICK y \in I : y = place(l) /\ Cardinality(UpTo(y)) = l
    BY <1>6, <1>9
  <2>a. Cardinality(UpTo(y)) = Cardinality(UpTo(j)) /\ Cardinality(UpTo(j)) \in Nat
    BY <1>2, <2>1 DEF l
  <2>b. y < j => Cardinality(UpTo(y)) < Cardinality(UpTo(j))
    BY <1>3
  <2>c. j < y => Cardinality(UpTo(j)) < Cardinality(UpTo(y))
    BY <1>3
  <2>2. y \in Int /\ j \in Int /\ ~(y < j) /\ ~(j < y)
    BY <2>a, <2>b, <2>c
  <2> QED
    BY <2>1, <2>2
<1> QED
  BY <1>5, <1>9, <1>10

(* Entries are not None.                                                     *)
LEMMA NotNone == None \notin StoredUser /\ None \notin Element /\ None \notin Nat
BY NoneAssumption

----------------------------------------------------------------------------
(* The types.                                                                *)

(* The invariant says all that TypeOK does.                                  *)
LEMMA TypeInvTypes == TypeInv => TypeOK
<1> SUFFICES ASSUME TypeInv PROVE TypeOK
  OBVIOUS
<1> USE DEF TypeInv
<1>1. Stamps \subseteq 0 .. MaxRounds /\ 1 .. added \subseteq Record
  BY BoundsAssumption DEF Collection, Rounds, Stamps, Record
<1>2. records \in [Record -> 0 .. MaxRounds \cup {None}] /\ shop \subseteq Record
  BY <1>1 DEF Collection
<1>3. saves \subseteq [r : Record, stamp : 0 .. MaxRounds] /\ undone \subseteq Record
  BY <1>1 DEF Collection
<1>4. \A e \in Present : e.kind = "page" /\ e.n # 1 => e.id \in Begun
  <2>1. \A e \in Waiting : Proper(e)
    BY DEF Waiting, Queued
  <2>2. work.entry # None => Proper(work.entry)
    BY DEF Working
  <2> QED
    BY <2>1, <2>2 DEF Present, Proper
<1> QED
  BY <1>2, <1>3, <1>4 DEF TypeOK, Collection, Rounds, Users, Queued, Working, WorkState

(* Sets of records and of rounds are finite.                                 *)
LEMMA FiniteRecords ==
  ASSUME TypeInv, NEW S \in SUBSET Record
  PROVE  IsFiniteSet(S) /\ Cardinality(S) \in Nat /\ S \in SUBSET Int
<1>1. IsFiniteSet(Record)
  BY BoundsAssumption, FS_Interval DEF Record
<1>2. IsFiniteSet(S)
  BY <1>1, FS_Subset
<1> QED
  BY <1>2, FS_CardinalityType DEF Record

(* A proper entry stays so while no round begins.                            *)
LEMMA ProperStays == ASSUME ids' = ids PROVE \A e : Proper(e) => Proper(e)'
BY DEF Proper, Begun

(* What is pushed goes behind what waits.                                    *)
LEMMA PushTypes ==
  ASSUME Queued, NEW e, Proper(e), Push(e), \A d : Proper(d) => Proper(d)'
  PROVE  Queued'
<1>1. /\ queue \in [Priority -> Seq(Element)] /\ e \in Element /\ e.prio \in Priority
      /\ queue' = [queue EXCEPT ![e.prio] = Append(@, e)]
  BY DEF Queued, Proper, Push, Element
<1>2. queue' \in [Priority -> Seq(Element)]
  BY <1>1
<1>3. ASSUME NEW p \in Priority, NEW k \in DOMAIN queue'[p]
      PROVE  Proper(queue'[p][k]) /\ queue'[p][k].prio = p
  <2>1. CASE p = e.prio
    <3>1. queue'[p] = Append(queue[p], e) /\ queue[p] \in Seq(Element)
      BY <1>1, <2>1
    <3>2. (k \in DOMAIN queue[p] /\ queue'[p][k] = queue[p][k]) \/ queue'[p][k] = e
      BY <3>1, <1>1
    <3> QED
      BY <2>1, <3>2 DEF Queued
  <2>2. CASE p # e.prio
    BY <1>1, <2>2 DEF Queued
  <2> QED
    BY <2>1, <2>2
<1> QED
  BY <1>2, <1>3 DEF Queued

(* The entries that are enqueued are proper.                                 *)
LEMMA NewEntries ==
  /\ \A miss \in BOOLEAN, prio \in Priority :
       Proper(Page(1, 0, miss, prio)) /\ Page(1, 0, miss, prio) \in Element
  /\ Proper(RefreshUser)
  /\ \A r \in Record : Proper(Delete(r)) /\ Delete(r).prio = "UNSET"
BY DEF Proper, Page, RefreshUser, Delete, Element, Priority, Record

(* No more mishaps than the bound allows.                                    *)
LEMMA MishapTypes ==
  ASSUME mishaps \in 0 .. MaxMishaps, NEW n \in Nat, Mishaps(n)
  PROVE  mishaps' \in 0 .. MaxMishaps
BY BoundsAssumption DEF Mishaps

(* A refresh that is asked for is accepted or not.                           *)
LEMMA RefreshTypes ==
  ASSUME Queued, NEW miss \in BOOLEAN, NEW prio \in Priority, EnqueueRefresh(miss, prio), ids' = ids
  PROVE  Queued'
<1>1. CASE UNCHANGED queue
  BY <1>1, ProperStays DEF Queued
<1>2. CASE Push(Page(1, 0, miss, prio))
  BY <1>2, PushTypes, ProperStays, NewEntries
<1> QED
  BY <1>1, <1>2 DEF EnqueueRefresh

(* Or it is refused.                                                         *)
LEMMA AskTypes ==
  ASSUME Queued, Rounds, AskForRefresh, UNCHANGED <<rounds, steady, ids>>
  PROVE  Queued' /\ Rounds'
<1>1. Queued'
  <2>1. CASE EnqueueRefresh(FALSE, "UNSET")
    BY <2>1, RefreshTypes DEF Priority
  <2>2. CASE UNCHANGED queue
    BY <2>2, ProperStays DEF Queued
  <2> QED
    BY <2>1, <2>2 DEF AskForRefresh
<1>2. mishaps' \in 0 .. MaxMishaps
  BY MishapTypes DEF AskForRefresh, Rounds, Mishap
<1> QED
  BY <1>1, <1>2 DEF Rounds

(* At first there is no user and nothing waits.                              *)
LEMMA TypeInvInit == Init => TypeInv
<1> SUFFICES ASSUME Init PROVE TypeInv
  OBVIOUS
<1>1. Collection /\ Rounds
  BY BoundsAssumption DEF Init, Collection, Rounds, Stamps, Round, Record
<1>2. Users
  BY NotNone DEF Init, Users, Asleep, Idle
<1>3. Queued
  BY DEF Init, Queued
<1>4. Working
  BY DEF Init, Working, Idle, WorkState
<1> QED
  BY <1>1, <1>2, <1>3, <1>4 DEF TypeInv

(* A round that is broken is still a round.                                  *)
LEMMA BreakTypes ==
  ASSUME Rounds, NEW B, Break(B)
  PROVE  /\ rounds' \in [Round -> [listed : SUBSET Record, sound : BOOLEAN]]
         /\ \A i \in Round : rounds'[i].listed = rounds[i].listed
                             /\ (rounds'[i].sound <=> rounds[i].sound /\ i \notin B)
BY DEF Rounds, Break

(* What a step leaves alone keeps its type: the collection, then the others. *)
LEMMA CollectionStays ==
  ASSUME Collection, UNCHANGED <<added, shop, records, saves, undone, ids>> PROVE Collection'
BY DEF Collection, Stamps

(* The queue stays a queue when no entry comes or goes.                      *)
LEMMA QueueStays == ASSUME Queued, UNCHANGED <<queue, ids>> PROVE Queued'
BY ProperStays DEF Queued

(* The worker stays as it is.                                                *)
LEMMA WorkStays == ASSUME Working, UNCHANGED <<work, ids>> PROVE Working'
BY ProperStays DEF Working, Begun

(* The worker comes to rest.                                                 *)
LEMMA WorkDone == ASSUME work' = Idle PROVE Working'
BY DEF Working, Idle, WorkState

(* The worker takes an entry.                                                *)
LEMMA TakeTypes ==
  ASSUME TypeInv, NEW p \in Priority, Take(p)
  PROVE  TypeInv'
<1> USE DEF TypeInv
<1>1. PICK i \in 1 .. Len(queue[p]) :
        /\ queue' = [queue EXCEPT ![p] = RemoveAt(@, i)]
        /\ work' = [Idle EXCEPT !.pc = queue[p][i].kind, !.entry = queue[p][i],
                                !.user = user, !.id = queue[p][i].id]
  BY DEF Take
<1>2. /\ UNCHANGED <<user, records, added, shop, login, validator, saves, rounds, undone, steady, ids, mishaps>>
      /\ work.pc = "idle"
  BY DEF Take, discogs, clients, history
<1> DEFINE s == queue[p]
<1>3. s \in Seq(Element) /\ i \in DOMAIN s /\ i \in 1 .. Len(s)
  BY DEF Queued
<1> DEFINE t == RemoveAt(s, i)
<1>4. /\ t \in Seq(Element) /\ Len(t) = Len(s) - 1 /\ Len(s) \in Nat
      /\ \A k \in 1 .. Len(s) - 1 : t[k] = s[IF k < i THEN k ELSE k + 1]
  <2> HIDE DEF s
  <2>1. Len(s) \in Nat
    BY <1>3
  <2> QED
    BY <1>3, <2>1, RemoveAtPlaces
<1>5. queue' = [queue EXCEPT ![p] = t]
  BY <1>1
<1>6. Proper(s[i]) /\ s[i] \in Element
  BY <1>3 DEF Queued, Proper
<1> HIDE DEF t
<1>7. Queued'
  <2>1. queue' \in [Priority -> Seq(Element)]
    BY <1>4, <1>5 DEF Queued
  <2>2. ASSUME NEW q \in Priority, NEW k \in DOMAIN queue'[q]
        PROVE  \E m \in DOMAIN queue[q] : queue'[q][k] = queue[q][m]
    <3>1. CASE q = p
      <4>1. queue'[q] = t /\ k \in 1 .. Len(s) - 1
        BY <1>4, <1>5, <3>1 DEF Queued
      <4>2. (IF k < i THEN k ELSE k + 1) \in 1 .. Len(s)
        BY <1>4, <4>1
      <4> QED
        BY <1>3, <1>4, <3>1, <4>1, <4>2
    <3>2. CASE q # p
      BY <1>5, <3>2 DEF Queued
    <3> QED
      BY <3>1, <3>2
  <2>3. ASSUME NEW q \in Priority, NEW k \in DOMAIN queue'[q]
        PROVE  Proper(queue'[q][k]) /\ queue'[q][k].prio = q
    <3>1. PICK m \in DOMAIN queue[q] : queue'[q][k] = queue[q][m]
      BY <2>2
    <3> QED
      BY <3>1 DEF Queued
  <2> QED
    BY <1>2, <2>1, <2>3 DEF Queued, Proper, Begun
<1>8. user \in StoredUser
  <2>1. queue[p] # <<>>
    BY <1>3
  <2> QED
    BY <2>1 DEF Users
<1>9. Working'
  <2>a. PICK e \in Element : e = s[i]
    BY <1>6
  <2>1. e \in Element /\ Proper(e) /\ Proper(e)' /\ e.kind \in {"page", "delete", "user"} /\ e.id \in Nat
    BY <1>2, <1>6, <2>a, ProperStays DEF Element
  <2>2. work' = [Idle EXCEPT !.pc = e.kind, !.entry = e, !.user = user, !.id = e.id]
    BY <1>1, <2>a
  <2>3. work' = [pc |-> e.kind, entry |-> e, user |-> user, id |-> e.id, pages |-> 0, found |-> 0,
               page |-> 0]
    BY <2>2 DEF Idle
  <2>4. work' \in WorkState
    BY <1>8, <2>1, <2>3 DEF WorkState
  <2>5. work'.pc = e.kind /\ work'.entry = e /\ work'.user = user /\ work'.id = e.id
    BY <2>3
  <2> QED
    BY <1>2, <1>8, <2>1, <2>4, <2>5 DEF Working, Proper, Begun
<1>10. Users'
  BY <1>2, <1>8, NotNone DEF Users
<1>11. Collection' /\ Rounds'
  BY <1>2, CollectionStays DEF Rounds
<1> QED
  BY <1>7, <1>9, <1>10, <1>11

(* Whoever is at work has a user.                                            *)
LEMMA Employed ==
  ASSUME TypeInv, work.pc # "idle"
  PROVE  user \in StoredUser /\ work.user \in StoredUser /\ Proper(work.entry) /\ work.entry \in Element
BY DEF TypeInv, Users, Working, Proper

(* The user is written while nobody else's copy changes.                     *)
LEMMA UsersStay ==
  ASSUME Users, UNCHANGED <<login, validator>>, user' \in StoredUser
  PROVE  Users'
BY NotNone DEF Users

(* The history as it was is a history.                                       *)
LEMMA RoundsStay == ASSUME Rounds, UNCHANGED <<ids, mishaps, rounds>>, steady' \in BOOLEAN PROVE Rounds'
BY DEF Rounds

(* A page stamps records of the collection.                                  *)
LEMMA StampTypes ==
  ASSUME Collection, NEW S, NEW i \in Nat, Stamp(S, i), i \in 1 .. ids', ids \in Nat, ids' \in Nat,
         ids <= ids', UNCHANGED <<shop, added, saves>>
  PROVE  Collection'
<1>1. Stamps \subseteq Stamps' /\ i \in Stamps'
  BY DEF Stamps
<1>2. records' \in [Record -> Stamps' \cup {None}]
  BY <1>1 DEF Collection, Stamp
<1>3. saves' \subseteq [r : Record, stamp : Stamps'] /\ undone' \subseteq Record
  BY <1>1 DEF Collection, Stamp
<1> QED
  BY <1>2, <1>3 DEF Collection

(* A page is read, and page 1 begins a round.                                *)
LEMMA ReadPageTypes == ASSUME TypeInv, ReadPage PROVE TypeInv'
<1> USE DEF TypeInv
<1>1. /\ UNCHANGED <<user, shop, added, queue, login, validator, saves, mishaps, steady>>
      /\ work.pc = "page" /\ work.entry.kind = "page" /\ BeginRound
  BY DEF ReadPage, BeginRound, discogs, clients, Working
<1>2. user \in StoredUser /\ work.user \in StoredUser /\ Proper(work.entry) /\ work.entry \in Element
  BY <1>1, Employed
<1>3. shop \in SUBSET Record
  BY BoundsAssumption DEF Collection, Record
<1>4. Limited(work.entry, Pages) \in Nat
  <2>1. Cardinality(shop) \in Nat
    BY <1>3, FiniteRecords
  <2>2. Pages \in Nat
    <3>1. (Cardinality(shop) + PageSize - 1) \div PageSize \in Nat
      <4> DEFINE c == Cardinality(shop) + PageSize - 1
      <4>1. c \in Nat /\ PageSize \in Nat /\ PageSize > 0
        BY <2>1, BoundsAssumption
      <4> HIDE DEF c
      <4>2. c \div PageSize \in Nat
        BY <4>1
      <4> QED
        BY <4>2 DEF c
    <3> QED
      BY <3>1 DEF Pages
  <2> QED
    BY <2>2 DEF Limited
<1> DEFINE pages == Limited(work.entry, Pages)
<1> HIDE DEF pages
<1>5. CASE work.entry.n = 1
  <2>1. /\ ids < MaxRounds /\ ids' = ids + 1
        /\ rounds' = [rounds EXCEPT ![ids + 1].listed = shop]
        /\ work' = [work EXCEPT !.pc = "read", !.id = ids + 1, !.pages = pages]
        /\ Stamp(PageOf(1), ids + 1)
    BY <1>1, <1>5 DEF BeginRound, pages
  <2>2. ids \in Nat /\ ids' \in Nat /\ ids + 1 \in Nat /\ ids + 1 \in 1 .. ids' /\ ids <= ids' /\ ids' \in 0 .. MaxRounds
    BY <2>1, BoundsAssumption DEF Rounds
  <2>3. Collection'
    BY <1>1, <2>1, <2>2, StampTypes
  <2>4. Rounds'
    <3>1. ids + 1 \in Round /\ rounds \in [Round -> [listed : SUBSET Record, sound : BOOLEAN]]
      BY <2>1, <2>2, BoundsAssumption DEF Rounds, Round
    <3>2. rounds' \in [Round -> [listed : SUBSET Record, sound : BOOLEAN]]
      BY <1>3, <2>1, <3>1
    <3> QED
      BY <1>1, <2>2, <3>2 DEF Rounds
  <2>5. \A e : Proper(e) => Proper(e)'
    BY <2>1, <2>2 DEF Proper, Begun
  <2>6. Queued'
    BY <1>1, <2>1, <2>2 DEF Queued, Proper, Begun
  <2>7. Working'
    <3>1. work \in WorkState /\ pages \in Nat
      BY <1>4 DEF Working, pages
    <3>2. work' \in WorkState
      BY <2>1, <2>2, <3>1 DEF WorkState
    <3>3. work'.pc = "read" /\ work'.entry = work.entry /\ work'.user = work.user /\ work'.id = ids + 1
      BY <2>1, <3>1 DEF WorkState
    <3>4. PICK e : e = work.entry
      OBVIOUS
    <3>5. Proper(e)' /\ work'.entry = e /\ e.kind = "page" /\ e.n = 1
      BY <1>1, <1>2, <1>5, <2>5, <3>3, <3>4
    <3> QED
      BY <1>2, <2>2, <3>2, <3>3, <3>5 DEF Working, Proper, Begun
  <2>8. Users'
    BY <1>1, <1>2, UsersStay
  <2> QED
    BY <2>3, <2>4, <2>6, <2>7, <2>8
<1>6. CASE work.entry.n # 1
  <2>1. /\ work' = [work EXCEPT !.pc = "read", !.pages = pages]
        /\ Stamp(PageOf(work.entry.n), work.id)
        /\ Break({i \in Begun : i > work.id})
        /\ UNCHANGED ids
    BY <1>1, <1>6 DEF BeginRound, pages
  <2>2. work.id \in Begun /\ work.id = work.entry.id
    BY <1>1, <1>2, <1>6 DEF Working, Proper
  <2>3. Collection'
    BY <1>1, <2>1, <2>2, StampTypes DEF Begun, Rounds
  <2>4. Rounds'
    BY <1>1, <2>1, BreakTypes DEF Rounds
  <2>5. Queued'
    BY <1>1, <2>1, QueueStays
  <2>6. Working'
    <3>1. work \in WorkState /\ pages \in Nat
      BY <1>4 DEF Working, pages
    <3>2. work' \in WorkState
      BY <2>1, <3>1 DEF WorkState
    <3>3. work'.pc = "read" /\ work'.entry = work.entry /\ work'.user = work.user /\ work'.id = work.id
      BY <2>1, <3>1 DEF WorkState
    <3> QED
      BY <1>1, <1>2, <2>1, <2>2, <3>2, <3>3 DEF Working, Proper, Begun
  <2>7. Users'
    BY <1>1, <1>2, UsersStay
  <2> QED
    BY <2>3, <2>4, <2>5, <2>6, <2>7
<1> QED
  BY <1>5, <1>6

(* Pages and deletions that are enqueued together.                           *)
LEMMA ExtendTypes ==
  ASSUME Queued, NEW new \in Seq(Element), UNCHANGED ids,
         queue' = [queue EXCEPT !["UNSET"] = @ \o new],
         \A e \in Elements(new) : Proper(e) /\ e.prio = "UNSET"
  PROVE  Queued'
<1>1. queue["UNSET"] \in Seq(Element) /\ "UNSET" \in Priority
  BY DEF Queued, Priority
<1> DEFINE old == queue["UNSET"]
           all == old \o new
<1>2. all \in Seq(Element) /\ Elements(all) = Elements(old) \cup Elements(new)
  BY <1>1, ConcatElements
<1> HIDE DEF all
<1>3. queue' = [queue EXCEPT !["UNSET"] = all]
  BY DEF all
<1>4. queue' \in [Priority -> Seq(Element)]
  BY <1>2, <1>3 DEF Queued
<1>5. ASSUME NEW p \in Priority, NEW k \in DOMAIN queue'[p]
      PROVE  Proper(queue'[p][k]) /\ queue'[p][k].prio = p
  <2>1. CASE p = "UNSET"
    <3>1. PICK x : x = queue'[p][k] /\ x \in Elements(all)
      BY <1>1, <1>3, <2>1 DEF Elements, Queued
    <3>2. CASE x \in Elements(new)
      BY <2>1, <3>1, <3>2
    <3>3. CASE x \in Elements(old)
      <4>1. PICK j \in DOMAIN old : x = old[j]
        BY <3>3 DEF Elements
      <4> QED
        BY <1>1, <2>1, <3>1, <4>1 DEF Queued
    <3> QED
      BY <1>2, <3>1, <3>2, <3>3
  <2>2. CASE p # "UNSET"
    BY <1>3, <2>2 DEF Queued
  <2> QED
    BY <2>1, <2>2
<1> QED
  BY <1>4, <1>5 DEF Queued, Proper, Begun

(* The pages that are enqueued.                                              *)
LEMMA PagesAre ==
  ASSUME TypeInv, work.pc = "read", work.entry.n = 1, NEW lost \in SUBSET (2 .. work.pages)
  PROVE  /\ (2 .. work.pages) \ lost \in SUBSET Int
         /\ IsFiniteSet((2 .. work.pages) \ lost) /\ IsFiniteSet(lost) /\ Cardinality(lost) \in Nat
         /\ Subsequence(OtherPages, (2 .. work.pages) \ lost) \in Seq(Element)
         /\ Elements(Subsequence(OtherPages, (2 .. work.pages) \ lost)) =
              {Page(n, work.id, work.entry.miss, "UNSET") : n \in (2 .. work.pages) \ lost}
         /\ \A n \in 2 .. work.pages : Proper(Page(n, work.id, work.entry.miss, "UNSET"))
<1>1. /\ work.pages \in Nat /\ work.id \in Begun /\ work.id \in Nat /\ work.entry.miss \in BOOLEAN
      /\ work.entry \in Element
  BY Employed DEF TypeInv, Working, WorkState, Element
<1>2. IsFiniteSet(2 .. work.pages)
  BY <1>1, FS_Interval
<1> DEFINE I == (2 .. work.pages) \ lost
           P(n) == Page(n, work.id, work.entry.miss, "UNSET")
<1>a. I \in SUBSET (2 .. work.pages) /\ lost \in SUBSET (2 .. work.pages) /\ I \in SUBSET Int
  BY <1>1
<1>b. IsFiniteSet(lost)
  BY <1>2, <1>a, FS_Subset
<1>c. IsFiniteSet(I)
  <2> HIDE DEF I
  <2> QED
    BY <1>2, <1>a, FS_Subset
<1>3. I \in SUBSET Int /\ IsFiniteSet(I) /\ IsFiniteSet(lost)
  BY <1>a, <1>b, <1>c
<1>4. Cardinality(lost) \in Nat
  BY <1>3, FS_CardinalityType
<1>5. \A n \in 2 .. work.pages : P(n) \in Element /\ Proper(P(n))
  BY <1>1 DEF Page, Element, Priority, Proper, Begun
<1>6. \A n \in I : OtherPages[n] = P(n)
  BY <1>1 DEF OtherPages
<1> DEFINE part == Subsequence(OtherPages, I)
<1> HIDE DEF I
<1>7. Elements(part) = {OtherPages[n] : n \in I} /\ part \in Seq({OtherPages[n] : n \in I})
  BY <1>3, ElementsOfPart
<1>8. {OtherPages[n] : n \in I} = {P(n) : n \in I} /\ {P(n) : n \in I} \in SUBSET Element
  BY <1>5, <1>6 DEF I
<1> HIDE DEF part, P
<1>9. part \in Seq(Element)
  <2>1. PICK A : A = {OtherPages[n] : n \in I}
    OBVIOUS
  <2>2. A \in SUBSET Element /\ part \in Seq(A)
    BY <1>7, <1>8, <2>1
  <2> QED
    BY <2>2
<1> QED
  BY <1>3, <1>4, <1>5, <1>7, <1>8, <1>9 DEF I, part, P

(* The deletions that are enqueued.                                          *)
LEMMA DeletionsAre ==
  ASSUME TypeInv, NEW S \in SUBSET Record
  PROVE  /\ Deletions(S) \in Seq(Element)
         /\ Elements(Deletions(S)) = {Delete(r) : r \in S}
<1> DEFINE all == [r \in Record |-> Delete(r)]
<1>1. S \in SUBSET Int /\ IsFiniteSet(S)
  BY FiniteRecords
<1>2. Elements(Subsequence(all, S)) = {all[r] : r \in S} /\ Subsequence(all, S) \in Seq({all[r] : r \in S})
  BY <1>1, ElementsOfPart
<1>3. {all[r] : r \in S} = {Delete(r) : r \in S} /\ \A r \in S : Delete(r) \in Element
  BY NewEntries DEF Proper
<1>4. PICK A : A = {all[r] : r \in S}
  OBVIOUS
<1>5. A \in SUBSET Element
  BY <1>3, <1>4
<1>6. PICK part : part = Subsequence(all, S)
  OBVIOUS
<1>7. part \in Seq(Element)
  BY <1>2, <1>4, <1>5, <1>6
<1> QED
  BY <1>2, <1>3, <1>6, <1>7 DEF Deletions

(* The worker fails, or comes to nothing.                                    *)
LEMMA FailTypes ==
  ASSUME TypeInv, Unreadable \/ RateLimit \/ Requeue \/ Bury
  PROVE  TypeInv'
<1> USE DEF TypeInv
<1>1. /\ UNCHANGED <<user, records, shop, added, login, validator, saves, undone, steady, ids>> /\ work' = Idle /\ work.pc # "idle"
  BY DEF Unreadable, RateLimit, Requeue, Bury, discogs, clients, history, Done
<1>2. user \in StoredUser /\ Proper(work.entry) /\ work.entry \in Element
  BY <1>1, Employed
<1>3. Collection' /\ Users' /\ Working'
  BY <1>1, <1>2, CollectionStays, UsersStay, WorkDone
<1>4. Rounds'
  <2>1. rounds' = rounds \/ \E B : Break(B)
    BY DEF Unreadable, RateLimit, Requeue, Bury, history, Broken
  <2>2. rounds' \in [Round -> [listed : SUBSET Record, sound : BOOLEAN]]
    BY <2>1, BreakTypes DEF Rounds
  <2>3. mishaps' = mishaps \/ Mishap
    BY DEF Unreadable, RateLimit, Requeue, Bury
  <2>4. mishaps' \in 0 .. MaxMishaps
    BY <2>3, MishapTypes DEF Mishap, Rounds
  <2> QED
    BY <1>1, <2>2, <2>4 DEF Rounds
<1>5. Queued'
  <2>1. CASE Unreadable \/ Bury
    BY <1>1, <2>1, QueueStays DEF Unreadable, Bury
  <2>2. CASE RateLimit
    <3> DEFINE e == work.entry
               p == e.prio
               s == queue[p]
    <3>1. p \in Priority /\ s \in Seq(Element) /\ e \in Element
      BY <1>2 DEF Element, Queued
    <3>2. queue' = [queue EXCEPT ![p] = <<e>> \o s]
      BY <2>2 DEF RateLimit
    <3> DEFINE t == <<e>> \o s
    <3>3. /\ t \in Seq(Element) /\ Len(t) = Len(s) + 1 /\ t[1] = e
          /\ \A k \in 1 .. Len(s) : t[k + 1] = s[k]
      <4> HIDE DEF s, e
      <4> QED
        BY <3>1, FrontPlaces
    <3> HIDE DEF t
    <3>4. queue' = [queue EXCEPT ![p] = t]
      BY <3>2 DEF t
    <3>5. queue' \in [Priority -> Seq(Element)]
      BY <3>3, <3>4 DEF Queued
    <3>6. ASSUME NEW q \in Priority, NEW k \in DOMAIN queue'[q]
          PROVE  Proper(queue'[q][k]) /\ queue'[q][k].prio = q
      <4>1. CASE q # p
        BY <3>4, <4>1 DEF Queued
      <4>2. CASE q = p /\ k = 1
        <5>1. PICK x : x = e
          OBVIOUS
        <5>2. queue'[q][k] = x /\ Proper(x) /\ x.prio = q
          BY <1>2, <3>1, <3>3, <3>4, <4>2, <5>1 DEF Queued
        <5> QED
          BY <5>2
      <4>3. CASE q = p /\ k # 1
        <5>1. queue'[q] = t /\ k \in 1 .. Len(s) + 1 /\ Len(s) \in Nat
          BY <3>1, <3>3, <3>4, <4>3 DEF Queued
        <5>2. PICK j \in 1 .. Len(s) : k = j + 1
          <6>1. k - 1 \in 1 .. Len(s) /\ k = (k - 1) + 1
            BY <4>3, <5>1
          <6> QED
            BY <6>1
        <5>3. queue'[q][k] = s[j] /\ j \in DOMAIN s
          BY <3>1, <3>3, <5>1, <5>2
        <5> QED
          BY <3>1, <4>3, <5>3 DEF Queued
      <4> QED
        BY <4>1, <4>2, <4>3
    <3> QED
      BY <1>1, <3>5, <3>6 DEF Queued, Proper, Begun
  <2>3. CASE Requeue
    <3>1. PICK e : e = [work.entry EXCEPT !.late = TRUE]
      OBVIOUS
    <3>2. e \in Element /\ e.prio = work.entry.prio /\ e.kind = work.entry.kind /\ e.n = work.entry.n /\ e.id = work.entry.id
      BY <1>2, <3>1 DEF Element
    <3>3. Proper(e)
      BY <1>2, <3>2 DEF Proper
    <3>4. Push(e)
      BY <2>3, <3>1 DEF Requeue
    <3> QED
      BY <1>1, <3>3, <3>4, ProperStays, PushTypes
  <2> QED
    BY <2>1, <2>2, <2>3
<1> QED
  BY <1>3, <1>4, <1>5

(* A page fails half way.                                                    *)
LEMMA FailPageTypes == ASSUME TypeInv, FailPage PROVE TypeInv'
<1> USE DEF TypeInv
<1>1. /\ UNCHANGED <<user, shop, added, login, validator, saves, steady>> /\ work' = Idle /\ Mishap
      /\ work.pc = "page" /\ work.entry.kind = "page" /\ work.id = work.entry.id
      /\ Push([work.entry EXCEPT !.late = TRUE]) \/ UNCHANGED queue
  BY DEF FailPage, discogs, clients, Done, Working
<1>2. user \in StoredUser /\ Proper(work.entry) /\ work.entry \in Element
  BY <1>1, Employed
<1>3. mishaps' \in 0 .. MaxMishaps
  BY <1>1, MishapTypes DEF Mishap, Rounds
<1>4. Collection' /\ Rounds' /\ ids \in Nat /\ ids' \in Nat /\ ids <= ids'
  <2>1. PICK part \in SUBSET PageOf(work.entry.n) :
          IF work.entry.n = 1
          THEN /\ ids < MaxRounds
               /\ ids' = ids + 1
               /\ rounds' = [rounds EXCEPT ![ids + 1].sound = FALSE]
               /\ Stamp(part, ids + 1)
          ELSE Stamp(part, work.id) /\ Broken(work.id) /\ UNCHANGED ids
    BY DEF FailPage
  <2>2. CASE work.entry.n = 1
    <3>1. /\ ids < MaxRounds /\ ids' = ids + 1 /\ rounds' = [rounds EXCEPT ![ids + 1].sound = FALSE]
          /\ Stamp(part, ids + 1)
      BY <2>1, <2>2
    <3>2. ids \in Nat /\ ids' \in 0 .. MaxRounds /\ ids + 1 \in 1 .. ids' /\ ids + 1 \in Round /\ ids + 1 \in Nat
      BY <3>1, BoundsAssumption DEF Rounds, Round
    <3>3. Collection'
      BY <1>1, <3>1, <3>2, StampTypes
    <3>4. rounds' \in [Round -> [listed : SUBSET Record, sound : BOOLEAN]]
      BY <3>1, <3>2 DEF Rounds
    <3> QED
      BY <1>1, <1>3, <3>1, <3>2, <3>3, <3>4 DEF Rounds
  <2>3. CASE work.entry.n # 1
    <3>1. Stamp(part, work.id) /\ Broken(work.id) /\ ids' = ids /\ work.id \in Begun /\ ids \in Nat
      BY <1>1, <1>2, <2>1, <2>3 DEF Proper, Rounds
    <3>2. Collection'
      BY <1>1, <3>1, StampTypes DEF Begun
    <3>3. rounds' \in [Round -> [listed : SUBSET Record, sound : BOOLEAN]]
      BY <3>1, BreakTypes DEF Broken, Rounds
    <3> QED
      BY <1>1, <1>3, <3>1, <3>2, <3>3 DEF Rounds
  <2> QED
    BY <2>2, <2>3
<1>5. \A e : Proper(e) => Proper(e)'
  BY <1>4 DEF Proper, Begun
<1>6. Queued'
  <2>1. CASE UNCHANGED queue
    BY <1>5, <2>1 DEF Queued
  <2>2. CASE Push([work.entry EXCEPT !.late = TRUE])
    <3>1. PICK e : e = [work.entry EXCEPT !.late = TRUE]
      OBVIOUS
    <3>2. e \in Element /\ e.prio = work.entry.prio /\ e.kind = work.entry.kind /\ e.n = work.entry.n /\ e.id = work.entry.id
      BY <1>2, <3>1 DEF Element
    <3>3. Proper(e)
      BY <1>2, <3>2 DEF Proper
    <3>4. Push(e)
      BY <2>2, <3>1
    <3> QED
      BY <1>5, <3>3, <3>4, PushTypes
  <2> QED
    BY <1>1, <2>1, <2>2
<1>7. Users' /\ Working'
  BY <1>1, <1>2, UsersStay, WorkDone
<1> QED
  BY <1>4, <1>6, <1>7

(* The copies of a release are finitely many, and so are their pages.        *)
LEMMA CopyPagesNumber ==
  ASSUME TypeInv, NEW r
  PROVE  /\ CopiesOf(r) \in SUBSET shop /\ IsFiniteSet(CopiesOf(r))
         /\ Cardinality(CopiesOf(r)) \in Nat /\ NewerCopies(r) \in Nat /\ CopyPages(r) \in Nat
<1>1. shop \in SUBSET Record
  BY BoundsAssumption DEF TypeInv, Collection, Record
<1>2. CopiesOf(r) \in SUBSET Record /\ {t \in CopiesOf(r) : t > r} \in SUBSET Record
  BY <1>1 DEF CopiesOf
<1>3. IsFiniteSet(CopiesOf(r)) /\ Cardinality(CopiesOf(r)) \in Nat /\ NewerCopies(r) \in Nat
  BY <1>2, FiniteRecords DEF NewerCopies
<1> DEFINE c == Cardinality(CopiesOf(r)) + PageSize - 1
<1>4. c \in Nat /\ PageSize \in Nat /\ PageSize > 0
  BY <1>3, BoundsAssumption
<1> HIDE DEF c
<1>5. c \div PageSize \in Nat
  BY <1>4
<1> QED
  BY <1>3, <1>5 DEF CopiesOf, CopyPages, c

(* The worker goes on with a page, a deletion or the user.                   *)
LEMMA HandlerTypes ==
  ASSUME TypeInv,
         \/ EnqueuePages \/ SaveRefreshed \/ PageRead \/ LastPage \/ CleanCollection \/ SaveCleaned
         \/ RetryMissing \/ FirstCopies \/ NextCopies \/ DeleteRecord \/ LoadUser \/ SaveFolders
  PROVE  TypeInv'
<1> USE DEF TypeInv
<1>1. UNCHANGED <<shop, added, login, validator, saves, ids>> /\ work.pc # "idle" /\ steady' \in BOOLEAN
  BY DEF EnqueuePages, SaveRefreshed, PageRead, LastPage, CleanCollection, SaveCleaned, RetryMissing,
         FirstCopies, NextCopies, DeleteRecord, LoadUser, SaveFolders, discogs, clients, history, Rounds
<1>2. /\ user \in StoredUser /\ work.user \in StoredUser /\ Proper(work.entry) /\ work.entry \in Element
      /\ work \in WorkState
  BY <1>1, Employed DEF Working
<1>3. Collection'
  <2>1. CASE DeleteRecord
    <3>1. records' = [records EXCEPT ![work.entry.n] = None] /\ undone' = undone \cup ({work.entry.n} \cap shop)
      BY <2>1 DEF DeleteRecord
    <3>2. shop \in SUBSET Record
      BY BoundsAssumption DEF Collection, Record
    <3> QED
      BY <1>1, <3>1, <3>2 DEF Collection, Stamps
  <2>2. CASE UNCHANGED <<records, undone>>
    BY <1>1, <2>2, CollectionStays
  <2> QED
    BY <2>1, <2>2 DEF EnqueuePages, SaveRefreshed, PageRead, LastPage, CleanCollection, SaveCleaned, RetryMissing,
       FirstCopies, NextCopies, LoadUser, SaveFolders, history
<1>4. user' \in StoredUser
  BY <1>2 DEF EnqueuePages, SaveRefreshed, PageRead, LastPage, CleanCollection, SaveCleaned, RetryMissing,
         FirstCopies, NextCopies, DeleteRecord, LoadUser, SaveFolders, StoredUser, State
<1>5. Users'
  BY <1>1, <1>4, UsersStay
<1>6. CASE EnqueuePages
  <2>1. /\ work.pc = "read" /\ work.entry.n = 1 /\ UNCHANGED <<user, records>>
        /\ work' = [work EXCEPT !.pc = "fresh"]
    BY <1>6 DEF EnqueuePages
  <2>2. PICK lost \in SUBSET (2 .. work.pages) :
          /\ Mishaps(Cardinality(lost))
          /\ queue' = [queue EXCEPT !["UNSET"] = @ \o Subsequence(OtherPages, (2 .. work.pages) \ lost)]
          /\ Break(IF lost = {} THEN {} ELSE {work.id})
    BY <1>6 DEF EnqueuePages
  <2> DEFINE new == Subsequence(OtherPages, (2 .. work.pages) \ lost)
  <2>3. /\ Cardinality(lost) \in Nat
        /\ new \in Seq(Element)
        /\ Elements(new) = {Page(n, work.id, work.entry.miss, "UNSET") : n \in (2 .. work.pages) \ lost}
        /\ \A n \in 2 .. work.pages : Proper(Page(n, work.id, work.entry.miss, "UNSET"))
    BY <2>1, PagesAre
  <2> HIDE DEF new
  <2>4. \A e \in Elements(new) : Proper(e) /\ e.prio = "UNSET"
    BY <2>3 DEF Page
  <2>5. queue' = [queue EXCEPT !["UNSET"] = @ \o new]
    BY <2>2 DEF new
  <2>6. Queued'
    BY <1>1, <2>3, <2>4, <2>5, ExtendTypes
  <2>7. Rounds'
    BY <1>1, <2>2, <2>3, MishapTypes, BreakTypes DEF Rounds
  <2>8. Working'
    BY <1>1, <1>2, <2>1 DEF Working, WorkState, Proper, Begun
  <2> QED
    BY <1>3, <1>5, <2>6, <2>7, <2>8
<1>7. CASE CleanCollection
  <2>1. PICK lost \in SUBSET Doomed(work.id) :
          /\ Mishaps(Cardinality(lost))
          /\ queue' = [queue EXCEPT !["UNSET"] = @ \o Deletions(Doomed(work.id) \ lost)]
    BY <1>7 DEF CleanCollection
  <2>2. /\ work.pc = "clean" /\ UNCHANGED <<user, records, rounds, ids>>
        /\ work' = [work EXCEPT !.pc = "cleaned", !.user = user, !.found = Cardinality(Stored)]
    BY <1>7 DEF CleanCollection, history
  <2>3. Stored \in SUBSET Record /\ lost \in SUBSET Record /\ (Doomed(work.id) \ lost) \in SUBSET Record
    BY DEF Stored, Doomed
  <2>4. Cardinality(lost) \in Nat /\ Cardinality(Stored) \in Nat
    BY <2>3, FiniteRecords
  <2> DEFINE new == Deletions(Doomed(work.id) \ lost)
  <2>5. new \in Seq(Element) /\ Elements(new) = {Delete(r) : r \in Doomed(work.id) \ lost}
    BY <2>3, DeletionsAre
  <2> HIDE DEF new
  <2>6. \A e \in Elements(new) : Proper(e) /\ e.prio = "UNSET"
    BY <2>3, <2>5, NewEntries
  <2>7. queue' = [queue EXCEPT !["UNSET"] = @ \o new]
    BY <2>1 DEF new
  <2>8. Queued'
    BY <1>1, <2>5, <2>6, <2>7, ExtendTypes
  <2>9. Rounds'
    BY <1>1, <2>1, <2>2, <2>4, MishapTypes DEF Rounds
  <2>10. Working'
    BY <1>1, <1>2, <2>2, <2>4 DEF Working, WorkState, Proper, Begun
  <2> QED
    BY <1>3, <1>5, <2>8, <2>9, <2>10
<1>8. CASE RetryMissing
  <2>1. UNCHANGED <<rounds, steady, ids>> /\ AskForRefresh /\ work' = Idle
    BY <1>8 DEF RetryMissing, history, Done
  <2> QED
    BY <1>3, <1>5, <2>1, AskTypes, WorkDone
<1>9. CASE \/ SaveRefreshed \/ PageRead \/ LastPage \/ SaveCleaned \/ FirstCopies \/ NextCopies \/ DeleteRecord
           \/ LoadUser \/ SaveFolders
  <2>1. UNCHANGED <<queue, rounds, ids, mishaps>>
    BY <1>9 DEF SaveRefreshed, PageRead, LastPage, SaveCleaned, FirstCopies, NextCopies, DeleteRecord, LoadUser,
           SaveFolders, history
  <2>2. Working'
    <3>1. CASE work' = Idle
      BY <3>1, WorkDone
    <3>2. CASE SaveRefreshed /\ work' # Idle
      BY <1>1, <1>2, <3>2 DEF SaveRefreshed, AfterPage, Working, WorkState, Proper, Begun, StoredUser
    <3>3. CASE PageRead /\ work' # Idle
      BY <1>1, <1>2, <3>3 DEF PageRead, AfterPage, Working, WorkState, Proper, Begun
    <3>4. CASE LastPage /\ work' # Idle
      BY <1>1, <1>2, <3>4 DEF LastPage, Working, WorkState, Proper, Begun
    <3>5. CASE LoadUser
      BY <1>1, <1>2, <3>5 DEF LoadUser, Working, WorkState, Proper, Begun, StoredUser
    <3>6. CASE FirstCopies /\ work' # Idle
      <4>1. /\ work' = [work EXCEPT !.pc = "check", !.page = 1, !.pages = CopyPages(work.entry.n)]
            /\ work.pc = "delete"
        BY <3>6 DEF FirstCopies
      <4>2. CopyPages(work.entry.n) \in Nat
        BY CopyPagesNumber
      <4> QED
        BY <1>1, <1>2, <4>1, <4>2 DEF Working, WorkState, Proper, Begun
    <3>7. CASE NextCopies /\ work' # Idle
      <4>1. work' = [work EXCEPT !.page = @ + 1] /\ work.pc = "check"
        BY <3>7 DEF NextCopies
      <4> QED
        BY <1>1, <1>2, <4>1 DEF Working, WorkState, Proper, Begun
    <3> QED
      BY <1>9, <3>1, <3>2, <3>3, <3>4, <3>5, <3>6, <3>7 DEF SaveCleaned, DeleteRecord, SaveFolders, Done
  <2> QED
    BY <1>1, <1>3, <1>5, <2>1, <2>2, QueueStays, RoundsStay
<1> QED
  BY <1>6, <1>7, <1>8, <1>9

(* GetLogin, the validator, SetIntent and UpgradeUser.                       *)
LEMMA ClientTypes ==
  ASSUME TypeInv, LoginStep \/ ValidatorStep \/ UpgradeUser \/ MissIntent
  PROVE  TypeInv'
<1> USE DEF TypeInv
<1>1. UNCHANGED <<records, shop, added, work, saves, rounds, undone, steady, ids>> /\ steady \in BOOLEAN
  BY DEF LoginStep, ValidatorStep, UpgradeUser, MissIntent, GenerateToken, NewUserRefresh, SaveLogin,
         LoginFails, ValidateName, ValidateCollection, SaveValidated, discogs, clients, history, Rounds
<1>2. Collection' /\ Working'
  BY <1>1, CollectionStays, WorkStays
<1>3. Users'
  <2>a. user = None => \A p \in Priority : queue[p] = <<>>
    BY DEF Users
  <2>1. CASE GenerateToken
    <3>1. shop \in SUBSET Record
      BY BoundsAssumption DEF Collection, Record
    <3>2. Cardinality(shop) \in Nat
      BY <3>1, FiniteRecords
    <3>3. /\ user' = [state |-> "UNKNOWN", named |-> FALSE, fresh |-> FALSE, checked |-> FALSE, expected |-> 0]
          /\ UNCHANGED validator
      BY <2>1 DEF GenerateToken
    <3>4. PICK size \in Nat :
            login' = [pc |-> "token", user |-> [state |-> "REFRESHING", named |-> TRUE, fresh |-> FALSE,
                                                checked |-> FALSE, expected |-> size]]
      BY <2>1, <3>2 DEF GenerateToken
    <3>5. PICK u : u = [state |-> "REFRESHING", named |-> TRUE, fresh |-> FALSE, checked |-> FALSE, expected |-> size]
      OBVIOUS
    <3>6. u \in StoredUser /\ user' \in StoredUser /\ login' = [pc |-> "token", user |-> u]
      BY <3>3, <3>4, <3>5 DEF StoredUser, State
    <3> QED
      BY <3>3, <3>6, NotNone DEF Users
  <2>2. CASE NewUserRefresh
    BY <1>1, <2>2, NotNone DEF NewUserRefresh, Users
  <2>3. CASE SaveLogin
    BY <1>1, <2>3, NotNone DEF SaveLogin, Users, Asleep
  <2>4. CASE LoginFails
    BY <1>1, <2>4, NotNone DEF LoginFails, Users, Asleep
  <2>5. CASE ValidateName
    BY <1>1, <2>5, NotNone DEF ValidateName, Users
  <2>6. CASE ValidateCollection
    <3>1. UNCHANGED <<user, login>> /\ validator.pc = "collection"
      BY <2>6 DEF ValidateCollection
    <3>2. validator' = Asleep \/ validator' = [validator EXCEPT !.pc = "sales"]
      BY <2>6 DEF ValidateCollection
    <3>3. validator.user \in StoredUser /\ user # None
      BY <3>1 DEF Users
    <3> QED
      BY <1>1, <3>1, <3>2, <3>3, NotNone DEF Users, Asleep
  <2>7. CASE SaveValidated
    BY <1>1, <2>7, NotNone DEF SaveValidated, Users, Asleep
  <2>8. CASE UpgradeUser
    BY <1>1, <2>8, NotNone DEF UpgradeUser, Users, StoredUser, State, clients
  <2>9. CASE MissIntent
    BY <1>1, <2>9, NotNone DEF MissIntent, Users, clients
  <2> QED
    BY <2>1, <2>2, <2>3, <2>4, <2>5, <2>6, <2>7, <2>8, <2>9 DEF LoginStep, ValidatorStep
<1>4. Queued' /\ Rounds'
  <2>1. CASE NewUserRefresh
    BY <1>1, <2>1, AskTypes DEF NewUserRefresh
  <2>2. CASE ValidateCollection
    <3>1. CASE AskForRefresh
      BY <1>1, <3>1, AskTypes
    <3>2. CASE UNCHANGED <<queue, mishaps>>
      BY <1>1, <3>2, QueueStays, RoundsStay
    <3>3. CASE (EnqueueRefresh(FALSE, "UNSET") \/ UNCHANGED queue) /\ Mishap
      <4>1. Queued'
        BY <1>1, <3>3, RefreshTypes, QueueStays DEF Priority
      <4>2. mishaps' \in 0 .. MaxMishaps
        BY <3>3, MishapTypes DEF Mishap, Rounds
      <4> QED
        BY <1>1, <4>1, <4>2 DEF Rounds
    <3> QED
      BY <2>2, <3>1, <3>2, <3>3 DEF ValidateCollection
  <2>3. CASE ValidateName
    <3>1. UNCHANGED mishaps /\ (Push(RefreshUser) \/ UNCHANGED queue)
      BY <2>3 DEF ValidateName
    <3> QED
      BY <1>1, <3>1, PushTypes, ProperStays, NewEntries, QueueStays, RoundsStay DEF Rounds
  <2>4. CASE MissIntent
    <3>1. EnqueueRefresh(TRUE, "HIGH") /\ Mishap
      BY <2>4 DEF MissIntent
    <3>2. mishaps' \in 0 .. MaxMishaps
      BY <3>1, MishapTypes DEF Mishap, Rounds
    <3> QED
      BY <1>1, <3>1, <3>2, RefreshTypes DEF Rounds, Priority
  <2>5. CASE LoginFails
    <3>1. UNCHANGED queue /\ Mishap
      BY <2>5 DEF LoginFails
    <3>2. mishaps' \in 0 .. MaxMishaps
      BY <3>1, MishapTypes DEF Mishap, Rounds
    <3> QED
      BY <1>1, <3>1, <3>2, QueueStays DEF Rounds
  <2>6. CASE GenerateToken \/ SaveLogin \/ SaveValidated \/ UpgradeUser
    <3>1. UNCHANGED <<queue, mishaps>>
      BY <2>6 DEF GenerateToken, SaveLogin, SaveValidated, UpgradeUser, history
    <3> QED
      BY <1>1, <3>1, QueueStays, RoundsStay
  <2> QED
    BY <2>1, <2>2, <2>3, <2>4, <2>5, <2>6 DEF LoginStep, ValidatorStep
<1> QED
  BY <1>2, <1>3, <1>4

(* The user at Discogs, and time.                                            *)
LEMMA WorldTypes ==
  ASSUME TypeInv, Add \/ (\E r \in Record : Remove(r)) \/ Ripen \/ WeekPasses
  PROVE  TypeInv'
<1> USE DEF TypeInv
<1>1. CASE Add
  <2>1. /\ added < MaxRecords /\ added' = added + 1 /\ shop' = shop \cup {added + 1} /\ Mishap
        /\ UNCHANGED <<user, records, queue, work, login, validator, saves, rounds, undone, ids>> /\ steady' \in BOOLEAN
    BY <1>1 DEF Add, Moves, clients, Rounds
  <2>2. Collection'
    BY <2>1, BoundsAssumption DEF Collection, Stamps, Rounds
  <2>3. mishaps' \in 0 .. MaxMishaps
    BY <2>1, MishapTypes DEF Mishap, Rounds
  <2>4. Users'
    BY <2>1 DEF Users
  <2> QED
    BY <2>1, <2>2, <2>3, <2>4, QueueStays, WorkStays DEF Rounds
<1>2. CASE \E r \in Record : Remove(r)
  <2>1. PICK r \in Record : Remove(r)
    BY <1>2
  <2>2. /\ shop' = shop \ {r} /\ Mishap /\ Break(Begun)
        /\ UNCHANGED <<user, records, added, queue, work, login, validator, saves, undone, ids>> /\ steady' \in BOOLEAN
    BY <2>1 DEF Remove, Moves, clients, Rounds
  <2>3. Collection'
    BY <2>2 DEF Collection, Stamps
  <2>4. mishaps' \in 0 .. MaxMishaps
    BY <2>2, MishapTypes DEF Mishap, Rounds
  <2>5. Rounds'
    BY <2>2, <2>4, BreakTypes DEF Rounds
  <2>6. Users'
    BY <2>2 DEF Users
  <2> QED
    BY <2>2, <2>3, <2>5, <2>6, QueueStays, WorkStays
<1>3. CASE Ripen
  <2>1. /\ queue' = [p \in Priority |-> [k \in 1 .. Len(queue[p]) |-> [queue[p][k] EXCEPT !.late = FALSE]]]
        /\ UNCHANGED <<user, records, shop, added, work, login, validator, saves, rounds, undone, steady, ids, mishaps>>
        /\ steady \in BOOLEAN
    BY <1>3 DEF Ripen, discogs, clients, history, Rounds
  <2>2. ASSUME NEW p \in Priority, NEW k \in 1 .. Len(queue[p])
        PROVE  /\ [queue[p][k] EXCEPT !.late = FALSE] \in Element
               /\ Proper([queue[p][k] EXCEPT !.late = FALSE])
               /\ [queue[p][k] EXCEPT !.late = FALSE].prio = p
    <3>1. PICK e : e = queue[p][k]
      OBVIOUS
    <3>2. e \in Element /\ Proper(e) /\ e.prio = p
      BY <3>1 DEF Queued, Proper
    <3>3. PICK f : f = [e EXCEPT !.late = FALSE]
      OBVIOUS
    <3>4. /\ f \in Element /\ f.kind = e.kind /\ f.n = e.n /\ f.id = e.id /\ f.prio = e.prio
      BY <3>2, <3>3 DEF Element
    <3>5. Proper(f)
      BY <3>2, <3>4 DEF Proper
    <3> QED
      BY <3>1, <3>2, <3>3, <3>4, <3>5
  <2>3. ASSUME NEW p \in Priority
        PROVE  /\ queue'[p] \in Seq(Element) /\ DOMAIN queue'[p] = 1 .. Len(queue[p])
               /\ \A k \in DOMAIN queue'[p] : Proper(queue'[p][k]) /\ queue'[p][k].prio = p
    <3>1. queue[p] \in Seq(Element) /\ Len(queue[p]) \in Nat
      BY DEF Queued
    <3>2. queue'[p] = [k \in 1 .. Len(queue[p]) |-> [queue[p][k] EXCEPT !.late = FALSE]]
      BY <2>1
    <3>3. queue'[p] \in [1 .. Len(queue[p]) -> Element]
      BY <2>2, <3>2
    <3>4. queue'[p] \in Seq(Element)
      <4>1. PICK n \in Nat : n = Len(queue[p])
        BY <3>1
      <4>2. queue'[p] \in [1 .. n -> Element]
        BY <3>3, <4>1
      <4> QED
        BY <4>2, SeqDef
    <3> QED
      BY <2>2, <3>2, <3>4
  <2>4. queue' \in [Priority -> Seq(Element)]
    BY <2>1, <2>3
  <2>5. Queued'
    BY <2>1, <2>3, <2>4 DEF Queued, Proper, Begun
  <2>6. Users'
    <3>1. user = None => \A p \in Priority : queue'[p] = <<>>
      <4> SUFFICES ASSUME user = None, NEW p \in Priority PROVE queue'[p] = <<>>
        OBVIOUS
      <4>1. queue[p] = <<>>
        BY DEF Users
      <4>2. DOMAIN queue'[p] = 1 .. 0 /\ queue'[p] \in Seq(Element)
        BY <2>3, <4>1
      <4>3. Len(queue'[p]) \in Nat /\ DOMAIN queue'[p] = 1 .. Len(queue'[p])
        BY <4>2, LenProperties
      <4>4. Len(queue'[p]) = 0
        BY <4>2, <4>3
      <4> QED
        BY <4>2, <4>4, EmptySeq
    <3> QED
      BY <2>1, <3>1 DEF Users
  <2> QED
    BY <2>1, <2>5, <2>6, CollectionStays, RoundsStay, WorkStays
<1>4. CASE WeekPasses
  <2>1. /\ user \in StoredUser /\ user' = Aged(user)
        /\ work' = [work EXCEPT !.user = Aged(@)]
        /\ login' = [login EXCEPT !.user = Aged(@)]
        /\ validator' = [validator EXCEPT !.user = Aged(@)]
        /\ UNCHANGED <<records, shop, added, queue, saves, rounds, undone, steady, ids, mishaps>> /\ steady \in BOOLEAN
    BY <1>4 DEF WeekPasses, discogs, history, Users, Rounds
  <2>2. \A u \in StoredUser \cup {None} : Aged(u) \in StoredUser \cup {None} /\ (Aged(u) = None <=> u = None)
    BY NotNone DEF Aged, StoredUser
  <2>3. Users'
    BY <2>1, <2>2, NotNone DEF Users
  <2>4. Working'
    <3>1. work \in WorkState /\ work.user \in StoredUser \cup {None}
      BY DEF Working, WorkState
    <3>2. PICK u \in StoredUser \cup {None} : u = Aged(work.user) /\ (u = None <=> work.user = None)
      BY <2>2, <3>1
    <3>3. work' = [work EXCEPT !.user = u]
      BY <2>1, <3>2
    <3>4. /\ work' \in WorkState /\ work'.pc = work.pc /\ work'.entry = work.entry /\ work'.id = work.id
          /\ work'.user = u
      BY <3>1, <3>3 DEF WorkState
    <3>5. work.pc # "idle" => u \in StoredUser
      BY <3>2, NotNone DEF Working
    <3> QED
      BY <2>1, <3>2, <3>4, <3>5 DEF Working, Proper, Begun
  <2> QED
    BY <2>1, <2>3, <2>4, CollectionStays, RoundsStay, QueueStays
<1> QED
  BY <1>1, <1>2, <1>3, <1>4

(* The API server reads, adds and saves records.                             *)
ApiStep ==
  \/ \E r \in Record : ScoreIntent(r)
  \/ AddRecord
  \/ \E s \in saves : SaveRecord(s) \/ LoseRecord(s)
LEMMA ApiTypes == ASSUME TypeInv, ApiStep PROVE TypeInv'
<1> USE DEF TypeInv
<1>1. /\ UNCHANGED <<user, queue, work, login, validator, rounds, ids>>
      /\ steady' \in BOOLEAN /\ (mishaps' = mishaps \/ Mishap)
  BY DEF ApiStep, ScoreIntent, AddRecord, SaveRecord, LoseRecord, Moves, discogs, history, Rounds
<1>2. mishaps' \in 0 .. MaxMishaps
  BY <1>1, MishapTypes DEF Mishap, Rounds
<1>3. Users' /\ Queued' /\ Working' /\ Rounds'
  BY <1>1, <1>2, QueueStays, WorkStays DEF Users, Rounds
<1>4. Collection'
  <2>1. ASSUME NEW r \in Record, ScoreIntent(r) PROVE Collection'
    <3>1. /\ records[r] # None /\ saves' = saves \cup {[r |-> r, stamp |-> records[r]]}
          /\ UNCHANGED <<records, shop, added, undone, ids>>
      BY <2>1 DEF ScoreIntent, Stored, discogs, history
    <3>2. records[r] \in Stamps
      BY <3>1 DEF Collection
    <3>3. saves' \subseteq [r : Record, stamp : Stamps]
      BY <3>1, <3>2 DEF Collection
    <3> QED
      BY <3>1, <3>3 DEF Collection, Stamps
  <2>2. CASE AddRecord
    <3>1. /\ added < MaxRecords /\ added' = added + 1 /\ shop' = shop \cup {added + 1}
          /\ saves' = saves \cup {[r |-> added + 1, stamp |-> 0]}
          /\ UNCHANGED <<records, undone, ids>>
      BY <2>2 DEF AddRecord
    <3>2. added + 1 \in Record /\ added' \in 0 .. MaxRecords /\ shop' \subseteq 1 .. added' /\ 0 \in Stamps
      BY <3>1, BoundsAssumption DEF Collection, Record, Stamps, Rounds
    <3>3. saves' \subseteq [r : Record, stamp : Stamps]
      BY <3>1, <3>2 DEF Collection
    <3> QED
      BY <3>1, <3>2, <3>3 DEF Collection, Stamps
  <2>3. ASSUME NEW s \in saves, SaveRecord(s) \/ LoseRecord(s) PROVE Collection'
    <3>1. s.r \in Record /\ s.stamp \in Stamps
      BY DEF Collection
    <3>2. /\ UNCHANGED <<shop, added, ids>> /\ saves' = saves \ {s}
          /\ records' = records \/ records' = [records EXCEPT ![s.r] = s.stamp]
          /\ undone' = undone \/ undone' = undone \cup {s.r}
      BY <2>3 DEF SaveRecord, LoseRecord, discogs, history
    <3> QED
      BY <3>1, <3>2 DEF Collection, Stamps
  <2> QED
    BY <2>1, <2>2, <2>3 DEF ApiStep
<1> QED
  BY <1>3, <1>4

(* Every step keeps the types.                                               *)
LEMMA TypeInvNext == TypeInv /\ [Next]_vars => TypeInv'
<1> SUFFICES ASSUME TypeInv, [Next]_vars PROVE TypeInv'
  OBVIOUS
<1>1. CASE UNCHANGED vars
  <2>1. /\ UNCHANGED <<user, records, shop, added, queue, work, login, validator, saves, rounds, undone, steady, ids, mishaps>>
        /\ steady \in BOOLEAN
    BY <1>1 DEF vars, TypeInv, Rounds
  <2> QED
    BY <2>1, CollectionStays, RoundsStay, QueueStays, WorkStays DEF TypeInv, Users
<1>2. CASE WorkerStep
  BY <1>2, TakeTypes, ReadPageTypes, FailTypes, HandlerTypes DEF WorkerStep
<1>3. CASE Next /\ ~WorkerStep
  BY <1>3, FailTypes, FailPageTypes, ClientTypes, ApiTypes, WorldTypes DEF Next, ApiStep
<1> QED
  BY <1>1, <1>2, <1>3

(* The stores, the queue and the copies of the user keep their types, and a  *)
(* handler has the entry and the copy it needs wherever it stops.            *)
THEOREM CollectionTypeCorrect == Spec => []TypeOK
<1>1. Init => TypeInv
  BY TypeInvInit
<1>2. TypeInv /\ [Next]_vars => TypeInv'
  BY TypeInvNext
<1>3. TypeInv => TypeOK
  BY TypeInvTypes
<1> QED
  BY <1>1, <1>2, <1>3, PTL DEF Spec

(* The pages of the copies.                                                  *)
LEMMA CopiesEnd ==
  ASSUME TypeInv, NEW r \in shop
  PROVE  NewerCopies(r) < CopyPages(r) * PageSize
<1> DEFINE c == Cardinality(CopiesOf(r))
           newer == {t \in CopiesOf(r) : t > r}
<1>1. /\ CopiesOf(r) \in SUBSET shop /\ IsFiniteSet(CopiesOf(r)) /\ c \in Nat /\ NewerCopies(r) \in Nat
  BY CopyPagesNumber
<1>2. r \in Int /\ r \in CopiesOf(r)
  BY DEF CopiesOf, TypeInv, Collection
<1>3. newer \in SUBSET CopiesOf(r) /\ newer # CopiesOf(r)
  <2>1. ~ (r > r)
    BY <1>2
  <2> QED
    BY <1>2, <2>1
<1>4. NewerCopies(r) < c
  <2>1. Cardinality(newer) <= c /\ Cardinality(newer) # c
    BY <1>1, <1>3, FS_Subset
  <2> QED
    BY <1>1, <2>1 DEF NewerCopies
<1>5. PageSize \in Nat /\ PageSize > 0
  BY BoundsAssumption
<1> HIDE DEF c
<1> DEFINE pages == (c + PageSize - 1) \div PageSize
<1>6. pages * PageSize >= c /\ pages \in Nat
  BY <1>1, <1>5
<1>7. pages = CopyPages(r)
  BY DEF CopyPages, c
<1> HIDE DEF pages
<1>8. PICK all \in Int : all = CopyPages(r) * PageSize /\ all >= c
  BY <1>5, <1>6, <1>7
<1> QED
  BY <1>1, <1>4, <1>8

(* What comes and goes elsewhere leaves the copies of a release alone.       *)
LEMMA CopiesStay ==
  ASSUME NEW r, NEW s, r % Releases # s % Releases, shop' = shop \cup {s} \/ shop' = shop \ {s}
  PROVE  /\ CopiesOf(r)' = CopiesOf(r) /\ NewerCopies(r)' = NewerCopies(r) /\ CopyPages(r)' = CopyPages(r)
         /\ r \in shop' <=> r \in shop
<1>1. CopiesOf(r)' = CopiesOf(r)
  BY DEF CopiesOf
<1> QED
  BY <1>1 DEF NewerCopies, CopyPages

(* A check that nothing disturbs misses no copy.                             *)
LEMMA CheckInvNext == TypeInv /\ CheckInv /\ [Next]_vars => CheckInv'
<1> SUFFICES ASSUME TypeInv, CheckInv, [Next]_vars, work'.pc = "check", steady'
             PROVE  /\ work'.pages = CopyPages(work.entry.n)'
                    /\ (work.entry.n \in shop)' => NewerCopies(work.entry.n)' >= work'.page * PageSize
  BY DEF CheckInv
<1>1. work \in WorkState /\ PageSize \in Nat
  BY BoundsAssumption DEF TypeInv, Working
<1>2. CASE FirstCopies
  <2>1. /\ work' = [work EXCEPT !.pc = "check", !.page = 1, !.pages = CopyPages(work.entry.n)]
        /\ ~ OnCopyPage(work.entry.n, 1) /\ UNCHANGED shop
    BY <1>2 DEF FirstCopies, discogs, Idle
  <2>2. work'.page = 1 /\ work'.pages = CopyPages(work.entry.n) /\ work'.entry = work.entry
    BY <1>1, <2>1 DEF WorkState
  <2>3. CopyPages(work.entry.n)' = CopyPages(work.entry.n) /\ NewerCopies(work.entry.n)' = NewerCopies(work.entry.n)
    BY <2>1, <2>2 DEF CopyPages, NewerCopies, CopiesOf
  <2>4. NewerCopies(work.entry.n) \in Nat
    BY CopyPagesNumber
  <2>5. work.entry.n \in shop => NewerCopies(work.entry.n) >= 1 * PageSize
    BY <1>1, <2>1, <2>4 DEF OnCopyPage
  <2> QED
    BY <2>1, <2>2, <2>3, <2>5
<1>3. CASE NextCopies
  <2>1. /\ work' = [work EXCEPT !.page = @ + 1] /\ work.pc = "check" /\ ~ OnCopyPage(work.entry.n, work.page + 1)
        /\ UNCHANGED <<shop, steady>>
    BY <1>3 DEF NextCopies, discogs, history, Idle
  <2>2. work'.page = work.page + 1 /\ work'.pages = work.pages /\ work'.entry = work.entry /\ work.page \in Nat
    BY <1>1, <2>1 DEF WorkState
  <2>3. CopyPages(work.entry.n)' = CopyPages(work.entry.n) /\ NewerCopies(work.entry.n)' = NewerCopies(work.entry.n)
    BY <2>1, <2>2 DEF CopyPages, NewerCopies, CopiesOf
  <2>4. NewerCopies(work.entry.n) \in Nat
    BY CopyPagesNumber
  <2>5. (work.page + 1) - 1 = work.page
    BY <2>2
  <2>6. ASSUME work.entry.n \in shop PROVE NewerCopies(work.entry.n) >= (work.page + 1) * PageSize
    <3>1. NewerCopies(work.entry.n) >= ((work.page + 1) - 1) * PageSize
      BY <2>1, <2>5, <2>6 DEF CheckInv
    <3> DEFINE to == (work.page + 1) * PageSize
    <3>2. to \in Int
      BY <1>1, <2>2
    <3>3. ~ (NewerCopies(work.entry.n) < to)
      BY <2>1, <2>6, <3>1 DEF OnCopyPage
    <3> HIDE DEF to
    <3>4. NewerCopies(work.entry.n) >= to
      BY <2>4, <3>2, <3>3
    <3> QED
      BY <3>4 DEF to
  <2> QED
    BY <2>1, <2>2, <2>3, <2>6 DEF CheckInv
<1>4. CASE Add \/ AddRecord \/ \E r \in Record : Remove(r)
  <2>1. PICK s : (shop' = shop \cup {s} \/ shop' = shop \ {s}) /\ Moves(s) /\ UNCHANGED work
    BY <1>4 DEF Add, AddRecord, Remove
  <2>2. steady /\ work.pc = "check" /\ s % Releases # work.entry.n % Releases
    BY <2>1 DEF Moves
  <2>3. /\ CopyPages(work.entry.n)' = CopyPages(work.entry.n) /\ NewerCopies(work.entry.n)' = NewerCopies(work.entry.n)
        /\ work.entry.n \in shop' <=> work.entry.n \in shop
    BY <2>1, <2>2, CopiesStay DEF CopyPages, NewerCopies, CopiesOf
  <2> QED
    BY <2>1, <2>2, <2>3 DEF CheckInv
<1>5. CASE UNCHANGED <<shop, steady>> /\ work'.pc = work.pc /\ work'.entry = work.entry /\ work'.pages = work.pages /\ work'.page = work.page
  BY <1>5 DEF CheckInv, CopyPages, NewerCopies, CopiesOf
<1>6. CASE WeekPasses
  <2>1. UNCHANGED <<shop, steady>> /\ work' = [work EXCEPT !.user = Aged(@)]
    BY <1>6 DEF WeekPasses, discogs, history
  <2> QED
    BY <1>1, <1>5, <2>1 DEF WorkState
<1>7. CASE work'.pc # "check"
  BY <1>7
<1>8. ASSUME NEW p \in Priority, Take(p) PROVE work'.pc # "check"
  <2>1. PICK i \in 1 .. Len(queue[p]) :
          work' = [Idle EXCEPT !.pc = queue[p][i].kind, !.entry = queue[p][i], !.user = user, !.id = queue[p][i].id]
    BY <1>8 DEF Take
  <2>2. queue[p][i].kind \in {"page", "delete", "user"}
    <3>1. queue[p] \in Seq(Element)
      BY DEF TypeInv, Queued
    <3>2. queue[p][i] \in Element
      BY <3>1
    <3> QED
      BY <3>2 DEF Element
  <2> QED
    BY <2>1, <2>2 DEF Idle
<1>9. Next => \/ FirstCopies \/ NextCopies \/ Add \/ AddRecord \/ (\E r \in Record : Remove(r)) \/ WeekPasses
              \/ (\E p \in Priority : Take(p)) \/ work'.pc # "check"
              \/ UNCHANGED <<work, shop, steady>>
  <2>1. ASSUME ReadPage PROVE work'.pc # "check"
    BY <1>1, <2>1 DEF ReadPage, BeginRound, WorkState
  <2>2. ASSUME SaveRefreshed \/ PageRead \/ LastPage \/ EnqueuePages \/ CleanCollection \/ LoadUser
        PROVE  work'.pc # "check"
    <3>1. CASE SaveRefreshed
      BY <1>1, <3>1 DEF SaveRefreshed, AfterPage, WorkState, Idle
    <3>2. CASE PageRead
      BY <1>1, <3>2 DEF PageRead, AfterPage, WorkState, Idle
    <3>3. CASE LastPage
      BY <1>1, <3>3 DEF LastPage, WorkState, Idle
    <3>4. CASE EnqueuePages
      BY <1>1, <3>4 DEF EnqueuePages, WorkState
    <3>5. CASE CleanCollection
      BY <1>1, <3>5 DEF CleanCollection, WorkState
    <3>6. CASE LoadUser
      BY <1>1, <3>6 DEF LoadUser, WorkState
    <3> QED
      BY <2>2, <3>1, <3>2, <3>3, <3>4, <3>5, <3>6
  <2>3. ASSUME Unreadable \/ FailPage \/ RateLimit \/ Requeue \/ Bury \/ SaveCleaned \/ RetryMissing
                 \/ DeleteRecord \/ SaveFolders
        PROVE  work'.pc # "check"
    <3>1. Done
      BY <2>3 DEF Unreadable, FailPage, RateLimit, Requeue, Bury, SaveCleaned, RetryMissing, DeleteRecord, SaveFolders
    <3> QED
      BY <3>1 DEF Done, Idle
  <2>4. ASSUME LoginStep \/ ValidatorStep \/ UpgradeUser \/ MissIntent \/ (\E r \in Record : ScoreIntent(r))
                 \/ (\E s \in saves : SaveRecord(s) \/ LoseRecord(s)) \/ Ripen
        PROVE  UNCHANGED <<work, shop, steady>>
    BY <2>4 DEF LoginStep, ValidatorStep, UpgradeUser, MissIntent, GenerateToken, NewUserRefresh, SaveLogin, LoginFails,
           ValidateName, ValidateCollection, SaveValidated, ScoreIntent, SaveRecord, LoseRecord, Ripen, discogs, history
  <2> QED
    BY <2>1, <2>2, <2>3, <2>4 DEF Next, WorkerStep
<1> QED
  BY <1>2, <1>3, <1>4, <1>5, <1>6, <1>8, <1>9 DEF vars

(* However pages of the refresh are lost, retried, shifted or read by two    *)
(* rounds at once, and whatever stamps the API server takes back, no record  *)
(* that Discogs still has is deleted, unless copies of its release came or   *)
(* went while the check read them.                                           *)
THEOREM NothingListedIsDeleted == Spec => DeletesOnlyRemoved
<1>1. ASSUME TypeInv, CheckInv, [Next]_vars, NEW r \in Record, records[r] # None, records'[r] = None
      PROVE  r \notin shop \/ ~ steady
  <2>1. CASE DeleteRecord
    <3> SUFFICES ASSUME r \in shop, steady PROVE FALSE
      OBVIOUS
    <3>1. work.pc = "check" /\ work.page >= work.pages /\ records' = [records EXCEPT ![work.entry.n] = None]
      BY <2>1 DEF DeleteRecord, Checked
    <3>2. r = work.entry.n
      BY <1>1, <3>1 DEF TypeInv, Collection
    <3>3. work.pages = CopyPages(r) /\ NewerCopies(r) >= work.page * PageSize
      BY <1>1, <3>1, <3>2 DEF CheckInv
    <3>4. NewerCopies(r) < CopyPages(r) * PageSize /\ NewerCopies(r) \in Nat /\ CopyPages(r) \in Nat
      BY <1>1, CopiesEnd, CopyPagesNumber
    <3>5. work.page \in Nat /\ PageSize \in Nat
      BY <1>1, BoundsAssumption DEF TypeInv, Working, WorkState
    <3>6. work.page * PageSize >= CopyPages(r) * PageSize
      BY <3>1, <3>3, <3>4, <3>5
    <3>7. PICK a \in Int, b \in Int : a = work.page * PageSize /\ b = CopyPages(r) * PageSize
      BY <3>4, <3>5
    <3> QED
      BY <3>3, <3>4, <3>6, <3>7
  <2>2. CASE ReadPage \/ FailPage
    <3>1. PICK S, i : i \in Nat /\ Stamp(S, i)
      <4>1. ids + 1 \in Nat /\ work.id \in Nat
        BY <1>1 DEF TypeInv, Rounds, Working, WorkState
      <4>2. Stamp(PageOf(1), ids + 1) \/ Stamp(PageOf(work.entry.n), work.id) \/ \E part : Stamp(part, ids + 1) \/ Stamp(part, work.id)
        BY <2>2 DEF ReadPage, FailPage, BeginRound
      <4> QED
        BY <4>1, <4>2
    <3> QED
      BY <1>1, <3>1, NotNone DEF Stamp
  <2>3. CASE \E s \in saves : SaveRecord(s)
    <3>1. PICK s \in saves : records' = [records EXCEPT ![s.r] = s.stamp]
      BY <2>3 DEF SaveRecord
    <3>2. s.stamp \in Nat
      BY <1>1 DEF TypeInv, Collection, Stamps
    <3> QED
      BY <1>1, <3>1, <3>2, NotNone DEF TypeInv, Collection
  <2>4. CASE UNCHANGED records
    BY <1>1, <2>4
  <2> QED
    BY <1>1, <2>1, <2>2, <2>3, <2>4
    DEF Next, WorkerStep, LoginStep, ValidatorStep, Take, Unreadable, EnqueuePages, SaveRefreshed, PageRead,
        LastPage, CleanCollection, SaveCleaned, RetryMissing, FirstCopies, NextCopies, LoadUser, SaveFolders,
        GenerateToken, NewUserRefresh, SaveLogin, LoginFails, ValidateName, ValidateCollection, SaveValidated,
        RateLimit, Requeue, Bury, UpgradeUser, MissIntent, ScoreIntent, AddRecord, LoseRecord, Add, Remove, Ripen,
        WeekPasses, vars
<1>2. TypeInv /\ CheckInv /\ [Next]_vars
        => [\A r \in Record : records[r] # None /\ records'[r] = None => r \notin shop \/ ~ steady]_vars
  BY <1>1
<1>3. Init => TypeInv /\ CheckInv
  BY TypeInvInit DEF Init, Idle, CheckInv
<1>4. TypeInv /\ CheckInv /\ [Next]_vars => TypeInv' /\ CheckInv'
  BY TypeInvNext, CheckInvNext
<1> QED
  BY <1>2, <1>3, <1>4, PTL DEF Spec, DeletesOnlyRemoved

----------------------------------------------------------------------------
(* What a round finds.                                                       *)

(* What is known of the rounds that are sound yet is not undone.             *)
Kept ==
  \A i \in Round : Sound(i)' /\ i \in Begun =>
    /\ Sound(i) /\ Stays(i)'
    /\ \A n \in Nat : Reached(i, n) => Reached(i, n)'
    /\ Whole(i) => Whole(i)'

(* It is enough that stamps stay, and that no record moves to an earlier     *)
(* page.                                                                     *)
LEMMA KeptStamps ==
  ASSUME TypeInv,
         \A i \in Round : Sound(i)' /\ i \in Begun =>
           /\ Sound(i) /\ Stays(i)' /\ rounds'[i].listed = rounds[i].listed
           /\ \A r \in rounds[i].listed : (Stamped(r, i) => Stamped(r, i)') /\ Newer(r) <= Newer(r)'
                                          /\ Newer(r) \in Nat /\ Newer(r)' \in Nat
  PROVE  Kept
<1> SUFFICES ASSUME NEW i \in Round, Sound(i)', i \in Begun
             PROVE  /\ Sound(i) /\ Stays(i)'
                    /\ \A n \in Nat : Reached(i, n) => Reached(i, n)'
                    /\ Whole(i) => Whole(i)'
  BY DEF Kept
<1>1. ASSUME NEW n \in Nat, Reached(i, n) PROVE Reached(i, n)'
  <2>1. (n - 1) * PageSize \in Int
    BY BoundsAssumption
  <2> DEFINE places == (n - 1) * PageSize
  <2> HIDE DEF places
  <2>2. ASSUME NEW r \in rounds[i].listed, Newer(r)' < places PROVE Stamped(r, i)'
    <3>1. Newer(r) < places
      BY <2>1, <2>2 DEF places
    <3>2. Stamped(r, i)
      BY <1>1, <3>1 DEF Reached, places
    <3> QED
      BY <3>2
  <2> QED
    BY <2>2 DEF Reached, places
<1>2. Whole(i) => Whole(i)'
  BY DEF Whole
<1> QED
  BY <1>1, <1>2

(* The number of newer records.                                              *)
LEMMA NewerNumber ==
  ASSUME TypeInv
  PROVE  \A r : Newer(r) \in Nat
<1> TAKE r
<1>a. shop \in SUBSET Record
  BY BoundsAssumption DEF TypeInv, Collection, Record
<1>1. {t \in shop : t > r} \in SUBSET Record
  BY <1>a
<1> QED
  BY <1>1, FiniteRecords DEF Newer

(* Nothing but the queue, the worker and the user changes.                   *)
LEMMA KeptUnchanged ==
  ASSUME TypeInv, MirrorInv, UNCHANGED <<shop, records, saves, undone, ids>>,
         rounds' = rounds \/ \E B : Break(B)
  PROVE  Kept
<1>1. \A i \in Round : rounds'[i].listed = rounds[i].listed /\ (rounds'[i].sound => rounds[i].sound)
  BY BreakTypes DEF TypeInv
<1>2. \A r : Newer(r)' = Newer(r)
  BY DEF Newer
<1>3. \A r, i : Stamped(r, i)' <=> Stamped(r, i)
  BY DEF Stamped
<1> SUFFICES ASSUME NEW i \in Round, Sound(i)', i \in Begun
             PROVE  /\ Sound(i) /\ Stays(i)' /\ rounds'[i].listed = rounds[i].listed
                    /\ \A r \in rounds[i].listed : (Stamped(r, i) => Stamped(r, i)') /\ Newer(r) <= Newer(r)'
                                                   /\ Newer(r) \in Nat /\ Newer(r)' \in Nat
  BY KeptStamps
<1>4. Sound(i)
  BY <1>1 DEF Sound, Begun
<1>5. Stays(i)
  BY <1>4 DEF MirrorInv, Undisturbed
<1>6. Stays(i)'
  BY <1>1, <1>5 DEF Stays
<1>7. \A r : Newer(r) \in Nat
  BY NewerNumber
<1> QED
  BY <1>1, <1>2, <1>3, <1>4, <1>6, <1>7

(* What is written to the store by others than pages.                        *)
LEMMA KeptWritten ==
  ASSUME TypeInv, MirrorInv, UNCHANGED <<shop, rounds, ids>>, NEW r \in Record,
         \A q \in Record : q # r => records'[q] = records[q],
         \/ records'[r] = None /\ undone' = undone \cup ({r} \cap shop)
         \/ \E s \in saves : /\ s.r = r /\ records'[r] = s.stamp
                            /\ undone' = IF TakesAway(s) THEN undone \cup {s.r} ELSE undone,
         saves' \subseteq saves
  PROVE  Kept
<1>1. \A q : Newer(q)' = Newer(q)
  BY DEF Newer
<1> SUFFICES ASSUME NEW i \in Round, Sound(i)', i \in Begun
             PROVE  /\ Sound(i) /\ Stays(i)' /\ rounds'[i].listed = rounds[i].listed
                    /\ \A q \in rounds[i].listed : (Stamped(q, i) => Stamped(q, i)') /\ Newer(q) <= Newer(q)'
                                                   /\ Newer(q) \in Nat /\ Newer(q)' \in Nat
  BY KeptStamps
<1>2. Sound(i) /\ Stays(i)
  BY DEF Sound, Begun, MirrorInv, Undisturbed
<1>3. shop \in SUBSET Record
  BY BoundsAssumption DEF TypeInv, Collection, Record
<1>4. Stays(i)'
  <2>1. r \notin shop /\ records'[r] # None => records'[r] < i
    BY <1>2, NotNone DEF Stays
  <2> QED
    BY <1>2, <2>1 DEF Stays
<1>5. ASSUME NEW q \in rounds[i].listed, Stamped(q, i) PROVE Stamped(q, i)'
  <2>1. q \in Record /\ q \in shop
    BY <1>2, <1>3 DEF Stays
  <2>2. undone \subseteq undone'
    OBVIOUS
  <2>3. CASE q \in undone \/ q # r
    BY <1>5, <2>1, <2>2, <2>3 DEF Stamped
  <2>4. CASE q \notin undone /\ q = r
    <3>1. records[q] # None /\ records[q] >= i /\ records[q] \in Nat /\ i \in Nat
      BY <1>5, <2>1, <2>4 DEF Stamped, TypeInv, Collection, Stamps, Round
    <3>2. CASE records'[r] = None /\ undone' = undone \cup ({r} \cap shop)
      BY <2>1, <2>4, <3>2 DEF Stamped
    <3>3. ASSUME NEW s \in saves, s.r = r, records'[r] = s.stamp,
                 undone' = IF TakesAway(s) THEN undone \cup {s.r} ELSE undone
          PROVE  Stamped(q, i)'
      <4>1. s.stamp \in Nat /\ s.stamp # None
        BY NotNone DEF TypeInv, Collection, Stamps
      <4>2. CASE TakesAway(s)
        BY <2>4, <3>3, <4>2 DEF Stamped
      <4>3. CASE ~ TakesAway(s)
        <5>1. s.stamp >= records[q]
          BY <2>4, <3>1, <3>3, <4>1, <4>3 DEF TakesAway
        <5> QED
          BY <2>4, <3>1, <3>3, <4>1, <5>1 DEF Stamped
      <4> QED
        BY <4>2, <4>3
    <3> QED
      BY <3>2, <3>3
  <2> QED
    BY <2>3, <2>4
<1>6. \A q : Newer(q) \in Nat
  BY NewerNumber
<1> QED
  BY <1>1, <1>2, <1>4, <1>5, <1>6

(* A record is deleted, or what the API server has read is saved.            *)
LEMMA KeptDeleted == ASSUME TypeInv, MirrorInv, DeleteRecord PROVE Kept
<1>1. /\ work.pc = "check" /\ UNCHANGED <<shop, rounds, ids, saves>>
      /\ records' = [records EXCEPT ![work.entry.n] = None] /\ undone' = undone \cup ({work.entry.n} \cap shop)
  BY DEF DeleteRecord, discogs, clients
<1>2. PICK r \in Record : r = work.entry.n
  BY <1>1 DEF TypeInv, Working, Proper
<1> QED
  BY <1>1, <1>2, KeptWritten DEF TypeInv, Collection

LEMMA KeptSaved == ASSUME TypeInv, MirrorInv, NEW s \in saves, SaveRecord(s) PROVE Kept
<1>1. /\ UNCHANGED <<shop, rounds, ids>> /\ saves' \subseteq saves /\ records' = [records EXCEPT ![s.r] = s.stamp]
      /\ undone' = IF TakesAway(s) THEN undone \cup {s.r} ELSE undone
  BY DEF SaveRecord, discogs
<1>2. PICK r \in Record : r = s.r
  BY DEF TypeInv, Collection
<1>3. records'[r] = s.stamp /\ \A q \in Record : q # r => records'[q] = records[q]
  BY <1>1, <1>2 DEF TypeInv, Collection
<1> QED
  BY <1>1, <1>2, <1>3, KeptWritten

(* A record that is added stands before the others, and a copy of a record   *)
(* is as old as the record.                                                  *)
LEMMA KeptAdded ==
  ASSUME TypeInv, MirrorInv, UNCHANGED <<records, rounds, undone, ids>>,
         \/ /\ added < MaxRecords /\ added' = added + 1 /\ shop' = shop \cup {added + 1}
            /\ saves' = saves \/ saves' = saves \cup {[r |-> added + 1, stamp |-> 0]}
         \/ /\ UNCHANGED shop
            /\ saves' \subseteq saves \/ \E r \in Stored : saves' = saves \cup {[r |-> r, stamp |-> records[r]]}
  PROVE  Kept
<1>1. (shop' = shop \/ (shop' = shop \cup {added + 1} /\ added < MaxRecords)) /\ added \in Nat
  BY DEF TypeInv, Collection
<1>2. shop \in SUBSET Record /\ shop' \in SUBSET Record
  <2>1. shop \in SUBSET Record /\ (added < MaxRecords => added + 1 \in Record)
    BY <1>1, BoundsAssumption DEF TypeInv, Collection, Record
  <2> QED
    BY <1>1, <2>1
<1> SUFFICES ASSUME NEW i \in Round, Sound(i)', i \in Begun
             PROVE  /\ Sound(i) /\ Stays(i)' /\ rounds'[i].listed = rounds[i].listed
                    /\ \A r \in rounds[i].listed : (Stamped(r, i) => Stamped(r, i)') /\ Newer(r) <= Newer(r)'
                                                   /\ Newer(r) \in Nat /\ Newer(r)' \in Nat
  BY KeptStamps
<1>4. Sound(i)
  BY DEF Sound, Begun
<1>5. Stays(i)
  BY <1>4 DEF MirrorInv, Undisturbed
<1>6. Stays(i)'
  <2>1. ASSUME NEW s \in saves', s.r \notin shop' PROVE s.stamp < i
    <3>1. CASE s \in saves
      BY <1>1, <1>5, <2>1, <3>1 DEF Stays
    <3>2. CASE s \notin saves
      <4>1. CASE s = [r |-> added + 1, stamp |-> 0] /\ shop' = shop \cup {added + 1}
        BY <2>1, <4>1
      <4>2. CASE \E r \in Stored : s = [r |-> r, stamp |-> records[r]] /\ shop' = shop
        BY <1>5, <2>1, <4>2 DEF Stays, Stored
      <4> QED
        BY <2>1, <3>2, <4>1, <4>2
    <3> QED
      BY <3>1, <3>2
  <2> QED
    BY <1>1, <1>5, <2>1 DEF Stays
<1>7. \A r : Newer(r) <= Newer(r)' /\ Newer(r) \in Nat /\ Newer(r)' \in Nat
  <2> TAKE r
  <2> DEFINE old == {t \in shop : t > r}
             new == {t \in shop' : t > r}
  <2>1. old \in SUBSET new /\ new \in SUBSET Record /\ old \in SUBSET Record
    BY <1>1, <1>2
  <2>2. IsFiniteSet(new) /\ Cardinality(new) \in Nat /\ Cardinality(old) \in Nat
    BY <2>1, FiniteRecords
  <2> HIDE DEF old, new
  <2>3. Cardinality(old) <= Cardinality(new)
    BY <2>1, <2>2, FS_Subset
  <2> QED
    BY <2>2, <2>3 DEF Newer, old, new
<1>8. \A r : Stamped(r, i) => Stamped(r, i)'
  BY DEF Stamped
<1> QED
  BY <1>4, <1>6, <1>7, <1>8

(* No round survives the removal of a record.                                *)
LEMMA KeptRemoved == ASSUME TypeInv, NEW s \in Record, Remove(s) PROVE Kept /\ \A i \in Round : ~ Sound(i)'
<1>1. Break(Begun) /\ UNCHANGED ids
  BY DEF Remove
<1>2. \A i \in Round : rounds'[i].sound => i \notin Begun
  BY <1>1, BreakTypes DEF TypeInv
<1> QED
  BY <1>1, <1>2 DEF Kept, Sound, Begun

(* The last page has the oldest records.                                     *)
LEMMA LastPlace == ASSUME TypeInv PROVE Pages \in Nat /\ \A r \in shop : Newer(r) < Pages * PageSize
<1> DEFINE c == Cardinality(shop)
<1>1. shop \in SUBSET Record
  BY BoundsAssumption DEF TypeInv, Collection, Record
<1>2. c \in Nat /\ IsFiniteSet(shop)
  BY <1>1, FiniteRecords
<1>3. \A r \in shop : Newer(r) < c
  <2> TAKE r \in shop
  <2> DEFINE newer == {t \in shop : t > r}
  <2>1. newer \in SUBSET shop /\ newer # shop
    <3>1. r \in Int
      BY <1>1 DEF Record
    <3> QED
      BY <3>1
  <2>2. Cardinality(newer) <= c /\ Cardinality(newer) # c
    BY <1>2, <2>1, FS_Subset
  <2>3. Cardinality(newer) \in Nat
    BY NewerNumber DEF Newer
  <2> QED
    BY <1>2, <2>2, <2>3 DEF Newer
<1>4. PageSize \in Nat /\ PageSize > 0
  BY BoundsAssumption
<1> HIDE DEF c
<1> DEFINE full == (c + PageSize - 1) \div PageSize
<1>5. full \in Nat /\ full * PageSize >= c
  BY <1>2, <1>4
<1>6. Pages = IF full = 0 THEN 1 ELSE full
  BY DEF Pages, c
<1> HIDE DEF full
<1>7. Pages \in Nat /\ Pages * PageSize >= c
  <2>1. CASE full = 0
    <3>1. c = 0
      BY <1>2, <1>4, <1>5, <2>1
    <3> QED
      BY <1>4, <1>6, <2>1, <3>1
  <2>2. CASE full # 0
    BY <1>5, <1>6, <2>2
  <2> QED
    BY <2>1, <2>2
<1>8. \A r \in shop : Newer(r) < Pages * PageSize
  <2> TAKE r \in shop
  <2>1. PICK all \in Int : all = Pages * PageSize /\ all >= c
    BY <1>4, <1>7
  <2>2. PICK n \in Nat : n = Newer(r) /\ n < c
    BY <1>3, NewerNumber
  <2>3. n < all
    BY <1>2, <2>1, <2>2
  <2> QED
    BY <2>1, <2>2, <2>3
<1> QED
  BY <1>7, <1>8

(* A page gives records of the collection a newer stamp than that of any     *)
(* round that is sound.                                                      *)
LEMMA ReadStamps ==
  ASSUME TypeInv, ReadPage
  PROVE  /\ UNCHANGED <<user, shop, added, queue, saves>> /\ work.pc = "page" /\ work.entry.kind = "page"
         /\ undone' = undone \ PageOf(work.entry.n)
         /\ work'.pc = "read" /\ work'.entry = work.entry /\ work'.pages = Limited(work.entry, Pages)
         /\ work.entry.n \in Nat /\ work.entry.n # 0 /\ ids \in Nat /\ work'.id \in Nat
         /\ records' = [r \in Record |-> IF r \in PageOf(work.entry.n) THEN work'.id ELSE records[r]]
         /\ \/ /\ work.entry.n = 1 /\ ids' = ids + 1 /\ work'.id = ids + 1 /\ ids + 1 \in Round
               /\ rounds' = [rounds EXCEPT ![ids + 1].listed = shop]
            \/ /\ work.entry.n # 1 /\ ids' = ids /\ work'.id = work.id /\ work.id = work.entry.id /\ work.id \in Begun
               /\ Break({i \in Begun : i > work.id})
<1>1. /\ UNCHANGED <<user, shop, added, queue, saves>> /\ work.pc = "page" /\ BeginRound
  BY DEF ReadPage, discogs, clients
<1>2. /\ work \in WorkState /\ Proper(work.entry) /\ work.entry \in Element /\ work.entry.kind = "page"
      /\ work.id = work.entry.id
  BY <1>1, Employed DEF TypeInv, Working
<1>3. ids \in Nat /\ work.id \in Nat /\ work.entry.n \in Nat /\ work.entry.n # 0
  BY <1>2 DEF TypeInv, Rounds, Proper, Element, WorkState
<1>4. CASE work.entry.n = 1
  <2>1. /\ ids < MaxRounds /\ ids' = ids + 1 /\ rounds' = [rounds EXCEPT ![ids + 1].listed = shop]
        /\ work' = [work EXCEPT !.pc = "read", !.id = ids + 1, !.pages = Limited(work.entry, Pages)]
        /\ Stamp(PageOf(work.entry.n), ids + 1)
    BY <1>1, <1>4 DEF BeginRound
  <2>2. ids + 1 \in Round
    BY <1>3, <2>1, BoundsAssumption DEF Round
  <2>3. work'.pc = "read" /\ work'.entry = work.entry /\ work'.id = ids + 1 /\ work'.pages = Limited(work.entry, Pages)
    BY <1>2, <2>1 DEF WorkState
  <2> QED
    BY <1>1, <1>2, <1>3, <1>4, <2>1, <2>2, <2>3 DEF Stamp
<1>5. CASE work.entry.n # 1
  <2>1. /\ work' = [work EXCEPT !.pc = "read", !.pages = Limited(work.entry, Pages)]
        /\ Stamp(PageOf(work.entry.n), work.id) /\ Break({i \in Begun : i > work.id}) /\ UNCHANGED ids
    BY <1>1, <1>5 DEF BeginRound
  <2>2. work.id \in Begun
    BY <1>2, <1>5 DEF Proper
  <2>3. work'.pc = "read" /\ work'.entry = work.entry /\ work'.id = work.id /\ work'.pages = Limited(work.entry, Pages)
    BY <1>2, <2>1 DEF WorkState
  <2> QED
    BY <1>1, <1>2, <1>3, <1>5, <2>1, <2>2, <2>3 DEF Stamp
<1> QED
  BY <1>4, <1>5

(* No sound round is younger than the page, unless the page begins it.       *)
LEMMA ReadRounds ==
  ASSUME TypeInv, ReadPage, NEW i \in Round, Sound(i)'
  PROVE  /\ i <= work'.id
         /\ i \in Begun => Sound(i) /\ rounds'[i].listed = rounds[i].listed
         /\ i \notin Begun => i = work'.id /\ i = ids + 1 /\ rounds'[i].listed = shop
<1>1. ids \in Nat /\ i \in Nat /\ i \in 1 .. ids' /\ rounds'[i].sound
  BY ReadStamps DEF Sound, Begun, Round
<1>2. CASE work.entry.n = 1
  <2>1. ids' = ids + 1 /\ work'.id = ids + 1 /\ ids + 1 \in Round /\ rounds' = [rounds EXCEPT ![ids + 1].listed = shop]
    BY <1>2, ReadStamps
  <2>2. rounds'[i].listed = (IF i = ids + 1 THEN shop ELSE rounds[i].listed) /\ (rounds'[i].sound <=> rounds[i].sound)
    BY <2>1 DEF TypeInv, Rounds
  <2> QED
    BY <1>1, <2>1, <2>2 DEF Sound, Begun
<1>3. CASE work.entry.n # 1
  <2>1. ids' = ids /\ work'.id = work.id /\ work.id \in Begun /\ Break({m \in Begun : m > work.id})
    BY <1>3, ReadStamps
  <2>2. rounds'[i].listed = rounds[i].listed /\ (rounds'[i].sound <=> rounds[i].sound /\ i \notin {m \in Begun : m > work.id})
    BY <2>1, BreakTypes DEF TypeInv
  <2> QED
    BY <1>1, <2>1, <2>2 DEF Sound, Begun
<1> QED
  BY <1>2, <1>3

(* A page takes nothing away from the rounds that stay sound, and a round    *)
(* that begins finds the collection as it is.                                *)
LEMMA KeptRead == ASSUME TypeInv, MirrorInv, ReadPage PROVE Kept /\ Undisturbed'
<1>1. /\ UNCHANGED <<shop, saves>> /\ work'.id \in Nat /\ undone' = undone \ PageOf(work.entry.n)
      /\ records' = [r \in Record |-> IF r \in PageOf(work.entry.n) THEN work'.id ELSE records[r]]
  BY ReadStamps
<1>2. \A r : Newer(r)' = Newer(r) /\ Newer(r) \in Nat
  BY <1>1, NewerNumber DEF Newer
<1>3. PageOf(work.entry.n) \subseteq shop /\ shop \in SUBSET Record
  BY BoundsAssumption DEF PageOf, TypeInv, Collection, Record
<1>4. ASSUME NEW i \in Round, Sound(i)', i \in Begun
      PROVE  /\ Sound(i) /\ Stays(i)' /\ rounds'[i].listed = rounds[i].listed
             /\ \A r \in rounds[i].listed : Stamped(r, i) => Stamped(r, i)'
  <2>1. i <= work'.id /\ Sound(i) /\ rounds'[i].listed = rounds[i].listed
    BY <1>4, ReadRounds
  <2>2. Stays(i)
    BY <2>1 DEF MirrorInv, Undisturbed
  <2>3. Stays(i)'
    BY <1>1, <1>3, <2>1, <2>2 DEF Stays
  <2>4. \A r \in rounds[i].listed : Stamped(r, i) => Stamped(r, i)'
    <3> SUFFICES ASSUME NEW r \in rounds[i].listed, Stamped(r, i) PROVE Stamped(r, i)'
      OBVIOUS
    <3>1. r \in Record
      BY <1>3, <2>2 DEF Stays
    <3>2. work'.id # None
      BY <1>1, NotNone
    <3>3. CASE r \in PageOf(work.entry.n)
      BY <1>1, <2>1, <3>1, <3>2, <3>3 DEF Stamped
    <3>4. CASE r \notin PageOf(work.entry.n)
      BY <1>1, <3>1, <3>4 DEF Stamped
    <3> QED
      BY <3>3, <3>4
  <2> QED
    BY <2>1, <2>3, <2>4
<1>5. Kept
  <2>1. \A i \in Round : Sound(i)' /\ i \in Begun =>
           /\ Sound(i) /\ Stays(i)' /\ rounds'[i].listed = rounds[i].listed
           /\ \A r \in rounds[i].listed : (Stamped(r, i) => Stamped(r, i)') /\ Newer(r) <= Newer(r)'
                                          /\ Newer(r) \in Nat /\ Newer(r)' \in Nat
    BY <1>2, <1>4
  <2> QED
    BY <2>1, KeptStamps
<1>6. ASSUME NEW i \in Round, Sound(i)', i \notin Begun
      PROVE  Stays(i)'
  <2>1. i = ids + 1 /\ rounds'[i].listed = shop /\ ids \in Nat
    BY <1>6, ReadRounds, ReadStamps
  <2>2. \A r \in Record \ shop : records'[r] # None => records'[r] < i
    <3> SUFFICES ASSUME NEW r \in Record \ shop, records'[r] # None PROVE records'[r] < i
      OBVIOUS
    <3>1. records'[r] = records[r]
      BY <1>1, <1>3
    <3>2. records[r] \in Stamps
      BY <3>1 DEF TypeInv, Collection
    <3> QED
      BY <2>1, <3>1, <3>2 DEF Stamps
  <2>3. \A s \in saves : s.stamp < i
    BY <2>1 DEF TypeInv, Collection, Stamps
  <2> QED
    BY <1>1, <2>1, <2>2, <2>3 DEF Stays
<1>7. Undisturbed'
  <2>1. \A i \in Round : Sound(i)' => Stays(i)'
    BY <1>5, <1>6 DEF Kept
  <2> QED
    BY <2>1 DEF Undisturbed
<1> QED
  BY <1>5, <1>7

(* Once page n is read, what stands on it and before it has the stamp.       *)
LEMMA ReadReached ==
  ASSUME TypeInv, MirrorInv, ReadPage, NEW i \in Round, i = work'.id, Sound(i)'
  PROVE  /\ \A r \in rounds'[i].listed : r \in shop /\ (Newer(r) < work.entry.n * PageSize => Stamped(r, i)')
         /\ Reached(i, work.entry.n + 1)'
<1>1. /\ UNCHANGED shop /\ undone' = undone \ PageOf(work.entry.n) /\ work'.id \in Nat /\ work.entry.n \in Nat /\ work.entry.n # 0
      /\ records' = [r \in Record |-> IF r \in PageOf(work.entry.n) THEN work'.id ELSE records[r]]
      /\ work'.entry = work.entry /\ work.entry.kind = "page" /\ work.pc = "page"
  BY ReadStamps
<1>2. \A r : Newer(r)' = Newer(r) /\ Newer(r) \in Nat
  BY <1>1, NewerNumber DEF Newer
<1>3. shop \in SUBSET Record
  BY BoundsAssumption DEF TypeInv, Collection, Record
<1>4. rounds'[i].listed \subseteq shop
  <2>1. Undisturbed'
    BY KeptRead
  <2> QED
    BY <1>1, <2>1 DEF Undisturbed, Stays
<1> DEFINE from == (work.entry.n - 1) * PageSize
           to == work.entry.n * PageSize
<1>5. from \in Int /\ to \in Int
  BY <1>1, BoundsAssumption
<1>6. work.entry.n = 1 => from = 0
  BY BoundsAssumption
<1>7. PageOf(work.entry.n) = {r \in shop : Newer(r) >= from /\ Newer(r) < to}
  BY DEF PageOf
<1> HIDE DEF from, to
<1>8. ASSUME NEW r \in rounds'[i].listed, Newer(r) < from
      PROVE  Stamped(r, i)'
  <2>1. work.entry.n # 1
    BY <1>2, <1>5, <1>6, <1>8
  <2>2. i \in Begun /\ work.id = i /\ work.entry.id = i /\ ids' = ids
    BY <2>1, ReadStamps
  <2>3. Sound(i) /\ rounds'[i].listed = rounds[i].listed
    BY <2>2, ReadRounds
  <2>4. Reached(i, work.entry.n)
    <3>1. Numbered(work.entry)
      BY <1>1, <2>1, <2>2, <2>3 DEF Numbered, Sound
    <3>2. Due(work.entry)
      BY <1>1, <3>1 DEF MirrorInv, Timely
    <3> QED
      BY <2>2, <3>2 DEF Due, Reached, Stamped
  <2>5. Stamped(r, i)
    BY <1>8, <2>3, <2>4 DEF Reached, from
  <2>6. r \in Record
    BY <1>3, <1>4
  <2>7. i # None /\ i \in Nat
    BY NotNone DEF Round
  <2>8. CASE r \in PageOf(work.entry.n)
    BY <1>1, <2>6, <2>7, <2>8 DEF Stamped
  <2>9. CASE r \notin PageOf(work.entry.n)
    BY <1>1, <2>5, <2>6, <2>9 DEF Stamped
  <2> QED
    BY <2>8, <2>9
<1>9. ASSUME NEW r \in rounds'[i].listed, Newer(r) < to
      PROVE  Stamped(r, i)'
  <2>1. CASE Newer(r) < from
    BY <1>8, <2>1
  <2>2. CASE ~(Newer(r) < from)
    <3>1. Newer(r) >= from
      BY <1>2, <1>5, <2>2
    <3>2. r \in PageOf(work.entry.n) /\ r \in Record
      BY <1>3, <1>4, <1>7, <1>9, <3>1
    <3>3. records'[r] = i
      BY <1>1, <3>2
    <3>4. i # None /\ i \in Nat
      BY NotNone DEF Round
    <3> QED
      BY <3>3, <3>4 DEF Stamped
  <2> QED
    BY <2>1, <2>2
<1>10. Reached(i, work.entry.n + 1)'
  <2>1. PICK n \in Nat : n = work.entry.n
    BY <1>1
  <2>2. (n + 1) - 1 = n
    BY <2>1
  <2>3. \A r \in rounds'[i].listed : Newer(r)' < n * PageSize => Stamped(r, i)'
    BY <1>2, <1>9, <2>1 DEF to
  <2>4. Reached(i, n + 1)'
    BY <2>2, <2>3 DEF Reached
  <2> QED
    BY <1>1, <2>1, <2>4 DEF Reached
<1> QED
  BY <1>4, <1>9, <1>10 DEF to

(* After the last page the round has all it found.                           *)
LEMMA ReadReading == ASSUME TypeInv, MirrorInv, ReadPage PROVE Reading' /\ Ending'
<1>1. /\ UNCHANGED shop /\ work'.pc = "read" /\ work'.entry = work.entry
      /\ work'.pages = Limited(work.entry, Pages) /\ work.entry.n \in Nat
  BY ReadStamps
<1>2. ASSUME NEW i \in Round, work'.id = i, Sound(i)'
      PROVE  /\ Reached(i, work.entry.n + 1)'
             /\ work'.entry.n = work'.pages /\ ~ work'.entry.miss => Whole(i)'
  <2>1. /\ \A r \in rounds'[i].listed : r \in shop /\ (Newer(r) < work.entry.n * PageSize => Stamped(r, i)')
        /\ Reached(i, work.entry.n + 1)'
    BY <1>2, ReadReached
  <2>2. ASSUME work'.entry.n = work'.pages, ~ work'.entry.miss PROVE Whole(i)'
    <3>1. work.entry.n = Pages
      BY <1>1, <2>2 DEF Limited
    <3>2. \A r \in shop : Newer(r) < work.entry.n * PageSize
      BY <3>1, LastPlace
    <3> QED
      BY <2>1, <3>2 DEF Whole
  <2> QED
    BY <2>1, <2>2
<1>3. Reading'
  <2> SUFFICES ASSUME NEW i \in Round, (work.id = i)', Sound(i)'
               PROVE  /\ (work.pc = "read" => Reached(i, work.entry.n + 1))'
                      /\ (work.pc \in {"read", "fresh", "last", "clean"} /\ work.entry.n = work.pages /\ ~ work.entry.miss
                           => Whole(i))'
    BY DEF Reading
  <2>1. Reached(i, work.entry.n + 1)' /\ (work'.entry.n = work'.pages /\ ~ work'.entry.miss => Whole(i)')
    BY <1>2
  <2>2. (work.entry.n)' = work.entry.n
    BY <1>1
  <2> QED
    BY <2>1, <2>2
<1>4. Ending'
  BY <1>1 DEF Ending
<1> QED
  BY <1>3, <1>4

----------------------------------------------------------------------------
(* The order of the pages.                                                   *)

(* An entry of a sound round was one before, and what is due stays due.      *)
LEMMA KeptEntries ==
  ASSUME TypeInv, Kept
  PROVE  \A e : Proper(e) /\ Numbered(e)' => Numbered(e) /\ (Due(e) => Due(e)')
<1> SUFFICES ASSUME NEW e, Proper(e), Numbered(e)'
             PROVE  Numbered(e) /\ (Due(e) => Due(e)')
  OBVIOUS
<1>1. PICK i : i = e.id
  OBVIOUS
<1>2. PICK n : n = e.n
  OBVIOUS
<1>3. e.kind = "page" /\ e.n # 1 /\ Sound(i)' /\ i \in Begun /\ n \in Nat
  BY <1>1, <1>2 DEF Numbered, Proper, Element, Sound
<1>4. i \in Round
  BY <1>3, BoundsAssumption DEF TypeInv, Rounds, Begun, Round
<1>5. Sound(i) /\ (Reached(i, n) => Reached(i, n)')
  BY <1>3, <1>4 DEF Kept
<1> QED
  BY <1>1, <1>2, <1>3, <1>5 DEF Numbered, Due, Sound, Reached, Stamped

(* Entries keep their places, and those that are new are due or follow the   *)
(* page before.                                                              *)
Orderly ==
  /\ \A p \in Priority : \A k \in DOMAIN queue[p] :
       /\ k \in DOMAIN queue'[p]
       /\ queue'[p][k].kind = queue[p][k].kind /\ queue'[p][k].id = queue[p][k].id
       /\ queue'[p][k].n = queue[p][k].n /\ (queue'[p][k].late => queue[p][k].late)
  /\ \A p \in Priority : \A k \in DOMAIN queue'[p] \ DOMAIN queue[p] : \A e :
       e = queue'[p][k] /\ Numbered(e)' =>
         /\ ~ e.late
         /\ p = "UNSET" => Due(e)' \/ \E j \in 1 .. k - 1 : Before(queue'[p][j], e)

(* Then the pages stay in turn, if a page that is no longer about to be read *)
(* has been read or is of a round that is sound no longer.                   *)
LEMMA OrderKept ==
  ASSUME TypeInv, TypeInv', MirrorInv, Kept, Orderly,
         \A e : work.pc = "page" /\ Before(work.entry, e) /\ Numbered(e)' =>
                  Due(e)' \/ (work'.pc = "page" /\ work'.entry = work.entry)
  PROVE  InTurn' /\ \A p \in Priority : \A k \in DOMAIN queue'[p] : \A e :
                      e = queue'[p][k] /\ Numbered(e)' => ~ e.late
<1>1. ASSUME NEW p \in Priority, NEW k \in DOMAIN queue'[p], NEW e, e = queue'[p][k], Numbered(e)'
      PROVE  /\ ~ e.late
             /\ p = "UNSET" => \/ Due(e)' \/ (work'.pc = "page" /\ Before(work'.entry, e))
                               \/ \E j \in 1 .. k - 1 : Before(queue'[p][j], e)
  <2>1. CASE k \notin DOMAIN queue[p]
    BY <1>1, <2>1 DEF Orderly
  <2>2. CASE k \in DOMAIN queue[p]
    <3>1. PICK f : f = queue[p][k]
      OBVIOUS
    <3>2. f.kind = e.kind /\ f.id = e.id /\ f.n = e.n /\ (e.late => f.late) /\ Proper(f)
      BY <1>1, <2>2, <3>1 DEF TypeInv, Queued, Orderly
    <3>3. Numbered(f)'
      BY <1>1, <3>2 DEF Numbered, Sound
    <3>4. Numbered(f) /\ (Due(f) => Due(f)')
      BY <3>2, <3>3, KeptEntries
    <3>5. ~ e.late
      BY <2>2, <3>1, <3>2, <3>4 DEF MirrorInv, Timely
    <3>6. Due(f)' => Due(e)'
      BY <3>2 DEF Due, Reached, Stamped
    <3>7. ASSUME p = "UNSET"
          PROVE  \/ Due(e)' \/ (work'.pc = "page" /\ Before(work'.entry, e))
                 \/ \E j \in 1 .. k - 1 : Before(queue'[p][j], e)
      <4>1. Follows(f) \/ \E j \in 1 .. k - 1 : Before(queue[p][j], f)
        BY <2>2, <3>1, <3>4, <3>7 DEF MirrorInv, InTurn
      <4>2. CASE Due(f)
        BY <3>4, <3>6, <4>2
      <4>3. CASE work.pc = "page" /\ Before(work.entry, f)
        <5>1. Before(work.entry, e)
          BY <3>2, <4>3 DEF Before
        <5> QED
          BY <1>1, <4>3, <5>1
      <4>4. CASE \E j \in 1 .. k - 1 : Before(queue[p][j], f)
        <5>1. PICK j \in 1 .. k - 1 : Before(queue[p][j], f)
          BY <4>4
        <5>2. j \in DOMAIN queue[p]
          BY <2>2 DEF TypeInv, Queued
        <5>3. Before(queue'[p][j], e)
          BY <3>2, <5>1, <5>2 DEF Before, Orderly
        <5> QED
          BY <5>3
      <4> QED
        BY <4>1, <4>2, <4>3, <4>4 DEF Follows
    <3> QED
      BY <3>5, <3>7
  <2> QED
    BY <2>1, <2>2
<1>2. InTurn'
  <2> SUFFICES ASSUME NEW k \in DOMAIN queue'["UNSET"], Numbered(queue["UNSET"][k])'
               PROVE  \/ Follows(queue["UNSET"][k])'
                      \/ \E j \in 1 .. k - 1 : Before(queue["UNSET"][j], queue["UNSET"][k])'
    BY DEF InTurn
  <2>1. PICK e : e = queue'["UNSET"][k]
    OBVIOUS
  <2>2. Numbered(e)'
    BY <2>1 DEF Numbered, Sound
  <2>3. \/ Due(e)' \/ (work'.pc = "page" /\ Before(work'.entry, e))
        \/ \E j \in 1 .. k - 1 : Before(queue'["UNSET"][j], e)
    BY <1>1, <2>1, <2>2 DEF Priority
  <2> QED
    BY <2>1, <2>3 DEF Follows, Due, Before, Reached, Stamped
<1> QED
  BY <1>1, <1>2

(* The queue as it was is in order.                                          *)
LEMMA OrderlyUnchanged == ASSUME TypeInv, UNCHANGED queue PROVE Orderly
BY DEF Orderly

(* An entry that is not a page of a sound round may be pushed.               *)
LEMMA OrderlyPush ==
  ASSUME TypeInv, NEW e, e \in Element, ~ Numbered(e)', Push(e)
  PROVE  Orderly
<1>1. /\ queue \in [Priority -> Seq(Element)] /\ e.prio \in Priority
      /\ queue' = [queue EXCEPT ![e.prio] = Append(@, e)]
  BY DEF TypeInv, Queued, Element, Push
<1>2. ASSUME NEW p \in Priority
      PROVE  /\ \A k \in DOMAIN queue[p] : k \in DOMAIN queue'[p] /\ queue'[p][k] = queue[p][k]
             /\ \A k \in DOMAIN queue'[p] \ DOMAIN queue[p] : queue'[p][k] = e
  <2>1. CASE p = e.prio
    <3>1. queue[p] \in Seq(Element) /\ queue'[p] = Append(queue[p], e)
      BY <1>1, <2>1
    <3> QED
      BY <3>1
  <2>2. CASE p # e.prio
    BY <1>1, <2>2
  <2> QED
    BY <2>1, <2>2
<1>3. \A f : f = e => ~ Numbered(f)'
  OBVIOUS
<1> QED
  BY <1>2, <1>3 DEF Orderly

(* Page 1 of a refresh may be pushed at any time.                            *)
LEMMA OrderlyRefresh ==
  ASSUME TypeInv, NEW miss \in BOOLEAN, NEW prio \in Priority,
         EnqueueRefresh(miss, prio) \/ UNCHANGED queue
  PROVE  Orderly
<1>1. CASE UNCHANGED queue
  BY <1>1, OrderlyUnchanged
<1>2. CASE Push(Page(1, 0, miss, prio))
  <2>1. PICK e : e = Page(1, 0, miss, prio)
    OBVIOUS
  <2>2. e \in Element /\ e.n = 1
    BY <2>1, NewEntries DEF Page
  <2>3. ~ Numbered(e)'
    BY <2>2 DEF Numbered
  <2> QED
    BY <1>2, <2>1, <2>2, <2>3, OrderlyPush
<1> QED
  BY <1>1, <1>2 DEF EnqueueRefresh

(* The worker comes to an end, or goes on with the page it has read.         *)
Proceeds ==
  /\ work'.pc = "page" => work.pc = "page" /\ work'.entry = work.entry
  /\ work'.pc = "read" => work.pc = "read"
  /\ work'.pc \in {"fresh", "last", "clean"} => work.pc \in {"read", "fresh", "last", "clean"}
  /\ work'.pc \in {"read", "fresh", "last", "clean"} =>
       work'.entry = work.entry /\ work'.id = work.id /\ work'.pages = work.pages
  /\ work'.pc \in {"last", "clean"} => work.entry.n = work.pages
  /\ work'.pc = "clean" => ~ work.entry.miss

(* What most steps leave as it was, those that give out a RefreshId apart.   *)
LEMMA MirrorStays ==
  ASSUME TypeInv, TypeInv', MirrorInv, Kept, \A i \in Round : Sound(i)' => i \in Begun, Orderly, Proceeds,
         work.pc = "page" =>
           \/ work'.pc = "page" /\ work'.entry = work.entry
           \/ \A e : Before(work.entry, e) => ~ Numbered(e)'
  PROVE  MirrorInv'
<1>1. \A i : Sound(i)' => i \in Begun /\ i \in Round
  <2>1. \A i : Sound(i)' => i \in Round
    BY BoundsAssumption DEF Sound, TypeInv, Rounds, Begun, Round
  <2> QED
    BY <2>1
<1>2. Undisturbed'
  BY <1>1 DEF Kept, Undisturbed
<1>3. InTurn' /\ \A p \in Priority : \A k \in DOMAIN queue'[p] : \A e :
                   e = queue'[p][k] /\ Numbered(e)' => ~ e.late
  <2>1. \A e : work.pc = "page" /\ Before(work.entry, e) /\ Numbered(e)' =>
                  Due(e)' \/ (work'.pc = "page" /\ work'.entry = work.entry)
    OBVIOUS
  <2> QED
    BY <2>1, OrderKept
<1>4. Timely'
  <2>1. ASSUME NEW p \in Priority, NEW k \in DOMAIN queue'[p], Numbered(queue[p][k])'
        PROVE  ~ queue'[p][k].late
    <3>1. PICK e : e = queue'[p][k]
      OBVIOUS
    <3>2. Numbered(e)'
      BY <2>1, <3>1 DEF Numbered, Sound
    <3> QED
      BY <1>3, <3>1, <3>2
  <2>2. ASSUME work'.pc = "page", Numbered(work.entry)' PROVE ~ work'.entry.late /\ Due(work.entry)'
    <3>1. PICK e : e = work.entry
      OBVIOUS
    <3>2. work.pc = "page" /\ work'.entry = e
      BY <2>2, <3>1 DEF Proceeds
    <3>3. Numbered(e)'
      BY <2>2, <3>2 DEF Numbered, Sound
    <3>4. Proper(e)
      BY <3>1, <3>2 DEF TypeInv, Working
    <3>5. Numbered(e) /\ (Due(e) => Due(e)')
      BY <3>3, <3>4, KeptEntries
    <3>6. ~ e.late /\ Due(e)
      BY <3>1, <3>2, <3>5 DEF MirrorInv, Timely
    <3>7. Due(e)'
      BY <3>5, <3>6
    <3> QED
      BY <3>2, <3>6, <3>7 DEF Due, Reached, Stamped
  <2> QED
    BY <2>1, <2>2 DEF Timely
<1>5. Reading'
  <2> SUFFICES ASSUME NEW i \in Round, work'.id = i, Sound(i)'
               PROVE  /\ (work.pc = "read" => Reached(i, work.entry.n + 1))'
                      /\ (work.pc \in {"read", "fresh", "last", "clean"} /\ work.entry.n = work.pages /\ ~ work.entry.miss
                           => Whole(i))'
    BY DEF Reading
  <2>1. i \in Begun
    BY <1>1
  <2>2. Sound(i) /\ (\A n \in Nat : Reached(i, n) => Reached(i, n)') /\ (Whole(i) => Whole(i)')
    BY <2>1 DEF Kept
  <2>3. ASSUME work'.pc = "read" PROVE Reached(i, work.entry.n + 1)'
    <3>1. work.pc = "read" /\ work'.entry = work.entry /\ work.id = i
      BY <2>3 DEF Proceeds
    <3>2. PICK n \in Nat : n = work.entry.n
      BY <3>1 DEF TypeInv, Working, Proper, Element
    <3>3. n + 1 \in Nat /\ Reached(i, n + 1)
      BY <2>2, <3>1, <3>2 DEF MirrorInv, Reading
    <3>4. Reached(i, n + 1)'
      BY <2>2, <3>3
    <3> QED
      BY <3>1, <3>2, <3>4 DEF Reached, Stamped
  <2>4. ASSUME work'.pc \in {"read", "fresh", "last", "clean"}, work'.entry.n = work'.pages, ~ work'.entry.miss
        PROVE  Whole(i)'
    <3>1. /\ work.pc \in {"read", "fresh", "last", "clean"} /\ work'.entry = work.entry /\ work.id = i
          /\ work'.pages = work.pages
      BY <2>4 DEF Proceeds
    <3>2. Whole(i)
      BY <2>2, <2>4, <3>1 DEF MirrorInv, Reading
    <3> QED
      BY <2>2, <3>2
  <2> QED
    BY <2>3, <2>4
<1>6. Ending'
  BY DEF Proceeds, Ending
<1> QED
  BY <1>2, <1>3, <1>4, <1>5, <1>6 DEF MirrorInv

LEMMA MirrorKept ==
  ASSUME TypeInv, TypeInv', MirrorInv, Kept, UNCHANGED ids, Orderly, Proceeds,
         work.pc = "page" =>
           \/ work'.pc = "page" /\ work'.entry = work.entry
           \/ \A e : Before(work.entry, e) => ~ Numbered(e)'
  PROVE  MirrorInv'
<1>1. \A i \in Round : Sound(i)' => i \in Begun
  BY DEF Sound, Begun
<1> QED
  BY <1>1, MirrorStays

(* At first nothing is listed by a round and nothing waits.                  *)
LEMMA MirrorInit == Init => MirrorInv
<1> SUFFICES ASSUME Init PROVE MirrorInv
  OBVIOUS
<1>1. \A i : ~ Sound(i)
  BY DEF Init, Sound, Begun
<1>2. \A e : ~ Numbered(e)
  BY <1>1 DEF Numbered
<1>3. work.pc = "idle"
  BY DEF Init, Idle
<1> QED
  BY <1>1, <1>2, <1>3 DEF MirrorInv, Undisturbed, InTurn, Timely, Reading, Ending

(* When a page is lost or retried its round is sound no longer.              *)
LEMMA BrokenRounds ==
  ASSUME TypeInv, Broken(work.id), UNCHANGED ids, NEW i, i = work.id
  PROVE  ~ Sound(i)'
<1>1. i \in Nat /\ ids \in Nat
  BY DEF TypeInv, Working, WorkState, Rounds
<1>a. Begun \subseteq Round
  BY BoundsAssumption DEF TypeInv, Rounds, Begun, Round
<1>2. CASE i \notin Begun
  BY <1>2 DEF Sound, Begun
<1>3. CASE i \in Begun
  <2>1. i # 0 /\ i \in {j \in Begun : j >= i} /\ i \in Round
    BY <1>1, <1>a, <1>3 DEF Begun
  <2>2. Break({j \in Begun : j >= i})
    BY <2>1 DEF Broken
  <2> QED
    BY <2>1, <2>2, BreakTypes DEF Sound, TypeInv
<1> QED
  BY <1>2, <1>3

(* The worker fails for good, or tries again later.                          *)
LEMMA MirrorFails ==
  ASSUME TypeInv, TypeInv', MirrorInv, Unreadable \/ Requeue \/ Bury
  PROVE  MirrorInv'
<1>1. /\ UNCHANGED <<user, records, shop, saves, undone, ids>> /\ work' = Idle /\ work.pc # "idle" /\ Broken(work.id)
  BY DEF Unreadable, Requeue, Bury, discogs, clients, Done
<1>2. Proper(work.entry) /\ work.entry \in Element
  BY <1>1, Employed
<1>3. Kept
  BY <1>1, KeptUnchanged DEF Broken
<1>a. PICK i : i = work.id
  OBVIOUS
<1>4. i = work.id /\ ~ Sound(i)'
  BY <1>1, <1>a, BrokenRounds
<1>5. ASSUME NEW e, Numbered(e)', e.id = work.entry.id PROVE work.entry.kind # "page" \/ (work.pc # "page" /\ work.entry.n = 1)
  <2> SUFFICES ASSUME work.entry.kind = "page", work.pc = "page" \/ work.entry.n # 1 PROVE FALSE
    OBVIOUS
  <2>a. work.pc \in {"page", "read", "fresh", "last", "clean", "cleaned"}
    BY <1>1 DEF TypeInv, Working, WorkState
  <2>1. work.id = work.entry.id
    BY <2>a DEF TypeInv, Working
  <2>2. e.id = i
    BY <1>4, <1>5, <2>1
  <2> QED
    BY <1>4, <1>5, <2>2 DEF Numbered, Sound
<1>6. Orderly
  <2>1. CASE Unreadable \/ Bury
    BY <2>1, OrderlyUnchanged DEF Unreadable, Bury
  <2>2. CASE Requeue
    <3>1. PICK e : e = [work.entry EXCEPT !.late = TRUE]
      OBVIOUS
    <3>2. e \in Element /\ e.kind = work.entry.kind /\ e.n = work.entry.n /\ e.id = work.entry.id
      BY <1>2, <3>1 DEF Element
    <3>3. Push(e)
      BY <2>2, <3>1 DEF Requeue
    <3>4. ~ Numbered(e)'
      BY <1>5, <3>2 DEF Numbered
    <3> QED
      BY <3>2, <3>3, <3>4, OrderlyPush
  <2> QED
    BY <2>1, <2>2
<1>7. Proceeds
  BY <1>1 DEF Proceeds, Idle
<1>8. work.pc = "page" => \A e : Before(work.entry, e) => ~ Numbered(e)'
  BY <1>5 DEF Before
<1> QED
  BY <1>1, <1>3, <1>6, <1>7, <1>8, MirrorKept

(* The worker waits for Discogs: the page is the first again.                *)
LEMMA MirrorWaits ==
  ASSUME TypeInv, TypeInv', MirrorInv, RateLimit
  PROVE  MirrorInv'
<1>1. /\ UNCHANGED <<user, records, shop, saves, undone, rounds, ids>> /\ work' = Idle /\ work.pc # "idle"
      /\ queue' = [queue EXCEPT ![work.entry.prio] = <<work.entry>> \o @]
  BY DEF RateLimit, discogs, clients, history, Done
<1>2. Proper(work.entry) /\ work.entry \in Element
  BY <1>1, Employed
<1>3. Kept
  BY <1>1, KeptUnchanged
<1>4. work.entry.kind = "page" => work.pc = "page"
  BY DEF RateLimit, TypeInv, Working
<1> DEFINE p == work.entry.prio
           s == queue[p]
           t == <<work.entry>> \o s
<1>5. p \in Priority /\ s \in Seq(Element)
  BY <1>2 DEF Element, TypeInv, Queued
<1>6. /\ t \in Seq(Element) /\ Len(t) = Len(s) + 1 /\ t[1] = work.entry /\ Len(s) \in Nat
      /\ \A k \in 1 .. Len(s) : t[k + 1] = s[k]
  <2> HIDE DEF s
  <2> QED
    BY <1>2, <1>5, FrontPlaces
<1> HIDE DEF t
<1>7. queue' = [queue EXCEPT ![p] = t]
  BY <1>1 DEF t
<1>8. \A e : Proper(e) /\ Numbered(e)' => Numbered(e) /\ (Due(e) => Due(e)')
  BY <1>3, KeptEntries
(* Where an entry that waits has come from.                                  *)
<1>9. ASSUME NEW q \in Priority, NEW k \in DOMAIN queue'[q]
      PROVE  \/ q = p /\ k = 1 /\ queue'[q][k] = work.entry
             \/ \E m \in DOMAIN queue[q] : queue'[q][k] = queue[q][m] /\ m \in Nat /\ k = (IF q = p THEN m + 1 ELSE m)
  <2>1. CASE q # p
    BY <1>7, <2>1 DEF TypeInv, Queued
  <2>2. CASE q = p /\ k = 1
    BY <1>6, <1>7, <2>2 DEF TypeInv, Queued
  <2>3. CASE q = p /\ k # 1
    <3>1. queue'[q] = t /\ k \in 1 .. Len(s) + 1
      BY <1>5, <1>6, <1>7, <2>3 DEF TypeInv, Queued
    <3>2. k - 1 \in 1 .. Len(s) /\ (k - 1) + 1 = k /\ k - 1 \in Nat
      BY <1>6, <2>3, <3>1
    <3>3. PICK m \in 1 .. Len(s) : m + 1 = k /\ m \in Nat
      BY <3>2
    <3> QED
      BY <1>5, <1>6, <2>3, <3>1, <3>3
  <2> QED
    BY <2>1, <2>2, <2>3
<1>10. Timely'
  <2> SUFFICES ASSUME NEW q \in Priority, NEW k \in DOMAIN queue'[q], Numbered(queue[q][k])'
               PROVE  ~ queue'[q][k].late
    BY <1>1 DEF Timely, Idle
  <2>1. PICK e : e = queue'[q][k]
    OBVIOUS
  <2>2. Numbered(e)' /\ Proper(e)
    <3>1. Proper(e)'
      BY <2>1 DEF TypeInv, Queued
    <3> QED
      BY <1>1, <2>1, <3>1 DEF Numbered, Sound, Proper, Begun
  <2>3. Numbered(e)
    BY <1>8, <2>2
  <2>4. CASE e = work.entry
    BY <1>4, <2>1, <2>3, <2>4 DEF MirrorInv, Timely, Numbered
  <2>5. CASE \E m \in DOMAIN queue[q] : e = queue[q][m]
    BY <2>1, <2>3, <2>5 DEF MirrorInv, Timely
  <2> QED
    BY <1>9, <2>1, <2>4, <2>5
<1>11. InTurn'
  <2> SUFFICES ASSUME NEW k \in DOMAIN queue'["UNSET"], Numbered(queue["UNSET"][k])'
               PROVE  \/ Follows(queue["UNSET"][k])'
                      \/ \E j \in 1 .. k - 1 : Before(queue["UNSET"][j], queue["UNSET"][k])'
    BY DEF InTurn
  <2>1. PICK e : e = queue'["UNSET"][k]
    OBVIOUS
  <2>2. Numbered(e)' /\ Proper(e)
    <3>1. Proper(e)'
      BY <2>1 DEF TypeInv, Queued, Priority
    <3> QED
      BY <1>1, <2>1, <3>1 DEF Numbered, Sound, Proper, Begun
  <2>3. Numbered(e) /\ (Due(e) => Due(e)')
    BY <1>8, <2>2
  <2>4. Due(e)' \/ \E j \in 1 .. k - 1 : Before(queue'["UNSET"][j], e)
    <3>1. CASE e = work.entry
      BY <1>4, <2>3, <3>1 DEF MirrorInv, Timely, Numbered
    <3>2. ASSUME NEW m \in DOMAIN queue["UNSET"], e = queue["UNSET"][m], m \in Nat,
                 k = (IF "UNSET" = p THEN m + 1 ELSE m)
          PROVE  Due(e)' \/ \E j \in 1 .. k - 1 : Before(queue'["UNSET"][j], e)
      <4>1. Follows(e) \/ \E j \in 1 .. m - 1 : Before(queue["UNSET"][j], e)
        BY <2>3, <3>2 DEF MirrorInv, InTurn
      <4>2. CASE Due(e)
        BY <2>3, <4>2
      <4>3. CASE work.pc = "page" /\ Before(work.entry, e)
        <5>1. p = "UNSET"
          BY <1>2, <2>2, <2>3, <4>3 DEF Before, Proper, Begun, Numbered, Sound
        <5>2. k \in Nat /\ m \in Nat /\ m >= 1 /\ k = m + 1
          BY <3>2, <5>1 DEF TypeInv, Queued, Priority
        <5>3. 1 \in 1 .. k - 1 /\ queue'["UNSET"][1] = work.entry
          BY <1>6, <1>7, <5>1, <5>2 DEF TypeInv, Queued, Priority
        <5> QED
          BY <4>3, <5>3 DEF Before
      <4>4. CASE \E j \in 1 .. m - 1 : Before(queue["UNSET"][j], e)
        <5>1. PICK j \in 1 .. m - 1 : Before(queue["UNSET"][j], e)
          BY <4>4
        <5>2. queue["UNSET"] \in Seq(Element) /\ j \in 1 .. Len(queue["UNSET"]) /\ "UNSET" \in Priority
          BY <3>2, <5>1 DEF TypeInv, Queued, Priority
        <5>3. CASE "UNSET" = p
          <6>a. queue'["UNSET"] = t
            BY <1>7, <5>2, <5>3 DEF TypeInv, Queued
          <6>b. t[j + 1] = queue["UNSET"][j]
            BY <1>6, <5>2, <5>3
          <6>c. m \in Nat /\ j \in 1 .. m - 1 /\ k = m + 1
            BY <3>2, <5>1, <5>3
          <6>d. j + 1 \in 1 .. k - 1
            BY <6>c
          <6>1. queue'["UNSET"] = t /\ t[j + 1] = queue["UNSET"][j] /\ j + 1 \in 1 .. k - 1
            BY <6>a, <6>b, <6>d
          <6> QED
            BY <5>1, <6>1 DEF Before
        <5>4. CASE "UNSET" # p
          BY <1>7, <3>2, <5>1, <5>2, <5>4 DEF TypeInv, Queued
        <5> QED
          BY <5>3, <5>4
      <4> QED
        BY <4>1, <4>2, <4>3, <4>4 DEF Follows
    <3> QED
      BY <1>9, <2>1, <3>1, <3>2 DEF Priority
  <2> QED
    BY <2>1, <2>4 DEF Follows, Due, Before, Reached, Stamped
<1>12. Reading' /\ Ending'
  BY <1>1 DEF Reading, Ending, Idle
<1>13. Undisturbed'
  <2>1. \A i : Sound(i)' => i \in Begun
    BY <1>1 DEF Sound, Begun
  <2> QED
    BY <1>3, <2>1 DEF Kept, Undisturbed
<1> QED
  BY <1>10, <1>11, <1>12, <1>13 DEF MirrorInv

(* The worker goes on, after the page is read.                               *)
LEMMA MirrorProceeds ==
  ASSUME TypeInv, TypeInv', MirrorInv,
         \/ SaveRefreshed \/ PageRead \/ LastPage \/ SaveCleaned \/ RetryMissing
         \/ FirstCopies \/ NextCopies \/ DeleteRecord \/ LoadUser \/ SaveFolders
  PROVE  MirrorInv'
<1>1. /\ UNCHANGED <<shop, saves, rounds, ids>> /\ work.pc \notin {"page", "idle"} /\ work \in WorkState
  BY DEF SaveRefreshed, PageRead, LastPage, SaveCleaned, RetryMissing, FirstCopies, NextCopies, DeleteRecord,
         LoadUser, SaveFolders, discogs, clients, history, TypeInv, Working
<1>2. Kept
  <2>1. CASE UNCHANGED <<records, undone>>
    BY <1>1, <2>1, KeptUnchanged
  <2>2. CASE DeleteRecord
    BY <2>2, KeptDeleted
  <2> QED
    BY <2>1, <2>2 DEF SaveRefreshed, PageRead, LastPage, SaveCleaned, RetryMissing, FirstCopies, NextCopies, LoadUser,
                      SaveFolders, history
<1>3. Orderly
  <2>1. CASE UNCHANGED queue
    BY <2>1, OrderlyUnchanged
  <2>2. CASE AskForRefresh
    <3>1. EnqueueRefresh(FALSE, "UNSET") \/ UNCHANGED queue
      BY <2>2 DEF AskForRefresh
    <3> QED
      BY <3>1, OrderlyRefresh DEF Priority
  <2> QED
    BY <2>1, <2>2 DEF SaveRefreshed, PageRead, LastPage, SaveCleaned, RetryMissing, FirstCopies, NextCopies,
                      DeleteRecord, LoadUser, SaveFolders
<1>4. Proceeds
  <2>1. CASE work' = Idle
    BY <2>1 DEF Proceeds, Idle
  <2>2. CASE SaveRefreshed /\ work' # Idle
    <3>1. work.pc = "fresh" /\ work.entry.n = work.pages /\ work' = [[work EXCEPT !.user.fresh = TRUE] EXCEPT !.pc = "last"]
      BY <1>1, <2>2 DEF SaveRefreshed, AfterPage, WorkState
    <3>2. /\ work'.pc = "last" /\ work'.entry = work.entry /\ work'.id = work.id /\ work'.pages = work.pages
      BY <1>1, <3>1 DEF WorkState
    <3> QED
      BY <3>1, <3>2 DEF Proceeds
  <2>3. CASE PageRead /\ work' # Idle
    <3>1. work.pc = "read" /\ work.entry.n = work.pages /\ work' = [work EXCEPT !.pc = "last"]
      BY <1>1, <2>3 DEF PageRead, AfterPage
    <3> QED
      BY <1>1, <3>1 DEF Proceeds, WorkState
  <2>4. CASE LastPage /\ work' # Idle
    <3>1. work.pc = "last" /\ ~ work.entry.miss /\ work' = [work EXCEPT !.pc = "clean"]
      BY <1>1, <2>4 DEF LastPage
    <3>2. work.entry.n = work.pages
      BY <3>1 DEF MirrorInv, Ending
    <3> QED
      BY <1>1, <3>1, <3>2 DEF Proceeds, WorkState
  <2>5. CASE LoadUser
    <3>1. work'.pc = "folders"
      BY <1>1, <2>5 DEF LoadUser, WorkState
    <3> QED
      BY <3>1 DEF Proceeds
  <2>6. CASE (FirstCopies \/ NextCopies) /\ work' # Idle
    <3>1. work'.pc = "check"
      BY <1>1, <2>6 DEF FirstCopies, NextCopies, WorkState
    <3> QED
      BY <3>1 DEF Proceeds
  <2> QED
    BY <2>1, <2>2, <2>3, <2>4, <2>5, <2>6 DEF SaveCleaned, RetryMissing, DeleteRecord, SaveFolders, Done
<1> QED
  BY <1>1, <1>2, <1>3, <1>4, MirrorKept

(* What is enqueued together keeps the order among itself.                   *)
LEMMA OrderlyExtend ==
  ASSUME TypeInv, NEW new \in Seq(Element), queue' = [queue EXCEPT !["UNSET"] = @ \o new],
         \A k \in 1 .. Len(new) : \A e :
           e = new[k] /\ Numbered(e)' => ~ e.late /\ (Due(e)' \/ \E j \in 1 .. k - 1 : Before(new[j], e))
  PROVE  Orderly
<1> DEFINE old == queue["UNSET"]
           all == old \o new
<1>1. old \in Seq(Element) /\ Len(old) \in Nat /\ Len(new) \in Nat /\ DOMAIN old = 1 .. Len(old)
  BY DEF TypeInv, Queued, Priority
<1>2. /\ all \in Seq(Element) /\ Len(all) = Len(old) + Len(new) /\ DOMAIN all = 1 .. Len(old) + Len(new)
      /\ \A k \in 1 .. Len(old) + Len(new) : all[k] = IF k <= Len(old) THEN old[k] ELSE new[k - Len(old)]
  <2> HIDE DEF old
  <2> QED
    BY <1>1, ConcatProperties
<1> HIDE DEF all
<1>3. queue' = [queue EXCEPT !["UNSET"] = all] /\ queue \in [Priority -> Seq(Element)]
  BY DEF all, TypeInv, Queued
<1>4. ASSUME NEW p \in Priority, NEW k \in DOMAIN queue[p]
      PROVE  k \in DOMAIN queue'[p] /\ queue'[p][k] = queue[p][k]
  <2>1. CASE p = "UNSET"
    <3>1. k \in 1 .. Len(old) /\ queue'[p] = all
      BY <1>1, <1>3, <1>4, <2>1
    <3>2. k \in 1 .. Len(old) + Len(new) /\ all[k] = old[k]
      BY <1>1, <1>2, <3>1
    <3> QED
      BY <1>2, <2>1, <3>1, <3>2
  <2>2. CASE p # "UNSET"
    BY <1>3, <1>4, <2>2
  <2> QED
    BY <2>1, <2>2
<1>5. ASSUME NEW p \in Priority, NEW k \in DOMAIN queue'[p] \ DOMAIN queue[p], NEW e, e = queue'[p][k], Numbered(e)'
      PROVE  ~ e.late /\ (Due(e)' \/ \E j \in 1 .. k - 1 : Before(queue'[p][j], e))
  <2>1. p = "UNSET"
    BY <1>3, <1>5
  <2>2. queue'[p] = all /\ k \in 1 .. Len(old) + Len(new) /\ k \notin 1 .. Len(old)
    BY <1>1, <1>2, <1>3, <1>5, <2>1
  <2>3. PICK m \in 1 .. Len(new) : k = Len(old) + m
    <3>1. k - Len(old) \in 1 .. Len(new) /\ k = Len(old) + (k - Len(old))
      BY <1>1, <2>2
    <3> QED
      BY <3>1
  <2>4. \A j \in 1 .. m : Len(old) + j \in 1 .. Len(old) + Len(new) /\ all[Len(old) + j] = new[j]
    <3> TAKE j \in 1 .. m
    <3>1. PICK l \in Nat : l = Len(old)
      BY <1>1
    <3>2. PICK n \in Nat : n = Len(new)
      BY <1>1
    <3>3. l + j \in 1 .. l + n /\ ~(l + j <= l) /\ (l + j) - l = j
      BY <2>3, <3>1, <3>2
    <3>4. all[l + j] = new[j]
      BY <1>2, <3>1, <3>2, <3>3
    <3> QED
      BY <3>1, <3>2, <3>3, <3>4
  <2>5. m \in 1 .. m /\ e = new[m]
    BY <1>5, <2>2, <2>3, <2>4
  <2>6. ~ e.late /\ (Due(e)' \/ \E j \in 1 .. m - 1 : Before(new[j], e))
    BY <1>5, <2>3, <2>5
  <2>7. ASSUME NEW j \in 1 .. m - 1, Before(new[j], e)
        PROVE  \E i \in 1 .. k - 1 : Before(queue'[p][i], e)
    <3>1. PICK l \in Nat : l = Len(old)
      BY <1>1
    <3>2. l + j \in 1 .. k - 1 /\ j \in 1 .. m
      BY <2>3, <3>1
    <3>3. queue'[p][l + j] = new[j]
      BY <2>2, <2>4, <3>1, <3>2
    <3> QED
      BY <2>7, <3>2, <3>3
  <2> QED
    BY <2>6, <2>7
<1>6. \A p \in Priority : \A k \in DOMAIN queue[p] :
        /\ k \in DOMAIN queue'[p]
        /\ queue'[p][k].kind = queue[p][k].kind /\ queue'[p][k].id = queue[p][k].id
        /\ queue'[p][k].n = queue[p][k].n /\ (queue'[p][k].late => queue[p][k].late)
  BY <1>4
<1>7. \A p \in Priority : \A k \in DOMAIN queue'[p] \ DOMAIN queue[p] : \A e :
        e = queue'[p][k] /\ Numbered(e)' =>
          /\ ~ e.late
          /\ p = "UNSET" => Due(e)' \/ \E j \in 1 .. k - 1 : Before(queue'[p][j], e)
  BY <1>5
<1> QED
  BY <1>6, <1>7 DEF Orderly

(* Page 1 enqueues the others in order.                                      *)
LEMMA MirrorPages ==
  ASSUME TypeInv, TypeInv', MirrorInv, EnqueuePages
  PROVE  MirrorInv'
<1>1. /\ UNCHANGED <<user, records, shop, saves, undone, ids>> /\ work.pc = "read" /\ work.entry.n = 1
      /\ work' = [work EXCEPT !.pc = "fresh"] /\ work \in WorkState
  BY DEF EnqueuePages, discogs, clients, TypeInv, Working
<1>2. PICK lost \in SUBSET (2 .. work.pages) :
        /\ queue' = [queue EXCEPT !["UNSET"] = @ \o Subsequence(OtherPages, (2 .. work.pages) \ lost)]
        /\ Break(IF lost = {} THEN {} ELSE {work.id})
  BY DEF EnqueuePages
<1> DEFINE I == (2 .. work.pages) \ lost
           new == Subsequence(OtherPages, I)
<1>3. I \in SUBSET Int /\ IsFiniteSet(I) /\ new \in Seq(Element)
  BY <1>1, PagesAre
<1>4. Kept
  BY <1>1, <1>2, KeptUnchanged
<1>5. PICK id \in Round : id = work.id /\ id \in Begun
  BY <1>1, BoundsAssumption DEF TypeInv, Working, Rounds, Begun, Round
<1>6. \A n \in I : OtherPages[n] = Page(n, id, work.entry.miss, "UNSET") /\ n \in Int /\ n >= 2
  BY <1>1, <1>5 DEF OtherPages, WorkState
<1>7. queue' = [queue EXCEPT !["UNSET"] = @ \o new]
  BY <1>2
<1>8. Sound(id)' => lost = {} /\ Reached(id, 2)'
  <2> SUFFICES ASSUME Sound(id)' PROVE lost = {} /\ Reached(id, 2)'
    OBVIOUS
  <2>1. lost = {}
    <3>1. lost # {} => Break({id})
      BY <1>2, <1>5
    <3> QED
      BY <3>1, BreakTypes DEF Sound, TypeInv
  <2>2. Sound(id) /\ (\A n \in Nat : Reached(id, n) => Reached(id, n)')
    BY <1>4, <1>5 DEF Kept
  <2>3. Reached(id, 1 + 1)
    BY <1>1, <1>5, <2>2 DEF MirrorInv, Reading
  <2> QED
    BY <2>1, <2>2, <2>3
<1>9. DOMAIN new = 1 .. Cardinality(I) /\ Cardinality(I) \in Nat /\ \A k \in 1 .. Cardinality(I) : \E i \in I : new[k] = OtherPages[i]
  <2> HIDE DEF I
  <2> QED
    BY <1>3, SubsequenceElements
<1>a. DOMAIN new = 1 .. Len(new)
  <2> HIDE DEF new
  <2> QED
    BY <1>3, LenProperties
<1>10. ASSUME NEW k \in 1 .. Len(new), NEW e, e = new[k], Numbered(e)'
       PROVE  ~ e.late /\ (Due(e)' \/ \E j \in 1 .. k - 1 : Before(new[j], e))
  <2>1. k \in 1 .. Cardinality(I)
    BY <1>9, <1>a
  <2>2. PICK i \in I : new[k] = OtherPages[i]
    BY <1>9, <2>1
  <2>3. e = Page(i, id, work.entry.miss, "UNSET") /\ i \in Int /\ i >= 2
    BY <1>6, <1>10, <2>2
  <2>4. e.n = i /\ e.id = id /\ ~ e.late /\ e.kind = "page"
    BY <2>3 DEF Page
  <2>5. lost = {} /\ Reached(id, 2)'
    BY <1>8, <1>10, <2>4 DEF Numbered, Sound
  <2>6. CASE i = 2
    BY <2>4, <2>5, <2>6 DEF Due, Reached, Stamped
  <2>7. CASE i # 2
    <3>1. i - 1 \in I
      BY <1>1, <2>2, <2>3, <2>5, <2>7 DEF WorkState
    <3>2. PICK j \in I : j = i - 1
      BY <3>1
    <3>a. \A x \in I : OtherPages[x].n = x
      <4> TAKE x \in I
      <4>1. OtherPages[x] = Page(x, id, work.entry.miss, "UNSET")
        BY <1>6
      <4> QED
        BY <4>1 DEF Page
    <3>3. \A x \in I : OtherPages[x] = OtherPages[i] => x = i
      <4> HIDE DEF I
      <4> QED
        BY <3>a
    <3>4. \E l \in 1 .. k - 1 : new[l] = OtherPages[j]
      <4>1. j < i
        BY <2>3, <3>2
      <4> HIDE DEF I
      <4> QED
        BY <1>3, <2>1, <2>2, <3>3, <4>1, SubsequenceOrder
    <3>5. PICK l \in 1 .. k - 1 : new[l] = OtherPages[j]
      BY <3>4
    <3>6. new[l] = Page(j, id, work.entry.miss, "UNSET")
      BY <1>6, <3>5
    <3> HIDE DEF new
    <3>7. Before(new[l], e)
      BY <2>3, <2>4, <3>2, <3>6 DEF Before, Page
    <3> QED
      BY <2>4, <3>7
  <2> QED
    BY <2>6, <2>7
<1> HIDE DEF new
<1>11. Orderly
  BY <1>3, <1>7, <1>10, OrderlyExtend
<1>12. Proceeds
  BY <1>1 DEF Proceeds, WorkState
<1> QED
  BY <1>1, <1>4, <1>11, <1>12, MirrorKept

(* The deletions go behind the pages.                                        *)
LEMMA MirrorCleans ==
  ASSUME TypeInv, TypeInv', MirrorInv, CleanCollection
  PROVE  MirrorInv'
<1>1. /\ UNCHANGED <<user, records, shop, saves, undone, rounds, ids>> /\ work.pc = "clean" /\ work \in WorkState
      /\ work' = [work EXCEPT !.pc = "cleaned", !.user = user, !.found = Cardinality(Stored)]
  BY DEF CleanCollection, discogs, clients, history, TypeInv, Working
<1>2. PICK lost : queue' = [queue EXCEPT !["UNSET"] = @ \o Deletions(Doomed(work.id) \ lost)]
  BY DEF CleanCollection
<1> DEFINE S == Doomed(work.id) \ lost
           new == Deletions(S)
<1>3. S \in SUBSET Record
  BY DEF Doomed, Stored
<1> HIDE DEF S
<1>4. new \in Seq(Element) /\ Elements(new) = {Delete(r) : r \in S}
  BY <1>3, DeletionsAre
<1>5. queue' = [queue EXCEPT !["UNSET"] = @ \o new]
  BY <1>2 DEF S
<1> HIDE DEF new
<1>6. ASSUME NEW k \in 1 .. Len(new), NEW e, e = new[k], Numbered(e)' PROVE FALSE
  <2>1. DOMAIN new = 1 .. Len(new)
    BY <1>4, LenProperties
  <2>2. e \in Elements(new)
    BY <1>6, <2>1 DEF Elements
  <2>3. e.kind = "delete"
    BY <1>4, <2>2 DEF Delete
  <2> QED
    BY <1>6, <2>3 DEF Numbered
<1>7. Orderly
  BY <1>4, <1>5, <1>6, OrderlyExtend
<1>8. Kept
  BY <1>1, KeptUnchanged
<1>9. Proceeds
  BY <1>1 DEF Proceeds, WorkState
<1> QED
  BY <1>1, <1>7, <1>8, <1>9, MirrorKept

(* Clients ask for page 1 and for the user, neither of which is numbered.    *)
LEMMA MirrorClients ==
  ASSUME TypeInv, TypeInv', MirrorInv, LoginStep \/ ValidatorStep \/ UpgradeUser \/ MissIntent
  PROVE  MirrorInv'
<1>1. UNCHANGED <<records, shop, saves, undone, work, rounds, ids>>
  BY DEF LoginStep, ValidatorStep, UpgradeUser, MissIntent, GenerateToken, NewUserRefresh, SaveLogin,
         LoginFails, ValidateName, ValidateCollection, SaveValidated, discogs, clients, history
<1>2. Kept
  BY <1>1, KeptUnchanged
<1>3. Orderly
  <2>1. CASE UNCHANGED queue \/ EnqueueRefresh(FALSE, "UNSET") \/ EnqueueRefresh(TRUE, "HIGH")
    BY <2>1, OrderlyRefresh DEF Priority
  <2>2. CASE Push(RefreshUser)
    <3>1. PICK e : e = RefreshUser
      OBVIOUS
    <3>2. e \in Element /\ e.kind = "user"
      BY <3>1, NewEntries DEF RefreshUser, Proper
    <3>3. ~ Numbered(e)'
      BY <3>2 DEF Numbered
    <3> QED
      BY <2>2, <3>1, <3>2, <3>3, OrderlyPush
  <2> QED
    BY <2>1, <2>2
    DEF LoginStep, ValidatorStep, UpgradeUser, MissIntent, GenerateToken, NewUserRefresh, SaveLogin,
        LoginFails, ValidateName, ValidateCollection, SaveValidated, AskForRefresh
<1>4. Proceeds
  BY <1>1 DEF Proceeds, MirrorInv, Ending
<1> QED
  BY <1>1, <1>2, <1>3, <1>4, MirrorKept

(* The API server, the user at Discogs, and time.                            *)
LEMMA MirrorWorld ==
  ASSUME TypeInv, TypeInv', MirrorInv, ApiStep \/ Add \/ (\E r \in Record : Remove(r)) \/ Ripen \/ WeekPasses
  PROVE  MirrorInv'
<1>1. UNCHANGED ids
  BY DEF ApiStep, ScoreIntent, AddRecord, SaveRecord, LoseRecord, Add, Remove, Ripen, WeekPasses, history
<1>2. Kept
  <2>1. CASE Add \/ AddRecord
    BY <2>1, KeptAdded DEF Add, AddRecord, clients
  <2>2. CASE \E r \in Record : Remove(r)
    BY <2>2, KeptRemoved
  <2>3. CASE Ripen \/ WeekPasses
    BY <2>3, <1>1, KeptUnchanged DEF Ripen, WeekPasses, discogs, clients, history
  <2>4. CASE \E s \in saves : SaveRecord(s)
    BY <2>4, KeptSaved
  <2>5. CASE (\E r \in Record : ScoreIntent(r)) \/ (\E s \in saves : LoseRecord(s))
    BY <2>5, KeptAdded DEF ScoreIntent, LoseRecord, discogs, history
  <2> QED
    BY <2>1, <2>2, <2>3, <2>4, <2>5 DEF ApiStep
<1>3. Orderly
  <2>1. CASE UNCHANGED queue
    BY <2>1, OrderlyUnchanged
  <2>2. CASE Ripen
    <3>1. queue' = [p \in Priority |-> [i \in 1 .. Len(queue[p]) |-> [queue[p][i] EXCEPT !.late = FALSE]]]
      BY <2>2 DEF Ripen
    <3>2. ASSUME NEW p \in Priority
          PROVE  /\ DOMAIN queue'[p] = DOMAIN queue[p]
                 /\ \A k \in DOMAIN queue[p] : queue'[p][k] = [queue[p][k] EXCEPT !.late = FALSE]
      BY <3>1 DEF TypeInv, Queued
    <3>3. ASSUME NEW p \in Priority, NEW k \in DOMAIN queue[p]
          PROVE  /\ queue'[p][k].kind = queue[p][k].kind /\ queue'[p][k].id = queue[p][k].id
                 /\ queue'[p][k].n = queue[p][k].n /\ (queue'[p][k].late => queue[p][k].late)
      <4>1. PICK e \in Element : e = queue[p][k]
        BY DEF TypeInv, Queued, Proper
      <4>2. queue'[p][k] = [e EXCEPT !.late = FALSE]
        BY <3>2, <4>1
      <4> QED
        BY <4>1, <4>2 DEF Element
    <3> QED
      BY <3>2, <3>3 DEF Orderly
  <2> QED
    BY <2>1, <2>2 DEF ApiStep, ScoreIntent, AddRecord, SaveRecord, LoseRecord, Add, Remove, WeekPasses
<1>4. /\ work'.pc = work.pc /\ work'.entry = work.entry /\ work'.id = work.id /\ work'.pages = work.pages
  BY DEF ApiStep, ScoreIntent, AddRecord, SaveRecord, LoseRecord, Add, Remove, Ripen, WeekPasses, TypeInv, Working, WorkState
<1>5. Proceeds
  BY <1>4 DEF Proceeds, MirrorInv, Ending
<1> QED
  BY <1>1, <1>2, <1>3, <1>4, <1>5, MirrorKept

(* The page that is taken is the next of its round.                          *)
LEMMA MirrorTakes ==
  ASSUME TypeInv, TypeInv', MirrorInv, NEW p \in Priority, Take(p)
  PROVE  MirrorInv'
<1>1. PICK i \in 1 .. Len(queue[p]) :
        /\ \A j \in 1 .. i - 1 : queue[p][j].late
        /\ queue' = [queue EXCEPT ![p] = RemoveAt(@, i)]
        /\ work' = [Idle EXCEPT !.pc = queue[p][i].kind, !.entry = queue[p][i],
                                !.user = user, !.id = queue[p][i].id]
  BY DEF Take
<1>2. UNCHANGED <<user, records, shop, saves, undone, rounds, ids>> /\ work.pc = "idle"
  BY DEF Take, discogs, clients, history
<1>3. Kept
  BY <1>2, KeptUnchanged
<1> DEFINE s == queue[p]
           t == RemoveAt(s, i)
<1>4. s \in Seq(Element) /\ i \in 1 .. Len(s) /\ Len(s) \in Nat /\ i \in Nat /\ i >= 1
  BY DEF TypeInv, Queued
<1>5. /\ t \in Seq(Element) /\ Len(t) = Len(s) - 1
      /\ \A k \in 1 .. Len(s) - 1 : t[k] = s[IF k < i THEN k ELSE k + 1]
  <2> HIDE DEF s
  <2> QED
    BY <1>4, RemoveAtPlaces
<1>6. queue' = [queue EXCEPT ![p] = t]
  BY <1>1
<1> HIDE DEF t
<1>7. PICK taken \in Element : taken = s[i] /\ Proper(taken) /\ taken.prio = p
  BY <1>4 DEF TypeInv, Queued, Proper
<1>8. work'.pc = taken.kind /\ work'.entry = taken /\ work'.id = taken.id
  <2>1. work' = [Idle EXCEPT !.pc = taken.kind, !.entry = taken, !.user = user, !.id = taken.id]
    BY <1>1, <1>7
  <2> QED
    BY <2>1 DEF Idle
<1>9. \A e : Proper(e) /\ Numbered(e)' => Numbered(e) /\ (Due(e) => Due(e)')
  BY <1>3, KeptEntries
(* Nothing of a sound round was overtaken.                                   *)
<1>10. ASSUME NEW j \in 1 .. i - 1, NEW e, Before(s[j], e), Numbered(e) PROVE FALSE
  <2>1. j \in DOMAIN s /\ s[j].late
    BY <1>1, <1>4
  <2>2. PICK d : d = s[j] /\ Proper(d)
    BY <2>1 DEF TypeInv, Queued
  <2>3. d.kind = "page" /\ d.id = e.id /\ e.id \in Begun
    BY <1>10, <2>2 DEF Before, Numbered, Sound
  <2>4. d.n # 1
    BY <2>2, <2>3 DEF Proper, Begun
  <2>5. Numbered(d)
    BY <1>10, <2>3, <2>4 DEF Numbered, Sound
  <2> QED
    BY <2>1, <2>2, <2>5 DEF MirrorInv, Timely
(* Where an entry that waits has waited before.                              *)
<1>11. ASSUME NEW q \in Priority, NEW k \in DOMAIN queue'[q]
       PROVE  \E m \in DOMAIN queue[q] : /\ m \in Nat /\ queue'[q][k] = queue[q][m]
                                         /\ m = (IF q = p /\ k >= i THEN k + 1 ELSE k)
  <2>1. CASE q # p
    BY <1>6, <2>1 DEF TypeInv, Queued
  <2>2. CASE q = p
    <3>1. queue'[q] = t /\ k \in 1 .. Len(s) - 1
      BY <1>4, <1>5, <1>6, <2>2 DEF TypeInv, Queued
    <3>2. (IF k < i THEN k ELSE k + 1) \in 1 .. Len(s)
      BY <1>4, <3>1
    <3>3. PICK m \in 1 .. Len(s) : m = (IF k < i THEN k ELSE k + 1)
      BY <3>2
    <3>4. t[k] = s[m] /\ m \in DOMAIN s /\ m \in Nat /\ m = (IF k >= i THEN k + 1 ELSE k)
      BY <1>4, <1>5, <3>1, <3>3
    <3> QED
      BY <2>2, <3>1, <3>4
  <2> QED
    BY <2>1, <2>2
<1>12. Timely'
  <2>1. ASSUME NEW q \in Priority, NEW k \in DOMAIN queue'[q], Numbered(queue[q][k])'
        PROVE  ~ queue'[q][k].late
    <3>1. PICK m \in DOMAIN queue[q] : queue'[q][k] = queue[q][m]
      BY <1>11
    <3>2. PICK e : e = queue[q][m] /\ Proper(e)
      BY DEF TypeInv, Queued
    <3>3. Numbered(e)'
      BY <2>1, <3>1, <3>2 DEF Numbered, Sound
    <3> QED
      BY <1>9, <3>1, <3>2, <3>3 DEF MirrorInv, Timely
  <2>2. ASSUME Numbered(work.entry)' PROVE ~ work'.entry.late /\ Due(work.entry)'
    <3>1. Numbered(taken)'
      BY <1>8, <2>2 DEF Numbered, Sound
    <3>2. Numbered(taken) /\ (Due(taken) => Due(taken)')
      BY <1>7, <1>9, <3>1
    <3>3. ~ taken.late
      BY <1>4, <1>7, <3>2 DEF MirrorInv, Timely
    <3>4. p = "UNSET"
      BY <1>7, <3>2 DEF Proper, Numbered
    <3>5. Follows(taken) \/ \E j \in 1 .. i - 1 : Before(s[j], taken)
      BY <1>4, <1>7, <3>2, <3>4 DEF MirrorInv, InTurn
    <3>6. Due(taken)
      BY <1>2, <1>10, <3>2, <3>5 DEF Follows
    <3>7. Due(taken)'
      BY <3>2, <3>6
    <3> QED
      BY <1>8, <3>3, <3>7 DEF Due, Reached, Stamped
  <2> QED
    BY <2>1, <2>2 DEF Timely
<1>13. InTurn'
  <2> SUFFICES ASSUME NEW k \in DOMAIN queue'["UNSET"], Numbered(queue["UNSET"][k])'
               PROVE  \/ Follows(queue["UNSET"][k])'
                      \/ \E j \in 1 .. k - 1 : Before(queue["UNSET"][j], queue["UNSET"][k])'
    BY DEF InTurn
  <2>1. PICK m \in DOMAIN queue["UNSET"] : /\ m \in Nat /\ queue'["UNSET"][k] = queue["UNSET"][m]
                                           /\ m = (IF "UNSET" = p /\ k >= i THEN k + 1 ELSE k)
    BY <1>11 DEF Priority
  <2>2. PICK e : e = queue["UNSET"][m] /\ Proper(e)
    BY DEF TypeInv, Queued, Priority
  <2>3. Numbered(e)'
    BY <2>1, <2>2 DEF Numbered, Sound
  <2>4. Numbered(e) /\ (Due(e) => Due(e)')
    BY <1>9, <2>2, <2>3
  <2>5. Follows(e) \/ \E j \in 1 .. m - 1 : Before(queue["UNSET"][j], e)
    BY <2>2, <2>4 DEF MirrorInv, InTurn
  <2>6. Follows(e) => Due(e)'
    BY <1>2, <2>4 DEF Follows
  <2>7. ASSUME NEW j \in 1 .. m - 1, Before(queue["UNSET"][j], e)
        PROVE  \/ work'.pc = "page" /\ Before(work'.entry, e)
               \/ \E l \in 1 .. k - 1 : Before(queue'["UNSET"][l], e)
    <3>0. /\ queue["UNSET"] \in Seq(Element) /\ j \in 1 .. Len(queue["UNSET"]) /\ "UNSET" \in Priority /\ j \in Nat
          /\ k \in Nat /\ m <= Len(queue["UNSET"]) /\ Len(queue["UNSET"]) \in Nat
      BY <2>1 DEF TypeInv, Queued, Priority
    <3>1. CASE "UNSET" # p
      <4>1. queue'["UNSET"] = queue["UNSET"] /\ m = k
        BY <1>6, <2>1, <3>1
      <4> QED
        BY <2>7, <4>1
    <3>2. CASE "UNSET" = p /\ j = i
      <4>1. Before(taken, e)
        BY <1>7, <2>7, <3>2
      <4>2. taken.kind = "page"
        BY <4>1 DEF Before
      <4> QED
        BY <1>8, <4>1, <4>2
    <3>3. CASE "UNSET" = p /\ j < i
      BY <1>4, <1>10, <2>4, <2>7, <3>0, <3>3
    <3>4. CASE "UNSET" = p /\ j > i
      <4>1. PICK l : l = j - 1
        OBVIOUS
      <4>2. l \in 1 .. Len(s) - 1 /\ ~(l < i) /\ l + 1 = j /\ l \in 1 .. k - 1
        BY <1>4, <2>1, <2>7, <3>0, <3>4, <4>1
      <4>3. t[l] = s[j]
        BY <1>5, <4>2
      <4>4. queue'["UNSET"] = t
        BY <1>6, <3>0, <3>4 DEF TypeInv, Queued
      <4> QED
        BY <2>7, <3>4, <4>2, <4>3, <4>4
    <3> QED
      BY <1>4, <3>0, <3>1, <3>2, <3>3, <3>4
  <2>8. Due(e)' \/ (work'.pc = "page" /\ Before(work'.entry, e)) \/ \E l \in 1 .. k - 1 : Before(queue'["UNSET"][l], e)
    BY <2>5, <2>6, <2>7
  <2> QED
    BY <2>1, <2>2, <2>8 DEF Follows, Due, Before, Reached, Stamped
<1>14. Reading' /\ Ending'
  <2>1. work'.pc \in {"page", "delete", "user"}
    BY <1>7, <1>8 DEF Element
  <2> QED
    BY <2>1 DEF Reading, Ending
<1>15. Undisturbed'
  <2>1. \A j : Sound(j)' => j \in Begun
    BY <1>2 DEF Sound, Begun
  <2> QED
    BY <1>3, <2>1 DEF Kept, Undisturbed
<1> QED
  BY <1>12, <1>13, <1>14, <1>15 DEF MirrorInv

(* A page is read.                                                           *)
LEMMA MirrorReads ==
  ASSUME TypeInv, TypeInv', MirrorInv, ReadPage
  PROVE  MirrorInv'
<1>1. /\ UNCHANGED queue /\ work.pc = "page" /\ work'.pc = "read" /\ work'.entry = work.entry
  BY ReadStamps
<1>2. Kept /\ Undisturbed'
  BY KeptRead
<1>3. Reading' /\ Ending'
  BY ReadReading
<1>4. Orderly
  BY <1>1, OrderlyUnchanged
<1>5. ASSUME NEW e, Before(work.entry, e), Numbered(e)'
      PROVE  Due(e)'
  <2>1. PICK i : i = e.id
    OBVIOUS
  <2>2. PICK n : n = work.entry.n /\ n \in Nat
    BY ReadStamps
  <2>3. e.n = n + 1 /\ work.entry.id = i /\ e.n # 1 /\ Sound(i)'
    BY <1>5, <2>1, <2>2 DEF Before, Numbered, Sound
  <2>4. i \in Round /\ i # 0
    BY <2>3, BoundsAssumption DEF Sound, TypeInv, Rounds, Begun, Round
  <2>5. n # 1
    <3>1. Proper(work.entry)
      BY <1>1, Employed
    <3> QED
      BY <1>5, <2>2, <2>3, <2>4, <3>1 DEF Proper, Before
  <2>6. work'.id = i
    BY <2>2, <2>3, <2>5, ReadStamps
  <2>7. Reached(i, work.entry.n + 1)'
    BY <2>3, <2>4, <2>6, ReadReached
  <2> QED
    BY <1>1, <2>1, <2>2, <2>3, <2>7 DEF Due, Reached, Stamped
<1>6. InTurn' /\ \A p \in Priority : \A k \in DOMAIN queue'[p] : \A e :
                   e = queue'[p][k] /\ Numbered(e)' => ~ e.late
  BY <1>2, <1>4, <1>5, OrderKept
<1>7. Timely'
  <2>1. ASSUME NEW p \in Priority, NEW k \in DOMAIN queue'[p], Numbered(queue[p][k])'
        PROVE  ~ queue'[p][k].late
    <3>1. PICK e : e = queue'[p][k]
      OBVIOUS
    <3>2. Numbered(e)'
      BY <2>1, <3>1 DEF Numbered, Sound
    <3> QED
      BY <1>6, <3>1, <3>2
  <2> QED
    BY <1>1, <2>1 DEF Timely
<1> QED
  BY <1>2, <1>3, <1>6, <1>7 DEF MirrorInv

(* A page that fails half way stamps what it has read, and breaks its round  *)
(* and those that came after it.                                             *)
LEMMA KeptFailed ==
  ASSUME TypeInv, MirrorInv, FailPage
  PROVE  Kept /\ (\A i \in Round : Sound(i)' => i \in Begun) /\ (\A i : i = work.entry.id => ~ Sound(i)')
<1>1. /\ UNCHANGED <<shop, saves>> /\ work.pc = "page" /\ work.id = work.entry.id /\ work.id \in Nat /\ ids \in Nat
      /\ Proper(work.entry) /\ work.entry.kind = "page"
  BY DEF FailPage, discogs, clients, TypeInv, Working, WorkState, Rounds
<1>2. PICK part \in SUBSET PageOf(work.entry.n) :
        IF work.entry.n = 1
        THEN /\ ids < MaxRounds
             /\ ids' = ids + 1
             /\ rounds' = [rounds EXCEPT ![ids + 1].sound = FALSE]
             /\ Stamp(part, ids + 1)
        ELSE Stamp(part, work.id) /\ Broken(work.id) /\ UNCHANGED ids
  BY DEF FailPage
<1>3. shop \in SUBSET Record /\ part \in SUBSET shop
  BY <1>2, BoundsAssumption DEF TypeInv, Collection, Record, PageOf
<1>4. PICK n \in Nat : /\ Stamp(part, n)
                       /\ \A i \in Round : Sound(i)' => /\ i \in Begun /\ i < n /\ Sound(i)
                                                        /\ rounds'[i].listed = rounds[i].listed
                       /\ \A i : i = work.entry.id => ~ Sound(i)'
  <2>1. CASE work.entry.n = 1
    <3>1. ids + 1 \in Round /\ ids + 1 \in Nat /\ work.entry.id = 0
      BY <1>1, <1>2, <2>1, BoundsAssumption DEF Round, Proper
    <3>2. /\ ids' = ids + 1 /\ ~ rounds'[ids + 1].sound /\ Stamp(part, ids + 1)
          /\ \A i \in Round : i # ids + 1 => rounds'[i] = rounds[i]
      BY <1>2, <2>1, <3>1 DEF TypeInv, Rounds
    <3> QED
      BY <1>1, <3>1, <3>2 DEF Sound, Begun
  <2>2. CASE work.entry.n # 1
    <3>1. Stamp(part, work.id) /\ Broken(work.id) /\ ids' = ids /\ work.id \in Begun
      BY <1>1, <1>2, <2>2 DEF Proper
    <3>2. Break({i \in Begun : i >= work.id})
      BY <3>1 DEF Broken, Begun
    <3>3. \A i \in Round : /\ rounds'[i].listed = rounds[i].listed
                           /\ (rounds'[i].sound <=> rounds[i].sound /\ i \notin {j \in Begun : j >= work.id})
      BY <3>2, BreakTypes DEF TypeInv
    <3>4. work.id \in Round
      BY <3>1, BoundsAssumption DEF TypeInv, Rounds, Begun, Round
    <3> QED
      BY <1>1, <3>1, <3>3, <3>4 DEF Sound, Begun, Round
  <2> QED
    BY <2>1, <2>2
<1>5. /\ records' = [r \in Record |-> IF r \in part THEN n ELSE records[r]]
      /\ undone' = undone \ part /\ n # None
  BY <1>4, NotNone DEF Stamp
<1>6. \A r : Newer(r)' = Newer(r) /\ Newer(r) \in Nat
  BY <1>1, NewerNumber DEF Newer
<1>7. ASSUME NEW i \in Round, Sound(i)', i \in Begun
      PROVE  /\ Sound(i) /\ Stays(i)' /\ rounds'[i].listed = rounds[i].listed
             /\ \A r \in rounds[i].listed : (Stamped(r, i) => Stamped(r, i)') /\ Newer(r) <= Newer(r)'
                                            /\ Newer(r) \in Nat /\ Newer(r)' \in Nat
  <2>1. Sound(i) /\ rounds'[i].listed = rounds[i].listed /\ i < n /\ i \in Nat
    BY <1>4, <1>7 DEF Round
  <2>2. Stays(i)
    BY <2>1 DEF MirrorInv, Undisturbed
  <2>3. Stays(i)'
    BY <1>1, <1>3, <1>5, <2>1, <2>2 DEF Stays
  <2>4. ASSUME NEW r \in rounds[i].listed, Stamped(r, i) PROVE Stamped(r, i)'
    <3>1. r \in Record
      BY <1>3, <2>2 DEF Stays
    <3>2. CASE r \in part
      BY <1>5, <2>1, <3>1, <3>2 DEF Stamped
    <3>3. CASE r \notin part
      BY <1>5, <2>4, <3>1, <3>3 DEF Stamped
    <3> QED
      BY <3>2, <3>3
  <2> QED
    BY <1>6, <2>1, <2>3, <2>4
<1> QED
  BY <1>4, <1>7, KeptStamps

LEMMA MirrorHalfRead ==
  ASSUME TypeInv, TypeInv', MirrorInv, FailPage
  PROVE  MirrorInv'
<1>1. /\ work' = Idle /\ work.pc = "page" /\ Proper(work.entry) /\ work.entry \in Element
      /\ Push([work.entry EXCEPT !.late = TRUE]) \/ UNCHANGED queue
  BY DEF FailPage, Done, TypeInv, Working, Proper
<1>2. /\ Kept /\ (\A i \in Round : Sound(i)' => i \in Begun)
      /\ (\A i : i = work.entry.id => ~ Sound(i)')
  BY KeptFailed
<1>3. ASSUME NEW e, Numbered(e)', e.id = work.entry.id PROVE FALSE
  <2>1. PICK i : i = e.id
    OBVIOUS
  <2> QED
    BY <1>2, <1>3, <2>1 DEF Numbered, Sound
<1>4. Orderly
  <2>1. CASE UNCHANGED queue
    BY <2>1, OrderlyUnchanged
  <2>2. CASE Push([work.entry EXCEPT !.late = TRUE])
    <3>1. PICK e : e = [work.entry EXCEPT !.late = TRUE]
      OBVIOUS
    <3>2. e \in Element /\ e.id = work.entry.id
      BY <1>1, <3>1 DEF Element
    <3>3. ~ Numbered(e)'
      BY <1>3, <3>2
    <3> QED
      BY <2>2, <3>1, <3>2, <3>3, OrderlyPush
  <2> QED
    BY <1>1, <2>1, <2>2
<1>5. Proceeds
  BY <1>1 DEF Proceeds, Idle
<1>6. \A e : Before(work.entry, e) => ~ Numbered(e)'
  BY <1>3 DEF Before
<1> QED
  BY <1>1, <1>2, <1>4, <1>5, <1>6, MirrorStays

(* Every step keeps the invariant.                                           *)
LEMMA MirrorInvNext == TypeInv /\ TypeInv' /\ MirrorInv /\ [Next]_vars => MirrorInv'
<1> SUFFICES ASSUME TypeInv, TypeInv', MirrorInv, [Next]_vars PROVE MirrorInv'
  OBVIOUS
<1>1. CASE UNCHANGED vars
  <2>1. UNCHANGED <<user, records, shop, added, queue, work, login, validator, saves, rounds, undone, ids, mishaps>>
    BY <1>1 DEF vars
  <2>2. Kept
    BY <2>1, KeptUnchanged
  <2>3. Orderly
    BY <2>1, OrderlyUnchanged
  <2>4. Proceeds
    BY <2>1 DEF Proceeds, MirrorInv, Ending
  <2> QED
    BY <2>1, <2>2, <2>3, <2>4, MirrorKept
<1>2. CASE WorkerStep
  <2>1. ASSUME NEW p \in Priority, Take(p) PROVE MirrorInv'
    BY <2>1, MirrorTakes
  <2> QED
    BY <1>2, <2>1, MirrorReads, MirrorFails, MirrorPages, MirrorProceeds, MirrorCleans DEF WorkerStep
<1>3. CASE Next /\ ~ WorkerStep
  BY <1>3, MirrorFails, MirrorWaits, MirrorHalfRead, MirrorClients, MirrorWorld DEF Next, ApiStep
<1> QED
  BY <1>1, <1>2, <1>3

(* A round that is sound still has stamped all it found when it cleans the   *)
(* collection, so that none of it is doomed; and whatever has left Discogs   *)
(* has an older stamp, so that it is.                                        *)
LEMMA CleansDoomed ==
  ASSUME TypeInv, MirrorInv, CleanCollection, rounds[work.id].sound
  PROVE  /\ rounds[work.id].listed \ undone \subseteq Stored \ (Deleting' \ Deleting)
         /\ mishaps' = mishaps => Stored \ shop \subseteq Deleting'
<1>1. work.pc = "clean" /\ UNCHANGED <<records, shop, rounds, ids>> /\ work.id \in Begun
  BY DEF CleanCollection, discogs, history, TypeInv, Working
<1>2. PICK lost \in SUBSET Doomed(work.id) :
        /\ Mishaps(Cardinality(lost))
        /\ queue' = [queue EXCEPT !["UNSET"] = @ \o Deletions(Doomed(work.id) \ lost)]
        /\ work' = [work EXCEPT !.pc = "cleaned", !.user = user, !.found = Cardinality(Stored)]
  BY DEF CleanCollection
<1>3. PICK id \in Round : id = work.id
  BY <1>1, BoundsAssumption DEF TypeInv, Rounds, Begun, Round
<1>4. Sound(id)
  BY <1>1, <1>3 DEF Sound
<1>5. Whole(id) /\ Stays(id)
  BY <1>1, <1>3, <1>4 DEF MirrorInv, Reading, Ending, Undisturbed
<1>6. shop \in SUBSET Record
  BY BoundsAssumption DEF TypeInv, Collection, Record
<1> DEFINE S == Doomed(work.id) \ lost
           new == Deletions(S)
           old == queue["UNSET"]
           all == old \o new
<1>7. S \in SUBSET Record /\ lost \in SUBSET Record
  BY DEF Doomed, Stored
<1> HIDE DEF S
<1>8. new \in Seq(Element) /\ Elements(new) = {Delete(r) : r \in S}
  BY <1>7, DeletionsAre
<1> HIDE DEF new
<1>9. old \in Seq(Element) /\ "UNSET" \in Priority
  BY DEF TypeInv, Queued, Priority
<1>10. Elements(all) = Elements(old) \cup Elements(new) /\ all \in Seq(Element)
  <2> HIDE DEF old
  <2> QED
    BY <1>8, <1>9, ConcatElements
<1> HIDE DEF all
<1>11. queue' = [queue EXCEPT !["UNSET"] = all] /\ queue \in [Priority -> Seq(Element)]
  BY <1>2 DEF all, new, S, TypeInv, Queued
(* What waits afterwards.                                                    *)
<1>12. Waiting = UNION {Elements(queue[p]) : p \in Priority} /\ Waiting' = UNION {Elements(queue'[p]) : p \in Priority}
  <2>1. \A p \in Priority : DOMAIN queue[p] = 1 .. Len(queue[p]) /\ DOMAIN queue'[p] = 1 .. Len(queue'[p])
    <3>1. queue' \in [Priority -> Seq(Element)]
      BY <1>10, <1>11
    <3> QED
      BY <1>11, <3>1, LenProperties
  <2> QED
    BY <2>1 DEF Waiting, Elements
<1>13. Waiting' = Waiting \cup {Delete(r) : r \in S}
  <2>1. \A p \in Priority : Elements(queue'[p]) = IF p = "UNSET" THEN Elements(queue[p]) \cup {Delete(r) : r \in S}
                                                  ELSE Elements(queue[p])
    BY <1>8, <1>10, <1>11
  <2> QED
    BY <1>9, <1>12, <2>1
<1>14. Deleting' = Deleting \cup S
  <2>1. \A r \in S : Delete(r).kind = "delete" /\ Delete(r).n = r
    BY DEF Delete
  <2> QED
    BY <1>13, <2>1 DEF Deleting
<1>15. \A r \in rounds[id].listed \ undone : r \in Record /\ records[r] # None /\ records[r] >= id
  BY <1>5, <1>6 DEF Whole, Stamped, Stays
<1>16. \A r \in rounds[id].listed \ undone : r \in Stored /\ r \notin S
  <2> SUFFICES ASSUME NEW r \in rounds[id].listed \ undone PROVE r \in Stored /\ r \notin S
    OBVIOUS
  <2>1. r \in Record /\ records[r] # None /\ records[r] >= id /\ id \in Int
    BY <1>15 DEF Round
  <2>2. records[r] \in Int
    BY <2>1 DEF TypeInv, Collection, Stamps
  <2>3. ~(records[r] < id)
    BY <2>1, <2>2
  <2> QED
    BY <1>3, <2>1, <2>3 DEF S, Doomed, Stored
<1>17. ASSUME mishaps' = mishaps PROVE Stored \ shop \subseteq S
  <2>1. IsFiniteSet(lost) /\ Cardinality(lost) \in Nat
    BY <1>7, FiniteRecords
  <2>2. mishaps \in Nat /\ mishaps' = mishaps + Cardinality(lost)
    BY <1>2 DEF Mishaps, TypeInv, Rounds
  <2>3. Cardinality(lost) = 0
    BY <1>17, <2>1, <2>2
  <2>4. lost = {}
    BY <2>1, <2>3, FS_EmptySet
  <2>5. Stored \ shop \subseteq Doomed(id)
    BY <1>5 DEF Stored, Doomed, Stays
  <2> QED
    BY <1>3, <2>4, <2>5 DEF S
<1> QED
  BY <1>3, <1>14, <1>16, <1>17

(* A round none of whose pages was lost, retried or shifted leaves the       *)
(* collection as it found it, whatever other rounds ran and whatever records *)
(* the API server saved in between.                                          *)
THEOREM RefreshMirrors == Spec => RefreshMirrorsCollection
<1>1. ASSUME TypeInv, MirrorInv, Next, Cleans PROVE CleanCollection
  <2>1. work.pc = "clean" /\ work'.pc = "cleaned"
    BY <1>1 DEF Cleans
  <2>2. work' # Idle /\ work' # work
    BY <2>1 DEF Idle
  <2>3. Next => \/ CleanCollection \/ work' = Idle \/ work' = work \/ WeekPasses
                \/ work.pc # "clean"
    BY DEF Next, WorkerStep, LoginStep, ValidatorStep, Take, ReadPage, Unreadable, EnqueuePages, SaveRefreshed,
           PageRead, LastPage, SaveCleaned, RetryMissing, FirstCopies, NextCopies, DeleteRecord, LoadUser, SaveFolders, GenerateToken,
           NewUserRefresh, SaveLogin, LoginFails, ValidateName, ValidateCollection, SaveValidated, FailPage, RateLimit,
           Requeue, Bury, UpgradeUser, MissIntent, ScoreIntent, AddRecord, SaveRecord, LoseRecord, Add, Remove, Ripen, Done
  <2>4. WeekPasses => work'.pc = work.pc
    BY <1>1 DEF WeekPasses, TypeInv, Working, WorkState
  <2> QED
    BY <1>1, <2>1, <2>2, <2>3, <2>4
<1>2. TypeInv /\ MirrorInv /\ [Next]_vars
        => [Cleans /\ rounds[work.id].sound =>
             /\ rounds[work.id].listed \ undone \subseteq Stored \ (Deleting' \ Deleting)
             /\ mishaps' = mishaps => Stored \ shop \subseteq Deleting']_vars
  BY <1>1, CleansDoomed
<1>3. Init => TypeInv /\ MirrorInv
  BY TypeInvInit, MirrorInit
<1>4. TypeInv /\ MirrorInv /\ [Next]_vars => (TypeInv /\ MirrorInv)'
  BY TypeInvNext, MirrorInvNext
<1> QED
  BY <1>2, <1>3, <1>4, PTL DEF Spec, RefreshMirrorsCollection
============================================================================
