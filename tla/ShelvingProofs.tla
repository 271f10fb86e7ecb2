--------------------------- MODULE ShelvingProofs ---------------------------
(***************************************************************************)
(* Every layout of every organisation is right: no unit is overfilled,     *)
(* each record has its place in the promised order and labels stay         *)
(* together; and the moves between two layouts lead from one to the other. *)
(***************************************************************************)
EXTENDS Shelving, SubsequenceProofs

(* The slot and the unit being filled are numbers, and the slot is one of    *)
(* the organisation or Spill, which has no look-ahead.                       *)
Position ==
  /\ slot \in 1 .. Spill /\ unit \in Nat /\ Len(org.spaces) \in Nat
  /\ ahead # 0 => slot # Spill

(* Only the unit being filled and the ones before it hold anything.          *)
Filled ==
  \A su \in DOMAIN load :
    /\ su \in Nat \X Nat
    /\ su = <<slot, unit>> \/ su[1] < slot \/ (su[1] = slot /\ su[2] < unit)

(* currSlotWidth is what the unit being filled holds, the look-ahead's       *)
(* records included.                                                         *)
Counted == used = LoadOf(slot, unit)

LoadInv == Position /\ Filled /\ Counted /\ NoOverfill

(* Placing a group where there is room keeps every unit within its width.    *)
LEMMA PutFits ==
  ASSUME NEW k, LoadInv, Put(k), Room(ord[k].width), UNCHANGED <<org, slot, unit>>,
         ahead' # 0 => ahead # 0
  PROVE  LoadInv'
<1> DEFINE here == <<slot, unit>>
<1>1. /\ DOMAIN load' = DOMAIN load \cup {here}
      /\ load'[here] = LoadOf(slot, unit) + ord[k].width
      /\ \A su \in DOMAIN load : su # here => load'[su] = load[su]
  BY DEF Put
<1>2. Position'
  BY DEF LoadInv, Position, Spill
<1>3. Filled'
  BY <1>1 DEF LoadInv, Filled, Position, Spill
<1>4. Counted'
  BY <1>1 DEF LoadInv, Counted, LoadOf, Put
<1>5. NoOverfill'
  <2> SUFFICES ASSUME NEW su \in DOMAIN load', su[1] # Spill
               PROVE  load'[su] <= org.spaces[su[1]].width
    BY DEF NoOverfill, Spill
  <2>1. CASE su = here
    <3>1. su[1] = slot
      BY <2>1
    <3>2. load'[su] = used + ord[k].width
      BY <1>1, <2>1 DEF LoadInv, Counted
    <3> QED
      BY <3>1, <3>2 DEF Room
  <2>2. CASE su # here
    <3>1. su \in DOMAIN load /\ load'[su] = load[su]
      BY <1>1, <2>2
    <3> QED
      BY <3>1 DEF LoadInv, NoOverfill
  <2> QED
    BY <2>1, <2>2
<1> QED
  BY <1>2, <1>3, <1>4, <1>5 DEF LoadInv

(* The unit after a full one is empty, in the same space or in the next.     *)
LEMMA NextUnitEmpty ==
  ASSUME LoadInv, NextUnit
  PROVE  LoadInv'
<1>1. slot # Spill
  BY DEF NextUnit, UnitOver, Full, Room, LoadInv, Position
<1>2. \/ unit' = 1 /\ slot' = slot + 1
      \/ unit' = unit + 1 /\ slot' = slot
  BY DEF NextUnit
<1>3. Position'
  BY <1>1, <1>2 DEF NextUnit, LoadInv, Position, Spill
<1>4. Filled' /\ <<slot', unit'>> \notin DOMAIN load
  <2>1. slot \in Nat /\ unit \in Nat /\ load' = load
    BY DEF NextUnit, LoadInv, Position, Spill
  <2>2. ASSUME NEW su \in DOMAIN load
        PROVE  /\ su \in Nat \X Nat
               /\ su[1] < slot' \/ (su[1] = slot' /\ su[2] < unit')
    <3>1. su \in Nat \X Nat /\ (su = <<slot, unit>> \/ su[1] < slot \/ (su[1] = slot /\ su[2] < unit))
      BY DEF LoadInv, Filled
    <3>2. (su[1] = slot /\ su[2] = unit) \/ su[1] < slot \/ (su[1] = slot /\ su[2] < unit)
      BY <3>1
    <3> QED
      BY <1>2, <2>1, <3>1, <3>2
  <2>3. Filled'
    BY <2>1, <2>2 DEF Filled
  <2>4. <<slot', unit'>> \notin DOMAIN load
    <3>1. slot' \in Nat /\ unit' \in Nat
      BY <1>2, <2>1
    <3> QED
      BY <2>2, <3>1
  <2> QED
    BY <2>3, <2>4
<1>5. Counted'
  BY <1>4 DEF NextUnit, Counted, LoadOf
<1>6. NoOverfill'
  BY DEF NextUnit, LoadInv, NoOverfill, Spill
<1> QED
  BY <1>3, <1>4, <1>5, <1>6 DEF LoadInv

(* An empty build overfills nothing.                                         *)
LEMMA EmptyFits ==
  ASSUME slot = 1, unit = 1, used = 0, load = <<>>, ahead = 0, Len(org.spaces) \in Nat
  PROVE  LoadInv
<1>1. DOMAIN load = {}
  OBVIOUS
<1> QED
  BY <1>1 DEF LoadInv, Position, Filled, Counted, LoadOf, NoOverfill, Spill

(* An empty organisation fits, and nothing is being placed.                  *)
LEMMA InitFits == Init => LoadInv
<1> SUFFICES ASSUME Init
             PROVE  LoadInv
  OBVIOUS
<1>1. Len(org.spaces) \in Nat
  BY ConstantsAssumption DEF Init, Organisation
<1> QED
  BY <1>1, EmptyFits DEF Init, NoBuild

(* Placing a group keeps the load of the units as the running width says.    *)
LEMMA StepFits == LoadInv /\ [Next]_vars => LoadInv'
<1> SUFFICES ASSUME LoadInv, [Next]_vars
             PROVE  LoadInv'
  OBVIOUS
<1>1. ASSUME UNCHANGED <<org, slot, unit, used, load>>, ahead' # 0 => slot # Spill
      PROVE  LoadInv'
  BY <1>1 DEF LoadInv, Position, Filled, Counted, LoadOf, NoOverfill, Spill
<1>2. CASE Start \/ Skip \/ LookAhead \/ Expand
  BY <1>1, <1>2 DEF Start, Skip, LookAhead, Expand, Full, Room, LoadInv, Position
<1>3. CASE Place
  BY <1>3, PutFits DEF Place, LoadInv, Position
<1>4. CASE Fill
  <2>1. CASE Room(ord[ahead].width)
    BY <1>4, <2>1, PutFits DEF Fill, LoadInv, Position
  <2>2. CASE ~ Room(ord[ahead].width)
    BY <1>1, <1>4, <2>2 DEF Fill, LoadInv, Position
  <2> QED
    BY <2>1, <2>2
<1>5. CASE NextUnit
  BY <1>5, NextUnitEmpty
<1>6. CASE Compare \/ FindFree \/ OrderNext \/ OrderRest
  BY <1>1, <1>6 DEF Compare, FindFree, OrderNext, OrderRest, builder, LoadInv, Position
<1>7. CASE Remember
  <2>1. /\ slot' = 1 /\ unit' = 1 /\ used' = 0 /\ load' = <<>> /\ ahead' = 0 /\ org' = org
        /\ Len(org'.spaces) \in Nat
    BY <1>7 DEF Remember, LoadInv, Position
  <2>2. DOMAIN load' = {}
    BY <2>1
  <2>3. Position'
    BY <2>1 DEF Position, Spill
  <2>4. Filled' /\ NoOverfill'
    BY <2>2 DEF Filled, NoOverfill
  <2>5. Counted'
    BY <2>1, <2>2 DEF Counted, LoadOf
  <2> QED
    BY <2>3, <2>4, <2>5 DEF LoadInv
<1>8. CASE \E r \in Record, folder \in Folder : ChangeFolder(r, folder)
  BY <1>1, <1>8 DEF ChangeFolder, builder, LoadInv, Position
<1>9. CASE UNCHANGED vars
  BY <1>1, <1>9 DEF vars, builder, LoadInv, Position
<1> QED
  BY <1>2, <1>3, <1>4, <1>5, <1>6, <1>7, <1>8, <1>9 DEF Next, PlaceNext

(* No unit holds more than its width, for any records, widths, groups and    *)
(* organisation, look-aheads and later snapshots included.                   *)
THEOREM NeverOverfilled == Spec => []NoOverfill
<1>1. Init => LoadInv
  BY InitFits
<1>2. LoadInv /\ [Next]_vars => LoadInv'
  BY StepFits
<1>3. LoadInv => NoOverfill
  BY DEF LoadInv
<1> QED
  BY <1>1, <1>2, <1>3, PTL DEF Spec

----------------------------------------------------------------------------
(* The order of the records.                                                 *)

(* The organisation and the folders are what they may be.                    *)
Given == org \in Orgs /\ folderOf \in [Record -> Folder]

(* The largest of finitely many numbers is one of them.                      *)
LEMMA MaxIsLargest ==
  ASSUME NEW I \in SUBSET Int, IsFiniteSet(I), I # {}
  PROVE  Max(I) \in I /\ \A j \in I : j <= Max(I)
<1>1. \E h \in I : \A j \in I : h >= j
  BY LargestExists
<1>2. Max(I) \in I /\ \A j \in I : Max(I) >= j
  BY <1>1 DEF Max
<1> QED
  BY <1>2

(* What an organisation is made of.                                          *)
LEMMA OrgParts ==
  ASSUME Given
  PROVE  /\ org.sets \in Seq(FolderSet) /\ org.spaces \in Seq(Space)
         /\ org.density \in Density /\ org.grouping \in BOOLEAN /\ org.spill \in BOOLEAN /\ org.look \in Int
         /\ Len(org.sets) \in Nat /\ DOMAIN org.sets = 1 .. Len(org.sets)
         /\ Len(org.spaces) \in Nat /\ DOMAIN org.spaces = 1 .. Len(org.spaces)
<1>1. org \in Organisation
  BY ConstantsAssumption DEF Given
<1>2. /\ org.sets \in Seq(FolderSet) /\ org.spaces \in Seq(Space)
      /\ org.density \in Density /\ org.grouping \in BOOLEAN /\ org.spill \in BOOLEAN /\ org.look \in Int
  BY <1>1 DEF Organisation
<1> QED
  BY <1>2, LenProperties

(* A record of the organisation has a folder set.                            *)
LEMMA KeptSet ==
  ASSUME Given, NEW r \in Kept
  PROVE  /\ r \in Record /\ r \in Nat /\ Attr[r] \in Attributes
         /\ SetOf(r) \in 1 .. Len(org.sets) /\ Len(org.sets) \in Nat
         /\ org.sets[SetOf(r)] \in FolderSet
<1>1. r \in Record /\ \E k \in DOMAIN org.sets : org.sets[k].folder = folderOf[r]
  BY DEF Kept
<1>2. SetOf(r) \in DOMAIN org.sets
  BY <1>1 DEF SetOf
<1>3. org.sets[SetOf(r)] \in FolderSet
  BY <1>2, OrgParts, ElementOfSeq
<1> QED
  BY <1>1, <1>2, <1>3, OrgParts, ConstantsAssumption

(* There is a sort at every index that has records.                          *)
LEMMA SortThere ==
  ASSUME Given, NEW r \in Kept
  PROVE  SortAt(org.sets[SetOf(r)].index) \in Sort
<1> DEFINE index == org.sets[SetOf(r)].index
           sets == {SetOf(q) : q \in At(index)}
<1>1. r \in At(index)
  BY DEF At
<1>2. At(index) \subseteq Kept
  BY DEF At
<1>3. Len(org.sets) \in Nat
  BY OrgParts
<1>4. sets \in SUBSET (1 .. Len(org.sets))
  BY <1>2, KeptSet
<1>5. sets # {}
  BY <1>1
<1> HIDE DEF sets, index
<1>6. Max(sets) \in sets
  BY <1>3, <1>4, <1>5, PlacesFinite, MaxIsLargest
<1>7. org.sets[Max(sets)] \in FolderSet
  BY <1>4, <1>6, OrgParts, ElementOfSeq
<1> QED
  BY <1>7 DEF SortAt, sets, index, FolderSet

(* Ranks are tuples of numbers, the last of which is the record.             *)
LEMMA RankTuple ==
  ASSUME Given, NEW r \in Kept
  PROVE  Rank(r) \in [1 .. 7 -> Int] /\ Rank(r)[7] = r
<1> DEFINE index == org.sets[SetOf(r)].index
           sort == SortAt(index)
           tie == IF sort = "earliest" THEN "release" ELSE sort
<1>1. sort \in Sort /\ tie \in Sort
  BY SortThere DEF Sort
<1>2. index \in Nat /\ SetOf(r) \in Nat /\ r \in Nat /\ Attr[r] \in Attributes
  BY KeptSet DEF FolderSet
<1>3. \A s \in Sort : Attr[r].keys[s] \in Nat /\ Late(s, r) \in Int
  BY <1>2 DEF Attributes, Late
<1>4. Rank(r) = <<index, Late(sort, r), Attr[r].keys[sort], Late(tie, r), Attr[r].keys[tie], SetOf(r), r>>
  BY DEF Rank
<1> HIDE DEF index, sort, tie
<1>5. /\ index \in Int /\ Late(sort, r) \in Int /\ Attr[r].keys[sort] \in Int
      /\ Late(tie, r) \in Int /\ Attr[r].keys[tie] \in Int /\ SetOf(r) \in Int /\ r \in Int
  BY <1>1, <1>2, <1>3
<1> QED
  BY <1>4, <1>5

(* The order of the records has every record once, those of lower rank       *)
(* first.                                                                    *)
LEMMA OrderOfKept ==
  ASSUME Given
  PROVE  /\ Len(InOrder) \in Nat /\ InOrder \in Seq(Kept) /\ DOMAIN InOrder = 1 .. Len(InOrder)
         /\ \A r \in Kept : \E k \in 1 .. Len(InOrder) : InOrder[k] = r
         /\ \A j, k \in 1 .. Len(InOrder) : j < k =>
              LexLess(Rank(InOrder[j]), Rank(InOrder[k])) /\ InOrder[j] # InOrder[k]
<1> DEFINE rank == [r \in Kept |-> Rank(r)]
           ranks == {Rank(r) : r \in Kept}
           n == Cardinality(ranks)
           sorted == Ascending(ranks)
<1>1. IsFiniteSet(Kept)
  <2>1. Kept \in SUBSET Record
    BY DEF Kept
  <2> QED
    BY <2>1, ConstantsAssumption, FS_Subset
<1>2. IsFiniteSet(ranks)
  <2>1. rank \in Surjection(Kept, ranks)
    BY DEF Surjection
  <2> QED
    BY <1>1, <2>1, FS_Surjection
<1>3. ranks \in SUBSET [1 .. 7 -> Int]
  BY RankTuple
<1>4. /\ n \in Nat
      /\ sorted \in [1 .. n -> ranks]
      /\ \A t \in ranks : \E k \in 1 .. n : sorted[k] = t
      /\ \A j, k \in 1 .. n : j < k => LexLess(sorted[j], sorted[k])
  BY <1>2, <1>3, SortedAscends
<1>5. InOrder = [k \in 1 .. n |-> sorted[k][7]]
  BY <1>4 DEF InOrder
<1> HIDE DEF n, sorted
<1>6. \A k \in 1 .. n : InOrder[k] \in Kept /\ Rank(InOrder[k]) = sorted[k]
  <2> TAKE k \in 1 .. n
  <2>1. PICK r \in Kept : sorted[k] = Rank(r)
    BY <1>4
  <2>2. InOrder[k] = r
    BY <1>5, <2>1, RankTuple
  <2> QED
    BY <2>1, <2>2
<1>7. InOrder \in Seq(Kept) /\ Len(InOrder) = n /\ DOMAIN InOrder = 1 .. n
  <2>1. InOrder \in [1 .. n -> Kept]
    BY <1>5, <1>6
  <2> QED
    BY <1>4, <2>1
<1>8. \A r \in Kept : \E k \in 1 .. n : InOrder[k] = r
  <2> TAKE r \in Kept
  <2>1. PICK k \in 1 .. n : sorted[k] = Rank(r)
    BY <1>4
  <2> QED
    BY <1>5, <2>1, RankTuple
<1>9. \A j, k \in 1 .. n : j < k => LexLess(Rank(InOrder[j]), Rank(InOrder[k])) /\ InOrder[j] # InOrder[k]
  <2> SUFFICES ASSUME NEW j \in 1 .. n, NEW k \in 1 .. n, j < k
               PROVE  LexLess(Rank(InOrder[j]), Rank(InOrder[k])) /\ InOrder[j] # InOrder[k]
    OBVIOUS
  <2>1. LexLess(Rank(InOrder[j]), Rank(InOrder[k]))
    BY <1>4, <1>6
  <2>2. ~ LexLess(Rank(InOrder[j]), Rank(InOrder[j]))
    <3>1. Rank(InOrder[j]) \in [1 .. 7 -> Int]
      BY <1>6, RankTuple
    <3> QED
      BY <3>1, LexOrder
  <2> QED
    BY <2>1, <2>2
<1> QED
  BY <1>4, <1>7, <1>8, <1>9

----------------------------------------------------------------------------
(* The groups.                                                               *)

(* A group begins with the last record up to k that joins none before it.    *)
LEMMA FirstOfGroup ==
  ASSUME NEW order, NEW n \in Nat, NEW k \in 1 .. n
  PROVE  /\ First(order, k) \in 1 .. k /\ ~ Joins(order, First(order, k))
         /\ \A j \in First(order, k) + 1 .. k : Joins(order, j)
<1> DEFINE opens == {j \in 1 .. k : ~ Joins(order, j)}
<1>1. ~ Joins(order, 1)
  BY DEF Joins
<1>2. opens \in SUBSET (1 .. k) /\ 1 \in opens /\ k \in Nat
  BY <1>1
<1> HIDE DEF opens
<1>3. Max(opens) \in opens /\ \A j \in opens : j <= Max(opens)
  <2>1. opens \in SUBSET Int /\ IsFiniteSet(opens) /\ opens # {}
    BY <1>2, PlacesFinite
  <2> QED
    BY <2>1, MaxIsLargest
<1>4. First(order, k) = Max(opens)
  BY DEF First, opens
<1>5. First(order, k) \in opens /\ \A j \in opens : j <= First(order, k)
  BY <1>3, <1>4
<1>6. ASSUME NEW j \in First(order, k) + 1 .. k, ~ Joins(order, j)
      PROVE  FALSE
  <2>1. j \in opens
    BY <1>2, <1>5, <1>6 DEF opens
  <2>2. j <= First(order, k)
    BY <1>5, <2>1
  <2>3. First(order, k) \in 1 .. k
    BY <1>2, <1>5
  <2> QED
    BY <1>2, <2>2, <2>3
<1> QED
  BY <1>5, <1>6 DEF opens

(* It ends before the next record that does not join.                        *)
LEMMA FinalOfGroup ==
  ASSUME NEW order, Len(order) \in Nat, NEW k \in 1 .. Len(order)
  PROVE  /\ Final(order, k) \in k .. Len(order)
         /\ \A h \in k + 1 .. Final(order, k) : Joins(order, h)
         /\ Final(order, k) = Len(order) \/ ~ Joins(order, Final(order, k) + 1)
<1> DEFINE n == Len(order)
           ends == {j \in k .. n : \A h \in k + 1 .. j : Joins(order, h)}
<1> HIDE DEF n
<1>1. n \in Nat /\ k \in 1 .. n
  BY DEF n
<1>2. k \in ends
  BY <1>1
<1>3. ends \in SUBSET (1 .. n)
  BY <1>1
<1>4. Final(order, k) = Max(ends)
  BY DEF Final, n
<1>5. \A j \in ends : j \in k .. n /\ \A h \in k + 1 .. j : Joins(order, h)
  OBVIOUS
<1>6. \A j \in k .. n : (\A h \in k + 1 .. j : Joins(order, h)) => j \in ends
  OBVIOUS
<1> HIDE DEF ends
<1>7. Final(order, k) \in ends /\ \A j \in ends : j <= Final(order, k)
  <2>1. ends \in SUBSET Int /\ IsFiniteSet(ends) /\ ends # {}
    BY <1>1, <1>2, <1>3, PlacesFinite
  <2> QED
    BY <1>4, <2>1, MaxIsLargest
<1> DEFINE f == Final(order, k)
<1>8. f \in k .. n /\ \A h \in k + 1 .. f : Joins(order, h)
  BY <1>5, <1>7
<1>9. \A j \in ends : j <= f
  BY <1>7
<1> HIDE DEF f
<1>10. ASSUME f # n, Joins(order, f + 1)
       PROVE  FALSE
  <2>1. f + 1 \in k .. n
    BY <1>1, <1>8, <1>10
  <2>2. \A h \in k + 1 .. f + 1 : Joins(order, h)
    BY <1>1, <1>8, <1>10
  <2>3. f + 1 \in ends
    BY <1>6, <2>1, <2>2
  <2>4. f + 1 <= f
    BY <1>9, <2>3
  <2> QED
    BY <1>1, <1>8, <2>4
<1> QED
  BY <1>8, <1>10 DEF f, n

(* Records between which all join are of one group.                          *)
LEMMA OneGroup ==
  ASSUME NEW order, Len(order) \in Nat, NEW k \in 1 .. Len(order), NEW l \in k .. Len(order),
         \A h \in k + 1 .. l : Joins(order, h)
  PROVE  First(order, k) = First(order, l) /\ Final(order, k) = Final(order, l)
<1> DEFINE n == Len(order)
           a == First(order, k)
           b == First(order, l)
           c == Final(order, k)
           d == Final(order, l)
<1>1. n \in Nat /\ k \in 1 .. n /\ l \in 1 .. n /\ k <= l
  OBVIOUS
<1>2. a \in 1 .. k /\ ~ Joins(order, a) /\ \A j \in a + 1 .. k : Joins(order, j)
  BY <1>1, FirstOfGroup
<1>3. b \in 1 .. l /\ ~ Joins(order, b) /\ \A j \in b + 1 .. l : Joins(order, j)
  BY <1>1, FirstOfGroup
<1>4. c \in k .. n /\ (\A h \in k + 1 .. c : Joins(order, h)) /\ (c = n \/ ~ Joins(order, c + 1))
  BY FinalOfGroup
<1>5. d \in l .. n /\ (\A h \in l + 1 .. d : Joins(order, h)) /\ (d = n \/ ~ Joins(order, d + 1))
  BY <1>1, FinalOfGroup
<1> HIDE DEF n, a, b, c, d
<1>6. a = b
  <2>1. ~ a < b
    <3> SUFFICES ASSUME a < b
                 PROVE  FALSE
      OBVIOUS
    <3>1. b \in a + 1 .. k \/ b \in k + 1 .. l
      BY <1>1, <1>2, <1>3
    <3> QED
      BY <1>2, <1>3, <3>1
  <2>2. ~ b < a
    <3> SUFFICES ASSUME b < a
                 PROVE  FALSE
      OBVIOUS
    <3>1. a \in b + 1 .. l
      BY <1>1, <1>2, <1>3
    <3> QED
      BY <1>2, <1>3, <3>1
  <2> QED
    BY <1>1, <1>2, <1>3, <2>1, <2>2
<1>7. c = d
  <2>1. l <= c
    <3> SUFFICES ASSUME c < l
                 PROVE  FALSE
      BY <1>1, <1>4
    <3>1. c + 1 \in k + 1 .. l /\ c # n
      BY <1>1, <1>4
    <3> QED
      BY <1>4, <3>1
  <2>2. ~ c < d
    <3> SUFFICES ASSUME c < d
                 PROVE  FALSE
      OBVIOUS
    <3>1. c + 1 \in l + 1 .. d /\ c # n
      BY <1>1, <1>4, <1>5, <2>1
    <3> QED
      BY <1>4, <1>5, <3>1
  <2>3. ~ d < c
    <3> SUFFICES ASSUME d < c
                 PROVE  FALSE
      OBVIOUS
    <3>1. d + 1 \in k + 1 .. c /\ d # n
      BY <1>1, <1>4, <1>5
    <3> QED
      BY <1>4, <1>5, <3>1
  <2> QED
    BY <1>1, <1>4, <1>5, <2>2, <2>3
<1> QED
  BY <1>6, <1>7 DEF a, b, c, d

(* The last record of the element that starts at k.                          *)
Close(order, k) == IF Fits(GroupOf(order, k)) THEN Final(order, k) ELSE k

(* An element is what stands from its start to its close.                    *)
LEMMA ElementSpan ==
  ASSUME NEW order, Len(order) \in Nat, DOMAIN order = 1 .. Len(order), NEW k \in Starts(order)
  PROVE  /\ k \in 1 .. Len(order) /\ Close(order, k) \in k .. Len(order)
         /\ Fits(GroupOf(order, k)) => First(order, k) = k
         /\ ElementAt(order, k).recs = SubSeq(order, k, Close(order, k))
         /\ ElementAt(order, k).width = WidthOf(ElementAt(order, k).recs)
<1>1. k \in 1 .. Len(order) /\ (~ Joins(order, k) \/ ~ Fits(GroupOf(order, k)))
  BY DEF Starts
<1>2. Final(order, k) \in k .. Len(order)
  BY <1>1, FinalOfGroup
<1>3. ASSUME Fits(GroupOf(order, k))
      PROVE  First(order, k) = k
  <2>1. ~ Joins(order, k)
    BY <1>1, <1>3
  <2>2. /\ First(order, k) \in 1 .. k
        /\ \A j \in First(order, k) + 1 .. k : Joins(order, j)
    BY <1>1, FirstOfGroup
  <2> QED
    BY <1>1, <2>1, <2>2
<1>4. ElementAt(order, k).width = WidthOf(ElementAt(order, k).recs)
  BY DEF ElementAt, Element
<1>5. CASE Fits(GroupOf(order, k))
  BY <1>1, <1>2, <1>3, <1>4, <1>5 DEF Close, ElementAt, Element, GroupOf
<1>6. CASE ~ Fits(GroupOf(order, k))
  <2>1. Close(order, k) = k /\ ElementAt(order, k).recs = <<order[k]>>
    BY <1>6 DEF Close, ElementAt, Element
  <2>2. SubSeq(order, k, k) = <<order[k]>>
    <3> DEFINE s == SubSeq(order, k, k)
    <3>1. k \in Int /\ \A h \in k .. k : order[h] \in {order[k]}
      BY <1>1
    <3>2. s \in Seq({order[k]}) /\ Len(s) = 1 /\ s[1] = order[k]
      BY <3>1, SubSeqProperties
    <3> HIDE DEF s
    <3>3. s = <<order[k]>>
      BY <3>2
    <3> QED
      BY <3>3 DEF s
  <2> QED
    BY <1>1, <1>4, <1>6, <2>1, <2>2
<1> QED
  BY <1>5, <1>6

(* Every record is in an element.                                            *)
LEMMA ElementsCover ==
  ASSUME NEW order, Len(order) \in Nat, DOMAIN order = 1 .. Len(order), NEW j \in 1 .. Len(order)
  PROVE  /\ \E k \in Starts(order) : j \in k .. Close(order, k)
         /\ Fits(GroupOf(order, j)) =>
              First(order, j) \in Starts(order) /\ Close(order, First(order, j)) = Final(order, j)
<1>1. CASE ~ Fits(GroupOf(order, j))
  <2>1. j \in Starts(order) /\ Close(order, j) = j
    BY <1>1 DEF Starts, Close
  <2> QED
    BY <1>1, <2>1
<1>2. CASE Fits(GroupOf(order, j))
  <2> DEFINE a == First(order, j)
  <2>1. a \in 1 .. j /\ ~ Joins(order, a) /\ \A h \in a + 1 .. j : Joins(order, h)
    BY FirstOfGroup
  <2> HIDE DEF a
  <2>2. a \in 1 .. Len(order) /\ j \in a .. Len(order)
    BY <2>1
  <2>3. First(order, a) = First(order, j) /\ Final(order, a) = Final(order, j)
    BY <2>1, <2>2, OneGroup
  <2>4. Fits(GroupOf(order, a))
    BY <1>2, <2>3 DEF GroupOf
  <2>5. a \in Starts(order) /\ Close(order, a) = Final(order, j)
    BY <2>1, <2>2, <2>3, <2>4 DEF Starts, Close
  <2>6. Final(order, j) \in j .. Len(order)
    BY FinalOfGroup
  <2>7. j \in a .. Close(order, a)
    BY <2>1, <2>5, <2>6
  <2> QED
    BY <2>5, <2>7 DEF a
<1> QED
  BY <1>1, <1>2

(* An element ends before the next begins.                                   *)
LEMMA ElementsApart ==
  ASSUME NEW order, Len(order) \in Nat, DOMAIN order = 1 .. Len(order),
         NEW k \in Starts(order), NEW l \in Starts(order), k < l
  PROVE  Close(order, k) < l
<1>1. k \in 1 .. Len(order) /\ l \in 1 .. Len(order) /\ Close(order, k) \in k .. Len(order)
  BY ElementSpan
<1>2. CASE ~ Fits(GroupOf(order, k))
  BY <1>1, <1>2 DEF Close
<1>3. CASE Fits(GroupOf(order, k))
  <2>1. Close(order, k) = Final(order, k) /\ \A h \in k + 1 .. Final(order, k) : Joins(order, h)
    BY <1>1, <1>3, FinalOfGroup DEF Close
  <2> SUFFICES ASSUME l <= Close(order, k)
               PROVE  FALSE
    BY <1>1
  <2>2. l \in k + 1 .. Final(order, k) /\ l \in k .. Len(order)
    BY <1>1, <2>1
  <2>3. \A h \in k + 1 .. l : Joins(order, h)
    BY <1>1, <2>1, <2>2
  <2>4. Joins(order, l)
    BY <1>1, <2>2, <2>3
  <2>5. GroupOf(order, k) = GroupOf(order, l)
    BY <1>1, <2>2, <2>3, OneGroup DEF GroupOf
  <2>6. ~ Fits(GroupOf(order, l))
    BY <2>4 DEF Starts
  <2> QED
    BY <1>3, <2>5, <2>6
<1> QED
  BY <1>2, <1>3

(* The elements of a list are the parts of the order from lo to hi.          *)
Divides(list, lo, hi) ==
  LET n == Len(InOrder) IN
  /\ lo \in [1 .. Len(list) -> 1 .. n] /\ hi \in [1 .. Len(list) -> 1 .. n]
  /\ \A k \in 1 .. Len(list) :
       /\ lo[k] <= hi[k] /\ list[k].recs = SubSeq(InOrder, lo[k], hi[k])
       /\ list[k].width = WidthOf(list[k].recs)
  /\ \A j \in 1 .. n : \E k \in 1 .. Len(list) : j \in lo[k] .. hi[k]
  /\ \A k, l \in 1 .. Len(list) : k < l => hi[k] < lo[l]
  /\ \A j \in 1 .. n : Fits(GroupOf(InOrder, j)) =>
       \E k \in 1 .. Len(list) : lo[k] = First(InOrder, j) /\ hi[k] = Final(InOrder, j)

(* The list of the elements divides the order.                               *)
LEMMA OrdListDivides ==
  ASSUME Given
  PROVE  /\ Len(OrdList) \in Nat /\ DOMAIN OrdList = 1 .. Len(OrdList)
         /\ \E lo, hi : Divides(OrdList, lo, hi)
<1> DEFINE order == InOrder
           n == Len(order)
           S == Starts(order)
           m == Cardinality(S)
<1>1. n \in Nat /\ DOMAIN order = 1 .. n
  BY OrderOfKept
<1>2. S \in SUBSET (1 .. n)
  BY <1>1 DEF Starts
<1>3. S \in SUBSET Int /\ IsFiniteSet(S) /\ m \in Nat
  BY <1>1, <1>2, PlacesFinite
<1> HIDE DEF order, S
<1>4. OrdList = Subsequence([k \in S |-> ElementAt(order, k)], S)
  BY DEF OrdList, order, S
<1>5. PICK p \in [1 .. m -> S] :
         /\ OrdList = [k \in 1 .. m |-> [j \in S |-> ElementAt(order, j)][p[k]]]
         /\ \A j \in S : \E k \in 1 .. m : p[k] = j
         /\ \A j, k \in 1 .. m : j < k => p[j] < p[k]
  BY <1>3, <1>4, PlacesAscend
<1>6. OrdList = [k \in 1 .. m |-> ElementAt(order, p[k])]
  BY <1>5
<1> DEFINE hi == [k \in 1 .. m |-> Close(order, p[k])]
<1>7. Len(OrdList) = m /\ DOMAIN OrdList = 1 .. m
  BY <1>3, <1>6
<1>8. \A k \in 1 .. m :
        /\ p[k] \in 1 .. n /\ Close(order, p[k]) \in p[k] .. n
        /\ OrdList[k].recs = SubSeq(order, p[k], Close(order, p[k]))
        /\ OrdList[k].width = WidthOf(OrdList[k].recs)
  BY <1>1, <1>6, ElementSpan DEF S
<1>9. p \in [1 .. m -> 1 .. n] /\ hi \in [1 .. m -> 1 .. n]
  BY <1>2, <1>8
<1>10. \A j \in 1 .. n : \E k \in 1 .. m : j \in p[k] .. hi[k]
  <2> TAKE j \in 1 .. n
  <2>1. PICK s \in S : j \in s .. Close(order, s)
    BY <1>1, ElementsCover DEF S
  <2>2. PICK k \in 1 .. m : p[k] = s
    BY <1>5
  <2> QED
    BY <2>1, <2>2
<1>11. \A k, l \in 1 .. m : k < l => hi[k] < p[l]
  <2> SUFFICES ASSUME NEW k \in 1 .. m, NEW l \in 1 .. m, k < l
               PROVE  hi[k] < p[l]
    OBVIOUS
  <2>1. p[k] < p[l] /\ p[k] \in S /\ p[l] \in S
    BY <1>5
  <2>2. Close(order, p[k]) < p[l]
    BY <1>1, <2>1, ElementsApart DEF S
  <2> QED
    BY <2>2
<1>12. \A j \in 1 .. n : Fits(GroupOf(order, j)) =>
         \E k \in 1 .. m : p[k] = First(order, j) /\ hi[k] = Final(order, j)
  <2> SUFFICES ASSUME NEW j \in 1 .. n, Fits(GroupOf(order, j))
               PROVE  \E k \in 1 .. m : p[k] = First(order, j) /\ hi[k] = Final(order, j)
    OBVIOUS
  <2>1. First(order, j) \in S /\ Close(order, First(order, j)) = Final(order, j)
    BY <1>1, ElementsCover DEF S
  <2>2. PICK k \in 1 .. m : p[k] = First(order, j)
    BY <1>5, <2>1
  <2> QED
    BY <2>1, <2>2
<1>13. \A k \in 1 .. m : p[k] <= hi[k]
  BY <1>8
<1>14. Divides(OrdList, p, hi)
  BY <1>7, <1>8, <1>9, <1>10, <1>11, <1>12, <1>13 DEF Divides, order
<1> QED
  BY <1>3, <1>7, <1>14

----------------------------------------------------------------------------
(* Widths.                                                                   *)

(* The width that stands for a missing one is a number.                      *)
LEMMA DefaultWidthNat ==
  ASSUME Given
  PROVE  DefaultWidth \in Nat
<1> DEFINE known == {r \in Kept : Attr[r].width > 0}
           widths == [r \in known |-> Attr[r].width]
<1>1. IsFiniteSet(known)
  <2>1. known \in SUBSET Record
    BY DEF Kept
  <2> QED
    BY <2>1, ConstantsAssumption, FS_Subset
<1>2. \A r \in known : Attr[r].width \in Nat
  BY KeptSet DEF Attributes
<1>3. Total(widths) \in Nat
  <2>1. DOMAIN widths = known /\ \A r \in known : widths[r] \in Nat
    BY <1>2
  <2> HIDE DEF widths, known
  <2> QED
    BY <1>1, <2>1, TotalNat
<1>4. known # {} => Cardinality(known) \in Nat /\ Cardinality(known) > 0
  <2> HIDE DEF known
  <2>1. Cardinality(known) \in Nat /\ (Cardinality(known) = 0 <=> known = {})
    BY <1>1, FS_CardinalityType, FS_EmptySet
  <2> QED
    BY <2>1
<1>5. DefaultWidth = IF ~ org.average THEN 0 ELSE IF known = {} THEN 1 ELSE Total(widths) \div Cardinality(known)
  BY DEF DefaultWidth
<1> HIDE DEF widths, known
<1>6. known # {} => Total(widths) \div Cardinality(known) \in Nat
  BY <1>3, <1>4
<1> QED
  BY <1>5, <1>6

(* The width of records is a number.                                         *)
LEMMA WidthNat ==
  ASSUME Given, NEW recs \in Seq(Kept)
  PROVE  WidthOf(recs) \in Nat
<1>1. Len(recs) \in Nat /\ DOMAIN recs = 1 .. Len(recs) /\ \A k \in DOMAIN recs : recs[k] \in Kept
  BY LenProperties, ElementOfSeq
<1>2. IsFiniteSet(DOMAIN recs)
  BY <1>1, PlacesFinite
<1>3. \A r \in Kept : Disks(r) \in Nat
  <2> TAKE r \in Kept
  <2> DEFINE formats == Attr[r].formats
             count == [f \in DOMAIN formats |-> IF formats[f] = 0 THEN 1 ELSE formats[f]]
  <2>1. formats \in Seq(Nat)
    BY KeptSet DEF Attributes
  <2>2. Len(formats) \in Nat /\ DOMAIN formats = 1 .. Len(formats) /\ \A f \in DOMAIN formats : formats[f] \in Nat
    <3> HIDE DEF formats
    <3> QED
      BY <2>1, LenProperties, ElementOfSeq
  <2>3. IsFiniteSet(DOMAIN formats)
    <3> HIDE DEF formats
    <3> QED
      BY <2>2, PlacesFinite
  <2>4. DOMAIN count = DOMAIN formats /\ \A f \in DOMAIN formats : count[f] \in Nat
    BY <2>2
  <2>5. Total(count) \in Nat
    <3> HIDE DEF count
    <3> QED
      BY <2>3, <2>4, TotalNat
  <2>6. Disks(r) = IF formats = <<>> THEN 1 ELSE Total(count)
    BY DEF Disks
  <2> HIDE DEF formats, count
  <2> QED
    BY <2>5, <2>6
<1>4. \A r \in Kept : Width(r) \in Nat
  <2> TAKE r \in Kept
  <2>1. Attr[r].mult \in Nat /\ Attr[r].width \in Nat /\ DefaultWidth \in Nat
    BY KeptSet, DefaultWidthNat DEF Attributes
  <2> DEFINE one == IF Attr[r].width = 0 THEN DefaultWidth ELSE Attr[r].width
  <2>2. one \in Nat
    BY <2>1
  <2>3. Width(r) = Attr[r].mult * one
    BY DEF Width
  <2> HIDE DEF one
  <2> QED
    BY <2>1, <2>2, <2>3
<1>5. Total([k \in DOMAIN recs |-> Disks(recs[k])]) \in Nat
  <2> DEFINE f == [k \in DOMAIN recs |-> Disks(recs[k])]
  <2>1. DOMAIN f = DOMAIN recs /\ \A k \in DOMAIN recs : f[k] \in Nat
    BY <1>1, <1>3
  <2> HIDE DEF f
  <2>2. Total(f) \in Nat
    BY <1>2, <2>1, TotalNat
  <2> QED
    BY <2>2 DEF f
<1>6. Total([k \in DOMAIN recs |-> Width(recs[k])]) \in Nat
  <2> DEFINE f == [k \in DOMAIN recs |-> Width(recs[k])]
  <2>1. DOMAIN f = DOMAIN recs /\ \A k \in DOMAIN recs : f[k] \in Nat
    BY <1>1, <1>4
  <2> HIDE DEF f
  <2>2. Total(f) \in Nat
    BY <1>2, <2>1, TotalNat
  <2> QED
    BY <2>2 DEF f
<1>7. org.density \in {"count", "disks", "width"}
  BY OrgParts DEF Density
<1> QED
  BY <1>1, <1>5, <1>6, <1>7 DEF WidthOf

(* The elements of a list that divides the order are made of its records.    *)
LEMMA ElementRecords ==
  ASSUME Given, NEW list, Len(list) \in Nat, NEW lo, NEW hi, Divides(list, lo, hi), NEW k \in 1 .. Len(list)
  PROVE  /\ list[k].recs \in Seq(Kept) /\ list[k].width \in Nat
         /\ lo[k] \in 1 .. Len(InOrder) /\ hi[k] \in lo[k] .. Len(InOrder)
         /\ Len(list[k].recs) = hi[k] - lo[k] + 1 /\ DOMAIN list[k].recs = 1 .. hi[k] - lo[k] + 1
         /\ \A j \in 1 .. hi[k] - lo[k] + 1 : list[k].recs[j] = InOrder[lo[k] + j - 1]
<1>1. /\ Len(InOrder) \in Nat /\ InOrder \in Seq(Kept) /\ \A j \in 1 .. Len(InOrder) : InOrder[j] \in Kept
  BY OrderOfKept, ElementOfSeq
<1>2. /\ lo[k] \in 1 .. Len(InOrder) /\ hi[k] \in lo[k] .. Len(InOrder)
      /\ list[k].recs = SubSeq(InOrder, lo[k], hi[k]) /\ list[k].width = WidthOf(list[k].recs)
  BY DEF Divides
<1> DEFINE recs == SubSeq(InOrder, lo[k], hi[k])
<1>3. /\ recs \in Seq(Kept) /\ Len(recs) = hi[k] - lo[k] + 1
      /\ \A j \in 1 .. hi[k] - lo[k] + 1 : recs[j] = InOrder[lo[k] + j - 1]
  <2>1. lo[k] \in Int /\ hi[k] \in Int /\ \A h \in lo[k] .. hi[k] : InOrder[h] \in Kept
    BY <1>1, <1>2
  <2> QED
    BY <1>2, <2>1, SubSeqProperties
<1> HIDE DEF recs
<1>4. DOMAIN recs = 1 .. hi[k] - lo[k] + 1 /\ WidthOf(recs) \in Nat
  BY <1>3, LenProperties, WidthNat
<1> QED
  BY <1>2, <1>3, <1>4 DEF recs

----------------------------------------------------------------------------
(* BuildSnapshot.                                                            *)

(* The order and the groups are those of the organisation and the folders.   *)
LEMMA SameOrder ==
  ASSUME UNCHANGED <<org, folderOf>>
  PROVE  /\ Kept' = Kept /\ InOrder' = InOrder /\ OrdList' = OrdList /\ Spill' = Spill
         /\ \A recs : WidthOf(recs)' = WidthOf(recs)
<1>1. Kept' = Kept /\ Spill' = Spill
  BY DEF Kept, Spill
<1>2. InOrder' = InOrder
  BY DEF InOrder, Rank, Late, SortAt, At, SetOf, Kept
<1>3. \A r : ByCatno(r)' = ByCatno(r) /\ Disks(r)' = Disks(r)
  BY DEF ByCatno, Disks, SetOf
<1>4. DefaultWidth' = DefaultWidth
  BY <1>1 DEF DefaultWidth
<1>5. \A r : Width(r)' = Width(r)
  BY <1>4 DEF Width
<1>6. \A recs : WidthOf(recs)' = WidthOf(recs)
  BY <1>3, <1>5 DEF WidthOf
<1>7. \A recs : Fits(recs)' = Fits(recs)
  BY <1>6 DEF Fits
<1>8. \A order, k : Joins(order, k)' = Joins(order, k) /\ CurrLabel(order, k)' = CurrLabel(order, k)
  BY <1>3 DEF Joins, CurrLabel
<1>9. \A order, k : GroupOf(order, k)' = GroupOf(order, k)
  BY <1>8 DEF GroupOf, First, Final
<1>10. \A order, k : GroupId(order, k)' = GroupId(order, k)
  BY <1>3, <1>8 DEF GroupId, Now
<1>11. \A order, k : ElementAt(order, k)' = ElementAt(order, k)
  BY <1>6, <1>7, <1>9, <1>10 DEF ElementAt, Element, Iid
<1>12. \A order : Starts(order)' = Starts(order)
  BY <1>7, <1>8, <1>9 DEF Starts
<1>13. OrdList' = OrdList
  <2> DEFINE starts == Starts(InOrder)
             elements == [k \in starts |-> ElementAt(InOrder, k)]
  <2>1. starts' = starts
    BY <1>2, <1>12
  <2>2. elements' = elements
    <3>1. \A k : ElementAt(InOrder, k)' = ElementAt(InOrder, k)
      BY <1>2, <1>11
    <3> HIDE DEF starts
    <3> QED
      BY <2>1, <3>1
  <2>3. OrdList = Subsequence(elements, starts)
    BY DEF OrdList
  <2>4. OrdList' = Subsequence(elements', starts')
    BY DEF OrdList
  <2> HIDE DEF starts, elements
  <2> QED
    BY <2>1, <2>2, <2>3, <2>4
<1> QED
  BY <1>1, <1>2, <1>6, <1>13

(* What the variables hold while a snapshot is built: the groups are those   *)
(* of the organisation, and only the look-ahead of an organisation that has  *)
(* one tries a group.                                                        *)
BuildTypes ==
  /\ Given
  /\ pc \in {"start", "place", "built", "compared", "order", "done"}
  /\ slot \in 1 .. Spill /\ unit \in 1 .. Units(slot)
  /\ pc = "start" => NoBuild
  /\ pc # "start" => ord = OrdList
  /\ i \in Nat \ {0} /\ ahead \in Nat
  /\ (~ org.spill => ahead = 0) /\ (ahead # 0 => slot # Spill)
  /\ placed \subseteq {ord[k].id : k \in DOMAIN ord}
  /\ changed \in 0 .. MaxChange

(* Groups are made of records of the organisation, and have a width.         *)
LEMMA TypesGiveTypeOK == BuildTypes => TypeOK
<1> SUFFICES ASSUME BuildTypes
             PROVE  TypeOK
  OBVIOUS
<1>1. ASSUME NEW k \in DOMAIN ord
      PROVE  ord[k].width \in Nat /\ ToSet(ord[k].recs) \subseteq Kept
  <2>1. CASE pc = "start"
    BY <1>1, <2>1 DEF BuildTypes, NoBuild
  <2>2. CASE pc # "start"
    <3>1. ord = OrdList /\ Given
      BY <2>2 DEF BuildTypes
    <3>2. /\ Len(ord) \in Nat /\ DOMAIN ord = 1 .. Len(ord)
          /\ \E lo, hi : Divides(ord, lo, hi)
      BY <3>1, OrdListDivides
    <3>3. PICK lo, hi : Divides(ord, lo, hi)
      BY <3>2
    <3>4. ord[k].recs \in Seq(Kept) /\ ord[k].width \in Nat
      BY <1>1, <3>1, <3>2, <3>3, ElementRecords
    <3>5. ToSet(ord[k].recs) \subseteq Kept
      BY <3>4, LenProperties, ElementOfSeq DEF ToSet
    <3> QED
      BY <3>4, <3>5
  <2> QED
    BY <2>1, <2>2
<1> QED
  BY <1>1 DEF BuildTypes, TypeOK, Given

(* A space has a unit.                                                       *)
LEMMA UnitsThere ==
  ASSUME Given, NEW s \in 1 .. Spill
  PROVE  Spill \in Nat \ {0} /\ Units(s) \in Nat \ {0}
<1>1. Len(org.spaces) \in Nat /\ org.spaces \in Seq(Space)
  BY OrgParts
<1>2. CASE s = Spill
  BY <1>1, <1>2 DEF Spill, Units
<1>3. CASE s # Spill
  <2>1. s \in 1 .. Len(org.spaces)
    BY <1>1, <1>3 DEF Spill
  <2>2. org.spaces[s] \in Space
    BY <1>1, <2>1, ElementOfSeq
  <2> QED
    BY <1>1, <1>3, <2>2 DEF Units, Spill, Space
<1> QED
  BY <1>2, <1>3

(* Every step keeps the types.                                               *)
LEMMA StepTypes == BuildTypes /\ [Next]_vars => BuildTypes'
<1> SUFFICES ASSUME BuildTypes, [Next]_vars
             PROVE  BuildTypes'
  OBVIOUS
<1>1. ASSUME UNCHANGED <<org, folderOf>>
      PROVE  Given' /\ OrdList' = OrdList /\ Spill' = Spill
  BY <1>1, SameOrder DEF BuildTypes, Given
<1>2. ASSUME UNCHANGED <<org, slot, unit>>
      PROVE  unit' \in 1 .. Units(slot)' /\ slot' \in 1 .. Spill'
  BY <1>2 DEF BuildTypes, Units, Spill
<1>3. Spill \in Nat \ {0} /\ \A s \in 1 .. Spill : Units(s) \in Nat \ {0}
  BY UnitsThere DEF BuildTypes
<1>4. CASE Start
  <2>1. BuildTypes /\ NoBuild
    BY <1>4 DEF Start, BuildTypes
  <2>2. placed' \subseteq {ord'[k].id : k \in DOMAIN ord'}
    BY <1>4, <2>1 DEF Start, NoBuild
  <2> QED
    BY <1>1, <1>2, <1>4, <2>1, <2>2 DEF Start, BuildTypes
<1>5. CASE Skip
  BY <1>1, <1>2, <1>5 DEF Skip, BuildTypes
<1>6. CASE LookAhead
  <2>1. ahead' = i + 1 /\ org.spill /\ slot # Spill
    BY <1>6 DEF LookAhead, Full, Room
  <2> QED
    BY <1>1, <1>2, <1>6, <2>1 DEF LookAhead, Full, BuildTypes
<1>7. ASSUME NEW k \in 1 .. Len(ord), pc = "place", Put(k)
      PROVE  placed' \subseteq {ord[h].id : h \in DOMAIN ord}
  <2>1. DOMAIN ord = 1 .. Len(ord)
    BY <1>7, OrdListDivides DEF BuildTypes
  <2> QED
    BY <1>7, <2>1 DEF Put, BuildTypes
<1>8. CASE Place
  <2>1. i \in 1 .. Len(ord) /\ pc = "place" /\ Put(i)
    <3>1. Len(ord) \in Nat
      BY <1>8, OrdListDivides DEF BuildTypes, Place
    <3> QED
      BY <1>8, <3>1 DEF Place, BuildTypes
  <2>2. placed' \subseteq {ord[h].id : h \in DOMAIN ord}
    BY <1>7, <2>1
  <2> QED
    BY <1>1, <1>2, <1>8, <2>2 DEF Place, BuildTypes
<1>9. CASE Fill
  <2>1. Edge \in Int /\ Edge <= Len(ord) /\ Len(ord) \in Nat
    <3>1. Len(ord) \in Nat /\ org.look \in Int
      BY <1>9, OrdListDivides, OrgParts DEF BuildTypes, Fill
    <3> QED
      BY <3>1 DEF Edge, BuildTypes
  <2>2. ahead \in 1 .. Len(ord) /\ pc = "place" /\ ahead' = ahead + 1
    BY <1>9, <2>1 DEF Fill
  <2>3. placed' \subseteq {ord[h].id : h \in DOMAIN ord}
    <3>1. CASE Room(ord[ahead].width)
      BY <1>7, <1>9, <2>2, <3>1 DEF Fill
    <3>2. CASE ~ Room(ord[ahead].width)
      BY <1>9, <3>2 DEF Fill, BuildTypes
    <3> QED
      BY <3>1, <3>2
  <2> QED
    BY <1>1, <1>2, <1>9, <2>2, <2>3 DEF Fill, BuildTypes
<1>10. CASE NextUnit
  <2>1. slot \in 1 .. Spill /\ unit \in 1 .. Units(slot) /\ slot # Spill
    BY <1>10 DEF NextUnit, UnitOver, Full, Room, BuildTypes
  <2>2. UNCHANGED <<org, folderOf>> /\ \A s : Units(s)' = Units(s)
    BY <1>10 DEF NextUnit, Units, Spill
  <2>3. slot' \in 1 .. Spill /\ unit' \in 1 .. Units(slot')
    <3>1. CASE unit + 1 > Units(slot)
      <4>1. unit' = 1 /\ slot' = slot + 1
        BY <1>10, <3>1 DEF NextUnit
      <4>2. slot' \in 1 .. Spill
        BY <1>3, <2>1, <4>1
      <4> QED
        BY <1>3, <4>1, <4>2
    <3>2. CASE ~ (unit + 1 > Units(slot))
      <4>1. unit' = unit + 1 /\ slot' = slot
        BY <1>10, <3>2 DEF NextUnit
      <4> QED
        BY <1>3, <2>1, <3>2, <4>1
    <3> QED
      BY <3>1, <3>2
  <2>4. slot' \in 1 .. Spill' /\ unit' \in 1 .. Units(slot)'
    BY <1>1, <2>2, <2>3 DEF Units, Spill
  <2>5. pc = "place" /\ pc' = "place" /\ ahead' = 0 /\ UNCHANGED <<i, ord, placed, changed>>
    BY <1>10 DEF NextUnit, UnitOver
  <2> QED
    BY <1>1, <2>2, <2>4, <2>5 DEF BuildTypes
<1>11. CASE Expand
  BY <1>1, <1>2, <1>11 DEF Expand, BuildTypes
<1>12. CASE Compare \/ FindFree \/ OrderNext \/ OrderRest
  <2>1. UNCHANGED <<org, folderOf, builder, changed>> /\ pc # "start" /\ pc' \in {"compared", "order", "done"}
    BY <1>12 DEF Compare, FindFree, OrderNext, OrderRest, BuildTypes
  <2> QED
    BY <1>1, <1>2, <2>1 DEF builder, BuildTypes
<1>13. CASE Remember
  <2>1. UNCHANGED <<org, folderOf, changed>> /\ NoBuild' /\ pc' = "start"
    BY <1>13 DEF Remember, NoBuild
  <2>2. slot' = 1 /\ unit' = 1 /\ i' = 1 /\ ahead' = 0 /\ placed' = {}
    BY <2>1 DEF NoBuild
  <2>3. slot' \in 1 .. Spill' /\ unit' \in 1 .. Units(slot)'
    <3>1. 1 \in 1 .. Spill /\ 1 \in 1 .. Units(1)
      BY <1>3
    <3> QED
      BY <2>1, <2>2, <3>1 DEF Units, Spill
  <2> QED
    BY <1>1, <2>1, <2>2, <2>3 DEF BuildTypes
<1>14. CASE \E r \in Record, folder \in Folder : ChangeFolder(r, folder)
  <2>1. PICK r \in Record, folder \in Folder : ChangeFolder(r, folder)
    BY <1>14
  <2>2. UNCHANGED <<org, builder>> /\ pc = "start" /\ pc' = "start" /\ folderOf' \in [Record -> Folder]
        /\ changed' \in 0 .. MaxChange
    BY <2>1, ConstantsAssumption DEF ChangeFolder, BuildTypes, Given
  <2>3. Given'
    BY <2>2 DEF Given, BuildTypes
  <2>4. NoBuild'
    BY <2>2 DEF NoBuild, builder, BuildTypes
  <2>5. Spill' = Spill
    BY <2>2 DEF Spill
  <2> QED
    BY <1>2, <2>2, <2>3, <2>4, <2>5 DEF builder, BuildTypes
<1>15. CASE UNCHANGED vars
  <2>1. UNCHANGED <<org, folderOf, pc, builder, changed>>
    BY <1>15 DEF vars
  <2> QED
    BY <1>1, <1>2, <2>1 DEF builder, BuildTypes, NoBuild
<1> QED
  BY <1>4, <1>5, <1>6, <1>8, <1>9, <1>10, <1>11, <1>12, <1>13, <1>14, <1>15 DEF Next, PlaceNext

(* A build that has not begun is typed.                                      *)
LEMMA InitTypes == Init => BuildTypes
<1> SUFFICES ASSUME Init
             PROVE  BuildTypes
  OBVIOUS
<1>1. Given /\ NoBuild /\ pc = "start" /\ changed = 0
  BY DEF Init, Given
<1>2. 1 \in 1 .. Spill /\ 1 \in 1 .. Units(1)
  <2>1. 1 \in 1 .. Spill
    BY <1>1, OrgParts DEF Spill
  <2> QED
    BY <1>1, <2>1, UnitsThere
<1>3. slot = 1 /\ unit = 1 /\ i = 1 /\ ahead = 0 /\ placed = {}
  BY <1>1 DEF NoBuild
<1> QED
  BY <1>1, <1>2, <1>3, ConstantsAssumption DEF BuildTypes

(* Shelving keeps its types: the groups are made of records of the           *)
(* organisation whatever its folder sets and sorts, and no step leaves the   *)
(* units there are.                                                          *)
THEOREM ShelvingTypeCorrect == Spec => []TypeOK
<1>1. Init => BuildTypes
  BY InitTypes
<1>2. BuildTypes /\ [Next]_vars => BuildTypes'
  BY StepTypes
<1>3. BuildTypes => TypeOK
  BY TypesGiveTypeOK
<1> QED
  BY <1>1, <1>2, <1>3, PTL DEF Spec

(* Pairs go by the first number, then by the second.                         *)
LEMMA PairLess ==
  ASSUME NEW a, NEW b, NEW c, NEW d
  PROVE  LexLess(<<a, b>>, <<c, d>>) <=> a < c \/ (a = c /\ b < d)
<1>1. DOMAIN <<a, b>> = 1 .. 2 /\ 1 \in 1 .. 2 /\ 2 \in 1 .. 2 /\ 1 .. 1 - 1 = {} /\ 1 .. 2 - 1 = {1}
  OBVIOUS
<1>2. <<a, b>>[1] = a /\ <<a, b>>[2] = b /\ <<c, d>>[1] = c /\ <<c, d>>[2] = d
  OBVIOUS
<1>3. \A k \in 1 .. 2 : k = 1 \/ k = 2
  OBVIOUS
<1> QED
  BY <1>1, <1>2, <1>3 DEF LexLess

(* What is placed are groups, the ones before i among them.                  *)
Placing ==
  /\ i <= Len(ord) + 1
  /\ layout \in Seq([id : {ord[k].id : k \in DOMAIN ord}, space : Nat, unit : Nat])
  /\ placed = {layout[k].id : k \in DOMAIN layout}
  /\ \A k \in 1 .. i - 1 : ord[k].id \in placed

(* Without a look-ahead no group is placed twice and none before another     *)
(* that comes earlier.                                                       *)
InTurn ==
  /\ \A k, l \in 1 .. Len(layout) : k < l =>
       layout[k].id # layout[l].id /\ ~ LexLess(SlotOf(layout[l]), SlotOf(layout[k]))
  /\ \A k \in 1 .. Len(layout) : ~ LexLess(<<slot, unit>>, SlotOf(layout[k]))
  /\ ~ Clash => Len(layout) = i - 1 /\ \A k \in 1 .. i - 1 : layout[k].id = ord[k].id

PlaceInv == BuildTypes /\ (pc = "place" => Placing /\ (~ org.spill => InTurn))

(* Placing a group adds it at the end of the placements.                     *)
LEMMA PutAppends ==
  ASSUME BuildTypes, pc = "place", Placing, NEW k \in 1 .. Len(ord), Put(k), UNCHANGED ord
  PROVE  /\ layout' \in Seq([id : {ord[h].id : h \in DOMAIN ord}, space : Nat, unit : Nat])
         /\ placed' = {layout'[h].id : h \in DOMAIN layout'} /\ placed \subseteq placed' /\ ord[k].id \in placed'
         /\ Len(layout) \in Nat /\ DOMAIN layout = 1 .. Len(layout) /\ Len(layout') = Len(layout) + 1
         /\ layout'[Len(layout) + 1] = [id |-> ord[k].id, space |-> slot, unit |-> unit]
         /\ \A h \in 1 .. Len(layout) : layout'[h] = layout[h]
<1> DEFINE G == [id : {ord[h].id : h \in DOMAIN ord}, space : Nat, unit : Nat]
           new == [id |-> ord[k].id, space |-> slot, unit |-> unit]
           n == Len(layout)
<1>1. slot \in Nat /\ unit \in Nat
  <2>1. Spill \in Nat /\ Units(slot) \in Nat /\ slot \in 1 .. Spill /\ unit \in 1 .. Units(slot)
    BY UnitsThere DEF BuildTypes
  <2> QED
    BY <2>1
<1>2. DOMAIN ord = 1 .. Len(ord)
  BY OrdListDivides DEF BuildTypes
<1>3. new \in G
  BY <1>1, <1>2
<1>4. layout \in Seq(G) /\ layout' = Append(layout, new) /\ placed' = placed \cup {ord[k].id}
  BY DEF Placing, Put
<1>5. new.id = ord[k].id
  OBVIOUS
<1> HIDE DEF G, new
<1>6. /\ layout' \in Seq(G) /\ Len(layout') = n + 1 /\ layout'[n + 1] = new
      /\ \A h \in 1 .. n : layout'[h] = layout[h]
      /\ n \in Nat /\ DOMAIN layout = 1 .. n /\ DOMAIN layout' = 1 .. n + 1
  BY <1>3, <1>4, LenProperties
<1>7. placed = {layout[h].id : h \in 1 .. n}
  BY <1>6 DEF Placing
<1>8. placed' = {layout'[h].id : h \in 1 .. n + 1}
  <2>1. \A h \in 1 .. n + 1 : h \in 1 .. n \/ h = n + 1
    BY <1>6
  <2>2. 1 .. n \subseteq 1 .. n + 1 /\ n + 1 \in 1 .. n + 1
    BY <1>6
  <2> HIDE DEF n
  <2> QED
    BY <1>4, <1>5, <1>6, <1>7, <2>1, <2>2
<1> QED
  BY <1>4, <1>6, <1>8 DEF G, new

(* Every step keeps the order of the placements.                             *)
LEMMA StepPlaces == PlaceInv /\ [Next]_vars => PlaceInv'
<1> SUFFICES ASSUME PlaceInv, [Next]_vars
             PROVE  PlaceInv'
  OBVIOUS
<1>1. BuildTypes /\ BuildTypes'
  BY StepTypes DEF PlaceInv
<1>2. pc = "place" => Len(ord) \in Nat /\ DOMAIN ord = 1 .. Len(ord) /\ i \in Nat \ {0}
  BY <1>1, OrdListDivides DEF BuildTypes
<1>3. slot \in Nat /\ unit \in Nat
  <2>1. Spill \in Nat /\ Units(slot) \in Nat /\ slot \in 1 .. Spill /\ unit \in 1 .. Units(slot)
    BY <1>1, UnitsThere DEF BuildTypes
  <2> QED
    BY <2>1
<1>4. ASSUME pc = "place", UNCHANGED <<org, ord, i, slot, unit, placed, layout>>
      PROVE  PlaceInv'
  BY <1>1, <1>4 DEF PlaceInv, Placing, InTurn, Clash, SlotOf
<1>5. CASE pc' # "place"
  BY <1>1, <1>5 DEF PlaceInv
<1>6. CASE Start
  <2>1. layout' = <<>> /\ placed' = {} /\ i' = 1
    BY <1>1, <1>6 DEF Start, BuildTypes, NoBuild
  <2>2. Len(layout') = 0 /\ DOMAIN layout' = {} /\ Len(ord') \in Nat
    <3>1. ord' = OrdList
      BY <1>6 DEF Start
    <3> QED
      BY <1>1, <2>1, <3>1, OrdListDivides DEF BuildTypes
  <2> QED
    BY <1>1, <2>1, <2>2 DEF PlaceInv, Placing, InTurn
<1>7. CASE Skip
  <2>1. pc = "place" /\ i <= Len(ord) /\ ord[i].id \in placed /\ i' = i + 1
        /\ UNCHANGED <<org, ord, slot, unit, placed, layout>>
    BY <1>7 DEF Skip
  <2>2. Placing /\ (~ org.spill => InTurn)
    BY <2>1 DEF PlaceInv
  <2>3. Placing'
    <3>1. \A k \in 1 .. i' - 1 : ord[k].id \in placed
      <4>1. \A k \in 1 .. i' - 1 : k \in 1 .. i - 1 \/ k = i
        BY <1>2, <2>1
      <4> QED
        BY <2>1, <2>2, <4>1 DEF Placing
    <3> QED
      BY <1>2, <2>1, <2>2, <3>1 DEF Placing
  <2>4. ASSUME ~ org.spill
        PROVE  Clash
    <3>1. PICK k \in DOMAIN layout : layout[k].id = ord[i].id
      BY <2>1, <2>2 DEF Placing
    <3>2. DOMAIN layout = 1 .. Len(layout)
      BY <2>2, LenProperties DEF Placing
    <3>3. ~ Clash => k \in 1 .. i - 1 /\ ord[k].id = ord[i].id
      BY <2>2, <2>4, <3>1, <3>2 DEF InTurn
    <3> QED
      BY <1>2, <2>1, <3>3 DEF Clash
  <2>5. ~ org.spill => InTurn'
    BY <2>1, <2>2, <2>4 DEF InTurn, Clash, SlotOf
  <2> QED
    BY <1>1, <2>1, <2>3, <2>5 DEF PlaceInv
<1>8. CASE Place
  <2>1. pc = "place" /\ i \in 1 .. Len(ord) /\ ord[i].id \notin placed /\ i' = i + 1 /\ Put(i)
        /\ UNCHANGED <<org, ord, slot, unit>>
    BY <1>2, <1>8 DEF Place
  <2>2. Placing /\ (~ org.spill => InTurn)
    BY <2>1 DEF PlaceInv
  <2> DEFINE n == Len(layout)
             new == [id |-> ord[i].id, space |-> slot, unit |-> unit]
  <2>3. /\ layout' \in Seq([id : {ord[h].id : h \in DOMAIN ord}, space : Nat, unit : Nat])
        /\ placed' = {layout'[h].id : h \in DOMAIN layout'} /\ placed \subseteq placed' /\ ord[i].id \in placed'
        /\ n \in Nat /\ DOMAIN layout = 1 .. n /\ Len(layout') = n + 1
        /\ layout'[n + 1] = new /\ \A h \in 1 .. n : layout'[h] = layout[h]
    BY <1>1, <2>1, <2>2, PutAppends
  <2>4. Placing'
    <3>1. \A k \in 1 .. i' - 1 : ord[k].id \in placed'
      <4>1. \A k \in 1 .. i' - 1 : k \in 1 .. i - 1 \/ k = i
        BY <1>2, <2>1
      <4> QED
        BY <2>1, <2>2, <2>3, <4>1 DEF Placing
    <3>2. i' <= Len(ord) + 1
      BY <1>2, <2>1
    <3> QED
      BY <2>1, <2>3, <3>1, <3>2 DEF Placing
  <2>5. ASSUME ~ org.spill
        PROVE  InTurn'
    <3>1. new.id = ord[i].id /\ SlotOf(new) = <<slot, unit>>
      BY DEF SlotOf
    <3>2. \A h \in 1 .. n : layout[h].id # ord[i].id
      BY <2>1, <2>2, <2>3 DEF Placing
    <3> HIDE DEF n, new
    <3>3. \A k \in 1 .. n + 1 : k \in 1 .. n \/ k = n + 1
      BY <2>3
    <3>4. \A k, l \in 1 .. n + 1 : k < l =>
            layout'[k].id # layout'[l].id /\ ~ LexLess(SlotOf(layout'[l]), SlotOf(layout'[k]))
      <4> SUFFICES ASSUME NEW k \in 1 .. n + 1, NEW l \in 1 .. n + 1, k < l
                   PROVE  layout'[k].id # layout'[l].id /\ ~ LexLess(SlotOf(layout'[l]), SlotOf(layout'[k]))
        OBVIOUS
      <4>1. k \in 1 .. n /\ layout'[k] = layout[k]
        BY <2>3
      <4>2. CASE l \in 1 .. n
        BY <2>2, <2>3, <2>5, <4>1, <4>2 DEF InTurn, n
      <4>3. CASE l = n + 1
        BY <2>2, <2>3, <2>5, <3>1, <3>2, <4>1, <4>3 DEF InTurn, n
      <4> QED
        BY <3>3, <4>2, <4>3
    <3>5. \A k \in 1 .. n + 1 : ~ LexLess(<<slot, unit>>, SlotOf(layout'[k]))
      <4> TAKE k \in 1 .. n + 1
      <4>1. CASE k \in 1 .. n
        BY <2>2, <2>3, <2>5, <4>1 DEF InTurn, n
      <4>2. CASE k = n + 1
        BY <1>3, <2>3, <3>1, <4>2, PairLess
      <4> QED
        BY <3>3, <4>1, <4>2
    <3>6. ASSUME ~ Clash
          PROVE  n + 1 = i' - 1 /\ \A k \in 1 .. i' - 1 : layout'[k].id = ord[k].id
      <4>1. n = i - 1 /\ \A k \in 1 .. i - 1 : layout[k].id = ord[k].id
        BY <2>2, <2>5, <3>6 DEF InTurn, n
      <4>2. \A k \in 1 .. i' - 1 : k \in 1 .. i - 1 \/ k = i
        BY <1>2, <2>1
      <4>3. n + 1 = i /\ i' - 1 = i
        BY <1>2, <2>1, <4>1
      <4>4. layout'[i].id = ord[i].id
        BY <2>3, <3>1, <4>3
      <4> QED
        BY <2>3, <4>1, <4>2, <4>3, <4>4
    <3> QED
      BY <2>1, <2>3, <3>4, <3>5, <3>6 DEF InTurn, Clash, SlotOf
  <2> QED
    BY <1>1, <2>1, <2>4, <2>5 DEF PlaceInv
<1>9. CASE LookAhead
  BY <1>4, <1>9 DEF LookAhead, Full
<1>10. CASE Fill
  <2>1. pc = "place" /\ UNCHANGED <<org, ord, i, slot, unit>>
    BY <1>10 DEF Fill
  <2>2. org.spill
    BY <1>10, <1>1 DEF Fill, BuildTypes
  <2>3. CASE ~ Room(ord[ahead].width)
    BY <1>4, <1>10, <2>1, <2>3 DEF Fill
  <2>4. CASE Room(ord[ahead].width)
    <3>1. ahead \in 1 .. Len(ord) /\ Put(ahead)
      <4>1. org.look \in Int
        BY <1>1, OrgParts DEF BuildTypes
      <4>2. Edge \in Int /\ Edge <= Len(ord)
        BY <1>2, <2>1, <4>1 DEF Edge
      <4> QED
        BY <1>2, <1>10, <2>1, <2>4, <4>2 DEF Fill
    <3>2. Placing
      BY <2>1 DEF PlaceInv
    <3>3. /\ layout' \in Seq([id : {ord[h].id : h \in DOMAIN ord}, space : Nat, unit : Nat])
          /\ placed' = {layout'[h].id : h \in DOMAIN layout'} /\ placed \subseteq placed'
      BY <1>1, <2>1, <3>1, <3>2, PutAppends
    <3>4. Placing'
      BY <2>1, <3>2, <3>3 DEF Placing
    <3> QED
      BY <1>1, <2>1, <2>2, <3>4 DEF PlaceInv
  <2> QED
    BY <2>3, <2>4
<1>11. CASE NextUnit
  <2>1. pc = "place" /\ UNCHANGED <<org, ord, i, placed, layout>>
    BY <1>11 DEF NextUnit, UnitOver
  <2>2. Placing /\ (~ org.spill => InTurn)
    BY <2>1 DEF PlaceInv
  <2>3. Placing'
    BY <2>1, <2>2 DEF Placing
  <2>4. slot' \in Nat /\ unit' \in Nat /\ (slot < slot' \/ (slot = slot' /\ unit < unit'))
    BY <1>3, <1>11 DEF NextUnit
  <2>5. ASSUME ~ org.spill
        PROVE  InTurn'
    <3>1. \A k \in 1 .. Len(layout) : ~ LexLess(<<slot', unit'>>, SlotOf(layout[k]))
      <4> TAKE k \in 1 .. Len(layout)
      <4>1. layout[k].space \in Nat /\ layout[k].unit \in Nat
        <5>1. layout[k] \in [id : {ord[h].id : h \in DOMAIN ord}, space : Nat, unit : Nat]
          BY <2>2, ElementOfSeq DEF Placing
        <5> QED
          BY <5>1
      <4>2. ~ LexLess(<<slot, unit>>, SlotOf(layout[k]))
        BY <2>2, <2>5 DEF InTurn
      <4> QED
        BY <1>3, <2>4, <4>1, <4>2, PairLess DEF SlotOf
    <3> QED
      BY <2>1, <2>2, <2>5, <3>1 DEF InTurn, Clash, SlotOf
  <2> QED
    BY <1>1, <2>1, <2>3, <2>5 DEF PlaceInv
<1>12. CASE Expand \/ Compare \/ FindFree \/ OrderNext \/ OrderRest \/ Remember
  BY <1>5, <1>12 DEF Expand, Compare, FindFree, OrderNext, OrderRest, Remember
<1>13. CASE \E r \in Record, folder \in Folder : ChangeFolder(r, folder)
  BY <1>5, <1>13 DEF ChangeFolder
<1>14. CASE UNCHANGED vars
  BY <1>4, <1>5, <1>14 DEF vars, builder
<1> QED
  BY <1>6, <1>7, <1>8, <1>9, <1>10, <1>11, <1>12, <1>13, <1>14 DEF Next, PlaceNext

----------------------------------------------------------------------------
(* A finished snapshot.                                                      *)

(* The last element with an id is the one its placements are expanded to.    *)
Owner(id) == Max({k \in DOMAIN ord : ord[k].id = id})

LEMMA OwnerHas ==
  ASSUME Len(ord) \in Nat, DOMAIN ord = 1 .. Len(ord), NEW e \in 1 .. Len(ord)
  PROVE  /\ Owner(ord[e].id) \in 1 .. Len(ord) /\ ord[Owner(ord[e].id)].id = ord[e].id
         /\ Members(ord[e].id) = ord[Owner(ord[e].id)].recs
         /\ ~ Clash => Owner(ord[e].id) = e
<1> DEFINE with == {k \in DOMAIN ord : ord[k].id = ord[e].id}
<1>1. with \in SUBSET (1 .. Len(ord)) /\ e \in with
  OBVIOUS
<1>2. Owner(ord[e].id) = Max(with) /\ Members(ord[e].id) = ord[Max(with)].recs
  BY DEF Owner, Members
<1>3. Max(with) \in with
  <2>1. with \in SUBSET Int /\ IsFiniteSet(with) /\ with # {}
    BY <1>1, PlacesFinite
  <2> HIDE DEF with
  <2> QED
    BY <2>1, MaxIsLargest
<1> QED
  BY <1>1, <1>2, <1>3 DEF Clash

(* The expanded placements E: the place n comes from the placement g[n] and  *)
(* holds the record at q[n] of the order.                                    *)
Stands(E, g, q, lo, hi) ==
  /\ E \in Seq([r : Kept, space : Nat, unit : Nat])
  /\ g \in [1 .. Len(E) -> 1 .. Len(layout)] /\ q \in [1 .. Len(E) -> 1 .. Len(InOrder)]
  /\ \A n \in 1 .. Len(E) :
       /\ E[n].r = InOrder[q[n]] /\ SlotOf(E[n]) = SlotOf(layout[g[n]])
       /\ q[n] \in lo[Owner(layout[g[n]].id)] .. hi[Owner(layout[g[n]].id)]
  /\ \A k \in 1 .. Len(layout) : \A p \in lo[Owner(layout[k].id)] .. hi[Owner(layout[k].id)] :
       \E n \in 1 .. Len(E) : g[n] = k /\ q[n] = p
  /\ \A n, m \in 1 .. Len(E) : n < m => g[n] < g[m] \/ (g[n] = g[m] /\ q[n] < q[m])

(* Expanding the placements keeps their order and that of their records.     *)
LEMMA ExpandedStands ==
  ASSUME PlaceInv, pc = "place", NEW lo, NEW hi, Divides(ord, lo, hi)
  PROVE  \E g, q : Stands(Expanded, g, q, lo, hi)
<1> DEFINE L == Len(layout)
           own(k) == Owner(layout[k].id)
           rec(k) == Members(layout[k].id)
           places == UNION {{k} \X DOMAIN Members(layout[k].id) : k \in DOMAIN layout}
           N == Cardinality(places)
           sorted == Ascending(places)
<1>1. /\ Given /\ Placing /\ Len(ord) \in Nat /\ DOMAIN ord = 1 .. Len(ord)
  BY OrdListDivides DEF PlaceInv, BuildTypes
<1>2. /\ L \in Nat /\ DOMAIN layout = 1 .. L
      /\ \A k \in 1 .. L : layout[k].space \in Nat /\ layout[k].unit \in Nat
                           /\ \E e \in 1 .. Len(ord) : layout[k].id = ord[e].id
  <2>1. layout \in Seq([id : {ord[k].id : k \in DOMAIN ord}, space : Nat, unit : Nat])
    BY <1>1 DEF Placing
  <2>2. \A k \in 1 .. L : layout[k] \in [id : {ord[h].id : h \in DOMAIN ord}, space : Nat, unit : Nat]
    BY <2>1, ElementOfSeq
  <2>3. \A k \in 1 .. L : layout[k].id \in {ord[h].id : h \in DOMAIN ord}
    BY <2>2
  <2>4. \A k \in 1 .. L : layout[k].space \in Nat /\ layout[k].unit \in Nat
    BY <2>2
  <2> QED
    BY <1>1, <2>1, <2>3, <2>4, LenProperties
<1>3. \A k \in 1 .. L :
        /\ own(k) \in 1 .. Len(ord)
        /\ rec(k) \in Seq(Kept) /\ lo[own(k)] \in 1 .. Len(InOrder) /\ hi[own(k)] \in lo[own(k)] .. Len(InOrder)
        /\ DOMAIN rec(k) = 1 .. hi[own(k)] - lo[own(k)] + 1
        /\ \A j \in 1 .. hi[own(k)] - lo[own(k)] + 1 : rec(k)[j] = InOrder[lo[own(k)] + j - 1]
  <2> TAKE k \in 1 .. L
  <2>1. PICK e \in 1 .. Len(ord) : layout[k].id = ord[e].id
    BY <1>2
  <2>2. own(k) \in 1 .. Len(ord) /\ rec(k) = ord[own(k)].recs
    BY <1>1, <2>1, OwnerHas
  <2> DEFINE o == own(k)
  <2> HIDE DEF own, rec
  <2>3. /\ ord[o].recs \in Seq(Kept) /\ lo[o] \in 1 .. Len(InOrder) /\ hi[o] \in lo[o] .. Len(InOrder)
        /\ DOMAIN ord[o].recs = 1 .. hi[o] - lo[o] + 1
        /\ \A j \in 1 .. hi[o] - lo[o] + 1 : ord[o].recs[j] = InOrder[lo[o] + j - 1]
    <3>1. ASSUME NEW x \in 1 .. Len(ord)
          PROVE  /\ ord[x].recs \in Seq(Kept) /\ lo[x] \in 1 .. Len(InOrder) /\ hi[x] \in lo[x] .. Len(InOrder)
                 /\ DOMAIN ord[x].recs = 1 .. hi[x] - lo[x] + 1
                 /\ \A j \in 1 .. hi[x] - lo[x] + 1 : ord[x].recs[j] = InOrder[lo[x] + j - 1]
      BY <1>1, ElementRecords
    <3>2. o \in 1 .. Len(ord)
      BY <2>2
    <3> HIDE DEF o
    <3> QED
      BY <3>1, <3>2
  <2> QED
    BY <2>2, <2>3
<1>4. Len(InOrder) \in Nat
  BY <1>1, OrderOfKept
<1>5. \A k \in 1 .. L : own(k) \in Int /\ lo[own(k)] \in Int /\ hi[own(k)] \in Int
  BY <1>3, <1>4
<1>6. \A k \in 1 .. L : \A j \in DOMAIN rec(k) : <<k, j>> \in places
  BY <1>2
<1>7. \A t \in places : t = <<t[1], t[2]>> /\ t[1] \in 1 .. L /\ t[2] \in DOMAIN rec(t[1])
  <2> SUFFICES ASSUME NEW t \in places
               PROVE  t = <<t[1], t[2]>> /\ t[1] \in 1 .. L /\ t[2] \in DOMAIN rec(t[1])
    OBVIOUS
  <2>1. PICK k \in 1 .. L : t \in {k} \X DOMAIN rec(k)
    BY <1>2
  <2> QED
    BY <2>1
<1> HIDE DEF own, rec, places
<1>8. places \in SUBSET [1 .. 2 -> Int]
  <2> SUFFICES ASSUME NEW t \in places
               PROVE  t \in [1 .. 2 -> Int]
    OBVIOUS
  <2>1. t = <<t[1], t[2]>> /\ t[1] \in 1 .. L /\ t[2] \in DOMAIN rec(t[1])
    BY <1>7
  <2>2. t[1] \in Int /\ t[2] \in Int
    BY <1>2, <1>3, <1>5, <2>1
  <2> QED
    BY <2>1, <2>2
<1>9. IsFiniteSet(places)
  <2> DEFINE n == Len(InOrder)
  <2>1. IsFiniteSet(1 .. L) /\ IsFiniteSet(1 .. n)
    BY <1>2, <1>4, FS_Interval
  <2>2. IsFiniteSet((1 .. L) \X (1 .. n))
    BY <2>1, FS_Product
  <2>3. places \in SUBSET ((1 .. L) \X (1 .. n))
    <3> SUFFICES ASSUME NEW t \in places
                 PROVE  t \in (1 .. L) \X (1 .. n)
      OBVIOUS
    <3>1. t = <<t[1], t[2]>> /\ t[1] \in 1 .. L /\ t[2] \in DOMAIN rec(t[1])
      BY <1>7
    <3>2. t[2] \in 1 .. n
      BY <1>3, <1>4, <3>1
    <3> QED
      BY <3>1, <3>2
  <2> QED
    BY <2>2, <2>3, FS_Subset
<1>10. /\ N \in Nat /\ sorted \in [1 .. N -> places]
       /\ \A t \in places : \E n \in 1 .. N : sorted[n] = t
       /\ \A n, m \in 1 .. N : n < m => LexLess(sorted[n], sorted[m])
  BY <1>8, <1>9, SortedAscends
<1> HIDE DEF N
<1>11. \A n \in 1 .. N : /\ sorted[n] = <<sorted[n][1], sorted[n][2]>>
                         /\ sorted[n][1] \in 1 .. L /\ sorted[n][2] \in DOMAIN rec(sorted[n][1])
  <2> TAKE n \in 1 .. N
  <2>1. sorted[n] \in places
    BY <1>10
  <2> QED
    BY <1>7, <2>1
<1> DEFINE E == Expanded
           g == [n \in 1 .. N |-> sorted[n][1]]
           q == [n \in 1 .. N |-> lo[own(sorted[n][1])] + sorted[n][2] - 1]
<1>12. E = [n \in 1 .. N |-> [r |-> rec(sorted[n][1])[sorted[n][2]],
                              space |-> layout[sorted[n][1]].space, unit |-> layout[sorted[n][1]].unit]]
  <2>1. DOMAIN sorted = 1 .. N
    BY <1>10
  <2>2. Expanded = [n \in DOMAIN sorted |-> [r |-> rec(sorted[n][1])[sorted[n][2]],
                              space |-> layout[sorted[n][1]].space, unit |-> layout[sorted[n][1]].unit]]
    BY DEF Expanded, places, rec
  <2> HIDE DEF sorted
  <2> QED
    BY <2>1, <2>2
<1> HIDE DEF sorted, E
<1>13. \A n \in 1 .. N :
         /\ E[n].r = InOrder[q[n]] /\ E[n].r \in Kept /\ q[n] \in lo[own(g[n])] .. hi[own(g[n])]
         /\ q[n] \in 1 .. Len(InOrder) /\ g[n] \in 1 .. L
         /\ E[n].space = layout[g[n]].space /\ E[n].unit = layout[g[n]].unit
         /\ E[n] = [r |-> E[n].r, space |-> layout[g[n]].space, unit |-> layout[g[n]].unit]
  <2> TAKE n \in 1 .. N
  <2> DEFINE k == sorted[n][1]
             j == sorted[n][2]
  <2>1. k \in 1 .. L /\ j \in DOMAIN rec(k)
    BY <1>11
  <2>2. E[n] = [r |-> rec(k)[j], space |-> layout[k].space, unit |-> layout[k].unit]
    BY <1>12
  <2>3. g[n] = k /\ q[n] = lo[own(k)] + j - 1
    OBVIOUS
  <2> HIDE DEF k, j, g, q
  <2>4. j \in 1 .. hi[own(k)] - lo[own(k)] + 1 /\ rec(k)[j] = InOrder[lo[own(k)] + j - 1] /\ rec(k) \in Seq(Kept)
    BY <1>3, <2>1
  <2>5. rec(k)[j] \in Kept
    BY <2>1, <2>4, LenProperties, ElementOfSeq
  <2>6. q[n] \in lo[own(k)] .. hi[own(k)] /\ q[n] \in 1 .. Len(InOrder)
    <3> DEFINE a == lo[own(k)]
               b == hi[own(k)]
    <3>1. a \in 1 .. Len(InOrder) /\ b \in a .. Len(InOrder) /\ j \in 1 .. b - a + 1 /\ q[n] = a + j - 1
      BY <1>3, <2>1, <2>3, <2>4
    <3> HIDE DEF a, b
    <3>2. q[n] \in a .. b /\ q[n] \in 1 .. Len(InOrder)
      BY <1>4, <3>1
    <3> QED
      BY <3>2 DEF a, b
  <2> QED
    BY <2>1, <2>2, <2>3, <2>4, <2>5, <2>6
<1>14. \A n, m \in 1 .. N : n < m => g[n] < g[m] \/ (g[n] = g[m] /\ q[n] < q[m])
  <2> SUFFICES ASSUME NEW n \in 1 .. N, NEW m \in 1 .. N, n < m
               PROVE  g[n] < g[m] \/ (g[n] = g[m] /\ q[n] < q[m])
    OBVIOUS
  <2>1. LexLess(<<sorted[n][1], sorted[n][2]>>, <<sorted[m][1], sorted[m][2]>>)
    BY <1>10, <1>11
  <2>2. sorted[n][1] < sorted[m][1] \/ (sorted[n][1] = sorted[m][1] /\ sorted[n][2] < sorted[m][2])
    BY <2>1, PairLess
  <2>3. sorted[n][2] \in Int /\ sorted[m][2] \in Int /\ lo[own(sorted[n][1])] \in Int
    BY <1>3, <1>5, <1>11
  <2> QED
    BY <2>2, <2>3
<1>15. \A k \in 1 .. L : \A p \in lo[own(k)] .. hi[own(k)] : \E n \in 1 .. N : g[n] = k /\ q[n] = p
  <2> TAKE k \in 1 .. L
  <2> TAKE p \in lo[own(k)] .. hi[own(k)]
  <2>1. p - lo[own(k)] + 1 \in DOMAIN rec(k)
    BY <1>3, <1>5
  <2>2. PICK n \in 1 .. N : sorted[n] = <<k, p - lo[own(k)] + 1>>
    BY <1>6, <1>10, <2>1
  <2>3. sorted[n][1] = k /\ sorted[n][2] = p - lo[own(k)] + 1
    BY <2>2
  <2>4. g[n] = k /\ q[n] = p
    <3>1. g[n] = sorted[n][1] /\ q[n] = lo[own(sorted[n][1])] + sorted[n][2] - 1
      OBVIOUS
    <3> HIDE DEF g, q
    <3>2. q[n] = lo[own(k)] + (p - lo[own(k)] + 1) - 1
      BY <2>3, <3>1
    <3>3. p \in Int /\ lo[own(k)] \in Int
      BY <1>5
    <3> QED
      BY <2>3, <3>1, <3>2, <3>3
  <2> QED
    BY <2>4
<1>16. Len(E) = N /\ E \in Seq([r : Kept, space : Nat, unit : Nat])
  <2> DEFINE S == [r : Kept, space : Nat, unit : Nat]
  <2>1. E \in [1 .. N -> S]
    <3>1. \A n \in 1 .. N : E[n] \in [r : Kept, space : Nat, unit : Nat]
      <4> HIDE DEF g, q
      <4> TAKE n \in 1 .. N
      <4> DEFINE x == E[n].r
                 s == layout[g[n]].space
                 u == layout[g[n]].unit
      <4>1. x \in Kept /\ s \in Nat /\ u \in Nat /\ E[n] = [r |-> x, space |-> s, unit |-> u]
        BY <1>2, <1>13
      <4> HIDE DEF x, s, u
      <4> QED
        BY <4>1
    <3> QED
      BY <1>12, <3>1
  <2> HIDE DEF S
  <2>2. Len(E) = N /\ E \in Seq(S)
    BY <1>10, <2>1
  <2> QED
    BY <2>2 DEF S
<1>17. g \in [1 .. N -> 1 .. L] /\ q \in [1 .. N -> 1 .. Len(InOrder)]
  BY <1>13
<1> HIDE DEF g, q
<1>18. Stands(E, g, q, lo, hi)
  BY <1>13, <1>14, <1>15, <1>16, <1>17 DEF Stands, SlotOf, own
<1> QED
  BY <1>18 DEF E

(* Every record stands at one place in the order.                            *)
LEMMA OrderOnce ==
  ASSUME Given, NEW a \in 1 .. Len(InOrder), NEW b \in 1 .. Len(InOrder), InOrder[a] = InOrder[b]
  PROVE  a = b
<1>1. Len(InOrder) \in Nat /\ (a < b => InOrder[a] # InOrder[b]) /\ (b < a => InOrder[b] # InOrder[a])
  BY OrderOfKept
<1> QED
  BY <1>1

(* A build that ends has placed every element, each in its turn.             *)
LEMMA ExpandStands ==
  ASSUME PlaceInv, Expand
  PROVE  /\ Given /\ Placing /\ (~ org.spill => InTurn) /\ Len(InOrder) \in Nat
         /\ Len(ord) \in Nat /\ DOMAIN ord = 1 .. Len(ord) /\ i = Len(ord) + 1
         /\ Len(layout) \in Nat /\ DOMAIN layout = 1 .. Len(layout)
         /\ \A k \in 1 .. Len(layout) : layout[k].space \in Nat /\ layout[k].unit \in Nat
                                       /\ \E e \in 1 .. Len(ord) : layout[k].id = ord[e].id
         /\ \A e \in 1 .. Len(ord) : \E k \in 1 .. Len(layout) : layout[k].id = ord[e].id
         /\ \E lo, hi, g, q : Divides(ord, lo, hi) /\ Stands(layout', g, q, lo, hi)
<1>1. pc = "place" /\ i > Len(ord) /\ layout' = Expanded
  BY DEF Expand
<1>2. Given /\ Placing /\ (~ org.spill => InTurn) /\ ord = OrdList /\ i \in Nat
  BY <1>1 DEF PlaceInv, BuildTypes
<1>3. Len(ord) \in Nat /\ DOMAIN ord = 1 .. Len(ord) /\ \E lo, hi : Divides(ord, lo, hi)
  BY <1>2, OrdListDivides
<1>4. PICK lo, hi : Divides(ord, lo, hi)
  BY <1>3
<1>5. PICK g, q : Stands(Expanded, g, q, lo, hi)
  BY <1>1, <1>4, ExpandedStands
<1>6. i = Len(ord) + 1
  BY <1>1, <1>2, <1>3 DEF Placing
<1>7. Len(layout) \in Nat /\ DOMAIN layout = 1 .. Len(layout)
  BY <1>2, LenProperties DEF Placing
<1>8. \A k \in 1 .. Len(layout) : layout[k].space \in Nat /\ layout[k].unit \in Nat
                                  /\ layout[k].id \in {ord[e].id : e \in DOMAIN ord}
  <2> TAKE k \in 1 .. Len(layout)
  <2>1. layout[k] \in [id : {ord[e].id : e \in DOMAIN ord}, space : Nat, unit : Nat]
    BY <1>2, ElementOfSeq DEF Placing
  <2> QED
    BY <2>1
<1>9. \A e \in 1 .. Len(ord) : \E k \in 1 .. Len(layout) : layout[k].id = ord[e].id
  <2> TAKE e \in 1 .. Len(ord)
  <2>1. ord[e].id \in placed
    BY <1>2, <1>3, <1>6 DEF Placing
  <2> QED
    BY <1>2, <1>7, <2>1 DEF Placing
<1>10. \A k \in 1 .. Len(layout) : \E e \in 1 .. Len(ord) : layout[k].id = ord[e].id
  BY <1>3, <1>8
<1>11. \E l, h, f, t : Divides(ord, l, h) /\ Stands(layout', f, t, l, h)
  BY <1>1, <1>4, <1>5
<1> QED
  BY <1>2, <1>3, <1>6, <1>7, <1>8, <1>9, <1>10, <1>11, OrderOfKept

(* No record is lost where no id stands for two groups.                      *)
LEMMA NoneLost ==
  ASSUME PlaceInv, Expand, ~ Clash, NEW lo, NEW hi, NEW g, NEW q,
         Divides(ord, lo, hi), Stands(layout', g, q, lo, hi), NEW p \in 1 .. Len(InOrder)
  PROVE  \E n \in 1 .. Len(layout') : q[n] = p
<1>1. PICK e \in 1 .. Len(ord) : p \in lo[e] .. hi[e]
  BY DEF Divides
<1>2. PICK k \in 1 .. Len(layout) : layout[k].id = ord[e].id
  BY ExpandStands
<1>3. Owner(layout[k].id) = e
  BY <1>2, ExpandStands, OwnerHas
<1> QED
  BY <1>1, <1>3 DEF Stands

(* Elements that share a record are one.                                     *)
LEMMA OneElement ==
  ASSUME NEW list, Len(list) \in Nat, NEW lo, NEW hi, Divides(list, lo, hi), Len(InOrder) \in Nat,
         NEW k \in 1 .. Len(list), NEW l \in 1 .. Len(list), NEW p,
         p \in lo[k] .. hi[k], p \in lo[l] .. hi[l]
  PROVE  k = l
<1>1. /\ lo[k] \in 1 .. Len(InOrder) /\ hi[k] \in 1 .. Len(InOrder)
      /\ lo[l] \in 1 .. Len(InOrder) /\ hi[l] \in 1 .. Len(InOrder)
      /\ (k < l => hi[k] < lo[l]) /\ (l < k => hi[l] < lo[k])
  BY DEF Divides
<1>2. lo[k] \in Int /\ hi[k] \in Int /\ lo[l] \in Int /\ hi[l] \in Int
  BY <1>1
<1>3. ~ k < l /\ ~ l < k
  BY <1>1, <1>2
<1> QED
  BY <1>3

(* Without a look-ahead no record stands twice, whatever the ids.            *)
LEMMA NoneTwice ==
  ASSUME PlaceInv, Expand, ~ org.spill, NEW lo, NEW hi, NEW g, NEW q,
         Divides(ord, lo, hi), Stands(layout', g, q, lo, hi),
         NEW n \in 1 .. Len(layout'), NEW m \in 1 .. Len(layout'), n < m
  PROVE  layout'[n].r # layout'[m].r
<1> SUFFICES ASSUME layout'[n].r = layout'[m].r
             PROVE  FALSE
  OBVIOUS
<1> DEFINE a == Owner(layout[g[n]].id)
           b == Owner(layout[g[m]].id)
<1>1. /\ g[n] \in 1 .. Len(layout) /\ g[m] \in 1 .. Len(layout) /\ q[n] \in 1 .. Len(InOrder) /\ q[m] \in 1 .. Len(InOrder)
      /\ layout'[n].r = InOrder[q[n]] /\ layout'[m].r = InOrder[q[m]]
      /\ q[n] \in lo[a] .. hi[a] /\ q[m] \in lo[b] .. hi[b]
      /\ g[n] < g[m] \/ (g[n] = g[m] /\ q[n] < q[m])
  BY DEF Stands
<1>2. q[n] = q[m]
  BY <1>1, ExpandStands, OrderOnce
<1>3. /\ a \in 1 .. Len(ord) /\ ord[a].id = layout[g[n]].id
      /\ b \in 1 .. Len(ord) /\ ord[b].id = layout[g[m]].id
  <2>1. Len(ord) \in Nat /\ DOMAIN ord = 1 .. Len(ord)
    BY ExpandStands
  <2>2. ASSUME NEW k \in 1 .. Len(layout)
        PROVE  Owner(layout[k].id) \in 1 .. Len(ord) /\ ord[Owner(layout[k].id)].id = layout[k].id
    <3>1. PICK e \in 1 .. Len(ord) : layout[k].id = ord[e].id
      BY ExpandStands
    <3> QED
      BY <2>1, <3>1, OwnerHas
  <2> QED
    BY <1>1, <2>2
<1> HIDE DEF a, b
<1>4. a = b
  <2>1. Len(ord) \in Nat /\ Len(InOrder) \in Nat
    BY ExpandStands
  <2>2. q[n] \in lo[a] .. hi[a] /\ q[n] \in lo[b] .. hi[b]
    BY <1>1, <1>2
  <2> QED
    BY <1>3, <2>1, <2>2, OneElement
<1>5. g[n] < g[m]
  BY <1>1, <1>2, ExpandStands
<1>6. layout[g[n]].id # layout[g[m]].id
  BY <1>1, <1>5, ExpandStands DEF InTurn
<1> QED
  BY <1>3, <1>4, <1>6

(* Every record of the organisation has a place.                             *)
LEMMA ExpandPlacesEach ==
  ASSUME PlaceInv, Expand
  PROVE  EachPlaced'
<1> SUFFICES ASSUME ~ Clash'
             PROVE  ToSet(Shelved)' = Kept' /\ (org'.spill \/ IsInjective(Shelved)')
  BY DEF EachPlaced
<1>1. UNCHANGED <<org, folderOf, ord>>
  BY DEF Expand
<1>2. ~ Clash /\ Kept' = Kept
  BY <1>1, SameOrder DEF Clash
<1>3. PICK lo, hi, g, q : Divides(ord, lo, hi) /\ Stands(layout', g, q, lo, hi)
  BY ExpandStands
<1> DEFINE N == Len(layout')
<1>4. layout' \in Seq([r : Kept, space : Nat, unit : Nat])
  BY <1>3 DEF Stands
<1>5. N \in Nat /\ DOMAIN layout' = 1 .. N /\ \A n \in 1 .. N : layout'[n].r \in Kept
  <2>1. N \in Nat /\ DOMAIN layout' = 1 .. N
    BY <1>4, LenProperties
  <2>2. \A n \in 1 .. N : layout'[n] \in [r : Kept, space : Nat, unit : Nat]
    BY <1>4, ElementOfSeq
  <2> QED
    BY <2>1, <2>2
<1>6. DOMAIN Shelved' = 1 .. N /\ \A n \in 1 .. N : Shelved'[n] = layout'[n].r
  BY <1>5 DEF Shelved
<1>7. \A r \in Kept : \E n \in 1 .. N : Shelved'[n] = r
  <2> TAKE r \in Kept
  <2>1. PICK p \in 1 .. Len(InOrder) : InOrder[p] = r
    BY ExpandStands, OrderOfKept
  <2>2. PICK n \in 1 .. N : q[n] = p
    BY <1>2, <1>3, NoneLost
  <2>3. layout'[n].r = InOrder[q[n]]
    BY <1>3, <2>2 DEF Stands
  <2>4. Shelved'[n] = layout'[n].r
    BY <1>6, <2>2
  <2> QED
    BY <2>1, <2>2, <2>3, <2>4
<1>8. ToSet(Shelved)' = Kept
  BY <1>5, <1>6, <1>7 DEF ToSet
<1>9. ASSUME ~ org.spill
      PROVE  IsInjective(Shelved)'
  <2> SUFFICES ASSUME NEW n \in 1 .. N, NEW m \in 1 .. N, Shelved'[n] = Shelved'[m], n # m
               PROVE  FALSE
    BY <1>6 DEF IsInjective
  <2>1. n < m \/ m < n
    BY <1>5
  <2>2. layout'[n].r = layout'[m].r
    BY <1>6
  <2> QED
    BY <1>3, <1>9, <2>1, <2>2, NoneTwice
<1> QED
  BY <1>1, <1>2, <1>8, <1>9

(* Of two tuples that begin alike the lower one is not higher in the second  *)
(* number, nor, if that is the same, in the third.                           *)
LEMMA LexPrefix ==
  ASSUME NEW s \in [1 .. 7 -> Int], NEW t \in [1 .. 7 -> Int], LexLess(s, t), s[1] = t[1]
  PROVE  s[2] < t[2] \/ (s[2] = t[2] /\ s[3] <= t[3])
<1>1. PICK k \in 1 .. 7 : (\A j \in 1 .. k - 1 : s[j] = t[j]) /\ s[k] < t[k]
  BY DEF LexLess
<1>2. s[1] \in Int /\ t[1] \in Int /\ s[3] \in Int /\ t[3] \in Int
  OBVIOUS
<1>3. k # 1
  BY <1>1, <1>2
<1>4. CASE k = 2
  BY <1>1, <1>4
<1>5. CASE k = 3
  BY <1>1, <1>2, <1>5
<1>6. CASE k > 3
  BY <1>1, <1>2, <1>6
<1> QED
  BY <1>3, <1>4, <1>5, <1>6

(* The lower of two records of one folder set has the lower key, and what    *)
(* has none comes last.                                                      *)
LEMMA RankFollowsKey ==
  ASSUME Given, NEW r \in Kept, NEW s \in Kept, LexLess(Rank(r), Rank(s)), SetOf(r) = SetOf(s)
  PROVE  LET sort == SortAt(org.sets[SetOf(r)].index)
             a == Attr[r].keys[sort]
             b == Attr[s].keys[sort]
         IN b = 0 \/ (a # 0 /\ a <= b)
<1> DEFINE sort == SortAt(org.sets[SetOf(r)].index)
           a == Attr[r].keys[sort]
           b == Attr[s].keys[sort]
<1>1. /\ Rank(r)[1] = Rank(s)[1]
      /\ Rank(r)[2] = Late(sort, r) /\ Rank(s)[2] = Late(sort, s)
      /\ Rank(r)[3] = a /\ Rank(s)[3] = b
  BY DEF Rank
<1>2. Rank(r) \in [1 .. 7 -> Int] /\ Rank(s) \in [1 .. 7 -> Int]
  BY RankTuple
<1>3. Late(sort, r) < Late(sort, s) \/ (Late(sort, r) = Late(sort, s) /\ a <= b)
  BY <1>1, <1>2, LexPrefix
<1>4. Late(sort, r) = (IF a = 0 THEN 1 ELSE 0) /\ Late(sort, s) = (IF b = 0 THEN 1 ELSE 0)
  BY DEF Late
<1> QED
  BY <1>3, <1>4

(* Records stand in the order of their keys, slot after slot.                *)
LEMMA ExpandKeepsOrder ==
  ASSUME PlaceInv, Expand
  PROVE  StandInOrder'
<1>1. UNCHANGED <<org, folderOf, ord>>
  BY DEF Expand
<1>2. (\A r : SetOf(r)' = SetOf(r)) /\ (\A index : SortAt(index)' = SortAt(index)) /\ (~ Clash' => ~ Clash)
  BY <1>1 DEF SetOf, SortAt, At, Kept, Clash
<1> DEFINE N == Len(layout')
           set(k) == org.sets[SetOf(layout'[k].r)]
           key(k) == Attr[layout'[k].r].keys[set(k).sort]
<1>3. PICK lo, hi, g, q : Divides(ord, lo, hi) /\ Stands(layout', g, q, lo, hi)
  BY ExpandStands
<1>4. layout' \in Seq([r : Kept, space : Nat, unit : Nat])
  BY <1>3 DEF Stands
<1>5. N \in Nat /\ DOMAIN layout' = 1 .. N
  BY <1>4, LenProperties
<1>6. Given /\ Len(InOrder) \in Nat /\ Len(ord) \in Nat /\ DOMAIN ord = 1 .. Len(ord) /\ i = Len(ord) + 1
      /\ Len(layout) \in Nat
  BY ExpandStands
<1>7. ASSUME ~ Clash, ~ org.spill, NEW k \in 1 .. N, NEW l \in 1 .. N, k < l
      PROVE  /\ ~ LexLess(SlotOf(layout'[l]), SlotOf(layout'[k]))
             /\ SetOf(layout'[l].r) = SetOf(layout'[k].r) /\ set(k).sort = SortAt(set(k).index) =>
                  key(l) = 0 \/ (key(k) # 0 /\ key(k) <= key(l))
  <2>1. /\ g[k] \in 1 .. Len(layout) /\ g[l] \in 1 .. Len(layout)
        /\ q[k] \in 1 .. Len(InOrder) /\ q[l] \in 1 .. Len(InOrder)
        /\ layout'[k].r = InOrder[q[k]] /\ layout'[l].r = InOrder[q[l]]
        /\ SlotOf(layout'[k]) = SlotOf(layout[g[k]]) /\ SlotOf(layout'[l]) = SlotOf(layout[g[l]])
        /\ q[k] \in lo[Owner(layout[g[k]].id)] .. hi[Owner(layout[g[k]].id)]
        /\ q[l] \in lo[Owner(layout[g[l]].id)] .. hi[Owner(layout[g[l]].id)]
        /\ g[k] < g[l] \/ (g[k] = g[l] /\ q[k] < q[l])
    BY <1>3, <1>7 DEF Stands
  <2>2. InTurn
    BY <1>7, ExpandStands
  <2>3. \A h \in 1 .. Len(layout) : Owner(layout[h].id) = h /\ h \in 1 .. Len(ord)
    <3> TAKE h \in 1 .. Len(layout)
    <3>1. Len(layout) = i - 1 /\ \A e \in 1 .. i - 1 : layout[e].id = ord[e].id
      BY <1>7, <2>2 DEF InTurn
    <3>2. h \in 1 .. Len(ord) /\ h \in 1 .. i - 1
      BY <1>6, <3>1
    <3>3. layout[h].id = ord[h].id
      BY <3>1, <3>2
    <3>4. Owner(ord[h].id) = h
      BY <1>6, <1>7, <3>2, OwnerHas
    <3> QED
      BY <3>2, <3>3, <3>4
  <2>4. q[k] < q[l]
    <3> SUFFICES ASSUME g[k] < g[l]
                 PROVE  q[k] < q[l]
      BY <2>1
    <3>1. hi[g[k]] < lo[g[l]]
      BY <1>3, <2>1, <2>3 DEF Divides
    <3>2. hi[g[k]] \in 1 .. Len(InOrder) /\ lo[g[l]] \in 1 .. Len(InOrder)
      BY <1>3, <2>1, <2>3 DEF Divides
    <3>3. q[k] <= hi[g[k]] /\ lo[g[l]] <= q[l] /\ q[k] \in Int /\ q[l] \in Int
      BY <2>1, <2>3
    <3>4. hi[g[k]] \in Int /\ lo[g[l]] \in Int
      BY <3>2
    <3> QED
      BY <3>1, <3>3, <3>4
  <2>5. ~ LexLess(SlotOf(layout'[l]), SlotOf(layout'[k]))
    <3>1. CASE g[k] < g[l]
      BY <2>1, <2>2, <3>1 DEF InTurn
    <3>2. CASE g[k] = g[l]
      <4>1. layout[g[k]].space \in Nat /\ layout[g[k]].unit \in Nat
        BY <2>1, ExpandStands
      <4> QED
        BY <2>1, <3>2, <4>1, PairLess DEF SlotOf
    <3> QED
      BY <2>1, <3>1, <3>2
  <2>6. LexLess(Rank(layout'[k].r), Rank(layout'[l].r)) /\ layout'[k].r \in Kept /\ layout'[l].r \in Kept
    <3>1. LexLess(Rank(InOrder[q[k]]), Rank(InOrder[q[l]]))
      BY <1>6, <2>1, <2>4, OrderOfKept
    <3>2. \A p \in 1 .. Len(InOrder) : InOrder[p] \in Kept
      BY <1>6, OrderOfKept, ElementOfSeq
    <3> QED
      BY <2>1, <3>1, <3>2
  <2>7. ASSUME SetOf(layout'[l].r) = SetOf(layout'[k].r), set(k).sort = SortAt(set(k).index)
        PROVE  key(l) = 0 \/ (key(k) # 0 /\ key(k) <= key(l))
    <3> DEFINE x == layout'[k].r
               y == layout'[l].r
    <3>1. LexLess(Rank(x), Rank(y)) /\ x \in Kept /\ y \in Kept /\ SetOf(x) = SetOf(y)
      BY <2>6, <2>7
    <3>2. key(k) = Attr[x].keys[SortAt(org.sets[SetOf(x)].index)] /\ key(l) = Attr[y].keys[SortAt(org.sets[SetOf(x)].index)]
      BY <2>7
    <3> HIDE DEF x, y, key
    <3> QED
      BY <1>6, <3>1, <3>2, RankFollowsKey
  <2> QED
    BY <2>5, <2>7
<1> QED
  BY <1>1, <1>2, <1>5, <1>7 DEF StandInOrder, SlotOf

(* Records of one label that stand together, when no other has it, are a     *)
(* group.                                                                    *)
LEMMA LabelIsGroup ==
  ASSUME Given, org.grouping, NEW k \in 1 .. Len(InOrder), NEW l \in k .. Len(InOrder),
         \A h \in k .. l : ByCatno(InOrder[h]) /\ Attr[InOrder[h]].label = Attr[InOrder[k]].label,
         \A h \in 1 .. Len(InOrder) : Attr[InOrder[h]].label = Attr[InOrder[k]].label => h \in k .. l
  PROVE  First(InOrder, k) = k /\ Final(InOrder, k) = l
<1>1. Len(InOrder) \in Nat /\ k \in Int /\ l \in Int
  BY OrderOfKept
<1>2. \A h \in k + 1 .. l : Joins(InOrder, h)
  <2> TAKE h \in k + 1 .. l
  <2>1. h > 1 /\ h \in k .. l /\ h - 1 \in k .. l
    BY <1>1
  <2> QED
    BY <2>1 DEF Joins
<1>3. ~ Joins(InOrder, k)
  <2> SUFFICES ASSUME Joins(InOrder, k)
               PROVE  FALSE
    OBVIOUS
  <2>1. k - 1 \in 1 .. Len(InOrder) /\ Attr[InOrder[k - 1]].label = Attr[InOrder[k]].label
    BY <1>1 DEF Joins
  <2> QED
    BY <1>1, <2>1
<1>4. ASSUME l < Len(InOrder), Joins(InOrder, l + 1)
      PROVE  FALSE
  <2>1. (l + 1) - 1 = l /\ l \in k .. l /\ l + 1 \in 1 .. Len(InOrder)
    BY <1>1, <1>4
  <2>2. Attr[InOrder[l + 1]].label = Attr[InOrder[l]].label
    BY <1>4, <2>1 DEF Joins
  <2>3. l + 1 \in k .. l
    BY <2>1, <2>2
  <2> QED
    BY <1>1, <2>3
<1>5. First(InOrder, k) = k
  <2>1. First(InOrder, k) \in 1 .. k /\ \A j \in First(InOrder, k) + 1 .. k : Joins(InOrder, j)
    BY <1>1, FirstOfGroup
  <2>2. ~ First(InOrder, k) < k
    BY <1>1, <1>3, <2>1
  <2> QED
    BY <1>1, <2>1, <2>2
<1>6. Final(InOrder, k) = l
  <2>1. Final(InOrder, k) = Final(InOrder, l)
    BY <1>1, <1>2, OneGroup
  <2>2. l \in 1 .. Len(InOrder)
    BY <1>1
  <2>3. Final(InOrder, l) \in l .. Len(InOrder) /\ \A h \in l + 1 .. Final(InOrder, l) : Joins(InOrder, h)
    BY <1>1, <2>2, FinalOfGroup
  <2>4. ~ l < Final(InOrder, l)
    BY <1>1, <1>4, <2>3
  <2> QED
    BY <1>1, <2>1, <2>3, <2>4
<1> QED
  BY <1>5, <1>6

(* The last place of a record in the snapshot.                               *)
LEMMA LastPlace ==
  ASSUME PlaceInv, Expand, ~ Clash, NEW lo, NEW hi, NEW g, NEW q,
         Divides(ord, lo, hi), Stands(layout', g, q, lo, hi), NEW p \in 1 .. Len(InOrder)
  PROVE  \E n \in 1 .. Len(layout') :
           /\ LastOf(layout', InOrder[p]) = layout'[n] /\ q[n] = p
           /\ \A m \in 1 .. Len(layout') : q[m] = p => m <= n
<1> DEFINE N == Len(layout')
           of == {n \in DOMAIN layout' : layout'[n].r = InOrder[p]}
<1>1. layout' \in Seq([r : Kept, space : Nat, unit : Nat])
  BY DEF Stands
<1>2. N \in Nat /\ DOMAIN layout' = 1 .. N
  BY <1>1, LenProperties
<1>3. \A n \in 1 .. N : q[n] \in 1 .. Len(InOrder) /\ layout'[n].r = InOrder[q[n]]
  BY DEF Stands
<1>4. of = {n \in 1 .. N : q[n] = p}
  <2>1. \A n \in 1 .. N : layout'[n].r = InOrder[p] <=> q[n] = p
    BY <1>3, ExpandStands, OrderOnce
  <2> QED
    BY <1>2, <2>1
<1>5. of # {}
  BY <1>4, NoneLost
<1>6. of \in SUBSET (1 .. N)
  BY <1>4
<1>7. of \in SUBSET Int /\ IsFiniteSet(of)
  BY <1>2, <1>6, PlacesFinite
<1>8. Max(of) \in of /\ \A m \in of : m <= Max(of)
  BY <1>5, <1>7, MaxIsLargest
<1>9. LastOf(layout', InOrder[p]) = layout'[Max(of)]
  BY DEF LastOf
<1> HIDE DEF of
<1> QED
  BY <1>4, <1>8, <1>9

(* The first and the last record of a group that fits share their last slot. *)
LEMMA GroupSharesSlot ==
  ASSUME PlaceInv, Expand, ~ Clash, NEW k \in 1 .. Len(InOrder), NEW l \in k .. Len(InOrder),
         First(InOrder, k) = k, Final(InOrder, k) = l, Fits(GroupOf(InOrder, k))
  PROVE  SlotOf(LastOf(layout', InOrder[k])) = SlotOf(LastOf(layout', InOrder[l]))
<1>1. PICK lo, hi, g, q : Divides(ord, lo, hi) /\ Stands(layout', g, q, lo, hi)
  BY ExpandStands
<1>2. /\ Given /\ Len(InOrder) \in Nat /\ Len(ord) \in Nat /\ DOMAIN ord = 1 .. Len(ord)
      /\ Len(layout) \in Nat /\ k \in Int /\ l \in 1 .. Len(InOrder) /\ k <= l
  BY ExpandStands
<1>3. PICK e \in 1 .. Len(ord) : lo[e] = k /\ hi[e] = l
  BY <1>1 DEF Divides
<1>4. PICK n \in 1 .. Len(layout') :
        /\ LastOf(layout', InOrder[k]) = layout'[n] /\ q[n] = k
        /\ \A h \in 1 .. Len(layout') : q[h] = k => h <= n
  BY <1>1, LastPlace
<1>5. PICK m \in 1 .. Len(layout') :
        /\ LastOf(layout', InOrder[l]) = layout'[m] /\ q[m] = l
        /\ \A h \in 1 .. Len(layout') : q[h] = l => h <= m
  BY <1>1, <1>2, LastPlace
<1>6. \A h \in 1 .. Len(layout) : Owner(layout[h].id) \in 1 .. Len(ord)
  <2> TAKE h \in 1 .. Len(layout)
  <2>1. PICK x \in 1 .. Len(ord) : layout[h].id = ord[x].id
    BY ExpandStands
  <2> QED
    BY <1>2, <2>1, OwnerHas
<1>7. k \in lo[e] .. hi[e] /\ l \in lo[e] .. hi[e]
  BY <1>2, <1>3
<1>8. ASSUME NEW h \in 1 .. Len(layout'), q[h] \in lo[e] .. hi[e]
      PROVE  /\ g[h] \in 1 .. Len(layout) /\ SlotOf(layout'[h]) = SlotOf(layout[g[h]])
             /\ \A p \in lo[e] .. hi[e] : \E x \in 1 .. Len(layout') : g[x] = g[h] /\ q[x] = p
  <2> DEFINE o == Owner(layout[g[h]].id)
  <2>1. g[h] \in 1 .. Len(layout) /\ SlotOf(layout'[h]) = SlotOf(layout[g[h]]) /\ q[h] \in lo[o] .. hi[o]
    BY <1>1 DEF Stands
  <2>2. \A p \in lo[o] .. hi[o] : \E x \in 1 .. Len(layout') : g[x] = g[h] /\ q[x] = p
    BY <1>1, <2>1 DEF Stands
  <2>3. o \in 1 .. Len(ord)
    BY <1>6, <2>1
  <2> HIDE DEF o
  <2>4. o = e
    BY <1>1, <1>2, <1>8, <2>1, <2>3, OneElement
  <2> QED
    BY <2>1, <2>2, <2>4
<1>9. /\ g[n] \in 1 .. Len(layout) /\ g[m] \in 1 .. Len(layout)
      /\ SlotOf(layout'[n]) = SlotOf(layout[g[n]]) /\ SlotOf(layout'[m]) = SlotOf(layout[g[m]])
  BY <1>4, <1>5, <1>7, <1>8
<1>10. PICK x \in 1 .. Len(layout') : g[x] = g[n] /\ q[x] = l
  BY <1>4, <1>7, <1>8
<1>11. PICK y \in 1 .. Len(layout') : g[y] = g[m] /\ q[y] = k
  BY <1>5, <1>7, <1>8
<1>12. x <= m /\ y <= n
  BY <1>4, <1>5, <1>10, <1>11
<1>13. \A a, b \in 1 .. Len(layout') : a <= b => g[a] <= g[b]
  <2> SUFFICES ASSUME NEW a \in 1 .. Len(layout'), NEW b \in 1 .. Len(layout'), a <= b
               PROVE  g[a] <= g[b]
    OBVIOUS
  <2>1. g[a] \in 1 .. Len(layout) /\ g[b] \in 1 .. Len(layout)
    BY <1>1 DEF Stands
  <2>2. a < b => g[a] < g[b] \/ g[a] = g[b]
    BY <1>1 DEF Stands
  <2>3. a < b \/ a = b
    OBVIOUS
  <2> QED
    BY <1>2, <2>1, <2>2, <2>3
<1>14. g[n] <= g[m] /\ g[m] <= g[n]
  BY <1>10, <1>11, <1>12, <1>13
<1>15. g[n] = g[m]
  BY <1>2, <1>9, <1>14
<1> QED
  BY <1>4, <1>5, <1>9, <1>15

(* Records of one label that stand together and fit share a slot.            *)
LEMMA ExpandKeepsLabels ==
  ASSUME PlaceInv, Expand
  PROVE  LabelsTogether'
<1>1. UNCHANGED <<org, folderOf, ord>>
  BY DEF Expand
<1>2. /\ InOrder' = InOrder /\ Kept' = Kept /\ (\A recs : WidthOf(recs)' = WidthOf(recs))
      /\ (\A recs : Fits(recs)' = Fits(recs)) /\ (\A r : ByCatno(r)' = ByCatno(r)) /\ (~ Clash' => ~ Clash)
  BY <1>1, SameOrder DEF Fits, ByCatno, SetOf, Clash
<1> DEFINE run(k, l) == SubSeq(InOrder, k, l)
<1>3. /\ Given /\ Len(InOrder) \in Nat /\ DOMAIN InOrder = 1 .. Len(InOrder) /\ InOrder \in Seq(Kept)
      /\ \A h \in 1 .. Len(InOrder) : InOrder[h] \in Kept
  BY ExpandStands, OrderOfKept, ElementOfSeq
<1>4. ASSUME ~ Clash, org.grouping, NEW k \in 1 .. Len(InOrder), NEW l \in 1 .. Len(InOrder), k < l,
             OneLabel(run(k, l)), Fits(run(k, l))
      PROVE  SlotOf(LastOf(layout', run(k, l)[1])) = SlotOf(LastOf(layout', run(k, l)[Len(run(k, l))]))
  <2> DEFINE here == run(k, l)
  <2>1. /\ Len(here) = l - k + 1 /\ here \in Seq(Kept)
        /\ \A j \in 1 .. l - k + 1 : here[j] = InOrder[k + j - 1]
    <3>1. k \in Int /\ l \in Int /\ k <= l + 1 /\ \A h \in k .. l : InOrder[h] \in Kept
      BY <1>3, <1>4
    <3> QED
      BY <1>4, <3>1, SubSeqProperties
  <2>2. DOMAIN here = 1 .. l - k + 1
    BY <2>1, LenProperties
  <2>3. \A h \in k .. l : h - k + 1 \in DOMAIN here /\ here[h - k + 1] = InOrder[h]
    <3> TAKE h \in k .. l
    <3>1. h - k + 1 \in 1 .. l - k + 1 /\ k + (h - k + 1) - 1 = h
      BY <1>3
    <3> QED
      BY <2>1, <2>2, <3>1
  <2>4. here[1] = InOrder[k] /\ here[Len(here)] = InOrder[l]
    <3>1. k \in k .. l /\ l \in k .. l /\ k - k + 1 = 1
      BY <1>3, <1>4
    <3> QED
      BY <2>1, <2>3, <3>1
  <2>5. \A h \in k .. l : ByCatno(InOrder[h]) /\ Attr[InOrder[h]].label = Attr[InOrder[k]].label
    <3> TAKE h \in k .. l
    <3>1. h - k + 1 \in DOMAIN here /\ here[h - k + 1] = InOrder[h]
      BY <2>3
    <3> QED
      BY <1>4, <2>4, <3>1 DEF OneLabel
  <2>6. \A h \in 1 .. Len(InOrder) : Attr[InOrder[h]].label = Attr[InOrder[k]].label => h \in k .. l
    <3> SUFFICES ASSUME NEW h \in 1 .. Len(InOrder), Attr[InOrder[h]].label = Attr[InOrder[k]].label
                 PROVE  h \in k .. l
      OBVIOUS
    <3>1. InOrder[h] \in ToSet(here)
      BY <1>3, <1>4, <2>4 DEF OneLabel
    <3>2. PICK j \in 1 .. l - k + 1 : here[j] = InOrder[h]
      BY <2>2, <3>1 DEF ToSet
    <3>3. k + j - 1 \in k .. l /\ k + j - 1 \in 1 .. Len(InOrder) /\ InOrder[k + j - 1] = InOrder[h]
      BY <1>3, <2>1, <3>2
    <3>4. k + j - 1 = h
      BY <1>3, <3>3, OrderOnce
    <3> QED
      BY <3>3, <3>4
  <2>7. l \in k .. Len(InOrder)
    BY <1>3, <1>4
  <2>8. First(InOrder, k) = k /\ Final(InOrder, k) = l
    BY <1>3, <1>4, <2>5, <2>6, <2>7, LabelIsGroup
  <2>9. Fits(GroupOf(InOrder, k))
    BY <1>4, <2>8 DEF GroupOf
  <2> HIDE DEF here
  <2>10. SlotOf(LastOf(layout', InOrder[k])) = SlotOf(LastOf(layout', InOrder[l]))
    BY <1>4, <2>7, <2>8, <2>9, GroupSharesSlot
  <2> QED
    BY <2>4, <2>10 DEF here
<1>5. \A recs : OneLabel(recs)' = OneLabel(recs)
  BY <1>2 DEF OneLabel
<1>6. SUFFICES ASSUME ~ Clash', org'.grouping, NEW k \in DOMAIN InOrder', NEW l \in DOMAIN InOrder', k < l,
                      OneLabel(SubSeq(InOrder, k, l))', Fits(SubSeq(InOrder, k, l))'
               PROVE  SlotOf(LastOf(layout', SubSeq(InOrder', k, l)[1])) =
                        SlotOf(LastOf(layout', SubSeq(InOrder', k, l)[Len(SubSeq(InOrder', k, l))]))
  BY DEF LabelsTogether, SlotOf, LastOf
<1> QED
  BY <1>1, <1>2, <1>3, <1>4, <1>5, <1>6

(* Only Expand finishes a snapshot.                                          *)
LEMMA OnlyExpandBuilds ==
  ASSUME [Next]_vars, pc' = "built"
  PROVE  Expand \/ UNCHANGED vars
<1>1. CASE PlaceNext
  BY <1>1 DEF PlaceNext, Skip, Place, LookAhead, Fill, UnitOver, NextUnit, Full
<1>2. CASE ~ PlaceNext /\ Next
  BY <1>2 DEF Next, Start, Remember, Compare, FindFree, OrderNext, OrderRest, ChangeFolder
<1> QED
  BY <1>1, <1>2

(* A finished snapshot stays as it is.                                       *)
LEMMA StepShelves == PlaceInv /\ WellShelved /\ [Next]_vars => WellShelved'
<1> SUFFICES ASSUME PlaceInv, WellShelved, [Next]_vars
             PROVE  WellShelved'
  OBVIOUS
<1>1. CASE pc' # "built"
  BY <1>1 DEF WellShelved, EachPlaced, StandInOrder, LabelsTogether
<1>2. CASE Expand
  BY <1>2, ExpandPlacesEach, ExpandKeepsOrder, ExpandKeepsLabels DEF WellShelved
<1>3. CASE UNCHANGED vars
  <2>1. UNCHANGED <<org, folderOf, pc, ord, layout>>
    BY <1>3 DEF vars, builder
  <2>2. /\ Kept' = Kept /\ InOrder' = InOrder /\ (\A recs : WidthOf(recs)' = WidthOf(recs))
        /\ (\A r : SetOf(r)' = SetOf(r)) /\ (\A index : SortAt(index)' = SortAt(index)) /\ (Clash' <=> Clash)
        /\ Shelved' = Shelved
    BY <2>1, SameOrder DEF SetOf, SortAt, At, Kept, Clash, Shelved
  <2>3. EachPlaced'
    BY <2>1, <2>2 DEF WellShelved, EachPlaced
  <2>4. StandInOrder'
    BY <2>1, <2>2 DEF WellShelved, StandInOrder
  <2>5. LabelsTogether'
    <3>1. \A recs : OneLabel(recs)' = OneLabel(recs) /\ Fits(recs)' = Fits(recs)
      BY <2>1, <2>2 DEF OneLabel, Fits, ByCatno
    <3>2. \A k, l : OneLabel(SubSeq(InOrder, k, l))' = OneLabel(SubSeq(InOrder, k, l))
                    /\ Fits(SubSeq(InOrder, k, l))' = Fits(SubSeq(InOrder, k, l))
      BY <2>2, <3>1
    <3> DEFINE first(k, l) == SlotOf(LastOf(layout, SubSeq(InOrder, k, l)[1]))
               final(k, l) == SlotOf(LastOf(layout, SubSeq(InOrder, k, l)[Len(SubSeq(InOrder, k, l))]))
    <3>3. \A k, l : first(k, l)' = first(k, l) /\ final(k, l)' = final(k, l)
      BY <2>1, <2>2 DEF SlotOf, LastOf
    <3>4. SUFFICES ASSUME pc' = "built", ~ Clash', org'.grouping, NEW k \in DOMAIN InOrder', NEW l \in DOMAIN InOrder',
                          k < l, OneLabel(SubSeq(InOrder, k, l))', Fits(SubSeq(InOrder, k, l))'
                   PROVE  first(k, l)' = final(k, l)'
      BY DEF LabelsTogether, SlotOf, LastOf
    <3>5. first(k, l) = final(k, l)
      BY <2>1, <2>2, <3>2, <3>4 DEF WellShelved, LabelsTogether
    <3> QED
      BY <3>3, <3>5
  <2> QED
    BY <2>3, <2>4, <2>5 DEF WellShelved
<1> QED
  BY <1>1, <1>2, <1>3, OnlyExpandBuilds

(* Every finished snapshot of every organisation has each of its records in  *)
(* place, in order and with those of its label (BuildSnapshot).              *)
THEOREM SnapshotsAreWellShelved == Spec => []WellShelved
<1>1. Init => PlaceInv /\ WellShelved
  <2> SUFFICES ASSUME Init
               PROVE  PlaceInv /\ WellShelved
    OBVIOUS
  <2>1. pc = "start"
    BY DEF Init
  <2> QED
    BY <2>1, InitTypes DEF PlaceInv, WellShelved, EachPlaced, StandInOrder, LabelsTogether
<1>2. (PlaceInv /\ WellShelved) /\ [Next]_vars => (PlaceInv /\ WellShelved)'
  BY StepPlaces, StepShelves
<1> QED
  BY <1>1, <1>2, PTL DEF Spec

----------------------------------------------------------------------------
(* ComputeSlotMoves and OrderSlotMoves.                                      *)

(* A list of a set has all of it, and nothing twice.                         *)
LEMMA ListedOnce ==
  ASSUME NEW S \in SUBSET Int, IsFiniteSet(S)
  PROVE  Listed(S) \in Seq(S) /\ IsInjective(Listed(S)) /\ ToSet(Listed(S)) = S
<1> DEFINE n == Cardinality(S)
           itself == [x \in S |-> x]
<1>1. n \in Nat
  BY FS_CardinalityType
<1>2. PICK p \in [1 .. n -> S] :
        /\ Subsequence(itself, S) = [k \in 1 .. n |-> itself[p[k]]]
        /\ \A x \in S : \E k \in 1 .. n : p[k] = x
        /\ \A j, k \in 1 .. n : j < k => p[j] < p[k]
  BY PlacesAscend
<1>3. Listed(S) = p
  <2>1. Listed(S) = [k \in 1 .. n |-> itself[p[k]]]
    BY <1>2 DEF Listed
  <2>2. \A k \in 1 .. n : itself[p[k]] = p[k]
    BY <1>2
  <2>3. p = [k \in 1 .. n |-> p[k]]
    BY <1>2
  <2> HIDE DEF itself
  <2> QED
    BY <2>1, <2>2, <2>3
<1>4. p \in Seq(S) /\ DOMAIN p = 1 .. n
  BY <1>1, <1>2
<1>5. IsInjective(p)
  <2> SUFFICES ASSUME NEW j \in 1 .. n, NEW k \in 1 .. n, p[j] = p[k], j # k
               PROVE  FALSE
    BY <1>4 DEF IsInjective
  <2>1. j < k \/ k < j
    BY <1>1
  <2>2. p[j] < p[k] \/ p[k] < p[j]
    BY <1>2, <2>1
  <2>3. p[j] \in Int /\ p[k] \in Int
    BY <1>2
  <2> QED
    BY <2>2, <2>3
<1>6. ToSet(p) = S
  BY <1>2, <1>4 DEF ToSet
<1> QED
  BY <1>3, <1>4, <1>5, <1>6

(* Two lists that share nothing, one after the other.                        *)
LEMMA JoinedOnce ==
  ASSUME NEW S, NEW s \in Seq(S), NEW t \in Seq(S), IsInjective(s), IsInjective(t), ToSet(s) \cap ToSet(t) = {}
  PROVE  s \o t \in Seq(S) /\ IsInjective(s \o t) /\ ToSet(s \o t) = ToSet(s) \cup ToSet(t)
<1>1. s \o t \in Seq(S) /\ ToSet(s \o t) = ToSet(s) \cup ToSet(t)
  <2>1. Elements(s \o t) = Elements(s) \cup Elements(t) /\ s \o t \in Seq(S)
    BY ConcatElements
  <2>2. \A u : ToSet(u) = Elements(u)
    BY DEF Elements, ToSet
  <2> QED
    BY <2>1, <2>2
<1>2. /\ Len(s \o t) = Len(s) + Len(t)
      /\ \A j \in 1 .. Len(s) + Len(t) : (s \o t)[j] = IF j <= Len(s) THEN s[j] ELSE t[j - Len(s)]
  BY ConcatProperties
<1>3. /\ Len(s) \in Nat /\ Len(t) \in Nat /\ DOMAIN s = 1 .. Len(s) /\ DOMAIN t = 1 .. Len(t)
      /\ DOMAIN (s \o t) = 1 .. Len(s) + Len(t)
  BY <1>1, <1>2, LenProperties
<1> DEFINE st == s \o t
<1> HIDE DEF st
<1>4. ASSUME NEW a \in 1 .. Len(s) + Len(t), NEW b \in 1 .. Len(s) + Len(t), st[a] = st[b]
      PROVE  a = b
  <2>1. CASE a <= Len(s) /\ b <= Len(s)
    <3>1. a \in DOMAIN s /\ b \in DOMAIN s /\ s[a] = s[b]
      BY <1>2, <1>3, <1>4, <2>1 DEF st
    <3> QED
      BY <3>1 DEF IsInjective
  <2>2. CASE a > Len(s) /\ b > Len(s)
    <3>1. a - Len(s) \in DOMAIN t /\ b - Len(s) \in DOMAIN t /\ t[a - Len(s)] = t[b - Len(s)]
      BY <1>2, <1>3, <1>4, <2>2 DEF st
    <3>2. a - Len(s) = b - Len(s)
      BY <3>1 DEF IsInjective
    <3> QED
      BY <1>3, <3>2
  <2>3. ASSUME NEW c \in 1 .. Len(s), NEW d \in 1 .. Len(s) + Len(t), d > Len(s), st[c] = st[d]
        PROVE  FALSE
    <3>1. s[c] = t[d - Len(s)] /\ c \in DOMAIN s /\ d - Len(s) \in DOMAIN t
      BY <1>2, <1>3, <2>3 DEF st
    <3> QED
      BY <3>1 DEF ToSet
  <2> QED
    BY <1>3, <1>4, <2>1, <2>2, <2>3
<1> QED
  BY <1>1, <1>3, <1>4 DEF IsInjective, st

(* A part of a list in which nothing is twice.                               *)
LEMMA PartOnce ==
  ASSUME NEW S, NEW s \in Seq(S), IsInjective(s), NEW m \in Nat \ {0}, NEW n \in 0 .. Len(s)
  PROVE  SubSeq(s, m, n) \in Seq(S) /\ IsInjective(SubSeq(s, m, n)) /\ ToSet(SubSeq(s, m, n)) = {s[j] : j \in m .. n}
<1>1. Len(s) \in Nat /\ DOMAIN s = 1 .. Len(s) /\ \A j \in 1 .. Len(s) : s[j] \in S
  BY LenProperties, ElementOfSeq
<1> DEFINE part == SubSeq(s, m, n)
<1>2. /\ part \in Seq(S) /\ Len(part) = IF m <= n THEN n - m + 1 ELSE 0
      /\ \A j \in 1 .. n - m + 1 : part[j] = s[m + j - 1]
  <2>1. m \in Int /\ n \in Int /\ \A j \in m .. n : s[j] \in S
    BY <1>1
  <2> QED
    BY <2>1, SubSeqProperties
<1> HIDE DEF part
<1>3. DOMAIN part = 1 .. n - m + 1
  <2>1. DOMAIN part = 1 .. Len(part)
    BY <1>2, LenProperties
  <2> QED
    BY <1>1, <1>2, <2>1
<1>4. IsInjective(part)
  <2> SUFFICES ASSUME NEW a \in 1 .. n - m + 1, NEW b \in 1 .. n - m + 1, part[a] = part[b]
               PROVE  a = b
    BY <1>3 DEF IsInjective
  <2>1. m + a - 1 \in DOMAIN s /\ m + b - 1 \in DOMAIN s /\ s[m + a - 1] = s[m + b - 1]
    BY <1>1, <1>2
  <2>2. m + a - 1 = m + b - 1
    BY <2>1 DEF IsInjective
  <2> QED
    BY <2>2
<1>5. ToSet(part) = {s[j] : j \in m .. n}
  <2>1. \A a \in 1 .. n - m + 1 : part[a] \in {s[j] : j \in m .. n}
    <3> TAKE a \in 1 .. n - m + 1
    <3>1. m + a - 1 \in m .. n /\ part[a] = s[m + a - 1]
      BY <1>1, <1>2
    <3> QED
      BY <3>1
  <2>2. \A j \in m .. n : \E a \in 1 .. n - m + 1 : part[a] = s[j]
    <3> TAKE j \in m .. n
    <3>1. j - m + 1 \in 1 .. n - m + 1 /\ m + (j - m + 1) - 1 = j
      BY <1>1
    <3> QED
      BY <1>2, <3>1
  <2> QED
    BY <1>3, <2>1, <2>2 DEF ToSet
<1> QED
  BY <1>2, <1>4, <1>5 DEF part

(* A list without one of its elements.                                       *)
LEMMA RemovedOnce ==
  ASSUME NEW S, NEW s \in Seq(S), IsInjective(s), NEW k \in 1 .. Len(s)
  PROVE  RemoveAt(s, k) \in Seq(S) /\ IsInjective(RemoveAt(s, k)) /\ ToSet(RemoveAt(s, k)) = ToSet(s) \ {s[k]}
<1>1. Len(s) \in Nat /\ DOMAIN s = 1 .. Len(s)
  BY LenProperties
<1> DEFINE a == SubSeq(s, 1, k - 1)
           b == SubSeq(s, k + 1, Len(s))
<1>2. a \in Seq(S) /\ IsInjective(a) /\ ToSet(a) = {s[j] : j \in 1 .. k - 1}
  BY <1>1, PartOnce
<1>3. b \in Seq(S) /\ IsInjective(b) /\ ToSet(b) = {s[j] : j \in k + 1 .. Len(s)}
  BY <1>1, PartOnce
<1>4. RemoveAt(s, k) = a \o b
  BY DEF RemoveAt
<1> HIDE DEF a, b
<1>5. \A x, y \in 1 .. Len(s) : s[x] = s[y] => x = y
  BY <1>1 DEF IsInjective
<1>6. ToSet(a) \cap ToSet(b) = {}
  <2> SUFFICES ASSUME NEW x \in 1 .. k - 1, NEW y \in k + 1 .. Len(s), s[x] = s[y]
               PROVE  FALSE
    BY <1>2, <1>3
  <2> QED
    BY <1>1, <1>5
<1>7. ToSet(a) \cup ToSet(b) = ToSet(s) \ {s[k]}
  <2>1. \A j \in 1 .. Len(s) : j # k <=> j \in 1 .. k - 1 \/ j \in k + 1 .. Len(s)
    BY <1>1
  <2>2. \A j : j \in 1 .. k - 1 \/ j \in k + 1 .. Len(s) => j \in 1 .. Len(s)
    BY <1>1
  <2>3. ToSet(s) = {s[j] : j \in 1 .. Len(s)}
    BY <1>1 DEF ToSet
  <2>4. \A j \in 1 .. Len(s) : s[j] # s[k] <=> j # k
    BY <1>5
  <2> QED
    BY <1>2, <1>3, <2>1, <2>2, <2>3, <2>4
<1>8. a \o b \in Seq(S) /\ IsInjective(a \o b) /\ ToSet(a \o b) = ToSet(a) \cup ToSet(b)
  BY <1>2, <1>3, <1>6, JoinedOnce
<1> QED
  BY <1>4, <1>7, <1>8

(* Sorting by units keeps every place, once.                                 *)
LEMMA ByUnitOnce ==
  ASSUME NEW s, Len(s) \in Nat, DOMAIN s = 1 .. Len(s), \A a \in 1 .. Len(s) : moves[s[a]].start.unit \in Nat
  PROVE  /\ ByUnit(s) \in [1 .. Len(s) -> 1 .. Len(s)] /\ IsInjective(ByUnit(s))
         /\ \A a \in 1 .. Len(s) : \E k \in 1 .. Len(s) : ByUnit(s)[k] = a
<1> DEFINE n == Len(s)
           u(a) == moves[s[a]].start.unit
           pairs == {<<u(a), a>> : a \in 1 .. n}
           pair == [a \in 1 .. n |-> <<u(a), a>>]
           ranks == Ascending(pairs)
<1>1. pair \in Injection(1 .. n, pairs) /\ pair \in Surjection(1 .. n, pairs)
  <2>1. \A a, b \in 1 .. n : pair[a] = pair[b] => a = b
    OBVIOUS
  <2>2. pair \in [1 .. n -> pairs] /\ \A t \in pairs : \E a \in 1 .. n : pair[a] = t
    OBVIOUS
  <2> QED
    BY <2>1, <2>2 DEF Injection, Surjection, IsInjective
<1>2. IsFiniteSet(1 .. n) /\ Cardinality(1 .. n) = n
  BY FS_Interval
<1>3. IsFiniteSet(pairs) /\ Cardinality(pairs) = n
  <2> HIDE DEF pair, pairs
  <2> QED
    BY <1>1, <1>2, FS_Surjection
<1>4. \A t \in pairs : t \in [1 .. 2 -> Int] /\ t[2] \in 1 .. n /\ t = <<u(t[2]), t[2]>>
  <2> TAKE t \in pairs
  <2>1. PICK a \in 1 .. n : t = <<u(a), a>>
    OBVIOUS
  <2>2. u(a) \in Nat
    OBVIOUS
  <2>3. <<u(a), a>> \in [1 .. 2 -> Int]
    BY <2>2
  <2> QED
    BY <2>1, <2>3
<1> HIDE DEF pairs
<1>5. pairs \in SUBSET [1 .. 2 -> Int]
  BY <1>4
<1>6. /\ ranks \in [1 .. n -> pairs]
      /\ \A t \in pairs : \E k \in 1 .. n : ranks[k] = t
      /\ \A j, k \in 1 .. n : j < k => LexLess(ranks[j], ranks[k])
  <2>1. 2 \in Nat
    OBVIOUS
  <2> QED
    BY <1>3, <1>5, <2>1, SortedAscends
<1>7. ByUnit(s) = [k \in 1 .. n |-> ranks[k][2]]
  <2>1. ByUnit(s) = [k \in DOMAIN ranks |-> ranks[k][2]]
    BY DEF ByUnit, pairs
  <2> HIDE DEF ranks
  <2> QED
    BY <1>6, <2>1
<1> HIDE DEF ranks
<1>8. ByUnit(s) \in [1 .. n -> 1 .. n]
  BY <1>4, <1>6, <1>7
<1>9. \A a \in 1 .. n : \E k \in 1 .. n : ByUnit(s)[k] = a
  <2> TAKE a \in 1 .. n
  <2>1. <<u(a), a>> \in pairs
    BY DEF pairs
  <2>2. PICK k \in 1 .. n : ranks[k] = <<u(a), a>>
    BY <1>6, <2>1
  <2> QED
    BY <1>7, <2>2
<1>10. IsInjective(ByUnit(s))
  <2> SUFFICES ASSUME NEW j \in 1 .. n, NEW k \in 1 .. n, ranks[j][2] = ranks[k][2], j # k
               PROVE  FALSE
    BY <1>7, <1>8 DEF IsInjective
  <2>1. ranks[j] \in pairs /\ ranks[k] \in pairs
    BY <1>6
  <2>2. ranks[j] = ranks[k] /\ ranks[j] \in [1 .. 2 -> Int]
    BY <1>4, <2>1
  <2>3. j < k \/ k < j
    OBVIOUS
  <2>4. LexLess(ranks[j], ranks[j])
    BY <1>6, <2>2, <2>3
  <2> QED
    BY <2>2, <2>4, LexOrder
<1> QED
  BY <1>8, <1>9, <1>10

(* A snapshot: the slots of records, each of which has one unless there is   *)
(* a look-ahead.                                                             *)
Places == [r : Record, space : Nat, unit : Nat]
Snapshot(E, again) ==
  E \in Seq(Places) /\ (~ again => \A n, m \in 1 .. Len(E) : n < m => E[n].r # E[m].r)

(* What Expand makes is one.                                                 *)
LEMMA ExpandSnapshot ==
  ASSUME PlaceInv, Expand
  PROVE  Snapshot(layout', org.spill)
<1>1. PICK lo, hi, g, q : Divides(ord, lo, hi) /\ Stands(layout', g, q, lo, hi)
  BY ExpandStands
<1>2. layout' \in Seq([r : Kept, space : Nat, unit : Nat])
  BY <1>1 DEF Stands
<1>3. [r : Kept, space : Nat, unit : Nat] \subseteq Places
  BY DEF Kept, Places
<1>4. layout' \in Seq(Places)
  <2>1. Len(layout') \in Nat /\ layout' \in [1 .. Len(layout') -> [r : Kept, space : Nat, unit : Nat]]
    BY <1>2, LenProperties
  <2>2. \A n \in 1 .. Len(layout') : layout'[n] \in Places
    BY <1>3, <2>1
  <2>3. layout' \in [1 .. Len(layout') -> Places]
    BY <2>1, <2>2
  <2> QED
    BY <2>1, <2>3
<1> QED
  BY <1>1, <1>4, NoneTwice DEF Snapshot

(* The last place of a record.                                               *)
LEMMA LastIsPlace ==
  ASSUME NEW E \in Seq(Places), NEW r, In(E, r)
  PROVE  LastOf(E, r) \in Places /\ LastOf(E, r).r = r
<1> DEFINE of == {k \in DOMAIN E : E[k].r = r}
<1>1. Len(E) \in Nat /\ DOMAIN E = 1 .. Len(E) /\ \A k \in 1 .. Len(E) : E[k] \in Places
  BY LenProperties, ElementOfSeq
<1>2. of \in SUBSET (1 .. Len(E)) /\ of # {}
  BY <1>1 DEF In
<1>3. of \in SUBSET Int /\ IsFiniteSet(of)
  BY <1>1, <1>2, PlacesFinite
<1>4. Max(of) \in of
  BY <1>2, <1>3, MaxIsLargest
<1>5. LastOf(E, r) = E[Max(of)]
  BY DEF LastOf
<1> QED
  BY <1>1, <1>4, <1>5

(* A move takes a record from its slot in the first snapshot to the one in   *)
(* the second.                                                               *)
Moves == [start : Places, end : Places]
LEMMA MovesAre ==
  ASSUME before \in Seq(Places), layout \in Seq(Places)
  PROVE  /\ SlotMoves \in Seq(Moves)
         /\ ToSet(SlotMoves) = {[start |-> before[k], end |-> LastOf(layout, before[k].r)] : k \in Displaced}
<1> DEFINE move == [k \in Displaced |-> [start |-> before[k], end |-> LastOf(layout, before[k].r)]]
<1>1. Len(before) \in Nat /\ DOMAIN before = 1 .. Len(before) /\ \A k \in 1 .. Len(before) : before[k] \in Places
  BY LenProperties, ElementOfSeq
<1>2. Displaced \in SUBSET (1 .. Len(before))
  BY <1>1 DEF Displaced
<1>3. Displaced \in SUBSET Int /\ IsFiniteSet(Displaced)
  BY <1>1, <1>2, PlacesFinite
<1>4. \A k \in Displaced : move[k] \in Moves
  <2> TAKE k \in Displaced
  <2>1. before[k] \in Places
    BY <1>1, <1>2
  <2>2. LastOf(layout, before[k].r) \in Places
    BY LastIsPlace DEF Displaced
  <2> QED
    BY <2>1, <2>2 DEF Moves
<1>5. SlotMoves = Subsequence(move, Displaced)
  BY DEF SlotMoves
<1> HIDE DEF move
<1>6. /\ ToSet(SlotMoves) = {move[k] : k \in Displaced}
      /\ SlotMoves \in Seq({move[k] : k \in Displaced})
  <2>1. ToSet(SlotMoves) = Elements(SlotMoves)
    BY DEF Elements, ToSet
  <2> QED
    BY <1>3, <1>5, <2>1, ElementsOfPart
<1>7. SlotMoves \in Seq(Moves)
  <2>1. Len(SlotMoves) \in Nat /\ SlotMoves \in [1 .. Len(SlotMoves) -> {move[k] : k \in Displaced}]
    BY <1>6, LenProperties
  <2>2. \A n \in 1 .. Len(SlotMoves) : SlotMoves[n] \in Moves
    BY <1>4, <2>1
  <2>3. SlotMoves \in [1 .. Len(SlotMoves) -> Moves]
    BY <2>1, <2>2
  <2> QED
    BY <2>1, <2>3
<1> QED
  BY <1>6, <1>7 DEF move

(* The moves are those that are needed.                                      *)
LEMMA MovesLeadThere ==
  ASSUME Snapshot(before, org.spill), Snapshot(layout, org.spill), moves = SlotMoves
  PROVE  MovesReach
<1> SUFFICES ASSUME ~ org.spill, NEW k \in DOMAIN before, In(layout, before[k].r)
             PROVE  LET of == {m \in ToSet(moves) : m.start = before[k]}
                    IN SlotOf(LastOf(layout, before[k].r)) =
                         IF of = {} THEN SlotOf(before[k]) ELSE SlotOf((CHOOSE m \in of : TRUE).end)
  BY DEF MovesReach
<1> DEFINE of == {m \in ToSet(moves) : m.start = before[k]}
           last(h) == LastOf(layout, before[h].r)
<1>1. before \in Seq(Places) /\ layout \in Seq(Places)
  BY DEF Snapshot
<1>2. ToSet(moves) = {[start |-> before[h], end |-> last(h)] : h \in Displaced}
  BY <1>1, MovesAre
<1>3. \A m \in of : m.end = last(k)
  <2> TAKE m \in of
  <2>1. PICK h \in Displaced : m = [start |-> before[h], end |-> last(h)]
    BY <1>2
  <2> QED
    BY <2>1
<1>4. CASE of = {}
  <2>1. k \notin Displaced
    <3> SUFFICES ASSUME k \in Displaced
                 PROVE  FALSE
      OBVIOUS
    <3>1. [start |-> before[k], end |-> last(k)] \in ToSet(moves)
      BY <1>2
    <3> QED
      BY <1>4, <3>1
  <2>2. \A j \in 1 .. k - 1 : before[j].r # before[k].r
    <3>1. Len(before) \in Nat /\ DOMAIN before = 1 .. Len(before)
      BY <1>1, LenProperties
    <3>2. \A j \in 1 .. k - 1 : j \in 1 .. Len(before) /\ j < k
      BY <3>1
    <3> QED
      BY <3>1, <3>2 DEF Snapshot
  <2>3. ~ Moved(before[k], last(k))
    BY <2>1, <2>2 DEF Displaced
  <2> QED
    BY <1>4, <2>3 DEF Moved
<1>5. CASE of # {}
  <2>1. (CHOOSE m \in of : TRUE) \in of
    BY <1>5
  <2> QED
    BY <1>3, <1>5, <2>1
<1> QED
  BY <1>4, <1>5

(* The line while the moves are ordered: what is listed has been freed by    *)
(* what is listed before it, and ready is what is free and not listed.       *)
InLine ==
  /\ ready \in Seq(DOMAIN moves) /\ IsInjective(ready)
  /\ ordered \in Seq(DOMAIN moves) /\ IsInjective(ordered)
  /\ ToSet(ready) = Free(ToSet(ordered)) \ ToSet(ordered)
  /\ \A k \in 1 .. Len(ordered) : \A y \in DOMAIN moves :
       Precedes(y, ordered[k]) => \E j \in 1 .. k - 1 : ordered[j] = y

(* The places of the moves are finitely many numbers.                        *)
LEMMA MovePlaces ==
  ASSUME moves \in Seq(Moves), NEW S \in SUBSET DOMAIN moves
  PROVE  /\ DOMAIN moves = 1 .. Len(moves) /\ Len(moves) \in Nat
         /\ S \in SUBSET Int /\ IsFiniteSet(S)
         /\ \A x \in DOMAIN moves : moves[x].start.unit \in Nat
<1>1. Len(moves) \in Nat /\ DOMAIN moves = 1 .. Len(moves) /\ \A x \in 1 .. Len(moves) : moves[x] \in Moves
  BY LenProperties, ElementOfSeq
<1>2. S \in SUBSET Int /\ IsFiniteSet(S)
  BY <1>1, PlacesFinite
<1> QED
  BY <1>1, <1>2 DEF Moves, Places

(* A list of moves is one of places of moves.                                *)
LEMMA SeqOfPart ==
  ASSUME NEW S, NEW T, S \subseteq T, NEW s \in Seq(S)
  PROVE  s \in Seq(T)
<1>1. Len(s) \in Nat /\ s \in [1 .. Len(s) -> S]
  BY LenProperties
<1>2. s \in [1 .. Len(s) -> T]
  BY <1>1
<1> QED
  BY <1>1, <1>2

(* The line starts with what is free at once.                                *)
LEMMA FindFreeLines ==
  ASSUME moves \in Seq(Moves), ordered = <<>>, FindFree
  PROVE  InLine'
<1>1. Free({}) \in SUBSET DOMAIN moves
  BY DEF Free
<1>2. Free({}) \in SUBSET Int /\ IsFiniteSet(Free({}))
  BY <1>1, MovePlaces
<1>3. ready' = Listed(Free({})) /\ UNCHANGED <<moves, ordered>>
  BY DEF FindFree
<1>4. ready' \in Seq(Free({})) /\ IsInjective(ready') /\ ToSet(ready') = Free({})
  BY <1>2, <1>3, ListedOnce
<1>5. ready' \in Seq(DOMAIN moves)
  BY <1>1, <1>4, SeqOfPart
<1>6. ToSet(<<>>) = {} /\ IsInjective(<<>>) /\ <<>> \in Seq(DOMAIN moves) /\ Len(<<>>) = 0
  BY EmptySeq DEF ToSet, IsInjective
<1>7. \A done : Free(done)' = Free(done)
  BY <1>3 DEF Free, Precedes
<1>8. Free(ToSet(ordered))' = Free({})
  BY <1>3, <1>6, <1>7
<1> QED
  BY <1>3, <1>4, <1>5, <1>6, <1>8 DEF InLine

(* The next move is listed, and what it frees joins the line.                *)
LEMMA OrderNextLines ==
  ASSUME moves \in Seq(Moves), InLine, OrderNext
  PROVE  InLine'
<1> DEFINE k == ByUnit(ready)[1]
           done == ToSet(ordered) \cup {ready[k]}
           more == Free(done) \ (done \cup ToSet(ready))
<1>1. /\ ready # <<>> /\ UNCHANGED moves
      /\ ordered' = Append(ordered, ready[k])
      /\ ready' = RemoveAt(ready, k) \o Listed(more)
  BY DEF OrderNext
<1>2. /\ Len(ready) \in Nat \ {0} /\ DOMAIN ready = 1 .. Len(ready)
      /\ \A j \in 1 .. Len(ready) : ready[j] \in DOMAIN moves
  BY <1>1, LenProperties, EmptySeq, ElementOfSeq DEF InLine
<1>3. k \in 1 .. Len(ready)
  <2>1. \A j \in 1 .. Len(ready) : moves[ready[j]].start.unit \in Nat
    BY <1>2, MovePlaces
  <2>2. ByUnit(ready) \in [1 .. Len(ready) -> 1 .. Len(ready)]
    BY <1>2, <2>1, ByUnitOnce
  <2> QED
    BY <1>2, <2>2
<1> DEFINE x == ready[k]
<1>4. x \in DOMAIN moves /\ x \in ToSet(ready)
  BY <1>2, <1>3 DEF ToSet
<1>5. x \in Free(ToSet(ordered)) /\ x \notin ToSet(ordered)
  BY <1>4 DEF InLine
<1> HIDE DEF k
<1>6. more \in SUBSET DOMAIN moves
  BY DEF Free
<1>7. Listed(more) \in Seq(DOMAIN moves) /\ IsInjective(Listed(more)) /\ ToSet(Listed(more)) = more
  <2>1. more \in SUBSET Int /\ IsFiniteSet(more)
    BY <1>6, MovePlaces
  <2>2. Listed(more) \in Seq(more) /\ IsInjective(Listed(more)) /\ ToSet(Listed(more)) = more
    BY <2>1, ListedOnce
  <2> HIDE DEF more
  <2> QED
    BY <1>6, <2>2, SeqOfPart
<1> DEFINE kept == RemoveAt(ready, k)
<1>8. kept \in Seq(DOMAIN moves) /\ IsInjective(kept) /\ ToSet(kept) = ToSet(ready) \ {x}
  BY <1>3, RemovedOnce DEF InLine
<1>9. ToSet(kept) \cap ToSet(Listed(more)) = {}
  BY <1>7, <1>8
<1>10. /\ ready' \in Seq(DOMAIN moves) /\ IsInjective(ready')
       /\ ToSet(ready') = (ToSet(ready) \ {x}) \cup more
  <2> HIDE DEF kept, more
  <2>1. ready' = kept \o Listed(more)
    BY <1>1 DEF kept, more
  <2> QED
    BY <1>7, <1>8, <1>9, <2>1, JoinedOnce
<1>11. /\ Len(ordered) \in Nat /\ DOMAIN ordered = 1 .. Len(ordered)
       /\ ordered' \in Seq(DOMAIN moves) /\ Len(ordered') = Len(ordered) + 1
       /\ DOMAIN ordered' = 1 .. Len(ordered) + 1
       /\ (\A j \in 1 .. Len(ordered) : ordered'[j] = ordered[j]) /\ ordered'[Len(ordered) + 1] = x
  <2>1. ordered \in Seq(DOMAIN moves)
    BY DEF InLine
  <2> HIDE DEF x
  <2>2. ordered' = Append(ordered, x)
    BY <1>1 DEF x
  <2>3. /\ ordered' \in Seq(DOMAIN moves) /\ Len(ordered') = Len(ordered) + 1
        /\ (\A j \in 1 .. Len(ordered) : ordered'[j] = ordered[j]) /\ ordered'[Len(ordered) + 1] = x
    BY <1>4, <2>1, <2>2, AppendProperties
  <2> QED
    BY <2>1, <2>3, LenProperties
<1>12. ToSet(ordered') = done
  <2>1. \A j \in 1 .. Len(ordered) + 1 : ordered'[j] \in done
    BY <1>11 DEF ToSet
  <2>2. \A y \in done : \E j \in 1 .. Len(ordered) + 1 : ordered'[j] = y
    <3> TAKE y \in done
    <3>1. CASE y = x
      BY <1>11, <3>1
    <3>2. CASE y \in ToSet(ordered)
      <4>1. PICK j \in 1 .. Len(ordered) : ordered[j] = y
        BY <1>11, <3>2 DEF ToSet
      <4> QED
        BY <1>11, <4>1
    <3> QED
      BY <3>1, <3>2
  <2> HIDE DEF done
  <2> QED
    BY <1>11, <2>1, <2>2 DEF ToSet
<1>13. IsInjective(ordered')
  <2> SUFFICES ASSUME NEW a \in 1 .. Len(ordered) + 1, NEW b \in 1 .. Len(ordered) + 1, ordered'[a] = ordered'[b]
               PROVE  a = b
    BY <1>11 DEF IsInjective
  <2>1. \A c \in 1 .. Len(ordered) : ordered'[c] # x
    BY <1>5, <1>11 DEF ToSet
  <2>2. \A c, d \in 1 .. Len(ordered) : ordered'[c] = ordered'[d] => c = d
    BY <1>11 DEF InLine, IsInjective
  <2> QED
    BY <1>11, <2>1, <2>2
<1>14. ToSet(ready') = Free(done) \ done
  <2>1. Free(ToSet(ordered)) \subseteq Free(done)
    BY DEF Free
  <2>2. ToSet(ready) = Free(ToSet(ordered)) \ ToSet(ordered)
    BY DEF InLine
  <2> HIDE DEF x
  <2>3. ToSet(ready') = (ToSet(ready) \ {x}) \cup (Free(done) \ (done \cup ToSet(ready)))
    BY <1>10
  <2>4. done = ToSet(ordered) \cup {x}
    BY DEF x
  <2> HIDE DEF done
  <2> QED
    BY <2>1, <2>2, <2>3, <2>4
<1>15. \A j \in 1 .. Len(ordered) + 1 : \A y \in DOMAIN moves :
         Precedes(y, ordered'[j]) => \E h \in 1 .. j - 1 : ordered'[h] = y
  <2> SUFFICES ASSUME NEW j \in 1 .. Len(ordered) + 1, NEW y \in DOMAIN moves, Precedes(y, ordered'[j])
               PROVE  \E h \in 1 .. j - 1 : ordered'[h] = y
    OBVIOUS
  <2>1. CASE j <= Len(ordered)
    <3>1. j \in 1 .. Len(ordered) /\ ordered'[j] = ordered[j]
      BY <1>11, <2>1
    <3>2. PICK h \in 1 .. j - 1 : ordered[h] = y
      BY <3>1 DEF InLine
    <3>3. h \in 1 .. Len(ordered)
      BY <1>11, <3>1
    <3> QED
      BY <1>11, <3>2, <3>3
  <2>2. CASE j = Len(ordered) + 1
    <3>1. Precedes(y, x)
      BY <1>11, <2>2
    <3>2. y \in ToSet(ordered)
      BY <1>5, <3>1 DEF Free
    <3>3. PICK h \in 1 .. Len(ordered) : ordered[h] = y
      BY <1>11, <3>2 DEF ToSet
    <3> QED
      BY <1>11, <2>2, <3>3
  <2> QED
    BY <1>11, <2>1, <2>2
<1>16. (\A S : Free(S)' = Free(S)) /\ (\A y, z : Precedes(y, z)' <=> Precedes(y, z))
  BY <1>1 DEF Free, Precedes
<1>17. Free(ToSet(ordered))' = Free(done)
  <2> HIDE DEF done
  <2> QED
    BY <1>12, <1>16
<1> HIDE DEF done, more, x
<1> QED
  BY <1>1, <1>10, <1>11, <1>12, <1>13, <1>14, <1>15, <1>16, <1>17 DEF InLine

(* What is left is listed; it waits for a cycle.                             *)
LEMMA OrderRestLines ==
  ASSUME moves \in Seq(Moves), InLine, OrderRest
  PROVE  VacatedFirst'
<1> DEFINE left == DOMAIN moves \ ToSet(ordered)
           rest == Listed(left)
           tail == [k \in DOMAIN rest |-> rest[ByUnit(rest)[k]]]
<1>1. ready = <<>> /\ ordered' = ordered \o tail /\ UNCHANGED moves
  BY DEF OrderRest
<1>2. left \in SUBSET DOMAIN moves
  OBVIOUS
<1>3. left \in SUBSET Int /\ IsFiniteSet(left)
  BY <1>2, MovePlaces
<1>4. rest \in Seq(left) /\ IsInjective(rest) /\ ToSet(rest) = left
  BY <1>3, ListedOnce
<1> HIDE DEF rest, left
<1>5. Len(rest) \in Nat /\ DOMAIN rest = 1 .. Len(rest) /\ \A j \in 1 .. Len(rest) : rest[j] \in left
  BY <1>4, LenProperties, ElementOfSeq
<1>6. /\ ByUnit(rest) \in [1 .. Len(rest) -> 1 .. Len(rest)] /\ IsInjective(ByUnit(rest))
      /\ \A a \in 1 .. Len(rest) : \E k \in 1 .. Len(rest) : ByUnit(rest)[k] = a
  <2>1. \A j \in 1 .. Len(rest) : moves[rest[j]].start.unit \in Nat
    BY <1>2, <1>5, MovePlaces
  <2> QED
    BY <1>5, <2>1, ByUnitOnce
<1> DEFINE p == ByUnit(rest)
<1> HIDE DEF p
<1>7. tail = [k \in 1 .. Len(rest) |-> rest[p[k]]]
  BY <1>5 DEF p
<1> HIDE DEF tail
<1>8. tail \in Seq(left) /\ IsInjective(tail) /\ ToSet(tail) = left
  <2>1. p \in [1 .. Len(rest) -> 1 .. Len(rest)] /\ IsInjective(p)
        /\ \A a \in 1 .. Len(rest) : \E k \in 1 .. Len(rest) : p[k] = a
    BY <1>6 DEF p
  <2>2. tail \in [1 .. Len(rest) -> left]
    BY <1>5, <1>7, <2>1
  <2>3. tail \in Seq(left) /\ DOMAIN tail = 1 .. Len(rest)
    BY <1>5, <2>2
  <2>4. \A a, b \in 1 .. Len(rest) : tail[a] = tail[b] => a = b
    BY <1>4, <1>5, <1>7, <2>1 DEF IsInjective
  <2>5. \A x \in left : \E k \in 1 .. Len(rest) : tail[k] = x
    <3> TAKE x \in left
    <3>1. PICK a \in 1 .. Len(rest) : rest[a] = x
      BY <1>4, <1>5 DEF ToSet
    <3>2. PICK k \in 1 .. Len(rest) : p[k] = a
      BY <2>1
    <3> QED
      BY <1>7, <3>1, <3>2
  <2> QED
    BY <2>2, <2>3, <2>4, <2>5 DEF IsInjective, ToSet
<1>9. tail \in Seq(DOMAIN moves) /\ ordered \in Seq(DOMAIN moves) /\ IsInjective(ordered)
      /\ ToSet(ordered) \subseteq DOMAIN moves
  <2>1. tail \in Seq(DOMAIN moves) /\ ordered \in Seq(DOMAIN moves) /\ IsInjective(ordered)
    BY <1>2, <1>8, SeqOfPart DEF InLine
  <2> QED
    BY <2>1, LenProperties, ElementOfSeq DEF ToSet
<1>10. IsInjective(ordered') /\ ToSet(ordered') = DOMAIN moves
  <2>1. ToSet(ordered) \cap ToSet(tail) = {} /\ ToSet(ordered) \cup left = DOMAIN moves
    BY <1>8, <1>9 DEF left
  <2>2. IsInjective(ordered') /\ ToSet(ordered') = ToSet(ordered) \cup ToSet(tail)
    BY <1>1, <1>8, <1>9, <2>1, JoinedOnce
  <2> QED
    BY <1>8, <2>1, <2>2
<1>11. /\ Len(ordered) \in Nat /\ Len(tail) \in Nat /\ DOMAIN tail = 1 .. Len(tail)
       /\ ordered' \in Seq(DOMAIN moves) /\ Len(ordered') = Len(ordered) + Len(tail)
       /\ DOMAIN ordered' = 1 .. Len(ordered) + Len(tail)
       /\ \A j \in 1 .. Len(ordered) + Len(tail) :
            ordered'[j] = IF j <= Len(ordered) THEN ordered[j] ELSE tail[j - Len(ordered)]
  <2>1. Len(ordered) \in Nat /\ Len(tail) \in Nat /\ DOMAIN tail = 1 .. Len(tail)
    BY <1>9, LenProperties
  <2>2. /\ ordered' \in Seq(DOMAIN moves) /\ Len(ordered') = Len(ordered) + Len(tail)
        /\ \A j \in 1 .. Len(ordered) + Len(tail) :
             ordered'[j] = IF j <= Len(ordered) THEN ordered[j] ELSE tail[j - Len(ordered)]
    BY <1>1, <1>9, ConcatProperties
  <2> QED
    BY <2>1, <2>2, LenProperties
<1>12. \A x \in left : \E y \in left : Precedes(y, x)
  <2> TAKE x \in left
  <2>1. ToSet(ready) = {}
    BY <1>1 DEF ToSet
  <2>2. x \notin Free(ToSet(ordered)) /\ x \in DOMAIN moves
    BY <2>1 DEF InLine, left
  <2>3. PICK y \in DOMAIN moves : Precedes(y, x) /\ y \notin ToSet(ordered)
    BY <2>2 DEF Free
  <2> QED
    BY <2>3 DEF left
<1>13. ASSUME NEW k \in DOMAIN ordered', NEW l \in DOMAIN ordered', k < l, Precedes(ordered'[l], ordered'[k])
       PROVE  \E S \in SUBSET DOMAIN moves : ordered'[k] \in S /\ \A x \in S : \E y \in S : Precedes(y, x)
  <2>1. CASE k <= Len(ordered)
    <3>1. k \in 1 .. Len(ordered) /\ ordered'[k] = ordered[k]
      BY <1>11, <2>1
    <3>2. ordered'[l] \in DOMAIN moves
      BY <1>11, ElementOfSeq
    <3>3. PICK j \in 1 .. k - 1 : ordered[j] = ordered'[l]
      BY <1>13, <3>1, <3>2 DEF InLine
    <3>4. j \in DOMAIN ordered' /\ ordered'[j] = ordered'[l] /\ j < k
      BY <1>11, <3>1, <3>3
    <3>5. j = l
      BY <1>10, <3>4 DEF IsInjective
    <3> QED
      BY <1>11, <1>13, <3>4, <3>5
  <2>2. CASE k > Len(ordered)
    <3>1. k - Len(ordered) \in 1 .. Len(tail) /\ ordered'[k] = tail[k - Len(ordered)]
      BY <1>11, <2>2
    <3>2. ordered'[k] \in left
      BY <1>8, <3>1, ElementOfSeq
    <3> QED
      BY <1>2, <1>12, <3>2
  <2>3. k <= Len(ordered) \/ k > Len(ordered)
    BY <1>11
  <2> QED
    BY <2>1, <2>2, <2>3
<1>14. ASSUME NEW k \in DOMAIN ordered', NEW l \in DOMAIN ordered', k < l,
              ordered'[l] # ordered'[k], SlotOf(moves'[ordered'[l]].start) = SlotOf(moves'[ordered'[k]].end)
       PROVE  \E S \in SUBSET DOMAIN moves' :
                /\ ordered'[k] \in S
                /\ \A x \in S : \E y \in S : y # x /\ SlotOf(moves'[y].start) = SlotOf(moves'[x].end)
  <2>1. \A y, x : Precedes(y, x) <=> y # x /\ SlotOf(moves'[y].start) = SlotOf(moves'[x].end)
    BY <1>1 DEF Precedes
  <2>2. PICK S \in SUBSET DOMAIN moves : ordered'[k] \in S /\ \A x \in S : \E y \in S : Precedes(y, x)
    BY <1>13, <1>14, <2>1
  <2> QED
    BY <1>1, <2>1, <2>2
<1>15. ToSet(ordered)' = DOMAIN moves' /\ IsInjective(ordered)'
  BY <1>1, <1>10
<1> QED
  BY <1>14, <1>15 DEF VacatedFirst, SlotOf

(* What holds of the snapshots and of the moves between them.                *)
MoveInv ==
  /\ Snapshot(before, org.spill)
  /\ Built => Snapshot(layout, org.spill)
  /\ pc \in {"compared", "order", "done"} => moves = SlotMoves
  /\ pc \notin {"order", "done"} => ordered = <<>>
  /\ pc = "order" => InLine
  /\ VacatedFirst

(* The moves of two snapshots are moves.                                     *)
LEMMA MoveTypes ==
  ASSUME MoveInv, pc \in {"compared", "order", "done"}
  PROVE  moves \in Seq(Moves)
BY MovesAre DEF MoveInv, Built, Snapshot

LEMMA StepMoves == PlaceInv /\ MoveInv /\ [Next]_vars => MoveInv'
<1> SUFFICES ASSUME PlaceInv, MoveInv, [Next]_vars
             PROVE  MoveInv'
  OBVIOUS
<1>1. ASSUME pc \in {"start", "place"}, pc' \in {"start", "place"}, UNCHANGED <<org, before, mover>>
      PROVE  MoveInv'
  BY <1>1 DEF MoveInv, mover, Built, VacatedFirst
<1>2. CASE Start
  BY <1>1, <1>2 DEF Start
<1>3. CASE Skip \/ Place \/ LookAhead \/ Fill \/ NextUnit
  BY <1>1, <1>3 DEF Skip, Place, LookAhead, Fill, NextUnit, UnitOver, Full
<1>4. CASE Expand
  <2>1. pc = "place" /\ pc' = "built" /\ UNCHANGED <<org, before, mover>>
    BY <1>4 DEF Expand
  <2>2. Snapshot(layout', org.spill)
    BY <1>4, ExpandSnapshot
  <2> QED
    BY <2>1, <2>2 DEF MoveInv, mover, Built, VacatedFirst
<1>5. CASE Remember
  <2>1. pc = "built" /\ pc' = "start" /\ before' = layout /\ UNCHANGED <<org, mover>>
    BY <1>5 DEF Remember
  <2> QED
    BY <2>1 DEF MoveInv, mover, Built, VacatedFirst
<1>6. CASE Compare
  <2>1. pc = "built" /\ pc' = "compared" /\ moves' = SlotMoves /\ UNCHANGED <<org, before, layout, ordered>>
    BY <1>6 DEF Compare, builder
  <2>2. SlotMoves' = SlotMoves
    BY <2>1 DEF SlotMoves, Displaced, LastOf, In, Moved, SlotOf
  <2> QED
    BY <2>1, <2>2 DEF MoveInv, Built, VacatedFirst
<1>7. ASSUME UNCHANGED <<org, before, layout, moves>>, pc \in {"compared", "order", "done"}
      PROVE  SlotMoves' = SlotMoves /\ moves = SlotMoves /\ moves \in Seq(Moves)
             /\ Snapshot(before', org'.spill) /\ Snapshot(layout', org'.spill)
  BY <1>7, MoveTypes DEF MoveInv, Built, SlotMoves, Displaced, LastOf, In, Moved, SlotOf
<1>8. CASE FindFree
  <2>1. pc = "compared" /\ pc' = "order" /\ UNCHANGED <<org, before, layout, moves, ordered>>
    BY <1>8 DEF FindFree, builder
  <2>2. InLine'
    BY <1>7, <1>8, <2>1, FindFreeLines DEF MoveInv
  <2> QED
    BY <1>7, <2>1, <2>2 DEF MoveInv, VacatedFirst
<1>9. CASE OrderNext
  <2>1. pc = "order" /\ pc' = "order" /\ UNCHANGED <<org, before, layout, moves>>
    BY <1>9 DEF OrderNext, builder
  <2>2. InLine'
    BY <1>7, <1>9, <2>1, OrderNextLines DEF MoveInv
  <2> QED
    BY <1>7, <2>1, <2>2 DEF MoveInv, VacatedFirst
<1>10. CASE OrderRest
  <2>1. pc = "order" /\ pc' = "done" /\ UNCHANGED <<org, before, layout, moves>>
    BY <1>10 DEF OrderRest, builder
  <2>2. VacatedFirst'
    BY <1>7, <1>10, <2>1, OrderRestLines DEF MoveInv
  <2> QED
    BY <1>7, <2>1, <2>2 DEF MoveInv
<1>11. ASSUME NEW r \in Record, NEW folder \in Folder, ChangeFolder(r, folder)
       PROVE  MoveInv'
  BY <1>1, <1>11 DEF ChangeFolder
<1>12. CASE UNCHANGED vars
  <2>1. UNCHANGED <<org, before, layout, moves, ready, ordered, pc>>
    BY <1>12 DEF vars, builder, mover
  <2>2. SlotMoves' = SlotMoves
    BY <2>1 DEF SlotMoves, Displaced, LastOf, In, Moved, SlotOf
  <2>3. (InLine' <=> InLine) /\ (VacatedFirst' <=> VacatedFirst) /\ (Built' <=> Built)
    BY <2>1 DEF InLine, VacatedFirst, Built, Free, Precedes
  <2> QED
    BY <2>1, <2>2, <2>3 DEF MoveInv
<1> QED
  BY <1>2, <1>3, <1>4, <1>5, <1>6, <1>8, <1>9, <1>10, <1>11, <1>12 DEF Next, PlaceNext

(* The moves between two snapshots lead from one to the other, and no slot   *)
(* is filled before it is vacated (ComputeSlotMoves and OrderSlotMoves).     *)
THEOREM ShelvingMovesLead == Spec => []MovesLead
<1>1. Init => PlaceInv /\ MoveInv
  <2> SUFFICES ASSUME Init
               PROVE  PlaceInv /\ MoveInv
    OBVIOUS
  <2>1. pc = "start" /\ before = <<>> /\ ordered = <<>>
    BY DEF Init
  <2>2. <<>> \in Seq(Places) /\ Len(<<>>) = 0
    BY EmptySeq
  <2>3. Snapshot(before, org.spill)
    BY <2>1, <2>2 DEF Snapshot
  <2> QED
    BY <2>1, <2>3, InitTypes DEF PlaceInv, MoveInv, Built, VacatedFirst
<1>2. (PlaceInv /\ MoveInv) /\ [Next]_vars => (PlaceInv /\ MoveInv)'
  BY StepPlaces, StepMoves
<1>3. MoveInv => MovesLead
  <2> SUFFICES ASSUME MoveInv
               PROVE  MovesLead
    OBVIOUS
  <2>1. CASE pc = "compared"
    BY <2>1, MovesLeadThere DEF MoveInv, Built, MovesLead
  <2>2. CASE pc # "compared"
    BY <2>2 DEF MoveInv, MovesReach, MovesLead
  <2> QED
    BY <2>1, <2>2
<1> QED
  BY <1>1, <1>2, <1>3, PTL DEF Spec
=============================================================================
