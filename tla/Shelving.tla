------------------------------ MODULE Shelving ------------------------------
(***************************************************************************)
(* Laying out records on shelves (org/org.go, org/diff.go, server/org.go). *)
(*                                                                         *)
(* BuildSnapshot sorts the records of an organisation, groups them, and    *)
(* fills the units of its spaces one after the other; what fits nowhere    *)
(* goes to an endless space, Spill.  When records have changed folders a   *)
(* second snapshot is compared with the first, and the records whose slot  *)
(* changed are listed so that a slot is vacated before it is filled.       *)
(*                                                                         *)
(* Names, labels and dates are numbers that sort as they do, 0 for none.   *)
(***************************************************************************)
EXTENDS Integers, Sequences, SequencesExt, FiniteSetsExt, Subsequences

CONSTANTS
  Record,      \* the records
  Attr,        \* what is known of each
  Folder,      \* the folders
  Orgs,        \* the organisations there may be
  MaxChange    \* bound: records that change folders between two snapshots

Sort == {"added", "artist", "catno", "release", "earliest"}
Density == {"count", "disks", "width"}
FolderSet == [folder : Folder, sort : Sort, index : Nat]
Space == [width : Nat, units : Nat \ {0}]
Attributes == [keys : [Sort -> Nat], label : Nat, width : Nat, mult : Nat \ {0}, formats : Seq(Nat)]
Organisation == [sets : Seq(FolderSet), spaces : Seq(Space), density : Density,
                 grouping : BOOLEAN, spill : BOOLEAN, look : Int, average : BOOLEAN]

VARIABLES
  org,      \* the organisation
  folderOf, \* the folder of each record
  pc,       \* what BuildSnapshot is doing
  ord,      \* ordList: the groups in order, with their widths
  i,        \* the group to place
  ahead,    \* the group the look-ahead tries, 0 when there is no look-ahead
  slot,     \* currSlot, currUnit and currSlotWidth
  unit,
  used,
  load,     \* history: the width placed in each unit
  placed,   \* the ids of the groups placed
  layout,   \* the placements, of groups and then of records
  before,   \* the previous snapshot
  changed,  \* how many records changed folders
  moves,    \* ComputeSlotMoves: the records whose slot changed
  ready,    \* OrderSlotMoves: the moves nothing has to precede
  ordered   \* the moves in order

builder == <<ord, i, ahead, slot, unit, used, load, placed, layout>>
mover == <<moves, ready, ordered>>
vars == <<org, folderOf, pc, builder, before, changed, mover>>

(* A folder is in one folder set: with two the code would shelve the records *)
(* in it twice, which is not modelled.                                       *)
ASSUME ConstantsAssumption ==
  /\ Record \subseteq Nat /\ IsFiniteSet(Record) /\ MaxChange \in Nat
  /\ Attr \in [Record -> Attributes]
  /\ Orgs \subseteq Organisation
  /\ \A o \in Orgs : \A j, k \in DOMAIN o.sets : o.sets[j].folder = o.sets[k].folder => j = k

----------------------------------------------------------------------------
(* The order of the records.                                                 *)

SetOf(r) == CHOOSE k \in DOMAIN org.sets : org.sets[k].folder = folderOf[r]
Kept == {r \in Record : \E k \in DOMAIN org.sets : org.sets[k].folder = folderOf[r]}
At(index) == {r \in Kept : org.sets[SetOf(r)].index = index}

(* The sort of the last folder set that has records at an index counts.      *)
SortAt(index) == org.sets[Max({SetOf(r) : r \in At(index)})].sort

(* Mutant: what has no date or name comes first.                             *)
LateFirst(sort, r) == 0

(* Records without a date or a name come last; those with one earliest       *)
(* release go by their release.  Records that tie stand as they were.        *)
Late(sort, r) == IF Attr[r].keys[sort] = 0 THEN 1 ELSE 0
Rank(r) ==
  LET index == org.sets[SetOf(r)].index
      sort == SortAt(index)
      tie == IF sort = "earliest" THEN "release" ELSE sort
  IN <<index, Late(sort, r), Attr[r].keys[sort], Late(tie, r), Attr[r].keys[tie], SetOf(r), r>>

InOrder ==
  LET ranks == Ascending({Rank(r) : r \in Kept})
  IN [k \in DOMAIN ranks |-> ranks[k][7]]

----------------------------------------------------------------------------
(* Widths.                                                                   *)

(* The average is of the records whose width is known.                       *)
DefaultWidth ==
  LET known == {r \in Kept : Attr[r].width > 0}
  IN IF ~ org.average THEN 0
     ELSE IF known = {} THEN 1
     ELSE Total([r \in known |-> Attr[r].width]) \div Cardinality(known)

Disks(r) ==
  IF Attr[r].formats = <<>> THEN 1
  ELSE Total([f \in DOMAIN Attr[r].formats |-> IF Attr[r].formats[f] = 0 THEN 1 ELSE Attr[r].formats[f]])
Width(r) == Attr[r].mult * (IF Attr[r].width = 0 THEN DefaultWidth ELSE Attr[r].width)

WidthOf(recs) ==
  CASE org.density = "count" -> Len(recs)
    [] org.density = "disks" -> Total([k \in DOMAIN recs |-> Disks(recs[k])])
    [] org.density = "width" -> Total([k \in DOMAIN recs |-> Width(recs[k])])

Fits(recs) == \E s \in DOMAIN org.spaces : WidthOf(recs) <= org.spaces[s].width

----------------------------------------------------------------------------
(* Groups.  With grouping, records of one label that stand together are one, *)
(* and every record with another sort is one of its own.  A group has the    *)
(* time as its id; but the one that goes on with the label of the last, or   *)
(* of none, which records of another sort had ended, has the id 0.  Without  *)
(* grouping the records are numbered.                                        *)

Iid(r) == 1000 + r
Now(r) == 2000 + r

ByCatno(r) == org.sets[SetOf(r)].sort = "catno"
Joins(order, k) ==
  /\ org.grouping /\ k > 1
  /\ ByCatno(order[k]) /\ ByCatno(order[k - 1])
  /\ Attr[order[k]].label = Attr[order[k - 1]].label

(* The label of the last record before k that is sorted by it.               *)
CurrLabel(order, k) ==
  LET earlier == {j \in 1 .. k - 1 : ByCatno(order[j])}
  IN IF earlier = {} THEN 0 ELSE Attr[order[Max(earlier)]].label

GroupId(order, k) ==
  IF ~ org.grouping THEN k
  ELSE IF ByCatno(order[k]) /\ Attr[order[k]].label = CurrLabel(order, k) THEN 0
  ELSE Now(order[k])

(* The group of the record at k.                                             *)
First(order, k) == Max({j \in 1 .. k : ~ Joins(order, j)})
Final(order, k) == Max({j \in k .. Len(order) : \A h \in k + 1 .. j : Joins(order, h)})
GroupOf(order, k) == SubSeq(order, First(order, k), Final(order, k))

(* A group that fits on no unit is broken up into records, which have their  *)
(* instance ids.                                                             *)
Element(id, recs) == [id |-> id, recs |-> recs, width |-> WidthOf(recs)]
Starts(order) == {k \in DOMAIN order : ~ Joins(order, k) \/ ~ Fits(GroupOf(order, k))}
ElementAt(order, k) ==
  IF Fits(GroupOf(order, k)) THEN Element(GroupId(order, k), GroupOf(order, k))
  ELSE Element(Iid(order[k]), <<order[k]>>)

OrdList ==
  LET order == InOrder
  IN Subsequence([k \in Starts(order) |-> ElementAt(order, k)], Starts(order))

----------------------------------------------------------------------------
(* BuildSnapshot.                                                            *)

Spill == Len(org.spaces) + 1
Room(width) == slot # Spill => used + width <= org.spaces[slot].width
Units(s) == IF s = Spill THEN 1 ELSE org.spaces[s].units

NoBuild ==
  /\ ord = <<>> /\ i = 1 /\ ahead = 0
  /\ slot = 1 /\ unit = 1 /\ used = 0
  /\ load = <<>> /\ placed = {} /\ layout = <<>>

Init ==
  /\ org \in Orgs
  /\ folderOf \in [Record -> Folder]
  /\ pc = "start"
  /\ NoBuild
  /\ before = <<>>
  /\ changed = 0
  /\ moves = <<>> /\ ready = <<>> /\ ordered = <<>>

Start ==
  /\ pc = "start"
  /\ pc' = "place"
  /\ ord' = OrdList
  /\ UNCHANGED <<org, folderOf, i, ahead, slot, unit, used, load, placed, layout, before, changed, mover>>

(* A record that was placed by a look-ahead.                                 *)
Skip ==
  /\ pc = "place" /\ ahead = 0 /\ i <= Len(ord)
  /\ ord[i].id \in placed
  /\ i' = i + 1
  /\ UNCHANGED <<org, folderOf, pc, ord, ahead, slot, unit, used, load, placed, layout, before, changed, mover>>

LoadOf(s, u) == IF <<s, u>> \in DOMAIN load THEN load[s, u] ELSE 0
Put(k) ==
  /\ placed' = placed \cup {ord[k].id}
  /\ layout' = Append(layout, [id |-> ord[k].id, space |-> slot, unit |-> unit])
  /\ used' = used + ord[k].width
  /\ load' = [su \in DOMAIN load \cup {<<slot, unit>>} |->
               IF su = <<slot, unit>> THEN LoadOf(slot, unit) + ord[k].width ELSE load[su]]

(* Mutant: the next group is left out.                                        *)
PlaceSkipping ==
  /\ pc = "place" /\ ahead = 0 /\ i <= Len(ord)
  /\ ord[i].id \notin placed
  /\ Room(ord[i].width)
  /\ Put(i)
  /\ i' = i + 2
  /\ UNCHANGED <<org, folderOf, pc, ord, ahead, slot, unit, before, changed, mover>>

Place ==
  /\ pc = "place" /\ ahead = 0 /\ i <= Len(ord)
  /\ ord[i].id \notin placed
  /\ Room(ord[i].width)
  /\ Put(i)
  /\ i' = i + 1
  /\ UNCHANGED <<org, folderOf, pc, ord, ahead, slot, unit, before, changed, mover>>

(* The unit is full.  With SPILL_BREAK_ORDERING it is filled up from the     *)
(* groups to come.                                                           *)
Full ==
  /\ pc = "place" /\ i <= Len(ord)
  /\ ord[i].id \notin placed
  /\ ~ Room(ord[i].width)
Edge == IF org.look < 0 \/ i + org.look > Len(ord) THEN Len(ord) ELSE i + org.look

LookAhead ==
  /\ Full /\ ahead = 0
  /\ org.spill /\ Edge > i
  /\ ahead' = i + 1
  /\ UNCHANGED <<org, folderOf, pc, ord, i, slot, unit, used, load, placed, layout, before, changed, mover>>

(* Mutant: the width of what was filled in is not counted.                   *)
FillUncounted ==
  /\ pc = "place" /\ ahead \in 1 .. Edge
  /\ ahead' = ahead + 1
  /\ IF Room(ord[ahead].width)
     THEN /\ placed' = placed \cup {ord[ahead].id}
          /\ layout' = Append(layout, [id |-> ord[ahead].id, space |-> slot, unit |-> unit])
          /\ load' = [su \in DOMAIN load \cup {<<slot, unit>>} |->
                       IF su = <<slot, unit>> THEN LoadOf(slot, unit) + ord[ahead].width ELSE load[su]]
          /\ UNCHANGED used
     ELSE UNCHANGED <<used, load, placed, layout>>
  /\ UNCHANGED <<org, folderOf, pc, ord, i, slot, unit, before, changed, mover>>

Fill ==
  /\ pc = "place" /\ ahead \in 1 .. Edge
  /\ ahead' = ahead + 1
  /\ IF Room(ord[ahead].width) THEN Put(ahead) ELSE UNCHANGED <<used, load, placed, layout>>
  /\ UNCHANGED <<org, folderOf, pc, ord, i, slot, unit, before, changed, mover>>

(* Nothing more goes into the unit.                                          *)
UnitOver ==
  /\ pc = "place"
  /\ IF ahead = 0 THEN Full /\ ~ (org.spill /\ Edge > i) ELSE ahead > Edge

(* Mutant: a space has no last unit.                                         *)
NextUnitEndless ==
  /\ UnitOver
  /\ ahead' = 0
  /\ used' = 0
  /\ unit' = unit + 1 /\ UNCHANGED slot
  /\ UNCHANGED <<org, folderOf, pc, ord, i, load, placed, layout, before, changed, mover>>

(* Mutant: after the last unit comes the first of the same space.            *)
NextUnitAround ==
  /\ UnitOver
  /\ ahead' = 0
  /\ used' = 0
  /\ IF unit + 1 > Units(slot) THEN unit' = 1 /\ UNCHANGED slot ELSE unit' = unit + 1 /\ UNCHANGED slot
  /\ UNCHANGED <<org, folderOf, pc, ord, i, load, placed, layout, before, changed, mover>>

NextUnit ==
  /\ UnitOver
  /\ ahead' = 0
  /\ used' = 0
  /\ IF unit + 1 > Units(slot) THEN unit' = 1 /\ slot' = slot + 1 ELSE unit' = unit + 1 /\ UNCHANGED slot
  /\ UNCHANGED <<org, folderOf, pc, ord, i, load, placed, layout, before, changed, mover>>

(* Every placement of a group becomes placements of its records.             *)
Members(id) == ord[Max({k \in DOMAIN ord : ord[k].id = id})].recs
Expanded ==
  LET places == Ascending(UNION {{k} \X DOMAIN Members(layout[k].id) : k \in DOMAIN layout})
      record(k, j) == [r |-> Members(layout[k].id)[j], space |-> layout[k].space, unit |-> layout[k].unit]
  IN [n \in DOMAIN places |-> record(places[n][1], places[n][2])]

Expand ==
  /\ pc = "place" /\ i > Len(ord)
  /\ pc' = "built"
  /\ layout' = Expanded
  /\ UNCHANGED <<org, folderOf, ord, i, ahead, slot, unit, used, load, placed, before, changed, mover>>

----------------------------------------------------------------------------
(* ComputeSlotMoves and OrderSlotMoves.                                      *)

SlotOf(p) == <<p.space, p.unit>>
LastOf(snapshot, r) == snapshot[Max({k \in DOMAIN snapshot : snapshot[k].r = r})]
In(snapshot, r) == \E k \in DOMAIN snapshot : snapshot[k].r = r

Moved(p, q) == SlotOf(p) # SlotOf(q)

(* Only the first place of a record in the first snapshot counts.            *)
Displaced ==
  {k \in DOMAIN before :
    /\ \A j \in 1 .. k - 1 : before[j].r # before[k].r
    /\ In(layout, before[k].r) /\ Moved(before[k], LastOf(layout, before[k].r))}
SlotMoves ==
  Subsequence([k \in Displaced |-> [start |-> before[k], end |-> LastOf(layout, before[k].r)]], Displaced)

Compare ==
  /\ pc = "built" /\ before # <<>>
  /\ pc' = "compared"
  /\ moves' = SlotMoves
  /\ UNCHANGED <<org, folderOf, builder, before, changed, ready, ordered>>

(* Mutant: y fills the slot x empties.                                       *)
PrecedesBackwards(y, x) == y # x /\ SlotOf(moves[y].end) = SlotOf(moves[x].start)
(* Move y empties the slot move x fills.                                     *)
Precedes(y, x) == y # x /\ SlotOf(moves[y].start) = SlotOf(moves[x].end)

Free(done) == {x \in DOMAIN moves : \A y \in DOMAIN moves : Precedes(y, x) => y \in done}
Listed(S) == Subsequence([x \in S |-> x], S)

(* The places in s of the moves there, the lowest unit first.                *)
ByUnit(s) ==
  LET ranks == Ascending({<<moves[s[a]].start.unit, a>> : a \in DOMAIN s})
  IN [k \in DOMAIN ranks |-> ranks[k][2]]

FindFree ==
  /\ pc = "compared"
  /\ pc' = "order"
  /\ ready' = Listed(Free({}))
  /\ UNCHANGED <<org, folderOf, builder, before, changed, moves, ordered>>

(* Kahn's algorithm takes the lowest unit first.                             *)
OrderNext ==
  /\ pc = "order" /\ ready # <<>>
  /\ LET k == ByUnit(ready)[1]
         done == ToSet(ordered) \cup {ready[k]}
     IN /\ ordered' = Append(ordered, ready[k])
        /\ ready' = RemoveAt(ready, k) \o Listed(Free(done) \ (done \cup ToSet(ready)))
  /\ UNCHANGED <<org, folderOf, pc, builder, before, changed, moves>>

(* What is in a cycle, or behind one, follows by units.                      *)
OrderRest ==
  /\ pc = "order" /\ ready = <<>>
  /\ LET rest == Listed(DOMAIN moves \ ToSet(ordered))
     IN ordered' = ordered \o [k \in DOMAIN rest |-> rest[ByUnit(rest)[k]]]
  /\ pc' = "done"
  /\ UNCHANGED <<org, folderOf, builder, before, changed, moves, ready>>

(* The snapshot is kept; records change folders; another one is built.       *)
Remember ==
  /\ pc = "built" /\ before = <<>> /\ layout # <<>>
  /\ pc' = "start"
  /\ before' = layout
  /\ ord' = <<>> /\ i' = 1 /\ ahead' = 0
  /\ slot' = 1 /\ unit' = 1 /\ used' = 0
  /\ load' = <<>> /\ placed' = {} /\ layout' = <<>>
  /\ UNCHANGED <<org, folderOf, changed, mover>>

ChangeFolder(r, folder) ==
  /\ pc = "start" /\ before # <<>>
  /\ changed < MaxChange
  /\ folderOf[r] # folder
  /\ folderOf' = [folderOf EXCEPT ![r] = folder]
  /\ changed' = changed + 1
  /\ UNCHANGED <<org, pc, builder, before, mover>>

PlaceNext == Skip \/ Place \/ LookAhead \/ Fill \/ NextUnit \/ Expand
Next ==
  \/ Start \/ PlaceNext
  \/ Remember \/ Compare \/ FindFree \/ OrderNext \/ OrderRest
  \/ \E r \in Record, folder \in Folder : ChangeFolder(r, folder)

Spec == Init /\ [][Next]_vars /\ WF_vars(PlaceNext)
----------------------------------------------------------------------------
(* Every variable keeps its type, and no unit but Spill is beyond its space. *)
TypeOK ==
  /\ org \in Orgs /\ folderOf \in [Record -> Folder]
  /\ pc \in {"start", "place", "built", "compared", "order", "done"}
  /\ slot \in 1 .. Spill /\ unit \in 1 .. Units(slot)
  /\ \A k \in DOMAIN ord : ord[k].width \in Nat /\ ToSet(ord[k].recs) \subseteq Kept
  /\ placed \subseteq {ord[k].id : k \in DOMAIN ord}
  /\ changed \in 0 .. MaxChange

(* No unit holds more than its width, the records a look-ahead fills in      *)
(* included.                                                                 *)
NoOverfill == \A su \in DOMAIN load : su[1] # Spill => load[su] <= org.spaces[su[1]].width

(* Two groups share an id when records of another sort stand between records *)
(* of one label; BuildSnapshot only logs it.                                 *)
Clash == \E k, l \in DOMAIN ord : k # l /\ ord[k].id = ord[l].id
Built == pc \in {"built", "compared", "order", "done"}
Shelved == [k \in DOMAIN layout |-> layout[k].r]

(* Every record of the organisation has its place, and one only unless a     *)
(* look-ahead may place it again.                                            *)
EachPlaced ==
  pc = "built" /\ ~ Clash =>
    /\ ToSet(Shelved) = Kept
    /\ org.spill \/ IsInjective(Shelved)

(* Records without a look-ahead stand in the order of their folder set, what *)
(* has no date or name last, and the slots follow one another.               *)
StandInOrder ==
  pc = "built" /\ ~ Clash /\ ~ org.spill =>
    \A k, l \in DOMAIN layout : k < l =>
      LET set == org.sets[SetOf(layout[k].r)]
          a == Attr[layout[k].r].keys[set.sort]
          b == Attr[layout[l].r].keys[set.sort]
      IN /\ ~ LexLess(SlotOf(layout[l]), SlotOf(layout[k]))
         /\ SetOf(layout[l].r) = SetOf(layout[k].r) /\ set.sort = SortAt(set.index) =>
              b = 0 \/ (a # 0 /\ a <= b)

(* The records that are sorted by one label, and no others with that label.  *)
OneLabel(recs) ==
  /\ \A j \in DOMAIN recs : ByCatno(recs[j]) /\ Attr[recs[j]].label = Attr[recs[1]].label
  /\ \A r \in Kept \ ToSet(recs) : Attr[r].label # Attr[recs[1]].label

(* Records of one label stay together where they fit.                        *)
LabelsTogether ==
  pc = "built" /\ ~ Clash /\ org.grouping =>
    LET order == InOrder IN
    \A k, l \in DOMAIN order :
      LET run == SubSeq(order, k, l)
      IN k < l /\ OneLabel(run) /\ Fits(run) =>
           SlotOf(LastOf(layout, run[1])) = SlotOf(LastOf(layout, run[Len(run)]))

(* A finished snapshot is complete and in order.                             *)
WellShelved == EachPlaced /\ StandInOrder /\ LabelsTogether

(* Who makes all the moves turns the slots of the first snapshot into those  *)
(* of the second.                                                            *)
MovesReach ==
  pc = "compared" /\ ~ org.spill =>
    \A k \in DOMAIN before : In(layout, before[k].r) =>
      LET of == {m \in ToSet(moves) : m.start = before[k]}
      IN SlotOf(LastOf(layout, before[k].r)) =
           IF of = {} THEN SlotOf(before[k]) ELSE SlotOf((CHOOSE m \in of : TRUE).end)

(* Every move is listed once, after the moves that empty the slot it fills,  *)
(* unless it waits for a cycle.                                              *)
VacatedFirst ==
  LET empties(y, x) == y # x /\ SlotOf(moves[y].start) = SlotOf(moves[x].end)
  IN pc = "done" =>
       /\ IsInjective(ordered) /\ ToSet(ordered) = DOMAIN moves
       /\ \A k, l \in DOMAIN ordered : k < l /\ empties(ordered[l], ordered[k]) =>
            \E S \in SUBSET DOMAIN moves :
              ordered[k] \in S /\ \A x \in S : \E y \in S : empties(y, x)

(* The moves are those that are needed, in an order they can be made in.     *)
MovesLead == MovesReach /\ VacatedFirst

(* A snapshot that is started is finished, whatever fits nowhere.           *)
Finishes == pc = "place" ~> Built

(* The code says of a group a look-ahead has placed that it skips it, but    *)
(* the next look-ahead does not.                                             *)
PlacedOnce == Built /\ ~ Clash => IsInjective(Shelved)
=============================================================================
