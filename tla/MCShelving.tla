----------------------------- MODULE MCShelving -----------------------------
(* Instances of Shelving for TLC. *)
EXTENDS Shelving

Rec(added, artist, catno, release, earliest, label, width, formats, mult) ==
  [keys |-> [added |-> added, artist |-> artist, catno |-> catno, release |-> release, earliest |-> earliest],
   label |-> label, width |-> width, formats |-> formats, mult |-> mult]

(* Two records of one label, one of another, one without a label, and one    *)
(* that fits on no unit; each lacks some date.                               *)
MCAttr ==
  <<Rec(3, 2, 11, 0, 2, 1, 2, <<2>>, 1),
    Rec(0, 2, 12, 5, 2, 1, 0, <<>>, 1),
    Rec(1, 0, 21, 3, 1, 2, 1, <<0, 1>>, 2),
    Rec(2, 1, 0, 4, 0, 0, 1, <<1>>, 1),
    Rec(4, 3, 22, 2, 3, 2, 4, <<3, 3>>, 2)>>
MCRecordAll == 1 .. 5

Set(folder, sort, index) == [folder |-> folder, sort |-> sort, index |-> index]
Shelf(width, units) == [width |-> width, units |-> units]
Org(sets, spaces, density, grouping, spill, look, average) ==
  [sets |-> sets, spaces |-> spaces, density |-> density, grouping |-> grouping,
   spill |-> spill, look |-> look, average |-> average]

MCOrgs ==
  {Org(<<Set(1, "catno", 0), Set(2, "artist", 1)>>, <<Shelf(1, 1), Shelf(2, 2)>>, "count", TRUE, FALSE, 0, FALSE),
   Org(<<Set(1, "catno", 0), Set(2, "catno", 0)>>, <<Shelf(3, 1), Shelf(4, 2)>>, "width", TRUE, TRUE, -1, TRUE),
   Org(<<Set(1, "earliest", 0), Set(2, "release", 1)>>, <<Shelf(3, 2)>>, "disks", FALSE, TRUE, 2, FALSE),
   Org(<<Set(1, "added", 0), Set(2, "artist", 0)>>, <<Shelf(1, 2), Shelf(2, 1)>>, "count", FALSE, FALSE, 0, FALSE),
   Org(<<Set(2, "artist", 0), Set(1, "release", 1)>>, <<Shelf(4, 1), Shelf(2, 2)>>, "width", FALSE, FALSE, 0, FALSE)}
(* One space and three units, filled ahead. *)
MCOrgsAhead == {Org(<<Set(1, "added", 0)>>, <<Shelf(3, 3)>>, "width", FALSE, TRUE, -1, FALSE)}
=============================================================================
