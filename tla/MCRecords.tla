----------------------------- MODULE MCRecords -----------------------------
(* Instances of Records for TLC. *)
EXTENDS Records

(* A width with a folder; a score; a record that arrives and is kept         *)
(* digitally; the listening pile, folder 1, which sets another width.        *)
MCOffers ==
  {[Unset EXCEPT !["width"] = 2, !["folder"] = 3], [Unset EXCEPT !["score"] = 4, !["listen"] = 2],
   [Unset EXCEPT !["keep"] = Digital, !["arrived"] = 1], [Unset EXCEPT !["folder"] = 1]}
(* What is kept digitally belongs in folder 2. *)
MCRules == {[field |-> "keep", value |-> Digital, folder |-> 2]}
(* A record is there or has yet to be bought. *)
MCOwned == {{}, {1}}
MCPurchase == [Unset EXCEPT !["price"] = 1, !["location"] = 1]
MCEdits == {<<"width", 3>>, <<"folder", 3>>}
============================================================================
