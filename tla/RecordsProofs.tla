---------------------------- MODULE RecordsProofs ----------------------------
(***************************************************************************)
(* What users ask for is what Discogs has and what is stored in the end,   *)
(* for any number of records, fields values and intents.                   *)
(***************************************************************************)
EXTENDS Records, SubsequenceProofs

(* What the queue, the API server and the worker hold.                       *)
IntentSet == [r : Record, change : Change, id : 0 .. MaxMoves]
IntentEntry == [kind : {"intent"}, intent : IntentSet]
MoveEntry == [kind : {"move"}, r : Record, folder : Value]
UrgentEntry == IntentEntry \cup {RefreshCollection(TRUE)}
JobEntry == MoveEntry \cup {MoveRecords, RefreshCollection(FALSE)}
Fields == [Field -> Value]
Page == [Record -> Fields \cup {None}]
WorkState ==
  [pc : {"idle", "call", "save", "wants", "delete", "fetch", "merge", "store"}, job : UrgentEntry \cup JobEntry \cup {None},
   copy : StoredRecord \cup {None}, base : StoredRecord \cup {None},
   left : Seq(Field \cup Record), page : Page \cup {None}]
ApiState ==
  [pc : {"idle", "enqueue", "score", "add", "bought"}, r : Record \cup {0}, copy : StoredRecord \cup {None},
   change : IntentSet \cup {None}, score : Value]

(* The queue has entries for intents that are saved, one for each.           *)
Stores ==
  /\ rec \in [Record -> StoredRecord \cup {None}] /\ disc \in Page
  /\ \A r \in Record : rec[r] # None => disc[r] # None
  /\ moves \in 0 .. MaxMoves /\ raced \subseteq Record /\ spoiled \subseteq Record
History ==
  /\ last \in [Record -> Change]
  /\ \A r \in Record : disc[r] = None => last[r] = Unset
Saved ==
  /\ intents \subseteq IntentSet
  /\ \A i \in intents : rec[i.r] # None /\ (i.id < moves \/ i.id = MaxMoves)
Entries ==
  /\ urgent \in Seq(UrgentEntry) /\ jobs \in Seq(JobEntry)
  /\ \A k \in DOMAIN urgent : urgent[k].kind = "intent" => urgent[k].intent \in intents
  /\ \A k, m \in DOMAIN urgent : urgent[k].kind = "intent" /\ urgent[k] = urgent[m] => k = m

(* A call of the API server has saved an intent no entry is for yet, or has  *)
(* added a record that has not got the intent of its purchase.               *)
Calling ==
  /\ api \in ApiState
  /\ api.pc # "idle" => api.r \in Record
  /\ api.pc = "score" => api.copy \in StoredRecord /\ rec[api.r] # None
  /\ api.pc = "enqueue" =>
       /\ api.change \in intents /\ api.change.r = api.r
       /\ \A k \in DOMAIN urgent : urgent[k].kind = "intent" => urgent[k].intent # api.change
  /\ api.pc \in {"add", "bought"} =>
       disc[api.r] # None /\ \A i \in intents : i.r = api.r => i.id # MaxMoves
  /\ api.pc = "bought" => rec[api.r] # None

(* The worker has the entry of the task it executes.  What is left of an     *)
(* intent is set in it, but for the oversize flag, and what is left of a     *)
(* page is of records Discogs has.                                           *)
Executing == work.pc \in {"call", "save", "wants", "delete"} /\ work.job.kind = "intent"
Moving == work.pc \in {"call", "save"} /\ work.job.kind = "move"
ByPc ==
  /\ work.pc \in {"call", "save"} => Executing \/ Moving
  /\ work.pc \in {"wants", "delete"} => Executing
  /\ work.pc \in {"fetch", "merge", "store"} => work.job \in {RefreshCollection(TRUE), RefreshCollection(FALSE)}
  /\ work.pc # "idle" /\ work.job \in UrgentEntry => urgent # <<>> /\ Head(urgent) = work.job
TakenIntent == Executing =>
  /\ work.job \in IntentEntry /\ work.copy \in StoredRecord /\ work.copy = work.base
  /\ work.left \in Seq(Field)
  /\ \A f \in Elements(work.left) : Wanted[f] # 0 \/ f = "oversize"
  /\ work.pc = "save" => work.left # <<>>
  /\ work.pc = "delete" => work.left = <<>>
TakenMove == Moving =>
  /\ work.job \in MoveEntry /\ work.copy \in StoredRecord /\ work.copy = work.base
  /\ rec[work.job.r] # None
Merging == work.pc \in {"merge", "store"}
TakenPage == Merging =>
  /\ work.page \in Page /\ work.left \in Seq(Record)
  /\ \A r \in Elements(work.left) : work.page[r] # None /\ disc[r] # None
  /\ work.pc = "store" =>
       work.left # <<>> /\ work.copy \in StoredRecord \cup {None} /\ work.copy = work.base
Working == work \in WorkState /\ ByPc /\ TakenIntent /\ TakenMove /\ TakenPage

TypeInv == Stores /\ History /\ Saved /\ Entries /\ Calling /\ Working

(*-------------------------------------------------------------------------*)
(* An entry that sets the field of a record.                                 *)
Claim(k, r, f) ==
  urgent[k].kind = "intent" /\ urgent[k].intent.r = r /\ urgent[k].intent.change[f] # 0
Claimed(r, f) == \E k \in DOMAIN urgent : Claim(k, r, f)

(* The fields Discogs keeps and only intents change.                         *)
Kept == Remote \ {"folder"}

(* The last entry that sets a field has what the user wanted last, and if    *)
(* there is none Discogs has it.                                             *)
Newest(r, f) ==
  \A k \in DOMAIN urgent :
    Claim(k, r, f) /\ (\A m \in DOMAIN urgent : Claim(m, r, f) => m <= k)
      => urgent[k].intent.change[f] = last[r][f]
Wins(r) == r \notin spoiled =>
  \A f \in Kept : last[r][f] # 0 =>
    Newest(r, f) /\ (Claimed(r, f) \/ disc[r][f] = Applied(f, last[r][f]))

(* What is stored agrees with Discogs but for fields an entry sets.          *)
Follows(r) == r \notin raced \cup spoiled /\ disc[r] # None =>
  \A f \in Kept : IF rec[r] = None THEN disc[r][f] = 0
                                   ELSE Claimed(r, f) \/ rec[r].fields[f] = disc[r][f]

(* A field of the intent that is executed is left to do, or Discogs has it;  *)
(* and it is left to save, or it is stored.                                  *)
ToSend == IF work.pc = "save" THEN Elements(Tail(work.left)) ELSE Elements(work.left)
Sent == Executing /\ Of \notin spoiled =>
  \A f \in Kept : Wanted[f] # 0 => f \in ToSend \/ disc[Of][f] = Applied(f, Wanted[f])
Stored == Executing /\ Of \notin raced \cup spoiled =>
  /\ rec[Of].fields = work.copy.fields
  /\ \A f \in Kept : Wanted[f] # 0 =>
       f \in Elements(work.left) \/ rec[Of].fields[f] = Applied(f, Wanted[f])
(* What is left of a page is what Discogs has.                               *)
Paged == Merging =>
  \A r \in Elements(work.left) \ spoiled : \A f \in Kept : work.page[r][f] = disc[r][f]

RecordInv(r) == Wins(r) /\ Follows(r)
TaskInv == Sent /\ Stored /\ Paged
SyncInv == TaskInv /\ \A r \in Record : RecordInv(r)

(*-------------------------------------------------------------------------*)
(* Sequences                                                               *)

(* Where things are once the first of a sequence is gone.                    *)
LEMMA TailPlaces ==
  ASSUME NEW S, NEW s \in Seq(S), s # <<>>
  PROVE  /\ Tail(s) \in Seq(S) /\ Head(s) \in S /\ Head(s) = s[1] /\ 1 \in DOMAIN s
         /\ DOMAIN s \subseteq Nat \ {0}
         /\ \A k \in DOMAIN Tail(s) : k \in Nat \ {0} /\ k + 1 \in DOMAIN s /\ Tail(s)[k] = s[k + 1]
         /\ \A k \in DOMAIN s : k = 1 \/ (k - 1 \in DOMAIN Tail(s) /\ Tail(s)[k - 1] = s[k])
<1>1. /\ Head(s) \in S /\ Tail(s) \in Seq(S) /\ Len(Tail(s)) = Len(s) - 1
      /\ \A i \in 1 .. Len(Tail(s)) : Tail(s)[i] = s[i + 1]
  BY HeadTailProperties
<1>2. Len(s) \in Nat /\ Len(s) > 0 /\ DOMAIN s = 1 .. Len(s) /\ DOMAIN Tail(s) = 1 .. Len(s) - 1 /\ Head(s) = s[1]
  BY <1>1, EmptySeq, LenProperties
<1>3. PICK rest : rest = Tail(s)
  OBVIOUS
<1>4. \A k \in 1 .. Len(s) - 1 : k \in Nat \ {0} /\ k + 1 \in 1 .. Len(s) /\ rest[k] = s[k + 1]
  BY <1>1, <1>2, <1>3
<1>5. \A k \in 1 .. Len(s) : k = 1 \/ (k - 1 \in 1 .. Len(s) - 1 /\ rest[k - 1] = s[k])
  <2> SUFFICES ASSUME NEW k \in 1 .. Len(s), k # 1
               PROVE  k - 1 \in 1 .. Len(s) - 1 /\ rest[k - 1] = s[k]
    OBVIOUS
  <2>1. k - 1 \in 1 .. Len(s) - 1 /\ (k - 1) + 1 = k
    BY <1>2
  <2> QED
    BY <1>4, <2>1
<1> QED
  BY <1>1, <1>2, <1>3, <1>4, <1>5

(* Where things are once one more is behind them.                            *)
LEMMA AppendPlaces ==
  ASSUME NEW S, NEW s \in Seq(S), NEW e \in S
  PROVE  /\ Append(s, e) \in Seq(S) /\ Append(s, e) # <<>>
         /\ s # <<>> => Head(Append(s, e)) = Head(s)
         /\ s = <<>> => Head(Append(s, e)) = e
         /\ \E n \in Nat \ {0} :
              /\ DOMAIN Append(s, e) = DOMAIN s \cup {n} /\ Append(s, e)[n] = e
              /\ \A k \in DOMAIN s : k \in Nat /\ k < n /\ Append(s, e)[k] = s[k]
<1>1. /\ Append(s, e) \in Seq(S) /\ Append(s, e) # <<>> /\ Len(Append(s, e)) = Len(s) + 1
      /\ \A i \in 1 .. Len(s) : Append(s, e)[i] = s[i]
      /\ Append(s, e)[Len(s) + 1] = e
  BY AppendProperties
<1>2. Len(s) \in Nat /\ DOMAIN s = 1 .. Len(s)
  BY LenProperties
<1>3. DOMAIN Append(s, e) = 1 .. Len(s) + 1
  BY <1>1, LenProperties
<1>4. PICK longer : longer = Append(s, e)
  OBVIOUS
<1>5. Head(longer) = longer[1]
  BY <1>1, <1>4
<1>6. s # <<>> => Len(s) > 0 /\ Head(s) = s[1]
  BY <1>2, EmptySeq
<1>7. s = <<>> => Len(s) = 0
  BY EmptySeq
<1>8. (s # <<>> => Head(longer) = Head(s)) /\ (s = <<>> => Head(longer) = e)
  BY <1>1, <1>2, <1>4, <1>5, <1>6, <1>7
<1>9. /\ Len(s) + 1 \in Nat \ {0} /\ DOMAIN longer = DOMAIN s \cup {Len(s) + 1} /\ longer[Len(s) + 1] = e
      /\ \A k \in DOMAIN s : k \in Nat /\ k < Len(s) + 1 /\ longer[k] = s[k]
  BY <1>1, <1>2, <1>3, <1>4
<1> QED
  BY <1>1, <1>4, <1>8, <1>9

(* A finite set in some order.                                               *)
LEMMA SetToSeqTypes ==
  ASSUME NEW S, IsFiniteSet(S)
  PROVE  SetToSeq(S) \in Seq(S)
<1>1. Cardinality(S) \in Nat /\ ExistsBijection(1 .. Cardinality(S), S)
  BY FS_CardinalityType
<1>2. PICK g : g \in Bijection(1 .. Cardinality(S), S)
  BY <1>1 DEF ExistsBijection
<1>3. g \in [1 .. Cardinality(S) -> S] /\ IsInjective(g)
  BY <1>2 DEF Bijection, Injection
<1>4. SetToSeq(S) \in [1 .. Cardinality(S) -> S]
  BY <1>3 DEF SetToSeq
<1> QED
  BY <1>1, <1>4

(* There are finitely many moves to make.                                    *)
LEMMA MovesFinite == IsFiniteSet(MoveEntry)
<1> DEFINE pairs == Record \X Value
           move == [p \in pairs |-> MoveRecord(p[1], p[2])]
<1>1. IsFiniteSet(Record) /\ IsFiniteSet(Value)
  BY ConstantsAssumption, FS_Interval DEF Record, Value
<1>2. IsFiniteSet(pairs)
  BY <1>1, FS_Product
<1>3. move \in [pairs -> MoveEntry]
  BY DEF MoveRecord, MoveEntry
<1>4. \A m \in MoveEntry : \E p \in pairs : move[p] = m
  <2> TAKE m \in MoveEntry
  <2>1. m = [kind |-> "move", r |-> m.r, folder |-> m.folder] /\ <<m.r, m.folder>> \in pairs
    BY DEF MoveEntry
  <2>2. move[<<m.r, m.folder>>] = m
    BY <2>1 DEF MoveRecord
  <2> QED
    BY <2>1, <2>2
<1>5. move \in Surjection(pairs, MoveEntry)
  BY <1>3, <1>4 DEF Surjection
<1> HIDE DEF pairs, move
<1> QED
  BY <1>2, <1>5, FS_Surjection

(*-------------------------------------------------------------------------*)
(* The operators of the model                                              *)

(* Kinds tell the entries of the queue apart.                                *)
LEMMA EntryKinds ==
  /\ \A e \in IntentEntry : e.kind = "intent" /\ e.intent \in IntentSet /\ e = RefreshIntents(e.intent)
  /\ \A e \in UrgentEntry : e \in IntentEntry \/ (e = RefreshCollection(TRUE) /\ e.kind = "refresh")
  /\ \A e \in MoveEntry : e.kind = "move" /\ e.r \in Record /\ e.folder \in Value
  /\ \A e \in JobEntry : \/ e \in MoveEntry
                         \/ e = MoveRecords /\ e.kind = "moves"
                         \/ e = RefreshCollection(FALSE) /\ e.kind = "refresh"
  /\ \A e \in JobEntry : e \notin UrgentEntry
<1>1. \A e \in IntentEntry : e.kind = "intent" /\ e.intent \in IntentSet /\ e = RefreshIntents(e.intent)
  BY DEF IntentEntry, RefreshIntents
<1>2. \A e \in MoveEntry : e.kind = "move" /\ e.r \in Record /\ e.folder \in Value
  BY DEF MoveEntry
<1>3. MoveRecords.kind = "moves" /\ RefreshCollection(TRUE).kind = "refresh" /\ RefreshCollection(FALSE).kind = "refresh"
  BY DEF MoveRecords, RefreshCollection
<1>4. RefreshCollection(FALSE) # RefreshCollection(TRUE)
  <2>1. RefreshCollection(FALSE).forced = FALSE /\ RefreshCollection(TRUE).forced = TRUE
    BY DEF RefreshCollection
  <2> QED
    BY <2>1
<1>5. \A e \in UrgentEntry : e \in IntentEntry \/ (e = RefreshCollection(TRUE) /\ e.kind = "refresh")
  BY <1>3 DEF UrgentEntry
<1>6. \A e \in JobEntry : \/ e \in MoveEntry
                          \/ e = MoveRecords /\ e.kind = "moves"
                          \/ e = RefreshCollection(FALSE) /\ e.kind = "refresh"
  BY <1>3 DEF JobEntry
<1>7. \A e \in JobEntry : e \notin UrgentEntry
  <2> SUFFICES ASSUME NEW e \in JobEntry, e \in UrgentEntry PROVE FALSE
    OBVIOUS
  <2>1. e.kind \in {"intent", "refresh"}
    BY <1>1, <1>5
  <2>2. e = RefreshCollection(FALSE)
    BY <1>2, <1>6, <2>1
  <2> QED
    BY <1>1, <1>3, <1>4, <1>5, <2>2
<1> QED
  BY <1>1, <1>2, <1>5, <1>6, <1>7

(* What the constants and the fields are.                                    *)
LEMMA FieldFacts ==
  /\ 0 \in Value /\ 1 \in Value /\ Pile \in Value /\ Default \in Value
  /\ {"clean", "width", "weight", "goal", "sleeve", "arrived", "keep", "score",
      "folder", "oversize", "price", "location", "package", "listen"} = Field
  /\ Mirrored \subseteq Field /\ Kept \subseteq Field /\ "folder" \notin Kept /\ "oversize" \notin Kept
  /\ "keep" \in Kept /\ "keep" \notin Mirrored
  /\ Reset = -1 /\ Reset \notin Value /\ Digital = 2
<1>1. MaxVal \in Nat /\ Pile \in Value \ {0} /\ Default \in Value \ {0}
  BY ConstantsAssumption
<1>2. 0 \in Value /\ 1 \in Value
  BY <1>1 DEF Value
<1>3. Reset = -1 /\ Reset \notin Value /\ Digital = 2
  BY <1>1 DEF Reset, Value, Digital
<1>4. DOMAIN Steps = 1 .. 14
  BY DEF Steps
<1>5. /\ Steps[1] = "clean" /\ Steps[2] = "width" /\ Steps[3] = "weight" /\ Steps[4] = "goal"
      /\ Steps[5] = "sleeve" /\ Steps[6] = "arrived" /\ Steps[7] = "keep" /\ Steps[8] = "score"
      /\ Steps[9] = "folder" /\ Steps[10] = "oversize" /\ Steps[11] = "price" /\ Steps[12] = "location"
      /\ Steps[13] = "package" /\ Steps[14] = "listen"
  BY DEF Steps
<1>6. 1 .. 14 = {1, 2, 3, 4, 5, 6, 7, 8, 9, 10, 11, 12, 13, 14}
  OBVIOUS
<1>7. {"clean", "width", "weight", "goal", "sleeve", "arrived", "keep", "score",
       "folder", "oversize", "price", "location", "package", "listen"} = Field
  <2> HIDE DEF Steps
  <2> QED
    BY <1>4, <1>5, <1>6 DEF Field
<1>8. /\ Mirrored \subseteq Field /\ Kept \subseteq Field /\ "folder" \notin Kept /\ "oversize" \notin Kept
      /\ "keep" \in Kept /\ "keep" \notin Mirrored
  BY <1>7 DEF Mirrored, Kept, Remote
<1> QED
  BY <1>1, <1>2, <1>3, <1>7, <1>8

(* What a change does to a field is a value of it.                           *)
LEMMA AppliedTypes ==
  ASSUME NEW change \in Change, NEW f \in Field
  PROVE  /\ change[f] \in Value \cup {Reset}
         /\ change[f] # 0 => Applied(f, change[f]) \in Value
         /\ change[f] # 0 /\ f \notin Resettable => Applied(f, change[f]) = change[f] /\ change[f] \in Value
         /\ f = "keep" => (Applied(f, change[f]) = Digital <=> change[f] = Digital)
<1>1. /\ change \in [Field -> Value \cup {Reset}]
      /\ \A g \in Field \ Resettable : change[g] # Reset
      /\ change["score"] # 0 => Applied("score", change["score"]) \in Value
  BY DEF Change
<1>2. change[f] \in Value \cup {Reset}
  BY <1>1
<1>3. 0 \in Value /\ Digital = 2 /\ Reset = -1 /\ Reset \notin Value
  BY FieldFacts
<1>4. f # "score" => Applied(f, change[f]) = IF change[f] = Reset THEN 0 ELSE change[f]
  BY DEF Applied
<1>5. change[f] # 0 => Applied(f, change[f]) \in Value
  BY <1>1, <1>2, <1>3, <1>4
<1>6. change[f] # 0 /\ f \notin Resettable => Applied(f, change[f]) = change[f] /\ change[f] \in Value
  <2>1. "score" \in Resettable
    BY DEF Resettable
  <2> QED
    BY <1>1, <1>2, <1>4, <2>1
<1>7. f = "keep" => (Applied(f, change[f]) = Digital <=> change[f] = Digital)
  BY <1>3, <1>4
<1> QED
  BY <1>2, <1>5, <1>6, <1>7

(* A step of an intent changes the field it is for and no other, and the     *)
(* step for the oversize flag may change nothing.                            *)
LEMMA ProcessedTypes ==
  ASSUME NEW copy \in StoredRecord, NEW change \in Change, NEW f \in Field, change[f] # 0 \/ f = "oversize"
  PROVE  /\ Processed(copy, f, change[f]) \in StoredRecord
         /\ \A g \in Field \ {f} : Processed(copy, f, change[f]).fields[g] = copy.fields[g]
         /\ f \in Kept => Processed(copy, f, change[f]).fields[f] = Applied(f, change[f])
<1> DEFINE v == change[f]
<1>1. copy.fields \in Fields /\ copy.scores \in SUBSET Value
  BY DEF StoredRecord, Fields
<1>2. 0 \in Value /\ Reset \notin Value /\ "oversize" \notin Kept
  BY FieldFacts
<1>3. /\ v \in Value \cup {Reset}
      /\ v # 0 => Applied(f, v) \in Value
      /\ v # 0 /\ f \notin Resettable => Applied(f, v) = v /\ v \in Value
  BY AppliedTypes
<1> HIDE DEF v
<1>4. \A w \in Value : /\ Put(copy, f, w) \in StoredRecord /\ Put(copy, f, w).fields[f] = w
                       /\ \A g \in Field \ {f} : Put(copy, f, w).fields[g] = copy.fields[g]
                       /\ Put(copy, f, w).fields \in Fields
  BY <1>1 DEF Put, StoredRecord, Fields
<1>5. CASE f = "oversize"
  <2>1. Processed(copy, f, v) = IF v = 0 THEN copy ELSE Put(copy, f, Applied(f, v))
    BY <1>5 DEF Processed, ProcessSetOversize
  <2> QED
    BY <1>2, <1>3, <1>4, <1>5, <2>1 DEF v
<1>6. CASE f = "score"
  <2>1. v # 0
    BY <1>6 DEF v
  <2>2. Processed(copy, f, v) =
          [Put(copy, "score", Applied("score", v)) EXCEPT !.scores = @ \cup {IF v = Reset THEN 0 ELSE v}]
    BY <1>6 DEF Processed, ProcessScore
  <2>3. PICK put \in StoredRecord : put = Put(copy, "score", Applied("score", v))
    BY <1>3, <1>4, <1>6, <2>1
  <2>4. (IF v = Reset THEN 0 ELSE v) \in Value
    BY <1>2, <1>3
  <2>5. /\ [put EXCEPT !.scores = @ \cup {IF v = Reset THEN 0 ELSE v}] \in StoredRecord
        /\ [put EXCEPT !.scores = @ \cup {IF v = Reset THEN 0 ELSE v}].fields = put.fields
    BY <2>4 DEF StoredRecord
  <2>6. PICK w \in Value : w = Applied("score", v)
    BY <1>3, <1>6, <2>1
  <2>7. /\ put.fields["score"] = w
        /\ \A g \in Field \ {f} : put.fields[g] = copy.fields[g]
    BY <1>4, <1>6, <2>3, <2>6
  <2>8. Processed(copy, f, v) \in StoredRecord /\ Processed(copy, f, v).fields = put.fields
    BY <2>2, <2>3, <2>5
  <2> QED
    BY <1>6, <2>6, <2>7, <2>8 DEF v
<1>7. CASE f \notin {"oversize", "score"}
  <2>1. v # 0
    BY <1>7 DEF v
  <2>2. Processed(copy, f, v) = Put(copy, f, Applied(f, v))
    <3>1. f \in {"keep", "package"} => Processed(copy, f, v) = Put(copy, f, Applied(f, v))
      BY DEF Processed, ProcessKeep, ProcessSetPackageScore
    <3>2. f \notin {"keep", "package"} => Applied(f, v) = v
      BY <1>3, <1>7, <2>1 DEF Resettable
    <3>3. f \notin {"keep", "package"} => Processed(copy, f, v) = Put(copy, f, v)
      <4>1. f \in {"clean", "width", "weight", "goal", "sleeve", "arrived", "keep", "score",
                   "folder", "oversize", "price", "location", "package", "listen"}
        BY FieldFacts
      <4> QED
        BY <1>7, <4>1 DEF Processed, ProcessSetClean, ProcessSetWidth, ProcessSetWeight, ProcessGoalFolder,
           ProcessSleeve, ProcessArrived, ProcessSetFolder, ProcessPurchasePrice, ProcessPurchaseLocation,
           ProcessListenDate
    <3> QED
      BY <3>1, <3>2, <3>3
  <2> QED
    BY <1>3, <1>4, <2>1, <2>2 DEF v
<1> QED
  BY <1>5, <1>6, <1>7

(* What an intent has to do is what it sets, and the oversize flag.          *)
LEMMA LeftTypes ==
  ASSUME NEW change \in Change
  PROVE  /\ Left(change) \in Seq(Field)
         /\ Elements(Left(change)) = {f \in Field : change[f] # 0 \/ f = "oversize"}
<1> DEFINE places == {i \in DOMAIN Steps : change[Steps[i]] # 0 \/ Steps[i] = "oversize"}
<1>1. DOMAIN Steps = 1 .. 14
  BY DEF Steps
<1>2. places \in SUBSET (1 .. 14)
  BY <1>1
<1>3. places \in SUBSET Int /\ IsFiniteSet(places)
  <2> HIDE DEF places
  <2> QED
    BY <1>2, PlacesFinite
<1>4. {Steps[i] : i \in places} = {f \in Field : change[f] # 0 \/ f = "oversize"}
  BY DEF Field
<1>5. Left(change) = Subsequence(Steps, places)
  BY DEF Left
<1> HIDE DEF places
<1>6. /\ Elements(Subsequence(Steps, places)) = {Steps[i] : i \in places}
      /\ Subsequence(Steps, places) \in Seq({Steps[i] : i \in places})
  BY <1>3, ElementsOfPart
<1>7. {f \in Field : change[f] # 0 \/ f = "oversize"} \subseteq Field
  OBVIOUS
<1>8. Subsequence(Steps, places) \in Seq(Field)
  BY <1>4, <1>6, <1>7, SeqMonotonic
<1> QED
  BY <1>4, <1>5, <1>6, <1>8

(* What is read of a page is what Discogs has.                               *)
LEMMA PageTypes ==
  ASSUME NEW S \in SUBSET Record
  PROVE  /\ Subsequence([r \in Record |-> r], S) \in Seq(Record)
         /\ Elements(Subsequence([r \in Record |-> r], S)) = S
<1> DEFINE same == [r \in Record |-> r]
<1>1. S \in SUBSET Int /\ IsFiniteSet(S)
  BY ConstantsAssumption, PlacesFinite DEF Record
<1>2. {same[r] : r \in S} = S
  OBVIOUS
<1> HIDE DEF same
<1>3. /\ Elements(Subsequence(same, S)) = {same[r] : r \in S}
      /\ Subsequence(same, S) \in Seq({same[r] : r \in S})
  BY <1>1, ElementsOfPart
<1> QED
  BY <1>2, <1>3, SeqMonotonic DEF same

(* What is not set at Discogs overwrites nothing.                            *)
LEMMA MergedTypes ==
  ASSUME NEW stored \in StoredRecord, NEW theirs \in Fields
  PROVE  /\ Merged(stored, theirs) \in StoredRecord
         /\ \A f \in Field : Merged(stored, theirs).fields[f] =
                               IF f \in Mirrored /\ theirs[f] # 0 THEN theirs[f] ELSE stored.fields[f]
<1> DEFINE fields == [f \in Field |-> IF f \in Mirrored /\ theirs[f] # 0 THEN theirs[f] ELSE stored.fields[f]]
<1>1. fields \in Fields
  BY DEF StoredRecord, Fields
<1>2. /\ [stored EXCEPT !.fields = fields] \in StoredRecord
      /\ [stored EXCEPT !.fields = fields].fields = fields
  BY <1>1 DEF StoredRecord, Fields
<1>3. Merged(stored, theirs) = [stored EXCEPT !.fields = fields]
  BY DEF Merged
<1> QED
  BY <1>2, <1>3

(* A record nothing is known of.                                             *)
LEMMA UnsetTypes ==
  /\ Unset \in Fields /\ Unset \in Change /\ \A f \in Field : Unset[f] = 0
  /\ NewRecord \in StoredRecord /\ NewRecord.fields = Unset
<1>1. 0 \in Value /\ Reset \notin Value
  BY FieldFacts
<1>2. "score" \in Field
  BY FieldFacts
<1> QED
  BY <1>1, <1>2 DEF Unset, Fields, Change, NewRecord, StoredRecord

(* A change is still one after the API server has normalised it, and so is   *)
(* a later change laid over an earlier one.                                  *)
LEMMA NormalisedTypes ==
  ASSUME NEW change \in Change
  PROVE  Normalised(change) \in Change
<1>1. 0 \in Value /\ 1 \in Value /\ Reset \notin Value /\ Pile \in Value
  BY FieldFacts
<1>2. {"score", "keep", "weight", "width"} \subseteq Field
  BY FieldFacts
<1>3. Applied("score", Reset) = 0
  BY DEF Applied
<1>4. PICK n : n = [change EXCEPT !["score"] = Reset, !["keep"] = Reset, !["weight"] = 1, !["width"] = 1]
  OBVIOUS
<1>5. change \in [Field -> Value \cup {Reset}] /\ \A f \in Field \ Resettable : change[f] # Reset
  BY DEF Change
<1>6. n \in [Field -> Value \cup {Reset}]
  BY <1>1, <1>4, <1>5
<1>7. n["score"] = Reset
  BY <1>2, <1>4, <1>5
<1>8. \A f \in Field \ Resettable : n[f] # Reset
  BY <1>1, <1>4, <1>5 DEF Resettable
<1>9. n \in Change
  BY <1>1, <1>3, <1>6, <1>7, <1>8 DEF Change
<1> QED
  BY <1>4, <1>9 DEF Normalised

(* The same for a later change laid over an earlier one.                     *)
LEMMA LaidOverTypes ==
  ASSUME NEW old \in Change, NEW new \in Change
  PROVE  [f \in Field |-> IF new[f] = 0 THEN old[f] ELSE new[f]] \in Change
<1>1. PICK n : n = [f \in Field |-> IF new[f] = 0 THEN old[f] ELSE new[f]]
  OBVIOUS
<1>2. "score" \in Field
  BY FieldFacts
<1>3. n \in [Field -> Value \cup {Reset}]
  BY <1>1 DEF Change
<1>4. \A f \in Field \ Resettable : n[f] # Reset
  BY <1>1 DEF Change
<1>5. n["score"] # 0 => Applied("score", n["score"]) \in Value
  BY <1>1, <1>2 DEF Change
<1> QED
  BY <1>1, <1>3, <1>4, <1>5 DEF Change

(*-------------------------------------------------------------------------*)
(* The queue, the API server and the worker leave each other alone         *)

(* Nothing stored or known to Discogs is deleted.                            *)
Keeps == \A r \in Record : (rec[r] # None => rec'[r] # None) /\ (disc[r] # None => disc'[r] # None)

(* What the entry the worker is about to execute may be.                     *)
LEMMA DoingTypes ==
  ASSUME TypeInv, urgent \o jobs # <<>>
  PROVE  /\ Doing \in UrgentEntry \cup JobEntry
         /\ Doing \in UrgentEntry => urgent # <<>> /\ Head(urgent) = Doing
         /\ Doing.kind = "intent" =>
              /\ Doing \in IntentEntry /\ Doing.intent \in intents
              /\ Doing.intent.r \in Record /\ Doing.intent.change \in Change /\ rec[Doing.intent.r] # None
         /\ Doing.kind = "move" => Doing \in MoveEntry
         /\ Doing.kind = "refresh" => Doing \in {RefreshCollection(TRUE), RefreshCollection(FALSE)}
<1>1. urgent \in Seq(UrgentEntry) /\ jobs \in Seq(JobEntry)
  BY DEF TypeInv, Entries
<1>2. PICK both \in Seq(UrgentEntry \cup JobEntry) : both = urgent \o jobs
  <2>1. urgent \in Seq(UrgentEntry \cup JobEntry) /\ jobs \in Seq(UrgentEntry \cup JobEntry)
    BY <1>1, SeqMonotonic
  <2>2. urgent \o jobs \in Seq(UrgentEntry \cup JobEntry)
    BY <2>1, ConcatProperties
  <2> QED
    BY <2>2
<1>3. Len(urgent) \in Nat /\ Len(jobs) \in Nat
  BY <1>1, LenProperties
<1>4. /\ Len(both) = Len(urgent) + Len(jobs)
      /\ \A i \in 1 .. Len(urgent) + Len(jobs) :
           both[i] = IF i <= Len(urgent) THEN urgent[i] ELSE jobs[i - Len(urgent)]
  BY <1>1, <1>2, ConcatProperties
<1>5. both # <<>> /\ Doing = both[1] /\ Len(both) > 0
  <2>1. Doing = Head(both) /\ both # <<>>
    BY <1>2 DEF Doing
  <2> QED
    BY <1>2, <2>1, EmptySeq, LenProperties
<1>6. \/ urgent # <<>> /\ Doing = Head(urgent) /\ Doing \in UrgentEntry
      \/ urgent = <<>> /\ Doing \in JobEntry
  <2>1. CASE urgent # <<>>
    <3>1. Len(urgent) > 0 /\ Head(urgent) = urgent[1] /\ Head(urgent) \in UrgentEntry
      BY <1>1, <1>3, <2>1, EmptySeq, TailPlaces
    <3>2. both[1] = urgent[1]
      BY <1>3, <1>4, <3>1
    <3> QED
      BY <1>5, <2>1, <3>1, <3>2
  <2>2. CASE urgent = <<>>
    <3>1. Len(urgent) = 0
      BY <2>2, EmptySeq
    <3>2. Len(jobs) > 0 /\ both[1] = jobs[1]
      BY <1>3, <1>4, <1>5, <3>1
    <3>3. jobs[1] \in JobEntry
      BY <1>1, <1>3, <3>2, ElementOfSeq
    <3> QED
      BY <1>5, <2>2, <3>2, <3>3
  <2> QED
    BY <2>1, <2>2
<1>7. PICK d \in UrgentEntry \cup JobEntry : d = Doing
  BY <1>6
<1>8. d \in UrgentEntry => urgent # <<>> /\ Head(urgent) = d
  BY <1>6, <1>7, EntryKinds
<1>9. ASSUME d.kind = "intent"
      PROVE  /\ d \in IntentEntry /\ d.intent \in intents
             /\ d.intent.r \in Record /\ d.intent.change \in Change /\ rec[d.intent.r] # None
  <2>1. d \in IntentEntry /\ d.intent \in IntentSet
    BY <1>7, <1>9, EntryKinds
  <2>2. urgent # <<>> /\ Head(urgent) = d
    BY <1>8, <2>1 DEF UrgentEntry
  <2>3. 1 \in DOMAIN urgent /\ urgent[1] = d
    BY <1>1, <2>2, TailPlaces
  <2>4. d.intent \in intents
    BY <1>9, <2>3 DEF TypeInv, Entries
  <2>5. rec[d.intent.r] # None
    BY <2>4 DEF TypeInv, Saved
  <2> QED
    BY <2>1, <2>4, <2>5 DEF IntentSet
<1>10. d.kind = "move" => d \in MoveEntry
  BY <1>7, EntryKinds
<1>11. d.kind = "refresh" => d \in {RefreshCollection(TRUE), RefreshCollection(FALSE)}
  BY <1>7, EntryKinds
<1> QED
  BY <1>7, <1>8, <1>9, <1>10, <1>11

(* The entry of the task the worker executes.                                *)
LEMMA JobTypes ==
  ASSUME TypeInv, work.pc # "idle"
  PROVE  /\ work.job \in UrgentEntry \cup JobEntry
         /\ work.job \in UrgentEntry => urgent # <<>> /\ Head(urgent) = work.job
         /\ Executing => /\ work.job \in IntentEntry /\ work.job.intent \in intents
                         /\ Of \in Record /\ Wanted \in Change /\ rec[Of] # None /\ disc[Of] # None
<1>1. work.job \in UrgentEntry => urgent # <<>> /\ Head(urgent) = work.job
  BY DEF TypeInv, Working, ByPc
<1>2. Executing => work.job \in IntentEntry
  BY DEF TypeInv, Working, TakenIntent
<1>3. work.job \in UrgentEntry \cup JobEntry
  <2>1. Moving => work.job \in MoveEntry
    BY DEF TypeInv, Working, TakenMove
  <2>2. Executing \/ Moving \/ work.job \in {RefreshCollection(TRUE), RefreshCollection(FALSE)}
    BY DEF TypeInv, Working, ByPc, WorkState
  <2> QED
    BY <1>2, <2>1, <2>2 DEF UrgentEntry, JobEntry
<1>4. ASSUME Executing
      PROVE  /\ work.job.intent \in intents
             /\ Of \in Record /\ Wanted \in Change /\ rec[Of] # None /\ disc[Of] # None
  <2>1. work.job \in UrgentEntry /\ work.job.kind = "intent" /\ work.job.intent \in IntentSet
    BY <1>2, <1>4, EntryKinds DEF UrgentEntry
  <2>2. 1 \in DOMAIN urgent /\ urgent[1] = work.job
    BY <1>1, <2>1, TailPlaces DEF TypeInv, Entries
  <2>3. work.job.intent \in intents
    BY <2>1, <2>2 DEF TypeInv, Entries
  <2>4. Of \in Record /\ Wanted \in Change
    BY <2>1 DEF IntentSet, Of, Wanted
  <2>5. rec[Of] # None
    BY <2>3 DEF TypeInv, Saved, Of
  <2> QED
    BY <2>3, <2>4, <2>5 DEF TypeInv, Stores
<1> QED
  BY <1>1, <1>2, <1>3, <1>4

(* The entry of a task that is done goes, and no other does.                 *)
LEMMA FinishRemoves ==
  ASSUME TypeInv, NEW j \in UrgentEntry \cup JobEntry, j \in UrgentEntry => urgent # <<>> /\ Head(urgent) = j,
         NEW new \in Seq(JobEntry), Finish(j, new)
  PROVE  /\ work' = Idle /\ jobs' \in Seq(JobEntry)
         /\ j \in UrgentEntry => urgent' = Tail(urgent)
         /\ j \notin UrgentEntry => urgent' = urgent
<1>1. urgent \in Seq(UrgentEntry) /\ jobs \in Seq(JobEntry)
  BY DEF TypeInv, Entries
<1>2. PICK rest \in Seq(JobEntry) : rest = Removed(jobs, j)
  <2>1. jobs # <<>> => Tail(jobs) \in Seq(JobEntry)
    BY <1>1, TailPlaces
  <2> QED
    BY <1>1, <2>1 DEF Removed
<1>3. jobs' \in Seq(JobEntry)
  BY <1>2 DEF Finish
<1>4. urgent # <<>> => Head(urgent) \in UrgentEntry
  BY <1>1, TailPlaces
<1> QED
  BY <1>3, <1>4 DEF Finish, Removed

(* The entries and the intents they are for, when the urgent ones stay.      *)
LEMMA EntriesStay ==
  ASSUME TypeInv, UNCHANGED urgent, jobs' \in Seq(JobEntry), intents \subseteq intents'
  PROVE  Entries'
BY DEF TypeInv, Entries

(* ... when there is one more,                                               *)
LEMMA EntriesGrow ==
  ASSUME TypeInv, NEW e \in UrgentEntry, urgent' = Append(urgent, e), UNCHANGED jobs, intents \subseteq intents',
         e.kind = "intent" => /\ e.intent \in intents'
                              /\ \A k \in DOMAIN urgent : urgent[k].kind = "intent" => urgent[k].intent # e.intent
  PROVE  Entries'
<1>1. urgent \in Seq(UrgentEntry) /\ jobs \in Seq(JobEntry)
  BY DEF TypeInv, Entries
<1>2. /\ urgent' \in Seq(UrgentEntry)
      /\ \E n \in Nat \ {0} :
           /\ DOMAIN urgent' = DOMAIN urgent \cup {n} /\ urgent'[n] = e
           /\ \A k \in DOMAIN urgent : k \in Nat /\ k < n /\ urgent'[k] = urgent[k]
  BY <1>1, AppendPlaces
<1>3. PICK n \in Nat : /\ DOMAIN urgent' = DOMAIN urgent \cup {n} /\ urgent'[n] = e
                       /\ \A k \in DOMAIN urgent : k \in Nat /\ k < n /\ urgent'[k] = urgent[k]
  BY <1>2
<1>4. \A k \in DOMAIN urgent' : urgent'[k].kind = "intent" => urgent'[k].intent \in intents'
  BY <1>3 DEF TypeInv, Entries
<1>5. \A k, m \in DOMAIN urgent' : urgent'[k].kind = "intent" /\ urgent'[k] = urgent'[m] => k = m
  <2> SUFFICES ASSUME NEW k \in DOMAIN urgent', NEW m \in DOMAIN urgent',
                      urgent'[k].kind = "intent", urgent'[k] = urgent'[m]
               PROVE  k = m
    OBVIOUS
  <2>1. CASE k \in DOMAIN urgent /\ m \in DOMAIN urgent
    BY <1>3, <2>1 DEF TypeInv, Entries
  <2>2. CASE k = n \/ m = n
    BY <1>3, <2>2
  <2> QED
    BY <1>3, <2>1, <2>2
<1> QED
  BY <1>1, <1>2, <1>4, <1>5 DEF Entries

(* ... when the first is gone, and its intent with it or not,                *)
LEMMA EntriesShrink ==
  ASSUME TypeInv, urgent # <<>>, urgent' = Tail(urgent), jobs' \in Seq(JobEntry),
         \/ intents' = intents
         \/ Head(urgent).kind = "intent" /\ intents' = intents \ {Head(urgent).intent}
  PROVE  Entries' /\ \A k \in DOMAIN urgent' : \E m \in DOMAIN urgent : urgent'[k] = urgent[m]
<1>1. urgent \in Seq(UrgentEntry)
  BY DEF TypeInv, Entries
<1>2. /\ urgent' \in Seq(UrgentEntry) /\ Head(urgent) = urgent[1] /\ 1 \in DOMAIN urgent
      /\ Head(urgent) \in UrgentEntry
      /\ \A k \in DOMAIN urgent' : k \in Nat \ {0} /\ k + 1 \in DOMAIN urgent /\ urgent'[k] = urgent[k + 1]
  BY <1>1, TailPlaces
<1>3. \A k \in DOMAIN urgent' : urgent'[k].kind = "intent" => urgent'[k].intent \in intents'
  <2> SUFFICES ASSUME NEW k \in DOMAIN urgent', urgent'[k].kind = "intent"
               PROVE  urgent'[k].intent \in intents'
    OBVIOUS
  <2>1. k + 1 \in DOMAIN urgent /\ k + 1 # 1 /\ urgent'[k] = urgent[k + 1]
    BY <1>2
  <2>2. urgent[k + 1].intent \in intents
    BY <2>1 DEF TypeInv, Entries
  <2>3. urgent[k + 1] # urgent[1]
    BY <1>2, <2>1 DEF TypeInv, Entries
  <2>4. urgent[k + 1] \in UrgentEntry
    BY <1>1, <2>1, LenProperties, ElementOfSeq
  <2>5. Head(urgent).kind = "intent" => urgent[k + 1].intent # Head(urgent).intent
    <3> SUFFICES ASSUME urgent[1].kind = "intent", urgent[k + 1].intent = urgent[1].intent PROVE FALSE
      BY <1>2
    <3>1. PICK a \in UrgentEntry, b \in UrgentEntry : a = urgent[1] /\ b = urgent[k + 1]
      BY <1>2, <2>4
    <3>2. a = RefreshIntents(a.intent) /\ b = RefreshIntents(b.intent)
      BY <2>1, <3>1, EntryKinds
    <3> QED
      BY <2>3, <3>1, <3>2
  <2> QED
    BY <2>1, <2>2, <2>5
<1>4. \A k, m \in DOMAIN urgent' : urgent'[k].kind = "intent" /\ urgent'[k] = urgent'[m] => k = m
  <2> SUFFICES ASSUME NEW k \in DOMAIN urgent', NEW m \in DOMAIN urgent',
                      urgent'[k].kind = "intent", urgent'[k] = urgent'[m]
               PROVE  k = m
    OBVIOUS
  <2>1. /\ k \in Nat /\ k + 1 \in DOMAIN urgent /\ urgent'[k] = urgent[k + 1]
        /\ m \in Nat /\ m + 1 \in DOMAIN urgent /\ urgent'[m] = urgent[m + 1]
    BY <1>2
  <2>2. k + 1 = m + 1
    BY <2>1 DEF TypeInv, Entries
  <2> QED
    BY <2>1, <2>2
<1>5. \A k \in DOMAIN urgent' : \E m \in DOMAIN urgent : urgent'[k] = urgent[m]
  BY <1>2
<1> QED
  BY <1>2, <1>3, <1>4, <1>5 DEF Entries

(* ... and when the first goes behind the others.                            *)
LEMMA EntriesTurn ==
  ASSUME TypeInv, urgent # <<>>, urgent' = Append(Tail(urgent), Head(urgent)), UNCHANGED <<jobs, intents>>
  PROVE  Entries' /\ \A k \in DOMAIN urgent' : \E m \in DOMAIN urgent : urgent'[k] = urgent[m]
<1>1. urgent \in Seq(UrgentEntry) /\ jobs \in Seq(JobEntry)
  BY DEF TypeInv, Entries
<1>2. PICK rest \in Seq(UrgentEntry) : rest = Tail(urgent)
  BY <1>1, TailPlaces
<1>3. /\ Head(urgent) = urgent[1] /\ 1 \in DOMAIN urgent /\ Head(urgent) \in UrgentEntry
      /\ \A k \in DOMAIN rest : k \in Nat \ {0} /\ k + 1 \in DOMAIN urgent /\ rest[k] = urgent[k + 1]
  BY <1>1, <1>2, TailPlaces
<1>4. PICK head \in UrgentEntry : head = Head(urgent) /\ urgent' = Append(rest, head)
  BY <1>2, <1>3
<1>5. /\ urgent' \in Seq(UrgentEntry)
      /\ \E n \in Nat \ {0} :
           /\ DOMAIN urgent' = DOMAIN rest \cup {n} /\ urgent'[n] = head
           /\ \A k \in DOMAIN rest : k \in Nat /\ k < n /\ urgent'[k] = rest[k]
  <2>1. /\ Append(rest, head) \in Seq(UrgentEntry)
        /\ \E n \in Nat \ {0} :
             /\ DOMAIN Append(rest, head) = DOMAIN rest \cup {n} /\ Append(rest, head)[n] = head
             /\ \A k \in DOMAIN rest : k \in Nat /\ k < n /\ Append(rest, head)[k] = rest[k]
    <3>1. head \in UrgentEntry /\ rest \in Seq(UrgentEntry)
      OBVIOUS
    <3> QED
      BY ONLY <3>1, AppendPlaces
  <2> QED
    BY <1>4, <2>1
<1>6. PICK n \in Nat : /\ DOMAIN urgent' = DOMAIN rest \cup {n} /\ urgent'[n] = Head(urgent)
                       /\ \A k \in DOMAIN rest : k \in Nat /\ k < n /\ urgent'[k] = rest[k]
  BY <1>4, <1>5
<1>7. \A k \in DOMAIN urgent' : \E m \in DOMAIN urgent : urgent'[k] = urgent[m]
  BY <1>3, <1>6
<1>8. \A k \in DOMAIN urgent' : urgent'[k].kind = "intent" => urgent'[k].intent \in intents'
  BY <1>7 DEF TypeInv, Entries
<1>9. \A k, m \in DOMAIN urgent' : urgent'[k].kind = "intent" /\ urgent'[k] = urgent'[m] => k = m
  <2> SUFFICES ASSUME NEW k \in DOMAIN urgent', NEW m \in DOMAIN urgent',
                      urgent'[k].kind = "intent", urgent'[k] = urgent'[m]
               PROVE  k = m
    OBVIOUS
  <2> DEFINE was(i) == IF i = n THEN 1 ELSE i + 1
  <2>1. \A i \in DOMAIN urgent' : i \in Nat \ {0} \/ i = n
    BY <1>3, <1>6
  <2>2. \A i \in DOMAIN urgent' : was(i) \in DOMAIN urgent /\ urgent'[i] = urgent[was(i)]
    BY <1>3, <1>6
  <2>3. was(k) = was(m)
    BY <2>2 DEF TypeInv, Entries
  <2> QED
    BY <2>1, <2>3
<1> QED
  BY <1>1, <1>5, <1>7, <1>8, <1>9 DEF Entries

(*-------------------------------------------------------------------------*)
(* Types                                                                   *)

(* The history, and the saved intents, when no other part of it changes.     *)
LEMMA HistoryStays ==
  ASSUME TypeInv, UNCHANGED last, Keeps
  PROVE  History'
BY DEF TypeInv, History, Keeps

(* Intents may go while the records they are of stay.                        *)
LEMMA SavedStays ==
  ASSUME TypeInv, Keeps, intents' \subseteq intents, moves' \in {moves, moves + 1}
  PROVE  Saved'
<1>1. intents' \subseteq IntentSet
  BY DEF TypeInv, Saved
<1>2. \A i \in intents' : rec'[i.r] # None /\ (i.id < moves' \/ i.id = MaxMoves)
  <2> SUFFICES ASSUME NEW i \in intents' PROVE rec'[i.r] # None /\ (i.id < moves' \/ i.id = MaxMoves)
    OBVIOUS
  <2>1. i \in IntentSet /\ rec[i.r] # None /\ (i.id < moves \/ i.id = MaxMoves)
    BY DEF TypeInv, Saved
  <2>2. i.r \in Record /\ i.id \in Nat /\ moves \in Nat
    BY <2>1, ConstantsAssumption DEF IntentSet, TypeInv, Stores
  <2> QED
    BY <2>1, <2>2 DEF Keeps
<1> QED
  BY <1>1, <1>2 DEF Saved

(* The API server's call is not disturbed by the worker, which takes away    *)
(* entries and the intents they are for.                                     *)
LEMMA CallingStays ==
  ASSUME TypeInv, UNCHANGED api, Keeps, intents' \subseteq intents,
         api.pc = "enqueue" => api.change \in intents',
         \A k \in DOMAIN urgent' : \E m \in DOMAIN urgent : urgent'[k] = urgent[m]
  PROVE  Calling'
<1>1. api.pc = "enqueue" => \A k \in DOMAIN urgent' : urgent'[k].kind = "intent" => urgent'[k].intent # api.change
  BY DEF TypeInv, Calling
<1>2. api.pc \in {"add", "bought"} => disc'[api.r] # None /\ \A i \in intents' : i.r = api.r => i.id # MaxMoves
  BY DEF TypeInv, Calling, Keeps
<1>3. api.pc \in {"score", "bought"} => rec'[api.r] # None
  BY DEF TypeInv, Calling, Keeps
<1> QED
  BY <1>1, <1>2, <1>3 DEF TypeInv, Calling

(* The worker goes on whatever is put behind its entry.                      *)
LEMMA WorkStays ==
  ASSUME TypeInv, UNCHANGED work, Keeps,
         urgent' = urgent \/ \E e \in UrgentEntry : urgent' = Append(urgent, e)
  PROVE  Working'
<1>1. urgent # <<>> => urgent' # <<>> /\ Head(urgent') = Head(urgent)
  <2>1. urgent \in Seq(UrgentEntry)
    BY DEF TypeInv, Entries
  <2> QED
    BY <2>1, AppendPlaces
<1>2. ByPc'
  BY <1>1 DEF TypeInv, Working, ByPc, Executing, Moving
<1>3. TakenIntent'
  BY DEF TypeInv, Working, TakenIntent, Executing, Wanted, Step
<1>4. TakenMove'
  <2>1. Moving => work.job.r \in Record
    BY EntryKinds DEF TypeInv, Working, TakenMove
  <2> QED
    BY <2>1 DEF TypeInv, Working, TakenMove, Moving, Keeps
<1>5. TakenPage'
  <2>1. Merging => Elements(work.left) \subseteq Record
    <3> SUFFICES ASSUME Merging PROVE Elements(work.left) \subseteq Record
      OBVIOUS
    <3>1. work.left \in Seq(Record)
      BY DEF TypeInv, Working, TakenPage
    <3> QED
      BY <3>1, LenProperties, ElementOfSeq DEF Elements
  <2> QED
    BY <2>1 DEF TypeInv, Working, TakenPage, Keeps, Merging
<1> QED
  BY <1>2, <1>3, <1>4, <1>5 DEF TypeInv, Working

(* A worker that is idle, and one that has just read a record.               *)
LEMMA IdleTypes ==
  /\ Idle \in WorkState /\ Idle.pc = "idle"
  /\ \A j \in UrgentEntry \cup JobEntry, copy \in StoredRecord, left \in Seq(Field) :
       [Idle EXCEPT !.pc = "call", !.job = j, !.copy = copy, !.base = copy, !.left = left] \in WorkState
  /\ \A j \in UrgentEntry \cup JobEntry : [Idle EXCEPT !.pc = "fetch", !.job = j] \in WorkState
<1>1. <<>> \in Seq(Field \cup Record)
  OBVIOUS
<1>2. \A left \in Seq(Field) : left \in Seq(Field \cup Record)
  BY SeqMonotonic
<1> QED
  BY <1>1, <1>2 DEF Idle, WorkState

(* The worker goes on with the entry it has.                                 *)
LEMMA WorkerGoesOn ==
  ASSUME TypeInv, UNCHANGED <<intents, urgent, api, last, moves>>, jobs' \in Seq(JobEntry), Stores', Keeps, Working'
  PROVE  TypeInv'
<1>1. Entries'
  BY EntriesStay
<1>2. Calling'
  BY CallingStays DEF TypeInv, Calling
<1>3. Saved' /\ History'
  BY SavedStays, HistoryStays
<1> QED
  BY <1>1, <1>2, <1>3 DEF TypeInv

(* The worker is idle without having done away with its entry.               *)
LEMMA IdleWorking == work' = Idle => Working'
BY IdleTypes DEF Working, ByPc, TakenIntent, TakenMove, TakenPage, Executing, Moving, Merging

(* The worker is done with an entry, and perhaps with its intent.            *)
LEMMA WorkerDone ==
  ASSUME TypeInv, NEW j \in UrgentEntry \cup JobEntry, j \in UrgentEntry => urgent # <<>> /\ Head(urgent) = j,
         NEW new \in Seq(JobEntry), Finish(j, new),
         intents' = intents \/ (j \in IntentEntry /\ intents' = intents \ {j.intent}),
         UNCHANGED <<api, last>>, moves' \in {moves, moves + 1}, Stores', Keeps
  PROVE  TypeInv'
<1>1. /\ work' = Idle /\ jobs' \in Seq(JobEntry)
      /\ j \in UrgentEntry => urgent' = Tail(urgent)
      /\ j \notin UrgentEntry => urgent' = urgent
  BY FinishRemoves
<1>2. Entries' /\ \A k \in DOMAIN urgent' : \E m \in DOMAIN urgent : urgent'[k] = urgent[m]
  <2>1. CASE j \in UrgentEntry
    <3>1. j \in IntentEntry => Head(urgent).kind = "intent"
      BY <2>1, EntryKinds
    <3> QED
      BY <1>1, <2>1, <3>1, EntriesShrink
  <2>2. CASE j \notin UrgentEntry
    <3>1. intents' = intents
      BY <2>2 DEF UrgentEntry
    <3> QED
      BY <1>1, <2>2, <3>1, EntriesStay
  <2> QED
    BY <2>1, <2>2
<1>3. api.pc = "enqueue" => api.change \in intents'
  <2> SUFFICES ASSUME api.pc = "enqueue", j \in IntentEntry PROVE api.change # j.intent
    BY DEF TypeInv, Calling
  <2>1. 1 \in DOMAIN urgent /\ urgent[1] = j /\ j.kind = "intent"
    BY TailPlaces, EntryKinds DEF UrgentEntry, TypeInv, Entries
  <2> QED
    BY <2>1 DEF TypeInv, Calling
<1>4. Calling'
  BY <1>2, <1>3, CallingStays
<1>5. Saved' /\ History' /\ Working'
  BY <1>1, SavedStays, HistoryStays, IdleWorking
<1> QED
  BY <1>2, <1>4, <1>5 DEF TypeInv

(* What a record or a field at Discogs is set to.                            *)
LEMMA SaveTypes ==
  ASSUME TypeInv, NEW r \in Record, NEW copy \in StoredRecord, NEW base, Save(r, copy, base),
         disc[r] # None, UNCHANGED <<disc, spoiled, moves>>
  PROVE  /\ Stores' /\ Keeps /\ rec'[r] = copy /\ copy # None
         /\ \A s \in Record \ {r} : rec'[s] = rec[s]
         /\ raced \subseteq raced' /\ (r \notin raced' => rec[r] = base)
         /\ \A s \in Record \ {r} : s \in raced' => s \in raced
<1>1. None \notin StoredRecord
  BY NoneAssumption
<1>2. rec \in [Record -> StoredRecord \cup {None}] /\ rec' = [rec EXCEPT ![r] = copy]
  BY DEF TypeInv, Stores, Save
<1>3. /\ rec' \in [Record -> StoredRecord \cup {None}]
      /\ rec'[r] = copy /\ \A s \in Record \ {r} : rec'[s] = rec[s]
  BY <1>2
<1>4. /\ raced \subseteq raced' /\ (r \notin raced' => rec[r] = base)
      /\ \A s \in Record \ {r} : s \in raced' => s \in raced
      /\ raced' \subseteq Record
  BY DEF Save, TypeInv, Stores
<1>5. Keeps
  BY <1>1, <1>3 DEF Keeps
<1>6. Stores'
  BY <1>3, <1>4 DEF TypeInv, Stores
<1> QED
  BY <1>1, <1>3, <1>4, <1>5, <1>6

(* A field that is set at Discogs.                                           *)
LEMMA DiscTypes ==
  ASSUME TypeInv, NEW r \in Record, NEW f \in Field, NEW v \in Value, disc[r] # None,
         disc' = [disc EXCEPT ![r][f] = v], UNCHANGED <<rec, raced>>,
         moves' \in 0 .. MaxMoves, spoiled' \subseteq Record
  PROVE  /\ Stores' /\ Keeps /\ disc'[r] \in Fields /\ disc'[r] # None /\ disc'[r][f] = v
         /\ \A g \in Field \ {f} : disc'[r][g] = disc[r][g]
         /\ \A s \in Record \ {r} : disc'[s] = disc[s]
<1>1. None \notin Fields
  BY NoneAssumption DEF Fields
<1>2. disc \in [Record -> Fields \cup {None}] /\ disc[r] \in Fields
  BY DEF TypeInv, Stores, Page
<1>3. PICK d \in Fields : d = [disc[r] EXCEPT ![f] = v]
  BY <1>2 DEF Fields
<1>4. d[f] = v /\ \A g \in Field \ {f} : d[g] = disc[r][g]
  BY <1>2, <1>3 DEF Fields
<1>5. disc' = [disc EXCEPT ![r] = d]
  BY <1>3
<1>6. disc' \in Page /\ disc'[r] = d /\ \A s \in Record \ {r} : disc'[s] = disc[s]
  BY <1>2, <1>5 DEF Page
<1>7. Keeps
  BY <1>1, <1>3, <1>6 DEF Keeps
<1>8. Stores'
  <2>1. \A s \in Record : rec'[s] # None => disc'[s] # None
    BY <1>7 DEF TypeInv, Stores, Keeps
  <2> QED
    BY <1>6, <2>1 DEF TypeInv, Stores
<1> QED
  BY <1>1, <1>3, <1>4, <1>6, <1>7, <1>8

(* Nothing is set.                                                           *)
LEMMA StoresStay ==
  ASSUME TypeInv, UNCHANGED <<rec, disc, raced>>,
         moves' \in 0 .. MaxMoves, spoiled' \subseteq Record
  PROVE  Stores' /\ Keeps
BY DEF TypeInv, Stores, Keeps

(* A move of the users or a failure is one of finitely many.                 *)
LEMMA MoveTypes ==
  ASSUME TypeInv, Move
  PROVE  moves \in 0 .. MaxMoves - 1 /\ moves \in Value \cup Nat /\ moves' = moves + 1 /\ moves' \in 0 .. MaxMoves
<1>1. MaxMoves \in Nat /\ moves \in 0 .. MaxMoves
  BY ConstantsAssumption DEF TypeInv, Stores
<1> QED
  BY <1>1 DEF Move

(* What a task that is given up spoils.                                      *)
LEMMA SpoilsTypes ==
  ASSUME TypeInv, work.pc # "idle"
  PROVE  Spoils(work.job) \subseteq Record /\ (Executing => Spoils(work.job) = {Of})
         /\ (work.job.kind # "intent" => Spoils(work.job) = {})
<1>1. work.job.kind = "intent" => work.job.intent.r \in Record
  <2> SUFFICES ASSUME work.job.kind = "intent" PROVE work.job.intent.r \in Record
    OBVIOUS
  <2>1. PICK j \in UrgentEntry \cup JobEntry : j = work.job
    BY JobTypes
  <2>2. j \in IntentEntry
    BY <2>1, EntryKinds
  <2>3. j.intent \in IntentSet
    BY <2>2, EntryKinds
  <2> QED
    BY <2>1, <2>3 DEF IntentSet
<1> QED
  BY <1>1 DEF Spoils, Executing, Of

(* The worker has read the record its task is for.                           *)
LEMMA Loaded ==
  ASSUME NEW j \in UrgentEntry \cup JobEntry, NEW copy \in StoredRecord, NEW left \in Seq(Field),
         work' = [Idle EXCEPT !.pc = "call", !.job = j, !.copy = copy, !.base = copy, !.left = left],
         j \in UrgentEntry => urgent' # <<>> /\ Head(urgent') = j,
         \/ j \in IntentEntry /\ \A f \in Elements(left) : j.intent.change[f] # 0 \/ f = "oversize"
         \/ j \in MoveEntry /\ rec'[j.r] # None
  PROVE  /\ Working' /\ work'.pc = "call" /\ work'.job = j /\ work'.copy = copy /\ work'.left = left
<1>1. /\ work' \in WorkState /\ work'.pc = "call" /\ work'.job = j /\ work'.copy = copy /\ work'.base = copy
      /\ work'.left = left
  BY IdleTypes DEF Idle
<1>2. (j \in IntentEntry /\ j.kind = "intent") \/ (j \in MoveEntry /\ j.kind = "move" /\ rec'[j.r] # None)
  BY EntryKinds
<1>3. ByPc'
  BY <1>1, <1>2 DEF ByPc, Executing, Moving
<1>4. TakenIntent'
  <2> SUFFICES ASSUME j.kind = "intent" PROVE TakenIntent'
    BY <1>1 DEF TakenIntent, Executing
  <2>1. j \in IntentEntry /\ \A f \in Elements(left) : j.intent.change[f] # 0 \/ f = "oversize"
    BY <1>2, EntryKinds
  <2> QED
    BY <1>1, <2>1 DEF TakenIntent, Wanted
<1>5. TakenMove'
  BY <1>1, <1>2 DEF TakenMove, Moving
<1>6. TakenPage'
  BY <1>1 DEF TakenPage, Merging
<1> QED
  BY <1>1, <1>3, <1>4, <1>5, <1>6 DEF Working

(* An intent is taken up, as it is saved and its record stored.              *)
LEMMA BeginIntentEffect ==
  ASSUME TypeInv, BeginIntent
  PROVE  /\ Doing \in IntentEntry /\ urgent # <<>> /\ Head(urgent) = Doing
         /\ Doing.intent.r \in Record /\ Doing.intent.change \in Change /\ rec[Doing.intent.r] \in StoredRecord
         /\ Load(Doing, Doing.intent.r, "call", Left(Doing.intent.change)) /\ UNCHANGED queue
<1>1. Doing.kind = "intent" /\ urgent \o jobs # <<>>
  BY DEF BeginIntent, Begin, Doing
<1>2. /\ Doing \in IntentEntry /\ Doing.intent \in intents
      /\ Doing.intent.r \in Record /\ Doing.intent.change \in Change /\ rec[Doing.intent.r] # None
  BY <1>1, DoingTypes
<1>3. urgent # <<>> /\ Head(urgent) = Doing
  BY <1>1, <1>2, DoingTypes DEF UrgentEntry
<1>4. rec[Doing.intent.r] \in StoredRecord
  BY <1>2 DEF TypeInv, Stores
<1>5. Load(Doing, Doing.intent.r, "call", Left(Doing.intent.change)) /\ UNCHANGED queue
  BY <1>2 DEF BeginIntent
<1> QED
  BY <1>2, <1>3, <1>4, <1>5

(* The worker then has the record and what is to be done.                    *)
LEMMA IntentLoaded ==
  ASSUME TypeInv, BeginIntent
  PROVE  /\ Working' /\ work'.pc = "call" /\ work'.job = Doing /\ work'.copy = rec[Doing.intent.r]
         /\ Elements(work'.left) = {f \in Field : Doing.intent.change[f] # 0 \/ f = "oversize"}
<1>1. PICK d \in IntentEntry : d = Doing
  BY BeginIntentEffect
<1>2. /\ urgent # <<>> /\ Head(urgent) = d
      /\ d.intent.r \in Record /\ d.intent.change \in Change /\ rec[d.intent.r] \in StoredRecord
      /\ Load(d, d.intent.r, "call", Left(d.intent.change)) /\ UNCHANGED queue
  BY <1>1, BeginIntentEffect
<1>3. PICK copy \in StoredRecord : copy = rec[d.intent.r]
  BY <1>2
<1>4. PICK left \in Seq(Field) :
        /\ left = Left(d.intent.change)
        /\ Elements(left) = {f \in Field : d.intent.change[f] # 0 \/ f = "oversize"}
  BY <1>2, LeftTypes
<1>5. work' = [Idle EXCEPT !.pc = "call", !.job = d, !.copy = copy, !.base = copy, !.left = left]
  BY <1>2, <1>3, <1>4 DEF Load
<1>6. urgent' = urgent
  BY <1>2 DEF queue
<1>7. d \in UrgentEntry
  BY DEF UrgentEntry
<1>8. Working' /\ work'.pc = "call" /\ work'.job = d /\ work'.copy = copy /\ work'.left = left
  BY <1>2, <1>4, <1>5, <1>6, <1>7, Loaded
<1> QED
  BY <1>1, <1>3, <1>4, <1>8

(* The same for a move by a rule, if there is still something to do.         *)
LEMMA BeginMoveEffect ==
  ASSUME TypeInv, BeginMove
  PROVE  /\ Doing \in MoveEntry
         /\ \/ /\ Working' /\ UNCHANGED queue /\ work'.pc = "call" /\ work'.job = Doing
               /\ work'.copy = rec[Doing.r] /\ rec[Doing.r] # None
            \/ Finish(Doing, <<>>)
<1>1. Doing.kind = "move" /\ urgent \o jobs # <<>>
  BY DEF BeginMove, Begin, Doing
<1>2. PICK d \in MoveEntry : d = Doing
  BY <1>1, DoingTypes
<1>3. d.r \in Record /\ d \in JobEntry
  BY EntryKinds DEF JobEntry
<1>4. \/ Finish(d, <<>>)
      \/ rec[d.r] # None /\ Load(d, d.r, "call", <<>>) /\ UNCHANGED queue
  BY <1>2 DEF BeginMove
<1>5. ASSUME rec[d.r] # None, Load(d, d.r, "call", <<>>), UNCHANGED queue
      PROVE  Working' /\ work'.pc = "call" /\ work'.job = d /\ work'.copy = rec[d.r]
  <2>1. PICK copy \in StoredRecord : copy = rec[d.r]
    BY <1>3, <1>5 DEF TypeInv, Stores
  <2> DEFINE nothing == <<>>
  <2>0. nothing \in Seq(Field)
    OBVIOUS
  <2> HIDE DEF nothing
  <2>2. PICK left \in Seq(Field) : left = nothing
    BY <2>0
  <2>3. work' = [Idle EXCEPT !.pc = "call", !.job = d, !.copy = copy, !.base = copy, !.left = left]
    BY <1>5, <2>1, <2>2 DEF Load, nothing
  <2>4. d \notin UrgentEntry
    BY <1>3, EntryKinds
  <2>5. rec'[d.r] # None
    BY <1>5 DEF BeginMove
  <2>6. Working' /\ work'.pc = "call" /\ work'.job = d /\ work'.copy = copy
    BY <1>3, <2>3, <2>4, <2>5, Loaded
  <2> QED
    BY <2>1, <2>6
<1> QED
  BY <1>2, <1>4, <1>5

(* A worker that has the same entry and goes to another step of an intent.   *)
LEMMA NextStep ==
  ASSUME TypeInv, Executing, UNCHANGED urgent,
         NEW pc \in {"call", "save", "wants", "delete"}, NEW copy \in StoredRecord, NEW left \in Seq(Field),
         work' = [work EXCEPT !.pc = pc, !.copy = copy, !.base = copy, !.left = left],
         Elements(left) \subseteq Elements(work.left),
         pc = "save" => left # <<>>, pc = "delete" => left = <<>>
  PROVE  Working' /\ work'.pc = pc /\ work'.job = work.job /\ work'.copy = copy /\ work'.left = left
<1>1. work \in WorkState /\ ByPc /\ TakenIntent
  BY DEF TypeInv, Working
<1>2. left \in Seq(Field \cup Record)
  BY SeqMonotonic
<1>3. /\ work' \in WorkState /\ work'.pc = pc /\ work'.job = work.job /\ work'.copy = copy /\ work'.base = copy
      /\ work'.left = left /\ work'.page = work.page
  BY <1>1, <1>2 DEF WorkState
<1>4. /\ work.job.kind = "intent" /\ work.job \in IntentEntry
      /\ \A f \in Elements(left) : work.job.intent.change[f] # 0 \/ f = "oversize"
  BY <1>1 DEF Executing, TakenIntent, Wanted
<1>5. work.pc # "idle"
  BY DEF Executing
<1>6. ByPc'
  BY <1>1, <1>3, <1>4, <1>5 DEF ByPc, Executing, Moving
<1>7. TakenIntent'
  BY <1>3, <1>4 DEF TakenIntent, Executing, Wanted, Step
<1>8. TakenMove'
  BY <1>3, <1>4 DEF TakenMove, Moving
<1>9. TakenPage'
  BY <1>3 DEF TakenPage, Merging
<1> QED
  BY <1>3, <1>6, <1>7, <1>8, <1>9 DEF Working

(* What is left of an intent that is executed, after the next step.          *)
LEMMA StepTypes ==
  ASSUME TypeInv, Executing, work.left # <<>>
  PROVE  /\ Step \in Field /\ (Wanted[Step] # 0 \/ Step = "oversize")
         /\ work.left \in Seq(Field) /\ Tail(work.left) \in Seq(Field)
         /\ Elements(work.left) = {Step} \cup Elements(Tail(work.left))
         /\ work.copy \in StoredRecord /\ work.base = work.copy
<1>1. /\ work.left \in Seq(Field) /\ work.copy \in StoredRecord /\ work.base = work.copy
      /\ \A f \in Elements(work.left) : Wanted[f] # 0 \/ f = "oversize"
  BY DEF TypeInv, Working, TakenIntent
<1>2. /\ Step \in Field /\ Tail(work.left) \in Seq(Field)
      /\ Elements(work.left) = {Step} \cup Elements(Tail(work.left))
  BY <1>1, TailElements DEF Step
<1> QED
  BY <1>1, <1>2

(* The worker skips a step, or goes on to save it or to the digital wantlist.*)
LEMMA SkipWorks ==
  ASSUME TypeInv, Skip
  PROVE  /\ Executing /\ work.pc = "call" /\ work.left # <<>> /\ Step = "folder"
         /\ Working' /\ work'.pc = "call" /\ work'.job = work.job /\ work'.copy = work.copy
         /\ work'.left = Tail(work.left)
<1>1. Executing /\ work.pc = "call" /\ work.left # <<>> /\ Step = "folder"
  BY DEF Skip, Executing, InPlace
<1>2. PICK rest \in Seq(Field), copy \in StoredRecord :
        /\ rest = Tail(work.left) /\ copy = work.copy /\ copy = work.base
        /\ Elements(rest) \subseteq Elements(work.left)
  BY <1>1, StepTypes
<1>3. work' = [work EXCEPT !.pc = "call", !.copy = copy, !.base = copy, !.left = rest]
  BY <1>1, <1>2 DEF Skip, TypeInv, Working, WorkState
<1>4. urgent' = urgent
  BY DEF Skip, queue
<1> QED
  BY <1>1, <1>2, <1>3, <1>4, NextStep

(* Discogs is told of a field.                                               *)
LEMMA SetFieldWorks ==
  ASSUME TypeInv, SetField
  PROVE  /\ Executing /\ work.pc = "call" /\ work.left # <<>>
         /\ Working' /\ work'.pc = "save" /\ work'.job = work.job
         /\ work'.copy = work.copy /\ work'.left = work.left
<1>1. Executing /\ work.pc = "call" /\ work.left # <<>>
  BY DEF SetField, Executing
<1>2. PICK rest \in Seq(Field), copy \in StoredRecord :
        /\ rest = work.left /\ copy = work.copy /\ copy = work.base
  BY <1>1, StepTypes
<1>3. work' = [work EXCEPT !.pc = "save", !.copy = copy, !.base = copy, !.left = rest]
  BY <1>1, <1>2 DEF SetField, TypeInv, Working, WorkState
<1>4. urgent' = urgent
  BY DEF SetField, queue
<1>5. rest # <<>>
  BY <1>1, <1>2
<1> QED
  BY <1>1, <1>2, <1>3, <1>4, <1>5, NextStep

(* A field is saved.                                                         *)
LEMMA SaveFieldWorks ==
  ASSUME TypeInv, SaveField
  PROVE  /\ Executing /\ work.pc = "save" /\ work.left # <<>>
         /\ Processed(work.copy, Step, Wanted[Step]) \in StoredRecord
         /\ Save(Of, Processed(work.copy, Step, Wanted[Step]), work.base)
         /\ Working' /\ work'.pc = (IF Step = "arrived" THEN "wants" ELSE "call") /\ work'.job = work.job
         /\ work'.copy = Processed(work.copy, Step, Wanted[Step]) /\ work'.left = Tail(work.left)
<1>1. Executing /\ work.pc = "save" /\ work.left # <<>>
  BY DEF SaveField, Executing, TypeInv, Working, TakenIntent
<1>2. /\ Step \in Field /\ (Wanted[Step] # 0 \/ Step = "oversize") /\ work.copy \in StoredRecord
      /\ Wanted \in Change
  BY <1>1, StepTypes, JobTypes
<1>3. PICK copy \in StoredRecord : copy = Processed(work.copy, Step, Wanted[Step])
  BY <1>2, ProcessedTypes
<1>4. PICK rest \in Seq(Field) : rest = Tail(work.left) /\ Elements(rest) \subseteq Elements(work.left)
  BY <1>1, StepTypes
<1>8. PICK pc \in {"call", "wants"} : pc = IF Step = "arrived" THEN "wants" ELSE "call"
  OBVIOUS
<1>5. /\ work' = [work EXCEPT !.pc = pc, !.copy = copy, !.base = copy, !.left = rest]
      /\ Save(Of, copy, work.base)
  BY <1>3, <1>4, <1>8 DEF SaveField
<1>6. urgent' = urgent
  BY DEF SaveField, queue
<1>7. Working' /\ work'.pc = pc /\ work'.job = work.job /\ work'.copy = copy /\ work'.left = rest
  BY <1>1, <1>4, <1>5, <1>6, NextStep
<1> QED
  BY <1>1, <1>3, <1>4, <1>5, <1>7, <1>8

(* The refreshes of the wants are enqueued.                                  *)
LEMMA EnqueueWantsWorks ==
  ASSUME TypeInv, EnqueueWants
  PROVE  /\ Executing /\ work.pc = "wants"
         /\ Working' /\ work'.pc = "call" /\ work'.job = work.job
         /\ work'.copy = work.copy /\ work'.left = work.left
<1>1. Executing /\ work.pc = "wants"
  BY DEF EnqueueWants, TypeInv, Working, ByPc
<1>2. PICK rest \in Seq(Field), copy \in StoredRecord :
        rest = work.left /\ copy = work.copy /\ copy = work.base
  BY <1>1 DEF TypeInv, Working, TakenIntent
<1>3. work' = [work EXCEPT !.pc = "call", !.copy = copy, !.base = copy, !.left = rest]
  BY <1>1, <1>2 DEF EnqueueWants, TypeInv, Working, WorkState
<1>4. urgent' = urgent
  BY DEF EnqueueWants, queue
<1> QED
  BY <1>1, <1>2, <1>3, <1>4, NextStep

(* All of an intent is done.                                                 *)
LEMMA EnqueueMovesWorks ==
  ASSUME TypeInv, EnqueueMoves
  PROVE  /\ Executing /\ work.pc = "call" /\ work.left = <<>>
         /\ Working' /\ work'.pc = "delete" /\ work'.job = work.job
         /\ work'.copy = work.copy /\ work'.left = work.left
         /\ jobs' \in Seq(JobEntry)
<1>1. Executing /\ work.pc = "call" /\ work.left = <<>>
  BY DEF EnqueueMoves, Executing
<1>2. PICK rest \in Seq(Field), copy \in StoredRecord :
        rest = work.left /\ copy = work.copy /\ copy = work.base
  BY <1>1 DEF TypeInv, Working, TakenIntent
<1>3. work' = [work EXCEPT !.pc = "delete", !.copy = copy, !.base = copy, !.left = rest]
  BY <1>1, <1>2 DEF EnqueueMoves, TypeInv, Working, WorkState
<1>4. urgent' = urgent
  BY DEF EnqueueMoves
<1>5. Working' /\ work'.pc = "delete" /\ work'.job = work.job /\ work'.copy = copy /\ work'.left = rest
  BY <1>1, <1>2, <1>3, <1>4, NextStep
<1>6. jobs' \in Seq(JobEntry)
  <2>1. jobs \in Seq(JobEntry) /\ MoveRecords \in JobEntry
    BY DEF TypeInv, Entries, JobEntry
  <2> QED
    BY <2>1, AppendProperties DEF EnqueueMoves
<1> QED
  BY <1>1, <1>2, <1>5, <1>6

(* What Discogs then has.                                                    *)
LEMMA SetFieldSends ==
  ASSUME TypeInv, SetField
  PROVE  /\ Stores' /\ Keeps
         /\ \A r \in Record \ {Of} : disc'[r] = disc[r]
         /\ \A f \in Field \ {Step} : disc'[Of][f] = disc[Of][f]
         /\ Step # "oversize" => disc'[Of][Step] = Applied(Step, Wanted[Step])
<1>1. Executing /\ work.left # <<>>
  BY SetFieldWorks
<1>2. Of \in Record /\ Wanted \in Change /\ disc[Of] # None
  BY <1>1, JobTypes DEF Executing
<1>3. Step \in Field /\ (Wanted[Step] # 0 \/ Step = "oversize")
  BY <1>1, StepTypes
<1>4. moves' = moves /\ spoiled' = spoiled /\ UNCHANGED <<rec, raced>>
  BY DEF SetField, ghosts
<1>5. CASE Step = "oversize"
  <2>1. disc' = disc
    BY <1>5 DEF SetField
  <2>2. Stores' /\ Keeps
    BY <1>4, <2>1, StoresStay DEF TypeInv, Stores
  <2> QED
    BY <1>5, <2>1, <2>2
<1>6. CASE Step # "oversize"
  <2>1. PICK f \in Field, v \in Value : f = Step /\ v = Applied(Step, Wanted[Step])
    BY <1>2, <1>3, <1>6, AppliedTypes
  <2>2. disc' = [disc EXCEPT ![Of][f] = v]
    BY <1>2, <1>6, <2>1 DEF SetField
  <2>3. moves' \in 0 .. MaxMoves /\ spoiled' \subseteq Record
    BY <1>4 DEF TypeInv, Stores
  <2>4. /\ Stores' /\ Keeps /\ disc'[Of][f] = v
        /\ \A g \in Field \ {f} : disc'[Of][g] = disc[Of][g]
        /\ \A s \in Record \ {Of} : disc'[s] = disc[s]
    BY <1>2, <1>4, <2>2, <2>3, DiscTypes
  <2> QED
    BY <2>1, <2>4
<1> QED
  BY <1>5, <1>6

(* The worker takes the move it makes to Discogs.                            *)
LEMMA SetFolderEffect ==
  ASSUME TypeInv, SetFolder
  PROVE  /\ Moving /\ work.job \in MoveEntry /\ work.job.r \in Record
         /\ Stores' /\ Keeps /\ Working' /\ work'.pc = "save" /\ work'.job = work.job
         /\ \A r \in Record \ {work.job.r} : disc'[r] = disc[r]
         /\ \A f \in Field \ {"folder"} : disc'[work.job.r][f] = disc[work.job.r][f]
<1>1. Moving /\ work.pc = "call"
  BY DEF SetFolder, Moving
<1>2. /\ work.job \in MoveEntry /\ work.copy \in StoredRecord /\ work.copy = work.base /\ rec[work.job.r] # None
      /\ work \in WorkState
  BY <1>1 DEF TypeInv, Working, TakenMove
<1>3. work.job.r \in Record /\ work.job.folder \in Value
  BY <1>2, EntryKinds
<1>4. disc[work.job.r] # None
  BY <1>2, <1>3 DEF TypeInv, Stores
<1>5. "folder" \in Field
  BY FieldFacts
<1>6. /\ disc' = [disc EXCEPT ![work.job.r]["folder"] = work.job.folder] /\ UNCHANGED <<rec, raced>>
      /\ moves' \in 0 .. MaxMoves /\ spoiled' \subseteq Record
  BY DEF SetFolder, ghosts, TypeInv, Stores
<1>7. /\ Stores' /\ Keeps
      /\ \A r \in Record \ {work.job.r} : disc'[r] = disc[r]
      /\ \A f \in Field \ {"folder"} : disc'[work.job.r][f] = disc[work.job.r][f]
  BY <1>3, <1>4, <1>5, <1>6, DiscTypes
<1>8. /\ work' \in WorkState /\ work'.pc = "save" /\ work'.job = work.job /\ work'.copy = work.copy
      /\ work'.base = work.base /\ work'.left = work.left /\ work'.page = work.page
  BY <1>2 DEF SetFolder, WorkState
<1>9. work.job.kind = "move" /\ work.pc # "idle" /\ work.job \notin UrgentEntry
  BY <1>1, <1>2, EntryKinds DEF Moving, JobEntry
<1>10. rec'[work.job.r] # None
  BY <1>2, <1>6
<1>11. Working'
  <2>1. ByPc'
    BY <1>8, <1>9 DEF ByPc, Executing, Moving
  <2>2. TakenIntent'
    BY <1>8, <1>9 DEF TakenIntent, Executing
  <2>3. TakenMove'
    BY <1>2, <1>8, <1>10 DEF TakenMove
  <2>4. TakenPage'
    BY <1>8 DEF TakenPage, Merging
  <2> QED
    BY <1>8, <2>1, <2>2, <2>3, <2>4 DEF Working
<1> QED
  BY <1>1, <1>2, <1>3, <1>7, <1>8, <1>11

(* ... and saves the record, in its new folder, and is done with it.         *)
LEMMA SaveMovedEffect ==
  ASSUME TypeInv, SaveMoved
  PROVE  /\ Moving /\ work.job \in MoveEntry /\ work.job.r \in Record
         /\ Stores' /\ Keeps /\ Finish(work.job, <<MoveRecords>>)
         /\ \A r \in Record \ {work.job.r} : rec'[r] = rec[r] /\ (r \in raced' => r \in raced)
         /\ raced \subseteq raced'
         /\ work.job.r \notin raced' => /\ rec[work.job.r] # None
                                        /\ \A f \in Field \ {"folder"} :
                                             rec'[work.job.r].fields[f] = rec[work.job.r].fields[f]
<1>1. Moving
  BY DEF SaveMoved, Moving
<1>2. /\ work.job \in MoveEntry /\ work.copy \in StoredRecord /\ work.copy = work.base /\ rec[work.job.r] # None
  BY <1>1 DEF TypeInv, Working, TakenMove
<1>3. work.job.r \in Record /\ work.job.folder \in Value
  BY <1>2, EntryKinds
<1>4. disc[work.job.r] # None
  BY <1>2, <1>3 DEF TypeInv, Stores
<1>5. PICK copy \in StoredRecord : copy = [work.copy EXCEPT !.fields["folder"] = work.job.folder]
  BY <1>2, <1>3 DEF StoredRecord
<1>6. \A f \in Field \ {"folder"} : copy.fields[f] = work.copy.fields[f]
  BY <1>2, <1>5 DEF StoredRecord
<1>7. Save(work.job.r, copy, work.copy) /\ UNCHANGED <<disc, spoiled, moves>>
  BY <1>2, <1>5 DEF SaveMoved, ghosts
<1>8. /\ Stores' /\ Keeps /\ rec'[work.job.r] = copy
      /\ \A s \in Record \ {work.job.r} : rec'[s] = rec[s]
      /\ raced \subseteq raced' /\ (work.job.r \notin raced' => rec[work.job.r] = work.copy)
      /\ \A s \in Record \ {work.job.r} : s \in raced' => s \in raced
  BY <1>3, <1>4, <1>7, SaveTypes
<1>9. Finish(work.job, <<MoveRecords>>)
  BY DEF SaveMoved
<1> QED
  BY <1>1, <1>2, <1>3, <1>6, <1>8, <1>9

(* A refresh is taken up.                                                    *)
LEMMA BeginRefreshWorks ==
  ASSUME TypeInv, BeginRefresh
  PROVE  Working' /\ work'.pc = "fetch"
<1>1. Doing.kind = "refresh" /\ urgent \o jobs # <<>>
  BY DEF BeginRefresh, Begin, Doing
<1>2. PICK d \in UrgentEntry \cup JobEntry :
        /\ d = Doing /\ d \in {RefreshCollection(TRUE), RefreshCollection(FALSE)} /\ d.kind = "refresh"
        /\ d \in UrgentEntry => urgent # <<>> /\ Head(urgent) = d
  BY <1>1, DoingTypes
<1>3. work' = [Idle EXCEPT !.pc = "fetch", !.job = d] /\ urgent' = urgent
  BY <1>2 DEF BeginRefresh, queue
<1>4. work' \in WorkState /\ work'.pc = "fetch" /\ work'.job = d
  BY <1>3, IdleTypes DEF Idle
<1> QED
  BY <1>2, <1>3, <1>4 DEF Working, ByPc, TakenIntent, TakenMove, TakenPage, Executing, Moving, Merging

(* The page that is read is what Discogs has.                                *)
LEMMA FetchWorks ==
  ASSUME TypeInv, Fetch
  PROVE  /\ Working' /\ work'.pc = "merge" /\ work'.page = disc
         /\ Elements(work'.left) = {r \in Record : disc[r] # None}
<1>1. /\ work.pc = "fetch" /\ work \in WorkState
      /\ work.job \in {RefreshCollection(TRUE), RefreshCollection(FALSE)}
      /\ work.job \in UrgentEntry => urgent # <<>> /\ Head(urgent) = work.job
  BY DEF Fetch, TypeInv, Working, ByPc
<1>2. PICK left \in Seq(Record) :
        /\ left = Subsequence([r \in Record |-> r], {r \in Record : disc[r] # None})
        /\ Elements(left) = {r \in Record : disc[r] # None}
  <2> DEFINE there == {r \in Record : disc[r] # None}
  <2>1. there \in SUBSET Record
    OBVIOUS
  <2> HIDE DEF there
  <2>2. /\ Subsequence([r \in Record |-> r], there) \in Seq(Record)
        /\ Elements(Subsequence([r \in Record |-> r], there)) = there
    BY <2>1, PageTypes
  <2> QED
    BY <2>2 DEF there
<1>3. disc \in Page
  BY DEF TypeInv, Stores
<1>4. left \in Seq(Field \cup Record)
  BY SeqMonotonic
<1>5. work' = [work EXCEPT !.pc = "merge", !.page = disc, !.left = left]
  BY <1>2 DEF Fetch
<1>6. /\ work' \in WorkState /\ work'.pc = "merge" /\ work'.page = disc /\ work'.left = left
      /\ work'.job = work.job
  BY <1>1, <1>3, <1>4, <1>5 DEF WorkState
<1>7. disc' = disc /\ urgent' = urgent
  BY DEF Fetch, queue
<1>8. ByPc'
  BY <1>1, <1>6, <1>7 DEF ByPc, Executing, Moving
<1>9. TakenIntent' /\ TakenMove'
  BY <1>6 DEF TakenIntent, TakenMove, Executing, Moving
<1>10. TakenPage'
  BY <1>2, <1>3, <1>6, <1>7 DEF TakenPage
<1> QED
  BY <1>2, <1>6, <1>8, <1>9, <1>10 DEF Working

(* A record of the page is read from the store.                              *)
LEMMA ReadStoredWorks ==
  ASSUME TypeInv, ReadStored
  PROVE  /\ work.pc = "merge" /\ Working' /\ work'.pc = "store" /\ work'.page = work.page
         /\ work'.left = work.left
<1>1. /\ work.pc = "merge" /\ work.left # <<>> /\ work \in WorkState
      /\ work.page \in Page /\ work.left \in Seq(Record)
      /\ \A r \in Elements(work.left) : work.page[r] # None /\ disc[r] # None
      /\ work.job \in {RefreshCollection(TRUE), RefreshCollection(FALSE)}
      /\ work.job \in UrgentEntry => urgent # <<>> /\ Head(urgent) = work.job
  BY DEF ReadStored, TypeInv, Working, ByPc, TakenPage, Merging
<1>2. PICK r \in Record : r = Head(work.left)
  BY <1>1, TailElements
<1>3. PICK stored \in StoredRecord \cup {None} : stored = rec[r]
  BY DEF TypeInv, Stores
<1>4. work' = [work EXCEPT !.pc = "store", !.copy = stored, !.base = stored] /\ disc' = disc /\ urgent' = urgent
  BY <1>2, <1>3 DEF ReadStored, queue
<1>5. /\ work' \in WorkState /\ work'.pc = "store" /\ work'.page = work.page /\ work'.left = work.left
      /\ work'.job = work.job /\ work'.copy = stored /\ work'.base = stored
  BY <1>1, <1>4 DEF WorkState
<1>6. ByPc'
  BY <1>1, <1>4, <1>5 DEF ByPc, Executing, Moving
<1>7. TakenIntent' /\ TakenMove'
  BY <1>5 DEF TakenIntent, TakenMove, Executing, Moving
<1>8. TakenPage'
  BY <1>1, <1>4, <1>5 DEF TakenPage
<1> QED
  BY <1>1, <1>5, <1>6, <1>7, <1>8 DEF Working

(* A record is merged with what is on the page.                              *)
LEMMA MergeRecordEffect ==
  ASSUME TypeInv, MergeRecord
  PROVE  \E r \in Record :
         /\ work.pc = "store" /\ r \in Elements(work.left) /\ disc[r] # None
         /\ Stores' /\ Keeps /\ Working' /\ work'.pc = "merge" /\ work'.page = work.page
         /\ Elements(work'.left) \subseteq Elements(work.left)
         /\ \A s \in Record \ {r} : rec'[s] = rec[s] /\ (s \in raced' => s \in raced)
         /\ raced \subseteq raced' /\ rec'[r] # None
         /\ r \notin raced' => \A f \in Field : rec'[r].fields[f] =
              IF f \in Mirrored /\ work.page[r][f] # 0 THEN work.page[r][f]
              ELSE IF rec[r] = None THEN 0 ELSE rec[r].fields[f]
<1>1. /\ work.pc = "store" /\ work.left # <<>> /\ work \in WorkState /\ work.base = work.copy
      /\ work.copy \in StoredRecord \cup {None}
      /\ work.page \in Page /\ work.left \in Seq(Record)
      /\ \A r \in Elements(work.left) : work.page[r] # None /\ disc[r] # None
      /\ work.job \in {RefreshCollection(TRUE), RefreshCollection(FALSE)}
      /\ work.job \in UrgentEntry => urgent # <<>> /\ Head(urgent) = work.job
  BY DEF MergeRecord, TypeInv, Working, ByPc, TakenPage, Merging
<1>2. PICK rest \in Seq(Record), r \in Record :
        r = Head(work.left) /\ rest = Tail(work.left) /\ Elements(work.left) = {r} \cup Elements(rest)
  BY <1>1, TailElements
<1>3. work.page[r] # None /\ disc[r] # None
  BY <1>1, <1>2
<1>4. PICK theirs \in Fields : theirs = work.page[r]
  BY <1>1, <1>3 DEF Page
<1>5. PICK stored \in StoredRecord : stored = IF work.copy = None THEN NewRecord ELSE work.copy
  BY <1>1, UnsetTypes
<1>6. PICK copy \in StoredRecord :
        /\ copy = Merged(stored, theirs)
        /\ \A f \in Field : copy.fields[f] = IF f \in Mirrored /\ theirs[f] # 0 THEN theirs[f] ELSE stored.fields[f]
  BY MergedTypes
<1>7. Save(r, copy, work.copy) /\ UNCHANGED <<disc, spoiled, moves, urgent>>
  BY <1>1, <1>2, <1>4, <1>5, <1>6 DEF MergeRecord, ghosts, queue
<1>8. /\ Stores' /\ Keeps /\ rec'[r] = copy /\ copy # None
      /\ \A s \in Record \ {r} : rec'[s] = rec[s]
      /\ raced \subseteq raced' /\ (r \notin raced' => rec[r] = work.copy)
      /\ \A s \in Record \ {r} : s \in raced' => s \in raced
  BY <1>3, <1>7, SaveTypes
<1>9. \A f \in Field : copy.fields[f] = IF f \in Mirrored /\ work.page[r][f] # 0 THEN work.page[r][f]
                                        ELSE IF work.copy = None THEN 0 ELSE work.copy.fields[f]
  BY <1>4, <1>5, <1>6, UnsetTypes
<1>10. rest \in Seq(Field \cup Record)
  BY SeqMonotonic
<1>11. /\ work' \in WorkState /\ work'.pc = "merge" /\ work'.page = work.page /\ work'.left = rest
       /\ work'.job = work.job
  BY <1>1, <1>2, <1>10 DEF MergeRecord, WorkState
<1>12. ByPc'
  BY <1>1, <1>7, <1>11 DEF ByPc, Executing, Moving
<1>13. TakenIntent' /\ TakenMove'
  BY <1>11 DEF TakenIntent, TakenMove, Executing, Moving
<1>14. TakenPage'
  BY <1>1, <1>2, <1>7, <1>11 DEF TakenPage
<1> QED
  BY <1>1, <1>2, <1>3, <1>8, <1>9, <1>11, <1>12, <1>13, <1>14 DEF Working

(*-------------------------------------------------------------------------*)
(* What the API server and the users do                                    *)

(* A call that has just begun, and none.                                     *)
LEMMA CallTypes ==
  /\ NoCall \in ApiState /\ NoCall.pc = "idle"
  /\ \A pc \in {"enqueue", "score", "add", "bought"}, r \in Record, i \in IntentSet :
       [NoCall EXCEPT !.pc = pc, !.r = r, !.change = i] \in ApiState
  /\ \A r \in Record, copy \in StoredRecord, score \in Value :
       [NoCall EXCEPT !.pc = "score", !.r = r, !.copy = copy, !.score = score] \in ApiState
  /\ \A r \in Record : [NoCall EXCEPT !.pc = "add", !.r = r] \in ApiState
BY FieldFacts DEF NoCall, ApiState

(* An intent of a record.                                                    *)
LEMMA IntentTypes ==
  ASSUME NEW r \in Record, NEW change \in Change, NEW id \in 0 .. MaxMoves
  PROVE  /\ Intent(r, change, id) \in IntentSet
         /\ Intent(r, change, id).r = r /\ Intent(r, change, id).change = change /\ Intent(r, change, id).id = id
BY DEF Intent, IntentSet

(* The entry that is for it.                                                 *)
LEMMA RefreshIntentsTypes ==
  ASSUME NEW i \in IntentSet
  PROVE  /\ RefreshIntents(i) \in IntentEntry
         /\ RefreshIntents(i).kind = "intent" /\ RefreshIntents(i).intent = i
BY DEF RefreshIntents, IntentEntry

(* A call that is over disturbs nobody.                                      *)
LEMMA NoCalling == api' = NoCall => Calling'
BY CallTypes DEF Calling

(* A new intent is saved; no entry is for it yet.                            *)
LEMMA SetIntentTypes ==
  ASSUME TypeInv, NEW r \in Record, NEW change \in Offers, SetIntent(r, change)
  PROVE  TypeInv'
<1>1. /\ moves \in 0 .. MaxMoves - 1 /\ moves' = moves + 1 /\ moves' \in 0 .. MaxMoves
      /\ rec[r] # None /\ UNCHANGED <<rec, disc, urgent, jobs, work, last, raced, spoiled>>
  BY MoveTypes DEF SetIntent, queue
<1>2. PICK i \in IntentSet : i = Intent(r, Normalised(change), moves) /\ i.r = r /\ i.id = moves
  <2>1. PICK c \in Change : c = Normalised(change)
    BY NormalisedTypes, ConstantsAssumption
  <2>2. PICK id \in 0 .. MaxMoves : id = moves
    BY <1>1, ConstantsAssumption
  <2> QED
    BY <2>1, <2>2, IntentTypes
<1>3. /\ intents' = intents \cup {i} /\ api' = [NoCall EXCEPT !.pc = "enqueue", !.r = r, !.change = i]
  BY <1>2 DEF SetIntent
<1>4. i \notin intents
  <2> SUFFICES ASSUME i \in intents PROVE FALSE
    OBVIOUS
  <2>1. i.id < moves \/ i.id = MaxMoves
    BY DEF TypeInv, Saved
  <2>2. moves \in Nat /\ MaxMoves \in Nat /\ moves < MaxMoves
    BY <1>1, ConstantsAssumption
  <2> QED
    BY <1>2, <2>1, <2>2
<1>5. \A k \in DOMAIN urgent : urgent[k].kind = "intent" => urgent[k].intent # i
  BY <1>4 DEF TypeInv, Entries
<1>6. api' \in ApiState /\ api'.pc = "enqueue" /\ api'.r = r /\ api'.change = i
  BY <1>3, CallTypes DEF NoCall
<1>7. Calling'
  BY <1>1, <1>2, <1>3, <1>5, <1>6 DEF Calling
<1>8. Stores' /\ Keeps
  BY <1>1, StoresStay DEF TypeInv, Stores
<1>9. Entries' /\ Working' /\ History'
  BY <1>1, <1>3, <1>8, EntriesStay, WorkStays, HistoryStays DEF TypeInv, Entries
<1>10. Saved'
  <2>1. \A j \in intents' : rec'[j.r] # None /\ (j.id < moves' \/ j.id = MaxMoves)
    <3> SUFFICES ASSUME NEW j \in intents' PROVE rec'[j.r] # None /\ (j.id < moves' \/ j.id = MaxMoves)
      OBVIOUS
    <3>1. CASE j = i
      BY <1>1, <1>2, <3>1
    <3>2. CASE j \in intents
      <4>1. j \in IntentSet /\ rec[j.r] # None /\ (j.id < moves \/ j.id = MaxMoves)
        BY <3>2 DEF TypeInv, Saved
      <4>2. j.id \in 0 .. MaxMoves /\ MaxMoves \in Nat
        BY <4>1, ConstantsAssumption DEF IntentSet
      <4> QED
        BY <1>1, <4>1, <4>2
    <3> QED
      BY <1>3, <3>1, <3>2
  <2> QED
    BY <1>3, <2>1 DEF TypeInv, Saved
<1> QED
  BY <1>7, <1>8, <1>9, <1>10 DEF TypeInv

(* The intent is enqueued.                                                   *)
LEMMA EnqueueIntentEffect ==
  ASSUME TypeInv, EnqueueIntent
  PROVE  \E e \in IntentEntry :
         /\ e.kind = "intent" /\ urgent' = Append(urgent, e) /\ e.intent = api.change /\ e.intent \in intents
         /\ e.intent.r = api.r /\ e.intent.change \in Change /\ api.r \in Record
         /\ rec[api.r] # None /\ disc[api.r] # None
         /\ \A k \in DOMAIN urgent : urgent[k].kind = "intent" => urgent[k].intent # e.intent
         /\ last' \in [Record -> Change] /\ \A r \in Record \ {api.r} : last'[r] = last[r]
         /\ \A f \in Field : last'[api.r][f] = IF e.intent.change[f] = 0 THEN last[api.r][f] ELSE e.intent.change[f]
<1>1. /\ api.change \in intents /\ api.change.r = api.r /\ api.r \in Record
      /\ \A k \in DOMAIN urgent : urgent[k].kind = "intent" => urgent[k].intent # api.change
  BY DEF EnqueueIntent, TypeInv, Calling
<1>2. PICK i \in IntentSet : i = api.change
  BY <1>1 DEF TypeInv, Saved
<1>3. i.change \in Change
  BY DEF IntentSet
<1>4. PICK e \in IntentEntry : e = RefreshIntents(i) /\ e.kind = "intent" /\ e.intent = i
  BY RefreshIntentsTypes
<1>5. urgent' = Append(urgent, e)
  BY <1>2, <1>4 DEF EnqueueIntent
<1>6. rec[api.r] # None /\ disc[api.r] # None
  BY <1>1 DEF TypeInv, Saved, Stores
<1>7. last \in [Record -> Change]
  BY DEF TypeInv, History
<1>8. PICK over \in Change : over = [f \in Field |-> IF i.change[f] = 0 THEN last[api.r][f] ELSE i.change[f]]
  BY <1>1, <1>3, <1>7, LaidOverTypes
<1>9. last' = [last EXCEPT ![api.r] = over]
  BY <1>2, <1>8 DEF EnqueueIntent
<1>10. /\ last' \in [Record -> Change] /\ last'[api.r] = over
       /\ \A r \in Record \ {api.r} : last'[r] = last[r]
  BY <1>1, <1>7, <1>9
<1> QED
  BY <1>1, <1>2, <1>3, <1>4, <1>5, <1>6, <1>8, <1>10

(* Its type.                                                                 *)
LEMMA EnqueueIntentTypes ==
  ASSUME TypeInv, EnqueueIntent
  PROVE  TypeInv'
<1>1. PICK e \in IntentEntry :
        /\ e.kind = "intent" /\ urgent' = Append(urgent, e) /\ e.intent \in intents
        /\ disc[api.r] # None /\ api.r \in Record
        /\ \A k \in DOMAIN urgent : urgent[k].kind = "intent" => urgent[k].intent # e.intent
        /\ last' \in [Record -> Change] /\ \A r \in Record \ {api.r} : last'[r] = last[r]
  BY EnqueueIntentEffect
<1>2. e \in UrgentEntry
  BY DEF UrgentEntry
<1>3. UNCHANGED <<rec, disc, intents, jobs, work, raced, spoiled, moves>> /\ api' = NoCall
  BY DEF EnqueueIntent
<1>4. Stores' /\ Keeps
  BY <1>3, StoresStay DEF TypeInv, Stores
<1>5. Entries'
  BY <1>1, <1>2, <1>3, EntriesGrow
<1>6. Calling' /\ Working'
  BY <1>1, <1>2, <1>3, <1>4, NoCalling, WorkStays
<1>7. Saved'
  BY <1>3, <1>4, SavedStays
<1>8. History'
  BY <1>1, <1>3 DEF TypeInv, History
<1> QED
  BY <1>4, <1>5, <1>6, <1>7, <1>8 DEF TypeInv

(* The API server or the users do what the worker and the queue do not see.  *)
LEMMA ApartFromWorker ==
  ASSUME TypeInv, UNCHANGED <<intents, queue, work, last>>, Stores', Keeps, Calling',
         moves' \in {moves, moves + 1}
  PROVE  TypeInv'
<1>1. Entries'
  BY EntriesStay DEF queue, TypeInv, Entries
<1>2. Working' /\ Saved' /\ History'
  BY WorkStays, SavedStays, HistoryStays DEF queue
<1> QED
  BY <1>1, <1>2 DEF TypeInv

(* Only the scores of the user change, unless the record is written over.    *)
LEMMA SaveScoreEffect ==
  ASSUME TypeInv, SaveScore
  PROVE  /\ TypeInv' /\ api.r \in Record
         /\ \A s \in Record \ {api.r} : rec'[s] = rec[s] /\ (s \in raced' => s \in raced)
         /\ raced \subseteq raced' /\ rec[api.r] # None /\ rec'[api.r] # None
         /\ api.r \notin raced' => rec'[api.r].fields = rec[api.r].fields
<1>1. /\ api.r \in Record /\ api.copy \in StoredRecord /\ rec[api.r] # None /\ api.score \in Value
  BY DEF SaveScore, TypeInv, Calling, ApiState
<1>2. PICK copy \in StoredRecord : /\ copy = [api.copy EXCEPT !.scores = @ \cup {api.score}]
                                   /\ copy.fields = api.copy.fields
  <2>1. PICK c \in StoredRecord, v \in Value : c = api.copy /\ v = api.score
    BY <1>1
  <2>2. PICK n : n = [c EXCEPT !.scores = @ \cup {v}]
    OBVIOUS
  <2>3. n \in StoredRecord /\ n.fields = c.fields
    BY <2>2 DEF StoredRecord
  <2> QED
    BY <2>1, <2>2, <2>3
<1>3. /\ Save(api.r, copy, api.copy) /\ api' = NoCall
      /\ UNCHANGED <<disc, spoiled, moves, intents, queue, work, last>>
  BY <1>2 DEF SaveScore, ghosts
<1>4. disc[api.r] # None
  BY <1>1 DEF TypeInv, Stores
<1>5. /\ Stores' /\ Keeps /\ rec'[api.r] = copy /\ copy # None
      /\ \A s \in Record \ {api.r} : rec'[s] = rec[s]
      /\ raced \subseteq raced' /\ (api.r \notin raced' => rec[api.r] = api.copy)
      /\ \A s \in Record \ {api.r} : s \in raced' => s \in raced
  BY <1>1, <1>3, <1>4, SaveTypes
<1>6. TypeInv'
  BY <1>3, <1>5, NoCalling, ApartFromWorker
<1> QED
  BY <1>1, <1>2, <1>5, <1>6

(* A record that is added has no fields set, or writes over one that has.    *)
LEMMA SaveAddedEffect ==
  ASSUME TypeInv, SaveAdded
  PROVE  /\ TypeInv' /\ api.r \in Record
         /\ \A s \in Record \ {api.r} : rec'[s] = rec[s] /\ (s \in raced' => s \in raced)
         /\ raced \subseteq raced' /\ rec'[api.r] # None /\ rec'[api.r].fields = Unset
         /\ api.r \notin raced' => rec[api.r] = None
<1>1. /\ api.r \in Record /\ disc[api.r] # None /\ api \in ApiState
      /\ \A i \in intents : i.r = api.r => i.id # MaxMoves
  BY DEF SaveAdded, TypeInv, Calling
<1>2. NewRecord \in StoredRecord /\ NewRecord.fields = Unset
  BY UnsetTypes
<1>3. /\ Save(api.r, NewRecord, None) /\ api' = [api EXCEPT !.pc = "bought"]
      /\ UNCHANGED <<disc, spoiled, moves, intents, queue, work, last>>
  BY DEF SaveAdded, ghosts
<1>4. /\ Stores' /\ Keeps /\ rec'[api.r] = NewRecord /\ NewRecord # None
      /\ \A s \in Record \ {api.r} : rec'[s] = rec[s]
      /\ raced \subseteq raced' /\ (api.r \notin raced' => rec[api.r] = None)
      /\ \A s \in Record \ {api.r} : s \in raced' => s \in raced
  BY <1>1, <1>2, <1>3, SaveTypes
<1>5. api' \in ApiState /\ api'.pc = "bought" /\ api'.r = api.r
  BY <1>1, <1>3 DEF ApiState
<1>6. Calling'
  BY <1>1, <1>3, <1>4, <1>5 DEF Calling
<1>7. TypeInv'
  BY <1>3, <1>4, <1>6, ApartFromWorker
<1> QED
  BY <1>1, <1>2, <1>4, <1>7

(* The intent of a purchase is saved.                                        *)
LEMMA SetPurchaseTypes ==
  ASSUME TypeInv, SetPurchase
  PROVE  TypeInv'
<1>1. /\ api.r \in Record /\ rec[api.r] # None
      /\ \A i \in intents : i.r = api.r => i.id # MaxMoves
  BY DEF SetPurchase, TypeInv, Calling
<1>2. PICK i \in IntentSet : i = Intent(api.r, Purchase, MaxMoves) /\ i.r = api.r /\ i.id = MaxMoves
  <2>1. Purchase \in Change /\ MaxMoves \in 0 .. MaxMoves
    BY ConstantsAssumption
  <2> QED
    BY <1>1, <2>1, IntentTypes
<1>3. /\ intents' = intents \cup {i} /\ api' = [NoCall EXCEPT !.pc = "enqueue", !.r = api.r, !.change = i]
      /\ UNCHANGED <<rec, disc, urgent, jobs, work, raced, last, spoiled, moves>>
  BY <1>2 DEF SetPurchase, ghosts, queue
<1>4. \A k \in DOMAIN urgent : urgent[k].kind = "intent" => urgent[k].intent # i
  BY <1>1, <1>2 DEF TypeInv, Entries
<1>5. api' \in ApiState /\ api'.pc = "enqueue" /\ api'.r = api.r /\ api'.change = i
  BY <1>1, <1>3, CallTypes DEF NoCall
<1>6. Calling'
  BY <1>1, <1>2, <1>3, <1>4, <1>5 DEF Calling
<1>7. Stores' /\ Keeps
  BY <1>3, StoresStay DEF TypeInv, Stores
<1>8. Entries' /\ Working' /\ History'
  BY <1>3, <1>7, EntriesStay, WorkStays, HistoryStays DEF TypeInv, Entries
<1>9. Saved'
  BY <1>1, <1>2, <1>3 DEF TypeInv, Saved
<1> QED
  BY <1>6, <1>7, <1>8, <1>9 DEF TypeInv

(* A record is added at Discogs; nothing is stored of it, and nothing wanted.*)
LEMMA AddReleaseEffect ==
  ASSUME TypeInv, NEW r \in Record, AddRelease(r)
  PROVE  /\ TypeInv' /\ disc[r] = None /\ rec[r] = None /\ last[r] = Unset
         /\ disc'[r] # None /\ \A f \in Field \ {"folder"} : disc'[r][f] = 0
         /\ \A s \in Record \ {r} : disc'[s] = disc[s]
<1>1. /\ disc[r] = None /\ UNCHANGED <<rec, intents, queue, work, last, raced, spoiled>>
      /\ disc' = [disc EXCEPT ![r] = [Unset EXCEPT !["folder"] = Default]]
      /\ api' = [NoCall EXCEPT !.pc = "add", !.r = r]
  BY DEF AddRelease
<1>2. rec[r] = None /\ last[r] = Unset
  BY <1>1 DEF TypeInv, Stores, History
<1>3. PICK d \in Fields : d = [Unset EXCEPT !["folder"] = Default] /\ \A f \in Field \ {"folder"} : d[f] = 0
  BY UnsetTypes, FieldFacts DEF Fields
<1>4. d # None
  BY NoneAssumption DEF Fields
<1>5. disc \in Page
  BY DEF TypeInv, Stores
<1>6. disc' \in Page /\ disc'[r] = d /\ \A s \in Record \ {r} : disc'[s] = disc[s]
  BY <1>1, <1>3, <1>5 DEF Page
<1>7. Keeps
  BY <1>1, <1>4, <1>6 DEF Keeps
<1>8. moves' = moves + 1 /\ moves' \in 0 .. MaxMoves
  BY MoveTypes DEF AddRelease
<1>9. Stores'
  <2>1. \A s \in Record : rec'[s] # None => disc'[s] # None
    BY <1>1, <1>7 DEF TypeInv, Stores, Keeps
  <2> QED
    BY <1>1, <1>6, <1>8, <2>1 DEF TypeInv, Stores
<1>10. api' \in ApiState /\ api'.pc = "add" /\ api'.r = r
  BY <1>1, CallTypes DEF NoCall
<1>11. \A i \in intents : i.r # r
  BY <1>2 DEF TypeInv, Saved
<1>12. Calling'
  BY <1>1, <1>4, <1>6, <1>10, <1>11 DEF Calling
<1>13. TypeInv'
  BY <1>1, <1>7, <1>8, <1>9, <1>12, ApartFromWorker
<1> QED
  BY <1>1, <1>2, <1>3, <1>4, <1>6, <1>13

(* The other things users do.                                                *)
LEMMA UsersTypes ==
  ASSUME TypeInv, NEW r \in Record,
         Miss(r) \/ ReadForScore(r, 1) \/ \E edit \in Edits : EditDiscogs(r, edit[1], edit[2])
  PROVE  TypeInv'
<1>1. CASE Miss(r)
  <2>1. /\ UNCHANGED <<rec, disc, intents, jobs, work, api, last, raced, spoiled>>
        /\ api.pc = "idle" /\ urgent' = Append(urgent, RefreshCollection(TRUE))
    BY <1>1 DEF Miss
  <2>2. moves' = moves + 1 /\ moves' \in 0 .. MaxMoves
    BY <1>1, MoveTypes DEF Miss
  <2>3. Stores' /\ Keeps
    BY <2>1, <2>2, StoresStay DEF TypeInv, Stores
  <2>4. RefreshCollection(TRUE) \in UrgentEntry /\ RefreshCollection(TRUE).kind = "refresh"
    BY DEF UrgentEntry, RefreshCollection
  <2>5. PICK e \in UrgentEntry : e = RefreshCollection(TRUE) /\ e.kind = "refresh"
    BY <2>4
  <2>6. Entries'
    BY <2>1, <2>5, EntriesGrow
  <2>7. Working' /\ History' /\ Saved'
    BY <2>1, <2>2, <2>3, <2>4, WorkStays, HistoryStays, SavedStays
  <2>8. Calling'
    BY <2>1 DEF TypeInv, Calling
  <2> QED
    BY <2>3, <2>6, <2>7, <2>8 DEF TypeInv
<1>2. CASE ReadForScore(r, 1)
  <2>1. /\ UNCHANGED <<rec, disc, intents, queue, work, last, raced, spoiled>> /\ rec[r] # None
        /\ api' = [NoCall EXCEPT !.pc = "score", !.r = r, !.copy = rec[r], !.score = 1]
    BY <1>2 DEF ReadForScore
  <2>2. moves' = moves + 1 /\ moves' \in 0 .. MaxMoves
    BY <1>2, MoveTypes DEF ReadForScore
  <2>3. PICK copy \in StoredRecord : copy = rec[r]
    BY <2>1 DEF TypeInv, Stores
  <2>4. api' = [NoCall EXCEPT !.pc = "score", !.r = r, !.copy = copy, !.score = 1]
    BY <2>1, <2>3
  <2>5. api' \in ApiState /\ api'.pc = "score" /\ api'.r = r /\ api'.copy = copy
    BY <2>4, CallTypes, FieldFacts DEF NoCall
  <2>6. Calling'
    BY <2>1, <2>5 DEF Calling
  <2>7. Stores' /\ Keeps
    BY <2>1, <2>2, StoresStay DEF TypeInv, Stores
  <2> QED
    BY <2>1, <2>2, <2>6, <2>7, ApartFromWorker
<1>3. ASSUME NEW edit \in Edits, EditDiscogs(r, edit[1], edit[2]) PROVE TypeInv'
  <2>1. PICK f \in Field, v \in Value : f = edit[1] /\ v = edit[2]
    BY ConstantsAssumption
  <2>2. /\ UNCHANGED <<rec, intents, queue, work, api, last, raced>> /\ disc[r] # None
        /\ disc' = [disc EXCEPT ![r][f] = v] /\ spoiled' = spoiled \cup {r}
    BY <1>3, <2>1 DEF EditDiscogs
  <2>3. moves' = moves + 1 /\ moves' \in 0 .. MaxMoves
    BY <1>3, MoveTypes DEF EditDiscogs
  <2>4. spoiled' \subseteq Record
    BY <2>2 DEF TypeInv, Stores
  <2>5. Stores' /\ Keeps
    BY <2>2, <2>3, <2>4, DiscTypes
  <2>6. Calling'
    BY <2>2, <2>5, CallingStays DEF TypeInv, Calling, queue
  <2> QED
    BY <2>2, <2>3, <2>5, <2>6, ApartFromWorker
<1> QED
  BY <1>1, <1>2, <1>3

(*-------------------------------------------------------------------------*)
(* Every step keeps the types                                              *)

(* The tasks that end without anything being stored.                         *)
LEMMA EndTypes ==
  ASSUME TypeInv, RunMoves \/ FinishRefresh \/ DeleteIntent \/ NotFound \/ NoDigitalList \/ WantsRefused \/ Bury
  PROVE  /\ TypeInv' /\ UNCHANGED <<rec, disc, api, last, raced>> /\ work' = Idle
         /\ \/ UNCHANGED urgent /\ UNCHANGED spoiled
            \/ /\ urgent # <<>> /\ Head(urgent) \in UrgentEntry \ IntentEntry /\ urgent' = Tail(urgent)
               /\ UNCHANGED spoiled
            \/ /\ work.pc # "idle" /\ Executing /\ urgent # <<>> /\ Head(urgent) = work.job /\ urgent' = Tail(urgent)
               /\ \/ work.pc = "delete" /\ UNCHANGED spoiled
                  \/ spoiled' = spoiled \cup {Of}
<1>1. UNCHANGED <<rec, disc, api, last, raced>>
  BY DEF RunMoves, FinishRefresh, DeleteIntent, NotFound, NoDigitalList, WantsRefused, Bury, ghosts
<1> DEFINE there == {m \in Record \X Rules : Matches(m[2], m[1])}
           some == {MoveRecord(m[1], m[2].folder) : m \in there}
<1>2. SetToSeq(some) \in Seq(JobEntry)
  <2>1. some \subseteq MoveEntry
    BY ConstantsAssumption DEF MoveRecord, MoveEntry, Rule
  <2> HIDE DEF there, some
  <2>2. SetToSeq(some) \in Seq(some)
    BY <2>1, MovesFinite, FS_Subset, SetToSeqTypes
  <2>3. some \subseteq JobEntry
    BY <2>1 DEF JobEntry
  <2> QED
    BY <2>2, <2>3, SeqMonotonic
<1>3. PICK j \in UrgentEntry \cup JobEntry, new \in Seq(JobEntry) :
        /\ Finish(j, new)
        /\ j \in UrgentEntry => urgent # <<>> /\ Head(urgent) = j
        /\ j.kind = "intent" => work.pc # "idle" /\ Executing /\ j = work.job
        /\ \/ intents' = intents
           \/ work.pc = "delete" /\ j \in IntentEntry /\ intents' = intents \ {j.intent}
        /\ moves' \in {moves, moves + 1} /\ moves' \in 0 .. MaxMoves
        /\ j.kind # "intent" => spoiled' = spoiled
        /\ j.kind = "intent" => (work.pc = "delete" /\ spoiled' = spoiled) \/ spoiled' = spoiled \cup {Of}
  <2>1. <<>> \in Seq(JobEntry) /\ <<MoveRecords>> \in Seq(JobEntry)
    BY DEF JobEntry
  <2>2. moves \in 0 .. MaxMoves
    BY DEF TypeInv, Stores
  <2>3. CASE RunMoves
    <3>1. Doing.kind = "moves" /\ urgent \o jobs # <<>> /\ Finish(Doing, SetToSeq(some))
      BY <2>3 DEF RunMoves, Begin, Doing
    <3>2. PICK d \in UrgentEntry \cup JobEntry :
            /\ d = Doing /\ d.kind = "moves" /\ (d \in UrgentEntry => urgent # <<>> /\ Head(urgent) = d)
      BY <3>1, DoingTypes
    <3>3. intents' = intents /\ moves' = moves /\ spoiled' = spoiled
      BY <2>3 DEF RunMoves, ghosts
    <3>4. d.kind # "intent"
      BY <3>2
    <3>5. Finish(d, SetToSeq(some))
      BY <3>1, <3>2
    <3> HIDE DEF some, there
    <3> QED
      BY <1>2, <2>2, <3>2, <3>3, <3>4, <3>5
  <2>4. CASE FinishRefresh
    <3>1. work.pc = "merge" /\ Finish(work.job, <<MoveRecords>>)
      BY <2>4 DEF FinishRefresh
    <3>2. work.job \in {RefreshCollection(TRUE), RefreshCollection(FALSE)}
      BY <3>1 DEF TypeInv, Working, ByPc
    <3>3. PICK d \in UrgentEntry \cup JobEntry :
            d = work.job /\ (d \in UrgentEntry => urgent # <<>> /\ Head(urgent) = d)
      BY <3>1, JobTypes
    <3>4. d.kind # "intent"
      BY <3>2, <3>3 DEF RefreshCollection
    <3>5. intents' = intents /\ moves' = moves /\ spoiled' = spoiled
      BY <2>4 DEF FinishRefresh, ghosts
    <3> QED
      BY <2>1, <2>2, <3>1, <3>3, <3>4, <3>5
  <2>5. CASE DeleteIntent
    <3>1. work.pc = "delete" /\ Executing /\ Finish(work.job, <<>>) /\ intents' = intents \ {work.job.intent}
      BY <2>5 DEF DeleteIntent, TypeInv, Working, ByPc
    <3>2. PICK d \in UrgentEntry \cup JobEntry :
            d = work.job /\ d \in IntentEntry /\ (d \in UrgentEntry => urgent # <<>> /\ Head(urgent) = d)
      BY <3>1, JobTypes
    <3>3. moves' = moves /\ spoiled' = spoiled
      BY <2>5 DEF DeleteIntent, ghosts
    <3>4. d.kind = "intent"
      BY <3>2, EntryKinds
    <3> QED
      BY <2>1, <2>2, <3>1, <3>2, <3>3, <3>4
  <2>6. ASSUME work.pc # "idle", Finish(work.job, <<>>), spoiled' = spoiled \cup Spoils(work.job),
               intents' = intents, moves' \in {moves, moves + 1}, moves' \in 0 .. MaxMoves
        PROVE  \E j \in UrgentEntry \cup JobEntry, new \in Seq(JobEntry) :
                 /\ Finish(j, new)
                 /\ j \in UrgentEntry => urgent # <<>> /\ Head(urgent) = j
                 /\ j.kind = "intent" => work.pc # "idle" /\ Executing /\ j = work.job
                 /\ \/ intents' = intents
                    \/ work.pc = "delete" /\ j \in IntentEntry /\ intents' = intents \ {j.intent}
                 /\ moves' \in {moves, moves + 1} /\ moves' \in 0 .. MaxMoves
                 /\ j.kind # "intent" => spoiled' = spoiled
                 /\ j.kind = "intent" => (work.pc = "delete" /\ spoiled' = spoiled) \/ spoiled' = spoiled \cup {Of}
    <3>1. work.pc # "idle"
      BY <2>6
    <3>2. PICK d \in UrgentEntry \cup JobEntry :
            d = work.job /\ (d \in UrgentEntry => urgent # <<>> /\ Head(urgent) = d)
      BY <3>1, JobTypes
    <3>3. d.kind = "intent" => Executing
      <4>1. \/ Executing \/ Moving
            \/ d \in {RefreshCollection(TRUE), RefreshCollection(FALSE)}
        BY <2>6, <3>2 DEF TypeInv, Working, ByPc, WorkState
      <4> QED
        BY <3>2, <4>1 DEF RefreshCollection, Moving
    <3>4. /\ d.kind # "intent" => spoiled' = spoiled
          /\ d.kind = "intent" => spoiled' = spoiled \cup {Of}
      BY <2>6, <3>1, <3>2, <3>3, SpoilsTypes
    <3> QED
      BY <2>1, <2>6, <3>1, <3>2, <3>3, <3>4
  <2>7. CASE NotFound
    <3>1. /\ work.pc = "call" /\ Finish(work.job, <<>>) /\ spoiled' = spoiled \cup Spoils(work.job)
          /\ intents' = intents /\ moves' = moves
      BY <2>7 DEF NotFound, Misplaced, GiveUp
    <3> QED
      BY <2>2, <2>6, <3>1
  <2>9. CASE NoDigitalList \/ WantsRefused
    <3>1. /\ work.pc # "idle" /\ Finish(work.job, <<>>) /\ spoiled' = spoiled \cup Spoils(work.job)
          /\ intents' = intents /\ moves' = moves
      BY <2>9 DEF NoDigitalList, WantsRefused, GiveUp
    <3> QED
      BY <2>2, <2>6, <3>1
  <2>8. CASE Bury
    <3>1. /\ work.pc # "idle" /\ Finish(work.job, <<>>) /\ spoiled' = spoiled \cup Spoils(work.job)
          /\ intents' = intents
      BY <2>8 DEF Bury, GiveUp
    <3>2. moves' = moves + 1 /\ moves' \in 0 .. MaxMoves
      BY <2>8, MoveTypes DEF Bury
    <3> QED
      BY <2>6, <3>1, <3>2
  <2> HIDE DEF some, there
  <2> QED
    BY <2>3, <2>4, <2>5, <2>7, <2>8, <2>9
<1>4. spoiled' \subseteq Record
  <2>1. j.kind = "intent" => Of \in Record
    BY <1>3, JobTypes
  <2> QED
    BY <1>3, <2>1 DEF TypeInv, Stores
<1>5. Stores' /\ Keeps
  BY <1>1, <1>3, <1>4, StoresStay DEF TypeInv, Stores
<1>6. TypeInv'
  BY <1>1, <1>3, <1>5, WorkerDone
<1>7. /\ work' = Idle
      /\ j \in UrgentEntry => urgent' = Tail(urgent)
      /\ j \notin UrgentEntry => urgent' = urgent
  BY <1>3, FinishRemoves
<1>8. CASE j \notin UrgentEntry
  <2>1. j.kind # "intent"
    BY <1>8, EntryKinds DEF UrgentEntry
  <2> QED
    BY <1>1, <1>3, <1>6, <1>7, <1>8, <2>1
<1>9. CASE j \in UrgentEntry /\ j.kind # "intent"
  <2>1. j \notin IntentEntry
    BY <1>9, EntryKinds
  <2> QED
    BY <1>1, <1>3, <1>6, <1>7, <1>9, <2>1
<1>10. CASE j \in UrgentEntry /\ j.kind = "intent"
  BY <1>1, <1>3, <1>6, <1>7, <1>10
<1> QED
  BY <1>8, <1>9, <1>10

(* A crash leaves the entry where it is.                                     *)
LEMMA AgainTypes ==
  ASSUME TypeInv, Again
  PROVE  TypeInv' /\ work' = Idle /\ UNCHANGED <<rec, disc, urgent, last, raced, spoiled>>
<1>1. /\ UNCHANGED <<rec, disc, intents, urgent, jobs, api, last, raced, spoiled>> /\ work' = Idle
      /\ moves' = moves + 1 /\ moves' \in 0 .. MaxMoves
  BY MoveTypes DEF Again, queue
<1>2. Stores' /\ Keeps
  BY <1>1, StoresStay DEF TypeInv, Stores
<1>3. Entries' /\ Saved' /\ History' /\ Working'
  BY <1>1, <1>2, EntriesStay, SavedStays, HistoryStays, IdleWorking DEF TypeInv, Entries
<1>4. Calling'
  BY <1>1, <1>2, CallingStays DEF TypeInv, Calling
<1> QED
  BY <1>1, <1>2, <1>3, <1>4 DEF TypeInv

(* An entry that is put off goes behind the other urgent ones.               *)
LEMMA PostponeTypes ==
  ASSUME TypeInv, Postpone
  PROVE  /\ TypeInv' /\ work' = Idle /\ UNCHANGED <<rec, disc, last, raced>>
         /\ Executing /\ urgent # <<>> /\ Head(urgent) = work.job /\ work.job \in IntentEntry
         /\ urgent' = Append(Tail(urgent), Head(urgent)) /\ spoiled' = spoiled \cup {Of}
<1>1. Executing /\ work.pc # "idle"
  BY DEF Postpone, Executing
<1>2. work.job \in IntentEntry /\ Of \in Record /\ urgent # <<>> /\ Head(urgent) = work.job
  BY <1>1, JobTypes DEF UrgentEntry
<1>3. /\ UNCHANGED <<rec, disc, intents, jobs, api, last, raced, moves>> /\ work' = Idle
      /\ urgent' = Append(Tail(urgent), Head(urgent)) /\ spoiled' = spoiled \cup {Of}
  BY <1>2 DEF Postpone
<1>4. Stores' /\ Keeps
  BY <1>2, <1>3, StoresStay DEF TypeInv, Stores
<1>5. Entries' /\ \A k \in DOMAIN urgent' : \E m \in DOMAIN urgent : urgent'[k] = urgent[m]
  BY <1>2, <1>3, EntriesTurn
<1>6. Saved' /\ History' /\ Working'
  BY <1>3, <1>4, SavedStays, HistoryStays, IdleWorking
<1>7. Calling'
  BY <1>3, <1>4, <1>5, CallingStays DEF TypeInv, Calling
<1> QED
  BY <1>1, <1>2, <1>3, <1>4, <1>5, <1>6, <1>7 DEF TypeInv

(* The steps of the worker.                                                  *)
LEMMA WorkerTypes ==
  ASSUME TypeInv, Worker
  PROVE  TypeInv'
<1>1. /\ jobs \in Seq(JobEntry) /\ moves \in 0 .. MaxMoves
      /\ spoiled \subseteq Record
  BY DEF TypeInv, Entries, Stores
<1>2. CASE BeginIntent
  <2>1. UNCHANGED <<rec, disc, intents, urgent, jobs, api, last, raced, spoiled, moves>>
    BY <1>2, BeginIntentEffect DEF BeginIntent, ghosts, queue
  <2>2. Stores' /\ Keeps
    BY <1>1, <2>1, StoresStay
  <2> QED
    BY <1>1, <1>2, <2>1, <2>2, IntentLoaded, WorkerGoesOn
<1>3. CASE Postpone
  BY <1>3, PostponeTypes
<1>4. CASE Skip
  <2>1. UNCHANGED <<rec, disc, intents, urgent, jobs, api, last, raced, spoiled, moves>>
    BY <1>4 DEF Skip, ghosts, queue
  <2>2. Stores' /\ Keeps
    BY <1>1, <2>1, StoresStay
  <2> QED
    BY <1>1, <1>4, <2>1, <2>2, SkipWorks, WorkerGoesOn
<1>5. CASE SetField
  <2>1. UNCHANGED <<intents, urgent, jobs, api, last, moves>>
    BY <1>5 DEF SetField, ghosts, queue
  <2> QED
    BY <1>1, <1>5, <2>1, SetFieldWorks, SetFieldSends, WorkerGoesOn
<1>6. CASE EnqueueWants
  <2>1. UNCHANGED <<rec, disc, intents, urgent, jobs, api, last, raced, spoiled, moves>>
    BY <1>6 DEF EnqueueWants, ghosts, queue
  <2>2. Stores' /\ Keeps
    BY <1>1, <2>1, StoresStay
  <2> QED
    BY <1>1, <1>6, <2>1, <2>2, EnqueueWantsWorks, WorkerGoesOn
<1>7. CASE SaveField
  <2>1. UNCHANGED <<disc, spoiled, intents, urgent, jobs, api, last, moves>>
    BY <1>7 DEF SaveField, ghosts, queue
  <2>2. Executing /\ work.pc = "save"
    BY <1>7, SaveFieldWorks
  <2>3. Of \in Record /\ disc[Of] # None
    BY <2>2, JobTypes
  <2>4. PICK copy \in StoredRecord : Save(Of, copy, work.base)
    BY <1>7, SaveFieldWorks
  <2>5. Stores' /\ Keeps
    BY <2>1, <2>3, <2>4, SaveTypes
  <2> QED
    BY <1>1, <1>7, <2>1, <2>5, SaveFieldWorks, WorkerGoesOn
<1>8. CASE EnqueueMoves
  <2>1. UNCHANGED <<rec, disc, intents, urgent, api, last, raced, spoiled, moves>>
    BY <1>8 DEF EnqueueMoves, ghosts
  <2>2. Stores' /\ Keeps
    BY <1>1, <2>1, StoresStay
  <2> QED
    BY <1>8, <2>1, <2>2, EnqueueMovesWorks, WorkerGoesOn
<1>9. CASE RunMoves \/ FinishRefresh \/ DeleteIntent \/ NotFound \/ NoDigitalList \/ WantsRefused
  BY <1>9, EndTypes
<1>10. CASE BeginMove
  <2>1. UNCHANGED <<rec, disc, intents, api, last, raced, spoiled, moves>>
    BY <1>10 DEF BeginMove, ghosts
  <2>2. Stores' /\ Keeps
    BY <1>1, <2>1, StoresStay
  <2>3. PICK d \in MoveEntry :
          /\ d = Doing
          /\ (Working' /\ UNCHANGED queue) \/ Finish(d, <<>>)
    BY <1>10, BeginMoveEffect
  <2>4. CASE Working' /\ UNCHANGED queue
    BY <1>1, <2>1, <2>2, <2>4, WorkerGoesOn DEF queue
  <2>5. CASE Finish(d, <<>>)
    <3>1. d \in JobEntry
      BY DEF JobEntry
    <3>2. d \notin UrgentEntry
      BY <3>1, EntryKinds
    <3>3. PICK new \in Seq(JobEntry) : Finish(d, new)
      <4>1. <<>> \in Seq(JobEntry)
        OBVIOUS
      <4> QED
        BY <2>5, <4>1
    <3> QED
      BY <2>1, <2>2, <3>1, <3>2, <3>3, WorkerDone
  <2> QED
    BY <2>3, <2>4, <2>5
<1>11. CASE SetFolder
  <2>1. UNCHANGED <<intents, urgent, jobs, api, last, moves>>
    BY <1>11 DEF SetFolder, ghosts, queue
  <2> QED
    BY <1>1, <1>11, <2>1, SetFolderEffect, WorkerGoesOn
<1>12. CASE SaveMoved
  <2>1. UNCHANGED <<intents, api, last, moves>>
    BY <1>12 DEF SaveMoved, ghosts
  <2>2. PICK d \in MoveEntry : d = work.job /\ Finish(d, <<MoveRecords>>) /\ Stores' /\ Keeps
    BY <1>12, SaveMovedEffect
  <2>3. d \in JobEntry
    BY DEF JobEntry
  <2>4. d \notin UrgentEntry
    BY <2>3, EntryKinds
  <2>5. PICK new \in Seq(JobEntry) : Finish(d, new)
    <3>1. <<MoveRecords>> \in Seq(JobEntry)
      BY DEF JobEntry
    <3> QED
      BY <2>2, <3>1
  <2> QED
    BY <2>1, <2>2, <2>3, <2>4, <2>5, WorkerDone
<1>13. CASE BeginRefresh \/ Fetch \/ ReadStored
  <2>1. UNCHANGED <<rec, disc, intents, urgent, jobs, api, last, raced, spoiled, moves>>
    BY <1>13 DEF BeginRefresh, Fetch, ReadStored, ghosts, queue
  <2>2. Stores' /\ Keeps
    BY <1>1, <2>1, StoresStay
  <2>3. Working'
    BY <1>13, BeginRefreshWorks, FetchWorks, ReadStoredWorks
  <2> QED
    BY <1>1, <2>1, <2>2, <2>3, WorkerGoesOn
<1>14. CASE MergeRecord
  <2>1. UNCHANGED <<intents, urgent, jobs, api, last, moves>>
    BY <1>14 DEF MergeRecord, ghosts, queue
  <2>2. Stores' /\ Keeps /\ Working'
    BY <1>14, MergeRecordEffect
  <2> QED
    BY <1>1, <2>1, <2>2, WorkerGoesOn
<1> QED
  BY <1>2, <1>3, <1>4, <1>5, <1>6, <1>7, <1>8, <1>9, <1>10, <1>11, <1>12, <1>13, <1>14 DEF Worker

(* Steps that change nothing the invariant speaks of but the queue's others. *)
LEMMA QuietTypes ==
  ASSUME TypeInv, Week \/ Organise \/ CallLost \/ UNCHANGED vars
  PROVE  TypeInv' /\ UNCHANGED <<rec, disc, urgent, work, last, raced, spoiled>>
<1>1. UNCHANGED <<rec, disc, intents, urgent, work, last, raced, spoiled>>
  BY DEF Week, Organise, CallLost, vars, ghosts, queue
<1>2. moves' \in {moves, moves + 1} /\ moves' \in 0 .. MaxMoves
  BY MoveTypes DEF Week, Organise, CallLost, vars, ghosts, TypeInv, Stores
<1>3. Stores' /\ Keeps
  BY <1>1, <1>2, StoresStay DEF TypeInv, Stores
<1>4. jobs' \in Seq(JobEntry)
  <2>1. CASE Week
    <3>1. PICK e \in JobEntry : e = RefreshCollection(FALSE)
      BY DEF JobEntry
    <3>2. <<e>> \in Seq(JobEntry)
      OBVIOUS
    <3> QED
      BY <2>1, <3>1, <3>2 DEF Week
  <2>2. CASE ~ Week
    BY <2>2 DEF Organise, CallLost, vars, queue, TypeInv, Entries
  <2> QED
    BY <2>1, <2>2
<1>5. Calling'
  <2>1. CASE api' = NoCall
    BY <2>1, NoCalling
  <2>2. CASE api' = api
    BY <1>1, <1>3, <2>2, CallingStays DEF TypeInv, Calling
  <2> QED
    BY <2>1, <2>2 DEF Week, Organise, CallLost, vars
<1>6. Entries' /\ Working' /\ Saved' /\ History'
  BY <1>1, <1>2, <1>3, <1>4, EntriesStay, WorkStays, SavedStays, HistoryStays
<1> QED
  BY <1>1, <1>3, <1>5, <1>6 DEF TypeInv

(* Every step keeps the types.                                               *)
LEMMA TypeInvNext == TypeInv /\ [Next]_vars => TypeInv'
<1> SUFFICES ASSUME TypeInv, [Next]_vars PROVE TypeInv'
  OBVIOUS
<1>1. CASE Worker
  BY <1>1, WorkerTypes
<1>2. CASE Server
  BY <1>2, EnqueueIntentTypes, SaveScoreEffect, SaveAddedEffect, SetPurchaseTypes DEF Server
<1>3. ASSUME NEW r \in Record,
             \/ AddRelease(r)
             \/ \E change \in Offers : SetIntent(r, change)
             \/ ReadForScore(r, 1)
             \/ Miss(r)
             \/ \E edit \in Edits : EditDiscogs(r, edit[1], edit[2])
      PROVE  TypeInv'
  BY <1>3, AddReleaseEffect, SetIntentTypes, UsersTypes
<1>4. CASE Again \/ Bury
  BY <1>4, AgainTypes, EndTypes
<1>5. CASE Week \/ Organise \/ CallLost \/ UNCHANGED vars
  BY <1>5, QuietTypes
<1> QED
  BY <1>1, <1>2, <1>3, <1>4, <1>5 DEF Next, Users

(* The types hold at the start, when nothing is queued.                      *)
LEMMA TypeInvInit == Init => TypeInv
<1> SUFFICES ASSUME Init PROVE TypeInv
  OBVIOUS
<1>1. PICK owned \in Owned :
        /\ rec = [r \in Record |-> IF r \in owned
                                   THEN [NewRecord EXCEPT !.fields["folder"] = Default] ELSE None]
        /\ disc = [r \in Record |-> IF r \in owned THEN [Unset EXCEPT !["folder"] = Default] ELSE None]
  BY DEF Init
<1>2. PICK fresh \in StoredRecord : fresh = [NewRecord EXCEPT !.fields["folder"] = Default]
  BY UnsetTypes, FieldFacts DEF StoredRecord
<1>3. PICK theirs \in Fields : theirs = [Unset EXCEPT !["folder"] = Default]
  BY UnsetTypes, FieldFacts DEF Fields
<1>4. fresh # None /\ theirs # None
  BY NoneAssumption DEF Fields
<1>5. rec = [r \in Record |-> IF r \in owned THEN fresh ELSE None]
  BY <1>1, <1>2
<1>6. disc = [r \in Record |-> IF r \in owned THEN theirs ELSE None]
  BY <1>1, <1>3
<1>7. Stores
  <2>1. MaxMoves \in Nat
    BY ConstantsAssumption
  <2> QED
    BY <1>4, <1>5, <1>6, <2>1 DEF Init, Stores, Page
<1>8. History
  BY UnsetTypes DEF Init, History
<1>9. Saved
  BY DEF Init, Saved
<1>10. Entries
  <2>1. urgent = <<>> /\ jobs = <<>>
    BY DEF Init
  <2> QED
    BY <2>1 DEF Entries
<1>11. Calling
  BY CallTypes DEF Init, Calling
<1>12. Working
  BY IdleTypes DEF Init, Working, ByPc, TakenIntent, TakenMove, TakenPage, Executing, Moving, Merging
<1> QED
  BY <1>7, <1>8, <1>9, <1>10, <1>11, <1>12 DEF TypeInv

(* The invariant says all that TypeOK does.                                  *)
LEMMA TypeInvTypes == TypeInv => TypeOK
<1> SUFFICES ASSUME TypeInv PROVE TypeOK
  OBVIOUS
<1>1. \A r \in Record : rec[r] # None => rec[r].fields \in [Field -> Value] /\ rec[r].scores \subseteq Value
  BY DEF TypeInv, Stores, StoredRecord
<1>2. \A r \in Record : disc[r] # None => disc[r] \in [Field -> Value]
  BY DEF TypeInv, Stores, Page, Fields
<1>3. \A r \in Record : rec[r] # None => disc[r] # None
  BY DEF TypeInv, Stores
<1>4. \A i \in intents : i.r \in Record /\ i.change \in Change
  BY DEF TypeInv, Saved, IntentSet
<1>5. \A i, j \in DOMAIN urgent : urgent[i].kind = "intent" /\ urgent[i] = urgent[j] => i = j
  BY DEF TypeInv, Entries
<1>6. last \in [Record -> Change] /\ raced \cup spoiled \subseteq Record
  BY DEF TypeInv, History, Stores
<1> QED
  BY <1>1, <1>2, <1>3, <1>4, <1>5, <1>6 DEF TypeOK, TypeInv, Stores

(* Every variable keeps its type, and no two urgent entries are for one      *)
(* intent, though calls are lost between saving an intent and enqueueing it, *)
(* intents are run again and entries change places.                          *)
THEOREM RecordsTypeCorrect == Spec => []TypeOK
<1>1. Spec => []TypeInv
  BY TypeInvInit, TypeInvNext, PTL DEF Spec
<1> QED
  BY <1>1, TypeInvTypes, PTL

(*-------------------------------------------------------------------------*)
(* What users wanted last                                                  *)

(* An entry claims what it claimed while the queue and the changes stay.     *)
LEMMA ClaimsStay ==
  ASSUME NEW r, NEW f, UNCHANGED urgent, last'[r] = last[r]
  PROVE  (Newest(r, f) => Newest(r, f)') /\ (Claimed(r, f)' <=> Claimed(r, f))
  BY DEF Newest, Claimed, Claim

(* The first entry goes: if it was the last to claim a field, it had what    *)
(* the user wanted last.                                                     *)
LEMMA ClaimsShrink ==
  ASSUME TypeInv, NEW r, NEW f, urgent # <<>>, urgent' = Tail(urgent), last'[r] = last[r]
  PROVE  /\ Newest(r, f) => Newest(r, f)'
         /\ Claimed(r, f)' => Claimed(r, f)
         /\ Claimed(r, f) /\ ~ Claimed(r, f)' => Claim(1, r, f)
         /\ Newest(r, f) /\ Claimed(r, f) /\ ~ Claimed(r, f)' => urgent[1].intent.change[f] = last[r][f]
<1>1. urgent \in Seq(UrgentEntry)
  BY DEF TypeInv, Entries
<1>2. PICK rest : rest = Tail(urgent)
  OBVIOUS
<1>3. /\ 1 \in DOMAIN urgent /\ DOMAIN urgent \subseteq Nat \ {0}
      /\ \A k \in DOMAIN rest : k \in Nat \ {0} /\ k + 1 \in DOMAIN urgent /\ rest[k] = urgent[k + 1]
      /\ \A k \in DOMAIN urgent : k = 1 \/ (k - 1 \in DOMAIN rest /\ rest[k - 1] = urgent[k])
  BY <1>1, <1>2, TailPlaces
<1>4. urgent' = rest
  BY <1>2
<1>5. \A k \in DOMAIN rest : Claim(k, r, f)' <=> Claim(k + 1, r, f)
  BY <1>3, <1>4 DEF Claim
<1>6. \A k \in DOMAIN urgent : Claim(k, r, f) => k = 1 \/ (k - 1 \in DOMAIN rest /\ Claim(k - 1, r, f)')
  BY <1>3, <1>4 DEF Claim
<1>7. Newest(r, f) => Newest(r, f)'
  <2> SUFFICES ASSUME Newest(r, f), NEW k \in DOMAIN urgent', Claim(k, r, f)',
                      \A m \in DOMAIN urgent' : Claim(m, r, f)' => m <= k
               PROVE  urgent'[k].intent.change[f] = last'[r][f]
    BY DEF Newest
  <2>1. k \in DOMAIN rest /\ k \in Nat \ {0} /\ k + 1 \in DOMAIN urgent /\ rest[k] = urgent[k + 1] /\ Claim(k + 1, r, f)
    BY <1>3, <1>4, <1>5
  <2>2. ASSUME NEW m \in DOMAIN urgent, Claim(m, r, f) PROVE m <= k + 1
    <3>1. m = 1 \/ (m - 1 \in DOMAIN rest /\ Claim(m - 1, r, f)')
      BY <1>6, <2>2
    <3>2. m = 1 \/ m - 1 <= k
      BY <1>4, <3>1
    <3> QED
      BY <1>3, <2>1, <3>2
  <2>3. urgent[k + 1].intent.change[f] = last[r][f]
    BY <2>1, <2>2 DEF Newest
  <2> QED
    BY <1>4, <2>1, <2>3
<1>8. Claimed(r, f)' => Claimed(r, f)
  BY <1>3, <1>4, <1>5 DEF Claimed
<1>9. ASSUME Claimed(r, f), ~ Claimed(r, f)'
      PROVE  Claim(1, r, f) /\ (Newest(r, f) => urgent[1].intent.change[f] = last[r][f])
  <2>1. \A k \in DOMAIN rest : ~ Claim(k, r, f)'
    BY <1>4, <1>9 DEF Claimed
  <2>2. \A k \in DOMAIN urgent : Claim(k, r, f) => k = 1
    BY <1>6, <2>1
  <2>3. Claim(1, r, f)
    BY <1>9, <2>2 DEF Claimed
  <2>4. \A m \in DOMAIN urgent : Claim(m, r, f) => m <= 1
    BY <2>2
  <2> QED
    BY <1>3, <2>3, <2>4 DEF Newest
<1> QED
  BY <1>7, <1>8, <1>9

(* The first entry goes to the end: nothing changes for other records.       *)
LEMMA ClaimsTurn ==
  ASSUME TypeInv, NEW r, NEW f, urgent # <<>>, urgent' = Append(Tail(urgent), Head(urgent)), last'[r] = last[r],
         ~ Claim(1, r, f)
  PROVE  (Newest(r, f) => Newest(r, f)') /\ (Claimed(r, f)' <=> Claimed(r, f))
<1>1. urgent \in Seq(UrgentEntry)
  BY DEF TypeInv, Entries
<1>2. PICK rest \in Seq(UrgentEntry) : rest = Tail(urgent)
  BY <1>1, TailPlaces
<1>3. PICK first \in UrgentEntry : first = Head(urgent)
  BY <1>1, TailPlaces
<1>4. /\ 1 \in DOMAIN urgent /\ DOMAIN urgent \subseteq Nat \ {0} /\ first = urgent[1]
      /\ \A k \in DOMAIN rest : k \in Nat \ {0} /\ k + 1 \in DOMAIN urgent /\ rest[k] = urgent[k + 1]
      /\ \A k \in DOMAIN urgent : k = 1 \/ (k - 1 \in DOMAIN rest /\ rest[k - 1] = urgent[k])
  BY <1>1, <1>2, <1>3, TailPlaces
<1>5. PICK turned : turned = Append(rest, first)
  OBVIOUS
<1>6. PICK n \in Nat \ {0} :
        /\ DOMAIN turned = DOMAIN rest \cup {n} /\ turned[n] = first
        /\ \A k \in DOMAIN rest : k \in Nat /\ k < n /\ turned[k] = rest[k]
  BY <1>5, AppendPlaces
<1>7. urgent' = turned
  BY <1>2, <1>3, <1>5
<1>8. \A k : k = n => ~ Claim(k, r, f)'
  BY <1>4, <1>6, <1>7 DEF Claim
<1>9. \A k \in DOMAIN rest : k \in DOMAIN urgent' /\ (Claim(k, r, f)' <=> Claim(k + 1, r, f))
  BY <1>4, <1>6, <1>7 DEF Claim
<1>10. \A k \in DOMAIN urgent' : Claim(k, r, f)' => k \in DOMAIN rest
  BY <1>6, <1>7, <1>8
<1>11. \A k \in DOMAIN urgent : Claim(k, r, f) => k - 1 \in DOMAIN rest /\ Claim(k - 1, r, f)'
  <2> SUFFICES ASSUME NEW k \in DOMAIN urgent, Claim(k, r, f)
               PROVE  k - 1 \in DOMAIN rest /\ Claim(k - 1, r, f)'
    OBVIOUS
  <2>1. k - 1 \in DOMAIN rest /\ k \in Nat \ {0} /\ (k - 1) + 1 = k
    BY <1>4
  <2>2. Claim(k - 1, r, f)' <=> Claim((k - 1) + 1, r, f)
    BY <1>9, <2>1
  <2> QED
    BY <2>1, <2>2
<1>12. Newest(r, f) => Newest(r, f)'
  <2> SUFFICES ASSUME Newest(r, f), NEW k \in DOMAIN urgent', Claim(k, r, f)',
                      \A m \in DOMAIN urgent' : Claim(m, r, f)' => m <= k
               PROVE  urgent'[k].intent.change[f] = last'[r][f]
    BY DEF Newest
  <2>1. k \in DOMAIN rest /\ k \in Nat \ {0} /\ k + 1 \in DOMAIN urgent /\ rest[k] = urgent[k + 1] /\ Claim(k + 1, r, f)
    BY <1>4, <1>9, <1>10
  <2>2. ASSUME NEW m \in DOMAIN urgent, Claim(m, r, f) PROVE m <= k + 1
    <3>1. m - 1 \in DOMAIN rest /\ Claim(m - 1, r, f)'
      BY <1>11, <2>2
    <3>2. m - 1 <= k
      BY <1>9, <3>1
    <3> QED
      BY <1>4, <2>1, <3>2
  <2>3. urgent[k + 1].intent.change[f] = last[r][f]
    BY <2>1, <2>2 DEF Newest
  <2>4. urgent'[k] = rest[k]
    BY <1>6, <1>7, <2>1
  <2> QED
    BY <2>1, <2>3, <2>4
<1>13. Claimed(r, f)' => Claimed(r, f)
  BY <1>4, <1>9, <1>10 DEF Claimed
<1>14. Claimed(r, f) => Claimed(r, f)'
  BY <1>9, <1>11 DEF Claimed
<1> QED
  BY <1>12, <1>13, <1>14

(* One more entry: it is the last, for what it sets.                         *)
LEMMA ClaimsGrow ==
  ASSUME TypeInv, NEW e \in UrgentEntry, urgent' = Append(urgent, e), NEW r, NEW f,
         NEW sets \in BOOLEAN, sets <=> e.kind = "intent" /\ e.intent.r = r /\ e.intent.change[f] # 0,
         last'[r][f] = IF sets THEN e.intent.change[f] ELSE last[r][f]
  PROVE  /\ Newest(r, f) \/ sets => Newest(r, f)'
         /\ Claimed(r, f)' <=> Claimed(r, f) \/ sets
<1>1. urgent \in Seq(UrgentEntry)
  BY DEF TypeInv, Entries
<1>2. PICK grown : grown = Append(urgent, e)
  OBVIOUS
<1>3. PICK n \in Nat \ {0} :
        /\ DOMAIN grown = DOMAIN urgent \cup {n} /\ grown[n] = e
        /\ \A k \in DOMAIN urgent : k \in Nat /\ k < n /\ grown[k] = urgent[k]
  BY <1>1, <1>2, AppendPlaces
<1>4. urgent' = grown
  BY <1>2
<1>5. Claim(n, r, f)' <=> sets
  BY <1>3, <1>4 DEF Claim
<1>6. \A k \in DOMAIN urgent : k \in DOMAIN urgent' /\ (Claim(k, r, f)' <=> Claim(k, r, f))
  BY <1>3, <1>4 DEF Claim
<1>7. Newest(r, f) \/ sets => Newest(r, f)'
  <2> SUFFICES ASSUME Newest(r, f) \/ sets, NEW k \in DOMAIN urgent', Claim(k, r, f)',
                      \A m \in DOMAIN urgent' : Claim(m, r, f)' => m <= k
               PROVE  urgent'[k].intent.change[f] = last'[r][f]
    BY DEF Newest
  <2>1. CASE sets
    <3>1. n <= k
      BY <1>3, <1>4, <1>5, <2>1
    <3>2. k = n
      BY <1>3, <1>4, <3>1
    <3> QED
      BY <1>3, <1>4, <2>1, <3>2
  <2>2. CASE ~ sets
    <3>1. k \in DOMAIN urgent /\ Claim(k, r, f)
      BY <1>3, <1>4, <1>5, <1>6, <2>2
    <3>2. \A m \in DOMAIN urgent : Claim(m, r, f) => m <= k
      BY <1>6
    <3> QED
      BY <1>3, <1>4, <2>2, <3>1, <3>2 DEF Newest
  <2> QED
    BY <2>1, <2>2
<1>8. Claimed(r, f)' <=> Claimed(r, f) \/ sets
  BY <1>3, <1>4, <1>5, <1>6 DEF Claimed
<1> QED
  BY <1>7, <1>8

(* A record whose fields nothing changes, or only where an entry sets them,  *)
(* stays as wanted.                                                          *)
LEMMA WinsStays ==
  ASSUME NEW r, UNCHANGED urgent, last'[r] = last[r], r \in spoiled => r \in spoiled',
         r \notin spoiled' => \A f \in Kept : disc'[r][f] = disc[r][f] \/ Claimed(r, f),
         Wins(r)
  PROVE  Wins(r)'
<1> SUFFICES ASSUME r \notin spoiled', NEW f \in Kept, last'[r][f] # 0
             PROVE  Newest(r, f)' /\ (Claimed(r, f)' \/ disc'[r][f] = Applied(f, last'[r][f]))
  BY DEF Wins
<1>1. Newest(r, f) /\ (Claimed(r, f) \/ disc[r][f] = Applied(f, last[r][f]))
  BY DEF Wins
<1>2. Newest(r, f)' /\ (Claimed(r, f)' <=> Claimed(r, f))
  BY <1>1, ClaimsStay
<1>3. disc'[r][f] = disc[r][f] \/ Claimed(r, f)
  OBVIOUS
<1> QED
  BY <1>1, <1>2, <1>3

(* ... and what is stored of it follows.                                     *)
LEMMA FollowsStays ==
  ASSUME NEW r, UNCHANGED <<urgent, last>>, r \in raced \cup spoiled => r \in raced' \cup spoiled',
         r \notin raced' \cup spoiled' =>
           /\ (rec'[r] = None <=> rec[r] = None) /\ (disc'[r] = None <=> disc[r] = None)
           /\ \A f \in Kept : \/ disc'[r][f] = disc[r][f] /\ (rec[r] # None => rec'[r].fields[f] = rec[r].fields[f])
                              \/ Claimed(r, f) /\ rec[r] # None,
         Follows(r)
  PROVE  Follows(r)'
<1> SUFFICES ASSUME r \notin raced' \cup spoiled', disc'[r] # None, NEW f \in Kept
             PROVE  IF rec'[r] = None THEN disc'[r][f] = 0
                                      ELSE Claimed(r, f)' \/ rec'[r].fields[f] = disc'[r][f]
  BY DEF Follows
<1>1. /\ (rec'[r] = None <=> rec[r] = None) /\ disc[r] # None
      /\ \/ disc'[r][f] = disc[r][f] /\ (rec[r] # None => rec'[r].fields[f] = rec[r].fields[f])
         \/ Claimed(r, f) /\ rec[r] # None
  OBVIOUS
<1>2. IF rec[r] = None THEN disc[r][f] = 0 ELSE Claimed(r, f) \/ rec[r].fields[f] = disc[r][f]
  BY <1>1 DEF Follows
<1>3. Claimed(r, f)' <=> Claimed(r, f)
  BY ClaimsStay
<1> QED
  BY <1>1, <1>2, <1>3

(* So everything stays for a record nothing is done to.                      *)
LEMMA RecordStays ==
  ASSUME NEW r, UNCHANGED urgent, UNCHANGED last, rec'[r] = rec[r], disc'[r] = disc[r],
         r \in raced => r \in raced', r \in spoiled => r \in spoiled',
         RecordInv(r)
  PROVE  RecordInv(r)'
<1>1. Wins(r) /\ Follows(r)
  BY DEF RecordInv
<1>2. Wins(r)'
  BY <1>1, WinsStays
<1>3. Follows(r)'
  BY <1>1, FollowsStays
<1> QED
  BY <1>2, <1>3 DEF RecordInv

(* What the worker has done stays done for a record nothing else changes.    *)
LEMMA TaskStays ==
  ASSUME UNCHANGED work, raced \subseteq raced', spoiled \subseteq spoiled',
         Executing /\ Of \notin spoiled' => \A f \in Kept : disc'[Of][f] = disc[Of][f],
         Executing /\ Of \notin raced' \cup spoiled' => rec'[Of].fields = rec[Of].fields,
         Merging => \A r \in Elements(work.left) \ spoiled' : \A f \in Kept : disc'[r][f] = disc[r][f],
         TaskInv
  PROVE  TaskInv'
<1>1. /\ Executing' = Executing /\ Merging' = Merging /\ Of' = Of /\ Wanted' = Wanted /\ Step' = Step /\ ToSend' = ToSend
      /\ work' = work
  BY DEF Executing, Merging, Of, Wanted, Step, ToSend
<1>2. Sent /\ Stored /\ Paged
  BY DEF TaskInv
<1>3. Sent'
  BY <1>1, <1>2 DEF Sent
<1>4. Stored'
  BY <1>1, <1>2 DEF Stored
<1>6. Paged'
  BY <1>1, <1>2 DEF Paged
<1> QED
  BY <1>3, <1>4, <1>6 DEF TaskInv

(* ... and there is nothing to say of a worker that does something else.     *)
LEMMA NoTask ==
  ASSUME ~ Executing', ~ Merging'
  PROVE  TaskInv'
  BY DEF TaskInv, Sent, Stored, Paged

(* Nor of one that does nothing.                                             *)
LEMMA IdleNoTask == work' = Idle => TaskInv'
<1> SUFFICES ASSUME work' = Idle PROVE TaskInv'
  OBVIOUS
<1>1. work'.pc = "idle"
  BY IdleTypes
<1>2. ~ Executing' /\ ~ Merging'
  BY <1>1 DEF Executing, Merging
<1> QED
  BY <1>2, NoTask

(* A step that only the worker notices.                                      *)
LEMMA RecordsStay ==
  ASSUME UNCHANGED <<rec, disc, urgent, last, raced, spoiled>>, \A r \in Record : RecordInv(r)
  PROVE  \A r \in Record : RecordInv(r)'
<1> SUFFICES ASSUME NEW r \in Record PROVE RecordInv(r)'
  OBVIOUS
<1>1. RecordInv(r)
  OBVIOUS
<1>2. UNCHANGED urgent /\ UNCHANGED last /\ rec'[r] = rec[r] /\ disc'[r] = disc[r]
      /\ raced' = raced /\ spoiled' = spoiled
  OBVIOUS
<1> QED
  BY <1>1, <1>2, RecordStays

(* A step that ends what the worker does, and no more.                       *)
LEMMA IdleStays ==
  ASSUME UNCHANGED <<rec, disc, urgent, last, raced, spoiled>>, work' = Idle, SyncInv
  PROVE  SyncInv'
<1>1. \A r \in Record : RecordInv(r)'
  BY RecordsStay DEF SyncInv
<1> QED
  BY <1>1, IdleNoTask DEF SyncInv

(* The worker that goes on with an intent has the same intent.               *)
LEMMA SameIntent ==
  ASSUME Executing, work'.job = work.job, work'.pc \in {"call", "save", "wants", "delete"}
  PROVE  Executing' /\ Of' = Of /\ Wanted' = Wanted /\ ~ Merging'
  BY DEF Executing, Merging, Of, Wanted

(* Nothing has been done of an intent that is taken up.                      *)
LEMMA BeginIntentSync ==
  ASSUME TypeInv, SyncInv, BeginIntent
  PROVE  SyncInv'
<1>1. UNCHANGED <<rec, disc, urgent, last, raced, spoiled>>
  BY BeginIntentEffect DEF BeginIntent, ghosts, queue
<1>2. /\ work'.pc = "call" /\ work'.job = Doing /\ work'.copy = rec[Doing.intent.r]
      /\ Elements(work'.left) = {f \in Field : Doing.intent.change[f] # 0 \/ f = "oversize"}
      /\ Doing \in IntentEntry
  BY IntentLoaded, BeginIntentEffect
<1>3. Of' = Doing.intent.r /\ Wanted' = Doing.intent.change /\ ToSend' = Elements(work'.left)
  BY <1>2 DEF Of, Wanted, ToSend
<1>4. \A f \in Kept : f \in Field
  BY FieldFacts
<1>5. Sent'
  BY <1>2, <1>3, <1>4 DEF Sent
<1>6. Stored'
  BY <1>1, <1>2, <1>3, <1>4 DEF Stored
<1>7. Paged'
  BY <1>2 DEF Paged, Merging
<1> QED
  BY <1>1, <1>5, <1>6, <1>7, RecordsStay DEF SyncInv, TaskInv

(* A folder the record is in already is no change.                           *)
LEMMA SkipSync ==
  ASSUME TypeInv, SyncInv, Skip
  PROVE  SyncInv'
<1>1. UNCHANGED <<rec, disc, urgent, last, raced, spoiled>>
  BY DEF Skip, ghosts, queue
<1>2. /\ Executing /\ work.pc = "call" /\ work.left # <<>> /\ Step = "folder"
      /\ work'.pc = "call" /\ work'.job = work.job /\ work'.copy = work.copy /\ work'.left = Tail(work.left)
  BY SkipWorks
<1>3. Executing' /\ Of' = Of /\ Wanted' = Wanted /\ ~ Merging'
  BY <1>2, SameIntent
<1>4. Elements(work.left) = {"folder"} \cup Elements(work'.left) /\ "folder" \notin Kept
  BY <1>2, StepTypes, FieldFacts
<1>5. ToSend = Elements(work.left) /\ ToSend' = Elements(work'.left)
  BY <1>2 DEF ToSend
<1>6. Sent /\ Stored
  BY DEF SyncInv, TaskInv
<1>7. Sent'
  BY <1>1, <1>2, <1>3, <1>4, <1>5, <1>6 DEF Sent
<1>8. Stored'
  BY <1>1, <1>2, <1>3, <1>4, <1>6 DEF Stored
<1>9. Paged'
  BY <1>2 DEF Paged, Merging
<1> QED
  BY <1>1, <1>7, <1>8, <1>9, RecordsStay DEF SyncInv, TaskInv

(* Asking for the refresh of wants is no change either.                      *)
LEMMA EnqueueWantsSync ==
  ASSUME TypeInv, SyncInv, EnqueueWants
  PROVE  SyncInv'
<1>1. UNCHANGED <<rec, disc, urgent, last, raced, spoiled>>
  BY DEF EnqueueWants, ghosts, queue
<1>2. /\ Executing /\ work.pc = "wants"
      /\ work'.pc = "call" /\ work'.job = work.job /\ work'.copy = work.copy /\ work'.left = work.left
  BY EnqueueWantsWorks
<1>3. Executing' /\ Of' = Of /\ Wanted' = Wanted /\ ~ Merging'
  BY <1>2, SameIntent
<1>4. ToSend = Elements(work.left) /\ ToSend' = Elements(work'.left)
  BY <1>2 DEF ToSend
<1>5. Sent /\ Stored
  BY DEF SyncInv, TaskInv
<1>6. Sent'
  BY <1>1, <1>2, <1>3, <1>4, <1>5 DEF Sent
<1>7. Stored'
  BY <1>1, <1>2, <1>3, <1>5 DEF Stored
<1>8. Paged'
  BY <1>3 DEF Paged
<1> QED
  BY <1>1, <1>6, <1>7, <1>8, RecordsStay DEF SyncInv, TaskInv

(* An intent that is done with has done everything.                          *)
LEMMA EnqueueMovesSync ==
  ASSUME TypeInv, SyncInv, EnqueueMoves
  PROVE  SyncInv'
<1>1. UNCHANGED <<rec, disc, urgent, last, raced, spoiled>>
  BY DEF EnqueueMoves, ghosts
<1>2. /\ Executing /\ work.pc = "call"
      /\ work'.pc = "delete" /\ work'.job = work.job /\ work'.copy = work.copy /\ work'.left = work.left
  BY EnqueueMovesWorks
<1>3. Executing' /\ Of' = Of /\ Wanted' = Wanted /\ ~ Merging'
  BY <1>2, SameIntent
<1>4. ToSend = Elements(work.left) /\ ToSend' = Elements(work'.left)
  BY <1>2 DEF ToSend
<1>5. Sent /\ Stored
  BY DEF SyncInv, TaskInv
<1>6. Sent'
  BY <1>1, <1>2, <1>3, <1>4, <1>5 DEF Sent
<1>7. Stored'
  BY <1>1, <1>2, <1>3, <1>5 DEF Stored
<1>8. Paged'
  BY <1>2 DEF Paged, Merging
<1> QED
  BY <1>1, <1>6, <1>7, <1>8, RecordsStay DEF SyncInv, TaskInv

(* The first entry is for what the worker executes: it claims what it sets.  *)
LEMMA HeadClaims ==
  ASSUME TypeInv, Executing
  PROVE  /\ urgent # <<>> /\ Head(urgent) = work.job /\ work.job.kind = "intent"
         /\ \A f \in Field : Claim(1, Of, f) <=> Wanted[f] # 0
         /\ \A f \in Field : Wanted[f] # 0 => Claimed(Of, f)
         /\ \A r \in Record \ {Of} : \A f \in Field : ~ Claim(1, r, f)
<1>1. work.pc # "idle" /\ work.job.kind = "intent"
  BY DEF Executing
<1>2. work.job \in IntentEntry
  BY <1>1, JobTypes
<1>3. work.job \in UrgentEntry
  BY <1>2 DEF UrgentEntry
<1>4. urgent # <<>> /\ Head(urgent) = work.job
  BY <1>1, <1>3, JobTypes
<1>5. urgent[1] = work.job /\ 1 \in DOMAIN urgent
  BY <1>4, TailPlaces DEF TypeInv, Entries
<1>6. \A r, f : Claim(1, r, f) <=> Of = r /\ Wanted[f] # 0
  BY <1>1, <1>5 DEF Claim, Of, Wanted
<1>7. \A f : Claim(1, Of, f) => Claimed(Of, f)
  BY <1>5 DEF Claimed
<1> QED
  BY <1>1, <1>4, <1>6, <1>7

(* What an intent sets at Discogs it claims until it is done.                *)
LEMMA SetFieldSync ==
  ASSUME TypeInv, SyncInv, SetField
  PROVE  SyncInv'
<1>1. UNCHANGED <<rec, urgent, last, raced, spoiled>>
  BY DEF SetField, ghosts, queue
<1>2. /\ Executing /\ work.pc = "call" /\ work.left # <<>>
      /\ work'.pc = "save" /\ work'.job = work.job
      /\ work'.copy = work.copy /\ work'.left = work.left
  BY SetFieldWorks
<1>3. /\ Step \in Field /\ (Wanted[Step] # 0 \/ Step = "oversize")
      /\ Elements(work.left) = {Step} \cup Elements(Tail(work.left))
  BY <1>2, StepTypes
<1>4. Executing' /\ Of' = Of /\ Wanted' = Wanted /\ ~ Merging' /\ Step' = Step
  BY <1>2, SameIntent DEF Step
<1>5. /\ \A r \in Record \ {Of} : disc'[r] = disc[r]
      /\ \A f \in Field \ {Step} : disc'[Of][f] = disc[Of][f]
      /\ Step # "oversize" => disc'[Of][Step] = Applied(Step, Wanted[Step])
      /\ Keeps
  BY SetFieldSends
<1>6. Of \in Record /\ rec[Of] # None /\ disc[Of] # None /\ disc'[Of] # None
  BY <1>2, <1>5, JobTypes DEF Keeps, Executing
<1>7. \A f \in Kept : f \in Field /\ f # "oversize" /\ (disc'[Of][f] = disc[Of][f] \/ Claimed(Of, f))
  BY <1>2, <1>3, <1>5, HeadClaims, FieldFacts
<1>8. ToSend = Elements(work.left) /\ ToSend' = Elements(Tail(work.left))
  BY <1>2 DEF ToSend
<1>9. Sent /\ Stored /\ \A r \in Record : RecordInv(r)
  BY DEF SyncInv, TaskInv
<1>10. PICK o \in Record : o = Of
  BY <1>6
<1>11. RecordInv(o)'
  <2>1. Wins(o) /\ Follows(o)
    BY <1>9 DEF RecordInv
  <2>2. Wins(o)'
    BY <1>1, <1>7, <1>10, <2>1, WinsStays
  <2>3. Follows(o)'
    BY <1>1, <1>6, <1>7, <1>10, <2>1, FollowsStays
  <2> QED
    BY <2>2, <2>3 DEF RecordInv
<1>16. ASSUME NEW r \in Record \ {o} PROVE RecordInv(r)'
  <2>1. RecordInv(r) /\ disc'[r] = disc[r]
    BY <1>5, <1>9, <1>10
  <2>2. UNCHANGED urgent /\ UNCHANGED last /\ rec'[r] = rec[r]
        /\ raced' = raced /\ spoiled' = spoiled
    BY <1>1
  <2> QED
    BY <2>1, <2>2, RecordStays
<1>12. Sent'
  <2> SUFFICES ASSUME o \notin spoiled, NEW f \in Kept, Wanted[f] # 0
               PROVE  f \in ToSend' \/ disc'[o][f] = Applied(f, Wanted[f])
    BY <1>1, <1>4, <1>10 DEF Sent
  <2>1. f \in ToSend \/ disc[o][f] = Applied(f, Wanted[f])
    BY <1>2, <1>9, <1>10 DEF Sent
  <2>2. f \in ToSend => f \in ToSend' \/ f = Step
    BY <1>3, <1>8
  <2>3. f \in Field /\ f # "oversize"
    BY <1>7
  <2>4. f = Step => disc'[o][f] = Applied(f, Wanted[f])
    BY <1>5, <1>10, <2>3
  <2>5. f # Step => disc'[o][f] = disc[o][f]
    BY <1>5, <1>10, <2>3
  <2> QED
    BY <2>1, <2>2, <2>4, <2>5
<1>13. Stored'
  BY <1>1, <1>2, <1>4, <1>9 DEF Stored
<1>14. Paged'
  BY <1>2, <1>4 DEF Paged
<1>15. \A r \in Record : RecordInv(r)'
  BY <1>11, <1>16
<1> QED
  BY <1>12, <1>13, <1>14, <1>15 DEF SyncInv, TaskInv

(* A field is stored as Discogs has it, once Discogs has it.                 *)
LEMMA SaveFieldSync ==
  ASSUME TypeInv, SyncInv, SaveField
  PROVE  SyncInv'
<1>1. UNCHANGED <<disc, urgent, last, spoiled, moves>>
  BY DEF SaveField, ghosts, queue
<1>2. PICK copy \in StoredRecord : copy = Processed(work.copy, Step, Wanted[Step])
  BY SaveFieldWorks
<1>3. /\ Executing /\ work.pc = "save" /\ work.left # <<>> /\ Save(Of, copy, work.base)
      /\ work'.pc \in {"call", "wants"} /\ work'.job = work.job /\ work'.copy = copy /\ work'.left = Tail(work.left)
  BY <1>2, SaveFieldWorks
<1>4. Executing' /\ Of' = Of /\ Wanted' = Wanted /\ ~ Merging'
  BY <1>3, SameIntent
<1>5. PICK o \in Record : o = Of
  BY <1>3, JobTypes DEF Executing
<1>6. /\ Step \in Field /\ (Wanted[Step] # 0 \/ Step = "oversize") /\ Wanted \in Change
      /\ Elements(work.left) = {Step} \cup Elements(Tail(work.left))
      /\ work.copy \in StoredRecord /\ work.base = work.copy /\ rec[o] # None /\ disc[o] # None
  BY <1>3, <1>5, StepTypes, JobTypes DEF Executing
<1>7. /\ \A g \in Field \ {Step} : copy.fields[g] = work.copy.fields[g]
      /\ Step \in Kept => copy.fields[Step] = Applied(Step, Wanted[Step])
  BY <1>2, <1>6, ProcessedTypes
<1>8. /\ rec'[o] = copy /\ copy # None /\ \A s \in Record \ {o} : rec'[s] = rec[s]
      /\ raced \subseteq raced' /\ (o \notin raced' => rec[o] = work.copy)
      /\ \A s \in Record \ {o} : s \in raced' => s \in raced
  BY <1>1, <1>3, <1>5, <1>6, SaveTypes
<1>9. \A f \in Kept : f \in Field /\ f # "oversize" /\ (f = Step => Wanted[f] # 0 /\ Claimed(o, f))
  BY <1>3, <1>5, <1>6, HeadClaims, FieldFacts
<1>10. Sent /\ Stored /\ \A r \in Record : RecordInv(r)
  BY DEF SyncInv, TaskInv
<1>11. Wins(o) /\ Follows(o)
  BY <1>10 DEF RecordInv
<1>12. Wins(o)'
  BY <1>1, <1>11, WinsStays
<1>13. Follows(o)'
  <2>1. o \notin raced' => \A f \in Kept : rec'[o].fields[f] = rec[o].fields[f] \/ Claimed(o, f)
    BY <1>7, <1>8, <1>9
  <2> QED
    BY <1>1, <1>6, <1>8, <1>11, <2>1, FollowsStays
<1>15. ASSUME NEW r \in Record \ {o} PROVE RecordInv(r)'
  <2>1. RecordInv(r) /\ UNCHANGED urgent /\ UNCHANGED last /\ rec'[r] = rec[r] /\ disc'[r] = disc[r]
        /\ raced \subseteq raced' /\ spoiled' = spoiled
    BY <1>1, <1>8, <1>10
  <2> QED
    BY <2>1, RecordStays
<1>16. \A r \in Record : RecordInv(r)'
  BY <1>12, <1>13, <1>15 DEF RecordInv
<1>17. ToSend = Elements(Tail(work.left)) /\ ToSend' = Elements(Tail(work.left))
  BY <1>3 DEF ToSend
<1>18. Sent'
  BY <1>1, <1>4, <1>5, <1>10, <1>17, <1>3 DEF Sent
<1>19. Stored'
  <2> SUFFICES ASSUME o \notin raced' \cup spoiled
               PROVE  /\ rec'[o].fields = work'.copy.fields
                      /\ \A f \in Kept : Wanted[f] # 0 =>
                           f \in Elements(work'.left) \/ rec'[o].fields[f] = Applied(f, Wanted[f])
    BY <1>1, <1>4, <1>5 DEF Stored
  <2>1. rec'[o].fields = work'.copy.fields
    BY <1>3, <1>8
  <2>2. \A f \in Kept : Wanted[f] # 0 => f \in Elements(work.left) \/ rec[o].fields[f] = Applied(f, Wanted[f])
    BY <1>3, <1>5, <1>8, <1>10 DEF Stored
  <2>3. \A f \in Kept \ {Step} : rec'[o].fields[f] = rec[o].fields[f]
    BY <1>7, <1>8, <1>9
  <2> QED
    BY <1>3, <1>6, <1>7, <1>8, <2>1, <2>2, <2>3
<1>20. Paged'
  BY <1>3 DEF Paged, Merging
<1> QED
  BY <1>16, <1>18, <1>19, <1>20 DEF SyncInv, TaskInv

(* Moves change the folder only.                                             *)
LEMMA MovesSync ==
  ASSUME TypeInv, SyncInv, BeginMove \/ SetFolder \/ SaveMoved
  PROVE  SyncInv'
<1>1. CASE BeginMove
  <2>1. UNCHANGED <<rec, disc, last, raced, spoiled>>
    BY <1>1 DEF BeginMove, ghosts
  <2>2. CASE UNCHANGED queue /\ work'.pc = "call" /\ work'.job = Doing
    <3>1. UNCHANGED urgent /\ Doing \in MoveEntry
      BY <1>1, <2>2, BeginMoveEffect DEF queue
    <3>2. ~ Executing' /\ ~ Merging'
      BY <2>2, <3>1, EntryKinds DEF Executing, Merging
    <3> QED
      BY <2>1, <3>1, <3>2, RecordsStay, NoTask DEF SyncInv
  <2>3. CASE Finish(Doing, <<>>)
    <3>1. PICK j \in MoveEntry : j = Doing
      BY <1>1, BeginMoveEffect
    <3>2. j \in JobEntry /\ j \notin UrgentEntry
      BY EntryKinds DEF JobEntry
    <3>3. Finish(j, <<>>) /\ <<>> \in Seq(JobEntry)
      BY <2>3, <3>1
    <3>4. work' = Idle /\ urgent' = urgent
      BY <3>2, <3>3, FinishRemoves
    <3> QED
      BY <2>1, <3>4, IdleStays
  <2> QED
    BY <1>1, <2>2, <2>3, BeginMoveEffect
<1>2. CASE SetFolder
  <2>1. UNCHANGED <<rec, urgent, last, raced, spoiled>>
    BY <1>2 DEF SetFolder, ghosts, queue
  <2>2. PICK o \in Record : o = work.job.r
    BY <1>2, SetFolderEffect
  <2>3. /\ work.job \in MoveEntry /\ work'.pc = "save" /\ work'.job = work.job /\ Keeps
        /\ \A r \in Record \ {o} : disc'[r] = disc[r]
        /\ \A f \in Field \ {"folder"} : disc'[o][f] = disc[o][f]
    BY <1>2, <2>2, SetFolderEffect
  <2>4. ~ Executing' /\ ~ Merging'
    BY <2>3, EntryKinds DEF Executing, Merging
  <2>5. \A f \in Kept : disc'[o][f] = disc[o][f]
    BY <2>3, FieldFacts
  <2>6. rec[o] # None /\ disc[o] # None /\ disc'[o] # None
    BY <1>2, <2>2, <2>3, SetFolderEffect DEF TypeInv, Stores, Working, TakenMove, Keeps
  <2>7. RecordInv(o)'
    <3>1. Wins(o) /\ Follows(o)
      BY DEF SyncInv, RecordInv
    <3>2. Wins(o)'
      BY <2>1, <2>5, <3>1, WinsStays
    <3>3. Follows(o)'
      BY <2>1, <2>5, <2>6, <3>1, FollowsStays
    <3> QED
      BY <3>2, <3>3 DEF RecordInv
  <2>8. ASSUME NEW r \in Record \ {o} PROVE RecordInv(r)'
    <3>1. RecordInv(r) /\ UNCHANGED urgent /\ UNCHANGED last /\ rec'[r] = rec[r] /\ disc'[r] = disc[r]
          /\ raced' = raced /\ spoiled' = spoiled
      BY <2>1, <2>3 DEF SyncInv
    <3> QED
      BY <3>1, RecordStays
  <2> QED
    BY <2>4, <2>7, <2>8, NoTask DEF SyncInv
<1>3. CASE SaveMoved
  <2>1. UNCHANGED <<disc, last, spoiled>>
    BY <1>3 DEF SaveMoved, ghosts
  <2>2. PICK o \in Record : o = work.job.r
    BY <1>3, SaveMovedEffect
  <2>3. /\ work.job \in MoveEntry /\ Keeps /\ Finish(work.job, <<MoveRecords>>)
        /\ \A r \in Record \ {o} : rec'[r] = rec[r] /\ (r \in raced' => r \in raced)
        /\ raced \subseteq raced'
        /\ o \notin raced' => /\ rec[o] # None
                              /\ \A f \in Field \ {"folder"} : rec'[o].fields[f] = rec[o].fields[f]
    BY <1>3, <2>2, SaveMovedEffect
  <2>4. work' = Idle /\ urgent' = urgent
    <3>1. work.job \in JobEntry /\ work.job \notin UrgentEntry
      BY <2>3, EntryKinds DEF JobEntry
    <3>2. PICK e \in JobEntry : e = MoveRecords
      BY DEF JobEntry
    <3>3. <<e>> \in Seq(JobEntry) /\ Finish(work.job, <<e>>)
      BY <2>3, <3>2
    <3>4. PICK j \in UrgentEntry \cup JobEntry : j = work.job
      BY <3>1
    <3> QED
      BY <3>1, <3>3, <3>4, FinishRemoves
  <2>5. o \notin raced' => /\ rec'[o] # None /\ rec[o] # None
                           /\ \A f \in Kept : rec'[o].fields[f] = rec[o].fields[f]
    BY <2>3, FieldFacts DEF Keeps
  <2>6. RecordInv(o)'
    <3>1. Wins(o) /\ Follows(o)
      BY DEF SyncInv, RecordInv
    <3>2. Wins(o)'
      BY <2>1, <2>4, <3>1, WinsStays
    <3>3. Follows(o)'
      BY <2>1, <2>3, <2>4, <2>5, <3>1, FollowsStays
    <3> QED
      BY <3>2, <3>3 DEF RecordInv
  <2>7. ASSUME NEW r \in Record \ {o} PROVE RecordInv(r)'
    <3>1. RecordInv(r) /\ UNCHANGED urgent /\ UNCHANGED last /\ rec'[r] = rec[r] /\ disc'[r] = disc[r]
          /\ raced \subseteq raced' /\ spoiled' = spoiled
      BY <2>1, <2>3, <2>4 DEF SyncInv
    <3> QED
      BY <3>1, RecordStays
  <2> QED
    BY <2>4, <2>6, <2>7, IdleNoTask DEF SyncInv
<1> QED
  BY <1>1, <1>2, <1>3

(* The refresh of the collection takes over what Discogs has.                *)
LEMMA RefreshSync ==
  ASSUME TypeInv, SyncInv, BeginRefresh \/ Fetch \/ ReadStored \/ MergeRecord
  PROVE  SyncInv'
<1>1. CASE BeginRefresh
  <2>1. UNCHANGED <<rec, disc, urgent, last, raced, spoiled>>
    BY <1>1 DEF BeginRefresh, ghosts, queue
  <2>2. work'.pc = "fetch"
    BY <1>1, BeginRefreshWorks
  <2>3. ~ Executing' /\ ~ Merging'
    BY <2>2 DEF Executing, Merging
  <2> QED
    BY <2>1, <2>3, RecordsStay, NoTask DEF SyncInv
<1>2. CASE Fetch
  <2>1. UNCHANGED <<rec, disc, urgent, last, raced, spoiled>>
    BY <1>2 DEF Fetch, ghosts, queue
  <2>2. Merging' /\ work'.pc = "merge" /\ work'.page = disc
    BY <1>2, FetchWorks DEF Merging
  <2>3. ~ Executing'
    BY <2>2 DEF Executing
  <2>4. TaskInv'
    BY <2>1, <2>2, <2>3 DEF TaskInv, Sent, Stored, Paged
  <2> QED
    BY <2>1, <2>4, RecordsStay DEF SyncInv
<1>4. CASE ReadStored
  <2>1. UNCHANGED <<rec, disc, urgent, last, raced, spoiled>>
    BY <1>4 DEF ReadStored, ghosts, queue
  <2>2. Merging /\ work'.pc = "store" /\ work'.page = work.page /\ work'.left = work.left
    BY <1>4, ReadStoredWorks DEF Merging
  <2>3. ~ Executing'
    BY <2>2 DEF Executing
  <2>4. Paged'
    BY <2>1, <2>2 DEF SyncInv, TaskInv, Paged
  <2>5. TaskInv'
    BY <2>3, <2>4 DEF TaskInv, Sent, Stored
  <2> QED
    BY <2>1, <2>5, RecordsStay DEF SyncInv
<1>3. CASE MergeRecord
  <2>1. UNCHANGED <<disc, urgent, last, spoiled>>
    BY <1>3 DEF MergeRecord, ghosts, queue
  <2>2. PICK o \in Record :
         /\ work.pc = "store" /\ o \in Elements(work.left) /\ disc[o] # None
         /\ work'.pc = "merge" /\ work'.page = work.page
         /\ Elements(work'.left) \subseteq Elements(work.left)
         /\ \A s \in Record \ {o} : rec'[s] = rec[s] /\ (s \in raced' => s \in raced)
         /\ raced \subseteq raced' /\ rec'[o] # None
         /\ o \notin raced' => \A f \in Field : rec'[o].fields[f] =
              IF f \in Mirrored /\ work.page[o][f] # 0 THEN work.page[o][f]
              ELSE IF rec[o] = None THEN 0 ELSE rec[o].fields[f]
    BY <1>3, MergeRecordEffect
  <2>3. Merging
    BY <2>2 DEF Merging
  <2>4. Paged /\ \A r \in Record : RecordInv(r)
    BY DEF SyncInv, TaskInv
  <2>5. ~ Executing'
    BY <2>2 DEF Executing
  <2>6. TaskInv'
    <3>1. Paged'
      BY <2>1, <2>2, <2>3, <2>4 DEF Paged
    <3> QED
      BY <2>5, <3>1 DEF TaskInv, Sent, Stored
  <2>7. Wins(o) /\ Follows(o)
    BY <2>4 DEF RecordInv
  <2>8. Wins(o)'
    BY <2>1, <2>7, WinsStays
  <2>9. Follows(o)'
    <3> SUFFICES ASSUME o \notin raced' \cup spoiled', NEW f \in Kept
                 PROVE  Claimed(o, f)' \/ rec'[o].fields[f] = disc'[o][f]
      BY <2>2 DEF Follows
    <3>1. work.page[o][f] = disc[o][f]
      BY <2>1, <2>2, <2>3, <2>4 DEF Paged
    <3>2. IF rec[o] = None THEN disc[o][f] = 0 ELSE Claimed(o, f) \/ rec[o].fields[f] = disc[o][f]
      BY <2>1, <2>2, <2>7 DEF Follows
    <3>3. Claimed(o, f)' <=> Claimed(o, f)
      BY <2>1, ClaimsStay
    <3>4. rec'[o].fields[f] = IF f \in Mirrored /\ work.page[o][f] # 0 THEN work.page[o][f]
                              ELSE IF rec[o] = None THEN 0 ELSE rec[o].fields[f]
      BY <2>2, FieldFacts
    <3> QED
      BY <2>1, <3>1, <3>2, <3>3, <3>4
  <2>11. ASSUME NEW r \in Record \ {o} PROVE RecordInv(r)'
    <3>1. RecordInv(r) /\ UNCHANGED urgent /\ UNCHANGED last /\ rec'[r] = rec[r] /\ disc'[r] = disc[r]
          /\ raced \subseteq raced' /\ spoiled' = spoiled
      BY <2>1, <2>2, <2>4
    <3> QED
      BY <3>1, RecordStays
  <2> QED
    BY <2>6, <2>8, <2>9, <2>11 DEF SyncInv, RecordInv
<1> QED
  BY <1>1, <1>2, <1>3, <1>4

(* The API server writes over nothing unnoticed.                             *)
LEMMA SaveScoreSync ==
  ASSUME TypeInv, SyncInv, SaveScore
  PROVE  SyncInv'
<1>1. UNCHANGED <<disc, urgent, work, last, spoiled>>
  BY DEF SaveScore, ghosts, queue
<1>2. PICK o \in Record : o = api.r
  BY SaveScoreEffect
<1>3. /\ \A s \in Record \ {o} : rec'[s] = rec[s] /\ (s \in raced' => s \in raced)
      /\ raced \subseteq raced' /\ rec[o] # None /\ rec'[o] # None
      /\ o \notin raced' => rec'[o].fields = rec[o].fields
  BY <1>2, SaveScoreEffect
<1>4. Wins(o) /\ Follows(o) /\ TaskInv
  BY DEF SyncInv, RecordInv
<1>5. Wins(o)'
  BY <1>1, <1>4, WinsStays
<1>6. Follows(o)'
  BY <1>1, <1>3, <1>4, FollowsStays
<1>9. ASSUME NEW r \in Record \ {o} PROVE RecordInv(r)'
  <2>1. RecordInv(r) /\ UNCHANGED urgent /\ UNCHANGED last /\ rec'[r] = rec[r] /\ disc'[r] = disc[r]
        /\ raced \subseteq raced' /\ spoiled' = spoiled
    BY <1>1, <1>3 DEF SyncInv
  <2> QED
    BY <2>1, RecordStays
<1>10. Executing => Of \in Record
  BY JobTypes DEF Executing
<1>11. TaskInv'
  BY <1>1, <1>3, <1>4, <1>10, TaskStays
<1> QED
  BY <1>5, <1>6, <1>9, <1>11 DEF SyncInv, RecordInv

(* A record that is added is stored as Discogs has it.                       *)
LEMMA SaveAddedSync ==
  ASSUME TypeInv, SyncInv, SaveAdded
  PROVE  SyncInv'
<1>1. UNCHANGED <<disc, urgent, work, last, spoiled>>
  BY DEF SaveAdded, ghosts, queue
<1>2. PICK o \in Record : o = api.r
  BY SaveAddedEffect
<1>3. /\ \A s \in Record \ {o} : rec'[s] = rec[s] /\ (s \in raced' => s \in raced)
      /\ raced \subseteq raced' /\ rec'[o] # None /\ rec'[o].fields = Unset
      /\ o \notin raced' => rec[o] = None
  BY <1>2, SaveAddedEffect
<1>4. Wins(o) /\ Follows(o) /\ TaskInv
  BY DEF SyncInv, RecordInv
<1>5. \A f \in Kept : Unset[f] = 0
  BY UnsetTypes, FieldFacts
<1>6. Wins(o)'
  BY <1>1, <1>4, WinsStays
<1>7. Follows(o)'
  <2> SUFFICES ASSUME o \notin raced' \cup spoiled', disc'[o] # None, NEW f \in Kept
               PROVE  rec'[o].fields[f] = disc'[o][f]
    BY <1>3 DEF Follows
  <2>1. disc[o][f] = 0
    BY <1>1, <1>3, <1>4 DEF Follows
  <2> QED
    BY <1>1, <1>3, <1>5, <2>1
<1>10. ASSUME NEW r \in Record \ {o} PROVE RecordInv(r)'
  <2>1. RecordInv(r) /\ UNCHANGED urgent /\ UNCHANGED last /\ rec'[r] = rec[r] /\ disc'[r] = disc[r]
        /\ raced \subseteq raced' /\ spoiled' = spoiled
    BY <1>1, <1>3 DEF SyncInv
  <2> QED
    BY <2>1, RecordStays
<1>11. Executing => Of \in Record /\ rec[Of] # None
  BY JobTypes DEF Executing
<1>12. TaskInv'
  BY <1>1, <1>3, <1>4, <1>11, TaskStays
<1> QED
  BY <1>6, <1>7, <1>10, <1>12 DEF SyncInv, RecordInv

(* At Discogs records are added, and edited by the user.                     *)
LEMMA AddReleaseSync ==
  ASSUME TypeInv, SyncInv, NEW o \in Record, AddRelease(o)
  PROVE  SyncInv'
<1>1. UNCHANGED <<rec, urgent, work, last, raced, spoiled>>
  BY DEF AddRelease, queue
<1>2. /\ disc[o] = None /\ rec[o] = None /\ last[o] = Unset
      /\ disc'[o] # None /\ \A f \in Field \ {"folder"} : disc'[o][f] = 0
      /\ \A s \in Record \ {o} : disc'[s] = disc[s]
  BY AddReleaseEffect
<1>3. \A f \in Kept : Unset[f] = 0 /\ disc'[o][f] = 0
  BY <1>2, UnsetTypes, FieldFacts
<1>4. TaskInv
  BY DEF SyncInv, RecordInv
<1>5. Wins(o)'
  BY <1>1, <1>2, <1>3 DEF Wins
<1>6. Follows(o)'
  BY <1>1, <1>2, <1>3 DEF Follows
<1>8. ASSUME NEW r \in Record \ {o} PROVE RecordInv(r)'
  <2>1. RecordInv(r) /\ UNCHANGED urgent /\ UNCHANGED last /\ rec'[r] = rec[r] /\ disc'[r] = disc[r]
        /\ raced' = raced /\ spoiled' = spoiled
    BY <1>1, <1>2 DEF SyncInv
  <2> QED
    BY <2>1, RecordStays
<1>9. Executing => Of \in Record /\ disc[Of] # None
  BY JobTypes DEF Executing
<1>10. Merging => \A r \in Elements(work.left) : r \in Record /\ disc[r] # None
  <2> SUFFICES ASSUME Merging, NEW r \in Elements(work.left) PROVE r \in Record /\ disc[r] # None
    OBVIOUS
  <2>1. disc[r] # None /\ work.left \in Seq(Record)
    BY DEF TypeInv, Working, TakenPage
  <2> QED
    BY <2>1 DEF Elements
<1>11. TaskInv'
  BY <1>1, <1>2, <1>4, <1>9, <1>10, TaskStays
<1> QED
  BY <1>5, <1>6, <1>8, <1>11 DEF SyncInv, RecordInv

(* An edit of the user spoils the record it is of.                           *)
LEMMA EditDiscogsSync ==
  ASSUME TypeInv, SyncInv, NEW o \in Record, NEW f, NEW v, EditDiscogs(o, f, v)
  PROVE  SyncInv'
<1>1. UNCHANGED <<rec, urgent, work, last, raced>> /\ spoiled' = spoiled \cup {o}
  BY DEF EditDiscogs, queue
<1>2. \A s \in Record \ {o} : disc'[s] = disc[s]
  BY DEF EditDiscogs, TypeInv, Stores, Page
<1>3. RecordInv(o)'
  BY <1>1 DEF RecordInv, Wins, Follows
<1>4. ASSUME NEW r \in Record \ {o} PROVE RecordInv(r)'
  <2>1. RecordInv(r) /\ UNCHANGED urgent /\ UNCHANGED last /\ rec'[r] = rec[r] /\ disc'[r] = disc[r]
        /\ raced' = raced /\ spoiled \subseteq spoiled'
    BY <1>1, <1>2 DEF SyncInv
  <2> QED
    BY <2>1, RecordStays
<1>5. Executing => Of \in Record
  BY JobTypes DEF Executing
<1>6. Merging => \A r \in Elements(work.left) : r \in Record
  <2> SUFFICES ASSUME Merging, NEW r \in Elements(work.left) PROVE r \in Record
    OBVIOUS
  <2>1. work.left \in Seq(Record)
    BY DEF TypeInv, Working, TakenPage
  <2> QED
    BY <2>1 DEF Elements
<1>7. TaskInv
  BY DEF SyncInv
<1>8. TaskInv'
  BY <1>1, <1>2, <1>5, <1>6, <1>7, TaskStays
<1> QED
  BY <1>3, <1>4, <1>8 DEF SyncInv

(* One more entry, for what the user wanted last or for no record.           *)
LEMMA RecordGrows ==
  ASSUME TypeInv, NEW e \in UrgentEntry, urgent' = Append(urgent, e), NEW r \in Record,
         UNCHANGED <<rec, disc, raced, spoiled>>,
         \A f \in Kept : last'[r][f] = IF e.kind = "intent" /\ e.intent.r = r /\ e.intent.change[f] # 0
                                       THEN e.intent.change[f] ELSE last[r][f],
         RecordInv(r)
  PROVE  RecordInv(r)'
<1>1. Wins(r) /\ Follows(r)
  BY DEF RecordInv
<1>2. ASSUME NEW f \in Kept, NEW sets \in BOOLEAN,
             sets <=> e.kind = "intent" /\ e.intent.r = r /\ e.intent.change[f] # 0
      PROVE  /\ last'[r][f] = (IF sets THEN e.intent.change[f] ELSE last[r][f])
             /\ Newest(r, f) \/ sets => Newest(r, f)'
             /\ Claimed(r, f)' <=> Claimed(r, f) \/ sets
  <2>1. last'[r][f] = IF sets THEN e.intent.change[f] ELSE last[r][f]
    BY <1>2
  <2> QED
    BY <1>2, <2>1, ClaimsGrow
<1>3. Wins(r)'
  <2> SUFFICES ASSUME r \notin spoiled', NEW f \in Kept, last'[r][f] # 0
               PROVE  Newest(r, f)' /\ (Claimed(r, f)' \/ disc'[r][f] = Applied(f, last'[r][f]))
    BY DEF Wins
  <2>1. PICK sets \in BOOLEAN : sets <=> e.kind = "intent" /\ e.intent.r = r /\ e.intent.change[f] # 0
    OBVIOUS
  <2>2. /\ last'[r][f] = (IF sets THEN e.intent.change[f] ELSE last[r][f])
        /\ Newest(r, f) \/ sets => Newest(r, f)'
        /\ Claimed(r, f)' <=> Claimed(r, f) \/ sets
    BY <1>2, <2>1
  <2>3. last[r][f] # 0 => Newest(r, f) /\ (Claimed(r, f) \/ disc[r][f] = Applied(f, last[r][f]))
    BY <1>1 DEF Wins
  <2> QED
    BY <2>2, <2>3
<1>4. Follows(r)'
  <2> SUFFICES ASSUME r \notin raced' \cup spoiled', disc'[r] # None, NEW f \in Kept
               PROVE  IF rec'[r] = None THEN disc'[r][f] = 0
                                        ELSE Claimed(r, f)' \/ rec'[r].fields[f] = disc'[r][f]
    BY DEF Follows
  <2>1. Claimed(r, f) => Claimed(r, f)'
    BY <1>2
  <2>2. IF rec[r] = None THEN disc[r][f] = 0 ELSE Claimed(r, f) \/ rec[r].fields[f] = disc[r][f]
    BY <1>1 DEF Follows
  <2> QED
    BY <2>1, <2>2
<1> QED
  BY <1>3, <1>4 DEF RecordInv

(* An intent is enqueued, or a refresh.                                      *)
LEMMA EnqueueSync ==
  ASSUME TypeInv, SyncInv, EnqueueIntent \/ \E r \in Record : Miss(r)
  PROVE  SyncInv'
<1>1. UNCHANGED <<rec, disc, work, raced, spoiled>>
  BY DEF EnqueueIntent, Miss
<1>2. TaskInv /\ \A r \in Record : RecordInv(r)
  BY DEF SyncInv
<1>3. TaskInv'
  BY <1>1, <1>2, TaskStays
<1>4. CASE EnqueueIntent
  <2>1. PICK e \in IntentEntry :
         /\ e.kind = "intent" /\ urgent' = Append(urgent, e) /\ e.intent.r = api.r
         /\ \A r \in Record \ {api.r} : last'[r] = last[r]
         /\ \A f \in Field : last'[api.r][f] = IF e.intent.change[f] = 0 THEN last[api.r][f] ELSE e.intent.change[f]
    BY <1>4, EnqueueIntentEffect
  <2>2. e \in UrgentEntry
    BY DEF UrgentEntry
  <2>3. ASSUME NEW r \in Record PROVE RecordInv(r)'
    <3>1. \A f \in Kept : last'[r][f] = IF e.kind = "intent" /\ e.intent.r = r /\ e.intent.change[f] # 0
                                        THEN e.intent.change[f] ELSE last[r][f]
      BY <2>1, FieldFacts
    <3> QED
      BY <1>1, <1>2, <2>1, <2>2, <3>1, RecordGrows
  <2> QED
    BY <1>3, <2>3 DEF SyncInv
<1>5. CASE \E r \in Record : Miss(r)
  <2>1. PICK e \in UrgentEntry : e = RefreshCollection(TRUE)
    BY DEF UrgentEntry
  <2>2. urgent' = Append(urgent, e) /\ last' = last /\ e.kind # "intent"
    BY <1>5, <2>1 DEF Miss, RefreshCollection
  <2>3. ASSUME NEW r \in Record PROVE RecordInv(r)'
    BY <1>1, <1>2, <2>2, RecordGrows
  <2> QED
    BY <1>3, <2>3 DEF SyncInv
<1> QED
  BY <1>4, <1>5

(* The first entry goes, for which Discogs and the record have what it sets. *)
LEMMA RecordShrinks ==
  ASSUME TypeInv, urgent # <<>>, urgent' = Tail(urgent), NEW r \in Record,
         UNCHANGED <<rec, disc, last, raced>>, r \in spoiled => r \in spoiled',
         r \notin spoiled' => \A f \in Kept : Claim(1, r, f) =>
           /\ disc[r][f] = Applied(f, urgent[1].intent.change[f])
           /\ r \notin raced => rec[r].fields[f] = disc[r][f],
         RecordInv(r)
  PROVE  RecordInv(r)'
<1>1. Wins(r) /\ Follows(r)
  BY DEF RecordInv
<1>2. \A f : /\ Newest(r, f) => Newest(r, f)'
             /\ Claimed(r, f) /\ ~ Claimed(r, f)' => Claim(1, r, f)
             /\ Newest(r, f) /\ Claimed(r, f) /\ ~ Claimed(r, f)' => urgent[1].intent.change[f] = last[r][f]
  <2>1. last'[r] = last[r]
    OBVIOUS
  <2> QED
    BY <2>1, ClaimsShrink
<1>3. Wins(r)'
  <2> SUFFICES ASSUME r \notin spoiled', NEW f \in Kept, last'[r][f] # 0
               PROVE  Newest(r, f)' /\ (Claimed(r, f)' \/ disc'[r][f] = Applied(f, last'[r][f]))
    BY DEF Wins
  <2>1. Newest(r, f) /\ (Claimed(r, f) \/ disc[r][f] = Applied(f, last[r][f]))
    BY <1>1 DEF Wins
  <2> QED
    BY <1>2, <2>1
<1>4. Follows(r)'
  <2> SUFFICES ASSUME r \notin raced' \cup spoiled', disc'[r] # None, NEW f \in Kept
               PROVE  IF rec'[r] = None THEN disc'[r][f] = 0
                                        ELSE Claimed(r, f)' \/ rec'[r].fields[f] = disc'[r][f]
    BY DEF Follows
  <2>1. IF rec[r] = None THEN disc[r][f] = 0 ELSE Claimed(r, f) \/ rec[r].fields[f] = disc[r][f]
    BY <1>1 DEF Follows
  <2> QED
    BY <1>2, <2>1
<1> QED
  BY <1>3, <1>4 DEF RecordInv

(* An intent that is done with has reached Discogs and the store.            *)
LEMMA DoneWith ==
  ASSUME TypeInv, SyncInv, Executing, work.pc = "delete", Of \notin spoiled
  PROVE  \A f \in Kept : Wanted[f] # 0 =>
           /\ disc[Of][f] = Applied(f, Wanted[f])
           /\ Of \notin raced => rec[Of].fields[f] = Applied(f, Wanted[f])
<1>1. work.left = <<>>
  BY DEF TypeInv, Working, TakenIntent
<1>2. Elements(work.left) = {} /\ ToSend = {}
  BY <1>1 DEF Elements, ToSend
<1>3. Sent /\ Stored
  BY DEF SyncInv, TaskInv
<1>4. \A f \in Kept : Wanted[f] # 0 => disc[Of][f] = Applied(f, Wanted[f])
  BY <1>2, <1>3 DEF Sent
<1>5. Of \notin raced => \A f \in Kept : Wanted[f] # 0 => rec[Of].fields[f] = Applied(f, Wanted[f])
  BY <1>2, <1>3 DEF Stored
<1> QED
  BY <1>4, <1>5

(* The worker ends what it does: the intent is done with or given up.        *)
LEMMA EndSync ==
  ASSUME TypeInv, SyncInv, RunMoves \/ FinishRefresh \/ DeleteIntent \/ NotFound \/ NoDigitalList \/ WantsRefused \/ Bury
  PROVE  SyncInv'
<1>1. UNCHANGED <<rec, disc, last, raced>> /\ work' = Idle
  BY EndTypes
<1>2. CASE UNCHANGED urgent /\ UNCHANGED spoiled
  BY <1>1, <1>2, IdleStays
<1>3. CASE /\ urgent # <<>> /\ Head(urgent) \in UrgentEntry \ IntentEntry /\ urgent' = Tail(urgent)
           /\ UNCHANGED spoiled
  <2>1. Head(urgent).kind # "intent"
    BY <1>3, EntryKinds
  <2>2. Head(urgent) = urgent[1]
    BY <1>3, TailPlaces DEF TypeInv, Entries
  <2>3. ASSUME NEW r \in Record PROVE RecordInv(r)'
    <3>1. RecordInv(r) /\ \A f : ~ Claim(1, r, f)
      BY <2>1, <2>2 DEF SyncInv, Claim
    <3> QED
      BY <1>1, <1>3, <3>1, RecordShrinks
  <2> QED
    BY <1>1, <2>3, IdleNoTask DEF SyncInv
<1>4. CASE /\ work.pc # "idle" /\ Executing /\ urgent # <<>> /\ Head(urgent) = work.job /\ urgent' = Tail(urgent)
           /\ \/ work.pc = "delete" /\ UNCHANGED spoiled
              \/ spoiled' = spoiled \cup {Of}
  <2>1. PICK o \in Record : o = Of
    BY <1>4, JobTypes
  <2>2. urgent[1] = work.job /\ work.job.intent.change = Wanted /\ work.job.intent.r = o
    BY <1>4, <2>1, TailPlaces DEF TypeInv, Entries, Wanted, Of
  <2>3. \A f \in Kept : f \in Field
    BY FieldFacts
  <2>4. ASSUME NEW r \in Record \ {o} PROVE RecordInv(r)'
    <3>1. RecordInv(r) /\ \A f \in Kept : ~ Claim(1, r, f)
      BY <1>4, <2>1, <2>3, HeadClaims DEF SyncInv
    <3>3. r \in spoiled => r \in spoiled'
      BY <1>4
    <3>4. r \notin spoiled' => r \notin spoiled
      BY <1>4
    <3> QED
      BY <1>1, <1>4, <3>1, <3>3, <3>4, RecordShrinks
  <2>5. RecordInv(o)'
    <3>1. CASE o \in spoiled'
      BY <3>1, <1>1 DEF RecordInv, Wins, Follows
    <3>2. CASE o \notin spoiled'
      <4>1. work.pc = "delete" /\ spoiled' = spoiled /\ o \notin spoiled
        BY <1>4, <2>1, <3>2
      <4>2. \A f \in Kept : Wanted[f] # 0 =>
              /\ disc[o][f] = Applied(f, Wanted[f])
              /\ o \notin raced => rec[o].fields[f] = Applied(f, Wanted[f])
        BY <1>4, <2>1, <4>1, DoneWith
      <4>3. \A f \in Kept : Claim(1, o, f) => Wanted[f] # 0
        BY <1>4, <2>1, <2>3, HeadClaims
      <4>4. \A f \in Kept : Claim(1, o, f) =>
              /\ disc[o][f] = Applied(f, urgent[1].intent.change[f])
              /\ o \notin raced => rec[o].fields[f] = disc[o][f]
        BY <2>2, <4>2, <4>3
      <4>5. RecordInv(o)
        BY DEF SyncInv
      <4> QED
        BY <1>1, <1>4, <4>1, <4>2, <4>4, <4>5, RecordShrinks
    <3> QED
      BY <3>1, <3>2
  <2> QED
    BY <1>1, <2>4, <2>5, IdleNoTask DEF SyncInv
<1> QED
  BY <1>2, <1>3, <1>4, EndTypes

(* An intent is put off: the others keep their order.                        *)
LEMMA PostponeSync ==
  ASSUME TypeInv, SyncInv, Postpone
  PROVE  SyncInv'
<1>1. /\ work' = Idle /\ UNCHANGED <<rec, disc, last, raced>>
      /\ Executing /\ urgent # <<>> /\ Head(urgent) = work.job
      /\ urgent' = Append(Tail(urgent), Head(urgent)) /\ spoiled' = spoiled \cup {Of}
  BY PostponeTypes
<1>2. PICK o \in Record : o = Of
  BY <1>1, JobTypes DEF Executing
<1>3. RecordInv(o)'
  BY <1>1, <1>2 DEF RecordInv, Wins, Follows
<1>4. ASSUME NEW r \in Record \ {o} PROVE RecordInv(r)'
  <2>1. RecordInv(r) /\ \A f \in Kept : ~ Claim(1, r, f)
    BY <1>1, <1>2, HeadClaims, FieldFacts DEF SyncInv
  <2>2. \A f \in Kept : (Newest(r, f) => Newest(r, f)') /\ (Claimed(r, f)' <=> Claimed(r, f))
    <3> TAKE f \in Kept
    <3>1. last'[r] = last[r] /\ ~ Claim(1, r, f)
      BY <1>1, <2>1
    <3> QED
      BY <1>1, <3>1, ClaimsTurn
  <2>3. Wins(r)'
    BY <1>1, <2>1, <2>2 DEF RecordInv, Wins
  <2>4. Follows(r)'
    BY <1>1, <2>1, <2>2 DEF RecordInv, Follows
  <2> QED
    BY <2>3, <2>4 DEF RecordInv
<1> QED
  BY <1>1, <1>3, <1>4, IdleNoTask DEF SyncInv

(* Every step keeps records in step with what users wanted.                  *)
LEMMA SyncInvNext == TypeInv /\ SyncInv /\ [Next]_vars => SyncInv'
<1> SUFFICES ASSUME TypeInv, SyncInv, [Next]_vars PROVE SyncInv'
  OBVIOUS
<1>1. CASE BeginIntent \/ Skip \/ SetField \/ EnqueueWants \/ SaveField \/ EnqueueMoves
  BY <1>1, BeginIntentSync, SkipSync, SetFieldSync, EnqueueWantsSync, SaveFieldSync, EnqueueMovesSync
<1>2. CASE BeginMove \/ SetFolder \/ SaveMoved \/ BeginRefresh \/ Fetch \/ ReadStored \/ MergeRecord \/ Postpone
  BY <1>2, MovesSync, RefreshSync, PostponeSync
<1>3. CASE RunMoves \/ FinishRefresh \/ DeleteIntent \/ NotFound \/ NoDigitalList \/ WantsRefused \/ Bury
  BY <1>3, EndSync
<1>4. CASE EnqueueIntent \/ SaveScore \/ SaveAdded
  BY <1>4, EnqueueSync, SaveScoreSync, SaveAddedSync
<1>5. CASE Again
  BY <1>5, AgainTypes, IdleStays
<1>6. CASE \E r \in Record : \/ AddRelease(r)
                             \/ Miss(r)
                             \/ \E edit \in Edits : EditDiscogs(r, edit[1], edit[2])
  BY <1>6, AddReleaseSync, EnqueueSync, EditDiscogsSync
<1>7. CASE \/ SetPurchase \/ Week \/ Organise \/ CallLost \/ UNCHANGED vars
           \/ \E r \in Record : ReadForScore(r, 1) \/ \E change \in Offers : SetIntent(r, change)
  <2>1. UNCHANGED <<rec, disc, urgent, last, raced, spoiled>> /\ UNCHANGED work
    BY <1>7 DEF SetPurchase, Week, Organise, CallLost, vars, ReadForScore, SetIntent, ghosts, queue
  <2>2. TaskInv'
    BY <2>1, TaskStays DEF SyncInv
  <2> QED
    BY <2>1, <2>2, RecordsStay DEF SyncInv
<1> QED
  BY <1>1, <1>2, <1>3, <1>4, <1>5, <1>6, <1>7 DEF Next, Worker, Server, Users

(* At the start nothing is asked for.                                        *)
LEMMA SyncInvInit == Init => SyncInv
<1> SUFFICES ASSUME Init PROVE SyncInv
  OBVIOUS
<1>1. PICK owned \in Owned :
        /\ rec = [r \in Record |-> IF r \in owned
                                   THEN [NewRecord EXCEPT !.fields["folder"] = Default] ELSE None]
        /\ disc = [r \in Record |-> IF r \in owned THEN [Unset EXCEPT !["folder"] = Default] ELSE None]
  BY DEF Init
<1>2. \A f \in Kept : Unset[f] = 0 /\ f \in Field /\ f # "folder"
  BY UnsetTypes, FieldFacts
<1>3. \A f \in Kept : [NewRecord EXCEPT !.fields["folder"] = Default].fields[f] = 0
  BY <1>2, UnsetTypes, FieldFacts DEF StoredRecord, Fields
<1>4. \A f \in Kept : [Unset EXCEPT !["folder"] = Default][f] = 0
  BY <1>2, UnsetTypes DEF Fields
<1>5. urgent = <<>> /\ work = Idle /\ last = [r \in Record |-> Unset]
  BY DEF Init
<1>6. ASSUME NEW r \in Record PROVE RecordInv(r)
  <2>1. \A f \in Kept : last[r][f] = 0
    BY <1>2, <1>5
  <2>2. disc[r] # None => \A f \in Kept : disc[r][f] = 0
    BY <1>1, <1>4
  <2>3. rec[r] # None => \A f \in Kept : rec[r].fields[f] = 0
    BY <1>1, <1>3
  <2> QED
    BY <2>1, <2>2, <2>3 DEF RecordInv, Wins, Follows
<1>7. TaskInv
  <2>1. ~ Executing /\ ~ Merging
    BY <1>5, IdleTypes DEF Executing, Merging
  <2> QED
    BY <2>1 DEF TaskInv, Sent, Stored, Paged
<1> QED
  BY <1>6, <1>7 DEF SyncInv

(* A record with nothing pending has no claims.                              *)
LEMMA SyncInvImplies == TypeInv /\ SyncInv => LastChangeWins /\ StoredFollows
<1> SUFFICES ASSUME TypeInv, SyncInv PROVE LastChangeWins /\ StoredFollows
  OBVIOUS
<1>1. \A r \in Record : RecordInv(r)
  BY DEF SyncInv
<1>2. \A r, f : ~ Pending(r) => ~ Claimed(r, f)
  BY DEF Pending, Claimed, Claim
<1>3. LastChangeWins
  BY <1>1, <1>2 DEF LastChangeWins, RecordInv, Wins, Kept
<1>4. \A r \in Record : Untouched(r) => disc[r] # None
  BY DEF Untouched, TypeInv, Stores
<1>5. StoredFollows
  BY <1>1, <1>2, <1>4 DEF StoredFollows, Untouched, RecordInv, Follows, Kept
<1> QED
  BY <1>3, <1>5

(* Both invariants together, for every run.                                  *)
LEMMA RecordsInvariant == Spec => [](TypeInv /\ SyncInv)
<1>1. Init => TypeInv /\ SyncInv
  BY TypeInvInit, SyncInvInit
<1>2. TypeInv /\ SyncInv /\ [Next]_vars => (TypeInv /\ SyncInv)'
  BY TypeInvNext, SyncInvNext
<1> QED
  BY <1>1, <1>2, PTL DEF Spec

(* Discogs has the last change of every field of a record once nothing is    *)
(* pending for it, whatever is interrupted and run again, and whatever the   *)
(* API server, the moves and the refresh do in between.                      *)
THEOREM LastChangeReachesDiscogs == Spec => []LastChangeWins
<1>1. TypeInv /\ SyncInv => LastChangeWins
  BY SyncInvImplies
<1> QED
  BY <1>1, RecordsInvariant, PTL

(* What is stored of such a record is what Discogs has, unless the record    *)
(* was written over by an older copy.                                        *)
THEOREM StoredRecordsFollow == Spec => []StoredFollows
<1>1. TypeInv /\ SyncInv => StoredFollows
  BY SyncInvImplies
<1> QED
  BY <1>1, RecordsInvariant, PTL
==============================================================================
