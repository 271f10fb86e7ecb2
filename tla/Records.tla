------------------------------- MODULE Records -------------------------------
(***************************************************************************)
(* Changes of records (server/intent.go, server/add.go, background/        *)
(* notes.go, background/moves.go, background/processcollectionpage.go,     *)
(* db/db.go).                                                              *)
(*                                                                         *)
(* A change a user asks for is saved as an intent and queued; the worker   *)
(* applies it field by field, at Discogs and then in the stored record,    *)
(* and writes back the whole record it has read at the start.  The API     *)
(* server writes records too.  Rules move records to folders after every   *)
(* change, and the weekly refresh copies from Discogs what Discogs keeps.  *)
(*                                                                         *)
(* One user.  The value of a field is a number, 0 when it is not set; in a *)
(* change 0 leaves the field alone and Reset clears it.                    *)
(***************************************************************************)
EXTENDS Integers, Sequences, SequencesExt, Subsequences

CONSTANTS
  None,        \* no record
  MaxRecord,   \* records there may be
  MaxVal,      \* values of a field
  RangeWidth,  \* of the scores of the user, which Discogs keeps as 1 to 5
  Purchase,    \* the change that notes what a record has cost
  Pile,        \* the folder of the listening pile
  Default,     \* the folder of records that are added
  Offers,      \* the changes users ask for
  Owned,       \* the records there may be at the start: a set of sets
  Edits,       \* what the user sets at Discogs: pairs of a field and a value
  Rules,       \* the rules that move records
  Strange,     \* folders that are in no organisation
  MaxMoves     \* bound: of what users and failures do

Steps == <<"clean", "width", "weight", "goal", "sleeve", "arrived", "keep", "score",
           "folder", "oversize", "price", "location", "package", "listen">>
Field == {Steps[i] : i \in DOMAIN Steps}
Mirrored == {"clean", "width", "sleeve", "arrived", "package", "score", "folder"}
Remote == Field \ {"oversize"}

Reset == -1
Digital == 2
Value == 0 .. MaxVal
Record == 1 .. MaxRecord

(* mapDiscogsScore: Discogs rates from 1 to 5.                               *)
Mapped(score) == IF RangeWidth = 0 THEN score ELSE (5 * score + RangeWidth - 1) \div RangeWidth

Applied(f, v) == IF v = Reset THEN 0 ELSE IF f = "score" THEN Mapped(v) ELSE v

(* Four fields can be cleared, and a score is one Discogs has a value for.   *)
Resettable == {"keep", "score", "oversize", "package"}
Change ==
  {change \in [Field -> Value \cup {Reset}] :
     /\ \A f \in Field \ Resettable : change[f] # Reset
     /\ change["score"] # 0 => Applied("score", change["score"]) \in Value}
Unset == [f \in Field |-> 0]
Rule == [field : Field, value : Value, folder : Value]

ASSUME ConstantsAssumption ==
  /\ {MaxRecord, MaxVal, RangeWidth, MaxMoves} \subseteq Nat
  /\ Offers \cup {Purchase} \subseteq Change /\ Rules \subseteq Rule
  /\ Owned \subseteq SUBSET Record /\ Edits \subseteq Field \X Value /\ Strange \subseteq Value
  /\ {Pile, Default} \subseteq Value \ {0}
 

VARIABLES
  rec,     \* the stored record of each instance, or None
  disc,    \* Discogs: the fields of each instance, or None
  intents, \* the saved intents
  urgent,  \* queue entries of priority HIGH, by RunDate
  jobs,    \* the other entries
  work,    \* what the worker is executing
  api,     \* what the API server is answering
  sorted,  \* every folder is in an organisation
  last,    \* history: the last change of each field that was accepted
  raced,   \* history: records written over by an older copy
  spoiled, \* history: records a change of which was given up or put off,
           \* or that the user has edited at Discogs
  moves    \* how many moves there were

vars == <<rec, disc, intents, urgent, jobs, work, api, sorted, last, raced, spoiled, moves>>
queue == <<urgent, jobs>>
ghosts == <<last, spoiled, moves>>

StoredRecord == [fields : [Field -> Value], scores : SUBSET Value]
ASSUME NoneAssumption == None \notin StoredRecord \cup [Field -> Value]
NewRecord == [fields |-> Unset, scores |-> {}]

Intent(r, change, id) == [r |-> r, change |-> change, id |-> id]
RefreshIntents(i) == [kind |-> "intent", intent |-> i]
MoveRecords == [kind |-> "moves"]
MoveRecord(r, folder) == [kind |-> "move", r |-> r, folder |-> folder]
RefreshCollection(forced) == [kind |-> "refresh", forced |-> forced]

Idle == [pc |-> "idle", job |-> None, copy |-> None, base |-> None, left |-> <<>>, page |-> None]
NoCall == [pc |-> "idle", r |-> 0, copy |-> None, change |-> None, score |-> 0]

Init ==
  /\ \E owned \in Owned :
       /\ rec = [r \in Record |-> IF r \in owned
                                  THEN [NewRecord EXCEPT !.fields["folder"] = Default] ELSE None]
       /\ disc = [r \in Record |-> IF r \in owned THEN [Unset EXCEPT !["folder"] = Default] ELSE None]
  /\ intents = {}
  /\ urgent = <<>> /\ jobs = <<>>
  /\ work = Idle /\ api = NoCall
  /\ sorted = (Strange = {})
  /\ last = [r \in Record |-> Unset]
  /\ raced = {} /\ spoiled = {}
  /\ moves = 0

Move == moves < MaxMoves /\ moves' = moves + 1

(* db.SaveRecord of a copy that was base when it was read.                   *)
Save(r, copy, base) ==
  /\ rec' = [rec EXCEPT ![r] = copy]
  /\ raced' = IF rec[r] = base THEN raced ELSE raced \cup {r}

----------------------------------------------------------------------------
(* The worker takes the first urgent entry, or else the first of the others. *)

Begin(kind) ==
  /\ work.pc = "idle"
  /\ urgent \o jobs # <<>>
  /\ Head(urgent \o jobs).kind = kind
Doing == Head(urgent \o jobs)

Removed(q, j) == IF q # <<>> /\ Head(q) = j THEN Tail(q) ELSE q
Finish(j, new) ==
  /\ work' = Idle
  /\ urgent' = Removed(urgent, j)
  /\ jobs' = Removed(jobs, j) \o new

Load(j, r, pc, left) ==
  work' = [Idle EXCEPT !.pc = pc, !.job = j, !.copy = rec[r], !.base = rec[r], !.left = left]

(* A crash, or a rate limit of Discogs, leaves the entry where it is.        *)
Again ==
  /\ work.pc # "idle"
  /\ Move
  /\ work' = Idle
  /\ UNCHANGED <<rec, disc, intents, queue, api, sorted, last, raced, spoiled>>

Spoils(j) == IF j.kind = "intent" THEN {j.intent.r} ELSE {}

GiveUp == Finish(work.job, <<>>) /\ spoiled' = spoiled \cup Spoils(work.job)

(* Any other failure, at Discogs or in the store, moves the entry to the     *)
(* dead letters.                                                             *)
Bury ==
  /\ work.pc # "idle"
  /\ Move
  /\ GiveUp
  /\ UNCHANGED <<rec, disc, intents, api, sorted, last, raced>>

----------------------------------------------------------------------------
(* RefreshIntents: the fields of an intent, one after the other.  A field    *)
(* the intent does not set is skipped, but the step for the oversize flag    *)
(* saves the record all the same.                                            *)

Left(change) ==
  Subsequence(Steps, {i \in DOMAIN Steps : change[Steps[i]] # 0 \/ Steps[i] = "oversize"})
Step == Head(work.left)
Wanted == work.job.intent.change
Of == work.job.intent.r

(* Mutant: the intent is deleted when it is taken up.                        *)
BeginIntentOnce ==
  /\ Begin("intent")
  /\ LET i == Doing.intent
     IN IF i \in intents /\ rec[i.r] # None
        THEN Load(Doing, i.r, "call", Left(i.change)) /\ UNCHANGED queue
        ELSE Finish(Doing, <<>>)
  /\ intents' = intents \ {Doing.intent}
  /\ UNCHANGED <<rec, disc, api, sorted, raced, ghosts>>

BeginIntent ==
  /\ Begin("intent")
  /\ LET i == Doing.intent
     IN IF i \in intents /\ rec[i.r] # None
        THEN Load(Doing, i.r, "call", Left(i.change)) /\ UNCHANGED queue
        ELSE Finish(Doing, <<>>)
  /\ UNCHANGED <<rec, disc, intents, api, sorted, raced, ghosts>>

(* ProcessSetFolder: with the printing of moves on, a folder in no           *)
(* organisation is an internal error; the entry is put off.                  *)
InPlace == Step = "folder" /\ work.copy.fields["folder"] = Wanted["folder"]
Postponed ==
  /\ Step = "folder" /\ ~ InPlace /\ ~ sorted
  /\ {work.copy.fields["folder"], Wanted["folder"]} \cap Strange # {}

(* Mutant: the entry is enqueued again and kept.                             *)
PostponeKeeping ==
  /\ work.pc = "call" /\ work.job.kind = "intent" /\ work.left # <<>>
  /\ Postponed
  /\ work' = Idle
  /\ Len(urgent) < 3
  /\ urgent' = Append(urgent, work.job)
  /\ spoiled' = spoiled \cup {Of}
  /\ UNCHANGED <<rec, disc, intents, jobs, api, sorted, last, raced, moves>>

Postpone ==
  /\ work.pc = "call" /\ work.job.kind = "intent" /\ work.left # <<>>
  /\ Postponed
  /\ work' = Idle
  /\ urgent' = Append(Tail(urgent), work.job)
  /\ spoiled' = spoiled \cup {Of}
  /\ UNCHANGED <<rec, disc, intents, jobs, api, sorted, last, raced, moves>>

Skip ==
  /\ work.pc = "call" /\ work.job.kind = "intent" /\ work.left # <<>>
  /\ InPlace
  /\ work' = [work EXCEPT !.left = Tail(@)]
  /\ UNCHANGED <<rec, disc, intents, queue, api, sorted, raced, ghosts>>

(* SetField, SetFolder or SetRating, unless the field is only stored.        *)
SetField ==
  /\ work.pc = "call" /\ work.job.kind = "intent" /\ work.left # <<>>
  /\ ~ InPlace /\ ~ Postponed
  /\ disc' = IF Step = "oversize" \/ disc[Of] = None THEN disc
             ELSE [disc EXCEPT ![Of][Step] = Applied(Step, Wanted[Step])]
  /\ work' = [work EXCEPT !.pc = "save"]
  /\ UNCHANGED <<rec, intents, queue, api, sorted, raced, ghosts>>

(* ProcessKeep: a change from or to a digital keep needs the digital         *)
(* wantlist; when there is none, the error NotFound removes the entry, with  *)
(* the keep status set at Discogs only.                                      *)
NoDigitalList ==
  /\ work.pc = "save" /\ work.job.kind = "intent" /\ Step = "keep"
  /\ Digital \in {Wanted["keep"], work.copy.fields["keep"]}
  /\ GiveUp
  /\ UNCHANGED <<rec, disc, intents, api, sorted, last, raced, moves>>

(* What the steps do to the record they then save.  Dates count in days, as  *)
(* Discogs keeps them.  The wants that Score and Arrived touch are in Wants. *)
Put(copy, f, v) == [copy EXCEPT !.fields[f] = v]
ProcessSetClean(copy, v) == Put(copy, "clean", v)
ProcessSetWidth(copy, v) == Put(copy, "width", v)
ProcessSetWeight(copy, v) == Put(copy, "weight", v)
ProcessGoalFolder(copy, v) == Put(copy, "goal", v)
ProcessSleeve(copy, v) == Put(copy, "sleeve", v)
ProcessArrived(copy, v) == Put(copy, "arrived", v)
ProcessKeep(copy, v) == Put(copy, "keep", Applied("keep", v))
(* Mutant: the score is stored as the user gave it.                          *)
ProcessScoreUnmapped(copy, v) ==
  [Put(copy, "score", IF v = Reset THEN 0 ELSE v) EXCEPT !.scores = @ \cup {IF v = Reset THEN 0 ELSE v}]
ProcessScore(copy, v) ==
  [Put(copy, "score", Applied("score", v)) EXCEPT !.scores = @ \cup {IF v = Reset THEN 0 ELSE v}]
ProcessSetFolder(copy, v) == Put(copy, "folder", v)
ProcessSetOversize(copy, v) == IF v = 0 THEN copy ELSE Put(copy, "oversize", Applied("oversize", v))
ProcessPurchasePrice(copy, v) == Put(copy, "price", v)
ProcessPurchaseLocation(copy, v) == Put(copy, "location", v)
ProcessSetPackageScore(copy, v) == Put(copy, "package", Applied("package", v))
ProcessListenDate(copy, v) == Put(copy, "listen", v)

Processed(copy, f, v) ==
  CASE f = "clean" -> ProcessSetClean(copy, v)
    [] f = "width" -> ProcessSetWidth(copy, v)
    [] f = "weight" -> ProcessSetWeight(copy, v)
    [] f = "goal" -> ProcessGoalFolder(copy, v)
    [] f = "sleeve" -> ProcessSleeve(copy, v)
    [] f = "arrived" -> ProcessArrived(copy, v)
    [] f = "keep" -> ProcessKeep(copy, v)
    [] f = "score" -> ProcessScore(copy, v)
    [] f = "folder" -> ProcessSetFolder(copy, v)
    [] f = "oversize" -> ProcessSetOversize(copy, v)
    [] f = "price" -> ProcessPurchasePrice(copy, v)
    [] f = "location" -> ProcessPurchaseLocation(copy, v)
    [] f = "package" -> ProcessSetPackageScore(copy, v)
    [] f = "listen" -> ProcessListenDate(copy, v)

(* Mutant: the record is saved before the field is set in it.                *)
SaveFieldEarly ==
  /\ work.pc = "save" /\ work.job.kind = "intent"
  /\ LET copy == Processed(work.copy, Step, Wanted[Step])
     IN /\ Save(Of, work.copy, work.base)
        /\ work' = [work EXCEPT !.pc = IF Step = "arrived" THEN "wants" ELSE "call",
                                !.copy = copy, !.base = work.copy, !.left = Tail(@)]
  /\ UNCHANGED <<disc, intents, queue, api, sorted, ghosts>>

SaveField ==
  /\ work.pc = "save" /\ work.job.kind = "intent"
  /\ LET copy == Processed(work.copy, Step, Wanted[Step])
     IN /\ Save(Of, copy, work.base)
        /\ work' = [work EXCEPT !.pc = IF Step = "arrived" THEN "wants" ELSE "call",
                                !.copy = copy, !.base = copy, !.left = Tail(@)]
  /\ UNCHANGED <<disc, intents, queue, api, sorted, ghosts>>

(* ProcessArrived then asks for refreshes of the wants and the wantlists;    *)
(* when one of them waits already, or the queue is full, the intent is given *)
(* up half applied.                                                          *)
EnqueueWants ==
  /\ work.pc = "wants"
  /\ work' = [work EXCEPT !.pc = "call"]
  /\ UNCHANGED <<rec, disc, intents, queue, api, sorted, raced, ghosts>>

WantsRefused ==
  /\ work.pc = "wants"
  /\ GiveUp
  /\ UNCHANGED <<rec, disc, intents, api, sorted, last, raced, moves>>

(* ProcessRefreshIntents: the moves are enqueued, the intent is deleted.     *)
EnqueueMoves ==
  /\ work.pc = "call" /\ work.job.kind = "intent" /\ work.left = <<>>
  /\ jobs' = Append(jobs, MoveRecords)
  /\ work' = [work EXCEPT !.pc = "delete"]
  /\ UNCHANGED <<rec, disc, intents, urgent, api, sorted, raced, ghosts>>

DeleteIntent ==
  /\ work.pc = "delete"
  /\ intents' = intents \ {work.job.intent}
  /\ Finish(work.job, <<>>)
  /\ UNCHANGED <<rec, disc, api, sorted, raced, ghosts>>

----------------------------------------------------------------------------
(* MoveRecords and MoveRecord.                                               *)

Matches(rule, r) == rec[r] # None /\ rec[r].fields[rule.field] = rule.value

RunMoves ==
  /\ Begin("moves")
  /\ Finish(Doing, SetToSeq({MoveRecord(m[1], m[2].folder) :
                              m \in {p \in Record \X Rules : Matches(p[2], p[1])}}))
  /\ UNCHANGED <<rec, disc, intents, api, sorted, raced, ghosts>>

BeginMove ==
  /\ Begin("move")
  /\ IF rec[Doing.r] # None /\ rec[Doing.r].fields["folder"] # Doing.folder
     THEN Load(Doing, Doing.r, "call", <<>>) /\ UNCHANGED queue
     ELSE Finish(Doing, <<>>)
  /\ UNCHANGED <<rec, disc, intents, api, sorted, raced, ghosts>>

SetFolder ==
  /\ work.pc = "call" /\ work.job.kind = "move"
  /\ disc' = [disc EXCEPT ![work.job.r]["folder"] = work.job.folder]
  /\ work' = [work EXCEPT !.pc = "save"]
  /\ UNCHANGED <<rec, intents, queue, api, sorted, raced, ghosts>>

(* Discogs may not find the record in the folder the program thinks it is    *)
(* in: NotFound removes the entry, the intent stays.                         *)
Misplaced(r) ==
  /\ disc[r] # None /\ disc[r]["folder"] # work.copy.fields["folder"]
  /\ GiveUp
NotFound ==
  /\ work.pc = "call"
  /\ \/ work.job.kind = "move" /\ Misplaced(work.job.r)
     \/ work.job.kind = "intent" /\ work.left # <<>> /\ Step = "folder" /\ ~ InPlace /\ ~ Postponed /\ Misplaced(Of)
  /\ UNCHANGED <<rec, disc, intents, api, sorted, last, raced, moves>>

SaveMoved ==
  /\ work.pc = "save" /\ work.job.kind = "move"
  /\ Save(work.job.r, [work.copy EXCEPT !.fields["folder"] = work.job.folder], work.base)
  /\ Finish(work.job, <<MoveRecords>>)
  /\ UNCHANGED <<disc, intents, api, sorted, ghosts>>

----------------------------------------------------------------------------
(* RefreshCollectionEntry: a page is read from Discogs, then every record on *)
(* it is read from the store, merged with it and saved.                      *)

BeginRefresh ==
  /\ Begin("refresh")
  /\ work' = [Idle EXCEPT !.pc = "fetch", !.job = Doing]
  /\ UNCHANGED <<rec, disc, intents, queue, api, sorted, raced, ghosts>>

Fetch ==
  /\ work.pc = "fetch"
  /\ work' = [work EXCEPT !.pc = "merge", !.page = disc,
                          !.left = Subsequence([r \in Record |-> r], {r \in Record : disc[r] # None})]
  /\ UNCHANGED <<rec, disc, intents, queue, api, sorted, raced, ghosts>>

(* Mutant: what is stored is kept.                                           *)
MergedKeeping(stored, theirs) ==
  [stored EXCEPT !.fields = [f \in Field |->
     IF f \in Mirrored /\ stored.fields[f] = 0 THEN theirs[f] ELSE stored.fields[f]]]

(* What is not set at Discogs overwrites nothing.                            *)
Merged(stored, theirs) ==
  [stored EXCEPT !.fields = [f \in Field |->
     IF f \in Mirrored /\ theirs[f] # 0 THEN theirs[f] ELSE stored.fields[f]]]

(* Mutant: no moves are asked for.                                           *)
FinishRefreshQuiet ==
  /\ work.pc = "merge" /\ work.left = <<>>
  /\ Finish(work.job, <<>>)
  /\ UNCHANGED <<rec, disc, intents, api, sorted, raced, ghosts>>

ReadStored ==
  /\ work.pc = "merge" /\ work.left # <<>>
  /\ LET r == Head(work.left)
     IN work' = [work EXCEPT !.pc = "store", !.copy = rec[r], !.base = rec[r]]
  /\ UNCHANGED <<rec, disc, intents, queue, api, sorted, raced, ghosts>>

MergeRecord ==
  /\ work.pc = "store"
  /\ LET r == Head(work.left)
         stored == IF work.copy = None THEN NewRecord ELSE work.copy
     IN Save(r, Merged(stored, work.page[r]), work.base)
  /\ work' = [work EXCEPT !.pc = "merge", !.left = Tail(@)]
  /\ UNCHANGED <<disc, intents, queue, api, sorted, ghosts>>

FinishRefresh ==
  /\ work.pc = "merge" /\ work.left = <<>>
  /\ Finish(work.job, <<MoveRecords>>)
  /\ UNCHANGED <<rec, disc, intents, api, sorted, raced, ghosts>>

(* The validator asks for it once a week.  Bound: the queue has drained.     *)
Week ==
  /\ jobs = <<>>
  /\ jobs' = <<RefreshCollection(FALSE)>>
  /\ UNCHANGED <<rec, disc, intents, urgent, work, api, sorted, raced, ghosts>>

Worker ==
  \/ BeginIntent \/ Postpone \/ Skip \/ SetField \/ NoDigitalList \/ SaveField
  \/ EnqueueWants \/ WantsRefused \/ EnqueueMoves \/ DeleteIntent
  \/ RunMoves \/ BeginMove \/ SetFolder \/ NotFound \/ SaveMoved
  \/ BeginRefresh \/ Fetch \/ ReadStored \/ MergeRecord \/ FinishRefresh

----------------------------------------------------------------------------
(* The API server, which answers one request after the other.                *)

(* A record put on the listening pile loses its score and keep status.       *)
Normalised(change) ==
  IF change["folder"] # Pile THEN change
  ELSE [change EXCEPT !["score"] = Reset, !["keep"] = Reset, !["weight"] = 1, !["width"] = 1]

(* SetIntent: the intent is saved, then enqueued.                            *)
SetIntent(r, change) ==
  /\ api.pc = "idle"
  /\ Move
  /\ rec[r] # None
  /\ intents' = intents \cup {Intent(r, Normalised(change), moves)}
  /\ api' = [NoCall EXCEPT !.pc = "enqueue", !.r = r, !.change = Intent(r, Normalised(change), moves)]
  /\ UNCHANGED <<rec, disc, queue, work, sorted, last, raced, spoiled>>

EnqueueIntent ==
  /\ api.pc = "enqueue"
  /\ urgent' = Append(urgent, RefreshIntents(api.change))
  /\ last' = [last EXCEPT ![api.r] = [f \in Field |->
                IF api.change.change[f] = 0 THEN @[f] ELSE api.change.change[f]]]
  /\ api' = NoCall
  /\ UNCHANGED <<rec, disc, intents, jobs, work, sorted, raced, spoiled, moves>>

(* The record is not known yet: a refresh of the collection is forced.       *)
Miss(r) ==
  /\ api.pc = "idle"
  /\ Move
  /\ rec[r] = None
  /\ urgent' = Append(urgent, RefreshCollection(TRUE))
  /\ UNCHANGED <<rec, disc, intents, jobs, work, api, sorted, last, raced, spoiled>>

(* A score of an earlier day goes straight to the record.                    *)
ReadForScore(r, score) ==
  /\ api.pc = "idle"
  /\ Move
  /\ rec[r] # None
  /\ api' = [NoCall EXCEPT !.pc = "score", !.r = r, !.copy = rec[r], !.score = score]
  /\ UNCHANGED <<rec, disc, intents, queue, work, sorted, last, raced, spoiled>>

SaveScore ==
  /\ api.pc = "score"
  /\ Save(api.r, [api.copy EXCEPT !.scores = @ \cup {api.score}], api.copy)
  /\ api' = NoCall
  /\ UNCHANGED <<disc, intents, queue, work, sorted, ghosts>>

(* AddRecord: at Discogs first, then in the store, in no folder yet.         *)
AddRelease(r) ==
  /\ api.pc = "idle"
  /\ Move
  /\ disc[r] = None
  /\ disc' = [disc EXCEPT ![r] = [Unset EXCEPT !["folder"] = Default]]
  /\ api' = [NoCall EXCEPT !.pc = "add", !.r = r]
  /\ UNCHANGED <<rec, intents, queue, work, sorted, last, raced, spoiled>>

SaveAdded ==
  /\ api.pc = "add"
  /\ Save(api.r, NewRecord, None)
  /\ api' = [api EXCEPT !.pc = "bought"]
  /\ UNCHANGED <<disc, intents, queue, work, sorted, ghosts>>

(* Then it sets the price and the place by an intent.                        *)
SetPurchase ==
  /\ api.pc = "bought"
  /\ intents' = intents \cup {Intent(api.r, Purchase, MaxMoves)}
  /\ api' = [NoCall EXCEPT !.pc = "enqueue", !.r = api.r, !.change = Intent(api.r, Purchase, MaxMoves)]
  /\ UNCHANGED <<rec, disc, queue, work, sorted, raced, ghosts>>

(* The API server stops, or cannot reach the queue.                          *)
CallLost ==
  /\ api.pc # "idle"
  /\ Move
  /\ api' = NoCall
  /\ UNCHANGED <<rec, disc, intents, queue, work, sorted, last, raced, spoiled>>

(* The user edits the record at Discogs.                                     *)
EditDiscogs(r, f, v) ==
  /\ Move
  /\ disc[r] # None /\ disc[r][f] # v
  /\ disc' = [disc EXCEPT ![r][f] = v]
  /\ spoiled' = spoiled \cup {r}
  /\ UNCHANGED <<rec, intents, queue, work, api, sorted, last, raced>>

(* SetConfig with an organisation for every folder.                          *)
Organise ==
  /\ ~ sorted
  /\ sorted' = TRUE
  /\ UNCHANGED <<rec, disc, intents, queue, work, api, raced, ghosts>>

Server == EnqueueIntent \/ SaveScore \/ SaveAdded \/ SetPurchase
Users ==
  \/ \E r \in Record :
       \/ AddRelease(r)
       \/ \E change \in Offers : SetIntent(r, change)
       \/ ReadForScore(r, 1)
       \/ Miss(r)
       \/ \E edit \in Edits : EditDiscogs(r, edit[1], edit[2])
  \/ Organise

Next == Worker \/ Week \/ Server \/ Users \/ Again \/ Bury \/ CallLost

Spec == Init /\ [][Next]_vars
FairSpec == Spec /\ WF_vars(Worker) /\ WF_vars(Week) /\ WF_vars(Server)

----------------------------------------------------------------------------
(* Every variable keeps its type, and no two queue entries are for one       *)
(* intent.                                                                   *)
TypeOK ==
  /\ \A r \in Record : rec[r] # None => rec[r].fields \in [Field -> Value] /\ rec[r].scores \subseteq Value
  /\ \A r \in Record : disc[r] # None => disc[r] \in [Field -> Value]
  /\ \A r \in Record : rec[r] # None => disc[r] # None
  /\ \A i \in intents : i.r \in Record /\ i.change \in Change
  /\ \A i, j \in DOMAIN urgent : urgent[i].kind = "intent" /\ urgent[i] = urgent[j] => i = j
  /\ last \in [Record -> Change] /\ raced \cup spoiled \subseteq Record

Pending(r) == \E i \in DOMAIN urgent : urgent[i].kind = "intent" /\ urgent[i].intent.r = r
Untouched(r) == r \notin raced \cup spoiled /\ ~ Pending(r) /\ rec[r] # None

(* Once its intents are through, a record has at Discogs the value of the    *)
(* last change accepted of each field, though intents are interrupted and    *)
(* run again from the start; only the rules give it another folder.          *)
LastChangeWins ==
  \A r \in Record \ spoiled : ~ Pending(r) =>
    \A f \in Remote \ {"folder"} : last[r][f] # 0 => disc[r][f] = Applied(f, last[r][f])

(* ... and the stored record, which is written back whole from a copy, says  *)
(* the same unless the API server wrote it meanwhile.                        *)
StoredFollows ==
  \A r \in Record : Untouched(r) => \A f \in Remote \ {"folder"} : rec[r].fields[f] = disc[r][f]

(* In the end what Discogs has of a mirrored field is stored: the weekly     *)
(* refresh repairs edits, lost updates and moves that were given up.         *)
RefreshRepairs ==
  <>sorted => <>[](\A r \in Record : disc[r] # None =>
     rec[r] # None /\ \A f \in Mirrored : disc[r][f] # 0 => rec[r].fields[f] = disc[r][f])

(* In the end every record is, at Discogs, in the folder its rule says, if   *)
(* no two rules disagree.                                                    *)
RulesWin ==
  <>sorted => <>[](\A r \in Record, rule \in Rules : Matches(rule, r) => disc[r]["folder"] = rule.folder)

(* Where the records end up once nobody interferes any more.                 *)
RecordsConverge == RefreshRepairs /\ RulesWin

(* docs/syncing.md says of a task that fails again and again that it is put  *)
(* aside "without blocking other updates from running".  The code puts an    *)
(* intent for a folder in no organisation back among the urgent entries,     *)
(* where it is chosen before any other work.                                 *)
NotBlocked == []<>(work.pc = "merge")
=============================================================================
