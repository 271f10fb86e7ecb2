-------------------------- MODULE CollectionRefresh --------------------------
(***************************************************************************)
(* The refresh of a user's collection, from the first import at login on   *)
(* (background/processcollectionpage.go, cleancollection.go,               *)
(* server/external.go, getuser.go, add.go, intent.go, validatorlogic.go).  *)
(*                                                                         *)
(* Page 1 of a refresh starts a round: it picks a RefreshId, enqueues the  *)
(* other pages and marks the collection as refreshed.  Every page stamps   *)
(* the records it reads.  The last page moves the user to the waitlist and *)
(* enqueues the deletion of the records that carry an older stamp; each    *)
(* deletion asks Discogs again, a page of copies at a time.  The worker of *)
(* the task queue runs the entries one at a time; login, the validator,    *)
(* the administrator, the API server and the user at Discogs act between   *)
(* any two of its steps, on copies of the user or of a record that they    *)
(* write back whole.                                                       *)
(*                                                                         *)
(* One user; the nth record the user adds is record n.                     *)
(***************************************************************************)
EXTENDS Integers, Sequences, FiniteSets, Subsequences

CONSTANTS
  None,           \* no value
  PageSize,       \* records on a page of the collection
  InitiallyOwned, \* records in the collection at the start
  Releases,       \* the nth record is a copy of release n % Releases
  MaxRecords,     \* bound: records ever added
  MaxRounds,      \* bound: rounds that begin
  MaxMishaps      \* bound: calls that fail, records that come or go, SetIntent
                  \* calls, and users the validator writes back

ASSUME BoundsAssumption ==
  /\ PageSize \in Nat \ {0} /\ Releases \in Nat \ {0}
  /\ InitiallyOwned \in Nat /\ MaxRecords \in Nat /\ InitiallyOwned <= MaxRecords
  /\ {MaxRounds, MaxMishaps} \subseteq Nat

VARIABLES
  user,      \* StoredUser, or None before the login
  records,   \* RefreshId of each stored record, None when not stored
  shop,      \* Discogs: the records in the collection
  added,     \* Discogs: how many were added so far
  queue,     \* waiting entries, the urgent ones apart
  work,      \* the entry the worker executes
  login,     \* progress of GetLogin
  validator, \* progress of a validation pass
  saves,     \* copies of records the API server is about to save
  rounds,    \* history: what each round found when it began
  undone,    \* history: records whose stamp others took away again
  steady,    \* history: no copy of the release that is checked came or went
  ids,       \* RefreshIds given out
  mishaps    \* how many there were

vars == <<user, records, shop, added, queue, work, login, validator, saves, rounds, undone, steady, ids,
          mishaps>>
discogs == <<shop, added>>
clients == <<login, validator, saves>>
history == <<rounds, undone, steady, ids>>

Record   == 1 .. MaxRecords
Round    == 1 .. MaxRounds
State    == {"UNKNOWN", "REFRESHING", "IN_WAITLIST", "LIVE"}
Priority == {"HIGH", "UNSET"}

StoredUser == [state : State,
               named : BOOLEAN,   \* Discogs has told the name
               fresh : BOOLEAN,   \* LastCollectionRefresh is less than a week old
               checked : BOOLEAN, \* LastRefreshTime is set
               expected : Nat]    \* ExpectedCollectionSize
(* A page to read, a record to delete or the user to look up; miss marks the entries a failed     *)
(* SetIntent asked for, late a retry that others overtake.                   *)
Element == [kind : {"page", "delete", "user"}, n : Nat, id : Nat, miss : BOOLEAN,
            late : BOOLEAN, prio : Priority]

ASSUME NoneAssumption == None \notin Nat \cup StoredUser \cup Element

Page(n, id, miss, prio) ==
  [kind |-> "page", n |-> n, id |-> id, miss |-> miss, late |-> FALSE, prio |-> prio]
Delete(r) ==
  [kind |-> "delete", n |-> r, id |-> 0, miss |-> FALSE, late |-> FALSE, prio |-> "UNSET"]

RefreshUser ==
  [kind |-> "user", n |-> 0, id |-> 0, miss |-> FALSE, late |-> FALSE, prio |-> "UNSET"]

Idle == [pc |-> "idle", entry |-> None, user |-> None, id |-> 0, pages |-> 0, found |-> 0,
         page |-> 0]
Asleep == [pc |-> "idle", user |-> None]

Init ==
  /\ user = None
  /\ records = [r \in Record |-> None]
  /\ shop = 1 .. InitiallyOwned
  /\ added = InitiallyOwned
  /\ queue = [p \in Priority |-> <<>>]
  /\ work = Idle
  /\ login = Asleep
  /\ validator = Asleep
  /\ saves = {}
  /\ rounds = [i \in Round |-> [listed |-> {}, sound |-> TRUE]]
  /\ undone = {}
  /\ steady = TRUE
  /\ ids = 0
  /\ mishaps = 0

Mishaps(n) == mishaps + n <= MaxMishaps /\ mishaps' = mishaps + n
Mishap == Mishaps(1)

Stored == {r \in Record : records[r] # None}

----------------------------------------------------------------------------
(* Enqueue: only page 1 has a deduplication key. *)
Waiting == UNION {{queue[p][i] : i \in 1 .. Len(queue[p])} : p \in Priority}
Present == Waiting \cup (IF work.entry = None THEN {} ELSE {work.entry})
FirstPagePresent == \E e \in Present : e.kind = "page" /\ e.n = 1

Push(e) == queue' = [queue EXCEPT ![e.prio] = Append(@, e)]

(* A refresh is asked for by somebody who ignores whether it was accepted:   *)
(* it goes in, one is there already, or the queue is full.                   *)
EnqueueRefresh(miss, prio) ==
  IF FirstPagePresent THEN UNCHANGED queue ELSE Push(Page(1, 0, miss, prio))
AskForRefresh ==
  \/ EnqueueRefresh(FALSE, "UNSET") /\ UNCHANGED mishaps
  \/ UNCHANGED queue /\ Mishap

----------------------------------------------------------------------------
(* The worker.                                                               *)

Done == work' = Idle
RemoveAt(s, i) == SubSeq(s, 1, i - 1) \o SubSeq(s, i + 1, Len(s))

(* Run takes the oldest urgent entry, or else the oldest; the RunDate of a   *)
(* retry lies five minutes ahead, so that later entries may overtake it.     *)
Take(p) ==
  /\ work.pc = "idle"
  /\ p = "UNSET" => queue["HIGH"] = <<>>
  /\ \E i \in 1 .. Len(queue[p]) :
       /\ \A j \in 1 .. i - 1 : queue[p][j].late
       /\ queue' = [queue EXCEPT ![p] = RemoveAt(@, i)]
       /\ work' = [Idle EXCEPT !.pc = queue[p][i].kind, !.entry = queue[p][i],
                               !.user = user, !.id = queue[p][i].id]
  /\ UNCHANGED <<user, records, discogs, clients, history, mishaps>>

(* GetCollection: a page of the collection, newest first, and the number of  *)
(* pages there are.                                                          *)
Newer(r) == Cardinality({t \in shop : t > r})
PageOf(n) == {r \in shop : Newer(r) >= (n - 1) * PageSize /\ Newer(r) < n * PageSize}
Pages == LET full == (Cardinality(shop) + PageSize - 1) \div PageSize
         IN IF full = 0 THEN 1 ELSE full

(* A refresh for a missed intent reads two pages at most. *)
Limited(e, pages) == IF e.miss /\ pages > 2 THEN 2 ELSE pages

(* Every record read is stored with the stamp of its round, newer or not. *)
Stamp(S, id) ==
  /\ records' = [r \in Record |-> IF r \in S THEN id ELSE records[r]]
  /\ undone' = undone \ S

(* Discogs can be asked only for a user with a name, and for pages it has. *)
Readable(e) == work.user.named /\ e.n <= Pages

(* History: these rounds are sound no longer.  A round is broken when one of *)
(* its pages will not be read before its last one, if ever, or may miss a    *)
(* record, or when a page of an earlier round takes its stamps away.         *)
Break(B) == rounds' = [i \in Round |-> [rounds[i] EXCEPT !.sound = @ /\ i \notin B]]
Begun == 1 .. ids
Broken(id) == Break(IF id = 0 THEN {} ELSE {i \in Begun : i >= id})

(* Mutant: page 1 keeps the RefreshId of its entry. *)
BeginRoundAsIs ==
  /\ work' = [work EXCEPT !.pc = "read", !.pages = Limited(work.entry, Pages)]
  /\ Stamp(PageOf(work.entry.n), work.id)
  /\ UNCHANGED <<rounds, steady, ids>>

(* Page 1 takes a new RefreshId even when it is a retry. *)
BeginRound ==
  IF work.entry.n = 1
  THEN /\ ids < MaxRounds
       /\ ids' = ids + 1
       /\ rounds' = [rounds EXCEPT ![ids + 1].listed = shop]
       /\ work' = [work EXCEPT !.pc = "read", !.id = ids + 1, !.pages = Limited(work.entry, Pages)]
       /\ Stamp(PageOf(1), ids + 1)
       /\ UNCHANGED steady
  ELSE /\ work' = [work EXCEPT !.pc = "read", !.pages = Limited(work.entry, Pages)]
       /\ Stamp(PageOf(work.entry.n), work.id)
       /\ Break({i \in Begun : i > work.id})
       /\ UNCHANGED <<steady, ids>>

ReadPage ==
  /\ work.pc = "page"
  /\ Readable(work.entry)
  /\ BeginRound
  /\ UNCHANGED <<user, discogs, queue, clients, mishaps>>

(* A page fails after some of its records are stored: the entry is tried     *)
(* again, or moves to the dead letters.                                      *)
FailPage ==
  /\ work.pc = "page"
  /\ Readable(work.entry)
  /\ Mishap
  /\ \E part \in SUBSET PageOf(work.entry.n) :
       IF work.entry.n = 1
       THEN /\ ids < MaxRounds
            /\ ids' = ids + 1
            /\ rounds' = [rounds EXCEPT ![ids + 1].sound = FALSE]
            /\ Stamp(part, ids + 1)
       ELSE Stamp(part, work.id) /\ Broken(work.id) /\ UNCHANGED ids
  /\ Push([work.entry EXCEPT !.late = TRUE]) \/ UNCHANGED queue
  /\ Done
  /\ UNCHANGED <<user, discogs, clients, steady>>

(* The page cannot be read: the entry moves to the dead letters. *)
Unreadable ==
  /\ work.pc = "page"
  /\ ~Readable(work.entry)
  /\ Done
  /\ Broken(work.id)
  /\ UNCHANGED <<user, records, discogs, queue, clients, undone, steady, ids, mishaps>>

(* Discogs or pstore fails: the entry keeps its place after a rate limit, is *)
(* enqueued anew after an internal error, and moves to the dead letters      *)
(* after any other.  What the handler has done so far stays done.            *)
RateLimit ==
  /\ work.pc \in {"page", "delete", "check", "user", "folders"}
  /\ Mishap
  /\ queue' = [queue EXCEPT ![work.entry.prio] = <<work.entry>> \o @]
  /\ Done
  /\ UNCHANGED <<user, records, discogs, clients, history>>

Requeue ==
  /\ work.pc # "idle"
  /\ Mishap
  /\ Push([work.entry EXCEPT !.late = TRUE])
  /\ Done
  /\ Broken(work.id)
  /\ UNCHANGED <<user, records, discogs, clients, undone, steady, ids>>

Bury ==
  /\ work.pc # "idle"
  /\ Mishap
  /\ Done
  /\ Broken(work.id)
  /\ UNCHANGED <<user, records, discogs, queue, clients, undone, steady, ids>>

(* Page 1 enqueues the others, and loses those a full queue refuses. *)
OtherPages == [n \in 1 .. work.pages |-> Page(n, work.id, work.entry.miss, "UNSET")]
EnqueuePages ==
  /\ work.pc = "read"
  /\ work.entry.n = 1
  /\ \E lost \in SUBSET (2 .. work.pages) :
       /\ Mishaps(Cardinality(lost))
       /\ queue' = [queue EXCEPT !["UNSET"] = @ \o Subsequence(OtherPages, (2 .. work.pages) \ lost)]
       /\ Break(IF lost = {} THEN {} ELSE {work.id})
  /\ work' = [work EXCEPT !.pc = "fresh"]
  /\ UNCHANGED <<user, records, discogs, clients, undone, steady, ids>>

(* Then it writes the user back as it was loaded, LastCollectionRefresh set. *)
AfterPage(w) == IF w.entry.n = w.pages THEN [w EXCEPT !.pc = "last"] ELSE Idle
SaveRefreshed ==
  /\ work.pc = "fresh"
  /\ user' = [work.user EXCEPT !.fresh = TRUE]
  /\ work' = AfterPage([work EXCEPT !.user.fresh = TRUE])
  /\ UNCHANGED <<records, discogs, queue, clients, history, mishaps>>

PageRead ==
  /\ work.pc = "read"
  /\ work.entry.n > 1
  /\ work' = AfterPage(work)
  /\ UNCHANGED <<user, records, discogs, queue, clients, history, mishaps>>

(* The last page moves a new user to the waitlist, as it was loaded. *)
LastPage ==
  /\ work.pc = "last"
  /\ user' = IF work.user.state = "REFRESHING"
             THEN [work.user EXCEPT !.state = "IN_WAITLIST"] ELSE user
  /\ work' = IF work.entry.miss THEN Idle ELSE [work EXCEPT !.pc = "clean"]
  /\ UNCHANGED <<records, discogs, queue, clients, history, mishaps>>

(* Mutant: every record another round has stamped is to be deleted. *)
DoomedByOthers(id) == {r \in Stored : records[r] # id}

Doomed(id) == {r \in Stored : records[r] < id}

Deletions(S) == Subsequence([r \in Record |-> Delete(r)], S)

(* CleanCollection enqueues the deletions, those a full queue refuses left   *)
(* out, and loads the user again.                                            *)
CleanCollection ==
  /\ work.pc = "clean"
  /\ \E lost \in SUBSET Doomed(work.id) :
       /\ Mishaps(Cardinality(lost))
       /\ queue' = [queue EXCEPT !["UNSET"] = @ \o Deletions(Doomed(work.id) \ lost)]
  /\ work' = [work EXCEPT !.pc = "cleaned", !.user = user, !.found = Cardinality(Stored)]
  /\ UNCHANGED <<user, records, discogs, clients, history>>

Complete == work.found >= work.user.expected

SaveCleaned ==
  /\ work.pc = "cleaned"
  /\ Complete
  /\ user' = IF work.user.state \in {"UNKNOWN", "REFRESHING"}
             THEN [work.user EXCEPT !.state = "IN_WAITLIST"] ELSE user
  /\ Done
  /\ UNCHANGED <<records, discogs, queue, clients, history, mishaps>>

(* Fewer records than the profile promised: the refresh is tried again.  A   *)
(* refusal ends the handler with that error.                                 *)
RetryMissing ==
  /\ work.pc = "cleaned"
  /\ ~Complete
  /\ AskForRefresh
  /\ Done
  /\ UNCHANGED <<user, records, discogs, clients, history>>

(* GetCollectionRelease: a page of the copies of the release.                *)
CopiesOf(r) == {t \in shop : t % Releases = r % Releases}
NewerCopies(r) == Cardinality({t \in CopiesOf(r) : t > r})
OnCopyPage(r, n) ==
  r \in shop /\ NewerCopies(r) >= (n - 1) * PageSize /\ NewerCopies(r) < n * PageSize
CopyPages(r) == (Cardinality(CopiesOf(r)) + PageSize - 1) \div PageSize

(* DeleteRecord looks for the record among the copies Discogs lists, and     *)
(* takes the number of pages from the first.                                 *)
FirstCopies ==
  /\ work.pc = "delete"
  /\ LET r == work.entry.n
     IN work' = IF records[r] = None \/ OnCopyPage(r, 1) THEN Idle
                ELSE [work EXCEPT !.pc = "check", !.page = 1, !.pages = CopyPages(r)]
  /\ steady' = TRUE
  /\ UNCHANGED <<user, records, discogs, queue, clients, rounds, undone, ids, mishaps>>

(* Mutant: the last page is not read. *)
CheckedButLast == work.page + 1 >= work.pages

Checked == work.page >= work.pages

NextCopies ==
  /\ work.pc = "check"
  /\ ~Checked
  /\ work' = IF OnCopyPage(work.entry.n, work.page + 1) THEN Idle
             ELSE [work EXCEPT !.page = @ + 1]
  /\ UNCHANGED <<user, records, discogs, queue, clients, history, mishaps>>

(* It was on none of the pages, and is deleted. *)
DeleteRecord ==
  /\ work.pc = "check"
  /\ Checked
  /\ records' = [records EXCEPT ![work.entry.n] = None]
  /\ undone' = undone \cup ({work.entry.n} \cap shop)
  /\ Done
  /\ UNCHANGED <<user, discogs, queue, clients, rounds, steady, ids, mishaps>>

(* RefreshUser asks Discogs who the user is, loads the user, asks for its    *)
(* folders and writes it back.                                               *)
LoadUser ==
  /\ work.pc = "user"
  /\ work' = [work EXCEPT !.pc = "folders", !.user = [user EXCEPT !.named = TRUE, !.checked = TRUE]]
  /\ UNCHANGED <<user, records, discogs, queue, clients, history, mishaps>>

SaveFolders ==
  /\ work.pc = "folders"
  /\ user' = work.user
  /\ Done
  /\ UNCHANGED <<records, discogs, queue, clients, history, mishaps>>

----------------------------------------------------------------------------
(* GetLogin stores a user without a name, asks for the first refresh, and    *)
(* stores the user with what Discogs says of it.                             *)
GenerateToken ==
  /\ user = None /\ login = Asleep
  /\ user' = [state |-> "UNKNOWN", named |-> FALSE, fresh |-> FALSE, checked |-> FALSE,
              expected |-> 0]
  /\ \E size \in {0, Cardinality(shop)} :   \* getProfileStats may fail
       login' = [pc |-> "token",
                 user |-> [state |-> "REFRESHING", named |-> TRUE, fresh |-> FALSE,
                           checked |-> FALSE, expected |-> size]]
  /\ UNCHANGED <<records, discogs, queue, work, validator, saves, history, mishaps>>

NewUserRefresh ==
  /\ login.pc = "token"
  /\ AskForRefresh
  /\ login' = [login EXCEPT !.pc = "queued"]
  /\ UNCHANGED <<user, records, discogs, work, validator, saves, history>>

SaveLogin ==
  /\ login.pc = "queued"
  /\ user' = login.user
  /\ login' = Asleep
  /\ UNCHANGED <<records, discogs, queue, work, validator, saves, history, mishaps>>

(* Discogs, pstore or the server fails, and leaves the user without a name. *)
LoginFails ==
  /\ login # Asleep
  /\ Mishap
  /\ login' = Asleep
  /\ UNCHANGED <<user, records, discogs, queue, work, validator, saves, history>>

(* A validation pass loads the user and asks first for a RefreshUser.        *)
(* Bound: at most one of those waits or runs.                                *)
ValidateName ==
  /\ user # None /\ validator.pc = "idle"
  /\ IF user.checked \/ \E e \in Present : e.kind = "user" THEN UNCHANGED queue
     ELSE Push(RefreshUser)
  /\ validator' = [pc |-> "collection", user |-> user]
  /\ UNCHANGED <<user, records, discogs, work, login, saves, history, mishaps>>

(* Mutant: the age of the last refresh is compared the wrong way round. *)
DueWhenFresh(u) == u.fresh

CollectionDue(u) == ~u.fresh

(* The refresh of the collection; a sales sync that is due besides makes the *)
(* pass write the user back as it was loaded.                                *)
ValidateCollection ==
  /\ validator.pc = "collection"
  /\ \/ /\ IF CollectionDue(validator.user) THEN AskForRefresh
           ELSE UNCHANGED <<queue, mishaps>>
        /\ validator' = Asleep
     \/ /\ IF CollectionDue(validator.user) THEN EnqueueRefresh(FALSE, "UNSET")
           ELSE UNCHANGED queue
        /\ Mishap
        /\ validator' = [validator EXCEPT !.pc = "sales"]
  /\ UNCHANGED <<user, records, discogs, work, login, saves, history>>

SaveValidated ==
  /\ validator.pc = "sales"
  /\ user' = validator.user
  /\ validator' = Asleep
  /\ UNCHANGED <<records, discogs, queue, work, login, saves, history, mishaps>>

(* UpgradeUser finds the user by name and writes it back at once. *)
UpgradeUser ==
  /\ user # None /\ user.named /\ user.state = "IN_WAITLIST"
  /\ user' = [user EXCEPT !.state = "LIVE"]
  /\ UNCHANGED <<records, discogs, queue, work, clients, history, mishaps>>

(* SetIntent is called for a record that is not stored, one of the           *)
(* collection or not, and asks for an urgent refresh.                        *)
MissIntent ==
  /\ user # None /\ login = Asleep
  /\ Mishap
  /\ EnqueueRefresh(TRUE, "HIGH")
  /\ UNCHANGED <<user, records, discogs, work, clients, history>>

(* History: a copy of the release that is being checked comes or goes. *)
Moves(r) == steady' = (steady /\ ~(work.pc = "check" /\ r % Releases = work.entry.n % Releases))

(* SetIntent for a score of the past reads a record and saves it whole.      *)
ScoreIntent(r) ==
  /\ user # None
  /\ r \in Stored
  /\ Mishap
  /\ saves' = saves \cup {[r |-> r, stamp |-> records[r]]}
  /\ UNCHANGED <<user, records, discogs, queue, work, login, validator, history>>

(* AddRecord adds a record at Discogs, to a folder of the user, and saves it *)
(* without a RefreshId.                                                      *)
AddRecord ==
  /\ user # None /\ user.checked
  /\ added < MaxRecords
  /\ Mishap
  /\ added' = added + 1
  /\ shop' = shop \cup {added + 1}
  /\ saves' = saves \cup {[r |-> added + 1, stamp |-> 0]}
  /\ Moves(added + 1)
  /\ UNCHANGED <<user, records, queue, work, login, validator, rounds, undone, ids>>

(* History: an older stamp is written over the one a page has given.         *)
TakesAway(s) == records[s.r] # None /\ s.stamp < records[s.r]
SaveRecord(s) ==
  /\ s \in saves
  /\ records' = [records EXCEPT ![s.r] = s.stamp]
  /\ undone' = IF TakesAway(s) THEN undone \cup {s.r} ELSE undone
  /\ saves' = saves \ {s}
  /\ UNCHANGED <<user, discogs, queue, work, login, validator, rounds, steady, ids, mishaps>>

(* pstore or the server fails first. *)
LoseRecord(s) ==
  /\ s \in saves
  /\ Mishap
  /\ saves' = saves \ {s}
  /\ UNCHANGED <<user, records, discogs, queue, work, login, validator, history>>

(* The user adds a record at Discogs, or one leaves the collection. *)
Add ==
  /\ added < MaxRecords
  /\ Mishap
  /\ added' = added + 1
  /\ shop' = shop \cup {added + 1}
  /\ Moves(added + 1)
  /\ UNCHANGED <<user, records, queue, work, clients, rounds, undone, ids>>

Remove(r) ==
  /\ r \in shop
  /\ Mishap
  /\ shop' = shop \ {r}
  /\ Break(Begun)
  /\ Moves(r)
  /\ UNCHANGED <<user, records, added, queue, work, clients, undone, ids>>

(* Five minutes pass, and the retries take their place by RunDate. *)
Ripen ==
  /\ \E e \in Waiting : e.late
  /\ queue' = [p \in Priority |-> [i \in 1 .. Len(queue[p]) |-> [queue[p][i] EXCEPT !.late = FALSE]]]
  /\ UNCHANGED <<user, records, discogs, work, clients, history, mishaps>>

(* A week passes since the last refresh, in every copy of the user.          *)
(* Bound: LastRefreshTime does not fall due again.                           *)
Aged(u) == IF u = None THEN None ELSE [u EXCEPT !.fresh = FALSE]
WeekPasses ==
  /\ user # None /\ user.fresh
  /\ user' = Aged(user)
  /\ work' = [work EXCEPT !.user = Aged(@)]
  /\ login' = [login EXCEPT !.user = Aged(@)]
  /\ validator' = [validator EXCEPT !.user = Aged(@)]
  /\ UNCHANGED <<records, discogs, queue, saves, history, mishaps>>

----------------------------------------------------------------------------
WorkerStep ==
  \/ \E p \in Priority : Take(p)
  \/ ReadPage \/ Unreadable \/ EnqueuePages \/ SaveRefreshed \/ PageRead \/ LastPage
  \/ CleanCollection \/ SaveCleaned \/ RetryMissing
  \/ FirstCopies \/ NextCopies \/ DeleteRecord
  \/ LoadUser \/ SaveFolders

LoginStep == GenerateToken \/ NewUserRefresh \/ SaveLogin \/ LoginFails
ValidatorStep == ValidateName \/ ValidateCollection \/ SaveValidated

Next ==
  \/ WorkerStep \/ LoginStep \/ ValidatorStep
  \/ FailPage \/ RateLimit \/ Requeue \/ Bury
  \/ UpgradeUser \/ MissIntent
  \/ \E r \in Record : ScoreIntent(r)
  \/ AddRecord \/ \E s \in saves : SaveRecord(s) \/ LoseRecord(s)
  \/ Add \/ \E r \in Record : Remove(r)
  \/ Ripen \/ WeekPasses

Spec == Init /\ [][Next]_vars

(* The worker and the validator keep running, a login that began ends, and   *)
(* time passes.                                                              *)
FairSpec ==
  /\ Spec
  /\ WF_vars(WorkerStep) /\ WF_vars(ValidatorStep)
  /\ WF_vars(NewUserRefresh \/ SaveLogin) /\ WF_vars(Ripen) /\ WF_vars(WeekPasses)

----------------------------------------------------------------------------
(* Properties.                                                               *)

TypeOK ==
  /\ user \in StoredUser \cup {None}
  /\ records \in [Record -> 0 .. MaxRounds \cup {None}]
  /\ shop \subseteq Record /\ added \in 0 .. MaxRecords
  /\ queue \in [Priority -> Seq(Element)]
  /\ \A e \in Present : e.kind = "page" /\ e.n # 1 => e.id \in Begun
  /\ work \in [pc : {"idle", "page", "delete", "read", "fresh", "last", "clean", "cleaned",
                     "check", "user", "folders"},
               entry : Element \cup {None}, user : StoredUser \cup {None},
               id : Nat, pages : Nat, found : Nat, page : Nat]
  /\ login \in [pc : {"idle", "token", "queued"}, user : StoredUser \cup {None}]
  /\ validator \in [pc : {"idle", "collection", "sales"}, user : StoredUser \cup {None}]
  /\ saves \subseteq [r : Record, stamp : 0 .. MaxRounds]
  /\ rounds \in [Round -> [listed : SUBSET Record, sound : BOOLEAN]]
  /\ undone \subseteq Record
  /\ steady \in BOOLEAN
  /\ ids \in 0 .. MaxRounds
  /\ mishaps \in 0 .. MaxMishaps

(* However pages of the refresh are lost, retried, shifted or read by two    *)
(* rounds at once, and whatever stamps the API server takes back, no record  *)
(* that Discogs still has is deleted, unless copies of its release came or   *)
(* went while the check read them.                                           *)
DeletesOnlyRemoved ==
  [][\A r \in Record : records[r] # None /\ records'[r] = None
                        => r \notin shop \/ ~steady]_vars

(* When a round none of whose pages was lost, retried or shifted cleans the  *)
(* collection, every record listed when it began is stored and stays, save   *)
(* those whose stamp the API server or a disturbed check took away since,    *)
(* and whatever Discogs no longer has is to be deleted, records the API      *)
(* server brought back included; other rounds may have run in between.       *)
Cleans == work.pc = "clean" /\ work'.pc = "cleaned"
Deleting == {e.n : e \in {f \in Waiting : f.kind = "delete"}}
RefreshMirrorsCollection ==
  [][Cleans /\ rounds[work.id].sound =>
       /\ rounds[work.id].listed \ undone \subseteq Stored \ (Deleting' \ Deleting)
       /\ mishaps' = mishaps => Stored \ shop \subseteq Deleting']_vars

(* A new user reaches the waitlist, although the first refresh may run       *)
(* before the login is complete, pages may fail, and others write stale      *)
(* copies of the user back; unless the rounds of the model are used up.      *)
Exhausted == ids = MaxRounds /\ FirstPagePresent
Waitlisted == user # None /\ user.state \in {"IN_WAITLIST", "LIVE"}
ImportEnds == user # None ~> Waitlisted \/ Exhausted

(* The refresh is retried only for records that are missing. *)
RetryOnlyMissing ==
  [][work.pc = "cleaned" /\ work'.pc = "idle" /\ queue' # queue => ~(shop \subseteq Stored)]_vars
=============================================================================
