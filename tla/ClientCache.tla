----------------------------- MODULE ClientCache -----------------------------
(***************************************************************************)
(* The cache file of the two client programs, ~/.gramophile_cache          *)
(* (cmd/gramophile/cache.go with its use in tui.go, and gram/cache.go).    *)
(*                                                                         *)
(* The terminal keeps the collection in it, for a week, and gram the       *)
(* names of records.  Both programs write the whole file, each in a format *)
(* of its own that leaves the other's fields alone as unknown ones: what a *)
(* program read of the other's part it writes back.                        *)
(*                                                                         *)
(* The terminal saves from two goroutines, the one that synchronizes the   *)
(* collection and the one of the screen, through one temporary file; gram  *)
(* saves under a mutex through a temporary file of its own.  Time passes   *)
(* in weeks, after which what is cached is out of date.                    *)
(***************************************************************************)
EXTENDS Integers, FiniteSets

CONSTANTS
  Records,  \* the records there may be in the collection
  Keys,     \* the instances and releases gram looks up
  Callers,  \* its goroutines
  WorkerPoolLimit,
  Attempts, \* retryBackoffs
  MaxCacheMove \* bound: lookups, faults, kills, changes of the collection and weeks

ASSUME CacheAssumption == {Attempts, MaxCacheMove} \subseteq Nat /\ Attempts > 0

Weeks == 0 .. MaxCacheMove
Stamp == -1 .. MaxCacheMove \* -1: never
CachedRecord == Records
CollectionCache == [records : SUBSET CachedRecord, synced : Stamp]
RecordCacheEntry == Stamp
RecordCache == [Keys -> RecordCacheEntry]
Content == [collection : CollectionCache, names : RecordCache]
Nothing == [collection |-> [records |-> {}, synced |-> -1], names |-> [k \in Keys |-> -1]]

Inodes == 1 .. 4
Inode == [state : {"empty", "whole", "mixed"}, content : Content]
Savers == {"screen", "sync"}
CacheStatus == {"uninitialized", "ready", "syncing", "stale", "rebuilding"}
Idle == [at |-> "idle", content |-> Nothing, inode |-> 0]
NoFlight == [at |-> "none", tries |-> 0, content |-> Nothing]

VARIABLES
  week,       \* the time
  collection, \* the week each record was added to the collection, -1 for those not in it
  disk,       \* the files, and what the two names stand for (0: no such file)
  cm,         \* what the CacheManager of the terminal holds, and its status
  index,      \* the collection the screen searches
  started,    \* the week the terminal was started, -1 when it is not running
  syncing,    \* the collection on its way to the terminal
  priority,   \* a single record on its way to the terminal
  saver,      \* the saves of the terminal
  names,      \* what the RecordCacheManager of gram holds
  flight,     \* its refreshes
  caller,     \* the key each goroutine waits for
  cacheMoves  \* bound: the moves so far

terminal == <<cm, index, started, syncing, priority, saver>>
lookups == <<names, flight, caller>>
cacheVars == <<week, collection, disk, cm, index, started, syncing, priority, saver, names, flight, caller, cacheMoves>>

NoCaller == [key |-> "none", at |-> "idle"]
NoSync == [at |-> "none", records |-> {}]
NoRecord == "none"
NotStarted == [content |-> Nothing, status |-> "uninitialized"]
NoSaves == [s \in Savers |-> Idle]
CacheInit ==
  /\ week = 0 /\ collection \in {[r \in Records |-> IF r \in rs THEN 0 ELSE -1] : rs \in SUBSET Records \ {{}}}
  /\ disk = [file |-> 0, tmp |-> 0, data |-> [i \in Inodes |-> [state |-> "empty", content |-> Nothing]]]
  /\ cm = NotStarted /\ index = {} /\ started = -1 /\ syncing = NoSync /\ priority = NoRecord /\ saver = NoSaves
  /\ names = Nothing /\ flight = [k \in Keys |-> NoFlight] /\ caller = [c \in Callers |-> NoCaller]
  /\ cacheMoves = 0

CacheMove == cacheMoves < MaxCacheMove /\ cacheMoves' = cacheMoves + 1
InCollection == {r \in Records : collection[r] >= 0}
IsFresh(stamp) == stamp >= 0 /\ week - stamp < 1
Free == CHOOSE i \in Inodes : i \notin {disk.file, disk.tmp} \cup {saver[s].inode : s \in Savers}
----------------------------------------------------------------------------
(* The terminal *)

(* What may be read: a file two saves wrote to is that of the later, with    *)
(* the end of the other behind it.                                           *)
Readings ==
  IF disk.file = 0 THEN {[content |-> Nothing, status |-> "uninitialized"]}
  ELSE LET inode == disk.data[disk.file]
       IN CASE inode.state = "whole" -> {[content |-> inode.content, status |-> "ready"]}
            [] inode.state = "empty" -> {[content |-> Nothing, status |-> "ready"]}
            [] inode.state = "mixed" -> {[content |-> inode.content, status |-> "ready"],
                                         [content |-> Nothing, status |-> "rebuilding"]}

(* Mutant: a collection does not go out of date.                            *)
IsNeverExpired(content) == content.collection.synced < 0
IsExpired(content) == ~IsFresh(content.collection.synced)
LoadFromDisk ==
  \E r \in Readings :
    LET usable == r.content.collection.records # {} /\ r.status # "rebuilding" /\ ~IsExpired(r.content)
    IN /\ cm' = [r EXCEPT !.status = IF usable THEN "ready" ELSE "syncing"]
       /\ index' = r.content.collection.records
       /\ syncing' = IF usable THEN NoSync ELSE [at |-> "asked", records |-> {}]

(* The program is started, and whatever ran of it before was killed. *)
StartTerminal ==
  /\ CacheMove
  /\ LoadFromDisk
  /\ started' = week /\ priority' = NoRecord /\ saver' = NoSaves
  /\ UNCHANGED <<week, collection, disk, names, flight, caller>>

GetAllRecords ==
  /\ syncing.at = "asked"
  /\ syncing' = [at |-> "answered", records |-> InCollection]
  /\ UNCHANGED <<week, collection, disk, cm, index, started, priority, saver, names, flight, caller, cacheMoves>>
(* Mutant: the status stays "syncing" when the call fails.                  *)
FailSilently ==
  /\ CacheMove
  /\ syncing.at = "asked"
  /\ syncing' = NoSync
  /\ UNCHANGED <<week, collection, disk, cm, index, started, priority, saver, names, flight, caller>>
FailGetAllRecords ==
  /\ CacheMove
  /\ syncing.at = "asked"
  /\ cm' = [cm EXCEPT !.status = "stale"]
  /\ syncing' = NoSync
  /\ UNCHANGED <<week, collection, disk, index, started, priority, saver, names, flight, caller>>

Marshal(s, content) == saver' = [saver EXCEPT ![s] = [at |-> "marshalled", content |-> content, inode |-> 0]]

Populate ==
  LET content == [Nothing EXCEPT !.collection = [records |-> syncing.records, synced |-> week]]
  IN /\ syncing.at = "answered" /\ saver["sync"].at = "idle"
     /\ cm' = [content |-> content, status |-> "ready"]
     /\ syncing' = [syncing EXCEPT !.at = "saving"]
     /\ Marshal("sync", content)
     /\ UNCHANGED <<week, collection, disk, index, started, priority, names, flight, caller, cacheMoves>>

(* Update waits while the screen's own save is under way.  No records are    *)
(* taken for no answer: the index stays.                                     *)
ReceiveCacheSyncStatus ==
  /\ syncing.at = "saving" /\ saver["sync"].at = "idle" /\ saver["screen"].at = "idle"
  /\ cm' = [cm EXCEPT !.status = "ready"]
  /\ index' = IF syncing.records = {} THEN index ELSE syncing.records
  /\ syncing' = NoSync
  /\ UNCHANGED <<week, collection, disk, started, priority, saver, names, flight, caller, cacheMoves>>

(* The user asks for a record that the index does not have. *)
FetchPriorityRecord(r) ==
  /\ CacheMove
  /\ started >= 0 /\ priority = NoRecord
  /\ r \in InCollection \ (index \cup cm.content.collection.records)
  /\ priority' = r
  /\ UNCHANGED <<week, collection, disk, cm, index, started, syncing, saver, names, flight, caller>>

Upserted(r) == [cm.content EXCEPT !.collection.records = @ \cup {r}]
UpsertRecord ==
  /\ priority # NoRecord /\ saver["screen"].at = "idle"
  /\ cm' = [cm EXCEPT !.content = Upserted(priority)]
  /\ index' = index \cup {priority}
  /\ priority' = NoRecord
  /\ Marshal("screen", Upserted(priority))
  /\ UNCHANGED <<week, collection, disk, started, syncing, names, flight, caller, cacheMoves>>

(* SaveToDisk: os.WriteFile empties the temporary file, then writes it.      *)
OpenTmp(s) ==
  LET i == IF disk.tmp = 0 THEN Free ELSE disk.tmp
  IN /\ saver[s].at = "marshalled"
     /\ disk' = [disk EXCEPT !.tmp = i, !.data[i].state = "empty"]
     /\ saver' = [saver EXCEPT ![s].at = "opened", ![s].inode = i]
     /\ UNCHANGED <<week, collection, cm, index, started, syncing, priority, names, flight, caller, cacheMoves>>
WriteTmp(s) ==
  LET i == saver[s].inode
      whole == disk.data[i].state = "empty" \/ disk.data[i].content = saver[s].content
  IN /\ saver[s].at = "opened"
     /\ disk' = [disk EXCEPT !.data[i] = [state |-> IF whole THEN "whole" ELSE "mixed",
                                          content |-> saver[s].content]]
     /\ saver' = [saver EXCEPT ![s].at = "written"]
     /\ UNCHANGED <<week, collection, cm, index, started, syncing, priority, names, flight, caller, cacheMoves>>
(* Without a temporary file, the other save took it, chmod fails.            *)
RenameTmp(s) ==
  /\ saver[s].at = "written"
  /\ IF disk.tmp = 0 THEN saver' = [saver EXCEPT ![s].at = "failed"] /\ UNCHANGED disk
     ELSE saver' = [saver EXCEPT ![s] = Idle] /\ disk' = [disk EXCEPT !.file = disk.tmp, !.tmp = 0]
  /\ UNCHANGED <<week, collection, cm, index, started, syncing, priority, names, flight, caller, cacheMoves>>
FailRenameTmp(s) ==
  /\ CacheMove
  /\ saver[s].at = "written"
  /\ saver' = [saver EXCEPT ![s].at = "failed"]
  /\ UNCHANGED <<week, collection, disk, cm, index, started, syncing, priority, names, flight, caller>>
(* What is there by then, be it the other save's.                            *)
RemoveTmp(s) ==
  /\ saver[s].at = "failed"
  /\ disk' = [disk EXCEPT !.tmp = 0]
  /\ saver' = [saver EXCEPT ![s] = Idle]
  /\ UNCHANGED <<week, collection, cm, index, started, syncing, priority, names, flight, caller, cacheMoves>>

----------------------------------------------------------------------------
(* gram *)
NewRecordCacheManager ==
  \E r \in Readings : names' = r.content

(* A goroutine that finds no fresh name goes for the refresh, in the         *)
(* background when an old name will do.                                      *)
Resolve(c, k) ==
  /\ CacheMove
  /\ caller[c] = NoCaller /\ ~IsFresh(names.names[k])
  /\ caller' = [caller EXCEPT ![c] = [key |-> k, at |-> "missed"]]
  /\ UNCHANGED <<week, collection, disk, terminal, names, flight>>

Step(k, at) == flight' = [flight EXCEPT ![k].at = at]
Land(k) ==
  /\ flight' = [flight EXCEPT ![k] = NoFlight]
  /\ caller' = [c \in Callers |-> IF caller[c] = [key |-> k, at |-> "waiting"] THEN NoCaller ELSE caller[c]]

(* singleflight: one refresh at a time for each key, which looks again first. *)
Join(c) ==
  LET k == caller[c].key
  IN /\ caller[c].at = "missed"
     /\ IF flight[k].at = "none" /\ IsFresh(names.names[k])
        THEN caller' = [caller EXCEPT ![c] = NoCaller] /\ UNCHANGED flight
        ELSE /\ caller' = [caller EXCEPT ![c].at = "waiting"]
             /\ flight' = IF flight[k].at = "none" THEN [flight EXCEPT ![k].at = "queued"] ELSE flight
     /\ UNCHANGED <<week, collection, disk, terminal, names, cacheMoves>>

Working == {k \in Keys : flight[k].at \in {"fetching", "stored", "saving"}}
AcquireWorker(k) ==
  /\ flight[k].at = "queued" /\ Cardinality(Working) < WorkerPoolLimit
  /\ Step(k, "fetching")
  /\ UNCHANGED <<week, collection, disk, terminal, names, caller, cacheMoves>>

GetRecord(k) ==
  /\ flight[k].at = "fetching"
  /\ names' = [names EXCEPT !.names[k] = week]
  /\ Step(k, "stored")
  /\ UNCHANGED <<week, collection, disk, terminal, caller, cacheMoves>>
(* The last failure makes the answer "[Unresolved]". *)
FailGetRecord(k) ==
  /\ CacheMove
  /\ flight[k].at = "fetching"
  /\ IF flight[k].tries + 1 = Attempts THEN Land(k)
     ELSE flight' = [flight EXCEPT ![k].tries = @ + 1] /\ UNCHANGED caller
  /\ UNCHANGED <<week, collection, disk, terminal, names>>

(* Mutant: two goroutines save at a time.                                   *)
SaveUnlocked(k) ==
  /\ flight[k].at = "stored"
  /\ flight' = [flight EXCEPT ![k] = [@ EXCEPT !.at = "saving", !.content = names]]
  /\ UNCHANGED <<week, collection, disk, terminal, names, caller, cacheMoves>>
Save(k) ==
  /\ flight[k].at = "stored" /\ \A j \in Keys : flight[j].at # "saving"
  /\ flight' = [flight EXCEPT ![k] = [@ EXCEPT !.at = "saving", !.content = names]]
  /\ UNCHANGED <<week, collection, disk, terminal, names, caller, cacheMoves>>
RenameNames(k) ==
  /\ flight[k].at = "saving"
  /\ disk' = [disk EXCEPT !.file = Free, !.data[Free] = [state |-> "whole", content |-> flight[k].content]]
  /\ Land(k)
  /\ UNCHANGED <<week, collection, terminal, names, cacheMoves>>

(* The error of a save is not looked at.                                     *)
FailSave(k) ==
  /\ CacheMove
  /\ flight[k].at = "saving"
  /\ Land(k)
  /\ UNCHANGED <<week, collection, disk, terminal, names>>

(* gram ends, with the refreshes it has not finished, and is started again.  *)
Restart ==
  /\ CacheMove
  /\ NewRecordCacheManager
  /\ flight' = [k \in Keys |-> NoFlight] /\ caller' = [c \in Callers |-> NoCaller]
  /\ UNCHANGED <<week, collection, disk, terminal>>
----------------------------------------------------------------------------
ChangeCollection(r) ==
  /\ CacheMove
  /\ collection' = [collection EXCEPT ![r] = IF @ < 0 THEN week ELSE -1]
  /\ UNCHANGED <<week, disk, terminal, lookups>>
(* A synchronization takes a minute at most. *)
NextWeek ==
  /\ CacheMove
  /\ syncing = NoSync /\ saver = NoSaves
  /\ week' = week + 1
  /\ UNCHANGED <<collection, disk, terminal, lookups>>

Saving == \E s \in Savers : OpenTmp(s) \/ WriteTmp(s) \/ RenameTmp(s) \/ RemoveTmp(s)
Screen == GetAllRecords \/ Populate \/ ReceiveCacheSyncStatus \/ UpsertRecord \/ Saving
Refreshing(k) ==
  \/ \E c \in Callers : caller[c].key = k /\ Join(c)
  \/ AcquireWorker(k) \/ GetRecord(k) \/ Save(k) \/ RenameNames(k)

CacheNext ==
  \/ StartTerminal \/ Screen \/ FailGetAllRecords \/ NextWeek \/ Restart
  \/ \E r \in Records : FetchPriorityRecord(r) \/ ChangeCollection(r)
  \/ \E s \in Savers : FailRenameTmp(s)
  \/ \E k \in Keys : Refreshing(k) \/ FailGetRecord(k) \/ FailSave(k) \/ \E c \in Callers : Resolve(c, k)

CacheSpec == CacheInit /\ [][CacheNext]_cacheVars
----------------------------------------------------------------------------
CacheTypeOK ==
  /\ week \in Weeks /\ collection \in [Records -> Stamp] /\ cacheMoves \in 0 .. MaxCacheMove
  /\ disk \in [file : 0 .. 4, tmp : 0 .. 4, data : [Inodes -> Inode]]
  /\ cm \in [content : Content, status : CacheStatus]
  /\ index \subseteq Records /\ started \in Stamp
  /\ syncing \in [at : {"none", "asked", "answered", "saving"}, records : SUBSET Records]
  /\ priority \in Records \cup {NoRecord}
  /\ saver \in [Savers -> [at : {"idle", "marshalled", "opened", "written", "failed"}, content : Content, inode : 0 .. 4]]
  /\ names \in Content /\ caller \in [Callers -> {NoCaller} \cup [key : Keys, at : {"missed", "waiting"}]]
  /\ flight \in [Keys -> [at : {"none", "queued", "fetching", "stored", "saving"},
                          tries : 0 .. Attempts - 1, content : Content]]

(* A terminal that says it is ready has every record that was already in the *)
(* collection a week before it was started, whichever program wrote the file *)
(* last and however the saves crossed.                                       *)
NothingMissing ==
  started >= 0 /\ cm.status = "ready" /\ syncing = NoSync =>
    \A r \in InCollection : collection[r] < started => r \in index

(* A name whose refresh has ended is in whatever gram saves afterwards, one  *)
(* goroutine's save does not put back what another's had replaced.           *)
SavesForward ==
  [][\A k, j \in Keys : RenameNames(k) /\ flight[j].at = "none" =>
       disk'.data[disk'.file].content.names[j] >= names.names[j]]_cacheVars

(* Every goroutine of gram gets an answer, though one fetch may serve many   *)
(* and the workers are few, and a terminal finds out whether its collection  *)
(* is there: the cache comes to a point where nobody waits for it.           *)
CacheWaits ==
  \/ \E c \in Callers : caller[c] # NoCaller
  \/ started >= 0 /\ cm.status \notin {"ready", "stale"}
=============================================================================
