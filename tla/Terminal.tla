------------------------------ MODULE Terminal ------------------------------
(***************************************************************************)
(* The views of the terminal (cmd/gramophile/tui.go): the organisation     *)
(* view, the search of the collection and the view of what was located,    *)
(* with the calls of the server they make (server/org.go, locate.go,       *)
(* getrecord.go).                                                          *)
(*                                                                         *)
(* Every call is a command with a goroutine of its own.  The server's      *)
(* answer may be out of date on arrival, and it is                         *)
(* taken by the view the user is in by then, which may be another one, or  *)
(* the same one opened anew.  Which command an answer belongs to is not    *)
(* looked at.                                                              *)
(*                                                                         *)
(* A list of releases is the set of them, shown in order, and a search is  *)
(* what its words match; a number may match a release none of them does.   *)
(***************************************************************************)
EXTENDS Integers, FiniteSets, FiniteSetsExt

CONSTANTS
  Copies,    \* instance ids
  ReleaseOf, \* the release of each copy
  Orgs,
  Shelved,   \* where the copies stand at first
  Queries,   \* what may be typed: [title, id], the releases matched and the number, 0 for none
  Rows,      \* the rows of the search window, 10 in the code
  MaxTerminalMove \* bound: commands, faults and changes on the server

Gone == "gone" \* the place of a copy that is not in the collection

ASSUME TerminalAssumption ==
  /\ Copies \subseteq Nat \ {0} /\ IsFiniteSet(Copies) /\ ReleaseOf \in [Copies -> Nat \ {0}] /\ Rows \in Nat \ {0}
  /\ Shelved \in [Copies -> Orgs \cup {Gone}] /\ MaxTerminalMove \in Nat
  /\ Queries \subseteq [title : SUBSET Nat, id : Nat]

Release == {ReleaseOf[c] : c \in Copies}
ViewState == {"main", "org", "search", "versions", "locate"}
Unread == {}     \* no answer yet: "Loading location..."
OrganisationSnapshot == SUBSET Copies
GetOrgRequest == [kind : {"org"}, of : Orgs, id : 1 .. MaxTerminalMove]
LocateRecordRequest == [kind : {"locate"}, of : Release \cup {q.id : q \in Queries}, id : 1 .. MaxTerminalMove]
GetRecordWithId == [kind : {"record"}, of : Copies, id : 1 .. MaxTerminalMove]
GetRecordRequest == [kind : {"collection"}, of : {0}, id : 1 .. MaxTerminalMove]
RecordResponse == Copies
GetRecordResponse == SUBSET RecordResponse
Location == Orgs \X Copies
LocateRecordResponse == SUBSET Location
GetOrgResponse == OrganisationSnapshot
(* Answers on their way, a refused location is an empty one.                 *)
OrgFetched == [kind : {"organisation"}, of : GetOrgResponse, id : 1 .. MaxTerminalMove]
LocateFetched == [kind : {"location"}, of : LocateRecordResponse, id : 1 .. MaxTerminalMove]
Calls == GetOrgRequest \cup LocateRecordRequest \cup GetRecordWithId \cup GetRecordRequest \cup OrgFetched \cup LocateFetched
Typed == Queries \cup {[title |-> Release, id |-> 0]}

VARIABLES
  shelf,      \* the organisation each copy stands in by now
  snapshots,  \* the latest snapshot of each organisation
  view,       \* the state of the program
  failed,     \* inlineErrMsg
  placements, \* orgPlacements
  resolved,   \* the keys of resolvedRecords
  located,    \* what locateViewport shows, Unread while it says that it loads
  have,       \* collectionIndex
  loading,    \* collectionLoading
  query,      \* what is typed
  filteredReleases,
  filteredLocateRecords,
  cursor,     \* locateSearchCursor
  offset,     \* locateViewportOffset
  choice,     \* activeReleaseChoice and versionSelectCursor
  calls,      \* the commands under way
  terminalMoves \* bound: the moves so far

org == <<placements, resolved>>
search == <<have, loading, query, filteredReleases, filteredLocateRecords, cursor, offset>>
stored == <<shelf, snapshots>>
terminalVars == <<shelf, snapshots, view, failed, placements, resolved, located, have, loading, query,
                  filteredReleases, filteredLocateRecords, cursor, offset, choice, calls, terminalMoves>>

NoChoice == [records |-> {}, cursor |-> 0]
AnyTitle == [title |-> Release, id |-> 0]
TerminalInit ==
  /\ shelf = Shelved /\ snapshots = [o \in Orgs |-> {}]
  /\ view = "main" /\ failed = FALSE /\ placements = {} /\ resolved = {} /\ located = Unread
  /\ have = {} /\ loading = FALSE /\ query = AnyTitle
  /\ filteredReleases = {} /\ filteredLocateRecords = {} /\ cursor = 0 /\ offset = 0
  /\ choice = NoChoice /\ calls = {} /\ terminalMoves = 0

TerminalMove == terminalMoves < MaxTerminalMove /\ terminalMoves' = terminalMoves + 1
Collection == {c \in Copies : shelf[c] # Gone}
Nth(s, n) == CHOOSE x \in s : Cardinality({y \in s : y < x}) = n
----------------------------------------------------------------------------
(* Searching *)

Releases(copies) == {ReleaseOf[c] : c \in copies}
(* A copy stands for itself, a release that was typed and not found for a    *)
(* placeholder.                                                              *)
Placeholder(r) == -r
FilterRecords(copies, q) ==
  LET matched == {c \in copies : ReleaseOf[c] \in q.title \cup {q.id}}
  IN IF q.id = 0 \/ q.id \in Releases(matched) THEN matched ELSE matched \cup {Placeholder(q.id)}
(* Mutant: the cursor stays where it was.                                   *)
FilterKeepingCursor(copies, q) ==
  /\ filteredReleases' = Releases(copies) \cap q.title
  /\ filteredLocateRecords' = FilterRecords(copies, q)
  /\ UNCHANGED <<cursor, offset>>
FilterCollectionIndex(copies, q) ==
  /\ filteredReleases' = Releases(copies) \cap q.title
  /\ filteredLocateRecords' = FilterRecords(copies, q)
  /\ cursor' = 0 /\ offset' = 0

Shown == IF filteredReleases # {} THEN filteredReleases ELSE filteredLocateRecords
(* clampLocateViewportOffset *)
Clamp(cur, off) ==
  LET low == IF cur > off + Rows - 1 THEN cur - (Rows - 1) ELSE off
      high == IF cur < low THEN cur ELSE low
      last == Max({0, Cardinality(Shown) - Rows})
  IN Min({high, last})

(* Mutant: the cursor leaves the list at the top.                           *)
CursorUpUnguarded ==
  /\ view = "search"
  /\ cursor' = cursor - 1
  /\ offset' = Clamp(cursor', IF cursor' < offset THEN offset - 1 ELSE offset)
  /\ UNCHANGED <<stored, view, failed, org, located, have, loading, query, filteredReleases,
                 filteredLocateRecords, choice, calls, terminalMoves>>
CursorUp ==
  /\ view = "search"
  /\ cursor' = IF cursor > 0 THEN cursor - 1 ELSE cursor
  /\ offset' = Clamp(cursor', IF cursor' < offset THEN offset - 1 ELSE offset)
  /\ UNCHANGED <<stored, view, failed, org, located, have, loading, query, filteredReleases,
                 filteredLocateRecords, choice, calls, terminalMoves>>
CursorDown ==
  /\ view = "search"
  /\ cursor' = IF cursor < Cardinality(Shown) - 1 THEN cursor + 1 ELSE cursor
  /\ offset' = Clamp(cursor', IF cursor' > offset + Rows - 1 THEN offset + 1 ELSE offset)
  /\ UNCHANGED <<stored, view, failed, org, located, have, loading, query, filteredReleases,
                 filteredLocateRecords, choice, calls, terminalMoves>>

Type(q) ==
  /\ TerminalMove
  /\ view = "search" /\ q # query
  /\ query' = q
  /\ FilterCollectionIndex(have, q)
  /\ UNCHANGED <<stored, view, failed, org, located, have, loading, choice, calls>>

LeaveSearch ==
  /\ view = "search"
  /\ view' = "main" /\ query' = AnyTitle /\ cursor' = 0 /\ offset' = 0
  /\ filteredReleases' = Releases(have) /\ filteredLocateRecords' = have
  /\ UNCHANGED <<stored, failed, org, located, have, loading, choice, calls, terminalMoves>>

Call(kind, of) == calls' = calls \cup {[kind |-> kind, of |-> of, id |-> terminalMoves']}

FetchLocate(r) == view' = "locate" /\ located' = Unread /\ Call("locate", r)
(* A release with several copies has them chosen from, though it is the      *)
(* release that is then located.                                             *)
Enter ==
  /\ TerminalMove
  /\ view = "search" /\ Shown # {}
  /\ LET row == Nth(Shown, Min({cursor, Cardinality(Shown) - 1}))
         release == IF filteredReleases # {} THEN row ELSE IF row < 0 THEN -row ELSE ReleaseOf[row]
         copies == {c \in have : ReleaseOf[c] = release}
     IN IF filteredReleases # {} /\ Cardinality(copies) > 1
        THEN view' = "versions" /\ choice' = [records |-> copies, cursor |-> 0] /\ UNCHANGED <<located, calls>>
        ELSE FetchLocate(release) /\ UNCHANGED choice
  /\ UNCHANGED <<stored, failed, org, search>>

MoveVersion(n) ==
  /\ view = "versions"
  /\ n \in 0 .. Cardinality(choice.records) - 1 /\ n - choice.cursor \in {-1, 1}
  /\ choice' = [choice EXCEPT !.cursor = n]
  /\ UNCHANGED <<stored, view, failed, org, located, search, calls, terminalMoves>>
EnterVersion ==
  /\ TerminalMove
  /\ view = "versions"
  /\ FetchLocate(ReleaseOf[Nth(choice.records, choice.cursor)])
  /\ UNCHANGED <<stored, failed, org, search, choice>>
LeaveVersions ==
  /\ view = "versions"
  /\ view' = "search"
  /\ UNCHANGED <<stored, failed, org, located, search, choice, calls, terminalMoves>>
----------------------------------------------------------------------------
(* Commands (handleCommandInput) *)
OpenOrg(o) ==
  /\ TerminalMove
  /\ view = "main"
  /\ view' = "org" /\ failed' = FALSE /\ placements' = {} /\ resolved' = {}
  /\ Call("org", o)
  /\ UNCHANGED <<stored, located, search, choice>>
OpenLocate(r) ==
  /\ TerminalMove
  /\ view = "main"
  /\ view' = "locate" /\ failed' = FALSE /\ located' = Unread
  /\ Call("locate", r)
  /\ UNCHANGED <<stored, org, search, choice>>
OpenSearch ==
  /\ TerminalMove
  /\ view = "main"
  /\ view' = "search" /\ failed' = FALSE /\ query' = AnyTitle /\ cursor' = 0 /\ offset' = 0
  /\ IF have = {} /\ ~loading
     THEN loading' = TRUE /\ Call("collection", 0) /\ UNCHANGED <<filteredReleases, filteredLocateRecords>>
     ELSE /\ filteredReleases' = Releases(have) /\ filteredLocateRecords' = have
          /\ UNCHANGED <<loading, calls>>
  /\ UNCHANGED <<stored, org, located, have, choice>>
Leave ==
  /\ view \in {"org", "locate"}
  /\ view' = "main"
  /\ UNCHANGED <<stored, failed, org, located, search, choice, calls, terminalMoves>>
----------------------------------------------------------------------------
(* Answers *)
Arrives(c) == c \in calls /\ calls' = calls \ {c}
Answered(c, kind, of) ==
  c \in calls /\ calls' = (calls \ {c}) \cup {[kind |-> kind, of |-> of, id |-> c.id]}

(* GetOrg builds the snapshot anew and saves it.                             *)
BuildSnapshot(o) == {c \in Copies : shelf[c] = o}
GetOrg(c) ==
  /\ c.kind = "org" /\ Answered(c, "organisation", BuildSnapshot(c.of))
  /\ snapshots' = [snapshots EXCEPT ![c.of] = BuildSnapshot(c.of)]
  /\ UNCHANGED <<shelf, view, failed, org, located, search, choice, terminalMoves>>
ReceiveOrg(c) ==
  /\ c.kind = "organisation" /\ c \in calls
  /\ IF view = "org"
     THEN /\ placements' = c.of /\ resolved' = {}
          /\ calls' = (calls \ {c}) \cup {[kind |-> "record", of |-> p, id |-> c.id] : p \in c.of}
     ELSE calls' = calls \ {c} /\ UNCHANGED org
  /\ UNCHANGED <<stored, view, failed, located, search, choice, terminalMoves>>
(* A call fails, or its answer is lost.                                      *)
FailCall(c) ==
  /\ TerminalMove
  /\ c.kind \in {"org", "organisation", "locate", "location"} /\ Arrives(c)
  /\ failed' = (failed \/ view = IF c.kind \in {"org", "organisation"} THEN "org" ELSE "locate")
  /\ UNCHANGED <<stored, view, org, located, search, choice>>

(* Mutant: a record that is not answered is waited for.                     *)
ReceiveOnlyRecords(c, ok) ==
  /\ c.kind = "record" /\ Arrives(c)
  /\ resolved' = IF view = "org" /\ ok THEN resolved \cup {c.of} ELSE resolved
  /\ UNCHANGED <<stored, view, failed, placements, located, search, choice, terminalMoves>>
(* A record that is not answered counts as an empty one.                     *)
ReceiveRecord(c, ok) ==
  /\ c.kind = "record" /\ Arrives(c)
  /\ resolved' = IF view = "org" THEN resolved \cup {c.of} ELSE resolved
  /\ UNCHANGED <<stored, view, failed, placements, located, search, choice, terminalMoves>>
ResolveRecord(c) == ReceiveRecord(c, c.of \in Collection)

(* A release that is in no snapshot is refused as much as one that is not in *)
(* the collection.                                                           *)
LocateRecord(c) ==
  LET places == {l \in Location : l[2] \in snapshots[l[1]] /\ ReleaseOf[l[2]] = c.of}
      ok == places # {} /\ c.of \in Releases(Collection)
  IN /\ c.kind = "locate" /\ Answered(c, "location", IF ok THEN places ELSE {})
     /\ UNCHANGED <<stored, view, failed, org, located, search, choice, terminalMoves>>
ReceiveLocation(c) ==
  /\ c.kind = "location" /\ Arrives(c)
  /\ located' = IF view = "locate" /\ c.of # {} THEN c.of ELSE located
  /\ failed' = IF view = "locate" THEN c.of = {} ELSE failed
  /\ UNCHANGED <<stored, view, org, search, choice, terminalMoves>>

ReceiveCollection(c) ==
  /\ c.kind = "collection" /\ Arrives(c)
  /\ loading' = FALSE /\ have' = Collection
  /\ FilterCollectionIndex(Collection, query)
  /\ UNCHANGED <<stored, view, failed, org, located, query, choice, terminalMoves>>
FailCollection(c) ==
  /\ TerminalMove
  /\ c.kind = "collection" /\ Arrives(c)
  /\ loading' = FALSE
  /\ UNCHANGED <<stored, view, failed, org, located, have, query, filteredReleases, filteredLocateRecords,
                 cursor, offset, choice>>

(* The cache has synchronized, whatever the user is doing (ClientCache).     *)
ReceiveSynced ==
  /\ TerminalMove
  /\ have' = Collection
  /\ FilterCollectionIndex(Collection, query)
  /\ UNCHANGED <<stored, view, failed, org, located, loading, query, choice, calls>>

(* A copy is moved, added or taken away.                                     *)
Reshelve(c, place) ==
  /\ TerminalMove
  /\ shelf[c] # place
  /\ shelf' = [shelf EXCEPT ![c] = place]
  /\ UNCHANGED <<snapshots, view, failed, org, located, search, choice, calls>>

Receive(c) ==
  GetOrg(c) \/ ReceiveOrg(c) \/ ResolveRecord(c) \/ LocateRecord(c) \/ ReceiveLocation(c) \/ ReceiveCollection(c)
TerminalNext ==
  \/ \E c \in calls : Receive(c) \/ FailCall(c) \/ FailCollection(c)
  \/ \E q \in Typed : Type(q)
  \/ \E o \in Orgs : OpenOrg(o)
  \/ \E r \in Release : OpenLocate(r)
  \/ \E n \in 0 .. Cardinality(Copies) : MoveVersion(n)
  \/ \E c \in Copies, place \in Orgs \cup {Gone} : Reshelve(c, place)
  \/ CursorUp \/ CursorDown \/ LeaveSearch \/ Enter \/ EnterVersion \/ LeaveVersions
  \/ OpenSearch \/ Leave \/ ReceiveSynced

TerminalSpec == TerminalInit /\ [][TerminalNext]_terminalVars
----------------------------------------------------------------------------
TerminalTypeOK ==
  /\ shelf \in [Copies -> Orgs \cup {Gone}] /\ snapshots \in [Orgs -> OrganisationSnapshot]
  /\ view \in ViewState /\ failed \in BOOLEAN /\ loading \in BOOLEAN
  /\ placements \in GetOrgResponse /\ resolved \subseteq Copies /\ located \in LocateRecordResponse
  /\ have \in GetRecordResponse /\ query \in Typed
  /\ filteredReleases \subseteq Release
  /\ filteredLocateRecords \subseteq Copies \cup {Placeholder(q.id) : q \in Queries}
  /\ cursor \in Nat /\ offset \in Nat
  /\ choice \in [records : SUBSET Copies, cursor : Nat] /\ calls \subseteq Calls
  /\ terminalMoves \in 0 .. MaxTerminalMove

(* The row the cursor is on is a row of the list and of the window, and the  *)
(* window is as full as the list allows, though the list may be replaced     *)
(* under the cursor at any time.                                             *)
WindowShowsCursor ==
  view = "search" =>
    /\ cursor < Max({1, Cardinality(Shown)})
    /\ offset <= cursor /\ cursor < offset + Rows
    /\ offset + Rows <= Max({Rows, Cardinality(Shown)})

(* The organisation view turns its spinner for a record it does not have,    *)
(* the view of a location waits for its answer or an error.                  *)
ViewWaits ==
  \/ view = "org" /\ ~(placements \subseteq resolved)
  \/ view = "locate" /\ located = Unread /\ ~failed
=============================================================================
