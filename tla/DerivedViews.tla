---------------------------- MODULE DerivedViews ----------------------------
(***************************************************************************)
(* The views the jobs worker derives from rooms into D1, the search index  *)
(* and the public room directory, and the gateway's queries, which check   *)
(* them against the RoomDOs.                                               *)
(*                                                                         *)
(* A committed event asks the jobs worker for derived work; the worker     *)
(* queues the event for the search index and then refreshes the room's     *)
(* directory entry.  Every refresh is two calls, a read of the object that *)
(* owns the data and a put into D1, and refreshes of one key by several    *)
(* requests and consumers interleave.                                      *)
(***************************************************************************)
EXTENDS Naturals, Sequences, FiniteSets

CONSTANTS
  Rooms,        \* public rooms
  Workers,      \* requests and consumers of the jobs worker
  MaxPos,       \* bound: events of a room
  MaxEvents,    \* bound: events of all rooms
  MaxFailures,  \* bound: calls that fail
  None          \* no row

ASSUME BoundsAreNat == {MaxPos, MaxEvents, MaxFailures} \subseteq Nat

VARIABLES
  events,     \* RoomDO: per room, its events
  requests,   \* derived work asked for, not yet begun
  indexQueue, \* the search index queue
  workers,    \* the jobs worker: what its requests and consumers are doing
  rows,       \* D1: a row per key
  lost,       \* history: events whose work was given up
  failures,
  query,      \* a query of the gateway
  held        \* history: rooms that had the alias ever since it began

derived == <<requests, indexQueue, workers, rows, lost, failures>>
viewsVars == <<events, derived, query, held>>

EventKeys == Rooms \X (1..MaxPos)
Keys == EventKeys \cup Rooms
Kinds == {"message", "alias", "unalias", "redaction"}
Free == [todo |-> <<>>, held |-> None, message |-> None]
NoQuery == [kind |-> None]

ViewsInit ==
  /\ events = [r \in Rooms |-> <<>>]
  /\ requests = {} /\ indexQueue = {}
  /\ workers = [w \in Workers |-> Free]
  /\ rows = [k \in Keys |-> None]
  /\ lost = {}
  /\ failures = 0
  /\ query = NoQuery /\ held = {}

-----------------------------------------------------------------------------
(* What the objects answer *)

Positions(r, kinds) == {p \in DOMAIN events[r] : events[r][p].kind \in kinds}
LastOf(ps) == IF ps = {} THEN 0 ELSE CHOOSE p \in ps : \A q \in ps : q <= p
Redacted(r, p) == \E q \in DOMAIN events[r] : events[r][q].redacts = p

HasAlias(r) == LastOf(Positions(r, {"alias", "unalias"})) \in Positions(r, {"alias"})

\* buildRoomDirectoryProjection
RoomEntry(r) ==
  [serial |-> Len(events[r]), alias |-> HasAlias(r)]

\* buildSearchIndexProjection: a redacted event is projected without its text.
Projection(r, p) == [text |-> ~Redacted(r, p)]

Truth(k) ==
  IF k \in Rooms THEN RoomEntry(k) ELSE Projection(k[1], k[2])

-----------------------------------------------------------------------------
(* Changes of the truth *)

\* admitEvent commits the event; its last step asks for derived work.
Admit(r, kind, target) ==
  LET p == Len(events[r]) + 1
  IN /\ p <= MaxPos
     /\ Cardinality({k \in EventKeys : k[2] \in DOMAIN events[k[1]]}) < MaxEvents
     /\ IF kind = "redaction" THEN target \in Positions(r, {"message"}) ELSE target = 0
     /\ events' = [events EXCEPT ![r] = Append(@, [kind |-> kind, redacts |-> target])]
     /\ requests' = requests \cup {<<r, p>>}
     /\ held' = {q \in held : q # r \/ kind # "unalias"}
     /\ UNCHANGED <<indexQueue, workers, rows, lost, failures, query>>

-----------------------------------------------------------------------------
(* The jobs worker *)

\* The derived work of an event sends it to the queue, then refreshes the room.
Fetch(w, k) ==
  /\ k \in requests /\ workers[w] = Free
  /\ requests' = requests \ {k}
  /\ indexQueue' = indexQueue \cup {k}
  /\ workers' = [workers EXCEPT ![w].todo = <<k[1]>>]
  /\ UNCHANGED <<rows, lost, failures, events, query, held>>

\* The caller fails, or the request does before it sent the event: nobody
\* asks again.
Forget(k) ==
  /\ k \in requests /\ failures < MaxFailures
  /\ failures' = failures + 1
  /\ requests' = requests \ {k}
  /\ lost' = lost \cup {k}
  /\ UNCHANGED <<indexQueue, workers, rows, events, query, held>>

\* processSearchIndexMessage: the event, the event it redacts, the room.
Take(w, k) ==
  LET target == events[k[1]][k[2]].redacts
  IN /\ k \in indexQueue /\ workers[w] = Free
     /\ \A v \in Workers : workers[v].message # k
     /\ workers' = [workers EXCEPT ![w] =
          [todo |-> <<k>> \o (IF target = 0 THEN <<>> ELSE <<<<k[1], target>>>>) \o <<k[1]>>,
           held |-> None, message |-> k]]
     /\ UNCHANGED <<requests, indexQueue, rows, lost, failures, events, query, held>>

\* The answer is wrapped, so that an absent row can be told from no answer.
Read(w) ==
  /\ workers[w].todo # <<>> /\ workers[w].held = None
  /\ workers' = [workers EXCEPT ![w].held = <<Truth(Head(workers[w].todo))>>]
  /\ UNCHANGED <<requests, indexQueue, rows, lost, failures, events, query, held>>

\* A message is acknowledged when all is put.
Acked(w) == IF Len(workers[w].todo) = 1 /\ workers[w].message # None
            THEN {workers[w].message} ELSE {}

\* A put compares nothing with the row there is; an absent entry clears it.
Put(w) ==
  /\ workers[w].held # None
  /\ rows' = [rows EXCEPT ![Head(workers[w].todo)] = workers[w].held[1]]
  /\ workers' = [workers EXCEPT ![w] =
       IF Len(@.todo) = 1 THEN Free
       ELSE [todo |-> Tail(@.todo), held |-> None, message |-> @.message]]
  /\ indexQueue' = indexQueue \ Acked(w)
  /\ UNCHANGED <<requests, lost, failures, events, query, held>>

\* Mutant: a message is acknowledged whatever became of it.
DroppedAlways(w, retryable) == {workers[w].message} \ {None}
\* An error that is not marked retryable ends the message as well.
Dropped(w, retryable) == IF retryable THEN {} ELSE {workers[w].message} \ {None}

Fail(w, retryable) ==
  /\ workers[w] # Free /\ failures < MaxFailures
  /\ failures' = failures + 1
  /\ workers' = [workers EXCEPT ![w] = Free]
  /\ indexQueue' = indexQueue \ Dropped(w, retryable)
  /\ lost' = IF retryable THEN lost ELSE lost \cup Dropped(w, retryable)
  /\ UNCHANGED <<requests, rows, events, query, held>>

-----------------------------------------------------------------------------
(* Queries *)

Matching == {r \in Rooms : rows[r] # None /\ rows[r].alias}

Begin(q) ==
  /\ query = NoQuery
  /\ query' = q
  /\ held' = {r \in Rooms : HasAlias(r)}
  /\ UNCHANGED <<events, derived>>

Query(kind, keys, hit, row) ==
  [kind |-> kind, scan |-> FALSE, left |-> keys, hit |-> hit, row |-> row, answer |-> {}]
\* listRegisteredRoomIds: a room is registered when it is created.
Registered == {r \in Rooms : events[r] # <<>>}
NoRows == [r \in Rooms |-> None]
Directory == [r \in Rooms |-> rows[r]]

\* The public rooms, searched by a term only the alias contains.
AskRooms == Begin(Query("rooms", Matching, {}, Directory))

\* resolveRoomAliasWithTruthFallback: the first row with the alias.
AskAlias ==
  \E c \in SUBSET Matching :
    /\ Cardinality(c) = IF Matching = {} THEN 0 ELSE 1
    /\ Begin(Query("alias", c, c, NoRows))

\* Each event the index has for the term is looked up on its own.
AskSearch ==
  \E k \in EventKeys :
    rows[k] = [text |-> TRUE] /\ Begin(Query("search", {k}, {}, NoRows))

\* Mutant: only what the query is about is compared.
IsCurrentByAlias(row, entry) == row.alias = entry.alias
\* isPublicDirectoryRowCurrent
IsCurrent(row, entry) == row.serial = entry.serial /\ row.alias = entry.alias

\* resolveValidatedPublicRoomRow: the derived row when it is current.
Validated(r) ==
  IF query.row[r] # None /\ IsCurrent(query.row[r], RoomEntry(r))
  THEN query.row[r] ELSE RoomEntry(r)

\* What one step of a query adds for a key: a room found by a row is listed
\* as it is now, a room found by a scan when it matches.
Found(k) ==
  CASE query.kind = "search" -> {<<k, Truth(k)>>}
    [] query.kind = "rooms" /\ ~query.scan -> {<<k, Validated(k)>>}
    [] OTHER -> IF Validated(k).alias THEN {<<k, Validated(k)>>} ELSE {}

Visit(k) ==
  /\ query # NoQuery /\ k \in query.left
  /\ query' = [query EXCEPT
       !.answer = @ \cup Found(k),
       !.left = IF query.kind = "alias" /\ Found(k) # {} THEN {} ELSE @ \ {k}]
  /\ UNCHANGED <<events, derived, held>>

\* Mutant: the rooms are scanned only when no row has the alias.
NeedsScanIfNoRow == query.kind # "search" /\ query.hit = {}
NeedsScan == query.kind # "search"

\* Nothing was found: all registered rooms are asked, but for the one that was.
Scan ==
  /\ query # NoQuery /\ query.left = {} /\ query.answer = {} /\ ~query.scan /\ NeedsScan
  /\ query' = [query EXCEPT !.scan = TRUE, !.left = Registered \ query.hit,
                            !.row = IF query.kind = "rooms" THEN Directory ELSE NoRows]
  /\ UNCHANGED <<events, derived, held>>

Answered ==
  query # NoQuery /\ query.left = {} /\ (query.answer # {} \/ query.scan \/ ~NeedsScan)

End ==
  /\ Answered
  /\ query' = NoQuery /\ held' = {}
  /\ UNCHANGED <<events, derived>>

ViewsNext ==
  \/ \E r \in Rooms, kind \in Kinds, t \in 0..MaxPos : Admit(r, kind, t)
  \/ \E w \in Workers, k \in requests : Fetch(w, k)
  \/ \E k \in requests : Forget(k)
  \/ \E w \in Workers, k \in indexQueue : Take(w, k)
  \/ \E w \in Workers : Read(w) \/ Put(w) \/ \E b \in BOOLEAN : Fail(w, b)
  \/ AskRooms \/ AskAlias \/ AskSearch
  \/ \E k \in Keys : Visit(k)
  \/ Scan \/ End

ViewsSpec == ViewsInit /\ [][ViewsNext]_viewsVars

-----------------------------------------------------------------------------
(* Properties *)

EntryType == [serial : 0..MaxPos, alias : BOOLEAN]
RowType(k) == IF k \in Rooms THEN EntryType ELSE [text : BOOLEAN]

ASSUME NoneIsNothing == None \notin EventKeys \cup EntryType \cup [text : BOOLEAN]

ViewsTypeOK ==
  /\ \A r \in Rooms : Len(events[r]) <= MaxPos
  /\ requests \subseteq EventKeys /\ indexQueue \cup lost \subseteq EventKeys
  /\ \A w \in Workers :
       /\ \A i \in DOMAIN workers[w].todo : workers[w].todo[i] \in Keys
       /\ workers[w].message \in EventKeys \cup {None}
  /\ \A k \in Keys : rows[k] \in RowType(k) \cup {None}
  /\ failures \in 0..MaxFailures /\ held \subseteq Rooms

\* The work of an event is not forgotten between its commit and the search
\* index: it has a row, or its work is asked for, queued, or was given up by
\* an error the code accepts (a caller that failed, a final error).
NothingForgotten ==
  \A k \in EventKeys : k[2] \in DOMAIN events[k[1]] =>
    rows[k] # None \/ k \in requests \cup indexQueue \cup lost

\* The rows are of their types (ViewsTypeOK) and no event's work is forgotten.
DerivedInv == ViewsTypeOK /\ NothingForgotten

\* Whatever stale rows D1 has, an entry or event that a query lists is what
\* the RoomDO says at that moment, also when it is copied from the row.
ListedIsTrue ==
  [][query # NoQuery /\ query' # NoQuery =>
       \A x \in query'.answer \ query.answer : x[2] = Truth(x[1])]_viewsVars

\* A query for a room by its alias finds a room when a registered room had the
\* alias all the while, whatever rows D1 has of this or another room.
FoundWhenThere ==
  Answered /\ query.kind \in {"alias", "rooms"} /\ held # {} => query.answer # {}

-----------------------------------------------------------------------------
(* What the documentation says and the code does not keep *)

Quiet == requests = {} /\ indexQueue = {} /\ \A w \in Workers : workers[w] = Free

\* 34-search-directory-and-appservices.md: a redaction is compensated in the
\* index.  When all work is done and none was lost, no redacted text is left.
IndexForgetsRedacted ==
  Quiet /\ failures = 0 =>
    \A k \in EventKeys : k[2] \in DOMAIN events[k[1]] => rows[k] = Truth(k)
=============================================================================
