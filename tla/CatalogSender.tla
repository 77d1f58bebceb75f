--------------------------- MODULE CatalogSender ---------------------------
(***************************************************************************)
(* The send side of marker_catalog/sync.py: what a station multicasts of   *)
(* its catalog, and when.  An edit queues its id for a delta; a heartbeat  *)
(* sends the catalog, cut into datagrams, and where that takes more of     *)
(* them than one heartbeat sends, the next one resumes above the last id   *)
(* that went out.  A failed send drops the rest of the burst.              *)
(*                                                                         *)
(* What is in an entry is told apart by a version only.  Sizes are in      *)
(* units of the room a datagram has, which the selection it carries        *)
(* leaves.  Timers are not modelled: a delta or a heartbeat may be due     *)
(* whenever the thread looks.                                              *)
(***************************************************************************)
EXTENDS Integers, FiniteSets, SequencesExt

CONSTANTS
  Ids,         \* marker ids
  Size,        \* the size of an id's entry
  Separator,   \* _JSON_ITEM_SEPARATOR_LEN
  Rooms,       \* the room the envelope may leave, _MIN_ENTRY_BUDGET and more
  MaxChunks,   \* _MAX_HEARTBEAT_CHUNKS
  MaxEdits,    \* bound: edits and merges
  MaxFailures, \* bound: failed sends
  None

Versions == 0..MaxEdits

CatalogSenderAssumption ==
  /\ Ids \subseteq Nat \ {0} /\ IsFiniteSet(Ids)
  /\ Size \in [Ids -> Nat \ {0}]
  /\ Separator \in Nat /\ Rooms \subseteq Nat /\ Rooms # {}
  /\ {MaxChunks, MaxEdits} \subseteq Nat \ {0} /\ MaxFailures \in Nat
  /\ None \notin Ids

VARIABLES
  version,  \* the catalog: an id's entry, 0 where there is none
  handler,  \* the id the PUT or DELETE handler is saving, or None
  pending,  \* _pending_delta_ids
  pc,       \* the send thread: "idle", "delta" (ids consumed), "burst"
  batch,    \* the ids consumed for a delta
  burst,    \* the datagrams of a burst still to be sent
  kind,     \* what the burst is
  cursor,   \* _heartbeat_cursor_id
  room,     \* what the selection leaves in a datagram
  edits, failures,
  wire,     \* history: the version of an id last sent
  owed,     \* history: the version of an id a delta was asked for
  promise   \* history: what the log said of a rotation, and what is left of it

catalog == <<version, handler, edits>>
sender == <<pc, batch, burst, kind, cursor>>
vars == <<catalog, pending, sender, room, failures, wire, owed, promise>>

-----------------------------------------------------------------------------
Present == {i \in Ids : version[i] # 0}

\* Sizes of a datagram's entries with the separators between them.
Length(chunk) ==
  LET used[n \in 0 .. Len(chunk)] ==
        IF n = 0 THEN 0 ELSE used[n - 1] + Size[chunk[n].id]
  IN used[Len(chunk)] + Separator * (Len(chunk) - 1)

Fits(chunk, e) == Length(Append(chunk, e)) <= room

\* The loop of _chunk_entries: greedy, without what fits no datagram.
Put(chunks, e) ==
  CASE Size[e.id] > room -> chunks
    [] Size[e.id] <= room /\ chunks # <<>> /\ Fits(chunks[Len(chunks)], e) ->
         [chunks EXCEPT ![Len(chunks)] = Append(@, e)]
    [] OTHER -> Append(chunks, <<e>>)

\* _chunk_entries
Cut(entries) ==
  LET cut[n \in 0 .. Len(entries)] == IF n = 0 THEN <<>> ELSE Put(cut[n - 1], entries[n])
  IN cut[Len(entries)]

\* all_entries() of the ids in S, sorted.
Entries(S) ==
  LET ids == S \cap Present
      Nth(k) == CHOOSE i \in ids : Cardinality({j \in ids : j < i}) = k - 1
  IN [k \in 1 .. Cardinality(ids) |-> [id |-> Nth(k), version |-> version[Nth(k)]]]

\* Mutant of HeartbeatOrder: always from the first id.
OrderFromFirst(entries) == IF cursor \in Nat THEN entries ELSE <<>>

\* _heartbeat_order: what comes after the cursor, then what comes up to it.
HeartbeatOrder(entries) ==
  LET start == Cardinality({n \in DOMAIN entries : entries[n].id <= cursor})
  IN SubSeq(entries, start + 1, Len(entries)) \o SubSeq(entries, 1, start)

Window(chunks) == SubSeq(chunks, 1, IF Len(chunks) < MaxChunks THEN Len(chunks) ELSE MaxChunks)

-----------------------------------------------------------------------------
(* The web handlers and the receive thread.                                *)

Set(i) ==
  /\ edits < MaxEdits
  /\ edits' = edits + 1
  /\ version' = [version EXCEPT ![i] = edits + 1]
  /\ promise' = None

\* upsert() or delete(); the file is saved before peers hear of it.
Upsert(i) ==
  /\ handler = None
  /\ Set(i)
  /\ handler' = i
  /\ UNCHANGED <<pending, sender, room, failures, wire, owed>>

\* request_delta, once the file is written.
RequestDelta ==
  /\ handler # None
  /\ pending' = pending \cup {handler}
  /\ owed' = [owed EXCEPT ![handler] = version[handler]]
  /\ handler' = None
  /\ UNCHANGED <<version, edits, sender, room, failures, wire, promise>>

\* A peer's entry is merged.  No delta: its station sent one.
Merge(i) ==
  /\ Set(i)
  /\ UNCHANGED <<handler, pending, sender, room, failures, wire, owed>>

\* The selection changes, and with it the room in a datagram.
Select ==
  /\ room' \in Rooms \ {room}
  /\ promise' = None
  /\ UNCHANGED <<catalog, pending, sender, failures, wire, owed>>

-----------------------------------------------------------------------------
(* The send thread.                                                        *)

\* _consume_pending_ids, once the debounce is over.
Consume ==
  /\ pc = "idle"
  /\ pending # {}
  /\ batch' = pending
  /\ pending' = {}
  /\ pc' = "delta"
  /\ UNCHANGED <<catalog, burst, kind, cursor, room, failures, wire, owed, promise>>

InBurst == UNION {ToSet(chunk) : chunk \in ToSet(burst)}

\* What a failed delta or an entry too large owes is left to the heartbeats.
Forgive(S) == owed' = [i \in Ids |-> IF i \in S THEN 0 ELSE owed[i]]

\* A burst of nothing is over; for a heartbeat it is one datagram with the
\* selection.
Begin(chunks) ==
  /\ burst' = chunks
  /\ pc' = IF chunks = <<>> THEN "idle" ELSE "burst"

\* The entries are read after their ids were taken.
SendDelta ==
  /\ pc = "delta"
  /\ Begin(Cut(Entries(batch)))
  /\ kind' = "delta"
  /\ batch' = {}
  /\ Forgive({i \in batch : Size[i] > room})
  /\ UNCHANGED <<catalog, pending, cursor, room, failures, wire, promise>>

\* What _note_chunk_rotation says of so many datagrams.
Promised(chunks) ==
  [beats |-> (Len(chunks) + MaxChunks - 1) \div MaxChunks,
   ids |-> {i \in Present : Size[i] <= room}]

SendHeartbeat ==
  /\ pc = "idle"
  /\ LET chunks == Cut(HeartbeatOrder(Entries(Ids))) IN
       /\ Begin(Window(chunks))
       /\ promise' = IF promise = None /\ Len(chunks) > MaxChunks
                     THEN Promised(chunks) ELSE promise
  /\ kind' = "heartbeat"
  /\ UNCHANGED <<catalog, pending, batch, cursor, room, failures, wire, owed>>

Sent == {Head(burst)[k].id : k \in DOMAIN Head(burst)}

\* A promise is kept once everything has gone out.
Kept(p) ==
  IF p = None \/ kind = "delta" THEN p
  ELSE LET rest == [ids |-> p.ids \ Sent,
                    beats |-> IF Len(burst) = 1 THEN p.beats - 1 ELSE p.beats]
       IN IF rest.ids = {} THEN None ELSE rest

\* Mutant of Finish: the ids are taken out when the burst is done.
FinishClears ==
  /\ pc' = "idle"
  /\ cursor' = IF kind = "heartbeat" THEN Last(Head(burst)).id ELSE cursor
  /\ pending' = {}

\* The cursor advances only once the whole burst is out.
Finish ==
  /\ pc' = "idle"
  /\ cursor' = IF kind = "heartbeat" THEN Last(Head(burst)).id ELSE cursor
  /\ pending' = pending

SendTo ==
  /\ pc = "burst"
  /\ wire' = [i \in Ids |-> IF i \in Sent
                            THEN (CHOOSE e \in ToSet(Head(burst)) : e.id = i).version
                            ELSE wire[i]]
  /\ promise' = Kept(promise)
  /\ burst' = Tail(burst)
  /\ IF Len(burst) = 1 THEN Finish ELSE UNCHANGED <<pc, cursor, pending>>
  /\ UNCHANGED <<catalog, batch, kind, room, failures, owed>>

\* OSError: the rest of the burst is dropped, the cursor stays.
SendFails ==
  /\ pc = "burst"
  /\ failures < MaxFailures
  /\ failures' = failures + 1
  /\ burst' = <<>>
  /\ pc' = "idle"
  /\ IF kind = "delta" THEN Forgive({e.id : e \in InBurst}) ELSE UNCHANGED owed
  /\ promise' = None
  /\ UNCHANGED <<catalog, pending, batch, kind, cursor, room, wire>>

-----------------------------------------------------------------------------
\* The catalog is loaded, and the sync started on it.
Init ==
  /\ version \in [Ids -> {0, 1}]
  /\ handler = None /\ pending = {}
  /\ pc = "idle" /\ batch = {} /\ burst = <<>> /\ kind = "heartbeat"
  /\ cursor = 0
  /\ room \in Rooms
  /\ edits = 1 /\ failures = 0
  /\ wire = [i \in Ids |-> 0]
  /\ owed = [i \in Ids |-> 0]
  /\ promise = None

SendStep == Consume \/ SendDelta \/ SendHeartbeat \/ SendTo \/ SendFails

Next ==
  \/ \E i \in Ids : Upsert(i) \/ Merge(i)
  \/ RequestDelta \/ Select
  \/ SendStep

Spec == Init /\ [][Next]_vars

\* The thread runs, a heartbeat of a catalog that has entries comes round again and
\* again, and a handler that saves comes to ask for its delta.
FairSpec ==
  Spec /\ WF_vars(SendTo) /\ WF_vars(RequestDelta) /\ []<><<SendHeartbeat>>_vars

-----------------------------------------------------------------------------
\* Also: a datagram is not empty and reaches a peer unfragmented.
TypeOK ==
  /\ version \in [Ids -> Versions]
  /\ handler \in Ids \cup {None}
  /\ pending \subseteq Ids /\ batch \subseteq Ids
  /\ pc \in {"idle", "delta", "burst"} /\ kind \in {"delta", "heartbeat"}
  /\ (pc = "burst") = (burst # <<>>) /\ (pc = "delta") = (batch # {})
  /\ \A c \in ToSet(burst) :
       /\ c # <<>> /\ \E r \in Rooms : Length(c) <= r
       /\ \A e \in ToSet(c) : e.id \in Ids /\ e.version \in Versions
  /\ cursor \in {0} \cup Ids
  /\ room \in Rooms
  /\ edits \in Versions /\ failures \in 0..MaxFailures
  /\ wire \in [Ids -> Versions]
  /\ owed \in [Ids -> Versions]

\* A delta that was asked for is not lost: an edit that has not gone out is queued
\* or in the burst being sent, unless a send failed or it fits no datagram.
DeltaNotLost ==
  \A i \in Ids : wire[i] < owed[i] =>
    i \in pending \cup batch \/ \E e \in InBurst : e.id = i /\ e.version >= owed[i]

\* The log of a rotation says in how many heartbeats every entry goes out: while
\* nothing changes and nothing fails it does.
RotationKeepsWord == promise # None => promise.beats > 0

\* After the last edit every entry that fits a datagram goes out as it is now,
\* whatever burst or delta failed, and however the selection keeps changing.
Spreads ==
  <>[](\A i \in Present : (\A r \in Rooms : Size[i] <= r) => wire[i] = version[i])
=============================================================================
