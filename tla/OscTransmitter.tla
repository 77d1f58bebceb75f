--------------------------- MODULE OscTransmitter ---------------------------
(***************************************************************************)
(* The OSC transmitter (osc/transmitter.py): rows that stream a marker's   *)
(* position, on every beat or only when it changed, and rows an input      *)
(* event fires.  One scheduler thread beats while a stream is enabled and  *)
(* sleeps on an event otherwise; it takes its plans under the lock, and    *)
(* renders and sends them without it.  Meanwhile config saves edit, drop   *)
(* and recreate rows, and the input threads queue plans.                   *)
(*                                                                         *)
(* Templates are told apart by whether they use the row's marker, a        *)
(* position is a number on one axis.  The test send and the row's status   *)
(* are left out.                                                           *)
(***************************************************************************)
EXTENDS Integers, SequencesExt, FiniteSetsExt

CONSTANTS
  Rows,        \* row ids
  Markers,     \* marker ids, numbers
  Positions,   \* numbers
  Configs,     \* what a row may be edited to
  MaxEdits,    \* bound: saves that edit, drop or recreate a row
  MaxMoves,    \* bound: moves of markers, and markers lost or stale
  MaxEvents,   \* bound: input events
  MaxFailures, \* bound: sends that fail, or whose interface is down
  None

RowConfigs ==
  [enabled : BOOLEAN, trigger : {"stream", "event"}, onChange : BOOLEAN,
   minChange : Nat, period : Nat \ {0}, markers : SUBSET Markers, needsMarker : BOOLEAN]

OscTransmitterAssumption ==
  /\ IsFiniteSet(Rows) /\ Markers \subseteq Nat /\ IsFiniteSet(Markers)
  /\ Positions \subseteq Nat /\ Positions # {}
  /\ Configs \subseteq RowConfigs
  /\ {MaxEdits, MaxMoves, MaxEvents, MaxFailures} \subseteq Nat
  /\ None \notin Positions \cup Markers /\ None \notin Configs
  /\ None \notin [cfg : Configs, gen : Nat]

VARIABLES
  rows,      \* _rows: config and incarnation of a row, or None
  lastSent,  \* _last_sent_pos
  phase,     \* beats since a stream's last one, or None: _stream_start
  throttled, \* rows whose last event is nearer than 1/rate_hz
  events,    \* _event_plans
  wake, stop,
  pc,        \* the scheduler: where it is
  plans,     \* what it still has to fire, the first being under way
  out,       \* the position the first plan is sent with
  handler,   \* the input thread: "idle" or "checked"
  position,  \* where a marker is, or None: unknown or stale
  edits, moves, inputs, failures,
  heard      \* ghost: the position a row's incarnation last sent

table == <<rows, lastSent, phase, throttled>>
queue == <<events, wake, stop>>
scheduler == <<pc, plans, out>>
bounds == <<edits, moves, inputs, failures>>
vars == <<table, queue, scheduler, handler, position, bounds, heard>>

Exists(r) == rows[r] # None
Streaming(r) == Exists(r) /\ rows[r].cfg.enabled /\ rows[r].cfg.trigger = "stream"

\* One plan per marker of a row whose templates use it; otherwise one, with
\* the lowest marker as the signal of the on-change gate.
PlansForRow(r) ==
  LET cfg == rows[r].cfg
      ids == IF cfg.markers = {} THEN {None}
             ELSE IF cfg.needsMarker THEN cfg.markers ELSE {Min(cfg.markers)}
  IN {[row |-> r, gen |-> rows[r].gen, marker |-> m, needsMarker |-> cfg.needsMarker,
       gated |-> cfg.trigger = "stream" /\ cfg.onChange, minChange |-> cfg.minChange] : m \in ids}

\* The plans of the rows that are due, those of a row together and from its
\* lowest marker on.
PlansFor(due) ==
  LET all == UNION {PlansForRow(r) : r \in due} IN
  {q \in [1 .. Cardinality(all) -> all] :
     /\ IsInjective(q)
     /\ \A i, j \in DOMAIN q : i < j /\ q[i].row = q[j].row =>
          q[i].marker < q[j].marker /\ \A k \in i .. j : q[k].row = q[i].row}

-----------------------------------------------------------------------------
(* The scheduler thread.                                                   *)

Clear ==
  /\ pc = "clear" /\ pc' = "tick" /\ wake' = FALSE
  /\ UNCHANGED <<table, events, stop, plans, out, handler, position, bounds, heard>>

\* Every enabled stream that is due, then what the inputs queued.
Snapshot ==
  /\ pc = "tick"
  /\ IF stop
     THEN pc' = "ended" /\ UNCHANGED <<plans, events, phase>>
     ELSE LET due == {r \in Rows : Streaming(r) /\ phase[r] \in {None, 0}} IN
          /\ \E q \in PlansFor(due) : plans' = q \o events
          /\ events' = <<>>
          /\ phase' = [r \in Rows |->
                         IF ~Streaming(r) THEN phase[r]
                         ELSE ((IF phase[r] = None THEN 0 ELSE phase[r]) + 1) % rows[r].cfg.period]
          /\ pc' = "fire"
  /\ UNCHANGED <<rows, lastSent, throttled, wake, stop, out, handler, position, bounds, heard>>

Abs(n) == IF n < 0 THEN -n ELSE n

\* The gate of a row that streams on change.
Unchanged(p, now) ==
  LET last == lastSent[p.row][p.marker] IN
  /\ p.gated /\ now # None /\ last # None
  /\ IF p.minChange = 0 THEN now = last ELSE Abs(now - last) < p.minChange

PositionOf(p) == IF p.marker = None THEN None ELSE position[p.marker]

\* Every plan is fired.
Rests == pc' = "rest" /\ UNCHANGED wake

\* _fire_plan until the send: a skipped plan is done with.
Fire ==
  /\ pc = "fire"
  /\ IF plans = <<>>
     THEN Rests /\ UNCHANGED <<plans, out>>
     ELSE LET p == Head(plans)  now == PositionOf(p) IN
          IF (p.needsMarker /\ now = None) \/ Unchanged(p, now)
          THEN plans' = Tail(plans) /\ UNCHANGED <<pc, out, wake>>
          ELSE pc' = "send" /\ out' = now /\ UNCHANGED <<plans, wake>>
  /\ UNCHANGED <<table, events, stop, handler, position, bounds, heard>>

IsCurrent(p) == Exists(p.row) /\ rows[p.row].gen = p.gen

\* The send takes its time, without the lock.
Send ==
  LET p == Head(plans) IN
  /\ pc = "send"
  /\ \/ /\ pc' = "sent"
        /\ heard' = IF IsCurrent(p) /\ out # None THEN [heard EXCEPT ![p.row][p.marker] = out] ELSE heard
        /\ UNCHANGED <<plans, failures>>
     \/ /\ failures < MaxFailures /\ failures' = failures + 1
        /\ pc' = "fire" /\ plans' = Tail(plans)
        /\ UNCHANGED heard
  /\ UNCHANGED <<table, queue, out, handler, position, edits, moves, inputs>>

\* Mutant: any row of that id is primed.
PrimedById(p) ==
  IF Exists(p.row) /\ out # None THEN [lastSent EXCEPT ![p.row][p.marker] = out] ELSE lastSent

\* Not of a row that was dropped, or recreated, during the send.
Primed(p) ==
  IF IsCurrent(p) /\ out # None THEN [lastSent EXCEPT ![p.row][p.marker] = out] ELSE lastSent

Prime ==
  /\ pc = "sent" /\ pc' = "fire"
  /\ lastSent' = Primed(Head(plans))
  /\ plans' = Tail(plans)
  /\ UNCHANGED <<rows, phase, throttled, queue, out, handler, position, bounds, heard>>

\* The next beat of a stream, or the wake event.
Rest ==
  /\ pc = "rest" /\ pc' = "clear"
  /\ wake \/ \E r \in Rows : Streaming(r)
  /\ UNCHANGED <<table, queue, plans, out, handler, position, bounds, heard>>

Scheduler == Clear \/ Snapshot \/ Fire \/ Send \/ Prime \/ Rest

-----------------------------------------------------------------------------
(* The other threads.                                                      *)

\* A handler looks at the stop flag first, without the lock.
HandleEvent ==
  /\ handler = "idle" /\ ~stop
  /\ inputs < MaxEvents /\ inputs' = inputs + 1
  /\ handler' = "checked"
  /\ UNCHANGED <<table, queue, scheduler, position, edits, moves, failures, heard>>

\* Every enabled row with that trigger is queued; a fader's no more often
\* than its rate.
QueueEvent ==
  LET fired == {r \in Rows : Exists(r) /\ rows[r].cfg.enabled /\ rows[r].cfg.trigger = "event"} \ throttled IN
  /\ handler = "checked" /\ handler' = "idle"
  /\ \E q \in PlansFor(fired) : events' = events \o q
  /\ throttled' \in {throttled, throttled \cup fired}
  /\ wake' = (wake \/ fired # {})
  /\ UNCHANGED <<rows, lastSent, phase, stop, scheduler, position, bounds, heard>>

ThrottleEnds ==
  /\ throttled # {} /\ throttled' = {}
  /\ UNCHANGED <<rows, lastSent, phase, queue, scheduler, handler, position, bounds, heard>>

\* restart(): a config save.  A row of a known id keeps its incarnation.
Restart(r, cfg) ==
  LET old == rows[r]
      kept == old # None /\ cfg # None
      invalidated == ~kept \/ old.cfg.markers # cfg.markers \/ old.cfg.trigger # cfg.trigger
      rephased == ~kept \/ old.cfg.enabled # cfg.enabled
                  \/ <<old.cfg.trigger, old.cfg.onChange, old.cfg.minChange, old.cfg.period>>
                     # <<cfg.trigger, cfg.onChange, cfg.minChange, cfg.period>>
  IN
  /\ edits < MaxEdits /\ edits' = edits + 1
  /\ rows' = [rows EXCEPT ![r] = IF cfg = None THEN None
                                 ELSE [cfg |-> cfg, gen |-> IF kept THEN old.gen ELSE edits']]
  /\ lastSent' = IF invalidated THEN [lastSent EXCEPT ![r] = [m \in Markers |-> None]] ELSE lastSent
  /\ throttled' = IF invalidated THEN throttled \ {r} ELSE throttled
  /\ phase' = IF rephased THEN [phase EXCEPT ![r] = None] ELSE phase
  /\ heard' = IF kept THEN heard ELSE [heard EXCEPT ![r] = [m \in Markers |-> None]]
  /\ wake' = TRUE
  /\ UNCHANGED <<events, stop, scheduler, handler, position, moves, inputs, failures>>

\* stop(): the flag, the event, and what is queued is dropped.
StopFlag ==
  /\ ~stop /\ stop' = TRUE /\ wake' = TRUE
  /\ UNCHANGED <<table, events, scheduler, handler, position, bounds, heard>>

StopDrops ==
  /\ stop /\ events # <<>> /\ events' = <<>>
  /\ UNCHANGED <<table, wake, stop, scheduler, handler, position, bounds, heard>>

Move ==
  /\ moves < MaxMoves /\ moves' = moves + 1
  /\ \E m \in Markers, to \in Positions \cup {None} :
       position[m] # to /\ position' = [position EXCEPT ![m] = to]
  /\ UNCHANGED <<table, queue, scheduler, handler, edits, inputs, failures, heard>>

-----------------------------------------------------------------------------
Init ==
  /\ rows \in [Rows -> [cfg : Configs, gen : {0}]]
  /\ lastSent = [r \in Rows |-> [m \in Markers |-> None]] /\ heard = lastSent
  /\ phase = [r \in Rows |-> None] /\ throttled = {}
  /\ events = <<>> /\ wake = FALSE /\ stop = FALSE
  /\ pc = "clear" /\ plans = <<>> /\ out = None /\ handler = "idle"
  /\ position = [m \in Markers |-> CHOOSE p \in Positions : TRUE]
  /\ edits = 0 /\ moves = 0 /\ inputs = 0 /\ failures = 0

Next ==
  \/ Scheduler \/ HandleEvent \/ QueueEvent \/ ThrottleEnds
  \/ \E r \in Rows, cfg \in Configs \cup {None} : Restart(r, cfg)
  \/ StopFlag \/ StopDrops \/ Move

Spec == Init /\ [][Next]_vars

\* The scheduler's thread runs, a beat passes, a handler goes on.
FairSpec == Spec /\ WF_vars(Scheduler) /\ WF_vars(QueueEvent)

-----------------------------------------------------------------------------
(* Properties.                                                             *)

TypeOK ==
  /\ \A r \in Rows : Exists(r) => rows[r].cfg \in Configs /\ rows[r].gen \in 0 .. MaxEdits
  /\ lastSent \in [Rows -> [Markers -> Positions \cup {None}]]
  /\ \A r \in Rows : phase[r] # None => Streaming(r) /\ phase[r] < rows[r].cfg.period
  /\ throttled \subseteq Rows /\ wake \in BOOLEAN /\ stop \in BOOLEAN
  /\ pc \in {"clear", "tick", "fire", "send", "sent", "rest", "ended"}
  /\ handler \in {"idle", "checked"} /\ position \in [Markers -> Positions \cup {None}]
  /\ heard \in [Rows -> [Markers -> Positions \cup {None}]]

\* The gate compares with what the row has told, of this incarnation; it is
\* behind only from a send to the lock after it.
BaselineHeard ==
  \A r \in Rows, m \in Markers :
    lastSent[r][m] # None /\ lastSent[r][m] # heard[r][m] =>
      pc = "sent" /\ Head(plans).row = r /\ Head(plans).marker = m /\ heard[r][m] = out

\* What a row that streams on change has told of a marker: its position, up
\* to the change that is too small to tell.
Told(r, m) ==
  /\ heard[r][m] # None
  /\ Abs(heard[r][m] - position[m]) < (IF rows[r].cfg.minChange = 0 THEN 1 ELSE rows[r].cfg.minChange)

\* A marker at rest is told: the gate suppresses what the receiver knows, and
\* never what this row has not sent, though sends fail, markers go and come
\* and rows are dropped and made again while one is under way.
Settles ==
  <>[](\A r \in Rows :
         Streaming(r) /\ rows[r].cfg.needsMarker /\ ~stop =>
           \A m \in rows[r].cfg.markers : position[m] # None => Told(r, m))

\* What an input queued is taken up though it came while the scheduler was
\* about to sleep: the wake is never lost.
EventsFire == []<>(events = <<>> \/ stop)
=============================================================================
