--------------------------- MODULE VideoReceiver ---------------------------
(***************************************************************************)
(* The video receiver (video/receiver.py, runtime/receiver_state.py): one  *)
(* pipeline at a time, of the source or the no-signal placeholder, and the *)
(* timers that bring the source back.  Everything runs on the GLib main    *)
(* loop but the frames, which a streaming thread delivers, and discovery.  *)
(*                                                                         *)
(* Two kinds of input: a stream at a URL (rtsp, srt, rtp), which heals by  *)
(* trying again for good, and one picked from a list (ndi), which waits    *)
(* for its lost source to be listed again.  The operators below take the   *)
(* receiver's record to what a method leaves.  A pipeline that does not    *)
(* reach NULL, widgets, and the wording of failures are left out.          *)
(***************************************************************************)
EXTENDS Naturals

CONSTANTS
  MaxAttempts,  \* max_attempts of a kind
  ListedPasses, \* _LISTED_RETRY_PASSES
  MaxChanges,   \* bound: changes of the source and of its interface
  MaxSteps,     \* bound: what the operator does
  None

Kinds == {"url", "picked"}

\* What a build meets: frames, silence, a start refused, no pipeline, an
\* interface without an address, a name not resolved yet.
Airs == {"good", "dark", "refused", "broken", "down", "name"}

VideoReceiverAssumption ==
  /\ MaxAttempts \in [Kinds -> Nat \ {0}]
  /\ {ListedPasses, MaxChanges, MaxSteps} \subseteq Nat
  /\ None \notin Airs /\ None \notin BOOLEAN

VARIABLES
  rx,       \* GstNativeSinkReceiver and its ReceiverStateMachine
  arriving, \* the streaming thread has marked its first frame, no more yet
  looking,  \* a discovery thread runs
  posted,   \* what one left for the main loop: was the lost source listed
  air, released,
  changes, steps

vars == <<rx, arriving, looking, posted, air, released, changes, steps>>

Timers == {"reconnect", "heal", "timeout", "watchdog"}

-----------------------------------------------------------------------------
(* What the methods do to the record.  late: what a frame still does while *)
(* the main loop takes the pipeline down.                                  *)

CancelTimers(r) == [r EXCEPT !.timers = {}]

ResetVideoFlow(r) == [r EXCEPT !.connected = FALSE, !.flow = FALSE, !.refusal = None]

\* The flow is reset before the pipeline is down: a frame in between is
\* marked, and arms the watchdog.  Attempts are counted as far as they matter.
ScheduleReconnect(r, late) ==
  [ResetVideoFlow(CancelTimers(r)) EXCEPT
     !.pipe = "none", !.attempt = IF @ < MaxAttempts[r.kind] THEN @ + 1 ELSE @,
     !.connected = late = "connected", !.flow = late = "connected",
     !.timers = {"reconnect"} \cup IF late # "no" /\ r.stall THEN {"watchdog"} ELSE {}]

RetryRefused(r) ==
  IF r.refusal = "name" THEN [r EXCEPT !.timers = @ \cup {"reconnect"}] ELSE ScheduleReconnect(r, "no")

PlacePlaceholder(r) == [r EXCEPT !.parked = FALSE, !.pipe = "placeholder", !.placeholder = TRUE]

CreatePipeline(r) ==
  LET s == ResetVideoFlow([r EXCEPT !.parked = FALSE]) IN
  CASE r.kind = "url" /\ air \in {"down", "name"} -> [s EXCEPT !.refusal = air, !.placeholder = TRUE]
    [] air = "broken" -> PlacePlaceholder(s)
    [] OTHER -> [s EXCEPT !.placeholder = FALSE, !.pipe = "source"]

\* The first pass of a search, which a connected receiver ends, and its timer.
ScheduleDiscovery(r) == [r EXCEPT !.discovery = r.kind = "picked"]
Looks(r) == r.kind = "picked" /\ (~r.connected \/ r.selection)

\* A pipeline is there: it is set playing.
Started(r) ==
  IF r.pipe = "source"
  THEN IF air = "refused" THEN ScheduleReconnect(r, "no") ELSE [r EXCEPT !.timers = @ \cup {"timeout"}]
  ELSE [r EXCEPT !.unbuilt = TRUE]

PlayUrl(r) ==
  LET s == [r EXCEPT !.selection = FALSE]
      built == IF s.pipe = "none" /\ s.refusal = None THEN CreatePipeline(s) ELSE s
  IN IF ~r.configured THEN PlacePlaceholder(s)
     ELSE IF built.refusal # None THEN RetryRefused(built)
     ELSE Started(built)

PlayPicked(r) ==
  LET s == [r EXCEPT !.selection = FALSE, !.discovery = FALSE] IN
  IF ~r.configured THEN ScheduleDiscovery(PlacePlaceholder([r EXCEPT !.selection = TRUE]))
  ELSE Started(IF s.pipe = "none" THEN CreatePipeline(s) ELSE s)

Play(r) ==
  LET s == [r EXCEPT !.unbuilt = FALSE] IN IF r.kind = "url" THEN PlayUrl(s) ELSE PlayPicked(s)

\* The pipeline is down before the flow is reset.
Nulled(r, late) ==
  [ResetVideoFlow(CancelTimers(r)) EXCEPT
     !.pipe = "none", !.timers = IF late # "no" /\ r.stall THEN {"watchdog"} ELSE {}]

SetSource(r, late) ==
  Play(CreatePipeline(
    [Nulled(r, late) EXCEPT !.awaited = FALSE, !.configured = TRUE, !.attempt = 0,
                            !.selection = FALSE, !.discovery = FALSE, !.seen = FALSE]))

ScheduleHeal(r) == [CancelTimers(r) EXCEPT !.timers = {"heal"}]

\* The attempts are used up: the placeholder, and the search or the heal.
FallBack(r) ==
  LET s == PlacePlaceholder([r EXCEPT !.attempt = 0]) IN
  IF r.kind = "picked"
  THEN ScheduleDiscovery(
         [s EXCEPT !.awaited = @ \/ r.configured, !.configured = FALSE, !.selection = TRUE,
                   !.passes = IF ~r.configured THEN @ ELSE IF r.seen THEN 0 ELSE ListedPasses])
  ELSE IF r.configured THEN ScheduleHeal([s EXCEPT !.parked = TRUE, !.selection = FALSE])
  ELSE [s EXCEPT !.selection = FALSE]

\* Mutant: a build that fails is left to play().
DoReconnectBuilt(r) ==
  LET s == [r EXCEPT !.timers = @ \ {"reconnect"}, !.pipe = "none"] IN
  IF s.attempt >= MaxAttempts[s.kind] THEN FallBack(s)
  ELSE LET built == CreatePipeline(s) IN
       IF built.refusal # None THEN RetryRefused(built)
       ELSE IF built.placeholder THEN built ELSE Play(built)

DoReconnect(r) ==
  LET s == [r EXCEPT !.timers = @ \ {"reconnect"}, !.pipe = "none"] IN
  IF s.attempt >= MaxAttempts[s.kind] THEN FallBack(s)
  ELSE IF s.kind = "url" /\ ~s.configured THEN Play(s)
  ELSE LET built == CreatePipeline(s) IN
       IF built.refusal # None THEN RetryRefused(built)
       ELSE IF built.placeholder THEN ScheduleReconnect(built, "no")
       ELSE Play(built)

-----------------------------------------------------------------------------
(* The main loop's timers.                                                 *)

\* What the streaming thread can still do to a step that takes its pipeline
\* down, which waits for it.
Late ==
  IF arriving THEN {"armed"}
  ELSE IF rx.pipe = "source" /\ ~rx.placeholder /\ (rx.flow \/ air = "good") THEN {"no", "connected"}
  ELSE {"no"}

Becomes(r) ==
  /\ rx' = r
  /\ arriving' = (arriving /\ r.pipe = "source")
  /\ looking' = (looking \/ (r.discovery /\ ~rx.discovery /\ Looks(r)))

TakesDown(Step(_)) == \E late \in Late : Becomes(Step(late))

Quiet == UNCHANGED <<posted, air, released, changes, steps>>

ReconnectDue ==
  /\ "reconnect" \in rx.timers
  /\ Becomes(DoReconnect(rx)) /\ Quiet

HealDue ==
  LET r == [rx EXCEPT !.timers = @ \ {"heal"}] IN
  /\ "heal" \in rx.timers
  /\ Becomes(IF ~r.placeholder THEN r
             ELSE IF ~r.configured THEN ScheduleHeal(r)
             ELSE DoReconnect([r EXCEPT !.attempt = 0]))
  /\ Quiet

TimeoutDue ==
  LET r == [rx EXCEPT !.timers = @ \ {"timeout"}] IN
  /\ "timeout" \in rx.timers
  /\ IF ~r.flow /\ ~r.placeholder
     THEN TakesDown(LAMBDA late : ScheduleReconnect(r, late)) ELSE Becomes(r)
  /\ Quiet

\* Silent for stall_timeout, unless there is nothing to watch any more.
WatchdogDue ==
  LET r == [rx EXCEPT !.timers = @ \ {"watchdog"}] IN
  /\ "watchdog" \in rx.timers
  /\ IF ~r.stall \/ ~r.connected \/ r.placeholder
     THEN Becomes(r)
     ELSE /\ air # "good" \/ r.pipe # "source"
          /\ TakesDown(LAMBDA late : ScheduleReconnect(r, late))
  /\ Quiet

\* An error or the end of the stream on the bus.
BusError ==
  /\ rx.pipe = "source" /\ air # "good"
  /\ TakesDown(LAMBDA late : ScheduleReconnect([rx EXCEPT !.connected = FALSE], late))
  /\ Quiet

DiscoveryDue ==
  /\ rx.discovery /\ ~looking
  /\ IF Looks(rx) THEN looking' = TRUE /\ UNCHANGED rx
     ELSE rx' = [rx EXCEPT !.discovery = FALSE] /\ UNCHANGED looking
  /\ UNCHANGED arriving /\ Quiet

\* The discovery thread; what is on the air is listed.
Discovered ==
  /\ looking /\ looking' = FALSE
  /\ posted' = IF rx.awaited THEN air \in {"good", "dark"} ELSE posted
  /\ UNCHANGED <<rx, arriving, air, released, changes, steps>>

AwaitedPass ==
  /\ posted # None /\ posted' = None
  /\ CASE ~rx.awaited -> UNCHANGED <<rx, arriving, looking>>
       [] rx.awaited /\ ~posted -> rx' = [rx EXCEPT !.passes = 0] /\ UNCHANGED <<arriving, looking>>
       [] rx.awaited /\ posted /\ rx.passes > 0 ->
            rx' = [rx EXCEPT !.passes = @ - 1] /\ UNCHANGED <<arriving, looking>>
       [] OTHER -> IF rx.placeholder THEN TakesDown(LAMBDA late : SetSource(rx, late))
                   ELSE UNCHANGED <<rx, arriving, looking>>
  /\ UNCHANGED <<air, released, changes, steps>>

-----------------------------------------------------------------------------
(* The streaming thread.                                                   *)

\* mark_frame_received: a frame of the placeholder does not count.
Frame ==
  /\ rx.pipe = "source" /\ air = "good" /\ ~rx.placeholder /\ ~(rx.flow /\ rx.connected)
  /\ rx' = [rx EXCEPT !.flow = TRUE, !.seen = TRUE, !.connected = TRUE]
  /\ arriving' = (arriving \/ ~rx.connected)
  /\ UNCHANGED <<looking>> /\ Quiet

\* Mutant: the streaming thread disarms the old watchdog and arms no new one.
VideoConnectedUnwatched(r) == [r EXCEPT !.timers = @ \ {"timeout", "watchdog"}]

\* _handle_video_connected
VideoConnected(r) ==
  [r EXCEPT !.timers = (@ \ {"timeout", "watchdog"}) \cup IF r.stall THEN {"watchdog"} ELSE {}]

FrameDone ==
  /\ arriving /\ arriving' = FALSE
  /\ rx' = VideoConnected(rx)
  /\ UNCHANGED looking /\ Quiet

-----------------------------------------------------------------------------
(* The operator, a config save, the plane observer.                        *)

Step == steps < MaxSteps /\ steps' = steps + 1 /\ UNCHANGED <<posted, air, changes>>

EnterSelection ==
  /\ rx.kind = "picked" /\ ~released
  /\ Becomes(ScheduleDiscovery([rx EXCEPT !.wasConnected = rx.connected, !.selection = TRUE, !.discovery = FALSE]))
  /\ Step /\ UNCHANGED released

\* Closing the picker: back to the picture, to the wait or to the source.
ExitSelection ==
  LET r == [rx EXCEPT !.selection = FALSE, !.discovery = FALSE] IN
  /\ rx.selection
  /\ IF r.wasConnected THEN Becomes([r EXCEPT !.connected = TRUE, !.wasConnected = FALSE])
     ELSE IF r.awaited THEN Becomes(ScheduleDiscovery(r))
     ELSE IF r.configured THEN TakesDown(LAMBDA late : ScheduleReconnect(r, late))
     ELSE Becomes(r)
  /\ Step /\ UNCHANGED released

\* Every overlay is closed at once.
CloseOverlays ==
  /\ rx.selection /\ rx' = [rx EXCEPT !.selection = FALSE]
  /\ UNCHANGED <<arriving, looking, released>> /\ Step

ConfirmSelection ==
  /\ rx.selection /\ air \in {"good", "dark"}
  /\ TakesDown(LAMBDA late : SetSource(rx, late))
  /\ Step /\ UNCHANGED released

Swapped(kind, configured, late) ==
  Play([Nulled(rx, late) EXCEPT
          !.kind = kind, !.configured = configured, !.awaited = FALSE, !.seen = FALSE, !.attempt = 0,
          !.selection = FALSE, !.discovery = FALSE, !.placeholder = FALSE])

SwapInput ==
  /\ \E kind \in Kinds, configured \in BOOLEAN, late \in Late :
       /\ kind # rx.kind \/ configured # rx.configured
       /\ rx' = Swapped(kind, configured, late)
       /\ looking' = (rx'.discovery /\ Looks(rx'))
  /\ arriving' = FALSE /\ released' = FALSE /\ Step

\* Another detector, or the display is dropped: the pipeline is built again.
SwapDetectionBranch ==
  /\ ~released
  /\ TakesDown(LAMBDA late : Play(Nulled(rx, late)))
  /\ Step /\ UNCHANGED released

\* set_recovery_timers: the stall timeout is set to or from 0, or the heal
\* interval changes, which a parked source is waiting on.
SetRecoveryTimers ==
  /\ \E stall \in BOOLEAN :
       rx' = IF rx.connected
             THEN [rx EXCEPT !.stall = stall,
                             !.timers = (@ \ {"watchdog"}) \cup IF stall THEN {"watchdog"} ELSE {}]
             ELSE IF rx.parked /\ rx.timers \cap {"reconnect", "timeout"} = {}
             THEN [ScheduleHeal(rx) EXCEPT !.stall = stall]
             ELSE [rx EXCEPT !.stall = stall]
  /\ UNCHANGED <<arriving, looking, released>> /\ Step

\* The observer: the pinned interface has lost its address, and has it back.
ReleaseForPin ==
  /\ ~released /\ rx.kind = "url" /\ air = "down"
  /\ \E late \in Late :
       rx' = [Nulled(rx, late) EXCEPT !.awaited = FALSE, !.parked = FALSE, !.discovery = FALSE]
  /\ released' = TRUE /\ arriving' = FALSE /\ looking' = FALSE
  /\ UNCHANGED <<posted, air, changes, steps>>

PinIsBack ==
  /\ released /\ air # "down" /\ released' = FALSE
  /\ Becomes(Swapped(rx.kind, rx.configured, "no"))
  /\ UNCHANGED <<posted, air, changes, steps>>

AirChanges ==
  /\ changes < MaxChanges /\ changes' = changes + 1
  /\ air' \in Airs \ {air}
  /\ UNCHANGED <<rx, arriving, looking, posted, released, steps>>

-----------------------------------------------------------------------------
\* start(): __init__ and play().
Init ==
  /\ air = "good" /\ released = FALSE /\ arriving = FALSE /\ posted = None
  /\ changes = 0 /\ steps = 0
  /\ \E kind \in Kinds, configured, stall \in BOOLEAN :
       rx = Play([kind |-> kind, configured |-> configured, awaited |-> FALSE, passes |-> 0,
                  pipe |-> "none", placeholder |-> FALSE, connected |-> FALSE, flow |-> FALSE,
                  seen |-> FALSE, selection |-> FALSE, wasConnected |-> FALSE, timers |-> {},
                  discovery |-> FALSE, attempt |-> 0, refusal |-> None, parked |-> FALSE,
                  stall |-> stall, unbuilt |-> FALSE])
  /\ looking = rx.discovery

Next ==
  \/ ReconnectDue \/ HealDue \/ TimeoutDue \/ WatchdogDue \/ BusError
  \/ DiscoveryDue \/ Discovered \/ AwaitedPass \/ Frame \/ FrameDone
  \/ EnterSelection \/ ExitSelection \/ CloseOverlays \/ ConfirmSelection \/ SwapInput
  \/ SwapDetectionBranch \/ SetRecoveryTimers \/ ReleaseForPin \/ PinIsBack \/ AirChanges

Spec == Init /\ [][Next]_vars

\* Timers run out, the observer polls, and a source that sends is not cut off
\* before its first frame each time: frames come within the connection timeout.
FairSpec ==
  /\ Spec /\ WF_vars(ReconnectDue) /\ WF_vars(HealDue) /\ WF_vars(TimeoutDue)
  /\ SF_vars(Frame) /\ WF_vars(FrameDone) /\ WF_vars(PinIsBack)

-----------------------------------------------------------------------------
(* Properties.                                                             *)

\* Also: no two timers that would build the pipeline are armed.
TypeOK ==
  /\ rx.kind \in Kinds /\ rx.pipe \in {"none", "source", "placeholder"}
  /\ rx.timers \subseteq Timers /\ rx.attempt \in 0 .. MaxAttempts[rx.kind]
  /\ rx.refusal \in {None, "down", "name"} /\ rx.passes \in 0 .. ListedPasses
  /\ posted \in {None, TRUE, FALSE} /\ air \in Airs
  /\ rx.pipe = "placeholder" => rx.placeholder
  /\ \A a, b \in rx.timers \cap {"reconnect", "heal", "timeout"} : a = b

\* A picture that runs is watched: the first frame arms the watchdog on the
\* streaming thread, and no save, swap or reconnect beside it leaves a
\* connected source that may stall unseen.
StallIsSeen ==
  rx.connected /\ rx.pipe = "source" /\ ~rx.placeholder /\ rx.stall => "watchdog" \in rx.timers \/ arriving

\* A stream at a URL comes back by itself once its source and its interface
\* are back, whatever failed before and however often; but for a build that
\* failed outside the reconnect, which nothing retries.
Returns ==
  <>[](rx.kind = "url" /\ rx.configured /\ air = "good" /\ ~rx.unbuilt) => <>[](rx.connected)
=============================================================================
