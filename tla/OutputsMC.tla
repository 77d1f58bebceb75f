----------------------------- MODULE OutputsMC -----------------------------
(***************************************************************************)
(* What keeps the station's outputs going, in one run: a behaviour is one  *)
(* of a plane under the observer, of the PSN output with one stream, or of *)
(* the OSC transmitter, and the others stand still.                        *)
(***************************************************************************)
EXTENDS PlaneObserver

CONSTANTS
  Streams, OutputAddrs, Sockets, Threads, MaxRetries, MaxStarts, MaxFlaps,
  Rows, Markers, Configs, Positions, MaxEdits, MaxMoves, MaxEvents, MaxFailures

VARIABLES
  subject,
  main, target, mine, gen, stopped, running, source, socket, stack, fds, threads, pointer,
  senders, up, flaps, connected,
  rows, lastSent, phase, throttled, events, wake, stop, pc, plans, out, handler, position,
  edits, moves, inputs, failures, heard

outputs == <<main, target, mine, gen, stopped, running, source, socket, stack, fds, threads,
             pointer, senders, up, flaps, connected>>
transmitter == <<rows, lastSent, phase, throttled, events, wake, stop, pc, plans, out, handler,
                 position, edits, moves, inputs, failures, heard>>
all == <<subject, vars, outputs, transmitter>>

-----------------------------------------------------------------------------
(* The instances.                                                          *)

Row(on, trigger, onChange, minChange, period, markers) ==
  [enabled |-> on, trigger |-> trigger, onChange |-> onChange, minChange |-> minChange,
   period |-> period, markers |-> markers, needsMarker |-> markers # {}]

\* Streams that tell a change of two and any change, one switched off, and a
\* row without a marker that an input fires.
RowConfigs ==
  {Row(TRUE, "stream", TRUE, 2, 1, {1}), Row(TRUE, "stream", TRUE, 0, 2, {1}),
   Row(FALSE, "stream", TRUE, 0, 2, {1}), Row(TRUE, "event", FALSE, 0, 1, {})}

Output == INSTANCE PsnOutput WITH Addrs <- OutputAddrs
Transmitter == INSTANCE OscTransmitter

ASSUME OutputsAssumption ==
  /\ MaxStarts > 1 /\ Transmitter!OscTransmitterAssumption

-----------------------------------------------------------------------------
(* A component that stands still is in one of its initial states.          *)

PlaneStands ==
  /\ addr = None /\ enabled = FALSE /\ bound = None /\ complete = FALSE
  /\ downPolls = 0 /\ suspended = FALSE /\ sawOutage = FALSE
  /\ failure = FALSE /\ superseded = FALSE /\ backoff = Backoff /\ wait = 0
  /\ changes = 0 /\ dark = 0 /\ stale = FALSE

OutputStands ==
  /\ main = "idle" /\ target = None /\ mine = {} /\ gen = 0 /\ stopped = {} /\ running = FALSE
  /\ source = (CHOOSE a \in OutputAddrs : TRUE) /\ socket = None /\ stack = {} /\ connected = {}
  /\ fds = [s \in Sockets |-> None] /\ threads = [k \in Threads |-> None] /\ pointer = None
  /\ senders = [g \in 1 .. MaxStarts |-> [x \in Streams |-> [pc |-> "ended", old |-> {}]]]
  /\ up = {} /\ flaps = 0

TransmitterStands ==
  Transmitter!Init /\ rows = [r \in Rows |-> [cfg |-> CHOOSE c \in Configs : TRUE, gen |-> 0]]

OutputsInit ==
  \/ subject = "plane" /\ Init /\ OutputStands /\ TransmitterStands
  \/ subject = "output" /\ PlaneStands /\ Output!Init /\ TransmitterStands
  \/ subject = "transmitter" /\ PlaneStands /\ OutputStands /\ Transmitter!Init

OfPlane(step) == subject = "plane" /\ step /\ UNCHANGED <<subject, outputs, transmitter>>
OfOutput(step) == subject = "output" /\ step /\ UNCHANGED <<subject, vars, transmitter>>
OfTransmitter(step) == subject = "transmitter" /\ step /\ UNCHANGED <<subject, vars, outputs>>

OutputsNext == OfPlane(Next) \/ OfOutput(Output!Next) \/ OfTransmitter(Transmitter!Next)

\* A bind that may work does, a poll that may find the plane settled does; one
\* of them for each start of the output, which shares its conjuncts.
PlaneWorks(g) == IF g = 1 THEN Apply ELSE PollUp /\ Settled

\* Fairness of the one that moves; a conjunct may serve several, for the others
\* take no step.
OutputsSpec ==
  /\ OutputsInit /\ [][OutputsNext]_all
  /\ WF_all(\/ OfPlane(Poll) \/ OfOutput(Output!MainStep)
             \/ OfTransmitter(Transmitter!Scheduler))
  /\ WF_all(\/ OfOutput(main = "restart" /\ Output!Start)
             \/ OfTransmitter(Transmitter!QueueEvent))
  /\ \A k \in Threads : WF_all(OfOutput(Output!ThreadStep(k)))
  /\ \A g \in 1 .. MaxStarts, x \in Streams :
       /\ WF_all(OfOutput(Output!SenderStep(g, x)))
       /\ SF_all(OfPlane(PlaneWorks(g)) \/ OfOutput(Output!CheckError(g, x)))

-----------------------------------------------------------------------------
(* The components' properties, each of the behaviours of its component.    *)

\* The gate of a row compares with what that row was heard to send; both keep
\* their types.
BaselinesHeard == TypeOK /\ Transmitter!TypeOK /\ Transmitter!BaselineHeard

Recovers == Output!Recovers
RowsSettle == <>[](subject = "transmitter") => Transmitter!Settles /\ Transmitter!EventsFire
=============================================================================
