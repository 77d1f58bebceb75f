----------------------------- MODULE NetworkMC -----------------------------
(***************************************************************************)
(* The station on its network, in one run: a behaviour is one of the loops *)
(* that follow the station's address, of the catalog's send thread, or of  *)
(* PSN input, and the others stand still.                                  *)
(***************************************************************************)
EXTENDS StationFollow

CONSTANTS
  MarkerIds, EntrySize, Separator, Rooms, MaxChunks, MaxEdits, MaxFailures,
  Trackers, Ttl, MaxStarts, MaxOrders

VARIABLES
  subject,
  version, handler, pending, sender, batch, burst, kind, cursor, room, edits, failures,
  wire, owed, promise,
  enabled, ignored, generation, receiver, thread, todo, markers, due, orders

sending == <<version, handler, pending, sender, batch, burst, kind, cursor, room, edits, failures,
            wire, owed, promise>>
receiving == <<enabled, ignored, generation, receiver, thread, todo, markers, due, orders>>
all == <<subject, vars, sending, receiving>>

-----------------------------------------------------------------------------
(* The instances.                                                          *)

\* One entry that fits with another, one that fills most of the smaller room,
\* one that fits the larger room only.
EntrySizes == [i \in MarkerIds |-> CASE i = 1 -> 1 [] i = 3 -> 4 [] OTHER -> 2]

Sender == INSTANCE CatalogSender WITH Ids <- MarkerIds, Size <- EntrySize, pc <- sender
Receiver == INSTANCE PsnReceiver WITH Ids <- Trackers

ASSUME NetworkAssumption ==
  /\ Sender!CatalogSenderAssumption /\ Receiver!PsnReceiverAssumption

-----------------------------------------------------------------------------
(* A component that stands still is in one of its initial states.          *)

FollowStands ==
  /\ addr = None /\ portTaken = FALSE /\ beaconIp = None /\ catalogIp = None
  /\ reopen = [l \in Loops |-> FALSE] /\ pc = [l \in Loops |-> "open"]
  /\ sock = [l \in Loops |-> None] /\ lost = {} /\ tries = 0
  /\ downPolls = 0 /\ sawOutage = FALSE /\ suspended = FALSE
  /\ throttle = 0 /\ request = None /\ changes = 0

SenderStands ==
  /\ version = [i \in MarkerIds |-> 0] /\ handler = None /\ pending = {}
  /\ sender = "idle" /\ batch = {} /\ burst = <<>> /\ kind = "heartbeat" /\ cursor = 0
  /\ room = (CHOOSE r \in Rooms : TRUE) /\ edits = 1 /\ failures = 0
  /\ wire = [i \in MarkerIds |-> 0] /\ owed = wire /\ promise = None

ReceiverStands ==
  /\ enabled = FALSE /\ ignored = {} /\ generation = 0 /\ receiver = 0
  /\ thread = [g \in 1 .. MaxStarts |-> Receiver!Unborn] /\ todo = <<>>
  /\ markers = [i \in Trackers |-> None] /\ due = TRUE /\ orders = 0

NetworkInit ==
  \/ subject = "follow" /\ Init /\ SenderStands /\ ReceiverStands
  \/ subject = "sender" /\ FollowStands /\ Sender!Init /\ ReceiverStands
  \/ subject = "receiver" /\ FollowStands /\ SenderStands /\ Receiver!Init

OfFollow(step) == subject = "follow" /\ step /\ UNCHANGED <<subject, sending, receiving>>
OfSender(step) == subject = "sender" /\ step /\ UNCHANGED <<subject, vars, receiving>>
OfReceiver(step) == subject = "receiver" /\ step /\ UNCHANGED <<subject, vars, sending>>

NetworkNext == OfFollow(Next) \/ OfSender(Sender!Next) \/ OfReceiver(Receiver!Next)

\* Fairness of the one that moves; a conjunct serves them all, for the others
\* take no step.
NetworkSpec ==
  /\ NetworkInit /\ [][NetworkNext]_all
  /\ WF_all(OfFollow(Poll) \/ OfSender(Sender!SendTo))
  /\ WF_all(OfFollow(Answer) \/ OfSender(Sender!RequestDelta))
  /\ \A l \in Loops : WF_all(OfFollow(LoopStep(l)))

-----------------------------------------------------------------------------
(* The components' properties, each of the behaviours of its component.    *)

NetworkTypeOK == TypeOK /\ Sender!TypeOK /\ Receiver!TypeOK

SenderKeepsItsWord == Sender!DeltaNotLost /\ Sender!RotationKeepsWord
ReadsWhatIsHeard == Receiver!ReadsWhatIsHeard

\* A heartbeat of a catalog that has entries comes round again and again.
Spreads == []<><<OfSender(Sender!SendHeartbeat)>>_all => Sender!Spreads
=============================================================================
