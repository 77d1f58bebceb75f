------------------------------ MODULE SafetyMC ------------------------------
(***************************************************************************)
(* Two components that ask for safety only, in one run without fairness: a *)
(* behaviour is one of the PSN output's sockets and threads, or of the     *)
(* controllers and their slots, and the other stands still.                *)
(***************************************************************************)
EXTENDS PsnOutput, TLC

CONSTANTS Shared, Devices, Kinds, Controlled, Edits, Budgets

VARIABLES
  subject,
  attached, off, lastId, seeding, slots, pins, saved, picks, clicks, capture, left

output == vars
controllers == <<attached, off, lastId, seeding, slots, pins, saved, picks, clicks, capture, left>>

-----------------------------------------------------------------------------
(* The instances.  Sockets and threads of the output are only names, and   *)
(* its two streams behave alike.                                           *)

Names == Permutations(Sockets) \cup Permutations(Threads) \cup Permutations(Streams)

\* Two gamepads may share the socket of a radio; the other takes either kind.
Device(kind, key) == [kind |-> kind, key |-> key]
SlotDevices == {Device("gamepad", 1), Device("gamepad", 2), Device("mouse3d", 2)}

\* Nothing pinned, two the other way round, and one with a gap before it.
PinAt(key) == [key |-> key, kind |-> "gamepad"]
SlotEdits ==
  {[i \in {} |-> None], [i \in {1, 2} |-> PinAt(3 - i)], [i \in {3} |-> PinAt(2)]}

Budget(n, c, e) == [plugs |-> n, clicks |-> c, saves |-> e]
SlotBudgets == {Budget(3, 1, 0), Budget(3, 0, 1), Budget(2, 1, 1), Budget(1, 2, 0)}

SlotKinds == <<"mouse3d", "gamepad">>
SlotControlled == <<1, 2>>

Slots == INSTANCE ControllerSlots

ASSUME SafetyAssumption == Slots!ControllerSlotsAssumption

-----------------------------------------------------------------------------
(* The one that stands still is in one of its initial states.              *)

OutputStands == Init /\ up = {} /\ source = CHOOSE a \in Addrs : TRUE
SlotsStand == Slots!Init /\ DOMAIN pins = {} /\ left = Budget(3, 0, 1)

SafetyInit ==
  \/ subject = "output" /\ Init /\ SlotsStand
  \/ subject = "slots" /\ OutputStands /\ Slots!Init

SafetyNext ==
  \/ subject = "output" /\ Next /\ UNCHANGED <<subject, controllers>>
  \/ subject = "slots" /\ Slots!Next /\ UNCHANGED <<subject, output>>

SafetySpec == SafetyInit /\ [][SafetyNext]_<<subject, output, controllers>>

-----------------------------------------------------------------------------
\* The pins of the controllers' slots, and both components' types.
PinsHold == TypeOK /\ (subject = "slots" => Slots!TypeOK /\ Slots!PinsHold)
SeatsKept == Slots!SeatsKept
=============================================================================
