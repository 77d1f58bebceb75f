-------------------------- MODULE ControllerSlots --------------------------
(***************************************************************************)
(* Which slot a controller holds (input/controller_slots.py), folded once  *)
(* per frame from what is attached and changed by the web page's queued    *)
(* clicks (runtime/app_commands.py), by Pin here (input/                   *)
(* slot_pin_capture.py) and by pins edited in config.toml; and the marker  *)
(* each slot drives (input/input_manager.py).                              *)
(*                                                                         *)
(* Slots count from 1.  Sockets are numbers in port order, and every       *)
(* controller has the same name.  Of a press what counts is who presses;   *)
(* notes, Identify and the screens that keep Pin here from arming are left *)
(* out.                                                                    *)
(***************************************************************************)
EXTENDS SequencesExt

CONSTANTS
  Shared,     \* sockets of a radio that several controllers come through
  Devices,    \* what is plugged in: a kind of controller, and a socket or None
  Kinds,      \* the kinds of controller, in the order of _KIND_ORDER
  Controlled, \* the controlled markers, in the order of the configuration
  Edits,      \* what config.toml may come to pin, as functions from slots
  Budgets,    \* bounds, as records [plugs, clicks, saves]: controllers plugged in,
              \* clicks on the page, and settings saved
  None

KindSet == Range(Kinds)
Ports == {d.key : d \in Devices} \ {None}

ControllerSlotsAssumption ==
  /\ Kinds \in Seq(STRING) /\ IsFiniteSet(Devices) /\ Ports \subseteq Nat \ {0}
  /\ {d.kind : d \in Devices} \subseteq KindSet
  /\ Controlled \in Seq(Nat \ {0}) /\ IsInjective(Controlled)
  /\ \A e \in Edits :
       /\ DOMAIN e \subseteq Nat \ {0} /\ IsFiniteSet(DOMAIN e)
       /\ e \in [DOMAIN e -> [key : Ports, kind : KindSet]]
       /\ \A i, j \in DOMAIN e : e[i].key = e[j].key => i = j
  /\ Budgets \subseteq [plugs : Nat, clicks : Nat, saves : Nat] /\ None \notin Nat

VARIABLES
  attached,  \* the controllers that are plugged in
  off,       \* the kinds that are switched off
  lastId,    \* the id given last
  seeding,   \* _seeding
  slots,     \* _slots
  pins,      \* _pins
  saved,     \* the running configuration's slot_pins
  picks,     \* the running configuration's slot_markers
  clicks,    \* the queue of the web page
  capture,   \* _pin_capture: its slot, and who pressed
  left       \* what is left of the budget

table == <<seeding, slots, pins>>
vars == <<attached, off, lastId, table, saved, picks, clicks, capture, left>>

-----------------------------------------------------------------------------
(* Slots.                                                                  *)

EmptySlot == [kind |-> None, key |-> None, state |-> "empty", id |-> None, pinned |-> FALSE]

Connected(c, pinned) ==
  [kind |-> c.kind, key |-> c.key, state |-> "connected", id |-> c.id, pinned |-> pinned]

\* _pinned_absent.
PinnedAbsent(pin) ==
  [kind |-> pin.kind, key |-> pin.key, state |-> "missing", id |-> None, pinned |-> TRUE]

IsTaken(slot) == slot.state = "connected"

\* _trimmed
Trimmed(s) ==
  SubSeq(s, 1, Max({0} \cup {i \in DOMAIN s : s[i].state # "empty"}))

KindRank(kind) == CHOOSE k \in DOMAIN Kinds : Kinds[k] = kind

\* By kind, and by who came first.
Ahead(c, d) ==
  \/ KindRank(c.kind) < KindRank(d.kind)
  \/ c.kind = d.kind /\ c.id < d.id

\* _unique_keys: of those behind one socket the first keeps it.
UniqueKeys(cs) ==
  {[c EXCEPT !.key = IF \E d \in cs : d.key = c.key /\ Ahead(d, c) THEN None ELSE @] : c \in cs}

\* _live_controllers
Live == UniqueKeys({c \in attached : c.kind \notin off})

\* A set as a sequence: each after those that come before it.
Ordered(S, Before(_, _)) ==
  [k \in 1 .. Cardinality(S) |-> CHOOSE x \in S : Cardinality({y \in S : Before(y, x)}) = k - 1]

\* _port_order: those with a socket, and after them the others.
PortOrder(cs) ==
  LET Before(c, d) ==
        CASE c.key # None /\ d.key # None -> c.key < d.key
          [] c.key = None /\ d.key = None -> Ahead(c, d)
          [] OTHER -> c.key # None
  IN Ordered(cs, Before)

-----------------------------------------------------------------------------
(* update.                                                                 *)

\* _seeded: pinned sockets at their pins, the others in port order around them.
Seeded(cs) ==
  LET pinnedKeys == {pins[i].key : i \in DOMAIN pins}
      others == PortOrder({c \in cs : c.key \notin pinnedKeys})
      rank(i) == Cardinality((1 .. i) \ DOMAIN pins)
      size == CHOOSE n \in 0 .. Len(others) + Max({0} \cup DOMAIN pins) :
                /\ rank(n) >= Len(others) /\ \A i \in DOMAIN pins : i <= n
                /\ n = 0 \/ n \in DOMAIN pins \/ rank(n) = Len(others)
  IN [i \in 1 .. size |->
        IF i \in DOMAIN pins
        THEN LET there == {c \in cs : c.key = pins[i].key}
             IN IF there = {} THEN PinnedAbsent(pins[i])
                ELSE Connected(CHOOSE c \in there : TRUE, TRUE)
        ELSE IF rank(i) <= Len(others) THEN Connected(others[rank(i)], FALSE)
        ELSE EmptySlot]

\* A slot whose controller has gone is missing.
Carried(cs) ==
  [i \in DOMAIN slots |->
     IF IsTaken(slots[i]) /\ slots[i].id \notin {c.id : c \in cs}
     THEN [slots[i] EXCEPT !.state = "missing", !.id = None]
     ELSE slots[i]]

\* The slot a controller comes back to: its socket's pin, or one its kind left
\* at that socket.
OwnSlots(s, c) ==
  LET open == {i \in DOMAIN s : ~IsTaken(s[i])}
      pinnedAt == {i \in open \cap DOMAIN pins : pins[i].key = c.key}
  IN IF pinnedAt # {} THEN pinnedAt
     ELSE {i \in open : c.key # None /\ s[i].kind = c.kind /\ s[i].key = c.key}

\* Mutant of VacantFor: a pinned slot that is free goes to anyone.
VacantAny(s, c) ==
  {i \in DOMAIN s : ~IsTaken(s[i]) /\ (s[i].kind = c.kind \/ s[i].state = "empty")}

\* _vacant_for: one of its kind that is not pinned; the only slot goes to any kind.
VacantFor(s, c) ==
  LET vacant == {i \in DOMAIN s : ~IsTaken(s[i])} \ DOMAIN pins
  IN IF Len(s) = 1 THEN vacant
     ELSE {i \in vacant : s[i].kind = c.kind \/ s[i].state = "empty"}

Newcomers(s, cs) == {c \in cs : \A i \in DOMAIN s : s[i].id # c.id}

\* Who comes back takes the first of its slots; no two come to the same.
Reclaimed(s, cs) ==
  [i \in DOMAIN s |->
     LET back == {c \in Newcomers(s, cs) : OwnSlots(s, c) # {} /\ Min(OwnSlots(s, c)) = i}
     IN IF back = {} THEN s[i] ELSE Connected(CHOOSE c \in back : TRUE, i \in DOMAIN pins)]

\* Its slot, or the last.
Placed(s, c) ==
  IF VacantFor(s, c) = {} THEN Append(s, Connected(c, FALSE))
  ELSE [s EXCEPT ![Min(VacantFor(s, c))] = Connected(c, FALSE)]

\* Mutant of Frozen: newcomers sit down before those who come back.
FrozenPlacedFirst(cs) ==
  LET seated == FoldLeft(Placed, Carried(cs), PortOrder(Newcomers(Carried(cs), cs)))
  IN Reclaimed(seated, cs)

\* _frozen_update: those who come back first, then the others in port order.
Frozen(cs) ==
  LET back == Reclaimed(Carried(cs), cs)
  IN FoldLeft(Placed, back, PortOrder(Newcomers(back, cs)))

\* The slots once this frame's controllers are folded in.
Refreshed == IF seeding THEN Seeded(Live) ELSE Frozen(Live)

-----------------------------------------------------------------------------
(* Pins: t is a table, as its slots and its pins.                          *)

Without(f, i) == [j \in DOMAIN f \ {i} |-> f[j]]
With(f, i, v) == [j \in DOMAIN f \cup {i} |-> IF j = i THEN v ELSE f[j]]

Padded(s, i) == s \o [j \in 1 .. Max({0, i - Len(s)}) |-> EmptySlot]

\* Who holds a slot and has a socket.
CanPin(s, id) == \E i \in DOMAIN s : s[i].id = id /\ s[i].key # None

\* pin: the controller's slot and slot i change places, their pins with them.
Pinned(t, i, id) ==
  LET held == SelectInSeq(t.slots, LAMBDA s : s.id = id)
      moving == t.slots[held]
      own == {j \in DOMAIN t.pins : t.pins[j].key = moving.key}
      kept == [j \in DOMAIN t.pins \ own |-> t.pins[j]]
      wide == Padded(t.slots, i)
      traded == IF i \in DOMAIN kept THEN With(Without(kept, i), held, kept[i]) ELSE kept
      swapped == [wide EXCEPT ![held] = [wide[i] EXCEPT !.pinned = i \in DOMAIN kept]]
  IN IF ~CanPin(t.slots, id) THEN t
     ELSE [slots |-> Trimmed([swapped EXCEPT ![i] = [moving EXCEPT !.pinned = TRUE]]),
           pins |-> With(traded, i, [key |-> moving.key, kind |-> moving.kind])]

\* unpin, of the slots in I: nothing moves.
Unpinned(t, I) ==
  [slots |-> Trimmed([i \in DOMAIN t.slots |->
               IF i \in I THEN [t.slots[i] EXCEPT !.pinned = FALSE] ELSE t.slots[i]]),
   pins |-> [i \in DOMAIN t.pins \ I |-> t.pins[i]]]

\* _place_absent_pin: who was there goes to the end.
PlacedAbsent(t, i, pin) ==
  LET wide == Padded(t.slots, i)
      there == IF wide[i].state = "empty" THEN <<>> ELSE <<[wide[i] EXCEPT !.pinned = FALSE]>>
  IN [slots |-> Trimmed([wide EXCEPT ![i] = PinnedAbsent(pin)] \o there),
      pins |-> With(t.pins, i, pin)]

\* One of the pins new; a slot it is pinned to already keeps it.
Put(new, t, i) ==
  LET at == {j \in DOMAIN t.slots : IsTaken(t.slots[j]) /\ t.slots[j].key = new[i].key}
  IN IF i \in DOMAIN t.pins /\ t.pins[i] = new[i] THEN t
     ELSE IF at # {} THEN Pinned(t, i, t.slots[Min(at)].id)
     ELSE PlacedAbsent(t, i, new[i])

\* set_pins, of a frozen table: the pins that changed are dropped, then placed
\* from the first slot on.
Replaced(t, new) ==
  LET kept == {i \in DOMAIN t.pins \cap DOMAIN new : t.pins[i] = new[i]}
  IN FoldLeft(LAMBDA u, i : Put(new, u, i), Unpinned(t, DOMAIN t.pins \ kept),
              Ordered(DOMAIN new, <))

Become(t) == slots' = t.slots /\ pins' = t.pins
Now == [slots |-> slots, pins |-> pins]

-----------------------------------------------------------------------------
(* The marker of a slot.                                                   *)

\* _valid_picks; 0 is NO_MARKER.
ValidPicks ==
  [i \in {j \in DOMAIN picks : picks[j] \in Range(Controlled) \cup {0}} |-> picks[i]]

\* The markers no slot picked, in the order of the configuration.
Rank(m) == CHOOSE k \in DOMAIN Controlled : Controlled[k] = m
Spare ==
  LET Before(m, n) == Rank(m) < Rank(n)
  IN Ordered(Range(Controlled) \ Range(ValidPicks), Before)

\* slot_markers: its pick, or the next marker no slot picked.
SlotMarkers(size) ==
  LET spare == Spare
      rank(i) == Cardinality((1 .. i) \ DOMAIN ValidPicks)
  IN [i \in 1 .. size |->
        CASE i \in DOMAIN ValidPicks -> IF ValidPicks[i] = 0 THEN None ELSE ValidPicks[i]
          [] i \notin DOMAIN ValidPicks /\ rank(i) <= Len(spare) -> spare[rank(i)]
          [] OTHER -> None]

\* pick_marker: every slot keeps what it drives, and the one that drove m
\* takes what slot i drove.
Picked(size, i, m) ==
  LET drives == SlotMarkers(size)
      asIs == [j \in {k \in DOMAIN ValidPicks : k > size \/ ValidPicks[k] = 0}
                     \cup {k \in 1 .. size : drives[k] # None} |->
                 IF j <= size /\ drives[j] # None THEN drives[j] ELSE ValidPicks[j]]
      holders == {j \in DOMAIN asIs \ {i} : asIs[j] = m}
  IN With([j \in DOMAIN asIs |->
             IF j \in holders THEN IF drives[i] = None THEN 0 ELSE drives[i] ELSE asIs[j]],
          i, m)

\* _occupied
Occupied(s) == Cardinality({i \in DOMAIN s : s[i].state # "empty"})

\* _slot_marker_id; "selected" stands for the marker that is selected.
Drives(i) ==
  CASE slots[i].state \in {"reserved", "empty"} -> None
    [] slots[i].state \notin {"reserved", "empty"} /\ Occupied(slots) = 1 -> "selected"
    [] OTHER -> SlotMarkers(Len(slots))[i]

-----------------------------------------------------------------------------
(* Sockets and the operator.                                               *)

Spend(what) == left[what] > 0 /\ left' = [left EXCEPT ![what] = @ - 1]

Plug(d) ==
  /\ Spend("plugs") /\ lastId' = lastId + 1
  /\ d.key \in Ports \ Shared => \A c \in attached : c.key # d.key
  /\ attached' = attached \cup {[kind |-> d.kind, key |-> d.key, id |-> lastId']}
  /\ UNCHANGED <<off, table, saved, picks, clicks, capture>>

Unplug(c) ==
  /\ attached' = attached \ {c}
  /\ UNCHANGED <<off, lastId, table, saved, picks, clicks, capture, left>>

\* controller.enabled or mouse3d.enabled is saved: nothing is closed.
Switch(kind) ==
  /\ Spend("saves")
  /\ off' = IF kind \in off THEN off \ {kind} ELSE off \cup {kind}
  /\ UNCHANGED <<attached, lastId, table, saved, picks, clicks, capture>>

\* slot_ref: what a row of the page shows of its slot.
Ref(slot) == [kind |-> slot.kind, key |-> slot.key, state |-> slot.state, pinned |-> slot.pinned]

\* A button of a row is clicked, or a marker is picked in it.
Click(do, i, m) ==
  /\ Spend("clicks")
  /\ clicks' = Append(clicks, [do |-> do, slot |-> i, marker |-> m, ref |-> Ref(slots[i])])
  /\ UNCHANGED <<attached, off, lastId, table, saved, picks, capture>>

-----------------------------------------------------------------------------
(* The main loop.                                                          *)

\* A frame, or a poll of Pin here that sees no press.
Refresh ==
  /\ slots' = Refreshed
  /\ seeding' \in {seeding, FALSE}
  /\ UNCHANGED <<attached, off, lastId, pins, saved, picks, clicks, capture, left>>

\* check_controller_slot_actions, for one of them: an action for a slot that is
\* not what the row showed is dropped.
Act ==
  LET click == Head(clicks)
      i == click.slot
      shown == i \in DOMAIN slots /\ Ref(slots[i]) = click.ref
      Do(what) == click.do = what /\ shown
  IN
  /\ clicks # <<>> /\ clicks' = Tail(clicks)
  /\ IF Do("forget") /\ slots[i].state = "missing"
     THEN slots' = [slots EXCEPT ![i].state = "reserved"] /\ pins' = pins
     ELSE IF Do("unpin") /\ i \in DOMAIN pins THEN Become(Unpinned(Now, {i})) ELSE UNCHANGED <<slots, pins>>
  /\ saved' = IF Do("unpin") /\ i \in DOMAIN pins THEN pins' ELSE saved
  /\ capture' = CASE Do("pin") /\ capture = None -> [slot |-> i, pressed |-> None]
                  [] OTHER -> capture
  /\ picks' = IF /\ Do("marker") /\ slots[i].state \in {"connected", "missing"}
                 /\ Occupied(slots) # 1 /\ click.marker \in Range(Controlled)
              THEN Picked(Len(slots), i, click.marker) ELSE picks
  /\ UNCHANGED <<attached, off, lastId, seeding, left>>

\* A button goes down on a controller while Pin here waits.
Press ==
  /\ capture # None /\ capture.pressed = None
  /\ slots' = Refreshed
  /\ \E c \in Live : capture' = [capture EXCEPT !.pressed = c.id]
  /\ UNCHANGED <<attached, off, lastId, seeding, pins, saved, picks, clicks, left>>

\* The press is over, or is held for too long: _pin_pressed, _end_slot_pin_capture.
EndCapture ==
  /\ capture # None /\ capture.pressed # None
  /\ Become(Pinned([slots |-> Refreshed, pins |-> pins], capture.slot, capture.pressed))
  /\ saved' = IF CanPin(Refreshed, capture.pressed) THEN pins' ELSE saved
  /\ capture' = None
  /\ UNCHANGED <<attached, off, lastId, seeding, picks, clicks, left>>

\* Nobody pressed anything in time, Escape, or Cancel on the page.
GiveUp ==
  /\ capture # None
  /\ slots' = Refreshed \/ UNCHANGED slots
  /\ capture' = None
  /\ UNCHANGED <<attached, off, lastId, seeding, pins, saved, picks, clicks, left>>

\* set_pins: while seeding the next frame seeds with them.
TakePins(new) ==
  IF seeding THEN pins' = new /\ UNCHANGED slots ELSE Become(Replaced(Now, new))

\* config.toml was edited by hand and is read again.
Reload(new) ==
  /\ Spend("saves")
  /\ new # saved /\ saved' = new
  /\ TakePins(new)
  /\ UNCHANGED <<attached, off, lastId, seeding, picks, clicks, capture>>

-----------------------------------------------------------------------------
Init ==
  /\ attached = {} /\ off = {} /\ lastId = 0
  /\ seeding = TRUE /\ slots = <<>>
  /\ pins \in Edits /\ saved = pins
  /\ picks = [i \in {} |-> 0]
  /\ clicks = <<>> /\ capture = None /\ left \in Budgets

Next ==
  \/ \E d \in Devices : Plug(d)
  \/ \E c \in attached : Unplug(c)
  \/ \E kind \in KindSet : Switch(kind)
  \/ \E i \in DOMAIN slots :
       \/ \E do \in {"forget", "pin", "unpin"} : Click(do, i, None)
       \/ \E m \in Range(Controlled) : Click("marker", i, m)
  \/ Refresh \/ Act \/ Press \/ EndCapture \/ GiveUp
  \/ \E new \in Edits : Reload(new)

Spec == Init /\ [][Next]_vars

-----------------------------------------------------------------------------
TypeOK ==
  /\ attached \subseteq [kind : KindSet, key : Ports \cup {None}, id : 1 .. lastId]
  /\ off \subseteq KindSet /\ seeding \in BOOLEAN
  /\ slots \in Seq([kind : KindSet \cup {None}, key : Ports \cup {None},
                    state : {"connected", "missing", "reserved", "empty"},
                    id : 1 .. lastId \cup {None}, pinned : BOOLEAN])
  /\ \A i \in DOMAIN pins : pins[i] \in [key : Ports, kind : KindSet]
  /\ \A i \in DOMAIN picks : picks[i] \in Range(Controlled) \cup {0}
  /\ capture # None => capture.pressed \in 1 .. lastId \cup {None}

\* Where a controller that is plugged in sits.
SeatOf(s, id) == {i \in DOMAIN s : s[i].id = id}
Keys(of) == [i \in DOMAIN of |-> of[i].key]

\* No controller sits in two slots.  The table pins what the configuration pins,
\* through clicks, Pin here and edits by hand; no socket is pinned twice; and
\* once the table is frozen each pinned slot is its socket's: nothing else is
\* ever seated there.
PinsHold ==
  /\ \A c \in attached : Cardinality(SeatOf(slots, c.id)) <= 1
  /\ Keys(pins) = Keys(saved)
  /\ \A i, j \in DOMAIN pins : pins[i].key = pins[j].key => i = j
  /\ ~seeding => \A i \in DOMAIN pins :
                   i \in DOMAIN slots /\ slots[i].pinned /\ slots[i].key = pins[i].key

\* Pin here pins who pressed; a socket that has its pin already is pinned again.
PinsHere == EndCapture /\ CanPin(Refreshed, capture.pressed)

\* A step that makes no pin moves nobody.
SeatsStay ==
  (~seeding /\ pins' = pins /\ saved' = saved /\ ~PinsHere) =>
    /\ \A i \in DOMAIN slots : IsTaken(slots[i]) /\ slots'[i].id # slots[i].id
                                 => slots[i].id \notin {c.id : c \in Live}
    /\ \A i \in DOMAIN slots :
         /\ IsTaken(slots[i]) /\ slots'[i].id = slots[i].id /\ picks' = picks
         /\ Occupied(slots) > 1
         => Drives(i)' = Drives(i)
    /\ \A c \in Live :
         /\ SeatOf(slots, c.id) = {} /\ SeatOf(slots', c.id) # {}
         /\ OwnSlots(Carried(Live), c) # {}
         => SeatOf(slots', c.id) \cap OwnSlots(Carried(Live), c) # {}

\* Nobody moves but by a pin: whatever comes, goes, is forgotten or switched
\* off, a controller keeps its slot and, while others hold slots too, its
\* marker unless markers are picked; and who comes back to a socket gets a slot
\* that was left there, whoever arrives with it.
SeatsKept == [][SeatsStay]_vars
=============================================================================
