--------------------------- MODULE MarkerControl ---------------------------
(***************************************************************************)
(* Who moves a marker.  Browser sessions hold markers through the web      *)
(* server's threads (input/touch_remote.py); the frame loop takes what     *)
(* they ask once per frame and leaves their markers alone otherwise        *)
(* (input/input_manager.py), as do the mouse (input/mouse.py) and the      *)
(* person pin in Fully Automatic mode (runtime/services_detection_pin.py). *)
(* Markers are parked and the selection moves on (input/parking.py).       *)
(*                                                                         *)
(* Where a marker is does not count, only who moves it.  A session's time  *)
(* is how long it has been quiet: 0, within a quarter of a second, 1, and  *)
(* 2, past ten seconds.  Of the presses a frame brings the last decides.   *)
(* One of keyboard, controllers and OSC moves one marker in a frame.       *)
(* Assist mode corrects what a marker puts out and moves none.  Paths, the *)
(* wheel and what a session is told of a marker it lost are left out.      *)
(***************************************************************************)
EXTENDS Naturals, FiniteSets

CONSTANTS
  Tokens,      \* browser sessions
  N,           \* markers are 1 .. N, in the order of the configuration
  MaxSessions, \* MAX_SESSIONS
  Pins,        \* detection settings that are saved, as records [on, mode, follow]
  Budgets,     \* bounds, as records [opens, asks, strokes, edits]
  None

Markers == 1 .. N
Maybe(S) == S \cup {None}

Presses == [kind : {"glide", "reset"}, of : Markers]
Sessions == [marker : Maybe(Markers), push : Maybe(Markers), fresh : BOOLEAN, quiet : 0 .. 2,
             press : Maybe(Presses)]
Requests == [token : Tokens, marker : Markers]
Frames == [marker : Markers, holder : Tokens, push : Maybe(Markers), press : Maybe(Presses),
           live : BOOLEAN]
Moves == [by : {"mouse", "keyboard", "pad", "osc", "pin"}, marker : Markers]
PinSettings == [on : BOOLEAN, mode : {"replace", "assist"}, follow : 0 .. N]

ASSUME MarkerControlAssumption ==
  /\ N \in Nat \ {0} /\ MaxSessions \in Nat \ {0} /\ IsFiniteSet(Tokens)
  /\ Pins \subseteq PinSettings
  /\ Budgets \subseteq [opens : Nat, asks : Nat, strokes : Nat, edits : Nat]
  /\ None \notin Tokens \cup 0 .. N \cup Presses \cup Sessions \cup Requests \cup Moves

VARIABLES
  session,    \* _sessions: of a token, or None
  holder,     \* _holders: the token that holds a marker, or None
  newHolds,   \* _new_holds
  asking,     \* a request of a hold between its check and its call
  glide,      \* _remote_glides: whose glide moves a marker
  frames,     \* what the loop took and has not applied
  pc,         \* where the frame is
  move,       \* an input that has made its check: its source and marker
  controlled, \* _controlled_ids
  parked,     \* _parked_ids
  selected,   \* _selected_id
  waits,      \* _pin_waits_for_selection
  pin,        \* the detection settings
  remoteOn,   \* the touch remote is switched on
  modal,      \* a screen of the station's own is open
  grab,       \* the mouse: dragging, its aim, and the parked marker it keeps
  left,       \* what is left of the budget
  driven      \* ghost: the marker a pin that follows the selection drove last

remote == <<session, holder, newHolds>>
markers == <<controlled, parked, selected, waits, pin, remoteOn, driven>>
loop == <<glide, frames, pc, move>>
vars == <<remote, asking, loop, markers, modal, grab, left>>

Spend(what) == left[what] > 0 /\ left' = [left EXCEPT ![what] = @ - 1]

-----------------------------------------------------------------------------
(* The sessions.  Each operation is one critical section of the lock.      *)

\* push and press say what they were asked for.
Fresh == [marker |-> None, push |-> None, fresh |-> FALSE, quiet |-> 0, press |-> None]
Open == {t \in Tokens : session[t] # None}

\* _let_go, and _forget when the session ends with it.
LetGo(s) == [s EXCEPT !.marker = None, !.push = None, !.press = None]

\* Mutant: the marker stays with a session that let it go or ended.
WithoutFew(T) == holder

Without(T) == [m \in Markers |-> IF holder[m] \in T THEN None ELSE holder[m]]

Forget(T) ==
  /\ session' = [t \in Tokens |-> IF t \in T THEN None ELSE session[t]]
  /\ holder' = Without(T)

Heard(t) == [session[t] EXCEPT !.quiet = 0]

\* open(): past the limit the one heard from longest ago goes.  A token is new.
OpenSession ==
  LET new == {t \in Tokens : session[t] = None /\ (\A m \in Markers : glide[m] # t)
                                                /\ (\A f \in frames : f.holder # t)}
      t == CHOOSE x \in new : TRUE
      oldest == {o \in Open : \A q \in Open : session[q].quiet <= session[o].quiet}
  IN
  /\ Spend("opens") /\ remoteOn /\ new # {}
  /\ \E old \in IF Cardinality(Open) < MaxSessions THEN {{}} ELSE {{o} : o \in oldest} :
       /\ session' = [o \in Tokens |-> IF o = t THEN Fresh ELSE IF o \in old THEN None ELSE session[o]]
       /\ holder' = Without(old)
  /\ UNCHANGED <<newHolds, asking, loop, markers, modal, grab>>

Close(t) ==
  /\ session[t] # None /\ remoteOn /\ Forget({t})
  /\ UNCHANGED <<newHolds, asking, loop, markers, modal, grab, left>>

\* remote_hold: the route checks, the call comes when it comes.
Ask(t, m) ==
  /\ Spend("asks") /\ remoteOn /\ session[t] # None /\ m \in controlled
  /\ asking = None /\ asking' = [token |-> t, marker |-> m]
  /\ UNCHANGED <<remote, loop, markers, modal, grab>>

\* hold(): kept if it is the one already held, else taken from whoever has it.
Hold ==
  /\ asking # None /\ asking' = None
  /\ LET t == asking.token
         m == asking.marker
         taken == {o \in Open \ {t} : holder[m] = o}
     IN IF session[t] = None THEN UNCHANGED remote
        ELSE IF session[t].marker = m
        THEN session' = [session EXCEPT ![t] = Heard(t)] /\ UNCHANGED <<holder, newHolds>>
        ELSE /\ session' = [o \in Tokens |->
                  IF o = t THEN [LetGo(Heard(t)) EXCEPT !.marker = m]
                  ELSE IF o \in taken THEN LetGo(session[o]) ELSE session[o]]
             /\ holder' = [Without({t} \cup taken) EXCEPT ![m] = t]
             /\ newHolds' = newHolds \cup {m}
  /\ UNCHANGED <<loop, markers, modal, grab, left>>

\* drive() and act(), _holding: refused unless it still holds what it names.
Drive(t, m, push) ==
  /\ Spend("asks") /\ remoteOn /\ session[t] # None
  /\ session' = [session EXCEPT ![t] =
       IF @.marker = m THEN [Heard(t) EXCEPT !.push = IF push THEN m ELSE None, !.fresh = TRUE]
                      ELSE Heard(t)]
  /\ UNCHANGED <<holder, newHolds, asking, loop, markers, modal, grab>>

Act(t, m, press) ==
  /\ Spend("asks") /\ remoteOn /\ session[t] # None
  /\ session' = [session EXCEPT ![t] =
       IF @.marker = m THEN [Heard(t) EXCEPT !.press = [kind |-> press, of |-> m]] ELSE Heard(t)]
  /\ UNCHANGED <<holder, newHolds, asking, loop, markers, modal, grab>>

\* status(): a card that is open asks for it again and again.
Status(t) ==
  /\ remoteOn /\ session[t] # None /\ session' = [session EXCEPT ![t] = Heard(t)]
  /\ UNCHANGED <<holder, newHolds, asking, loop, markers, modal, grab, left>>

\* Time passes, for all of them.
Tick ==
  /\ session' = [t \in Tokens |->
       IF session[t] = None THEN None
       ELSE [session[t] EXCEPT !.quiet = IF @ < 2 THEN @ + 1 ELSE @, !.fresh = FALSE]]
  /\ session' # session
  /\ UNCHANGED <<holder, newHolds, asking, loop, markers, modal, grab, left>>

-----------------------------------------------------------------------------
(* The frame: what remotes ask, the mouse, an input, the pin.              *)

\* _apply_touch_remote, before it takes: holds that may not be.
Release ==
  /\ pc = "idle" /\ pc' = "take"
  /\ LET gone == {m \in Markers : holder[m] # None /\ (~remoteOn \/ m \notin controlled)}
         losing == {holder[m] : m \in gone}
     IN /\ session' = [t \in Tokens |-> IF t \in losing THEN LetGo(session[t]) ELSE session[t]]
        /\ holder' = Without(losing)
  /\ UNCHANGED <<newHolds, asking, glide, frames, move, markers, modal, grab, left>>

Target == IF grab.keep # None THEN grab.keep ELSE selected
Dragging == grab.active /\ grab.aim /\ Target # None

\* Mutant: a session that holds a marker is kept.
LapsedIdle(t) == session[t].quiet = 2 /\ session[t].marker = None

Lapsed(t) == session[t].quiet = 2

AfterRemotes == IF modal THEN "pin" ELSE "mouse"

\* take(), the glides whose session holds the marker no more, and detection
\* switched off by a new hold, if that works.
Take ==
  LET lapsed == {t \in Open : Lapsed(t)}
      holds == Without(lapsed)
      Frame(m) ==
        LET s == session[holds[m]]
        IN [marker |-> m, holder |-> holds[m], push |-> IF s.fresh THEN s.push ELSE None,
            press |-> s.press, live |-> s.fresh]
      heldNow == {m \in Markers : holds[m] # None}
  IN
  /\ pc = "take"
  /\ holder' = holds
  /\ session' = [t \in Tokens |->
       IF t \in lapsed \/ session[t] = None THEN None
       ELSE IF session[t].marker # None THEN [session[t] EXCEPT !.press = None] ELSE session[t]]
  /\ newHolds' = {}
  /\ frames' = {Frame(m) : m \in heldNow}
  /\ glide' = [m \in Markers |-> IF glide[m] = holds[m] THEN glide[m] ELSE None]
  /\ pin' \in IF newHolds \cap heldNow # {} THEN {pin, [pin EXCEPT !.on = FALSE]} ELSE {pin}
  /\ pc' = IF heldNow = {} THEN AfterRemotes ELSE "apply"
  /\ UNCHANGED <<asking, move, controlled, parked, selected, waits, remoteOn, driven, modal, grab, left>>

\* _apply_remote_frame: presses, then the stick, either of which ends a glide.
GlideIn(f) ==
  IF f.push # None THEN None
  ELSE IF f.press = None THEN glide[f.marker]
  ELSE IF f.press.kind = "glide" THEN f.holder ELSE None

\* The frames of markers come one after another; a glide may arrive.
ApplyFrame(f) ==
  /\ pc = "apply" /\ frames' = frames \ {f}
  /\ pc' = IF frames' = {} THEN AfterRemotes ELSE "apply"
  /\ LET g == GlideIn(f)
     IN IF f.marker \notin controlled THEN UNCHANGED glide
        ELSE \E now \in IF f.live THEN {g, None} ELSE {g} : glide' = [glide EXCEPT ![f.marker] = now]
  /\ UNCHANGED <<remote, asking, move, markers, modal, grab, left>>

Holds(m) == holder[m] # None
Dropped == [grab EXCEPT !.active = FALSE, !.aim = FALSE]

\* MouseHandler.update
Mouse ==
  /\ pc = "mouse"
  /\ IF grab.active /\ Target # None /\ Holds(Target)
     THEN grab' = Dropped /\ pc' = "input" /\ UNCHANGED move
     ELSE /\ UNCHANGED <<grab>>
          /\ IF Dragging /\ Target \in controlled
             THEN pc' = "move" /\ move' = [by |-> "mouse", marker |-> Target]
             ELSE pc' = "input" /\ UNCHANGED move
  /\ UNCHANGED <<remote, asking, glide, frames, markers, modal, left>>

\* What an input would move: the keyboard the selection, a controller its
\* slot's marker, neither a parked one; OSC any.
Steerable(by) ==
  IF by = "keyboard" THEN {selected} \ (parked \cup {None})
  ELSE IF by = "pad" THEN controlled \ parked ELSE controlled

\* InputManager.update checks, and moves the marker afterwards.
Check(by, m) == m \in Steerable(by) /\ ~Holds(m)

Input ==
  /\ pc = "input"
  /\ \/ pc' = "pin" /\ UNCHANGED move
     \/ \E by \in {"keyboard", "pad", "osc"}, m \in Markers :
          Check(by, m) /\ pc' = "move" /\ move' = [by |-> by, marker |-> m]
  /\ UNCHANGED <<remote, asking, glide, frames, markers, modal, grab, left>>

\* _resolve_pinned_marker
Pinned ==
  IF ~pin.on \/ pin.mode # "replace" THEN None
  ELSE IF pin.follow = 0 THEN IF waits THEN None ELSE selected
  ELSE IF pin.follow \in controlled THEN pin.follow ELSE None

\* apply_detection_pin; there may be nobody to follow.
Pin ==
  /\ pc = "pin"
  /\ \/ pc' = "idle" /\ UNCHANGED move
     \/ /\ Pinned # None /\ ~Holds(Pinned) /\ Pinned \notin parked
        /\ pc' = "move" /\ move' = [by |-> "pin", marker |-> Pinned]
  /\ UNCHANGED <<remote, asking, glide, frames, markers, modal, grab, left>>

Move ==
  /\ pc = "move" /\ move' = None
  /\ pc' = CASE move.by = "mouse" -> "input" [] move.by = "pin" -> "idle" [] OTHER -> "pin"
  /\ driven' = IF move.by = "pin" /\ pin.follow = 0 THEN move.marker ELSE driven
  /\ UNCHANGED <<remote, asking, glide, frames, controlled, parked, selected, waits, pin, remoteOn,
                 modal, grab, left>>

-----------------------------------------------------------------------------
(* The operator, OSC and the configuration, between frames or in update(). *)

\* How far k comes after m, round the markers; 0 is before the first.
After(m, k) == (k + N - 1 - m) % N

FirstAfter(m, S) == IF S = {} THEN None ELSE CHOOSE k \in S : \A j \in S : After(m, k) <= After(m, j)

\* rehome_selection, from the selection s among ids with P parked.
Rehomed(s, ids, P) ==
  IF s \in ids \ P THEN s ELSE FirstAfter(IF s \in ids THEN s ELSE 0, ids \ P)

PinFollows == pin.on /\ pin.mode = "replace" /\ pin.follow = 0

\* Mutant: only a marker that parks now makes it wait, an unpark ends it.
WaitingOnce(s, ids, P) == s \in ids \cap P /\ PinFollows

\* Moving off a marker that parked is no choice of the operator's.
Waiting(s, ids, P) == waits \/ (s \in ids \cap P /\ PinFollows)

\* set_parked, from the selection s: a drag of it stays on it.
SetParked(s, ids, P) ==
  /\ parked' = P
  /\ selected' = Rehomed(s, ids, P) /\ waits' = Waiting(s, ids, P)
  /\ grab' = IF s \in P \ parked /\ grab.keep = None THEN [grab EXCEPT !.keep = s] ELSE grab

\* _apply_osc_parks, first thing in update().
Park(m, on) ==
  /\ pc = "mouse" /\ Spend("edits") /\ m \in controlled
  /\ SetParked(selected, controlled, IF on THEN parked \cup {m} ELSE parked \ {m})
  /\ UNCHANGED <<remote, asking, loop, controlled, pin, remoteOn, driven, modal>>

\* A saved change of the markers: controlled ones come and go, then the parked.
EditMarkers(ids, P) ==
  /\ pc = "idle" /\ Spend("edits") /\ P \subseteq ids /\ <<ids, P>> # <<controlled, parked>>
  /\ controlled' = ids
  /\ LET s == IF selected \in ids \/ ids = controlled THEN selected ELSE FirstAfter(0, ids \ parked)
     IN SetParked(s, ids, P) /\ driven' = IF s = selected THEN driven ELSE None
  /\ UNCHANGED <<remote, asking, loop, pin, remoteOn, modal>>

\* A saved change of detection, which may fail to apply: a fresh start.
EditPin(d) ==
  /\ pc = "idle" /\ Spend("edits") /\ d # pin
  /\ pin' \in {d, pin} /\ waits' = FALSE /\ driven' = None
  /\ UNCHANGED <<remote, asking, loop, controlled, parked, selected, remoteOn, modal, grab>>

EditRemote ==
  /\ pc = "idle" /\ Spend("edits") /\ remoteOn' = ~remoteOn
  /\ UNCHANGED <<remote, asking, loop, controlled, parked, selected, waits, pin, driven, modal, grab>>

\* select(), by a digit key or a button that cycles.
Select(m) ==
  /\ pc \in {"idle", "pin"} /\ ~modal /\ Spend("strokes")
  /\ m \in controlled \ parked
  /\ selected' = m /\ waits' = FALSE /\ driven' = None
  /\ UNCHANGED <<remote, asking, loop, controlled, parked, pin, remoteOn, modal, grab>>

\* _grab: a parked marker leaves the selection alone.
Grab(m) ==
  /\ pc = "idle" /\ ~modal /\ Spend("strokes")
  /\ m \in controlled /\ ~Holds(m)
  /\ grab' = [active |-> TRUE, aim |-> FALSE, keep |-> IF m \in parked THEN m ELSE None]
  /\ IF m \in parked THEN UNCHANGED <<selected, waits, driven>>
     ELSE selected' = m /\ waits' = FALSE /\ driven' = None
  /\ UNCHANGED <<remote, asking, loop, controlled, parked, pin, remoteOn, modal>>

\* on_pointer_move past the dead band, and a right click.
Aim ==
  /\ pc = "idle" /\ ~modal /\ Spend("strokes")
  /\ grab.active /\ grab' = [grab EXCEPT !.aim = TRUE]
  /\ UNCHANGED <<remote, asking, loop, markers, modal>>

LetGoOfIt ==
  /\ pc = "idle" /\ ~modal /\ grab.active /\ grab' = Dropped
  /\ UNCHANGED <<remote, asking, loop, markers, modal, left>>

\* A screen opens or closes; the pointer and update() wait for it.
Screen ==
  /\ pc = "idle" /\ Spend("strokes") /\ modal' = ~modal
  /\ UNCHANGED <<remote, asking, loop, markers, grab>>

-----------------------------------------------------------------------------
Init ==
  /\ session = [t \in Tokens |-> None] /\ holder = [m \in Markers |-> None] /\ newHolds = {}
  /\ asking = None /\ glide = [m \in Markers |-> None] /\ frames = {} /\ pc = "idle" /\ move = None
  /\ controlled = Markers /\ parked = {} /\ selected = 1 /\ waits = FALSE /\ pin \in Pins
  /\ remoteOn = TRUE /\ modal = FALSE
  /\ grab = [active |-> FALSE, aim |-> FALSE, keep |-> None]
  /\ left \in Budgets /\ driven = None

Frame == Release \/ Take \/ (\E f \in frames : ApplyFrame(f)) \/ Mouse \/ Input \/ Pin \/ Move

Web ==
  \/ OpenSession \/ \E t \in Tokens : Close(t) \/ Status(t)
  \/ \E t \in Tokens, m \in Markers :
       \/ Ask(t, m)
       \/ \E push \in BOOLEAN : Drive(t, m, push)
       \/ \E press \in {"glide", "reset"} : Act(t, m, press)
  \/ Hold

Operator ==
  \/ \E m \in Markers : Select(m) \/ Grab(m) \/ \E on \in BOOLEAN : Park(m, on)
  \/ Aim \/ LetGoOfIt \/ Screen

Save == EditRemote \/ (\E d \in Pins : EditPin(d)) \/ \E ids, P \in SUBSET Markers : EditMarkers(ids, P)

Next == Frame \/ Web \/ Tick \/ Operator \/ Save

Spec == Init /\ [][Next]_vars

\* Frames follow each other, time passes, a request that has begun ends.
FairSpec == Spec /\ WF_vars(Frame) /\ WF_vars(Tick) /\ WF_vars(Hold)

-----------------------------------------------------------------------------
(* Properties.                                                             *)

\* Each variable has its values; a session's marker and the holder of a marker
\* name each other; the selection is a marker that inputs may move, or nothing
\* when there is none.
TypeOK ==
  /\ session \in [Tokens -> Maybe(Sessions)] /\ holder \in [Markers -> Maybe(Tokens)]
  /\ \A m \in Markers, t \in Tokens : holder[m] = t <=> session[t] # None /\ session[t].marker = m
  /\ newHolds \subseteq Markers /\ Cardinality(Open) <= MaxSessions
  /\ asking \in Maybe(Requests)
  /\ glide \in [Markers -> Maybe(Tokens)]
  /\ frames \subseteq Frames
  /\ pc \in {"idle", "take", "apply", "mouse", "input", "pin", "move"}
  /\ move \in Maybe(Moves) /\ pin \in PinSettings
  /\ parked \subseteq controlled /\ controlled \subseteq Markers
  /\ IF controlled \subseteq parked THEN selected = None ELSE selected \in controlled \ parked
  /\ {waits, remoteOn, modal} \subseteq BOOLEAN /\ driven \in Maybe(Markers)
  /\ grab \in [active : BOOLEAN, aim : BOOLEAN, keep : Maybe(Markers)]

\* "While a session holds a marker, every other input source leaves that marker
\* alone" (touch_remote.py), from the frame on that has taken the hold.
LeftAlone == move # None => (~Holds(move.marker) \/ move.marker \in newHolds)

\* A session moves the marker it was asked to, for nobody else's wish: neither
\* its own stick for an earlier marker nor the glide of who held this one.
AsAsked ==
  \A f \in frames : pc = "apply" =>
    /\ f.push \in {None, f.marker} /\ (f.press # None => f.press.of = f.marker)
    /\ GlideIn(f) \in {None, f.holder}

\* A pin that follows the selection drives no other marker than before unless
\* the operator selected one, detection started afresh or the marker went.
PinStays == move # None /\ move.by = "pin" /\ pin.follow = 0 => driven \in {None, move.marker}

\* A marker is moved only by who may.
InTheRightHands == LeftAlone /\ AsAsked /\ PinStays

\* A hold does not outlive what it stands on: again and again it is over, or
\* its session has just been heard of, the remote is on and the marker is a
\* controlled one.
Lapses ==
  \A m \in Markers :
    []<>(holder[m] = None \/ (remoteOn /\ m \in controlled /\ session[holder[m]].quiet = 0))
=============================================================================
