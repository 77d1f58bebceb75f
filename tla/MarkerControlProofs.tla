------------------------ MODULE MarkerControlProofs ------------------------
(***************************************************************************)
(* Proofs about MarkerControl, for any browsers, markers, pins and bounds: *)
(* the type invariant, and that a marker is moved only by who may.         *)
(***************************************************************************)
EXTENDS MarkerControl, FiniteSetTheorems, NaturalsInduction, WellFoundedInduction, TLAPS

\* What a session was asked is for the marker it holds.
SoundRecord(s) ==
  /\ s.push \in {None, s.marker}
  /\ s.press # None => s.press.of = s.marker

SessionSound(t) == session[t] # None => SoundRecord(session[t])

\* Sessions and holders name each other.
Remote ==
  /\ session \in [Tokens -> Maybe(Sessions)] /\ holder \in [Markers -> Maybe(Tokens)]
  /\ \A m \in Markers, t \in Tokens : holder[m] = t <=> session[t] # None /\ session[t].marker = m
  /\ \A t \in Tokens : SessionSound(t)
  /\ Cardinality(Open) <= MaxSessions

Loop ==
  /\ newHolds \subseteq Markers /\ asking \in Maybe(Requests)
  /\ glide \in [Markers -> Maybe(Tokens)] /\ frames \subseteq Frames
  /\ pc \in {"idle", "take", "apply", "mouse", "input", "pin", "move"} /\ move \in Maybe(Moves)

Choice ==
  /\ parked \subseteq controlled /\ controlled \subseteq Markers
  /\ IF controlled \subseteq parked THEN selected = None ELSE selected \in controlled \ parked
  /\ pin \in PinSettings /\ driven \in Maybe(Markers)
  /\ grab \in [active : BOOLEAN, aim : BOOLEAN, keep : Maybe(Markers)]

Switches == waits \in BOOLEAN /\ remoteOn \in BOOLEAN /\ modal \in BOOLEAN

\* What the loop took is one frame for a marker, and a glide that moves it is
\* the glide of who holds it.
FramesSound ==
  /\ pc # "apply" => frames = {}
  /\ \A f \in frames :
       /\ f.push \in {None, f.marker} /\ (f.press # None => f.press.of = f.marker)
       /\ glide[f.marker] \in {None, f.holder}
       /\ \A g \in frames : g.marker = f.marker => g = f

\* The pin moves the selection it has checked.
MoveSound ==
  /\ move # None <=> pc = "move"
  /\ move # None /\ move.by = "pin" =>
       /\ pin.on /\ pin.mode = "replace"
       /\ pin.follow = 0 => ~waits /\ move.marker = selected

\* A pin that follows the selection, and does not wait, drove it last.
DrivenSound == PinFollows /\ ~waits => driven \in {None, selected}

IInv == Remote /\ Loop /\ Choice /\ Switches /\ FramesSound /\ MoveSound /\ DrivenSound /\ LeftAlone

-----------------------------------------------------------------------------
(* Constants and operators.                                                *)

LEMMA NoneIsNothing ==
  /\ None \notin Tokens /\ None \notin Markers /\ None # 0
  /\ None \notin Presses /\ None \notin Sessions /\ None \notin Requests /\ None \notin Moves
  /\ Markers \subseteq 0 .. N /\ 0 \notin Markers /\ 1 \in Markers
BY MarkerControlAssumption DEF Markers

\* There is always a first marker after another.
LEMMA FirstAfterIsOne ==
  ASSUME NEW m \in 0 .. N, NEW S \in SUBSET Markers, S # {}
  PROVE  FirstAfter(m, S) \in S
<1> DEFINE D == {After(m, k) : k \in S}
           R == OpToRel(<, Nat)
<1>1. \A k \in S : After(m, k) \in Nat
  <2>1. ASSUME NEW k \in S PROVE After(m, k) \in Nat
    <3>1. N \in Nat \ {0} /\ k + N - 1 - m \in Nat
      BY MarkerControlAssumption DEF Markers
    <3>2. \A a \in Nat : a % N \in Nat
      BY <3>1
    <3>3. QED
      BY <3>1, <3>2 DEF After
  <2>2. QED
    BY <2>1
<1>2. D \subseteq Nat /\ D # {}
  BY <1>1
<1>3. PICK x \in D : \A y \in D : ~(<<y, x>> \in R)
  BY <1>2, NatLessThanWellFounded, WFMin
<1>4. ASSUME NEW y \in D PROVE x <= y
  <2>1. x \in Nat /\ y \in Nat
    BY <1>2
  <2>2. ~(<<y, x>> \in OpToRel(<, Nat))
    BY <1>3
  <2>3. ~(y < x)
    BY <2>1, <2>2 DEF OpToRel
  <2>4. QED
    BY <2>1, <2>3
<1>5. PICK k \in S : x = After(m, k)
  OBVIOUS
<1>6. \A j \in S : After(m, k) <= After(m, j)
  BY <1>4, <1>5
<1>7. QED
  BY <1>6 DEF FirstAfter

\* The selection is one of the markers an input may move, if there is one.
LEMMA RehomedIsIn ==
  ASSUME NEW s \in Maybe(Markers), NEW ids \in SUBSET Markers, NEW P \in SUBSET ids
  PROVE  /\ IF ids \subseteq P THEN Rehomed(s, ids, P) = None ELSE Rehomed(s, ids, P) \in ids \ P
         /\ s \in ids \ P => Rehomed(s, ids, P) = s
<1>1. CASE s \in ids \ P
  BY <1>1 DEF Rehomed
<1>2. CASE s \notin ids \ P
  <2> DEFINE k == IF s \in ids THEN s ELSE 0
  <2>1. k \in 0 .. N /\ Rehomed(s, ids, P) = FirstAfter(k, ids \ P)
    <3>1. 0 \in 0 .. N /\ ids \subseteq 0 .. N
      BY NoneIsNothing, MarkerControlAssumption
    <3>2. k \in 0 .. N
      BY <3>1
    <3>3. Rehomed(s, ids, P) = FirstAfter(k, ids \ P)
      BY <1>2 DEF Rehomed
    <3>4. QED
      BY <3>2, <3>3
  <2>2. CASE ids \ P = {}
    BY <1>2, <2>1, <2>2 DEF FirstAfter
  <2>3. CASE ids \ P # {}
    <3>1. FirstAfter(k, ids \ P) \in ids \ P
      BY <2>1, <2>3, FirstAfterIsOne
    <3>2. QED
      BY <1>2, <2>1, <2>3, <3>1
  <2>4. QED
    BY <2>2, <2>3
<1>3. QED
  BY <1>1, <1>2

-----------------------------------------------------------------------------
(* What becomes of a session's record.                                     *)

LEMMA FreshIsSound == Fresh \in Sessions /\ SoundRecord(Fresh) /\ Fresh.marker = None
BY DEF Fresh, Sessions, SoundRecord, Maybe

LEMMA LetGoIsSound ==
  ASSUME NEW s \in Sessions
  PROVE  LetGo(s) \in Sessions /\ SoundRecord(LetGo(s)) /\ LetGo(s).marker = None
BY DEF LetGo, Sessions, SoundRecord, Maybe

LEMMA HeardIsSound ==
  ASSUME NEW s \in Sessions, SoundRecord(s)
  PROVE  LET h == [s EXCEPT !.quiet = 0]
         IN  h \in Sessions /\ SoundRecord(h) /\ h.marker = s.marker
BY DEF Sessions, SoundRecord, Maybe

LEMMA HeldIsSound ==
  ASSUME NEW s \in Sessions, NEW m \in Markers
  PROVE  LET h == [LetGo(s) EXCEPT !.marker = m]
         IN  h \in Sessions /\ SoundRecord(h) /\ h.marker = m
BY DEF LetGo, Sessions, SoundRecord, Maybe

LEMMA PushedIsSound ==
  ASSUME NEW s \in Sessions, SoundRecord(s), NEW m \in Markers, s.marker = m, NEW push \in BOOLEAN
  PROVE  LET h == [s EXCEPT !.push = IF push THEN m ELSE None, !.fresh = TRUE]
         IN  h \in Sessions /\ SoundRecord(h) /\ h.marker = s.marker
BY DEF Sessions, SoundRecord, Maybe

LEMMA PressedIsSound ==
  ASSUME NEW s \in Sessions, SoundRecord(s), NEW m \in Markers, s.marker = m,
         NEW press \in {"glide", "reset"}
  PROVE  LET h == [s EXCEPT !.press = [kind |-> press, of |-> m]]
         IN  h \in Sessions /\ SoundRecord(h) /\ h.marker = s.marker
BY DEF Sessions, Presses, SoundRecord, Maybe

LEMMA TakenIsSound ==
  ASSUME NEW s \in Sessions, SoundRecord(s)
  PROVE  LET h == [s EXCEPT !.press = None]
         IN  h \in Sessions /\ SoundRecord(h) /\ h.marker = s.marker
BY DEF Sessions, SoundRecord, Maybe

LEMMA OlderIsSound ==
  ASSUME NEW s \in Sessions, SoundRecord(s)
  PROVE  LET h == [s EXCEPT !.quiet = IF @ < 2 THEN @ + 1 ELSE @, !.fresh = FALSE]
         IN  h \in Sessions /\ SoundRecord(h) /\ h.marker = s.marker
<1>1. s.quiet \in 0 .. 2 /\ (IF s.quiet < 2 THEN s.quiet + 1 ELSE s.quiet) \in 0 .. 2
  BY DEF Sessions
<1>2. QED
  BY <1>1 DEF Sessions, SoundRecord, Maybe

LEMMA SessionIs ==
  ASSUME Remote, NEW t \in Tokens, session[t] # None
  PROVE  session[t] \in Sessions /\ SoundRecord(session[t])
BY DEF Remote, SessionSound, Maybe

-----------------------------------------------------------------------------
(* Sessions and holders.                                                   *)

LEMMA OpenIsFinite ==
  /\ IsFiniteSet(Open) /\ Cardinality(Open) \in Nat
  /\ \A S \in SUBSET Open : IsFiniteSet(S) /\ Cardinality(S) <= Cardinality(Open)
<1>1. IsFiniteSet(Open)
  BY FS_Subset, MarkerControlAssumption DEF Open
<1>2. QED
  BY <1>1, FS_CardinalityType, FS_Subset

LEMMA WithoutIs ==
  ASSUME NEW T, holder \in [Markers -> Maybe(Tokens)]
  PROVE  /\ Without(T) \in [Markers -> Maybe(Tokens)]
         /\ \A m \in Markers : Without(T)[m] = IF holder[m] \in T THEN None ELSE holder[m]
BY DEF Without, Maybe

\* Holds that end: the sessions T lose theirs, the others keep what they hold.
LEMMA HoldsEnd ==
  ASSUME Remote, NEW T \in SUBSET Tokens, holder' = Without(T),
         session' \in [Tokens -> Maybe(Sessions)],
         \A t \in Tokens : session'[t] # None =>
           /\ SoundRecord(session'[t])
           /\ IF session[t] = None \/ t \in T THEN session'[t].marker = None
              ELSE session'[t].marker = session[t].marker,
         \A t \in Tokens \ T : session[t] # None => session'[t] # None,
         Cardinality(Open') <= MaxSessions
  PROVE  Remote' /\ \A m \in Markers : Holds(m)' => Holds(m) /\ holder'[m] = holder[m]
<1>1. /\ holder' \in [Markers -> Maybe(Tokens)]
      /\ \A m \in Markers : holder'[m] = IF holder[m] \in T THEN None ELSE holder[m]
  BY WithoutIs DEF Remote
<1>2. ASSUME NEW m \in Markers, NEW t \in Tokens
      PROVE  holder'[m] = t <=> session'[t] # None /\ session'[t].marker = m
  <2>1. t # None /\ m # None
    BY NoneIsNothing
  <2>2. holder[m] = t <=> session[t] # None /\ session[t].marker = m
    BY DEF Remote
  <2>3. holder'[m] = t <=> holder[m] = t /\ t \notin T
    BY <1>1, <2>1
  <2>4. session'[t] # None /\ session'[t].marker = m
          <=> t \notin T /\ session[t] # None /\ session[t].marker = m
    BY <2>1
  <2>5. QED
    BY <2>2, <2>3, <2>4
<1>3. \A t \in Tokens : SessionSound(t)'
  BY DEF SessionSound
<1>4. \A m \in Markers : Holds(m)' => Holds(m) /\ holder'[m] = holder[m]
  BY <1>1 DEF Holds
<1>5. QED
  BY <1>1, <1>2, <1>3, <1>4 DEF Remote

\* What a session is asked changes no hold.
LEMMA HoldsStay ==
  ASSUME Remote, holder' = holder,
         session' \in [Tokens -> Maybe(Sessions)],
         \A t \in Tokens : session'[t] = None <=> session[t] = None,
         \A t \in Tokens : session[t] # None =>
           SoundRecord(session'[t]) /\ session'[t].marker = session[t].marker
  PROVE  Remote' /\ \A m \in Markers : Holds(m)' => Holds(m) /\ holder'[m] = holder[m]
<1>1. holder' = Without({})
  BY DEF Remote, Without
<1>2. Cardinality(Open') <= MaxSessions
  <2>1. Open' = Open
    BY DEF Open
  <2>2. QED
    BY <2>1 DEF Remote
<1>3. QED
  BY <1>1, <1>2, HoldsEnd

\* A session that changes alone, and in what it is asked only.
LEMMA OneIsAsked ==
  ASSUME Remote, NEW t \in Tokens, session[t] # None,
         NEW h \in Sessions, SoundRecord(h), h.marker = session[t].marker,
         session' = [session EXCEPT ![t] = h], holder' = holder
  PROVE  Remote' /\ \A m \in Markers : Holds(m)' => Holds(m) /\ holder'[m] = holder[m]
<1>1. session' \in [Tokens -> Maybe(Sessions)]
  BY DEF Remote, Maybe
<1>2. session'[t] = h /\ h # None /\ \A u \in Tokens \ {t} : session'[u] = session[u]
  BY NoneIsNothing DEF Remote
<1>3. \A u \in Tokens : session[u] # None => SoundRecord(session'[u]) /\ session'[u].marker = session[u].marker
  BY <1>2 DEF Remote, SessionSound
<1>4. \A u \in Tokens : session'[u] = None <=> session[u] = None
  BY <1>2
<1>5. QED
  BY <1>1, <1>3, <1>4, HoldsStay

\* What a session is asked with no lock taken and no frame on its way.
LEMMA AskedStep ==
  ASSUME IInv, Remote', \A m \in Markers : Holds(m)' => Holds(m) /\ holder'[m] = holder[m],
         asking' \in Maybe(Requests), UNCHANGED <<newHolds, loop, markers, modal, grab>>
  PROVE  IInv'
<1>1. Loop' /\ Choice' /\ Switches'
  <2>1. Loop'
    BY DEF IInv, Loop, loop
  <2>2. Choice' /\ Switches'
    BY DEF IInv, Choice, Switches, markers
  <2>3. QED
    BY <2>1, <2>2
<1>2. FramesSound' /\ MoveSound' /\ DrivenSound'
  BY DEF IInv, FramesSound, MoveSound, DrivenSound, PinFollows, loop, markers
<1>3. LeftAlone'
  <2>1. move # None => move.marker \in Markers
    BY DEF IInv, Loop, Moves, Maybe
  <2>2. QED
    BY <2>1 DEF IInv, LeftAlone, loop
<1>4. QED
  BY <1>1, <1>2, <1>3 DEF IInv

LEMMA StatusStep == ASSUME IInv, NEW t \in Tokens, Status(t) PROVE IInv'
<1>1. session[t] # None /\ session' = [session EXCEPT ![t] = Heard(t)] /\ holder' = holder
  BY DEF Status
<1>2. Heard(t) \in Sessions /\ SoundRecord(Heard(t)) /\ Heard(t).marker = session[t].marker
  BY <1>1, SessionIs, HeardIsSound DEF IInv, Heard
<1>3. Remote' /\ \A m \in Markers : Holds(m)' => Holds(m) /\ holder'[m] = holder[m]
  BY <1>1, <1>2, OneIsAsked DEF IInv
<1>4. asking' \in Maybe(Requests) /\ UNCHANGED <<newHolds, loop, markers, modal, grab>>
  BY DEF Status, IInv, Loop
<1>5. QED
  BY <1>3, <1>4, AskedStep

LEMMA DriveStep ==
  ASSUME IInv, NEW t \in Tokens, NEW m \in Markers, NEW push \in BOOLEAN, Drive(t, m, push)
  PROVE  IInv'
<1>1. session[t] # None /\ holder' = holder
  BY DEF Drive
<1>2. Heard(t) \in Sessions /\ SoundRecord(Heard(t)) /\ Heard(t).marker = session[t].marker
  BY <1>1, SessionIs, HeardIsSound DEF IInv, Heard
<1>3. PICK h \in Sessions :
        /\ SoundRecord(h) /\ h.marker = session[t].marker
        /\ session' = [session EXCEPT ![t] = h]
  <2>1. CASE session[t].marker = m
    <3> DEFINE h == [Heard(t) EXCEPT !.push = IF push THEN m ELSE None, !.fresh = TRUE]
    <3>1. h \in Sessions /\ SoundRecord(h) /\ h.marker = session[t].marker
      <4>1. Heard(t).marker = m
        BY <1>2, <2>1
      <4>2. h \in Sessions /\ SoundRecord(h) /\ h.marker = Heard(t).marker
        BY ZenonT(60), <1>2, <4>1, PushedIsSound
      <4>3. QED
        BY Zenon, <1>2, <4>2
    <3>2. session' = [session EXCEPT ![t] = h]
      BY <2>1 DEF Drive
    <3>3. QED
      BY <3>1, <3>2
  <2>2. CASE session[t].marker # m
    <3>1. session' = [session EXCEPT ![t] = Heard(t)]
      BY <2>2 DEF Drive
    <3>2. QED
      BY <1>2, <3>1
  <2>3. QED
    BY <2>1, <2>2
<1>4. Remote' /\ \A k \in Markers : Holds(k)' => Holds(k) /\ holder'[k] = holder[k]
  BY <1>1, <1>3, OneIsAsked DEF IInv
<1>5. asking' \in Maybe(Requests) /\ UNCHANGED <<newHolds, loop, markers, modal, grab>>
  BY DEF Drive, IInv, Loop
<1>6. QED
  BY <1>4, <1>5, AskedStep

LEMMA ActStep ==
  ASSUME IInv, NEW t \in Tokens, NEW m \in Markers, NEW press \in {"glide", "reset"}, Act(t, m, press)
  PROVE  IInv'
<1>1. session[t] # None /\ holder' = holder
  BY DEF Act
<1>2. Heard(t) \in Sessions /\ SoundRecord(Heard(t)) /\ Heard(t).marker = session[t].marker
  BY <1>1, SessionIs, HeardIsSound DEF IInv, Heard
<1>3. PICK h \in Sessions :
        /\ SoundRecord(h) /\ h.marker = session[t].marker
        /\ session' = [session EXCEPT ![t] = h]
  <2>1. CASE session[t].marker = m
    <3> DEFINE h == [Heard(t) EXCEPT !.press = [kind |-> press, of |-> m]]
    <3>1. h \in Sessions /\ SoundRecord(h) /\ h.marker = session[t].marker
      <4> DEFINE s == Heard(t)
      <4>1. s \in Sessions /\ SoundRecord(s) /\ s.marker = m
        BY <1>2, <2>1
      <4> HIDE DEF s
      <4>2. [s EXCEPT !.press = [kind |-> press, of |-> m]] \in Sessions
            /\ SoundRecord([s EXCEPT !.press = [kind |-> press, of |-> m]])
            /\ [s EXCEPT !.press = [kind |-> press, of |-> m]].marker = m
        BY <4>1 DEF Sessions, Presses, SoundRecord, Maybe
      <4> QED
        BY <2>1, <4>2 DEF s
    <3>2. session' = [session EXCEPT ![t] = h]
      BY <2>1 DEF Act
    <3>3. QED
      BY <3>1, <3>2
  <2>2. CASE session[t].marker # m
    <3>1. session' = [session EXCEPT ![t] = Heard(t)]
      BY <2>2 DEF Act
    <3>2. QED
      BY <1>2, <3>1
  <2>3. QED
    BY <2>1, <2>2
<1>4. Remote' /\ \A k \in Markers : Holds(k)' => Holds(k) /\ holder'[k] = holder[k]
  BY <1>1, <1>3, OneIsAsked DEF IInv
<1>5. asking' \in Maybe(Requests) /\ UNCHANGED <<newHolds, loop, markers, modal, grab>>
  BY DEF Act, IInv, Loop
<1>6. QED
  BY <1>4, <1>5, AskedStep

LEMMA TickStep == ASSUME IInv, Tick PROVE IInv'
<1> DEFINE Older(s) == [s EXCEPT !.quiet = IF @ < 2 THEN @ + 1 ELSE @, !.fresh = FALSE]
<1>1. session' = [t \in Tokens |-> IF session[t] = None THEN None ELSE Older(session[t])]
  BY DEF Tick
<1>2. ASSUME NEW t \in Tokens, session[t] # None
      PROVE  /\ session'[t] \in Sessions /\ session'[t] # None
             /\ SoundRecord(session'[t]) /\ session'[t].marker = session[t].marker
  <2>1. session'[t] = Older(session[t])
    BY Zenon, <1>1, <1>2
  <2>2. /\ Older(session[t]) \in Sessions
        /\ SoundRecord(Older(session[t])) /\ Older(session[t]).marker = session[t].marker
    <3>1. session[t] \in Sessions /\ SoundRecord(session[t])
      BY <1>2, SessionIs DEF IInv
    <3>2. QED
      BY Zenon, <3>1, OlderIsSound
  <2>3. QED
    BY Zenon, <2>1, <2>2, NoneIsNothing
<1> HIDE DEF Older
<1>3. ASSUME NEW t \in Tokens, session[t] = None PROVE session'[t] = None
  BY Zenon, <1>1, <1>3
<1>4. session' \in [Tokens -> Maybe(Sessions)]
  <2>1. \A t \in Tokens : session'[t] \in Maybe(Sessions)
    BY <1>2, <1>3 DEF Maybe
  <2>2. session' = [t \in Tokens |-> session'[t]]
    BY <1>1
  <2>3. QED
    BY <2>1, <2>2
<1>5. Remote' /\ \A m \in Markers : Holds(m)' => Holds(m) /\ holder'[m] = holder[m]
  <2>1. holder' = holder
    BY DEF Tick
  <2>2. \A t \in Tokens : session'[t] = None <=> session[t] = None
    BY <1>2, <1>3
  <2>3. QED
    BY <1>2, <1>4, <2>1, <2>2, HoldsStay DEF IInv
<1>6. asking' \in Maybe(Requests) /\ UNCHANGED <<newHolds, loop, markers, modal, grab>>
  BY DEF Tick, IInv, Loop
<1>7. QED
  BY <1>5, <1>6, AskedStep

-----------------------------------------------------------------------------
(* Sessions that come and go, holds that are taken and lost.               *)

LEMMA AskStep == ASSUME IInv, NEW t \in Tokens, NEW m \in Markers, Ask(t, m) PROVE IInv'
<1>1. UNCHANGED <<session, holder, newHolds, loop, markers, modal, grab>>
  BY DEF Ask, remote
<1>2. Remote' /\ \A k \in Markers : Holds(k)' => Holds(k) /\ holder'[k] = holder[k]
  BY <1>1 DEF IInv, Remote, Open, SessionSound, Holds
<1>3. asking' \in Maybe(Requests)
  BY DEF Ask, Requests, Maybe
<1>4. QED
  BY <1>1, <1>2, <1>3, AskedStep

LEMMA CloseStep == ASSUME IInv, NEW t \in Tokens, Close(t) PROVE IInv'
<1>1. /\ session' = [u \in Tokens |-> IF u \in {t} THEN None ELSE session[u]]
      /\ holder' = Without({t})
  BY DEF Close, Forget
<1>2. session'[t] = None /\ \A u \in Tokens \ {t} : session'[u] = session[u]
  BY <1>1
<1>3. session' \in [Tokens -> Maybe(Sessions)]
  BY <1>1 DEF IInv, Remote, Maybe
<1>4. Cardinality(Open') <= MaxSessions
  <2>1. Open' \subseteq Open
    BY <1>2 DEF Open
  <2>2. Cardinality(Open') <= Cardinality(Open)
    BY <2>1, OpenIsFinite
  <2>3. Cardinality(Open') \in Nat
    BY <2>1, OpenIsFinite, FS_CardinalityType
  <2>4. QED
    BY <2>2, <2>3, OpenIsFinite, MarkerControlAssumption DEF IInv, Remote
<1>5. Remote' /\ \A m \in Markers : Holds(m)' => Holds(m) /\ holder'[m] = holder[m]
  BY ZenonT(60), <1>1, <1>2, <1>3, <1>4, HoldsEnd DEF IInv, Remote, SessionSound
<1>6. asking' \in Maybe(Requests) /\ UNCHANGED <<newHolds, loop, markers, modal, grab>>
  BY DEF Close, IInv, Loop
<1>7. QED
  BY <1>5, <1>6, AskedStep

LEMMA OpenStep == ASSUME IInv, OpenSession PROVE IInv'
<1> DEFINE oldest == {o \in Open : \A q \in Open : session[q].quiet <= session[o].quiet}
<1>1. PICK t \in Tokens, old \in IF Cardinality(Open) < MaxSessions THEN {{}} ELSE {{o} : o \in oldest} :
        /\ session[t] = None
        /\ session' = [o \in Tokens |-> IF o = t THEN Fresh ELSE IF o \in old THEN None ELSE session[o]]
        /\ holder' = Without(old)
  <2> DEFINE new == {t \in Tokens : session[t] = None /\ (\A m \in Markers : glide[m] # t)
                                                      /\ (\A f \in frames : f.holder # t)}
             t == CHOOSE x \in new : TRUE
  <2>1. new # {}
    BY DEF OpenSession
  <2>2. t \in new
    BY <2>1
  <2>3. t \in Tokens /\ session[t] = None
    BY <2>2
  <2>4. \E old \in IF Cardinality(Open) < MaxSessions THEN {{}} ELSE {{o} : o \in oldest} :
          /\ session' = [o \in Tokens |-> IF o = t THEN Fresh ELSE IF o \in old THEN None ELSE session[o]]
          /\ holder' = Without(old)
    BY DEF OpenSession
  <2>5. QED
    BY <2>3, <2>4
<1>2. old \subseteq Open /\ t \notin Open
  BY <1>1 DEF Open
<1>3. /\ session'[t] = Fresh
      /\ \A u \in Tokens \ {t} : session'[u] = IF u \in old THEN None ELSE session[u]
  BY <1>1
<1>4. session' \in [Tokens -> Maybe(Sessions)]
  BY <1>1, FreshIsSound DEF IInv, Remote, Maybe
<1>5. Cardinality(Open') <= MaxSessions
  <2>1. Open' = (Open \ old) \cup {t}
    <3>1. session'[t] # None
      BY <1>3, FreshIsSound, NoneIsNothing
    <3>2. \A u \in Tokens \ {t} : session'[u] # None <=> u \in Open \ old
      BY <1>3 DEF Open
    <3>3. QED
      BY <1>2, <3>1, <3>2 DEF Open
  <2>2. /\ IsFiniteSet(Open \ old) /\ t \notin Open \ old
        /\ Cardinality(Open \ old) \in Nat /\ Cardinality(Open \ old) <= Cardinality(Open)
    BY <1>2, OpenIsFinite, FS_CardinalityType
  <2>3. Cardinality(Open') = Cardinality(Open \ old) + 1
    BY <2>1, <2>2, FS_AddElement
  <2>4. CASE Cardinality(Open) < MaxSessions
    BY <2>2, <2>3, <2>4, OpenIsFinite, MarkerControlAssumption
  <2>5. CASE ~(Cardinality(Open) < MaxSessions)
    <3>1. PICK o \in Open : old = {o}
      BY <1>1, <2>5
    <3>2. Cardinality(Open \ old) = Cardinality(Open) - 1
      BY <3>1, OpenIsFinite, FS_RemoveElement
    <3>3. QED
      BY <2>3, <3>2, OpenIsFinite, MarkerControlAssumption DEF IInv, Remote
  <2>6. QED
    BY <2>4, <2>5
<1>6. \A u \in Tokens : session'[u] # None =>
        /\ SoundRecord(session'[u])
        /\ IF session[u] = None \/ u \in old THEN session'[u].marker = None
           ELSE session'[u].marker = session[u].marker
  BY <1>1, <1>3, FreshIsSound DEF IInv, Remote, SessionSound
<1>7. \A u \in Tokens \ old : session[u] # None => session'[u] # None
  BY <1>1, <1>3
<1>8. Remote' /\ \A m \in Markers : Holds(m)' => Holds(m) /\ holder'[m] = holder[m]
  <2>1. old \in SUBSET Tokens
    BY <1>2 DEF Open
  <2>2. QED
    BY <1>1, <1>4, <1>5, <1>6, <1>7, <2>1, HoldsEnd DEF IInv
<1>9. asking' \in Maybe(Requests) /\ UNCHANGED <<newHolds, loop, markers, modal, grab>>
  BY DEF OpenSession, IInv, Loop
<1>10. QED
  BY <1>8, <1>9, AskedStep

\* hold() that takes a marker, from whoever has it.
LEMMA HoldTaken ==
  ASSUME Remote, NEW t \in Tokens, session[t] # None, NEW m \in Markers,
         NEW taken \in SUBSET Tokens, taken = {o \in Open \ {t} : holder[m] = o},
         session' = [o \in Tokens |->
                       IF o = t THEN [LetGo(Heard(t)) EXCEPT !.marker = m]
                       ELSE IF o \in taken THEN LetGo(session[o]) ELSE session[o]],
         holder' = [Without({t} \cup taken) EXCEPT ![m] = t]
  PROVE  Remote' /\ \A k \in Markers \ {m} : Holds(k)' => Holds(k)
<1> DEFINE h == [LetGo(Heard(t)) EXCEPT !.marker = m]
<1>1. h \in Sessions /\ SoundRecord(h) /\ h.marker = m
  <2>1. Heard(t) \in Sessions
    BY SessionIs, HeardIsSound DEF Heard
  <2>2. QED
    BY Zenon, <2>1, HeldIsSound
<1>2. \A o \in taken : /\ LetGo(session[o]) \in Sessions /\ SoundRecord(LetGo(session[o]))
                      /\ LetGo(session[o]).marker = None
  BY SessionIs, LetGoIsSound DEF Open
<1> HIDE DEF h
<1>3. /\ session'[t] = h
      /\ \A o \in taken : o # t /\ session'[o] = LetGo(session[o])
      /\ \A o \in Tokens \ ({t} \cup taken) : session'[o] = session[o]
  BY DEF h
<1>4. session' \in [Tokens -> Maybe(Sessions)]
  <2>1. \A o \in Tokens : session'[o] \in Maybe(Sessions)
    BY <1>1, <1>2, <1>3 DEF Remote, Maybe
  <2>2. session' = [o \in Tokens |-> session'[o]]
    OBVIOUS
  <2>3. QED
    BY <2>1, <2>2
<1>5. /\ holder' \in [Markers -> Maybe(Tokens)] /\ holder'[m] = t
      /\ \A k \in Markers \ {m} : holder'[k] = IF holder[k] \in {t} \cup taken THEN None ELSE holder[k]
  BY WithoutIs DEF Remote, Maybe
<1>6. \A o \in Tokens : SessionSound(o)'
  BY <1>1, <1>2, <1>3 DEF Remote, SessionSound
<1>7. ASSUME NEW k \in Markers, NEW o \in Tokens
      PROVE  holder'[k] = o <=> session'[o] # None /\ session'[o].marker = k
  <2>1. /\ o # None /\ k # None /\ m # None
        /\ holder[k] = o <=> session[o] # None /\ session[o].marker = k
        /\ holder[m] = o <=> session[o] # None /\ session[o].marker = m
    BY NoneIsNothing DEF Remote
  <2>2. CASE o = t
    <3>1. holder'[k] = t <=> k = m
      BY <1>5, <2>1, <2>2
    <3>2. QED
      BY <1>1, <1>3, <2>2, <3>1, NoneIsNothing
  <2>3. CASE o \in taken
    <3>1. holder'[k] # o
      BY <1>3, <1>5, <2>1, <2>3
    <3>2. QED
      BY <1>2, <1>3, <2>1, <2>3, <3>1
  <2>4. CASE o \notin {t} \cup taken
    <3>1. session'[o] = session[o] /\ ~(session[o] # None /\ session[o].marker = m)
      BY <1>3, <2>1, <2>4 DEF Open
    <3>2. QED
      BY <1>5, <2>1, <2>4, <3>1
  <2>5. QED
    BY <2>2, <2>3, <2>4
<1>8. Cardinality(Open') <= MaxSessions
  <2>1. \A o \in Tokens : session'[o] # None <=> session[o] # None
    BY <1>1, <1>2, <1>3, NoneIsNothing DEF Open
  <2>2. Open' = Open
    BY <2>1 DEF Open
  <2>3. QED
    BY <2>2 DEF Remote
<1>9. \A k \in Markers \ {m} : Holds(k)' => Holds(k)
  BY <1>5 DEF Holds
<1>10. QED
  BY <1>4, <1>5, <1>6, <1>7, <1>8, <1>9 DEF Remote

LEMMA HoldStep == ASSUME IInv, Hold PROVE IInv'
<1>1. PICK t \in Tokens, m \in Markers : asking = [token |-> t, marker |-> m]
  BY DEF Hold, IInv, Loop, Requests, Maybe
<1> DEFINE taken == {o \in Open \ {t} : holder[m] = o}
<1>2. asking.token = t /\ asking.marker = m
  BY <1>1
<1>3. asking' = None /\ UNCHANGED <<loop, markers, modal, grab>>
  BY DEF Hold
<1>4. asking' \in Maybe(Requests)
  BY <1>3 DEF Maybe
<1>5. CASE UNCHANGED remote
  <2>1. Remote' /\ \A k \in Markers : Holds(k)' => Holds(k) /\ holder'[k] = holder[k]
    BY <1>5 DEF remote, IInv, Remote, Open, SessionSound, Holds
  <2>2. QED
    BY <1>3, <1>4, <1>5, <2>1, AskedStep DEF remote
<1>6. CASE session[t] # None /\ session' = [session EXCEPT ![t] = Heard(t)] /\ UNCHANGED <<holder, newHolds>>
  <2>1. Heard(t) \in Sessions /\ SoundRecord(Heard(t)) /\ Heard(t).marker = session[t].marker
    BY <1>6, SessionIs, HeardIsSound DEF IInv, Heard
  <2>2. Remote' /\ \A k \in Markers : Holds(k)' => Holds(k) /\ holder'[k] = holder[k]
    BY <1>6, <2>1, OneIsAsked DEF IInv
  <2>3. QED
    BY <1>3, <1>4, <1>6, <2>2, AskedStep
<1>7. CASE /\ session[t] # None
           /\ session' = [o \in Tokens |->
                IF o = t THEN [LetGo(Heard(t)) EXCEPT !.marker = m]
                ELSE IF o \in taken THEN LetGo(session[o]) ELSE session[o]]
           /\ holder' = [Without({t} \cup taken) EXCEPT ![m] = t]
           /\ newHolds' = newHolds \cup {m}
  <2>1. taken \in SUBSET Tokens
    BY DEF Open
  <2>2. Remote' /\ \A k \in Markers \ {m} : Holds(k)' => Holds(k)
    <3> HIDE DEF taken
    <3>1. PICK S \in SUBSET Tokens : S = taken
      BY <2>1
    <3>2. S = {o \in Open \ {t} : holder[m] = o}
      BY <3>1 DEF taken
    <3>3. QED
      BY <1>7, <3>1, <3>2, HoldTaken DEF IInv
  <2>3. Loop'
    BY <1>3, <1>4, <1>7 DEF IInv, Loop, loop
  <2>4. Choice' /\ Switches'
    BY <1>3 DEF IInv, Choice, Switches, markers
  <2>5. FramesSound' /\ MoveSound' /\ DrivenSound'
    BY <1>3 DEF IInv, FramesSound, MoveSound, DrivenSound, PinFollows, loop, markers
  <2>6. LeftAlone'
    <3>1. move # None => move.marker \in Markers
      BY DEF IInv, Loop, Moves, Maybe
    <3>2. QED
      BY <1>3, <1>7, <2>2, <3>1 DEF IInv, LeftAlone, loop
  <2>7. QED
    BY <2>2, <2>3, <2>4, <2>5, <2>6 DEF IInv
<1>8. \/ UNCHANGED remote
      \/ session[t] # None /\ session' = [session EXCEPT ![t] = Heard(t)] /\ UNCHANGED <<holder, newHolds>>
      \/ /\ session[t] # None
         /\ session' = [o \in Tokens |->
              IF o = t THEN [LetGo(Heard(t)) EXCEPT !.marker = m]
              ELSE IF o \in taken THEN LetGo(session[o]) ELSE session[o]]
         /\ holder' = [Without({t} \cup taken) EXCEPT ![m] = t]
         /\ newHolds' = newHolds \cup {m}
  BY <1>2 DEF Hold
<1>9. QED
  BY <1>5, <1>6, <1>7, <1>8

-----------------------------------------------------------------------------
(* The frame.                                                              *)

LEMMA ReleaseStep == ASSUME IInv, Release PROVE IInv'
<1> DEFINE gone == {m \in Markers : holder[m] # None /\ (~remoteOn \/ m \notin controlled)}
           losing == {holder[m] : m \in gone}
<1>1. /\ session' = [t \in Tokens |-> IF t \in losing THEN LetGo(session[t]) ELSE session[t]]
      /\ holder' = Without(losing)
      /\ pc = "idle" /\ pc' = "take"
      /\ UNCHANGED <<newHolds, asking, glide, frames, move, markers, modal, grab>>
  BY DEF Release
<1>2. PICK T \in SUBSET Tokens : T = losing /\ \A t \in T : session[t] # None
  <2>1. losing \subseteq Tokens
    BY DEF IInv, Remote, Maybe
  <2>2. \A t \in losing : session[t] # None
    BY <2>1 DEF IInv, Remote
  <2>3. QED
    BY <2>1, <2>2
<1> HIDE DEF losing
<1>3. \A t \in T : /\ LetGo(session[t]) \in Sessions /\ SoundRecord(LetGo(session[t]))
                  /\ LetGo(session[t]).marker = None
  BY <1>2, SessionIs, LetGoIsSound DEF IInv
<1>4. /\ \A t \in T : session'[t] = LetGo(session[t])
      /\ \A t \in Tokens \ T : session'[t] = session[t]
  BY <1>1, <1>2
<1>5. session' \in [Tokens -> Maybe(Sessions)]
  <2>1. \A t \in Tokens : session'[t] \in Maybe(Sessions)
    BY <1>3, <1>4 DEF IInv, Remote, Maybe
  <2>2. session' = [t \in Tokens |-> session'[t]]
    BY <1>1
  <2>3. QED
    BY <2>1, <2>2
<1>6. Cardinality(Open') <= MaxSessions
  <2>1. \A t \in Tokens : session'[t] # None <=> session[t] # None
    BY <1>2, <1>3, <1>4, NoneIsNothing
  <2>2. Open' = Open
    BY <2>1 DEF Open
  <2>3. QED
    BY <2>2 DEF IInv, Remote
<1>7. Remote' /\ \A m \in Markers : Holds(m)' => Holds(m) /\ holder'[m] = holder[m]
  <2>1. holder' = Without(T)
    BY <1>1, <1>2
  <2>2. \A t \in Tokens : session'[t] # None =>
          /\ SoundRecord(session'[t])
          /\ IF session[t] = None \/ t \in T THEN session'[t].marker = None
             ELSE session'[t].marker = session[t].marker
    BY <1>2, <1>3, <1>4 DEF IInv, Remote, SessionSound
  <2>3. \A t \in Tokens \ T : session[t] # None => session'[t] # None
    BY <1>4
  <2>4. QED
    BY <1>5, <1>6, <2>1, <2>2, <2>3, HoldsEnd DEF IInv
<1>8. Loop' /\ FramesSound' /\ MoveSound'
  BY <1>1 DEF IInv, Loop, FramesSound, MoveSound, markers
<1>9. Choice' /\ Switches' /\ DrivenSound'
  BY <1>1 DEF IInv, Choice, Switches, DrivenSound, PinFollows, markers
<1>10. LeftAlone'
  BY <1>1 DEF IInv, MoveSound, LeftAlone
<1>11. QED
  BY <1>7, <1>8, <1>9, <1>10 DEF IInv

\* A frame is what the session that holds its marker was asked.
LEMMA TakeStep == ASSUME IInv, Take PROVE IInv'
<1> DEFINE lapsed == {t \in Open : Lapsed(t)}
           holds == Without(lapsed)
           Frame0(m) ==
             LET s == session[holds[m]]
             IN [marker |-> m, holder |-> holds[m], push |-> IF s.fresh THEN s.push ELSE None,
                 press |-> s.press, live |-> s.fresh]
           heldNow == {m \in Markers : holds[m] # None}
<1>1. /\ pc = "take" /\ holder' = holds
      /\ session' = [t \in Tokens |->
           IF t \in lapsed \/ session[t] = None THEN None
           ELSE IF session[t].marker # None THEN [session[t] EXCEPT !.press = None] ELSE session[t]]
      /\ newHolds' = {} /\ frames' = {Frame0(m) : m \in heldNow}
      /\ glide' = [m \in Markers |-> IF glide[m] = holds[m] THEN glide[m] ELSE None]
      /\ pin' \in {pin, [pin EXCEPT !.on = FALSE]}
      /\ pc' = IF heldNow = {} THEN AfterRemotes ELSE "apply"
      /\ UNCHANGED <<asking, move, controlled, parked, selected, waits, remoteOn, driven, modal, grab>>
  BY DEF Take
<1>2. PICK T \in SUBSET Tokens : T = lapsed
  BY DEF Open
<1> HIDE DEF lapsed
<1>3. ASSUME NEW t \in Tokens \ T, session[t] # None
      PROVE  /\ session'[t] \in Sessions /\ session'[t] # None /\ SoundRecord(session'[t])
             /\ session'[t].marker = session[t].marker
  <2>1. session[t] \in Sessions /\ SoundRecord(session[t])
    BY <1>3, SessionIs DEF IInv
  <2>2. CASE session[t].marker # None
    <3>1. session'[t] = [session[t] EXCEPT !.press = None]
      BY <1>1, <1>2, <1>3, <2>2
    <3>2. /\ [session[t] EXCEPT !.press = None] \in Sessions
          /\ SoundRecord([session[t] EXCEPT !.press = None])
          /\ [session[t] EXCEPT !.press = None].marker = session[t].marker
      BY Zenon, <2>1, TakenIsSound
    <3>3. QED
      BY Zenon, <3>1, <3>2, NoneIsNothing
  <2>3. CASE session[t].marker = None
    <3>1. session'[t] = session[t]
      BY <1>1, <1>2, <1>3, <2>3
    <3>2. QED
      BY <1>3, <2>1, <3>1
  <2>4. QED
    BY <2>2, <2>3
<1>4. \A t \in Tokens : t \in T \/ session[t] = None => session'[t] = None
  BY <1>1, <1>2
<1>5. session' \in [Tokens -> Maybe(Sessions)]
  <2>1. \A t \in Tokens : session'[t] \in Maybe(Sessions)
    BY <1>3, <1>4 DEF Maybe
  <2>2. session' = [t \in Tokens |-> session'[t]]
    BY <1>1
  <2>3. QED
    BY <2>1, <2>2
<1>6. Cardinality(Open') <= MaxSessions
  <2>1. Open' \subseteq Open
    BY <1>4 DEF Open
  <2>2. Cardinality(Open') <= Cardinality(Open) /\ Cardinality(Open') \in Nat
    BY <2>1, OpenIsFinite, FS_CardinalityType
  <2>3. QED
    BY <2>2, OpenIsFinite, MarkerControlAssumption DEF IInv, Remote
<1>7. Remote' /\ \A m \in Markers : Holds(m)' => Holds(m) /\ holder'[m] = holder[m]
  <2>1. holder' = Without(T)
    BY <1>1, <1>2
  <2>2. \A t \in Tokens : session'[t] # None =>
          /\ SoundRecord(session'[t])
          /\ IF session[t] = None \/ t \in T THEN session'[t].marker = None
             ELSE session'[t].marker = session[t].marker
    BY <1>3, <1>4
  <2>3. \A t \in Tokens \ T : session[t] # None => session'[t] # None
    BY <1>3
  <2>4. QED
    BY <1>5, <1>6, <2>1, <2>2, <2>3, HoldsEnd DEF IInv
<1>8. /\ holds \in [Markers -> Maybe(Tokens)]
      /\ \A m \in heldNow : /\ holds[m] \in Tokens /\ session[holds[m]] # None
                           /\ session[holds[m]].marker = m
  <2>1. holds \in [Markers -> Maybe(Tokens)] /\ \A m \in Markers : holds[m] # None => holds[m] = holder[m]
    BY WithoutIs DEF IInv, Remote
  <2>2. ASSUME NEW m \in Markers, holds[m] # None
        PROVE  holds[m] \in Tokens /\ session[holds[m]] # None /\ session[holds[m]].marker = m
    <3>1. PICK t \in Tokens : t = holds[m] /\ holder[m] = t
      BY <2>1, <2>2 DEF Maybe
    <3>2. QED
      BY <3>1 DEF IInv, Remote
  <2>3. QED
    BY <2>1, <2>2
<1> HIDE DEF holds
<1>9. ASSUME NEW m \in heldNow
      PROVE  /\ Frame0(m) \in Frames /\ Frame0(m).marker = m /\ Frame0(m).holder = holds[m]
             /\ Frame0(m).push \in {None, m}
             /\ Frame0(m).press # None => Frame0(m).press.of = m
  <2>1. PICK s \in Sessions : s = session[holds[m]] /\ SoundRecord(s) /\ s.marker = m
    BY <1>8, SessionIs DEF IInv
  <2>2. Frame0(m) = [marker |-> m, holder |-> holds[m], push |-> IF s.fresh THEN s.push ELSE None,
                     press |-> s.press, live |-> s.fresh]
    BY Zenon, <2>1
  <2>3. s.push \in {None, m} /\ (s.press # None => s.press.of = m)
    BY <2>1 DEF SoundRecord
  <2>4. s.fresh \in BOOLEAN /\ s.press \in Maybe(Presses)
    BY DEF Sessions
  <2>5. m \in Markers /\ holds[m] \in Tokens
    BY <1>8
  <2>6. Frame0(m) \in Frames
    BY <2>2, <2>3, <2>4, <2>5 DEF Frames, Maybe
  <2>7. QED
    BY <2>2, <2>3, <2>6
<1>10. glide' \in [Markers -> Maybe(Tokens)] /\ \A m \in Markers : glide'[m] \in {None, holds[m]}
  BY <1>1 DEF IInv, Loop, Maybe
<1>11. frames' \subseteq Frames
  BY <1>1, <1>9
<1>12. Loop'
  BY <1>1, <1>10, <1>11 DEF IInv, Loop, AfterRemotes
<1>13. FramesSound'
  <2>1. pc' # "apply" => frames' = {}
    BY <1>1 DEF AfterRemotes
  <2>2. ASSUME NEW f \in frames'
        PROVE  /\ f.push \in {None, f.marker} /\ (f.press # None => f.press.of = f.marker)
               /\ glide'[f.marker] \in {None, f.holder}
               /\ \A g \in frames' : g.marker = f.marker => g = f
    <3>1. PICK m \in heldNow : f = Frame0(m)
      BY <1>1
    <3>2. \A g \in frames' : \E k \in heldNow : g = Frame0(k) /\ g.marker = k
      BY <1>1, <1>9
    <3>3. QED
      BY <1>9, <1>10, <3>1, <3>2
  <2>3. QED
    BY <2>1, <2>2 DEF FramesSound
<1>14. move' = None /\ pc' # "move"
  BY <1>1 DEF IInv, MoveSound, AfterRemotes
<1>15. MoveSound' /\ LeftAlone'
  BY <1>14 DEF MoveSound, LeftAlone
<1>16. /\ pin' \in PinSettings
       /\ pin' = pin \/ ~pin'.on
  BY <1>1 DEF IInv, Choice, PinSettings
<1>17. Choice' /\ Switches'
  BY <1>1, <1>16 DEF IInv, Choice, Switches
<1>18. DrivenSound'
  BY <1>1, <1>16 DEF IInv, DrivenSound, PinFollows
<1>19. QED
  BY <1>7, <1>12, <1>13, <1>15, <1>17, <1>18 DEF IInv

\* Steps that touch no session and no hold.
LEMMA RemoteLeft ==
  ASSUME IInv, UNCHANGED <<session, holder>>
  PROVE  Remote' /\ \A m \in Markers : Holds(m)' <=> Holds(m)
BY DEF IInv, Remote, Open, SessionSound, Holds

LEMMA ApplyStep == ASSUME IInv, NEW f \in frames, ApplyFrame(f) PROVE IInv'
<1>1. /\ pc = "apply" /\ frames' = frames \ {f}
      /\ pc' = IF frames' = {} THEN AfterRemotes ELSE "apply"
      /\ UNCHANGED <<session, holder, newHolds, asking, move, markers, modal, grab>>
  BY DEF ApplyFrame, remote
<1>2. /\ f \in Frames /\ f.marker \in Markers /\ f.holder \in Tokens
  BY DEF IInv, Loop, Frames
<1>3. /\ glide' \in [Markers -> Maybe(Tokens)]
      /\ \A m \in Markers \ {f.marker} : glide'[m] = glide[m]
  <2>1. CASE f.marker \notin controlled
    BY <2>1 DEF ApplyFrame, IInv, Loop
  <2>2. CASE f.marker \in controlled
    <3>1. PICK now : /\ now \in {GlideIn(f), None}
                     /\ glide' = [glide EXCEPT ![f.marker] = now]
      BY <2>2 DEF ApplyFrame
    <3>2. GlideIn(f) \in Maybe(Tokens)
      BY <1>2 DEF GlideIn, IInv, Loop, Maybe
    <3>3. QED
      BY <1>2, <3>1, <3>2 DEF IInv, Loop, Maybe
  <2>3. QED
    BY <2>1, <2>2
<1>4. Loop'
  BY <1>1, <1>3 DEF IInv, Loop, AfterRemotes
<1>5. FramesSound'
  <2>1. pc' # "apply" => frames' = {}
    BY <1>1
  <2>2. ASSUME NEW g \in frames'
        PROVE  /\ g.push \in {None, g.marker} /\ (g.press # None => g.press.of = g.marker)
               /\ glide'[g.marker] \in {None, g.holder}
               /\ \A h \in frames' : h.marker = g.marker => h = g
    <3>1. g \in frames /\ g # f /\ g.marker \in Markers
      BY <1>1 DEF IInv, Loop, Frames
    <3>2. g.marker # f.marker
      BY <3>1 DEF IInv, FramesSound
    <3>3. QED
      BY <1>1, <1>3, <3>1, <3>2 DEF IInv, FramesSound
  <2>3. QED
    BY <2>1, <2>2 DEF FramesSound
<1>6. move' = None /\ pc' # "move"
  BY <1>1 DEF IInv, MoveSound, AfterRemotes
<1>7. MoveSound' /\ LeftAlone'
  BY <1>6 DEF MoveSound, LeftAlone
<1>8. Choice' /\ Switches' /\ DrivenSound'
  BY <1>1 DEF IInv, Choice, Switches, DrivenSound, PinFollows, markers
<1>9. QED
  BY <1>1, <1>4, <1>5, <1>7, <1>8, RemoteLeft DEF IInv

\* An input, the mouse or the pin has checked that nobody holds the marker.
LEMMA CheckedStep ==
  ASSUME IInv, pc \notin {"apply", "move"},
         UNCHANGED <<session, holder, newHolds, asking, glide, frames, markers, modal>>,
         grab' \in [active : BOOLEAN, aim : BOOLEAN, keep : Maybe(Markers)],
         pc' \in {"idle", "input", "pin", "move"},
         pc' = "move" =>
           \E by \in {"mouse", "keyboard", "pad", "osc", "pin"}, m \in Markers :
             /\ move' = [by |-> by, marker |-> m] /\ ~Holds(m)
             /\ by = "pin" => /\ pin.on /\ pin.mode = "replace"
                              /\ pin.follow = 0 => ~waits /\ m = selected,
         pc' # "move" => move' = move
  PROVE  IInv'
<1>1. Remote' /\ \A m \in Markers : Holds(m)' <=> Holds(m)
  BY RemoteLeft
<1>2. Choice' /\ Switches' /\ DrivenSound'
  BY DEF IInv, Choice, Switches, DrivenSound, PinFollows, markers
<1>3. FramesSound'
  BY DEF IInv, FramesSound
<1>4. CASE pc' # "move"
  <2>1. move' = None
    BY <1>4 DEF IInv, MoveSound
  <2>2. MoveSound' /\ LeftAlone'
    BY <1>4, <2>1 DEF MoveSound, LeftAlone
  <2>3. Loop'
    BY <1>4, <2>1 DEF IInv, Loop, Maybe
  <2>4. QED
    BY <1>1, <1>2, <1>3, <2>2, <2>3 DEF IInv
<1>5. CASE pc' = "move"
  <2>1. PICK by \in {"mouse", "keyboard", "pad", "osc", "pin"}, m \in Markers :
          /\ move' = [by |-> by, marker |-> m] /\ ~Holds(m)
          /\ by = "pin" => /\ pin.on /\ pin.mode = "replace"
                           /\ pin.follow = 0 => ~waits /\ m = selected
    BY <1>5
  <2>2. move' \in Moves /\ move' # None /\ move'.by = by /\ move'.marker = m
    BY <2>1, NoneIsNothing DEF Moves
  <2>3. Loop'
    BY <1>5, <2>2 DEF IInv, Loop, Maybe
  <2>4. MoveSound'
    BY <1>5, <2>1, <2>2 DEF MoveSound, markers
  <2>5. LeftAlone'
    BY <1>1, <2>1, <2>2 DEF LeftAlone
  <2>6. QED
    BY <1>1, <1>2, <1>3, <2>3, <2>4, <2>5 DEF IInv
<1>6. QED
  BY <1>4, <1>5

LEMMA MouseStep == ASSUME IInv, Mouse PROVE IInv'
<1>1. /\ pc = "mouse"
      /\ UNCHANGED <<session, holder, newHolds, asking, glide, frames, markers, modal>>
  BY DEF Mouse, remote
<1>2. /\ grab \in [active : BOOLEAN, aim : BOOLEAN, keep : Maybe(Markers)]
      /\ Dropped \in [active : BOOLEAN, aim : BOOLEAN, keep : Maybe(Markers)]
  BY DEF IInv, Choice, Dropped
<1>3. CASE pc' = "move"
  <2>1. move' = [by |-> "mouse", marker |-> Target] /\ Target \in controlled /\ ~Holds(Target) /\ grab' = grab
    BY <1>1, <1>3 DEF Mouse, Dragging
  <2>2. Target \in Markers
    BY <2>1 DEF IInv, Choice
  <2>3. QED
    BY <1>1, <1>2, <1>3, <2>1, <2>2, CheckedStep
<1>4. CASE pc' # "move"
  <2>1. pc' = "input" /\ move' = move /\ grab' \in {grab, Dropped}
    BY <1>1, <1>4 DEF Mouse
  <2>2. QED
    BY <1>1, <1>2, <1>4, <2>1, CheckedStep
<1>5. QED
  BY <1>3, <1>4

LEMMA InputStep == ASSUME IInv, Input PROVE IInv'
<1>1. /\ pc = "input"
      /\ UNCHANGED <<session, holder, newHolds, asking, glide, frames, markers, modal, grab>>
  BY DEF Input, remote
<1>2. grab' \in [active : BOOLEAN, aim : BOOLEAN, keep : Maybe(Markers)]
  BY <1>1 DEF IInv, Choice
<1>3. CASE pc' = "pin" /\ UNCHANGED move
  BY <1>1, <1>2, <1>3, CheckedStep
<1>4. ASSUME NEW by \in {"keyboard", "pad", "osc"}, NEW m \in Markers,
             Check(by, m), pc' = "move", move' = [by |-> by, marker |-> m]
      PROVE  IInv'
  <2>1. ~Holds(m) /\ by \in {"mouse", "keyboard", "pad", "osc", "pin"} /\ by # "pin"
    BY <1>4 DEF Check
  <2>2. QED
    BY <1>1, <1>2, <1>4, <2>1, CheckedStep
<1>5. QED
  BY <1>3, <1>4 DEF Input

LEMMA PinStep == ASSUME IInv, Pin PROVE IInv'
<1>1. /\ pc = "pin"
      /\ UNCHANGED <<session, holder, newHolds, asking, glide, frames, markers, modal, grab>>
  BY DEF Pin, remote
<1>2. grab' \in [active : BOOLEAN, aim : BOOLEAN, keep : Maybe(Markers)]
  BY <1>1 DEF IInv, Choice
<1>3. CASE pc' = "idle" /\ UNCHANGED move
  BY <1>1, <1>2, <1>3, CheckedStep
<1>4. CASE Pinned # None /\ ~Holds(Pinned) /\ pc' = "move" /\ move' = [by |-> "pin", marker |-> Pinned]
  <2>1. pin.on /\ pin.mode = "replace" /\ (pin.follow = 0 => ~waits /\ Pinned = selected)
    BY <1>4 DEF Pinned
  <2>2. Pinned \in Markers
    <3>1. CASE pin.follow = 0
      BY <1>4, <2>1, <3>1 DEF IInv, Choice
    <3>2. CASE pin.follow # 0
      BY <1>4, <2>1, <3>2 DEF Pinned, IInv, Choice
    <3>3. QED
      BY <3>1, <3>2
  <2>3. QED
    BY <1>1, <1>2, <1>4, <2>1, <2>2, CheckedStep
<1>5. QED
  BY <1>3, <1>4 DEF Pin

LEMMA MoveStep == ASSUME IInv, Move PROVE IInv'
<1>1. /\ pc = "move" /\ move' = None
      /\ driven' = IF move.by = "pin" /\ pin.follow = 0 THEN move.marker ELSE driven
      /\ UNCHANGED <<session, holder, newHolds, asking, glide, frames, controlled, parked, selected,
                     waits, pin, remoteOn, modal, grab>>
  BY DEF Move, remote
<1>2. move \in Moves /\ move # None
  BY <1>1 DEF IInv, Loop, MoveSound, Maybe
<1>3. move.by \in {"mouse", "keyboard", "pad", "osc", "pin"} /\ move.marker \in Markers
  BY <1>2 DEF Moves
<1>4. pc' \in {"input", "idle", "pin"}
  BY <1>3 DEF Move
<1>5. Remote'
  BY <1>1, RemoteLeft
<1>6. Loop' /\ FramesSound' /\ MoveSound' /\ LeftAlone'
  BY <1>1, <1>4 DEF IInv, Loop, FramesSound, MoveSound, LeftAlone, Maybe
<1>7. driven' \in Maybe(Markers)
  BY <1>1, <1>3 DEF IInv, Choice, Maybe
<1>8. Choice' /\ Switches'
  BY <1>1, <1>7 DEF IInv, Choice, Switches
<1>9. DrivenSound'
  <2>1. move.by = "pin" /\ pin.follow = 0 => move.marker = selected
    BY <1>2 DEF IInv, MoveSound
  <2>2. QED
    BY <1>1, <2>1 DEF IInv, DrivenSound, PinFollows
<1>10. QED
  BY <1>5, <1>6, <1>8, <1>9 DEF IInv

-----------------------------------------------------------------------------
(* The operator, OSC and the configuration.                                *)

\* Between moves, what they choose has no part in what sessions hold.
LEMMA ChoiceStep ==
  ASSUME IInv, pc # "move", UNCHANGED <<session, holder, newHolds, asking, loop>>,
         Choice', Switches', DrivenSound'
  PROVE  IInv'
<1>1. move = None
  BY DEF IInv, MoveSound
<1>2. Remote'
  BY RemoteLeft
<1>3. Loop' /\ FramesSound'
  BY DEF IInv, Loop, FramesSound, loop
<1>4. MoveSound' /\ LeftAlone'
  BY <1>1 DEF MoveSound, LeftAlone, loop
<1>5. QED
  BY <1>2, <1>3, <1>4 DEF IInv

LEMMA AimStep == ASSUME IInv, Aim \/ LetGoOfIt \/ Screen \/ EditRemote PROVE IInv'
<1>1. /\ pc = "idle"
      /\ UNCHANGED <<session, holder, newHolds, asking, loop, controlled, parked, selected, waits, pin, driven>>
  BY DEF Aim, LetGoOfIt, Screen, EditRemote, remote, markers
<1>2. grab' \in [active : BOOLEAN, aim : BOOLEAN, keep : Maybe(Markers)]
  BY DEF IInv, Choice, Aim, LetGoOfIt, Screen, EditRemote, Dropped
<1>3. Switches'
  <2>1. waits' \in BOOLEAN
    BY Zenon, <1>1 DEF IInv, Switches
  <2>2. remoteOn' \in BOOLEAN
    BY Zenon DEF IInv, Switches, Aim, LetGoOfIt, Screen, EditRemote, markers
  <2>3. modal' \in BOOLEAN
    BY Zenon DEF IInv, Switches, Aim, LetGoOfIt, Screen, EditRemote
  <2>4. QED
    BY Zenon, <2>1, <2>2, <2>3 DEF Switches
<1>4. Choice'
  BY <1>1, <1>2 DEF IInv, Choice
<1>5. DrivenSound'
  BY <1>1 DEF IInv, DrivenSound, PinFollows
<1>6. pc # "move"
  BY <1>1
<1>7. QED
  BY <1>1, <1>3, <1>4, <1>5, <1>6, ChoiceStep

LEMMA SelectStep == ASSUME IInv, NEW m \in Markers, Select(m) PROVE IInv'
<1>1. /\ pc # "move" /\ m \in controlled \ parked /\ selected' = m /\ ~waits' /\ driven' = None
      /\ UNCHANGED <<session, holder, newHolds, asking, loop, controlled, parked, pin, remoteOn, modal, grab>>
  BY DEF Select, remote
<1>2. waits' \in BOOLEAN
  BY Zenon DEF Select
<1>3. Switches'
  BY Zenon, <1>1, <1>2 DEF IInv, Switches
<1>4. Choice'
  BY <1>1 DEF IInv, Choice, Maybe
<1>5. DrivenSound'
  BY <1>1 DEF DrivenSound
<1>6. QED
  BY <1>1, <1>3, <1>4, <1>5, ChoiceStep

LEMMA GrabStep == ASSUME IInv, NEW m \in Markers, Grab(m) PROVE IInv'
<1>1. /\ pc # "move" /\ m \in controlled
      /\ grab' = [active |-> TRUE, aim |-> FALSE, keep |-> IF m \in parked THEN m ELSE None]
      /\ UNCHANGED <<session, holder, newHolds, asking, loop, controlled, parked, pin, remoteOn, modal>>
  BY DEF Grab, remote
<1>2. grab' \in [active : BOOLEAN, aim : BOOLEAN, keep : Maybe(Markers)]
  BY <1>1 DEF Maybe
<1>3. waits' \in BOOLEAN
  BY Zenon DEF Grab, IInv, Switches
<1>4. Switches'
  BY Zenon, <1>1, <1>3 DEF IInv, Switches
<1>5. CASE m \in parked
  <2>1. selected' = selected /\ driven' = driven /\ waits' = waits
    BY <1>5 DEF Grab
  <2>2. Choice' /\ DrivenSound'
    BY <1>1, <1>2, <2>1 DEF IInv, Choice, DrivenSound, PinFollows
  <2>3. QED
    BY <1>1, <1>4, <2>2, ChoiceStep
<1>6. CASE m \notin parked
  <2>1. selected' = m /\ driven' = None
    BY <1>6 DEF Grab
  <2>2. Choice' /\ DrivenSound'
    BY <1>1, <1>2, <1>6, <2>1 DEF IInv, Choice, DrivenSound, Maybe
  <2>3. QED
    BY <1>1, <1>4, <2>2, ChoiceStep
<1>7. QED
  BY <1>5, <1>6

LEMMA EditPinStep == ASSUME IInv, NEW d \in Pins, EditPin(d) PROVE IInv'
<1>1. /\ pc # "move" /\ pin' \in {d, pin} /\ driven' = None
      /\ UNCHANGED <<session, holder, newHolds, asking, loop, controlled, parked, selected, remoteOn, modal, grab>>
  BY DEF EditPin, remote
<1>2. waits' \in BOOLEAN
  BY Zenon DEF EditPin
<1>3. Switches'
  BY Zenon, <1>1, <1>2 DEF IInv, Switches
<1>4. pin' \in PinSettings
  BY <1>1, MarkerControlAssumption DEF IInv, Choice
<1>5. Choice' /\ DrivenSound'
  BY <1>1, <1>4 DEF IInv, Choice, DrivenSound, Maybe
<1>6. QED
  BY <1>1, <1>3, <1>5, ChoiceStep

\* set_parked from s: the selection is what it was, or the pin that followed
\* it waits, or it was none.
LEMMA ParkedIs ==
  ASSUME IInv, NEW s \in Maybe(Markers), NEW ids \in SUBSET Markers, NEW P \in SUBSET ids,
         SetParked(s, ids, P), controlled' = ids, pin' = pin,
         (s = selected /\ driven' = driven) \/ driven' = None,
         s \in Markers => s \in ids,
         UNCHANGED <<remoteOn, modal>>
  PROVE  Choice' /\ Switches' /\ DrivenSound'
<1>1. /\ parked' = P /\ selected' = Rehomed(s, ids, P) /\ waits' = Waiting(s, ids, P)
      /\ grab' = IF s \in P \ parked /\ grab.keep = None THEN [grab EXCEPT !.keep = s] ELSE grab
  BY DEF SetParked
<1>2. grab' \in [active : BOOLEAN, aim : BOOLEAN, keep : Maybe(Markers)]
  BY <1>1 DEF IInv, Choice
<1>3. waits' \in BOOLEAN
  BY Zenon, <1>1 DEF Waiting, IInv, Switches
<1>4. Switches'
  BY Zenon, <1>3 DEF IInv, Switches
<1>5. /\ IF ids \subseteq P THEN selected' = None ELSE selected' \in ids \ P
      /\ s \in ids \ P => selected' = s
  BY <1>1, RehomedIsIn
<1>6. driven' \in Maybe(Markers)
  BY DEF IInv, Choice, Maybe
<1>7. Choice'
  BY <1>1, <1>2, <1>5, <1>6 DEF IInv, Choice
<1>8. DrivenSound'
  <2>1. SUFFICES ASSUME PinFollows, ~Waiting(s, ids, P), driven' # None PROVE driven' = selected'
    BY <1>1 DEF DrivenSound, PinFollows
  <2>2. ~waits /\ s \notin ids \cap P
    BY <2>1 DEF Waiting
  <2>3. driven' = s /\ s # None
    BY <2>1, <2>2 DEF IInv, DrivenSound
  <2>4. s \in ids \ P
    BY <2>2, <2>3 DEF Maybe
  <2>5. QED
    BY <1>5, <2>3, <2>4
<1>9. QED
  BY <1>4, <1>7, <1>8

LEMMA SelectionIs == ASSUME IInv PROVE selected \in Maybe(Markers) /\ (selected \in Markers => selected \in controlled)
BY NoneIsNothing DEF IInv, Choice, Maybe

LEMMA ParkStep == ASSUME IInv, NEW m \in Markers, NEW on \in BOOLEAN, Park(m, on) PROVE IInv'
<1>1. PICK P \in SUBSET controlled : SetParked(selected, controlled, P)
  <2>1. parked \cup {m} \subseteq controlled /\ parked \ {m} \subseteq controlled
    BY DEF Park, IInv, Choice
  <2>2. QED
    BY <2>1 DEF Park
<1>2. /\ pc # "move" /\ driven' = driven
      /\ UNCHANGED <<session, holder, newHolds, asking, loop, controlled, pin, remoteOn, modal>>
  BY DEF Park, remote
<1>3. controlled \in SUBSET Markers
  BY DEF IInv, Choice
<1>4. Choice' /\ Switches' /\ DrivenSound'
  <2>1. PICK ids \in SUBSET Markers, s \in Maybe(Markers) : ids = controlled /\ s = selected
    BY <1>3, SelectionIs
  <2>2. SetParked(s, ids, P) /\ controlled' = ids /\ pin' = pin /\ (s \in Markers => s \in ids)
    BY <1>1, <1>2, <2>1, SelectionIs
  <2>3. QED
    BY <1>1, <1>2, <2>1, <2>2, ParkedIs
<1>5. QED
  BY <1>2, <1>4, ChoiceStep

LEMMA EditMarkersStep ==
  ASSUME IInv, NEW ids \in SUBSET Markers, NEW P \in SUBSET Markers, EditMarkers(ids, P)
  PROVE  IInv'
<1> DEFINE s0 == IF selected \in ids \/ ids = controlled THEN selected ELSE FirstAfter(0, ids \ parked)
<1>1. /\ pc # "move" /\ P \in SUBSET ids /\ controlled' = ids
      /\ SetParked(s0, ids, P) /\ driven' = IF s0 = selected THEN driven ELSE None
      /\ UNCHANGED <<session, holder, newHolds, asking, loop, pin, remoteOn, modal>>
  BY DEF EditMarkers, remote
<1>2. s0 \in Maybe(Markers) /\ (s0 \in Markers => s0 \in ids)
  <2>1. CASE selected \in ids \/ ids = controlled
    BY <2>1, SelectionIs
  <2>2. CASE ~(selected \in ids \/ ids = controlled)
    <3>1. s0 = FirstAfter(0, ids \ parked)
      BY <2>2
    <3>2. CASE ids \ parked = {}
      BY <3>1, <3>2, NoneIsNothing DEF FirstAfter, Maybe
    <3>3. CASE ids \ parked # {}
      <4>1. ids \ parked \in SUBSET Markers /\ 0 \in 0 .. N
        BY MarkerControlAssumption
      <4>2. FirstAfter(0, ids \ parked) \in ids \ parked
        BY <3>3, <4>1, FirstAfterIsOne
      <4>3. QED
        BY <3>1, <4>2 DEF Maybe
    <3>4. QED
      BY <3>2, <3>3
  <2>3. QED
    BY <2>1, <2>2
<1> HIDE DEF s0
<1>3. PICK s \in Maybe(Markers) : s = s0
  BY <1>2
<1>4. Choice' /\ Switches' /\ DrivenSound'
  <2>1. SetParked(s, ids, P) /\ (s \in Markers => s \in ids)
    BY <1>1, <1>2, <1>3
  <2>2. (s = selected /\ driven' = driven) \/ driven' = None
    BY <1>1, <1>3
  <2>3. QED
    BY <1>1, <2>1, <2>2, ParkedIs
<1>5. QED
  BY <1>1, <1>4, ChoiceStep

-----------------------------------------------------------------------------
(* Every step, and the theorems.                                           *)

LEMMA InitSound == Init => IInv
<1> SUFFICES ASSUME Init PROVE IInv
  OBVIOUS
<1>1. /\ \A t \in Tokens : session[t] = None
      /\ \A m \in Markers : holder[m] = None
      /\ session \in [Tokens -> Maybe(Sessions)] /\ holder \in [Markers -> Maybe(Tokens)]
  BY DEF Init, Maybe
<1>2. Open = {}
  BY <1>1 DEF Open
<1>3. Cardinality(Open) <= MaxSessions
  BY <1>2, FS_EmptySet, MarkerControlAssumption
<1>4. Remote
  BY <1>1, <1>3, NoneIsNothing DEF Remote, SessionSound
<1>5. /\ newHolds = {} /\ asking = None /\ glide \in [Markers -> Maybe(Tokens)] /\ frames = {}
      /\ pc = "idle" /\ move = None
  BY DEF Init, Maybe
<1>6. Loop /\ FramesSound /\ MoveSound /\ LeftAlone
  BY <1>5 DEF Loop, FramesSound, MoveSound, LeftAlone, Maybe
<1>7. /\ controlled = Markers /\ parked = {} /\ selected = 1 /\ pin \in Pins /\ driven = None
      /\ grab = [active |-> FALSE, aim |-> FALSE, keep |-> None]
  BY DEF Init
<1>8. Choice /\ DrivenSound
  BY <1>7, NoneIsNothing, MarkerControlAssumption DEF Choice, DrivenSound, Maybe
<1>9. Switches
  BY Zenon DEF Init, Switches
<1>10. QED
  BY <1>4, <1>6, <1>8, <1>9 DEF IInv

LEMMA StutterStep == ASSUME IInv, UNCHANGED vars PROVE IInv'
<1>1. UNCHANGED <<session, holder, newHolds, asking, loop, markers, modal, grab>>
  BY DEF vars, remote
<1>2. Remote' /\ \A m \in Markers : Holds(m)' <=> Holds(m)
  BY <1>1, RemoteLeft
<1>3. asking' \in Maybe(Requests)
  BY <1>1 DEF IInv, Loop
<1>4. QED
  BY <1>1, <1>2, <1>3, AskedStep

LEMMA StepSound == IInv /\ [Next]_vars => IInv'
<1> SUFFICES ASSUME IInv, [Next]_vars PROVE IInv'
  OBVIOUS
<1>1. CASE Frame
  BY <1>1, ReleaseStep, TakeStep, ApplyStep, MouseStep, InputStep, PinStep, MoveStep DEF Frame
<1>2. CASE Web
  BY <1>2, OpenStep, CloseStep, StatusStep, AskStep, DriveStep, ActStep, HoldStep DEF Web
<1>3. CASE Tick
  BY <1>3, TickStep
<1>4. CASE Operator
  BY <1>4, SelectStep, GrabStep, ParkStep, AimStep DEF Operator
<1>5. CASE Save
  BY <1>5, AimStep, EditPinStep, EditMarkersStep DEF Save
<1>6. CASE UNCHANGED vars
  BY <1>6, StutterStep
<1>7. QED
  BY <1>1, <1>2, <1>3, <1>4, <1>5, <1>6 DEF Next

LEMMA InvariantHolds == Spec => []IInv
BY InitSound, StepSound, PTL DEF Spec

\* Sessions and holders always name each other, there are never more sessions
\* than MAX_SESSIONS (TouchRemoteSessions), and the selection is a marker that
\* inputs may move whenever there is one (rehome_selection).
THEOREM TypeCorrect == Spec => []TypeOK
<1>1. IInv => TypeOK
  <2>1. SUFFICES ASSUME IInv PROVE TypeOK
    OBVIOUS
  <2>2. {waits, remoteOn, modal} \subseteq BOOLEAN
    BY Zenon, <2>1 DEF IInv, Switches
  <2>3. QED
    BY <2>1, <2>2 DEF IInv, Remote, Loop, Choice, TypeOK
<1>2. QED
  BY <1>1, InvariantHolds, PTL

\* The mouse, an input or the person pin moves no marker a session holds; a
\* session moves the marker it was asked to and by nobody else's glide; and a
\* pin that follows the selection drives another marker only when the operator
\* selected one, detection started afresh or the marker went.
THEOREM MovedByWhoMay == Spec => []InTheRightHands
<1>1. IInv => InTheRightHands
  <2>1. SUFFICES ASSUME IInv PROVE InTheRightHands
    OBVIOUS
  <2>2. AsAsked
    BY <2>1 DEF IInv, FramesSound, AsAsked, GlideIn
  <2>3. PinStays
    BY <2>1 DEF IInv, MoveSound, DrivenSound, PinFollows, PinStays
  <2>4. QED
    BY <2>1, <2>2, <2>3 DEF IInv, InTheRightHands
<1>2. QED
  BY <1>1, InvariantHolds, PTL
=============================================================================
