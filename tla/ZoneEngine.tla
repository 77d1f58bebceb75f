----------------------------- MODULE ZoneEngine -----------------------------
(***************************************************************************)
(* zones/engine.py: which markers and detections are inside which trigger  *)
(* zone, and the OSC events sent when that changes, with a debounce and a  *)
(* hysteresis.  An evaluation reads positions; a config reload keeps the   *)
(* occupancy of zones that did not change.                                 *)
(*                                                                         *)
(* Geometry is given: a spot is inside a shape's polygon, inside the       *)
(* polygon shrunk by the hysteresis, or outside.  A shape stands for all   *)
(* that _zone_signature compares but the enabled flag, the filter on       *)
(* triggering markers included.  Time is counted in evaluations.           *)
(***************************************************************************)
EXTENDS Integers, FiniteSets, Sequences

CONSTANTS
  Entities,   \* markers and detections
  Spots,      \* positions told apart
  Shapes,
  Outer,      \* the spots inside a shape's polygon
  Inner,      \* those inside its shrunken polygon
  Admits,     \* the entities that may trigger a shape
  Dests,      \* OSC destinations
  Configs,    \* the configs a save may leave
  Debounce,   \* debounce_ms, in evaluations
  Spoken,     \* the kinds of event whose OSC field is filled in
  MaxChanges, \* bound: moves, reloads and outages together
  None

Kinds == {"first", "additional", "partial", "final"}
Zones == [shape: Shapes, enabled: BOOLEAN, dest: Dests \cup {None}]

ZoneEngineAssumption ==
  /\ Outer \in [Shapes -> SUBSET Spots]
  /\ \A s \in Shapes : Inner[s] \subseteq Outer[s]
  /\ Admits \in [Shapes -> SUBSET Entities]
  /\ Configs # {} /\ Configs \subseteq [enabled: BOOLEAN, zones: Seq(Zones)]
  /\ IsFiniteSet(Entities) /\ Debounce \in Nat /\ MaxChanges \in Nat /\ Spoken \subseteq Kinds
  /\ None \notin Spots \cup Dests

VARIABLES
  config,   \* the engine's config
  occupancy,\* _occupancy: occupants and evaluations since the last event; and
            \* as a history what the receiver was told, and whether of everything
  place,    \* where an entity is, None if it is not seen
  down,     \* destinations whose interface has no address
  changes,
  story     \* history: what an entity did since it last moved

vars == <<config, occupancy, place, down, changes, story>>

-----------------------------------------------------------------------------
\* A new zone: nobody inside, and no event that would hold one back.
Fresh == [inside |-> {}, since |-> Debounce, told |-> 0, whole |-> TRUE]

Degenerate(s) == Outer[s] = {}

\* The polygon of the test: the shrunken one for who is inside already.
Polygon(s, inside) == IF inside THEN Inner[s] ELSE Outer[s]

\* _evaluate_zone, with the filter on candidates before it.
Evaluate(s, occupants) ==
  {e \in Admits[s] : place[e] \in Polygon(s, e \in occupants)}

\* The events of a change from n occupants: entries first, then exits.
Events(n, entered, exited) ==
  [k \in 1..entered + exited |->
     IF k <= entered
     THEN IF n + k = 1 THEN "first" ELSE "additional"
     ELSE IF n + 2 * entered = k THEN "final" ELSE "partial"]

\* A receiver that is told of first entries and final exits can follow a zone;
\* one that is told of everything can count.
Follows == {"first", "final"} \subseteq Spoken
Counts == Spoken = Kinds

\* What a receiver that follows makes of an event.
Hear(told, event) ==
  CASE event = "first" -> 1
    [] event = "final" -> 0
    [] event = "additional" -> IF Counts THEN told + 1 ELSE told
    [] event = "partial" -> IF Counts THEN told - 1 ELSE told

\* And of the first so many events of a change.
Heard(told, events, count) ==
  LET after[k \in 0..count] == IF k = 0 THEN told ELSE Hear(after[k - 1], events[k])
  IN after[count]

Sends(zone) == zone.dest # None /\ zone.dest \notin down

\* A first entry or a final exit tells the receiver all there is to know.
Whole(o, new) == o.whole \/ o.inside = {} \/ new = {}

\* Mutants of Held: the occupancy moves on though nothing was sent; a change that
\* is held back starts the window again.
HeldButTaken(o, new) == [o EXCEPT !.inside = new]
HeldRestarts(o, new) == [o EXCEPT !.since = 0]

\* A change inside the debounce window is held: the next evaluation sees it again.
Held(o, new) == o

\* _emit_transitions, and what update() makes of its answer.
Transition(zone, o, new) ==
  LET entered == Cardinality(new \ o.inside)
      exited == Cardinality(o.inside \ new)
      events == Events(Cardinality(o.inside), entered, exited)
  IN
  IF new = o.inside THEN o
  ELSE IF ~Sends(zone) THEN [o EXCEPT !.inside = new, !.told = 0, !.whole = FALSE]
  ELSE IF o.since < Debounce THEN Held(o, new)
  ELSE [o EXCEPT !.inside = new,
                 !.whole = Whole(o, new),
                 !.told = IF Whole(o, new) /\ Follows
                          THEN Heard(o.told, events, entered + exited) ELSE 0,
                 !.since = IF \E k \in DOMAIN events : events[k] \in Spoken THEN 0 ELSE @]

\* Mutant of Aged: with no end to the count.
AgedForever(o) == [o EXCEPT !.since = @ + 1]

\* Another evaluation's time since the last event; beyond the debounce it does
\* not matter how much.
Aged(o) == [o EXCEPT !.since = IF @ < Debounce THEN @ + 1 ELSE @]

Step(zone, o) ==
  IF ~zone.enabled \/ Degenerate(zone.shape)
  THEN [o EXCEPT !.inside = IF zone.enabled THEN @ ELSE {}, !.since = Debounce]
  ELSE Transition(zone, Aged(o), Evaluate(zone.shape, o.inside))

\* The history of an entity at an evaluation that did or did not change where it
\* counts as inside.
Told(e, crossed) ==
  CASE ~crossed /\ story[e] = "moved" -> "looked at"
    [] ~crossed -> story[e]
    [] story[e] \in {"crossed", "crossed again"} -> "crossed again"
    [] OTHER -> "crossed"

Crosses(e) == \E i \in DOMAIN occupancy :
  (e \in occupancy[i].inside) # (e \in occupancy'[i].inside)

\* update()
Update ==
  /\ config.enabled
  /\ occupancy' = [i \in DOMAIN occupancy |-> Step(config.zones[i], occupancy[i])]
  /\ story' = [e \in Entities |-> Told(e, Crosses(e))]
  /\ UNCHANGED <<config, place, down, changes>>

-----------------------------------------------------------------------------
(* reload_config                                                           *)

\* _zone_signature
Signature(zone) == <<zone.shape, zone.enabled>>

\* Mutant of Rank: every zone of a signature takes the first one's occupancy.
RankFirst(zones, i) == IF i \in DOMAIN zones THEN 0 ELSE 1

\* How many zones before the i-th have its signature.
Rank(zones, i) == Cardinality({j \in 1..i-1 : Signature(zones[j]) = Signature(zones[i])})

\* The queues of old zones: the n-th zone of a signature takes the n-th old one's.
Previous(zones, i) ==
  {j \in DOMAIN config.zones : /\ Signature(config.zones[j]) = Signature(zones[i])
                               /\ Rank(config.zones, j) = Rank(zones, i)}

Carried(zones, i, j) ==
  IF config.zones[j].dest = zones[i].dest
  THEN occupancy[j]
  ELSE [occupancy[j] EXCEPT !.told = 0, !.whole = FALSE]

ReloadConfig(new) ==
  /\ config' = new
  /\ occupancy' = [i \in DOMAIN new.zones |->
                     IF new.enabled /\ Previous(new.zones, i) # {}
                     THEN Carried(new.zones, i, CHOOSE j \in Previous(new.zones, i) :
                                                  \A k \in Previous(new.zones, i) : j <= k)
                     ELSE Fresh]
  /\ story' = [e \in Entities |-> "moved"]

-----------------------------------------------------------------------------
Change == changes < MaxChanges /\ changes' = changes + 1

Reload == \E new \in Configs : Change /\ ReloadConfig(new) /\ UNCHANGED <<place, down>>

\* An entity moves, appears or is lost.
Move ==
  /\ Change
  /\ \E e \in Entities, p \in Spots \cup {None} :
       /\ p # place[e]
       /\ place' = [place EXCEPT ![e] = p]
       /\ story' = [story EXCEPT ![e] = "moved"]
  /\ UNCHANGED <<config, occupancy, down>>

\* The interface a destination is pinned to loses or gets its address.
Outage ==
  /\ Change
  /\ \E d \in Dests : down' = IF d \in down THEN down \ {d} ELSE down \cup {d}
  /\ UNCHANGED <<config, occupancy, place, story>>

Init ==
  /\ config \in Configs
  /\ occupancy = [i \in DOMAIN config.zones |-> Fresh]
  /\ place \in [Entities -> Spots \cup {None}]
  /\ down = {}
  /\ changes = 0
  /\ story = [e \in Entities |-> "moved"]

Next == Update \/ Reload \/ Move \/ Outage

Spec == Init /\ [][Next]_vars

\* The runtime evaluates the zones for as long as they are on.
FairSpec == Spec /\ WF_vars(Update)

-----------------------------------------------------------------------------
Occupancies ==
  [inside: SUBSET Entities, since: 0..Debounce, told: 0..Cardinality(Entities), whole: BOOLEAN]

TypeOK ==
  /\ config \in Configs
  /\ DOMAIN occupancy = DOMAIN config.zones
  /\ \A i \in DOMAIN occupancy : occupancy[i] \in Occupancies
  /\ place \in [Entities -> Spots \cup {None}]
  /\ down \subseteq Dests
  /\ changes \in 0..MaxChanges
  /\ story \in [Entities -> {"moved", "looked at", "crossed", "crossed again"}]

\* Whoever follows a zone's events knows who is inside: occupied or not, and how
\* many where every kind of event is sent, however entries, exits, swaps and the
\* debounce fall together.  Changes while nothing could be sent are excepted.
ReceiverAgrees ==
  \A i \in DOMAIN occupancy :
    LET o == occupancy[i] IN
    o.whole /\ Follows => /\ (o.told # 0) = (o.inside # {})
                          /\ Counts => o.told = Cardinality(o.inside)

\* A reload leaves no occupant behind that the zone as it is now would not have:
\* switched on again it fires its first entry, and no exit of somebody the new
\* filter does not admit.
NoGhosts ==
  \A i \in DOMAIN occupancy :
    LET zone == config.zones[i] IN
    occupancy[i].inside # {} =>
      config.enabled /\ zone.enabled /\ occupancy[i].inside \subseteq Admits[zone.shape]

\* What a save makes of occupancy: no ghosts are left, and one that leaves a
\* zone and those before it alone, but for where they send, changes nobody's
\* occupancy, also among zones that are alike.
ReloadKeeps ==
  [][/\ NoGhosts'
     /\ \A i \in DOMAIN config.zones \cap DOMAIN config'.zones :
          (/\ config.enabled /\ config'.enabled
           /\ \A j \in 1..i : /\ config.zones[j].shape = config'.zones[j].shape
                              /\ config.zones[j].enabled = config'.zones[j].enabled
           /\ changes' # changes)
          => occupancy'[i].inside = occupancy[i].inside]_vars

\* No change is lost in the debounce window: an entity that stays away from the
\* edge of a zone comes to count as what it is, in or out.
Settles ==
  <>[](config.enabled =>
         \A i \in DOMAIN occupancy :
           LET zone == config.zones[i] IN
           zone.enabled =>
             \A e \in Admits[zone.shape] :
               place[e] \notin Outer[zone.shape] \ Inner[zone.shape] =>
                 ((e \in occupancy[i].inside) <=> (place[e] \in Inner[zone.shape])))

\* docs/help-reference on hysteresis: no repeated events when a performer stands
\* on a border.  Whoever does not move enters or leaves at most once.
StandsStill == \A e \in Entities : story[e] # "crossed again"
=============================================================================
