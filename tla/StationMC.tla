----------------------------- MODULE StationMC -----------------------------
(***************************************************************************)
(* What runs on the station itself, in one run: a behaviour is one of the  *)
(* trigger zones, of the video receiver, of config.toml and what runs on   *)
(* it, or of the operator's network page, and the others stand still.      *)
(***************************************************************************)
EXTENDS LiveConfig

CONSTANTS
  Entities, Spots, Shapes, Outer, Inner, Admits, Dests, ZoneConfigs, Spoken,
  Debounce, MaxZoneChanges,
  UrlAttempts, PickedAttempts, ListedPasses, MaxChanges, MaxSteps,
  Ifaces, MaxComings, Automatic

VARIABLES
  subject,
  config, occupancy, place, down, zoneChanges, story,
  rx, arriving, looking, posted, air, released, changes, steps,
  simple, present, station, page, worker, result, comings, astray

zones == <<config, occupancy, place, down, zoneChanges, story>>
video == <<rx, arriving, looking, posted, air, released, changes, steps>>
network == <<simple, present, station, page, worker, result, comings, astray>>
all == <<subject, zones, video, vars, network>>

-----------------------------------------------------------------------------
(* The instances.                                                          *)

\* Zones over one line of spots: b is the border band of the square, which is
\* the middle of the wide shape.
LineOuter == [s \in Shapes |-> IF s = "square" THEN {"b", "m"} ELSE {"b", "m", "o"}]
LineInner == [s \in Shapes |-> IF s = "square" THEN {"m"} ELSE {"b", "m"}]
LineAdmits == [s \in Shapes |-> IF s = "filtered" THEN {"m1"} ELSE Entities]

Zone(shape, enabled, dest) == [shape |-> shape, enabled |-> enabled, dest |-> dest]
On(list) == [enabled |-> TRUE, zones |-> list]

\* Two zones that are alike, one of them gone or switched off, another place to
\* send to, another filter, and the whole engine off.
LineConfigs ==
  {On(<<Zone("square", TRUE, "d"), Zone("square", TRUE, None)>>),
   On(<<Zone("square", TRUE, None), Zone("square", TRUE, "d")>>),
   On(<<Zone("square", FALSE, "d"), Zone("square", TRUE, "d")>>),
   On(<<Zone("filtered", TRUE, "d"), Zone("square", TRUE, "d")>>),
   On(<<Zone("square", TRUE, "d")>>),
   [enabled |-> FALSE, zones |-> <<Zone("square", TRUE, "d"), Zone("square", TRUE, "d")>>]}

Attempts == [k \in {"url", "picked"} |-> IF k = "url" THEN UrlAttempts ELSE PickedAttempts]

Zones == INSTANCE ZoneEngine WITH
  Configs <- ZoneConfigs, MaxChanges <- MaxZoneChanges, changes <- zoneChanges
Video == INSTANCE VideoReceiver WITH MaxAttempts <- Attempts
Page == INSTANCE NetworkPage

ASSUME StationAssumption ==
  /\ Zones!ZoneEngineAssumption
  /\ Video!VideoReceiverAssumption
  /\ Page!NetworkPageAssumption

-----------------------------------------------------------------------------
(* A component that stands still is in one of its initial states.          *)

ZonesStand ==
  /\ config = (CHOOSE c \in ZoneConfigs : TRUE)
  /\ occupancy = [i \in DOMAIN config.zones |-> Zones!Fresh]
  /\ place = [e \in Entities |-> None] /\ down = {} /\ zoneChanges = 0
  /\ story = [e \in Entities |-> "moved"]

VideoStands ==
  /\ rx = [kind |-> "url", configured |-> TRUE, awaited |-> FALSE, passes |-> 0,
           pipe |-> "source", placeholder |-> FALSE, connected |-> FALSE, flow |-> FALSE,
           seen |-> FALSE, selection |-> FALSE, wasConnected |-> FALSE, timers |-> {"timeout"},
           discovery |-> FALSE, attempt |-> 0, refusal |-> None, parked |-> FALSE,
           stall |-> TRUE, unbuilt |-> FALSE]
  /\ arriving = FALSE /\ looking = FALSE /\ posted = None /\ air = "good" /\ released = FALSE
  /\ changes = 0 /\ steps = 0

PageStands ==
  /\ simple = FALSE /\ present = Ifaces /\ station = Automatic
  /\ page = Page!Closed /\ worker = None /\ result = None /\ comings = 0 /\ astray = FALSE

StationInit ==
  \/ subject = "zones" /\ Zones!Init /\ VideoStands /\ Init /\ PageStands
  \/ subject = "video" /\ ZonesStand /\ Video!Init /\ Init /\ PageStands
  \/ subject = "file" /\ ZonesStand /\ VideoStands /\ Init /\ PageStands
  \/ subject = "page" /\ ZonesStand /\ VideoStands /\ Init /\ Page!Init

OfZones(step) == subject = "zones" /\ step /\ UNCHANGED <<subject, video, vars, network>>
OfVideo(step) == subject = "video" /\ step /\ UNCHANGED <<subject, zones, vars, network>>

\* A write fails or the power is cut, not both.
OfFile(step) ==
  /\ subject = "file" /\ step /\ failures' + cuts' <= 1
  /\ UNCHANGED <<subject, zones, video, network>>

OfPage(step) == subject = "page" /\ step /\ UNCHANGED <<subject, zones, video, vars>>

StationNext ==
  OfZones(Zones!Next) \/ OfVideo(Video!Next) \/ OfFile(Next) \/ OfPage(Page!Next)

\* Fairness of the one that moves; a conjunct serves them all, for the others
\* take no step.
StationSpec ==
  /\ StationInit /\ [][StationNext]_all
  /\ WF_all(OfZones(Zones!Update) \/ OfVideo(Video!ReconnectDue) \/ OfFile(Poll))
  /\ WF_all(OfVideo(Video!HealDue) \/ OfFile(Apply))
  /\ WF_all(OfVideo(Video!TimeoutDue) \/ OfFile(DetectorBuilt) \/ OfPage(Page!WorkerStep))
  /\ WF_all(OfVideo(Video!FrameDone) \/ OfFile(Start) \/ OfPage(Page!Drain))
  /\ WF_all(OfVideo(Video!PinIsBack))
  /\ SF_all(OfVideo(Video!Frame))

-----------------------------------------------------------------------------
(* The components' properties, each of the behaviours of its component.    *)

StationTypeOK == Zones!TypeOK /\ Video!TypeOK /\ TypeOK /\ Page!TypeOK

ReceiverAgrees == Zones!ReceiverAgrees
ReloadKeeps == Zones!ReloadKeeps
StandsStill == Zones!StandsStill
StallIsSeen == Video!StallIsSeen
AppliesWhatItShows == Page!AppliesWhatItShows

\* What must come about of each: occupancy settles, the picture returns, and the
\* page is given free.
ComesAbout ==
  /\ <>[](subject = "zones") => Zones!Settles
  /\ <>[](subject = "video") => Video!Returns
  /\ <>[](subject = "page") => Page!NeverStaysBusy
=============================================================================
