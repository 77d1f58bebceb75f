----------------------------- MODULE LiveConfig -----------------------------
(***************************************************************************)
(* config.toml and the station that runs on it (configuration.py,          *)
(* runtime/app_orchestration.py, the detector builds of services.py).      *)
(*                                                                         *)
(* Web handlers and the main loop save single settings onto the file as it *)
(* is, under one lock; an editor writes it without.  The main loop polls   *)
(* the file's modification time and applies what changed to the running    *)
(* services.  A part that fails to apply has its setting set back and the  *)
(* file is taken again at the next poll.  A person detector is built off   *)
(* the loop, one at a time, and its failure arrives later.                 *)
(*                                                                         *)
(* Three settings stand for all: the video source, applied at once; the    *)
(* detection, off at 0, of one inference size at 1 and 2 and another at 3; *)
(* the marker speeds, which the station itself changes and saves.  Every   *)
(* write of the file is taken to have a later modification time.           *)
(***************************************************************************)
EXTENDS Naturals

CONSTANTS
  Detections,   \* the values of detection in use, of 0 .. 3
  MaxSaves,     \* bound: saves by the web and changes of the speeds
  MaxEdits,     \* bound: writes by an editor
  MaxFailures,  \* bound: swaps, builds and saves that fail
  MaxCuts,      \* bound: power cuts
  Missing, Empty, Torn,  \* what may be there instead of a config
  None

Configs == [video : {1, 2}, detection : Detections, speeds : {1, 2}]
Default == [video |-> 1, detection |-> 0, speeds |-> 1]

Damaged == {Empty, Torn}

ASSUME LiveConfigAssumption ==
  /\ 0 \in Detections /\ Detections \subseteq 0 .. 3
  /\ {MaxSaves, MaxEdits, MaxFailures, MaxCuts} \subseteq Nat
  /\ None \notin {1, 2} /\ None \notin Configs
  /\ Missing \notin Damaged /\ (Damaged \cup {Missing}) \cap Configs = {}

VARIABLES
  disk,     \* config.toml: a config, or missing, empty or torn
  mtime,    \* its modification time
  bak,      \* config.toml.bak
  lock,     \* what a web handler holding config_write_lock has read, or None
  running,  \* app._config
  seen,     \* _config_mtime
  polled,   \* the modification time a poll under way has read, or None
  live,     \* what the video and the detector really run on
  owed,     \* _video_swap_owed
  builds,   \* _detector_builds, the build under way and the one queued
  dirty,    \* the speeds are to be saved
  up,
  acked,    \* ghost: what the saves that succeeded add up to
  saves, edits, failures, cuts

file == <<disk, mtime, bak>>
services == <<live, owed, builds>>
bounds == <<saves, edits, failures, cuts>>
vars == <<file, lock, running, seen, polled, services, dirty, up, acked, bounds>>

Whole(content) == content # Missing /\ content \notin Damaged
Fails == failures < MaxFailures /\ failures' = failures + 1
Works == UNCHANGED failures

\* load_config: what a start, or a save without a file, goes on.
Recovered == IF Whole(disk) THEN disk ELSE IF Whole(bak) THEN bak ELSE Default

-----------------------------------------------------------------------------
(* Saving.                                                                 *)

\* save_config: a snapshot of what the file was, which may fail, then the
\* new content by a rename.
Replace(content) ==
  /\ disk' = content /\ mtime' = mtime + 1
  /\ \/ bak' = disk /\ Works
     \/ bak' = bak /\ Fails

\* A file that is there and does not read whole is refused.
Saves(content) ==
  IF Whole(disk) THEN Replace(content)
  ELSE /\ disk = Missing /\ disk' = content /\ mtime' = mtime + 1
       /\ UNCHANGED bak /\ Works

\* A web handler: the lock, the file as it is, or what it was last read as, ...
WebRead ==
  /\ up /\ lock = None /\ saves < MaxSaves /\ saves' = saves + 1
  /\ disk \notin Damaged
  /\ IF Whole(disk) THEN lock' = disk ELSE lock' \in {Recovered, running}
  /\ UNCHANGED <<file, running, seen, polled, services, dirty, up, acked, edits, failures, cuts>>

\* ... one setting changed, the save, the lock released.
WebSave ==
  /\ up /\ lock # None /\ lock' = None
  /\ \/ \E content \in {[lock EXCEPT !.video = v] : v \in {1, 2}} \cup
                       {[lock EXCEPT !.detection = d] : d \in Detections} :
          /\ content # lock /\ Saves(content)
          /\ acked' = IF acked = None THEN None
                      ELSE [acked EXCEPT !.video = IF content.video # lock.video THEN content.video ELSE @,
                                         !.detection = IF content.detection # lock.detection
                                                       THEN content.detection ELSE @]
     \/ Fails /\ UNCHANGED <<file, acked>>
     \/ disk \in Damaged /\ Works /\ UNCHANGED <<file, acked>>
  /\ UNCHANGED <<running, seen, polled, services, dirty, up, saves, edits, cuts>>

\* The operator changes a marker's speed; it is saved once it has settled.
ChangeSpeeds ==
  /\ up /\ polled = None /\ saves < MaxSaves /\ saves' = saves + 1
  /\ running' = [running EXCEPT !.speeds = 3 - @] /\ dirty' = TRUE
  /\ UNCHANGED <<file, lock, seen, polled, services, up, acked, edits, failures, cuts>>

\* Mutant: the running config is written as it is.
WithSpeedsAll(onDisk) == running

\* save_config_fields: the setting onto the file as it is on disk.
WithSpeeds(onDisk) == [onDisk EXCEPT !.speeds = running.speeds]

PersistSpeeds ==
  /\ up /\ polled = None /\ dirty /\ lock = None
  /\ \/ /\ Saves(IF Whole(disk) THEN WithSpeeds(disk) ELSE running) /\ dirty' = FALSE
        /\ acked' = IF acked = None THEN None ELSE [acked EXCEPT !.speeds = running.speeds]
     \/ Fails /\ UNCHANGED <<file, dirty, acked>>
  /\ UNCHANGED <<lock, running, seen, polled, services, up, saves, edits, cuts>>

\* Someone writes the file without the lock, perhaps in place.
Edit ==
  /\ edits < MaxEdits /\ edits' = edits + 1
  /\ disk' \in Configs \cup Damaged \cup {Missing} /\ disk' # disk
  /\ mtime' = mtime + 1 /\ acked' = None
  /\ UNCHANGED <<bak, lock, running, seen, polled, services, dirty, up, saves, failures, cuts>>

-----------------------------------------------------------------------------
(* Applying.                                                               *)

\* check_config_reload reads the time first.
Poll ==
  /\ up /\ polled = None
  /\ disk # Missing /\ mtime > seen
  /\ polled' = mtime
  /\ UNCHANGED <<file, lock, running, seen, services, dirty, up, acked, bounds>>

\* Mutant: a failed swap is not owed.
SwapNotOwed(new) == running.video # new.video

MustSwap(new) == running.video # new.video \/ owed

\* What is seen once a poll is through: a part that failed is taken again.
Seen(applied) == IF applied THEN polled ELSE seen

\* The receiver rolls back to its own source, or is left without one.
ApplyVideo(new, applied) ==
  \/ /\ ~MustSwap(new) /\ applied /\ Works /\ UNCHANGED owed
     /\ running'.video = running.video /\ live'.video = live.video
  \/ /\ MustSwap(new) /\ applied /\ Works /\ owed' = FALSE
     /\ running'.video = new.video /\ live'.video = new.video
  \/ /\ MustSwap(new) /\ ~applied /\ Fails /\ owed' = TRUE
     /\ running'.video = running.video /\ live'.video \in {live.video, None}

Size(detection) == IF detection = 3 THEN "large" ELSE "small"

Pending == builds.number \in {builds.building.number, builds.queued.number}

NeedsSwap(new) ==
  /\ new.detection # 0
  /\ live.detection = 0 \/ Size(running.detection) # Size(new.detection) \/ Pending

NoBuild == [number |-> 0, detection |-> 0, old |-> 0, from |-> 0]

\* _build_next_detector
NextBuild(b) ==
  IF b.queued.number = b.number /\ b.queued # NoBuild
  THEN [b EXCEPT !.building = b.queued, !.queued = NoBuild]
  ELSE [b EXCEPT !.queued = NoBuild]

Queue(new) ==
  LET queued == [number |-> builds.number + 1, detection |-> new.detection,
                 old |-> running.detection, from |-> seen]
      b == [builds EXCEPT !.number = @ + 1, !.queued = queued]
  IN IF b.building = NoBuild THEN NextBuild(b) ELSE b

\* swap_detector for another size, for one that was off or is being built;
\* else apply_detection_change.
ApplyDetection(new) ==
  /\ running'.detection = new.detection
  /\ CASE new.detection = running.detection -> UNCHANGED builds /\ live'.detection = live.detection
       [] new.detection # running.detection /\ NeedsSwap(new) ->
            builds' = Queue(new) /\ live'.detection = live.detection
       [] OTHER ->
            /\ builds' = IF new.detection = 0 THEN [builds EXCEPT !.number = @ + 1] ELSE builds
            /\ live'.detection = new.detection

Apply ==
  /\ up /\ polled # None /\ polled' = None
  /\ IF Whole(disk)
     THEN \E applied \in BOOLEAN :
            /\ running' \in [video : {1, 2}, detection : Detections, speeds : {running.speeds}]
            /\ live' \in [video : {1, 2, None}, detection : Detections]
            /\ ApplyVideo(disk, applied) /\ ApplyDetection(disk)
            /\ seen' = Seen(applied)
     ELSE UNCHANGED <<running, services, seen, failures>>
  /\ UNCHANGED <<file, lock, dirty, up, acked, saves, edits, cuts>>

\* A build ends, on the main loop: wired in, dropped when a later change
\* overtook it, or failed.  A wiring that cannot be undone leaves no detector.
DetectorBuilt ==
  LET build == builds.building IN
  /\ up /\ polled = None /\ build # NoBuild
  /\ builds' = NextBuild([builds EXCEPT !.building = NoBuild])
  /\ \/ /\ Works /\ UNCHANGED <<running, seen>>
        /\ live' = IF build.number = builds.number THEN [live EXCEPT !.detection = build.detection] ELSE live
     \/ /\ Fails
        /\ IF build.number = builds.number
           THEN /\ running' = [running EXCEPT !.detection = build.old]
                /\ seen' = IF build.from < seen THEN build.from ELSE seen
                /\ live' \in {live, [live EXCEPT !.detection = 0]}
           ELSE UNCHANGED <<running, seen, live>>
  /\ UNCHANGED <<file, lock, polled, owed, dirty, up, acked, saves, edits, cuts>>

-----------------------------------------------------------------------------
PowerCut ==
  /\ up /\ cuts < MaxCuts /\ cuts' = cuts + 1
  /\ up' = FALSE /\ lock' = None /\ polled' = None /\ dirty' = FALSE
  /\ UNCHANGED <<file, running, seen, services, acked, saves, edits, failures>>

Idle == [number |-> 0, building |-> NoBuild, queued |-> NoBuild]
Runs(config) == [video |-> config.video, detection |-> config.detection]

Start ==
  /\ ~up
  /\ disk' = IF disk # Empty THEN disk ELSE IF Whole(bak) THEN bak ELSE Missing
  /\ mtime' = IF disk = Empty THEN mtime + 1 ELSE mtime
  /\ running' = Recovered /\ live' = Runs(Recovered)
  /\ seen' = IF disk' = Missing THEN 0 ELSE mtime'
  /\ owed' = FALSE /\ builds' = Idle /\ up' = TRUE
  /\ acked' = IF Whole(disk') THEN disk' ELSE None
  /\ UNCHANGED <<bak, lock, polled, dirty, bounds>>

Init ==
  /\ disk = Default /\ mtime = 1 /\ bak = Missing /\ acked = Default
  /\ running = Default /\ live = Runs(Default) /\ seen = 1
  /\ lock = None /\ polled = None /\ owed = FALSE /\ builds = Idle /\ dirty = FALSE /\ up = TRUE
  /\ saves = 0 /\ edits = 0 /\ failures = 0 /\ cuts = 0

Next ==
  \/ WebRead \/ WebSave \/ ChangeSpeeds \/ PersistSpeeds \/ Edit
  \/ Poll \/ Apply \/ DetectorBuilt \/ PowerCut \/ Start

Spec == Init /\ [][Next]_vars

\* The main loop runs, a build ends, the power comes back.
FairSpec == Spec /\ WF_vars(Poll) /\ WF_vars(Apply) /\ WF_vars(DetectorBuilt) /\ WF_vars(Start)

-----------------------------------------------------------------------------
(* Properties.                                                             *)

Builds == [number : Nat, detection : Detections, old : Detections, from : Nat]

TypeOK ==
  /\ disk \in Damaged \cup {Missing} \/ disk \in Configs
  /\ bak = Missing \/ bak \in Configs
  /\ lock = None \/ lock \in Configs
  /\ running \in Configs /\ seen \in 0 .. mtime
  /\ polled = None \/ polled \in 1 .. mtime
  /\ live.video \in {1, 2} \cup {None} /\ live.detection \in Detections
  /\ owed \in BOOLEAN /\ dirty \in BOOLEAN /\ up \in BOOLEAN
  /\ builds.building \in Builds /\ builds.queued \in Builds
  /\ acked = None \/ acked \in Configs

\* A save that succeeded is not undone by another writer: with nobody but the
\* station at the file, it holds what every save put there, a web handler's
\* beside the main loop's ("a save another thread made in the meantime
\* survives", save_config_change).
SavesAddUp == acked # None /\ Whole(disk) => disk = acked

\* The video comes to run on what the file says, whatever failed on the way,
\* was saved during a poll or taken back again.
RunsWhatIsSaved ==
  <>[]Whole(disk) => <>[](Whole(disk) /\ live.video = disk.video)

\* A setting whose service failed is taken again by "a later pass", for
\* "otherwise stored config matches new_config and subsequent passes silently
\* no-op while the service stays disabled" (_apply_with_fallback): the
\* detector comes to run on what the file says.
DetectorRunsWhatIsSaved ==
  <>[]Whole(disk) => <>[](Whole(disk) /\ live.detection = disk.detection)
=============================================================================
