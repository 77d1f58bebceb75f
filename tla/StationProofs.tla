---------------------------- MODULE StationProofs ----------------------------
(***************************************************************************)
(* Proofs about what runs on the station itself, a part for each component *)
(* that StationMC brings together: the configuration file, the video       *)
(* receiver, the network page and the trigger zones.  Each part defines    *)
(* the component's inductive invariant, has a lemma for each action, and   *)
(* ends in the component's theorems.                                       *)
(***************************************************************************)
EXTENDS StationMC, Sequences, FiniteSetTheorems, WellFoundedInduction, TLAPS

-----------------------------------------------------------------------------
(* Numbers.                                                                *)

\* A set of naturals has a least one.
LEMMA Least == ASSUME NEW S, S \subseteq Nat, S # {} PROVE \E x \in S : \A y \in S : x <= y
<1> DEFINE Less == OpToRel(<, Nat)
<1>1. IsWellFoundedOn(Less, Nat)
  BY NatLessThanWellFounded
<1>2. \A x, y \in Nat : <<x, y>> \in Less <=> x < y
  BY DEF OpToRel
<1> HIDE DEF Less
<1>3. PICK x \in S : \A y \in S : ~ (<<y, x>> \in Less)
  BY <1>1, WFMin
<1>4. ASSUME NEW y \in S PROVE x <= y
  <2>1. x \in Nat /\ y \in Nat /\ ~ (<<y, x>> \in Less)
    BY <1>3
  <2>2. ~ (y < x)
    BY <1>2, <2>1
  <2> QED
    BY <2>1, <2>2
<1> QED
  BY <1>4

-----------------------------------------------------------------------------
(* The configuration file: its variables keep their types, and the saves   *)
(* of the web handlers and of the main loop add up.                        *)

BuildSets == [number : Nat, building : Builds, queued : Builds]
Lives == [video : {1, 2, None}, detection : Detections]

\* The types, in the parts that the steps are checked against.
FileOK ==
  /\ disk \in Damaged \cup {Missing} \cup Configs
  /\ bak \in {Missing} \cup Configs
  /\ mtime \in Nat

LockOK == lock = None \/ lock \in Configs
AckedOK == acked = None \/ acked \in Configs
SeenOK == seen \in 0 .. mtime /\ (polled = None \/ polled \in 1 .. mtime)
RunsOK == running \in Configs /\ live \in Lives
BuildsOK == builds \in BuildSets
Flags == owed \in BOOLEAN /\ dirty \in BOOLEAN /\ up \in BOOLEAN

\* Why the saves add up: while only the station writes, a web handler that
\* holds the lock has read what is still there, and a station that is down
\* holds no lock.
SavesSound ==
  /\ acked # None => Whole(disk) /\ disk = acked
  /\ lock # None /\ acked # None => lock = disk
  /\ up \/ lock = None

Types == FileOK /\ LockOK /\ AckedOK /\ SeenOK /\ RunsOK /\ BuildsOK /\ Flags
IInv == Types /\ SavesSound

-----------------------------------------------------------------------------
(* The configs and the builds.                                             *)

LEMMA ConfigFields ==
  ASSUME NEW c \in Configs
  PROVE  c.video \in {1, 2} /\ c.detection \in Detections /\ c.speeds \in {1, 2}
BY DEF Configs

\* One setting changed makes a config of a config.
LEMMA ConfigChanges ==
  ASSUME NEW c \in Configs
  PROVE  /\ \A v \in {1, 2} : [c EXCEPT !.video = v] \in Configs
         /\ \A d \in Detections : [c EXCEPT !.detection = d] \in Configs
         /\ \A s \in {1, 2} : [c EXCEPT !.speeds = s] \in Configs
BY DEF Configs

LEMMA DefaultIs == Default \in Configs
BY LiveConfigAssumption DEF Configs, Default

\* What reads whole is a config, and a config reads whole.
LEMMA WholeIs ==
  ASSUME NEW c \in Damaged \cup {Missing} \cup Configs
  PROVE  Whole(c) <=> c \in Configs
BY LiveConfigAssumption DEF Whole, Damaged

LEMMA RecoveredIs == ASSUME FileOK PROVE Recovered \in Configs
<1>1. Whole(disk) => disk \in Configs
  BY WholeIs DEF FileOK
<1>2. Whole(bak) => bak \in Configs
  BY WholeIs DEF FileOK
<1>3. QED
  BY <1>1, <1>2, DefaultIs DEF Recovered

LEMMA NoBuildIs == NoBuild \in Builds
BY LiveConfigAssumption DEF NoBuild, Builds

LEMMA NextBuildIs == ASSUME NEW b \in BuildSets PROVE NextBuild(b) \in BuildSets
BY NoBuildIs DEF NextBuild, BuildSets

LEMMA QueuedIs ==
  ASSUME NEW b \in BuildSets, NEW n \in Nat, NEW q \in Builds
  PROVE  [b EXCEPT !.number = n, !.queued = q] \in BuildSets
BY DEF BuildSets

LEMMA QueueIs ==
  ASSUME Types, NEW new \in Configs
  PROVE  Queue(new) \in BuildSets
<1> DEFINE n == builds.number + 1
           q == [number |-> n, detection |-> new.detection,
                 old |-> running.detection, from |-> seen]
           b == [builds EXCEPT !.number = n, !.queued = q]
<1>1. builds \in BuildSets /\ n \in Nat
  BY DEF Types, BuildsOK, BuildSets
<1>2. q \in Builds
  BY <1>1, ConfigFields DEF Types, Builds, RunsOK, SeenOK, FileOK
<1> HIDE DEF n, q
<1>3. b \in BuildSets
  BY <1>1, <1>2, QueuedIs
<1> HIDE DEF b
<1>4. NextBuild(b) \in BuildSets
  BY <1>3, NextBuildIs
<1>5. Queue(new) = IF b.building = NoBuild THEN NextBuild(b) ELSE b
  BY Zenon DEF Queue, b, q, n
<1>6. QED
  BY <1>3, <1>4, <1>5

-----------------------------------------------------------------------------
(* Saving.                                                                 *)

\* A save puts the content there, and what it keeps of the old file was whole.
LEMMA SavesIs ==
  ASSUME FileOK, NEW content \in Configs, Saves(content)
  PROVE  FileOK' /\ disk' = content /\ mtime' = mtime + 1
<1>1. disk' = content /\ mtime' = mtime + 1
  BY DEF Saves, Replace
<1>2. bak' \in {Missing} \cup Configs
  <2>1. Whole(disk) => disk \in Configs
    BY WholeIs DEF FileOK
  <2>2. QED
    BY <2>1 DEF Saves, Replace, FileOK
<1>3. QED
  BY <1>1, <1>2 DEF FileOK

\* The poll's times only fall behind when the file is written.
LEMMA SeenStays ==
  ASSUME FileOK, SeenOK, mtime' \in {mtime, mtime + 1}, UNCHANGED <<seen, polled>>
  PROVE  SeenOK'
BY DEF FileOK, SeenOK

LEMMA WebReadStep == ASSUME IInv, WebRead PROVE IInv'
<1>1. up /\ UNCHANGED <<file, running, seen, polled, services, dirty, up, acked>>
  BY DEF WebRead
<1>2. FileOK' /\ SeenOK' /\ RunsOK' /\ BuildsOK' /\ AckedOK'
  BY <1>1 DEF IInv, Types, FileOK, SeenOK, RunsOK, BuildsOK, AckedOK, file, services
<1>3. Flags'
  BY Zenon, <1>1 DEF IInv, Types, Flags, services
<1>4. LockOK'
  <2>1. Whole(disk) => disk \in Configs
    BY WholeIs DEF IInv, Types, FileOK
  <2>2. QED
    BY <2>1, RecoveredIs DEF WebRead, IInv, Types, LockOK, RunsOK
<1>5. SavesSound'
  BY <1>1 DEF WebRead, IInv, SavesSound, file, Whole
<1>6. QED
  BY <1>2, <1>3, <1>4, <1>5 DEF IInv, Types

\* A handler's save, of the config it read with one setting changed.
LEMMA WebSaveKeeps ==
  ASSUME IInv, lock # None, lock' = None,
         NEW content \in Configs, Saves(content),
         content.speeds = lock.speeds,
         acked' = IF acked = None THEN None
                  ELSE [acked EXCEPT !.video = IF content.video # lock.video THEN content.video ELSE @,
                                     !.detection = IF content.detection # lock.detection
                                                   THEN content.detection ELSE @]
  PROVE  FileOK' /\ AckedOK' /\ SavesSound' /\ mtime' = mtime + 1
<1>1. FileOK' /\ disk' = content /\ mtime' = mtime + 1
  BY SavesIs DEF IInv, Types
<1>2. CASE acked = None
  BY <1>1, <1>2 DEF AckedOK, SavesSound
<1>3. CASE acked # None
  <2>1. acked \in Configs /\ lock = acked
    BY <1>3 DEF IInv, Types, AckedOK, SavesSound
  <2>2. acked' = content
    BY <1>3, <2>1 DEF Configs
  <2>3. Whole(content)
    BY WholeIs
  <2>4. QED
    BY <1>1, <2>2, <2>3 DEF AckedOK, SavesSound
<1>4. QED
  BY <1>2, <1>3

LEMMA WebSaveStep == ASSUME IInv, WebSave PROVE IInv'
<1>1. up /\ lock # None /\ lock' = None
      /\ UNCHANGED <<running, seen, polled, services, dirty, up>>
  BY DEF WebSave
<1>2. LockOK' /\ RunsOK' /\ BuildsOK'
  BY <1>1 DEF IInv, Types, LockOK, RunsOK, BuildsOK, services
<1>3. Flags'
  BY Zenon, <1>1 DEF IInv, Types, Flags, services
<1>4. FileOK' /\ AckedOK' /\ SavesSound' /\ mtime' \in {mtime, mtime + 1}
  <2>1. CASE UNCHANGED <<file, acked>>
    BY <1>1, <2>1 DEF IInv, Types, FileOK, AckedOK, SavesSound, file, Whole
  <2>2. CASE ~UNCHANGED <<file, acked>>
    <3>1. lock \in Configs
      BY <1>1 DEF IInv, Types, LockOK
    <3>2. PICK content \in {[lock EXCEPT !.video = v] : v \in {1, 2}} \cup
                           {[lock EXCEPT !.detection = d] : d \in Detections} :
            /\ Saves(content)
            /\ acked' = IF acked = None THEN None
                        ELSE [acked EXCEPT
                                !.video = IF content.video # lock.video THEN content.video ELSE @,
                                !.detection = IF content.detection # lock.detection
                                              THEN content.detection ELSE @]
      BY <2>2 DEF WebSave
    <3>3. content \in Configs
      BY <3>1, <3>2, ConfigChanges
    <3>4. content.speeds = lock.speeds
      BY <3>1, <3>2 DEF Configs
    <3>5. QED
      BY <1>1, <3>2, <3>3, <3>4, WebSaveKeeps
  <2>3. QED
    BY <2>1, <2>2
<1>5. SeenOK'
  BY <1>1, <1>4, SeenStays DEF IInv, Types
<1>6. QED
  BY <1>2, <1>3, <1>4, <1>5 DEF IInv, Types

LEMMA ChangeSpeedsStep == ASSUME IInv, ChangeSpeeds PROVE IInv'
<1>1. UNCHANGED <<file, lock, seen, polled, services, up, acked>>
  BY DEF ChangeSpeeds
<1>2. RunsOK'
  <2>1. running.speeds \in {1, 2} /\ running \in Configs
    BY ConfigFields DEF IInv, Types, RunsOK
  <2>2. 3 - running.speeds \in {1, 2}
    BY <2>1
  <2>3. QED
    BY <1>1, <2>1, <2>2, ConfigChanges DEF ChangeSpeeds, IInv, Types, RunsOK, services
<1>3. FileOK' /\ LockOK' /\ AckedOK' /\ SeenOK' /\ BuildsOK'
  BY <1>1 DEF IInv, Types, FileOK, LockOK, AckedOK, SeenOK, BuildsOK, file, services
<1>4. Flags'
  BY Zenon, <1>1 DEF ChangeSpeeds, IInv, Types, Flags, services
<1>5. SavesSound'
  BY <1>1 DEF IInv, SavesSound, file, Whole
<1>6. QED
  BY <1>2, <1>3, <1>4, <1>5 DEF IInv, Types

\* The main loop's save: the speeds onto the file as it is on disk.
LEMMA PersistKeeps ==
  ASSUME IInv, lock = None, UNCHANGED <<lock, up>>,
         Saves(IF Whole(disk) THEN WithSpeeds(disk) ELSE running),
         acked' = IF acked = None THEN None ELSE [acked EXCEPT !.speeds = running.speeds]
  PROVE  FileOK' /\ AckedOK' /\ SavesSound' /\ mtime' = mtime + 1
<1>1. running \in Configs /\ running.speeds \in {1, 2}
  BY ConfigFields DEF IInv, Types, RunsOK
<1>2. Whole(disk) => disk \in Configs /\ WithSpeeds(disk) \in Configs
  BY <1>1, WholeIs, ConfigChanges DEF IInv, Types, FileOK, WithSpeeds
<1>3. FileOK' /\ mtime' = mtime + 1
      /\ disk' = IF Whole(disk) THEN WithSpeeds(disk) ELSE running
  BY <1>1, <1>2, SavesIs DEF IInv, Types
<1>4. disk' \in Configs /\ Whole(disk')
  BY <1>1, <1>2, <1>3, WholeIs
<1>5. CASE acked = None
  BY <1>3, <1>5 DEF AckedOK, SavesSound
<1>6. CASE acked # None
  <2>1. Whole(disk) /\ disk = acked
    BY <1>6 DEF IInv, SavesSound
  <2>2. acked' = disk'
    BY <1>3, <1>6, <2>1 DEF WithSpeeds
  <2>3. QED
    BY <1>3, <1>4, <2>2 DEF AckedOK, SavesSound
<1>7. QED
  BY <1>5, <1>6

LEMMA PersistStep == ASSUME IInv, PersistSpeeds PROVE IInv'
<1>1. lock = None /\ UNCHANGED <<lock, running, seen, polled, services, up>>
  BY DEF PersistSpeeds
<1>2. LockOK' /\ RunsOK' /\ BuildsOK'
  BY <1>1 DEF IInv, Types, LockOK, RunsOK, BuildsOK, services
<1>3. Flags'
  BY Zenon, <1>1 DEF PersistSpeeds, IInv, Types, Flags, services
<1>4. FileOK' /\ AckedOK' /\ SavesSound' /\ mtime' \in {mtime, mtime + 1}
  <2>1. CASE UNCHANGED <<file, acked>>
    BY <1>1, <2>1 DEF IInv, Types, FileOK, AckedOK, SavesSound, file, Whole
  <2>2. CASE ~UNCHANGED <<file, acked>>
    <3>1. /\ Saves(IF Whole(disk) THEN WithSpeeds(disk) ELSE running)
          /\ acked' = IF acked = None THEN None ELSE [acked EXCEPT !.speeds = running.speeds]
      BY <2>2 DEF PersistSpeeds
    <3>2. QED
      BY <1>1, <3>1, PersistKeeps
  <2>3. QED
    BY <2>1, <2>2
<1>5. SeenOK'
  BY <1>1, <1>4, SeenStays DEF IInv, Types
<1>6. QED
  BY <1>2, <1>3, <1>4, <1>5 DEF IInv, Types

LEMMA EditStep == ASSUME IInv, Edit PROVE IInv'
<1>1. /\ disk' \in Configs \cup Damaged \cup {Missing} /\ mtime' = mtime + 1 /\ acked' = None
      /\ UNCHANGED <<bak, lock, running, seen, polled, services, dirty, up>>
  BY DEF Edit
<1>2. FileOK' /\ LockOK' /\ AckedOK' /\ RunsOK' /\ BuildsOK'
  BY <1>1 DEF IInv, Types, FileOK, LockOK, AckedOK, RunsOK, BuildsOK, services
<1>3. SeenOK'
  BY <1>1, SeenStays DEF IInv, Types
<1>4. Flags'
  BY Zenon, <1>1 DEF IInv, Types, Flags, services
<1>5. SavesSound'
  BY <1>1 DEF IInv, SavesSound
<1>6. QED
  BY <1>2, <1>3, <1>4, <1>5 DEF IInv, Types

-----------------------------------------------------------------------------
(* Applying: the file, the lock and what was saved stay as they are.       *)

LEMMA Untouched ==
  ASSUME IInv, UNCHANGED <<file, lock, up, acked>>
  PROVE  FileOK' /\ LockOK' /\ AckedOK' /\ SavesSound'
BY DEF IInv, Types, FileOK, LockOK, AckedOK, SavesSound, file, Whole

LEMMA PollStep == ASSUME IInv, Poll PROVE IInv'
<1>1. polled' = mtime /\ mtime > seen
      /\ UNCHANGED <<file, lock, running, seen, services, dirty, up, acked>>
  BY DEF Poll
<1>2. SeenOK' /\ RunsOK' /\ BuildsOK'
  BY <1>1 DEF IInv, Types, FileOK, SeenOK, RunsOK, BuildsOK, file, services
<1>3. Flags'
  BY Zenon, <1>1 DEF IInv, Types, Flags, services
<1>4. QED
  BY <1>1, <1>2, <1>3, Untouched DEF IInv, Types

LEMMA ApplyStep == ASSUME IInv, Apply PROVE IInv'
<1>1. polled # None /\ polled' = None /\ UNCHANGED <<file, lock, dirty, up, acked>>
  BY DEF Apply
<1>2. CASE Whole(disk)
  <2>1. disk \in Configs
    BY <1>2, WholeIs DEF IInv, Types, FileOK
  <2>2. PICK applied \in BOOLEAN :
          /\ running' \in [video : {1, 2}, detection : Detections, speeds : {running.speeds}]
          /\ live' \in [video : {1, 2, None}, detection : Detections]
          /\ ApplyVideo(disk, applied) /\ ApplyDetection(disk)
          /\ seen' = Seen(applied)
    BY Zenon, <1>2 DEF Apply
  <2>3. RunsOK'
    <3>1. running.speeds \in {1, 2}
      BY ConfigFields DEF IInv, Types, RunsOK
    <3>2. QED
      BY <2>2, <3>1 DEF RunsOK, Configs, Lives
  <2>4. SeenOK'
    BY <1>1, <2>2 DEF IInv, Types, SeenOK, FileOK, Seen, file
  <2>5. BuildsOK'
    <3>1. builds' \in {builds, Queue(disk), [builds EXCEPT !.number = @ + 1]}
      BY <2>2 DEF ApplyDetection
    <3>2. [builds EXCEPT !.number = @ + 1] \in BuildSets
      BY DEF IInv, Types, BuildsOK, BuildSets
    <3>3. QED
      BY <2>1, <3>1, <3>2, QueueIs DEF IInv, Types, BuildsOK
  <2>6. Flags'
    BY Zenon, <1>1, <2>2 DEF IInv, Types, Flags, ApplyVideo
  <2>7. QED
    BY <1>1, <2>3, <2>4, <2>5, <2>6, Untouched DEF IInv, Types
<1>3. CASE ~Whole(disk)
  <2>1. UNCHANGED <<running, services, seen>>
    BY <1>3 DEF Apply
  <2>2. SeenOK' /\ RunsOK' /\ BuildsOK'
    BY <1>1, <2>1 DEF IInv, Types, SeenOK, RunsOK, BuildsOK, file, services
  <2>3. Flags'
    BY Zenon, <1>1, <2>1 DEF IInv, Types, Flags, services
  <2>4. QED
    BY <1>1, <2>2, <2>3, Untouched DEF IInv, Types
<1>4. QED
  BY <1>2, <1>3

LEMMA DetectorStep == ASSUME IInv, DetectorBuilt PROVE IInv'
<1> DEFINE build == builds.building
<1>1. /\ builds' = NextBuild([builds EXCEPT !.building = NoBuild])
      /\ UNCHANGED <<file, lock, polled, owed, dirty, up, acked>>
  BY DEF DetectorBuilt
<1>2. build \in Builds
  BY DEF IInv, Types, BuildsOK, BuildSets
<1>3. BuildsOK'
  <2>1. [builds EXCEPT !.building = NoBuild] \in BuildSets
    BY NoBuildIs DEF IInv, Types, BuildsOK, BuildSets
  <2>2. QED
    BY <1>1, <2>1, NextBuildIs DEF BuildsOK
<1>4. RunsOK'
  <2>1. running' \in {running, [running EXCEPT !.detection = build.old]}
    BY DEF DetectorBuilt
  <2>2. live' \in {live, [live EXCEPT !.detection = build.detection], [live EXCEPT !.detection = 0]}
    BY DEF DetectorBuilt
  <2>3. build.old \in Detections /\ build.detection \in Detections /\ 0 \in Detections
    BY <1>2, LiveConfigAssumption DEF Builds
  <2>4. running' \in Configs
    BY <2>1, <2>3, ConfigChanges DEF IInv, Types, RunsOK
  <2>5. live' \in Lives
    BY <2>2, <2>3 DEF IInv, Types, RunsOK, Lives
  <2>6. QED
    BY <2>4, <2>5 DEF RunsOK
<1>5. SeenOK'
  <2>1. seen' = seen \/ (seen' = build.from /\ build.from < seen)
    BY DEF DetectorBuilt
  <2>2. build.from \in Nat
    BY <1>2 DEF Builds
  <2>3. QED
    BY <1>1, <2>1, <2>2 DEF IInv, Types, SeenOK, FileOK, file
<1>6. Flags'
  BY Zenon, <1>1 DEF IInv, Types, Flags
<1>7. QED
  BY <1>1, <1>3, <1>4, <1>5, <1>6, Untouched DEF IInv, Types

-----------------------------------------------------------------------------
(* Power cuts and starts.                                                  *)

LEMMA CutStep == ASSUME IInv, PowerCut PROVE IInv'
<1>1. up' = FALSE /\ lock' = None /\ polled' = None /\ dirty' = FALSE
      /\ UNCHANGED <<file, running, seen, services, acked>>
  BY DEF PowerCut
<1>2. FileOK' /\ LockOK' /\ AckedOK' /\ SeenOK' /\ RunsOK' /\ BuildsOK'
  BY <1>1 DEF IInv, Types, FileOK, LockOK, AckedOK, SeenOK, RunsOK, BuildsOK, file, services
<1>3. Flags'
  BY Zenon, <1>1 DEF IInv, Types, Flags, services
<1>4. SavesSound'
  BY <1>1 DEF IInv, SavesSound, file, Whole
<1>5. QED
  BY <1>2, <1>3, <1>4 DEF IInv, Types

LEMMA StartStep == ASSUME IInv, Start PROVE IInv'
<1>1. /\ ~up
      /\ disk' = IF disk # Empty THEN disk ELSE IF Whole(bak) THEN bak ELSE Missing
      /\ mtime' = IF disk = Empty THEN mtime + 1 ELSE mtime
      /\ running' = Recovered /\ live' = Runs(Recovered)
      /\ seen' = IF disk' = Missing THEN 0 ELSE mtime'
      /\ owed' = FALSE /\ builds' = Idle /\ up' = TRUE
      /\ acked' = IF Whole(disk') THEN disk' ELSE None
      /\ UNCHANGED <<bak, lock, polled, dirty>>
  BY DEF Start
<1>2. FileOK'
  <2>1. Whole(bak) => bak \in Configs
    BY WholeIs DEF IInv, Types, FileOK
  <2>2. QED
    BY <1>1, <2>1 DEF IInv, Types, FileOK
<1>3. LockOK' /\ AckedOK' /\ SavesSound'
  <2>1. lock' = None
    BY <1>1 DEF IInv, SavesSound
  <2>2. Whole(disk)' <=> Whole(disk')
    BY DEF Whole
  <2>3. Whole(disk') => disk' \in Configs
    BY <1>2, WholeIs DEF FileOK
  <2>4. QED
    BY <1>1, <2>1, <2>2, <2>3 DEF LockOK, AckedOK, SavesSound
<1>4. SeenOK'
  BY <1>1, <1>2 DEF IInv, Types, FileOK, SeenOK
<1>5. RunsOK'
  <2>1. Recovered \in Configs
    BY RecoveredIs DEF IInv, Types
  <2>2. QED
    BY <1>1, <2>1, ConfigFields DEF RunsOK, Runs, Lives
<1>6. BuildsOK'
  BY <1>1, NoBuildIs DEF BuildsOK, BuildSets, Idle
<1>7. Flags'
  BY Zenon, <1>1 DEF IInv, Types, Flags
<1>8. QED
  BY <1>2, <1>3, <1>4, <1>5, <1>6, <1>7 DEF IInv, Types

LEMMA InitSound == Init => IInv
<1> SUFFICES ASSUME Init PROVE IInv
  OBVIOUS
<1>1. FileOK /\ LockOK /\ AckedOK /\ SeenOK
  BY DefaultIs DEF Init, FileOK, LockOK, AckedOK, SeenOK
<1>2. RunsOK
  BY DefaultIs, ConfigFields DEF Init, RunsOK, Runs, Lives
<1>3. BuildsOK
  BY NoBuildIs DEF Init, BuildsOK, BuildSets, Idle
<1>4. Flags
  BY Zenon DEF Init, Flags
<1>5. SavesSound
  BY DefaultIs, WholeIs DEF Init, SavesSound
<1>6. QED
  BY <1>1, <1>2, <1>3, <1>4, <1>5 DEF IInv, Types

LEMMA StutterStep == ASSUME IInv, UNCHANGED vars PROVE IInv'
<1>1. SeenOK' /\ RunsOK' /\ BuildsOK'
  BY DEF vars, file, services, IInv, Types, SeenOK, RunsOK, BuildsOK
<1>2. Flags'
  BY Zenon DEF vars, services, IInv, Types, Flags
<1>3. UNCHANGED <<file, lock, up, acked>>
  BY DEF vars
<1>4. QED
  BY <1>1, <1>2, <1>3, Untouched DEF IInv, Types

LEMMA StepSound == IInv /\ [Next]_vars => IInv'
BY WebReadStep, WebSaveStep, ChangeSpeedsStep, PersistStep, EditStep, PollStep, ApplyStep,
   DetectorStep, CutStep, StartStep, StutterStep DEF Next

LEMMA InvariantHolds == Spec => []IInv
BY InitSound, StepSound, PTL DEF Spec

LEMMA IInvIsTypeOK == IInv => TypeOK
<1> SUFFICES ASSUME IInv PROVE TypeOK
  OBVIOUS
<1>1. /\ disk \in Damaged \cup {Missing} \/ disk \in Configs
      /\ bak = Missing \/ bak \in Configs
      /\ running \in Configs /\ seen \in 0 .. mtime
      /\ polled = None \/ polled \in 1 .. mtime
  BY DEF IInv, Types, FileOK, SeenOK, RunsOK
<1>2. live.video \in {1, 2} \cup {None} /\ live.detection \in Detections
  BY DEF IInv, Types, RunsOK, Lives
<1>3. builds.building \in Builds /\ builds.queued \in Builds
  BY DEF IInv, Types, BuildsOK, BuildSets
<1> QED
  BY Zenon, <1>1, <1>2, <1>3 DEF IInv, Types, LockOK, AckedOK, Flags, TypeOK

\* The file, its backup, what runs and the detector builds keep their types;
\* a poll never takes for seen a modification time the file never had.
THEOREM TypeCorrect == Spec => []TypeOK
<1> QED
  BY IInvIsTypeOK, InvariantHolds, PTL

\* However a web handler's read and save, the main loop's save of the speeds,
\* failed saves, power cuts and starts follow each other: unless somebody else
\* wrote the file, it holds what every save that succeeded put there
\* (save_config_change, save_config_fields under config_write_lock).
THEOREM SavesDoAddUp == Spec => []SavesAddUp
<1>1. IInv => SavesAddUp
  BY DEF IInv, SavesSound, SavesAddUp
<1>2. QED
  BY <1>1, InvariantHolds, PTL

-----------------------------------------------------------------------------
(* The video receiver.                                                     *)

\* The receiver's record.
VideoRecord ==
  [kind : {"url", "picked"}, configured : BOOLEAN, awaited : BOOLEAN, passes : 0 .. ListedPasses,
   pipe : {"none", "source", "placeholder"}, placeholder : BOOLEAN, connected : BOOLEAN,
   flow : BOOLEAN, seen : BOOLEAN, selection : BOOLEAN, wasConnected : BOOLEAN,
   timers : SUBSET Video!Timers, discovery : BOOLEAN, attempt : Nat,
   refusal : {None, "down", "name"}, parked : BOOLEAN, stall : BOOLEAN, unbuilt : BOOLEAN]

Shaped(r) ==
  /\ r \in VideoRecord /\ r.attempt <= Attempts[r.kind]
  /\ r.pipe = "placeholder" => r.placeholder

\* The timers that would build the pipeline.
Builders == {"reconnect", "heal", "timeout"}

Unarmed(r) == r.timers \cap Builders = {}
OneTimer(r) == \A a, b \in r.timers \cap Builders : a = b

\* A source that plays is not connected yet, and no picker is open over it.
Unseen(r) == r.pipe = "source" /\ ~r.placeholder => ~r.connected /\ ~r.selection

Built(r) == Shaped(r) /\ OneTimer(r) /\ Unseen(r)

Lates == {"no", "connected", "armed"}

LEMMA VideoConstants ==
  /\ Attempts["url"] \in Nat \ {0} /\ Attempts["picked"] \in Nat \ {0}
  /\ Attempts \in [{"url", "picked"} -> Nat \ {0}]
  /\ ListedPasses \in Nat /\ None \notin Video!Airs /\ None \notin BOOLEAN
BY StationAssumption DEF Video!VideoReceiverAssumption, Video!Kinds



LEMMA ScheduleReconnectBuilds ==
  ASSUME NEW r, Shaped(r), NEW late \in Lates
  PROVE  Built(Video!ScheduleReconnect(r, late))
<1> DEFINE low == Video!ResetVideoFlow(Video!CancelTimers(r))
           n == IF low.attempt < Attempts[r.kind] THEN low.attempt + 1 ELSE low.attempt
           c == late = "connected"
           t == {"reconnect"} \cup IF late # "no" /\ r.stall THEN {"watchdog"} ELSE {}
           s == Video!ScheduleReconnect(r, late)
<1>1. low \in VideoRecord /\ low.attempt = r.attempt /\ low.kind = r.kind
  BY VideoConstants DEF Shaped, VideoRecord, Video!ResetVideoFlow, Video!CancelTimers
<1>2. n \in Nat /\ n <= Attempts[low.kind]
  BY <1>1, VideoConstants DEF Shaped, VideoRecord
<1>3. c \in BOOLEAN
  BY Zenon
<1>4. t \in SUBSET Video!Timers /\ t \subseteq {"reconnect", "watchdog"}
  BY DEF Video!Timers
<1>5. s = [low EXCEPT !.pipe = "none", !.attempt = n, !.connected = c, !.flow = c, !.timers = t]
  BY Zenon DEF Video!ScheduleReconnect
<1> HIDE DEF low, n, c, t, s
<1>6. s \in VideoRecord /\ s.pipe = "none" /\ s.attempt = n /\ s.timers = t /\ s.kind = low.kind
  BY ZenonT(60), <1>1, <1>2, <1>3, <1>4, <1>5 DEF VideoRecord
<1>7. Built(s)
  BY <1>2, <1>4, <1>6 DEF Built, Shaped, OneTimer, Builders, Unseen
<1> QED
  BY <1>7 DEF s


LEMMA RetryRefusedBuilds ==
  ASSUME NEW r, Shaped(r), Unarmed(r), r.pipe = "none"
  PROVE  Built(Video!RetryRefused(r))
<1>1. CASE r.refusal = "name"
  <2> DEFINE s == [r EXCEPT !.timers = @ \cup {"reconnect"}]
  <2>1. s \in VideoRecord
    BY DEF Shaped, VideoRecord, Video!Timers
  <2>2. /\ s.timers = r.timers \cup {"reconnect"}
        /\ s.pipe = "none" /\ s.kind = r.kind /\ s.attempt = r.attempt
    BY DEF Shaped, VideoRecord
  <2>3. Video!RetryRefused(r) = s
    BY <1>1 DEF Video!RetryRefused
  <2> HIDE DEF s
  <2>4. Built(s)
    BY <2>1, <2>2 DEF Built, Shaped, Unarmed, OneTimer, Builders, Unseen
  <2> QED
    BY <2>3, <2>4
<1>2. CASE r.refusal # "name"
  BY <1>2, ScheduleReconnectBuilds DEF Video!RetryRefused, Lates
<1> QED
  BY <1>1, <1>2

\* What a build leaves of a receiver that has no pipeline.
LEMMA CreatePipelineLeaves ==
  ASSUME NEW r, Shaped(r), Unarmed(r), r.pipe = "none", air \in Video!Airs
  PROVE  /\ Shaped(Video!CreatePipeline(r)) /\ Unarmed(Video!CreatePipeline(r))
         /\ ~Video!CreatePipeline(r).connected
         /\ Video!CreatePipeline(r).selection = r.selection
         /\ Video!CreatePipeline(r).refusal # None => Video!CreatePipeline(r).pipe = "none"
<1> DEFINE s == Video!ResetVideoFlow([r EXCEPT !.parked = FALSE])
           b == Video!CreatePipeline(r)
<1>1. /\ s \in VideoRecord /\ s.attempt = r.attempt /\ s.kind = r.kind /\ s.timers = r.timers
      /\ s.pipe = "none" /\ s.refusal = None /\ ~s.connected /\ s.selection = r.selection
  BY DEF Shaped, VideoRecord, Video!ResetVideoFlow
<1>2. \/ air \in {"down", "name"} /\ b = [s EXCEPT !.refusal = air, !.placeholder = TRUE]
      \/ b = Video!PlacePlaceholder(s)
      \/ b = [s EXCEPT !.placeholder = FALSE, !.pipe = "source"]
  BY DEF Video!CreatePipeline
<1> HIDE DEF s, b
<1>3. /\ b \in VideoRecord /\ b.attempt = s.attempt /\ b.kind = s.kind /\ b.timers = s.timers
      /\ ~b.connected /\ (b.refusal # None => b.pipe = "none")
      /\ b.pipe = "placeholder" => b.placeholder
      /\ b.selection = s.selection
  <2>1. CASE air \in {"down", "name"} /\ b = [s EXCEPT !.refusal = air, !.placeholder = TRUE]
    BY ZenonT(60), <1>1, <2>1 DEF VideoRecord
  <2>2. CASE b = Video!PlacePlaceholder(s)
    BY ZenonT(60), <1>1, <2>2 DEF VideoRecord, Video!PlacePlaceholder
  <2>3. CASE b = [s EXCEPT !.placeholder = FALSE, !.pipe = "source"]
    BY ZenonT(60), <1>1, <2>3 DEF VideoRecord
  <2> QED
    BY <1>2, <2>1, <2>2, <2>3
<1>4. Shaped(b) /\ Unarmed(b) /\ ~b.connected /\ b.selection = r.selection /\ (b.refusal # None => b.pipe = "none")
  BY <1>1, <1>3 DEF Shaped, Unarmed
<1> QED
  BY <1>4 DEF b

LEMMA StartedBuilds ==
  ASSUME NEW r, Shaped(r), Unarmed(r), ~r.connected, ~r.selection
  PROVE  Built(Video!Started(r))
<1>1. CASE r.pipe = "source" /\ air = "refused"
  BY <1>1, ScheduleReconnectBuilds DEF Video!Started, Lates
<1>2. CASE r.pipe = "source" /\ air # "refused"
  <2> DEFINE s == [r EXCEPT !.timers = @ \cup {"timeout"}]
  <2>1. /\ s \in VideoRecord /\ s.timers = r.timers \cup {"timeout"} /\ s.kind = r.kind
        /\ s.attempt = r.attempt /\ s.pipe = r.pipe /\ s.placeholder = r.placeholder
        /\ ~s.connected /\ ~s.selection
    BY DEF Shaped, VideoRecord, Video!Timers
  <2>2. Video!Started(r) = s
    BY <1>2 DEF Video!Started
  <2> HIDE DEF s
  <2>3. Built(s)
    BY <2>1 DEF Built, Shaped, Unarmed, OneTimer, Builders, Unseen
  <2> QED
    BY <2>2, <2>3
<1>3. CASE r.pipe # "source"
  <2> DEFINE s == [r EXCEPT !.unbuilt = TRUE]
  <2>1. /\ s \in VideoRecord /\ s.timers = r.timers /\ s.kind = r.kind
        /\ s.attempt = r.attempt /\ s.pipe = r.pipe /\ s.placeholder = r.placeholder
        /\ ~s.connected /\ ~s.selection
    BY DEF Shaped, VideoRecord
  <2>2. Video!Started(r) = s
    BY <1>3 DEF Video!Started
  <2> HIDE DEF s
  <2>3. Built(s)
    BY <2>1 DEF Built, Shaped, Unarmed, OneTimer, Builders, Unseen
  <2> QED
    BY <2>2, <2>3
<1> QED
  BY <1>1, <1>2, <1>3

\* The placeholder, which is set playing.
LEMMA PlaceholderBuilds ==
  ASSUME NEW r, Shaped(r), Unarmed(r)
  PROVE  Built(Video!PlacePlaceholder(r)) /\ Unarmed(Video!PlacePlaceholder(r))
<1> DEFINE s == Video!PlacePlaceholder(r)
<1>1. /\ s \in VideoRecord /\ s.timers = r.timers /\ s.kind = r.kind
      /\ s.attempt = r.attempt /\ s.pipe = "placeholder" /\ s.placeholder
  BY ZenonT(60) DEF Shaped, VideoRecord, Video!PlacePlaceholder
<1> HIDE DEF s
<1>2. Built(s) /\ Unarmed(s)
  BY <1>1 DEF Built, Shaped, Unarmed, OneTimer, Unseen
<1> QED
  BY <1>2 DEF s

LEMMA ScheduleDiscoveryKeeps ==
  ASSUME NEW r, Built(r)
  PROVE  Built(Video!ScheduleDiscovery(r))
<1> DEFINE s == Video!ScheduleDiscovery(r)
<1>0. (r.kind = "picked") \in BOOLEAN
  BY Zenon
<1>1. /\ s \in VideoRecord /\ s.timers = r.timers /\ s.kind = r.kind
      /\ s.attempt = r.attempt /\ s.pipe = r.pipe /\ s.placeholder = r.placeholder
      /\ s.connected = r.connected /\ s.selection = r.selection
  BY ZenonT(60), <1>0 DEF Built, Shaped, VideoRecord, Video!ScheduleDiscovery
<1> HIDE DEF s
<1>2. Built(s)
  BY <1>1 DEF Built, Shaped, OneTimer, Unseen
<1> QED
  BY <1>2 DEF s


\* A receiver that may be set playing.
Ready(r) == Shaped(r) /\ Unarmed(r) /\ ~r.connected /\ (r.refusal # None => r.pipe = "none")

LEMMA PlayUrlBuilds ==
  ASSUME NEW r, Ready(r), air \in Video!Airs
  PROVE  Built(Video!PlayUrl(r))
<1> DEFINE s == [r EXCEPT !.selection = FALSE]
           b == IF s.pipe = "none" /\ s.refusal = None THEN Video!CreatePipeline(s) ELSE s
<1>1. /\ s \in VideoRecord /\ s.timers = r.timers /\ s.kind = r.kind /\ s.attempt = r.attempt
      /\ s.pipe = r.pipe /\ s.placeholder = r.placeholder /\ s.refusal = r.refusal
      /\ ~s.connected /\ ~s.selection
  BY DEF Ready, Shaped, VideoRecord
<1>2. Video!PlayUrl(r) = IF ~r.configured THEN Video!PlacePlaceholder(s)
                         ELSE IF b.refusal # None THEN Video!RetryRefused(b)
                         ELSE Video!Started(b)
  BY Zenon DEF Video!PlayUrl
<1> HIDE DEF s
<1>3. Ready(s)
  BY <1>1 DEF Ready, Shaped, Unarmed
<1>4. Ready(b) /\ ~b.selection
  <2>1. CASE s.pipe = "none" /\ s.refusal = None
    BY <1>1, <1>3, <2>1, CreatePipelineLeaves DEF Ready
  <2>2. CASE ~(s.pipe = "none" /\ s.refusal = None)
    BY <1>1, <1>3, <2>2
  <2> QED
    BY <2>1, <2>2
<1> HIDE DEF b
<1>5. Built(Video!PlacePlaceholder(s))
  BY <1>3, PlaceholderBuilds DEF Ready
<1>6. CASE b.refusal # None
  BY <1>2, <1>4, <1>5, <1>6, RetryRefusedBuilds DEF Ready
<1>7. CASE b.refusal = None
  BY <1>2, <1>4, <1>5, <1>7, StartedBuilds DEF Ready
<1> QED
  BY <1>6, <1>7

LEMMA PlayPickedBuilds ==
  ASSUME NEW r, Ready(r), air \in Video!Airs
  PROVE  Built(Video!PlayPicked(r))
<1> DEFINE s == [r EXCEPT !.selection = FALSE, !.discovery = FALSE]
           u == [r EXCEPT !.selection = TRUE]
           b == IF s.pipe = "none" THEN Video!CreatePipeline(s) ELSE s
<1>1. /\ s \in VideoRecord /\ s.timers = r.timers /\ s.kind = r.kind /\ s.attempt = r.attempt
      /\ s.pipe = r.pipe /\ s.placeholder = r.placeholder /\ s.refusal = r.refusal
      /\ ~s.connected /\ ~s.selection
  BY DEF Ready, Shaped, VideoRecord
<1>2. /\ u \in VideoRecord /\ u.timers = r.timers /\ u.kind = r.kind /\ u.attempt = r.attempt
      /\ u.pipe = r.pipe /\ u.placeholder = r.placeholder
  BY DEF Ready, Shaped, VideoRecord
<1>3. Video!PlayPicked(r) = IF ~r.configured THEN Video!ScheduleDiscovery(Video!PlacePlaceholder(u))
                            ELSE Video!Started(b)
  BY Zenon DEF Video!PlayPicked
<1> HIDE DEF s, u
<1>4. Ready(s) /\ Shaped(u) /\ Unarmed(u)
  BY <1>1, <1>2 DEF Ready, Shaped, Unarmed
<1>5. Shaped(b) /\ Unarmed(b) /\ ~b.connected /\ ~b.selection
  <2>1. CASE s.pipe = "none"
    BY <1>1, <1>4, <2>1, CreatePipelineLeaves DEF Ready
  <2>2. CASE s.pipe # "none"
    BY <1>1, <1>4, <2>2 DEF Ready
  <2> QED
    BY <2>1, <2>2
<1> HIDE DEF b
<1>6. Built(Video!ScheduleDiscovery(Video!PlacePlaceholder(u)))
  BY <1>4, PlaceholderBuilds, ScheduleDiscoveryKeeps
<1>7. Built(Video!Started(b))
  BY <1>5, StartedBuilds
<1> QED
  BY <1>3, <1>6, <1>7

LEMMA PlayBuilds ==
  ASSUME NEW r, Ready(r), air \in Video!Airs
  PROVE  Built(Video!Play(r))
<1> DEFINE s == [r EXCEPT !.unbuilt = FALSE]
<1>1. /\ s \in VideoRecord /\ s.timers = r.timers /\ s.kind = r.kind /\ s.attempt = r.attempt
      /\ s.pipe = r.pipe /\ s.placeholder = r.placeholder /\ s.refusal = r.refusal
      /\ ~s.connected
  BY DEF Ready, Shaped, VideoRecord
<1>2. Video!Play(r) = IF r.kind = "url" THEN Video!PlayUrl(s) ELSE Video!PlayPicked(s)
  BY Zenon DEF Video!Play
<1> HIDE DEF s
<1>3. Ready(s)
  BY <1>1 DEF Ready, Shaped, Unarmed
<1> QED
  BY <1>2, <1>3, PlayUrlBuilds, PlayPickedBuilds

LEMMA NulledIs ==
  ASSUME NEW r, Shaped(r), NEW late \in Lates
  PROVE  /\ Ready(Video!Nulled(r, late)) /\ Video!Nulled(r, late).pipe = "none"
         /\ Video!Nulled(r, late).kind = r.kind
<1> DEFINE low == Video!ResetVideoFlow(Video!CancelTimers(r))
           t == IF late # "no" /\ r.stall THEN {"watchdog"} ELSE {}
           s == Video!Nulled(r, late)
<1>1. /\ low \in VideoRecord /\ low.attempt = r.attempt /\ low.kind = r.kind
      /\ ~low.connected /\ low.refusal = None
  BY VideoConstants DEF Shaped, VideoRecord, Video!ResetVideoFlow, Video!CancelTimers
<1>2. t \in SUBSET Video!Timers /\ t \subseteq {"watchdog"}
  BY DEF Video!Timers
<1>3. s = [low EXCEPT !.pipe = "none", !.timers = t]
  BY Zenon DEF Video!Nulled
<1> HIDE DEF low, t, s
<1>4. /\ s \in VideoRecord /\ s.pipe = "none" /\ s.attempt = r.attempt /\ s.timers = t
      /\ s.kind = r.kind /\ ~s.connected /\ s.refusal = None
  BY <1>1, <1>2, <1>3 DEF VideoRecord
<1>5. Ready(s) /\ s.pipe = "none" /\ s.kind = r.kind
  BY <1>2, <1>4 DEF Ready, Shaped, Unarmed, Builders
<1> QED
  BY <1>5 DEF s

LEMMA SetSourceBuilds ==
  ASSUME NEW r, Shaped(r), NEW late \in Lates, air \in Video!Airs
  PROVE  Built(Video!SetSource(r, late))
<1> DEFINE n == Video!Nulled(r, late)
           s == [n EXCEPT !.awaited = FALSE, !.configured = TRUE, !.attempt = 0,
                          !.selection = FALSE, !.discovery = FALSE, !.seen = FALSE]
           b == Video!CreatePipeline(s)
<1>1. Ready(n) /\ n.pipe = "none"
  BY NulledIs
<1>2. Video!SetSource(r, late) = Video!Play(b)
  BY Zenon DEF Video!SetSource
<1> HIDE DEF n
<1>3. /\ s \in VideoRecord /\ s.pipe = "none" /\ s.attempt = 0 /\ s.timers = n.timers
      /\ s.kind = n.kind
  BY ZenonT(60), <1>1 DEF Ready, Shaped, VideoRecord
<1> HIDE DEF s
<1>4. Shaped(s) /\ Unarmed(s)
  BY <1>1, <1>3, VideoConstants DEF Ready, Shaped, Unarmed, VideoRecord
<1>5. Ready(b)
  BY <1>3, <1>4, CreatePipelineLeaves DEF Ready
<1> QED
  BY <1>2, <1>5, PlayBuilds

LEMMA SwappedBuilds ==
  ASSUME Shaped(rx), NEW kind \in {"url", "picked"}, NEW configured \in BOOLEAN,
         NEW late \in Lates, air \in Video!Airs
  PROVE  Built(Video!Swapped(kind, configured, late))
<1> DEFINE n == Video!Nulled(rx, late)
           z == [n EXCEPT !.kind = kind, !.configured = configured, !.awaited = FALSE,
                          !.seen = FALSE, !.attempt = 0]
           s == [z EXCEPT !.selection = FALSE, !.discovery = FALSE, !.placeholder = FALSE]
<1>1. Ready(n) /\ n.pipe = "none"
  BY NulledIs
<1>2. n \in VideoRecord
  BY <1>1 DEF Ready, Shaped
<1> HIDE DEF n
<1>3. Video!Swapped(kind, configured, late) = Video!Play(s)
  <2>1. s = [n EXCEPT !.kind = kind, !.configured = configured, !.awaited = FALSE,
                      !.seen = FALSE, !.attempt = 0, !.selection = FALSE,
                      !.discovery = FALSE, !.placeholder = FALSE]
    BY <1>2 DEF VideoRecord
  <2> QED
    BY Zenon, <2>1 DEF Video!Swapped, n
<1>4. /\ z \in VideoRecord /\ z.pipe = "none" /\ z.attempt = 0 /\ z.timers = n.timers
      /\ z.kind = kind /\ z.connected = n.connected
  BY ZenonT(60), <1>1, <1>2 DEF VideoRecord
<1> HIDE DEF z
<1>5. /\ s \in VideoRecord /\ s.pipe = "none" /\ s.attempt = 0 /\ s.timers = n.timers
      /\ s.kind = kind /\ ~s.connected
  BY <1>1, <1>4 DEF Ready, VideoRecord
<1> HIDE DEF s
<1>6. Ready(s)
  BY <1>1, <1>5, VideoConstants DEF Ready, Shaped, Unarmed, VideoRecord
<1> QED
  BY <1>3, <1>6, PlayBuilds

LEMMA ScheduleHealBuilds ==
  ASSUME NEW r, Shaped(r), Unseen(r)
  PROVE  Built(Video!ScheduleHeal(r))
<1> DEFINE s == Video!ScheduleHeal(r)
<1>1. /\ s \in VideoRecord /\ s.timers = {"heal"} /\ s.kind = r.kind /\ s.attempt = r.attempt
      /\ s.pipe = r.pipe /\ s.placeholder = r.placeholder /\ s.connected = r.connected
      /\ s.selection = r.selection
  BY DEF Shaped, VideoRecord, Video!ScheduleHeal, Video!CancelTimers, Video!Timers
<1> HIDE DEF s
<1>2. Built(s)
  BY <1>1 DEF Built, Shaped, OneTimer, Unseen
<1> QED
  BY <1>2 DEF s

LEMMA FallBackBuilds ==
  ASSUME NEW r, Shaped(r), Unarmed(r)
  PROVE  Built(Video!FallBack(r))
<1> DEFINE z == [r EXCEPT !.attempt = 0]
           s == Video!PlacePlaceholder(z)
           n == IF ~r.configured THEN s.passes ELSE IF r.seen THEN 0 ELSE ListedPasses
           w == s.awaited \/ r.configured
           p == [s EXCEPT !.awaited = w, !.configured = FALSE, !.selection = TRUE, !.passes = n]
           u == [s EXCEPT !.parked = TRUE, !.selection = FALSE]
           v == [s EXCEPT !.selection = FALSE]
<1>1. z \in VideoRecord /\ z.attempt = 0 /\ z.timers = r.timers /\ z.kind = r.kind
  BY DEF Shaped, VideoRecord
<1>2. /\ s \in VideoRecord /\ s.attempt = 0 /\ s.timers = r.timers /\ s.kind = r.kind
      /\ s.pipe = "placeholder" /\ s.placeholder
  BY <1>1 DEF VideoRecord, Video!PlacePlaceholder
<1>3. Video!FallBack(r) = IF r.kind = "picked" THEN Video!ScheduleDiscovery(p)
                          ELSE IF r.configured THEN Video!ScheduleHeal(u) ELSE v
  BY Zenon DEF Video!FallBack
<1> HIDE DEF z, s
<1>4. w \in BOOLEAN
  BY Zenon
<1>5. n \in 0 .. ListedPasses
  BY <1>2, VideoConstants DEF VideoRecord
<1> HIDE DEF w, n
<1>6. /\ p \in VideoRecord /\ p.attempt = 0 /\ p.timers = r.timers /\ p.kind = r.kind
      /\ p.pipe = "placeholder" /\ p.placeholder
  BY ZenonT(60), <1>2, <1>4, <1>5 DEF VideoRecord
<1>7. /\ u \in VideoRecord /\ u.attempt = 0 /\ u.timers = r.timers /\ u.kind = r.kind
      /\ u.pipe = "placeholder" /\ u.placeholder
  BY <1>2 DEF VideoRecord
<1>8. /\ v \in VideoRecord /\ v.attempt = 0 /\ v.timers = r.timers /\ v.kind = r.kind
      /\ v.pipe = "placeholder" /\ v.placeholder
  BY <1>2 DEF VideoRecord
<1> HIDE DEF p, u, v
<1>9. r.kind \in {"url", "picked"}
  BY DEF Shaped, VideoRecord
<1>10. Built(p) /\ Built(u) /\ Built(v)
  BY <1>6, <1>7, <1>8, <1>9, VideoConstants DEF Built, Shaped, Unarmed, OneTimer, Unseen
<1> QED
  BY <1>3, <1>10, ScheduleDiscoveryKeeps, ScheduleHealBuilds DEF Built

LEMMA DoReconnectBuilds ==
  ASSUME NEW r, Shaped(r), (r.timers \ {"reconnect"}) \cap Builders = {}, air \in Video!Airs
  PROVE  Built(Video!DoReconnect(r))
<1> DEFINE s == [r EXCEPT !.timers = @ \ {"reconnect"}, !.pipe = "none"]
           b == Video!CreatePipeline(s)
<1>1. /\ s \in VideoRecord /\ s.pipe = "none" /\ s.attempt = r.attempt
      /\ s.timers = r.timers \ {"reconnect"} /\ s.kind = r.kind
  BY DEF Shaped, VideoRecord
<1>2. Video!DoReconnect(r) =
        IF s.attempt >= Attempts[s.kind] THEN Video!FallBack(s)
        ELSE IF s.kind = "url" /\ ~s.configured THEN Video!Play(s)
        ELSE IF b.refusal # None THEN Video!RetryRefused(b)
        ELSE IF b.placeholder THEN Video!ScheduleReconnect(b, "no")
        ELSE Video!Play(b)
  BY Zenon DEF Video!DoReconnect
<1> HIDE DEF s
<1>3. Shaped(s) /\ Unarmed(s)
  BY <1>1 DEF Shaped, Unarmed
<1>4. ASSUME s.kind = "url", ~s.configured PROVE Built(Video!Play(s))
  <2> DEFINE u == [s EXCEPT !.unbuilt = FALSE]
             v == [u EXCEPT !.selection = FALSE]
  <2>1. /\ v \in VideoRecord /\ v.timers = s.timers /\ v.attempt = s.attempt
        /\ v.kind = s.kind /\ v.pipe = "none" /\ ~u.configured
    BY <1>1, <1>4 DEF VideoRecord
  <2>2. Video!Play(s) = Video!PlacePlaceholder(v)
    BY <1>4, <2>1 DEF Video!Play, Video!PlayUrl
  <2> HIDE DEF v
  <2>3. Shaped(v) /\ Unarmed(v)
    BY <1>3, <2>1 DEF Shaped, Unarmed
  <2> QED
    BY <2>2, <2>3, PlaceholderBuilds
<1>5. Shaped(b) /\ Unarmed(b) /\ ~b.connected /\ (b.refusal # None => b.pipe = "none")
  BY <1>1, <1>3, CreatePipelineLeaves
<1> HIDE DEF b
<1>6. Built(Video!FallBack(s))
  BY <1>3, FallBackBuilds
<1>7. b.refusal # None => Built(Video!RetryRefused(b))
  BY <1>5, RetryRefusedBuilds
<1>8. Built(Video!ScheduleReconnect(b, "no"))
  BY <1>5, ScheduleReconnectBuilds DEF Lates
<1>9. Built(Video!Play(b))
  BY <1>5, PlayBuilds DEF Ready
<1> QED
  BY <1>2, <1>4, <1>6, <1>7, <1>8, <1>9

-----------------------------------------------------------------------------
\* Over a source that plays, a picker is open only while it is connected: a
\* pipeline that is built closes it, and one that goes takes it along.
PickerOverSource ==
  rx.pipe = "source" /\ ~rx.placeholder /\ rx.selection /\ rx.wasConnected => rx.connected

VInv ==
  /\ Shaped(rx) /\ OneTimer(rx) /\ air \in Video!Airs /\ posted \in {None, TRUE, FALSE}
  /\ Video!StallIsSeen /\ PickerOverSource

LEMMA LateIs == Video!Late \subseteq Lates
BY DEF Video!Late, Lates

\* What has just been built is not connected.
LEMMA BuiltIsSeen ==
  ASSUME NEW r, Built(r), rx' = r, air' \in Video!Airs, posted' \in {None, TRUE, FALSE}
  PROVE  VInv'
BY DEF Built, Unseen, VInv, Video!StallIsSeen, PickerOverSource, Shaped, OneTimer

\* What leaves the picture and its watchdog alone.
LEMMA SameIsSeen ==
  ASSUME VInv, NEW r, Shaped(r), OneTimer(r), rx' = r, air' \in Video!Airs,
         posted' \in {None, TRUE, FALSE},
         rx.pipe = r.pipe, rx.placeholder = r.placeholder, rx.connected = r.connected,
         rx.stall = r.stall, "watchdog" \in rx.timers => "watchdog" \in r.timers,
         r.selection /\ r.wasConnected => rx.connected \/ (rx.selection /\ rx.wasConnected),
         arriving /\ rx.pipe = "source" => arriving'
  PROVE  VInv'
BY DEF VInv, Video!StallIsSeen, PickerOverSource, Shaped, OneTimer

LEMMA ReconnectDueSeen == VInv /\ Video!ReconnectDue => VInv'
<1> SUFFICES ASSUME VInv, Video!ReconnectDue PROVE VInv'
  OBVIOUS
<1>1. Built(Video!DoReconnect(rx))
  BY DoReconnectBuilds DEF VInv, Video!ReconnectDue, OneTimer, Builders
<1> QED
  BY <1>1, BuiltIsSeen DEF VInv, Video!ReconnectDue, Video!Becomes, Video!Quiet

LEMMA HealDueSeen == VInv /\ Video!HealDue => VInv'
<1> SUFFICES ASSUME VInv, Video!HealDue PROVE VInv'
  OBVIOUS
<1> DEFINE r == [rx EXCEPT !.timers = @ \ {"heal"}]
           z == [r EXCEPT !.attempt = 0]
<1>1. /\ r \in VideoRecord /\ r.timers = rx.timers \ {"heal"} /\ r.kind = rx.kind
      /\ r.attempt = rx.attempt /\ r.pipe = rx.pipe /\ r.placeholder = rx.placeholder
      /\ r.connected = rx.connected /\ r.stall = rx.stall /\ r.selection = rx.selection
      /\ r.wasConnected = rx.wasConnected
  BY DEF VInv, Shaped, VideoRecord
<1>2. z \in VideoRecord /\ z.timers = r.timers /\ z.kind = r.kind /\ z.attempt = 0 /\ z.pipe = r.pipe
      /\ z.placeholder = r.placeholder
  BY <1>1 DEF VideoRecord
<1>3. /\ \/ ~r.placeholder /\ rx' = r /\ arriving' = (arriving /\ r.pipe = "source")
         \/ r.placeholder /\ rx' = Video!ScheduleHeal(r)
         \/ rx' = Video!DoReconnect(z)
      /\ "heal" \in rx.timers /\ UNCHANGED <<air, posted>>
  BY DEF Video!HealDue, Video!Becomes, Video!Quiet
<1> HIDE DEF r, z
<1>4. Shaped(r) /\ OneTimer(r) /\ Shaped(z) /\ (z.timers \ {"reconnect"}) \cap Builders = {}
  BY <1>1, <1>2, <1>3, VideoConstants DEF VInv, Shaped, OneTimer, Builders, VideoRecord
<1>5. CASE ~r.placeholder /\ rx' = r /\ arriving' = (arriving /\ r.pipe = "source")
  BY <1>1, <1>3, <1>4, <1>5, SameIsSeen DEF VInv
<1>6. CASE r.placeholder /\ rx' = Video!ScheduleHeal(r)
  BY <1>3, <1>4, <1>6, ScheduleHealBuilds, BuiltIsSeen DEF VInv, Unseen
<1>7. CASE rx' = Video!DoReconnect(z)
  BY <1>3, <1>4, <1>7, DoReconnectBuilds, BuiltIsSeen DEF VInv
<1> QED
  BY <1>3, <1>5, <1>6, <1>7

LEMMA TimeoutDueSeen == VInv /\ Video!TimeoutDue => VInv'
<1> SUFFICES ASSUME VInv, Video!TimeoutDue PROVE VInv'
  OBVIOUS
<1> DEFINE r == [rx EXCEPT !.timers = @ \ {"timeout"}]
<1>1. /\ r \in VideoRecord /\ r.timers = rx.timers \ {"timeout"} /\ r.kind = rx.kind
      /\ r.attempt = rx.attempt /\ r.pipe = rx.pipe /\ r.placeholder = rx.placeholder
      /\ r.connected = rx.connected /\ r.stall = rx.stall /\ r.selection = rx.selection
      /\ r.wasConnected = rx.wasConnected
  BY DEF VInv, Shaped, VideoRecord
<1>3. /\ \/ rx' = r /\ arriving' = (arriving /\ r.pipe = "source")
         \/ \E late \in Video!Late : rx' = Video!ScheduleReconnect(r, late)
      /\ UNCHANGED <<air, posted>>
  BY DEF Video!TimeoutDue, Video!TakesDown, Video!Becomes, Video!Quiet
<1> HIDE DEF r
<1>4. Shaped(r) /\ OneTimer(r)
  BY <1>1 DEF VInv, Shaped, OneTimer
<1>5. CASE rx' = r /\ arriving' = (arriving /\ r.pipe = "source")
  BY <1>1, <1>3, <1>4, <1>5, SameIsSeen DEF VInv
<1>6. ASSUME NEW late \in Video!Late, rx' = Video!ScheduleReconnect(r, late) PROVE VInv'
  BY <1>3, <1>4, <1>6, LateIs, ScheduleReconnectBuilds, BuiltIsSeen DEF VInv
<1> QED
  BY <1>3, <1>5, <1>6

LEMMA WatchdogDueSeen == VInv /\ Video!WatchdogDue => VInv'
<1> SUFFICES ASSUME VInv, Video!WatchdogDue PROVE VInv'
  OBVIOUS
<1> DEFINE r == [rx EXCEPT !.timers = @ \ {"watchdog"}]
<1>1. /\ r \in VideoRecord /\ r.timers = rx.timers \ {"watchdog"} /\ r.kind = rx.kind
      /\ r.attempt = rx.attempt /\ r.pipe = rx.pipe /\ r.placeholder = rx.placeholder
      /\ r.connected = rx.connected /\ r.stall = rx.stall /\ r.selection = rx.selection
      /\ r.wasConnected = rx.wasConnected
  BY DEF VInv, Shaped, VideoRecord
<1>3. /\ \/ (~r.stall \/ ~r.connected \/ r.placeholder) /\ rx' = r
         \/ \E late \in Video!Late : rx' = Video!ScheduleReconnect(r, late)
      /\ UNCHANGED <<air, posted>>
  BY DEF Video!WatchdogDue, Video!TakesDown, Video!Becomes, Video!Quiet
<1> HIDE DEF r
<1>4. Shaped(r) /\ OneTimer(r)
  BY <1>1 DEF VInv, Shaped, OneTimer
<1>5. CASE (~r.stall \/ ~r.connected \/ r.placeholder) /\ rx' = r
  BY <1>1, <1>3, <1>4, <1>5 DEF VInv, Video!StallIsSeen, PickerOverSource
<1>6. ASSUME NEW late \in Video!Late, rx' = Video!ScheduleReconnect(r, late) PROVE VInv'
  BY <1>3, <1>4, <1>6, LateIs, ScheduleReconnectBuilds, BuiltIsSeen DEF VInv
<1> QED
  BY <1>3, <1>5, <1>6

LEMMA BusErrorSeen == VInv /\ Video!BusError => VInv'
<1> SUFFICES ASSUME VInv, Video!BusError PROVE VInv'
  OBVIOUS
<1> DEFINE r == [rx EXCEPT !.connected = FALSE]
<1>1. PICK late \in Video!Late : rx' = Video!ScheduleReconnect(r, late)
  BY DEF Video!BusError, Video!TakesDown, Video!Becomes
<1>2. Shaped(r)
  BY DEF VInv, Shaped, VideoRecord
<1> HIDE DEF r
<1> QED
  BY <1>1, <1>2, LateIs, ScheduleReconnectBuilds, BuiltIsSeen DEF VInv, Video!BusError, Video!Quiet

LEMMA DiscoverySeen == VInv /\ (Video!DiscoveryDue \/ Video!Discovered) => VInv'
<1>1. ASSUME VInv, Video!DiscoveryDue PROVE VInv'
  <2> DEFINE r == [rx EXCEPT !.discovery = FALSE]
  <2>1. /\ rx' = rx \/ rx' = r
        /\ UNCHANGED <<arriving, air, posted>>
    BY <1>1 DEF Video!DiscoveryDue, Video!Quiet
  <2>2. /\ r \in VideoRecord /\ r.timers = rx.timers /\ r.kind = rx.kind /\ r.attempt = rx.attempt
        /\ r.pipe = rx.pipe /\ r.placeholder = rx.placeholder /\ r.connected = rx.connected
        /\ r.stall = rx.stall /\ r.selection = rx.selection /\ r.wasConnected = rx.wasConnected
    BY <1>1 DEF VInv, Shaped, VideoRecord
  <2> HIDE DEF r
  <2>3. Shaped(r) /\ OneTimer(r)
    BY <1>1, <2>2 DEF VInv, Shaped, OneTimer
  <2>4. CASE rx' = r
    BY <1>1, <2>1, <2>2, <2>3, <2>4, SameIsSeen DEF VInv
  <2>5. CASE rx' = rx
    BY <1>1, <2>1, <2>5, SameIsSeen DEF VInv
  <2> QED
    BY <2>1, <2>4, <2>5
<1>2. ASSUME VInv, Video!Discovered PROVE VInv'
  <2> DEFINE listed == air \in {"good", "dark"}
  <2>1. posted' = IF rx.awaited THEN listed ELSE posted
    BY Zenon, <1>2 DEF Video!Discovered
  <2> HIDE DEF listed
  <2>3. listed \in BOOLEAN
    BY SMT DEF listed
  <2>2. posted' \in {None, TRUE, FALSE}
    BY <1>2, <2>1, <2>3 DEF VInv
  <2> QED
    BY <1>2, <2>2, SameIsSeen DEF VInv, Video!Discovered
<1> QED
  BY <1>1, <1>2

LEMMA AwaitedPassSeen == VInv /\ Video!AwaitedPass => VInv'
<1> SUFFICES ASSUME VInv, Video!AwaitedPass PROVE VInv'
  OBVIOUS
<1> DEFINE none == [rx EXCEPT !.passes = 0]
           less == [rx EXCEPT !.passes = rx.passes - 1]
<1>1. /\ \/ rx' = rx /\ arriving' = arriving
         \/ rx' = none /\ arriving' = arriving
         \/ rx' = less /\ arriving' = arriving /\ rx.passes > 0
         \/ \E late \in Video!Late : rx' = Video!SetSource(rx, late)
      /\ air' = air /\ posted' = None
  BY DEF Video!AwaitedPass, Video!TakesDown, Video!Becomes
<1>2. rx.passes \in 0 .. ListedPasses
  BY DEF VInv, Shaped, VideoRecord
<1>3. /\ none \in VideoRecord /\ none.timers = rx.timers /\ none.kind = rx.kind
      /\ none.attempt = rx.attempt /\ none.pipe = rx.pipe /\ none.placeholder = rx.placeholder
      /\ none.connected = rx.connected /\ none.stall = rx.stall
      /\ none.selection = rx.selection /\ none.wasConnected = rx.wasConnected
  BY VideoConstants DEF VInv, Shaped, VideoRecord
<1>4. rx.passes > 0 =>
      /\ less \in VideoRecord /\ less.timers = rx.timers /\ less.kind = rx.kind
      /\ less.attempt = rx.attempt /\ less.pipe = rx.pipe /\ less.placeholder = rx.placeholder
      /\ less.connected = rx.connected /\ less.stall = rx.stall
      /\ less.selection = rx.selection /\ less.wasConnected = rx.wasConnected
  <2>1. rx.passes > 0 => rx.passes - 1 \in 0 .. ListedPasses
    BY <1>2, VideoConstants
  <2> QED
    BY <2>1 DEF VInv, Shaped, VideoRecord
<1> HIDE DEF none, less
<1>5. CASE rx' = rx /\ arriving' = arriving
  BY <1>1, <1>5, SameIsSeen DEF VInv
<1>6. CASE rx' = none /\ arriving' = arriving
  <2>1. Shaped(none) /\ OneTimer(none)
    BY <1>3 DEF VInv, Shaped, OneTimer
  <2> QED
    BY <1>1, <1>3, <1>6, <2>1, SameIsSeen DEF VInv
<1>7. CASE rx' = less /\ arriving' = arriving /\ rx.passes > 0
  <2>1. Shaped(less) /\ OneTimer(less)
    BY <1>4, <1>7 DEF VInv, Shaped, OneTimer
  <2> QED
    BY <1>1, <1>4, <1>7, <2>1, SameIsSeen DEF VInv
<1>8. ASSUME NEW late \in Video!Late, rx' = Video!SetSource(rx, late) PROVE VInv'
  BY <1>1, <1>8, LateIs, SetSourceBuilds, BuiltIsSeen DEF VInv
<1> QED
  BY <1>1, <1>5, <1>6, <1>7, <1>8

\* The streaming thread.
LEMMA FrameSeen == VInv /\ (Video!Frame \/ Video!FrameDone) => VInv'
<1>1. ASSUME VInv, Video!Frame PROVE VInv'
  <2> DEFINE r == [rx EXCEPT !.flow = TRUE, !.seen = TRUE, !.connected = TRUE]
  <2>1. /\ rx' = r /\ arriving' = (arriving \/ ~rx.connected) /\ UNCHANGED <<air, posted>>
        /\ rx.pipe = "source" /\ ~rx.placeholder
    BY <1>1 DEF Video!Frame, Video!Quiet
  <2>2. /\ r \in VideoRecord /\ r.timers = rx.timers /\ r.kind = rx.kind /\ r.attempt = rx.attempt
        /\ r.pipe = rx.pipe /\ r.placeholder = rx.placeholder /\ r.connected
        /\ r.stall = rx.stall
    BY <1>1 DEF VInv, Shaped, VideoRecord
  <2> HIDE DEF r
  <2> QED
    BY <1>1, <2>1, <2>2 DEF VInv, Shaped, OneTimer, Video!StallIsSeen, PickerOverSource
<1>2. ASSUME VInv, Video!FrameDone PROVE VInv'
  <2> DEFINE t == (rx.timers \ {"timeout", "watchdog"}) \cup IF rx.stall THEN {"watchdog"} ELSE {}
             r == [rx EXCEPT !.timers = t]
  <2>1. rx' = r /\ UNCHANGED <<air, posted>>
    BY <1>2 DEF Video!FrameDone, Video!VideoConnected, Video!Quiet
  <2>2. /\ t \in SUBSET Video!Timers /\ t \cap Builders \subseteq rx.timers
        /\ rx.stall => "watchdog" \in t
    BY <1>2 DEF VInv, Shaped, VideoRecord, Video!Timers, Builders
  <2> HIDE DEF t
  <2>3. /\ r \in VideoRecord /\ r.timers = t /\ r.kind = rx.kind /\ r.attempt = rx.attempt
        /\ r.pipe = rx.pipe /\ r.placeholder = rx.placeholder /\ r.connected = rx.connected
        /\ r.stall = rx.stall /\ r.selection = rx.selection /\ r.wasConnected = rx.wasConnected
    BY <1>2, <2>2 DEF VInv, Shaped, VideoRecord
  <2> HIDE DEF r
  <2> QED
    BY <1>2, <2>1, <2>2, <2>3 DEF VInv, Shaped, OneTimer, Video!StallIsSeen, PickerOverSource
<1> QED
  BY <1>1, <1>2

\* The operator's picker.
LEMMA EnterSelectionSeen == VInv /\ Video!EnterSelection => VInv'
<1> SUFFICES ASSUME VInv, Video!EnterSelection PROVE VInv'
  OBVIOUS
<1> DEFINE e == [rx EXCEPT !.wasConnected = rx.connected, !.selection = TRUE, !.discovery = FALSE]
           r == Video!ScheduleDiscovery(e)
<1>1. /\ rx' = r /\ arriving' = (arriving /\ r.pipe = "source") /\ UNCHANGED <<air, posted>>
  BY DEF Video!EnterSelection, Video!Becomes, Video!Step
<1>2. /\ e \in VideoRecord /\ e.timers = rx.timers /\ e.kind = rx.kind /\ e.attempt = rx.attempt
      /\ e.pipe = rx.pipe /\ e.placeholder = rx.placeholder /\ e.connected = rx.connected
      /\ e.stall = rx.stall /\ e.wasConnected = rx.connected
  BY DEF VInv, Shaped, VideoRecord
<1> HIDE DEF e
<1>3. (e.kind = "picked") \in BOOLEAN
  BY Zenon
<1>4. /\ r \in VideoRecord /\ r.timers = rx.timers /\ r.kind = rx.kind /\ r.attempt = rx.attempt
      /\ r.pipe = rx.pipe /\ r.placeholder = rx.placeholder /\ r.connected = rx.connected
      /\ r.stall = rx.stall /\ r.wasConnected = rx.connected
  BY ZenonT(60), <1>2, <1>3 DEF VideoRecord, Video!ScheduleDiscovery
<1> HIDE DEF r
<1> QED
  BY <1>1, <1>4 DEF VInv, Shaped, OneTimer, Video!StallIsSeen, PickerOverSource

LEMMA ExitSelectionSeen == VInv /\ Video!ExitSelection => VInv'
<1> SUFFICES ASSUME VInv, Video!ExitSelection PROVE VInv'
  OBVIOUS
<1> DEFINE r == [rx EXCEPT !.selection = FALSE, !.discovery = FALSE]
           back == [r EXCEPT !.connected = TRUE, !.wasConnected = FALSE]
           wait == Video!ScheduleDiscovery(r)
<1>1. /\ \/ r.wasConnected /\ rx' = back /\ arriving' = (arriving /\ back.pipe = "source")
         \/ rx' = wait /\ arriving' = (arriving /\ wait.pipe = "source")
         \/ rx' = r /\ arriving' = (arriving /\ r.pipe = "source")
         \/ \E late \in Video!Late : rx' = Video!ScheduleReconnect(r, late)
      /\ rx.selection /\ UNCHANGED <<air, posted>>
  BY DEF Video!ExitSelection, Video!TakesDown, Video!Becomes, Video!Step
<1>2. /\ r \in VideoRecord /\ r.timers = rx.timers /\ r.kind = rx.kind
      /\ r.attempt = rx.attempt /\ r.pipe = rx.pipe /\ r.placeholder = rx.placeholder
      /\ r.stall = rx.stall
      /\ r.connected = rx.connected /\ r.wasConnected = rx.wasConnected /\ ~r.selection
  BY DEF VInv, Shaped, VideoRecord
<1> HIDE DEF r
<1>3. /\ back \in VideoRecord /\ back.timers = rx.timers /\ back.kind = rx.kind
      /\ back.attempt = rx.attempt /\ back.pipe = rx.pipe /\ back.placeholder = rx.placeholder
      /\ back.stall = rx.stall
      /\ back.connected /\ ~back.selection
  BY <1>2 DEF VideoRecord
<1>4. (r.kind = "picked") \in BOOLEAN
  BY Zenon
<1>5. /\ wait \in VideoRecord /\ wait.timers = rx.timers /\ wait.kind = rx.kind
      /\ wait.attempt = rx.attempt /\ wait.pipe = rx.pipe /\ wait.placeholder = rx.placeholder
      /\ wait.stall = rx.stall
      /\ wait.connected = rx.connected /\ ~wait.selection
  BY ZenonT(60), <1>2, <1>4 DEF VideoRecord, Video!ScheduleDiscovery
<1> HIDE DEF back, wait
<1>6. /\ Shaped(r) /\ OneTimer(r) /\ Shaped(back) /\ OneTimer(back)
      /\ Shaped(wait) /\ OneTimer(wait)
  BY <1>2, <1>3, <1>5 DEF VInv, Shaped, OneTimer
<1>7. CASE r.wasConnected /\ rx' = back /\ arriving' = (arriving /\ back.pipe = "source")
  BY <1>1, <1>2, <1>3, <1>6, <1>7 DEF VInv, Video!StallIsSeen, PickerOverSource
<1>8. CASE rx' = wait /\ arriving' = (arriving /\ wait.pipe = "source")
  BY <1>1, <1>5, <1>6, <1>8, SameIsSeen DEF VInv
<1>9. CASE rx' = r /\ arriving' = (arriving /\ r.pipe = "source")
  BY <1>1, <1>2, <1>6, <1>9, SameIsSeen DEF VInv
<1>10. ASSUME NEW late \in Video!Late, rx' = Video!ScheduleReconnect(r, late) PROVE VInv'
  BY <1>1, <1>6, <1>10, LateIs, ScheduleReconnectBuilds, BuiltIsSeen DEF VInv
<1> QED
  BY <1>1, <1>7, <1>8, <1>9, <1>10

LEMMA CloseOverlaysSeen == VInv /\ Video!CloseOverlays => VInv'
<1> SUFFICES ASSUME VInv, Video!CloseOverlays PROVE VInv'
  OBVIOUS
<1> DEFINE r == [rx EXCEPT !.selection = FALSE]
<1>1. rx' = r /\ UNCHANGED <<arriving, air, posted>>
  BY DEF Video!CloseOverlays, Video!Step
<1>2. /\ r \in VideoRecord /\ r.timers = rx.timers /\ r.kind = rx.kind
      /\ r.attempt = rx.attempt /\ r.pipe = rx.pipe /\ r.placeholder = rx.placeholder
      /\ r.stall = rx.stall
      /\ r.connected = rx.connected /\ ~r.selection
  BY DEF VInv, Shaped, VideoRecord
<1> HIDE DEF r
<1>3. Shaped(r) /\ OneTimer(r)
  BY <1>2 DEF VInv, Shaped, OneTimer
<1> QED
  BY <1>1, <1>2, <1>3, SameIsSeen DEF VInv

\* What builds the pipeline again.
LEMMA SwapsSeen ==
  VInv /\ (Video!ConfirmSelection \/ Video!SwapInput \/ Video!SwapDetectionBranch) => VInv'
<1>1. ASSUME VInv, Video!ConfirmSelection PROVE VInv'
  BY <1>1, LateIs, SetSourceBuilds, BuiltIsSeen
     DEF VInv, Video!ConfirmSelection, Video!TakesDown, Video!Becomes, Video!Step
<1>2. ASSUME VInv, Video!SwapInput PROVE VInv'
  BY <1>2, LateIs, SwappedBuilds, BuiltIsSeen DEF VInv, Video!SwapInput, Video!Step, Video!Kinds
<1>3. ASSUME VInv, Video!SwapDetectionBranch PROVE VInv'
  BY <1>3, LateIs, NulledIs, PlayBuilds, BuiltIsSeen
     DEF VInv, Video!SwapDetectionBranch, Video!TakesDown, Video!Becomes, Video!Step
<1> QED
  BY <1>1, <1>2, <1>3

LEMMA SetRecoveryTimersSeen == VInv /\ Video!SetRecoveryTimers => VInv'
<1> SUFFICES ASSUME VInv, Video!SetRecoveryTimers PROVE VInv'
  OBVIOUS
<1>1. PICK stall \in BOOLEAN :
        rx' = IF rx.connected
              THEN [rx EXCEPT !.stall = stall,
                              !.timers = (@ \ {"watchdog"}) \cup IF stall THEN {"watchdog"} ELSE {}]
              ELSE IF rx.parked /\ rx.timers \cap {"reconnect", "timeout"} = {}
              THEN [Video!ScheduleHeal(rx) EXCEPT !.stall = stall]
              ELSE [rx EXCEPT !.stall = stall]
  BY DEF Video!SetRecoveryTimers
<1> DEFINE t == (rx.timers \ {"watchdog"}) \cup IF stall THEN {"watchdog"} ELSE {}
           s == [rx EXCEPT !.stall = stall, !.timers = t]
           p == [Video!ScheduleHeal(rx) EXCEPT !.stall = stall]
           q == [rx EXCEPT !.stall = stall]
<1>2. /\ \/ rx' = s
         \/ ~rx.connected /\ (rx' = p \/ rx' = q)
      /\ UNCHANGED <<air, posted>>
  BY <1>1 DEF Video!SetRecoveryTimers, Video!Step
<1>3. /\ t \in SUBSET Video!Timers /\ t \cap Builders \subseteq rx.timers
      /\ stall => "watchdog" \in t
  BY DEF VInv, Shaped, VideoRecord, Video!Timers, Builders
<1> HIDE DEF t
<1>4. /\ s \in VideoRecord /\ s.timers = t /\ s.kind = rx.kind /\ s.attempt = rx.attempt
      /\ s.pipe = rx.pipe /\ s.placeholder = rx.placeholder /\ s.connected = rx.connected
      /\ s.stall = stall /\ s.selection = rx.selection /\ s.wasConnected = rx.wasConnected
  BY <1>3 DEF VInv, Shaped, VideoRecord
<1>5. /\ p \in VideoRecord /\ p.timers = {"heal"} /\ p.kind = rx.kind /\ p.attempt = rx.attempt
      /\ p.pipe = rx.pipe /\ p.placeholder = rx.placeholder /\ p.connected = rx.connected
      /\ p.selection = rx.selection /\ p.wasConnected = rx.wasConnected
  BY DEF VInv, Shaped, VideoRecord, Video!ScheduleHeal, Video!CancelTimers, Video!Timers
<1>6. /\ q \in VideoRecord /\ q.timers = rx.timers /\ q.kind = rx.kind /\ q.attempt = rx.attempt
      /\ q.pipe = rx.pipe /\ q.placeholder = rx.placeholder /\ q.connected = rx.connected
      /\ q.selection = rx.selection /\ q.wasConnected = rx.wasConnected
  BY DEF VInv, Shaped, VideoRecord
<1> HIDE DEF s, p, q
<1>7. CASE rx' = s
  BY <1>2, <1>3, <1>4, <1>7 DEF VInv, Shaped, OneTimer, Video!StallIsSeen, PickerOverSource
<1>8. CASE ~rx.connected /\ rx' = p
  BY <1>2, <1>5, <1>8 DEF VInv, Shaped, OneTimer, Video!StallIsSeen, PickerOverSource
<1>9. CASE ~rx.connected /\ rx' = q
  BY <1>2, <1>6, <1>9 DEF VInv, Shaped, OneTimer, Video!StallIsSeen, PickerOverSource
<1> QED
  BY <1>2, <1>7, <1>8, <1>9

\* The observer and the air.
LEMMA PinSeen == VInv /\ (Video!ReleaseForPin \/ Video!PinIsBack \/ Video!AirChanges) => VInv'
<1>1. ASSUME VInv, Video!ReleaseForPin PROVE VInv'
  <2>1. PICK late \in Video!Late :
          rx' = [Video!Nulled(rx, late) EXCEPT !.awaited = FALSE, !.parked = FALSE, !.discovery = FALSE]
    BY <1>1 DEF Video!ReleaseForPin
  <2> DEFINE n == Video!Nulled(rx, late)
             r == [n EXCEPT !.awaited = FALSE, !.parked = FALSE, !.discovery = FALSE]
  <2>2. Ready(n) /\ n.pipe = "none"
    BY <1>1, <2>1, LateIs, NulledIs DEF VInv
  <2> HIDE DEF n
  <2>3. /\ r \in VideoRecord /\ r.timers = n.timers /\ r.kind = n.kind
        /\ r.attempt = n.attempt /\ r.pipe = "none"
    BY <2>2 DEF Ready, Shaped, VideoRecord
  <2>4. rx' = r
    BY <2>1 DEF n
  <2> HIDE DEF r
  <2>5. Built(r)
    BY <2>2, <2>3 DEF Ready, Built, Shaped, Unarmed, OneTimer, Unseen
  <2> QED
    BY <1>1, <2>4, <2>5, BuiltIsSeen DEF VInv, Video!ReleaseForPin
<1>2. ASSUME VInv, Video!PinIsBack PROVE VInv'
  <2>1. rx.kind \in {"url", "picked"} /\ rx.configured \in BOOLEAN /\ "no" \in Lates
    BY <1>2 DEF VInv, Shaped, VideoRecord, Lates
  <2> QED
    BY <1>2, <2>1, SwappedBuilds, BuiltIsSeen DEF VInv, Video!PinIsBack, Video!Becomes
<1>3. ASSUME VInv, Video!AirChanges PROVE VInv'
  BY <1>3, SameIsSeen DEF VInv, Video!AirChanges
<1> QED
  BY <1>1, <1>2, <1>3

LEMMA VideoInit == Video!Init => VInv
<1> SUFFICES ASSUME Video!Init PROVE VInv
  OBVIOUS
<1>1. PICK kind \in Video!Kinds, configured \in BOOLEAN, stall \in BOOLEAN :
        rx = Video!Play([kind |-> kind, configured |-> configured, awaited |-> FALSE, passes |-> 0,
                  pipe |-> "none", placeholder |-> FALSE, connected |-> FALSE, flow |-> FALSE,
                  seen |-> FALSE, selection |-> FALSE, wasConnected |-> FALSE, timers |-> {},
                  discovery |-> FALSE, attempt |-> 0, refusal |-> None, parked |-> FALSE,
                  stall |-> stall, unbuilt |-> FALSE])
  BY DEF Video!Init
<1> DEFINE r == [kind |-> kind, configured |-> configured, awaited |-> FALSE, passes |-> 0,
                 pipe |-> "none", placeholder |-> FALSE, connected |-> FALSE, flow |-> FALSE,
                 seen |-> FALSE, selection |-> FALSE, wasConnected |-> FALSE, timers |-> {},
                 discovery |-> FALSE, attempt |-> 0, refusal |-> None, parked |-> FALSE,
                 stall |-> stall, unbuilt |-> FALSE]
<1>2. /\ r \in VideoRecord /\ r.timers = {} /\ r.attempt = 0 /\ r.pipe = "none" /\ ~r.connected
      /\ r.kind \in {"url", "picked"}
  BY VideoConstants DEF VideoRecord, Video!Kinds
<1> HIDE DEF r
<1>3. Ready(r)
  BY <1>2, VideoConstants DEF Ready, Shaped, Unarmed
<1>4. rx = Video!Play(r)
  BY <1>1 DEF r
<1>5. air \in Video!Airs /\ posted = None
  BY DEF Video!Init, Video!Airs
<1>6. Built(rx)
  BY <1>3, <1>4, <1>5, PlayBuilds
<1> QED
  BY <1>5, <1>6 DEF Built, Unseen, VInv, Video!StallIsSeen, PickerOverSource

LEMMA VideoNext == VInv /\ [Video!Next]_(Video!vars) => VInv'
<1> SUFFICES ASSUME VInv, [Video!Next]_(Video!vars) PROVE VInv'
  OBVIOUS
<1>1. CASE Video!Next
  BY <1>1, ReconnectDueSeen, HealDueSeen, TimeoutDueSeen, WatchdogDueSeen, BusErrorSeen,
     DiscoverySeen, AwaitedPassSeen, FrameSeen, EnterSelectionSeen, ExitSelectionSeen,
     CloseOverlaysSeen, SwapsSeen, SetRecoveryTimersSeen, PinSeen
     DEF Video!Next
<1>2. CASE UNCHANGED Video!vars
  BY <1>2 DEF Video!vars, VInv, Video!StallIsSeen, PickerOverSource
<1> QED
  BY <1>1, <1>2

LEMMA VInvIsTypeOK == VInv => Video!TypeOK
<1> SUFFICES ASSUME VInv PROVE Video!TypeOK
  OBVIOUS
<1>1. rx.attempt \in 0 .. Attempts[rx.kind]
  BY VideoConstants DEF VInv, Shaped, VideoRecord
<1> QED
  BY <1>1 DEF VInv, Shaped, VideoRecord, OneTimer, Builders, Video!TypeOK, Video!Kinds

\* The receiver is of its types, and at most one of its timers would build a
\* pipeline.
THEOREM VideoTypeCorrect == Video!Spec => []Video!TypeOK
<1> QED
  BY VideoInit, VideoNext, VInvIsTypeOK, PTL DEF Video!Spec

\* A picture that runs is watched.
THEOREM StallsAreSeen == Video!Spec => []StallIsSeen
<1>1. VInv => StallIsSeen
  BY DEF VInv, StallIsSeen
<1> QED
  BY <1>1, VideoInit, VideoNext, PTL DEF Video!Spec

-----------------------------------------------------------------------------
(* The network page.                                                       *)

LEMMA PageConstants ==
  /\ Ifaces \subseteq Nat /\ MaxComings \in Nat
  /\ Automatic # None /\ Automatic \notin Ifaces /\ None \notin Ifaces
  /\ None \notin SUBSET Ifaces
BY StationAssumption DEF Page!NetworkPageAssumption

LEMMA MinIsThere == ASSUME NEW S \in SUBSET Ifaces, S # {} PROVE Page!Min(S) \in S
BY PageConstants, Least DEF Page!Min

\* The page's record.
PageRecord ==
  [at : {"away", "page", "field"}, open : Ifaces \cup {None}, active : Ifaces \cup {None},
   listed : SUBSET Ifaces, pending : (SUBSET Ifaces) \cup {None},
   read : Ifaces \cup {Automatic, None},
   reading : BOOLEAN, static : BOOLEAN, field : Ifaces \cup {None}, busy : BOOLEAN]

Snapshots ==
  [names : SUBSET Ifaces, active : Ifaces \cup {None}, pending : (SUBSET Ifaces) \cup {None},
   station : Ifaces \cup {Automatic, None}]

Jobs ==
  [target : Ifaces, values : SUBSET Ifaces, own : BOOLEAN, names : (SUBSET Ifaces) \cup {None}]

Results == [own : BOOLEAN, snap : Snapshots \cup {None}]

\* What is read, or on the page, is of the interface it is shown for; in Simple
\* mode that is the station's.
Fits(pending, active, read) ==
  /\ pending # None => pending \subseteq {active}
  /\ simple /\ read \in Ifaces => active = read

\* In Simple mode an interface that is listed has values to show.
Listed(pending, active, names) == simple /\ active \in names => pending # None

\* A read that finds the interface asked for shows it.
Finds(snap, asked) == ~simple /\ asked \in snap.names => snap.active = asked

LEMMA ReadsFit ==
  ASSUME simple \in BOOLEAN, NEW names \in SUBSET Ifaces, NEW asked \in Ifaces \cup {None},
         NEW of \in Ifaces \cup {Automatic}, NEW snap \in Page!Reads(names, asked, of)
  PROVE  /\ snap \in Snapshots /\ snap.names = names
         /\ Fits(snap.pending, snap.active, snap.station) /\ Finds(snap, asked)
         /\ Listed(snap.pending, snap.active, snap.names)
<1> USE PageConstants
<1>1. CASE names = {}
  BY <1>1 DEF Page!Reads, Page!Snapshot, Snapshots, Fits, Finds, Listed
<1>2. CASE names # {}
  <2>1. PICK auto \in Ifaces \cup {None} : snap = Page!ReadOf(names, asked, auto, of)
    BY <1>2 DEF Page!Reads, Page!Maybe
  <2> DEFINE least == Page!Min(names)
  <2>2. least \in names
    BY <1>2, MinIsThere
  <2> HIDE DEF least
  <2>3. CASE simple
    <3> DEFINE target == IF of = Automatic THEN auto ELSE of
               shown == IF target = None THEN least ELSE target
               pending == IF shown \in names THEN {shown} ELSE None
    <3>1. snap = [names |-> names, active |-> shown, pending |-> pending, station |-> of]
      BY <2>1, <2>3 DEF Page!ReadOf, Page!Snapshot, least
    <3>2. shown \in Ifaces /\ (of \in Ifaces => shown = of)
      BY <2>2
    <3>3. /\ pending \in (SUBSET Ifaces) \cup {None}
          /\ pending # None => pending \subseteq {shown}
          /\ shown \in names => pending # None
      BY <3>2
    <3> HIDE DEF shown, pending
    <3> QED
      BY <2>3, <3>1, <3>2, <3>3 DEF Snapshots, Fits, Finds, Listed
  <2>4. CASE ~simple
    <3> DEFINE shown == IF asked \in names THEN asked ELSE least
    <3>1. snap = [names |-> names, active |-> shown, pending |-> {shown}, station |-> None]
      BY <2>1, <2>4 DEF Page!ReadOf, Page!Snapshot, least
    <3>2. shown \in Ifaces /\ (asked \in names => shown = asked)
      BY <2>2
    <3> HIDE DEF shown
    <3> QED
      BY <2>4, <3>1, <3>2 DEF Snapshots, Fits, Finds, Listed
  <2> QED
    BY <2>3, <2>4
<1> QED
  BY <1>1, <1>2

\* A page shows what was read of the interface it names, unless it went astray.
PageOK(p, stray) ==
  /\ p \in PageRecord
  /\ p.at # "page" => ~p.busy
  /\ simple => /\ p.open = None /\ Fits(p.pending, p.active, p.read)
               /\ ~p.reading => Listed(p.pending, p.active, p.listed)
  /\ ~simple /\ p.open # None /\ ~stray =>
       p.active = p.open /\ (p.pending # None => p.pending \subseteq {p.open})
  /\ p.at = "field" => p.field \in Ifaces /\ p.field = IF simple THEN p.active ELSE p.open

Own(job) == job # None /\ job.own

PageTypes ==
  /\ simple \in BOOLEAN /\ present \in SUBSET Ifaces /\ station \in Ifaces \cup {Automatic}
  /\ worker \in Jobs \cup {None} /\ result \in Results \cup {None} /\ astray \in BOOLEAN

\* Who waits for a worker keeps the page busy; what it brings fits the page.
Awaited == (Own(worker) \/ Own(result) => page.busy) /\ ~(Own(worker) /\ Own(result))
Brings ==
  Own(result) /\ result.snap # None =>
    /\ Fits(result.snap.pending, result.snap.active, result.snap.station)
    /\ Listed(result.snap.pending, result.snap.active, result.snap.names)
    /\ page.open # None /\ ~astray => Finds(result.snap, page.open)

PInv == PageTypes /\ PageOK(page, astray) /\ Awaited /\ Brings

\* What a page needs for a read to be shown on it.
Open4Read(p) ==
  /\ p \in PageRecord /\ (p.at # "page" => ~p.busy) /\ p.at # "field"
  /\ simple => p.open = None

LEMMA AppliedOK ==
  ASSUME simple \in BOOLEAN, NEW p, Open4Read(p), NEW stray, NEW snap \in Snapshots,
         Fits(snap.pending, snap.active, snap.station),
         Listed(snap.pending, snap.active, snap.names),
         p.open # None /\ ~stray => Finds(snap, p.open),
         ~stray => p.open = None \/ p.open \in snap.names
  PROVE  PageOK(Page!Applied(p, snap), stray)
<1> DEFINE q == Page!Applied(p, snap)
<1>1. /\ q \in PageRecord /\ q.at = p.at /\ q.busy = p.busy /\ q.open = p.open
      /\ q.active = snap.active /\ q.pending = snap.pending /\ q.read = snap.station
      /\ q.listed = snap.names
  BY ZenonT(60) DEF Open4Read, PageRecord, Snapshots, Page!Applied
<1> HIDE DEF q
<1>2. PageOK(q, stray)
  BY <1>1 DEF PageOK, Open4Read, Fits, Finds
<1> QED
  BY <1>2 DEF q

LEMMA NotReadOK ==
  ASSUME simple \in BOOLEAN, NEW p, Open4Read(p), NEW stray,
         ~simple /\ p.open # None /\ ~stray => p.active = p.open
  PROVE  PageOK(Page!NotRead(p), stray)
<1> DEFINE q == Page!NotRead(p)
<1>1. /\ q \in PageRecord /\ q.at = p.at /\ q.busy = p.busy /\ q.open = p.open
      /\ q.active = p.active /\ q.pending = None /\ q.read = None /\ q.reading
  BY DEF Open4Read, PageRecord, Page!NotRead
<1> HIDE DEF q
<1>2. PageOK(q, stray)
  BY <1>1, PageConstants DEF PageOK, Open4Read, Fits
<1> QED
  BY <1>2 DEF q

\* A read for the page, or none within its time.
LEMMA RefreshedOK ==
  ASSUME PageTypes, NEW p, Open4Read(p), NEW of \in Ifaces \cup {Automatic},
         ~simple /\ p.open # None /\ ~astray => p.active = p.open,
         Page!Refreshed(p, of)
  PROVE  PageOK(page', astray') /\ astray' \in BOOLEAN
<1>1. ASSUME NEW snap \in Page!Reads(present, p.active, of), Page!Shows(Page!Applied(p, snap))
      PROVE  PageOK(page', astray') /\ astray' \in BOOLEAN
  <2>1. p.active \in Ifaces \cup {None}
    BY DEF Open4Read, PageRecord
  <2>2. /\ snap \in Snapshots /\ snap.names = present
        /\ Fits(snap.pending, snap.active, snap.station) /\ Finds(snap, p.active)
        /\ Listed(snap.pending, snap.active, snap.names)
    BY <1>1, <2>1, ReadsFit DEF PageTypes
  <2> DEFINE q == Page!Applied(p, snap)
  <2>3. q.open = p.open /\ q.listed = snap.names
    BY <2>2 DEF Open4Read, PageRecord, Snapshots, Page!Applied
  <2>4. page' = q /\ astray' = (q.open # None /\ (astray \/ q.open \notin q.listed))
    BY <1>1 DEF Page!Shows, Page!Astray
  <2>5. (q.open # None /\ (astray \/ q.open \notin q.listed)) \in BOOLEAN
    BY Zenon
  <2> HIDE DEF q
  <2>6. p.open # None /\ ~astray' => Finds(snap, p.open)
    BY <2>2, <2>3, <2>4 DEF Finds
  <2>7. ~astray' => p.open = None \/ p.open \in snap.names
    BY <2>3, <2>4
  <2>8. PageOK(q, astray')
    BY <2>2, <2>6, <2>7, AppliedOK DEF PageTypes, q
  <2> QED
    BY <2>4, <2>5, <2>8
<1>2. CASE Page!Shows(Page!NotRead(p))
  <2> DEFINE q == Page!NotRead(p)
  <2>1. q.open = p.open
    BY DEF Open4Read, PageRecord, Page!NotRead
  <2>2. page' = q /\ astray' = (q.open # None /\ (astray \/ q.open \notin q.listed))
    BY <1>2 DEF Page!Shows, Page!Astray
  <2>3. (q.open # None /\ (astray \/ q.open \notin q.listed)) \in BOOLEAN
    BY Zenon
  <2> HIDE DEF q
  <2>4. ~simple /\ p.open # None /\ ~astray' => p.active = p.open
    BY <2>1, <2>2
  <2>5. PageOK(q, astray')
    BY <2>4, NotReadOK DEF PageTypes, q
  <2> QED
    BY <2>2, <2>3, <2>5
<1> QED
  BY <1>1, <1>2 DEF Page!Refreshed

\* What a page is shown as it is.
LEMMA ShowsOK ==
  ASSUME NEW p, Page!Shows(p), p.open = None \/ ~astray => PageOK(p, FALSE), PageOK(p, TRUE)
  PROVE  page' = p /\ PageOK(page', astray') /\ astray' \in BOOLEAN
<1>1. page' = p /\ astray' = (p.open # None /\ (astray \/ p.open \notin p.listed))
  BY DEF Page!Shows, Page!Astray
<1>2. (p.open # None /\ (astray \/ p.open \notin p.listed)) \in BOOLEAN
  BY Zenon
<1>3. CASE astray' = TRUE
  BY <1>1, <1>3
<1>4. CASE astray' = FALSE
  BY <1>1, <1>4
<1> QED
  BY <1>1, <1>2, <1>3, <1>4

\* A page that is not busy waits for nobody.
LEMMA NobodyIsAwaited ==
  ASSUME PInv, ~page.busy, UNCHANGED <<simple, worker, result>>
  PROVE  Awaited' /\ Brings'
BY DEF PInv, Awaited, Brings, Own

LEMMA EnterOK == PInv /\ Page!Enter => PInv'
<1> SUFFICES ASSUME PInv, Page!Enter PROVE PInv'
  OBVIOUS
<1> DEFINE p == [page EXCEPT !.at = "page", !.busy = FALSE, !.static = FALSE]
<1>1. Page!Refreshed(p, station) /\ page.at = "away"
      /\ UNCHANGED <<simple, present, station, worker, result>>
  BY DEF Page!Enter, Page!world
<1>2. /\ p \in PageRecord /\ p.at = "page" /\ p.open = page.open /\ p.active = page.active
  BY DEF PInv, PageOK, PageRecord
<1> HIDE DEF p
<1>3. Open4Read(p) /\ (~simple /\ p.open # None /\ ~astray => p.active = p.open)
  BY <1>2 DEF Open4Read, PInv, PageOK
<1>4. PageOK(page', astray') /\ astray' \in BOOLEAN
  BY <1>1, <1>3, RefreshedOK DEF PInv, PageTypes
<1>5. Awaited' /\ Brings'
  BY <1>1, NobodyIsAwaited DEF PInv, PageOK
<1> QED
  BY <1>1, <1>4, <1>5 DEF PInv, PageTypes, PageOK, Fits, Listed

\* Leaving: what is under way is orphaned.
LEMMA LatestIs ==
  ASSUME NEW job, job \in Jobs \cup {None} \/ job \in Results \cup {None}
  PROVE  /\ job \in Jobs \cup {None} => Page!Latest(job, FALSE) \in Jobs \cup {None}
         /\ job \in Results \cup {None} => Page!Latest(job, FALSE) \in Results \cup {None}
         /\ ~Own(Page!Latest(job, FALSE))
         /\ job = None => Page!Latest(job, FALSE) = None
BY DEF Page!Latest, Own, Jobs, Results

LEMMA LeaveOK == PInv /\ Page!Leave => PInv'
<1> SUFFICES ASSUME PInv, Page!Leave PROVE PInv'
  OBVIOUS
<1> DEFINE l == [page EXCEPT !.open = None, !.static = FALSE]
           a == [page EXCEPT !.at = "away", !.open = None, !.busy = FALSE]
<1>1. page.at = "page" /\ UNCHANGED <<simple, present, station>>
  BY DEF Page!Leave, Page!world
<1>2. CASE ~simple /\ page.open # None
  <2>1. Page!Shows(l) /\ UNCHANGED <<worker, result>>
    BY <1>2 DEF Page!Leave
  <2>2. /\ l \in PageRecord /\ l.at = "page" /\ l.open = None /\ l.busy = page.busy
    BY <1>1 DEF PInv, PageOK, PageRecord
  <2> HIDE DEF l
  <2>3. PageOK(l, FALSE) /\ PageOK(l, TRUE)
    BY <1>2, <2>2 DEF PInv, PageTypes, PageOK
  <2>4. page' = l /\ PageOK(page', astray') /\ astray' \in BOOLEAN
    BY <2>1, <2>3, ShowsOK
  <2> QED
    BY <1>1, <2>1, <2>2, <2>4 DEF PInv, PageTypes, PageOK, Fits, Listed, Awaited, Brings, Own
<1>3. CASE ~(~simple /\ page.open # None)
  <2>1. /\ Page!Shows(a)
        /\ worker' = Page!Latest(worker, FALSE) /\ result' = Page!Latest(result, FALSE)
    BY <1>3 DEF Page!Leave, Page!Bump
  <2>2. /\ a \in PageRecord /\ a.at = "away" /\ a.open = None /\ a.busy = FALSE
        /\ a.pending = page.pending /\ a.active = page.active /\ a.read = page.read
        /\ a.listed = page.listed /\ a.reading = page.reading
    BY DEF PInv, PageOK, PageRecord
  <2> HIDE DEF a
  <2>3. PageOK(a, FALSE) /\ PageOK(a, TRUE)
    BY <2>2 DEF PInv, PageTypes, PageOK
  <2>4. page' = a /\ PageOK(page', astray') /\ astray' \in BOOLEAN
    BY <2>1, <2>3, ShowsOK
  <2>5. /\ worker' \in Jobs \cup {None} /\ result' \in Results \cup {None}
        /\ ~Own(worker') /\ ~Own(result')
    BY <2>1, LatestIs DEF PInv, PageTypes
  <2> QED
    BY <1>1, <2>4, <2>5 DEF PInv, PageTypes, PageOK, Fits, Listed, Awaited, Brings
<1> QED
  BY <1>2, <1>3

\* What reads the interfaces again on a page that is not busy.
LEMMA OpenOK == ASSUME PInv, NEW i \in Ifaces, Page!Open(i) PROVE PInv'
<1> DEFINE p == [page EXCEPT !.open = i, !.active = i, !.static = FALSE]
<1>1. /\ Page!Refreshed(p, station) /\ page.at = "page" /\ ~page.busy /\ ~simple
      /\ UNCHANGED <<simple, present, station, worker, result>>
  BY DEF Page!Open, Page!world
<1>2. /\ p \in PageRecord /\ p.at = "page" /\ p.open = i /\ p.active = i
  BY <1>1 DEF PInv, PageOK, PageRecord
<1> HIDE DEF p
<1>3. Open4Read(p) /\ (~simple /\ p.open # None /\ ~astray => p.active = p.open)
  BY <1>1, <1>2 DEF Open4Read
<1>4. PageOK(page', astray') /\ astray' \in BOOLEAN
  BY <1>1, <1>3, RefreshedOK DEF PInv, PageTypes
<1>5. Awaited' /\ Brings'
  BY <1>1, NobodyIsAwaited
<1> QED
  BY <1>1, <1>4, <1>5 DEF PInv, PageTypes, PageOK, Fits, Listed

LEMMA CancelStaticOK == PInv /\ Page!CancelStatic => PInv'
<1> SUFFICES ASSUME PInv, Page!CancelStatic PROVE PInv'
  OBVIOUS
<1> DEFINE p == [page EXCEPT !.static = FALSE]
<1>1. /\ Page!Refreshed(p, station) /\ page.at = "page" /\ ~page.busy
      /\ UNCHANGED <<simple, present, station, worker, result>>
  BY DEF Page!CancelStatic, Page!world
<1>2. /\ p \in PageRecord /\ p.at = "page" /\ p.open = page.open /\ p.active = page.active
  BY <1>1 DEF PInv, PageOK, PageRecord
<1> HIDE DEF p
<1>3. Open4Read(p) /\ (~simple /\ p.open # None /\ ~astray => p.active = p.open)
  BY <1>1, <1>2 DEF Open4Read, PInv, PageOK
<1>4. PageOK(page', astray') /\ astray' \in BOOLEAN
  BY <1>1, <1>3, RefreshedOK DEF PInv, PageTypes
<1>5. Awaited' /\ Brings'
  BY <1>1, NobodyIsAwaited
<1> QED
  BY <1>1, <1>4, <1>5 DEF PInv, PageTypes, PageOK, Fits, Listed

LEMMA PickStationOK ==
  ASSUME PInv, NEW i \in Ifaces \cup {Automatic}, Page!PickStation(i) PROVE PInv'
<1>1. /\ Page!Refreshed(page, station') /\ page.at = "page" /\ ~page.busy /\ simple
      /\ station' \in {station, i} /\ UNCHANGED <<simple, present, worker, result>>
  BY DEF Page!PickStation
<1>2. station' \in Ifaces \cup {Automatic}
  BY <1>1 DEF PInv, PageTypes
<1>3. Open4Read(page)
  BY <1>1 DEF Open4Read, PInv, PageOK
<1>4. PageOK(page', astray') /\ astray' \in BOOLEAN
  BY <1>1, <1>2, <1>3, RefreshedOK DEF PInv
<1>5. Awaited' /\ Brings'
  BY <1>1, NobodyIsAwaited
<1> QED
  BY <1>1, <1>2, <1>4, <1>5 DEF PInv, PageTypes, PageOK, Fits, Listed

\* Editing, on a page that is not busy.
LEMMA BeginStaticOK == PInv /\ Page!BeginStatic => PInv'
<1> SUFFICES ASSUME PInv, Page!BeginStatic PROVE PInv'
  OBVIOUS
<1> DEFINE v == IF page.pending = None THEN {} ELSE page.pending
           p == [page EXCEPT !.static = TRUE, !.pending = v]
<1>1. /\ Page!Shows(p) /\ page.at = "page" /\ ~page.busy /\ ~simple /\ page.open # None
      /\ UNCHANGED <<simple, present, station, worker, result>>
  BY DEF Page!BeginStatic, Page!Confirm, Page!Detail, Page!world
<1>2. v \in SUBSET Ifaces /\ (page.pending # None => v = page.pending)
      /\ (page.pending = None => v = {})
  BY DEF PInv, PageOK, PageRecord
<1> HIDE DEF v
<1>3. /\ p \in PageRecord /\ p.at = "page" /\ p.open = page.open /\ p.active = page.active
      /\ p.pending = v
  BY <1>1, <1>2 DEF PInv, PageOK, PageRecord
<1> HIDE DEF p
<1>4. PageOK(p, TRUE) /\ (p.open = None \/ ~astray => PageOK(p, FALSE))
  BY <1>1, <1>2, <1>3 DEF PInv, PageOK
<1>5. page' = p /\ PageOK(page', astray') /\ astray' \in BOOLEAN
  BY <1>1, <1>4, ShowsOK
<1>6. Awaited' /\ Brings'
  BY <1>1, NobodyIsAwaited
<1> QED
  BY <1>1, <1>5, <1>6 DEF PInv, PageTypes, PageOK, Fits, Listed

LEMMA EditFieldOK == PInv /\ Page!EditField => PInv'
<1> SUFFICES ASSUME PInv, Page!EditField PROVE PInv'
  OBVIOUS
<1> DEFINE named == IF simple THEN page.active ELSE page.open
           p == [page EXCEPT !.at = "field", !.field = named]
<1>1. /\ Page!Shows(p) /\ page.at = "page" /\ ~page.busy
      /\ \/ ~simple /\ page.open # None
         \/ simple /\ page.active \in page.listed
      /\ UNCHANGED <<simple, present, station, worker, result>>
  BY DEF Page!EditField, Page!Confirm, Page!Detail, Page!Editable, Page!Named, Page!world
<1>2. named \in Ifaces
  BY <1>1 DEF PInv, PageOK, PageRecord
<1> HIDE DEF named
<1>3. /\ p \in PageRecord /\ p.at = "field" /\ p.open = page.open /\ p.active = page.active
      /\ p.pending = page.pending /\ p.read = page.read /\ p.listed = page.listed
      /\ p.reading = page.reading /\ p.field = named /\ p.busy = page.busy
  BY <1>1, <1>2 DEF PInv, PageOK, PageRecord
<1> HIDE DEF p
<1>4. PageOK(p, TRUE) /\ (p.open = None \/ ~astray => PageOK(p, FALSE))
  BY <1>1, <1>2, <1>3 DEF PInv, PageOK, PageTypes, named
<1>5. page' = p /\ PageOK(page', astray') /\ astray' \in BOOLEAN
  BY <1>1, <1>4, ShowsOK
<1>6. Awaited' /\ Brings'
  BY <1>1, NobodyIsAwaited
<1> QED
  BY <1>1, <1>5, <1>6 DEF PInv, PageTypes, PageOK, Fits, Listed

LEMMA EndEditOK == PInv /\ Page!EndEdit => PInv'
<1> SUFFICES ASSUME PInv, Page!EndEdit PROVE PInv'
  OBVIOUS
<1>0. PICK typed \in {{}, {page.field}} :
        Page!Shows([page EXCEPT !.at = "page", !.field = None,
                               !.pending = IF @ = None THEN None ELSE @ \cup typed])
  BY DEF Page!EndEdit
<1> DEFINE v == IF page.pending = None THEN None ELSE page.pending \cup typed
           p == [page EXCEPT !.at = "page", !.field = None, !.pending = v]
<1>1. /\ Page!Shows(p) /\ page.at = "field"
      /\ UNCHANGED <<simple, present, station, worker, result>>
  BY <1>0 DEF Page!EndEdit, Page!world
<1>2. /\ ~page.busy /\ page.field \in Ifaces
      /\ page.field = IF simple THEN page.active ELSE page.open
  BY <1>1 DEF PInv, PageOK
<1>3. /\ v \in (SUBSET Ifaces) \cup {None} /\ (page.pending = None => v = None)
      /\ page.pending # None => v \in SUBSET Ifaces /\ v \subseteq page.pending \cup {page.field}
  BY <1>2 DEF PInv, PageOK, PageRecord
<1> HIDE DEF v
<1>4. /\ p \in PageRecord /\ p.at = "page" /\ p.open = page.open /\ p.active = page.active
      /\ p.pending = v /\ p.read = page.read /\ p.listed = page.listed
      /\ p.reading = page.reading
  BY <1>1, <1>3 DEF PInv, PageOK, PageRecord
<1> HIDE DEF p
<1>5. PageOK(p, TRUE)
  BY <1>2, <1>3, <1>4, PageConstants DEF PInv, PageOK, PageTypes, Fits, Listed
<1>6. p.open = None \/ ~astray => PageOK(p, FALSE)
  BY <1>2, <1>3, <1>4, <1>5 DEF PInv, PageOK, PageTypes
<1>7. page' = p /\ PageOK(page', astray') /\ astray' \in BOOLEAN
  BY <1>1, <1>5, <1>6, ShowsOK
<1>8. Awaited' /\ Brings'
  BY <1>1, <1>2, NobodyIsAwaited
<1> QED
  BY <1>1, <1>7, <1>8 DEF PInv, PageTypes, PageOK, Fits, Listed

LEMMA PickMethodOK == PInv /\ Page!PickMethod => PInv'
<1> SUFFICES ASSUME PInv, Page!PickMethod PROVE PInv'
  OBVIOUS
<1>0. PICK kept \in SUBSET page.pending : Page!Confirm([page EXCEPT !.pending = kept])
  BY DEF Page!PickMethod
<1> DEFINE p == [page EXCEPT !.pending = kept]
<1>1. /\ Page!Shows(p) /\ page.at = "page" /\ ~page.busy
      /\ simple /\ page.active \in page.listed /\ ~page.reading
      /\ UNCHANGED <<simple, present, station, worker, result>>
  BY <1>0 DEF Page!PickMethod, Page!Confirm, Page!Editable, Page!world
<1>2. page.pending # None /\ page.pending \in SUBSET Ifaces /\ page.pending \subseteq {page.active}
  BY <1>1 DEF PInv, PageOK, PageRecord, Fits, Listed
<1>3. /\ p \in PageRecord /\ p.at = "page" /\ p.open = page.open /\ p.active = page.active
      /\ p.pending = kept /\ p.read = page.read /\ p.listed = page.listed
      /\ p.reading = page.reading
  BY <1>1, <1>2 DEF PInv, PageOK, PageRecord
<1>4. kept # None /\ kept \subseteq {page.active}
  BY <1>2, PageConstants
<1> HIDE DEF p
<1>5. PageOK(p, TRUE) /\ PageOK(p, FALSE)
  BY <1>1, <1>3, <1>4 DEF PInv, PageOK, Fits, Listed
<1>6. page' = p /\ PageOK(page', astray') /\ astray' \in BOOLEAN
  BY <1>1, <1>5, ShowsOK
<1>7. Awaited' /\ Brings'
  BY <1>1, NobodyIsAwaited
<1> QED
  BY <1>1, <1>6, <1>7 DEF PInv, PageTypes, PageOK, Fits, Listed

\* A worker is launched for the page as it is.
LEMMA LaunchOK ==
  ASSUME PInv, NEW p, NEW values \in SUBSET Ifaces, Page!Launch(p, values),
         p = page \/ (~simple /\ p = [page EXCEPT !.pending = {}])
  PROVE  PInv'
<1> DEFINE q == [p EXCEPT !.busy = TRUE]
           job == [target |-> p.active, values |-> values, own |-> TRUE, names |-> None]
<1>1. /\ Page!Shows(q) /\ page.at = "page" /\ ~page.busy /\ p.active # None
      /\ worker' = job /\ result' = Page!Latest(result, FALSE)
      /\ UNCHANGED <<simple, present, station>>
  BY DEF Page!Launch, Page!Confirm, Page!world
<1>2. /\ p \in PageRecord /\ p.at = page.at /\ p.open = page.open /\ p.active = page.active
      /\ p.read = page.read /\ p.listed = page.listed /\ p.reading = page.reading
      /\ p.pending = page.pending \/ (~simple /\ p.pending = {})
  BY DEF PInv, PageOK, PageRecord
<1>3. p.active \in Ifaces
  BY <1>1, <1>2 DEF PageRecord
<1>4. job \in Jobs /\ Own(job) \in BOOLEAN
  BY <1>3 DEF Jobs, Own
<1> HIDE DEF job
<1>5. /\ q \in PageRecord /\ q.at = "page" /\ q.open = page.open /\ q.active = page.active
      /\ q.read = page.read /\ q.listed = page.listed /\ q.reading = page.reading
      /\ q.pending = p.pending /\ q.busy
  BY <1>1, <1>2 DEF PageRecord
<1> HIDE DEF q
<1>6. PageOK(q, TRUE)
  BY <1>1, <1>2, <1>5 DEF PInv, PageOK, PageTypes
<1>7. q.open = None \/ ~astray => PageOK(q, FALSE)
  BY <1>1, <1>2, <1>5, <1>6 DEF PInv, PageOK, PageTypes
<1>8. page' = q /\ PageOK(page', astray') /\ astray' \in BOOLEAN
  BY <1>1, <1>6, <1>7, ShowsOK
<1>9. result' \in Results \cup {None} /\ ~Own(result')
  BY <1>1, LatestIs DEF PInv, PageTypes
<1> QED
  BY <1>1, <1>4, <1>5, <1>8, <1>9 DEF PInv, PageTypes, PageOK, Fits, Listed, Awaited, Brings

LEMMA LaunchesOK == PInv /\ (Page!SetDhcp \/ Page!Apply \/ Page!Renew) => PInv'
<1>1. ASSUME PInv, Page!SetDhcp PROVE PInv'
  BY <1>1, LaunchOK DEF Page!SetDhcp, Page!Detail
<1>2. ASSUME PInv, Page!Apply PROVE PInv'
  <2>1. page.pending \in SUBSET Ifaces /\ Page!Launch(page, page.pending)
    BY <1>2 DEF Page!Apply, PInv, PageOK, PageRecord
  <2> QED
    BY <1>2, <2>1, LaunchOK
<1>3. ASSUME PInv, Page!Renew PROVE PInv'
  BY <1>3, LaunchOK DEF Page!Renew
<1> QED
  BY <1>1, <1>2, <1>3

\* The worker and its result.
LEMMA WorkerReadsOK == PInv /\ Page!WorkerReads => PInv'
<1> SUFFICES ASSUME PInv, Page!WorkerReads PROVE PInv'
  OBVIOUS
<1> DEFINE job == [worker EXCEPT !.names = present]
<1>1. /\ worker # None /\ worker' = job
      /\ UNCHANGED <<simple, present, station, page, result, astray>>
  BY DEF Page!WorkerReads, Page!world
<1>2. job \in Jobs /\ job.own = worker.own
  BY <1>1 DEF PInv, PageTypes, Jobs
<1> HIDE DEF job
<1> QED
  BY <1>1, <1>2 DEF PInv, PageTypes, PageOK, Fits, Listed, Awaited, Brings, Own, Finds

LEMMA WorkerEndsOK == PInv /\ Page!WorkerEnds => PInv'
<1> SUFFICES ASSUME PInv, Page!WorkerEnds PROVE PInv'
  OBVIOUS
<1>1. PICK snap \in Page!Maybe(Page!Reads(worker.names, page.active, station)) :
        result' = [own |-> worker.own, snap |-> snap]
  BY DEF Page!WorkerEnds
<1>2. /\ worker # None /\ worker.names # None /\ worker' = None
      /\ UNCHANGED <<simple, present, station, page, astray>>
  BY DEF Page!WorkerEnds, Page!world
<1>3. worker.names \in SUBSET Ifaces /\ worker.own \in BOOLEAN
  BY <1>2 DEF PInv, PageTypes, Jobs
<1>4. page.active \in Ifaces \cup {None} /\ station \in Ifaces \cup {Automatic} /\ simple \in BOOLEAN
  BY DEF PInv, PageTypes, PageOK, PageRecord
<1>5. snap # None =>
        /\ snap \in Snapshots /\ Fits(snap.pending, snap.active, snap.station)
        /\ Finds(snap, page.active) /\ Listed(snap.pending, snap.active, snap.names)
  BY <1>1, <1>3, <1>4, ReadsFit DEF Page!Maybe
<1>6. result' \in Results /\ result'.snap = snap /\ result'.own = worker.own
  BY <1>1, <1>3, <1>5 DEF Results
<1>7. Awaited'
  BY <1>2, <1>6 DEF PInv, Awaited, Own
<1>8. Brings'
  BY <1>2, <1>4, <1>5, <1>6 DEF PInv, PageOK, Brings, Fits, Finds, Listed
<1> QED
  BY <1>2, <1>6, <1>7, <1>8 DEF PInv, PageTypes, PageOK, Fits, Listed

LEMMA DrainOK == PInv /\ Page!Drain => PInv'
<1> SUFFICES ASSUME PInv, Page!Drain PROVE PInv'
  OBVIOUS
<1> DEFINE free == [page EXCEPT !.busy = FALSE]
<1>1. /\ result # None /\ result' = None /\ Page!Shows(Page!Finished(page))
      /\ UNCHANGED <<simple, present, station, worker>>
  BY DEF Page!Drain, Page!world
<1>2. result \in Results
  BY <1>1 DEF PInv, PageTypes
<1>3. CASE ~result.own
  <2>1. Page!Finished(page) = page
    BY <1>3 DEF Page!Finished
  <2>2. PageOK(page, TRUE) /\ (page.open = None \/ ~astray => PageOK(page, FALSE))
    BY DEF PInv, PageTypes, PageOK
  <2>3. page' = page /\ PageOK(page', astray') /\ astray' \in BOOLEAN
    BY <1>1, <2>1, <2>2, ShowsOK
  <2> QED
    BY <1>1, <2>3 DEF PInv, PageTypes, PageOK, Fits, Listed, Awaited, Brings, Own
<1>4. CASE result.own
  <2>1. page.busy /\ ~Own(worker) /\ page.at = "page"
    BY <1>1, <1>4 DEF PInv, PageOK, Awaited, Own
  <2>2. /\ free \in PageRecord /\ free.at = "page" /\ free.open = page.open
        /\ free.active = page.active /\ free.pending = page.pending /\ free.read = page.read
        /\ free.listed = page.listed /\ free.reading = page.reading /\ ~free.busy
    BY <2>1 DEF PInv, PageOK, PageRecord
  <2>3. Page!Finished(page) = IF result.snap = None THEN free ELSE Page!Applied(free, result.snap)
    BY <1>4 DEF Page!Finished
  <2> HIDE DEF free
  <2>4. CASE result.snap = None
    <3>1. PageOK(free, TRUE) /\ (free.open = None \/ ~astray => PageOK(free, FALSE))
      BY <2>2 DEF PInv, PageTypes, PageOK
    <3>2. page' = free /\ PageOK(page', astray') /\ astray' \in BOOLEAN
      BY <1>1, <2>3, <2>4, <3>1, ShowsOK
    <3> QED
      BY <1>1, <2>1, <3>2 DEF PInv, PageTypes, PageOK, Fits, Listed, Awaited, Brings, Own
  <2>5. CASE result.snap # None
    <3> DEFINE snap == result.snap
               q == Page!Applied(free, snap)
    <3>1. /\ snap \in Snapshots /\ Fits(snap.pending, snap.active, snap.station)
          /\ Listed(snap.pending, snap.active, snap.names)
          /\ page.open # None /\ ~astray => Finds(snap, page.open)
      BY <1>1, <1>2, <1>4, <2>5 DEF PInv, Brings, Own, Results
    <3> HIDE DEF snap
    <3>2. /\ q.open = page.open /\ q.listed = snap.names /\ q.busy = FALSE
      BY <2>2, <3>1 DEF PageRecord, Snapshots, Page!Applied
    <3>3. page' = q /\ astray' = (q.open # None /\ (astray \/ q.open \notin q.listed))
      BY <1>1, <2>3, <2>5 DEF Page!Shows, Page!Astray, snap
    <3>4. (q.open # None /\ (astray \/ q.open \notin q.listed)) \in BOOLEAN
      BY Zenon
    <3> HIDE DEF q
    <3>5. /\ free.open # None /\ ~astray' => Finds(snap, free.open)
          /\ ~astray' => free.open = None \/ free.open \in snap.names
      BY <2>2, <3>1, <3>2, <3>3 DEF Finds
    <3>6. Open4Read(free) /\ simple \in BOOLEAN
      BY <2>2 DEF Open4Read, PInv, PageOK, PageTypes
    <3>7. PageOK(q, astray')
      BY <3>1, <3>5, <3>6, AppliedOK DEF q
    <3> QED
      BY <1>1, <2>1, <3>3, <3>4, <3>7
         DEF PInv, PageTypes, PageOK, Fits, Listed, Awaited, Brings, Own
  <2> QED
    BY <2>4, <2>5
<1> QED
  BY <1>2, <1>3, <1>4 DEF Results

LEMMA ComeOK == PInv /\ Page!Come => PInv'
BY DEF Page!Come, PInv, PageTypes, PageOK, Fits, Listed, Awaited, Brings, Own, Finds

LEMMA PageInit == Page!Init => PInv
<1> SUFFICES ASSUME Page!Init PROVE PInv
  OBVIOUS
<1>1. /\ page \in PageRecord /\ page.at = "away" /\ page.open = None /\ page.listed = {}
      /\ page.pending = None /\ page.read = None /\ page.busy = FALSE
  BY DEF Page!Init, Page!Closed, PageRecord
<1>2. PageTypes /\ worker = None /\ result = None
  BY DEF Page!Init, PageTypes
<1> QED
  BY <1>1, <1>2, PageConstants DEF PInv, PageOK, Fits, Listed, Awaited, Brings, Own

LEMMA PageNext == PInv /\ [Page!Next]_(Page!vars) => PInv'
<1> SUFFICES ASSUME PInv, [Page!Next]_(Page!vars) PROVE PInv'
  OBVIOUS
<1>1. CASE Page!Next
  BY <1>1, EnterOK, LeaveOK, OpenOK, CancelStaticOK, PickStationOK, BeginStaticOK, EditFieldOK,
     EndEditOK, PickMethodOK, LaunchesOK, WorkerReadsOK, WorkerEndsOK, DrainOK, ComeOK
     DEF Page!Next, Page!WorkerStep
<1>2. CASE UNCHANGED Page!vars
  BY <1>2 DEF Page!vars, Page!world, PInv, PageTypes, PageOK, Fits, Listed, Awaited, Brings, Own, Finds
<1> QED
  BY <1>1, <1>2

LEMMA PInvIsTypeOK == PInv => Page!TypeOK
BY DEF PInv, PageTypes, PageOK, PageRecord, Jobs, Page!TypeOK, Page!Maybe, Page!Values

\* What a step that launches a worker launches it for.
LaunchedFor(values) ==
  /\ page.active \in Ifaces /\ worker'.target = page.active /\ worker'.values = values
  /\ (~simple /\ page.open # None) \/ (simple /\ page.read = station)

LEMMA LaunchStarts ==
  ASSUME PInv, [Page!Next]_(Page!vars), worker = None, worker' # None
  PROVE  /\ UNCHANGED <<simple, station>>
         /\ LaunchedFor({}) \/ (page.pending # None /\ LaunchedFor(page.pending))
<1>1. ASSUME NEW p, NEW values, Page!Launch(p, values), p.active = page.active
      PROVE  /\ UNCHANGED <<simple, station>> /\ page.active \in Ifaces
             /\ worker'.target = page.active /\ worker'.values = values
  BY <1>1 DEF Page!Launch, Page!world, PInv, PageOK, PageRecord
<1>2. CASE Page!SetDhcp
  <2> DEFINE p == [page EXCEPT !.pending = {}]
  <2>1. p.active = page.active
    BY DEF PInv, PageOK, PageRecord
  <2>2. Page!Launch(p, {}) /\ ~simple /\ page.open # None
    BY <1>2 DEF Page!SetDhcp, Page!Detail
  <2> HIDE DEF p
  <2> QED
    BY <1>1, <2>1, <2>2 DEF LaunchedFor
<1>3. CASE Page!Apply
  BY <1>1, <1>3 DEF Page!Apply, Page!Detail, Page!Editable, LaunchedFor
<1>4. CASE Page!Renew
  BY <1>1, <1>4 DEF Page!Renew, Page!Detail, Page!Editable, LaunchedFor
<1>5. CASE Page!Leave
  <2>1. worker' = worker \/ worker' = Page!Latest(worker, FALSE)
    BY <1>5 DEF Page!Leave, Page!Bump
  <2> QED
    BY <2>1 DEF Page!Latest
<1>6. CASE UNCHANGED Page!vars
  BY <1>6 DEF Page!vars
<1>7. CASE Page!WorkerStep
  BY <1>7 DEF Page!WorkerStep, Page!WorkerReads, Page!WorkerEnds
<1>8. CASE Page!Drain \/ Page!Come \/ Page!Enter \/ Page!BeginStatic \/ Page!CancelStatic
  BY <1>8 DEF Page!Drain, Page!Come, Page!Enter, Page!BeginStatic, Page!CancelStatic
<1>9. CASE Page!EditField \/ Page!EndEdit \/ Page!PickMethod
  BY <1>9 DEF Page!EditField, Page!EndEdit, Page!PickMethod
<1>10. CASE (\E i \in Ifaces : Page!Open(i)) \/ \E i \in Ifaces \cup {Automatic} : Page!PickStation(i)
  BY <1>10 DEF Page!Open, Page!PickStation
<1> QED
  BY <1>2, <1>3, <1>4, <1>5, <1>6, <1>7, <1>8, <1>9, <1>10 DEF Page!Next

LEMMA LaunchFits ==
  PInv /\ [Page!Next]_(Page!vars) =>
    (Page!Starts /\ ~astray =>
       /\ worker'.target = Page!Named /\ worker'.values \subseteq {worker'.target}
       /\ (simple /\ station # Automatic) => worker'.target = station)
<1> SUFFICES ASSUME PInv, [Page!Next]_(Page!vars), worker = None, worker' # None, ~astray
             PROVE  /\ worker'.target = Page!Named /\ worker'.values \subseteq {worker'.target}
                    /\ (simple /\ station # Automatic) => worker'.target = station
  BY DEF Page!Starts
<1>1. LaunchedFor({}) \/ (page.pending # None /\ LaunchedFor(page.pending))
  BY LaunchStarts
<1>2. CASE simple
  <2>1. page.pending # None => page.pending \subseteq {page.active}
    BY <1>2 DEF PInv, PageOK, Fits
  <2>2. page.read = station /\ (station \in Ifaces => page.active = station)
    BY <1>1, <1>2 DEF LaunchedFor, PInv, PageOK, Fits
  <2> QED
    BY <1>1, <1>2, <2>1, <2>2 DEF LaunchedFor, Page!Named, PInv, PageTypes
<1>3. CASE ~simple
  <2>1. page.active = page.open /\ (page.pending # None => page.pending \subseteq {page.open})
    BY <1>1, <1>3 DEF LaunchedFor, PInv, PageOK
  <2> QED
    BY <1>1, <1>3, <2>1 DEF LaunchedFor, Page!Named
<1> QED
  BY <1>2, <1>3

\* The network page is of its types.
THEOREM PageTypeCorrect == Page!Spec => []Page!TypeOK
<1> QED
  BY PageInit, PageNext, PInvIsTypeOK, PTL DEF Page!Spec

\* A worker is launched for the interface the page names, with values that were
\* read of it or typed for it, and in Simple mode for the station's.
THEOREM WhatIsShownIsApplied == Page!Spec => AppliesWhatItShows
<1> QED
  BY PageInit, PageNext, LaunchFits, PTL DEF Page!Spec, AppliesWhatItShows, Page!AppliesWhatItShows

-----------------------------------------------------------------------------
(* Trigger zones.                                                          *)

\* The count of an instance is the library's.
LEMMA SameCount ==
  ASSUME NEW S
  PROVE  Zones!Cardinality(S) = Cardinality(S) /\ Zones!IsFiniteSet(S) = IsFiniteSet(S)
BY Zenon DEF Zones!Cardinality, Cardinality, Zones!IsFiniteSet, IsFiniteSet

\* What is heard of events is what any function is that hears them one by one.
LEMMA HeardIs ==
  ASSUME NEW n \in Nat, NEW told, NEW events, NEW g,
         g = [k \in 0 .. n |-> IF k = 0 THEN told ELSE Zones!Hear(g[k - 1], events[k])]
  PROVE  Zones!Heard(told, events, n) = g[n]
<1> DEFINE Hears(f) == f = [k \in 0 .. n |-> IF k = 0 THEN told ELSE Zones!Hear(f[k - 1], events[k])]
           f == CHOOSE h : Hears(h)
<1>1. Zones!Heard(told, events, n) = f[n]
  BY Zenon DEF Zones!Heard
<1>2. Hears(f)
  <2>1. Hears(g)
    OBVIOUS
  <2> HIDE DEF Hears
  <2> QED
    BY Zenon, <2>1
<1> HIDE DEF f
<1>3. /\ f[0] = told /\ \A k \in 1 .. n : f[k] = Zones!Hear(f[k - 1], events[k])
      /\ g[0] = told /\ \A k \in 1 .. n : g[k] = Zones!Hear(g[k - 1], events[k])
  BY <1>2
<1> HIDE DEF Hears
<1>4. ASSUME NEW k \in 0 .. n, f[k] # g[k] PROVE FALSE
  <2> DEFINE S == {i \in 0 .. n : f[i] # g[i]}
  <2>1. S \subseteq Nat /\ S # {}
    BY SMTT(60), <1>4
  <2>2. PICK x \in S : \A y \in S : x <= y
    BY <2>1, Least
  <2>3. x \in 1 .. n /\ x - 1 \in 0 .. n /\ x - 1 \notin S
    BY <1>3, <2>2
  <2>4. f[x - 1] = g[x - 1]
    BY <2>3
  <2> QED
    BY <1>3, <2>2, <2>3, <2>4
<1> QED
  BY <1>1, <1>4

\* What a receiver that agrees with the zone has for a number of occupants.
Agreed(n) == IF Zones!Counts THEN n ELSE IF n = 0 THEN 0 ELSE 1

\* The events of a change take it from one number to the other; those of a zone
\* that empties do, whatever it had.
LEMMA HeardEnds ==
  ASSUME NEW n \in Nat, NEW entered \in Nat, NEW exited \in Nat, exited <= n,
         NEW told, told = Agreed(n) \/ (told = 0 /\ entered = 0 /\ exited = n)
  PROVE  Zones!Heard(told, Zones!Events(n, entered, exited), entered + exited)
           = Agreed(n + entered - exited)
<1> DEFINE N == entered + exited
           events == Zones!Events(n, entered, exited)
           left(k) == IF k <= entered THEN n + k ELSE n + 2 * entered - k
<1>0. N \in Nat
  OBVIOUS
<1>1. \A k \in 1 .. N :
        events[k] = IF k <= entered
                    THEN IF n + k = 1 THEN "first" ELSE "additional"
                    ELSE IF n + 2 * entered = k THEN "final" ELSE "partial"
  BY DEF Zones!Events
<1> HIDE DEF events
<1>2. CASE told = Agreed(n)
  <2> DEFINE g == [k \in 0 .. N |-> Agreed(left(k))]
  <2>1. ASSUME NEW k \in 0 .. N
        PROVE  g[k] = IF k = 0 THEN told ELSE Zones!Hear(g[k - 1], events[k])
    <3>1. CASE k = 0
      BY <1>2, <3>1
    <3>2. CASE k # 0
      <4>1. k \in 1 .. N /\ k - 1 \in 0 .. N
        BY <3>2
      <4>2. g[k] = Agreed(left(k)) /\ g[k - 1] = Agreed(left(k - 1))
        BY <4>1
      <4>3. CASE k <= entered
        <5>1. left(k) = n + k /\ left(k - 1) = n + k - 1
          BY <4>1, <4>3
        <5>2. events[k] = IF n + k = 1 THEN "first" ELSE "additional"
          BY <1>1, <4>1, <4>3
        <5> QED
          BY <3>2, <4>1, <4>2, <5>1, <5>2 DEF Agreed, Zones!Hear
      <4>4. CASE ~(k <= entered)
        <5>1. left(k) = n + 2 * entered - k /\ left(k - 1) = n + 2 * entered - k + 1
          BY <4>1, <4>4
        <5>2. events[k] = IF n + 2 * entered = k THEN "final" ELSE "partial"
          BY <1>1, <4>1, <4>4
        <5>3. n + 2 * entered - k \in Nat
          BY <4>1, <4>4
        <5> QED
          BY <3>2, <4>1, <4>2, <5>1, <5>2, <5>3 DEF Agreed, Zones!Hear
      <4> QED
        BY <4>3, <4>4
    <3> QED
      BY <3>1, <3>2
  <2>2. g[N] = Agreed(n + entered - exited)
    <3>1. left(N) = n + entered - exited
      OBVIOUS
    <3> QED
      BY <1>0, <3>1
  <2>3. g = [k \in 0 .. N |-> IF k = 0 THEN told ELSE Zones!Hear(g[k - 1], events[k])]
    BY <2>1
  <2> HIDE DEF g, N
  <2>4. Zones!Heard(told, events, N) = g[N]
    BY <1>0, <2>3, HeardIs
  <2> QED
    BY <2>2, <2>4 DEF N, events
<1>3. CASE told = 0 /\ entered = 0 /\ exited = n
  <2> DEFINE g == [k \in 0 .. N |-> IF k = n THEN 0 ELSE IF Zones!Counts THEN 0 - k ELSE 0]
  <2>1. ASSUME NEW k \in 0 .. N
        PROVE  g[k] = IF k = 0 THEN told ELSE Zones!Hear(g[k - 1], events[k])
    <3>1. CASE k = 0
      <4>1. 0 \in 0 .. N /\ 0 - 0 = 0
        BY <1>0
      <4>2. g[0] = 0
        <5> HIDE DEF N
        <5> QED
          BY <4>1
      <4> HIDE DEF g
      <4> QED
        BY <1>3, <3>1, <4>2
    <3>2. CASE k # 0
      <4>1. k \in 1 .. N /\ k - 1 \in 0 .. N /\ N = n
        BY <1>3, <3>2
      <4>2. events[k] = IF k = n THEN "final" ELSE "partial"
        BY <1>1, <1>3, <4>1
      <4>3. /\ g[k] = IF k = n THEN 0 ELSE IF Zones!Counts THEN 0 - k ELSE 0
            /\ g[k - 1] = IF Zones!Counts THEN 0 - (k - 1) ELSE 0
        BY <4>1
      <4> QED
        BY <3>2, <4>1, <4>2, <4>3 DEF Zones!Hear
    <3> QED
      BY <3>1, <3>2
  <2>2. g[N] = Agreed(n + entered - exited)
    BY <1>0, <1>3 DEF Agreed
  <2>3. g = [k \in 0 .. N |-> IF k = 0 THEN told ELSE Zones!Hear(g[k - 1], events[k])]
    BY <2>1
  <2> HIDE DEF g, N
  <2>4. Zones!Heard(told, events, N) = g[N]
    BY <1>0, <2>3, HeardIs
  <2> QED
    BY <2>2, <2>4 DEF N, events
<1> QED
  BY <1>2, <1>3

LEMMA ZoneConstants ==
  /\ Outer \in [Shapes -> SUBSET Spots] /\ (\A s \in Shapes : Inner[s] \subseteq Outer[s])
  /\ Admits \in [Shapes -> SUBSET Entities]
  /\ ZoneConfigs \subseteq [enabled : BOOLEAN, zones : Seq(Zones!Zones)]
  /\ IsFiniteSet(Entities) /\ Debounce \in Nat /\ MaxZoneChanges \in Nat
BY StationAssumption, SameCount DEF Zones!ZoneEngineAssumption

\* Counting occupants.
LEMMA Occupants ==
  ASSUME NEW old \in SUBSET Entities, NEW new \in SUBSET Entities
  PROVE  /\ Cardinality(old) \in 0 .. Cardinality(Entities)
         /\ Cardinality(new \ old) \in Nat
         /\ Cardinality(old \ new) \in 0 .. Cardinality(old)
         /\ Cardinality(new) = Cardinality(old) + Cardinality(new \ old) - Cardinality(old \ new)
         /\ (Cardinality(old) = 0) <=> (old = {})
<1>1. IsFiniteSet(old) /\ IsFiniteSet(new)
  BY ZoneConstants, FS_Subset
<1>2. /\ Cardinality(old) \in Nat /\ Cardinality(new) \in Nat /\ Cardinality(Entities) \in Nat
      /\ Cardinality(old) <= Cardinality(Entities)
  BY <1>1, ZoneConstants, FS_Subset, FS_CardinalityType
<1>3. IsFiniteSet(old \ new) /\ IsFiniteSet(new \ old) /\ IsFiniteSet(old \cap new)
  BY <1>1, FS_Difference, FS_Intersection
<1>4. /\ Cardinality(old \ new) \in Nat /\ Cardinality(new \ old) \in Nat
      /\ Cardinality(old \cap new) \in Nat
  BY <1>3, FS_CardinalityType
<1>5. /\ Cardinality(old \ new) = Cardinality(old) - Cardinality(old \cap new)
      /\ Cardinality(new \ old) = Cardinality(new) - Cardinality(new \cap old)
  BY <1>1, FS_Difference
<1>6. old \cap new = new \cap old
  OBVIOUS
<1>7. (Cardinality(old) = 0) <=> (old = {})
  BY <1>1, FS_EmptySet
<1>8. Cardinality(new \cap old) = Cardinality(old \cap new)
  BY <1>6
<1> DEFINE a == Cardinality(old)
           b == Cardinality(new)
           c == Cardinality(old \cap new)
           d == Cardinality(old \ new)
           e == Cardinality(new \ old)
           m == Cardinality(Entities)
<1>9. /\ a \in Nat /\ b \in Nat /\ c \in Nat /\ d \in Nat /\ e \in Nat /\ m \in Nat
      /\ a <= m /\ d = a - c /\ e = b - c
  BY <1>2, <1>4, <1>5, <1>8
<1> HIDE DEF a, b, c, d, e, m
<1>10. a \in 0 .. m /\ e \in Nat /\ d \in 0 .. a /\ b = a + e - d
  BY <1>9
<1> QED
  BY Zenon, <1>7, <1>10 DEF a, b, d, e, m

\* The record of a zone.
ZoneRecord == [inside : SUBSET Entities, since : 0 .. Debounce,
               told : 0 .. Cardinality(Entities), whole : BOOLEAN]

\* The changes of a zone's record that the engine makes.
LEMMA RecordChanges ==
  ASSUME NEW I, NEW S, NEW T, NEW W, NEW o \in [inside : I, since : S, told : T, whole : W],
         NEW new \in I, NEW s \in S, NEW t \in T, NEW w \in W
  PROVE  /\ [o EXCEPT !.since = s]
              \in [inside : I, since : S, told : T, whole : W]
         /\ /\ [o EXCEPT !.since = s].inside = o.inside
            /\ [o EXCEPT !.since = s].told = o.told
            /\ [o EXCEPT !.since = s].whole = o.whole
         /\ [o EXCEPT !.inside = new, !.since = s]
              \in [inside : I, since : S, told : T, whole : W]
         /\ /\ [o EXCEPT !.inside = new, !.since = s].inside = new
            /\ [o EXCEPT !.inside = new, !.since = s].told = o.told
            /\ [o EXCEPT !.inside = new, !.since = s].whole = o.whole
         /\ [o EXCEPT !.told = t, !.whole = w]
              \in [inside : I, since : S, told : T, whole : W]
         /\ /\ [o EXCEPT !.told = t, !.whole = w].inside = o.inside
            /\ [o EXCEPT !.told = t, !.whole = w].told = t
            /\ [o EXCEPT !.told = t, !.whole = w].whole = w
         /\ [o EXCEPT !.inside = new, !.told = t, !.whole = w]
              \in [inside : I, since : S, told : T, whole : W]
         /\ /\ [o EXCEPT !.inside = new, !.told = t, !.whole = w].inside = new
            /\ [o EXCEPT !.inside = new, !.told = t, !.whole = w].told = t
            /\ [o EXCEPT !.inside = new, !.told = t, !.whole = w].whole = w
         /\ [o EXCEPT !.inside = new, !.whole = w, !.told = t, !.since = s]
              \in [inside : I, since : S, told : T, whole : W]
         /\ /\ [o EXCEPT !.inside = new, !.whole = w, !.told = t, !.since = s].inside = new
            /\ [o EXCEPT !.inside = new, !.whole = w, !.told = t, !.since = s].told = t
            /\ [o EXCEPT !.inside = new, !.whole = w, !.told = t, !.since = s].whole = w
<1>1. [o EXCEPT !.since = s]
        \in [inside : I, since : S, told : T, whole : W]
  OBVIOUS
<1>2. [o EXCEPT !.since = s].inside = o.inside
  OBVIOUS
<1>3. [o EXCEPT !.since = s].told = o.told
  OBVIOUS
<1>4. [o EXCEPT !.since = s].whole = o.whole
  OBVIOUS
<1>5. [o EXCEPT !.inside = new, !.since = s]
        \in [inside : I, since : S, told : T, whole : W]
  OBVIOUS
<1>6. [o EXCEPT !.inside = new, !.since = s].inside = new
  OBVIOUS
<1>7. [o EXCEPT !.inside = new, !.since = s].told = o.told
  OBVIOUS
<1>8. [o EXCEPT !.inside = new, !.since = s].whole = o.whole
  OBVIOUS
<1>9. [o EXCEPT !.told = t, !.whole = w]
        \in [inside : I, since : S, told : T, whole : W]
  OBVIOUS
<1>10. [o EXCEPT !.told = t, !.whole = w].inside = o.inside
  OBVIOUS
<1>11. [o EXCEPT !.told = t, !.whole = w].told = t
  OBVIOUS
<1>12. [o EXCEPT !.told = t, !.whole = w].whole = w
  OBVIOUS
<1>13. [o EXCEPT !.inside = new, !.told = t, !.whole = w]
        \in [inside : I, since : S, told : T, whole : W]
  OBVIOUS
<1>14. [o EXCEPT !.inside = new, !.told = t, !.whole = w].inside = new
  OBVIOUS
<1>15. [o EXCEPT !.inside = new, !.told = t, !.whole = w].told = t
  OBVIOUS
<1>16. [o EXCEPT !.inside = new, !.told = t, !.whole = w].whole = w
  OBVIOUS
<1>17. [o EXCEPT !.inside = new, !.whole = w, !.told = t, !.since = s]
        \in [inside : I, since : S, told : T, whole : W]
  OBVIOUS
<1>18. [o EXCEPT !.inside = new, !.whole = w, !.told = t, !.since = s].inside = new
  OBVIOUS
<1>19. [o EXCEPT !.inside = new, !.whole = w, !.told = t, !.since = s].told = t
  OBVIOUS
<1>20. [o EXCEPT !.inside = new, !.whole = w, !.told = t, !.since = s].whole = w
  OBVIOUS
<1> QED
  BY Zenon, <1>1, <1>2, <1>3, <1>4, <1>5, <1>6, <1>7, <1>8, <1>9, <1>10, <1>11, <1>12, <1>13, <1>14, <1>15, <1>16, <1>17, <1>18, <1>19, <1>20

\* What is kept of a zone: its occupants are some that it admits and is on for,
\* and a receiver that was told everything agrees with them.
ZoneOK(zone, o) ==
  /\ o \in ZoneRecord
  /\ o.told = IF o.whole /\ Zones!Follows THEN Agreed(Cardinality(o.inside)) ELSE 0
  /\ o.inside # {} => zone.enabled /\ o.inside \subseteq Admits[zone.shape]

LEMMA AgreedIs ==
  ASSUME NEW n \in Nat
  PROVE  Agreed(n) \in 0 .. n /\ (Agreed(n) = 0 <=> n = 0)
BY DEF Agreed

LEMMA FreshOK == ASSUME NEW zone PROVE ZoneOK(zone, Zones!Fresh)
<1>1. Cardinality({}) = 0 /\ Cardinality(Entities) \in Nat
  BY ZoneConstants, FS_EmptySet, FS_CardinalityType
<1>2. Agreed(0) = 0
  BY DEF Agreed
<1> DEFINE f == Zones!Fresh
<1>3. f \in ZoneRecord
  BY <1>1, ZoneConstants DEF ZoneRecord, Zones!Fresh
<1>4. f.inside = {} /\ f.told = 0
  BY DEF Zones!Fresh
<1> HIDE DEF f
<1>5. ZoneOK(zone, f)
  BY <1>1, <1>2, <1>3, <1>4 DEF ZoneOK
<1> QED
  BY <1>5 DEF f

\* A change that is told leaves the receiver agreeing.
LEMMA TransitionOK ==
  ASSUME NEW zone, zone.enabled, NEW o, ZoneOK(zone, o),
         NEW new \in SUBSET Entities, new \subseteq Admits[zone.shape]
  PROVE  ZoneOK(zone, Zones!Transition(zone, o, new))
<1> DEFINE old == o.inside
           entered == Cardinality(new \ old)
           exited == Cardinality(old \ new)
           n == Cardinality(old)
           m == Cardinality(Entities)
           events == Zones!Events(n, entered, exited)
           whole == o.whole \/ old = {} \/ new = {}
           told == IF whole /\ Zones!Follows
                   THEN Zones!Heard(o.told, events, entered + exited) ELSE 0
           since == IF \E k \in DOMAIN events : events[k] \in Spoken THEN 0 ELSE o.since
<1>0. /\ o \in ZoneRecord /\ o.since \in 0 .. Debounce /\ o.whole \in BOOLEAN
      /\ o.told = IF o.whole /\ Zones!Follows THEN Agreed(n) ELSE 0
      /\ old \in SUBSET Entities
  BY DEF ZoneOK, ZoneRecord
<1>1. /\ n \in 0 .. m /\ entered \in Nat /\ exited \in 0 .. n
      /\ Cardinality(new) = n + entered - exited /\ Cardinality(new) \in 0 .. m
      /\ (n = 0) <=> (old = {})
      /\ m \in Nat
  BY <1>0, Occupants, ZoneConstants, FS_CardinalityType
<1>2. Zones!Transition(zone, o, new) =
        IF new = old THEN o
        ELSE IF ~Zones!Sends(zone) THEN [o EXCEPT !.inside = new, !.told = 0, !.whole = FALSE]
        ELSE IF o.since < Debounce THEN o
        ELSE [o EXCEPT !.inside = new, !.whole = whole, !.told = told, !.since = since]
  <2> DEFINE e == Zones!Cardinality(new \ o.inside)
             x == Zones!Cardinality(o.inside \ new)
             was == Zones!Cardinality(o.inside)
             happens == Zones!Events(was, e, x)
  <2>1. Zones!Transition(zone, o, new) =
          IF new = o.inside THEN o
          ELSE IF ~Zones!Sends(zone) THEN [o EXCEPT !.inside = new, !.told = 0, !.whole = FALSE]
          ELSE IF o.since < Debounce THEN o
          ELSE [o EXCEPT !.inside = new,
                         !.whole = o.whole \/ o.inside = {} \/ new = {},
                         !.told = IF (o.whole \/ o.inside = {} \/ new = {}) /\ Zones!Follows
                                  THEN Zones!Heard(o.told, happens, e + x) ELSE 0,
                         !.since = IF \E k \in DOMAIN happens : happens[k] \in Spoken
                                   THEN 0 ELSE o.since]
    BY DEF Zones!Transition, Zones!Held, Zones!Whole
  <2>2. e = entered /\ x = exited /\ was = n
    BY Zenon, SameCount
  <2> HIDE DEF e, x, was, entered, exited, n
  <2> QED
    BY <2>1, <2>2
<1>3. since \in 0 .. Debounce
  BY <1>0, ZoneConstants
<1>4. told = IF whole /\ Zones!Follows THEN Agreed(Cardinality(new)) ELSE 0
  <2>1. CASE whole /\ Zones!Follows
    <3>1. o.told = Agreed(n) \/ (o.told = 0 /\ entered = 0 /\ exited = n)
      <4>1. CASE o.whole
        BY <1>0, <2>1, <4>1
      <4>2. CASE ~o.whole /\ old = {}
        BY <1>0, <1>1, <4>2 DEF Agreed
      <4>3. CASE ~o.whole /\ new = {}
        <5>1. new \ old = {} /\ old \ new = old
          BY <4>3
        <5>2. entered = 0 /\ exited = n
          BY <5>1, FS_EmptySet
        <5> QED
          BY <1>0, <4>3, <5>2
      <4> QED
        BY <2>1, <4>1, <4>2, <4>3
    <3>2. Zones!Heard(o.told, events, entered + exited) = Agreed(n + entered - exited)
      <4> HIDE DEF n, entered, exited
      <4> QED
        BY <1>1, <3>1, HeardEnds
    <3> QED
      BY <1>1, <2>1, <3>2
  <2>2. CASE ~(whole /\ Zones!Follows)
    BY <2>2
  <2> QED
    BY <2>1, <2>2
<1>5. Agreed(Cardinality(new)) \in 0 .. m
  BY <1>1, AgreedIs
<1>6. whole \in BOOLEAN /\ told \in 0 .. m
  BY <1>0, <1>1, <1>4, <1>5
<1> HIDE DEF told, whole, since, events, entered, exited, m
<1>7. CASE new = old
  BY <1>2, <1>7
<1>8. CASE new # old /\ ~Zones!Sends(zone)
  <2> DEFINE to == [o EXCEPT !.inside = new, !.told = 0, !.whole = FALSE]
  <2>1. 0 \in 0 .. m /\ FALSE \in BOOLEAN
    BY <1>1
  <2>2. to \in ZoneRecord /\ to.inside = new /\ to.told = 0 /\ to.whole = FALSE
    BY <1>0, <2>1, RecordChanges, Zenon DEF m, ZoneRecord
  <2> HIDE DEF to
  <2>3. ZoneOK(zone, to)
    BY <2>2 DEF ZoneOK
  <2> QED
    BY <1>2, <1>8, <2>3 DEF to
<1>9. CASE new # old /\ Zones!Sends(zone) /\ o.since < Debounce
  BY <1>2, <1>9
<1>10. CASE new # old /\ Zones!Sends(zone) /\ ~(o.since < Debounce)
  <2> DEFINE to == [o EXCEPT !.inside = new, !.whole = whole, !.told = told, !.since = since]
  <2>1. to \in ZoneRecord /\ to.inside = new /\ to.told = told /\ to.whole = whole
    BY <1>0, <1>3, <1>6, RecordChanges, Zenon DEF m, ZoneRecord
  <2> HIDE DEF to
  <2>2. ZoneOK(zone, to)
    BY <1>4, <2>1 DEF ZoneOK
  <2> QED
    BY <1>2, <1>10, <2>2 DEF to
<1> QED
  BY <1>7, <1>8, <1>9, <1>10

\* One evaluation of a zone.
LEMMA StepOK ==
  ASSUME NEW zone \in Zones!Zones, NEW o, ZoneOK(zone, o)
  PROVE  ZoneOK(zone, Zones!Step(zone, o))
<1> DEFINE aged == [o EXCEPT !.since = IF o.since < Debounce THEN o.since + 1 ELSE o.since]
           new == Zones!Evaluate(zone.shape, o.inside)
           still == [o EXCEPT !.inside = IF zone.enabled THEN o.inside ELSE {}, !.since = Debounce]
<1>0. /\ o \in ZoneRecord /\ o.inside \in SUBSET Entities /\ o.since \in 0 .. Debounce
      /\ o.told \in 0 .. Cardinality(Entities) /\ o.whole \in BOOLEAN
      /\ zone.enabled \in BOOLEAN /\ zone.shape \in Shapes
  BY DEF ZoneOK, ZoneRecord, Zones!Zones
<1>1. Zones!Step(zone, o) = IF ~zone.enabled \/ Zones!Degenerate(zone.shape)
                            THEN still ELSE Zones!Transition(zone, aged, new)
  BY DEF Zones!Step, Zones!Aged
<1>2. CASE ~zone.enabled \/ Zones!Degenerate(zone.shape)
  <2>1. o.inside = IF zone.enabled THEN o.inside ELSE {}
    BY DEF ZoneOK
  <2>2. Debounce \in 0 .. Debounce
    BY ZoneConstants
  <2>3. still = [o EXCEPT !.inside = o.inside, !.since = Debounce]
    BY <2>1
  <2> DEFINE to == [o EXCEPT !.inside = o.inside, !.since = Debounce]
  <2>4. to \in ZoneRecord /\ to.inside = o.inside /\ to.told = o.told /\ to.whole = o.whole
    BY <1>0, <2>2, RecordChanges, Zenon DEF ZoneRecord
  <2> HIDE DEF to, still
  <2>5. ZoneOK(zone, to)
    BY <2>4 DEF ZoneOK
  <2> QED
    BY <1>1, <1>2, <2>3, <2>5 DEF to
<1>3. CASE zone.enabled /\ ~Zones!Degenerate(zone.shape)
  <2> DEFINE since == IF o.since < Debounce THEN o.since + 1 ELSE o.since
  <2>1. since \in 0 .. Debounce
    BY <1>0, ZoneConstants
  <2>2. new \subseteq Admits[zone.shape] /\ new \in SUBSET Entities
    BY <1>0, ZoneConstants DEF Zones!Evaluate
  <2>3. ZoneOK(zone, aged)
    <3> HIDE DEF since
    <3> DEFINE to == [o EXCEPT !.since = since]
    <3>1. to \in ZoneRecord /\ to.inside = o.inside /\ to.told = o.told /\ to.whole = o.whole
      BY <1>0, <2>1, RecordChanges, Zenon DEF ZoneRecord
    <3> HIDE DEF to
    <3>2. ZoneOK(zone, to)
      BY <3>1 DEF ZoneOK
    <3> QED
      BY <3>2 DEF to, since
  <2> HIDE DEF aged, new
  <2>4. ZoneOK(zone, Zones!Transition(zone, aged, new))
    BY <1>3, <2>2, <2>3, TransitionOK
  <2> QED
    BY <1>1, <1>3, <2>4
<1> QED
  BY <1>0, <1>2, <1>3

LEMMA ConfigIs ==
  ASSUME NEW c \in ZoneConfigs
  PROVE  /\ c.enabled \in BOOLEAN /\ c.zones \in Seq(Zones!Zones)
         /\ DOMAIN c.zones \subseteq Nat \ {0}
         /\ \A i \in DOMAIN c.zones : c.zones[i] \in Zones!Zones /\ 1 .. i \subseteq DOMAIN c.zones
<1>1. c \in [enabled : BOOLEAN, zones : Seq(Zones!Zones)]
  BY ZoneConstants
<1>2. c.enabled \in BOOLEAN /\ c.zones \in Seq(Zones!Zones)
  BY <1>1
<1>3. DOMAIN c.zones = 1 .. Len(c.zones) /\ Len(c.zones) \in Nat
  BY <1>2
<1>4. \A i \in DOMAIN c.zones : c.zones[i] \in Zones!Zones
  BY <1>2, <1>3
<1> QED
  BY <1>2, <1>3, <1>4

\* What a zone takes over is sound for it.
LEMMA CarriedOK ==
  ASSUME NEW list, NEW i, NEW j, ZoneOK(config.zones[j], occupancy[j]),
         Zones!Signature(config.zones[j]) = Zones!Signature(list[i])
  PROVE  /\ ZoneOK(list[i], Zones!Carried(list, i, j))
         /\ Zones!Carried(list, i, j).inside = occupancy[j].inside
<1>1. /\ config.zones[j].shape = list[i].shape
      /\ config.zones[j].enabled = list[i].enabled
  BY DEF Zones!Signature
<1> DEFINE o == occupancy[j]
           to == [o EXCEPT !.told = 0, !.whole = FALSE]
<1>2. o \in ZoneRecord /\ 0 \in 0 .. Cardinality(Entities)
  BY ZoneConstants, FS_CardinalityType DEF ZoneOK
<1>3. to \in ZoneRecord /\ to.inside = o.inside /\ to.told = 0 /\ to.whole = FALSE
  <2>1. o \in [inside : SUBSET Entities, since : 0 .. Debounce,
               told : 0 .. Cardinality(Entities), whole : BOOLEAN]
    BY <1>2 DEF ZoneRecord
  <2>2. o.inside \in SUBSET Entities /\ o.since \in 0 .. Debounce /\ FALSE \in BOOLEAN
    BY <2>1
  <2> HIDE DEF o
  <2> QED
    BY <1>2, <2>1, <2>2, RecordChanges, Zenon DEF ZoneRecord
<1>4. Zones!Carried(list, i, j) = IF config.zones[j].dest = list[i].dest THEN o ELSE to
  BY DEF Zones!Carried
<1>5. ZoneOK(list[i], o) /\ ZoneOK(list[i], to)
  <2> HIDE DEF to
  <2> QED
    BY <1>1, <1>3 DEF ZoneOK
<1> HIDE DEF o, to
<1>6. o.inside = occupancy[j].inside /\ to.inside = occupancy[j].inside
  BY <1>3 DEF o
<1> QED
  BY <1>4, <1>5, <1>6

\* Of zones of one signature, a later one has more before it.
LEMMA RankGrows ==
  ASSUME NEW list, NEW a \in Nat \ {0}, NEW b \in Nat \ {0}, a < b,
         Zones!Signature(list[a]) = Zones!Signature(list[b])
  PROVE  Zones!Rank(list, a) # Zones!Rank(list, b)
<1> DEFINE Before(i) == {j \in 1 .. i - 1 : Zones!Signature(list[j]) = Zones!Signature(list[i])}
<1>1. \A i : Zones!Rank(list, i) = Cardinality(Before(i))
  BY SameCount, Zenon DEF Zones!Rank
<1>2. IsFiniteSet(1 .. a - 1) /\ IsFiniteSet(1 .. b - 1)
  BY FS_Interval
<1>3. IsFiniteSet(Before(a)) /\ IsFiniteSet(Before(b))
  <2>1. Before(a) \subseteq 1 .. a - 1 /\ Before(b) \subseteq 1 .. b - 1
    OBVIOUS
  <2> QED
    BY <1>2, <2>1, FS_Subset
<1>4. Before(a) \cup {a} \subseteq Before(b) /\ a \notin Before(a)
  OBVIOUS
<1> HIDE DEF Before
<1>5. Cardinality(Before(a) \cup {a}) = Cardinality(Before(a)) + 1
  BY <1>3, <1>4, FS_AddElement
<1>6. Cardinality(Before(a) \cup {a}) <= Cardinality(Before(b))
  BY <1>3, <1>4, FS_Subset
<1>7. Cardinality(Before(a)) \in Nat /\ Cardinality(Before(b)) \in Nat
  BY <1>3, FS_CardinalityType
<1> QED
  BY <1>1, <1>5, <1>6, <1>7

\* A zone that is as it was, like those before it, is the one it was.
LEMMA PreviousIs ==
  ASSUME config \in ZoneConfigs, NEW new \in ZoneConfigs,
         NEW i \in DOMAIN config.zones, i \in DOMAIN new.zones,
         \A j \in 1 .. i : Zones!Signature(config.zones[j]) = Zones!Signature(new.zones[j])
  PROVE  Zones!Previous(new.zones, i) = {i}
<1>1. i \in Nat \ {0} /\ DOMAIN config.zones \subseteq Nat \ {0}
  BY ConfigIs
<1>2. Zones!Rank(new.zones, i) = Zones!Rank(config.zones, i)
  <2>1. {j \in 1 .. i - 1 : Zones!Signature(new.zones[j]) = Zones!Signature(new.zones[i])}
          = {j \in 1 .. i - 1 : Zones!Signature(config.zones[j]) = Zones!Signature(config.zones[i])}
    BY <1>1
  <2> QED
    BY <2>1 DEF Zones!Rank
<1>3. Zones!Signature(config.zones[i]) = Zones!Signature(new.zones[i])
  BY <1>1
<1>4. i \in Zones!Previous(new.zones, i)
  BY <1>2, <1>3 DEF Zones!Previous
<1>5. ASSUME NEW k \in Zones!Previous(new.zones, i), k # i PROVE FALSE
  <2>1. /\ k \in Nat \ {0}
        /\ Zones!Signature(config.zones[k]) = Zones!Signature(config.zones[i])
        /\ Zones!Rank(config.zones, k) = Zones!Rank(config.zones, i)
    BY <1>1, <1>2, <1>3, <1>5 DEF Zones!Previous
  <2>2. CASE k < i
    BY <1>1, <2>1, <2>2, RankGrows
  <2>3. CASE i < k
    BY <1>1, <2>1, <2>3, RankGrows
  <2> QED
    BY <1>1, <1>5, <2>1, <2>2, <2>3
<1> QED
  BY <1>4, <1>5

\* What is kept of all zones: each is sound, and with the engine off nobody is
\* inside.
ZInv ==
  /\ config \in ZoneConfigs
  /\ DOMAIN occupancy = DOMAIN config.zones
  /\ \A i \in DOMAIN occupancy : /\ ZoneOK(config.zones[i], occupancy[i])
                                 /\ occupancy[i].inside # {} => config.enabled
  /\ place \in [Entities -> Spots \cup {None}]
  /\ down \subseteq Dests
  /\ zoneChanges \in 0 .. MaxZoneChanges
  /\ story \in [Entities -> {"moved", "looked at", "crossed", "crossed again"}]

LEMMA ZoneInit == Zones!Init => ZInv
<1> SUFFICES ASSUME Zones!Init PROVE ZInv
  OBVIOUS
<1> USE DEF Zones!Init
<1>1. config \in ZoneConfigs /\ DOMAIN occupancy = DOMAIN config.zones
  OBVIOUS
<1>2. ASSUME NEW i \in DOMAIN occupancy
      PROVE  ZoneOK(config.zones[i], occupancy[i]) /\ occupancy[i].inside = {}
  <2>1. occupancy[i] = Zones!Fresh
    BY <1>2
  <2>2. ZoneOK(config.zones[i], Zones!Fresh)
    BY FreshOK, Zenon
  <2> QED
    BY <2>1, <2>2 DEF Zones!Fresh
<1>3. zoneChanges \in 0 .. MaxZoneChanges
  BY ZoneConstants
<1>4. story \in [Entities -> {"moved", "looked at", "crossed", "crossed again"}]
  OBVIOUS
<1> QED
  BY <1>1, <1>2, <1>3, <1>4 DEF ZInv

LEMMA ChangeIs == ASSUME ZInv, Zones!Change PROVE zoneChanges' \in 0 .. MaxZoneChanges
<1>1. zoneChanges \in 0 .. MaxZoneChanges
  BY Zenon DEF ZInv
<1> QED
  BY <1>1, ZoneConstants DEF Zones!Change

LEMMA UpdateOK == ZInv /\ Zones!Update => ZInv'
<1> SUFFICES ASSUME ZInv, Zones!Update PROVE ZInv'
  OBVIOUS
<1>1. /\ config' = config /\ config.enabled /\ UNCHANGED <<place, down, zoneChanges>>
      /\ occupancy' = [i \in DOMAIN occupancy |-> Zones!Step(config.zones[i], occupancy[i])]
  BY DEF Zones!Update
<1>2. ASSUME NEW i \in DOMAIN occupancy
      PROVE  ZoneOK(config.zones[i], occupancy'[i])
  <2>1. occupancy'[i] = Zones!Step(config.zones[i], occupancy[i])
    BY <1>1
  <2>2. ZoneOK(config.zones[i], occupancy[i]) /\ config \in ZoneConfigs /\ i \in DOMAIN config.zones
    BY Zenon DEF ZInv
  <2>3. config.zones[i] \in Zones!Zones
    BY <2>2, ConfigIs
  <2> QED
    BY <2>1, <2>2, <2>3, StepOK
<1>3. DOMAIN occupancy' = DOMAIN occupancy
  BY <1>1
<1>4. \A e \in Entities : \A crossed \in BOOLEAN :
        Zones!Told(e, crossed) \in {"moved", "looked at", "crossed", "crossed again"}
  BY DEF Zones!Told, ZInv
<1>5. story' \in [Entities -> {"moved", "looked at", "crossed", "crossed again"}]
  <2>1. story' = [e \in Entities |-> Zones!Told(e, Zones!Crosses(e))]
    BY DEF Zones!Update
  <2>2. \A e \in Entities : Zones!Crosses(e) \in BOOLEAN
    BY DEF Zones!Crosses
  <2> QED
    BY <1>4, <2>1, <2>2
<1> QED
  BY <1>1, <1>2, <1>3, <1>5 DEF ZInv

\* What a zone takes over at a reload.
LEMMA TakenOver ==
  ASSUME ZInv, NEW new \in ZoneConfigs, NEW i \in DOMAIN new.zones,
         Zones!Previous(new.zones, i) # {}
  PROVE  LET j == CHOOSE j \in Zones!Previous(new.zones, i) :
                    \A k \in Zones!Previous(new.zones, i) : j <= k
         IN  /\ j \in Zones!Previous(new.zones, i)
             /\ ZoneOK(new.zones[i], Zones!Carried(new.zones, i, j))
             /\ Zones!Carried(new.zones, i, j).inside = occupancy[j].inside
<1> DEFINE P == Zones!Previous(new.zones, i)
           j == CHOOSE j \in P : \A k \in P : j <= k
<1>1. P \subseteq DOMAIN config.zones
  BY DEF Zones!Previous
<1>2. P \subseteq Nat
  BY <1>1, ConfigIs DEF ZInv
<1>3. j \in P
  <2> HIDE DEF P
  <2>1. \E x \in P : \A k \in P : x <= k
    BY <1>2, Least DEF P
  <2> QED
    BY <2>1
<1>4. /\ ZoneOK(config.zones[j], occupancy[j])
      /\ Zones!Signature(config.zones[j]) = Zones!Signature(new.zones[i])
  <2> HIDE DEF j
  <2> QED
    BY <1>3, Zenon DEF ZInv, Zones!Previous
<1> HIDE DEF j, P
<1>5. /\ ZoneOK(new.zones[i], Zones!Carried(new.zones, i, j))
      /\ Zones!Carried(new.zones, i, j).inside = occupancy[j].inside
  BY <1>4, CarriedOK
<1> QED
  BY Zenon, <1>3, <1>5 DEF j, P

LEMMA ReloadOK == ZInv /\ Zones!Reload => ZInv'
<1> SUFFICES ASSUME ZInv, Zones!Reload PROVE ZInv'
  OBVIOUS
<1>1. PICK new \in ZoneConfigs :
        Zones!Change /\ Zones!ReloadConfig(new) /\ UNCHANGED <<place, down>>
  BY DEF Zones!Reload
<1> DEFINE Taken(i) == CHOOSE j \in Zones!Previous(new.zones, i) :
                         \A k \in Zones!Previous(new.zones, i) : j <= k
<1>2. /\ config' = new
      /\ occupancy' = [i \in DOMAIN new.zones |->
                         IF new.enabled /\ Zones!Previous(new.zones, i) # {}
                         THEN Zones!Carried(new.zones, i, Taken(i)) ELSE Zones!Fresh]
      /\ story' = [e \in Entities |-> "moved"]
  BY <1>1 DEF Zones!ReloadConfig
<1>3. ASSUME NEW i \in DOMAIN new.zones
      PROVE  /\ ZoneOK(new.zones[i], occupancy'[i])
             /\ occupancy'[i].inside # {} => new.enabled
  <2>1. CASE new.enabled /\ Zones!Previous(new.zones, i) # {}
    <3>1. occupancy'[i] = Zones!Carried(new.zones, i, Taken(i))
      BY <1>2, <2>1
    <3>2. ZoneOK(new.zones[i], Zones!Carried(new.zones, i, Taken(i)))
      BY <2>1, TakenOver, Zenon
    <3> QED
      BY <2>1, <3>1, <3>2
  <2>2. CASE ~(new.enabled /\ Zones!Previous(new.zones, i) # {})
    <3>1. occupancy'[i] = Zones!Fresh
      BY <1>2, <2>2
    <3>2. ZoneOK(new.zones[i], Zones!Fresh)
      BY FreshOK, Zenon
    <3>3. Zones!Fresh.inside = {}
      BY DEF Zones!Fresh
    <3> QED
      BY <3>1, <3>2, <3>3
  <2> QED
    BY <2>1, <2>2
<1>4. zoneChanges' \in 0 .. MaxZoneChanges
  BY <1>1, ChangeIs
<1>5. DOMAIN occupancy' = DOMAIN new.zones
  BY <1>2
<1>6. story' \in [Entities -> {"moved", "looked at", "crossed", "crossed again"}]
  BY <1>2
<1>7. place' = place /\ down' = down
  BY <1>1
<1> HIDE DEF Taken
<1> QED
  BY <1>2, <1>3, <1>4, <1>5, <1>6, <1>7 DEF ZInv

LEMMA MoveOK == ZInv /\ Zones!Move => ZInv'
<1> SUFFICES ASSUME ZInv, Zones!Move PROVE ZInv'
  OBVIOUS
<1>1. /\ UNCHANGED <<config, occupancy, down>>
      /\ zoneChanges' \in 0 .. MaxZoneChanges
  BY ChangeIs DEF Zones!Move
<1>2. /\ place' \in [Entities -> Spots \cup {None}]
      /\ story' \in [Entities -> {"moved", "looked at", "crossed", "crossed again"}]
  BY ZenonT(60) DEF ZInv, Zones!Move
<1> QED
  BY <1>1, <1>2 DEF ZInv

LEMMA OutageOK == ZInv /\ Zones!Outage => ZInv'
<1> SUFFICES ASSUME ZInv, Zones!Outage PROVE ZInv'
  OBVIOUS
<1>1. /\ UNCHANGED <<config, occupancy, place, story>>
      /\ zoneChanges' \in 0 .. MaxZoneChanges
  BY ChangeIs DEF Zones!Outage
<1>2. down' \subseteq Dests
  BY DEF ZInv, Zones!Outage
<1> QED
  BY <1>1, <1>2 DEF ZInv

LEMMA ZoneNext == ZInv /\ [Zones!Next]_(Zones!vars) => ZInv'
<1>1. ZInv /\ UNCHANGED Zones!vars => ZInv'
  BY DEF ZInv, Zones!vars
<1> QED
  BY <1>1, UpdateOK, ReloadOK, MoveOK, OutageOK DEF Zones!Next

LEMMA ZInvIsTypeOK == ZInv => Zones!TypeOK
<1> SUFFICES ASSUME ZInv PROVE Zones!TypeOK
  OBVIOUS
<1>1. \A i \in DOMAIN occupancy : occupancy[i] \in ZoneRecord
  BY Zenon DEF ZInv, ZoneOK
<1>2. ZoneRecord = Zones!Occupancies
  BY SameCount, Zenon DEF ZoneRecord, Zones!Occupancies
<1> QED
  BY <1>1, <1>2 DEF ZInv, Zones!TypeOK

LEMMA ZInvAgrees == ZInv => ReceiverAgrees
<1> SUFFICES ASSUME ZInv, NEW i \in DOMAIN occupancy,
                    occupancy[i].whole, Zones!Follows
             PROVE  /\ (occupancy[i].told # 0) = (occupancy[i].inside # {})
                    /\ Zones!Counts => occupancy[i].told = Zones!Cardinality(occupancy[i].inside)
  BY Zenon DEF ReceiverAgrees, Zones!ReceiverAgrees
<1> DEFINE o == occupancy[i]
           n == Cardinality(o.inside)
<1>1. o.told = Agreed(n) /\ o.inside \in SUBSET Entities
  <2>1. ZoneOK(config.zones[i], o)
    BY Zenon DEF ZInv
  <2> HIDE DEF o
  <2> QED
    BY <2>1 DEF ZoneOK, ZoneRecord, o
<1>2. n \in Nat /\ (n = 0 <=> o.inside = {})
  <2>1. o.inside \in SUBSET Entities
    BY <1>1
  <2>2. IsFiniteSet(o.inside)
    BY <2>1, ZoneConstants, FS_Subset
  <2> QED
    BY <2>2, FS_CardinalityType, FS_EmptySet
<1>3. Zones!Cardinality(o.inside) = n
  BY SameCount, Zenon
<1> HIDE DEF n, o
<1>4. (o.told # 0) <=> (o.inside # {})
  BY <1>1, <1>2, AgreedIs
<1>5. Zones!Counts => o.told = n
  BY <1>1 DEF Agreed
<1> QED
  BY Zenon, <1>3, <1>4, <1>5 DEF o

LEMMA ZInvNoGhosts == ZInv => Zones!NoGhosts
<1> SUFFICES ASSUME ZInv, NEW i \in DOMAIN occupancy, occupancy[i].inside # {}
             PROVE  /\ config.enabled /\ config.zones[i].enabled
                    /\ occupancy[i].inside \subseteq Admits[config.zones[i].shape]
  BY Zenon DEF Zones!NoGhosts
<1> QED
  BY Zenon DEF ZInv, ZoneOK

\* A save that leaves a zone and those before it alone changes nobody's occupancy.
LEMMA ReloadLeaves ==
  ASSUME ZInv, Zones!Reload, config'.enabled,
         NEW i \in DOMAIN config.zones, i \in DOMAIN config'.zones,
         \A j \in 1 .. i : /\ config.zones[j].shape = config'.zones[j].shape
                           /\ config.zones[j].enabled = config'.zones[j].enabled
  PROVE  occupancy'[i].inside = occupancy[i].inside
<1>1. PICK new \in ZoneConfigs : Zones!ReloadConfig(new)
  BY DEF Zones!Reload
<1> DEFINE P == Zones!Previous(new.zones, i)
           j == CHOOSE j \in P : \A k \in P : j <= k
<1>2. config' = new
  BY <1>1 DEF Zones!ReloadConfig
<1>3. \A k \in 1 .. i : Zones!Signature(config.zones[k]) = Zones!Signature(new.zones[k])
  BY <1>2 DEF Zones!Signature
<1>4. P = {i}
  BY <1>2, <1>3, PreviousIs DEF ZInv
<1>5. i <= i
  <2>1. config \in ZoneConfigs
    BY Zenon DEF ZInv
  <2>2. i \in Nat
    BY <2>1, ConfigIs
  <2> QED
    BY <2>2
<1>6. j = i
  <2> HIDE DEF P
  <2> QED
    BY <1>4, <1>5
<1>7. occupancy'[i] = Zones!Carried(new.zones, i, j)
  BY <1>1, <1>2, <1>4 DEF Zones!ReloadConfig
<1>8. Zones!Carried(new.zones, i, j).inside = occupancy[j].inside
  BY Zenon, <1>2, <1>4, TakenOver
<1> HIDE DEF j
<1> QED
  BY <1>6, <1>7, <1>8

LEMMA ZoneInvariant == Zones!Spec => []ZInv
<1> QED
  BY ZoneInit, ZoneNext, PTL DEF Zones!Spec

\* The engine's variables keep their types, whatever is configured, saved, lost
\* and moved.
THEOREM ZonesTypeCorrect == Zones!Spec => []Zones!TypeOK
<1> QED
  BY ZoneInvariant, ZInvIsTypeOK, PTL

\* Whoever follows a zone's events knows whether it is occupied, and by how many
\* where every event is spoken: for any zones, entities and debounce.
THEOREM ReceiversAgree == Zones!Spec => []ReceiverAgrees
<1> QED
  BY ZoneInvariant, ZInvAgrees, PTL

\* A save leaves no ghosts, and no occupancy changes of a zone that it leaves
\* alone together with those before it.
THEOREM ReloadsKeep == Zones!Spec => ReloadKeeps
<1> DEFINE Kept == 
      /\ Zones!NoGhosts'
      /\ \A i \in DOMAIN config.zones \cap DOMAIN config'.zones :
           (/\ config.enabled /\ config'.enabled
            /\ \A j \in 1 .. i : /\ config.zones[j].shape = config'.zones[j].shape
                                 /\ config.zones[j].enabled = config'.zones[j].enabled
            /\ zoneChanges' # zoneChanges)
           => occupancy'[i].inside = occupancy[i].inside
<1>1. ZInv /\ [Zones!Next]_(Zones!vars) => [Kept]_(Zones!vars)
  <2> SUFFICES ASSUME ZInv, Zones!Next PROVE Kept
    BY Zenon
  <2>1. Zones!NoGhosts'
    <3>1. ZInv'
      BY ZoneNext
    <3>2. ZInv' => Zones!NoGhosts'
      BY ZInvNoGhosts, PTL
    <3> QED
      BY <3>1, <3>2
  <2>2. ASSUME NEW i \in DOMAIN config.zones \cap DOMAIN config'.zones,
               config.enabled, config'.enabled, zoneChanges' # zoneChanges,
               \A j \in 1 .. i : /\ config.zones[j].shape = config'.zones[j].shape
                                 /\ config.zones[j].enabled = config'.zones[j].enabled
        PROVE  occupancy'[i].inside = occupancy[i].inside
    <3>1. CASE Zones!Update
      BY <2>2, <3>1 DEF Zones!Update
    <3>2. CASE Zones!Reload
      BY <2>2, <3>2, ReloadLeaves
    <3>3. CASE Zones!Move \/ Zones!Outage
      BY <3>3 DEF Zones!Move, Zones!Outage
    <3> QED
      BY <3>1, <3>2, <3>3 DEF Zones!Next
  <2> QED
    BY <2>1, <2>2
<1> QED
  BY <1>1, ZoneInvariant, PTL DEF Zones!Spec, ReloadKeeps, Zones!ReloadKeeps
-----------------------------------------------------------------------------
(* The station: whichever component a behaviour is of, its invariants      *)
(* hold, and those of the others stand.                                    *)

StationInv == ZInv /\ VInv /\ IInv /\ PInv

\* What stands still is sound.
LEMMA StandingIs ==
  /\ ZonesStand => ZInv
  /\ VideoStands => VInv
  /\ PageStands => PInv
<1>1. ASSUME ZonesStand PROVE ZInv
  <2> USE DEF ZonesStand
  <2>1. config \in ZoneConfigs
    <3>1. ZoneConfigs # {}
      BY StationAssumption DEF Zones!ZoneEngineAssumption
    <3> QED
      BY <1>1, <3>1
  <2>2. Zones!Init
    BY <1>1, <2>1 DEF Zones!Init
  <2> QED
    BY <2>2, ZoneInit
<1>2. ASSUME VideoStands PROVE VInv
  <2>1. /\ rx.timers = {"timeout"} /\ rx.pipe = "source" /\ ~rx.connected /\ ~rx.selection
        /\ rx.attempt = 0 /\ rx.kind = "url" /\ rx.refusal = None
    BY <1>2 DEF VideoStands
  <2>2. rx \in VideoRecord
    BY <1>2, VideoConstants DEF VideoStands, VideoRecord, Video!Timers
  <2>3. Shaped(rx) /\ OneTimer(rx)
    BY <2>1, <2>2, VideoConstants DEF Shaped, OneTimer, Builders
  <2>4. air \in Video!Airs /\ posted = None
    BY <1>2 DEF VideoStands, Video!Airs
  <2> QED
    BY <2>1, <2>3, <2>4 DEF VInv, Video!StallIsSeen, PickerOverSource
<1>3. ASSUME PageStands PROVE PInv
  <2>1. Page!Init
    BY <1>3 DEF PageStands, Page!Init
  <2> QED
    BY <2>1, PageInit
<1> QED
  BY <1>1, <1>2, <1>3

LEMMA StationStarts == StationInit => StationInv
BY StandingIs, ZoneInit, VideoInit, InitSound, PageInit DEF StationInit, StationInv

LEMMA StationSteps == StationInv /\ [StationNext]_all => StationInv'
<1> SUFFICES ASSUME StationInv, [StationNext]_all PROVE StationInv'
  OBVIOUS
<1>1. [Zones!Next]_(Zones!vars) /\ [Video!Next]_(Video!vars) /\ [Next]_vars /\ [Page!Next]_(Page!vars)
  <2>1. UNCHANGED zones => UNCHANGED Zones!vars
    BY DEF zones, Zones!vars
  <2>2. UNCHANGED video => UNCHANGED Video!vars
    BY DEF video, Video!vars
  <2>3. UNCHANGED network => UNCHANGED Page!vars
    BY DEF network, Page!vars, Page!world
  <2>4. UNCHANGED all => UNCHANGED <<zones, video, vars, network>>
    BY DEF all
  <2> QED
    BY Zenon, <2>1, <2>2, <2>3, <2>4 DEF StationNext, OfZones, OfVideo, OfFile, OfPage
<1> QED
  BY <1>1, ZoneNext, VideoNext, StepSound, PageNext DEF StationInv

LEMMA StationHolds == StationSpec => []StationInv
<1> QED
  BY StationStarts, StationSteps, PTL DEF StationSpec

\* Whatever of the station a behaviour is of, all of it keeps its types.
THEOREM StationTypeCorrect == StationSpec => []StationTypeOK
<1>1. StationInv => StationTypeOK
  BY ZInvIsTypeOK, VInvIsTypeOK, IInvIsTypeOK, PInvIsTypeOK DEF StationInv, StationTypeOK
<1> QED
  BY <1>1, StationHolds, PTL

\* And its safety invariants: those who follow the zones agree with them, a
\* picture that runs is watched, and the file holds what was saved.
THEOREM StationIsSafe == StationSpec => [](ReceiverAgrees /\ StallIsSeen /\ SavesAddUp)
<1>1. StationInv => ReceiverAgrees /\ StallIsSeen /\ SavesAddUp
  BY ZInvAgrees DEF StationInv, VInv, StallIsSeen, IInv, SavesSound, SavesAddUp
<1> QED
  BY <1>1, StationHolds, PTL
=============================================================================
