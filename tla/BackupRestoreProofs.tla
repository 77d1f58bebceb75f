------------------------ MODULE BackupRestoreProofs ------------------------
(***************************************************************************)
(* BackupRestore for every set of folders and every budget of restores,    *)
(* faults, leftovers, power cuts and writes: a folder of the station's own *)
(* that a restore moved aside is not lost, nothing but the restore at hand *)
(* moves in, and unless more than one thing fails it moves in whole or not *)
(* at all.  Its variables keep their types.                                *)
(*                                                                         *)
(* That one lies aside does not say that no step takes it from there:      *)
(* a recovery empties the asides of a part it is done with.  It is done    *)
(* with a part it found nothing to put right from, so what is owed must    *)
(* also have left its place empty (else the recovery would leave what      *)
(* stands there), and what is empty is never what is owed (else its aside  *)
(* would be the one every move takes and drops).                           *)
(***************************************************************************)
EXTENDS BackupRestore, FiniteSetTheorems, SequenceTheorems, TLAPS

\* The functions over the parts and over the folders.
Shapes ==
  /\ DOMAIN target = Parts /\ DOMAIN aside = Parts
  /\ DOMAIN owed = Folders

\* What part p is owed, if anything, lies aside of its empty place, or
\* another writer made p anew.
OwedLies(p) ==
  owed[p] # Gone => p \in remade \/ (target[p] = Gone /\ owed[p] \in aside[p])

\* Leftovers are removed of a part that is owed nothing, or is made anew.
Cleaned(p) == pc = "clean" /\ Part = p => owed[p] = Gone \/ p \in remade

OwnSound ==
  \A p \in Folders : owed[p] # Empty /\ OwedLies(p) /\ Cleaned(p)

IInv == Shapes /\ OwnSound

-----------------------------------------------------------------------------

\* What is owed lies aside while its place is not made anew.
LEMMA SoundKeeps == IInv => OwnNotLost
BY DEF IInv, OwnSound, OwedLies, OwnNotLost

\* At first nothing is owed.
LEMMA InitSound == Init => IInv
<1> SUFFICES ASSUME Init PROVE IInv
  OBVIOUS
<1>1. DOMAIN target = Parts /\ DOMAIN aside = Parts /\ DOMAIN owed = Folders
  BY DEF Init
<1>2. \A p \in Folders : owed[p] = Gone
  BY DEF Init
<1> QED
  BY <1>1, <1>2, BackupRestoreAssumption DEF IInv, Shapes, OwnSound, OwedLies, Cleaned

\* A folder is a part and no file.
LEMMA FoldersAreNoFiles ==
  Folders \subseteq Parts /\ "config" \notin Folders /\ \A f \in Files : f \notin Folders
BY BackupRestoreAssumption DEF Parts, Files

\* A part of the recovery keeps what it is owed: what is aside of an empty
\* place is a source, so such a part is not cleaned before it is installed.
LEMMA RecoverPartKeeps == IInv /\ RecoverPart => IInv'
<1> SUFFICES ASSUME IInv, RecoverPart PROVE IInv'
  OBVIOUS
<1> USE FoldersAreNoFiles
<1>1. UNCHANGED <<owed, remade>>
  BY DEF RecoverPart, ghosts
<1>2. CASE PartFaults
  BY <1>1, <1>2 DEF PartFaults, NextPart, disk, IInv, Shapes, OwnSound, OwedLies, Cleaned
<1>3. CASE Sources(Part) = {} /\ Goto("clean") /\ UNCHANGED disk
  <2>1. ASSUME NEW p \in Folders, Part = p, owed[p] # Gone, p \notin remade
        PROVE FALSE
    <3>1. target[p] = Gone /\ owed[p] \in aside[p] /\ owed[p] # Empty
      BY <2>1 DEF IInv, OwnSound, OwedLies
    <3>2. owed[p] \in Moved(p)
      BY <3>1 DEF Moved
    <3> QED
      BY <1>3, <2>1, <3>1, <3>2 DEF Sources
  <2> QED
    BY <1>1, <1>3, <2>1 DEF Goto, disk, Part, IInv, Shapes, OwnSound, OwedLies, Cleaned
<1>4. CASE /\ Part \in Folders /\ target[Part] # Gone
           /\ aside' = [aside EXCEPT ![Part] = @ \cup {target[Part]}]
           /\ Place(Part, Gone) /\ Goto("install")
  BY <1>1, <1>4 DEF Place, Goto, IInv, Shapes, OwnSound, OwedLies, Cleaned
<1>5. CASE Goto("install") /\ UNCHANGED disk
  BY <1>1, <1>5 DEF Goto, disk, IInv, Shapes, OwnSound, OwedLies, Cleaned
<1> QED
  BY <1>2, <1>3, <1>4, <1>5 DEF RecoverPart

\* What is installed is owed nothing any more; the other parts stay.
LEMMA InstallKeeps == IInv /\ Install => IInv'
<1> SUFFICES ASSUME IInv, Install PROVE IInv'
  OBVIOUS
<1> USE FoldersAreNoFiles, BackupRestoreAssumption
<1>1. UNCHANGED remade
  BY DEF Install
<1>2. CASE PartFaults /\ UNCHANGED owed
  BY <1>1, <1>2 DEF PartFaults, NextPart, disk, IInv, Shapes, OwnSound, OwedLies, Cleaned
<1>3. CASE ~(PartFaults /\ UNCHANGED owed)
  <2>1. Goto("clean") /\ owed' = [p \in Folders |-> IF p = Part THEN Gone ELSE owed[p]]
    BY <1>3 DEF Install
  <2>2. PICK content \in Sources(Part) :
          /\ Place(Part, content)
          /\ \/ UNCHANGED aside
             \/ aside' = [aside EXCEPT ![Part] = @ \ {content}]
    BY <1>3 DEF Install
  <2>3. Shapes'
    BY <2>1, <2>2 DEF Place, IInv, Shapes
  <2>4. ASSUME NEW p \in Folders
        PROVE (owed[p] # Empty /\ OwedLies(p) /\ Cleaned(p))'
    <3>1. CASE p = Part
      BY <1>1, <2>1, <3>1 DEF OwedLies, Cleaned
    <3>2. CASE p # Part
      <4>1. target'[p] = target[p] /\ aside'[p] = aside[p] /\ owed'[p] = owed[p]
        BY <2>1, <2>2, <3>2 DEF Place, IInv, Shapes
      <4>2. Part' = Part
        BY <2>1 DEF Goto, Part
      <4> QED
        BY <1>1, <3>2, <4>1, <4>2 DEF IInv, OwnSound, OwedLies, Cleaned
    <3> QED
      BY <3>1, <3>2
  <2> QED
    BY <2>3, <2>4 DEF IInv, OwnSound
<1> QED
  BY <1>2, <1>3

\* The leftovers that go are those of a part that is owed nothing.
LEMMA CleanKeeps == IInv /\ Clean => IInv'
<1> SUFFICES ASSUME IInv, Clean PROVE IInv'
  OBVIOUS
<1>1. UNCHANGED <<target, owed, remade>> /\ pc = "clean" /\ pc' = "recover"
  BY DEF Clean, NextPart, ghosts
<1>2. aside' = [aside EXCEPT ![Part] = {}] \/ UNCHANGED aside
  BY DEF Clean
<1>3. ASSUME NEW p \in Folders PROVE (owed[p] # Empty /\ OwedLies(p) /\ Cleaned(p))'
  <2>1. CASE p = Part
    BY <1>1, <2>1 DEF IInv, OwnSound, OwedLies, Cleaned
  <2>2. CASE p # Part
    BY <1>1, <1>2, <2>2, FoldersAreNoFiles DEF IInv, Shapes, OwnSound, OwedLies, Cleaned
  <2> QED
    BY <2>1, <2>2
<1> QED
  BY <1>1, <1>2, <1>3 DEF IInv, Shapes, OwnSound

\* A recovery without a fault leaves nothing owed, and one with a fault
\* leaves everything.
LEMMA EndRecoveryKeeps == IInv /\ EndRecovery => IInv'
<1> SUFFICES ASSUME IInv, EndRecovery PROVE IInv'
  OBVIOUS
<1>1. UNCHANGED <<target, aside>> /\ pc' # "clean"
  BY DEF EndRecovery, disk, Goto
<1>2. CASE faulty
  BY <1>1, <1>2 DEF EndRecovery, ghosts, IInv, Shapes, OwnSound, OwedLies, Cleaned
<1>3. CASE ~faulty
  BY <1>1, <1>3, BackupRestoreAssumption
    DEF EndRecovery, IInv, Shapes, OwnSound, OwedLies, Cleaned
<1> QED
  BY <1>2, <1>3

\* A step that is not a recovery's and touches no folder.
LEMMA FoldersStayKeeps ==
  ASSUME IInv, pc' # "clean", UNCHANGED <<owed, remade>>,
         DOMAIN target' = Parts, DOMAIN aside' = Parts,
         \A p \in Folders : target'[p] = target[p],
         \A p \in Folders : aside[p] \ {Empty} \subseteq aside'[p]
  PROVE  IInv'
BY DEF IInv, Shapes, OwnSound, OwedLies, Cleaned

\* Copies that go with an empty aside take nothing that is owed.
LEMMA EmptyDropped ==
  ASSUME IInv, NEW q, DropCopies(q, Empty)
  PROVE  DOMAIN aside' = Parts /\ \A p \in Folders : aside[p] \ {Empty} \subseteq aside'[p]
<1>1. aside' = [aside EXCEPT ![q] = @ \ {Empty}] \/ UNCHANGED aside
  BY DEF DropCopies
<1> QED
  BY <1>1, FoldersAreNoFiles DEF IInv, Shapes

\* Staging touches no folder in its place, and its asides are empty ones.
LEMMA StagingKeeps == IInv /\ (StageJournal \/ StageCopy \/ FillCopy \/ Discard) => IInv'
<1> SUFFICES ASSUME IInv, StageJournal \/ StageCopy \/ FillCopy \/ Discard PROVE IInv'
  OBVIOUS
<1>1. UNCHANGED <<target, owed, remade>>
  BY DEF StageJournal, StageCopy, FillCopy, Discard, disk, ghosts
<1>2. pc' # "clean"
  BY DEF StageJournal, StageCopy, FillCopy, Discard, Goto, NextPart
<1>3. \/ UNCHANGED aside
      \/ aside' = [aside EXCEPT ![Part] = @ \cup {Empty}]
      \/ aside' = [p \in Parts |-> aside[p] \ {Empty}]
  BY DEF StageJournal, StageCopy, FillCopy, Discard, disk
<1>4. DOMAIN aside' = Parts /\ \A p \in Folders : aside[p] \ {Empty} \subseteq aside'[p]
  BY <1>3, FoldersAreNoFiles DEF IInv, Shapes
<1>5. DOMAIN target' = Parts /\ \A p \in Folders : target'[p] = target[p]
  BY <1>1 DEF IInv, Shapes
<1> QED
  BY <1>1, <1>2, <1>4, <1>5, FoldersStayKeeps

\* The journal and the files of a commit are no folders.
LEMMA FilesKeep ==
  IInv /\ (CommitJournal \/ CommitConfig \/ ConfigFails \/ MoveFile \/ CutShort \/ EndCommit)
    => IInv'
<1> SUFFICES ASSUME IInv, CommitJournal \/ CommitConfig \/ ConfigFails \/ MoveFile
                            \/ CutShort \/ EndCommit
             PROVE IInv'
  OBVIOUS
<1>1. UNCHANGED <<aside, owed, remade>>
  BY DEF CommitJournal, CommitConfig, ConfigFails, MoveFile, CutShort, EndCommit, disk
<1>2. pc' # "clean"
  BY DEF CommitJournal, CommitConfig, ConfigFails, MoveFile, CutShort, EndCommit, Goto, NextPart
<1>3. UNCHANGED target \/ (\E f \in Files : \E c : target' = [target EXCEPT ![f] = c])
  BY DEF CommitJournal, CommitConfig, ConfigFails, MoveFile, CutShort, EndCommit, disk,
         Place, Files
<1>4. DOMAIN target' = Parts /\ \A p \in Folders : target'[p] = target[p]
  BY <1>3, FoldersAreNoFiles DEF IInv, Shapes
<1>5. DOMAIN aside' = Parts /\ \A p \in Folders : aside[p] \ {Empty} \subseteq aside'[p]
  BY <1>1 DEF IInv, Shapes
<1> QED
  BY <1>1, <1>2, <1>4, <1>5, FoldersStayKeeps

\* One part's folder is moved, what it is owed is told anew, and the asides
\* of the others stay.
LEMMA OnePartKeeps ==
  ASSUME IInv, NEW q, pc' # "clean",
         DOMAIN target' = Parts, DOMAIN aside' = Parts, DOMAIN owed' = Folders,
         \A p \in Folders : p # q => /\ target'[p] = target[p] /\ aside'[p] = aside[p]
                                     /\ owed'[p] = owed[p] /\ (p \in remade' <=> p \in remade),
         q \in Folders => owed'[q] # Empty /\ OwedLies(q)'
  PROVE  IInv'
<1>1. ASSUME NEW p \in Folders PROVE (owed[p] # Empty /\ OwedLies(p) /\ Cleaned(p))'
  <2>1. CASE p = q
    BY <2>1 DEF Cleaned
  <2>2. CASE p # q
    BY <2>2 DEF IInv, OwnSound, OwedLies, Cleaned
  <2> QED
    BY <2>1, <2>2
<1> QED
  BY <1>1 DEF IInv, Shapes, OwnSound

\* The station's folder is moved aside and owed from then on.
LEMMA MoveFolderAsideKeeps == IInv /\ MoveFolderAside => IInv'
<1> SUFFICES ASSUME IInv, MoveFolderAside PROVE IInv'
  OBVIOUS
<1>1. ASSUME NEW q \in Folders, Stands(q), MoveAside(q), pc' # "clean",
             owed' = [owed EXCEPT ![q] = Seen[q]], remade' = remade \ {q}
      PROVE  IInv'
  <2>1. /\ target' = [target EXCEPT ![q] = Gone]
        /\ aside' = [aside EXCEPT ![q] = (@ \ {Empty}) \cup {target[q]}]
    BY <1>1 DEF MoveAside, Place
  <2>2. owed'[q] = (IF target[q] = Empty THEN Gone ELSE target[q])
    BY <1>1, FoldersAreNoFiles DEF Seen, IInv, Shapes
  <2>3. owed'[q] # Empty
    BY <2>2, BackupRestoreAssumption
  <2>4. target'[q] = Gone /\ target[q] \in aside'[q]
    BY <2>1, FoldersAreNoFiles DEF IInv, Shapes
  <2>5. OwedLies(q)'
    BY <2>2, <2>4 DEF OwedLies
  <2>6. DOMAIN target' = Parts /\ DOMAIN aside' = Parts /\ DOMAIN owed' = Folders
    BY <1>1, <2>1 DEF IInv, Shapes
  <2>7. \A p \in Folders : p # q => /\ target'[p] = target[p] /\ aside'[p] = aside[p]
                                    /\ owed'[p] = owed[p] /\ (p \in remade' <=> p \in remade)
    BY <1>1, <2>1, FoldersAreNoFiles DEF IInv, Shapes
  <2> QED
    BY <1>1, <2>3, <2>5, <2>6, <2>7, OnePartKeeps
<1>2. CASE ~Stands(Part) /\ Goto("bare") /\ UNCHANGED <<disk, ghosts>>
  BY <1>2, FoldersStayKeeps DEF Goto, disk, ghosts, IInv, Shapes
<1>3. CASE NextPart("part") /\ DropCopies(Part, Empty) /\ UNCHANGED <<target, owed, remade>>
  <2>1. DOMAIN aside' = Parts /\ \A p \in Folders : aside[p] \ {Empty} \subseteq aside'[p]
    BY <1>3, EmptyDropped
  <2> QED
    BY <1>3, <2>1, FoldersStayKeeps DEF NextPart, IInv, Shapes
<1> QED
  BY <1>1, <1>2, <1>3 DEF MoveFolderAside, Goto

\* The copy goes in and nothing is owed, or it does not and all stays.
LEMMA MoveFolderInKeeps == IInv /\ MoveFolderIn => IInv'
<1> SUFFICES ASSUME IInv, MoveFolderIn PROVE IInv'
  OBVIOUS
<1>1. ASSUME NEW c, NEW own, NEW q, q = Part,
             Place(q, c), NextPart("part"), DropCopies(q, own),
             owed' = [owed EXCEPT ![q] = Gone], UNCHANGED remade
      PROVE  IInv'
  <2>1. aside' = [aside EXCEPT ![q] = @ \ {own}] \/ UNCHANGED aside
    BY <1>1 DEF DropCopies
  <2>2. q \in Folders => owed'[q] # Empty /\ OwedLies(q)'
    BY <1>1, BackupRestoreAssumption DEF IInv, Shapes, OwedLies
  <2>3. DOMAIN target' = Parts /\ DOMAIN aside' = Parts /\ DOMAIN owed' = Folders
    BY <1>1, <2>1 DEF Place, IInv, Shapes
  <2>4. \A p \in Folders : p # q => /\ target'[p] = target[p] /\ aside'[p] = aside[p]
                                    /\ owed'[p] = owed[p] /\ (p \in remade' <=> p \in remade)
    BY <1>1, <2>1, FoldersAreNoFiles DEF Place, IInv, Shapes
  <2> QED
    BY <1>1, <2>2, <2>3, <2>4, OnePartKeeps DEF NextPart
<1>2. CASE pc' = "putback" /\ UNCHANGED <<disk, owed, remade>>
  BY <1>2, FoldersStayKeeps DEF disk, IInv, Shapes
<1>3. CASE NextPart("part") /\ DropCopies(Part, Empty) /\ UNCHANGED <<target, owed, remade>>
  <2>1. DOMAIN aside' = Parts /\ \A p \in Folders : aside[p] \ {Empty} \subseteq aside'[p]
    BY <1>3, EmptyDropped
  <2> QED
    BY <1>3, <2>1, FoldersStayKeeps DEF NextPart, IInv, Shapes
<1> QED
  BY <1>1, <1>2, <1>3 DEF MoveFolderIn

\* What is put back is owed no more, and what is not stays aside.
LEMMA PutBackKeeps == IInv /\ PutBack => IInv'
<1> SUFFICES ASSUME IInv, PutBack PROVE IInv'
  OBVIOUS
<1>0. pc' # "clean" /\ UNCHANGED remade
  BY DEF PutBack, NextPart
<1>1. ASSUME NEW c, NEW q, Place(q, c), aside' = [aside EXCEPT ![q] = @ \ {c}],
             owed' = [owed EXCEPT ![q] = Gone]
      PROVE  IInv'
  <2>1. q \in Folders => owed'[q] # Empty /\ OwedLies(q)'
    BY <1>1, BackupRestoreAssumption DEF IInv, Shapes, OwedLies
  <2>2. DOMAIN target' = Parts /\ DOMAIN aside' = Parts /\ DOMAIN owed' = Folders
    BY <1>1 DEF Place, IInv, Shapes
  <2>3. \A p \in Folders : p # q => /\ target'[p] = target[p] /\ aside'[p] = aside[p]
                                    /\ owed'[p] = owed[p] /\ (p \in remade' <=> p \in remade)
    BY <1>0, <1>1, FoldersAreNoFiles DEF Place, IInv, Shapes
  <2> QED
    BY <1>0, <2>1, <2>2, <2>3, OnePartKeeps
<1>2. CASE UNCHANGED <<disk, owed>>
  BY <1>0, <1>2, FoldersStayKeeps DEF disk, IInv, Shapes
<1> QED
  BY <1>1, <1>2 DEF PutBack

\* A writer that makes a part anew while its folder is owed is told of.
LEMMA WriterKeeps ==
  ASSUME NEW p \in Parts, IInv, Write(p) \/ MakeFolder(p)
  PROVE  IInv'
<1>1. UNCHANGED <<aside, owed, pc, todo>> /\ MadeAnew(p)
  BY DEF Write, MakeFolder, job
<1>2. PICK c : target' = [target EXCEPT ![p] = c]
  BY DEF Write, MakeFolder, Place
<1>3. remade \subseteq remade' /\ (p \in Folders /\ owed[p] # Gone => p \in remade')
  BY <1>1 DEF MadeAnew
<1>4. ASSUME NEW q \in Folders PROVE (owed[q] # Empty /\ OwedLies(q) /\ Cleaned(q))'
  <2>1. Part' = Part
    BY <1>1 DEF Part
  <2>2. OwedLies(q)'
    <3>1. CASE q = p
      BY <1>1, <1>3, <3>1 DEF OwedLies
    <3>2. CASE q # p
      BY <1>1, <1>2, <1>3, <3>2, FoldersAreNoFiles DEF IInv, Shapes, OwnSound, OwedLies
    <3> QED
      BY <3>1, <3>2
  <2>3. (owed[q] # Empty /\ Cleaned(q))'
    BY <1>1, <1>3, <2>1 DEF IInv, OwnSound, Cleaned
  <2> QED
    BY <2>2, <2>3
<1> QED
  BY <1>1, <1>2, <1>4 DEF IInv, Shapes, OwnSound

\* Starts, stops and requests leave the disk and what is owed as they are.
LEMMA AroundKeeps == IInv /\ (Request \/ Restart \/ PowerCut \/ Start) => IInv'
<1> SUFFICES ASSUME IInv, Request \/ Restart \/ PowerCut \/ Start PROVE IInv'
  OBVIOUS
<1>1. UNCHANGED <<target, aside, owed, remade>>
  BY DEF Request, Restart, PowerCut, Start, Down, disk, ghosts
<1>2. pc' # "clean"
  BY DEF Request, Restart, PowerCut, Start, Down, BeginRecovery
<1> QED
  BY <1>1, <1>2, FoldersStayKeeps DEF IInv, Shapes

LEMMA StutterKeeps == IInv /\ UNCHANGED vars => IInv'
BY DEF vars, disk, job, ghosts, Part, IInv, Shapes, OwnSound, OwedLies, Cleaned

\* Every step keeps the invariant.
LEMMA NextKeeps == IInv /\ [Next]_vars => IInv'
<1> SUFFICES ASSUME IInv, [Next]_vars PROVE IInv'
  OBVIOUS
<1>1. CASE Request \/ Restart \/ PowerCut \/ Start
  BY <1>1, AroundKeeps
<1>2. CASE Recovery
  BY <1>2, RecoverPartKeeps, InstallKeeps, CleanKeeps, EndRecoveryKeeps DEF Recovery
<1>3. CASE StageJournal \/ StageCopy \/ FillCopy \/ Discard
  BY <1>3, StagingKeeps
<1>4. CASE Commit
  BY <1>4, FilesKeep, MoveFolderAsideKeeps, MoveFolderInKeeps, PutBackKeeps DEF Commit
<1>5. ASSUME NEW p \in Parts, Write(p) \/ MakeFolder(p) PROVE IInv'
  BY <1>5, WriterKeeps
<1>6. CASE UNCHANGED vars
  BY <1>6, StutterKeeps
<1> QED
  BY <1>1, <1>2, <1>3, <1>4, <1>5, <1>6 DEF Next

\* _move_in, recover_interrupted_restore: whatever fails, however often the
\* power goes and whoever writes beside it, the station's own folder that a
\* restore moved aside lies on the disk until the copy has replaced it, it is
\* back, or another writer has made the folder anew.
THEOREM OwnIsNotLost == Spec => []OwnNotLost
<1>1. IInv /\ [Next]_vars => IInv'
  BY NextKeeps
<1> QED
  BY <1>1, InitSound, SoundKeeps, PTL DEF Spec
-----------------------------------------------------------------------------
(* The hold.  It is taken inside a commit and goes with the station, and   *)
(* only a request that finds none recovers, so no recovery runs under it.  *)

HoldSound ==
  /\ life = "off" => pc = "idle" /\ ~held
  /\ held => pc \in {"part", "moved", "bare", "putback", "idle"}

\* Every step keeps it.
LEMMA HoldKeeps == HoldSound /\ [Next]_vars => HoldSound'
<1> SUFFICES ASSUME HoldSound, [Next]_vars PROVE HoldSound'
  OBVIOUS
<1> USE DEF HoldSound, Goto, NextPart
<1>1. CASE Request \/ Start
  <2>1. UNCHANGED held /\ ~held /\ life' # "off"
    BY <1>1 DEF Request, Start
  <2> QED
    BY <2>1
<1>2. CASE Restart \/ PowerCut
  <2>1. life' = "off" /\ pc' = "idle" /\ held' = FALSE
    BY <1>2 DEF Restart, PowerCut, Down
  <2> QED
    BY <2>1
<1>3. CASE Recovery
  <2>1. UNCHANGED held /\ (UNCHANGED life \/ life' = "up") /\ pc \in {"recover", "install", "clean"}
    BY <1>3 DEF Recovery, RecoverPart, Install, Clean, EndRecovery
  <2> QED
    BY <2>1
<1>4. CASE StageJournal \/ StageCopy \/ FillCopy \/ Discard \/ CommitJournal \/ ConfigFails
  <2>1. UNCHANGED <<life, held>> /\ pc \in {"stage", "copy", "fill", "discard", "config"}
    BY <1>4 DEF StageJournal, StageCopy, FillCopy, Discard, CommitJournal, ConfigFails
  <2> QED
    BY <2>1
<1>5. CASE CommitConfig
  <2>1. UNCHANGED life /\ pc = "config" /\ pc' = "part"
    BY <1>5 DEF CommitConfig
  <2> QED
    BY <2>1
<1>6. CASE MoveFile \/ MoveFolderAside \/ MoveFolderIn \/ PutBack \/ CutShort \/ EndCommit
  <2>1. UNCHANGED <<life, held>> /\ pc \in {"part", "moved", "bare", "putback"}
    BY <1>6 DEF MoveFile, MoveFolderAside, MoveFolderIn, PutBack, CutShort, EndCommit
  <2>2. pc' \in {"part", "moved", "bare", "putback", "idle"}
    BY <1>6, <2>1 DEF MoveFile, MoveFolderAside, MoveFolderIn, PutBack, CutShort, EndCommit
  <2> QED
    BY <2>1, <2>2
<1>7. ASSUME NEW p \in Parts, Write(p) \/ MakeFolder(p) PROVE HoldSound'
  <2>1. UNCHANGED <<life, held, pc>>
    BY <1>7 DEF Write, MakeFolder, job
  <2> QED
    BY <2>1
<1>8. CASE UNCHANGED vars
  BY <1>8 DEF vars, job
<1> QED
  BY <1>1, <1>2, <1>3, <1>4, <1>5, <1>6, <1>7, <1>8 DEF Next, Commit

\* What a held station reads stays while no commit is under way: another
\* writer is refused, and the folder one makes before it asks is empty.
LEMMA HoldHolds == HoldSound /\ [Next]_vars => (held /\ ~Gated => UNCHANGED Seen)
<1> SUFFICES ASSUME HoldSound, [Next]_vars, held, ~Gated PROVE Seen' = Seen
  OBVIOUS
<1>1. pc = "idle"
  BY DEF HoldSound, Gated
<1>2. CASE UNCHANGED target
  BY <1>2 DEF Seen
<1>3. CASE ~UNCHANGED target
  <2>1. PICK p \in Parts : Write(p) \/ MakeFolder(p)
    BY <1>1, <1>3 DEF Next, Commit, Recovery, Request, RecoverPart, Install, Clean,
       EndRecovery, StageJournal, StageCopy, FillCopy, CommitJournal, CommitConfig,
       ConfigFails, MoveFile, MoveFolderAside, MoveFolderIn, PutBack, CutShort, EndCommit,
       Discard, Restart, PowerCut, Start, Down, disk, vars
  <2>2. MakeFolder(p)
    BY <2>1 DEF Write, MayWrite
  <2>3. target[p] = Gone /\ target' = [target EXCEPT ![p] = Empty]
    BY <2>2 DEF MakeFolder, Place
  <2> QED
    BY <2>3 DEF Seen
<1> QED
  BY <1>2, <1>3

-----------------------------------------------------------------------------
(* The copies.  A journal that is committed is of the restore at hand, for *)
(* no request begins while there is one, and the copies beside it are that *)
(* restore's and whole, for the journal is committed last; so what a start *)
(* finishes is that restore.  A commit takes a part's newest copy, and is  *)
(* at each part once.                                                      *)

Recovering == pc \in {"recover", "install", "clean"}
Moving == pc \in {"part", "moved", "bare", "putback"}

\* A restore is asked for and not committed, but for its config.
Asked == pc \in {"stage", "copy", "fill", "config"} \/ (Recovering /\ life # "starting")

Copies == Seq(0 .. MaxRestores + restore)

\* The newest copy of part p is the restore's.
Ready(p) == staged[p] # <<>> /\ Copy(p) = restore

\* None of the copies of part p is one the restore is writing.
Unwritten(p) == Half(restore) \notin ToSet(staged[p])

Kinds ==
  /\ restore \in 0 .. MaxRestores /\ staged \in [Parts -> Copies]
  /\ inside \in {{}, Parts, {"config"}} /\ (Asked => "config" \in inside)
  /\ inside # {} => restore # 0
  /\ pc \in {"copy", "fill"} \/ Moving => todo \in Seq(Parts)

JournalSound ==
  /\ Asked /\ pc # "config" => journal # "committed"
  /\ Recovering /\ finishing => journal = "committed"
  /\ journal = "committed" => \A p \in Parts \ behind : ToSet(staged[p]) \subseteq {restore}

StagingSound ==
  /\ Asked /\ pc \notin {"fill", "config"} => \A p \in Parts : Unwritten(p)
  /\ pc = "fill" =>
       /\ todo # <<>> /\ staged[Part] # <<>> /\ Half(restore) \notin ToSet(Tail(staged[Part]))
       /\ \A p \in Parts \ {Part} : Unwritten(p)
  /\ pc \in {"copy", "fill"} => \A p \in inside \ ToSet(todo) : Ready(p)
  /\ pc = "config" => \A p \in inside : Ready(p)

MovingSound ==
  /\ Moving => IsInjective(todo) /\ \A p \in ToSet(todo) : Ready(p)
  /\ pc \in {"moved", "bare", "putback"} => todo # <<>>
  /\ pc \in {"moved", "putback"} /\ owed[Part] # Gone => owed[Part] \in aside[Part]

CopySound == Kinds /\ JournalSound /\ StagingSound /\ MovingSound

-----------------------------------------------------------------------------
(* Sequences: of copies, the newest first, and of the parts of a set.      *)

LEMMA TailFacts ==
  ASSUME NEW S, NEW s \in Seq(S), s # <<>>
  PROVE  /\ Tail(s) \in Seq(S) /\ Head(s) \in S
         /\ ToSet(s) = {Head(s)} \cup ToSet(Tail(s))
         /\ IsInjective(s) => IsInjective(Tail(s)) /\ Head(s) \notin ToSet(Tail(s))
<1>1. Len(s) \in Nat /\ Len(s) > 0 /\ DOMAIN s = 1 .. Len(s)
  BY EmptySeq, LenProperties
<1>2. /\ Tail(s) \in Seq(S) /\ DOMAIN Tail(s) = 1 .. Len(s) - 1
      /\ \A i \in 1 .. Len(s) - 1 : Tail(s)[i] = s[i + 1]
  BY HeadTailProperties
<1>3. Head(s) = s[1] /\ s[1] \in S
  BY <1>1, HeadTailProperties, ElementOfSeq
<1>4. ToSet(s) = {Head(s)} \cup ToSet(Tail(s))
  <2>1. ASSUME NEW i \in 1 .. Len(s) PROVE s[i] \in {Head(s)} \cup ToSet(Tail(s))
    <3>1. CASE i = 1
      BY <1>3, <3>1
    <3>2. CASE i # 1
      <4>1. i - 1 \in 1 .. Len(s) - 1 /\ Tail(s)[i - 1] = s[i]
        BY <1>1, <1>2, <3>2
      <4> QED
        BY <1>2, <4>1 DEF ToSet
    <3> QED
      BY <3>1, <3>2
  <2>2. ASSUME NEW i \in 1 .. Len(s) - 1 PROVE Tail(s)[i] \in ToSet(s)
    <3>1. i + 1 \in 1 .. Len(s)
      BY <1>1
    <3> QED
      BY <1>1, <1>2, <3>1 DEF ToSet
  <2>3. Head(s) \in ToSet(s)
    BY <1>1, <1>3 DEF ToSet
  <2> QED
    BY <1>1, <1>2, <2>1, <2>2, <2>3 DEF ToSet
<1>5. ASSUME IsInjective(s)
      PROVE  IsInjective(Tail(s)) /\ Head(s) \notin ToSet(Tail(s))
  <2>1. \A i, j \in 1 .. Len(s) - 1 : Tail(s)[i] = Tail(s)[j] => i = j
    <3>1. SUFFICES ASSUME NEW i \in 1 .. Len(s) - 1, NEW j \in 1 .. Len(s) - 1,
                          Tail(s)[i] = Tail(s)[j]
                   PROVE  i = j
      OBVIOUS
    <3>2. i + 1 \in DOMAIN s /\ j + 1 \in DOMAIN s /\ s[i + 1] = s[j + 1]
      BY <1>1, <1>2, <3>1
    <3>3. i + 1 = j + 1
      BY <1>5, <3>2 DEF IsInjective
    <3> QED
      BY <3>3
  <2>2. ASSUME NEW i \in 1 .. Len(s) - 1, Tail(s)[i] = Head(s) PROVE FALSE
    <3>1. i + 1 \in DOMAIN s /\ 1 \in DOMAIN s /\ s[i + 1] = s[1]
      BY <1>1, <1>2, <1>3, <2>2
    <3>2. i + 1 = 1
      BY <1>5, <3>1 DEF IsInjective
    <3> QED
      BY <3>2
  <2> QED
    BY <1>2, <2>1, <2>2 DEF IsInjective, ToSet
<1> QED
  BY <1>2, <1>3, <1>4, <1>5

LEMMA PrependFacts ==
  ASSUME NEW S, NEW s \in Seq(S), NEW x \in S
  PROVE  /\ <<x>> \o s \in Seq(S) /\ <<x>> \o s # <<>>
         /\ Head(<<x>> \o s) = x /\ Tail(<<x>> \o s) = s
         /\ ToSet(<<x>> \o s) = {x} \cup ToSet(s)
<1>1. <<x>> \o s \in Seq(S) /\ <<x>> \o s # <<>> /\ Head(<<x>> \o s) = x /\ Tail(<<x>> \o s) = s
  BY SMTT(30)
<1>2. ToSet(<<x>> \o s) = {x} \cup ToSet(s)
  BY <1>1, TailFacts
<1> QED
  BY <1>1, <1>2

\* The sequence of a set has each of its elements, once.
LEMMA SetToSeqFacts ==
  ASSUME NEW S, IsFiniteSet(S)
  PROVE  /\ SetToSeq(S) \in Seq(S) /\ ToSet(SetToSeq(S)) = S
         /\ IsInjective(SetToSeq(S))
<1> DEFINE n == Cardinality(S)
           f == SetToSeq(S)
<1>1. n \in Nat /\ ExistsBijection(1 .. n, S)
  BY FS_CardinalityType
<1>2. \E g \in [1 .. n -> S] : IsInjective(g)
  BY <1>1 DEF ExistsBijection, Bijection, Injection, IsInjective
<1>3. f \in [1 .. n -> S] /\ IsInjective(f)
  BY <1>2 DEF SetToSeq
<1> HIDE DEF f
<1>4. f \in Injection(1 .. n, S)
  BY <1>3 DEF Injection, IsInjective
<1>5. Cardinality(1 .. n) = n
  BY <1>1, FS_Interval
<1>6. f \in Surjection(1 .. n, S)
  BY <1>4, <1>5, FS_Injection
<1>7. ToSet(f) = S
  BY <1>3, <1>6 DEF Surjection, ToSet
<1>8. f \in Seq(S)
  BY <1>1, <1>3
<1> QED
  BY <1>3, <1>7, <1>8 DEF f

LEMMA SetToSeqOfParts ==
  \A S \in SUBSET Parts : /\ SetToSeq(S) \in Seq(Parts) /\ ToSet(SetToSeq(S)) = S
                         /\ IsInjective(SetToSeq(S))
<1>1. IsFiniteSet(Files)
  <2>1. IsFiniteSet({"config"} \cup {"catalog"})
    BY FS_Singleton, FS_Union
  <2>2. Files = {"config"} \cup {"catalog"}
    BY DEF Files
  <2> QED
    BY <2>1, <2>2
<1>2. IsFiniteSet(Parts)
  BY <1>1, FS_Union, BackupRestoreAssumption DEF Parts
<1>3. ASSUME NEW S \in SUBSET Parts
      PROVE  /\ SetToSeq(S) \in Seq(Parts) /\ ToSet(SetToSeq(S)) = S
             /\ IsInjective(SetToSeq(S))
  <2>1. IsFiniteSet(S)
    BY <1>2, FS_Subset
  <2>2. SetToSeq(S) \in Seq(S) /\ ToSet(SetToSeq(S)) = S /\ IsInjective(SetToSeq(S))
    BY <2>1, SetToSeqFacts
  <2>3. Seq(S) \subseteq Seq(Parts)
    OBVIOUS
  <2> QED
    BY <2>2, <2>3
<1> QED
  BY <1>3

\* The copies of a part but its newest are copies of it.
LEMMA CopyFacts ==
  ASSUME Kinds, NEW p \in Parts, staged[p] # <<>>
  PROVE  /\ Tail(staged[p]) \in Copies /\ Copy(p) \in 0 .. MaxRestores + restore
         /\ ToSet(staged[p]) = {Copy(p)} \cup ToSet(Tail(staged[p]))
BY TailFacts DEF Kinds, Copies, Copy

-----------------------------------------------------------------------------
(* Steps that are alike.                                                   *)

LEMMA InitCopies == Init => CopySound
<1> SUFFICES ASSUME Init PROVE CopySound
  OBVIOUS
<1>1. <<>> \in Copies /\ 0 \in 0 .. MaxRestores
  BY BackupRestoreAssumption DEF Copies
<1> QED
  BY <1>1 DEF Init, CopySound, Kinds, JournalSound, StagingSound, MovingSound, Asked,
     Recovering, Moving

\* A job ends or is given up.
LEMMA EndsCopies ==
  ASSUME CopySound, pc' \in {"idle", "discard"}, UNCHANGED which,
         journal' \in {journal, "none", "pending"}, staged' \in [Parts -> Copies],
         \A p \in Parts : ToSet(staged'[p]) \subseteq ToSet(staged[p])
  PROVE  CopySound'
<1>1. restore' = restore /\ inside' = inside /\ behind' = behind
  BY DEF which
<1>2. ~Asked' /\ ~Recovering' /\ ~Moving' /\ pc' \notin {"copy", "fill", "config"}
  BY DEF Asked, Recovering, Moving
<1>3. Kinds'
  BY <1>1, <1>2 DEF CopySound, Kinds, Copies
<1>4. JournalSound'
  BY <1>1, <1>2 DEF CopySound, JournalSound
<1>5. StagingSound' /\ MovingSound'
  BY <1>2 DEF StagingSound, MovingSound, Moving
<1> QED
  BY <1>3, <1>4, <1>5 DEF CopySound

\* A step of a recovery.
LEMMA RecoveryCopies ==
  ASSUME CopySound, Recovering, Recovering', UNCHANGED <<journal, life, which, finishing>>,
         staged' \in [Parts -> Copies],
         \A p \in Parts : ToSet(staged'[p]) \subseteq ToSet(staged[p])
  PROVE  CopySound'
<1>1. restore' = restore /\ inside' = inside /\ behind' = behind
  BY DEF which
<1>2. /\ Asked' <=> Asked
      /\ pc \notin {"fill", "config"} /\ pc' \notin {"copy", "fill", "config"} /\ ~Moving'
  BY DEF Asked, Recovering, Moving
<1>3. Kinds'
  BY <1>1, <1>2 DEF CopySound, Kinds, Copies
<1>4. JournalSound'
  BY <1>1, <1>2 DEF CopySound, JournalSound
<1>5. StagingSound'
  BY <1>1, <1>2 DEF CopySound, StagingSound, Unwritten, Half
<1>6. MovingSound'
  BY <1>2 DEF MovingSound, Moving
<1> QED
  BY <1>3, <1>4, <1>5, <1>6 DEF CopySound

\* A commit is done with a part, whose newest copy went.
LEMMA PartDoneCopies ==
  ASSUME CopySound, Moving, todo # <<>>, pc' = "part", todo' = Tail(todo),
         UNCHANGED <<journal, which>>,
         staged' \in {staged, [staged EXCEPT ![Part] = Tail(@)]}
  PROVE  CopySound'
<1>1. restore' = restore /\ inside' = inside /\ behind' = behind
  BY DEF which
<1>2. /\ todo \in Seq(Parts) /\ IsInjective(todo) /\ \A p \in ToSet(todo) : Ready(p)
  BY DEF CopySound, Kinds, MovingSound
<1>3. /\ Part \in Parts /\ Part \in ToSet(todo) /\ Part \notin ToSet(Tail(todo))
      /\ Tail(todo) \in Seq(Parts) /\ IsInjective(Tail(todo))
      /\ ToSet(Tail(todo)) \subseteq ToSet(todo) /\ ToSet(todo) \subseteq Parts
  BY <1>2, TailFacts DEF Part, ToSet
<1>4. /\ Tail(staged[Part]) \in Copies
      /\ ToSet(Tail(staged[Part])) \subseteq ToSet(staged[Part])
  BY <1>2, <1>3, CopyFacts DEF CopySound, Ready
<1>5. /\ staged' \in [Parts -> Copies]
      /\ \A p \in Parts : ToSet(staged'[p]) \subseteq ToSet(staged[p])
      /\ \A p \in Parts \ {Part} : staged'[p] = staged[p]
  BY <1>3, <1>4 DEF CopySound, Kinds
<1>6. ~Asked' /\ ~Recovering' /\ Moving'
  BY DEF Asked, Recovering, Moving
<1>7. Kinds'
  BY <1>1, <1>3, <1>5, <1>6 DEF CopySound, Kinds, Copies
<1>8. JournalSound'
  BY <1>1, <1>5, <1>6 DEF CopySound, JournalSound
<1>9. StagingSound'
  BY <1>6 DEF StagingSound
<1>10. MovingSound'
  BY <1>1, <1>2, <1>3, <1>5 DEF MovingSound, Ready, Copy
<1> QED
  BY <1>7, <1>8, <1>9, <1>10 DEF CopySound

\* A commit goes on with the part it is at.
LEMMA PartStaysCopies ==
  ASSUME CopySound, Moving, Moving', todo # <<>>, UNCHANGED <<todo, journal, which, staged>>,
         pc' \in {"moved", "putback"} /\ owed'[Part] # Gone => owed'[Part] \in aside'[Part]
  PROVE  CopySound'
<1>1. restore' = restore /\ inside' = inside /\ behind' = behind /\ Part' = Part
  BY DEF which, Part
<1>2. ~Asked' /\ ~Recovering' /\ pc' \notin {"copy", "fill", "config"}
  BY DEF Asked, Recovering, Moving
<1>3. Kinds'
  BY <1>1, <1>2 DEF CopySound, Kinds, Copies
<1>4. JournalSound'
  BY <1>1, <1>2 DEF CopySound, JournalSound
<1>5. StagingSound'
  BY <1>2 DEF StagingSound
<1>6. MovingSound'
  BY <1>1 DEF CopySound, MovingSound, Ready, Copy
<1> QED
  BY <1>3, <1>4, <1>5, <1>6 DEF CopySound

-----------------------------------------------------------------------------
(* The steps of a recovery.                                                *)

LEMMA RecoverPartCopies == CopySound /\ RecoverPart => CopySound'
<1> SUFFICES ASSUME CopySound, RecoverPart PROVE CopySound'
  OBVIOUS
<1>1. UNCHANGED <<journal, life, which, staged, finishing>> /\ pc = "recover"
  BY DEF RecoverPart, PartFaults, disk, Goto
<1>2. pc' \in {"recover", "install", "clean"}
  BY DEF RecoverPart, PartFaults, NextPart, Goto
<1> QED
  BY <1>1, <1>2, RecoveryCopies DEF Recovering, CopySound, Kinds, Copies, which

LEMMA InstallCopies == CopySound /\ Install => CopySound'
<1> SUFFICES ASSUME CopySound, Install PROVE CopySound'
  OBVIOUS
<1>1. /\ UNCHANGED <<journal, life, which, finishing>>
      /\ pc = "install" /\ pc' \in {"recover", "clean"}
  BY DEF Install, PartFaults, NextPart, Goto
<1>2. \/ UNCHANGED staged
      \/ HasCopy(Part) /\ staged' = [staged EXCEPT ![Part] = Tail(@)]
  BY DEF Install, PartFaults, disk
<1>3. restore' = restore
  BY <1>1 DEF which
<1>4. /\ staged' \in [Parts -> Copies]
      /\ \A p \in Parts : ToSet(staged'[p]) \subseteq ToSet(staged[p])
  <2>1. CASE UNCHANGED staged
    BY <2>1 DEF CopySound, Kinds
  <2>2. CASE HasCopy(Part) /\ staged' = [staged EXCEPT ![Part] = Tail(@)]
    <3>1. ASSUME Part \in Parts
          PROVE  /\ Tail(staged[Part]) \in Copies
                 /\ ToSet(Tail(staged[Part])) \subseteq ToSet(staged[Part])
      BY <2>2, <3>1, CopyFacts DEF HasCopy, CopySound
    <3> QED
      BY <2>2, <3>1 DEF CopySound, Kinds
  <2> QED
    BY <1>2, <2>1, <2>2
<1> QED
  BY <1>1, <1>4, RecoveryCopies DEF Recovering

LEMMA CleanCopies == CopySound /\ Clean => CopySound'
<1> SUFFICES ASSUME CopySound, Clean PROVE CopySound'
  OBVIOUS
<1>1. UNCHANGED <<journal, life, which, finishing>> /\ pc = "clean" /\ pc' = "recover"
  BY DEF Clean, NextPart
<1>2. UNCHANGED staged \/ staged' = [staged EXCEPT ![Part] = <<>>]
  BY DEF Clean
<1>3. <<>> \in Copies /\ ToSet(<<>>) = {}
  BY DEF Copies, ToSet
<1>4. /\ staged' \in [Parts -> Copies]
      /\ \A p \in Parts : ToSet(staged'[p]) \subseteq ToSet(staged[p])
  BY <1>2, <1>3 DEF CopySound, Kinds
<1> QED
  BY <1>1, <1>4, RecoveryCopies DEF Recovering

\* Only the recovery of a request goes on to a restore, and it had no
\* committed journal.
LEMMA EndRecoveryCopies == CopySound /\ EndRecovery => CopySound'
<1> SUFFICES ASSUME CopySound, EndRecovery PROVE CopySound'
  OBVIOUS
<1>1. UNCHANGED <<which, staged>> /\ pc = "recover" /\ journal' \in {journal, "none"}
  BY DEF EndRecovery, disk
<1>2. restore' = restore /\ inside' = inside /\ behind' = behind
  BY <1>1 DEF which
<1>3. CASE life = "starting"
  BY <1>1, <1>3, EndsCopies DEF EndRecovery, Goto, CopySound, Kinds
<1>4. CASE life # "starting"
  <2>1. pc' = "stage" /\ Asked
    BY <1>1, <1>4 DEF EndRecovery, Goto, Asked, Recovering
  <2>2. journal # "committed" /\ "config" \in inside /\ \A p \in Parts : Unwritten(p)
    BY <1>1, <2>1 DEF CopySound, JournalSound, Kinds, StagingSound
  <2>3. Kinds'
    BY <1>1, <1>2, <2>1, <2>2 DEF CopySound, Kinds, Copies, Moving
  <2>4. JournalSound' /\ MovingSound'
    BY <1>1, <2>1, <2>2 DEF JournalSound, MovingSound, Moving, Recovering
  <2>5. StagingSound'
    BY <1>1, <1>2, <2>1, <2>2 DEF StagingSound, Unwritten, Half
  <2> QED
    BY <2>3, <2>4, <2>5 DEF CopySound
<1> QED
  BY <1>3, <1>4

-----------------------------------------------------------------------------
(* The steps of a request up to the commit.                                *)

\* A new restore's number is in no copy yet.
LEMMA RequestCopies == CopySound /\ Request => CopySound'
<1> SUFFICES ASSUME CopySound, Request PROVE CopySound'
  OBVIOUS
<1>1. /\ restore' = restore + 1 /\ restore < MaxRestores /\ inside' \in {Parts, {"config"}}
      /\ UNCHANGED <<staged, journal, behind>> /\ journal # "committed"
  BY DEF Request, disk
<1>2. pc' = "recover" /\ finishing' = FALSE
  BY <1>1 DEF Request, BeginRecovery
<1>3. restore \in Nat /\ MaxRestores \in Nat /\ staged \in [Parts -> Copies]
  BY BackupRestoreAssumption DEF CopySound, Kinds
<1>4. Copies \subseteq Copies' /\ "config" \in Parts
  BY <1>1, <1>3 DEF Copies, Parts, Files
<1>5. Kinds'
  BY <1>1, <1>2, <1>3, <1>4 DEF Kinds, Moving
<1>6. JournalSound' /\ MovingSound'
  BY <1>1, <1>2 DEF JournalSound, MovingSound, Moving
<1>7. ASSUME NEW p \in Parts PROVE Unwritten(p)'
  <2>1. ToSet(staged[p]) \subseteq 0 .. MaxRestores + restore
    BY <1>3 DEF Copies, ToSet
  <2>2. Half(restore)' = MaxRestores + restore + 1
    BY <1>1, <1>3 DEF Half
  <2> QED
    BY <1>1, <1>3, <2>1, <2>2 DEF Unwritten
<1>8. StagingSound'
  BY <1>2, <1>7 DEF StagingSound
<1> QED
  BY <1>5, <1>6, <1>8 DEF CopySound

\* Every part of the backup is yet to be copied.
LEMMA StageJournalCopies == CopySound /\ StageJournal => CopySound'
<1> SUFFICES ASSUME CopySound, StageJournal PROVE CopySound'
  OBVIOUS
<1>1. UNCHANGED <<which, staged>> /\ pc = "stage"
  BY DEF StageJournal, disk
<1>2. restore' = restore /\ inside' = inside /\ behind' = behind
  BY <1>1 DEF which
<1>3. CASE pc' = "discard" /\ UNCHANGED journal
  BY <1>1, <1>3, EndsCopies DEF CopySound, Kinds
<1>4. CASE /\ journal' = "pending" /\ pc' = "copy"
           /\ todo' = SetToSeq(inside \ {"config"}) \o <<"config">>
  <2>1. "config" \in inside /\ inside \subseteq Parts /\ \A p \in Parts : Unwritten(p)
    BY <1>1 DEF CopySound, Kinds, StagingSound, Asked, Parts, Files
  <2>2. todo' \in Seq(Parts) /\ inside \subseteq ToSet(todo')
    <3> DEFINE first == SetToSeq(inside \ {"config"})
    <3>1. first \in Seq(Parts) /\ ToSet(first) = inside \ {"config"}
      BY <2>1, SetToSeqOfParts
    <3>2. <<"config">> \in Seq(Parts) /\ todo' = first \o <<"config">>
      BY <1>4, <2>1
    <3> HIDE DEF first
    <3>3. todo' \in Seq(Parts)
      BY <3>1, <3>2
    <3>4. ToSet(first) \subseteq ToSet(todo') /\ "config" \in ToSet(todo')
      <4>1. Len(first) \in Nat /\ Len(todo') = Len(first) + 1 /\ todo'[Len(first) + 1] = "config"
        BY <3>1, <3>2
      <4>2. DOMAIN first = 1 .. Len(first) /\ DOMAIN todo' = 1 .. Len(first) + 1
        BY <3>1, <3>3, <4>1
      <4>3. \A i \in 1 .. Len(first) : i \in 1 .. Len(first) + 1 /\ todo'[i] = first[i]
        BY <3>1, <3>2, <4>1
      <4>4. Len(first) + 1 \in 1 .. Len(first) + 1
        BY <4>1
      <4> QED
        BY SMTT(60), <4>1, <4>2, <4>3, <4>4 DEF ToSet
    <3> QED
      BY <3>1, <3>3, <3>4
  <2>3. Kinds'
    BY <1>1, <1>2, <1>4, <2>1, <2>2 DEF CopySound, Kinds, Copies
  <2>4. JournalSound' /\ MovingSound'
    BY <1>4 DEF JournalSound, MovingSound, Moving, Recovering
  <2>5. StagingSound'
    BY <1>1, <1>2, <1>4, <2>1, <2>2 DEF StagingSound, Unwritten, Half
  <2> QED
    BY <2>3, <2>4, <2>5 DEF CopySound
<1> QED
  BY <1>3, <1>4 DEF StageJournal

LEMMA StageCopyCopies == CopySound /\ StageCopy => CopySound'
<1> SUFFICES ASSUME CopySound, StageCopy PROVE CopySound'
  OBVIOUS
<1>1. UNCHANGED <<which, journal>> /\ pc = "copy" /\ todo # <<>>
  BY DEF StageCopy
<1>2. restore' = restore /\ inside' = inside /\ behind' = behind
  BY <1>1 DEF which
<1>3. CASE Goto("discard") /\ UNCHANGED staged
  BY <1>1, <1>3, EndsCopies DEF Goto, CopySound, Kinds
<1>4. CASE staged' = [staged EXCEPT ![Part] = <<Half(restore)>> \o @] /\ Goto("fill")
  <2>1. /\ todo \in Seq(Parts) /\ todo' = todo /\ pc' = "fill" /\ Part' = Part
        /\ journal # "committed" /\ "config" \in inside /\ \A p \in Parts : Unwritten(p)
        /\ \A p \in inside \ ToSet(todo) : Ready(p)
    BY <1>1, <1>4 DEF CopySound, Kinds, JournalSound, StagingSound, Asked, Goto, Part
  <2>2. Part \in Parts /\ Part \in ToSet(todo)
    BY <1>1, <2>1, TailFacts DEF Part
  <2>3. Half(restore) \in 0 .. MaxRestores + restore /\ staged[Part] \in Copies
    BY <2>2, BackupRestoreAssumption DEF CopySound, Kinds, Half
  <2>4. /\ <<Half(restore)>> \o staged[Part] \in Copies /\ <<Half(restore)>> \o staged[Part] # <<>>
        /\ Tail(<<Half(restore)>> \o staged[Part]) = staged[Part]
    BY <2>3, PrependFacts DEF Copies
  <2>5. /\ staged'[Part] = <<Half(restore)>> \o staged[Part]
        /\ \A p \in Parts \ {Part} : staged'[p] = staged[p]
    BY <1>4, <2>2 DEF CopySound, Kinds
  <2>6. Kinds'
    BY <1>2, <1>4, <2>1, <2>4 DEF CopySound, Kinds, Copies
  <2>7. JournalSound' /\ MovingSound'
    BY <1>1, <2>1 DEF JournalSound, MovingSound, Moving, Recovering
  <2>8. inside \subseteq Parts
    BY <2>1 DEF CopySound, Kinds, Parts, Files
  <2>9. StagingSound'
    BY <1>1, <1>2, <2>1, <2>2, <2>4, <2>5, <2>8 DEF StagingSound, Unwritten, Half, Ready, Copy
  <2> QED
    BY <2>6, <2>7, <2>9 DEF CopySound
<1> QED
  BY <1>3, <1>4 DEF StageCopy

\* A copy that is filled is the restore's.
LEMMA FillCopyCopies == CopySound /\ FillCopy => CopySound'
<1> SUFFICES ASSUME CopySound, FillCopy PROVE CopySound'
  OBVIOUS
<1>1. UNCHANGED <<which, journal>> /\ pc = "fill"
  BY DEF FillCopy
<1>2. restore' = restore /\ inside' = inside /\ behind' = behind
  BY <1>1 DEF which
<1>3. CASE Goto("discard") /\ UNCHANGED staged
  BY <1>1, <1>3, EndsCopies DEF Goto, CopySound, Kinds
<1>4. CASE staged' = [staged EXCEPT ![Part] = <<restore>> \o Tail(@)] /\ NextPart("copy")
  <2>1. /\ todo \in Seq(Parts) /\ todo' = Tail(todo) /\ pc' = "copy" /\ todo # <<>>
        /\ journal # "committed" /\ "config" \in inside
        /\ staged[Part] # <<>> /\ Half(restore) \notin ToSet(Tail(staged[Part]))
        /\ \A p \in Parts \ {Part} : Unwritten(p)
        /\ \A p \in inside \ ToSet(todo) : Ready(p)
    BY <1>1, <1>4 DEF CopySound, Kinds, JournalSound, StagingSound, Asked, NextPart
  <2>2. /\ Part \in Parts /\ Tail(todo) \in Seq(Parts)
        /\ ToSet(todo) = {Part} \cup ToSet(Tail(todo))
    BY <2>1, TailFacts DEF Part
  <2>3. /\ restore \in 0 .. MaxRestores + restore /\ restore # Half(restore)
        /\ Tail(staged[Part]) \in Copies
    <3>1. restore \in 0 .. MaxRestores /\ MaxRestores \in Nat
      BY BackupRestoreAssumption DEF CopySound, Kinds
    <3>2. restore < MaxRestores + restore
      <4>1. restore # 0
        BY <2>1 DEF CopySound, Kinds
      <4> QED
        BY <3>1, <4>1
    <3> QED
      BY <2>1, <2>2, <3>1, <3>2, CopyFacts DEF CopySound, Half
  <2>4. /\ <<restore>> \o Tail(staged[Part]) \in Copies /\ <<restore>> \o Tail(staged[Part]) # <<>>
        /\ Head(<<restore>> \o Tail(staged[Part])) = restore
        /\ Half(restore) \notin ToSet(<<restore>> \o Tail(staged[Part]))
    <3> DEFINE s == Tail(staged[Part])
               S == 0 .. MaxRestores + restore
    <3>1. s \in Seq(S) /\ restore \in S /\ restore # Half(restore) /\ Half(restore) \notin ToSet(s)
      BY <2>1, <2>3 DEF Copies
    <3> HIDE DEF s, S
    <3>2. /\ <<restore>> \o s \in Seq(S) /\ <<restore>> \o s # <<>> /\ Head(<<restore>> \o s) = restore
          /\ ToSet(<<restore>> \o s) = {restore} \cup ToSet(s)
      BY Zenon, <3>1, PrependFacts
    <3>3. Half(restore) \notin ToSet(<<restore>> \o s)
      BY Zenon, <3>1, <3>2
    <3> QED
      BY Zenon, <3>2, <3>3 DEF s, S, Copies
  <2>5. /\ staged'[Part] = <<restore>> \o Tail(staged[Part])
        /\ \A p \in Parts \ {Part} : staged'[p] = staged[p]
    BY <1>4, <2>2 DEF CopySound, Kinds
  <2>6. Kinds'
    BY <1>2, <1>4, <2>1, <2>2, <2>4 DEF CopySound, Kinds, Copies
  <2>7. JournalSound' /\ MovingSound'
    BY <1>1, <2>1 DEF JournalSound, MovingSound, Moving, Recovering
  <2>8. inside \subseteq Parts
    BY <2>1 DEF CopySound, Kinds, Parts, Files
  <2>9. StagingSound'
    BY <1>2, <2>1, <2>2, <2>4, <2>5, <2>8 DEF StagingSound, Unwritten, Half, Ready, Copy
  <2> QED
    BY <2>6, <2>7, <2>9 DEF CopySound
<1> QED
  BY <1>3, <1>4 DEF FillCopy

\* At the commit every part of the backup is whole, and what is not the
\* restore's is known to be left over.
LEMMA CommitJournalCopies == CopySound /\ CommitJournal => CopySound'
<1> SUFFICES ASSUME CopySound, CommitJournal PROVE CopySound'
  OBVIOUS
<1>1. UNCHANGED <<staged, restore, inside>> /\ pc = "copy" /\ todo = <<>>
  BY DEF CommitJournal, disk
<1>2. CASE Goto("discard") /\ UNCHANGED <<journal, behind>>
  BY <1>1, <1>2, EndsCopies DEF Goto, CopySound, Kinds, which
<1>3. CASE journal' = "committed" /\ Goto("config") /\ behind' = Leftover
  <2>1. /\ pc' = "config" /\ "config" \in inside /\ \A p \in Parts : Unwritten(p)
        /\ \A p \in inside \ ToSet(todo) : Ready(p)
    BY <1>1, <1>3 DEF CopySound, Kinds, StagingSound, Asked, Goto
  <2>2. ToSet(todo) = {}
    BY <1>1 DEF ToSet
  <2>3. Kinds'
    BY <1>1, <2>1 DEF CopySound, Kinds, Copies, Moving
  <2>4. JournalSound'
    BY <1>1, <1>3, <2>1 DEF JournalSound, Recovering, Leftover, Unwritten
  <2>5. StagingSound' /\ MovingSound'
    BY <1>1, <2>1, <2>2 DEF StagingSound, MovingSound, Moving, Ready, Copy
  <2> QED
    BY <2>3, <2>4, <2>5 DEF CopySound
<1> QED
  BY <1>2, <1>3 DEF CommitJournal

-----------------------------------------------------------------------------
(* The steps of the commit.                                                *)

LEMMA CommitConfigCopies == CopySound /\ CommitConfig => CopySound'
<1> SUFFICES ASSUME CopySound, CommitConfig PROVE CopySound'
  OBVIOUS
<1>1. /\ UNCHANGED <<which, journal>> /\ pc = "config" /\ pc' = "part"
      /\ todo' = SetToSeq(inside \ {"config"}) /\ staged' = [staged EXCEPT !["config"] = Tail(@)]
  BY DEF CommitConfig
<1>2. restore' = restore /\ inside' = inside /\ behind' = behind
  BY <1>1 DEF which
<1>3. "config" \in inside /\ inside \subseteq Parts /\ \A p \in inside : Ready(p)
  BY <1>1 DEF CopySound, Kinds, StagingSound, Asked, Parts, Files
<1>4. todo' \in Seq(Parts) /\ ToSet(todo') = inside \ {"config"} /\ IsInjective(todo')
  BY <1>1, <1>3, SetToSeqOfParts
<1>5. /\ Tail(staged["config"]) \in Copies
      /\ ToSet(Tail(staged["config"])) \subseteq ToSet(staged["config"])
  BY <1>3, CopyFacts DEF CopySound, Ready
<1>6. /\ staged' \in [Parts -> Copies]
      /\ \A p \in Parts : ToSet(staged'[p]) \subseteq ToSet(staged[p])
      /\ \A p \in Parts \ {"config"} : staged'[p] = staged[p]
  BY <1>1, <1>3, <1>5 DEF CopySound, Kinds
<1>7. Kinds'
  BY <1>1, <1>2, <1>3, <1>4, <1>6 DEF CopySound, Kinds, Copies
<1>8. JournalSound'
  BY <1>1, <1>2, <1>6 DEF CopySound, JournalSound, Asked, Recovering
<1>9. StagingSound'
  BY <1>1 DEF StagingSound, Asked, Recovering
<1>10. MovingSound'
  BY <1>1, <1>2, <1>3, <1>4, <1>6 DEF MovingSound, Ready, Copy
<1> QED
  BY <1>7, <1>8, <1>9, <1>10 DEF CopySound

LEMMA MoveFileCopies == CopySound /\ MoveFile => CopySound'
BY PartDoneCopies DEF MoveFile, NextPart, Moving

\* Copies that go are the part's newest.
LEMMA DroppedCopies ==
  ASSUME NEW own, DropCopies(Part, own)
  PROVE  staged' = [staged EXCEPT ![Part] = Tail(@)]
BY DEF DropCopies

LEMMA MoveFolderAsideCopies == IInv /\ CopySound /\ MoveFolderAside => CopySound'
<1> SUFFICES ASSUME IInv, CopySound, MoveFolderAside PROVE CopySound'
  OBVIOUS
<1>1. pc = "part" /\ todo # <<>> /\ Part \in Folders /\ UNCHANGED <<journal, which>>
  BY DEF MoveFolderAside
<1>2. CASE NextPart("part") /\ DropCopies(Part, Empty)
  BY <1>1, <1>2, DroppedCopies, PartDoneCopies DEF NextPart, Moving
<1>3. CASE /\ MoveAside(Part) /\ owed' = [owed EXCEPT ![Part] = Seen[Part]]
           /\ Goto("moved") /\ UNCHANGED staged
  <2>1. Part' = Part /\ UNCHANGED todo /\ pc' = "moved"
    BY <1>3 DEF Part, Goto
  <2>2. target[Part] \in aside'[Part]
    BY <1>1, <1>3, FoldersAreNoFiles DEF MoveAside, IInv, Shapes
  <2>3. owed'[Part] = IF target[Part] = Empty THEN Gone ELSE target[Part]
    BY <1>1, <1>3, FoldersAreNoFiles DEF Seen, IInv, Shapes
  <2> QED
    BY <1>1, <1>3, <2>1, <2>2, <2>3, PartStaysCopies DEF Moving
<1>4. CASE Goto("bare") /\ UNCHANGED staged
  BY <1>1, <1>4, PartStaysCopies DEF Goto, Moving
<1> QED
  BY <1>2, <1>3, <1>4 DEF MoveFolderAside, disk

LEMMA MoveFolderInCopies == CopySound /\ MoveFolderIn => CopySound'
<1> SUFFICES ASSUME CopySound, MoveFolderIn PROVE CopySound'
  OBVIOUS
<1>1. pc \in {"moved", "bare"} /\ UNCHANGED <<journal, which>> /\ todo # <<>>
  BY DEF MoveFolderIn, CopySound, MovingSound
<1>2. ASSUME NEW own, NextPart("part"), DropCopies(Part, own) PROVE CopySound'
  BY <1>1, <1>2, DroppedCopies, PartDoneCopies DEF NextPart, Moving
<1>3. CASE pc = "moved" /\ pc' = "putback" /\ UNCHANGED <<disk, todo, owed>>
  <2>1. owed[Part] # Gone => owed[Part] \in aside[Part]
    BY <1>3 DEF CopySound, MovingSound
  <2>2. Part' = Part
    BY <1>3 DEF Part
  <2> QED
    BY <1>1, <1>3, <2>1, <2>2, PartStaysCopies DEF Moving, disk
<1> QED
  BY <1>2, <1>3 DEF MoveFolderIn

LEMMA PutBackCopies == CopySound /\ PutBack => CopySound'
<1> SUFFICES ASSUME CopySound, PutBack PROVE CopySound'
  OBVIOUS
<1>1. pc = "putback" /\ NextPart("part") /\ UNCHANGED <<journal, which>> /\ todo # <<>>
  BY DEF PutBack, CopySound, MovingSound
<1>2. staged' \in {staged, [staged EXCEPT ![Part] = Tail(@)]}
  BY DEF PutBack, disk
<1> QED
  BY <1>1, <1>2, PartDoneCopies DEF NextPart, Moving

\* What an error leaves to do is nothing; the catalog's copy goes.
LEMMA CutShortCopies == CopySound /\ CutShort => CopySound'
<1> SUFFICES ASSUME CopySound, CutShort PROVE CopySound'
  OBVIOUS
<1>1. /\ pc = "part" /\ pc' = pc /\ todo' = <<>> /\ UNCHANGED <<journal, which>>
      /\ staged' = [p \in Parts |->
                      IF p \in Files \cap ToSet(todo) THEN Tail(staged[p]) ELSE staged[p]]
  BY DEF CutShort
<1>2. restore' = restore /\ inside' = inside /\ behind' = behind
  BY <1>1 DEF which
<1>3. ASSUME NEW p \in Parts
      PROVE  staged'[p] \in Copies /\ ToSet(staged'[p]) \subseteq ToSet(staged[p])
  <2>1. CASE p \in Files \cap ToSet(todo)
    <3>1. staged[p] # <<>>
      BY <1>1, <2>1 DEF CopySound, MovingSound, Moving, Ready
    <3> QED
      BY <1>1, <2>1, <3>1, CopyFacts DEF CopySound
  <2>2. CASE p \notin Files \cap ToSet(todo)
    BY <1>1, <2>2 DEF CopySound, Kinds
  <2> QED
    BY <2>1, <2>2
<1>4. staged' \in [Parts -> Copies]
  BY <1>1, <1>3
<1>5. <<>> \in Seq(Parts) /\ ToSet(<<>>) = {} /\ IsInjective(<<>>)
  BY DEF ToSet, IsInjective
<1>6. Kinds'
  BY <1>1, <1>2, <1>4, <1>5 DEF CopySound, Kinds, Copies, Asked, Recovering
<1>7. JournalSound'
  BY <1>1, <1>2, <1>3 DEF CopySound, JournalSound, Asked, Recovering
<1>8. StagingSound' /\ MovingSound'
  BY <1>1, <1>5 DEF StagingSound, MovingSound, Asked, Recovering
<1> QED
  BY <1>6, <1>7, <1>8 DEF CopySound

\* A commit ends, its config fails, or what was staged is discarded.
LEMMA CommitEndsCopies == CopySound /\ (EndCommit \/ ConfigFails \/ Discard) => CopySound'
<1> SUFFICES ASSUME CopySound, EndCommit \/ ConfigFails \/ Discard PROVE CopySound'
  OBVIOUS
<1>1. UNCHANGED which /\ pc' \in {"idle", "discard"} /\ journal' \in {journal, "none", "pending"}
  BY DEF EndCommit, ConfigFails, Discard, Discarded, Goto
<1>2. CASE UNCHANGED staged
  BY <1>1, <1>2, EndsCopies DEF CopySound, Kinds
<1>3. CASE Discard
  <2>1. PICK removed : staged' = [p \in Parts |-> IF p \in removed THEN Others(p) ELSE staged[p]]
    BY <1>3 DEF Discard
  <2>2. ASSUME NEW p \in Parts
        PROVE  staged'[p] \in Copies /\ ToSet(staged'[p]) \subseteq ToSet(staged[p])
    <3>1. staged'[p] = staged[p] \/ (staged[p] # <<>> /\ staged'[p] = Tail(staged[p]))
      BY <2>1 DEF Others
    <3> QED
      BY <3>1, CopyFacts DEF CopySound, Kinds
  <2>3. staged' \in [Parts -> Copies]
    BY <2>1, <2>2
  <2> QED
    BY <1>1, <2>2, <2>3, EndsCopies
<1> QED
  BY <1>2, <1>3 DEF EndCommit, ConfigFails, disk

\* A station that goes down, and one that starts.
LEMMA AroundCopies == CopySound /\ (Restart \/ PowerCut \/ Start) => CopySound'
<1> SUFFICES ASSUME CopySound, Restart \/ PowerCut \/ Start PROVE CopySound'
  OBVIOUS
<1>1. UNCHANGED <<which, staged, journal>>
  BY DEF Restart, PowerCut, Start, Down, disk
<1>2. restore' = restore /\ inside' = inside /\ behind' = behind
  BY <1>1 DEF which
<1>3. CASE Restart \/ PowerCut
  BY <1>1, <1>3, EndsCopies DEF Restart, PowerCut, Down, CopySound, Kinds
<1>4. CASE Start
  <2>1. pc' = "recover" /\ life' = "starting" /\ finishing' = (journal = "committed")
    BY <1>4 DEF Start, BeginRecovery
  <2>2. Kinds'
    BY <1>1, <1>2, <2>1 DEF CopySound, Kinds, Copies, Asked, Moving
  <2>3. JournalSound'
    BY <1>1, <1>2, <2>1 DEF CopySound, JournalSound, Asked
  <2>4. StagingSound' /\ MovingSound'
    BY <2>1 DEF StagingSound, MovingSound, Asked, Moving
  <2> QED
    BY <2>2, <2>3, <2>4 DEF CopySound
<1> QED
  BY <1>3, <1>4

\* Other writers touch no copy.
LEMMA OthersCopies ==
  ASSUME CopySound,
         UNCHANGED <<staged, aside, journal, life, pc, todo, finishing, which, owed>>
  PROVE  CopySound'
BY DEF which, CopySound, Kinds, JournalSound, StagingSound, MovingSound, Asked, Moving,
   Recovering, Copies, Ready, Unwritten, Half, Copy, Part

LEMMA NextCopies == IInv /\ CopySound /\ [Next]_vars => CopySound'
<1> SUFFICES ASSUME IInv, CopySound, [Next]_vars PROVE CopySound'
  OBVIOUS
<1>1. CASE Request \/ Restart \/ PowerCut \/ Start
  BY <1>1, RequestCopies, AroundCopies
<1>2. CASE Recovery
  BY <1>2, RecoverPartCopies, InstallCopies, CleanCopies, EndRecoveryCopies DEF Recovery
<1>3. CASE StageJournal \/ StageCopy \/ FillCopy \/ Discard
  BY <1>3, StageJournalCopies, StageCopyCopies, FillCopyCopies, CommitEndsCopies
<1>4. CASE Commit
  BY <1>4, CommitJournalCopies, CommitConfigCopies, CommitEndsCopies, MoveFileCopies,
     MoveFolderAsideCopies, MoveFolderInCopies, PutBackCopies, CutShortCopies DEF Commit
<1>5. ASSUME NEW p \in Parts, Write(p) \/ MakeFolder(p) PROVE CopySound'
  BY <1>5, OthersCopies DEF Write, MakeFolder, job
<1>6. CASE UNCHANGED vars
  BY <1>6, OthersCopies DEF vars, disk, job, ghosts
<1> QED
  BY <1>1, <1>2, <1>3, <1>4, <1>5, <1>6 DEF Next

-----------------------------------------------------------------------------
(* What moves in.                                                          *)

MovesIn(p) ==
  target'[p] \notin {target[p], Own, Edited, Empty, Gone}
    => target'[p] = restore \/ target'[p] \in aside[p] \/ p \in behind

\* The newest copy of a part that is ready is the restore's.
LEMMA ReadyMovesIn ==
  ASSUME IInv, NEW q \in Parts, Ready(q), Place(q, Copy(q)), NEW p \in Parts
  PROVE  MovesIn(p)
BY DEF IInv, Shapes, Place, Ready, MovesIn

\* A recovery that finishes a restore installs its copy, and else what is
\* aside.
LEMMA InstallMovesIn ==
  ASSUME IInv, CopySound, Install, NEW p \in Parts
  PROVE  MovesIn(p)
<1>1. CASE UNCHANGED target
  BY <1>1 DEF MovesIn
<1>2. CASE ~UNCHANGED target
  <2>1. PICK content \in Sources(Part) : target' = [target EXCEPT ![Part] = content]
    BY <1>2 DEF Install, PartFaults, disk, Place
  <2>2. CASE p # Part
    BY <2>1, <2>2 DEF IInv, Shapes, MovesIn
  <2>3. CASE p = Part
    <3>1. target'[p] = content
      BY <2>1, <2>3 DEF IInv, Shapes
    <3>2. CASE HasCopy(p)
      <4>1. content = Copy(p)
        BY <2>1, <2>3, <3>2 DEF Sources
      <4>2. journal = "committed" /\ staged[p] # <<>>
        BY <3>2 DEF HasCopy, Install, CopySound, JournalSound, Recovering
      <4>3. p \in behind \/ Copy(p) = restore
        BY <4>2, CopyFacts DEF CopySound, JournalSound
      <4> QED
        BY <3>1, <4>1, <4>3 DEF MovesIn
    <3>3. CASE ~HasCopy(p)
      BY <2>1, <2>3, <3>1, <3>3 DEF Sources, Moved, MovesIn
    <3> QED
      BY <3>2, <3>3
  <2> QED
    BY <2>2, <2>3
<1> QED
  BY <1>1, <1>2

\* A commit takes the newest copy of each part, and puts back what it moved
\* aside.
LEMMA CommitMovesIn ==
  ASSUME IInv, CopySound, Commit, NEW p \in Parts
  PROVE  MovesIn(p)
<1> USE DEF IInv, Shapes
<1>1. CASE UNCHANGED target
  BY <1>1 DEF MovesIn
<1>2. CASE CommitConfig
  <2>1. "config" \in Parts /\ Ready("config") /\ Place("config", Copy("config"))
    BY <1>2 DEF CommitConfig, CopySound, Kinds, StagingSound, Asked, Parts, Files
  <2> QED
    BY <2>1, ReadyMovesIn
<1>3. ASSUME Moving, todo # <<>>, Place(Part, Copy(Part)) PROVE MovesIn(p)
  <2>1. Part \in Parts /\ Ready(Part)
    BY <1>3, TailFacts DEF Part, CopySound, Kinds, MovingSound
  <2> QED
    BY <1>3, <2>1, ReadyMovesIn
<1>4. ASSUME NEW q, MoveAside(q) PROVE MovesIn(p)
  BY <1>4 DEF MoveAside, Place, MovesIn
<1>5. ASSUME pc = "putback", Place(Part, Aside) PROVE MovesIn(p)
  <2>1. Aside = Empty \/ Aside \in aside[Part]
    BY <1>5 DEF Aside, CopySound, MovingSound
  <2> QED
    BY <1>5, <2>1 DEF Place, MovesIn
<1>6. pc \in {"moved", "bare", "putback"} => todo # <<>>
  BY DEF CopySound, MovingSound
<1> QED
  BY <1>1, <1>2, <1>3, <1>4, <1>5, <1>6 DEF Commit, CommitJournal, ConfigFails, MoveFile,
     MoveFolderAside, MoveFolderIn, PutBack, CutShort, EndCommit, disk, Moving

\* What stands in a place is gone, made anew, or moved in.
LEMMA AllMovesIn == IInv /\ CopySound /\ [Next]_vars => \A p \in Parts : MovesIn(p)
<1> SUFFICES ASSUME IInv, CopySound, [Next]_vars, NEW p \in Parts PROVE MovesIn(p)
  OBVIOUS
<1>1. CASE UNCHANGED target
  BY <1>1 DEF MovesIn
<1>2. CASE RecoverPart
  BY <1>2 DEF RecoverPart, PartFaults, disk, Place, IInv, Shapes, MovesIn
<1>3. ASSUME NEW q \in Parts, Write(q) \/ MakeFolder(q) PROVE MovesIn(p)
  BY <1>3 DEF Write, MakeFolder, Place, IInv, Shapes, MovesIn
<1> QED
  BY <1>1, <1>2, <1>3, InstallMovesIn, CommitMovesIn
    DEF Next, Recovery, Request, Clean, EndRecovery, StageJournal, StageCopy, FillCopy,
        Discard, Restart, PowerCut, Start, Down, disk, vars

\* commit and recover_interrupted_restore: whatever fails, however often the
\* power goes and whoever writes beside it, only the whole copies of the
\* restore at hand move in, and the station's own folders back, but where an
\* earlier restore's copy lay when it was committed; and until the restart
\* nobody else changes what it put in place.
THEOREM OnlyTheRestoreMovesIn == Spec => OnlyTheRestore
<1>1. Init => IInv /\ CopySound /\ HoldSound
  BY InitSound, InitCopies DEF Init, HoldSound
<1>2. IInv /\ CopySound /\ HoldSound /\ [Next]_vars => (IInv /\ CopySound /\ HoldSound)'
  BY NextKeeps, NextCopies, HoldKeeps
<1>3. IInv /\ CopySound /\ HoldSound /\ [Next]_vars =>
        /\ \A p \in Parts : target'[p] \notin {target[p], Own, Edited, Empty, Gone}
             => target'[p] = restore \/ target'[p] \in aside[p] \/ p \in behind
        /\ held /\ ~Gated => UNCHANGED Seen
  BY AllMovesIn, HoldHolds DEF MovesIn
<1> QED
  BY <1>1, <1>2, <1>3, PTL DEF Spec, OnlyTheRestore, OnlyItsOwnCopies, HeldUntilRestart

-----------------------------------------------------------------------------
(* Whole or not at all.  While no more than one rename or write has failed *)
(* a part has at most one copy, and beside a committed journal it is the   *)
(* restore's; what is aside of a part that has none, in a place that is    *)
(* empty, is empty too; and what a start would make of the disk, finishing *)
(* what is committed, is always one of the outcomes.  The failure itself   *)
(* may leave copies without a journal (the folders of a commit cut short)  *)
(* or a journal without a restore; they last until a recovery that meets   *)
(* no failure, as there is no second one.                                  *)

Counts == faults \in Nat /\ stuck \in Nat
Failed == faults # 0

\* A journal says what is under way, and before anything has failed a
\* station that is up has none but a restore's.
Times ==
  /\ pc = "stage" => life = "up" /\ journal = "none"
  /\ pc \in {"copy", "fill"} => journal = "pending"
  /\ pc = "discard" => journal # "committed"
  /\ pc = "config" \/ Moving => journal = "committed"
  /\ Recovering => life \in {"starting", "up"} /\ (finishing <=> journal = "committed")
  /\ life = "up" /\ (pc = "idle" \/ Recovering) /\ ~Failed => journal = "none"
  /\ life = "up" /\ Recovering /\ faulty => journal = "none"
  /\ (Recovering /\ faulty) \/ pc = "putback" => Failed

Lists ==
  /\ Recovering => todo \in Seq(Parts)
  /\ pc \in {"install", "clean"} => todo # <<>>
  /\ pc \in {"copy", "fill"} => IsInjective(todo) /\ ToSet(todo) \subseteq inside

\* The config is never the restore's before its commit, which may give up.
ConfigSound ==
  /\ target["config"] \in {Own, Edited} \cup 1 .. restore
  /\ Asked => target["config"] # restore
  /\ pc = "config" => Seen \in outcomes

\* A part has one copy; the restore's, once it is being staged or committed.
Single(p) ==
  staged[p] # <<>> =>
    /\ restore # 0 /\ Tail(staged[p]) = <<>>
    /\ journal = "committed" => Copy(p) = restore
    /\ pc \in {"copy", "fill", "discard"} => Copy(p) \in {restore, Half(restore)}

\* It has one when the step under way says so.
Timely(p) ==
  /\ journal = "none" /\ staged[p] # <<>> => Failed /\ p \in Folders
  /\ pc = "stage" => staged[p] = <<>>
  /\ pc \in {"copy", "fill", "config"} /\ staged[p] # <<>> => p \in inside
  /\ pc \in {"copy", "fill"} /\ p \in ToSet(todo) /\ staged[p] # <<>> => pc = "fill" /\ p = Part
  /\ Moving /\ staged[p] # <<>> => p \in ToSet(todo) \/ (Failed /\ p \in Folders)
  /\ Recovering /\ (staged[p] # <<>> \/ Moved(p) # {}) =>
       p \in ToSet(todo) \/ (faulty /\ life = "starting")
  /\ pc = "clean" /\ finishing /\ p = Part => staged[p] = <<>>

\* Nothing of the station's is aside.
AtHome(p) == Moved(p) = {} /\ (p \in Folders => owed[p] = Gone)

MovedInTime(p) ==
  /\ journal # "committed" => AtHome(p)
  /\ Moved(p) = {} \/ staged[p] # <<>> \/ target[p] # Gone
  /\ pc = "config" \/ Moving =>
       IF pc \in {"moved", "putback"} /\ p = Part
       THEN p \in Folders /\ Moved(p) \subseteq {Aside} /\ Seen[p] = Gone
       ELSE AtHome(p)

Sound(p) == Single(p) /\ Timely(p) /\ MovedInTime(p)

\* What a start without a fault makes of the disk.
Recovered ==
  [p \in Parts |-> IF journal = "committed" /\ staged[p] # <<>> THEN restore ELSE Seen[p]]

Whole ==
  /\ Times /\ Lists /\ ConfigSound
  /\ \A p \in Parts : Sound(p)
  /\ Recovered \in outcomes

\* A step of a station on which at most one thing has failed, it included.
MildStep ==
  /\ IInv /\ CopySound /\ HoldSound /\ Counts /\ Whole
  /\ OneFailure /\ OneFailure' /\ (Failed => Failed')

LEMMA FirstFault ==
  MildStep => ~Stuck /\ faults' # faults + 2 /\ (Fault => ~Failed /\ Failed')
BY DEF MildStep, Counts, OneFailure, Failed, Fault, Stuck

LEMMA CountsKeep ==
  Counts /\ [Next]_vars => Counts' /\ (OneFailure' => OneFailure) /\ (Failed => Failed')
<1> SUFFICES ASSUME Counts, [Next]_vars
             PROVE  Counts' /\ (OneFailure' => OneFailure) /\ (Failed => Failed')
  OBVIOUS
<1>1. faults' \in {faults, faults + 1, faults + 2} /\ stuck' \in {stuck, stuck + 1}
  <2>1. CASE Request \/ Restart \/ PowerCut \/ Start
    BY <2>1 DEF Request, Restart, PowerCut, Start, Down, BeginRecovery, Fault
  <2>2. CASE Recovery
    BY <2>2 DEF Recovery, RecoverPart, Install, Clean, EndRecovery, PartFaults, Fault, Stuck
  <2>3. CASE StageJournal \/ StageCopy \/ FillCopy \/ Discard
    BY <2>3 DEF StageJournal, StageCopy, FillCopy, Discard, Fault, Stuck
  <2>4. CASE Commit
    BY <2>4 DEF Commit, CommitJournal, CommitConfig, ConfigFails, MoveFile, MoveFolderAside,
       MoveFolderIn, PutBack, CutShort, EndCommit, DropCopies, bounds, Fault, Stuck
  <2>5. ASSUME NEW p \in Parts, Write(p) \/ MakeFolder(p)
        PROVE  UNCHANGED <<faults, stuck>>
    BY <2>5 DEF Write, MakeFolder, bounds
  <2>6. CASE UNCHANGED vars
    BY <2>6 DEF vars, bounds
  <2> QED
    BY <2>1, <2>2, <2>3, <2>4, <2>5, <2>6 DEF Next
<1> QED
  BY <1>1 DEF Counts, OneFailure, Failed

LEMMA InitWhole == Init => Counts /\ Whole
<1> SUFFICES ASSUME Init PROVE Counts /\ Whole
  OBVIOUS
<1>1. \A p \in Parts : staged[p] = <<>> /\ Moved(p) = {} /\ (p \in Folders => owed[p] = Gone)
  BY DEF Init, Moved
<1>2. Recovered = target
  <2>1. target \in [Parts -> {Own, Gone}] /\ journal = "none"
    BY DEF Init
  <2>2. Empty # Gone /\ Empty # Own
    BY BackupRestoreAssumption DEF Contents
  <2>3. Seen = target
    BY <2>1, <2>2 DEF Seen
  <2> QED
    BY <2>1, <2>3 DEF Recovered
<1>3. Times /\ Lists
  BY DEF Init, Times, Lists, Recovering, Moving
<1>4. ConfigSound
  BY DEF Init, ConfigSound, Asked, Recovering
<1>5. \A p \in Parts : Sound(p)
  BY <1>1 DEF Init, Sound, Single, Timely, MovedInTime, AtHome, Recovering, Moving
<1> QED
  BY <1>2, <1>3, <1>4, <1>5 DEF Init, Counts, Whole

\* The config of a step that leaves it, and of one that asks for no restore.
LEMMA ConfigStays ==
  ASSUME MildStep, UNCHANGED restore, target'["config"] = target["config"],
         Asked' => Asked, pc' # "config"
  PROVE  ConfigSound'
BY DEF MildStep, Whole, ConfigSound

-----------------------------------------------------------------------------
(* Around the restore.                                                     *)

LEMMA RecoveryStepsFacts ==
  ASSUME NEW known \in BOOLEAN
  PROVE  /\ RecoverySteps(known) \in Seq(Parts)
         /\ known => ToSet(RecoverySteps(known)) = Parts
         /\ Folders \subseteq ToSet(RecoverySteps(known))
<1> DEFINE files == <<"config">> \o (IF known THEN <<"catalog">> ELSE <<>>)
           rest == SetToSeq(Folders)
<1>1. rest \in Seq(Parts) /\ ToSet(rest) = Folders
  BY SetToSeqOfParts, FoldersAreNoFiles
<1>2. "config" \in Parts /\ "catalog" \in Parts
  BY DEF Parts, Files
<1> HIDE DEF rest
<1>3. CASE known
  <2> DEFINE more == <<"catalog">> \o rest
  <2>1. more \in Seq(Parts) /\ ToSet(more) = {"catalog"} \cup Folders
    BY <1>1, <1>2, PrependFacts
  <2>2. RecoverySteps(known) = <<"config">> \o more
    BY <1>1, <1>2, <1>3 DEF RecoverySteps, rest
  <2> HIDE DEF more
  <2>3. /\ <<"config">> \o more \in Seq(Parts)
        /\ ToSet(<<"config">> \o more) = {"config"} \cup ToSet(more)
    BY <1>2, <2>1, PrependFacts
  <2> QED
    BY <2>1, <2>2, <2>3 DEF Parts, Files
<1>4. CASE ~known
  <2>1. <<"config">> \o <<>> = <<"config">>
    OBVIOUS
  <2>2. RecoverySteps(known) = <<"config">> \o rest
    BY <1>4, <2>1 DEF RecoverySteps, rest
  <2> QED
    BY <1>1, <1>2, <1>4, <2>2, PrependFacts
<1> QED
  BY <1>3, <1>4

\* A recovery begins: what has a copy without a journal is a folder's, and
\* every recovery comes by the folders.
LEMMA BeginWhole == MildStep /\ (Request \/ Start) => Whole'
<1> SUFFICES ASSUME MildStep, Request \/ Start PROVE Whole'
  OBVIOUS
<1> USE DEF MildStep
<1>1. /\ BeginRecovery /\ UNCHANGED <<target, staged, aside, journal, outcomes, owed>>
      /\ pc' = "recover" /\ finishing' = (journal = "committed")
  BY DEF Request, Start, BeginRecovery, disk, ghosts
<1>2. life' = "up" =>
        /\ life = "up" /\ pc = "idle" /\ journal # "committed"
        /\ restore' = restore + 1 /\ restore' <= MaxRestores
  <2>1. Request => life' = life /\ restore' <= MaxRestores
    <3>1. Request => restore < MaxRestores /\ restore' = restore + 1
      BY DEF Request
    <3>2. restore \in Nat /\ MaxRestores \in Nat
      BY BackupRestoreAssumption DEF CopySound, Kinds
    <3> QED
      BY <3>1, <3>2 DEF Request
  <2>2. Start => life' = "starting"
    BY DEF Start
  <2> QED
    BY <2>1, <2>2 DEF Request
<1>3. life' # "up" => life' = "starting" /\ UNCHANGED restore
  BY DEF Request, Start, which
<1>4. ~Failed /\ life' = "up" => journal = "none"
  BY <1>2 DEF Whole, Times
<1>5. \/ todo' = RecoverySteps(journal # "none") /\ ~faulty'
      \/ /\ todo' = RecoverySteps(FALSE) /\ faulty' /\ ~Failed /\ Failed'
         /\ life' = "starting"
  BY <1>1, <1>3, <1>4, FirstFault DEF BeginRecovery
<1>6. /\ todo' \in Seq(Parts) /\ Folders \subseteq ToSet(todo')
      /\ journal # "none" => ToSet(todo') = Parts \/ (faulty' /\ life' = "starting")
  BY <1>5, RecoveryStepsFacts
<1>7. Times'
  BY <1>1, <1>3, <1>4, <1>5 DEF Times, Recovering, Moving
<1>8. Lists'
  BY <1>1, <1>6 DEF Lists, Recovering
<1>9. restore \in Nat /\ (restore # 0 => restore' # 0)
  BY <1>2, <1>3 DEF CopySound, Kinds
<1>10. ConfigSound'
  <2>1. target["config"] \in {Own, Edited} \cup 1 .. restore /\ pc' # "config"
    BY <1>1 DEF Whole, ConfigSound
  <2>2. CASE life' = "up"
    <3>1. restore' \in 1 .. 2 * MaxRestores /\ restore' \notin 1 .. restore
          /\ 1 .. restore \subseteq 1 .. restore'
      BY <1>2, <1>9, <2>2, BackupRestoreAssumption
    <3>2. restore' \notin {Own, Edited}
      BY <3>1, BackupRestoreAssumption
    <3> QED
      BY <1>1, <2>1, <3>1, <3>2 DEF ConfigSound
  <2>3. CASE life' # "up"
    <3>1. UNCHANGED restore /\ ~Asked'
      BY <1>1, <1>3, <2>3 DEF Asked
    <3> QED
      BY <1>1, <2>1, <3>1 DEF ConfigSound
  <2> QED
    BY <2>2, <2>3
<1>11. ASSUME NEW p \in Parts PROVE Sound(p)'
  <2>1. Single(p) /\ Timely(p) /\ MovedInTime(p)
    BY DEF Whole, Sound
  <2>2. journal = "committed" => UNCHANGED restore
    BY <1>2, <1>3
  <2>3. Single(p)'
    BY <1>1, <1>9, <2>1, <2>2 DEF Single, Copy
  <2>4. staged[p] # <<>> \/ Moved(p) # {} => p \in ToSet(todo') \/ (faulty' /\ life' = "starting")
    BY <1>6, <2>1 DEF Timely, MovedInTime, AtHome
  <2>5. Timely(p)'
    BY <1>1, <2>1, <2>4 DEF Timely, Moving, Moved
  <2>6. MovedInTime(p)'
    BY <1>1, <2>1 DEF MovedInTime, AtHome, Moved, Moving
  <2> QED
    BY <2>3, <2>5, <2>6 DEF Sound
<1>12. Recovered' = Recovered
  <2>1. journal = "committed" => UNCHANGED restore
    BY <1>2, <1>3
  <2> QED
    BY <1>1, <2>1 DEF Recovered, Seen
<1> QED
  BY <1>1, <1>7, <1>8, <1>10, <1>11, <1>12 DEF Whole

\* The station goes down.
LEMMA DownWhole == MildStep /\ (Restart \/ PowerCut) => Whole'
<1> SUFFICES ASSUME MildStep, Restart \/ PowerCut PROVE Whole'
  OBVIOUS
<1>1. /\ UNCHANGED <<target, staged, aside, journal, outcomes, owed, restore>>
      /\ life' = "off" /\ pc' = "idle" /\ faulty' = FALSE
  BY DEF Restart, PowerCut, Down, disk, which, ghosts
<1>2. Times' /\ Lists'
  BY <1>1 DEF Times, Lists, Recovering, Moving
<1>3. ConfigSound'
  BY <1>1, ConfigStays DEF Asked, Recovering
<1>4. ASSUME NEW p \in Parts PROVE Sound(p)'
  BY <1>1 DEF MildStep, Whole, Sound, Single, Timely, MovedInTime, AtHome, Moved, Copy,
     Recovering, Moving
<1>5. Recovered' = Recovered
  BY <1>1 DEF Recovered, Seen
<1> QED
  BY <1>1, <1>2, <1>3, <1>4, <1>5 DEF MildStep, Whole

\* A restore that is asked for has a number, and a content of its own.
LEMMA RestoreIsContent ==
  Kinds /\ restore # 0 => restore \in 1 .. restore /\ restore \notin {Gone, Empty, Own, Edited}
<1> SUFFICES ASSUME Kinds, restore # 0
             PROVE  restore \in 1 .. restore /\ restore \notin {Gone, Empty, Own, Edited}
  OBVIOUS
<1>1. restore \in 1 .. MaxRestores /\ restore \in 1 .. 2 * MaxRestores /\ restore \in 1 .. restore
  BY BackupRestoreAssumption DEF Kinds
<1> QED
  BY <1>1, BackupRestoreAssumption DEF Contents

LEMMA AskedIsContent ==
  MildStep /\ Asked => restore # 0 /\ restore \notin {Gone, Empty, Own, Edited}
<1> SUFFICES ASSUME MildStep, Asked PROVE restore # 0 /\ restore \notin {Gone, Empty, Own, Edited}
  OBVIOUS
<1>1. Kinds /\ restore # 0
  BY DEF MildStep, CopySound, Kinds
<1> QED
  BY <1>1, RestoreIsContent

\* Another writer: what it writes is there after a start, or is replaced by
\* a restore that start finishes.
LEMMA WriteWhole == ASSUME MildStep, NEW q \in Parts, Write(q) PROVE Whole'
<1>1. /\ UNCHANGED <<staged, aside, journal, life, pc, todo, finishing, faulty, restore, inside,
                      owed>>
      /\ target' = [target EXCEPT ![q] = Edited]
      /\ outcomes' = {[f EXCEPT ![q] = Edited] : f \in outcomes}
           \cup (IF journal = "committed" /\ staged[q] # <<>> THEN outcomes ELSE {})
      /\ pc # "config" /\ ~Moving
  BY DEF Write, job, which, Place, MayWrite, Gated, Moving
<1>2. DOMAIN target = Parts /\ "config" \in Parts /\ Edited # Gone /\ Edited # Empty
  BY BackupRestoreAssumption DEF MildStep, IInv, Shapes, Contents, Parts, Files
<1>3. Times'
  BY <1>1 DEF MildStep, Whole, Times, Recovering, Moving
<1>4. Lists'
  BY <1>1 DEF MildStep, Whole, Lists, Recovering
<1>5. ConfigSound'
  <2>1. target'["config"] \in {target["config"], Edited} /\ (Asked' => Asked)
    BY <1>1, <1>2 DEF Asked, Recovering
  <2> QED
    BY <1>1, <2>1, AskedIsContent DEF MildStep, Whole, ConfigSound
<1>6. ASSUME NEW p \in Parts PROVE Sound(p)'
  <2>1. target'[p] # Gone \/ target'[p] = target[p]
    BY <1>1, <1>2
  <2>2. Part' = Part /\ ~Moving' /\ pc' # "config"
    BY <1>1 DEF Part, Moving
  <2>3. Single(p)' /\ Timely(p)'
    BY <1>1, <2>2 DEF MildStep, Whole, Sound, Single, Timely, Moved, Copy, Half, Recovering
  <2>4. MovedInTime(p)'
    BY <1>1, <2>1, <2>2 DEF MildStep, Whole, Sound, MovedInTime, AtHome, Moved
  <2> QED
    BY <2>3, <2>4 DEF Sound
<1>7. CASE journal = "committed" /\ staged[q] # <<>>
  <2>1. Recovered' = Recovered
    BY <1>1, <1>2, <1>7 DEF Recovered, Seen
  <2> QED
    BY <1>1, <1>3, <1>4, <1>5, <1>6, <1>7, <2>1 DEF MildStep, Whole
<1>8. CASE ~(journal = "committed" /\ staged[q] # <<>>)
  <2>1. Recovered' = [Recovered EXCEPT ![q] = Edited]
    BY <1>1, <1>2, <1>8 DEF Recovered, Seen
  <2> QED
    BY <1>1, <1>3, <1>4, <1>5, <1>6, <2>1 DEF MildStep, Whole
<1> QED
  BY <1>7, <1>8

\* Nobody reads a folder that has nothing in it.
LEMMA MakeFolderWhole == ASSUME MildStep, NEW q \in Parts, MakeFolder(q) PROVE Whole'
<1>1. /\ UNCHANGED <<staged, aside, journal, life, pc, todo, finishing, faulty, restore, inside,
                      owed, outcomes>>
      /\ target[q] = Gone /\ target' = [target EXCEPT ![q] = Empty] /\ q \in Folders
  BY BackupRestoreAssumption DEF MakeFolder, job, which, Place
<1>2. DOMAIN target = Parts /\ Empty # Gone
  BY BackupRestoreAssumption DEF MildStep, IInv, Shapes
<1>3. Seen' = Seen /\ target'["config"] = target["config"]
  BY <1>1, <1>2, FoldersAreNoFiles DEF Seen
<1>4. Times'
  BY <1>1 DEF MildStep, Whole, Times, Recovering, Moving
<1>5. Lists'
  BY <1>1 DEF MildStep, Whole, Lists, Recovering
<1>6. ConfigSound'
  BY <1>1, <1>3 DEF MildStep, Whole, ConfigSound, Asked, Recovering
<1>7. ASSUME NEW p \in Parts PROVE Sound(p)'
  <2>1. target'[p] # Gone \/ target'[p] = target[p]
    BY <1>1, <1>2
  <2>2. Part' = Part /\ Aside' = Aside
    BY <1>1 DEF Part, Aside
  <2>3. Single(p)' /\ Timely(p)'
    BY <1>1, <2>2 DEF MildStep, Whole, Sound, Single, Timely, Moved, Copy, Half, Recovering, Moving
  <2>4. MovedInTime(p)'
    BY <1>1, <1>3, <2>1, <2>2 DEF MildStep, Whole, Sound, MovedInTime, AtHome, Moved, Moving
  <2> QED
    BY <2>3, <2>4 DEF Sound
<1>8. Recovered' = Recovered
  BY <1>1, <1>3 DEF Recovered
<1> QED
  BY <1>1, <1>4, <1>5, <1>6, <1>7, <1>8 DEF MildStep, Whole

-----------------------------------------------------------------------------
(* The recovery of a start or of a request.                                *)

\* The steps of the recovery have each a part of their own.
LEMMA RecoveryPart ==
  ASSUME MildStep, Recovering, todo # <<>>
  PROVE  /\ Part \in Parts /\ Part \in ToSet(todo) /\ Tail(todo) \in Seq(Parts)
         /\ ToSet(todo) = {Part} \cup ToSet(Tail(todo))
         /\ DOMAIN target = Parts /\ DOMAIN staged = Parts /\ DOMAIN aside = Parts
         /\ life \in {"starting", "up"}
<1>1. todo \in Seq(Parts)
  BY DEF MildStep, Whole, Lists
<1>2. DOMAIN target = Parts /\ DOMAIN aside = Parts /\ DOMAIN staged = Parts
  BY DEF MildStep, IInv, Shapes, CopySound, Kinds
<1>3. life \in {"starting", "up"}
  BY DEF MildStep, Whole, Times
<1> QED
  BY <1>1, <1>2, <1>3, TailFacts DEF Part

\* What a part is put right from is the copy of a committed restore.
LEMMA SourcesWhole ==
  ASSUME MildStep, Recovering, NEW p \in Parts, Sources(p) # {}
  PROVE  /\ journal = "committed" /\ staged[p] # <<>> /\ Tail(staged[p]) = <<>> /\ restore # 0
         /\ HasCopy(p) /\ Sources(p) = {restore} /\ ~Asked
<1>1. Sound(p) /\ (finishing <=> journal = "committed")
  BY DEF MildStep, Whole, Times
<1>2. HasCopy(p)
  BY <1>1 DEF Sources, HasCopy, Sound, MovedInTime, AtHome
<1>3. ~Asked
  BY <1>1, <1>2 DEF HasCopy, MildStep, CopySound, JournalSound, Recovering
<1> QED
  BY <1>1, <1>2, <1>3 DEF Sources, HasCopy, Sound, Single

\* A part that fails is left to the next start; before a restore, where no
\* start follows, the first failure finds nothing left over.
LEMMA PartFaultsWhole ==
  ASSUME MildStep, Recovering, todo # <<>>, PartFaults, UNCHANGED owed,
         UNCHANGED <<journal, life, restore, inside, outcomes>>
  PROVE  Whole'
<1>1. /\ UNCHANGED <<target, staged, aside, finishing>>
      /\ faulty' /\ pc' = "recover" /\ todo' = Tail(todo) /\ ~Failed /\ Failed'
  BY FirstFault DEF PartFaults, NextPart, disk
<1>2. life = "up" => journal = "none"
  BY <1>1 DEF MildStep, Whole, Times
<1>3. Times'
  BY <1>1, <1>2 DEF MildStep, Whole, Times, Recovering, Moving
<1>4. Lists'
  BY <1>1, RecoveryPart DEF Lists
<1>5. ConfigSound'
  BY <1>1, ConfigStays DEF Asked, Recovering
<1>6. ASSUME NEW p \in Parts PROVE Sound(p)'
  <2>1. Single(p) /\ Timely(p) /\ MovedInTime(p)
    BY DEF MildStep, Whole, Sound
  <2>2. staged[p] # <<>> \/ Moved(p) # {} => life # "up"
    BY <1>1, <1>2, <2>1 DEF Timely, MovedInTime, AtHome
  <2>3. staged[p] # <<>> \/ Moved(p) # {} =>
          p \in ToSet(todo') \/ (faulty' /\ life' = "starting")
    BY <1>1, <2>1, <2>2, RecoveryPart DEF Timely
  <2>4. Single(p)' /\ Timely(p)'
    BY <1>1, <2>1, <2>3 DEF Single, Timely, Copy, Moved, Moving
  <2>5. MovedInTime(p)'
    BY <1>1, <2>1 DEF MovedInTime, AtHome, Moved, Moving
  <2> QED
    BY <2>4, <2>5 DEF Sound
<1>7. Recovered' = Recovered
  BY <1>1 DEF Recovered, Seen
<1> QED
  BY <1>3, <1>4, <1>5, <1>6, <1>7 DEF MildStep, Whole

LEMMA RecoverPartWhole == MildStep /\ RecoverPart => Whole'
<1> SUFFICES ASSUME MildStep, RecoverPart PROVE Whole'
  OBVIOUS
<1>1. /\ pc = "recover" /\ todo # <<>> /\ Recovering
      /\ UNCHANGED <<journal, life, restore, inside, outcomes, owed>>
  BY DEF RecoverPart, which, ghosts, Recovering
<1>2. Part \in Parts /\ DOMAIN target = Parts /\ DOMAIN aside = Parts
  BY <1>1, RecoveryPart
<1>3. CASE PartFaults
  BY <1>1, <1>3, PartFaultsWhole
<1>4. ASSUME pc' \in {"install", "clean"}, UNCHANGED <<todo, finishing, faulty, staged>>
      PROVE  /\ Times' /\ Lists' /\ Part' = Part
             /\ Recovering' /\ ~Moving' /\ pc' # "config" /\ (Asked' => Asked)
  BY <1>1, <1>4 DEF MildStep, Whole, Times, Lists, Recovering, Moving, Part, Asked
<1>5. CASE Goto("clean") /\ Sources(Part) = {} /\ UNCHANGED disk
  <2>1. /\ pc' = "clean" /\ UNCHANGED <<todo, finishing, faulty, target, staged, aside>>
        /\ finishing => staged[Part] = <<>>
    BY <1>5 DEF Goto, disk, Sources, HasCopy
  <2>2. ASSUME NEW p \in Parts PROVE Sound(p)'
    BY <1>1, <1>4, <2>1 DEF MildStep, Whole, Sound, Single, Timely, MovedInTime,
       AtHome, Moved, Copy, Half
  <2>3. Recovered' = Recovered
    BY <1>1, <2>1 DEF Recovered, Seen
  <2> QED
    BY <1>1, <1>4, <2>1, <2>2, <2>3, ConfigStays DEF MildStep, Whole
<1>6. CASE Goto("install") /\ UNCHANGED disk
  <2>1. pc' = "install" /\ UNCHANGED <<todo, finishing, faulty, target, staged, aside>>
    BY <1>6 DEF Goto, disk
  <2>2. ASSUME NEW p \in Parts PROVE Sound(p)'
    BY <1>1, <1>4, <2>1 DEF MildStep, Whole, Sound, Single, Timely, MovedInTime,
       AtHome, Moved, Copy, Half
  <2>3. Recovered' = Recovered
    BY <1>1, <2>1 DEF Recovered, Seen
  <2> QED
    BY <1>1, <1>4, <2>1, <2>2, <2>3, ConfigStays DEF MildStep, Whole
<1>7. CASE /\ Sources(Part) # {} /\ Part \in Folders /\ UNCHANGED staged
           /\ aside' = [aside EXCEPT ![Part] = @ \cup {target[Part]}]
           /\ Place(Part, Gone) /\ Goto("install")
  <2>1. journal = "committed" /\ staged[Part] # <<>>
    BY <1>1, <1>2, <1>7, SourcesWhole
  <2>2. /\ pc' = "install" /\ UNCHANGED <<todo, finishing, faulty, staged>>
        /\ \A p \in Parts : p # Part => target'[p] = target[p] /\ aside'[p] = aside[p]
    BY <1>2, <1>7 DEF Place, Goto
  <2>3. target'["config"] = target["config"]
    BY <1>7, <2>2, FoldersAreNoFiles DEF Parts, Files
  <2>4. ASSUME NEW p \in Parts PROVE Sound(p)'
    <3>1. CASE p = Part
      <4>1. Single(p)' /\ Timely(p)'
        BY <1>1, <1>4, <2>1, <2>2, <3>1, RecoveryPart DEF MildStep, Whole, Sound, Single,
           Timely, Copy, Half
      <4>2. MovedInTime(p)'
        BY <1>1, <1>4, <2>1, <2>2, <3>1 DEF MovedInTime
      <4> QED
        BY <4>1, <4>2 DEF Sound
    <3>2. CASE p # Part
      BY <1>1, <1>4, <2>2, <3>2 DEF MildStep, Whole, Sound, Single, Timely, MovedInTime,
         AtHome, Moved, Copy, Half
    <3> QED
      BY <3>1, <3>2
  <2>5. Recovered' = Recovered
    BY <1>1, <1>2, <2>1, <2>2 DEF Recovered, Seen
  <2> QED
    BY <1>1, <1>4, <2>2, <2>3, <2>4, <2>5, ConfigStays DEF MildStep, Whole
<1> QED
  BY <1>3, <1>5, <1>6, <1>7 DEF RecoverPart

LEMMA InstallWhole == MildStep /\ Install => Whole'
<1> SUFFICES ASSUME MildStep, Install PROVE Whole'
  OBVIOUS
<1>1. /\ pc = "install" /\ Recovering /\ todo # <<>>
      /\ UNCHANGED <<journal, life, restore, inside, outcomes>>
  BY DEF Install, which, MildStep, Whole, Lists, Recovering
<1>2. CASE PartFaults /\ UNCHANGED owed
  BY <1>1, <1>2, PartFaultsWhole
<1>3. CASE ~(PartFaults /\ UNCHANGED owed)
  <2>1. /\ pc' = "clean" /\ UNCHANGED <<todo, finishing, faulty>>
        /\ owed' = [p \in Folders |-> IF p = Part THEN Gone ELSE owed[p]]
    BY <1>3 DEF Install, Goto
  <2>2. PICK content \in Sources(Part) :
          /\ target' = [target EXCEPT ![Part] = content]
          /\ HasCopy(Part) => staged' = [staged EXCEPT ![Part] = Tail(@)] /\ UNCHANGED aside
    BY <1>3 DEF Install, Place
  <2>3. /\ Part' = Part /\ Part \in Parts /\ Part \in ToSet(todo) /\ DOMAIN target = Parts
        /\ DOMAIN staged = Parts
    BY <1>1, <2>1, RecoveryPart DEF Part
  <2>4. Sources(Part) # {}
    BY <2>2
  <2>5. /\ journal = "committed" /\ staged[Part] # <<>> /\ content = restore /\ restore # 0
        /\ Tail(staged[Part]) = <<>> /\ HasCopy(Part) /\ ~Asked
    BY <1>1, <2>2, <2>3, <2>4, SourcesWhole
  <2>6. staged' = [staged EXCEPT ![Part] = <<>>] /\ UNCHANGED aside
    BY <2>2, <2>5
  <2>7. restore \in 1 .. restore /\ restore # Gone /\ restore # Empty
    BY <2>5, RestoreIsContent DEF MildStep, CopySound
  <2>8. Times' /\ Lists' /\ Recovering' /\ ~Moving' /\ pc' # "config" /\ ~Asked'
    BY <1>1, <2>1, <2>5 DEF MildStep, Whole, Times, Lists, Recovering, Moving, Asked
  <2>9. ConfigSound'
    BY <1>1, <2>2, <2>3, <2>5, <2>7, <2>8 DEF MildStep, Whole, ConfigSound, Parts, Files
  <2>10. ASSUME NEW p \in Parts PROVE Sound(p)'
    <3>1. CASE p = Part
      BY <1>1, <2>1, <2>2, <2>3, <2>5, <2>6, <2>7, <2>8, <3>1
        DEF Sound, Single, Timely, MovedInTime
    <3>2. CASE p # Part
      <4>1. /\ staged'[p] = staged[p] /\ target'[p] = target[p] /\ aside'[p] = aside[p]
            /\ p \in Folders => owed'[p] = owed[p]
        BY <2>1, <2>2, <2>3, <2>6, <3>2
      <4> QED
        BY <1>1, <2>1, <2>3, <2>8, <3>2, <4>1 DEF MildStep, Whole, Sound, Single, Timely,
           MovedInTime, AtHome, Moved, Copy, Half
    <3> QED
      BY <3>1, <3>2
  <2>11. Recovered' = Recovered
    BY <1>1, <2>2, <2>3, <2>5, <2>6, <2>7 DEF Recovered, Seen
  <2> QED
    BY <1>1, <2>8, <2>9, <2>10, <2>11 DEF MildStep, Whole
<1> QED
  BY <1>2, <1>3

LEMMA CleanWhole == MildStep /\ Clean => Whole'
<1> SUFFICES ASSUME MildStep, Clean PROVE Whole'
  OBVIOUS
<1>1. /\ pc = "clean" /\ Recovering /\ pc' = "recover" /\ todo # <<>> /\ todo' = Tail(todo)
      /\ UNCHANGED <<target, journal, life, finishing, faulty, restore, inside, outcomes, owed>>
      /\ staged' = [staged EXCEPT ![Part] = <<>>] /\ aside' = [aside EXCEPT ![Part] = {}]
  BY FirstFault DEF Clean, NextPart, which, ghosts, MildStep, Whole, Lists, Recovering
<1>2. /\ Part \in Parts /\ Tail(todo) \in Seq(Parts)
      /\ ToSet(todo) = {Part} \cup ToSet(Tail(todo))
      /\ DOMAIN aside = Parts /\ DOMAIN staged = Parts
  BY <1>1, RecoveryPart
<1>3. Times' /\ Lists' /\ ~Moving' /\ pc' # "config" /\ (Asked' => Asked)
  BY <1>1, <1>2 DEF MildStep, Whole, Times, Lists, Recovering, Moving, Asked
<1>4. ASSUME NEW p \in Parts PROVE Sound(p)'
  <2>1. CASE p = Part
    <3>1. staged'[p] = <<>> /\ Moved(p)' = {}
      BY <1>1, <1>2, <2>1 DEF Moved
    <3> QED
      BY <1>1, <1>3, <3>1 DEF MildStep, Whole, Sound, Single, Timely, MovedInTime, AtHome
  <2>2. CASE p # Part
    <3>1. staged'[p] = staged[p] /\ aside'[p] = aside[p]
      BY <1>1, <1>2, <2>2
    <3> QED
      BY <1>1, <1>2, <1>3, <2>2, <3>1 DEF MildStep, Whole, Sound, Single, Timely, MovedInTime,
         AtHome, Moved, Copy, Half
  <2> QED
    BY <2>1, <2>2
<1>5. journal = "committed" => staged[Part] = <<>>
  BY <1>1, <1>2 DEF MildStep, Whole, Times, Sound, Timely
<1>6. Recovered' = Recovered
  BY <1>1, <1>2, <1>5 DEF Recovered, Seen
<1> QED
  BY <1>1, <1>3, <1>4, <1>6, ConfigStays DEF MildStep, Whole

\* With no part left, and none failed, the station reads what the recovery
\* was to make.
LEMMA RecoveryEnds ==
  ASSUME Whole, EndRecovery, ~faulty \/ life = "up"
  PROVE  Recovered = Seen /\ \A p \in Parts : staged[p] = <<>> /\ Moved(p) = {}
<1>1. pc = "recover" /\ ToSet(todo) = {}
  BY DEF EndRecovery, ToSet
<1>2. \A p \in Parts : staged[p] = <<>> /\ Moved(p) = {}
  BY <1>1 DEF Whole, Sound, Timely, Recovering
<1> QED
  BY <1>2 DEF Recovered, Seen

\* A failure leaves the journal and what it stands for to the next start;
\* a restore begins with neither.
LEMMA EndRecoveryWhole == MildStep /\ EndRecovery => Whole'
<1> SUFFICES ASSUME MildStep, EndRecovery PROVE Whole'
  OBVIOUS
<1>1. /\ pc = "recover" /\ Recovering /\ life' = "up" /\ life \in {"starting", "up"}
      /\ pc' = (IF life = "starting" THEN "idle" ELSE "stage")
      /\ UNCHANGED <<target, staged, aside, faulty, restore, inside>>
  BY DEF EndRecovery, Goto, disk, which, MildStep, Whole, Times, Recovering
<1>2. ~Recovering' /\ ~Moving' /\ pc' \in {"idle", "stage"}
  BY <1>1 DEF Recovering, Moving
<1>3. Lists'
  BY <1>2 DEF Lists
<1>4. ConfigSound'
  BY <1>1, <1>2, ConfigStays DEF Asked
<1>5. CASE faulty
  <2>1. UNCHANGED <<journal, outcomes, owed>> /\ Failed /\ Failed'
    BY <1>1, <1>5 DEF EndRecovery, ghosts, MildStep, Whole, Times
  <2>2. Times'
    BY <1>1, <1>2, <1>5, <2>1 DEF MildStep, Whole, Times
  <2>3. ASSUME NEW p \in Parts PROVE Sound(p)'
    <3>1. pc' = "stage" => staged[p] = <<>>
      BY <1>1, RecoveryEnds DEF MildStep
    <3> QED
      BY <1>1, <1>2, <2>1, <3>1 DEF MildStep, Whole, Sound, Single, Timely, MovedInTime,
         AtHome, Moved, Copy
  <2>4. Recovered' = Recovered
    BY <1>1, <2>1 DEF Recovered, Seen
  <2> QED
    BY <1>3, <1>4, <2>1, <2>2, <2>3, <2>4 DEF MildStep, Whole
<1>6. CASE ~faulty
  <2>1. /\ outcomes' = {Seen} /\ owed' = [p \in Folders |-> Gone]
        /\ journal' = "none" \/ (UNCHANGED journal /\ journal # "none" /\ ~Failed /\ Failed')
    BY <1>6, FirstFault DEF EndRecovery
  <2>2. \A p \in Parts : staged[p] = <<>> /\ Moved(p) = {}
    BY <1>6, RecoveryEnds DEF MildStep
  <2>3. Times'
    BY <1>1, <1>2, <2>1 DEF MildStep, Whole, Times
  <2>4. ASSUME NEW p \in Parts PROVE Sound(p)'
    BY <1>1, <1>2, <2>1, <2>2 DEF Sound, Single, Timely, MovedInTime, AtHome, Moved
  <2>5. Recovered' = Seen
    BY <1>1, <2>2 DEF Recovered, Seen
  <2> QED
    BY <1>3, <1>4, <2>1, <2>3, <2>4, <2>5 DEF Whole
<1> QED
  BY <1>5, <1>6

-----------------------------------------------------------------------------
(* The request up to the commit.                                           *)

\* The parts of the backup, each once, the config the last.
LEMMA ConfigLast ==
  ASSUME NEW S \in SUBSET Parts, "config" \in S
  PROVE  LET list == SetToSeq(S \ {"config"}) \o <<"config">>
         IN  list \in Seq(Parts) /\ ToSet(list) = S /\ IsInjective(list)
<1> DEFINE first == SetToSeq(S \ {"config"})
           list == first \o <<"config">>
<1>1. first \in Seq(Parts) /\ ToSet(first) = S \ {"config"} /\ IsInjective(first)
  BY SetToSeqOfParts
<1>2. <<"config">> \in Seq(Parts) /\ Len(<<"config">>) = 1 /\ <<"config">>[1] = "config"
  OBVIOUS
<1> HIDE DEF first
<1>3. /\ list \in Seq(Parts) /\ Len(first) \in Nat /\ Len(list) = Len(first) + 1
      /\ \A i \in 1 .. Len(first) : list[i] = first[i]
      /\ list[Len(first) + 1] = "config"
  BY <1>1, <1>2
<1>4. DOMAIN first = 1 .. Len(first) /\ DOMAIN list = 1 .. Len(first) + 1
  BY <1>1, <1>3, LenProperties
<1> HIDE DEF list
<1>5. \A i \in 1 .. Len(first) : first[i] # "config"
  BY <1>1, <1>4 DEF ToSet
<1>6. ToSet(list) = S
  <2>1. \A i \in DOMAIN list : i \in 1 .. Len(first) \/ i = Len(first) + 1
    BY <1>3, <1>4
  <2>2. 1 .. Len(first) \subseteq DOMAIN list /\ Len(first) + 1 \in DOMAIN list
    BY <1>3, <1>4
  <2>3. ToSet(list) = ToSet(first) \cup {"config"}
    BY <1>3, <1>4, <2>1, <2>2 DEF ToSet
  <2> QED
    BY <1>1, <2>3
<1>7. IsInjective(list)
  <2>1. SUFFICES ASSUME NEW i \in 1 .. Len(first) + 1, NEW j \in 1 .. Len(first) + 1,
                        list[i] = list[j]
                 PROVE  i = j
    BY <1>4 DEF IsInjective
  <2>2. CASE i \in 1 .. Len(first) /\ j \in 1 .. Len(first)
    BY <1>1, <1>3, <1>4, <2>1, <2>2 DEF IsInjective
  <2>3. CASE ~(i \in 1 .. Len(first) /\ j \in 1 .. Len(first))
    <3>1. i = Len(first) + 1 \/ j = Len(first) + 1
      BY <1>3, <2>3
    <3>2. i \notin 1 .. Len(first) /\ j \notin 1 .. Len(first)
      BY <1>3, <1>5, <2>1, <3>1
    <3> QED
      BY <1>3, <3>2
  <2> QED
    BY <2>2, <2>3
<1> QED
  BY <1>3, <1>6, <1>7 DEF list, first

\* A restore that gives up before its commit has touched nothing in place.
LEMMA GivesUpWhole ==
  ASSUME MildStep, pc \in {"stage", "copy", "fill"}, pc' = "discard",
         UNCHANGED <<target, staged, aside, journal, life, restore, inside, outcomes, owed>>
  PROVE  Whole'
<1>1. journal # "committed"
  BY DEF MildStep, Whole, Times
<1>2. Times' /\ Lists'
  BY <1>1 DEF Times, Lists, Recovering, Moving
<1>3. ConfigSound'
  BY ConfigStays DEF Asked, Recovering
<1>4. ASSUME NEW p \in Parts PROVE Sound(p)'
  <2>1. Sound(p)
    BY DEF MildStep, Whole
  <2>2. Single(p)'
    BY <1>1, <2>1 DEF Sound, Single, Timely, Copy, Half
  <2>3. Timely(p)' /\ MovedInTime(p)'
    BY <1>1, <2>1 DEF MildStep, Sound, Timely, MovedInTime, AtHome, Moved, Recovering, Moving
  <2> QED
    BY <2>2, <2>3 DEF Sound
<1>5. Recovered' = Recovered
  BY DEF Recovered, Seen
<1> QED
  BY <1>2, <1>3, <1>4, <1>5 DEF MildStep, Whole

LEMMA StageJournalWhole == MildStep /\ StageJournal => Whole'
<1> SUFFICES ASSUME MildStep, StageJournal PROVE Whole'
  OBVIOUS
<1>1. /\ pc = "stage"
      /\ UNCHANGED <<target, staged, aside, life, faulty, restore, inside, outcomes, owed>>
  BY DEF StageJournal, disk, which, ghosts
<1>2. CASE pc' = "discard" /\ UNCHANGED journal
  BY <1>1, <1>2, GivesUpWhole
<1>3. CASE /\ journal' = "pending" /\ pc' = "copy"
           /\ todo' = SetToSeq(inside \ {"config"}) \o <<"config">>
  <2>1. "config" \in inside /\ inside \subseteq Parts
    BY <1>1 DEF MildStep, CopySound, Kinds, Asked, Parts, Files
  <2>2. ToSet(todo') = inside /\ IsInjective(todo')
    BY <1>3, <2>1, ConfigLast
  <2>3. \A p \in Parts : staged[p] = <<>> /\ AtHome(p)
    BY <1>1 DEF MildStep, Whole, Times, Sound, Timely, MovedInTime
  <2>4. Times' /\ Lists' /\ ~Recovering' /\ ~Moving'
    BY <1>1, <1>3, <2>2 DEF Times, Lists, Recovering, Moving
  <2>5. ConfigSound'
    BY <1>1, <1>3, ConfigStays DEF Asked
  <2>6. ASSUME NEW p \in Parts PROVE Sound(p)'
    BY <1>1, <1>3, <2>3, <2>4 DEF Sound, Single, Timely, MovedInTime, AtHome, Moved
  <2>7. Recovered' = Recovered
    BY <1>1, <2>3 DEF Recovered, Seen
  <2> QED
    BY <1>1, <2>4, <2>5, <2>6, <2>7 DEF MildStep, Whole
<1> QED
  BY <1>2, <1>3 DEF StageJournal

\* The part that is staged is in the backup and at home.
LEMMA StagedPart ==
  ASSUME MildStep, pc \in {"copy", "fill"}, todo # <<>>
  PROVE  /\ Part \in Parts /\ Part \in inside
         /\ Part \in ToSet(todo) /\ Part \notin ToSet(Tail(todo))
         /\ ToSet(todo) = {Part} \cup ToSet(Tail(todo)) /\ IsInjective(Tail(todo))
         /\ journal = "pending" /\ restore # 0
         /\ staged \in [Parts -> Copies] /\ DOMAIN aside = Parts
<1>1. /\ todo \in Seq(Parts) /\ IsInjective(todo) /\ ToSet(todo) \subseteq inside
      /\ journal = "pending" /\ (inside # {} => restore # 0) /\ staged \in [Parts -> Copies]
  BY DEF MildStep, Whole, Times, Lists, CopySound, Kinds
<1> QED
  BY <1>1, TailFacts DEF Part, MildStep, IInv, Shapes

LEMMA StageCopyWhole == MildStep /\ StageCopy => Whole'
<1> SUFFICES ASSUME MildStep, StageCopy PROVE Whole'
  OBVIOUS
<1>1. /\ pc = "copy" /\ todo # <<>>
      /\ UNCHANGED <<target, journal, life, todo, faulty, restore, inside, outcomes, owed>>
  BY DEF StageCopy, which, ghosts, Goto
<1>2. Part' = Part /\ journal = "pending"
  BY <1>1, StagedPart DEF Part
<1>3. CASE pc' = "discard" /\ UNCHANGED <<staged, aside>>
  BY <1>1, <1>3, GivesUpWhole
<1>4. CASE /\ staged' = [staged EXCEPT ![Part] = <<Half(restore)>> \o @] /\ pc' = "fill"
           /\ aside' = IF Part \in Files THEN aside ELSE [aside EXCEPT ![Part] = @ \cup {Empty}]
  <2>1. staged[Part] = <<>>
    BY <1>1, StagedPart DEF MildStep, Whole, Sound, Timely
  <2>2. /\ <<Half(restore)>> \o staged[Part] # <<>>
        /\ Head(<<Half(restore)>> \o staged[Part]) = Half(restore)
        /\ Tail(<<Half(restore)>> \o staged[Part]) = <<>>
    <3>1. Half(restore) \in Nat /\ <<>> \in Seq(Nat)
      BY BackupRestoreAssumption DEF Half, MildStep, CopySound, Kinds
    <3> QED
      BY <2>1, <3>1, PrependFacts
  <2>3. /\ staged'[Part] = <<Half(restore)>> \o staged[Part]
        /\ \A p \in Parts \ {Part} : staged'[p] = staged[p]
    BY <1>1, <1>4, StagedPart
  <2>4. \A p \in Parts : Moved(p)' = Moved(p)
    BY <1>1, <1>4, StagedPart DEF Moved
  <2>5. Times' /\ Lists'
    BY <1>1, <1>2, <1>4 DEF MildStep, Whole, Times, Lists, Recovering, Moving
  <2>6. ConfigSound'
    BY <1>1, <1>4, ConfigStays DEF Asked
  <2>7. ASSUME NEW p \in Parts PROVE Sound(p)'
    <3>1. CASE p = Part
      <4>1. Single(p)'
        BY <1>1, <1>2, <2>2, <2>3, <3>1, StagedPart DEF Single, Copy, Half
      <4>2. Timely(p)'
        BY <1>1, <1>2, <1>4, <3>1, StagedPart DEF Timely, Recovering, Moving
      <4>3. MovedInTime(p)'
        BY <1>1, <1>2, <1>4, <2>4, <3>1, StagedPart DEF MildStep, Whole, Sound, MovedInTime,
           AtHome, Moving
      <4> QED
        BY <4>1, <4>2, <4>3 DEF Sound
    <3>2. CASE p # Part
      <4>1. staged'[p] = staged[p] /\ Moved(p)' = Moved(p)
        BY <2>3, <2>4, <3>2
      <4>2. Single(p)' /\ Timely(p)'
        BY <1>1, <1>2, <1>4, <3>2, <4>1 DEF MildStep, Whole, Sound, Single, Timely, Copy, Half,
           Recovering, Moving
      <4>3. MovedInTime(p)'
        BY <1>1, <1>2, <1>4, <3>2, <4>1 DEF MildStep, Whole, Sound, MovedInTime, AtHome, Moving
      <4> QED
        BY <4>2, <4>3 DEF Sound
    <3> QED
      BY <3>1, <3>2
  <2>8. Recovered' = Recovered
    BY <1>1, <1>2 DEF Recovered, Seen
  <2> QED
    BY <1>1, <2>5, <2>6, <2>7, <2>8 DEF MildStep, Whole
<1> QED
  BY <1>3, <1>4 DEF StageCopy, Goto

LEMMA FillCopyWhole == MildStep /\ FillCopy => Whole'
<1> SUFFICES ASSUME MildStep, FillCopy PROVE Whole'
  OBVIOUS
<1>1. /\ pc = "fill" /\ todo # <<>>
      /\ UNCHANGED <<target, aside, journal, life, restore, inside, outcomes, owed>>
  BY DEF FillCopy, which, ghosts, MildStep, CopySound, StagingSound
<1>2. CASE pc' = "discard" /\ UNCHANGED staged
  BY <1>1, <1>2, GivesUpWhole
<1>3. CASE /\ staged' = [staged EXCEPT ![Part] = <<restore>> \o Tail(@)]
           /\ pc' = "copy" /\ todo' = Tail(todo)
  <2>1. staged[Part] # <<>> /\ Tail(staged[Part]) = <<>>
    BY <1>1, StagedPart DEF MildStep, CopySound, StagingSound, Whole, Sound, Single
  <2>2. /\ <<restore>> \o Tail(staged[Part]) # <<>>
        /\ Head(<<restore>> \o Tail(staged[Part])) = restore
        /\ Tail(<<restore>> \o Tail(staged[Part])) = <<>>
    <3>1. restore \in Nat /\ <<>> \in Seq(Nat)
      BY BackupRestoreAssumption DEF MildStep, CopySound, Kinds
    <3> QED
      BY <2>1, <3>1, PrependFacts
  <2>3. /\ staged'[Part] = <<restore>> \o Tail(staged[Part])
        /\ \A p \in Parts \ {Part} : staged'[p] = staged[p]
    BY <1>1, <1>3, StagedPart
  <2>4. Times' /\ Lists'
    BY <1>1, <1>3, StagedPart DEF MildStep, Whole, Times, Lists, Recovering, Moving
  <2>5. ConfigSound'
    BY <1>1, <1>3, ConfigStays DEF Asked
  <2>6. ASSUME NEW p \in Parts PROVE Sound(p)'
    <3>1. Single(p)'
      BY <1>1, <1>3, <2>2, <2>3, StagedPart DEF MildStep, Whole, Sound, Single, Copy, Half
    <3>2. Timely(p)'
      <4>1. CASE p = Part
        BY <1>1, <1>3, <4>1, StagedPart DEF Timely, Recovering, Moving
      <4>2. CASE p # Part
        BY <1>1, <1>3, <2>3, <4>2, StagedPart DEF MildStep, Whole, Sound, Timely, Recovering,
           Moving
      <4> QED
        BY <4>1, <4>2
    <3>3. MovedInTime(p)'
      BY <1>1, <1>3, StagedPart DEF MildStep, Whole, Sound, MovedInTime, AtHome, Moved, Moving
    <3> QED
      BY <3>1, <3>2, <3>3 DEF Sound
  <2>7. Recovered' = Recovered
    BY <1>1, StagedPart DEF Recovered, Seen
  <2> QED
    BY <1>1, <2>4, <2>5, <2>6, <2>7 DEF MildStep, Whole
<1> QED
  BY <1>2, <1>3 DEF FillCopy, Goto, NextPart

\* What was staged of a restore that did not commit goes.
LEMMA DiscardWhole == MildStep /\ Discard => Whole'
<1> SUFFICES ASSUME MildStep, Discard PROVE Whole'
  OBVIOUS
<1>1. /\ pc = "discard" /\ pc' = "idle" /\ outcomes' = {Due}
      /\ staged' = [p \in Parts |-> Others(p)] /\ aside' = [p \in Parts |-> aside[p] \ {Empty}]
      /\ journal' = Discarded /\ UNCHANGED <<target, life, faulty, owed, restore>>
  <2>1. PICK removed \in {{}, {"catalog"}, Parts} :
          /\ staged' = [p \in Parts |-> IF p \in removed THEN Others(p) ELSE staged[p]]
          /\ IF removed = Parts
             THEN /\ aside' = [p \in Parts |-> aside[p] \ {Empty}]
                  /\ journal' = Discarded
                  /\ outcomes' = {Due}
             ELSE Stuck
    BY DEF Discard
  <2>2. removed = Parts
    BY <2>1, FirstFault
  <2>3. staged' = [p \in Parts |-> Others(p)]
    BY <2>1, <2>2
  <2> QED
    BY <2>1, <2>2, <2>3 DEF Discard, Goto, which
<1>2. journal # "committed"
  BY <1>1 DEF MildStep, Whole, Times
<1>3. journal' = "none"
  BY <1>1, <1>2 DEF Discarded
<1>4. ASSUME NEW p \in Parts PROVE staged'[p] = <<>> /\ AtHome(p) /\ Moved(p)' = {}
  <2>1. Single(p) /\ AtHome(p)
    BY <1>2 DEF MildStep, Whole, Sound, MovedInTime
  <2>2. Others(p) = <<>>
    BY <1>1, <2>1 DEF Single, Others
  <2> QED
    BY <1>1, <2>1, <2>2 DEF AtHome, Moved
<1>5. Times' /\ Lists' /\ ~Recovering' /\ ~Moving' /\ ~Asked'
  BY <1>1, <1>3 DEF Times, Lists, Recovering, Moving, Asked
<1>6. ConfigSound'
  BY <1>1, <1>5, ConfigStays
<1>7. ASSUME NEW p \in Parts PROVE Sound(p)'
  BY <1>1, <1>3, <1>4, <1>5 DEF Sound, Single, Timely, MovedInTime, AtHome
<1>8. Recovered' = Due
  BY <1>1, <1>3, <1>4, FoldersAreNoFiles DEF Recovered, Seen, Due, AtHome
<1> QED
  BY <1>1, <1>5, <1>6, <1>7, <1>8 DEF Whole

-----------------------------------------------------------------------------
(* The commit.                                                             *)

\* The copies of a committed journal are those of the parts of the backup.
LEMMA CommitJournalWhole == MildStep /\ CommitJournal => Whole'
<1> SUFFICES ASSUME MildStep, CommitJournal PROVE Whole'
  OBVIOUS
<1>1. /\ pc = "copy" /\ todo = <<>>
      /\ UNCHANGED <<target, staged, aside, life, faulty, restore, inside, owed>>
  BY DEF CommitJournal, Goto, disk
<1>2. CASE pc' = "discard" /\ UNCHANGED <<journal, outcomes>>
  BY <1>1, <1>2, GivesUpWhole
<1>3. CASE /\ journal' = "committed" /\ pc' = "config"
           /\ outcomes' = outcomes \cup {Overlay(f) : f \in outcomes}
  <2>1. ToSet(todo) = {} /\ journal = "pending"
    BY <1>1 DEF ToSet, MildStep, Whole, Times
  <2>2. \A p \in inside : Ready(p)
    BY <1>1, <2>1 DEF MildStep, CopySound, StagingSound
  <2>3. \A p \in Parts : staged[p] # <<>> <=> p \in inside
    BY <1>1, <2>2 DEF Ready, MildStep, Whole, Sound, Timely
  <2>4. Times' /\ Lists' /\ ~Recovering' /\ ~Moving'
    BY <1>1, <1>3 DEF Times, Lists, Recovering, Moving
  <2>5. Recovered = Seen /\ Recovered' = Overlay(Seen) /\ Seen' = Seen
    BY <1>1, <1>3, <2>1, <2>3 DEF Recovered, Overlay, Seen
  <2>6. ConfigSound'
    BY <1>1, <1>3, <2>5 DEF MildStep, Whole, ConfigSound, Asked
  <2>7. ASSUME NEW p \in Parts PROVE Sound(p)'
    <3>1. Single(p)'
      BY <1>1, <1>3, <2>2, <2>3 DEF Ready, MildStep, Whole, Sound, Single, Copy
    <3>2. AtHome(p)
      BY <2>1 DEF MildStep, Whole, Sound, MovedInTime
    <3> QED
      BY <1>1, <1>3, <2>3, <2>4, <3>1, <3>2 DEF Sound, Timely, MovedInTime, AtHome, Moved
  <2> QED
    BY <1>1, <1>3, <2>4, <2>5, <2>6, <2>7 DEF MildStep, Whole
<1> QED
  BY <1>2, <1>3 DEF CommitJournal, Goto

LEMMA CommitConfigWhole == MildStep /\ CommitConfig => Whole'
<1> SUFFICES ASSUME MildStep, CommitConfig PROVE Whole'
  OBVIOUS
<1>1. /\ pc = "config" /\ pc' = "part" /\ todo' = SetToSeq(inside \ {"config"})
      /\ target' = [target EXCEPT !["config"] = Copy("config")]
      /\ staged' = [staged EXCEPT !["config"] = Tail(@)]
      /\ outcomes' = {Overlay(f) : f \in outcomes}
      /\ UNCHANGED <<aside, journal, life, faulty, restore, inside, owed>>
  BY DEF CommitConfig, Place, which
<1>2. /\ "config" \in inside /\ inside \subseteq Parts /\ \A p \in inside : Ready(p)
      /\ journal = "committed" /\ DOMAIN target = Parts /\ DOMAIN staged = Parts
  BY <1>1 DEF MildStep, CopySound, Kinds, StagingSound, Asked, Parts, Files, Whole, Times,
     IInv, Shapes
<1>3. ToSet(todo') = inside \ {"config"}
  BY <1>1, <1>2, SetToSeqOfParts
<1>4. \A p \in Parts : staged[p] # <<>> <=> p \in inside
  BY <1>1, <1>2 DEF Ready, MildStep, Whole, Sound, Timely
<1>5. /\ target' = [target EXCEPT !["config"] = restore]
      /\ staged' = [staged EXCEPT !["config"] = <<>>]
      /\ restore \in 1 .. restore /\ restore # Gone /\ restore # Empty
  <2>1. Copy("config") = restore /\ Tail(staged["config"]) = <<>> /\ restore # 0
    BY <1>2, <1>4 DEF Ready, MildStep, Whole, Sound, Single
  <2> QED
    BY <1>1, <2>1, RestoreIsContent DEF MildStep, CopySound
<1>6. Times' /\ Lists' /\ Moving' /\ ~Recovering' /\ ~Asked'
  BY <1>1, <1>2 DEF MildStep, Whole, Times, Lists, Recovering, Moving, Asked
<1>7. ConfigSound'
  BY <1>1, <1>2, <1>5, <1>6 DEF ConfigSound
<1>8. ASSUME NEW p \in Parts PROVE Sound(p)'
  <2>1. AtHome(p)
    BY <1>1 DEF MildStep, Whole, Sound, MovedInTime, Moving
  <2>2. AtHome(p)'
    BY <1>1, <2>1 DEF AtHome, Moved
  <2>3. CASE p = "config"
    BY <1>1, <1>2, <1>5, <1>6, <2>2, <2>3 DEF Sound, Single, Timely, MovedInTime, AtHome
  <2>4. CASE p # "config"
    <3>1. staged'[p] = staged[p] /\ (staged[p] # <<>> => p \in ToSet(todo'))
      BY <1>2, <1>3, <1>4, <1>5, <2>4
    <3> QED
      BY <1>1, <1>2, <1>6, <2>2, <3>1 DEF MildStep, Whole, Sound, Single, Timely, MovedInTime,
         AtHome, Copy
  <2> QED
    BY <2>3, <2>4
<1>9. Recovered' = Recovered
  BY <1>1, <1>2, <1>4, <1>5 DEF Recovered, Seen
<1>10. Overlay(Recovered) = Recovered
  BY <1>2, <1>4 DEF Overlay, Recovered
<1> QED
  BY <1>1, <1>6, <1>7, <1>8, <1>9, <1>10 DEF MildStep, Whole

\* A config that does not move in takes the journal back with it.
LEMMA ConfigFailsWhole == MildStep /\ ConfigFails => Whole'
<1> SUFFICES ASSUME MildStep, ConfigFails PROVE Whole'
  OBVIOUS
<1>1. /\ pc = "config" /\ pc' = "discard" /\ journal' = "pending"
      /\ outcomes' = {f \in outcomes : f["config"] # restore}
      /\ UNCHANGED <<target, staged, aside, life, faulty, restore, inside, owed>>
  BY FirstFault DEF ConfigFails, Goto, disk, which
<1>2. journal = "committed" /\ Asked
  BY <1>1 DEF MildStep, Whole, Times, Asked
<1>3. Times' /\ Lists' /\ ~Recovering' /\ ~Moving'
  BY <1>1 DEF Times, Lists, Recovering, Moving
<1>4. ConfigSound'
  BY <1>1, <1>2, ConfigStays
<1>5. ASSUME NEW p \in Parts PROVE Sound(p)'
  BY <1>1, <1>2, <1>3 DEF MildStep, Whole, Sound, Single, Timely, MovedInTime, AtHome, Moved,
     Copy, Moving
<1>6. Recovered' = Seen
  BY <1>1 DEF Recovered, Seen
<1>7. Seen \in outcomes /\ target["config"] # restore
  BY <1>1, <1>2 DEF MildStep, Whole, ConfigSound
<1>8. Seen["config"] # restore
  BY <1>2, <1>7, AskedIsContent DEF Seen, Parts, Files
<1> QED
  BY <1>1, <1>3, <1>4, <1>5, <1>6, <1>7, <1>8 DEF Whole

\* The part a commit is at has its copy, and is to do once.
LEMMA MovingPart ==
  ASSUME MildStep, Moving, todo # <<>>
  PROVE  /\ Part \in Parts /\ Part \in ToSet(todo) /\ Part \notin ToSet(Tail(todo))
         /\ ToSet(todo) = {Part} \cup ToSet(Tail(todo))
         /\ staged[Part] # <<>> /\ Copy(Part) = restore /\ Tail(staged[Part]) = <<>>
         /\ restore \in 1 .. restore /\ restore # Gone /\ restore # Empty
         /\ journal = "committed" /\ DOMAIN target = Parts /\ DOMAIN staged = Parts
         /\ DOMAIN aside = Parts /\ DOMAIN owed = Folders
<1>1. todo \in Seq(Parts) /\ IsInjective(todo) /\ \A p \in ToSet(todo) : Ready(p)
  BY DEF MildStep, CopySound, Kinds, MovingSound
<1>2. /\ Part \in Parts /\ Part \in ToSet(todo) /\ Part \notin ToSet(Tail(todo))
      /\ ToSet(todo) = {Part} \cup ToSet(Tail(todo))
  BY <1>1, TailFacts DEF Part
<1>3. staged[Part] # <<>> /\ Copy(Part) = restore
  BY <1>1, <1>2 DEF Ready
<1>4. Tail(staged[Part]) = <<>> /\ restore # 0
  BY <1>2, <1>3 DEF MildStep, Whole, Sound, Single
<1>5. restore \in 1 .. restore /\ restore # Gone /\ restore # Empty
  BY <1>4, RestoreIsContent DEF MildStep, CopySound
<1>6. DOMAIN staged = Parts
  BY DEF MildStep, CopySound, Kinds
<1> QED
  BY <1>2, <1>3, <1>4, <1>5, <1>6 DEF MildStep, Whole, Times, IInv, Shapes

\* The commit is done with a part, which reads as it is to be, and nothing
\* of it lies aside.
LEMMA PartDoneWhole ==
  ASSUME MildStep, Moving, todo # <<>>, pc' = "part", todo' = Tail(todo),
         UNCHANGED <<journal, life, faulty, restore>>,
         DOMAIN target' = Parts, \A p \in Parts \ {Part} : target'[p] = target[p],
         target'[Part] = target[Part] \/ target'[Part] = restore \/ Part \in Folders,
         staged' = [staged EXCEPT ![Part] = Tail(@)],
         DOMAIN aside' = Parts, \A p \in Parts \ {Part} : aside'[p] = aside[p],
         \A p \in Folders \ {Part} : owed'[p] = owed[p],
         aside'[Part] \subseteq {Empty}, Part \in Folders => owed'[Part] = Gone,
         [Recovered EXCEPT ![Part] = Seen'[Part]] \in outcomes'
  PROVE  Whole'
<1>1. Times' /\ Lists' /\ Moving' /\ ~Recovering' /\ ~Asked'
  BY MovingPart DEF MildStep, Whole, Times, Lists, Recovering, Moving, Asked
<1>2. ConfigSound'
  <2>1. target'["config"] = target["config"] \/ target'["config"] = restore
    BY MovingPart, FoldersAreNoFiles DEF Parts, Files
  <2> QED
    BY <1>1, <2>1, MovingPart DEF MildStep, Whole, ConfigSound
<1>3. ASSUME NEW p \in Parts PROVE Sound(p)'
  <2>1. CASE p = Part
    <3>1. staged'[p] = <<>> /\ AtHome(p)' /\ Moved(p)' = {} /\ journal' = "committed"
      BY <2>1, MovingPart DEF AtHome, Moved
    <3> QED
      BY <1>1, <3>1 DEF Sound, Single, Timely, MovedInTime
  <2>2. CASE p # Part
    <3>1. /\ staged'[p] = staged[p] /\ target'[p] = target[p] /\ Moved(p)' = Moved(p)
          /\ p \in ToSet(todo') <=> p \in ToSet(todo)
      BY <2>2, MovingPart DEF Moved
    <3>2. AtHome(p) /\ AtHome(p)' /\ journal' = "committed"
      BY <2>2, <3>1, MovingPart DEF MildStep, Whole, Sound, MovedInTime, AtHome
    <3> QED
      BY <1>1, <2>2, <3>1, <3>2, MovingPart DEF MildStep, Whole, Sound, Single, Timely,
         MovedInTime, AtHome, Copy
  <2> QED
    BY <2>1, <2>2
<1>4. Recovered' = [Recovered EXCEPT ![Part] = Seen'[Part]]
  <2>1. Part \in Parts /\ staged'[Part] = <<>>
    BY MovingPart
  <2>2. \A p \in Parts \ {Part} : staged'[p] = staged[p]
    BY MovingPart
  <2> QED
    BY <2>1, <2>2 DEF Recovered, Seen
<1> QED
  BY <1>1, <1>2, <1>3, <1>4 DEF Whole

\* Its copy is in place, and the station reads what a start would make of it.
LEMMA PartInWhole ==
  ASSUME MildStep, Moving, todo # <<>>, UNCHANGED outcomes,
         target' = [target EXCEPT ![Part] = restore]
  PROVE  [Recovered EXCEPT ![Part] = Seen'[Part]] \in outcomes'
<1>1. Seen'[Part] = restore /\ Recovered[Part] = restore
  BY MovingPart DEF Seen, Recovered
<1>2. [Recovered EXCEPT ![Part] = Seen'[Part]] = Recovered
  BY <1>1 DEF Recovered
<1> QED
  BY <1>2 DEF MildStep, Whole

\* The parts that keep the station's own for certain do, where what a start
\* would make of the others is what it was.
LEMMA KeptWhole ==
  ASSUME MildStep, NEW certain, NEW perhaps, Kept(certain, perhaps)
  PROVE  [p \in Parts |-> IF p \in certain THEN Due[p] ELSE Recovered[p]] \in outcomes'
<1> DEFINE Result(f, some) == [p \in Parts |-> IF p \in certain \cup some THEN Due[p] ELSE f[p]]
<1>1. Recovered \in outcomes /\ {} \in SUBSET perhaps
  BY DEF MildStep, Whole
<1>2. outcomes' = {Result(f, some) : f \in outcomes, some \in SUBSET perhaps}
  BY DEF Kept
<1>3. Result(Recovered, {}) = [p \in Parts |-> IF p \in certain THEN Due[p] ELSE Recovered[p]]
  OBVIOUS
<1> HIDE DEF Result
<1>4. Result(Recovered, {}) \in outcomes'
  BY <1>1, <1>2
<1> QED
  BY <1>3, <1>4

LEMMA PartKeptWhole ==
  ASSUME MildStep, NEW p \in Parts, Kept({p}, {}), Seen'[p] = Due[p]
  PROVE  [Recovered EXCEPT ![p] = Seen'[p]] \in outcomes'
<1> DEFINE kept == [q \in Parts |-> IF q \in {p} THEN Due[q] ELSE Recovered[q]]
<1>1. kept \in outcomes'
  BY KeptWhole
<1>2. kept = [Recovered EXCEPT ![p] = Seen'[p]]
  BY DEF Recovered
<1> QED
  BY <1>1, <1>2

LEMMA MoveFileWhole == MildStep /\ MoveFile => Whole'
<1> SUFFICES ASSUME MildStep, MoveFile PROVE Whole'
  OBVIOUS
<1>1. /\ pc = "part" /\ pc' = "part" /\ todo # <<>> /\ todo' = Tail(todo) /\ Moving
      /\ UNCHANGED <<journal, life, faulty, restore, aside, owed>> /\ Part \in Files
      /\ staged' = [staged EXCEPT ![Part] = Tail(@)]
  BY DEF MoveFile, NextPart, which, Moving
<1>2. /\ aside'[Part] \subseteq {Empty} /\ Part \notin Folders
      /\ DOMAIN aside' = Parts /\ \A p \in Parts : aside'[p] = aside[p]
  BY <1>1, MovingPart, FoldersAreNoFiles DEF MildStep, Whole, Sound, MovedInTime, AtHome, Moved
<1>3. CASE target' = [target EXCEPT ![Part] = Copy(Part)] /\ UNCHANGED outcomes
  <2>1. target' = [target EXCEPT ![Part] = restore]
    BY <1>1, <1>3, MovingPart
  <2>2. [Recovered EXCEPT ![Part] = Seen'[Part]] \in outcomes'
    BY <1>1, <1>3, <2>1, PartInWhole
  <2>3. /\ DOMAIN target' = Parts /\ target'[Part] = restore
        /\ \A p \in Parts \ {Part} : target'[p] = target[p]
    BY <1>1, <2>1, MovingPart
  <2> QED
    BY <1>1, <1>2, <2>2, <2>3, PartDoneWhole
<1>4. CASE Kept({Part}, {}) /\ UNCHANGED target
  <2>1. Part \in Parts /\ DOMAIN target' = Parts
    BY <1>1, <1>4, MovingPart
  <2>2. Seen'[Part] = Due[Part]
    BY <1>2, <1>4, <2>1 DEF Seen, Due
  <2>3. [Recovered EXCEPT ![Part] = Seen'[Part]] \in outcomes'
    BY <1>4, <2>1, <2>2, PartKeptWhole
  <2> QED
    BY <1>1, <1>2, <1>4, <2>1, <2>3, PartDoneWhole
<1> QED
  BY <1>3, <1>4 DEF MoveFile, Place

\* A folder that did not go in though nothing of it was moved aside.
LEMMA FolderStaysWhole ==
  ASSUME MildStep, Moving, todo # <<>>, AtHome(Part),
         NextPart("part"), UNCHANGED <<journal, life, faulty, restore, target, owed>>,
         DropCopies(Part, Empty), Kept({Part}, {})
  PROVE  Whole'
<1>1. /\ staged' = [staged EXCEPT ![Part] = Tail(@)] /\ pc' = "part" /\ todo' = Tail(todo)
      /\ aside' = [aside EXCEPT ![Part] = @ \ {Empty}]
  BY FirstFault DEF DropCopies, NextPart
<1>2. /\ Part \in Parts /\ DOMAIN target = Parts /\ DOMAIN aside' = Parts
      /\ \A p \in Parts \ {Part} : aside'[p] = aside[p]
      /\ aside'[Part] \subseteq {Empty} /\ (Part \in Folders => owed'[Part] = Gone)
  BY <1>1, MovingPart DEF AtHome, Moved
<1>3. Seen'[Part] = Due[Part]
  BY <1>2 DEF Seen, Due
<1>4. [Recovered EXCEPT ![Part] = Seen'[Part]] \in outcomes'
  BY <1>2, <1>3, PartKeptWhole
<1> QED
  BY <1>1, <1>2, <1>4, PartDoneWhole

LEMMA MoveFolderAsideWhole == MildStep /\ MoveFolderAside => Whole'
<1> SUFFICES ASSUME MildStep, MoveFolderAside PROVE Whole'
  OBVIOUS
<1>1. /\ pc = "part" /\ Moving /\ Part \in Folders /\ todo # <<>>
      /\ UNCHANGED <<journal, life, restore>>
  BY DEF MoveFolderAside, Moving, which
<1>2. /\ Part \in ToSet(todo) /\ staged[Part] # <<>> /\ journal = "committed"
      /\ Part \in Parts /\ DOMAIN target = Parts /\ DOMAIN aside = Parts
      /\ DOMAIN owed = Folders
  BY <1>1, MovingPart
<1>3. \A p \in Parts : AtHome(p)
  BY <1>1 DEF MildStep, Whole, Sound, MovedInTime
<1>4. CASE /\ Stands(Part) /\ MoveAside(Part) /\ owed' = [owed EXCEPT ![Part] = Seen[Part]]
           /\ Goto("moved") /\ UNCHANGED <<staged, outcomes>>
  <2>1. /\ target' = [target EXCEPT ![Part] = Gone] /\ target[Part] # Gone
        /\ aside' = [aside EXCEPT ![Part] = (@ \ {Empty}) \cup {target[Part]}]
        /\ pc' = "moved" /\ UNCHANGED <<todo, faulty>>
    BY <1>4 DEF MoveAside, Place, Stands, Goto
  <2>2. Times' /\ Lists' /\ Moving' /\ ~Recovering' /\ ~Asked' /\ Part' = Part
    BY <1>1, <1>2, <2>1 DEF MildStep, Whole, Times, Lists, Recovering, Moving, Asked, Part
  <2>3. ConfigSound'
    <3>1. target'["config"] = target["config"]
      BY <1>1, <1>2, <2>1, FoldersAreNoFiles
    <3> QED
      BY <1>1, <2>1, <2>2, <3>1, ConfigStays
  <2>4. Moved(Part)' \subseteq {Aside'} /\ Seen'[Part] = Gone
    <3>1. Moved(Part)' = {target[Part]} \ {Empty}
      BY <1>2, <1>3, <2>1, <2>2 DEF Moved, AtHome
    <3>2. owed'[Part] = IF target[Part] = Empty THEN Gone ELSE target[Part]
      BY <1>1, <1>2, <1>4 DEF Seen
    <3>3. Aside' = IF owed'[Part] = Gone THEN Empty ELSE owed'[Part]
      BY <2>2 DEF Aside
    <3>4. target[Part] # Empty => target[Part] = Aside'
      BY <2>1, <3>2, <3>3
    <3>5. Seen'[Part] = Gone
      BY <1>2, <2>1 DEF Seen
    <3> QED
      BY <3>1, <3>4, <3>5
  <2>5. ASSUME NEW p \in Parts PROVE Sound(p)'
    <3>1. Single(p)' /\ Timely(p)'
      BY <1>1, <1>2, <1>4, <2>1, <2>2 DEF MildStep, Whole, Sound, Single, Timely, Copy
    <3>2. CASE p = Part
      BY <1>1, <1>2, <1>4, <2>1, <2>2, <2>4, <3>1, <3>2 DEF Sound, MovedInTime
    <3>3. CASE p # Part
      <4>1. AtHome(p)' /\ Moved(p)' = {}
        BY <1>2, <1>3, <1>4, <2>1, <3>3 DEF AtHome, Moved
      <4> QED
        BY <1>1, <1>2, <2>2, <3>1, <3>3, <4>1 DEF Sound, MovedInTime
    <3> QED
      BY <3>2, <3>3
  <2>6. Recovered' = Recovered
    BY <1>1, <1>2, <1>4, <2>1 DEF Recovered, Seen
  <2> QED
    BY <1>4, <2>2, <2>3, <2>5, <2>6 DEF MildStep, Whole
<1>5. CASE Goto("bare") /\ UNCHANGED <<disk, ghosts>>
  <2>1. pc' = "bare" /\ UNCHANGED <<todo, faulty, target, staged, aside, outcomes, owed>>
    BY <1>5 DEF Goto, disk, ghosts
  <2>2. Times' /\ Lists' /\ Moving' /\ ~Recovering' /\ ~Asked'
    BY <1>1, <1>2, <2>1 DEF MildStep, Whole, Times, Lists, Recovering, Moving, Asked
  <2>3. ConfigSound'
    BY <1>1, <2>1, <2>2, ConfigStays
  <2>4. ASSUME NEW p \in Parts PROVE Sound(p)'
    <3>1. Single(p)' /\ Timely(p)'
      BY <1>1, <1>2, <2>1, <2>2 DEF MildStep, Whole, Sound, Single, Timely, Copy
    <3>2. AtHome(p)' /\ Moved(p)' = {}
      BY <1>3, <2>1 DEF AtHome, Moved
    <3> QED
      BY <1>1, <1>2, <2>1, <3>1, <3>2 DEF Sound, MovedInTime
  <2>5. Recovered' = Recovered
    BY <1>1, <2>1 DEF Recovered, Seen
  <2> QED
    BY <2>1, <2>2, <2>3, <2>4, <2>5 DEF MildStep, Whole
<1>6. CASE /\ NextPart("part") /\ UNCHANGED faulty
           /\ DropCopies(Part, Empty) /\ Kept({Part}, {}) /\ UNCHANGED <<target, owed>>
  BY <1>1, <1>2, <1>3, <1>6, FolderStaysWhole
<1> QED
  BY <1>4, <1>5, <1>6 DEF MoveFolderAside

LEMMA MoveFolderInWhole == MildStep /\ MoveFolderIn => Whole'
<1> SUFFICES ASSUME MildStep, MoveFolderIn PROVE Whole'
  OBVIOUS
<1> DEFINE own == IF pc = "moved" THEN Aside ELSE Empty
<1>1. /\ pc \in {"moved", "bare"} /\ Moving /\ todo # <<>>
      /\ UNCHANGED <<journal, life, faulty, restore>>
  BY DEF MoveFolderIn, Moving, which, MildStep, CopySound, MovingSound
<1>2. CASE /\ Place(Part, Copy(Part)) /\ NextPart("part") /\ DropCopies(Part, own)
           /\ owed' = [owed EXCEPT ![Part] = Gone] /\ UNCHANGED outcomes
  <2>1. /\ pc' = "part" /\ todo' = Tail(todo) /\ target' = [target EXCEPT ![Part] = restore]
        /\ staged' = [staged EXCEPT ![Part] = Tail(@)]
        /\ aside' = [aside EXCEPT ![Part] = @ \ {own}]
    BY <1>1, <1>2, FirstFault, MovingPart DEF NextPart, Place, DropCopies
  <2>2. aside'[Part] \subseteq {Empty} /\ (Part \in Folders => owed'[Part] = Gone)
    <3>1. Moved(Part) \subseteq {own}
      BY <1>1, MovingPart DEF MildStep, Whole, Sound, MovedInTime, AtHome
    <3> QED
      BY <1>1, <1>2, <2>1, <3>1, MovingPart DEF Moved
  <2>3. /\ DOMAIN aside' = Parts /\ \A p \in Parts \ {Part} : aside'[p] = aside[p]
        /\ \A p \in Folders \ {Part} : owed'[p] = owed[p]
        /\ DOMAIN target' = Parts /\ target'[Part] = restore
        /\ \A p \in Parts \ {Part} : target'[p] = target[p]
    BY <1>1, <1>2, <2>1, MovingPart
  <2>4. [Recovered EXCEPT ![Part] = Seen'[Part]] \in outcomes'
    BY <1>1, <1>2, <2>1, PartInWhole
  <2> QED
    BY <1>1, <2>1, <2>2, <2>3, <2>4, PartDoneWhole
<1>3. CASE pc = "moved" /\ Fault /\ pc' = "putback" /\ UNCHANGED <<disk, todo, owed, outcomes>>
  <2>1. Failed' /\ UNCHANGED <<target, staged, aside>> /\ journal = "committed"
    BY <1>1, <1>3, FirstFault, MovingPart DEF disk
  <2>2. Times' /\ Lists' /\ Moving' /\ ~Recovering' /\ ~Asked'
    BY <1>1, <1>3, <2>1 DEF MildStep, Whole, Times, Lists, Recovering, Moving, Asked
  <2>3. ConfigSound'
    BY <1>1, <1>3, <2>1, <2>2, ConfigStays
  <2>4. ASSUME NEW p \in Parts PROVE Sound(p)'
    BY <1>1, <1>3, <2>1, <2>2 DEF MildStep, Whole, Sound, Single, Timely, MovedInTime, AtHome,
       Moved, Copy, Aside, Part, Seen
  <2>5. Recovered' = Recovered
    BY <1>1, <2>1 DEF Recovered, Seen
  <2> QED
    BY <1>3, <2>2, <2>3, <2>4, <2>5 DEF MildStep, Whole
<1>4. CASE /\ pc = "bare" /\ NextPart("part") /\ DropCopies(Part, Empty) /\ Kept({Part}, {})
           /\ UNCHANGED <<target, owed>>
  <2>1. AtHome(Part)
    BY <1>1, <1>4, MovingPart DEF MildStep, Whole, Sound, MovedInTime
  <2> QED
    BY <1>1, <1>4, <2>1, FolderStaysWhole
<1> QED
  BY <1>2, <1>3, <1>4 DEF MoveFolderIn

\* The station's own folder is back where it was, as what failed was the
\* first: there is no second failure.
LEMMA PutBackWhole == MildStep /\ PutBack => Whole'
<1> SUFFICES ASSUME MildStep, PutBack PROVE Whole'
  OBVIOUS
<1>1. pc = "putback" /\ Moving /\ todo # <<>> /\ Failed
  BY DEF PutBack, Moving, MildStep, CopySound, MovingSound, Whole, Times
<1>2. /\ pc' = "part" /\ todo' = Tail(todo) /\ target' = [target EXCEPT ![Part] = Aside]
      /\ staged' = [staged EXCEPT ![Part] = Tail(@)]
      /\ aside' = [aside EXCEPT ![Part] = @ \ {Aside}]
      /\ Kept({Part}, {}) /\ owed' = [owed EXCEPT ![Part] = Gone]
      /\ UNCHANGED <<journal, life, faulty, restore>>
  BY <1>1, FirstFault DEF PutBack, NextPart, Place, which
<1>3. Part \in Folders /\ Moved(Part) \subseteq {Aside} /\ Seen[Part] = Gone /\ Part \in Parts
  BY <1>1, MovingPart DEF MildStep, Whole, Sound, MovedInTime
<1>4. /\ aside'[Part] \subseteq {Empty} /\ owed'[Part] = Gone
      /\ DOMAIN aside' = Parts /\ \A p \in Parts \ {Part} : aside'[p] = aside[p]
      /\ \A p \in Folders \ {Part} : owed'[p] = owed[p]
      /\ DOMAIN target' = Parts /\ \A p \in Parts \ {Part} : target'[p] = target[p]
  BY <1>1, <1>2, <1>3, MovingPart DEF Moved
<1>5. Seen'[Part] = Due[Part]
  <2>1. owed[Part] # Empty
    BY <1>3 DEF MildStep, IInv, OwnSound
  <2>2. target'[Part] = IF owed[Part] = Gone THEN Empty ELSE owed[Part]
    BY <1>1, <1>2, <1>3, MovingPart DEF Aside
  <2>3. Seen'[Part] = IF owed[Part] = Gone THEN Gone ELSE owed[Part]
    BY <1>3, <2>1, <2>2 DEF Seen
  <2> QED
    BY <1>3, <2>3 DEF Due
<1>6. [Recovered EXCEPT ![Part] = Seen'[Part]] \in outcomes'
  BY <1>2, <1>3, <1>5, PartKeptWhole
<1> QED
  BY <1>1, <1>2, <1>3, <1>4, <1>6, PartDoneWhole

\* The folders of a commit cut short keep their copies, and a start may
\* still finish them.
LEMMA CutShortWhole == MildStep /\ CutShort => Whole'
<1> SUFFICES ASSUME MildStep, CutShort PROVE Whole'
  OBVIOUS
<1> DEFINE files == ToSet(todo) \cap Files
           folders == ToSet(todo) \cap Folders
           kept == [p \in Parts |-> IF p \in files THEN Due[p] ELSE Recovered[p]]
<1>1. /\ pc = "part" /\ Moving /\ todo' = <<>> /\ todo # <<>> /\ ~Failed /\ Failed'
      /\ UNCHANGED <<target, aside, journal, life, pc, faulty, restore, owed>>
      /\ Kept(files, folders)
      /\ staged' = [p \in Parts |-> IF p \in files THEN Tail(staged[p]) ELSE staged[p]]
  BY FirstFault DEF CutShort, Moving, which
<1>2. journal = "committed" /\ ToSet(todo') = {}
  BY <1>1 DEF MildStep, Whole, Times, ToSet
<1>3. ASSUME NEW p \in Parts PROVE staged'[p] = <<>> \/ (staged'[p] = staged[p] /\ p \in Folders)
  <2>1. staged[p] # <<>> => p \in ToSet(todo) /\ Tail(staged[p]) = <<>>
    BY <1>1 DEF MildStep, Whole, Sound, Timely, Single
  <2> QED
    BY <1>1, <2>1 DEF Parts
<1>4. Times' /\ Lists' /\ Moving' /\ ~Recovering' /\ ~Asked'
  BY <1>1, <1>2 DEF MildStep, Whole, Times, Lists, Recovering, Moving, Asked
<1>5. ConfigSound'
  BY <1>1, <1>4, ConfigStays
<1>6. ASSUME NEW p \in Parts PROVE Sound(p)'
  <2>1. AtHome(p) /\ AtHome(p)' /\ Moved(p)' = {}
    BY <1>1 DEF MildStep, Whole, Sound, MovedInTime, AtHome, Moved
  <2>2. Single(p)'
    BY <1>1, <1>2, <1>3 DEF MildStep, Whole, Sound, Single, Copy
  <2>3. Timely(p)'
    BY <1>1, <1>2, <1>3, <1>4 DEF Timely
  <2> QED
    BY <1>1, <1>2, <2>1, <2>2, <2>3 DEF Sound, MovedInTime
<1>7. kept \in outcomes'
  BY <1>1, KeptWhole
<1>8. Recovered' = kept
  <2>1. ASSUME NEW p \in Parts PROVE Recovered'[p] = kept[p]
    <3>1. CASE p \in files
      <4>1. staged'[p] = <<>> /\ p \notin Folders
        BY <1>3, <3>1, FoldersAreNoFiles
      <4> QED
        BY <1>1, <3>1, <4>1 DEF Recovered, Seen, Due
    <3>2. CASE p \notin files
      BY <1>1, <3>2 DEF Recovered, Seen
    <3> QED
      BY <3>1, <3>2
  <2> QED
    BY <2>1 DEF Recovered
<1> QED
  BY <1>4, <1>5, <1>6, <1>7, <1>8 DEF Whole

\* With every part done the station reads what is to be; without the journal
\* the copies of the folders that failed stand for nothing.
LEMMA EndCommitWhole == MildStep /\ EndCommit => Whole'
<1> SUFFICES ASSUME MildStep, EndCommit PROVE Whole'
  OBVIOUS
<1>1. /\ pc = "part" /\ ToSet(todo) = {} /\ pc' = "idle"
      /\ UNCHANGED <<target, staged, aside, life, faulty, restore, owed>>
  BY DEF EndCommit, Goto, disk, which, ToSet
<1>2. journal = "committed" /\ \A p \in Parts : AtHome(p)
  BY <1>1 DEF MildStep, Whole, Times, Sound, MovedInTime, Moving
<1>3. \A p \in Parts : staged[p] # <<>> => Failed /\ p \in Folders
  BY <1>1 DEF MildStep, Whole, Sound, Timely, Moving
<1>4. ~Recovering' /\ ~Moving' /\ ~Asked' /\ Lists'
  BY <1>1 DEF Recovering, Moving, Asked, Lists
<1>5. ConfigSound'
  BY <1>1, <1>4, ConfigStays
<1>6. ASSUME NEW p \in Parts PROVE AtHome(p)' /\ Moved(p)' = {}
  BY <1>1, <1>2 DEF AtHome, Moved
<1>7. CASE journal' = "none" /\ outcomes' = {Due}
  <2>1. Times'
    BY <1>1, <1>4, <1>7 DEF Times
  <2>2. ASSUME NEW p \in Parts PROVE Sound(p)'
    BY <1>1, <1>3, <1>4, <1>6, <1>7 DEF MildStep, Whole, Sound, Single, Timely, MovedInTime
  <2>3. Recovered' = Due
    BY <1>1, <1>2, <1>7, FoldersAreNoFiles DEF Recovered, Seen, Due, AtHome
  <2> QED
    BY <1>4, <1>5, <1>7, <2>1, <2>2, <2>3 DEF Whole
<1>8. CASE Fault /\ UNCHANGED <<journal, outcomes>>
  <2>1. ~Failed /\ Failed'
    BY <1>8, FirstFault
  <2>2. Times'
    BY <1>1, <1>2, <1>4, <1>8, <2>1 DEF Times
  <2>3. ASSUME NEW p \in Parts PROVE Sound(p)'
    BY <1>1, <1>2, <1>3, <1>4, <1>6, <1>8, <2>1 DEF Sound, Single, Timely, MovedInTime
  <2>4. Recovered' = Recovered
    BY <1>1, <1>8 DEF Recovered, Seen
  <2> QED
    BY <1>4, <1>5, <1>8, <2>2, <2>3, <2>4 DEF MildStep, Whole
<1> QED
  BY <1>7, <1>8 DEF EndCommit

-----------------------------------------------------------------------------

LEMMA StutterWhole == MildStep /\ UNCHANGED vars => Whole'
<1> SUFFICES ASSUME MildStep, UNCHANGED vars PROVE Whole'
  OBVIOUS
<1>1. /\ UNCHANGED <<target, staged, aside, journal, life, pc, todo, finishing, faulty,
                      restore, inside, faults, outcomes, owed>>
  BY DEF vars, disk, job, which, bounds, ghosts
<1>2. Part' = Part /\ Aside' = Aside /\ Seen' = Seen
  BY <1>1 DEF Part, Aside, Seen
<1>3. Times' /\ Lists' /\ ConfigSound'
  BY <1>1, <1>2 DEF MildStep, Whole, Times, Lists, ConfigSound, Asked, Recovering, Moving, Failed
<1>4. ASSUME NEW p \in Parts PROVE Sound(p)'
  BY <1>1, <1>2 DEF MildStep, Whole, Sound, Single, Timely, MovedInTime, AtHome, Moved, Copy,
     Half, Recovering, Moving, Failed
<1>5. Recovered' = Recovered
  BY <1>1, <1>2 DEF Recovered
<1> QED
  BY <1>1, <1>3, <1>4, <1>5 DEF MildStep, Whole

\* Every step of a station on which at most one thing fails keeps what a
\* start makes of its disk an outcome.
LEMMA NextWhole == MildStep /\ [Next]_vars => Whole'
<1> SUFFICES ASSUME MildStep, [Next]_vars PROVE Whole'
  OBVIOUS
<1>1. CASE Request \/ Restart \/ PowerCut \/ Start
  BY <1>1, BeginWhole, DownWhole
<1>2. CASE Recovery
  BY <1>2, RecoverPartWhole, InstallWhole, CleanWhole, EndRecoveryWhole DEF Recovery
<1>3. CASE StageJournal \/ StageCopy \/ FillCopy \/ Discard
  BY <1>3, StageJournalWhole, StageCopyWhole, FillCopyWhole, DiscardWhole
<1>4. CASE Commit
  BY <1>4, CommitJournalWhole, CommitConfigWhole, ConfigFailsWhole, MoveFileWhole,
     MoveFolderAsideWhole, MoveFolderInWhole, PutBackWhole, CutShortWhole, EndCommitWhole DEF Commit
<1>5. ASSUME NEW p \in Parts, Write(p) \/ MakeFolder(p) PROVE Whole'
  BY <1>5, WriteWhole, MakeFolderWhole
<1>6. CASE UNCHANGED vars
  BY <1>6, StutterWhole
<1> QED
  BY <1>1, <1>2, <1>3, <1>4, <1>5, <1>6 DEF Next

\* A station comes up from a start at the end of its recovery.
LEMMA ComesUpWhole == Whole /\ [Next]_vars => StartsWhole
<1> SUFFICES ASSUME Whole, [Next]_vars, life = "starting", life' = "up", ~faulty
             PROVE  Seen' \in outcomes
  BY DEF StartsWhole
<1>1. EndRecovery
  BY DEF Next, Commit, Recovery, Request, RecoverPart, Install, Clean, StageJournal, StageCopy,
     FillCopy, CommitJournal, CommitConfig, ConfigFails, MoveFile, MoveFolderAside, MoveFolderIn,
     PutBack, CutShort, EndCommit, Discard, Write, MakeFolder, Restart, PowerCut, Start, Down, vars
<1>2. Seen' = Seen
  BY <1>1 DEF EndRecovery, disk, Seen
<1> QED
  BY <1>1, <1>2, RecoveryEnds DEF Whole

\* recover_interrupted_restore at a start: whatever step of a restore or of
\* a recovery the power went at and however often, and whatever one rename
\* or write failed, a station that comes up from a start without a fault has
\* the whole backup but for the parts the restore named, or what it had, and
\* what others wrote since; never a mixture.
THEOREM WholeDespiteAFailure == Spec => WholeOrNothing
<1> DEFINE Safe == IInv /\ CopySound /\ HoldSound /\ Counts /\ (OneFailure => Whole)
<1>1. Init => Safe
  BY InitSound, InitCopies, InitWhole DEF Init, HoldSound
<1>2. Safe /\ [Next]_vars => Safe'
  BY NextKeeps, NextCopies, HoldKeeps, CountsKeep, NextWhole DEF MildStep
<1>3. Safe /\ [Next]_vars => (OneFailure => StartsWhole)
  BY ComesUpWhole
<1> HIDE DEF Safe
<1> QED
  BY <1>1, <1>2, <1>3, PTL DEF Spec, WholeOrNothing
-----------------------------------------------------------------------------
(* Types.  A file is never what stands for an empty folder, as only copies *)
(* and writers put one in its place; the asides of a file stay empty, as   *)
(* nothing but a folder is moved aside.                                    *)

\* The budgets spent stay within their bounds.
CountsOK ==
  /\ faults \in 0 .. MaxFaults /\ stuck \in 0 .. MaxStuck
  /\ cuts \in 0 .. MaxCuts /\ edits \in 0 .. MaxEdits

\* Where the station and its restore are.
StepOK ==
  /\ journal \in {"none", "pending", "committed"}
  /\ life \in {"off", "starting", "up"} /\ held \in BOOLEAN
  /\ pc \in {"idle", "recover", "install", "clean", "stage", "copy", "fill",
             "config", "part", "moved", "bare", "putback", "discard"}
  /\ finishing \in BOOLEAN /\ faulty \in BOOLEAN
  /\ inside \subseteq Parts /\ behind \subseteq Parts /\ remade \subseteq Folders

\* A part is worked at while there is one; only folders are moved aside.
TodoOK ==
  /\ todo \in Seq(Parts) /\ (pc \in {"install", "clean"} => todo # <<>>)
  /\ pc \in {"moved", "bare", "putback"} => Part \in Folders

\* Copies beside a part are of a restore, whole or half.
CopiesOK == \A p \in Parts : ToSet(staged[p]) \subseteq 1 .. 2 * MaxRestores

\* What stands in the place of a part, beside it, and what it is owed.
PlacesOK ==
  /\ target \in [Parts -> Contents \cup {Empty, Gone}]
  /\ aside \in [Parts -> SUBSET (Contents \cup {Empty})]
  /\ \A p \in Files : aside[p] = {} /\ target[p] # Empty
  /\ owed \in [Folders -> Contents \cup {Gone}]

Typed == CountsOK /\ StepOK /\ TodoOK /\ CopiesOK /\ PlacesOK

\* A step of a station whose variables have their types.
TypedStep == IInv /\ CopySound /\ Typed

LEMMA TypedIsTypeOK == CopySound /\ Typed => TypeOK
<1> SUFFICES ASSUME CopySound, Typed PROVE TypeOK
  OBVIOUS
<1>1. ToSet(todo) \subseteq Parts
  <2>1. todo \in Seq(Parts)
    BY DEF Typed, TodoOK
  <2> QED
    BY <2>1 DEF ToSet
<1> QED
  BY <1>1 DEF TypeOK, Typed, CountsOK, StepOK, CopiesOK, PlacesOK, CopySound, Kinds

LEMMA InitTyped == Init => Typed
<1> SUFFICES ASSUME Init PROVE Typed
  OBVIOUS
<1>1. <<>> \in Seq(Parts) /\ ToSet(<<>>) = {}
  BY DEF ToSet
<1>2. CountsOK
  BY BackupRestoreAssumption DEF Init, CountsOK
<1>3. PlacesOK
  <2>1. target \in [Parts -> {Own, Gone}] /\ Empty # Own /\ Empty # Gone
    BY BackupRestoreAssumption DEF Init, Contents
  <2> QED
    BY <2>1 DEF Init, PlacesOK, Contents, Parts
<1> QED
  BY <1>1, <1>2, <1>3 DEF Init, Typed, StepOK, TodoOK, CopiesOK

LEMMA NextCounts == CountsOK /\ [Next]_vars => CountsOK'
<1> SUFFICES ASSUME CountsOK, [Next]_vars PROVE CountsOK'
  OBVIOUS
<1> USE BackupRestoreAssumption DEF CountsOK, Fault, Stuck
<1>1. CASE Request \/ Restart \/ PowerCut \/ Start
  <2>1. CASE Request \/ Start
    <3>1. UNCHANGED <<stuck, cuts, edits>> /\ BeginRecovery
      BY <2>1 DEF Request, Start
    <3>2. faults' = faults \/ (faults < MaxFaults /\ faults' = faults + 1)
      BY <3>1 DEF BeginRecovery
    <3> QED
      BY <3>1, <3>2
  <2>2. CASE Restart
    BY <2>2 DEF Restart, Down
  <2>3. CASE PowerCut
    BY <2>3 DEF PowerCut, Down
  <2> QED
    BY <1>1, <2>1, <2>2, <2>3
<1>2. CASE Recovery
  BY SMTT(60), <1>2 DEF Recovery, RecoverPart, Install, Clean, EndRecovery, PartFaults
<1>3. CASE StageJournal \/ StageCopy \/ FillCopy \/ Discard
  BY SMTT(60), <1>3 DEF StageJournal, StageCopy, FillCopy, Discard
<1>4. CASE Commit
  BY SMTT(60), <1>4 DEF Commit, CommitJournal, CommitConfig, ConfigFails, MoveFile, MoveFolderAside,
     MoveFolderIn, PutBack, CutShort, EndCommit, DropCopies, bounds
<1>5. ASSUME NEW p \in Parts, Write(p) \/ MakeFolder(p) PROVE CountsOK'
  BY <1>5 DEF Write, MakeFolder, bounds
<1>6. CASE UNCHANGED vars
  BY <1>6 DEF vars, bounds
<1> QED
  BY <1>1, <1>2, <1>3, <1>4, <1>5, <1>6 DEF Next

LEMMA NextSteps == StepOK /\ [Next]_vars => StepOK'
<1> SUFFICES ASSUME StepOK, [Next]_vars PROVE StepOK'
  OBVIOUS
<1> USE DEF StepOK, Goto, NextPart
<1>1. CASE Request \/ Restart \/ PowerCut \/ Start
  BY <1>1 DEF Request, Restart, PowerCut, Start, Down, BeginRecovery, Parts, Files,
    which, ghosts
<1>2. CASE Recovery
  BY <1>2 DEF Recovery, RecoverPart, Install, Clean, EndRecovery, PartFaults, which,
    ghosts
<1>3. CASE StageJournal \/ StageCopy \/ FillCopy \/ Discard
  BY <1>3 DEF StageJournal, StageCopy, FillCopy, Discard, Discarded, which, ghosts
<1>4. CASE CommitJournal \/ CommitConfig \/ ConfigFails \/ CutShort \/ EndCommit
  BY <1>4 DEF CommitJournal, CommitConfig, ConfigFails, CutShort, EndCommit, Leftover,
    which
<1>5. CASE MoveFile \/ MoveFolderAside \/ MoveFolderIn \/ PutBack
  BY <1>5 DEF MoveFile, MoveFolderAside, MoveFolderIn, PutBack, which, ghosts
<1>6. ASSUME NEW p \in Parts, Write(p) \/ MakeFolder(p) PROVE StepOK'
  BY <1>6 DEF Write, MakeFolder, MadeAnew, job, which
<1>7. CASE UNCHANGED vars
  BY <1>7 DEF vars, job, which, ghosts
<1> QED
  BY <1>1, <1>2, <1>3, <1>4, <1>5, <1>6, <1>7 DEF Next, Commit

LEMMA NextTodo == TypedStep /\ [Next]_vars => TodoOK'
<1> SUFFICES ASSUME TypedStep, [Next]_vars PROVE TodoOK'
  OBVIOUS
<1>1. /\ todo \in Seq(Parts) /\ (pc \in {"install", "clean"} => todo # <<>>)
      /\ todo # <<>> => Tail(todo) \in Seq(Parts)
      /\ pc \in {"fill", "moved", "bare", "putback"} => todo # <<>>
      /\ <<>> \in Seq(Parts) /\ (pc \in {"moved", "bare", "putback"} => Part \in Folders)
  BY TailFacts DEF TypedStep, Typed, TodoOK, CopySound, StagingSound, MovingSound
<1> USE <1>1 DEF TodoOK, Goto, NextPart
<1>2. CASE Request \/ Start
  <2>1. pc' = "recover" /\ \E known \in BOOLEAN : todo' = RecoverySteps(known)
    BY <1>2 DEF Request, Start, BeginRecovery
  <2> QED
    BY <2>1, RecoveryStepsFacts
<1>3. CASE Restart \/ PowerCut
  BY <1>3 DEF Restart, PowerCut, Down
<1>4. CASE Recovery
  BY <1>4 DEF Recovery, RecoverPart, Install, Clean, EndRecovery, PartFaults
<1>5. CASE StageJournal
  <2>1. todo' = SetToSeq(inside \ {"config"}) \o <<"config">> => todo' \in Seq(Parts)
    <3>1. "config" \in inside /\ inside \in SUBSET Parts
      BY <1>5 DEF StageJournal, TypedStep, Typed, StepOK, CopySound, Kinds, Asked
    <3> QED
      BY <3>1, ConfigLast
  <2> QED
    BY <1>5, <2>1 DEF StageJournal
<1>6. CASE StageCopy \/ FillCopy \/ Discard \/ CommitJournal \/ ConfigFails
           \/ CutShort \/ EndCommit
  BY <1>6 DEF StageCopy, FillCopy, Discard, CommitJournal, ConfigFails, CutShort,
    EndCommit
<1>7. CASE CommitConfig
  <2>1. inside \ {"config"} \in SUBSET Parts
    BY DEF TypedStep, Typed, StepOK
  <2> QED
    BY <1>7, <2>1, SetToSeqOfParts DEF CommitConfig
<1>8. CASE MoveFile \/ MoveFolderAside \/ MoveFolderIn \/ PutBack
  BY <1>8 DEF MoveFile, MoveFolderAside, MoveFolderIn, PutBack, Part
<1>9. ASSUME NEW p \in Parts, Write(p) \/ MakeFolder(p) PROVE TodoOK'
  BY <1>9 DEF Write, MakeFolder, job, Part
<1>10. CASE UNCHANGED vars
  BY <1>10 DEF vars, job, Part
<1> QED
  BY <1>2, <1>3, <1>4, <1>5, <1>6, <1>7, <1>8, <1>9, <1>10 DEF Next, Commit

\* Copies go, or one of the restore is put before them.
LEMMA NextCopiesOK == TypedStep /\ [Next]_vars => CopiesOK'
<1> SUFFICES ASSUME TypedStep, [Next]_vars, NEW p \in Parts
             PROVE  ToSet(staged'[p]) \subseteq 1 .. 2 * MaxRestores
  BY DEF CopiesOK
<1> DEFINE OK(s) == ToSet(s) \subseteq 1 .. 2 * MaxRestores
<1>1. /\ staged \in [Parts -> Copies] /\ \A q \in Parts : OK(staged[q])
      /\ todo \in Seq(Parts) /\ (todo # <<>> => Part \in Parts)
  BY TailFacts DEF TypedStep, Typed, CopiesOK, TodoOK, CopySound, Kinds, Part
<1>2. \A q \in Parts : staged[q] # <<>> => OK(Tail(staged[q]))
  BY <1>1, CopyFacts DEF TypedStep, CopySound
<1>3. OK(<<>>)
  BY DEF ToSet
<1>4. \A q \in Parts : Ready(q) => staged[q] # <<>>
  BY DEF Ready
<1>5. Moving /\ todo # <<>> => staged[Part] # <<>>
  BY <1>1, TailFacts DEF TypedStep, CopySound, MovingSound, Part, Ready
<1>6. pc \in {"fill", "moved", "bare", "putback", "install", "clean"} => todo # <<>>
  BY DEF TypedStep, Typed, TodoOK, CopySound, StagingSound, MovingSound
<1>7. ASSUME NEW k \in {restore, Half(restore)}, NEW s \in Copies, OK(s), restore # 0
      PROVE  OK(<<k>> \o s)
  <2>1. restore \in 1 .. MaxRestores /\ MaxRestores \in Nat
    BY <1>7, BackupRestoreAssumption DEF TypedStep, CopySound, Kinds
  <2>2. k \in 1 .. 2 * MaxRestores /\ k \in 0 .. MaxRestores + restore
    BY <2>1 DEF Half
  <2>3. ToSet(<<k>> \o s) = {k} \cup ToSet(s)
    BY <2>2, PrependFacts DEF Copies
  <2> QED
    BY <1>7, <2>2, <2>3
<1>8. pc \in {"copy", "fill"} => restore # 0
  BY DEF TypedStep, CopySound, Kinds, Asked
<1> HIDE DEF OK
<1>9. CASE \/ staged'[p] = staged[p] \/ staged'[p] = <<>>
           \/ staged[p] # <<>> /\ staged'[p] = Tail(staged[p])
  BY <1>1, <1>2, <1>3, <1>9 DEF OK
<1>10. CASE StageCopy
  <2>1. /\ pc = "copy" /\ todo # <<>>
        /\ \/ UNCHANGED staged
           \/ staged' = [staged EXCEPT ![Part] = <<Half(restore)>> \o @]
    BY <1>10 DEF StageCopy
  <2>2. OK(<<Half(restore)>> \o staged[Part])
    BY <1>1, <1>7, <1>8, <2>1
  <2> QED
    BY <1>1, <2>1, <2>2 DEF OK
<1>11. CASE FillCopy
  <2>1. /\ pc = "fill"
        /\ \/ UNCHANGED staged
           \/ staged' = [staged EXCEPT ![Part] = <<restore>> \o Tail(@)]
    BY <1>11 DEF FillCopy
  <2>2. staged[Part] # <<>> /\ Tail(staged[Part]) \in Copies /\ OK(Tail(staged[Part]))
    BY <1>1, <1>2, <1>6, <2>1, CopyFacts DEF TypedStep, CopySound, StagingSound
  <2>3. OK(<<restore>> \o Tail(staged[Part]))
    BY <1>7, <1>8, <2>1, <2>2
  <2> QED
    BY <1>1, <2>1, <2>3 DEF OK
<1>12. CASE Discard
  <2>1. PICK removed : staged' = [q \in Parts |-> IF q \in removed THEN Others(q) ELSE staged[q]]
    BY <1>12 DEF Discard
  <2> QED
    BY <1>9, <2>1 DEF Others
<1>13. CASE Recovery
  <2>1. \/ UNCHANGED staged \/ staged' = [staged EXCEPT ![Part] = <<>>]
        \/ HasCopy(Part) /\ staged' = [staged EXCEPT ![Part] = Tail(@)]
    BY <1>13 DEF Recovery, RecoverPart, Install, Clean, EndRecovery, PartFaults, disk
  <2> QED
    BY <1>1, <1>9, <2>1 DEF HasCopy
<1>14. CASE CommitConfig
  <2>1. staged' = [staged EXCEPT !["config"] = Tail(@)] /\ staged["config"] # <<>>
    BY <1>14 DEF CommitConfig, TypedStep, CopySound, Kinds, StagingSound, Asked, Ready
  <2> QED
    BY <1>1, <1>9, <2>1
<1>15. CASE MoveFile \/ MoveFolderAside \/ MoveFolderIn \/ PutBack
  <2>1. /\ Moving /\ todo # <<>>
        /\ staged' \in {staged, [staged EXCEPT ![Part] = Tail(@)]}
    BY <1>6, <1>15 DEF MoveFile, MoveFolderAside, MoveFolderIn, PutBack, DropCopies,
      disk, Moving
  <2> QED
    BY <1>1, <1>5, <1>9, <2>1
<1>16. CASE CutShort
  <2>1. /\ Moving
        /\ staged' = [q \in Parts |-> IF q \in Files \cap ToSet(todo)
                                     THEN Tail(staged[q]) ELSE staged[q]]
    BY <1>16 DEF CutShort, Moving
  <2>2. p \in ToSet(todo) => staged[p] # <<>>
    BY <2>1 DEF TypedStep, CopySound, MovingSound, Ready
  <2> QED
    BY <1>9, <2>1, <2>2
<1>17. CASE UNCHANGED staged
  BY <1>9, <1>17
<1> QED
  BY <1>10, <1>11, <1>12, <1>13, <1>14, <1>15, <1>16, <1>17
    DEF Next, Commit, Request, StageJournal, CommitJournal, ConfigFails, EndCommit,
      Write, MakeFolder,
        Restart, PowerCut, Start, Down, disk, vars

\* What a part gets in its place, and what is taken from there.
LEMMA Placed ==
  ASSUME PlacesOK, NEW q \in Parts,
         NEW c \in Contents \cup {Empty, Gone}, q \in Files => c # Empty,
         target' = [target EXCEPT ![q] = c], aside' \in [Parts -> SUBSET (Contents \cup {Empty})],
         \A p \in Files : aside'[p] = {}, owed' \in [Folders -> Contents \cup {Gone}]
  PROVE  PlacesOK'
BY DEF PlacesOK, Parts

\* What is aside of a part loses a content, or gets one that a folder had.
LEMMA AsideOf ==
  ASSUME PlacesOK, NEW q \in Parts,
         NEW S \in SUBSET (Contents \cup {Empty}), q \in Files => S = {},
         aside' = [aside EXCEPT ![q] = S]
  PROVE  aside' \in [Parts -> SUBSET (Contents \cup {Empty})] /\ \A p \in Files : aside'[p] = {}
BY DEF PlacesOK, Parts

LEMMA AsideLess ==
  ASSUME PlacesOK, NEW q \in Parts, NEW c, aside' = [aside EXCEPT ![q] = @ \ {c}]
  PROVE  aside' \in [Parts -> SUBSET (Contents \cup {Empty})] /\ \A p \in Files : aside'[p] = {}
<1> DEFINE S == aside[q] \ {c}
<1>1. S \in SUBSET (Contents \cup {Empty}) /\ (q \in Files => S = {})
  BY DEF PlacesOK
<1>2. aside' = [aside EXCEPT ![q] = S]
  OBVIOUS
<1> HIDE DEF S
<1> QED
  BY <1>1, <1>2, AsideOf

LEMMA AsideMore ==
  ASSUME PlacesOK, NEW q \in Parts, q \notin Files, NEW c \in Contents \cup {Empty},
         aside' \in {[aside EXCEPT ![q] = @ \cup {c}], [aside EXCEPT ![q] = (@ \ {Empty}) \cup {c}]}
  PROVE  aside' \in [Parts -> SUBSET (Contents \cup {Empty})] /\ \A p \in Files : aside'[p] = {}
<1>1. PICK S \in {aside[q] \cup {c}, (aside[q] \ {Empty}) \cup {c}} :
        aside' = [aside EXCEPT ![q] = S]
  OBVIOUS
<1>2. S \in SUBSET (Contents \cup {Empty})
  BY DEF PlacesOK
<1> QED
  BY <1>1, <1>2, AsideOf

LEMMA NextPlaces == TypedStep /\ [Next]_vars => PlacesOK'
<1> SUFFICES ASSUME TypedStep, [Next]_vars PROVE PlacesOK'
  OBVIOUS
<1>1. /\ PlacesOK /\ todo \in Seq(Parts) /\ (todo # <<>> => Part \in Parts)
      /\ pc \in {"moved", "bare", "putback"} => Part \in Folders
      /\ pc \in {"fill", "moved", "bare", "putback", "install", "clean"} => todo # <<>>
  BY TailFacts DEF TypedStep, Typed, TodoOK, CopySound, StagingSound, MovingSound, Part
<1>2. /\ \A q \in Parts : /\ aside[q] \in SUBSET (Contents \cup {Empty})
                        /\ target[q] \in Contents \cup {Empty, Gone}
      /\ \A q \in Files : aside[q] = {} /\ target[q] # Empty
      /\ \A q \in Folders : owed[q] \in Contents \cup {Gone}
      /\ owed \in [Folders -> Contents \cup {Gone}]
      /\ aside \in [Parts -> SUBSET (Contents \cup {Empty})]
      /\ Empty # Gone /\ Empty \notin Contents /\ Gone \notin Contents /\ Edited \in Contents
  BY <1>1, BackupRestoreAssumption DEF PlacesOK, Parts, Contents
<1>3. \A q \in Parts : staged[q] # <<>> => Copy(q) \in Contents
  <2>1. ASSUME NEW q \in Parts, staged[q] # <<>> PROVE Copy(q) \in Contents
    <3>1. Copy(q) \in ToSet(staged[q]) /\ ToSet(staged[q]) \subseteq 1 .. 2 * MaxRestores
      BY <2>1, CopyFacts DEF TypedStep, Typed, CopiesOK, CopySound
    <3> QED
      BY <3>1 DEF Contents
  <2> QED
    BY <2>1
<1>4. Moving /\ todo # <<>> => staged[Part] # <<>>
  BY TailFacts DEF TypedStep, Typed, TodoOK, CopySound, MovingSound, Part, Ready
<1>5. \A q \in Folders : q \in Parts /\ q \notin Files
  BY FoldersAreNoFiles
<1>6. ASSUME NEW q \in Parts, NEW own, DropCopies(q, own)
      PROVE  /\ aside' \in [Parts -> SUBSET (Contents \cup {Empty})]
             /\ \A p \in Files : aside'[p] = {}
  BY <1>1, <1>2, <1>6, AsideLess DEF DropCopies
<1>7. CASE UNCHANGED <<target, aside, owed>>
  BY <1>1, <1>7 DEF PlacesOK
<1>8. CASE RecoverPart
  <2>1. CASE UNCHANGED disk
    BY <1>7, <1>8, <2>1 DEF RecoverPart, disk, ghosts
  <2>2. CASE /\ Part \in Folders /\ target[Part] # Gone
             /\ aside' = [aside EXCEPT ![Part] = @ \cup {target[Part]}] /\ Place(Part, Gone)
    <3>1. /\ Part \in Parts /\ Part \notin Files /\ target[Part] \in Contents \cup {Empty}
          /\ UNCHANGED owed /\ target' = [target EXCEPT ![Part] = Gone]
      BY <1>2, <1>5, <1>8, <2>2 DEF RecoverPart, ghosts, Place
    <3>2. aside' \in [Parts -> SUBSET (Contents \cup {Empty})] /\ \A p \in Files : aside'[p] = {}
      BY <1>1, <2>2, <3>1, AsideMore
    <3> QED
      BY <1>1, <1>2, <3>1, <3>2, Placed
  <2> QED
    BY <1>8, <2>1, <2>2 DEF RecoverPart, PartFaults
<1>9. CASE Install
  <2>1. CASE UNCHANGED <<disk, owed>>
    BY <1>7, <2>1 DEF disk
  <2>2. CASE ~UNCHANGED <<disk, owed>>
    <3>1. PICK content \in Sources(Part) :
            /\ target' = [target EXCEPT ![Part] = content]
            /\ UNCHANGED aside \/ aside' = [aside EXCEPT ![Part] = @ \ {content}]
            /\ owed' = [p \in Folders |-> IF p = Part THEN Gone ELSE owed[p]]
      BY <1>9, <2>2 DEF Install, PartFaults, Place
    <3>2. Part \in Parts
      BY <1>1, <1>9 DEF Install
    <3>3. content \in Contents
      BY <1>2, <1>3, <3>1, <3>2 DEF Sources, HasCopy, Moved
    <3>4. owed' \in [Folders -> Contents \cup {Gone}]
      BY <1>2, <3>1
    <3>5. aside' \in [Parts -> SUBSET (Contents \cup {Empty})] /\ \A p \in Files : aside'[p] = {}
      BY <1>1, <1>2, <3>1, <3>2, AsideLess
    <3> QED
      BY <1>1, <1>2, <3>1, <3>2, <3>3, <3>4, <3>5, Placed
  <2> QED
    BY <2>1, <2>2
<1>10. CASE Clean
  <2>1. /\ Part \in Parts /\ UNCHANGED <<target, owed>>
        /\ UNCHANGED aside \/ aside' = [aside EXCEPT ![Part] = {}]
    BY <1>1, <1>10 DEF Clean, ghosts
  <2>2. aside' \in [Parts -> SUBSET (Contents \cup {Empty})] /\ \A p \in Files : aside'[p] = {}
    BY <1>1, <1>2, <2>1, AsideOf
  <2> QED
    BY <1>1, <2>1, <2>2 DEF PlacesOK
<1>11. CASE EndRecovery
  BY <1>1, <1>11 DEF EndRecovery, disk, ghosts, PlacesOK
<1>12. CASE StageCopy
  <2>1. /\ UNCHANGED <<target, owed>> /\ Part \in Parts
        /\ UNCHANGED aside \/ (Part \notin Files /\ aside' = [aside EXCEPT ![Part] = @ \cup {Empty}])
    BY <1>1, <1>12 DEF StageCopy, ghosts
  <2>2. aside' \in [Parts -> SUBSET (Contents \cup {Empty})] /\ \A p \in Files : aside'[p] = {}
    BY <1>1, <1>2, <2>1, AsideMore
  <2> QED
    BY <1>1, <2>1, <2>2 DEF PlacesOK
<1>13. CASE CommitConfig
  <2>1. /\ "config" \in Parts /\ staged["config"] # <<>> /\ UNCHANGED <<aside, owed>>
        /\ target' = [target EXCEPT !["config"] = Copy("config")]
    BY <1>13 DEF CommitConfig, Place, TypedStep, CopySound, Kinds, StagingSound, Asked,
      Ready, Parts, Files
  <2> QED
    BY <1>1, <1>2, <1>3, <2>1, Placed
<1>14. CASE MoveFile
  <2>1. /\ Part \in Parts /\ staged[Part] # <<>> /\ UNCHANGED <<aside, owed>>
        /\ UNCHANGED target \/ target' = [target EXCEPT ![Part] = Copy(Part)]
    BY <1>1, <1>4, <1>14 DEF MoveFile, Place, Moving
  <2> QED
    BY <1>1, <1>2, <1>3, <1>7, <2>1, Placed
<1>15. CASE MoveFolderAside
  <2>1. Part \in Folders /\ Part \in Parts
    BY <1>5, <1>15 DEF MoveFolderAside
  <2>2. CASE Stands(Part) /\ MoveAside(Part) /\ owed' = [owed EXCEPT ![Part] = Seen[Part]]
    <3>1. /\ target' = [target EXCEPT ![Part] = Gone] /\ target[Part] \in Contents \cup {Empty}
          /\ aside' = [aside EXCEPT ![Part] = (@ \ {Empty}) \cup {target[Part]}]
      BY <1>2, <2>1, <2>2 DEF MoveAside, Place, Stands
    <3>2. Seen[Part] \in Contents \cup {Gone}
      BY <1>2, <2>1 DEF Seen
    <3>3. aside' \in [Parts -> SUBSET (Contents \cup {Empty})] /\ \A p \in Files : aside'[p] = {}
      BY <1>1, <1>5, <2>1, <3>1, AsideMore
    <3>4. owed' \in [Folders -> Contents \cup {Gone}]
      BY <1>2, <2>2, <3>2
    <3> QED
      BY <1>1, <1>5, <2>1, <3>1, <3>3, <3>4, Placed
  <2>3. CASE UNCHANGED <<target, owed>> /\ DropCopies(Part, Empty)
    BY <1>1, <1>2, <1>6, <2>1, <2>3 DEF PlacesOK
  <2> QED
    BY <1>7, <1>15, <2>2, <2>3 DEF MoveFolderAside, disk, ghosts
<1>16. CASE MoveFolderIn
  <2>1. Part \in Folders /\ Part \in Parts /\ Part \notin Files /\ staged[Part] # <<>>
    BY <1>1, <1>4, <1>5, <1>16 DEF MoveFolderIn, Moving
  <2>2. ASSUME NEW own, Place(Part, Copy(Part)), DropCopies(Part, own),
               owed' = [owed EXCEPT ![Part] = Gone]
        PROVE  PlacesOK'
    <3>1. owed' \in [Folders -> Contents \cup {Gone}]
      BY <1>2, <2>2
    <3> QED
      BY <1>1, <1>3, <1>6, <2>1, <2>2, <3>1, Placed DEF Place
  <2>3. CASE UNCHANGED <<target, owed>> /\ DropCopies(Part, Empty)
    BY <1>1, <1>2, <1>6, <2>1, <2>3 DEF PlacesOK
  <2> QED
    BY <1>7, <1>16, <2>2, <2>3 DEF MoveFolderIn, disk
<1>17. CASE PutBack
  <2>1. Part \in Folders /\ Part \in Parts /\ Part \notin Files
    BY <1>1, <1>5, <1>17 DEF PutBack
  <2>2. Aside \in Contents \cup {Empty}
    BY <1>2, <2>1 DEF Aside
  <2>3. CASE /\ Place(Part, Aside) /\ aside' = [aside EXCEPT ![Part] = @ \ {Aside}]
             /\ owed' = [owed EXCEPT ![Part] = Gone]
    <3>1. owed' \in [Folders -> Contents \cup {Gone}]
      BY <1>2, <2>3
    <3>2. aside' \in [Parts -> SUBSET (Contents \cup {Empty})] /\ \A p \in Files : aside'[p] = {}
      BY <1>1, <2>1, <2>3, AsideLess
    <3> QED
      BY <1>1, <2>1, <2>2, <2>3, <3>1, <3>2, Placed DEF Place
  <2> QED
    BY <1>7, <1>17, <2>3 DEF PutBack, disk
<1>18. CASE Discard
  <2>1. /\ UNCHANGED <<target, owed>>
        /\ UNCHANGED aside \/ aside' = [p \in Parts |-> aside[p] \ {Empty}]
    BY <1>18 DEF Discard
  <2> QED
    BY <1>1, <1>2, <2>1, <1>5 DEF PlacesOK, Parts
<1>19. ASSUME NEW q \in Parts, Write(q) \/ MakeFolder(q) PROVE PlacesOK'
  <2>1. /\ UNCHANGED <<aside, owed>>
        /\ \/ target' = [target EXCEPT ![q] = Edited]
           \/ q \in Folders /\ target' = [target EXCEPT ![q] = Empty]
    BY <1>19, BackupRestoreAssumption DEF Write, MakeFolder, Place
  <2> QED
    BY <1>1, <1>2, <1>5, <1>19, <2>1, Placed
<1> QED
  BY <1>7, <1>8, <1>9, <1>10, <1>11, <1>12, <1>13, <1>14, <1>15, <1>16, <1>17, <1>18,
    <1>19
    DEF Next, Commit, Recovery, Request, StageJournal, FillCopy, CommitJournal,
      ConfigFails, CutShort,
        EndCommit, Restart, PowerCut, Start, Down, disk, ghosts, vars

\* The variables of a restore keep their types, and so every part stands for
\* something of the station's or of a restore, or for nothing.
THEOREM TypeCorrect == Spec => []TypeOK
<1>1. Init => IInv /\ CopySound /\ Typed
  BY InitSound, InitCopies, InitTyped
<1>2. IInv /\ CopySound /\ Typed /\ [Next]_vars => (IInv /\ CopySound /\ Typed)'
  BY NextKeeps, NextCopies, NextCounts, NextSteps, NextTodo, NextCopiesOK,
    NextPlaces DEF TypedStep, Typed
<1>3. IInv /\ CopySound /\ Typed => TypeOK
  BY TypedIsTypeOK
<1> QED
  BY <1>1, <1>2, <1>3, PTL DEF Spec
=============================================================================
