--------------------------- MODULE BackupRestore ---------------------------
(***************************************************************************)
(* Restoring a settings backup (config_restore.py, restore_hold.py and the *)
(* restore request in web/routes.py).  The backup's config, marker catalog *)
(* and folders are staged beside the station's, then swapped in by renames *)
(* under a journal, with the station's folders moved aside meanwhile.  The *)
(* power may go at any step; a start finishes what the journal committed   *)
(* and undoes the rest.  Any rename may fail, and a leftover may refuse to *)
(* go away.                                                                *)
(*                                                                         *)
(* A file or folder is known by the restore its content is from.  Staging  *)
(* syncs what it writes, so a staged copy a commit finds is whole.         *)
(***************************************************************************)
EXTENDS Naturals, Sequences, SequencesExt, FiniteSets

CONSTANTS
  Folders,      \* the folders of this instance, of templates and lenses
  EarlyMaking,  \* folders whose writer makes them before it asks the hold
  MaxRestores,  \* bound: restore requests
  MaxFaults,    \* bound: renames and writes that fail
  MaxStuck,     \* bound: parts whose leftovers do not go away
  MaxCuts,      \* bound: power cuts
  MaxEdits,     \* bound: writes by anyone else
  Own, Edited,  \* contents that come from no backup
  Empty, Gone   \* a folder with nothing in it; nothing at all

Files == {"config", "catalog"}
Parts == Files \cup Folders

\* A staged copy of the k-th restore that is not written to its end.
Half(k) == MaxRestores + k

\* What is the station's own, or of a restore, written to its end or not.
Contents == {Own, Edited} \cup 1 .. 2 * MaxRestores

ASSUME BackupRestoreAssumption ==
  /\ EarlyMaking \subseteq Folders /\ Folders \cap Files = {} /\ IsFiniteSet(Folders)
  /\ {MaxRestores, MaxFaults, MaxStuck, MaxCuts, MaxEdits} \subseteq Nat
  /\ Empty # Gone /\ {Empty, Gone} \cap Contents = {}
  /\ {Own, Edited} \cap 1 .. 2 * MaxRestores = {}

VARIABLES
  target,   \* what stands where the station reads it
  staged,   \* the .restore copies beside it, newest first
  aside,    \* the .old folders beside it
  journal,  \* the journal on the disk
  life,     \* the station: off, starting or up
  held,     \* restore_hold: the restored parts refuse other writers
  pc,       \* the step of the restore or of the recovery under way
  todo,     \* the parts it has left
  finishing,\* recovery: the journal was a committed one
  faulty,   \* recovery: a part could not be put right
  restore,  \* the number of the restore under way, or of the last one
  inside,   \* the parts its backup holds
  behind,   \* ghost: parts with an earlier restore's copy left at the commit
  faults, stuck, cuts, edits,  \* what the bounds count
  outcomes, \* ghost: what a start without a fault may find in place
  owed,     \* ghost: what a failed part's folder must get back, or Gone
  remade    \* ghost: the folders another writer made while theirs was owed

disk == <<target, staged, aside>>
job == <<pc, todo, finishing, faulty>>
which == <<restore, inside, behind>>
bounds == <<faults, stuck, cuts, edits>>
ghosts == <<outcomes, owed, remade>>
vars == <<disk, journal, life, held, job, which, bounds, ghosts>>

-----------------------------------------------------------------------------
(* The disk.                                                               *)

Fault == faults < MaxFaults /\ faults' = faults + 1
Stuck == stuck < MaxStuck /\ stuck' = stuck + 1

\* The leftovers with something of the station's in them.
Moved(p) == aside[p] \ {Empty}

\* The commit's own copy; an older one may still lie behind it.
Copy(p) == Head(staged[p])

Place(p, content) == target' = [target EXCEPT ![p] = content]

\* Mutant: moving aside what is not there.
StandsAlways(p) == TRUE

\* Something to move aside: a folder the station does not have is no error.
Stands(p) == target[p] # Gone

\* A folder at the target goes into an aside; the empty place waiting for
\* it is the one it takes.
MoveAside(p) ==
  /\ aside' = [aside EXCEPT ![p] = (@ \ {Empty}) \cup {target[p]}]
  /\ Place(p, Gone)

\* The staged copy is used up or removed, and the restore's own aside with it.
DropCopies(p, own) ==
  /\ staged' = [staged EXCEPT ![p] = Tail(@)]
  /\ \/ aside' = [aside EXCEPT ![p] = @ \ {own}] /\ UNCHANGED stuck
     \/ Stuck /\ UNCHANGED aside

Goto(step) == pc' = step /\ UNCHANGED <<todo, finishing, faulty>>
Part == Head(todo)
NextPart(step) == pc' = step /\ todo' = Tail(todo)

\* What the station reads: a folder with nothing in it is as none at all.
Seen == [p \in Parts |-> IF target[p] = Empty THEN Gone ELSE target[p]]

\* What it is to have: what it reads, with the folders it still must get back.
Due == [p \in Parts |-> IF p \in Folders /\ owed[p] # Gone THEN owed[p] ELSE Seen[p]]

Overlay(state) == [p \in Parts |-> IF p \in inside THEN restore ELSE state[p]]

-----------------------------------------------------------------------------
(* recover_interrupted_restore, at every start and before every restore.   *)

\* Mutant: the config is taken for restored once the journal is committed.
StepsSparingConfig(known) ==
  (IF known THEN <<"catalog">> ELSE <<>>) \o SetToSeq(Folders)

RecoverySteps(known) ==
  <<"config">> \o (IF known THEN <<"catalog">> ELSE <<>>) \o SetToSeq(Folders)

\* The journal names the catalog; one that is there may fail to read.
BeginRecovery ==
  /\ pc' = "recover" /\ finishing' = (journal = "committed")
  /\ \/ /\ todo' = RecoverySteps(journal # "none")
        /\ faulty' = FALSE /\ UNCHANGED faults
     \/ /\ journal # "none" /\ Fault
        /\ todo' = RecoverySteps(FALSE)
        /\ faulty' = TRUE

\* Mutant: a copy is installed whether the restore committed or not.
StagedAtAll(p) == staged[p] # <<>>

HasCopy(p) == finishing /\ staged[p] # <<>>

\* What a part is put right from: the commit's copy, else a folder of the
\* station's left aside with nothing in its place.
Sources(p) ==
  IF HasCopy(p) THEN {Copy(p)}
  ELSE IF p \in Folders /\ target[p] = Gone THEN Moved(p) ELSE {}

\* Mutant: a fault ends the start.
PartRaises ==
  /\ Fault /\ faulty' = TRUE /\ pc' = "idle" /\ todo' = <<>>
  /\ UNCHANGED <<disk, finishing>>

PartFaults ==
  /\ Fault /\ faulty' = TRUE /\ NextPart("recover")
  /\ UNCHANGED <<disk, finishing>>

RecoverPart ==
  /\ pc = "recover" /\ todo # <<>>
  /\ \/ PartFaults
     \/ /\ UNCHANGED faults
        /\ \/ Sources(Part) = {} /\ Goto("clean") /\ UNCHANGED disk
           \/ /\ Sources(Part) # {} /\ Part \in Folders /\ target[Part] # Gone
              /\ aside' = [aside EXCEPT ![Part] = @ \cup {target[Part]}]
              /\ Place(Part, Gone) /\ Goto("install") /\ UNCHANGED staged
           \/ /\ Sources(Part) # {} /\ (Part \in Files \/ target[Part] = Gone)
              /\ Goto("install") /\ UNCHANGED disk
  /\ UNCHANGED <<journal, life, held, which, stuck, cuts, edits, ghosts>>

\* os.replace of the source onto the target.
Install ==
  /\ pc = "install"
  /\ \/ PartFaults /\ UNCHANGED owed
     \/ /\ UNCHANGED faults /\ Goto("clean")
        /\ \E content \in Sources(Part) :
             /\ Place(Part, content)
             /\ IF HasCopy(Part)
                THEN staged' = [staged EXCEPT ![Part] = Tail(@)] /\ UNCHANGED aside
                ELSE aside' = [aside EXCEPT ![Part] = @ \ {content}] /\ UNCHANGED staged
        /\ owed' = [p \in Folders |-> IF p = Part THEN Gone ELSE owed[p]]
  /\ UNCHANGED <<journal, life, held, which, stuck, cuts, edits, outcomes, remade>>

Clean ==
  /\ pc = "clean" /\ NextPart("recover")
  /\ \/ /\ staged' = [staged EXCEPT ![Part] = <<>>]
        /\ aside' = [aside EXCEPT ![Part] = {}]
        /\ UNCHANGED stuck
     \/ /\ staged[Part] # <<>> \/ aside[Part] # {}
        /\ Stuck /\ UNCHANGED <<staged, aside>>
  /\ UNCHANGED <<target, journal, life, held, finishing, faulty, which,
                 faults, cuts, edits, ghosts>>

\* The journal stays with a fault, for the next start.  The station comes
\* up either way; a request goes on to its restore.
EndRecovery ==
  /\ pc = "recover" /\ todo = <<>>
  /\ life' = "up" /\ Goto(IF life = "starting" THEN "idle" ELSE "stage")
  /\ \/ faulty /\ UNCHANGED <<journal, faults>>
     \/ ~faulty /\ journal' = "none" /\ UNCHANGED faults
     \/ ~faulty /\ journal # "none" /\ Fault /\ UNCHANGED journal
  /\ IF faulty THEN UNCHANGED ghosts
     ELSE /\ outcomes' = {Seen}
          /\ owed' = [p \in Folders |-> Gone] /\ remade' = {}
  /\ UNCHANGED <<disk, held, which, stuck, cuts, edits>>

-----------------------------------------------------------------------------
(* The restore request: one at a time, and none after a committed one.     *)

Request ==
  /\ life = "up" /\ pc = "idle" /\ ~held
  /\ journal # "committed"
  /\ restore < MaxRestores /\ restore' = restore + 1
  /\ \E parts \in {Parts, {"config"}} : inside' = parts
  /\ BeginRecovery /\ UNCHANGED behind
  /\ UNCHANGED <<disk, journal, life, held, stuck, cuts, edits, ghosts>>

\* stage_restore: the journal first, then the copies, each with the place
\* its folder is moved aside to.  The first error takes all of it away.
StageJournal ==
  /\ pc = "stage"
  /\ \/ /\ journal' = "pending" /\ pc' = "copy" /\ UNCHANGED faults
        /\ todo' = SetToSeq(inside \ {"config"}) \o <<"config">>
     \/ Fault /\ pc' = "discard" /\ UNCHANGED <<journal, todo>>
  /\ UNCHANGED <<disk, life, held, finishing, faulty, which, stuck, cuts, edits, ghosts>>

\* The config's is the last, in its slot and inside the commit's gate; an
\* update queued meanwhile refuses the restore before it (restart_after).
StageCopy ==
  /\ pc = "copy" /\ todo # <<>>
  /\ \/ /\ staged' = [staged EXCEPT ![Part] = <<Half(restore)>> \o @]
        /\ aside' = IF Part \in Files THEN aside
                    ELSE [aside EXCEPT ![Part] = @ \cup {Empty}]
        /\ Goto("fill") /\ UNCHANGED faults
     \/ Fault /\ Goto("discard") /\ UNCHANGED <<staged, aside>>
     \/ /\ Part = "config" /\ Goto("discard")
        /\ UNCHANGED <<staged, aside, faults>>
  /\ UNCHANGED <<target, journal, life, held, which, stuck, cuts, edits, ghosts>>

FillCopy ==
  /\ pc = "fill"
  /\ \/ /\ staged' = [staged EXCEPT ![Part] = <<restore>> \o Tail(@)]
        /\ NextPart("copy") /\ UNCHANGED <<faults, finishing, faulty>>
     \/ Fault /\ Goto("discard") /\ UNCHANGED staged
  /\ UNCHANGED <<target, aside, journal, life, held, which, stuck, cuts, edits, ghosts>>

\* The parts that have a copy of an earlier restore.
Leftover == {p \in Parts : ~(ToSet(staged[p]) \subseteq {restore, Half(restore)})}

\* StagedRestore.commit: the journal is renamed before the first copy.
CommitJournal ==
  /\ pc = "copy" /\ todo = <<>>
  /\ \/ /\ journal' = "committed" /\ Goto("config") /\ UNCHANGED faults
        /\ outcomes' = outcomes \cup {Overlay(f) : f \in outcomes}
        /\ behind' = Leftover
     \/ Fault /\ Goto("discard") /\ UNCHANGED <<journal, outcomes, behind>>
  /\ UNCHANGED <<disk, life, held, restore, inside, stuck, cuts, edits, owed, remade>>

\* With the config in place every restored part is held and nothing raises.
CommitConfig ==
  /\ pc = "config"
  /\ Place("config", Copy("config"))
  /\ staged' = [staged EXCEPT !["config"] = Tail(@)]
  /\ held' = TRUE
  /\ pc' = "part" /\ todo' = SetToSeq(inside \ {"config"})
  /\ outcomes' = {Overlay(f) : f \in outcomes}
  /\ UNCHANGED <<aside, journal, life, finishing, faulty, which, bounds, owed, remade>>

ConfigFails ==
  /\ pc = "config" /\ Goto("discard")
  /\ \/ /\ Fault /\ journal' = "pending"
        /\ outcomes' = {f \in outcomes : f["config"] # restore}
     \/ faults + 1 < MaxFaults /\ faults' = faults + 2 /\ UNCHANGED <<journal, outcomes>>
  /\ UNCHANGED <<disk, life, held, which, stuck, cuts, edits, owed, remade>>

\* Parts that keep the station's own: for certain when their copies are
\* gone, and unless the next start still finds the journal otherwise.
Kept(certain, perhaps) ==
  outcomes' = {[p \in Parts |-> IF p \in certain \cup some THEN Due[p] ELSE f[p]] :
                 f \in outcomes, some \in SUBSET perhaps}

MoveFile ==
  /\ pc = "part" /\ todo # <<>> /\ Part \in Files /\ NextPart("part")
  /\ staged' = [staged EXCEPT ![Part] = Tail(@)]
  /\ \/ Place(Part, Copy(Part)) /\ UNCHANGED <<faults, outcomes>>
     \/ Fault /\ Kept({Part}, {}) /\ UNCHANGED target
  /\ UNCHANGED <<aside, journal, life, held, finishing, faulty, which,
                 stuck, cuts, edits, owed, remade>>

\* _move_in: the station's folder aside, the copy in, the other one away.
MoveFolderAside ==
  /\ pc = "part" /\ todo # <<>> /\ Part \in Folders
  /\ \/ /\ Stands(Part) /\ MoveAside(Part)
        /\ owed' = [owed EXCEPT ![Part] = Seen[Part]] /\ remade' = remade \ {Part}
        /\ Goto("moved") /\ UNCHANGED <<staged, faults, stuck, outcomes>>
     \/ /\ ~Stands(Part) /\ Goto("bare")
        /\ UNCHANGED <<disk, faults, stuck, ghosts>>
     \/ /\ Fault /\ NextPart("part") /\ UNCHANGED <<finishing, faulty>>
        /\ DropCopies(Part, Empty) /\ Kept({Part}, {}) /\ UNCHANGED <<target, owed, remade>>
  /\ UNCHANGED <<journal, life, held, which, cuts, edits>>

\* What the restore has moved aside.
Aside == IF owed[Part] = Gone THEN Empty ELSE owed[Part]

MoveFolderIn ==
  /\ pc \in {"moved", "bare"}
  /\ \/ /\ Place(Part, Copy(Part)) /\ NextPart("part")
        /\ DropCopies(Part, IF pc = "moved" THEN Aside ELSE Empty)
        /\ owed' = [owed EXCEPT ![Part] = Gone] /\ UNCHANGED <<faults, outcomes>>
     \/ /\ pc = "moved" /\ Fault /\ pc' = "putback"
        /\ UNCHANGED <<disk, todo, stuck, owed, outcomes>>
     \/ /\ pc = "bare" /\ Fault /\ NextPart("part")
        /\ DropCopies(Part, Empty) /\ Kept({Part}, {}) /\ UNCHANGED <<target, owed>>
  /\ UNCHANGED <<journal, life, held, finishing, faulty, which, cuts, edits, remade>>

\* Mutant: the copies are removed though the folder was not put back.
PutBackOrDrop ==
  /\ pc = "putback" /\ NextPart("part")
  /\ DropCopies(Part, Aside) /\ Kept({Part}, {})
  /\ \/ /\ Place(Part, Aside)
        /\ owed' = [owed EXCEPT ![Part] = Gone] /\ UNCHANGED faults
     \/ Fault /\ UNCHANGED <<target, owed>>
  /\ UNCHANGED <<journal, life, held, finishing, faulty, which, cuts, edits, remade>>

\* A folder that did not go in: the station's own is put back, and when
\* that fails too every copy stays for the next start.
PutBack ==
  /\ pc = "putback" /\ NextPart("part")
  /\ \/ /\ Place(Part, Aside)
        /\ staged' = [staged EXCEPT ![Part] = Tail(@)]
        /\ aside' = [aside EXCEPT ![Part] = @ \ {Aside}]
        /\ Kept({Part}, {})
        /\ owed' = [owed EXCEPT ![Part] = Gone] /\ UNCHANGED <<faults, stuck>>
     \/ Fault /\ Kept({}, {Part}) /\ UNCHANGED <<disk, stuck, owed>>
  /\ UNCHANGED <<journal, life, held, finishing, faulty, which, cuts, edits, remade>>

\* An error nobody expected: what is left stays the station's, a staged
\* catalog goes and a folder's copies are the next start's to sort.
CutShort ==
  /\ pc = "part" /\ todo # <<>> /\ Fault
  /\ todo' = <<>> /\ Kept(ToSet(todo) \cap Files, ToSet(todo) \cap Folders)
  /\ staged' = [p \in Parts |-> IF p \in Files \cap ToSet(todo) THEN Tail(staged[p]) ELSE staged[p]]
  /\ UNCHANGED <<target, aside, journal, life, held, pc, finishing, faulty,
                 which, stuck, cuts, edits, owed, remade>>

EndCommit ==
  /\ pc = "part" /\ todo = <<>> /\ Goto("idle")
  /\ \/ journal' = "none" /\ outcomes' = {Due} /\ UNCHANGED faults
     \/ Fault /\ UNCHANGED <<journal, outcomes>>
  /\ UNCHANGED <<disk, life, held, which, stuck, cuts, edits, owed, remade>>

\* A part's copies but the restore's own, which is the newest.
Others(p) ==
  IF staged[p] # <<>> /\ Copy(p) \in {restore, Half(restore)} THEN Tail(staged[p]) ELSE staged[p]

\* discard removes the journal of a restore that never committed.
Discarded == IF journal = "committed" THEN journal ELSE "none"

\* discard of what never committed, the journal last: the catalog, the
\* config, the folders.  A file that does not go away ends it.
Discard ==
  /\ pc = "discard" /\ Goto("idle")
  /\ \E removed \in {{}, {"catalog"}, Parts} :
       /\ staged' = [p \in Parts |-> IF p \in removed THEN Others(p) ELSE staged[p]]
       /\ IF removed = Parts
          THEN /\ aside' = [p \in Parts |-> aside[p] \ {Empty}]
               /\ journal' = Discarded
               /\ outcomes' = {Due}
               /\ UNCHANGED stuck
          ELSE Stuck /\ UNCHANGED <<aside, journal, outcomes>>
  /\ UNCHANGED <<target, life, held, which, faults, cuts, edits, owed, remade>>

-----------------------------------------------------------------------------
(* The station around it.                                                  *)

\* Inside restore_hold.GATE, from the config's slot to the journal's end.
Gated ==
  \/ pc \in {"config", "part", "moved", "bare", "putback"}
  \/ pc \in {"copy", "fill"} /\ todo \in {<<>>, <<"config">>}

\* unless_held.
MayWrite == ~Gated /\ ~held

\* A part is made anew by another writer: no start puts back what it was.
MadeAnew(p) == remade' = IF p \in Folders /\ owed[p] # Gone THEN remade \cup {p} ELSE remade

\* Any other writer of a part (save_config, save_catalog, a template or a
\* lens): inside the gate, and refused what a restore holds.  A part a
\* faulty start left to restore is replaced when its restore is finished.
Write(p) ==
  /\ life = "up" /\ MayWrite
  /\ edits < MaxEdits /\ edits' = edits + 1
  /\ Place(p, Edited) /\ MadeAnew(p)
  /\ outcomes' = {[f EXCEPT ![p] = Edited] : f \in outcomes}
       \cup (IF journal = "committed" /\ staged[p] # <<>> THEN outcomes ELSE {})
  /\ UNCHANGED <<staged, aside, journal, life, held, job, which,
                 faults, stuck, cuts, owed>>

\* A save that makes the folder and only then finds it held.
MakeFolder(p) ==
  /\ p \in EarlyMaking /\ life = "up" /\ target[p] = Gone
  /\ Place(p, Empty) /\ MadeAnew(p)
  /\ UNCHANGED <<staged, aside, journal, life, held, job, which, bounds, outcomes, owed>>

Down ==
  /\ life' = "off" /\ held' = FALSE
  /\ pc' = "idle" /\ todo' = <<>> /\ finishing' = FALSE /\ faulty' = FALSE
  /\ UNCHANGED <<disk, journal, which, faults, stuck, edits, ghosts>>

\* The restart a restore asks for.
Restart == held /\ pc = "idle" /\ Down /\ UNCHANGED cuts

PowerCut == life # "off" /\ cuts < MaxCuts /\ cuts' = cuts + 1 /\ Down

Start ==
  /\ life = "off" /\ life' = "starting"
  /\ BeginRecovery
  /\ UNCHANGED <<disk, journal, held, which, stuck, cuts, edits, ghosts>>

Recovery == RecoverPart \/ Install \/ Clean \/ EndRecovery

Commit ==
  \/ CommitJournal \/ CommitConfig \/ ConfigFails
  \/ MoveFile \/ MoveFolderAside \/ MoveFolderIn \/ PutBack
  \/ CutShort \/ EndCommit

Init ==
  /\ target \in {f \in [Parts -> {Own, Gone}] : f["config"] = Own}
  /\ staged = [p \in Parts |-> <<>>] /\ aside = [p \in Parts |-> {}]
  /\ journal = "none" /\ life = "up" /\ held = FALSE
  /\ pc = "idle" /\ todo = <<>> /\ finishing = FALSE /\ faulty = FALSE
  /\ restore = 0 /\ inside = {} /\ behind = {}
  /\ faults = 0 /\ stuck = 0 /\ cuts = 0 /\ edits = 0
  /\ outcomes = {target} /\ owed = [p \in Folders |-> Gone] /\ remade = {}

Next ==
  \/ Request \/ Recovery
  \/ StageJournal \/ StageCopy \/ FillCopy \/ Commit \/ Discard
  \/ \E p \in Parts : Write(p) \/ MakeFolder(p)
  \/ Restart \/ PowerCut \/ Start

Spec == Init /\ [][Next]_vars

\* A start runs through its recovery, and the power comes back.
FairSpec == Spec /\ WF_vars(Start) /\ WF_vars(Recovery)

-----------------------------------------------------------------------------
(* Properties.                                                             *)

TypeOK ==
  /\ target \in [Parts -> Contents \cup {Empty, Gone}]
  /\ \A p \in Parts :
       /\ ToSet(staged[p]) \subseteq 1 .. 2 * MaxRestores
       /\ aside[p] \subseteq Contents \cup {Empty}
  /\ \A p \in Files : aside[p] = {} /\ target[p] # Empty
  /\ journal \in {"none", "pending", "committed"}
  /\ life \in {"off", "starting", "up"} /\ held \in BOOLEAN
  /\ pc \in {"idle", "recover", "install", "clean", "stage", "copy", "fill",
             "config", "part", "moved", "bare", "putback", "discard"}
  /\ ToSet(todo) \subseteq Parts /\ finishing \in BOOLEAN /\ faulty \in BOOLEAN
  /\ restore \in 0 .. MaxRestores /\ inside \subseteq Parts /\ behind \subseteq Parts
  /\ faults \in 0 .. MaxFaults /\ stuck \in 0 .. MaxStuck
  /\ cuts \in 0 .. MaxCuts /\ edits \in 0 .. MaxEdits
  /\ owed \in [Folders -> Contents \cup {Gone}] /\ remade \subseteq Folders

StartsWhole == life = "starting" /\ life' = "up" /\ ~faulty => Seen' \in outcomes

\* At most one rename or write has failed, and every leftover went.
OneFailure == faults <= 1 /\ stuck = 0

\* A start that meets no fault leaves the station with the whole backup but
\* for the parts the restore named, or with what it had: never a mixture,
\* whatever step the power went at and however often, and whatever one rename
\* or write failed.  With more it can be: a folder that could neither be moved
\* in nor put back is given up for one of its name made meanwhile; a config
\* that fails to move in, a journal that cannot be set back and a staged
\* config that does not go away leave a journal that finishes the config alone.
WholeOrNothing == [][OneFailure => StartsWhole]_vars

\* A folder the restore moved aside stays on the disk until the copy has
\* replaced it or it is back: it "is put back now, or, when that fails too, by
\* the next start, which finds no journal" (commit), and "a part that fails
\* keeps every copy it needs" (recover_interrupted_restore), whatever fails
\* and wherever the power goes.  Unless a folder of its name was made
\* meanwhile, for which the start gives it up.
OwnNotLost ==
  \A p \in Folders : owed[p] # Gone /\ p \notin remade => owed[p] \in aside[p]

\* What moves in is the whole copy of the restore at hand or the station's
\* own put back, never one a cut left half written and never one of an
\* earlier restore: with the journal "the restore is finished from its staged
\* copies, [...] whole before the first rename".  Unless an earlier restore's
\* copy still lay there when this one was committed: the newest is taken.
OnlyItsOwnCopies ==
  [][\A p \in Parts : target'[p] \notin {target[p], Own, Edited, Empty, Gone}
       => target'[p] = restore \/ target'[p] \in aside[p] \/ p \in behind]_vars

\* Until the restart, nothing but the restore itself changes a part it holds.
HeldUntilRestart ==
  [][held /\ ~Gated => UNCHANGED Seen]_vars

OnlyTheRestore == OnlyItsOwnCopies /\ HeldUntilRestart

\* "A start never stops on it": with whatever faults, the station comes up.
StartComesUp == []<>(life = "up")
=============================================================================
