--------------------------- MODULE MarkerCatalog ---------------------------
(***************************************************************************)
(* The marker catalog that every OpenFollow station on a LAN keeps a       *)
(* replica of: marker_catalog/catalog.py (the entries, their Lamport clock *)
(* and the last-write-wins merge), the two threads that edit it (the web   *)
(* handlers of web/routes.py and the receive thread of                     *)
(* marker_catalog/sync.py with the on_change callback of app.py), the file *)
(* markers.toml it is saved to, and the start that loads it again.         *)
(*                                                                         *)
(* Names and colours are not modelled.  A station never stamps two edits   *)
(* with the same wall time, so origin and stamp together name the edit     *)
(* that wrote an entry and stand for what it wrote.  Wall clocks of        *)
(* different stations, and of one station before and after a start, are    *)
(* unrelated.                                                              *)
(***************************************************************************)
EXTENDS Naturals, FiniteSets

CONSTANTS
  Stations,    \* the stations' ids, numbers because origins are compared
  Ids,         \* marker ids
  Selections,  \* the selections a first start may find in config.toml
  Stamps,      \* wall-clock times
  MaxEdits,    \* bound: edits and seedings on all stations together
  MaxVersion,  \* _MAX_VERSION, the cap on an entry's version
  MaxBoots,    \* bound: how often one station is started again
  Buffer,      \* bound: datagrams on the way to one station, more are lost
  None         \* no entry, no edit, no save

Entry == [version: 0..MaxVersion, stamp: Stamps, origin: Stations, dead: BOOLEAN]
Catalogs == [Ids -> Entry \cup {None}]
Edits == [pc: {"edited", "saving", "failed", "rollback"}, id: Ids,
          prev: Entry \cup {None}, entry: Entry]
Saves == [by: {"web", "rx"}, snap: Catalogs, dead: SUBSET Ids]
Messages == [id: Ids, entry: Entry]

ASSUME CatalogAssumption ==
  /\ Stations \subseteq Nat
  /\ Ids \subseteq Nat /\ IsFiniteSet(Ids)
  /\ Selections \subseteq SUBSET Ids
  /\ Stamps \subseteq Nat
  /\ MaxVersion \in Nat
  /\ MaxEdits \in Nat /\ MaxBoots \in Nat /\ Buffer \in Nat
  /\ None \notin Entry /\ None \notin Edits /\ None \notin Saves

VARIABLES
  entries,   \* MarkerCatalog._entries of every station
  lamport,   \* MarkerCatalog._lamport
  disk,      \* markers.toml
  selected,  \* the controlled and viewed ids in config.toml
  writer,    \* the PUT or DELETE holding _marker_catalog_lock, or None
  saver,     \* the thread inside save_catalog and what it read, or None
  changed,   \* ids the receive thread merged and on_change has not seen
  net,       \* datagrams on the wire to, or in the socket buffer of, a station
  used,      \* wall times a station has stamped
  boots,     \* how often a station was started again
  seen,      \* history: the highest version a station ever held or received
  acked      \* history: the last edit of an id answered with success

memory == <<entries, lamport, seen>>
threads == <<writer, saver, changed>>
vars == <<entries, lamport, disk, selected, writer, saver, changed, net, used,
          boots, seen, acked>>

-----------------------------------------------------------------------------
\* _entry_rank(a) > _entry_rank(b)
Outranks(a, b) ==
  \/ a.version > b.version
  \/ a.version = b.version /\ a.stamp > b.stamp
  \/ a.version = b.version /\ a.stamp = b.stamp /\ a.origin > b.origin

\* What the catalog c holds for id i is e, or something that outranks it.
Covers(c, i, e) == c[i] # None /\ ~Outranks(e, c[i])

Capped(v) == IF v > MaxVersion THEN MaxVersion ELSE v
Later(m, n) == IF m > n THEN m ELSE n

Versions(c) == {c[i].version : i \in {j \in Ids : c[j] # None}}
Known(c) == {i \in Ids : c[i] # None}
Tombstoned(c) == {i \in Known(c) : c[i].dead}
Live(c) == Known(c) \ Tombstoned(c)

\* The web handler of s is at pc; the thread by is inside save_catalog.
At(s, pc) == writer[s] # None /\ writer[s].pc = pc
Saving(s, by) == saver[s] # None /\ saver[s].by = by

Fresh(s, t) ==
  t \in Stamps /\ <<s, t>> \notin used /\ Cardinality(used) < MaxEdits

-----------------------------------------------------------------------------
(* The web handlers.                                                       *)

\* upsert() and delete() under the catalog's lock: the entry takes the next
\* version and replaces what was there.
Edit(s, i, t, dead) ==
  /\ writer[s] = None
  /\ Fresh(s, t)
  /\ LET e == [version |-> Capped(lamport[s] + 1), stamp |-> t, origin |-> s,
               dead |-> dead]
     IN /\ entries' = [entries EXCEPT ![s][i] = e]
        /\ writer' = [writer EXCEPT ![s] =
                        [pc |-> "edited", id |-> i, prev |-> entries[s][i], entry |-> e]]
  /\ lamport' = [lamport EXCEPT ![s] = @ + 1]
  /\ seen' = [seen EXCEPT ![s] = Later(@, lamport[s] + 1)]
  /\ used' = used \cup {<<s, t>>}
  /\ UNCHANGED <<disk, selected, saver, changed, net, boots, acked>>

Put(s, i, t) == Edit(s, i, t, FALSE)

\* An id this station never heard of is answered 404 and changes nothing.
Delete(s, i, t) == entries[s][i] # None /\ Edit(s, i, t, TRUE)

\* save_catalog: the snapshot is read once the save lock is held.
WebSave(s) ==
  /\ At(s, "edited")
  /\ saver[s] = None
  /\ saver' = [saver EXCEPT ![s] = [by |-> "web", snap |-> entries[s], dead |-> {}]]
  /\ writer' = [writer EXCEPT ![s].pc = "saving"]
  /\ UNCHANGED <<memory, disk, selected, changed, net, used, boots, acked>>

\* The rename landed: the request succeeds, and a delete drops the id from the
\* selection unless config.toml cannot be written.
WebSaved(s) ==
  /\ At(s, "saving")
  /\ disk' = [disk EXCEPT ![s] = saver[s].snap]
  /\ acked' = [acked EXCEPT ![s][writer[s].id] = writer[s].entry]
  /\ \E gone \in {{}, IF writer[s].entry.dead THEN {writer[s].id} ELSE {}} :
       selected' = [selected EXCEPT ![s] = @ \ gone]
  /\ saver' = [saver EXCEPT ![s] = None]
  /\ writer' = [writer EXCEPT ![s] = None]
  /\ UNCHANGED <<memory, changed, net, used, boots>>

\* The write failed, or a restore holds the file until its restart.
WebSaveFailed(s) ==
  /\ At(s, "saving")
  /\ saver' = [saver EXCEPT ![s] = None]
  /\ writer' = [writer EXCEPT ![s].pc = "failed"]
  /\ UNCHANGED <<memory, disk, selected, changed, net, used, boots, acked>>

\* if catalog.get_any(marker_id) is entry: the lock is taken and released again.
RollbackCheck(s) ==
  /\ At(s, "failed")
  /\ writer' = [writer EXCEPT ![s] =
                  IF entries[s][@.id] = @.entry THEN [@ EXCEPT !.pc = "rollback"] ELSE None]
  /\ UNCHANGED <<memory, disk, selected, saver, changed, net, used, boots, acked>>

\* restore_entry: whatever is there now is replaced.
Rollback(s) ==
  /\ At(s, "rollback")
  /\ entries' = [entries EXCEPT ![s][writer[s].id] = writer[s].prev]
  /\ writer' = [writer EXCEPT ![s] = None]
  /\ UNCHANGED <<lamport, seen, disk, selected, saver, changed, net, used, boots, acked>>

-----------------------------------------------------------------------------
(* Catalog sync.                                                           *)

\* Mutant of Beacon: an id that was queued is sent whether or not it has an entry.
BeaconAnyId(s, i, R) ==
  /\ net' = [t \in Stations |->
               IF t \in R THEN net[t] \cup {[id |-> i, entry |-> entries[s][i]]} ELSE net[t]]
  /\ UNCHANGED <<memory, disk, selected, threads, used, boots, acked>>

\* The send thread reads the catalog and multicasts an entry, saved or not;
\* the stations in R that have room get the datagram.
Beacon(s, i, R) ==
  /\ entries[s][i] # None
  /\ net' = [t \in Stations |->
               IF t \in R /\ Cardinality(net[t]) < Buffer
               THEN net[t] \cup {[id |-> i, entry |-> entries[s][i]]}
               ELSE net[t]]
  /\ UNCHANGED <<memory, disk, selected, threads, used, boots, acked>>

Lose(t, m) ==
  /\ m \in net[t]
  /\ net' = [net EXCEPT ![t] = @ \ {m}]
  /\ UNCHANGED <<memory, disk, selected, threads, used, boots, acked>>

\* Mutants of Accepts: last wall clock wins; no tiebreak between equal versions.
AcceptsLaterStamp(c, i, r) == IF c[i] = None THEN ~r.dead ELSE r.stamp > c[i].stamp
AcceptsNewerVersion(c, i, r) == IF c[i] = None THEN ~r.dead ELSE r.version > c[i].version

\* merge_entry takes r: it is new and not a tombstone, or outranks what is held.
Accepts(c, i, r) == IF c[i] = None THEN ~r.dead ELSE Outranks(r, c[i])

\* Mutant of Follow: only a version that is taken moves the clock.
FollowTaken(t, m) ==
  IF Accepts(entries[t], m.id, m.entry) THEN Later(lamport[t], m.entry.version) ELSE lamport[t]

\* merge_entry's clock follows every version received, taken or not.
Follow(t, m) == Later(lamport[t], m.entry.version)

\* _handle_packet for one entry of a datagram.  A datagram may arrive again.
Receive(t, m) ==
  /\ m \in net[t]
  /\ ~Saving(t, "rx")
  /\ \E again \in BOOLEAN : net' = IF again THEN net ELSE [net EXCEPT ![t] = @ \ {m}]
  /\ lamport' = [lamport EXCEPT ![t] = Follow(t, m)]
  /\ seen' = [seen EXCEPT ![t] = Later(@, m.entry.version)]
  /\ IF Accepts(entries[t], m.id, m.entry)
     THEN /\ entries' = [entries EXCEPT ![t][m.id] = m.entry]
          /\ changed' = [changed EXCEPT ![t] = @ \cup {m.id}]
     ELSE UNCHANGED <<entries, changed>>
  /\ UNCHANGED <<disk, selected, writer, saver, used, boots, acked>>

\* on_change: the deleted ids are read before the save, the save reads the
\* catalog under the save lock.
OnChange(t) ==
  /\ changed[t] # {}
  /\ saver[t] = None
  /\ saver' = [saver EXCEPT ![t] = [by |-> "rx", snap |-> entries[t],
                                    dead |-> changed[t] \cap Tombstoned(entries[t])]]
  /\ changed' = [changed EXCEPT ![t] = {}]
  /\ UNCHANGED <<memory, disk, selected, writer, net, used, boots, acked>>

\* The save lands or fails; either way the deleted ids leave the selection,
\* unless config.toml cannot be written.
OnChangeDone(t) ==
  /\ Saving(t, "rx")
  /\ \E c \in {disk[t], saver[t].snap} : disk' = [disk EXCEPT ![t] = c]
  /\ \E gone \in {{}, saver[t].dead} : selected' = [selected EXCEPT ![t] = @ \ gone]
  /\ saver' = [saver EXCEPT ![t] = None]
  /\ UNCHANGED <<memory, writer, changed, net, used, boots, acked>>

-----------------------------------------------------------------------------
(* Start.                                                                  *)

\* load_catalog and _load_or_seed_marker_catalog with the file holding c and
\* the ids in sel selected: the catalog, its clock resumed at m, and the seeds.
Unknown(c, sel) == sel \ Known(c)
SeedPosition(c, sel, i) == Cardinality({j \in Unknown(c, sel) : j <= i})
Seeded(s, c, sel, m, t) ==
  [i \in Ids |->
     IF i \in Unknown(c, sel)
     THEN [version |-> Capped(m + SeedPosition(c, sel, i)), stamp |-> t, origin |-> s,
           dead |-> FALSE]
     ELSE c[i]]

\* Mutant of IsClockOf: the clock starts at nought again.
IsClockAtZero(m, c) == m = 0

\* max((e.version for e in c), default=0)
IsClockOf(m, c) ==
  /\ m \in {0} \cup Versions(c)
  /\ \A v \in Versions(c) : v <= m

\* A crash or an orderly stop, and the start that follows.  What the threads
\* and the socket buffer held is gone.
Restart(s, t) ==
  LET missing == Unknown(disk[s], selected[s])
  IN
  /\ boots[s] < MaxBoots
  /\ boots' = [boots EXCEPT ![s] = @ + 1]
  /\ IF missing = {} THEN UNCHANGED used ELSE Fresh(s, t) /\ used' = used \cup {<<s, t>>}
  /\ \E m \in {0} \cup Versions(disk[s]) :
       /\ IsClockOf(m, disk[s])
       /\ entries' = [entries EXCEPT ![s] = Seeded(s, disk[s], selected[s], m, t)]
       /\ lamport' = [lamport EXCEPT ![s] = m + Cardinality(missing)]
       /\ seen' = [seen EXCEPT ![s] = Later(@, m + Cardinality(missing))]
       /\ \E saved \in BOOLEAN :
            disk' = IF saved THEN [disk EXCEPT ![s] = Seeded(s, disk[s], selected[s], m, t)]
                             ELSE disk
  /\ \E gone \in {{}, Tombstoned(disk[s])} : selected' = [selected EXCEPT ![s] = @ \ gone]
  /\ writer' = [writer EXCEPT ![s] = None]
  /\ saver' = [saver EXCEPT ![s] = None]
  /\ changed' = [changed EXCEPT ![s] = {}]
  /\ net' = [net EXCEPT ![s] = {}]
  /\ UNCHANGED acked

-----------------------------------------------------------------------------
\* Every station has been started for the first time, on any selection and no
\* file, so it seeded what is selected, and saved that or failed to.
Init ==
  LET empty == [i \in Ids |-> None]
  IN
  /\ selected \in [Stations -> Selections]
  /\ \E t \in [Stations -> Stamps] :
       /\ entries = [s \in Stations |-> Seeded(s, empty, selected[s], 0, t[s])]
       /\ used = {<<s, t[s]>> : s \in {r \in Stations : selected[r] # {}}}
  /\ lamport = [s \in Stations |-> Cardinality(selected[s])]
  /\ \E saved \in SUBSET Stations :
       disk = [s \in Stations |-> IF s \in saved THEN entries[s] ELSE empty]
  /\ writer = [s \in Stations |-> None]
  /\ saver = [s \in Stations |-> None]
  /\ changed = [s \in Stations |-> {}]
  /\ net = [s \in Stations |-> {}]
  /\ boots = [s \in Stations |-> 0]
  /\ seen = lamport
  /\ acked = [s \in Stations |-> empty]

Step(s) ==
  \/ \E i \in Ids, t \in Stamps : Put(s, i, t) \/ Delete(s, i, t)
  \/ WebSave(s) \/ WebSaved(s) \/ WebSaveFailed(s)
  \/ RollbackCheck(s) \/ Rollback(s)
  \/ \E i \in Ids, R \in SUBSET (Stations \ {s}) : Beacon(s, i, R)
  \/ \E m \in net[s] : Receive(s, m) \/ Lose(s, m)
  \/ OnChange(s) \/ OnChangeDone(s)
  \/ \E t \in Stamps : Restart(s, t)

Next == \E s \in Stations : Step(s)

Spec == Init /\ [][Next]_vars

\* What is left to do for the request that edits: its save, and the way back
\* when that failed.
WriterStep(s) ==
  WebSave(s) \/ WebSaved(s) \/ WebSaveFailed(s) \/ RollbackCheck(s) \/ Rollback(s)

\* Threads run.  A datagram carrying the entry a peer holds now, sent again
\* every heartbeat, is not lost for ever.
Fairness ==
  /\ \A s \in Stations :
       /\ WF_vars(WriterStep(s))
       /\ WF_vars(OnChange(s) \/ OnChangeDone(s))
       /\ \A i \in Ids : WF_vars(Beacon(s, i, Stations \ {s}))
       /\ WF_vars(\E m \in net[s] : Receive(s, m) \/ Lose(s, m))
  /\ \A s \in Stations, i \in Ids : \A t \in Stations \ {s} :
       SF_vars(\E m \in net[t] : /\ m.id = i /\ m.entry = entries[s][i]
                                 /\ Receive(t, m))

FairSpec == Spec /\ Fairness

-----------------------------------------------------------------------------
TypeOK ==
  /\ entries \in [Stations -> Catalogs]
  /\ lamport \in [Stations -> Nat]
  /\ disk \in [Stations -> Catalogs]
  /\ selected \in [Stations -> SUBSET Ids]
  /\ writer \in [Stations -> Edits \cup {None}]
  /\ saver \in [Stations -> Saves \cup {None}]
  /\ changed \in [Stations -> SUBSET Ids]
  /\ net \in [Stations -> SUBSET Messages]
  /\ used \subseteq Stations \X Stamps
  /\ boots \in [Stations -> Nat]
  /\ seen \in [Stations -> Nat]
  /\ acked \in [Stations -> Catalogs]

\* The station never held or received a version it could not top.
BelowCap(s) == seen[s] <= MaxVersion

\* An edit that was answered with success survives: memory and markers.toml hold
\* it, or an entry that outranks it, through failed saves, rollbacks, merges,
\* both savers and restarts, as long as no version at the cap was ever seen.
AckedEditSurvives ==
  \A s \in Stations : BelowCap(s) =>
    \A i \in Ids : acked[s][i] # None =>
      Covers(entries[s], i, acked[s][i]) /\ Covers(disk[s], i, acked[s][i])

\* The next edit of a marker outranks what the station holds of it, in memory and
\* on disk, whatever the wall clock says, as long as there is a version left.
NextEditWins ==
  \A s \in Stations : seen[s] < MaxVersion =>
    \A c \in {entries[s], disk[s]} : \A v \in Versions(c) : v < Capped(lamport[s] + 1)

\* Until it is started again a station's clock is the highest version it ever
\* met, a tombstone it did not keep included.
ClockNeverForgets == \A s \in Stations : boots[s] = 0 => lamport[s] = seen[s]

\* What the station shows of a marker: its entry, or nothing.
View(s) == [i \in Ids |-> IF i \in Live(entries[s]) THEN entries[s][i] ELSE None]

\* Edits and starts are finite here: after the last one every station comes to
\* show the same markers and stays there, whatever was lost or reordered, and
\* however many tombstones some of them never kept.
Convergence == <>[](\A s, t \in Stations : View(s) = View(t))

\* What the PUT handler's comment promises of its rollback: an entry a peer's
\* merge put there is not clobbered, so only the edit itself is ever undone.
RollbackSparesPeers ==
  [][\A s \in Stations :
       At(s, "rollback") /\ boots'[s] = boots[s]
         => \A i \in Ids : entries'[s][i] # entries[s][i]
                             => \/ entries[s][i] = writer[s].entry
                                \/ entries'[s][i] # None
                                   /\ Outranks(entries'[s][i], entries[s][i])]_vars
=============================================================================
