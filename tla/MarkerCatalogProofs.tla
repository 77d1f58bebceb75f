------------------------ MODULE MarkerCatalogProofs ------------------------
(***************************************************************************)
(* Proofs about MarkerCatalog, for any set of stations, markers and clocks *)
(* and any bounds: the type invariant, that an edit answered with success  *)
(* survives, that the next edit wins, and that a clock forgets nothing     *)
(* before a start.                                                         *)
(***************************************************************************)
EXTENDS MarkerCatalog, FiniteSetTheorems, TLAPS

\* The catalogs a station can still come to hold, or write, without a peer.
OwnCatalogs(s) ==
  {entries[s], disk[s]} \cup (IF saver[s] = None THEN {} ELSE {saver[s].snap})

\* A handler that is saving is the one inside save_catalog.
SaveLockHeld == \A s \in Stations : At(s, "saving") => Saving(s, "web")

\* The clock is at or above every version in them, and above what a rollback
\* would bring back, and never above what was seen.
ClockAhead(s) ==
  /\ lamport[s] <= seen[s]
  /\ \A c \in OwnCatalogs(s) : \A i \in Known(c) : c[i].version <= lamport[s]
  /\ writer[s] # None /\ writer[s].prev # None => writer[s].prev.version <= lamport[s]

\* Until the handler rolls back memory covers its edit, and what it writes does.
EditHeld(s) ==
  writer[s] # None =>
    /\ Covers(entries[s], writer[s].id, writer[s].entry)
    /\ writer[s].pc = "saving" => Covers(saver[s].snap, writer[s].id, writer[s].entry)

\* Whatever may still become the station's catalog covers the acknowledged edits.
AckedCovered(s) ==
  BelowCap(s) =>
    \A i \in Ids : acked[s][i] # None =>
      /\ \A c \in OwnCatalogs(s) : Covers(c, i, acked[s][i])
      /\ writer[s] # None /\ writer[s].id = i =>
           writer[s].prev # None /\ ~Outranks(acked[s][i], writer[s].prev)

Sound(s) == ClockAhead(s) /\ EditHeld(s) /\ AckedCovered(s)

IInv == TypeOK /\ SaveLockHeld /\ \A s \in Stations : Sound(s)

-----------------------------------------------------------------------------
\* _entry_rank orders entries totally: what covers an entry and is outranked
\* leaves the outranking one covering it too.
LEMMA RankOrder ==
  ASSUME NEW a \in Entry, NEW b \in Entry, NEW c \in Entry
  PROVE  /\ ~Outranks(a, a)
         /\ ~Outranks(a, b) => a.version <= b.version
         /\ a.version < b.version => ~Outranks(a, b)
         /\ ~Outranks(a, b) /\ Outranks(c, b) => ~Outranks(a, c)
<1>1. ASSUME NEW e \in Entry
      PROVE  e.version \in Nat /\ e.stamp \in Nat /\ e.origin \in Nat
  <2>1. e.version \in 0..MaxVersion /\ e.stamp \in Stamps /\ e.origin \in Stations
    BY DEF Entry
  <2>2. MaxVersion \in Nat /\ Stamps \subseteq Nat /\ Stations \subseteq Nat
    BY CatalogAssumption
  <2>3. e.version \in Nat
    BY <2>1, <2>2
  <2>4. e.stamp \in Nat /\ e.origin \in Nat
    BY <2>1, <2>2
  <2>5. QED
    BY <2>3, <2>4
<1>2. /\ a.version \in Nat /\ a.stamp \in Nat /\ a.origin \in Nat
      /\ b.version \in Nat /\ b.stamp \in Nat /\ b.origin \in Nat
      /\ c.version \in Nat /\ c.stamp \in Nat /\ c.origin \in Nat
  BY <1>1
<1>3. QED
  BY <1>2 DEF Outranks

\* What a start seeds: the file's entries stay, every missing id gets one more
\* version, none above the clock that seeding leaves.
LEMMA SeedFacts ==
  ASSUME NEW s \in Stations, NEW c \in Catalogs, NEW sel \in SUBSET Ids,
         NEW m \in Nat, NEW t \in Stamps
  PROVE  /\ Cardinality(Unknown(c, sel)) \in Nat
         /\ Seeded(s, c, sel, m, t) \in Catalogs
         /\ \A i \in Ids : c[i] # None => Seeded(s, c, sel, m, t)[i] = c[i]
         /\ (\A i \in Known(c) : c[i].version <= m) =>
              \A i \in Known(Seeded(s, c, sel, m, t)) :
                Seeded(s, c, sel, m, t)[i].version <= m + Cardinality(Unknown(c, sel))
<1>1. Unknown(c, sel) \in SUBSET Ids /\ IsFiniteSet(Unknown(c, sel))
  BY CatalogAssumption, FS_Subset DEF Unknown, Known
<1>2. Cardinality(Unknown(c, sel)) \in Nat
  BY <1>1, FS_CardinalityType
<1>3. ASSUME NEW i \in Ids
      PROVE  /\ SeedPosition(c, sel, i) \in Nat
             /\ SeedPosition(c, sel, i) <= Cardinality(Unknown(c, sel))
  <2>1. {j \in Unknown(c, sel) : j <= i} \subseteq Unknown(c, sel)
    OBVIOUS
  <2>2. IsFiniteSet({j \in Unknown(c, sel) : j <= i})
    BY <1>1, <2>1, FS_Subset
  <2>3. QED
    BY <1>1, <2>1, <2>2, FS_CardinalityType, FS_Subset DEF SeedPosition
<1>4. ASSUME NEW i \in Ids, i \in Unknown(c, sel)
      PROVE  /\ Seeded(s, c, sel, m, t)[i] \in Entry
             /\ Seeded(s, c, sel, m, t)[i].version <= m + Cardinality(Unknown(c, sel))
  <2>1. Seeded(s, c, sel, m, t)[i] =
          [version |-> Capped(m + SeedPosition(c, sel, i)), stamp |-> t, origin |-> s,
           dead |-> FALSE]
    BY <1>4 DEF Seeded
  <2>2. /\ Capped(m + SeedPosition(c, sel, i)) \in 0..MaxVersion
        /\ Capped(m + SeedPosition(c, sel, i)) <= m + Cardinality(Unknown(c, sel))
    BY <1>2, <1>3, CatalogAssumption DEF Capped
  <2>3. QED
    BY <2>1, <2>2 DEF Entry
<1>5. ASSUME NEW i \in Ids, i \notin Unknown(c, sel)
      PROVE  Seeded(s, c, sel, m, t)[i] = c[i]
  BY <1>5 DEF Seeded
<1>6. Seeded(s, c, sel, m, t) \in Catalogs
  <2>1. \A i \in Ids : Seeded(s, c, sel, m, t)[i] \in Entry \cup {None}
    BY <1>4, <1>5 DEF Catalogs
  <2>2. DOMAIN Seeded(s, c, sel, m, t) = Ids
        /\ Seeded(s, c, sel, m, t) = [i \in Ids |-> Seeded(s, c, sel, m, t)[i]]
    BY DEF Seeded
  <2>3. QED
    BY <2>1, <2>2 DEF Catalogs
<1>7. \A i \in Ids : c[i] # None => Seeded(s, c, sel, m, t)[i] = c[i]
  BY <1>5 DEF Unknown, Known
<1>8. ASSUME \A i \in Known(c) : c[i].version <= m,
             NEW i \in Known(Seeded(s, c, sel, m, t))
      PROVE  Seeded(s, c, sel, m, t)[i].version <= m + Cardinality(Unknown(c, sel))
  <2>1. CASE i \in Unknown(c, sel)
    BY <2>1, <1>4 DEF Known
  <2>2. CASE i \notin Unknown(c, sel)
    <3>1. i \in Known(c) /\ Seeded(s, c, sel, m, t)[i] = c[i]
      BY <2>2, <1>5 DEF Known
    <3>2. c[i] \in Entry
      BY <3>1 DEF Catalogs, Known
    <3>3. QED
      BY <1>2, <1>8, <3>1, <3>2, CatalogAssumption DEF Entry
  <2>3. QED
    BY <2>1, <2>2
<1>9. QED
  BY <1>2, <1>6, <1>7, <1>8

-----------------------------------------------------------------------------
\* The first start leaves every variable with a value of its type.
LEMMA InitType == Init => TypeOK
<1> SUFFICES ASSUME Init PROVE TypeOK
  OBVIOUS
<1> DEFINE empty == [i \in Ids |-> None]
<1>1. empty \in Catalogs
  BY DEF Catalogs
<1>2. selected \in [Stations -> SUBSET Ids]
  BY CatalogAssumption DEF Init
<1>3. PICK t \in [Stations -> Stamps] :
        /\ entries = [s \in Stations |-> Seeded(s, empty, selected[s], 0, t[s])]
        /\ used = {<<s, t[s]>> : s \in {r \in Stations : selected[r] # {}}}
  BY DEF Init
<1>4. entries \in [Stations -> Catalogs]
  BY <1>1, <1>2, <1>3, SeedFacts
<1>5. lamport \in [Stations -> Nat]
  <2>1. \A s \in Stations : Unknown(empty, selected[s]) = selected[s]
    BY <1>2 DEF Unknown, Known
  <2>2. \A s \in Stations : Cardinality(selected[s]) \in Nat
    BY <1>1, <1>2, <2>1, CatalogAssumption, FS_Subset, FS_CardinalityType
  <2>3. QED
    BY <2>2 DEF Init
<1>6. disk \in [Stations -> Catalogs]
  BY <1>1, <1>4 DEF Init
<1>7. used \subseteq Stations \X Stamps
  BY <1>3
<1>8. /\ writer \in [Stations -> Edits \cup {None}]
      /\ saver \in [Stations -> Saves \cup {None}]
      /\ changed \in [Stations -> SUBSET Ids]
      /\ net \in [Stations -> SUBSET Messages]
      /\ boots \in [Stations -> Nat]
      /\ acked \in [Stations -> Catalogs]
  BY <1>1 DEF Init
<1>9. seen \in [Stations -> Nat]
  BY <1>5 DEF Init
<1>10. QED
  BY <1>2, <1>4, <1>5, <1>6, <1>7, <1>8, <1>9 DEF TypeOK

\* The merge of the clock, and an entry's next version, stay in their range.
LEMMA Numbers ==
  ASSUME NEW m \in Nat, NEW n \in Nat
  PROVE  /\ Later(m, n) \in Nat /\ m <= Later(m, n) /\ n <= Later(m, n)
         /\ Later(m, n) \in {m, n}
         /\ Capped(m) \in 0..MaxVersion /\ Capped(m) <= m
         /\ m <= MaxVersion => Capped(m) = m
BY CatalogAssumption DEF Later, Capped

\* Every step keeps every variable in its type, and the save lock one holder.
LEMMA StepType == TypeOK /\ SaveLockHeld /\ [Next]_vars => TypeOK' /\ SaveLockHeld'
<1> SUFFICES ASSUME TypeOK, SaveLockHeld, [Next]_vars PROVE TypeOK' /\ SaveLockHeld'
  OBVIOUS
<1> USE DEF TypeOK, SaveLockHeld, At, Saving
<1>1. ASSUME NEW s \in Stations, NEW i \in Ids, NEW t \in Stamps, NEW dead \in BOOLEAN,
             Edit(s, i, t, dead)
      PROVE  TypeOK' /\ SaveLockHeld'
  <2> DEFINE e == [version |-> Capped(lamport[s] + 1), stamp |-> t, origin |-> s,
                   dead |-> dead]
             w == [pc |-> "edited", id |-> i, prev |-> entries[s][i], entry |-> e]
  <2>1. lamport[s] + 1 \in Nat /\ seen[s] \in Nat
    OBVIOUS
  <2>2. e \in Entry
    <3>1. Capped(lamport[s] + 1) \in 0..MaxVersion
      BY <2>1, Numbers
    <3>2. QED
      BY <3>1 DEF Entry
  <2>3. entries' \in [Stations -> Catalogs]
    BY <1>1, <2>2 DEF Edit, Catalogs
  <2>4. w \in Edits
    BY <2>2 DEF Edits, Catalogs
  <2>5. writer' = [writer EXCEPT ![s] = w]
    BY <1>1 DEF Edit
  <2>6. writer' \in [Stations -> Edits \cup {None}] /\ SaveLockHeld'
    <3>1. w.pc # "saving"
      OBVIOUS
    <3>2. saver' = saver
      BY <1>1 DEF Edit
    <3>3. QED
      BY <2>4, <2>5, <3>1, <3>2
  <2>7. lamport' \in [Stations -> Nat] /\ seen' \in [Stations -> Nat]
    <3>1. Later(seen[s], lamport[s] + 1) \in Nat
      BY <2>1, Numbers
    <3>2. QED
      BY <1>1, <2>1, <3>1 DEF Edit
  <2>8. used' \subseteq Stations \X Stamps
    BY <1>1 DEF Edit
  <2>9. QED
    BY <1>1, <2>3, <2>6, <2>7, <2>8 DEF Edit
<1>2. ASSUME NEW s \in Stations, WebSave(s) PROVE TypeOK' /\ SaveLockHeld'
  <2>1. [by |-> "web", snap |-> entries[s], dead |-> {}] \in Saves
    BY DEF Saves
  <2>2. [writer[s] EXCEPT !.pc = "saving"] \in Edits
    BY <1>2 DEF WebSave, Edits
  <2>3. TypeOK'
    BY <1>2, <2>1, <2>2 DEF WebSave, memory
  <2>4. SaveLockHeld'
    BY <1>2, <2>1, CatalogAssumption DEF WebSave
  <2>5. QED
    BY <2>3, <2>4
<1>3. ASSUME NEW s \in Stations, WebSaved(s) PROVE TypeOK' /\ SaveLockHeld'
  <2>1. saver[s] \in Saves /\ writer[s] \in Edits
    BY <1>3 DEF WebSaved
  <2>2. saver[s].snap \in Catalogs /\ writer[s].id \in Ids /\ writer[s].entry \in Entry
    BY <2>1 DEF Saves, Edits
  <2>3. acked' \in [Stations -> Catalogs] /\ disk' \in [Stations -> Catalogs]
    BY <1>3, <2>2 DEF WebSaved, Catalogs
  <2>4. TypeOK'
    BY <1>3, <2>3 DEF WebSaved, memory
  <2>5. SaveLockHeld'
    BY <1>3 DEF WebSaved
  <2>6. QED
    BY <2>4, <2>5
<1>4. ASSUME NEW s \in Stations, WebSaveFailed(s) PROVE TypeOK' /\ SaveLockHeld'
  <2>1. [writer[s] EXCEPT !.pc = "failed"] \in Edits
    BY <1>4 DEF WebSaveFailed, Edits
  <2>2. TypeOK'
    BY <1>4, <2>1 DEF WebSaveFailed, memory
  <2>3. SaveLockHeld'
    BY <1>4, <2>1 DEF WebSaveFailed, Edits
  <2>4. QED
    BY <2>2, <2>3
<1>5. ASSUME NEW s \in Stations, RollbackCheck(s) PROVE TypeOK' /\ SaveLockHeld'
  <2>1. [writer[s] EXCEPT !.pc = "rollback"] \in Edits
    BY <1>5 DEF RollbackCheck, Edits
  <2>2. writer'[s] \in {None, [writer[s] EXCEPT !.pc = "rollback"]}
        /\ writer' = [writer EXCEPT ![s] = writer'[s]]
    BY <1>5 DEF RollbackCheck
  <2>3. TypeOK'
    BY <1>5, <2>1, <2>2 DEF RollbackCheck, memory
  <2>4. SaveLockHeld'
    <3>1. [writer[s] EXCEPT !.pc = "rollback"].pc = "rollback"
      BY <1>5 DEF RollbackCheck, Edits
    <3>2. saver' = saver
      BY <1>5 DEF RollbackCheck
    <3>3. QED
      BY <2>2, <3>1, <3>2
  <2>5. QED
    BY <2>3, <2>4
<1>6. ASSUME NEW s \in Stations, Rollback(s) PROVE TypeOK' /\ SaveLockHeld'
  <2>1. writer[s].id \in Ids /\ writer[s].prev \in Entry \cup {None}
    BY <1>6 DEF Rollback, Edits
  <2>2. entries' \in [Stations -> Catalogs]
    BY <1>6, <2>1 DEF Rollback, Catalogs
  <2>3. QED
    BY <1>6, <2>2 DEF Rollback
<1>7. ASSUME NEW s \in Stations, NEW i \in Ids, NEW R \in SUBSET Stations, Beacon(s, i, R)
      PROVE  TypeOK' /\ SaveLockHeld'
  <2>1. [id |-> i, entry |-> entries[s][i]] \in Messages
    BY <1>7 DEF Beacon, Messages, Catalogs
  <2>2. net' \in [Stations -> SUBSET Messages]
    BY <1>7, <2>1 DEF Beacon
  <2>3. QED
    BY <1>7, <2>2 DEF Beacon, memory, threads
<1>8. ASSUME NEW s \in Stations, NEW m \in net[s], Lose(s, m) PROVE TypeOK' /\ SaveLockHeld'
  BY <1>8 DEF Lose, memory, threads
<1>9. ASSUME NEW s \in Stations, NEW m \in net[s], Receive(s, m) PROVE TypeOK' /\ SaveLockHeld'
  <2>1. m.id \in Ids /\ m.entry \in Entry /\ m.entry.version \in Nat
    BY CatalogAssumption DEF Messages, Entry
  <2>2. Later(lamport[s], m.entry.version) \in Nat /\ Later(seen[s], m.entry.version) \in Nat
    BY <2>1, Numbers
  <2>3. lamport' \in [Stations -> Nat] /\ seen' \in [Stations -> Nat]
    BY <1>9, <2>2 DEF Receive, Follow
  <2>4. net' \in [Stations -> SUBSET Messages]
    BY <1>9 DEF Receive
  <2>5. entries' \in [Stations -> Catalogs] /\ changed' \in [Stations -> SUBSET Ids]
    <3>1. CASE Accepts(entries[s], m.id, m.entry)
      <4>1. [entries[s] EXCEPT ![m.id] = m.entry] \in Catalogs
        BY <2>1 DEF Catalogs
      <4>2. /\ entries' = [entries EXCEPT ![s] = [entries[s] EXCEPT ![m.id] = m.entry]]
            /\ changed' = [changed EXCEPT ![s] = changed[s] \cup {m.id}]
        BY <1>9, <3>1 DEF Receive
      <4>3. QED
        BY <2>1, <4>1, <4>2
    <3>2. CASE ~Accepts(entries[s], m.id, m.entry)
      BY <1>9, <3>2 DEF Receive
    <3>3. QED
      BY <3>1, <3>2
  <2>6. QED
    BY <1>9, <2>3, <2>4, <2>5 DEF Receive
<1>10. ASSUME NEW s \in Stations, OnChange(s) PROVE TypeOK' /\ SaveLockHeld'
  <2>1. [by |-> "rx", snap |-> entries[s],
         dead |-> changed[s] \cap Tombstoned(entries[s])] \in Saves
    BY DEF Saves, Tombstoned, Known
  <2>2. TypeOK'
    BY <1>10, <2>1 DEF OnChange, memory
  <2>3. SaveLockHeld'
    BY <1>10 DEF OnChange
  <2>4. QED
    BY <2>2, <2>3
<1>11. ASSUME NEW s \in Stations, OnChangeDone(s) PROVE TypeOK' /\ SaveLockHeld'
  <2>1. saver[s].snap \in Catalogs
    BY <1>11 DEF OnChangeDone, Saves
  <2>2. TypeOK'
    BY <1>11, <2>1 DEF OnChangeDone, memory
  <2>3. SaveLockHeld'
    BY <1>11 DEF OnChangeDone
  <2>4. QED
    BY <2>2, <2>3
<1>12. ASSUME NEW s \in Stations, NEW t \in Stamps, Restart(s, t) PROVE TypeOK' /\ SaveLockHeld'
  <2> DEFINE n == Cardinality(Unknown(disk[s], selected[s]))
             c(m) == Seeded(s, disk[s], selected[s], m, t)
  <2>1. PICK m \in {0} \cup Versions(disk[s]) :
          /\ entries' = [entries EXCEPT ![s] = c(m)]
          /\ lamport' = [lamport EXCEPT ![s] = m + n]
          /\ seen' = [seen EXCEPT ![s] = Later(@, m + n)]
          /\ disk' \in {disk, [disk EXCEPT ![s] = c(m)]}
    BY <1>12 DEF Restart
  <2>2. m \in Nat
    BY CatalogAssumption DEF Versions, Catalogs, Entry
  <2>3. n \in Nat /\ c(m) \in Catalogs
    BY <2>2, SeedFacts
  <2>4. m + n \in Nat /\ Later(seen[s], m + n) \in Nat
    <3>1. m + n \in Nat /\ seen[s] \in Nat
      BY <2>2, <2>3
    <3>2. QED
      BY <3>1, Numbers
  <2>5. /\ entries' \in [Stations -> Catalogs] /\ disk' \in [Stations -> Catalogs]
        /\ lamport' \in [Stations -> Nat] /\ seen' \in [Stations -> Nat]
    BY <2>1, <2>2, <2>3, <2>4
  <2>6. /\ boots' \in [Stations -> Nat] /\ selected' \in [Stations -> SUBSET Ids]
        /\ used' \subseteq Stations \X Stamps
    BY <1>12 DEF Restart
  <2>7. QED
    BY <1>12, <2>5, <2>6 DEF Restart
<1>13. CASE UNCHANGED vars
  BY <1>13 DEF vars
<1>14. QED
  BY <1>1, <1>2, <1>3, <1>4, <1>5, <1>6, <1>7, <1>8, <1>9, <1>10, <1>11, <1>12, <1>13
     DEF Next, Step, Put, Delete

\* Whatever the threads, the network and the stops do, every variable keeps its
\* type and a saving handler is the one inside save_catalog.
THEOREM TypeCorrect == Spec => [](TypeOK /\ SaveLockHeld)
<1>1. Init => TypeOK /\ SaveLockHeld
  BY InitType DEF Init, SaveLockHeld, At
<1>2. TypeOK /\ SaveLockHeld /\ [Next]_vars => (TypeOK /\ SaveLockHeld)'
  BY StepType
<1>3. QED
  BY <1>1, <1>2, PTL DEF Spec

-----------------------------------------------------------------------------
\* What the invariant says of a station no other station's step touches.
LEMMA OtherStations ==
  ASSUME TypeOK, NEW s \in Stations, Step(s), NEW r \in Stations, r # s, Sound(r)
  PROVE  Sound(r)'
<1> USE DEF TypeOK
<1>1. UNCHANGED <<entries[r], lamport[r], seen[r]>>
  BY SMTT(60) DEF Step, Put, Delete, Edit, WebSave, WebSaved, WebSaveFailed, RollbackCheck, Rollback,
         Beacon, Receive, Lose, OnChange, OnChangeDone, Restart, memory
<1>2. UNCHANGED <<disk[r], acked[r]>>
  BY DEF Step, Put, Delete, Edit, WebSave, WebSaved, WebSaveFailed, RollbackCheck, Rollback,
         Beacon, Receive, Lose, OnChange, OnChangeDone, Restart
<1>3. UNCHANGED <<writer[r], saver[r]>>
  BY DEF Step, Put, Delete, Edit, WebSave, WebSaved, WebSaveFailed, RollbackCheck, Rollback,
         Beacon, Receive, Lose, OnChange, OnChangeDone, Restart, threads
<1>4. QED
  BY <1>1, <1>2, <1>3
     DEF Sound, ClockAhead, EditHeld, AckedCovered, OwnCatalogs, BelowCap

\* An edit: its version is above everything the clock is ahead of.
LEMMA EditSound ==
  ASSUME TypeOK, NEW s \in Stations, NEW i \in Ids, NEW t \in Stamps, NEW dead \in BOOLEAN,
         Edit(s, i, t, dead), Sound(s)
  PROVE  Sound(s)'
<1> DEFINE e == [version |-> Capped(lamport[s] + 1), stamp |-> t, origin |-> s, dead |-> dead]
<1> USE DEF TypeOK
<1>1. /\ lamport[s] \in Nat /\ lamport[s] + 1 \in Nat /\ seen[s] \in Nat
      /\ MaxVersion \in Nat
  BY CatalogAssumption
<1>2. /\ entries'[s] = [entries[s] EXCEPT ![i] = e]
      /\ writer[s] = None
      /\ writer'[s] = [pc |-> "edited", id |-> i, prev |-> entries[s][i], entry |-> e]
      /\ lamport'[s] = lamport[s] + 1
      /\ seen'[s] = Later(seen[s], lamport[s] + 1)
      /\ UNCHANGED <<disk[s], saver[s], acked[s]>>
  BY DEF Edit
<1>3. /\ e \in Entry /\ e # None /\ e.version <= lamport[s] + 1
      /\ lamport[s] + 1 <= MaxVersion => e.version = lamport[s] + 1
  <2>1. Capped(lamport[s] + 1) \in 0..MaxVersion /\ Capped(lamport[s] + 1) <= lamport[s] + 1
        /\ (lamport[s] + 1 <= MaxVersion => Capped(lamport[s] + 1) = lamport[s] + 1)
    BY <1>1, Numbers
  <2>2. e \in Entry
    BY <2>1 DEF Entry
  <2>3. QED
    BY <2>1, <2>2, CatalogAssumption
<1>4. /\ seen[s] <= seen'[s] /\ lamport[s] + 1 <= seen'[s] /\ seen'[s] \in Nat
  <2>1. LET n == Later(seen[s], lamport[s] + 1)
        IN seen[s] <= n /\ lamport[s] + 1 <= n /\ n \in Nat
    BY <1>1, Numbers
  <2>2. QED
    BY <1>2, <2>1
<1>5. entries[s] \in Catalogs
  OBVIOUS
<1>6. \A j \in Ids : entries'[s][j] = IF j = i THEN e ELSE entries[s][j]
  BY <1>2, <1>5 DEF Catalogs
<1>7. \A c \in OwnCatalogs(s)' : c = entries'[s] \/ c \in OwnCatalogs(s)
  BY <1>2 DEF OwnCatalogs
<1>8. ClockAhead(s)'
  <2>1. ASSUME NEW c \in OwnCatalogs(s), NEW j \in Known(c) PROVE c[j].version <= lamport[s] + 1
    <3>1. c[j].version <= lamport[s]
      BY <2>1 DEF Sound, ClockAhead
    <3>2. c \in Catalogs
      BY DEF OwnCatalogs, Saves
    <3>3. c[j] \in Entry
      BY <3>2 DEF Known, Catalogs
    <3>4. c[j].version \in Nat
      BY <1>1, <3>3 DEF Entry
    <3>5. QED
      BY <1>1, <3>1, <3>4
  <2>2. ASSUME NEW j \in Known(entries'[s]) PROVE entries'[s][j].version <= lamport[s] + 1
    <3>1. CASE j = i
      BY <1>3, <1>6, <3>1
    <3>2. CASE j # i
      BY <1>6, <2>1, <3>2 DEF Known, OwnCatalogs
    <3>3. QED
      BY <3>1, <3>2
  <2>3. entries[s][i] # None => entries[s][i].version <= lamport[s] + 1
    BY <2>1 DEF Known, OwnCatalogs
  <2>4. ASSUME NEW c \in OwnCatalogs(s)', NEW j \in Known(c) PROVE c[j].version <= lamport'[s]
    <3>1. CASE c = entries'[s]
      BY <1>2, <2>2, <3>1
    <3>2. CASE c \in OwnCatalogs(s)
      BY <1>2, <2>1, <3>2
    <3>3. QED
      BY <1>7, <3>1, <3>2
  <2>5. writer'[s].prev = entries[s][i] /\ lamport'[s] <= seen'[s]
    BY <1>2, <1>4
  <2>6. QED
    BY <1>2, <2>3, <2>4, <2>5 DEF ClockAhead, Known
<1>9. EditHeld(s)'
  <2>1. Covers(entries'[s], i, e)
    BY <1>3, <1>6, RankOrder DEF Covers
  <2>2. QED
    BY <1>2, <2>1 DEF EditHeld
<1>10. AckedCovered(s)'
  <2>1. SUFFICES ASSUME seen'[s] <= MaxVersion, NEW j \in Ids, acked[s][j] # None
        PROVE  /\ \A c \in OwnCatalogs(s)' : Covers(c, j, acked[s][j])
               /\ j = i => entries[s][i] # None /\ ~Outranks(acked[s][j], entries[s][i])
    BY <1>2 DEF AckedCovered, BelowCap
  <2>2. \A c \in OwnCatalogs(s) : Covers(c, j, acked[s][j])
    BY <1>1, <1>4, <2>1 DEF Sound, AckedCovered, BelowCap
  <2>3. entries[s][j] # None /\ ~Outranks(acked[s][j], entries[s][j])
    BY <2>2 DEF OwnCatalogs, Covers
  <2>4. acked[s][j] \in Entry /\ entries[s][j] \in Entry
    BY <1>5, <2>1, <2>3 DEF Catalogs
  <2>5. Covers(entries'[s], j, acked[s][j])
    <3>1. CASE j = i
      <4>1. acked[s][j].version <= entries[s][j].version /\ entries[s][j].version <= lamport[s]
        BY <2>3, <2>4, RankOrder DEF Sound, ClockAhead, OwnCatalogs, Known
      <4>2. e.version = lamport[s] + 1
        BY <1>1, <1>3, <1>4, <2>1
      <4>3. acked[s][j].version \in Nat /\ entries[s][j].version \in Nat
        BY <1>1, <2>4 DEF Entry
      <4>4. acked[s][j].version < e.version
        BY <1>1, <4>1, <4>2, <4>3
      <4>5. ~Outranks(acked[s][j], e)
        BY <1>3, <2>4, <4>4, RankOrder
      <4>6. QED
        BY <1>3, <1>6, <3>1, <4>5 DEF Covers
    <3>2. CASE j # i
      BY <1>6, <2>3, <3>2 DEF Covers
    <3>3. QED
      BY <3>1, <3>2
  <2>6. QED
    BY <1>7, <2>2, <2>3, <2>5
<1>11. QED
  BY <1>8, <1>9, <1>10 DEF Sound

\* A step that leaves memory and the clock alone, makes nothing new a catalog the
\* station may come to hold, and leaves the handler its edit or without one.
LEMMA QuietSound ==
  ASSUME NEW s \in Stations, Sound(s),
         UNCHANGED <<entries[s], lamport[s], seen[s], acked[s]>>,
         OwnCatalogs(s)' \subseteq OwnCatalogs(s),
         \/ writer'[s] = None
         \/ /\ writer[s] # None
            /\ writer'[s].id = writer[s].id /\ writer'[s].entry = writer[s].entry
            /\ writer'[s].prev = writer[s].prev
            /\ writer'[s].pc = "saving" =>
                 Covers(saver'[s].snap, writer'[s].id, writer'[s].entry)
  PROVE  Sound(s)'
<1>1. ClockAhead(s)'
  BY DEF Sound, ClockAhead
<1>2. EditHeld(s)'
  BY DEF Sound, EditHeld
<1>3. AckedCovered(s)'
  <2>1. SUFFICES ASSUME seen[s] <= MaxVersion, NEW i \in Ids, acked[s][i] # None
        PROVE  /\ \A c \in OwnCatalogs(s)' : Covers(c, i, acked[s][i])
               /\ writer'[s] # None /\ writer'[s].id = i =>
                    writer'[s].prev # None /\ ~Outranks(acked[s][i], writer'[s].prev)
    BY DEF AckedCovered, BelowCap
  <2>2. QED
    BY <2>1 DEF Sound, AckedCovered, BelowCap
<1>4. QED
  BY <1>1, <1>2, <1>3 DEF Sound

\* The save succeeds: what is acknowledged now is what was written.
LEMMA SavedSound ==
  ASSUME TypeOK, SaveLockHeld, NEW s \in Stations, WebSaved(s), Sound(s)
  PROVE  Sound(s)'
<1> USE DEF TypeOK
<1>1. /\ writer[s] # None /\ writer[s].pc = "saving" /\ saver[s] # None
      /\ writer'[s] = None /\ saver'[s] = None
      /\ disk'[s] = saver[s].snap
      /\ acked'[s] = [acked[s] EXCEPT ![writer[s].id] = writer[s].entry]
      /\ UNCHANGED <<entries[s], lamport[s], seen[s]>>
  BY DEF WebSaved, At, SaveLockHeld, Saving, memory
<1>2. /\ \A c \in OwnCatalogs(s)' : c \in {entries[s], saver[s].snap}
      /\ OwnCatalogs(s)' \subseteq OwnCatalogs(s)
  BY <1>1 DEF OwnCatalogs
<1>3. ClockAhead(s)'
  BY <1>1, <1>2 DEF Sound, ClockAhead
<1>4. EditHeld(s)'
  BY <1>1 DEF EditHeld
<1>5. AckedCovered(s)'
  <2>1. SUFFICES ASSUME seen[s] <= MaxVersion, NEW i \in Ids, acked'[s][i] # None,
                        NEW c \in {entries[s], saver[s].snap}
        PROVE  Covers(c, i, acked'[s][i])
    BY <1>1, <1>2 DEF AckedCovered, BelowCap
  <2>2. acked[s] \in Catalogs
    OBVIOUS
  <2>3. CASE i = writer[s].id
    <3>1. acked'[s][i] = writer[s].entry
      BY <1>1, <2>2, <2>3 DEF Catalogs
    <3>2. QED
      BY <1>1, <2>1, <2>3, <3>1 DEF Sound, EditHeld
  <2>4. CASE i # writer[s].id
    <3>1. acked'[s][i] = acked[s][i]
      BY <1>1, <2>2, <2>4 DEF Catalogs
    <3>2. c \in OwnCatalogs(s)
      BY <1>1, <2>1 DEF OwnCatalogs
    <3>3. QED
      BY <2>1, <3>1, <3>2 DEF Sound, AckedCovered, BelowCap
  <2>5. QED
    BY <2>3, <2>4
<1>6. QED
  BY <1>3, <1>4, <1>5 DEF Sound

\* The rollback puts back what was there before the edit, which nothing was
\* acknowledged over.
LEMMA RollbackSound ==
  ASSUME TypeOK, NEW s \in Stations, Rollback(s), Sound(s)
  PROVE  Sound(s)'
<1> USE DEF TypeOK
<1> DEFINE i == writer[s].id
<1>1. /\ writer[s] # None /\ writer[s].pc = "rollback" /\ i \in Ids
      /\ entries'[s] = [entries[s] EXCEPT ![i] = writer[s].prev]
      /\ writer'[s] = None
      /\ UNCHANGED <<lamport[s], seen[s], disk[s], saver[s], acked[s]>>
  BY DEF Rollback, At, Edits
<1>2. \A c \in OwnCatalogs(s)' : c = entries'[s] \/ c \in OwnCatalogs(s)
  BY <1>1 DEF OwnCatalogs
<1>3. \A j \in Ids : entries'[s][j] = IF j = i THEN writer[s].prev ELSE entries[s][j]
  BY <1>1 DEF Catalogs
<1>4. ClockAhead(s)'
  <2>1. ASSUME NEW j \in Known(entries'[s]) PROVE entries'[s][j].version <= lamport[s]
    <3>1. CASE j = i
      BY <1>1, <1>3, <3>1 DEF Known, Sound, ClockAhead
    <3>2. CASE j # i
      BY <1>3, <3>2 DEF Known, Sound, ClockAhead, OwnCatalogs
    <3>3. QED
      BY <3>1, <3>2
  <2>2. QED
    BY <1>1, <1>2, <2>1 DEF Sound, ClockAhead
<1>5. EditHeld(s)'
  BY <1>1 DEF EditHeld
<1>6. AckedCovered(s)'
  <2>1. SUFFICES ASSUME seen[s] <= MaxVersion, NEW j \in Ids, acked[s][j] # None
        PROVE  Covers(entries'[s], j, acked[s][j])
    BY <1>1, <1>2 DEF Sound, AckedCovered, BelowCap
  <2>2. CASE j = i
    BY <1>1, <1>3, <2>1, <2>2 DEF Sound, AckedCovered, BelowCap, Covers
  <2>3. CASE j # i
    BY <1>3, <2>1, <2>3 DEF Sound, AckedCovered, BelowCap, Covers, OwnCatalogs
  <2>4. QED
    BY <2>2, <2>3
<1>7. QED
  BY <1>4, <1>5, <1>6 DEF Sound

\* A merge: what it takes outranks what it replaces, and the clock follows it.
LEMMA MergeSound ==
  ASSUME TypeOK, NEW s \in Stations, NEW m \in net[s], Receive(s, m), Sound(s)
  PROVE  Sound(s)'
<1> USE DEF TypeOK
<1> DEFINE i == m.id
           e == m.entry
<1>1. i \in Ids /\ e \in Entry /\ e # None /\ e.version \in Nat
  <2>1. i \in Ids /\ e \in Entry
    BY DEF Messages
  <2>2. QED
    BY <2>1, CatalogAssumption DEF Entry
<1>2. lamport[s] \in Nat /\ seen[s] \in Nat /\ MaxVersion \in Nat
  BY CatalogAssumption
<1>3. /\ lamport'[s] = Later(lamport[s], e.version)
      /\ seen'[s] = Later(seen[s], e.version)
      /\ UNCHANGED <<writer[s], disk[s], saver[s], acked[s]>>
  BY DEF Receive, Follow
<1>4. /\ lamport[s] <= lamport'[s] /\ e.version <= lamport'[s] /\ lamport'[s] \in Nat
      /\ seen[s] <= seen'[s] /\ e.version <= seen'[s] /\ seen'[s] \in Nat
  <2>1. \A m1, m2 \in Nat : m1 <= Later(m1, m2) /\ m2 <= Later(m1, m2) /\ Later(m1, m2) \in Nat
    BY Numbers
  <2>2. QED
    BY <1>1, <1>2, <1>3, <2>1
<1>5. \/ entries'[s] = entries[s]
      \/ /\ entries'[s] = [entries[s] EXCEPT ![i] = e]
         /\ Accepts(entries[s], i, e)
  BY DEF Receive, Follow
<1>6. \A j \in Ids : \/ entries'[s][j] = entries[s][j]
                     \/ /\ j = i /\ entries'[s][j] = e
                        /\ entries[s][j] # None => Outranks(e, entries[s][j])
  BY <1>1, <1>5 DEF Catalogs, Accepts
<1>7. \A c \in OwnCatalogs(s)' : c = entries'[s] \/ c \in OwnCatalogs(s)
  BY <1>3 DEF OwnCatalogs
\* What covers an entry of memory before covers it after.
<1>8. ASSUME NEW j \in Ids, NEW a \in Entry, Covers(entries[s], j, a)
      PROVE  Covers(entries'[s], j, a)
  <2>1. entries[s][j] \in Entry
    BY <1>8 DEF Covers, Catalogs
  <2>2. QED
    BY <1>1, <1>6, <1>8, <2>1, RankOrder DEF Covers
<1>9. ClockAhead(s)'
  <2>1. ASSUME NEW c \in OwnCatalogs(s), NEW j \in Known(c) PROVE c[j].version <= lamport'[s]
    <3>1. c[j].version <= lamport[s]
      BY <2>1 DEF Sound, ClockAhead
    <3>2. c \in Catalogs
      BY DEF OwnCatalogs, Saves
    <3>3. c[j] \in Entry
      BY <3>2 DEF Known, Catalogs
    <3>4. c[j].version \in Nat
      BY <1>2, <3>3 DEF Entry
    <3>5. QED
      BY <1>2, <1>4, <3>1, <3>4
  <2>2. ASSUME NEW j \in Known(entries'[s]) PROVE entries'[s][j].version <= lamport'[s]
    <3>1. CASE entries'[s][j] = entries[s][j]
      BY <2>1, <3>1 DEF Known, OwnCatalogs
    <3>2. CASE entries'[s][j] = e
      BY <1>4, <3>2
    <3>3. QED
      BY <1>6, <3>1, <3>2 DEF Known
  <2>3. writer[s] # None /\ writer[s].prev # None => writer[s].prev.version <= lamport'[s]
    <3>1. SUFFICES ASSUME writer[s] # None, writer[s].prev # None
          PROVE  writer[s].prev.version <= lamport'[s]
      OBVIOUS
    <3>2. writer[s].prev \in Entry
      BY <3>1 DEF Edits
    <3>3. writer[s].prev.version \in Nat
      BY <1>2, <3>2 DEF Entry
    <3>4. QED
      BY <1>2, <1>4, <3>1, <3>3 DEF Sound, ClockAhead
  <2>4. ASSUME NEW c \in OwnCatalogs(s)', NEW j \in Known(c) PROVE c[j].version <= lamport'[s]
    BY <1>7, <2>1, <2>2, <2>4
  <2>5. lamport'[s] <= seen'[s]
    BY <1>1, <1>2, <1>3 DEF Sound, ClockAhead, Later
  <2>6. QED
    BY <1>3, <2>3, <2>4, <2>5 DEF ClockAhead
<1>10. EditHeld(s)'
  <2>1. writer[s] # None => writer[s].id \in Ids /\ writer[s].entry \in Entry
    BY DEF Edits
  <2>2. QED
    BY <1>3, <1>8, <2>1 DEF Sound, EditHeld
<1>11. AckedCovered(s)'
  <2>1. SUFFICES ASSUME seen'[s] <= MaxVersion, NEW j \in Ids, acked[s][j] # None
        PROVE  /\ \A c \in OwnCatalogs(s)' : Covers(c, j, acked[s][j])
               /\ writer[s] # None /\ writer[s].id = j =>
                    writer[s].prev # None /\ ~Outranks(acked[s][j], writer[s].prev)
    BY <1>3 DEF AckedCovered, BelowCap
  <2>2. seen[s] <= MaxVersion
    BY <1>2, <1>4, <2>1
  <2>3. \A c \in OwnCatalogs(s) : Covers(c, j, acked[s][j])
    BY <2>1, <2>2 DEF Sound, AckedCovered, BelowCap
  <2>4. acked[s][j] \in Entry
    BY <2>1 DEF Catalogs
  <2>5. Covers(entries'[s], j, acked[s][j])
    BY <1>8, <2>3, <2>4 DEF OwnCatalogs
  <2>6. QED
    BY <1>7, <2>1, <2>2, <2>3, <2>5 DEF Sound, AckedCovered, BelowCap
<1>12. QED
  BY <1>9, <1>10, <1>11 DEF Sound

\* A start: everything the file covered is covered, and the clock is above it.
LEMMA RestartSound ==
  ASSUME TypeOK, NEW s \in Stations, NEW t \in Stamps, Restart(s, t), Sound(s)
  PROVE  Sound(s)'
<1> USE DEF TypeOK
<1> DEFINE n == Cardinality(Unknown(disk[s], selected[s]))
           c(m) == Seeded(s, disk[s], selected[s], m, t)
<1>1. PICK m \in {0} \cup Versions(disk[s]) :
        /\ IsClockOf(m, disk[s])
        /\ entries' = [entries EXCEPT ![s] = c(m)]
        /\ lamport' = [lamport EXCEPT ![s] = m + n]
        /\ seen' = [seen EXCEPT ![s] = Later(@, m + n)]
        /\ disk' \in {disk, [disk EXCEPT ![s] = c(m)]}
  BY DEF Restart
<1>2. m \in Nat /\ seen[s] \in Nat /\ MaxVersion \in Nat
  <2>1. disk[s] \in Catalogs /\ seen[s] \in Nat
    OBVIOUS
  <2> HIDE DEF TypeOK
  <2>2. CASE m = 0
    BY <2>1, <2>2, CatalogAssumption
  <2>3. CASE m # 0
    <3>1. PICK i \in Ids : disk[s][i] # None /\ m = disk[s][i].version
      BY <2>3 DEF Versions
    <3>2. disk[s][i] \in Entry
      BY <2>1, <3>1 DEF Catalogs
    <3>3. m \in 0..MaxVersion
      BY <3>1, <3>2 DEF Entry
    <3>4. QED
      BY <2>1, <3>3, CatalogAssumption
  <2>4. QED
    BY <2>2, <2>3
<1>3. \A i \in Known(disk[s]) : disk[s][i].version <= m
  BY <1>1 DEF IsClockOf, Versions, Known
<1>4. /\ n \in Nat /\ c(m) \in Catalogs
      /\ \A i \in Ids : disk[s][i] # None => c(m)[i] = disk[s][i]
      /\ \A i \in Known(c(m)) : c(m)[i].version <= m + n
  <2>1. disk[s] \in Catalogs /\ selected[s] \in SUBSET Ids
    OBVIOUS
  <2> HIDE DEF TypeOK
  <2>2. n \in Nat /\ c(m) \in Catalogs
    BY <1>2, <2>1, SeedFacts
  <2>3. \A i \in Ids : disk[s][i] # None => c(m)[i] = disk[s][i]
    BY DEF Seeded, Unknown, Known
  <2>4. \A i \in Known(c(m)) : c(m)[i].version <= m + n
    BY <1>2, <1>3, <2>1, SeedFacts
  <2>5. QED
    BY <2>2, <2>3, <2>4
<1>5. m + n \in Nat
  BY <1>2, <1>4
<1>6. /\ entries'[s] = c(m) /\ lamport'[s] = m + n /\ disk'[s] \in {disk[s], c(m)}
      /\ writer'[s] = None /\ saver'[s] = None /\ acked'[s] = acked[s]
      /\ seen'[s] = Later(seen[s], m + n)
  BY <1>1 DEF Restart
<1>7. m + n <= seen'[s] /\ seen[s] <= seen'[s] /\ seen'[s] \in Nat
  BY <1>2, <1>5, <1>6, Numbers
<1>8. \A d \in OwnCatalogs(s)' : d \in {disk[s], c(m)}
  BY <1>6 DEF OwnCatalogs
<1>9. ClockAhead(s)'
  <2>1. \A i \in Known(disk[s]) : disk[s][i].version <= m + n
    <3>1. ASSUME NEW i \in Known(disk[s]) PROVE i \in Known(c(m)) /\ c(m)[i] = disk[s][i]
      BY <1>4 DEF Known
    <3>2. QED
      BY <1>4, <3>1
  <2>2. QED
    BY <1>4, <1>6, <1>7, <1>8, <2>1 DEF ClockAhead
<1>10. EditHeld(s)'
  BY <1>6 DEF EditHeld
<1>11. AckedCovered(s)'
  <2>1. SUFFICES ASSUME seen'[s] <= MaxVersion, NEW i \in Ids, acked[s][i] # None,
                        NEW d \in {disk[s], c(m)}
        PROVE  Covers(d, i, acked[s][i])
    BY <1>6, <1>8 DEF AckedCovered, BelowCap
  <2>2. seen[s] <= MaxVersion
    BY <1>2, <1>7, <2>1
  <2>3. Covers(disk[s], i, acked[s][i])
    BY <2>1, <2>2 DEF Sound, AckedCovered, BelowCap, OwnCatalogs
  <2>4. QED
    BY <1>4, <2>1, <2>3 DEF Covers
<1>12. QED
  BY <1>9, <1>10, <1>11 DEF Sound

\* The invariant is inductive.
LEMMA StepSound == IInv /\ [Next]_vars => IInv'
<1> SUFFICES ASSUME IInv, [Next]_vars PROVE IInv'
  OBVIOUS
<1> USE DEF IInv
<1>1. TypeOK' /\ SaveLockHeld'
  BY StepType
<1>2. CASE UNCHANGED vars
  BY <1>1, <1>2 DEF vars, Sound, ClockAhead, EditHeld, AckedCovered, OwnCatalogs, BelowCap
<1>3. ASSUME NEW s \in Stations, Step(s) PROVE Sound(s)'
  <2> USE DEF TypeOK
  <2>1. ASSUME NEW i \in Ids, NEW t \in Stamps, Put(s, i, t) \/ Delete(s, i, t)
        PROVE  Sound(s)'
    BY <2>1, EditSound DEF Put, Delete
  <2>2. CASE WebSave(s)
    <3>1. saver'[s].snap = entries[s] /\ writer'[s] = [writer[s] EXCEPT !.pc = "saving"]
      BY <2>2 DEF WebSave, At
    <3>2. UNCHANGED <<entries[s], lamport[s], seen[s], acked[s], disk[s]>> /\ writer[s] # None
      BY <2>2 DEF WebSave, memory, At
    <3>3. OwnCatalogs(s)' \subseteq OwnCatalogs(s)
      BY <3>1, <3>2 DEF OwnCatalogs
    <3>4. /\ writer'[s].id = writer[s].id /\ writer'[s].entry = writer[s].entry
          /\ writer'[s].prev = writer[s].prev
      BY <3>1, <3>2 DEF Edits
    <3>5. Covers(saver'[s].snap, writer'[s].id, writer'[s].entry)
      BY <3>1, <3>2, <3>4 DEF Sound, EditHeld
    <3>6. QED
      BY <3>2, <3>3, <3>4, <3>5, QuietSound
  <2>3. CASE WebSaved(s)
    BY <2>3, SavedSound
  <2>4. CASE WebSaveFailed(s)
    <3>1. /\ writer'[s] = [writer[s] EXCEPT !.pc = "failed"] /\ writer[s] # None
          /\ saver'[s] = None
          /\ UNCHANGED <<entries[s], lamport[s], seen[s], acked[s], disk[s]>>
      BY <2>4 DEF WebSaveFailed, memory, At
    <3>2. /\ writer'[s].id = writer[s].id /\ writer'[s].entry = writer[s].entry
          /\ writer'[s].prev = writer[s].prev /\ writer'[s].pc = "failed"
      BY <3>1 DEF Edits
    <3>3. OwnCatalogs(s)' \subseteq OwnCatalogs(s)
      BY <3>1 DEF OwnCatalogs
    <3>4. QED
      BY <3>1, <3>2, <3>3, QuietSound
  <2>5. CASE RollbackCheck(s)
    <3>1. /\ writer'[s] \in {None, [writer[s] EXCEPT !.pc = "rollback"]} /\ writer[s] # None
          /\ UNCHANGED <<entries[s], lamport[s], seen[s], acked[s], disk[s], saver[s]>>
      BY <2>5 DEF RollbackCheck, memory, At
    <3>2. writer'[s] # None =>
            /\ writer'[s].id = writer[s].id /\ writer'[s].entry = writer[s].entry
            /\ writer'[s].prev = writer[s].prev /\ writer'[s].pc = "rollback"
      BY <3>1 DEF Edits
    <3>3. OwnCatalogs(s)' \subseteq OwnCatalogs(s)
      BY <3>1 DEF OwnCatalogs
    <3>4. QED
      BY <3>1, <3>2, <3>3, QuietSound
  <2>6. CASE Rollback(s)
    BY <2>6, RollbackSound
  <2>7. CASE (\E i \in Ids, R \in SUBSET (Stations \ {s}) : Beacon(s, i, R))
             \/ (\E m \in net[s] : Lose(s, m))
    <3>1. UNCHANGED <<entries[s], lamport[s], seen[s], acked[s], disk[s], saver[s], writer[s]>>
      BY <2>7 DEF Beacon, Lose, memory, threads
    <3>2. QED
      BY <3>1, QuietSound DEF OwnCatalogs, Sound, EditHeld
  <2>8. ASSUME NEW m \in net[s], Receive(s, m) PROVE Sound(s)'
    BY <2>8, MergeSound
  <2>9. CASE OnChange(s)
    <3>1. /\ saver[s] = None /\ saver'[s].snap = entries[s]
          /\ UNCHANGED <<entries[s], lamport[s], seen[s], acked[s], disk[s], writer[s]>>
      BY <2>9 DEF OnChange, memory
    <3>2. OwnCatalogs(s)' \subseteq OwnCatalogs(s)
      BY <3>1 DEF OwnCatalogs
    <3>3. ~At(s, "saving")
      BY <3>1 DEF SaveLockHeld, Saving
    <3>4. QED
      BY <3>1, <3>2, <3>3, QuietSound DEF At
  <2>10. CASE OnChangeDone(s)
    <3>1. /\ saver[s] # None /\ saver[s].by = "rx" /\ saver'[s] = None
          /\ disk'[s] \in {disk[s], saver[s].snap}
          /\ UNCHANGED <<entries[s], lamport[s], seen[s], acked[s], writer[s]>>
      BY <2>10 DEF OnChangeDone, memory, Saving
    <3>2. OwnCatalogs(s)' \subseteq OwnCatalogs(s)
      BY <3>1 DEF OwnCatalogs
    <3>3. ~At(s, "saving")
      BY <3>1 DEF SaveLockHeld, Saving
    <3>4. QED
      BY <3>1, <3>2, <3>3, QuietSound DEF At
  <2>11. ASSUME NEW t \in Stamps, Restart(s, t) PROVE Sound(s)'
    BY <2>11, RestartSound
  <2>12. QED
    BY <1>3, <2>1, <2>2, <2>3, <2>4, <2>5, <2>6, <2>7, <2>8, <2>9, <2>10, <2>11 DEF Step
<1>4. ASSUME NEW s \in Stations, Step(s), NEW r \in Stations PROVE Sound(r)'
  BY <1>3, <1>4, OtherStations
<1>5. QED
  BY <1>1, <1>2, <1>4 DEF Next

\* The first start: nothing acknowledged, the clock at the seeds.
LEMMA InitSound == Init => IInv
<1> SUFFICES ASSUME Init PROVE IInv
  OBVIOUS
<1> DEFINE empty == [i \in Ids |-> None]
<1>1. TypeOK /\ SaveLockHeld
  BY InitType DEF Init, SaveLockHeld, At
<1>2. ASSUME NEW s \in Stations PROVE Sound(s)
  <2>1. /\ acked[s] = empty /\ writer[s] = None /\ saver[s] = None /\ seen[s] = lamport[s]
        /\ lamport[s] = Cardinality(selected[s]) /\ disk[s] \in {entries[s], empty}
    BY DEF Init
  <2>2. \A i \in Known(entries[s]) : entries[s][i].version <= lamport[s]
    <3>1. PICK t \in [Stations -> Stamps] : entries[s] = Seeded(s, empty, selected[s], 0, t[s])
      BY DEF Init
    <3>2. empty \in Catalogs /\ Known(empty) = {} /\ selected[s] \in SUBSET Ids
      BY <1>1 DEF Catalogs, Known, TypeOK
    <3>3. Unknown(empty, selected[s]) = selected[s]
      BY <3>2 DEF Unknown
    <3>4. \A i \in Known(entries[s]) : entries[s][i].version <= 0 + Cardinality(selected[s])
      BY <3>1, <3>2, <3>3, SeedFacts
    <3>5. Cardinality(selected[s]) \in Nat
      BY <3>2, CatalogAssumption, FS_Subset, FS_CardinalityType
    <3>6. QED
      BY <2>1, <3>4, <3>5
  <2>3. ClockAhead(s)
    <3>1. seen[s] \in Nat
      BY <1>1 DEF TypeOK
    <3>2. \A i \in Known(empty) : FALSE
      BY DEF Known
    <3>3. QED
      BY <2>1, <2>2, <3>1, <3>2 DEF ClockAhead, OwnCatalogs
  <2>4. EditHeld(s) /\ AckedCovered(s)
    BY <2>1 DEF EditHeld, AckedCovered
  <2>5. QED
    BY <2>3, <2>4 DEF Sound
<1>3. QED
  BY <1>1, <1>2 DEF IInv

LEMMA InvariantHolds == Spec => []IInv
<1>1. Init => IInv
  BY InitSound
<1>2. IInv /\ [Next]_vars => IInv'
  BY StepSound
<1>3. QED
  BY <1>1, <1>2, PTL DEF Spec

-----------------------------------------------------------------------------
\* An edit a handler answered with success stays in memory and in markers.toml,
\* or is outranked there, on every station whose clock is below the cap.
THEOREM AckedEditsSurvive == Spec => []AckedEditSurvives
<1>1. IInv => AckedEditSurvives
  BY DEF IInv, Sound, AckedCovered, AckedEditSurvives, OwnCatalogs
<1>2. QED
  BY <1>1, InvariantHolds, PTL

\* An edit made now outranks everything the station holds, until the cap.
THEOREM NextEditsWin == Spec => []NextEditWins
<1>1. ASSUME IInv PROVE NextEditWins
  <2>1. SUFFICES ASSUME NEW s \in Stations, seen[s] < MaxVersion,
                        NEW c \in {entries[s], disk[s]}, NEW i \in Known(c)
        PROVE  c[i].version < Capped(lamport[s] + 1)
    BY DEF NextEditWins, Versions, Known
  <2>2. lamport[s] \in Nat /\ seen[s] \in Nat /\ c \in Catalogs
    BY <1>1 DEF IInv, TypeOK
  <2>3. c[i].version <= lamport[s] /\ lamport[s] <= seen[s]
    BY <1>1 DEF IInv, Sound, ClockAhead, OwnCatalogs
  <2>4. c[i].version \in Nat
    <3>1. c[i] \in Entry
      BY <2>2 DEF Catalogs, Known
    <3>2. c[i].version \in 0..MaxVersion
      BY <3>1 DEF Entry
    <3>3. QED
      BY <3>2, CatalogAssumption
  <2>5. MaxVersion \in Nat
    BY CatalogAssumption
  <2>6. lamport[s] + 1 \in Nat /\ lamport[s] + 1 <= MaxVersion
    BY <2>1, <2>2, <2>3, <2>5
  <2>7. Capped(lamport[s] + 1) = lamport[s] + 1
    BY <2>6, Numbers
  <2>8. QED
    BY <2>2, <2>3, <2>4, <2>7
<1>2. QED
  BY <1>1, InvariantHolds, PTL

\* Until a station is started again its clock is the highest version it met.
THEOREM ClocksNeverForget == Spec => []ClockNeverForgets
<1> DEFINE I == TypeOK /\ SaveLockHeld /\ ClockNeverForgets
<1>1. Init => I
  BY InitType DEF Init, SaveLockHeld, At, ClockNeverForgets
<1>2. ASSUME I, [Next]_vars PROVE I'
  <2>1. TypeOK' /\ SaveLockHeld'
    BY <1>2, StepType
  <2> USE <1>2 DEF ClockNeverForgets, TypeOK
  <2>2. ASSUME UNCHANGED vars, NEW r \in Stations, boots'[r] = 0 PROVE lamport'[r] = seen'[r]
    BY <2>2 DEF vars
  <2>3. ASSUME NEW s \in Stations, Step(s), NEW r \in Stations, boots'[r] = 0
        PROVE  lamport'[r] = seen'[r]
    <3>1. CASE UNCHANGED <<lamport, seen, boots>>
      BY <2>3, <3>1
    <3>2. ASSUME NEW i \in Ids, NEW t \in Stamps, Put(s, i, t) \/ Delete(s, i, t)
          PROVE  lamport'[r] = seen'[r]
      BY <2>3, <3>2 DEF Put, Delete, Edit, Later
    <3>3. ASSUME NEW m \in net[s], Receive(s, m) PROVE lamport'[r] = seen'[r]
      BY <2>3, <3>3 DEF Receive, Follow
    <3>4. ASSUME NEW t \in Stamps, Restart(s, t) PROVE lamport'[r] = seen'[r]
      BY <2>3, <3>4 DEF Restart
    <3>5. QED
      BY <2>3, <3>1, <3>2, <3>3, <3>4
         DEF Step, WebSave, WebSaved, WebSaveFailed, RollbackCheck, Rollback, Beacon, Lose,
             OnChange, OnChangeDone, memory
  <2>4. ASSUME NEW r \in Stations, boots'[r] = 0 PROVE lamport'[r] = seen'[r]
    BY <2>2, <2>3, <2>4 DEF Next, vars
  <2>5. QED
    BY <2>1, <2>4
<1>3. QED
  BY <1>1, <1>2, PTL DEF Spec
=============================================================================
