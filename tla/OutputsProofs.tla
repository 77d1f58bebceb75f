--------------------------- MODULE OutputsProofs ---------------------------
(***************************************************************************)
(* Proofs about PlaneObserver, for any debounce, backoff and addresses:    *)
(* the type invariant, and that the observer implements PlanePromise.  And *)
(* about OscTransmitter, for any rows, markers, configs and bounds: what   *)
(* the gate compares with was heard.                                       *)
(***************************************************************************)
EXTENDS OutputsMC, FiniteSetTheorems, FunctionTheorems, SequenceTheorems, WellFoundedInduction, TLAPS

\* Only a failure waits, and an outage that stands in front of one is counted.
FailureSound ==
  /\ wait # 0 => failure
  /\ superseded => downPolls # 0

\* An outage that took a followed plane's memberships away was seen.
OutageSound == enabled /\ stale => sawOutage

\* The debounce has counted what the polls found.
CountSound ==
  /\ dark < DownPolls => downPolls = dark
  /\ dark >= DownPolls => downPolls = DownPolls

Numbers ==
  /\ addr \in Addrs \cup {None} /\ bound \in Addrs \cup {Any, None}
  /\ downPolls \in 0 .. DownPolls /\ dark \in 0 .. DownPolls + 1
  /\ wait \in 0 .. MaxBackoff /\ backoff \in Backoff .. MaxBackoff /\ changes \in 0 .. MaxChanges

Flags ==
  /\ enabled \in BOOLEAN /\ complete \in BOOLEAN /\ suspended \in BOOLEAN /\ sawOutage \in BOOLEAN
  /\ failure \in BOOLEAN /\ superseded \in BOOLEAN /\ stale \in BOOLEAN

IInv == Numbers /\ Flags /\ FailureSound /\ OutageSound /\ CountSound

-----------------------------------------------------------------------------
(* What the helpers leave behind.                                          *)

LEMMA WaitingIs ==
  ASSUME Numbers
  PROVE  Waiting \in 0 .. MaxBackoff /\ (BackingOff => wait # 0)
BY PlaneObserverAssumption DEF Numbers, Waiting, BackingOff

LEMMA CountIs ==
  ASSUME Numbers
  PROVE  /\ Count(downPolls) \in 1 .. DownPolls
         /\ downPolls < DownPolls => Count(downPolls) = downPolls + 1
         /\ downPolls = DownPolls => Count(downPolls) = DownPolls
BY PlaneObserverAssumption DEF Numbers, Count, Smaller

\* How the bookkeeping of a failure may be left.
Booked ==
  /\ wait' \in 0 .. MaxBackoff /\ backoff' \in Backoff .. MaxBackoff
  /\ failure' \in BOOLEAN /\ superseded' \in BOOLEAN
  /\ wait' # 0 => failure'

LEMMA ClearIs ==
  ASSUME ClearFailure
  PROVE  Booked /\ ~failure' /\ ~superseded' /\ wait' = 0
<1>1. wait' = 0 /\ backoff' = Backoff /\ ~failure' /\ ~superseded'
  BY DEF ClearFailure
<1>2. wait' \in 0 .. MaxBackoff /\ backoff' \in Backoff .. MaxBackoff
  BY <1>1, PlaneObserverAssumption
<1>3. failure' \in BOOLEAN /\ superseded' \in BOOLEAN
  BY Zenon DEF ClearFailure
<1>4. QED
  BY <1>1, <1>2, <1>3 DEF Booked

LEMMA FailIs ==
  ASSUME Numbers, Fail
  PROVE  Booked /\ failure' /\ ~superseded' /\ wait' # 0
<1>1. wait' = backoff /\ backoff' = Smaller(2 * backoff, MaxBackoff) /\ failure' /\ ~superseded'
  BY DEF Fail
<1>2. wait' \in 0 .. MaxBackoff /\ backoff' \in Backoff .. MaxBackoff /\ wait' # 0
  BY <1>1, PlaneObserverAssumption DEF Numbers, Smaller
<1>3. failure' \in BOOLEAN /\ superseded' \in BOOLEAN
  BY Zenon DEF Fail
<1>4. QED
  BY <1>1, <1>2, <1>3 DEF Booked

LEMMA StandByIs ==
  ASSUME Numbers, Flags, FailureSound, NEW s \in BOOLEAN, StandBy(s)
  PROVE  Booked /\ wait' = Waiting /\ (failure' <=> failure) /\ (superseded' <=> s)
<1>1. wait' = Waiting /\ backoff' = backoff /\ failure' = failure /\ superseded' = s
  BY DEF StandBy
<1>2. wait' \in 0 .. MaxBackoff /\ backoff' \in Backoff .. MaxBackoff
  BY <1>1, WaitingIs DEF Numbers
<1>3. failure' \in BOOLEAN /\ superseded' \in BOOLEAN
  BY Zenon, <1>1 DEF Flags
<1>4. wait' # 0 => failure'
  <2>1. wait' # 0 => wait # 0
    BY <1>1 DEF Waiting
  <2>2. QED
    BY <1>1, <2>1 DEF FailureSound
<1>5. QED
  BY <1>1, <1>2, <1>3, <1>4 DEF Booked

LEMMA RecordFailureIs ==
  ASSUME Numbers, Flags, FailureSound, NEW s \in BOOLEAN, RecordFailure(s)
  PROVE  /\ Booked /\ failure'
         /\ superseded' => s
<1>1. CASE BackingOff
  <2>1. StandBy(s)
    BY <1>1 DEF RecordFailure, StandBy
  <2>2. failure
    BY <1>1, WaitingIs DEF FailureSound
  <2>3. QED
    BY <2>1, <2>2, StandByIs
<1>2. CASE ~BackingOff
  BY <1>2, FailIs DEF RecordFailure
<1>3. QED
  BY <1>1, <1>2

-----------------------------------------------------------------------------
(* Every step keeps the invariant, and is one the promise allows.          *)

\* What a poll does to the alert and the plane, for any of its ends.
Kept == IInv' /\ [Promise!Next]_(Promise!vars)

LEMMA UnfollowedStep == ASSUME IInv, PollUnfollowed PROVE Kept
<1>1. Booked /\ ~failure' /\ ~superseded' /\ wait' = 0
  BY ClearIs DEF PollUnfollowed
<1>2. /\ ~enabled /\ downPolls' = 0 /\ ~suspended' /\ ~sawOutage' /\ dark' = 0
      /\ UNCHANGED <<bound, complete, addr, enabled, changes, stale>>
  BY DEF PollUnfollowed, plane, world
<1>3. Numbers'
  BY <1>1, <1>2, PlaneObserverAssumption DEF IInv, Numbers, Booked
<1>4. Flags'
  <2>1. suspended' \in BOOLEAN /\ sawOutage' \in BOOLEAN
    BY Zenon DEF PollUnfollowed
  <2>2. QED
    BY Zenon, <1>1, <1>2, <2>1 DEF IInv, Flags, Booked
<1>5. FailureSound' /\ OutageSound' /\ CountSound'
  BY <1>1, <1>2, PlaneObserverAssumption DEF FailureSound, OutageSound, CountSound
<1>6. Promise!Unfollowed
  <2>1. ~Alert' /\ ~(failure /\ wait # 0)'
    BY <1>1, <1>2 DEF Alert
  <2>2. (complete /\ ~stale)' = (complete /\ ~stale)
    BY Zenon, <1>2
  <2>3. QED
    BY Zenon, <1>2, <2>1, <2>2 DEF Promise!Unfollowed
<1>7. QED
  BY <1>3, <1>4, <1>5, <1>6 DEF IInv, Kept, Promise!Next

LEMMA RaisesStep == ASSUME IInv, PollRaises PROVE Kept
<1>1. Booked /\ failure' /\ (superseded' => superseded)
  <2>1. superseded \in BOOLEAN /\ RecordFailure(superseded)
    BY DEF IInv, Flags, PollRaises
  <2>2. QED
    BY <2>1, RecordFailureIs DEF IInv
<1>2. enabled /\ UNCHANGED <<downPolls, suspended, sawOutage, bound, complete, addr, enabled, changes, dark, stale>>
  BY DEF PollRaises, plane, world, history
<1>3. Numbers'
  BY <1>1, <1>2 DEF IInv, Numbers, Booked
<1>4. Flags'
  BY Zenon, <1>1, <1>2 DEF IInv, Flags, Booked
<1>5. FailureSound' /\ OutageSound' /\ CountSound'
  BY <1>1, <1>2 DEF IInv, FailureSound, OutageSound, CountSound
<1>6. Promise!Unresolved
  <2>1. Alert'
    BY <1>1, <1>2 DEF Alert, IInv, FailureSound
  <2>2. Promise!NothingSilent
    BY <2>1 DEF Promise!NothingSilent
  <2>3. Alert' \in BOOLEAN /\ (failure /\ wait # 0)' \in BOOLEAN
    BY Zenon DEF Alert
  <2>4. (complete /\ ~stale)' = (complete /\ ~stale)
    BY Zenon, <1>2
  <2>5. QED
    BY Zenon, <1>2, <2>2, <2>3, <2>4 DEF Promise!Unresolved
<1>7. QED
  BY <1>3, <1>4, <1>5, <1>6 DEF IInv, Kept, Promise!Next

\* A poll that finds no address: whatever becomes of the plane, the outage is
\* counted and shown, and a plane that is left bound is one that is tried again.
LEMMA DarkStep ==
  ASSUME IInv, enabled, addr = None, Booked,
         downPolls' = Count(downPolls), sawOutage' = TRUE,
         dark' = IF dark < DownPolls THEN dark + 1 ELSE 2 * DownPolls + 1 - dark,
         UNCHANGED <<addr, enabled, changes>>,
         suspended' \in BOOLEAN, stale' \in BOOLEAN, complete' \in BOOLEAN,
         bound' \in {bound, None},
         Count(downPolls) < DownPolls => bound' = bound,
         Count(downPolls) = DownPolls => bound' = None \/ (failure' /\ wait' # 0)
  PROVE  Kept
<1>1. Numbers'
  <2>1. dark' \in 0 .. DownPolls + 1
    BY PlaneObserverAssumption DEF IInv, Numbers
  <2>2. downPolls' \in 0 .. DownPolls
    BY CountIs, PlaneObserverAssumption DEF IInv
  <2>3. bound' \in Addrs \cup {Any, None}
    BY DEF IInv, Numbers
  <2>4. QED
    BY <2>1, <2>2, <2>3 DEF IInv, Numbers, Booked
<1>2. Flags'
  <2>1. sawOutage' \in BOOLEAN
    BY Zenon
  <2>2. QED
    BY Zenon, <2>1 DEF IInv, Flags, Booked
<1>3. downPolls' # 0
  BY CountIs, PlaneObserverAssumption DEF IInv
<1>4. CountSound' /\ (dark' < DownPolls <=> Count(downPolls) < DownPolls)
  BY CountIs, PlaneObserverAssumption DEF IInv, Numbers, CountSound
<1>5. FailureSound' /\ OutageSound'
  BY <1>3 DEF Booked, FailureSound, OutageSound
<1>6. /\ Alert' /\ (complete /\ ~stale)' \in BOOLEAN /\ (failure /\ wait # 0)' \in BOOLEAN
  <2>1. Alert'
    BY <1>3 DEF Alert
  <2>2. (complete /\ ~stale)' \in BOOLEAN /\ (failure /\ wait # 0)' \in BOOLEAN
    BY Zenon
  <2>3. QED
    BY <2>1, <2>2
<1>7. dark' = Promise!OneMore(dark)
  BY DEF Promise!OneMore
<1>8. CASE Count(downPolls) < DownPolls
  <2>1. Promise!Waiting
    BY Zenon, <1>4, <1>6, <1>7, <1>8 DEF Promise!Waiting
  <2>2. QED
    BY <1>1, <1>2, <1>4, <1>5, <2>1 DEF IInv, Kept, Promise!Next
<1>9. CASE Count(downPolls) = DownPolls
  <2>1. dark' >= DownPolls
    BY <1>1, <1>4, <1>9, PlaneObserverAssumption DEF Numbers
  <2>2. bound' \in {None, bound} /\ (bound' # None => (failure /\ wait # 0)')
    BY <1>9
  <2>3. Promise!Dark
    BY Zenon, <1>6, <1>7, <2>1, <2>2 DEF Promise!Dark
  <2>4. QED
    BY <1>1, <1>2, <1>4, <1>5, <2>3 DEF IInv, Kept, Promise!Next
<1>10. QED
  BY <1>8, <1>9, CountIs, PlaneObserverAssumption DEF IInv

LEMMA DownStep == ASSUME IInv, PollDown PROVE Kept
<1> DEFINE s == IF downPolls = 0 THEN failure ELSE superseded
<1>1. /\ enabled /\ addr = None /\ downPolls' = Count(downPolls) /\ sawOutage' = TRUE
      /\ dark' = IF dark < DownPolls THEN dark + 1 ELSE 2 * DownPolls + 1 - dark
      /\ UNCHANGED <<addr, enabled, changes>>
  BY DEF PollDown, world
<1>2. s \in BOOLEAN
  BY Zenon DEF IInv, Flags
<1>3. Count(downPolls) \in 1 .. DownPolls
  BY CountIs DEF IInv
<1>4. (stale \/ bound # None) \in BOOLEAN /\ FALSE \in BOOLEAN /\ TRUE \in BOOLEAN
  BY Zenon
<1>5. CASE /\ Count(downPolls) < DownPolls /\ StandBy(s)
           /\ stale' = (stale \/ bound # None) /\ UNCHANGED <<suspended, plane>>
  <2>1. Booked
    BY <1>2, <1>5, StandByIs DEF IInv
  <2>2. /\ suspended' \in BOOLEAN /\ stale' \in BOOLEAN /\ complete' \in BOOLEAN
        /\ bound' = bound
    BY Zenon, <1>4, <1>5 DEF IInv, Flags, plane
  <2>3. QED
    BY <1>1, <1>3, <1>5, <2>1, <2>2, DarkStep
<1>6. CASE /\ Count(downPolls) = DownPolls /\ IsStopped /\ ClearFailure
           /\ stale' = (stale \/ bound # None) /\ UNCHANGED <<suspended, plane>>
  <2>1. Booked
    BY <1>6, ClearIs
  <2>2. /\ suspended' \in BOOLEAN /\ stale' \in BOOLEAN /\ complete' \in BOOLEAN
        /\ bound' = bound /\ bound' = None
    BY Zenon, <1>4, <1>6 DEF IInv, Flags, plane, IsStopped
  <2>3. QED
    BY <1>1, <1>3, <1>6, <2>1, <2>2, DarkStep
<1>7. CASE /\ Count(downPolls) = DownPolls /\ BackingOff /\ StandBy(s)
           /\ stale' = (stale \/ bound # None) /\ UNCHANGED <<suspended, plane>>
  <2>1. Booked /\ wait' # 0 /\ failure'
    <3>1. Booked /\ wait' = Waiting
      BY <1>2, <1>7, StandByIs DEF IInv
    <3>2. QED
      BY <1>7, <3>1 DEF BackingOff, Booked
  <2>2. /\ suspended' \in BOOLEAN /\ stale' \in BOOLEAN /\ complete' \in BOOLEAN
        /\ bound' = bound
    BY Zenon, <1>4, <1>7 DEF IInv, Flags, plane
  <2>3. QED
    BY <1>1, <1>3, <1>7, <2>1, <2>2, DarkStep
<1>8. CASE /\ Count(downPolls) = DownPolls
           /\ bound' = None /\ complete' = FALSE /\ stale' = FALSE /\ suspended' = TRUE /\ ClearFailure
  <2>1. Booked
    BY <1>8, ClearIs
  <2>2. suspended' \in BOOLEAN /\ stale' \in BOOLEAN /\ complete' \in BOOLEAN
    BY Zenon, <1>4, <1>8
  <2>3. QED
    BY <1>1, <1>3, <1>8, <2>1, <2>2, DarkStep
<1>9. CASE Count(downPolls) = DownPolls /\ Halfway /\ Fail /\ UNCHANGED suspended
  <2>1. Booked /\ failure' /\ wait' # 0
    BY <1>9, FailIs DEF IInv
  <2>2. /\ suspended' \in BOOLEAN /\ stale' \in BOOLEAN /\ complete' \in BOOLEAN
    BY Zenon, <1>9 DEF IInv, Flags, Halfway
  <2>3. bound' \in {bound, None}
    BY <1>9 DEF Halfway
  <2>4. QED
    BY <1>1, <1>3, <1>9, <2>1, <2>2, <2>3, DarkStep
<1>10. QED
  BY Zenon, <1>5, <1>6, <1>7, <1>8, <1>9 DEF PollDown

\* A poll that finds an address: the plane works, or a failure is shown.
LEMMA FoundStep ==
  ASSUME IInv, enabled, addr # None, Booked, downPolls' = 0, dark' = 0, ~superseded',
         UNCHANGED <<addr, enabled, changes>>,
         suspended' \in BOOLEAN, sawOutage' \in BOOLEAN, stale' \in BOOLEAN, complete' \in BOOLEAN,
         bound' \in {bound, addr, None},
         stale' => sawOutage',
         failure' \/ (bound' = addr /\ complete' /\ ~stale')
  PROVE  Kept
<1>1. Numbers'
  BY PlaneObserverAssumption DEF IInv, Numbers, Booked
<1>2. Flags'
  BY Zenon DEF IInv, Flags, Booked
<1>3. FailureSound' /\ OutageSound' /\ CountSound'
  BY PlaneObserverAssumption DEF Booked, FailureSound, OutageSound, CountSound
<1>4. Promise!NothingSilent
  BY DEF Promise!NothingSilent, Promise!Works, Alert
<1>5. /\ (complete /\ ~stale)' \in BOOLEAN /\ (failure /\ wait # 0)' \in BOOLEAN
      /\ Alert' \in BOOLEAN
  BY Zenon DEF Alert
<1>6. bound' \in {bound, addr, None} /\ dark' = 0
  OBVIOUS
<1>7. Promise!Found
  BY Zenon, <1>4, <1>5, <1>6 DEF Promise!Found
<1>8. QED
  BY <1>1, <1>2, <1>3, <1>7 DEF IInv, Kept, Promise!Next

LEMMA UpStep == ASSUME IInv, PollUp PROVE Kept
<1>1. /\ enabled /\ addr # None /\ downPolls' = 0 /\ dark' = 0
      /\ UNCHANGED <<addr, enabled, changes>>
  BY DEF PollUp, world
<1>2. CASE Settled /\ suspended' = FALSE /\ ClearFailure /\ UNCHANGED <<sawOutage, plane, stale>>
  <2>1. Booked /\ ~superseded'
    BY <1>2, ClearIs
  <2>2. suspended' \in BOOLEAN /\ sawOutage' \in BOOLEAN /\ stale' \in BOOLEAN /\ complete' \in BOOLEAN
    BY Zenon, <1>2 DEF IInv, Flags, plane
  <2>3. bound' = addr /\ complete' /\ ~stale'
    BY Zenon, <1>1, <1>2 DEF IInv, OutageSound, Settled, plane
  <2>4. QED
    BY <1>1, <2>1, <2>2, <2>3, FoundStep
<1>3. CASE BackingOff /\ StandBy(FALSE) /\ UNCHANGED <<suspended, sawOutage, plane, stale>>
  <2>1. Booked /\ ~superseded' /\ failure'
    <3>1. FALSE \in BOOLEAN
      OBVIOUS
    <3>2. Booked /\ wait' = Waiting /\ (superseded' <=> FALSE)
      BY <1>3, <3>1, StandByIs DEF IInv
    <3>3. QED
      BY <1>3, <3>2 DEF BackingOff, Booked
  <2>2. suspended' \in BOOLEAN /\ sawOutage' \in BOOLEAN /\ stale' \in BOOLEAN /\ complete' \in BOOLEAN
    BY Zenon, <1>3 DEF IInv, Flags, plane
  <2>3. bound' = bound /\ (stale' => sawOutage')
    BY Zenon, <1>1, <1>3 DEF IInv, OutageSound, plane
  <2>4. QED
    BY <1>1, <2>1, <2>2, <2>3, FoundStep
<1>4. CASE Halfway /\ Fail /\ UNCHANGED <<suspended, sawOutage>>
  <2>1. Booked /\ ~superseded' /\ failure'
    BY <1>4, FailIs DEF IInv
  <2>2. suspended' \in BOOLEAN /\ sawOutage' \in BOOLEAN /\ stale' \in BOOLEAN /\ complete' \in BOOLEAN
    BY Zenon, <1>4 DEF IInv, Flags, Halfway
  <2>3. bound' \in {bound, None} /\ (stale' => sawOutage')
    BY Zenon, <1>1, <1>4 DEF IInv, OutageSound, Halfway
  <2>4. bound' \in {bound, addr, None}
    BY <2>3
  <2>5. QED
    BY <1>1, <2>1, <2>2, <2>3, <2>4, FoundStep
<1>5. QED
  BY Zenon, <1>2, <1>3, <1>4 DEF PollUp

LEMMA ApplyStep == ASSUME IInv, Apply PROVE Kept
<1>1. /\ enabled /\ addr # None /\ downPolls' = 0 /\ dark' = 0 /\ bound' = addr
      /\ UNCHANGED <<addr, enabled, changes>>
  BY DEF Apply, world
<1>2. Booked /\ ~superseded'
  BY ClearIs DEF Apply
<1>3. /\ suspended' \in BOOLEAN /\ sawOutage' \in BOOLEAN /\ stale' \in BOOLEAN /\ complete' \in BOOLEAN
      /\ complete' /\ ~stale'
  BY Zenon DEF Apply
<1>4. QED
  BY <1>1, <1>2, <1>3, FoundStep

\* The interface, a config save or the switch: the observer's memory stays.
LEMMA WorldStep ==
  ASSUME IInv, InterfaceChanges \/ Rebind \/ Switch
  PROVE  Kept
<1>1. changes' \in 0 .. MaxChanges /\ UNCHANGED <<memory, dark>>
  BY PlaneObserverAssumption DEF IInv, Numbers, InterfaceChanges, Rebind, Switch, Change, history
<1>2. addr' \in Addrs \cup {None} /\ bound' \in Addrs \cup {Any, None}
  BY DEF IInv, Numbers, InterfaceChanges, Rebind, Switch, plane
<1>3. enabled' \in BOOLEAN /\ complete' \in BOOLEAN /\ stale' \in BOOLEAN
  BY Zenon DEF IInv, Flags, InterfaceChanges, Rebind, Switch, plane, history
<1>4. Numbers' /\ CountSound'
  BY <1>1, <1>2 DEF IInv, Numbers, CountSound, memory
<1>5. Flags' /\ FailureSound'
  <2>1. Flags'
    BY Zenon, <1>1, <1>3 DEF IInv, Flags, memory
  <2>2. FailureSound'
    BY <1>1 DEF IInv, FailureSound, memory
  <2>3. QED
    BY <2>1, <2>2
<1>6. OutageSound'
  <2>1. CASE InterfaceChanges
    BY <2>1 DEF IInv, OutageSound, InterfaceChanges, plane, memory, history
  <2>2. CASE Rebind \/ Switch
    <3>1. ~stale'
      BY <2>2 DEF Rebind, Switch
    <3>2. QED
      BY <3>1 DEF OutageSound
  <2>3. QED
    BY <2>1, <2>2
<1>7. Promise!World
  <2>1. Alert' = Alert /\ (failure /\ wait # 0)' = (failure /\ wait # 0) /\ dark' = dark
    BY Zenon, <1>1 DEF Alert, memory
  <2>2. (complete /\ ~stale)' \in BOOLEAN
    BY Zenon
  <2>3. CASE InterfaceChanges
    <3>1. bound' = bound /\ complete' = complete /\ stale' = stale /\ enabled' = enabled
      BY <2>3 DEF InterfaceChanges, plane, history
    <3>2. (complete /\ ~stale)' = (complete /\ ~stale)
      BY Zenon, <3>1
    <3>3. QED
      BY Zenon, <1>2, <1>3, <2>1, <2>2, <3>1, <3>2 DEF Promise!World
  <2>4. CASE Rebind \/ Switch
    <3>1. addr' = addr /\ bound' \in {bound, addr, Any, None}
      BY <2>4 DEF Rebind, Switch
    <3>2. QED
      BY Zenon, <1>2, <1>3, <2>1, <2>2, <3>1 DEF Promise!World
  <2>5. QED
    BY <2>3, <2>4
<1>8. QED
  BY <1>4, <1>5, <1>6, <1>7 DEF IInv, Kept, Promise!Next

LEMMA StepSound == IInv /\ [Next]_vars => Kept
<1> SUFFICES ASSUME IInv, [Next]_vars PROVE Kept
  OBVIOUS
<1>1. CASE Poll
  BY <1>1, UnfollowedStep, RaisesStep, DownStep, UpStep, ApplyStep DEF Poll
<1>2. CASE InterfaceChanges \/ Rebind \/ Switch
  BY <1>2, WorldStep
<1>3. CASE UNCHANGED vars
  <2>1. IInv'
    <3>1. Numbers' /\ FailureSound' /\ OutageSound' /\ CountSound'
      BY <1>3 DEF vars, memory, plane, world, history, IInv, Numbers, FailureSound, OutageSound, CountSound
    <3>2. Flags'
      BY Zenon, <1>3 DEF vars, memory, plane, world, history, IInv, Flags
    <3>3. QED
      BY <3>1, <3>2 DEF IInv
  <2>2. UNCHANGED Promise!vars
    BY Zenon, <1>3 DEF vars, memory, plane, world, history, Promise!vars, Alert
  <2>3. QED
    BY <2>1, <2>2 DEF Kept
<1>4. QED
  BY <1>1, <1>2, <1>3 DEF Next

LEMMA InitSound == Init => IInv /\ Promise!Init
<1> SUFFICES ASSUME Init PROVE IInv /\ Promise!Init
  OBVIOUS
<1>1. Numbers
  BY PlaneObserverAssumption DEF Init, Numbers
<1>2. Flags
  BY Zenon DEF Init, Flags
<1>3. FailureSound /\ OutageSound /\ CountSound
  BY PlaneObserverAssumption DEF Init, FailureSound, OutageSound, CountSound
<1>4. ~Alert /\ ~(failure /\ wait # 0) /\ dark = 0
  BY DEF Init, Alert
<1>5. (complete /\ ~stale) \in BOOLEAN
  BY Zenon
<1>6. addr \in Addrs \cup {None} /\ enabled \in BOOLEAN /\ bound \in {addr, None}
  BY DEF Init
<1>7. Promise!Init
  BY Zenon, <1>4, <1>5, <1>6 DEF Promise!Init
<1>8. QED
  BY <1>1, <1>2, <1>3, <1>7 DEF IInv

LEMMA InvariantHolds == Spec => []IInv
<1>1. IInv /\ [Next]_vars => IInv'
  BY StepSound DEF Kept
<1>2. Init => IInv
  BY InitSound
<1>3. QED
  BY <1>1, <1>2, PTL DEF Spec

\* The observer's memory keeps its types, the wait never passes
\* _RETRY_BACKOFF_MAX_S and the debounce never DOWN_POLLS_BEFORE_SUSPEND.
THEOREM TypeCorrect == Spec => []TypeOK
<1>1. IInv => TypeOK
  <2>1. SUFFICES ASSUME IInv PROVE TypeOK
    OBVIOUS
  <2>2. QED
    BY <2>1 DEF IInv, Numbers, Flags, TypeOK
<1>2. QED
  BY <1>1, InvariantHolds, PTL

\* The observer implements the promise: a poll of a followed plane leaves it
\* working or an alert, a plane is left alone for the whole debounce, and after
\* it stopped, or a failed stop that is tried again.
THEOREM ImplementsThePromise == Spec => KeepsThePromise
<1>1. Init => Promise!Init
  BY InitSound
<1>2. IInv /\ [Next]_vars => [Promise!Next]_(Promise!vars)
  BY StepSound DEF Kept
<1>3. QED
  BY <1>1, <1>2, InvariantHolds, PTL DEF Spec, KeepsThePromise, Promise!Spec
-----------------------------------------------------------------------------
(* The OSC transmitter.                                                    *)

PlanSet(n) ==
  [row : Rows, gen : 0 .. n, marker : Markers \cup {None}, needsMarker : BOOLEAN,
   gated : BOOLEAN, minChange : Nat]

RowSet(n) == [cfg : Configs, gen : 0 .. n]

Told == [Rows -> [Markers -> Positions \cup {None}]]

\* Rows, and what is kept of each of them.
TableSound ==
  /\ edits \in 0 .. MaxEdits
  /\ rows \in [Rows -> RowSet(edits) \cup {None}]
  /\ lastSent \in Told /\ heard \in Told
  /\ phase \in [Rows -> Nat \cup {None}]
  /\ \A r \in Rows : phase[r] # None => Transmitter!Streaming(r) /\ phase[r] < rows[r].cfg.period
  /\ throttled \in SUBSET Rows

\* What is queued or under way was made for a row, by its incarnation then.
PlansSound ==
  /\ plans \in Seq(PlanSet(edits)) /\ events \in Seq(PlanSet(edits))
  /\ pc \in {"send", "sent"} => plans # <<>> /\ (out # None => Head(plans).marker \in Markers)

OthersSound ==
  /\ wake \in BOOLEAN /\ stop \in BOOLEAN
  /\ pc \in {"clear", "tick", "fire", "send", "sent", "rest", "ended"}
  /\ out \in Positions \cup {None}
  /\ handler \in {"idle", "checked"} /\ position \in [Markers -> Positions \cup {None}]

\* What is sent and not noted yet is what was heard, of a row that is still there.
UnderWay(r, m) ==
  /\ pc = "sent" /\ out # None /\ Head(plans).row = r /\ Head(plans).marker = m
  /\ Transmitter!IsCurrent(Head(plans))

SentSound ==
  \A r \in Rows, m \in Markers :
    /\ UnderWay(r, m) => heard[r][m] = out
    /\ lastSent[r][m] # None /\ lastSent[r][m] # heard[r][m] => UnderWay(r, m)

TInv == TableSound /\ PlansSound /\ OthersSound /\ SentSound

-----------------------------------------------------------------------------
(* The plans of the rows that are due.                                     *)

LEMMA TransmitterConstants ==
  /\ IsFiniteSet(Rows) /\ IsFiniteSet(Markers) /\ Markers \subseteq Nat
  /\ Positions \subseteq Nat /\ Positions # {} /\ None \notin Positions /\ None \notin Markers
  /\ MaxEdits \in Nat /\ \A c \in Configs, n \in Nat : [cfg |-> c, gen |-> n] # None
  /\ \A c \in Configs :
       /\ c.enabled \in BOOLEAN /\ c.trigger \in {"stream", "event"} /\ c.onChange \in BOOLEAN
       /\ c.minChange \in Nat /\ c.period \in Nat \ {0} /\ c.markers \in SUBSET Markers
       /\ c.needsMarker \in BOOLEAN
<1>1. Transmitter!OscTransmitterAssumption
  BY OutputsAssumption
<1>2. \A S : Transmitter!IsFiniteSet(S) <=> IsFiniteSet(S)
  BY Zenon DEF Transmitter!IsFiniteSet, IsFiniteSet
<1>3. Configs \subseteq Transmitter!RowConfigs
  BY <1>1 DEF Transmitter!OscTransmitterAssumption
<1>4. IsFiniteSet(Rows) /\ IsFiniteSet(Markers)
  BY Zenon, <1>1, <1>2 DEF Transmitter!OscTransmitterAssumption
<1>5. /\ Markers \subseteq Nat /\ Positions \subseteq Nat /\ Positions # {} /\ MaxEdits \in Nat
      /\ None \notin Positions /\ None \notin Markers /\ None \notin [cfg : Configs, gen : Nat]
  BY <1>1 DEF Transmitter!OscTransmitterAssumption
<1> QED
  BY <1>3, <1>4, <1>5 DEF Transmitter!RowConfigs

LEMMA LeastIs ==
  ASSUME NEW S, S \subseteq Nat, S # {} PROVE Transmitter!Min(S) \in S
<1> DEFINE Less == OpToRel(<, Nat)
<1>1. IsWellFoundedOn(Less, Nat)
  BY NatLessThanWellFounded
<1>2. \A x, y \in Nat : <<x, y>> \in Less <=> x < y
  BY DEF OpToRel
<1> HIDE DEF Less
<1>3. PICK x \in S : \A y \in S : ~ (<<y, x>> \in Less)
  BY <1>1, WFMin
<1>4. ASSUME NEW y \in S PROVE x <= y
  <2>1. x \in Nat /\ y \in Nat /\ ~ (<<y, x>> \in Less)
    BY <1>3
  <2>2. ~ (y < x)
    BY <1>2, <2>1
  <2> QED
    BY <2>1, <2>2
<1> QED
  BY Zenon, <1>4 DEF Transmitter!Min

\* One for each of its markers, or one.
LEMMA RowPlans ==
  ASSUME TableSound, NEW r \in Rows, Transmitter!Exists(r)
  PROVE  /\ Transmitter!PlansForRow(r) \subseteq PlanSet(edits)
         /\ IsFiniteSet(Transmitter!PlansForRow(r))
<1> DEFINE cfg == rows[r].cfg
           ids == IF cfg.markers = {} THEN {None}
                  ELSE IF cfg.needsMarker THEN cfg.markers ELSE {Transmitter!Min(cfg.markers)}
           plan(m) == [row |-> r, gen |-> rows[r].gen, marker |-> m, needsMarker |-> cfg.needsMarker,
                       gated |-> cfg.trigger = "stream" /\ cfg.onChange, minChange |-> cfg.minChange]
           P == Transmitter!PlansForRow(r)
<1>1. cfg \in Configs /\ rows[r].gen \in 0 .. edits
  BY DEF TableSound, RowSet, Transmitter!Exists
<1>2. P = {plan(m) : m \in ids}
  BY Zenon DEF Transmitter!PlansForRow
<1> HIDE DEF cfg, P
<1>3. /\ cfg.minChange \in Nat /\ cfg.markers \in SUBSET Markers /\ cfg.needsMarker \in BOOLEAN
      /\ cfg.onChange \in BOOLEAN /\ IsFiniteSet(Markers) /\ Markers \subseteq Nat
  BY <1>1, TransmitterConstants
<1>4. cfg.markers # {} => Transmitter!Min(cfg.markers) \in cfg.markers
  BY <1>3, LeastIs
<1>5. ids \subseteq Markers \cup {None}
  BY <1>3, <1>4
<1>6. IsFiniteSet(ids)
  <2>1. IsFiniteSet(cfg.markers)
    BY <1>3, FS_Subset
  <2>2. \A x : IsFiniteSet({x})
    BY FS_Singleton
  <2> QED
    BY Zenon, <2>1, <2>2
<1>7. P \subseteq PlanSet(edits)
  <2> SUFFICES ASSUME NEW m \in ids PROVE plan(m) \in PlanSet(edits)
    BY <1>2
  <2>1. m \in Markers \cup {None}
    BY <1>5
  <2> HIDE DEF ids
  <2> QED
    BY <1>1, <1>3, <2>1 DEF PlanSet, cfg
<1>8. IsFiniteSet(P)
  <2> HIDE DEF ids
  <2> DEFINE f == [m \in ids |-> plan(m)]
  <2>1. f \in Surjection(ids, P)
    BY <1>2 DEF Surjection
  <2> QED
    BY <1>6, <2>1, FS_Surjection
<1> QED
  BY <1>7, <1>8 DEF P

LEMMA DuePlans ==
  ASSUME TableSound, NEW due \in SUBSET Rows, \A r \in due : Transmitter!Exists(r),
         NEW q \in Transmitter!PlansFor(due)
  PROVE  q \in Seq(PlanSet(edits))
<1> DEFINE S == {Transmitter!PlansForRow(r) : r \in due}
           A == UNION S
<1>1. \A T \in S : T \subseteq PlanSet(edits) /\ IsFiniteSet(T)
  BY RowPlans
<1>2. IsFiniteSet(S)
  <2>1. IsFiniteSet(due)
    BY TransmitterConstants, FS_Subset
  <2> DEFINE f == [r \in due |-> Transmitter!PlansForRow(r)]
  <2>2. f \in Surjection(due, S)
    BY DEF Surjection
  <2> QED
    BY <2>1, <2>2, FS_Surjection
<1>3. Transmitter!Cardinality(A) = Cardinality(A)
  BY Zenon DEF Transmitter!Cardinality, Cardinality, Transmitter!IsFiniteSet, IsFiniteSet
<1>4. q \in [1 .. Transmitter!Cardinality(A) -> A]
  BY Zenon DEF Transmitter!PlansFor
<1> HIDE DEF S
<1>5. IsFiniteSet(A) /\ A \subseteq PlanSet(edits)
  BY <1>1, <1>2, FS_UNION
<1> HIDE DEF A
<1>6. Cardinality(A) \in Nat
  BY <1>5, FS_CardinalityType
<1> DEFINE n == Cardinality(A)
<1>7. n \in Nat /\ q \in [1 .. n -> PlanSet(edits)]
  BY <1>3, <1>4, <1>5, <1>6
<1> HIDE DEF n
<1> QED
  BY <1>7

\* What was made is as good after an edit.
LEMMA MorePlans ==
  ASSUME edits \in Nat, edits' \in {edits, edits + 1}
  PROVE  /\ Seq(PlanSet(edits)) \subseteq Seq(PlanSet(edits'))
         /\ RowSet(edits) \subseteq RowSet(edits')
<1>1. 0 .. edits \subseteq 0 .. edits'
  OBVIOUS
<1>2. PlanSet(edits) \subseteq PlanSet(edits') /\ RowSet(edits) \subseteq RowSet(edits')
  BY <1>1 DEF PlanSet, RowSet
<1> DEFINE P == PlanSet(edits)
           Q == PlanSet(edits')
<1> HIDE DEF P, Q
<1>3. P \subseteq Q => Seq(P) \subseteq Seq(Q)
  OBVIOUS
<1> QED
  BY <1>2, <1>3 DEF P, Q

-----------------------------------------------------------------------------
(* A step keeps the transmitter's invariant.                               *)

LEMMA EditsAreNumbers == ASSUME TableSound PROVE edits \in Nat
BY TransmitterConstants DEF TableSound

\* Rows, positions kept and edits stay.
LEMMA TableStays ==
  ASSUME TableSound, UNCHANGED <<rows, edits>>, lastSent' \in Told, heard' \in Told,
         throttled' \in SUBSET Rows,
         phase' \in [Rows -> Nat \cup {None}],
         \A r \in Rows : phase'[r] # None =>
           Transmitter!Streaming(r) /\ phase'[r] < rows[r].cfg.period
  PROVE  TableSound'
BY DEF TableSound, RowSet, Told, Transmitter!Streaming, Transmitter!Exists

\* No plan is fired, and what fires one stays.
LEMMA PlansStay ==
  ASSUME TInv, UNCHANGED <<edits, pc, plans, out>>, events' \in Seq(PlanSet(edits))
  PROVE  PlansSound'
BY DEF TInv, PlansSound, PlanSet

LEMMA SentStays ==
  ASSUME SentSound, UNCHANGED <<rows, lastSent, heard, pc, plans, out>> PROVE SentSound'
BY DEF SentSound, UnderWay, Transmitter!IsCurrent, Transmitter!Exists

\* While nothing is sent, the baseline is what was heard.
LEMMA SentBefore ==
  ASSUME SentSound, pc # "sent", pc' # "sent", UNCHANGED <<lastSent, heard>> PROVE SentSound'
BY DEF SentSound, UnderWay

\* A step that leaves rows, the gate and the scheduler alone.
LEMMA Bystander ==
  ASSUME TInv, UNCHANGED <<rows, lastSent, phase, heard, edits, pc, plans, out>>,
         throttled' \in SUBSET Rows, events' \in Seq(PlanSet(edits)),
         wake' \in BOOLEAN, stop' \in BOOLEAN, handler' \in {"idle", "checked"},
         position' \in [Markers -> Positions \cup {None}]
  PROVE  TInv'
<1>1. TableSound'
  BY TableStays DEF TInv, TableSound
<1>2. PlansSound'
  BY PlansStay
<1>3. OthersSound'
  BY DEF TInv, OthersSound
<1>4. SentSound'
  BY SentStays DEF TInv
<1> QED
  BY <1>1, <1>2, <1>3, <1>4 DEF TInv

LEMMA MoveSound == ASSUME TInv, Transmitter!Move PROVE TInv'
<1>1. PICK m \in Markers, to \in Positions \cup {None} : position' = [position EXCEPT ![m] = to]
  BY DEF Transmitter!Move
<1>2. position' \in [Markers -> Positions \cup {None}]
  BY <1>1 DEF TInv, OthersSound
<1> QED
  BY <1>2, Bystander
     DEF Transmitter!Move, Transmitter!table, Transmitter!queue, Transmitter!scheduler,
         TInv, TableSound, PlansSound, OthersSound

LEMMA StopSound == ASSUME TInv, Transmitter!StopFlag \/ Transmitter!StopDrops PROVE TInv'
<1>1. events' = events \/ events' = <<>>
  BY DEF Transmitter!StopFlag, Transmitter!StopDrops
<1> DEFINE P == PlanSet(edits)
<1>2. events \in Seq(P)
  BY DEF TInv, PlansSound
<1> HIDE DEF P
<1>3. events' \in Seq(P)
  BY Zenon, <1>1, <1>2, EmptySeq
<1>4. events' \in Seq(PlanSet(edits))
  BY <1>3 DEF P
<1> QED
  BY <1>4, Bystander
     DEF Transmitter!StopFlag, Transmitter!StopDrops, Transmitter!table, Transmitter!scheduler,
         Transmitter!bounds, TInv, TableSound, PlansSound, OthersSound

LEMMA HandlerSound == ASSUME TInv, Transmitter!HandleEvent \/ Transmitter!ThrottleEnds PROVE TInv'
BY Bystander
   DEF Transmitter!HandleEvent, Transmitter!ThrottleEnds, Transmitter!table, Transmitter!queue,
       Transmitter!scheduler, Transmitter!bounds, TInv, TableSound, PlansSound, OthersSound

LEMMA EventSound == ASSUME TInv, Transmitter!QueueEvent PROVE TInv'
<1> DEFINE fired == {r \in Rows : Transmitter!Exists(r) /\ rows[r].cfg.enabled
                                  /\ rows[r].cfg.trigger = "event"} \ throttled
<1>1. PICK q \in Transmitter!PlansFor(fired) : events' = events \o q
  BY DEF Transmitter!QueueEvent
<1>2. /\ throttled' \in {throttled, throttled \cup fired} /\ wake' = (wake \/ fired # {})
      /\ handler' = "idle"
      /\ UNCHANGED <<rows, lastSent, phase, stop, pc, plans, out, position, edits, heard>>
  BY DEF Transmitter!QueueEvent, Transmitter!scheduler, Transmitter!bounds
<1>3. fired \in SUBSET Rows /\ \A r \in fired : Transmitter!Exists(r)
  OBVIOUS
<1> HIDE DEF fired
<1>4. q \in Seq(PlanSet(edits))
  BY <1>3, DuePlans DEF TInv
<1>5. events' \in Seq(PlanSet(edits))
  BY <1>1, <1>4 DEF TInv, PlansSound
<1>6. throttled' \in SUBSET Rows /\ wake' \in BOOLEAN
  BY <1>2, <1>3 DEF TInv, TableSound, OthersSound
<1> QED
  BY <1>2, <1>5, <1>6, Bystander DEF TInv, OthersSound

\* The scheduler waits, or has fired every plan.
LEMMA ClearSound == ASSUME TInv, Transmitter!Clear \/ Transmitter!Rest PROVE TInv'
<1>1. /\ pc # "sent" /\ pc' \in {"tick", "clear"} /\ wake' \in BOOLEAN
      /\ UNCHANGED <<rows, lastSent, phase, throttled, events, stop, plans, out, handler, position,
                     edits, heard>>
  BY DEF Transmitter!Clear, Transmitter!Rest, Transmitter!table, Transmitter!queue,
         Transmitter!bounds, TInv, OthersSound
<1>2. TableSound'
  BY <1>1, TableStays DEF TInv, TableSound
<1>3. PlansSound' /\ OthersSound'
  BY <1>1 DEF TInv, PlansSound, OthersSound, PlanSet
<1>4. SentSound'
  BY <1>1, SentBefore DEF TInv
<1> QED
  BY <1>2, <1>3, <1>4 DEF TInv

LEMMA SnapshotSound == ASSUME TInv, Transmitter!Snapshot PROVE TInv'
<1> DEFINE due == {r \in Rows : Transmitter!Streaming(r) /\ phase[r] \in {None, 0}}
           next(r) == IF ~ Transmitter!Streaming(r) THEN phase[r]
                      ELSE ((IF phase[r] = None THEN 0 ELSE phase[r]) + 1) % rows[r].cfg.period
<1>1. /\ pc = "tick"
      /\ UNCHANGED <<rows, lastSent, throttled, wake, stop, out, handler, position, edits, heard>>
  BY DEF Transmitter!Snapshot, Transmitter!bounds
<1>2. CASE stop
  <2>1. pc' = "ended" /\ UNCHANGED <<plans, events, phase>>
    BY <1>2 DEF Transmitter!Snapshot
  <2>2. TableSound'
    BY <1>1, <2>1, TableStays DEF TInv, TableSound
  <2>3. PlansSound' /\ OthersSound'
    BY <1>1, <2>1 DEF TInv, PlansSound, OthersSound, PlanSet
  <2>4. SentSound'
    BY <1>1, <2>1, SentBefore DEF TInv
  <2> QED
    BY <2>2, <2>3, <2>4 DEF TInv
<1>3. CASE ~ stop
  <2>1. /\ \E q \in Transmitter!PlansFor(due) : plans' = q \o events
        /\ events' = <<>> /\ phase' = [r \in Rows |-> next(r)] /\ pc' = "fire"
    BY Zenon, <1>3 DEF Transmitter!Snapshot
  <2>2. due \in SUBSET Rows /\ \A r \in due : Transmitter!Exists(r)
    BY DEF Transmitter!Streaming
  <2> HIDE DEF due
  <2>3. PICK q \in Transmitter!PlansFor(due) : plans' = q \o events
    BY <2>1
  <2>4. q \in Seq(PlanSet(edits))
    BY <2>2, DuePlans DEF TInv
  <2>5. plans' \in Seq(PlanSet(edits))
    BY <2>3, <2>4 DEF TInv, PlansSound
  <2>6. ASSUME NEW r \in Rows
        PROVE  /\ next(r) \in Nat \cup {None}
               /\ next(r) # None => Transmitter!Streaming(r) /\ next(r) < rows[r].cfg.period
    <3>1. CASE Transmitter!Streaming(r)
      <4>1. rows[r].cfg.period \in Nat \ {0}
        BY <3>1, TransmitterConstants
           DEF Transmitter!Streaming, Transmitter!Exists, TInv, TableSound, RowSet
      <4>2. phase[r] = None \/ phase[r] \in Nat
        BY DEF TInv, TableSound
      <4> DEFINE k == (IF phase[r] = None THEN 0 ELSE phase[r]) + 1
                 n == rows[r].cfg.period
      <4>3. k \in Nat
        BY <4>2
      <4>4. next(r) = k % n
        BY <3>1
      <4>5. n \in Nat \ {0}
        BY <4>1
      <4> HIDE DEF k, n, next
      <4>6. next(r) \in Nat /\ next(r) < n
        BY <4>3, <4>4, <4>5
      <4> QED
        BY <3>1, <4>6 DEF n
    <3>2. CASE ~ Transmitter!Streaming(r)
      BY <3>2 DEF TInv, TableSound
    <3> QED
      BY <3>1, <3>2
  <2> HIDE DEF next
  <2>7. /\ phase' \in [Rows -> Nat \cup {None}]
        /\ \A r \in Rows : phase'[r] # None =>
             Transmitter!Streaming(r) /\ phase'[r] < rows[r].cfg.period
    BY <2>1, <2>6
  <2>8. TableSound'
    BY <1>1, <2>7, TableStays DEF TInv, TableSound
  <2>9. PlansSound' /\ OthersSound'
    BY <1>1, <2>1, <2>5 DEF TInv, PlansSound, OthersSound, PlanSet
  <2>10. SentSound'
    BY <1>1, <2>1, SentBefore DEF TInv
  <2> QED
    BY <2>8, <2>9, <2>10 DEF TInv
<1> QED
  BY <1>2, <1>3

\* A plan is skipped, or about to be sent with where its marker is.
LEMMA FireSound == ASSUME TInv, Transmitter!Fire PROVE TInv'
<1> DEFINE p == Head(plans)
           now == Transmitter!PositionOf(p)
<1>1. /\ pc = "fire"
      /\ UNCHANGED <<rows, lastSent, phase, throttled, events, stop, handler, position, edits, heard>>
  BY DEF Transmitter!Fire, Transmitter!table, Transmitter!bounds
<1>2. \/ pc' = "rest" /\ UNCHANGED <<wake, plans, out>>
      \/ plans # <<>> /\ plans' = Tail(plans) /\ UNCHANGED <<pc, out, wake>>
      \/ plans # <<>> /\ pc' = "send" /\ out' = now /\ UNCHANGED <<plans, wake>>
  BY Zenon DEF Transmitter!Fire, Transmitter!Rests
<1>3. plans \in Seq(PlanSet(edits))
  BY DEF TInv, PlansSound
<1>4. plans # <<>> => Tail(plans) \in Seq(PlanSet(edits)) /\ p \in PlanSet(edits)
  BY <1>3, HeadTailProperties
<1>5. plans # <<>> =>
        now \in Positions \cup {None} /\ (now # None => p.marker \in Markers)
  BY <1>4 DEF Transmitter!PositionOf, PlanSet, TInv, OthersSound
<1> HIDE DEF p, now
<1>6. TableSound'
  BY <1>1, TableStays DEF TInv, TableSound
<1>7. PlansSound'
  <2>1. plans' \in Seq(PlanSet(edits'))
    BY <1>1, <1>2, <1>3, <1>4
  <2>2. events' \in Seq(PlanSet(edits'))
    BY <1>1 DEF TInv, PlansSound
  <2>3. pc' \in {"send", "sent"} => plans' # <<>> /\ (out' # None => Head(plans').marker \in Markers)
    BY <1>1, <1>2, <1>5 DEF p
  <2> QED
    BY <2>1, <2>2, <2>3 DEF PlansSound
<1>8. OthersSound'
  BY <1>1, <1>2, <1>5 DEF TInv, OthersSound
<1>9. SentSound'
  BY <1>1, <1>2, SentBefore DEF TInv
<1> QED
  BY <1>6, <1>7, <1>8, <1>9 DEF TInv

LEMMA SendSound == ASSUME TInv, Transmitter!Send PROVE TInv'
<1> DEFINE p == Head(plans)
           current == Transmitter!IsCurrent(p) /\ out # None
<1>1. /\ pc = "send"
      /\ UNCHANGED <<rows, lastSent, phase, throttled, events, wake, stop, out, handler, position, edits>>
      /\ \/ /\ pc' = "sent" /\ plans' = plans
            /\ heard' = IF current THEN [heard EXCEPT ![p.row][p.marker] = out] ELSE heard
         \/ pc' = "fire" /\ plans' = Tail(plans) /\ heard' = heard
  BY DEF Transmitter!Send, Transmitter!table, Transmitter!queue
<1>2. /\ plans \in Seq(PlanSet(edits)) /\ plans # <<>> /\ (out # None => p.marker \in Markers)
      /\ out \in Positions \cup {None} /\ heard \in Told
  BY <1>1 DEF TInv, PlansSound, OthersSound, TableSound
<1>3. Tail(plans) \in Seq(PlanSet(edits)) /\ p \in PlanSet(edits)
  BY <1>2, HeadTailProperties
<1>4. p.row \in Rows
  BY <1>3 DEF PlanSet
<1>5. OthersSound'
  BY <1>1 DEF TInv, OthersSound
<1>6. CASE pc' = "fire"
  <2>1. plans' = Tail(plans) /\ heard' = heard
    BY <1>1, <1>6
  <2>2. TableSound'
    BY <1>1, <2>1, TableStays DEF TInv, TableSound
  <2>3. PlansSound'
    BY <1>1, <1>3, <1>6, <2>1 DEF TInv, PlansSound
  <2>4. SentSound'
    BY <1>1, <1>6, <2>1, SentBefore DEF TInv
  <2> QED
    BY <1>5, <2>2, <2>3, <2>4 DEF TInv
<1>7. CASE pc' = "sent"
  <2>1. plans' = plans /\ heard' = IF current THEN [heard EXCEPT ![p.row][p.marker] = out] ELSE heard
    BY <1>1, <1>7
  <2>2. /\ heard' \in Told
        /\ current => heard'[p.row][p.marker] = out
        /\ \A r \in Rows, m \in Markers :
             ~ (current /\ r = p.row /\ m = p.marker) => heard'[r][m] = heard[r][m]
    <3>1. CASE current
      <4>1. out \in Positions /\ p.marker \in Markers
        BY <1>2, <3>1
      <4>2. heard' = [heard EXCEPT ![p.row][p.marker] = out]
        BY <2>1, <3>1
      <4> DEFINE r0 == p.row  m0 == p.marker
      <4>3. r0 \in Rows /\ m0 \in Markers /\ heard' = [heard EXCEPT ![r0][m0] = out]
        BY <1>4, <4>1, <4>2
      <4> HIDE DEF r0, m0
      <4>4. /\ heard' \in Told /\ heard'[r0][m0] = out
            /\ \A s \in Rows, k \in Markers : ~ (s = r0 /\ k = m0) => heard'[s][k] = heard[s][k]
        BY <1>2, <4>1, <4>3 DEF Told
      <4> HIDE DEF p, current
      <4> QED
        BY <3>1, <4>4 DEF r0, m0
    <3>2. CASE ~ current
      BY <1>2, <2>1, <3>2
    <3> QED
      BY <3>1, <3>2
  <2>3. TableSound'
    BY <1>1, <2>2, TableStays DEF TInv, TableSound
  <2>4. PlansSound'
    BY <1>1, <1>2, <2>1 DEF TInv, PlansSound
  <2>5. SentSound'
    <3>1. \A r \in Rows, m \in Markers :
            UnderWay(r, m)' <=> current /\ r = p.row /\ m = p.marker
      BY <1>1, <1>7, <2>1 DEF UnderWay, Transmitter!IsCurrent, Transmitter!Exists
    <3>2. \A r \in Rows, m \in Markers : lastSent[r][m] # None => lastSent[r][m] = heard[r][m]
      BY <1>1 DEF TInv, SentSound, UnderWay
    <3> HIDE DEF current, p
    <3>3. ASSUME NEW r \in Rows, NEW m \in Markers
          PROVE  /\ UnderWay(r, m)' => heard'[r][m] = out'
                 /\ lastSent'[r][m] # None /\ lastSent'[r][m] # heard'[r][m] => UnderWay(r, m)'
      <4>1. CASE current /\ r = p.row /\ m = p.marker
        BY <1>1, <2>2, <3>1, <4>1
      <4>2. CASE ~ (current /\ r = p.row /\ m = p.marker)
        BY Zenon, <1>1, <2>2, <3>1, <3>2, <4>2
      <4> QED
        BY <4>1, <4>2
    <3> QED
      BY <3>3 DEF SentSound
  <2> QED
    BY <1>5, <2>3, <2>4, <2>5 DEF TInv
<1> QED
  BY <1>1, <1>6, <1>7

\* What was sent is noted, of the row that is still there.
LEMMA PrimeSound == ASSUME TInv, Transmitter!Prime PROVE TInv'
<1> DEFINE p == Head(plans)
           current == Transmitter!IsCurrent(p) /\ out # None
<1>1. /\ pc = "sent" /\ pc' = "fire" /\ plans' = Tail(plans)
      /\ lastSent' = IF current THEN [lastSent EXCEPT ![p.row][p.marker] = out] ELSE lastSent
      /\ UNCHANGED <<rows, phase, throttled, events, wake, stop, out, handler, position, edits, heard>>
  BY DEF Transmitter!Prime, Transmitter!Primed, Transmitter!queue, Transmitter!bounds
<1>2. /\ plans \in Seq(PlanSet(edits)) /\ plans # <<>> /\ (out # None => p.marker \in Markers)
      /\ out \in Positions \cup {None} /\ lastSent \in Told
  BY <1>1 DEF TInv, PlansSound, OthersSound, TableSound
<1>3. Tail(plans) \in Seq(PlanSet(edits)) /\ p \in PlanSet(edits)
  BY <1>2, HeadTailProperties
<1>4. p.row \in Rows
  BY <1>3 DEF PlanSet
<1>5. OthersSound'
  BY <1>1 DEF TInv, OthersSound
<1>6. PlansSound'
  BY <1>1, <1>3 DEF TInv, PlansSound
<1>7. \A r \in Rows, m \in Markers : UnderWay(r, m) <=> current /\ r = p.row /\ m = p.marker
  BY <1>1 DEF UnderWay
<1>8. /\ lastSent' \in Told
      /\ current => lastSent'[p.row][p.marker] = out
      /\ \A r \in Rows, m \in Markers :
           ~ (current /\ r = p.row /\ m = p.marker) => lastSent'[r][m] = lastSent[r][m]
  <2>1. CASE current
    <3>1. out \in Positions /\ p.marker \in Markers
      BY <1>2, <2>1
    <3>2. lastSent' = [lastSent EXCEPT ![p.row][p.marker] = out]
      BY <1>1, <2>1
    <3> DEFINE r0 == p.row  m0 == p.marker
    <3>3. r0 \in Rows /\ m0 \in Markers /\ lastSent' = [lastSent EXCEPT ![r0][m0] = out]
      BY <1>4, <3>1, <3>2
    <3> HIDE DEF r0, m0
    <3>4. /\ lastSent' \in Told /\ lastSent'[r0][m0] = out
          /\ \A s \in Rows, k \in Markers : ~ (s = r0 /\ k = m0) => lastSent'[s][k] = lastSent[s][k]
      BY <1>2, <3>1, <3>3 DEF Told
    <3> HIDE DEF p, current
    <3> QED
      BY <2>1, <3>4 DEF r0, m0
  <2>2. CASE ~ current
    BY <1>1, <1>2, <2>2
  <2> QED
    BY <2>1, <2>2
<1>9. TableSound'
  BY <1>1, <1>8, TableStays DEF TInv, TableSound
<1>10. SentSound'
  <2>1. \A r \in Rows, m \in Markers :
          /\ UnderWay(r, m) => heard[r][m] = out
          /\ lastSent[r][m] # None /\ lastSent[r][m] # heard[r][m] => UnderWay(r, m)
    BY DEF TInv, SentSound
  <2> HIDE DEF current, p
  <2>2. ASSUME NEW r \in Rows, NEW m \in Markers, lastSent'[r][m] # None
        PROVE  lastSent'[r][m] = heard'[r][m]
    <3>1. CASE current /\ r = p.row /\ m = p.marker
      BY <1>1, <1>7, <1>8, <2>1, <3>1
    <3>2. CASE ~ (current /\ r = p.row /\ m = p.marker)
      BY <1>1, <1>7, <1>8, <2>1, <2>2, <3>2
    <3> QED
      BY <3>1, <3>2
  <2>3. \A r \in Rows, m \in Markers : ~ UnderWay(r, m)'
    BY <1>1 DEF UnderWay
  <2> QED
    BY <2>2, <2>3 DEF SentSound
<1> QED
  BY <1>5, <1>6, <1>9, <1>10 DEF TInv

\* A row that is edited keeps its incarnation, and what it told unless its
\* markers or its trigger change; one that is made again has a later incarnation
\* than any plan.
LEMMA RestartSound ==
  ASSUME TInv, NEW r \in Rows, NEW cfg \in Configs \cup {None}, Transmitter!Restart(r, cfg)
  PROVE  TInv'
<1> DEFINE old == rows[r]
           kept == old # None /\ cfg # None
           invalidated == ~ kept \/ old.cfg.markers # cfg.markers \/ old.cfg.trigger # cfg.trigger
           rephased == ~ kept \/ old.cfg.enabled # cfg.enabled
                       \/ <<old.cfg.trigger, old.cfg.onChange, old.cfg.minChange, old.cfg.period>>
                          # <<cfg.trigger, cfg.onChange, cfg.minChange, cfg.period>>
           new == IF cfg = None THEN None
                  ELSE [cfg |-> cfg, gen |-> IF kept THEN old.gen ELSE edits']
           silence == [m \in Markers |-> None]
<1>1. /\ edits < MaxEdits /\ edits' = edits + 1
      /\ rows' = [rows EXCEPT ![r] = new]
      /\ lastSent' = IF invalidated THEN [lastSent EXCEPT ![r] = silence] ELSE lastSent
      /\ throttled' = IF invalidated THEN throttled \ {r} ELSE throttled
      /\ phase' = IF rephased THEN [phase EXCEPT ![r] = None] ELSE phase
      /\ heard' = IF kept THEN heard ELSE [heard EXCEPT ![r] = silence]
      /\ wake' = TRUE
      /\ UNCHANGED <<events, stop, pc, plans, out, handler, position>>
  BY Zenon DEF Transmitter!Restart, Transmitter!scheduler
<1>2. edits \in Nat /\ edits' \in {edits, edits + 1} /\ edits' \in 0 .. MaxEdits
  BY <1>1, TransmitterConstants DEF TInv, TableSound
<1>3. /\ Seq(PlanSet(edits)) \subseteq Seq(PlanSet(edits')) /\ RowSet(edits) \subseteq RowSet(edits')
  BY <1>2, MorePlans
<1>4. /\ rows \in [Rows -> RowSet(edits) \cup {None}] /\ lastSent \in Told /\ heard \in Told
      /\ phase \in [Rows -> Nat \cup {None}] /\ throttled \in SUBSET Rows
      /\ \A s \in Rows : phase[s] # None => Transmitter!Streaming(s) /\ phase[s] < rows[s].cfg.period
  BY DEF TInv, TableSound
<1>5. new \in RowSet(edits') \cup {None} /\ (cfg # None => new # None)
  <2>1. old # None => old.gen \in 0 .. edits
    BY <1>4 DEF RowSet
  <2>2. (IF kept THEN old.gen ELSE edits') \in 0 .. edits'
    BY <1>2, <2>1
  <2> DEFINE n == IF kept THEN old.gen ELSE edits'
  <2>3. n \in 0 .. edits' /\ n \in Nat
    BY <1>2, <2>2
  <2>4. new = IF cfg = None THEN None ELSE [cfg |-> cfg, gen |-> n]
    BY Zenon
  <2> HIDE DEF n, new
  <2>5. cfg # None => [cfg |-> cfg, gen |-> n] \in RowSet(edits') /\ [cfg |-> cfg, gen |-> n] # None
    BY <2>3, TransmitterConstants DEF RowSet
  <2> QED
    BY <2>4, <2>5
<1>6. silence \in [Markers -> Positions \cup {None}]
  OBVIOUS
<1>7. /\ rows'[r] = new /\ \A s \in Rows : s # r => rows'[s] = rows[s]
      /\ rows' \in [Rows -> RowSet(edits') \cup {None}]
  <2> HIDE DEF new
  <2> QED
    BY <1>1, <1>3, <1>4, <1>5
<1>8. lastSent' \in Told /\ heard' \in Told /\ throttled' \in SUBSET Rows
  <2> HIDE DEF silence, invalidated, kept
  <2> QED
    BY <1>1, <1>4, <1>6 DEF Told
<1>9. ASSUME NEW s \in Rows
      PROVE  /\ phase'[s] \in Nat \cup {None}
             /\ phase'[s] # None => Transmitter!Streaming(s)' /\ phase'[s] < rows'[s].cfg.period
  <2>1. CASE s # r
    <3>1. phase'[s] = phase[s] /\ rows'[s] = rows[s]
      BY <1>1, <1>4, <1>7, <2>1
    <3> QED
      BY <1>4, <3>1 DEF Transmitter!Streaming, Transmitter!Exists
  <2>2. CASE s = r /\ rephased
    BY <1>1, <1>4, <2>2
  <2>3. CASE s = r /\ ~ rephased
    <3>1. /\ phase'[s] = phase[s] /\ cfg # None /\ old # None
          /\ old.cfg.enabled = cfg.enabled /\ old.cfg.trigger = cfg.trigger
          /\ old.cfg.period = cfg.period
      BY <1>1, <2>3
    <3>2. rows'[s].cfg = cfg /\ rows'[s] # None
      BY <1>5, <1>7, <2>3, <3>1
    <3> QED
      BY <1>4, <2>3, <3>1, <3>2 DEF Transmitter!Streaming, Transmitter!Exists
  <2> QED
    BY <2>1, <2>2, <2>3
<1>10. TableSound'
  <2>1. phase' \in [Rows -> Nat \cup {None}]
    BY <1>1, <1>4, <1>9
  <2> QED
    BY <1>2, <1>7, <1>8, <1>9, <2>1 DEF TableSound, Told
<1>11. PlansSound'
  <2>1. plans' \in Seq(PlanSet(edits')) /\ events' \in Seq(PlanSet(edits'))
    BY <1>1, <1>3 DEF TInv, PlansSound
  <2> QED
    BY <1>1, <2>1 DEF TInv, PlansSound
<1>12. OthersSound'
  BY <1>1 DEF TInv, OthersSound
<1>13. ASSUME NEW s \in Rows, NEW m \in Markers
       PROVE  /\ UnderWay(s, m)' => heard'[s][m] = out'
              /\ lastSent'[s][m] # None /\ lastSent'[s][m] # heard'[s][m] => UnderWay(s, m)'
  <2>1. /\ UnderWay(s, m) => heard[s][m] = out
        /\ lastSent[s][m] # None /\ lastSent[s][m] # heard[s][m] => UnderWay(s, m)
    BY DEF TInv, SentSound
  <2>2. CASE s # r
    <3>1. heard'[s] = heard[s] /\ lastSent'[s] = lastSent[s] /\ rows'[s] = rows[s]
      BY <1>1, <1>4, <1>7, <2>2 DEF Told
    <3>2. UnderWay(s, m)' <=> UnderWay(s, m)
      BY <1>1, <3>1 DEF UnderWay, Transmitter!IsCurrent, Transmitter!Exists
    <3> QED
      BY <1>1, <2>1, <3>1, <3>2
  <2>3. CASE s = r /\ kept
    <3>1. heard' = heard /\ rows'[s] # None /\ rows[s] # None /\ rows'[s].gen = rows[s].gen
      BY <1>1, <1>5, <1>7, <2>3
    <3>2. UnderWay(s, m)' <=> UnderWay(s, m)
      BY <1>1, <2>3, <3>1 DEF UnderWay, Transmitter!IsCurrent, Transmitter!Exists
    <3>3. lastSent'[s][m] = lastSent[s][m] \/ lastSent'[s][m] = None
      BY <1>1, <1>4, <2>3 DEF Told
    <3> QED
      BY <1>1, <2>1, <3>1, <3>2, <3>3
  <2>4. CASE s = r /\ ~ kept
    <3>1. lastSent'[s][m] = None
      BY <1>1, <1>4, <2>4 DEF Told
    <3>2. ~ UnderWay(s, m)'
      <4> SUFFICES ASSUME UnderWay(s, m)' PROVE FALSE
        OBVIOUS
      <4>1. /\ pc = "sent" /\ Head(plans).row = s /\ rows'[s] # None
            /\ rows'[s].gen = Head(plans).gen
        BY <1>1 DEF UnderWay, Transmitter!IsCurrent, Transmitter!Exists
      <4>2. plans \in Seq(PlanSet(edits)) /\ plans # <<>>
        BY <4>1 DEF TInv, PlansSound
      <4>3. Head(plans) \in PlanSet(edits)
        BY <4>2, HeadTailProperties
      <4>4. Head(plans).gen \in 0 .. edits
        BY <4>3 DEF PlanSet
      <4>5. rows'[s].gen = edits'
        BY <1>7, <2>4, <4>1
      <4> QED
        BY <1>1, <1>2, <4>1, <4>4, <4>5
    <3> QED
      BY <3>1, <3>2
  <2> QED
    BY <2>2, <2>3, <2>4
<1>14. SentSound'
  BY <1>13 DEF SentSound
<1> QED
  BY <1>10, <1>11, <1>12, <1>14 DEF TInv

LEMMA TransmitterStarts == ASSUME Transmitter!Init PROVE TInv
<1> DEFINE P == PlanSet(edits)
           silence == [m \in Markers |-> None]
<1>1. /\ rows \in [Rows -> [cfg : Configs, gen : {0}]] /\ edits = 0
      /\ lastSent = [r \in Rows |-> silence] /\ heard = lastSent
      /\ phase = [r \in Rows |-> None] /\ throttled = {}
      /\ events = <<>> /\ wake = FALSE /\ stop = FALSE
      /\ pc = "clear" /\ plans = <<>> /\ out = None /\ handler = "idle"
      /\ position = [m \in Markers |-> CHOOSE p \in Positions : TRUE]
  BY DEF Transmitter!Init
<1>2. silence \in [Markers -> Positions \cup {None}]
  OBVIOUS
<1>3. [cfg : Configs, gen : {0}] \subseteq RowSet(edits)
  BY <1>1 DEF RowSet
<1>4. TableSound
  <2> HIDE DEF silence
  <2> QED
    BY <1>1, <1>2, <1>3, TransmitterConstants DEF TableSound, Told
<1>5. <<>> \in Seq(P)
  <2> HIDE DEF P
  <2> QED
    BY EmptySeq
<1>6. PlansSound
  BY <1>1, <1>5 DEF PlansSound
<1>7. (CHOOSE p \in Positions : TRUE) \in Positions
  BY TransmitterConstants
<1>8. OthersSound
  BY <1>1, <1>7 DEF OthersSound
<1>9. SentSound
  BY <1>1 DEF SentSound, UnderWay
<1> QED
  BY <1>4, <1>6, <1>8, <1>9 DEF TInv

LEMMA TransmitterStutters == ASSUME TInv, UNCHANGED transmitter PROVE TInv'
BY DEF transmitter, TInv, TableSound, RowSet, Told, PlansSound, PlanSet, OthersSound, SentSound,
       UnderWay, Transmitter!Streaming, Transmitter!Exists, Transmitter!IsCurrent

LEMMA TransmitterSteps == ASSUME TInv, Transmitter!Next PROVE TInv'
<1>1. CASE Transmitter!Scheduler
  BY <1>1, ClearSound, SnapshotSound, FireSound, SendSound, PrimeSound DEF Transmitter!Scheduler
<1>2. CASE Transmitter!HandleEvent \/ Transmitter!ThrottleEnds
  BY <1>2, HandlerSound
<1>3. CASE Transmitter!QueueEvent
  BY <1>3, EventSound
<1>4. CASE \E r \in Rows, cfg \in Configs \cup {None} : Transmitter!Restart(r, cfg)
  BY <1>4, RestartSound
<1>5. CASE Transmitter!StopFlag \/ Transmitter!StopDrops
  BY <1>5, StopSound
<1>6. CASE Transmitter!Move
  BY <1>6, MoveSound
<1> QED
  BY <1>1, <1>2, <1>3, <1>4, <1>5, <1>6 DEF Transmitter!Next

\* The invariant says what the runs check.
LEMMA TransmitterIsSafe ==
  ASSUME TInv PROVE Transmitter!TypeOK /\ Transmitter!BaselineHeard
<1>1. \A r \in Rows : Transmitter!Exists(r) => rows[r].cfg \in Configs /\ rows[r].gen \in 0 .. MaxEdits
  BY TransmitterConstants DEF TInv, TableSound, RowSet, Transmitter!Exists
<1>2. Transmitter!TypeOK
  BY <1>1 DEF TInv, TableSound, Told, OthersSound, Transmitter!TypeOK
<1>3. Transmitter!BaselineHeard
  BY DEF TInv, SentSound, UnderWay, Transmitter!BaselineHeard
<1> QED
  BY <1>2, <1>3

-----------------------------------------------------------------------------
(* The run of both.                                                        *)

LEMMA OutputsStart == ASSUME OutputsInit PROVE IInv /\ TInv
<1>1. Init => IInv
  BY InitSound
<1>2. PlaneStands => Init
  BY DEF PlaneStands, Init
<1>3. TransmitterStands => Transmitter!Init
  BY DEF TransmitterStands
<1> QED
  BY <1>1, <1>2, <1>3, TransmitterStarts DEF OutputsInit

LEMMA OutputsStep == ASSUME IInv, TInv, [OutputsNext]_all PROVE IInv' /\ TInv'
<1>1. [Next]_vars /\ (Transmitter!Next \/ UNCHANGED transmitter)
  BY DEF OutputsNext, OfPlane, OfOutput, OfTransmitter, all
<1>2. IInv'
  BY <1>1, StepSound DEF Kept
<1>3. TInv'
  BY <1>1, TransmitterSteps, TransmitterStutters
<1> QED
  BY <1>2, <1>3

\* The gate of a row compares with what the row's incarnation has told, in
\* every state but between a send and the lock after it; and the observer and
\* the transmitter keep their types.
THEOREM BaselinesAreHeard == OutputsSpec => []BaselinesHeard
<1>1. OutputsInit => IInv /\ TInv
  BY OutputsStart
<1>2. IInv /\ TInv /\ [OutputsNext]_all => IInv' /\ TInv'
  BY OutputsStep
<1>3. IInv /\ TInv => BaselinesHeard
  <2>1. IInv => TypeOK
    BY DEF IInv, Numbers, Flags, TypeOK
  <2> QED
    BY <2>1, TransmitterIsSafe DEF BaselinesHeard
<1> QED
  BY <1>1, <1>2, <1>3, PTL DEF OutputsSpec
=============================================================================
