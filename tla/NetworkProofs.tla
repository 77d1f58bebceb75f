------------------------ MODULE NetworkProofs ------------------------
(***************************************************************************)
(* Proofs about the station on its network: of StationFollow, that its     *)
(* variables keep their types and that no loop of the beacons or of        *)
(* catalog sync goes on where its service is not any more without being    *)
(* told to open anew; of PsnReceiver, that what is read was heard; of      *)
(* CatalogSender, that an edit goes out and a rotation is through in as    *)
(* many heartbeats as the log says; and of what they are together.         *)
(***************************************************************************)
EXTENDS NetworkMC, FiniteSetTheorems, SequenceTheorems, WellFoundedInduction, TLAPS

\* The invariant, in the parts that the steps are checked against.
Numbers ==
  /\ tries \in 0..RxTries - 1
  /\ downPolls \in 0..DownPolls
  /\ throttle \in 0..RefreshTTL
  /\ changes \in 0..MaxChanges

Addresses ==
  /\ addr \in Addrs \cup {None}
  /\ beaconIp \in Addrs \cup {None} /\ catalogIp \in Addrs \cup {None}
  /\ request \in [addr: Addrs \cup {None}, age: 0..MaxStall] \cup {None}

Flags == portTaken \in BOOLEAN /\ sawOutage \in BOOLEAN /\ suspended \in BOOLEAN

PcOK == pc \in [Loops -> {"open", "run", "wait", "parked"}]
SockOK == sock \in [Loops -> Addrs \cup {None}] /\ lost \subseteq Loops
RingOK == reopen \in [Loops -> BOOLEAN]

IInv == Numbers /\ Addresses /\ Flags /\ PcOK /\ SockOK /\ RingOK /\ NoRepointLost

\* A loop is of one of the two services.
LEMMA TwoServices ==
  /\ BeaconLoops \subseteq Loops /\ CatalogLoops \subseteq Loops
  /\ Loops = BeaconLoops \cup CatalogLoops
BY StationFollowAssumption DEF BeaconLoops, CatalogLoops, AllLoops

\* Ringing the bells of some loops sets theirs and leaves the others as they are.
LEMMA Rings ==
  ASSUME RingOK, NEW S, Ring(S)
  PROVE  RingOK' /\ \A l \in Loops : reopen'[l] <=> reopen[l] \/ l \in S
<1>1. reopen' = [l \in Loops |-> reopen[l] \/ l \in S]
  BY Zenon DEF Ring
<1>2. \A l \in Loops : (reopen[l] \/ l \in S) \in BOOLEAN
  BY Zenon
<1>3. RingOK'
  BY Zenon, <1>1, <1>2 DEF RingOK
<1>4. QED
  BY Zenon, <1>1, <1>3

\* Rebuilding clears at most the bell of the loop that rebuilds.
LEMMA Clears ==
  ASSUME RingOK, NEW k \in Loops, Clear(k)
  PROVE  RingOK' /\ \A l \in Loops \ {k} : reopen'[l] <=> reopen[l]
<1>1. CASE reopen' = reopen
  BY Zenon, <1>1 DEF RingOK
<1>2. CASE reopen' = [reopen EXCEPT ![k] = FALSE]
  BY Zenon, <1>2 DEF RingOK
<1>3. QED
  BY Zenon, <1>1, <1>2 DEF Clear

\* A repoint, whoever gives it, rings the loops of every service whose address
\* it moves: those that are not told have nothing to open anew for.
LEMMA RepointTells ==
  ASSUME IInv, NEW S, Ring(S), UNCHANGED <<pc, sock>>,
         beaconIp' # beaconIp => BeaconLoops \subseteq S,
         catalogIp' # catalogIp => CatalogLoops \subseteq S
  PROVE  PcOK' /\ RingOK' /\ sock' \in [Loops -> Addrs \cup {None}] /\ NoRepointLost'
<1>1. RingOK' /\ \A l \in Loops : reopen'[l] <=> reopen[l] \/ l \in S
  BY Rings DEF IInv
<1>2. PcOK' /\ sock' \in [Loops -> Addrs \cup {None}]
  BY DEF IInv, PcOK, SockOK
<1>3. ASSUME NEW l \in Loops, pc'[l] = "run", ~reopen'[l]
      PROVE  sock'[l] = ConfiguredIp(l)'
  <2>1. ~reopen[l] /\ l \notin S
    BY Zenon, <1>1, <1>3
  <2>2. sock[l] = ConfiguredIp(l)
    BY Zenon, <1>3, <2>1 DEF IInv, NoRepointLost
  <2>3. ConfiguredIp(l)' = ConfiguredIp(l)
    BY <2>1, TwoServices DEF ConfiguredIp
  <2>4. QED
    BY <2>2, <2>3
<1>4. NoRepointLost'
  BY Zenon, <1>3 DEF NoRepointLost
<1>5. QED
  BY <1>1, <1>2, <1>4

\* A loop's own step concerns no other: it is enough to look at the one.
LEMMA LoopTells ==
  ASSUME IInv, NEW k \in Loops, UNCHANGED <<beaconIp, catalogIp>>,
         NEW p \in {"open", "run", "wait", "parked"}, pc' = [pc EXCEPT ![k] = p],
         NEW a \in Addrs \cup {None}, sock' = [sock EXCEPT ![k] = a],
         RingOK', \A l \in Loops \ {k} : reopen'[l] <=> reopen[l],
         p = "run" /\ ~reopen'[k] => a = ConfiguredIp(k)
  PROVE  PcOK' /\ sock' \in [Loops -> Addrs \cup {None}] /\ NoRepointLost'
<1>1. PcOK' /\ sock' \in [Loops -> Addrs \cup {None}]
  BY DEF IInv, PcOK, SockOK
<1>2. ASSUME NEW l \in Loops, pc'[l] = "run", ~reopen'[l]
      PROVE  sock'[l] = ConfiguredIp(l)'
  <2>1. ConfiguredIp(l)' = ConfiguredIp(l)
    BY DEF ConfiguredIp
  <2>2. CASE l = k
    <3>1. pc'[k] = p /\ sock'[k] = a
      BY DEF IInv, PcOK, SockOK
    <3>2. QED
      BY <1>2, <2>1, <2>2, <3>1
  <2>3. CASE l # k
    <3>1. pc'[l] = pc[l] /\ sock'[l] = sock[l]
      BY <2>3 DEF IInv, PcOK, SockOK
    <3>2. ~reopen[l]
      BY Zenon, <1>2, <2>3
    <3>3. sock[l] = ConfiguredIp(l)
      BY Zenon, <1>2, <3>1, <3>2 DEF IInv, NoRepointLost
    <3>4. QED
      BY <2>1, <3>1, <3>3
  <2>4. QED
    BY <2>2, <2>3
<1>3. NoRepointLost'
  BY Zenon, <1>2 DEF NoRepointLost
<1>4. QED
  BY <1>1, <1>3

-----------------------------------------------------------------------------
(* The requests and the poll.                                              *)

LEMMA AgeIs ==
  ASSUME IInv, Age
  PROVE  request' \in [addr: Addrs \cup {None}, age: 0..MaxStall] \cup {None}
BY StationFollowAssumption DEF IInv, Addresses, Age

LEMMA TickIs == ASSUME IInv, Tick PROVE throttle' \in 0..RefreshTTL
BY StationFollowAssumption DEF IInv, Numbers, Tick

LEMMA AskStep == ASSUME IInv, Ask PROVE IInv'
<1>1. Numbers' /\ Addresses'
  BY StationFollowAssumption DEF Ask, IInv, Numbers, Addresses, net, loops, station
<1>2. Flags' /\ RingOK'
  BY Zenon DEF Ask, IInv, Flags, RingOK, net, station
<1>3. PcOK' /\ SockOK'
  BY DEF Ask, IInv, PcOK, SockOK, loops
<1>4. NoRepointLost'
  BY Zenon DEF Ask, IInv, NoRepointLost, ConfiguredIp, loops
<1>5. QED
  BY <1>1, <1>2, <1>3, <1>4 DEF IInv

LEMMA AnswerStep == ASSUME IInv, Answer PROVE IInv'
<1>1. Numbers' /\ Addresses'
  BY DEF Answer, IInv, Numbers, Addresses, net, loops, station
<1>2. Flags'
  BY Zenon DEF Answer, IInv, Flags, net, station
<1>3. PcOK' /\ RingOK' /\ sock' \in [Loops -> Addrs \cup {None}] /\ NoRepointLost'
  <2> DEFINE S == WakeBeacons(request.addr, FALSE)
  <2>1. Ring(S) /\ UNCHANGED <<pc, sock, catalogIp>>
    BY Zenon DEF Answer, loops
  <2>2. beaconIp' # beaconIp => BeaconLoops \subseteq S
    BY DEF Answer, WakeBeacons
  <2> HIDE DEF S
  <2>3. QED
    BY Zenon, <2>1, <2>2, RepointTells
<1>4. SockOK'
  BY <1>3 DEF SockOK, IInv, Answer, loops
<1>5. QED
  BY <1>1, <1>2, <1>3, <1>4 DEF IInv

LEMMA DownStep == ASSUME IInv, FollowDown PROVE IInv'
<1>1. Numbers' /\ Addresses'
  <2>1. throttle' \in 0..RefreshTTL
    BY TickIs DEF FollowDown
  <2>2. request' \in [addr: Addrs \cup {None}, age: 0..MaxStall] \cup {None}
    BY AgeIs DEF FollowDown
  <2>3. beaconIp' \in {beaconIp, None} /\ catalogIp' \in {catalogIp, None}
    BY DEF FollowDown, Suspended
  <2>4. QED
    BY <2>1, <2>2, <2>3, StationFollowAssumption DEF FollowDown, IInv, Numbers, Addresses, net
<1>2. Flags'
  BY Zenon DEF FollowDown, Suspended, IInv, Flags, net
<1>3. PcOK' /\ RingOK' /\ sock' \in [Loops -> Addrs \cup {None}] /\ NoRepointLost'
  <2>1. CASE Suspended
    <3> DEFINE S == WakeBeacons(None, FALSE) \cup WakeCatalog(None, FALSE)
    <3>1. Ring(S) /\ UNCHANGED <<pc, sock>>
      BY Zenon, <2>1 DEF FollowDown, Suspended
    <3>2. beaconIp' # beaconIp => BeaconLoops \subseteq S
      BY <2>1 DEF Suspended, WakeBeacons
    <3>3. catalogIp' # catalogIp => CatalogLoops \subseteq S
      BY <2>1 DEF Suspended, WakeCatalog
    <3> HIDE DEF S
    <3>4. QED
      BY Zenon, <3>1, <3>2, <3>3, RepointTells
  <2>2. CASE UNCHANGED <<suspended, beaconIp, catalogIp, reopen>>
    <3>1. PcOK' /\ sock' \in [Loops -> Addrs \cup {None}]
      BY DEF FollowDown, IInv, PcOK, SockOK
    <3>2. RingOK' /\ NoRepointLost'
      BY Zenon, <2>2 DEF FollowDown, IInv, RingOK, NoRepointLost, ConfiguredIp
    <3>3. QED
      BY <3>1, <3>2
  <2>3. QED
    BY Zenon, <2>1, <2>2 DEF FollowDown
<1>4. SockOK'
  BY <1>3 DEF SockOK, FollowDown
<1>5. QED
  BY <1>1, <1>2, <1>3, <1>4 DEF IInv

LEMMA UpStep == ASSUME IInv, FollowUp PROVE IInv'
<1> DEFINE refreshes == BeaconLoops # {} /\ throttle <= 1
           S == Rebuilt(refreshes /\ beaconIp # addr) \cup WakeCatalog(addr, sawOutage)
<1>1. /\ addr # None /\ Age
      /\ IF refreshes THEN throttle' = RefreshTTL ELSE Tick
      /\ beaconIp' = IF refreshes THEN addr ELSE beaconIp
      /\ catalogIp' = addr
      /\ Ring(S)
      /\ sawOutage' = FALSE /\ downPolls' = 0 /\ suspended' = FALSE
      /\ UNCHANGED <<net, loops>>
  BY Zenon DEF FollowUp
<1>2. Numbers' /\ Addresses'
  <2>1. throttle' \in 0..RefreshTTL
    BY <1>1, TickIs, StationFollowAssumption
  <2>2. request' \in [addr: Addrs \cup {None}, age: 0..MaxStall] \cup {None}
    BY <1>1, AgeIs
  <2>3. QED
    BY <1>1, <2>1, <2>2, StationFollowAssumption DEF IInv, Numbers, Addresses, net, loops
<1>3. Flags'
  BY Zenon, <1>1 DEF IInv, Flags, net
<1>4. PcOK' /\ RingOK' /\ sock' \in [Loops -> Addrs \cup {None}] /\ NoRepointLost'
  <2>1. beaconIp' # beaconIp => BeaconLoops \subseteq S
    BY <1>1 DEF Rebuilt
  <2>2. catalogIp' # catalogIp => CatalogLoops \subseteq S
    BY <1>1 DEF WakeCatalog
  <2>3. Ring(S) /\ UNCHANGED <<pc, sock>>
    BY Zenon, <1>1 DEF loops
  <2> HIDE DEF S
  <2>4. QED
    BY Zenon, <2>1, <2>2, <2>3, RepointTells
<1>5. SockOK'
  BY <1>1, <1>4 DEF IInv, SockOK, loops
<1>6. QED
  BY <1>2, <1>3, <1>4, <1>5 DEF IInv

-----------------------------------------------------------------------------
(* The loops.                                                              *)

\* What a loop's step leaves alone.
Outside == UNCHANGED <<net, beaconIp, catalogIp, station, web>>

LEMMA OutsideIs ==
  ASSUME IInv, Outside, tries' \in 0..RxTries - 1
  PROVE  Numbers' /\ Addresses' /\ Flags'
<1>1. Numbers' /\ Addresses'
  BY DEF Outside, IInv, Numbers, Addresses, net, station, web
<1>2. Flags'
  BY Zenon DEF Outside, IInv, Flags, net, station
<1>3. QED
  BY <1>1, <1>2

LEMMA RebuildStep == ASSUME IInv, NEW l \in Loops, Rebuild(l) PROVE IInv'
<1>1. Numbers' /\ Addresses' /\ Flags'
  <2>1. Outside /\ tries' \in 0..RxTries - 1
    BY DEF Rebuild, Outside, IInv, Numbers
  <2>2. QED
    BY <2>1, OutsideIs
<1>2. RingOK' /\ \A k \in Loops \ {l} : reopen'[k] <=> reopen[k]
  BY Clears DEF IInv, Rebuild
<1>3. pc' = [pc EXCEPT ![l] = "open"] /\ sock' = [sock EXCEPT ![l] = None]
      /\ lost' = lost \ {l} /\ UNCHANGED <<beaconIp, catalogIp>>
  BY DEF Rebuild, Drop
<1>4. PcOK' /\ sock' \in [Loops -> Addrs \cup {None}] /\ NoRepointLost'
  BY <1>2, <1>3, LoopTells
<1>5. SockOK'
  BY <1>3, <1>4 DEF SockOK, IInv
<1>6. QED
  BY <1>1, <1>2, <1>4, <1>5 DEF IInv

LEMMA OpenStep == ASSUME IInv, NEW l \in Loops, Open(l) PROVE IInv'
<1>1. Numbers' /\ Addresses' /\ Flags'
  <2>1. Outside /\ tries' \in 0..RxTries - 1
    BY StationFollowAssumption DEF Open, Outside, IInv, Numbers
  <2>2. QED
    BY <2>1, OutsideIs
<1>2. RingOK' /\ \A k \in Loops \ {l} : reopen'[k] <=> reopen[k]
  BY Zenon DEF Open, IInv, RingOK
<1>3. pc' = [pc EXCEPT ![l] = "run"] /\ sock' = [sock EXCEPT ![l] = ConfiguredIp(l)]
      /\ lost' = lost \ {l} /\ UNCHANGED <<beaconIp, catalogIp>>
  BY DEF Open
<1>4. ConfiguredIp(l) \in Addrs \cup {None}
  BY DEF IInv, Addresses, ConfiguredIp
<1>5. PcOK' /\ sock' \in [Loops -> Addrs \cup {None}] /\ NoRepointLost'
  <2>1. ASSUME NEW a \in Addrs \cup {None}, a = ConfiguredIp(l)
        PROVE  PcOK' /\ sock' \in [Loops -> Addrs \cup {None}] /\ NoRepointLost'
    BY <1>2, <1>3, <2>1, LoopTells
  <2>2. QED
    BY <1>4, <2>1
<1>6. SockOK'
  BY <1>3, <1>5 DEF SockOK, IInv
<1>7. QED
  BY <1>1, <1>2, <1>5, <1>6 DEF IInv

\* A loop goes to wait or to park, with the socket it has or without.
LEMMA StopsRunning ==
  ASSUME IInv, NEW l \in Loops, Outside, tries' \in 0..RxTries - 1, reopen' = reopen,
         NEW p \in {"wait", "parked"}, pc' = [pc EXCEPT ![l] = p],
         \/ UNCHANGED <<sock, lost>>
         \/ Drop(l)
  PROVE  IInv'
<1>1. Numbers' /\ Addresses' /\ Flags'
  BY OutsideIs
<1>2. RingOK' /\ \A k \in Loops \ {l} : reopen'[k] <=> reopen[k]
  BY Zenon DEF IInv, RingOK
<1>3. PICK a \in Addrs \cup {None} : sock' = [sock EXCEPT ![l] = a]
  <2>1. CASE UNCHANGED sock
    <3>1. sock[l] \in Addrs \cup {None} /\ sock' = [sock EXCEPT ![l] = sock[l]]
      BY <2>1 DEF IInv, SockOK
    <3>2. QED
      BY <3>1
  <2>2. QED
    BY <2>1 DEF Drop
<1>4. UNCHANGED <<beaconIp, catalogIp>> /\ p \in {"open", "run", "wait", "parked"} /\ p # "run"
  BY DEF Outside
<1>5. PcOK' /\ sock' \in [Loops -> Addrs \cup {None}] /\ NoRepointLost'
  BY <1>2, <1>3, <1>4, LoopTells
<1>6. SockOK'
  BY <1>5 DEF SockOK, IInv, Drop
<1>7. QED
  BY <1>1, <1>2, <1>5, <1>6 DEF IInv

LEMMA UnavailableStep == ASSUME IInv, NEW l \in Loops, OpenUnavailable(l) PROVE IInv'
<1>1. Outside /\ tries' \in 0..RxTries - 1 /\ reopen' = reopen
      /\ pc' = [pc EXCEPT ![l] = "wait"] /\ UNCHANGED <<sock, lost>>
  BY DEF OpenUnavailable, Outside, IInv, Numbers
<1>2. QED
  BY <1>1, StopsRunning

LEMMA BindStep == ASSUME IInv, BindFails PROVE IInv'
<1>1. "catalog_rx" \in Loops /\ Outside /\ reopen' = reopen /\ UNCHANGED <<sock, lost>>
  BY DEF BindFails, Outside
<1>2. CASE tries + 1 >= RxTries
  BY <1>1, <1>2, StopsRunning, StationFollowAssumption DEF BindFails
<1>3. CASE ~(tries + 1 >= RxTries)
  <2>1. tries' \in 0..RxTries - 1 /\ pc' = [pc EXCEPT !["catalog_rx"] = "wait"]
    BY <1>3, StationFollowAssumption DEF BindFails, IInv, Numbers
  <2>2. QED
    BY <1>1, <2>1, StopsRunning
<1>4. QED
  BY <1>2, <1>3

LEMMA FailsStep == ASSUME IInv, NEW l \in Loops, SendFails(l) PROVE IInv'
<1>1. Outside /\ tries' \in 0..RxTries - 1 /\ reopen' = reopen
      /\ pc' = [pc EXCEPT ![l] = "wait"] /\ Drop(l)
  BY DEF SendFails, Outside, IInv, Numbers
<1>2. QED
  BY <1>1, StopsRunning

-----------------------------------------------------------------------------
(* The world, and the theorems.                                            *)

LEMMA WorldStep == ASSUME IInv, InterfaceChanges \/ PortChanges PROVE IInv'
<1>1. UNCHANGED <<beaconIp, catalogIp, reopen, loops, station, web>>
  BY DEF InterfaceChanges, PortChanges
<1>2. changes' \in 0..MaxChanges /\ addr' \in Addrs \cup {None}
  BY StationFollowAssumption DEF InterfaceChanges, PortChanges, Change, IInv, Numbers, Addresses
<1>3. portTaken' \in BOOLEAN
  BY Zenon DEF InterfaceChanges, PortChanges, IInv, Flags
<1>4. Numbers' /\ Addresses'
  BY <1>1, <1>2 DEF IInv, Numbers, Addresses, loops, station, web
<1>5. Flags' /\ RingOK' /\ NoRepointLost'
  BY Zenon, <1>1, <1>3 DEF IInv, Flags, RingOK, NoRepointLost, ConfiguredIp, loops, station
<1>6. PcOK' /\ SockOK'
  BY <1>1 DEF IInv, PcOK, SockOK, loops
<1>7. QED
  BY <1>4, <1>5, <1>6 DEF IInv

LEMMA StutterStep == ASSUME IInv, UNCHANGED vars PROVE IInv'
<1>1. Numbers' /\ Addresses' /\ PcOK' /\ SockOK'
  BY DEF vars, net, loops, station, web, IInv, Numbers, Addresses, PcOK, SockOK
<1>2. Flags' /\ RingOK' /\ NoRepointLost'
  BY Zenon DEF vars, net, loops, station, web, IInv, Flags, RingOK, NoRepointLost, ConfiguredIp
<1>3. QED
  BY <1>1, <1>2 DEF IInv

LEMMA InitSound == Init => IInv
<1> SUFFICES ASSUME Init PROVE IInv
  OBVIOUS
<1>1. Numbers /\ Addresses
  BY StationFollowAssumption DEF Init, Numbers, Addresses
<1>2. Flags /\ RingOK
  BY Zenon DEF Init, Flags, RingOK
<1>3. PcOK /\ SockOK /\ NoRepointLost
  BY DEF Init, PcOK, SockOK, NoRepointLost
<1>4. QED
  BY <1>1, <1>2, <1>3 DEF IInv

LEMMA StepSound == IInv /\ [Next]_vars => IInv'
<1> SUFFICES ASSUME IInv, [Next]_vars PROVE IInv'
  OBVIOUS
<1>1. CASE Ask \/ Answer
  BY <1>1, AskStep, AnswerStep
<1>2. CASE Poll
  BY <1>2, DownStep, UpStep DEF Poll
<1>3. CASE \E l \in Loops : LoopStep(l) \/ SendFails(l)
  <2>1. PICK l \in Loops : LoopStep(l) \/ SendFails(l)
    BY <1>3
  <2>2. QED
    BY <2>1, RebuildStep, OpenStep, UnavailableStep, BindStep, FailsStep DEF LoopStep
<1>4. CASE InterfaceChanges \/ PortChanges
  BY <1>4, WorldStep
<1>5. CASE UNCHANGED vars
  BY <1>5, StutterStep
<1>6. QED
  BY <1>1, <1>2, <1>3, <1>4, <1>5 DEF Next

LEMMA InvariantHolds == Spec => []IInv
BY InitSound, StepSound, PTL DEF Spec

LEMMA FollowTypes == IInv => TypeOK
BY DEF IInv, Numbers, Addresses, Flags, PcOK, SockOK, RingOK, TypeOK

\* The station's addresses, debounce, throttle and requests, and each loop's
\* place, socket and bell keep their types; the attempts to bind the catalog's
\* port never reach _RX_OPEN_MAX_RETRIES.
THEOREM TypeCorrect == Spec => []TypeOK
<1>1. QED
  BY FollowTypes, InvariantHolds, PTL

\* However polls, web requests and outages interleave with a loop that opens
\* its socket, a loop that runs with no reopen event set runs on the address
\* its service was last given (update_iface_ip of the beacons and the catalog).
THEOREM NoRepointIsLost == Spec => []NoRepointLost
<1>1. IInv => NoRepointLost
  BY DEF IInv
<1>2. QED
  BY <1>1, InvariantHolds, PTL

-----------------------------------------------------------------------------
(* PSN input.  While it is off the call that switched it off is still to   *)
(* put an end to what counts and to forget, or no packet counts and none   *)
(* is kept; and a marker too old is there only until the next sweep.       *)

\* What may be left of a call of the main loop.
Calls ==
  {<<>>, <<"quiet", "close">>, <<"close">>,
   <<"quiet", "close", "forget">>, <<"close", "forget">>, <<"forget">>,
   <<"quiet", "close", "open", "publish">>, <<"close", "open", "publish">>,
   <<"open", "publish">>, <<"publish">>}

\* What a step takes off it.
LEMMA CallsGoOn ==
  ASSUME NEW t \in Calls, t # <<>>
  PROVE  /\ Tail(t) \in Calls
         /\ Head(t) = "quiet" => /\ Tail(t) # <<"publish">>
                                 /\ t = <<"quiet", "close", "forget">> => Tail(t) = <<"close", "forget">>
         /\ Head(t) = "close" => /\ Tail(t) # <<"publish">>
                                 /\ t # <<"quiet", "close", "forget">> /\ t # <<"forget">>
                                 /\ t = <<"close", "forget">> => Tail(t) = <<"forget">>
         /\ Head(t) = "forget" => Tail(t) = <<>>
         /\ Head(t) = "open" => t = <<"open", "publish">> /\ Tail(t) = <<"publish">>
         /\ Head(t) = "publish" => t = <<"publish">> /\ Tail(t) = <<>>
<1>1. CASE t = <<"quiet", "close">>
  BY <1>1 DEF Calls
<1>2. CASE t = <<"close">>
  BY <1>2 DEF Calls
<1>3. CASE t = <<"quiet", "close", "forget">>
  BY <1>3 DEF Calls
<1>4. CASE t = <<"close", "forget">>
  BY <1>4 DEF Calls
<1>5. CASE t = <<"forget">>
  BY <1>5 DEF Calls
<1>6. CASE t = <<"quiet", "close", "open", "publish">>
  BY <1>6 DEF Calls
<1>7. CASE t = <<"close", "open", "publish">>
  BY <1>7 DEF Calls
<1>8. CASE t = <<"open", "publish">>
  BY <1>8 DEF Calls
<1>9. CASE t = <<"publish">>
  BY <1>9 DEF Calls
<1> QED
  BY <1>1, <1>2, <1>3, <1>4, <1>5, <1>6, <1>7, <1>8, <1>9 DEF Calls

LEMMA ReceiverConstants ==
  Ttl \in Nat /\ MaxStarts \in Nat /\ None \notin Trackers /\ None \notin Nat
BY NetworkAssumption DEF Receiver!PsnReceiverAssumption

Ages == (0 .. Ttl + 1) \cup {None}

Heard ==
  /\ enabled \in BOOLEAN /\ due \in BOOLEAN /\ ignored \subseteq Trackers
  /\ {generation, receiver} \subseteq 0 .. MaxStarts
  /\ thread \in [1 .. MaxStarts -> [state : {"unborn", "reading", "holding", "ended"},
                                    stopped : BOOLEAN, packet : Trackers \cup {None}]]
  /\ markers \in [Trackers -> Ages] /\ todo \in Calls

Forgotten == \A i \in Trackers : markers[i] = None

\* Where the input is off.
Off ==
  \/ todo = <<"quiet", "close", "forget">>
  \/ generation = 0 /\ todo # <<"publish">>
     /\ (todo \in {<<"close", "forget">>, <<"forget">>} \/ Forgotten)

Young == \A i \in Trackers : markers[i] # None => markers[i] \in 0 .. Ttl

RInv == Heard /\ (~enabled => Off) /\ (~due => Young)

LEMMA HeardIsTypeOK == RInv => Receiver!TypeOK
BY Zenon DEF RInv, Heard, Ages, Receiver!TypeOK, Receiver!Threads

\* A sweep that is due leaves nothing too old.
LEMMA Sweeps ==
  ASSUME RInv
  PROVE  /\ Receiver!Swept \in [Trackers -> Ages]
         /\ \A i \in Trackers : Receiver!Swept[i] # None => Receiver!Swept[i] \in 0 .. Ttl
         /\ Forgotten => \A i \in Trackers : Receiver!Swept[i] = None
BY ReceiverConstants
   DEF RInv, Heard, Ages, Young, Forgotten, Receiver!Swept

LEMMA ReceiverInit == Receiver!Init => RInv
<1> SUFFICES ASSUME Receiver!Init PROVE RInv
  OBVIOUS
<1>1. todo \in Calls /\ todo # <<"publish">>
  BY DEF Receiver!Init, Calls
<1> QED
  BY <1>1, ReceiverConstants
     DEF Receiver!Init, RInv, Heard, Ages, Off, Forgotten, Receiver!Threads, Receiver!Unborn

\* Calls that are put together, written out.
LEMMA Appended ==
  ASSUME NEW T, NEW a \in T, NEW b \in T, NEW c \in T
  PROVE  Append(<<a, b>>, c) = <<a, b, c>>
<1>1. <<a, b>> \in Seq(T) /\ <<a, b, c>> \in Seq(T)
  OBVIOUS
<1>2. Append(<<a, b>>, c) \in Seq(T)
  BY <1>1
<1>3. Len(Append(<<a, b>>, c)) = 3 /\ \A k \in 1 .. 3 : Append(<<a, b>>, c)[k] = <<a, b, c>>[k]
  OBVIOUS
<1> QED
  BY <1>1, <1>2, <1>3, SeqEqual

LEMMA Joined ==
  ASSUME NEW T, NEW a \in T, NEW b \in T, NEW c \in T, NEW d \in T
  PROVE  <<a, b>> \o <<c, d>> = <<a, b, c, d>>
<1>1. <<a, b>> \in Seq(T) /\ <<c, d>> \in Seq(T) /\ <<a, b, c, d>> \in Seq(T)
  OBVIOUS
<1>2. <<a, b>> \o <<c, d>> \in Seq(T)
  BY <1>1
<1>3. /\ Len(<<a, b>> \o <<c, d>>) = 4
      /\ \A k \in 1 .. 4 : (<<a, b>> \o <<c, d>>)[k] = <<a, b, c, d>>[k]
  OBVIOUS
<1> QED
  BY <1>1, <1>2, <1>3, SeqEqual

LEMMA ForgetCall == Append(Receiver!Stopping, "forget") = <<"quiet", "close", "forget">>
<1> DEFINE Words == {"quiet", "close", "forget"}
<1>1. "quiet" \in Words /\ "close" \in Words /\ "forget" \in Words
  OBVIOUS
<1> HIDE DEF Words
<1>2. Append(<<"quiet", "close">>, "forget") = <<"quiet", "close", "forget">>
  BY <1>1, Appended
<1> QED
  BY Zenon, <1>2 DEF Receiver!Stopping

LEMMA RebindCall == Receiver!Rebinding = <<"quiet", "close", "open", "publish">>
<1> DEFINE Words == {"quiet", "close", "open", "publish"}
<1>1. "quiet" \in Words /\ "close" \in Words /\ "open" \in Words /\ "publish" \in Words
  OBVIOUS
<1> HIDE DEF Words
<1>2. <<"quiet", "close">> \o <<"open", "publish">> = <<"quiet", "close", "open", "publish">>
  BY <1>1, Joined
<1> QED
  BY Zenon, <1>2 DEF Receiver!Stopping, Receiver!Rebinding

\* The main loop starts a call.
LEMMA OrderStep ==
  ASSUME RInv, Receiver!Rebind \/ Receiver!Suspend \/ Receiver!Disable \/ Receiver!Enable
               \/ Receiver!SetIgnoreIds
  PROVE  RInv'
<1> DEFINE vs == <<generation, receiver, thread, markers, due>>
<1>1. todo = <<>> /\ UNCHANGED vs
  BY DEF Receiver!Rebind, Receiver!Suspend, Receiver!Disable, Receiver!Enable,
         Receiver!SetIgnoreIds, Receiver!Order
<1>2. todo' \in Calls /\ todo' # <<"publish">>
  <2>1. todo' \in {<<>>, Receiver!Stopping, Receiver!Rebinding, Append(Receiver!Stopping, "forget")}
    BY DEF Receiver!Rebind, Receiver!Suspend, Receiver!Disable, Receiver!Enable,
           Receiver!SetIgnoreIds, Receiver!Order
  <2>2. CASE todo' = <<>>
    BY <2>2 DEF Calls
  <2>3. CASE todo' = Receiver!Stopping
    BY <2>3 DEF Calls, Receiver!Stopping
  <2>4. CASE todo' = Receiver!Rebinding
    BY <2>4, RebindCall DEF Calls
  <2>5. CASE todo' = Append(Receiver!Stopping, "forget")
    BY <2>5, ForgetCall DEF Calls
  <2> QED
    BY <2>1, <2>2, <2>3, <2>4, <2>5
<1>3. enabled' \in BOOLEAN /\ ignored' \subseteq Trackers
  BY DEF Receiver!Rebind, Receiver!Suspend, Receiver!Disable, Receiver!Enable, RInv, Heard,
         Receiver!SetIgnoreIds
<1>4. ~enabled' => todo' = <<"quiet", "close", "forget">> \/ ~enabled
  BY ForgetCall DEF Receiver!Rebind, Receiver!Suspend, Receiver!Disable, Receiver!Enable, RInv, Heard,
         Receiver!SetIgnoreIds, Receiver!Order
<1>5. ~enabled' => Off'
  BY <1>1, <1>2, <1>4 DEF RInv, Off, Forgotten
<1> QED
  BY <1>1, <1>2, <1>3, <1>5 DEF RInv, Heard, Young

\* A step of the call.
LEMMA MainLoopStep == ASSUME RInv, Receiver!MainStep PROVE RInv'
<1> USE ReceiverConstants
<1> DEFINE Threads == [1 .. MaxStarts -> [state : {"unborn", "reading", "holding", "ended"},
                                          stopped : BOOLEAN, packet : Trackers \cup {None}]]
<1>1. CASE Receiver!Quiet
  <2>1. todo \in Calls /\ todo # <<>> /\ Head(todo) = "quiet" /\ todo' = Tail(todo)
    BY <1>1 DEF Receiver!Quiet, Receiver!Now, Receiver!Done, RInv, Heard
  <2>2. /\ todo' \in Calls /\ todo' # <<"publish">>
        /\ todo = <<"quiet", "close", "forget">> => todo' = <<"close", "forget">>
    BY <2>1, CallsGoOn
  <2>3. todo # <<"close", "forget">> /\ todo # <<"forget">>
    BY <2>1
  <2> QED
    BY <1>1, <2>2, <2>3 DEF Receiver!Quiet, RInv, Heard, Off, Forgotten, Young
<1>2. CASE Receiver!Close
  <2>1. todo \in Calls /\ todo # <<>> /\ Head(todo) = "close" /\ todo' = Tail(todo)
    BY <1>2 DEF Receiver!Close, Receiver!Now, Receiver!Done, RInv, Heard
  <2>2. /\ todo' \in Calls /\ todo' # <<"publish">>
        /\ todo # <<"quiet", "close", "forget">> /\ todo # <<"forget">>
        /\ todo = <<"close", "forget">> => todo' = <<"forget">>
    BY <2>1, CallsGoOn
  <2>3. thread' \in Threads /\ receiver' \in 0 .. MaxStarts
    <3>1. receiver = 0 \/ receiver \in 1 .. MaxStarts
      BY DEF RInv, Heard
    <3>2. CASE receiver = 0
      BY <1>2, <3>2 DEF Receiver!Close, RInv, Heard
    <3>3. ASSUME receiver \in 1 .. MaxStarts PROVE thread' \in Threads /\ receiver' = 0
      <4>1. thread' = [thread EXCEPT ![receiver].stopped = TRUE] /\ receiver' = 0
        BY <1>2, <3>3 DEF Receiver!Close
      <4>2. thread[receiver] \in [state : {"unborn", "reading", "holding", "ended"},
                                  stopped : BOOLEAN, packet : Trackers \cup {None}]
        BY <3>3 DEF RInv, Heard
      <4> QED
        BY <3>3, <4>1, <4>2 DEF RInv, Heard
    <3> QED
      BY <3>1, <3>2, <3>3
  <2> QED
    BY <1>2, <2>2, <2>3 DEF Receiver!Close, RInv, Heard, Off, Forgotten, Young
<1>3. CASE Receiver!Forget
  <2>1. todo' = <<>>
    BY <1>3, CallsGoOn DEF Receiver!Forget, Receiver!Now, Receiver!Done, RInv, Heard
  <2>2. todo' \in Calls /\ todo' # <<"publish">> /\ todo # <<"quiet", "close", "forget">>
    BY <1>3, <2>1 DEF Receiver!Forget, Receiver!Now, Calls
  <2>3. markers' \in [Trackers -> Ages] /\ Forgotten'
    BY <1>3 DEF Receiver!Forget, Ages, Forgotten
  <2> QED
    BY <1>3, <2>2, <2>3 DEF Receiver!Forget, RInv, Heard, Off, Forgotten, Young
<1>4. CASE Receiver!Open
  <2>1. todo \in Calls /\ todo # <<>> /\ Head(todo) = "open"
    BY <1>4 DEF Receiver!Open, Receiver!Now, RInv, Heard
  <2>2. todo = <<"open", "publish">> /\ Tail(todo) = <<"publish">>
    BY <2>1, CallsGoOn
  <2>3. (enabled /\ todo' = <<"publish">>) \/ todo' = <<>>
    BY <1>4, <2>2 DEF Receiver!Open, Receiver!Done
  <2>4. todo' \in Calls /\ (enabled \/ todo' # <<"publish">>)
    BY <2>3 DEF Calls
  <2>5. todo # <<"quiet", "close", "forget">> /\ todo # <<"close", "forget">> /\ todo # <<"forget">>
    BY <2>2
  <2>6. thread' \in Threads
    BY <1>4 DEF Receiver!Open, RInv, Heard, Receiver!Started, Receiver!Threads
  <2>7. UNCHANGED <<enabled, ignored, generation, receiver, markers, due>>
    BY <1>4 DEF Receiver!Open
  <2> HIDE DEF Threads
  <2>8. Heard'
    BY <2>4, <2>6, <2>7 DEF RInv, Heard, Threads
  <2> QED
    BY <2>4, <2>5, <2>7, <2>8 DEF RInv, Off, Forgotten, Young
<1>5. CASE Receiver!Publish
  <2>1. todo = <<"publish">> /\ todo' = <<>>
    BY <1>5, CallsGoOn DEF Receiver!Publish, Receiver!Now, Receiver!Done, RInv, Heard
  <2>2. todo' \in Calls /\ todo # <<"quiet", "close", "forget">>
    BY <2>1 DEF Calls
  <2>3. {generation', receiver'} \subseteq 0 .. MaxStarts
    BY <1>5 DEF Receiver!Publish, Receiver!Started, Receiver!Threads
  <2> QED
    BY <1>5, <2>1, <2>2, <2>3 DEF Receiver!Publish, RInv, Heard, Off, Young
<1> QED
  BY <1>1, <1>2, <1>3, <1>4, <1>5 DEF Receiver!MainStep

\* A receive thread.
LEMMA ThreadsStep ==
  ASSUME RInv, NEW g \in 1 .. MaxStarts,
         Receiver!OnPacket(g) \/ Receiver!End(g) \/ \E i \in Trackers : Receiver!Receive(g, i)
  PROVE  RInv'
<1> USE ReceiverConstants
<1>1. CASE Receiver!OnPacket(g)
  <2>1. thread' \in [1 .. MaxStarts -> [state : {"unborn", "reading", "holding", "ended"},
                                    stopped : BOOLEAN, packet : Trackers \cup {None}]]
    BY <1>1 DEF Receiver!OnPacket, RInv, Heard
  <2>2. UNCHANGED <<enabled, ignored, generation, receiver, todo>>
    BY <1>1 DEF Receiver!OnPacket
  <2>3. CASE g = generation
    <3>1. /\ due' = FALSE
          /\ \/ markers' = Receiver!Swept
             \/ \E i : markers' = [Receiver!Swept EXCEPT ![i] = 0]
      BY <1>1, <2>3 DEF Receiver!OnPacket, Receiver!IsCurrent
    <3>2. markers' \in [Trackers -> Ages] /\ Young'
      BY <3>1, Sweeps DEF Ages, Young
    <3>3. g # 0
      BY DEF Ages
    <3> QED
      BY <2>1, <2>2, <2>3, <3>1, <3>2, <3>3 DEF RInv, Heard, Off
  <2>4. CASE g # generation
    BY <1>1, <2>1, <2>2, <2>4 DEF Receiver!OnPacket, Receiver!IsCurrent, RInv, Heard, Off, Young,
      Forgotten
  <2> QED
    BY <2>3, <2>4
<1>2. CASE Receiver!End(g)
  BY ZenonT(60), <1>2 DEF Receiver!End, RInv, Heard, Off, Young, Forgotten
<1>3. ASSUME NEW i \in Trackers, Receiver!Receive(g, i) PROVE RInv'
  <2>1. /\ thread' = [thread EXCEPT ![g] = [@ EXCEPT !.state = "holding", !.packet = i]]
        /\ UNCHANGED <<enabled, ignored, generation, receiver, todo, markers, due>>
    BY <1>3 DEF Receiver!Receive
  <2>2. thread' \in [1 .. MaxStarts -> [state : {"unborn", "reading", "holding", "ended"},
                                        stopped : BOOLEAN, packet : Trackers \cup {None}]]
    BY ZenonT(60), <1>3, <2>1 DEF RInv, Heard
  <2>3. Heard'
    BY <2>1, <2>2 DEF RInv, Heard
  <2> QED
    BY <2>1, <2>3 DEF RInv, Off, Young, Forgotten
<1> QED
  BY <1>1, <1>2, <1>3

\* A reader, and time.
LEMMA ReaderStep == ASSUME RInv, Receiver!GetMarker \/ Receiver!Tick PROVE RInv'
<1>1. UNCHANGED <<enabled, ignored, generation, receiver, thread, todo>>
  BY DEF Receiver!GetMarker, Receiver!Tick
<1>2. due' \in BOOLEAN /\ markers' \in [Trackers -> Ages] /\ (Forgotten => Forgotten')
  <2>1. CASE Receiver!GetMarker
    BY <2>1, Sweeps DEF Receiver!GetMarker, Forgotten
  <2>2. CASE Receiver!Tick
    BY <2>2, ReceiverConstants DEF Receiver!Tick, RInv, Heard, Ages, Forgotten
  <2> QED
    BY <2>1, <2>2
<1>3. ~due' => Young'
  BY Sweeps DEF Receiver!GetMarker, Receiver!Tick, Young
<1>4. Heard'
  BY Zenon, <1>1, <1>2 DEF RInv, Heard
<1>5. ~enabled' => Off'
  BY Zenon, <1>1, <1>2 DEF RInv, Off
<1> QED
  BY Zenon, <1>3, <1>4, <1>5 DEF RInv

LEMMA ReceiverNext == RInv /\ [Receiver!Next]_(Receiver!vars) => RInv'
<1> SUFFICES ASSUME RInv, [Receiver!Next]_(Receiver!vars) PROVE RInv'
  OBVIOUS
<1>1. CASE Receiver!Next
  BY <1>1, OrderStep, MainLoopStep, ThreadsStep, ReaderStep DEF Receiver!Next, Receiver!Threads
<1>2. CASE UNCHANGED Receiver!vars
  BY <1>2 DEF Receiver!vars, RInv, Heard, Off, Young, Forgotten
<1> QED
  BY <1>1, <1>2

\* What a reader gets of an input that is on and at rest.
LEMMA ReaderGets ==
  ASSUME RInv, Receiver!GetMarker, todo = <<>>, NEW i \in Trackers, markers'[i] # None
  PROVE  enabled /\ markers'[i] <= Ttl
BY ReceiverConstants, Sweeps
   DEF Receiver!GetMarker, RInv, Off

\* A reader gets a marker only while the input is on, and one heard within
\* its time to live.
THEOREM ReadersGetWhatIsHeard == Receiver!Spec => ReadsWhatIsHeard
<1>1. Receiver!Init => RInv
  BY ReceiverInit
<1>2. RInv /\ [Receiver!Next]_(Receiver!vars) => RInv'
  BY ReceiverNext
<1>3. RInv => (Receiver!GetMarker /\ todo = <<>> =>
                 \A i \in Trackers : markers'[i] # None => enabled /\ markers'[i] <= Ttl)
  BY ReaderGets
<1> QED
  BY <1>1, <1>2, <1>3, PTL DEF Receiver!Spec, ReadsWhatIsHeard, Receiver!ReadsWhatIsHeard

\* PSN input's variables keep their types.
THEOREM ReceiverTypeCorrect == Receiver!Spec => []Receiver!TypeOK
<1> QED
  BY ReceiverInit, ReceiverNext, HeardIsTypeOK, PTL DEF Receiver!Spec

-----------------------------------------------------------------------------
(* The catalog's send thread.                                              *)

\* A set of naturals has a least one.
LEMMA Least == ASSUME NEW S, S \subseteq Nat, S # {} PROVE \E x \in S : \A y \in S : x <= y
<1> DEFINE Less == OpToRel(<, Nat)
<1>1. IsWellFoundedOn(Less, Nat)
  BY NatLessThanWellFounded
<1>2. \A x, y \in Nat : <<x, y>> \in Less <=> x < y
  BY DEF OpToRel
<1> HIDE DEF Less
<1>3. PICK x \in S : \A y \in S : ~ (<<y, x>> \in Less)
  BY <1>1, WFMin
<1>4. ASSUME NEW y \in S PROVE x <= y
  <2>1. x \in Nat /\ y \in Nat /\ ~ (<<y, x>> \in Less)
    BY <1>3
  <2>2. ~ (y < x)
    BY <1>2, <2>1
  <2> QED
    BY <2>1, <2>2
<1> QED
  BY <1>4

\* The count of an instance is the library's.
LEMMA SameCount ==
  ASSUME NEW S
  PROVE  Sender!Cardinality(S) = Cardinality(S) /\ Sender!IsFiniteSet(S) = IsFiniteSet(S)
BY Zenon DEF Sender!Cardinality, Cardinality, Sender!IsFiniteSet, IsFiniteSet

LEMMA SenderConstants ==
  /\ MarkerIds \subseteq Nat /\ 0 \notin MarkerIds /\ IsFiniteSet(MarkerIds)
  /\ EntrySize \in [MarkerIds -> Nat] /\ \A i \in MarkerIds : EntrySize[i] > 0
  /\ Separator \in Nat /\ Rooms \subseteq Nat
  /\ MaxChunks \in Nat /\ MaxChunks > 0 /\ MaxEdits \in Nat /\ MaxEdits > 0
  /\ MaxFailures \in Nat /\ None \notin MarkerIds
<1>1. Sender!CatalogSenderAssumption
  BY NetworkAssumption
<1>2. IsFiniteSet(MarkerIds)
  BY Zenon, <1>1, SameCount DEF Sender!CatalogSenderAssumption
<1> QED
  BY <1>1, <1>2 DEF Sender!CatalogSenderAssumption

\* An entry as it is sent.
Entry == [id : MarkerIds, version : 0 .. MaxEdits]

\* Steps taken one after the other, each on what the one before it leaves: there
\* is a function of what they leave.
Steps(N, S) == [1 .. N -> [S -> S]]
Goes(f, N, S, start, F) ==
  f \in [0 .. N -> S] /\ f[0] = start /\ \A n \in 1 .. N : f[n] = F[n][f[n - 1]]

LEMMA Iterates ==
  ASSUME NEW N \in Nat, NEW S, NEW start \in S, NEW F \in Steps(N, S)
  PROVE  \E f : Goes(f, N, S, start, F)
<1> USE DEF Steps
<1> DEFINE Good(m, f) == f[0] = start /\ \A n \in 1 .. m : f[n] = F[n][f[n - 1]]
           Bad == {m \in 0 .. N : ~ \E f \in [0 .. m -> S] : Good(m, f)}
<1>1. Bad = {}
  <2> SUFFICES ASSUME Bad # {} PROVE FALSE
    OBVIOUS
  <2>1. Bad \subseteq Nat
    OBVIOUS
  <2>2. PICK m \in Bad : \A y \in Bad : m <= y
    BY <2>1, Least
  <2>3. m # 0
    <3>1. [i \in 0 .. 0 |-> start] \in [0 .. 0 -> S] /\ Good(0, [i \in 0 .. 0 |-> start])
      OBVIOUS
    <3> HIDE DEF Good
    <3> QED
      BY <3>1
  <2>4. m \in 1 .. N /\ m - 1 \in 0 .. N
    BY <2>2, <2>3
  <2>5. m - 1 \notin Bad
    <3> HIDE DEF Bad
    <3> QED
      BY <2>2, <2>4
  <2>6. PICK f \in [0 .. m - 1 -> S] : Good(m - 1, f)
    BY <2>4, <2>5
  <2> DEFINE g == [i \in 0 .. m |-> IF i = m THEN F[m][f[m - 1]] ELSE f[i]]
  <2>7. F[m][f[m - 1]] \in S
    <3>1. F[m] \in [S -> S] /\ f[m - 1] \in S
      BY <2>4, <2>6
    <3> QED
      BY <3>1
  <2>8. g \in [0 .. m -> S]
    BY <2>4, <2>6, <2>7
  <2>9. g[0] = start
    BY <2>4, <2>6
  <2>10. ASSUME NEW n \in 1 .. m PROVE g[n] = F[n][g[n - 1]]
    <3>1. n - 1 \in 0 .. m /\ n - 1 # m /\ g[n - 1] = f[n - 1]
      BY <2>4
    <3>2. CASE n = m
      BY <3>1, <3>2
    <3>3. CASE n # m
      <4>1. n \in 1 .. m - 1 /\ g[n] = f[n]
        BY <2>4, <3>3
      <4> QED
        BY <2>6, <3>1, <4>1
    <3> QED
      BY <3>2, <3>3
  <2>11. Good(m, g)
    BY <2>9, <2>10
  <2> HIDE DEF g, Good
  <2> QED
    BY <2>2, <2>8, <2>11
<1>2. N \notin Bad
  BY <1>1
<1> QED
  BY <1>2 DEF Goes

-----------------------------------------------------------------------------
(* The entries in the order of their ids.                                  *)

Rank(T, i) == Cardinality({j \in T : j < i})

\* Ranks number the members of a finite set of naturals in their order.
LEMMA RanksAre ==
  ASSUME NEW T, T \subseteq Nat, IsFiniteSet(T)
  PROVE  /\ Cardinality(T) \in Nat
         /\ \A i \in T : Rank(T, i) \in 0 .. Cardinality(T) - 1
         /\ \A i, j \in T : i < j <=> Rank(T, i) < Rank(T, j)
<1> DEFINE Below(i) == {j \in T : j < i}
<1>1. Cardinality(T) \in Nat
  BY FS_CardinalityType
<1>2. ASSUME NEW i \in T
      PROVE  IsFiniteSet(Below(i)) /\ Rank(T, i) \in Nat /\ Rank(T, i) < Cardinality(T)
  <2>1. Below(i) \in SUBSET T
    OBVIOUS
  <2>2. i \in T /\ i \notin Below(i)
    OBVIOUS
  <2>3. Rank(T, i) = Cardinality(Below(i))
    BY DEF Rank
  <2> HIDE DEF Below
  <2>4. IsFiniteSet(Below(i)) /\ Cardinality(Below(i)) <= Cardinality(T)
        /\ (Cardinality(T) = Cardinality(Below(i)) => T = Below(i))
    BY <2>1, FS_Subset
  <2>5. Cardinality(Below(i)) \in Nat
    BY <2>4, FS_CardinalityType
  <2>6. Cardinality(Below(i)) # Cardinality(T)
    BY <2>2, <2>4
  <2> QED
    BY <1>1, <2>3, <2>4, <2>5, <2>6
<1>3. ASSUME NEW i \in T, NEW j \in T, i < j PROVE Rank(T, i) < Rank(T, j)
  <2>0. i \in Nat /\ j \in Nat /\ \A k \in T : k \in Nat
    OBVIOUS
  <2>1. Below(i) \in SUBSET Below(j) /\ i \in Below(j) /\ i \notin Below(i)
    <3>1. \A k \in T : k < i => k < j
      BY <1>3, <2>0
    <3>2. i \in Below(j)
      BY <1>3
    <3>3. i \notin Below(i)
      BY <2>0
    <3>4. Below(i) \subseteq Below(j)
      BY Zenon, <3>1
    <3> QED
      BY Zenon, <3>2, <3>3, <3>4
  <2>2. Rank(T, i) = Cardinality(Below(i)) /\ Rank(T, j) = Cardinality(Below(j))
    BY DEF Rank
  <2>3. IsFiniteSet(Below(j))
    BY <1>2
  <2>4. Rank(T, i) \in Nat /\ Rank(T, j) \in Nat
    BY <1>2
  <2> HIDE DEF Below
  <2>5. Cardinality(Below(i)) <= Cardinality(Below(j))
        /\ (Cardinality(Below(j)) = Cardinality(Below(i)) => Below(j) = Below(i))
    BY <2>1, <2>3, FS_Subset
  <2> QED
    BY <2>1, <2>2, <2>4, <2>5
<1>4. ASSUME NEW i \in T, NEW j \in T, Rank(T, i) < Rank(T, j) PROVE i < j
  <2>1. i \in Nat /\ j \in Nat /\ Rank(T, i) \in Nat /\ Rank(T, j) \in Nat
    BY <1>2
  <2>2. CASE i = j
    BY <1>4, <2>1, <2>2
  <2>3. CASE j < i
    BY <1>3, <1>4, <2>1, <2>3
  <2> QED
    BY <2>1, <2>2, <2>3
<1> HIDE DEF Below
<1>5. ASSUME NEW i \in T PROVE Rank(T, i) \in 0 .. Cardinality(T) - 1
  BY <1>1, <1>2
<1> QED
  BY <1>1, <1>3, <1>4, <1>5

\* Every rank is somebody's.
LEMMA RanksReach ==
  ASSUME NEW T, T \subseteq Nat, IsFiniteSet(T), NEW k \in 1 .. Cardinality(T)
  PROVE  \E i \in T : Rank(T, i) = k - 1
<1> DEFINE n == Cardinality(T)
           f == [i \in T |-> Rank(T, i) + 1]
<1>1. /\ n \in Nat
      /\ \A i \in T : Rank(T, i) \in 0 .. n - 1
      /\ \A i, j \in T : i < j <=> Rank(T, i) < Rank(T, j)
  BY Zenon, RanksAre
<1>2. f \in [T -> 1 .. n]
  <2>1. \A i \in T : Rank(T, i) + 1 \in 1 .. n
    BY <1>1
  <2> QED
    BY <2>1
<1>3. \A i, j \in T : f[i] = f[j] => i = j
  <2> SUFFICES ASSUME NEW i \in T, NEW j \in T, f[i] = f[j] PROVE i = j
    OBVIOUS
  <2>1. Rank(T, i) \in Nat /\ Rank(T, j) \in Nat
    BY <1>1
  <2>2. Rank(T, i) = Rank(T, j)
    BY <2>1
  <2>3. ~ (i < j) /\ ~ (j < i)
    BY <1>1, <2>1, <2>2
  <2> QED
    BY <2>3
<1>4. IsFiniteSet(1 .. n) /\ Cardinality(1 .. n) = n
  BY <1>1, FS_Interval
<1>5. f \in Injection(T, 1 .. n)
  BY <1>2, <1>3 DEF Injection, IsInjective
<1>6. f \in Surjection(T, 1 .. n)
  <2> HIDE DEF f
  <2> QED
    BY <1>4, <1>5, FS_Injection
<1>7. PICK i \in T : f[i] = k
  BY <1>6 DEF Surjection
<1>8. Rank(T, i) \in Nat /\ k \in Nat
  BY <1>1
<1> QED
  BY <1>7, <1>8

\* What the catalog has of the ids in S: Entries, of a given catalog.
Having(v, S) == S \cap {i \in MarkerIds : v[i] # 0}
Nth(T, k) == CHOOSE i \in T : Rank(T, i) = k - 1
EntriesOf(v, S) ==
  [k \in 1 .. Cardinality(Having(v, S)) |->
     [id |-> Nth(Having(v, S), k), version |-> v[Nth(Having(v, S), k)]]]

LEMMA EntriesIs == ASSUME NEW S PROVE Sender!Entries(S) = EntriesOf(version, S)
<1>1. Having(version, S) = S \cap Sender!Present
  BY DEF Having, Sender!Present
<1>2. \A T : Sender!Cardinality(T) = Cardinality(T)
  BY SameCount
<1> QED
  BY Zenon, <1>1, <1>2 DEF Sender!Entries, EntriesOf, Nth, Rank

\* They are those entries, each once, by their ids.
LEMMA EntriesAre ==
  ASSUME NEW v \in [MarkerIds -> 0 .. MaxEdits], NEW S \in SUBSET MarkerIds
  PROVE  /\ EntriesOf(v, S) \in Seq(Entry)
         /\ \A k \in DOMAIN EntriesOf(v, S) :
              LET e == EntriesOf(v, S)[k]
              IN  e.id \in S /\ v[e.id] # 0 /\ e.version = v[e.id]
         /\ \A k, l \in DOMAIN EntriesOf(v, S) :
              k < l => EntriesOf(v, S)[k].id < EntriesOf(v, S)[l].id
         /\ \A i \in S : v[i] # 0 => \E k \in DOMAIN EntriesOf(v, S) : EntriesOf(v, S)[k].id = i
<1> DEFINE T == Having(v, S)
           n == Cardinality(T)
           E == EntriesOf(v, S)
<1>1. T \in SUBSET MarkerIds /\ T \subseteq Nat /\ T \subseteq S
  BY SenderConstants DEF Having
<1>2. IsFiniteSet(T)
  BY <1>1, SenderConstants, FS_Subset
<1>3. n \in Nat
  BY <1>2, FS_CardinalityType
<1> HIDE DEF T
<1>4. ASSUME NEW k \in 1 .. n PROVE Nth(T, k) \in T /\ Rank(T, Nth(T, k)) = k - 1
  <2>1. \E i \in T : Rank(T, i) = k - 1
    BY <1>1, <1>2, RanksReach
  <2> QED
    BY <2>1 DEF Nth
<1>5. E = [k \in 1 .. n |-> [id |-> Nth(T, k), version |-> v[Nth(T, k)]]]
  BY Zenon DEF EntriesOf, T
<1> HIDE DEF E, n
<1>6. \A k \in 1 .. n : E[k].id = Nth(T, k) /\ E[k].version = v[Nth(T, k)] /\ E[k] \in Entry
  BY <1>1, <1>4, <1>5 DEF Entry
<1>7. DOMAIN E = 1 .. n /\ E \in Seq(Entry)
  BY <1>3, <1>5, <1>6
<1>8. \A i \in T : i \in S /\ v[i] # 0
  BY DEF T, Having
<1>11. /\ \A i \in T : Rank(T, i) \in 0 .. n - 1
       /\ \A i, j \in T : i < j <=> Rank(T, i) < Rank(T, j)
  BY Zenon, <1>1, <1>2, RanksAre DEF n
<1>9. ASSUME NEW k \in 1 .. n, NEW l \in 1 .. n, k < l PROVE E[k].id < E[l].id
  <2>1. Rank(T, Nth(T, k)) < Rank(T, Nth(T, l))
    BY <1>3, <1>4, <1>9
  <2>2. Nth(T, k) < Nth(T, l)
    BY <1>4, <1>11, <2>1
  <2> QED
    BY <1>6, <2>2
<1>10. ASSUME NEW i \in S, v[i] # 0 PROVE \E k \in 1 .. n : E[k].id = i
  <2>1. i \in T
    BY <1>10 DEF T, Having
  <2> DEFINE r == Rank(T, i)
  <2>2. r \in 0 .. n - 1
    BY <1>11, <2>1
  <2>3. r + 1 \in 1 .. n /\ (r + 1) - 1 = r
    BY <1>3, <2>2
  <2>4. Nth(T, r + 1) \in T /\ Rank(T, Nth(T, r + 1)) = Rank(T, i)
    BY <1>4, <2>3
  <2>5. ~ (Nth(T, r + 1) < i) /\ ~ (i < Nth(T, r + 1))
    BY <1>11, <2>1, <2>2, <2>4
  <2>6. Nth(T, r + 1) = i
    <3>1. Nth(T, r + 1) \in Nat /\ i \in Nat
      BY <1>1, <2>1, <2>4
    <3> HIDE DEF r
    <3> QED
      BY <2>5, <3>1
  <2> QED
    BY <1>6, <2>3, <2>6
<1> QED
  BY ZenonT(60), <1>4, <1>6, <1>7, <1>8, <1>9, <1>10 DEF E


-----------------------------------------------------------------------------
(* The order of a heartbeat: around the entries, from above the cursor.     *)

UpTo(E, c) == {n \in DOMAIN E : E[n].id <= c}
Rotated(E, s) == SubSeq(E, s + 1, Len(E)) \o SubSeq(E, 1, s)
OrderOf(c, E) == Rotated(E, Cardinality(UpTo(E, c)))

LEMMA HeartbeatOrderIs == ASSUME NEW E PROVE Sender!HeartbeatOrder(E) = OrderOf(cursor, E)
<1>1. \A T : Sender!Cardinality(T) = Cardinality(T)
  BY SameCount
<1> QED
  BY Zenon, <1>1 DEF Sender!HeartbeatOrder, OrderOf, Rotated, UpTo

LEMMA RotatedIs ==
  ASSUME NEW E \in Seq(Entry), NEW s \in 0 .. Len(E)
  PROVE  /\ Rotated(E, s) \in Seq(Entry) /\ Len(Rotated(E, s)) = Len(E)
         /\ \A x \in 1 .. Len(E) :
              Rotated(E, s)[x] = IF x <= Len(E) - s THEN E[s + x] ELSE E[x - (Len(E) - s)]
<1> DEFINE A == SubSeq(E, s + 1, Len(E))
           B == SubSeq(E, 1, s)
<1>1. A \in Seq(Entry) /\ Len(A) = Len(E) - s /\ \A x \in 1 .. Len(A) : A[x] = E[s + x]
  OBVIOUS
<1>2. B \in Seq(Entry) /\ Len(B) = s /\ \A x \in 1 .. s : B[x] = E[x]
  OBVIOUS
<1>3. Rotated(E, s) = A \o B
  BY DEF Rotated
<1> HIDE DEF A, B
<1>4. /\ A \o B \in Seq(Entry) /\ Len(A \o B) = Len(A) + Len(B)
      /\ \A x \in 1 .. Len(A) + Len(B) :
           (A \o B)[x] = IF x <= Len(A) THEN A[x] ELSE B[x - Len(A)]
  BY <1>1, <1>2, ConcatProperties
<1>5. Len(A) + Len(B) = Len(E)
  BY <1>1, <1>2
<1>6. ASSUME NEW x \in 1 .. Len(E)
      PROVE  (A \o B)[x] = IF x <= Len(E) - s THEN E[s + x] ELSE E[x - (Len(E) - s)]
  <2>1. CASE x <= Len(E) - s
    BY <1>1, <1>4, <1>5, <2>1
  <2>2. CASE ~ (x <= Len(E) - s)
    <3>1. x - Len(A) \in 1 .. s
      BY <1>1, <2>2
    <3> QED
      BY <1>1, <1>2, <1>4, <1>5, <2>2, <3>1
  <2> QED
    BY <2>1, <2>2
<1> QED
  BY <1>3, <1>4, <1>5, <1>6

\* What is in the order of the ids.
Sorted(E) == \A k, l \in DOMAIN E : k < l => E[k].id < E[l].id

LEMMA UpToIs ==
  ASSUME NEW E \in Seq(Entry), NEW c \in Nat
  PROVE  /\ Cardinality(UpTo(E, c)) \in 0 .. Len(E)
         /\ \A r \in 1 .. Len(E) : Sorted(E) /\ E[r].id = c => Cardinality(UpTo(E, c)) = r
<1>1. UpTo(E, c) \in SUBSET (1 .. Len(E)) /\ Len(E) \in Nat
  BY DEF UpTo
<1>2. IsFiniteSet(1 .. Len(E)) /\ Cardinality(1 .. Len(E)) = Len(E)
  <2>1. IsFiniteSet(1 .. Len(E))
        /\ Cardinality(1 .. Len(E)) = IF 1 > Len(E) THEN 0 ELSE Len(E) - 1 + 1
    <3>1. 1 \in Int /\ Len(E) \in Int
      BY <1>1
    <3> QED
      BY Zenon, <3>1, FS_Interval
  <2> QED
    BY <1>1, <2>1
<1>3. IsFiniteSet(UpTo(E, c)) /\ Cardinality(UpTo(E, c)) <= Len(E)
  BY <1>1, <1>2, FS_Subset
<1>4. Cardinality(UpTo(E, c)) \in Nat
  BY <1>3, FS_CardinalityType
<1>5. ASSUME NEW r \in 1 .. Len(E), Sorted(E), E[r].id = c
      PROVE  Cardinality(UpTo(E, c)) = r
  <2>1. ASSUME NEW n \in 1 .. Len(E) PROVE E[n].id \in Nat
    <3>1. E[n] \in Entry
      OBVIOUS
    <3> QED
      BY <3>1, SenderConstants DEF Entry
  <2>2. \A n \in 1 .. Len(E) : E[n].id <= c <=> n <= r
    <3> SUFFICES ASSUME NEW n \in 1 .. Len(E) PROVE E[n].id <= c <=> n <= r
      OBVIOUS
    <3>1. n < r => E[n].id < E[r].id
      BY <1>5 DEF Sorted
    <3>2. r < n => E[r].id < E[n].id
      BY <1>5 DEF Sorted
    <3> QED
      BY <1>5, <2>1, <3>1, <3>2
  <2>3. UpTo(E, c) = 1 .. r
    <3>1. UpTo(E, c) = {n \in 1 .. Len(E) : E[n].id <= c}
      BY DEF UpTo
    <3> QED
      BY <1>1, <2>2, <3>1
  <2>4. Cardinality(1 .. r) = r
    BY FS_Interval
  <2> QED
    BY <2>3, <2>4
<1> QED
  BY <1>1, <1>3, <1>4, <1>5

\* What follows an entry in one order begins the order from that entry.
LEMMA Resumes ==
  ASSUME NEW E \in Seq(Entry), Sorted(E), NEW c \in Nat, NEW p \in 1 .. Len(E)
  PROVE  LET O == OrderOf(c, E)
         IN  /\ O \in Seq(Entry) /\ Len(O) = Len(E)
             /\ OrderOf(O[p].id, E) \in Seq(Entry) /\ Len(OrderOf(O[p].id, E)) = Len(E)
             /\ \A x \in 1 .. Len(E) - p : OrderOf(O[p].id, E)[x] = O[p + x]
<1> DEFINE N == Len(E)
           s == Cardinality(UpTo(E, c))
           O == Rotated(E, s)
           r == IF p <= N - s THEN s + p ELSE p - (N - s)
<1>1. N \in Nat /\ s \in 0 .. N
  BY UpToIs
<1>2. /\ O \in Seq(Entry) /\ Len(O) = N
      /\ \A x \in 1 .. N : O[x] = IF x <= N - s THEN E[s + x] ELSE E[x - (N - s)]
  BY Zenon, <1>1, RotatedIs
<1> HIDE DEF s, O
<1>3. r \in 1 .. N /\ O[p] = E[r]
  BY <1>1, <1>2
<1>4. E[r].id \in Nat
  <2>1. E[r] \in Entry
    BY <1>3
  <2> QED
    BY <2>1, SenderConstants DEF Entry
<1> DEFINE d == E[r].id
<1>5. Cardinality(UpTo(E, d)) = r
  <2> HIDE DEF r
  <2> QED
    BY <1>3, <1>4, UpToIs
<1>6. OrderOf(d, E) = Rotated(E, r)
  BY Zenon, <1>5 DEF OrderOf
<1>7. /\ Rotated(E, r) \in Seq(Entry) /\ Len(Rotated(E, r)) = N
      /\ \A x \in 1 .. N : Rotated(E, r)[x] = IF x <= N - r THEN E[r + x] ELSE E[x - (N - r)]
  <2> HIDE DEF r
  <2>1. r \in 0 .. N
    BY <1>3
  <2> QED
    BY Zenon, <2>1, RotatedIs
<1>8. ASSUME NEW x \in 1 .. N - p PROVE Rotated(E, r)[x] = O[p + x]
  <2>1. p + x \in 1 .. N /\ x \in 1 .. N
    BY <1>1
  <2>2. CASE p <= N - s
    <3>1. r = s + p
      BY <2>2
    <3>2. CASE p + x <= N - s
      <4>1. x <= N - r /\ r + x = s + (p + x)
        BY <1>1, <3>1, <3>2
      <4> QED
        BY <1>2, <1>7, <2>1, <3>2, <4>1
    <3>3. CASE ~ (p + x <= N - s)
      <4>1. ~ (x <= N - r) /\ x - (N - r) = (p + x) - (N - s)
        BY <1>1, <3>1, <3>3
      <4> QED
        BY <1>2, <1>7, <2>1, <3>3, <4>1
    <3> QED
      BY <3>2, <3>3
  <2>3. CASE ~ (p <= N - s)
    <3>1. r = p - (N - s)
      BY <2>3
    <3>2. x <= N - r /\ ~ (p + x <= N - s) /\ (p + x) - (N - s) = r + x
      BY <1>1, <2>3, <3>1
    <3> QED
      BY <1>2, <1>7, <2>1, <3>2
  <2> QED
    BY <2>2, <2>3
<1>9. OrderOf(c, E) = O
  BY Zenon DEF OrderOf, O, s
<1>10. OrderOf(O[p].id, E) = Rotated(E, r)
  BY Zenon, <1>3, <1>6
<1> HIDE DEF r
<1> QED
  BY <1>2, <1>7, <1>8, <1>9, <1>10


-----------------------------------------------------------------------------
(* Cutting entries into datagrams.                                         *)

Chunks == Seq(Seq(Entry))
Full(r, c, e) == ~ (Sender!Length(Append(c, e)) <= r)

\* Put in a datagram with the room r.
PutIn(r, chunks, e) ==
  CASE EntrySize[e.id] > r -> chunks
    [] EntrySize[e.id] <= r /\ chunks # <<>>
         /\ Sender!Length(Append(chunks[Len(chunks)], e)) <= r ->
         [chunks EXCEPT ![Len(chunks)] = Append(@, e)]
    [] OTHER -> Append(chunks, <<e>>)

\* What Cut has after each entry.
CutTo(r, s) ==
  CHOOSE f : f = [n \in 0 .. Len(s) |-> IF n = 0 THEN <<>> ELSE PutIn(r, f[n - 1], s[n])]

LEMMA CutIs == ASSUME NEW s PROVE Sender!Cut(s) = CutTo(room, s)[Len(s)]
BY Zenon DEF Sender!Cut, CutTo, PutIn, Sender!Put, Sender!Fits

\* An entry is left out, goes into the last datagram or begins one.
LeftOut(r, c, e, d) == EntrySize[e.id] > r /\ d = c
Joins(r, c, e, d) ==
  /\ EntrySize[e.id] <= r /\ Len(c) > 0 /\ ~ Full(r, c[Len(c)], e)
  /\ Len(d) = Len(c) /\ d[Len(c)] = Append(c[Len(c)], e)
  /\ \A k \in 1 .. Len(c) : k # Len(c) => d[k] = c[k]
Begins(r, c, e, d) ==
  /\ EntrySize[e.id] <= r /\ (Len(c) > 0 => Full(r, c[Len(c)], e))
  /\ Len(d) = Len(c) + 1 /\ d[Len(c) + 1] = <<e>>
  /\ \A k \in 1 .. Len(c) : d[k] = c[k]

LEMMA PutIs ==
  ASSUME NEW r \in Nat, NEW c \in Chunks, NEW e \in Entry
  PROVE  LET d == PutIn(r, c, e)
         IN  d \in Chunks /\ (LeftOut(r, c, e, d) \/ Joins(r, c, e, d) \/ Begins(r, c, e, d))
<1> DEFINE d == PutIn(r, c, e)
<1>1. EntrySize[e.id] \in Nat
  BY SenderConstants DEF Entry
<1>2. Len(c) \in Nat /\ (c # <<>> <=> Len(c) > 0)
  BY DEF Chunks
<1>3. CASE EntrySize[e.id] > r
  <2>0. ~ (EntrySize[e.id] <= r)
    BY <1>1, <1>3
  <2>1. d = c
    BY Zenon, <1>3, <2>0 DEF PutIn
  <2> QED
    BY <1>3, <2>1 DEF LeftOut
<1>4. CASE EntrySize[e.id] <= r /\ Len(c) > 0 /\ ~ Full(r, c[Len(c)], e)
  <2>1. ~ (EntrySize[e.id] > r)
    BY <1>1, <1>4
  <2>2. d = [c EXCEPT ![Len(c)] = Append(c[Len(c)], e)]
    BY Zenon, <1>2, <1>4, <2>1 DEF PutIn, Full
  <2>3. c[Len(c)] \in Seq(Entry)
    BY <1>2, <1>4 DEF Chunks
  <2>4. Append(c[Len(c)], e) \in Seq(Entry)
    BY <2>3
  <2> DEFINE b == Append(c[Len(c)], e)
  <2>5. d = [c EXCEPT ![Len(c)] = b]
    BY <2>2
  <2> HIDE DEF b, d
  <2>6. d \in Chunks /\ Len(d) = Len(c) /\ d[Len(c)] = b
        /\ \A k \in 1 .. Len(c) : k # Len(c) => d[k] = c[k]
    BY <1>2, <1>4, <2>4, <2>5 DEF Chunks, b
  <2> QED
    BY Zenon, <1>4, <2>6 DEF Joins, b, d
<1>5. CASE EntrySize[e.id] <= r /\ (Len(c) > 0 => Full(r, c[Len(c)], e))
  <2>1. ~ (EntrySize[e.id] > r)
    BY <1>1, <1>5
  <2>2. d = Append(c, <<e>>)
    BY Zenon, <1>2, <1>5, <2>1 DEF PutIn, Full
  <2>3. <<e>> \in Seq(Entry)
    OBVIOUS
  <2> HIDE DEF d
  <2>4. d \in Chunks /\ Len(d) = Len(c) + 1 /\ d[Len(c) + 1] = <<e>>
        /\ \A k \in 1 .. Len(c) : d[k] = c[k]
    BY <1>2, <2>2, <2>3 DEF Chunks
  <2> QED
    BY Zenon, <1>5, <2>4 DEF Begins, d
<1> QED
  BY <1>1, <1>3, <1>4, <1>5

LEMMA CutSteps ==
  ASSUME NEW r \in Nat, NEW s \in Seq(Entry)
  PROVE  /\ CutTo(r, s) \in [0 .. Len(s) -> Chunks]
         /\ CutTo(r, s)[0] = <<>>
         /\ \A n \in 1 .. Len(s) : CutTo(r, s)[n] = PutIn(r, CutTo(r, s)[n - 1], s[n])
<1> DEFINE N == Len(s)
           F == [n \in 1 .. N |-> [c \in Chunks |-> PutIn(r, c, s[n])]]
           Cuts(f) == f = [n \in 0 .. N |-> IF n = 0 THEN <<>> ELSE PutIn(r, f[n - 1], s[n])]
<1>1. N \in Nat /\ <<>> \in Chunks /\ \A n \in 1 .. N : s[n] \in Entry
  BY DEF Chunks
<1>2. F \in [1 .. N -> [Chunks -> Chunks]]
  <2>1. ASSUME NEW n \in 1 .. N, NEW c \in Chunks PROVE PutIn(r, c, s[n]) \in Chunks
    BY Zenon, <1>1, PutIs
  <2> QED
    BY <2>1
<1>3. PICK g \in [0 .. N -> Chunks] : g[0] = <<>> /\ \A n \in 1 .. N : g[n] = F[n][g[n - 1]]
  <2>1. F \in Steps(N, Chunks)
    BY <1>2 DEF Steps
  <2> HIDE DEF F, N
  <2>2. \E f : Goes(f, N, Chunks, <<>>, F)
    BY Zenon, <1>1, <2>1, Iterates
  <2> QED
    BY <2>2 DEF Goes
<1>4. Cuts(g)
  <2>1. ASSUME NEW n \in 1 .. N PROVE g[n] = PutIn(r, g[n - 1], s[n])
    <3>1. g[n - 1] \in Chunks
      BY <1>1, <1>3
    <3>2. F[n][g[n - 1]] = PutIn(r, g[n - 1], s[n])
      BY <3>1
    <3> QED
      BY <1>3, <3>2
  <2>2. ASSUME NEW n \in 0 .. N
        PROVE  g[n] = IF n = 0 THEN <<>> ELSE PutIn(r, g[n - 1], s[n])
    BY <1>1, <1>3, <2>1
  <2>3. g = [n \in 0 .. N |-> g[n]]
    BY <1>3
  <2> QED
    BY Zenon, <2>2, <2>3
<1> DEFINE f == CutTo(r, s)
<1>5. Cuts(f)
  <2>1. f = CHOOSE h : Cuts(h)
    BY Zenon DEF CutTo
  <2> HIDE DEF Cuts, f
  <2> QED
    BY Zenon, <1>4, <2>1
<1> HIDE DEF f
<1>6. DOMAIN f = 0 .. N /\ f[0] = <<>> /\ \A n \in 1 .. N : f[n] = PutIn(r, f[n - 1], s[n])
  BY <1>1, <1>5
<1>7. \A n \in 0 .. N : f[n] \in Chunks
  <2> DEFINE Bad == {n \in 0 .. N : f[n] \notin Chunks}
  <2> SUFFICES ASSUME Bad # {} PROVE FALSE
    OBVIOUS
  <2>1. PICK m \in Bad : \A y \in Bad : m <= y
    <3>1. Bad \subseteq Nat
      OBVIOUS
    <3> HIDE DEF Bad
    <3> QED
      BY <3>1, Least
  <2>2. m \in 1 .. N /\ m - 1 \in 0 .. N
    BY <1>1, <1>6, <2>1
  <2>3. m - 1 \notin Bad
    <3> HIDE DEF Bad
    <3> QED
      BY <2>1, <2>2
  <2>4. f[m - 1] \in Chunks
    BY <2>2, <2>3
  <2>5. f[m] \in Chunks
    BY Zenon, <1>1, <1>6, <2>2, <2>4, PutIs
  <2> QED
    BY <2>1, <2>5
<1>8. f \in [0 .. N -> Chunks]
  <2>1. f = [n \in 0 .. N |-> f[n]]
    BY <1>5
  <2> QED
    BY <1>7, <2>1
<1> QED
  BY Zenon, <1>6, <1>8 DEF f

\* A datagram of one entry is as long as the entry.
LEMMA LengthOfOne == ASSUME NEW e \in Entry PROVE Sender!Length(<<e>>) = EntrySize[e.id]
<1> DEFINE c == <<e>>
           Uses(u) == u = [n \in 0 .. Len(c) |-> IF n = 0 THEN 0 ELSE u[n - 1] + EntrySize[c[n].id]]
           g == [n \in 0 .. 1 |-> IF n = 0 THEN 0 ELSE EntrySize[e.id]]
           u == CHOOSE h : Uses(h)
<1>1. EntrySize[e.id] \in Nat /\ Len(c) = 1 /\ c[1] = e
  BY SenderConstants DEF Entry
<1>2. Uses(g)
  <2> HIDE DEF c
  <2>1. \A n \in 0 .. 1 : n = 0 \/ (n = 1 /\ n - 1 = 0)
    OBVIOUS
  <2>2. \A n \in 0 .. 1 :
          (IF n = 0 THEN 0 ELSE EntrySize[e.id]) = IF n = 0 THEN 0 ELSE g[n - 1] + EntrySize[c[n].id]
    BY <1>1, <2>1
  <2> QED
    BY <1>1, <2>2
<1>3. Uses(u)
  <2> HIDE DEF Uses
  <2> QED
    BY Zenon, <1>2
<1>4. Sender!Length(c) = u[Len(c)] + Separator * (Len(c) - 1)
  BY Zenon DEF Sender!Length
<1> HIDE DEF u
<1>5. u[1] = u[0] + EntrySize[e.id] /\ u[0] = 0
  <2> HIDE DEF c
  <2> QED
    BY <1>1, <1>3
<1>6. Sender!Length(c) = EntrySize[e.id] + Separator * 0
  <2> HIDE DEF c
  <2> QED
    BY <1>1, <1>4, <1>5
<1> QED
  BY <1>1, <1>6, SenderConstants


\* What has been cut stays: only the last datagram may still be added to.
Starts(x, y) == Len(x) <= Len(y) /\ \A j \in 1 .. Len(x) : y[j] = x[j]
Grows(a, b) ==
  /\ Len(a) <= Len(b)
  /\ \A k \in 1 .. Len(a) : k # Len(a) => b[k] = a[k]
  /\ Len(a) > 0 => Starts(a[Len(a)], b[Len(a)])

LEMMA ChunkOf ==
  ASSUME NEW c \in Chunks
  PROVE  Len(c) \in Nat /\ \A k \in 1 .. Len(c) : c[k] \in Seq(Entry) /\ Len(c[k]) \in Nat
BY DEF Chunks

LEMMA PutGrows ==
  ASSUME NEW r \in Nat, NEW c \in Chunks, NEW e \in Entry
  PROVE  Grows(c, PutIn(r, c, e)) /\ Len(PutIn(r, c, e)) <= Len(c) + 1
<1> DEFINE d == PutIn(r, c, e)
<1>1. d \in Chunks /\ (LeftOut(r, c, e, d) \/ Joins(r, c, e, d) \/ Begins(r, c, e, d))
  BY Zenon, PutIs
<1> SUFFICES Grows(c, d) /\ Len(d) <= Len(c) + 1
  BY Zenon
<1> HIDE DEF d
<1>2. Len(c) \in Nat /\ (Len(c) > 0 => c[Len(c)] \in Seq(Entry) /\ Len(c[Len(c)]) \in Nat)
  BY ChunkOf
<1>3. CASE LeftOut(r, c, e, d)
  BY <1>2, <1>3 DEF LeftOut, Grows, Starts
<1>4. CASE Joins(r, c, e, d)
  <2>1. Starts(c[Len(c)], Append(c[Len(c)], e))
    <3>1. Len(c) > 0
      BY <1>4 DEF Joins
    <3> QED
      BY <1>2, <3>1 DEF Starts
  <2> QED
    BY <1>2, <1>4, <2>1 DEF Joins, Grows
<1>5. CASE Begins(r, c, e, d)
  BY <1>2, <1>5 DEF Begins, Grows, Starts
<1> QED
  BY <1>1, <1>3, <1>4, <1>5

LEMMA GrowsOn ==
  ASSUME NEW a \in Chunks, NEW b \in Chunks, NEW c \in Chunks, Grows(a, b), Grows(b, c)
  PROVE  Grows(a, c)
<1>1. /\ Len(a) \in Nat /\ Len(b) \in Nat /\ Len(c) \in Nat
      /\ Len(a) <= Len(b) /\ Len(b) <= Len(c)
  BY ChunkOf DEF Grows
<1>2. ASSUME NEW k \in 1 .. Len(a), k # Len(a) PROVE c[k] = a[k]
  <2>1. b[k] = a[k]
    BY <1>2 DEF Grows
  <2>2. k \in 1 .. Len(b) /\ k # Len(b)
    BY <1>1, <1>2
  <2> QED
    BY <2>1, <2>2 DEF Grows
<1>3. ASSUME Len(a) > 0 PROVE Starts(a[Len(a)], c[Len(a)])
  <2>1. Starts(a[Len(a)], b[Len(a)])
    BY <1>3 DEF Grows
  <2>2. Len(a) \in 1 .. Len(b)
    BY <1>1, <1>3
  <2>3. CASE Len(a) # Len(b)
    <3>1. c[Len(a)] = b[Len(a)]
      BY <2>2, <2>3 DEF Grows
    <3> QED
      BY <2>1, <3>1
  <2>4. CASE Len(a) = Len(b)
    <3>1. Starts(b[Len(a)], c[Len(a)])
      BY <1>3, <2>4 DEF Grows
    <3>2. Len(a[Len(a)]) \in Nat /\ Len(b[Len(a)]) \in Nat /\ Len(c[Len(a)]) \in Nat
      <4>1. Len(a) \in 1 .. Len(a) /\ Len(a) \in 1 .. Len(c)
        BY <1>1, <1>3
      <4> QED
        BY <2>2, <4>1, ChunkOf
    <3> QED
      BY <2>1, <3>1, <3>2 DEF Starts
  <2> QED
    BY <2>3, <2>4
<1> QED
  BY <1>1, <1>2, <1>3 DEF Grows

LEMMA CutGrows ==
  ASSUME NEW r \in Nat, NEW s \in Seq(Entry), NEW m \in 0 .. Len(s), NEW n \in m .. Len(s)
  PROVE  Grows(CutTo(r, s)[m], CutTo(r, s)[n])
<1> DEFINE f == CutTo(r, s)
           Bad == {i \in m .. Len(s) : ~ Grows(f[m], f[i])}
<1>1. /\ f \in [0 .. Len(s) -> Chunks]
      /\ \A i \in 1 .. Len(s) : f[i] = PutIn(r, f[i - 1], s[i])
  BY Zenon, CutSteps
<1>2. \A i \in 1 .. Len(s) : s[i] \in Entry
  OBVIOUS
<1> HIDE DEF f
<1>3. Grows(f[m], f[m])
  <2>1. f[m] \in Chunks
    BY <1>1
  <2> QED
    BY <2>1, ChunkOf DEF Grows, Starts
<1>4. Bad = {}
  <2> SUFFICES ASSUME Bad # {} PROVE FALSE
    OBVIOUS
  <2>1. Bad \subseteq Nat
    OBVIOUS
  <2>2. PICK x \in Bad : \A y \in Bad : x <= y
    <3> HIDE DEF Bad
    <3> QED
      BY <2>1, Least
  <2>3. x \in m + 1 .. Len(s) /\ ~ Grows(f[m], f[x])
    BY <1>3, <2>2
  <2>4. x - 1 \in m .. Len(s) /\ x \in 1 .. Len(s) /\ x - 1 \in 0 .. Len(s)
    BY <2>3
  <2>5. x - 1 \notin Bad
    <3> HIDE DEF Bad
    <3> QED
      BY <2>2, <2>4
  <2>6. Grows(f[m], f[x - 1])
    BY <2>4, <2>5
  <2>7. f[m] \in Chunks /\ f[x - 1] \in Chunks /\ f[x] \in Chunks
    <3>1. m \in 0 .. Len(s) /\ x - 1 \in 0 .. Len(s) /\ x \in 0 .. Len(s)
      BY <2>4
    <3> QED
      BY Zenon, <1>1, <3>1
  <2>8. Grows(f[x - 1], f[x])
    BY Zenon, <1>1, <1>2, <2>4, <2>7, PutGrows
  <2>9. Grows(f[m], f[x])
    BY Zenon, <2>6, <2>7, <2>8, GrowsOn
  <2> QED
    BY <2>3, <2>9
<1>5. n \notin Bad
  BY <1>4
<1> QED
  BY <1>5 DEF f


\* A datagram has entries, of those it was cut from, and fits.
Sendable(r, s, n, w) ==
  /\ Len(w) > 0 /\ Sender!Length(w) <= r
  /\ \A x \in 1 .. Len(w) : EntrySize[w[x].id] <= r /\ \E m \in 1 .. n : w[x] = s[m]
Holds(r, s, n, c) == \A k \in 1 .. Len(c) : Sendable(r, s, n, c[k])

LEMMA PutHolds ==
  ASSUME NEW r \in Nat, NEW s \in Seq(Entry), NEW n \in 1 .. Len(s), NEW c \in Chunks,
         Holds(r, s, n - 1, c)
  PROVE  Holds(r, s, n, PutIn(r, c, s[n]))
<1> DEFINE e == s[n]
           d == PutIn(r, c, e)
<1>1. e \in Entry /\ n \in Nat /\ n > 0
  OBVIOUS
<1>2. d \in Chunks /\ (LeftOut(r, c, e, d) \/ Joins(r, c, e, d) \/ Begins(r, c, e, d))
  BY Zenon, <1>1, PutIs
<1>3. Len(c) \in Nat /\ \A k \in 1 .. Len(c) : c[k] \in Seq(Entry) /\ Len(c[k]) \in Nat
  BY ChunkOf
<1> SUFFICES Holds(r, s, n, d)
  BY Zenon
<1>4. ASSUME NEW k \in 1 .. Len(c) PROVE Sendable(r, s, n, c[k])
  <2> DEFINE w == c[k]
  <2>1. Sendable(r, s, n - 1, w)
    BY DEF Holds
  <2> HIDE DEF w
  <2>2. ASSUME NEW x \in 1 .. Len(w)
        PROVE  EntrySize[w[x].id] <= r /\ \E m \in 1 .. n : w[x] = s[m]
    <3>1. PICK m \in 1 .. n - 1 : w[x] = s[m]
      BY Zenon, <2>1 DEF Sendable
    <3>2. m \in 1 .. n
      BY <1>1
    <3>3. EntrySize[w[x].id] <= r
      BY Zenon, <2>1 DEF Sendable
    <3> QED
      BY Zenon, <3>1, <3>2, <3>3
  <2>3. Sendable(r, s, n, w)
    BY Zenon, <2>1, <2>2 DEF Sendable
  <2> QED
    BY Zenon, <2>3 DEF w
<1> HIDE DEF d, e
<1>5. CASE LeftOut(r, c, e, d)
  <2>1. d = c
    BY <1>5 DEF LeftOut
  <2> QED
    BY Zenon, <1>4, <2>1 DEF Holds
<1>6. CASE Joins(r, c, e, d)
  <2> DEFINE L == Len(c)
  <2>1. L \in 1 .. L /\ Len(d) = L
    BY <1>3, <1>6 DEF Joins
  <2>2. c[L] \in Seq(Entry) /\ d[L] = Append(c[L], e) /\ Sender!Length(d[L]) <= r
    BY Zenon, <1>3, <1>6, <2>1 DEF Joins, Full
  <2>3. Len(d[L]) = Len(c[L]) + 1 /\ Len(c[L]) \in Nat
        /\ d[L][Len(c[L]) + 1] = e /\ \A x \in 1 .. Len(c[L]) : d[L][x] = c[L][x]
    BY <1>1, <2>2
  <2>4. ASSUME NEW x \in 1 .. Len(d[L])
        PROVE  EntrySize[d[L][x].id] <= r /\ \E m \in 1 .. n : d[L][x] = s[m]
    <3>1. CASE x = Len(c[L]) + 1
      <4>1. n \in 1 .. n
        BY <1>1
      <4>2. d[L][x] = e /\ EntrySize[e.id] <= r
        BY <1>6, <2>3, <3>1 DEF Joins
      <4> QED
        BY Zenon, <4>1, <4>2 DEF e
    <3>2. CASE x # Len(c[L]) + 1
      <4>1. x \in 1 .. Len(c[L]) /\ d[L][x] = c[L][x]
        BY <2>3, <3>2
      <4>2. PICK m \in 1 .. n - 1 : c[L][x] = s[m]
        BY Zenon, <2>1, <4>1 DEF Holds, Sendable
      <4>3. m \in 1 .. n
        BY <1>1
      <4>4. EntrySize[c[L][x].id] <= r
        BY Zenon, <2>1, <4>1 DEF Holds, Sendable
      <4> QED
        BY Zenon, <4>1, <4>2, <4>3, <4>4
    <3> QED
      BY <3>1, <3>2
  <2>5. Len(d[L]) > 0
    BY <2>3
  <2>6. \A k \in 1 .. Len(d) : k # L => d[k] = c[k]
    BY <1>6, <2>1 DEF Joins
  <2>7. Sendable(r, s, n, d[L])
    BY Zenon, <2>2, <2>4, <2>5 DEF Sendable
  <2>8. \A k \in 1 .. Len(d) : k = L \/ (k \in 1 .. Len(c) /\ d[k] = c[k])
    BY <2>1, <2>6
  <2> HIDE DEF L
  <2> QED
    BY Zenon, <1>4, <2>7, <2>8 DEF Holds
<1>7. CASE Begins(r, c, e, d)
  <2> DEFINE L == Len(c) + 1
  <2>1. Len(d) = L /\ d[L] = <<e>>
    BY <1>7 DEF Begins
  <2>2. Len(d[L]) > 0 /\ Sender!Length(d[L]) <= r
    <3>1. Sender!Length(d[L]) = EntrySize[e.id]
      BY Zenon, <1>1, <2>1, LengthOfOne
    <3> QED
      BY <1>7, <2>1, <3>1 DEF Begins
  <2>3. ASSUME NEW x \in 1 .. Len(d[L])
        PROVE  EntrySize[d[L][x].id] <= r /\ \E m \in 1 .. n : d[L][x] = s[m]
    <3>1. x = 1 /\ n \in 1 .. n
      BY <1>1, <2>1
    <3>2. d[L][x] = e /\ EntrySize[e.id] <= r
      BY <1>7, <2>1, <3>1 DEF Begins
    <3> QED
      BY Zenon, <3>1, <3>2 DEF e
  <2>4. \A k \in 1 .. Len(d) : k # L => k \in 1 .. Len(c) /\ d[k] = c[k]
    BY <1>3, <1>7, <2>1 DEF Begins
  <2>5. Sendable(r, s, n, d[L])
    BY Zenon, <2>2, <2>3 DEF Sendable
  <2> HIDE DEF L
  <2> QED
    BY Zenon, <1>4, <2>4, <2>5 DEF Holds
<1> QED
  BY <1>2, <1>5, <1>6, <1>7

LEMMA CutHolds ==
  ASSUME NEW r \in Nat, NEW s \in Seq(Entry), NEW n \in 0 .. Len(s)
  PROVE  Holds(r, s, n, CutTo(r, s)[n])
<1> DEFINE f == CutTo(r, s)
           Bad == {i \in 0 .. Len(s) : ~ Holds(r, s, i, f[i])}
<1>1. /\ f \in [0 .. Len(s) -> Chunks] /\ f[0] = <<>>
      /\ \A i \in 1 .. Len(s) : f[i] = PutIn(r, f[i - 1], s[i])
  BY Zenon, CutSteps
<1> HIDE DEF f
<1>2. Holds(r, s, 0, f[0])
  BY <1>1 DEF Holds
<1>3. Bad = {}
  <2> SUFFICES ASSUME Bad # {} PROVE FALSE
    OBVIOUS
  <2>1. Bad \subseteq Nat
    OBVIOUS
  <2>2. PICK x \in Bad : \A y \in Bad : x <= y
    <3> HIDE DEF Bad
    <3> QED
      BY <2>1, Least
  <2>3. x \in 1 .. Len(s) /\ x - 1 \in 0 .. Len(s) /\ ~ Holds(r, s, x, f[x])
    BY <1>2, <2>2
  <2>4. x - 1 \notin Bad
    <3> HIDE DEF Bad
    <3> QED
      BY <2>2, <2>3
  <2>5. Holds(r, s, x - 1, f[x - 1]) /\ f[x - 1] \in Chunks
    BY <1>1, <2>3, <2>4
  <2>6. Holds(r, s, x, PutIn(r, f[x - 1], s[x]))
    BY Zenon, <2>3, <2>5, PutHolds
  <2> QED
    BY <1>1, <2>3, <2>6
<1>4. n \notin Bad
  BY <1>3
<1> QED
  BY <1>4 DEF f

\* Every entry that fits is in one of the datagrams that were cut up to it.
LEMMA CutReaches ==
  ASSUME NEW r \in Nat, NEW s \in Seq(Entry), NEW m \in 1 .. Len(s), NEW n \in m .. Len(s),
         EntrySize[s[m].id] <= r
  PROVE  /\ Len(CutTo(r, s)[m]) > 0
         /\ \E k \in 1 .. Len(CutTo(r, s)[m]) :
              \E x \in 1 .. Len(CutTo(r, s)[n][k]) : CutTo(r, s)[n][k][x] = s[m]
<1> DEFINE f == CutTo(r, s)
           e == s[m]
           c == f[m - 1]
           d == f[m]
           L == Len(d)
<1>1. /\ f \in [0 .. Len(s) -> Chunks]
      /\ \A i \in 1 .. Len(s) : f[i] = PutIn(r, f[i - 1], s[i])
  BY Zenon, CutSteps
<1>2. e \in Entry /\ m - 1 \in 0 .. Len(s) /\ m \in 0 .. Len(s) /\ n \in 0 .. Len(s)
  OBVIOUS
<1>3. Grows(d, f[n])
  BY Zenon, <1>2, CutGrows
<1> HIDE DEF f, e
<1>4. c \in Chunks /\ d \in Chunks /\ d = PutIn(r, c, e) /\ f[n] \in Chunks
  BY <1>1, <1>2 DEF e
<1> HIDE DEF c, d
<1>5. LeftOut(r, c, e, d) \/ Joins(r, c, e, d) \/ Begins(r, c, e, d)
  BY Zenon, <1>2, <1>4, PutIs
<1>6. EntrySize[e.id] \in Nat /\ EntrySize[e.id] <= r
  BY <1>2, SenderConstants DEF Entry, e
<1>7. L \in Nat /\ L > 0 /\ d[L] \in Seq(Entry) /\ \E x \in 1 .. Len(d[L]) : d[L][x] = e
  <2>1. Len(c) \in Nat /\ L \in Nat
    BY <1>4, ChunkOf
  <2>2. CASE Joins(r, c, e, d)
    <3>1. L = Len(c) /\ L \in 1 .. L /\ d[L] = Append(c[L], e)
      BY <2>1, <2>2 DEF Joins
    <3>2. c[L] \in Seq(Entry)
      BY <1>4, <3>1, ChunkOf
    <3>3. d[L] \in Seq(Entry) /\ Len(c[L]) + 1 \in 1 .. Len(d[L]) /\ d[L][Len(c[L]) + 1] = e
      BY <1>2, <3>1, <3>2
    <3> QED
      BY Zenon, <2>1, <2>2, <3>1, <3>3 DEF Joins
  <2>3. CASE Begins(r, c, e, d)
    <3>1. L = Len(c) + 1 /\ L > 0 /\ d[L] = <<e>>
      BY <2>1, <2>3 DEF Begins
    <3>2. <<e>> \in Seq(Entry) /\ 1 \in 1 .. Len(<<e>>) /\ <<e>>[1] = e
      BY <1>2
    <3> QED
      BY Zenon, <2>1, <3>1, <3>2
  <2>4. ~ LeftOut(r, c, e, d)
    BY <1>6 DEF LeftOut
  <2> QED
    BY <1>5, <2>2, <2>3, <2>4
<1>8. PICK x \in 1 .. Len(d[L]) : d[L][x] = e
  BY <1>7
<1>9. x \in 1 .. Len(f[n][L]) /\ f[n][L][x] = e
  <2>1. Starts(d[L], f[n][L])
    BY <1>3, <1>7 DEF Grows
  <2>2. Len(f[n]) \in Nat /\ L <= Len(f[n])
    BY <1>3, <1>4, ChunkOf DEF Grows
  <2>3. Len(f[n][L]) \in Nat /\ Len(d[L]) \in Nat
    <3>1. L \in 1 .. Len(f[n])
      BY <1>7, <2>2
    <3> QED
      BY SMTT(60), <1>4, <1>7, <3>1, ChunkOf
  <2> QED
    BY SMTT(60), <1>8, <2>1, <2>3 DEF Starts
<1>10. L \in 1 .. L
  BY <1>7
<1> QED
  BY Zenon, <1>7, <1>9, <1>10 DEF d, e, f


\* Greedy cutting goes on after a datagram as if it began there: where what was
\* cut takes more than M datagrams, one entry is the last of the first M, and
\* what comes after it takes the others.
LEMMA TakesUp ==
  ASSUME NEW r \in Nat, NEW s \in Seq(Entry), NEW N \in 0 .. Len(s),
         NEW p \in 1 .. N, NEW t \in Seq(Entry), Len(t) >= N - p,
         \A x \in 1 .. N - p : t[x] = s[p + x],
         Len(CutTo(r, s)[p]) > 0,
         LET M == Len(CutTo(r, s)[p]) IN CutTo(r, s)[N][M] = CutTo(r, s)[p][M]
  PROVE  Len(CutTo(r, s)[N]) = Len(CutTo(r, s)[p]) + Len(CutTo(r, t)[N - p])
<1> DEFINE f == CutTo(r, s)
           g == CutTo(r, t)
           M == Len(f[p])
           Same(j) == /\ Len(f[p + j]) = M + Len(g[j])
                      /\ Len(g[j]) > 0 => f[p + j][Len(f[p + j])] = g[j][Len(g[j])]
                      /\ Len(g[j]) = 0 => f[p + j] = f[p]
           Bad == {j \in 0 .. N - p : ~ Same(j)}
<1>1. /\ f \in [0 .. Len(s) -> Chunks]
      /\ \A i \in 1 .. Len(s) : f[i] = PutIn(r, f[i - 1], s[i])
  BY Zenon, CutSteps
<1>2. /\ g \in [0 .. Len(t) -> Chunks] /\ g[0] = <<>>
      /\ \A i \in 1 .. Len(t) : g[i] = PutIn(r, g[i - 1], t[i])
  BY Zenon, CutSteps
<1>3. \A i \in 0 .. Len(s) : \A n \in i .. Len(s) : Grows(f[i], f[n])
  BY Zenon, CutGrows
<1>4. f[N][M] = f[p][M] /\ M > 0
  BY Zenon
<1> HIDE DEF f, g
<1>5. Len(s) \in Nat /\ N \in Nat /\ p \in Nat /\ p <= N /\ N <= Len(s) /\ Len(t) \in Nat /\ N - p \in Nat
  OBVIOUS
<1>6. M \in Nat /\ f[p] \in Chunks
  <2>1. p \in 0 .. Len(s)
    BY <1>5
  <2>2. f[p] \in Chunks
    BY Zenon, <1>1, <2>1
  <2> QED
    BY <2>2, ChunkOf
<1> HIDE DEF M
<1>7. Same(0)
  BY <1>2, <1>5, <1>6 DEF M
<1>8. ASSUME NEW j \in 1 .. N - p, Same(j - 1) PROVE Same(j)
  <2> DEFINE e == s[p + j]
             a == f[p + (j - 1)]
             b == f[p + j]
             c == g[j - 1]
             d == g[j]
  <2>1. /\ p + j \in 1 .. Len(s) /\ (p + j) - 1 = p + (j - 1) /\ p + (j - 1) \in 0 .. Len(s)
        /\ j \in 1 .. Len(t) /\ j - 1 \in 0 .. Len(t) /\ t[j] = s[p + j]
    BY SMTT(60), <1>5
  <2>2. e \in Entry
    BY <2>1
  <2>3. a \in Chunks /\ c \in Chunks /\ b = PutIn(r, a, e) /\ d = PutIn(r, c, e)
    BY <1>1, <1>2, <2>1
  <2>4. N \in p + j .. Len(s) /\ p + j \in 0 .. Len(s)
    BY <1>5
  <2>5. Grows(b, f[N])
    BY Zenon, <1>3, <2>4
  <2>6. /\ Len(a) = M + Len(c)
        /\ Len(c) > 0 => a[Len(a)] = c[Len(c)]
        /\ Len(c) = 0 => a = f[p]
    BY Zenon, <1>8
  <2> HIDE DEF a, b, c, d, e
  <2>7. /\ b \in Chunks /\ (LeftOut(r, a, e, b) \/ Joins(r, a, e, b) \/ Begins(r, a, e, b))
        /\ d \in Chunks /\ (LeftOut(r, c, e, d) \/ Joins(r, c, e, d) \/ Begins(r, c, e, d))
    BY Zenon, <2>2, <2>3, PutIs
  <2>8. Len(a) \in Nat /\ Len(c) \in Nat /\ Len(b) \in Nat /\ Len(d) \in Nat /\ Len(a) > 0
    BY <1>4, <1>6, <2>3, <2>6, <2>7, ChunkOf
  <2>9. EntrySize[e.id] \in Nat
    BY <2>2, SenderConstants DEF Entry
  <2> SUFFICES /\ Len(b) = M + Len(d)
               /\ Len(d) > 0 => b[Len(b)] = d[Len(d)]
               /\ Len(d) = 0 => b = f[p]
    BY Zenon DEF b, d
  <2>10. CASE LeftOut(r, a, e, b)
    <3>1. b = a /\ d = c
      BY <2>7, <2>9, <2>10 DEF LeftOut, Joins, Begins
    <3> QED
      BY <2>6, <3>1
  <2>11. CASE Joins(r, a, e, b) /\ Len(c) > 0
    <3>1. Joins(r, c, e, d)
      <4>1. a[Len(a)] = c[Len(c)]
        BY <2>6, <2>11
      <4>2. ~ LeftOut(r, c, e, d)
        BY <2>9, <2>11 DEF LeftOut, Joins
      <4>3. ~ Begins(r, c, e, d)
        BY Zenon, <2>11, <4>1 DEF Joins, Begins
      <4> QED
        BY <2>7, <4>2, <4>3
    <3>2. Len(b) = Len(a) /\ Len(d) = Len(c)
      BY Zenon, <2>11, <3>1 DEF Joins
    <3>3. b[Len(a)] = Append(a[Len(a)], e) /\ d[Len(c)] = Append(c[Len(c)], e)
      BY Zenon, <2>11, <3>1 DEF Joins
    <3> QED
      BY SMTT(60), <2>6, <2>8, <2>11, <3>2, <3>3
  <2>12. CASE Joins(r, a, e, b) /\ Len(c) = 0
    <3>1. a = f[p] /\ Len(a) = M /\ Len(b) = M
      BY <1>6, <2>6, <2>12 DEF Joins
    <3>2. b[M] = Append(f[p][M], e)
      BY <2>12, <3>1 DEF Joins
    <3>3. M \in 1 .. Len(f[p]) /\ Len(f[p]) = M
      BY <1>4, <1>6 DEF M
    <3>4. f[p][M] \in Seq(Entry)
      BY <1>6, <3>3, ChunkOf
    <3>5. Len(b[M]) = Len(f[p][M]) + 1 /\ Len(f[p][M]) \in Nat
      BY <2>2, <3>2, <3>4
    <3>6. Len(b[M]) <= Len(f[N][M])
      BY <1>4, <2>5, <3>1 DEF Grows, Starts
    <3> QED
      BY <1>4, <3>5, <3>6
  <2>13. CASE Begins(r, a, e, b)
    <3>1. Begins(r, c, e, d)
      <4>1. ~ LeftOut(r, c, e, d)
        BY <2>9, <2>13 DEF LeftOut, Begins
      <4>2. ~ Joins(r, c, e, d)
        BY Zenon, <2>6, <2>8, <2>13 DEF Joins, Begins
      <4> QED
        BY <2>7, <4>1, <4>2
    <3>2. Len(b) = Len(a) + 1 /\ Len(d) = Len(c) + 1
          /\ b[Len(a) + 1] = <<e>> /\ d[Len(c) + 1] = <<e>>
      BY Zenon, <2>13, <3>1 DEF Begins
    <3> QED
      BY <1>6, <2>6, <2>8, <3>2
  <2> QED
    BY <2>7, <2>8, <2>10, <2>11, <2>12, <2>13
<1>9. Bad = {}
  <2> SUFFICES ASSUME Bad # {} PROVE FALSE
    OBVIOUS
  <2> HIDE DEF Same
  <2>1. Bad \subseteq Nat
    OBVIOUS
  <2>2. PICK x \in Bad : \A y \in Bad : x <= y
    <3> HIDE DEF Bad
    <3> QED
      BY <2>1, Least
  <2>3. x \in 1 .. N - p /\ x - 1 \in 0 .. N - p /\ ~ Same(x)
    BY <1>7, <2>2
  <2>4. x - 1 \notin Bad
    <3> HIDE DEF Bad
    <3> QED
      BY <2>2, <2>3
  <2>5. Same(x - 1)
    BY <2>3, <2>4
  <2> QED
    BY Zenon, <1>8, <2>3, <2>5
<1>10. Same(N - p)
  <2> HIDE DEF Same
  <2>1. N - p \in 0 .. N - p /\ N - p \notin Bad
    BY <1>5, <1>9
  <2> QED
    BY <2>1
<1>11. p + (N - p) = N
  BY <1>5
<1> QED
  BY Zenon, <1>10, <1>11 DEF f, g, M


\* The first M datagrams are those of the first p entries, which the last of them ends.
SplitsAt(f, s, N, M, p) ==
  /\ Len(f[p]) = M
  /\ \A k \in 1 .. M : f[N][k] = f[p][k]
  /\ f[p][M][Len(f[p][M])] = s[p]

LEMMA Splits ==
  ASSUME NEW r \in Nat, NEW s \in Seq(Entry), NEW N \in 0 .. Len(s),
         NEW M \in Nat, M > 0, Len(CutTo(r, s)[N]) > M
  PROVE  \E p \in 1 .. N : SplitsAt(CutTo(r, s), s, N, M, p)
<1> DEFINE f == CutTo(r, s)
           More == {i \in 0 .. N : Len(f[i]) > M}
<1>1. /\ f \in [0 .. Len(s) -> Chunks] /\ f[0] = <<>>
      /\ \A i \in 1 .. Len(s) : f[i] = PutIn(r, f[i - 1], s[i])
  BY Zenon, CutSteps
<1>2. \A i \in 0 .. Len(s) : \A n \in i .. Len(s) : Grows(f[i], f[n])
  BY Zenon, CutGrows
<1>3. Len(f[N]) > M
  BY Zenon
<1> HIDE DEF f
<1>4. N \in Nat /\ Len(s) \in Nat /\ N <= Len(s)
  OBVIOUS
<1>5. PICK q \in More : \A y \in More : q <= y
  <2>1. More \subseteq Nat /\ N \in More
    BY <1>3, <1>4
  <2> HIDE DEF More
  <2> QED
    BY <2>1, Least
<1>6. q \in 1 .. N /\ Len(f[q]) > M
  <2>1. Len(f[0]) = 0
    BY <1>1
  <2> QED
    BY <1>5, <2>1
<1> DEFINE c == f[q - 1]
           d == f[q]
           e == s[q]
<1>7. /\ q - 1 \in 0 .. Len(s) /\ q - 1 \in 0 .. N /\ q \in 1 .. Len(s) /\ q \in 0 .. Len(s)
      /\ N \in q .. Len(s)
  BY <1>4, <1>6
<1>8. c \in Chunks /\ d \in Chunks /\ e \in Entry /\ d = PutIn(r, c, e) /\ Grows(d, f[N])
  <2>1. c \in Chunks /\ d \in Chunks /\ e \in Entry
    BY SMTT(60), <1>1, <1>7
  <2>2. d = PutIn(r, c, e)
    BY Zenon, <1>1, <1>7
  <2>3. Grows(d, f[N])
    BY Zenon, <1>2, <1>7
  <2> QED
    BY Zenon, <2>1, <2>2, <2>3
<1>9. ~ (Len(c) > M)
  <2>1. q - 1 \notin More
    <3> HIDE DEF More
    <3> QED
      BY <1>5, <1>7
  <2> QED
    BY <1>7, <2>1
<1>10. Len(c) \in Nat /\ Len(d) \in Nat /\ Len(d) > M
  BY <1>6, <1>8, ChunkOf
<1> HIDE DEF c, d, e
<1>11. LeftOut(r, c, e, d) \/ Joins(r, c, e, d) \/ Begins(r, c, e, d)
  BY Zenon, <1>8, PutIs
<1>12. Len(c) = M /\ \A k \in 1 .. M : d[k] = c[k]
  <2>1. Begins(r, c, e, d)
    BY <1>9, <1>10, <1>11 DEF LeftOut, Joins
  <2> QED
    BY <1>9, <1>10, <2>1 DEF Begins
<1>13. \A k \in 1 .. M : f[N][k] = c[k]
  <2>1. \A k \in 1 .. M : k \in 1 .. Len(d) /\ k # Len(d)
    BY <1>10
  <2> QED
    BY Zenon, <1>8, <1>12, <2>1 DEF Grows
\* The one that made it so.
<1> DEFINE Like == {i \in 0 .. N : f[i] = c}
<1>14. PICK p \in Like : \A y \in Like : p <= y
  <2>1. Like \subseteq Nat /\ q - 1 \in Like
    BY <1>7 DEF c
  <2> HIDE DEF Like
  <2> QED
    BY <2>1, Least
<1>15. p \in 1 .. N /\ f[p] = c
  <2>1. f[0] # c
    BY <1>1, <1>12
  <2> QED
    BY <1>14, <2>1
<1> DEFINE a == f[p - 1]
           o == s[p]
<1>16. p - 1 \in 0 .. Len(s) /\ p - 1 \in 0 .. N /\ p \in 1 .. Len(s)
  BY <1>4, <1>15
<1>17. a \in Chunks /\ o \in Entry /\ c = PutIn(r, a, o)
  <2>1. a \in Chunks /\ o \in Entry
    BY <1>1, <1>16
  <2>2. c = PutIn(r, a, o)
    BY Zenon, <1>1, <1>15, <1>16
  <2> QED
    BY Zenon, <2>1, <2>2
<1>18. a # c
  <2>1. p - 1 \notin Like
    <3> HIDE DEF Like
    <3> QED
      BY <1>14, <1>16
  <2> QED
    BY <1>16, <2>1
<1>19. Len(a) \in Nat
  BY <1>17, ChunkOf
<1> HIDE DEF a, o
<1>20. LeftOut(r, a, o, c) \/ Joins(r, a, o, c) \/ Begins(r, a, o, c)
  BY Zenon, <1>17, PutIs
<1>21. c[M][Len(c[M])] = o
  <2>1. CASE Joins(r, a, o, c)
    <3>1. Len(a) = M /\ M \in 1 .. Len(a) /\ c[M] = Append(a[M], o)
      BY <1>12, <2>1 DEF Joins
    <3>2. a[M] \in Seq(Entry)
      BY <1>17, <3>1, ChunkOf
    <3> QED
      BY <1>17, <3>1, <3>2
  <2>2. CASE Begins(r, a, o, c)
    <3>1. c[M] = <<o>>
      BY <1>12, <1>19, <2>2 DEF Begins
    <3> QED
      BY <3>1
  <2>3. ~ LeftOut(r, a, o, c)
    BY <1>18 DEF LeftOut
  <2> QED
    BY <1>20, <2>1, <2>2, <2>3
<1>22. SplitsAt(f, s, N, M, p)
  BY Zenon, <1>12, <1>13, <1>15, <1>21 DEF o, SplitsAt
<1> QED
  BY Zenon, <1>15, <1>22 DEF f


-----------------------------------------------------------------------------
(* A beat of a rotation.                                                   *)

Among(W) == {i \in MarkerIds : \E k \in 1 .. Len(W) : \E x \in 1 .. Len(W[k]) : W[k][x].id = i}
LastId(W) == W[Len(W)][Len(W[Len(W)])].id

\* The entries of the catalog v, in the order from c.
From(v, c) == OrderOf(c, EntriesOf(v, MarkerIds))

\* The ids are the next that go out, in no more than so many heartbeats.
Ahead(v, r, c, ids, beats) ==
  \E n \in 0 .. Len(From(v, c)) :
    /\ \A i \in ids : \E x \in 1 .. n : From(v, c)[x].id = i
    /\ Len(CutTo(r, From(v, c))[n]) <= beats * MaxChunks

LEMMA FromIs ==
  ASSUME NEW v \in [MarkerIds -> 0 .. MaxEdits], NEW c \in Nat
  PROVE  /\ From(v, c) \in Seq(Entry)
         /\ \A x \in 1 .. Len(From(v, c)) :
              /\ From(v, c)[x].id \in MarkerIds /\ v[From(v, c)[x].id] # 0
              /\ From(v, c)[x].version = v[From(v, c)[x].id]
         /\ \A i \in MarkerIds : v[i] # 0 => \E x \in 1 .. Len(From(v, c)) : From(v, c)[x].id = i
<1> DEFINE E == EntriesOf(v, MarkerIds)
           s == Cardinality(UpTo(E, c))
           O == Rotated(E, s)
           N == Len(E)
<1>1. /\ E \in Seq(Entry)
      /\ \A k \in DOMAIN E : v[E[k].id] # 0 /\ E[k].version = v[E[k].id]
      /\ \A i \in MarkerIds : v[i] # 0 => \E k \in DOMAIN E : E[k].id = i
  BY EntriesAre
<1> HIDE DEF E
<1>2. s \in 0 .. N
  BY <1>1, UpToIs
<1>3. From(v, c) = O
  BY Zenon DEF From, OrderOf, E
<1> HIDE DEF s
<1>4. /\ O \in Seq(Entry) /\ Len(O) = N
      /\ \A x \in 1 .. N : O[x] = IF x <= N - s THEN E[s + x] ELSE E[x - (N - s)]
  BY Zenon, <1>1, <1>2, RotatedIs
<1> HIDE DEF O
<1>5. N \in Nat /\ DOMAIN E = 1 .. N
  BY <1>1
<1>6. ASSUME NEW x \in 1 .. N
      PROVE  O[x].id \in MarkerIds /\ v[O[x].id] # 0 /\ O[x].version = v[O[x].id]
  <2>1. \E y \in 1 .. N : O[x] = E[y]
    <3>1. CASE x <= N - s
      <4>1. s + x \in 1 .. N
        BY <1>2, <1>5, <3>1
      <4> QED
        BY <1>4, <3>1, <4>1
    <3>2. CASE ~ (x <= N - s)
      <4>1. x - (N - s) \in 1 .. N
        BY <1>2, <1>5, <3>2
      <4> QED
        BY <1>4, <3>2, <4>1
    <3> QED
      BY <3>1, <3>2
  <2>2. PICK y \in 1 .. N : O[x] = E[y]
    BY <2>1
  <2>3. E[y] \in Entry /\ v[E[y].id] # 0 /\ E[y].version = v[E[y].id]
    BY <1>1, <1>5
  <2> QED
    BY <2>2, <2>3 DEF Entry
<1>7. ASSUME NEW i \in MarkerIds, v[i] # 0 PROVE \E x \in 1 .. N : O[x].id = i
  <2>1. PICK y \in 1 .. N : E[y].id = i
    BY <1>1, <1>5, <1>7
  <2>2. CASE y <= s
    <3>1. (N - s) + y \in 1 .. N /\ ~ ((N - s) + y <= N - s) /\ ((N - s) + y) - (N - s) = y
      BY <1>2, <1>5, <2>2
    <3>2. O[(N - s) + y] = E[y]
      BY <1>4, <3>1
    <3> QED
      BY <2>1, <3>1, <3>2
  <2>3. CASE ~ (y <= s)
    <3>1. y - s \in 1 .. N /\ y - s <= N - s /\ s + (y - s) = y
      BY <1>2, <1>5, <2>3
    <3>2. O[y - s] = E[y]
      BY <1>4, <3>1
    <3> QED
      BY <2>1, <3>1, <3>2
  <2> QED
    BY <2>2, <2>3
<1> QED
  BY <1>3, <1>4, <1>6, <1>7

LEMMA WindowIs ==
  ASSUME NEW c \in Chunks
  PROVE  /\ Sender!Window(c) \in Chunks
         /\ Len(Sender!Window(c)) = IF Len(c) < MaxChunks THEN Len(c) ELSE MaxChunks
         /\ \A k \in 1 .. Len(Sender!Window(c)) : Sender!Window(c)[k] = c[k]
<1> DEFINE m == IF Len(c) < MaxChunks THEN Len(c) ELSE MaxChunks
<1>1. Len(c) \in Nat /\ m \in 0 .. Len(c)
  BY SenderConstants, ChunkOf
<1>2. Sender!Window(c) = SubSeq(c, 1, m)
  BY Zenon DEF Sender!Window
<1> HIDE DEF m
<1>3. SubSeq(c, 1, m) \in Chunks /\ Len(SubSeq(c, 1, m)) = m /\ \A k \in 1 .. m : SubSeq(c, 1, m)[k] = c[k]
  BY <1>1 DEF Chunks
<1> QED
  BY <1>2, <1>3 DEF m


\* A heartbeat of what is ahead sends of it what fits, and leaves what takes one
\* heartbeat less.
LEMMA Beat ==
  ASSUME NEW v \in [MarkerIds -> 0 .. MaxEdits], NEW r \in Nat, NEW c \in Nat,
         NEW ids \in SUBSET MarkerIds, ids # {}, \A i \in ids : EntrySize[i] <= r,
         NEW beats \in Nat, Ahead(v, r, c, ids, beats)
  PROVE  LET W == Sender!Window(CutTo(r, From(v, c))[Len(From(v, c))])
         IN  /\ beats > 0 /\ Len(W) > 0
             /\ LastId(W) \in MarkerIds
             /\ Ahead(v, r, LastId(W), ids \ Among(W), beats - 1)
<1> DEFINE O == From(v, c)
           f == CutTo(r, O)
           N == Len(O)
           C == f[N]
           W == Sender!Window(C)
           M == MaxChunks
<1>1. /\ O \in Seq(Entry)
      /\ \A x \in 1 .. N : O[x].id \in MarkerIds
  BY Zenon, FromIs
<1>2. PICK n \in 0 .. N :
        /\ \A i \in ids : \E x \in 1 .. n : O[x].id = i
        /\ Len(f[n]) <= beats * M
  BY Zenon DEF Ahead
<1>3. M \in Nat /\ M > 0 /\ MarkerIds \subseteq Nat
  BY SenderConstants
<1> HIDE DEF O
<1>4. /\ f \in [0 .. N -> Chunks]
      /\ \A m \in 0 .. N : \A k \in m .. N : Grows(f[m], f[k])
      /\ \A m \in 0 .. N : Holds(r, O, m, f[m])
  BY Zenon, <1>1, CutSteps, CutGrows, CutHolds
<1>5. N \in Nat /\ n \in Nat /\ n <= N /\ n \in 0 .. N /\ N \in n .. N /\ N \in 0 .. N
  BY <1>1
<1>6. ASSUME NEW x \in 1 .. N, NEW m \in x .. N, EntrySize[O[x].id] <= r
      PROVE  /\ Len(f[x]) > 0
             /\ \E k \in 1 .. Len(f[x]) : \E y \in 1 .. Len(f[m][k]) : f[m][k][y] = O[x]
  BY Zenon, <1>1, <1>6, CutReaches
<1> HIDE DEF f
<1>7. C \in Chunks /\ f[n] \in Chunks /\ Len(C) \in Nat /\ Len(f[n]) \in Nat /\ Grows(f[n], C)
  <2>1. C \in Chunks /\ f[n] \in Chunks
    BY <1>4, <1>5
  <2>2. Grows(f[n], C)
    BY Zenon, <1>4, <1>5
  <2> QED
    BY <2>1, <2>2, ChunkOf
<1>8. /\ W \in Chunks
      /\ Len(W) = IF Len(C) < M THEN Len(C) ELSE M
      /\ \A k \in 1 .. Len(W) : W[k] = C[k]
  BY Zenon, <1>7, WindowIs
<1> DEFINE q == Len(f[n])
<1>9. q > 0 /\ q <= Len(C)
  <2>1. PICK i \in ids : TRUE
    OBVIOUS
  <2>2. PICK x \in 1 .. n : O[x].id = i
    BY <1>2, <2>1
  <2>3. x \in 1 .. N /\ n \in x .. N /\ EntrySize[O[x].id] <= r
    BY <1>5, <2>2
  <2>4. Len(f[x]) > 0 /\ Grows(f[x], f[n])
    <3>1. x \in 0 .. N
      BY <2>3
    <3>2. n \in x .. n
      BY <2>2, <1>5
    <3>3. Len(f[x]) > 0
      BY Zenon, <1>6, <2>3
    <3>4. Grows(f[x], f[n])
      BY Zenon, <1>4, <2>3, <3>1
    <3> QED
      BY <3>3, <3>4
  <2>5. Len(f[x]) \in Nat
    BY <1>4, <2>3, ChunkOf
  <2> QED
    BY <1>7, <2>4, <2>5 DEF Grows
<1>10. beats > 0
  <2>1. CASE beats = 0
    <3>1. q <= 0 * M
      BY <1>2, <2>1
    <3> QED
      BY <1>3, <1>9, <3>1
  <2> QED
    BY <2>1
<1> HIDE DEF C, W
<1>11. Len(W) > 0 /\ Len(W) \in Nat
  BY <1>3, <1>7, <1>8, <1>9
<1>12. Len(W) \in 1 .. Len(W) /\ Len(W) \in 1 .. Len(C)
  BY <1>7, <1>8, <1>11
<1>13. LastId(W) \in MarkerIds
  <2> DEFINE w == W[Len(W)]
  <2>1. w = C[Len(W)]
    BY Zenon, <1>8, <1>12
  <2>2. Sendable(r, O, N, w)
    BY Zenon, <1>4, <1>5, <1>12, <2>1 DEF Holds, C
  <2>3. w \in Seq(Entry)
    BY <1>8, <1>12, ChunkOf
  <2> HIDE DEF w
  <2>4. Len(w) \in 1 .. Len(w)
    BY <2>2, <2>3 DEF Sendable
  <2>5. w[Len(w)] \in Entry
    BY <2>3, <2>4
  <2>6. w[Len(w)].id \in MarkerIds
    BY <2>5 DEF Entry
  <2> QED
    BY <2>6 DEF LastId, w
<1> DEFINE l == LastId(W)
           P == From(v, l)
           g == CutTo(r, P)
<1>14. l \in Nat /\ P \in Seq(Entry) /\ g[0] = <<>> /\ Len(P) \in Nat
  <2>1. l \in Nat
    BY <1>3, <1>13
  <2> HIDE DEF l
  <2>2. P \in Seq(Entry)
    BY Zenon, <2>1, FromIs
  <2> HIDE DEF P
  <2>3. g[0] = <<>>
    BY Zenon, <2>2, CutSteps
  <2> QED
    BY <2>1, <2>2, <2>3
\* Every entry of the window's datagrams is among its ids.
<1>15. ASSUME NEW x \in 1 .. N, NEW k \in 1 .. Len(W), NEW y \in 1 .. Len(W[k]), W[k][y] = O[x]
       PROVE  O[x].id \in Among(W)
  BY Zenon, <1>1, <1>15 DEF Among
<1>16. CASE q <= M
  <2>1. q <= Len(W)
    BY <1>8, <1>9, <1>16
  <2>2. ASSUME NEW i \in ids PROVE i \in Among(W)
    <3>1. PICK x \in 1 .. n : O[x].id = i
      BY <1>2
    <3>2. x \in 1 .. N /\ N \in x .. N /\ n \in x .. N /\ x \in 0 .. N /\ EntrySize[O[x].id] <= r
      BY <1>5, <3>1
    <3>3. PICK k \in 1 .. Len(f[x]) : \E y \in 1 .. Len(C[k]) : C[k][y] = O[x]
      BY Zenon, <1>6, <3>2 DEF C
    <3>4. Len(f[x]) <= q
      BY Zenon, <1>4, <3>2 DEF Grows
    <3>5. Len(f[x]) \in Nat
      BY <1>4, <3>2, ChunkOf
    <3>6. k \in 1 .. Len(W)
      BY SMTT(60), <1>7, <1>11, <2>1, <3>3, <3>4, <3>5
    <3>7. W[k] = C[k]
      BY Zenon, <1>8, <3>6
    <3> QED
      BY Zenon, <1>15, <3>1, <3>2, <3>3, <3>6, <3>7
  <2>3. ids \ Among(W) = {}
    BY Zenon, <2>2
  <2>4. Len(g[0]) <= (beats - 1) * M
    <3>1. beats - 1 \in Nat
      BY <1>10
    <3>2. (beats - 1) * M \in Nat
      BY <1>3, <3>1
    <3>3. Len(g[0]) = 0
      BY <1>14
    <3> QED
      BY <3>2, <3>3
  <2>5. 0 \in 0 .. Len(P)
    BY <1>14
  <2>6. Ahead(v, r, l, ids \ Among(W), beats - 1)
    <3> HIDE DEF g, l
    <3>1. \A i \in ids \ Among(W) : \E x \in 1 .. 0 : P[x].id = i
      BY Zenon, <2>3
    <3> QED
      BY Zenon, <2>4, <2>5, <3>1 DEF Ahead, g
  <2> QED
    BY Zenon, <1>10, <1>11, <1>13, <2>6 DEF W, C, f, O
<1>17. CASE ~ (q <= M)
  <2>1. Len(W) = M
    BY <1>3, <1>7, <1>8, <1>9, <1>17
  <2>2. PICK p \in 1 .. n :
          /\ Len(f[p]) = M
          /\ \A k \in 1 .. M : f[n][k] = f[p][k]
          /\ f[p][M][Len(f[p][M])] = O[p]
    <3>1. Len(CutTo(r, O)[n]) > M
      BY <1>3, <1>7, <1>17 DEF f
    <3>2. \E p \in 1 .. n : SplitsAt(f, O, n, M, p)
      BY Zenon, <1>1, <1>3, <1>5, <3>1, Splits DEF f
    <3> QED
      BY Zenon, <3>2 DEF SplitsAt
  <2>3. p \in 1 .. N /\ p \in 0 .. N /\ n \in p .. N
    BY <1>5
  <2>4. ASSUME NEW k \in 1 .. M PROVE W[k] = f[p][k]
    <3>1. k \in 1 .. q /\ k # q
      BY <1>3, <1>7, <1>17
    <3>2. C[k] = f[n][k]
      BY Zenon, <1>7, <3>1 DEF Grows
    <3> QED
      BY Zenon, <1>8, <2>1, <2>2, <2>4, <3>2
  <2>5. M \in 1 .. M
    BY <1>3
  <2>6. l = O[p].id
    BY Zenon, <2>1, <2>2, <2>4, <2>5 DEF LastId
  <2>7. Len(P) = N /\ \A x \in 1 .. N - p : P[x] = O[p + x]
    <3> DEFINE E == EntriesOf(v, MarkerIds)
    <3>1. E \in Seq(Entry) /\ Sorted(E)
      BY EntriesAre DEF Sorted
    <3> HIDE DEF E
    <3>2. O = OrderOf(c, E) /\ P = OrderOf(O[p].id, E)
      BY Zenon, <2>6 DEF O, From, E
    <3>3. Len(E) = N
      <4>1. Len(E) \in Nat
        BY <3>1
      <4>2. Cardinality(UpTo(E, c)) \in 0 .. Len(E)
        BY <3>1, UpToIs
      <4>3. Len(Rotated(E, Cardinality(UpTo(E, c)))) = Len(E)
        BY Zenon, <3>1, <4>2, RotatedIs
      <4> QED
        BY <3>2, <4>3 DEF OrderOf
    <3>4. p \in 1 .. Len(E)
      BY <2>3, <3>3
    <3>5. LET X == OrderOf(c, E)
          IN  Len(OrderOf(X[p].id, E)) = Len(E)
              /\ \A x \in 1 .. Len(E) - p : OrderOf(X[p].id, E)[x] = X[p + x]
      BY Zenon, <3>1, <3>4, Resumes
    <3> QED
      BY Zenon, <3>2, <3>3, <3>5
  <2> HIDE DEF l
  <2>8. q = M + Len(g[n - p])
    <3>1. Len(P) >= n - p /\ \A x \in 1 .. n - p : P[x] = O[p + x]
      BY <1>5, <2>3, <2>7
    <3>2. Len(CutTo(r, O)[p]) = M /\ CutTo(r, O)[n][M] = CutTo(r, O)[p][M]
      BY Zenon, <2>2, <2>5 DEF f
    <3> HIDE DEF P
    <3>3. Len(CutTo(r, O)[n]) = Len(CutTo(r, O)[p]) + Len(CutTo(r, P)[n - p])
      <4>1. Len(CutTo(r, O)[p]) > 0 /\ CutTo(r, O)[n][Len(CutTo(r, O)[p])] = CutTo(r, O)[p][Len(CutTo(r, O)[p])]
        BY <1>3, <3>2
      <4> QED
        BY Zenon, <1>1, <1>5, <1>14, <2>2, <3>1, <4>1, TakesUp
    <3> QED
      BY Zenon, <3>2, <3>3 DEF f
  <2>9. n - p \in 0 .. Len(P) /\ n - p \in Nat
    BY <1>5, <2>3, <2>7
  <2>10. Len(g[n - p]) <= (beats - 1) * M
    <3>1. Len(g[n - p]) = q - M
      <4>1. g \in [0 .. Len(P) -> Chunks]
        BY Zenon, <1>14, CutSteps
      <4>2. Len(g[n - p]) \in Nat
        BY <2>9, <4>1, ChunkOf
      <4> QED
        BY <1>3, <1>7, <2>8, <4>2
    <3>2. (beats - 1) * M = beats * M - M
      BY <1>3
    <3>3. beats * M \in Nat
      BY <1>3
    <3> QED
      BY <1>2, <1>3, <1>7, <3>1, <3>2, <3>3
  <2>11. ASSUME NEW i \in ids \ Among(W) PROVE \E x \in 1 .. n - p : P[x].id = i
    <3>1. PICK x \in 1 .. n : O[x].id = i
      BY <1>2
    <3>2. x \in 1 .. N /\ x \in 0 .. N /\ EntrySize[O[x].id] <= r
      BY <1>5, <3>1
    <3>3. CASE x <= p
      <4>1. p \in x .. N
        BY <2>3, <3>2, <3>3
      <4>2. PICK k \in 1 .. Len(f[x]) : \E y \in 1 .. Len(f[p][k]) : f[p][k][y] = O[x]
        BY Zenon, <1>6, <3>2, <4>1
      <4>3. Len(f[x]) <= M /\ Len(f[x]) \in Nat
        <5>1. Grows(f[x], f[p])
          BY Zenon, <1>4, <3>2, <4>1
        <5> QED
          BY <1>4, <2>2, <3>2, <5>1, ChunkOf DEF Grows
      <4>4. k \in 1 .. M
        BY <1>3, <4>2, <4>3
      <4>5. W[k] = f[p][k] /\ k \in 1 .. Len(W)
        BY Zenon, <2>1, <2>4, <4>4
      <4> QED
        BY Zenon, <1>15, <2>11, <3>1, <3>2, <4>2, <4>5
    <3>4. CASE ~ (x <= p)
      <4>1. x - p \in 1 .. n - p /\ x - p \in 1 .. N - p /\ p + (x - p) = x
        BY <1>5, <2>3, <3>1, <3>4
      <4>2. P[x - p] = O[x]
        BY Zenon, <2>7, <4>1
      <4> QED
        BY Zenon, <3>1, <4>1, <4>2
    <3> QED
      BY <3>3, <3>4
  <2>12. Ahead(v, r, l, ids \ Among(W), beats - 1)
    BY Zenon, <2>9, <2>10, <2>11 DEF Ahead
  <2> QED
    BY Zenon, <1>10, <1>11, <1>13, <2>12 DEF W, C, f, O, l
<1> QED
  BY <1>16, <1>17


-----------------------------------------------------------------------------
(* The invariant of the send thread, in the parts that the steps are       *)
(* checked against.                                                        *)

Counts ==
  /\ handler \in MarkerIds \cup {None}
  /\ pending \subseteq MarkerIds /\ batch \subseteq MarkerIds
  /\ cursor \in {0} \cup MarkerIds /\ room \in Rooms
  /\ edits \in 0 .. MaxEdits /\ failures \in 0 .. MaxFailures

Modes ==
  /\ sender \in {"idle", "delta", "burst"} /\ kind \in {"delta", "heartbeat"}
  /\ sender = "burst" <=> Len(burst) > 0
  /\ sender = "delta" <=> batch # {}

Books ==
  /\ version \in [MarkerIds -> 0 .. MaxEdits]
  /\ wire \in [MarkerIds -> 0 .. MaxEdits] /\ owed \in [MarkerIds -> 0 .. MaxEdits]
  /\ \A i \in MarkerIds : owed[i] <= version[i] /\ version[i] <= edits

\* No datagram is empty, and each fits one.
Datagrams ==
  /\ burst \in Chunks
  /\ \A k \in 1 .. Len(burst) :
       Len(burst[k]) > 0 /\ \E r \in Rooms : Sender!Length(burst[k]) <= r

\* What goes out is what is owed, unless it is queued again.
Newest ==
  \A k \in 1 .. Len(burst) : \A x \in 1 .. Len(burst[k]) :
    burst[k][x].id \in pending \/ burst[k][x].version >= owed[burst[k][x].id]

Queued ==
  \A i \in MarkerIds : wire[i] < owed[i] =>
    i \in pending \cup batch \/ (kind = "delta" /\ i \in Among(burst))

\* What is left of a promise goes out in the beats that are left, the burst that
\* is being sent among them.
Rotating ==
  promise # None =>
    /\ promise.ids \in SUBSET MarkerIds /\ promise.ids # {}
    /\ promise.beats \in Nat /\ promise.beats > 0
    /\ \A i \in promise.ids : EntrySize[i] <= room
    /\ IF sender = "burst" /\ kind = "heartbeat"
       THEN Ahead(version, room, LastId(burst), promise.ids \ Among(burst), promise.beats - 1)
       ELSE Ahead(version, room, cursor, promise.ids, promise.beats)

SInv == Counts /\ Modes /\ Books /\ Datagrams /\ Newest /\ Queued /\ Rotating

LEMMA EntriesIn ==
  ASSUME NEW c \in Chunks, NEW k \in 1 .. Len(c), NEW x \in 1 .. Len(c[k])
  PROVE  c[k][x].id \in MarkerIds /\ c[k][x].version \in 0 .. MaxEdits
<1>1. c[k] \in Seq(Entry)
  BY DEF Chunks
<1>2. c[k][x] \in Entry
  BY <1>1
<1> QED
  BY <1>2 DEF Entry

LEMMA SetStep ==
  ASSUME SInv, NEW i \in MarkerIds, Sender!Set(i), handler' \in MarkerIds \cup {None},
         UNCHANGED <<pending, Sender!sender, room, failures, wire, owed>>
  PROVE  SInv'
<1>1. /\ UNCHANGED <<pending, sender, batch, burst, kind, cursor, room, failures, wire, owed>>
      /\ edits < MaxEdits /\ edits' = edits + 1 /\ promise' = None
      /\ version' = [version EXCEPT ![i] = edits + 1]
  BY DEF Sender!Set, Sender!sender
<1>2. Counts'
  BY <1>1, SenderConstants DEF SInv, Counts
<1>3. Modes' /\ Newest' /\ Queued'
  BY Zenon, <1>1 DEF SInv, Modes, Newest, Queued
<1>4. Books'
  BY <1>1, SenderConstants DEF SInv, Books, Counts
<1>5. Datagrams'
  BY Zenon, <1>1 DEF SInv, Datagrams
<1>6. Rotating'
  BY Zenon, <1>1 DEF Rotating
<1> QED
  BY <1>2, <1>3, <1>4, <1>5, <1>6 DEF SInv

LEMMA RequestStep == ASSUME SInv, Sender!RequestDelta PROVE SInv'
<1>1. /\ UNCHANGED <<version, edits, sender, batch, burst, kind, cursor, room, failures, wire, promise>>
      /\ handler # None /\ pending' = pending \cup {handler} /\ handler' = None
      /\ owed' = [owed EXCEPT ![handler] = version[handler]]
  BY DEF Sender!RequestDelta, Sender!sender
<1>2. handler \in MarkerIds
  BY <1>1 DEF SInv, Counts
<1>3. Counts' /\ Books'
  BY <1>1, <1>2, SenderConstants DEF SInv, Counts, Books
<1>4. Modes' /\ Datagrams' /\ Rotating'
  BY Zenon, <1>1 DEF SInv, Modes, Datagrams, Rotating
<1>5. \A i : i \in pending' \/ owed'[i] = owed[i] \/ i \notin MarkerIds
  BY <1>1 DEF SInv, Books
<1>6. Newest'
  <2>1. ASSUME NEW k \in 1 .. Len(burst), NEW x \in 1 .. Len(burst[k])
        PROVE  burst[k][x].id \in pending' \/ burst[k][x].version >= owed'[burst[k][x].id]
    <3>1. burst[k][x].id \in MarkerIds
      BY Zenon, EntriesIn DEF SInv, Datagrams
    <3>2. burst[k][x].id \in pending \/ burst[k][x].version >= owed[burst[k][x].id]
      BY Zenon DEF SInv, Newest
    <3> QED
      BY Zenon, <1>1, <1>5, <3>1, <3>2
  <2> QED
    BY Zenon, <1>1, <2>1 DEF Newest
<1>7. Queued'
  BY Zenon, <1>1, <1>5 DEF SInv, Queued
<1> QED
  BY <1>3, <1>4, <1>6, <1>7 DEF SInv

LEMMA SelectStep == ASSUME SInv, Sender!Select PROVE SInv'
<1>1. /\ UNCHANGED <<version, handler, edits, pending, sender, batch, burst, kind, cursor, failures,
                    wire, owed>>
      /\ room' \in Rooms /\ promise' = None
  BY DEF Sender!Select, Sender!sender, Sender!catalog
<1>2. Counts'
  BY <1>1 DEF SInv, Counts
<1>3. Modes' /\ Datagrams' /\ Rotating' /\ Books'
  BY Zenon, <1>1 DEF SInv, Modes, Datagrams, Rotating, Books
<1>4. Newest' /\ Queued'
  BY Zenon, <1>1 DEF SInv, Newest, Queued
<1> QED
  BY <1>2, <1>3, <1>4 DEF SInv

\* Nothing is in a burst outside one.
LEMMA NoBurst == ASSUME SInv, sender # "burst" PROVE Len(burst) = 0 /\ Among(burst) = {}
<1>1. Len(burst) \in Nat /\ ~ (Len(burst) > 0)
  BY ChunkOf DEF SInv, Datagrams, Modes
<1> QED
  BY <1>1 DEF Among

LEMMA ConsumeStep == ASSUME SInv, Sender!Consume PROVE SInv'
<1>1. /\ UNCHANGED <<version, handler, edits, burst, kind, cursor, room, failures, wire, owed, promise>>
      /\ sender = "idle" /\ pending # {} /\ batch' = pending /\ pending' = {} /\ sender' = "delta"
  BY DEF Sender!Consume, Sender!catalog
<1>2. Len(burst) = 0 /\ Among(burst) = {}
  <2>1. sender # "burst"
    BY <1>1
  <2> QED
    BY Zenon, <2>1, NoBurst
<1>3. Counts' /\ Modes'
  BY <1>1, <1>2 DEF SInv, Counts, Modes
<1>4. Books' /\ Datagrams'
  BY Zenon, <1>1 DEF SInv, Books, Datagrams
<1>5. Newest'
  BY <1>1, <1>2 DEF Newest
<1>6. batch = {}
  BY <1>1 DEF SInv, Modes
<1>7. Queued'
  BY Zenon, <1>1, <1>2, <1>6 DEF SInv, Queued
<1>8. Rotating'
  <2>1. sender # "burst" /\ sender' # "burst"
    BY <1>1
  <2> QED
    BY Zenon, <1>1, <2>1 DEF SInv, Rotating
<1> QED
  BY <1>3, <1>4, <1>5, <1>7, <1>8 DEF SInv


\* Every entry of the datagrams is one of those that were cut, and fits.
LEMMA CutTells ==
  ASSUME NEW r \in Rooms, NEW s \in Seq(Entry)
  PROVE  LET c == CutTo(r, s)[Len(s)]
         IN  c \in Chunks /\ Len(c) \in Nat
             /\ \A k \in 1 .. Len(c) :
                  /\ c[k] \in Seq(Entry) /\ Len(c[k]) \in Nat
                  /\ Len(c[k]) > 0 /\ Sender!Length(c[k]) <= r
                  /\ \A x \in 1 .. Len(c[k]) :
                       EntrySize[c[k][x].id] <= r /\ \E m \in 1 .. Len(s) : c[k][x] = s[m]
<1> DEFINE c == CutTo(r, s)[Len(s)]
<1>1. r \in Nat /\ Len(s) \in 0 .. Len(s)
  BY SenderConstants
<1>2. CutTo(r, s) \in [0 .. Len(s) -> Chunks]
  BY Zenon, <1>1, CutSteps
<1>3. c \in Chunks
  BY <1>1, <1>2
<1>4. Holds(r, s, Len(s), c)
  BY Zenon, <1>1, CutHolds
<1> HIDE DEF c
<1>5. Len(c) \in Nat /\ \A k \in 1 .. Len(c) : c[k] \in Seq(Entry) /\ Len(c[k]) \in Nat
  BY Zenon, <1>3, ChunkOf
<1>6. ASSUME NEW k \in 1 .. Len(c) PROVE Sendable(r, s, Len(s), c[k])
  BY Zenon, <1>4 DEF Holds
<1> QED
  BY Zenon, <1>3, <1>5, <1>6 DEF Sendable, c

\* A burst of datagrams cut from what the catalog has.
LEMMA BurstIs ==
  ASSUME SInv, NEW s \in Seq(Entry),
         \A m \in 1 .. Len(s) : s[m].id \in MarkerIds /\ s[m].version = version[s[m].id],
         NEW W \in Chunks,
         LET c == CutTo(room, s)[Len(s)]
         IN  Len(W) <= Len(c) /\ \A k \in 1 .. Len(W) : W[k] = c[k],
         Sender!Begin(W), UNCHANGED <<pending, room, version, edits, wire>>,
         owed' \in [MarkerIds -> 0 .. MaxEdits], \A i \in MarkerIds : owed'[i] <= owed[i]
  PROVE  Datagrams' /\ Newest' /\ Books'
<1> DEFINE c == CutTo(room, s)[Len(s)]
<1>1. burst' = W
  BY DEF Sender!Begin
<1>2. room \in Rooms /\ owed \in [MarkerIds -> 0 .. MaxEdits] /\ version \in [MarkerIds -> 0 .. MaxEdits]
      /\ (\A i \in MarkerIds : owed[i] <= version[i] /\ version[i] <= edits)
      /\ edits \in 0 .. MaxEdits /\ MaxEdits \in Nat
  BY SenderConstants DEF SInv, Counts, Books
<1>3. c \in Chunks /\ Len(c) \in Nat /\ Len(W) \in Nat
      /\ \A k \in 1 .. Len(c) :
                  /\ c[k] \in Seq(Entry) /\ Len(c[k]) \in Nat
                  /\ Len(c[k]) > 0 /\ Sender!Length(c[k]) <= room
                  /\ \A x \in 1 .. Len(c[k]) :
                       EntrySize[c[k][x].id] <= room /\ \E m \in 1 .. Len(s) : c[k][x] = s[m]
  BY Zenon, <1>2, CutTells, ChunkOf
<1>4. Len(W) <= Len(c) /\ \A k \in 1 .. Len(W) : W[k] = c[k]
  OBVIOUS
<1> HIDE DEF c
<1>5. ASSUME NEW k \in 1 .. Len(W) PROVE k \in 1 .. Len(c) /\ W[k] = c[k]
  BY <1>3, <1>4
<1>6. Datagrams'
  BY Zenon, <1>1, <1>2, <1>3, <1>5 DEF Datagrams
<1>7. \A i \in MarkerIds : owed'[i] <= version[i]
  BY <1>2
<1>8. Newest'
  <2>1. ASSUME NEW k \in 1 .. Len(W), NEW x \in 1 .. Len(W[k])
        PROVE  W[k][x].version >= owed'[W[k][x].id]
    <3>1. PICK m \in 1 .. Len(s) : W[k][x] = s[m]
      <4>1. k \in 1 .. Len(c) /\ W[k] = c[k]
        BY Zenon, <1>5
      <4>2. x \in 1 .. Len(c[k])
        BY Zenon, <4>1
      <4>3. \E m \in 1 .. Len(s) : c[k][x] = s[m]
        BY Zenon, <1>3, <4>1, <4>2
      <4> QED
        BY Zenon, <4>1, <4>3
    <3>2. s[m].id \in MarkerIds /\ s[m].version = version[s[m].id]
      OBVIOUS
    <3>3. owed'[s[m].id] <= version[s[m].id] /\ owed'[s[m].id] \in Int /\ version[s[m].id] \in Int
      BY <1>2, <1>7, <3>2
    <3> QED
      BY <3>1, <3>2, <3>3
  <2> QED
    BY Zenon, <1>1, <2>1 DEF Newest
<1>9. Books'
  BY <1>2, <1>7 DEF Books, SInv
<1> QED
  BY <1>6, <1>8, <1>9

\* Every entry that was cut and fits is in the datagrams.
LEMMA CutHasAll ==
  ASSUME NEW r \in Rooms, NEW s \in Seq(Entry), NEW m \in 1 .. Len(s), EntrySize[s[m].id] <= r
  PROVE  LET c == CutTo(r, s)[Len(s)]
         IN  \E k \in 1 .. Len(c) : \E x \in 1 .. Len(c[k]) : c[k][x] = s[m]
<1> DEFINE f == CutTo(r, s)
           n == Len(s)
<1>1. r \in Nat /\ n \in Nat /\ m \in 0 .. n /\ n \in m .. n
  BY SenderConstants
<1>2. PICK k \in 1 .. Len(f[m]) : \E x \in 1 .. Len(f[n][k]) : f[n][k][x] = s[m]
  BY ZenonT(60), <1>1, CutReaches
<1>3. Grows(f[m], f[n])
  BY Zenon, <1>1, CutGrows
<1>4. f[m] \in Chunks /\ f[n] \in Chunks
  <2>1. f \in [0 .. n -> Chunks]
    BY Zenon, <1>1, CutSteps
  <2> QED
    BY <1>1, <2>1
<1> HIDE DEF f
<1>5. k \in 1 .. Len(f[n])
  BY <1>3, <1>4, ChunkOf DEF Grows
<1> QED
  BY Zenon, <1>2, <1>5 DEF f

LEMMA DeltaStep == ASSUME SInv, Sender!SendDelta PROVE SInv'
<1> DEFINE E == EntriesOf(version, batch)
           C == CutTo(room, E)[Len(E)]
<1>1. Sender!Cut(Sender!Entries(batch)) = C
  <2>1. Sender!Entries(batch) = E
    BY Zenon, EntriesIs
  <2> QED
    BY Zenon, <2>1, CutIs
<1>2. /\ UNCHANGED <<version, handler, edits, pending, cursor, room, failures, wire, promise>>
      /\ sender = "delta" /\ kind' = "delta" /\ batch' = {} /\ Sender!Begin(C)
      /\ owed' = [i \in MarkerIds |-> IF i \in {j \in batch : EntrySize[j] > room} THEN 0 ELSE owed[i]]
  BY <1>1 DEF Sender!SendDelta, Sender!catalog, Sender!Forgive
<1>3. /\ version \in [MarkerIds -> 0 .. MaxEdits] /\ batch \in SUBSET MarkerIds /\ room \in Rooms
      /\ owed \in [MarkerIds -> 0 .. MaxEdits] /\ \A i \in MarkerIds : owed[i] <= version[i]
      /\ wire \in [MarkerIds -> 0 .. MaxEdits]
  BY DEF SInv, Counts, Books
<1>4. /\ E \in Seq(Entry)
      /\ \A k \in DOMAIN E : E[k].id \in batch /\ E[k].version = version[E[k].id]
      /\ \A i \in batch : version[i] # 0 => \E k \in DOMAIN E : E[k].id = i
  BY Zenon, <1>3, EntriesAre
<1> HIDE DEF E
<1>5. /\ \A m \in 1 .. Len(E) : E[m].id \in MarkerIds /\ E[m].version = version[E[m].id]
      /\ \A i \in batch : version[i] # 0 => \E m \in 1 .. Len(E) : E[m].id = i
  <2>1. DOMAIN E = 1 .. Len(E)
    BY <1>4
  <2>2. \A i \in batch : i \in MarkerIds
    BY <1>3
  <2> QED
    BY Zenon, <1>4, <2>1, <2>2
<1>6. C \in Chunks /\ Len(C) \in Nat
  BY Zenon, <1>3, <1>4, CutTells
<1>7. burst' = C /\ sender' = IF C = <<>> THEN "idle" ELSE "burst"
  BY <1>2 DEF Sender!Begin
<1>8. owed' \in [MarkerIds -> 0 .. MaxEdits] /\ \A i \in MarkerIds : owed'[i] <= owed[i]
  BY <1>2, <1>3, SenderConstants
<1>9. Datagrams' /\ Newest' /\ Books'
  <2>1. Len(C) <= Len(C)
    BY <1>6
  <2> QED
    BY Zenon, <1>2, <1>4, <1>5, <1>6, <1>8, <2>1, BurstIs
<1>10. Counts'
  BY <1>2 DEF SInv, Counts
<1>11. \A i \in batch : EntrySize[i] <= room /\ version[i] # 0 => i \in Among(C)
  <2> SUFFICES ASSUME NEW i \in batch, EntrySize[i] <= room, version[i] # 0 PROVE i \in Among(C)
    BY Zenon
  <2>1. PICK m \in 1 .. Len(E) : E[m].id = i
    BY Zenon, <1>5
  <2>2. \E k \in 1 .. Len(C) : \E x \in 1 .. Len(C[k]) : C[k][x] = E[m]
    BY ZenonT(60), <1>3, <1>4, <2>1, CutHasAll
  <2>3. i \in MarkerIds
    BY <1>3
  <2> QED
    BY Zenon, <2>1, <2>2, <2>3 DEF Among
<1> HIDE DEF C
<1>12. Modes'
  <2>1. C # <<>> <=> Len(C) > 0
    BY <1>6 DEF Chunks
  <2> QED
    BY <1>2, <1>7, <2>1 DEF Modes
<1>13. Queued'
  <2> SUFFICES ASSUME NEW i \in MarkerIds, wire'[i] < owed'[i]
               PROVE  i \in pending' \cup batch' \/ (kind' = "delta" /\ i \in Among(burst'))
    BY Zenon DEF Queued
  <2>1. wire[i] < owed[i]
    BY <1>2, <1>3, <1>8, SenderConstants
  <2>2. i \in pending \cup batch
    <3>1. sender # "burst"
      BY <1>2
    <3>2. Among(burst) = {}
      BY Zenon, <3>1, NoBurst
    <3> QED
      BY <2>1, <3>2 DEF SInv, Queued
  <2>3. CASE i \in batch
    <3>1. owed'[i] # 0
      BY <1>3, <1>8, <1>2, SenderConstants
    <3>2. EntrySize[i] <= room /\ version[i] # 0
      BY <1>2, <1>3, <2>3, <3>1, SenderConstants
    <3> QED
      BY Zenon, <1>2, <1>7, <1>11, <2>3, <3>2
  <2> QED
    BY <1>2, <2>2, <2>3
<1>14. Rotating'
  <2>1. sender # "burst" /\ kind' # "heartbeat"
    BY <1>2
  <2> QED
    BY Zenon, <1>2, <2>1 DEF SInv, Rotating
<1> QED
  BY <1>9, <1>10, <1>12, <1>13, <1>14 DEF SInv

\* As many beats as are said are enough for as many datagrams.
LEMMA BeatsEnough ==
  ASSUME NEW n \in Nat, NEW m \in Nat, m > 0
  PROVE  (n + m - 1) \div m \in Nat /\ n <= ((n + m - 1) \div m) * m
<1> DEFINE a == n + m - 1
           q == a \div m
<1>1. a \in Nat
  OBVIOUS
<1> HIDE DEF a
<1>2. q \in Nat /\ m * q <= a /\ a < m * (q + 1)
  BY <1>1
<1> HIDE DEF q
<1>3. m * q = q * m /\ m * (q + 1) = q * m + m /\ q * m \in Int
  BY <1>2
<1>4. n <= q * m
  BY <1>2, <1>3 DEF a
<1> QED
  BY <1>2, <1>4 DEF q, a


\* A heartbeat, of the catalog in the order from the cursor.
LEMMA HeartbeatCut ==
  ASSUME SInv
  PROVE  LET O == From(version, cursor)
         IN  /\ Sender!Cut(Sender!HeartbeatOrder(Sender!Entries(MarkerIds))) = CutTo(room, O)[Len(O)]
             /\ O \in Seq(Entry)
             /\ \A m \in 1 .. Len(O) :
                  /\ O[m].id \in MarkerIds /\ version[O[m].id] # 0
                  /\ O[m].version = version[O[m].id]
             /\ \A i \in MarkerIds : version[i] # 0 => \E m \in 1 .. Len(O) : O[m].id = i
<1> DEFINE E == Sender!Entries(MarkerIds)
           O == From(version, cursor)
<1>1. E = EntriesOf(version, MarkerIds)
  BY Zenon, EntriesIs
<1>2. Sender!HeartbeatOrder(E) = O
  BY Zenon, <1>1, HeartbeatOrderIs DEF From
<1>3. Sender!Cut(O) = CutTo(room, O)[Len(O)]
  BY Zenon, CutIs
<1>4. cursor \in Nat /\ version \in [MarkerIds -> 0 .. MaxEdits]
  BY SenderConstants DEF SInv, Counts, Books
<1> QED
  BY Zenon, <1>2, <1>3, <1>4, FromIs

\* What is said of a rotation when it begins.
LEMMA SaidOfRotation ==
  ASSUME SInv, NEW C, C = CutTo(room, From(version, cursor))[Len(From(version, cursor))],
         Len(C) > MaxChunks
  PROVE  LET p == Sender!Promised(C)
         IN  /\ p.ids \in SUBSET MarkerIds /\ p.ids # {} /\ p.beats \in Nat
             /\ \A i \in p.ids : EntrySize[i] <= room
             /\ Ahead(version, room, cursor, p.ids, p.beats)
<1> DEFINE O == From(version, cursor)
           ids == {i \in MarkerIds : version[i] # 0 /\ EntrySize[i] <= room}
           beats == (Len(C) + MaxChunks - 1) \div MaxChunks
<1>1. Sender!Promised(C) = [beats |-> beats, ids |-> ids]
  <2>1. {i \in Sender!Present : EntrySize[i] <= room} = ids
    BY DEF Sender!Present
  <2> QED
    BY Zenon, <2>1 DEF Sender!Promised
<1>2. /\ O \in Seq(Entry)
      /\ \A m \in 1 .. Len(O) : O[m].id \in MarkerIds /\ version[O[m].id] # 0
      /\ \A i \in MarkerIds : version[i] # 0 => \E m \in 1 .. Len(O) : O[m].id = i
  BY Zenon, HeartbeatCut
<1>3. room \in Rooms /\ MaxChunks \in Nat /\ MaxChunks > 0
  BY SenderConstants DEF SInv, Counts
<1> HIDE DEF O
<1>4. /\ Len(C) \in Nat
      /\ \A k \in 1 .. Len(C) :
           /\ Len(C[k]) \in Nat /\ Len(C[k]) > 0
           /\ \A x \in 1 .. Len(C[k]) :
                EntrySize[C[k][x].id] <= room /\ \E m \in 1 .. Len(O) : C[k][x] = O[m]
  <2> DEFINE c == CutTo(room, O)[Len(O)]
  <2>1. /\ Len(c) \in Nat
        /\ \A k \in 1 .. Len(c) :
             /\ Len(c[k]) \in Nat /\ Len(c[k]) > 0
             /\ \A x \in 1 .. Len(c[k]) :
                  EntrySize[c[k][x].id] <= room /\ \E m \in 1 .. Len(O) : c[k][x] = O[m]
    BY Zenon, <1>2, <1>3, CutTells
  <2>2. C = c
    BY Zenon DEF O
  <2> HIDE DEF c
  <2> QED
    BY <2>1, <2>2
<1>5. beats \in Nat /\ Len(C) <= beats * MaxChunks
  BY Zenon, <1>3, <1>4, BeatsEnough
<1>6. ids # {}
  <2>1. 1 \in 1 .. Len(C)
    BY <1>3, <1>4
  <2>2. 1 \in 1 .. Len(C[1])
    BY <1>4, <2>1
  <2>3. PICK m \in 1 .. Len(O) : C[1][1] = O[m]
    BY Zenon, <1>4, <2>1, <2>2
  <2>4. EntrySize[C[1][1].id] <= room
    BY Zenon, <1>4, <2>1, <2>2
  <2>5. O[m].id \in MarkerIds /\ version[O[m].id] # 0 /\ EntrySize[O[m].id] <= room
    BY Zenon, <1>2, <2>3, <2>4
  <2> QED
    BY Zenon, <2>5
<1>7. Ahead(version, room, cursor, ids, beats)
  <2>1. Len(O) \in 0 .. Len(O)
    BY <1>2
  <2>2. \A i \in ids : \E m \in 1 .. Len(O) : O[m].id = i
    BY Zenon, <1>2
  <2> HIDE DEF ids, beats
  <2>3. Len(CutTo(room, O)[Len(O)]) <= beats * MaxChunks
    BY Zenon, <1>5 DEF O
  <2> QED
    BY Zenon, <2>1, <2>2, <2>3 DEF Ahead, O
<1> HIDE DEF beats
<1> QED
  BY <1>1, <1>5, <1>6, <1>7

LEMMA HeartbeatStep == ASSUME SInv, Sender!SendHeartbeat PROVE SInv'
<1> DEFINE O == From(version, cursor)
           C == CutTo(room, O)[Len(O)]
           W == Sender!Window(C)
<1>1. /\ Sender!Cut(Sender!HeartbeatOrder(Sender!Entries(MarkerIds))) = C
      /\ O \in Seq(Entry)
      /\ \A m \in 1 .. Len(O) : O[m].id \in MarkerIds /\ O[m].version = version[O[m].id]
  BY Zenon, HeartbeatCut
<1>2. /\ UNCHANGED <<version, handler, edits, pending, batch, cursor, room, failures, wire, owed>>
      /\ sender = "idle" /\ kind' = "heartbeat" /\ Sender!Begin(W)
      /\ promise' = IF promise = None /\ Len(C) > MaxChunks THEN Sender!Promised(C) ELSE promise
  BY Zenon, <1>1 DEF Sender!SendHeartbeat, Sender!catalog
<1>3. /\ version \in [MarkerIds -> 0 .. MaxEdits] /\ room \in Rooms /\ room \in Nat /\ cursor \in Nat
      /\ owed \in [MarkerIds -> 0 .. MaxEdits] /\ batch = {}
  BY <1>2, SenderConstants DEF SInv, Counts, Books, Modes
<1> HIDE DEF O
<1>4. C \in Chunks /\ Len(C) \in Nat
  BY Zenon, <1>1, <1>3, CutTells
<1>5. W \in Chunks /\ Len(W) \in Nat /\ Len(W) <= Len(C) /\ \A k \in 1 .. Len(W) : W[k] = C[k]
  <2> HIDE DEF C
  <2>1. W \in Chunks /\ Len(W) = (IF Len(C) < MaxChunks THEN Len(C) ELSE MaxChunks)
        /\ \A k \in 1 .. Len(W) : W[k] = C[k]
    BY Zenon, <1>4, WindowIs
  <2> QED
    BY <1>4, <2>1, SenderConstants
<1>6. Datagrams' /\ Newest' /\ Books'
  <2>1. owed' \in [MarkerIds -> 0 .. MaxEdits] /\ \A i \in MarkerIds : owed'[i] <= owed[i]
    BY <1>2, <1>3, SenderConstants
  <2> HIDE DEF W
  <2> QED
    BY Zenon, <1>1, <1>2, <1>5, <2>1, BurstIs
<1>7. burst' = W /\ sender' = IF W = <<>> THEN "idle" ELSE "burst"
  BY <1>2 DEF Sender!Begin
<1>8. Rotating'
  <2> SUFFICES ASSUME promise' # None PROVE Rotating'
    BY Zenon DEF Rotating
  <2> DEFINE p == promise'
  <2>1. /\ p.ids \in SUBSET MarkerIds /\ p.ids # {} /\ p.beats \in Nat
        /\ \A i \in p.ids : EntrySize[i] <= room
        /\ Ahead(version, room, cursor, p.ids, p.beats)
    <3>1. CASE promise = None /\ Len(C) > MaxChunks
      BY Zenon, <1>2, <3>1, SaidOfRotation DEF O
    <3>2. CASE ~ (promise = None /\ Len(C) > MaxChunks)
      <4>1. p = promise /\ promise # None /\ sender # "burst"
        BY <1>2, <3>2
      <4> QED
        BY Zenon, <4>1 DEF SInv, Rotating
    <3> QED
      BY <3>1, <3>2
  <2>2. /\ p.beats > 0 /\ Len(W) > 0
        /\ Ahead(version, room, LastId(W), p.ids \ Among(W), p.beats - 1)
    <3> DEFINE ids == p.ids
               beats == p.beats
    <3> HIDE DEF ids, beats
    <3>1. /\ ids \in SUBSET MarkerIds /\ ids # {} /\ beats \in Nat
          /\ \A i \in ids : EntrySize[i] <= room
          /\ Ahead(version, room, cursor, ids, beats)
      BY Zenon, <2>1 DEF ids, beats
    <3>2. /\ beats > 0 /\ Len(W) > 0
          /\ Ahead(version, room, LastId(W), ids \ Among(W), beats - 1)
      BY Zenon, <1>3, <3>1, Beat DEF O
    <3> QED
      BY Zenon, <3>2 DEF ids, beats
  <2>3. sender' = "burst"
    <3>1. W # <<>>
      <4> HIDE DEF W
      <4> QED
        BY <2>2
    <3> QED
      BY Zenon, <1>7, <3>1
  <2> QED
    BY Zenon, <1>2, <1>7, <2>1, <2>2, <2>3 DEF Rotating
<1>9. Counts'
  BY <1>2 DEF SInv, Counts
<1> HIDE DEF W
<1>10. Modes'
  <2>1. W # <<>> <=> Len(W) > 0
    BY <1>5 DEF Chunks
  <2> QED
    BY <1>2, <1>3, <1>7, <2>1 DEF Modes
<1>11. Queued'
  <2>1. sender # "burst"
    BY <1>2
  <2>2. Among(burst) = {}
    BY Zenon, <2>1, NoBurst
  <2> QED
    BY <1>2, <2>2 DEF SInv, Queued
<1> QED
  BY <1>6, <1>8, <1>9, <1>10, <1>11 DEF SInv


\* A datagram goes out: the burst without its first.
LEMMA OneGoes ==
  ASSUME SInv, sender = "burst"
  PROVE  LET h == Head(burst) t == Tail(burst)
         IN  /\ h = burst[1] /\ h \in Seq(Entry) /\ Len(h) \in Nat /\ Len(h) > 0
             /\ burst \in Chunks /\ Len(burst) \in Nat /\ Len(burst) > 0
             /\ t \in Chunks /\ Len(t) \in Nat /\ Len(t) = Len(burst) - 1
             /\ \A k \in 1 .. Len(t) : t[k] = burst[k + 1] /\ k + 1 \in 1 .. Len(burst)
             /\ Sender!Sent = {h[x].id : x \in 1 .. Len(h)}
             /\ Sender!Sent \subseteq MarkerIds
             /\ Among(burst) = Sender!Sent \cup Among(t)
<1> DEFINE h == Head(burst)
           t == Tail(burst)
<1>1. burst \in Chunks /\ Len(burst) \in Nat /\ Len(burst) > 0
  BY ChunkOf DEF SInv, Modes, Datagrams
<1>2. h = burst[1] /\ 1 \in 1 .. Len(burst) /\ burst # <<>>
  BY <1>1 DEF Chunks
<1>3. h \in Seq(Entry) /\ Len(h) \in Nat /\ Len(h) > 0
  BY Zenon, <1>1, <1>2, ChunkOf DEF SInv, Datagrams
<1>4. /\ t \in Chunks /\ Len(t) \in Nat /\ Len(t) = Len(burst) - 1
      /\ \A k \in 1 .. Len(t) : t[k] = burst[k + 1] /\ k + 1 \in 1 .. Len(burst)
  BY <1>1, <1>2 DEF Chunks
<1>5. Sender!Sent = {h[x].id : x \in 1 .. Len(h)}
  <2>1. DOMAIN h = 1 .. Len(h)
    BY <1>3
  <2> QED
    BY Zenon, <2>1 DEF Sender!Sent
<1> HIDE DEF h, t
<1>6. ASSUME NEW x \in 1 .. Len(h) PROVE h[x].id \in MarkerIds
  BY Zenon, <1>1, <1>2, EntriesIn
<1>7. Among(burst) = Sender!Sent \cup Among(t)
  <2>1. ASSUME NEW i \in Among(burst), i \notin Sender!Sent PROVE i \in Among(t)
    <3>1. PICK k \in 1 .. Len(burst) : \E x \in 1 .. Len(burst[k]) : burst[k][x].id = i
      BY Zenon, <2>1 DEF Among
    <3>2. k # 1
      BY Zenon, <1>2, <1>5, <2>1, <3>1
    <3>3. k - 1 \in 1 .. Len(t) /\ (k - 1) + 1 = k
      BY <1>1, <1>4, <3>1, <3>2
    <3>4. t[k - 1] = burst[k]
      BY Zenon, <1>4, <3>3
    <3>5. i \in MarkerIds
      BY Zenon, <2>1 DEF Among
    <3> QED
      BY Zenon, <3>1, <3>3, <3>4, <3>5 DEF Among
  <2>2. ASSUME NEW i \in Among(t) PROVE i \in Among(burst)
    BY ZenonT(60), <1>4, <2>2 DEF Among
  <2>3. ASSUME NEW i \in Sender!Sent PROVE i \in Among(burst)
    BY Zenon, <1>2, <1>5, <1>6, <2>3 DEF Among
  <2> QED
    BY Zenon, <2>1, <2>2, <2>3
<1>8. Sender!Sent \subseteq MarkerIds
  BY Zenon, <1>5, <1>6
<1> QED
  BY Zenon, <1>1, <1>2, <1>3, <1>4, <1>5, <1>7, <1>8 DEF h, t

\* What the wire has of an entry that went out is the version in the datagram.
LEMMA WireHas ==
  ASSUME SInv, Sender!SendTo
  PROVE  /\ wire' \in [MarkerIds -> 0 .. MaxEdits]
         /\ \A i \in Sender!Sent : i \in pending \/ wire'[i] >= owed[i]
         /\ \A i \in MarkerIds \ Sender!Sent : wire'[i] = wire[i]
<1> DEFINE h == Head(burst)
           V(i) == (CHOOSE e \in Sender!ToSet(h) : e.id = i).version
<1>1. /\ sender = "burst"
      /\ wire' = [i \in MarkerIds |-> IF i \in Sender!Sent THEN V(i) ELSE wire[i]]
  BY Zenon DEF Sender!SendTo
<1>2. /\ h = burst[1] /\ h \in Seq(Entry) /\ burst \in Chunks /\ 1 \in 1 .. Len(burst)
      /\ Sender!Sent = {h[x].id : x \in 1 .. Len(h)} /\ Sender!Sent \subseteq MarkerIds
  <2>1. /\ h = burst[1] /\ h \in Seq(Entry) /\ burst \in Chunks /\ Len(burst) \in Nat /\ Len(burst) > 0
        /\ Sender!Sent = {h[x].id : x \in 1 .. Len(h)} /\ Sender!Sent \subseteq MarkerIds
    BY Zenon, <1>1, OneGoes
  <2> QED
    BY <2>1
<1>3. Sender!ToSet(h) = {h[x] : x \in 1 .. Len(h)}
  <2>1. DOMAIN h = 1 .. Len(h)
    BY <1>2
  <2> QED
    BY Zenon, <2>1 DEF Sender!ToSet
<1> HIDE DEF h
<1>4. ASSUME NEW i \in Sender!Sent
      PROVE  V(i) \in 0 .. MaxEdits /\ (i \in pending \/ V(i) >= owed[i])
  <2>1. PICK y \in 1 .. Len(h) : h[y].id = i
    BY Zenon, <1>2
  <2>2. \E e \in Sender!ToSet(h) : e.id = i
    BY Zenon, <1>3, <2>1
  <2> DEFINE e == CHOOSE e \in Sender!ToSet(h) : e.id = i
  <2>3. e \in Sender!ToSet(h) /\ e.id = i
    BY Zenon, <2>2
  <2> HIDE DEF e
  <2>4. PICK x \in 1 .. Len(h) : e = h[x]
    BY Zenon, <1>3, <2>3
  <2>5. e.version \in 0 .. MaxEdits
    BY Zenon, <1>2, <2>4, EntriesIn
  <2>6. e.id \in pending \/ e.version >= owed[e.id]
    BY Zenon, <1>2, <2>4 DEF SInv, Newest
  <2> QED
    BY Zenon, <2>3, <2>5, <2>6 DEF e
<1> HIDE DEF V
<1>5. wire \in [MarkerIds -> 0 .. MaxEdits]
  BY DEF SInv, Books
<1> QED
  BY Zenon, <1>1, <1>2, <1>4, <1>5

LEMMA SentStep == ASSUME SInv, Sender!SendTo PROVE SInv'
<1> DEFINE h == Head(burst)
           t == Tail(burst)
<1>1. /\ UNCHANGED <<version, handler, edits, batch, kind, room, failures, owed>>
      /\ sender = "burst" /\ burst' = t
      /\ promise' = Sender!Kept(promise)
      /\ IF Len(burst) = 1
         THEN /\ sender' = "idle" /\ pending' = pending
              /\ cursor' = IF kind = "heartbeat" THEN h[Len(h)].id ELSE cursor
         ELSE UNCHANGED <<sender, cursor, pending>>
  BY Zenon DEF Sender!SendTo, Sender!Finish, Sender!catalog, Sender!Last
<1>2. /\ h = burst[1] /\ h \in Seq(Entry) /\ Len(h) \in Nat /\ Len(h) > 0
      /\ burst \in Chunks /\ Len(burst) \in Nat /\ Len(burst) > 0
      /\ t \in Chunks /\ Len(t) \in Nat /\ Len(t) = Len(burst) - 1
      /\ \A k \in 1 .. Len(t) : t[k] = burst[k + 1] /\ k + 1 \in 1 .. Len(burst)
      /\ Sender!Sent \subseteq MarkerIds /\ Among(burst) = Sender!Sent \cup Among(t)
  BY Zenon, <1>1, OneGoes
<1>3. pending' = pending
  BY Zenon, <1>1
<1> HIDE DEF h, t
<1>4. 1 \in 1 .. Len(burst) /\ Len(h) \in 1 .. Len(h)
  BY <1>2
<1>5. h[Len(h)].id \in MarkerIds
  BY Zenon, <1>2, <1>4, EntriesIn
<1>6. Counts'
  BY <1>1, <1>3, <1>5 DEF SInv, Counts
<1>7. Modes'
  <2>1. CASE Len(burst) = 1
    <3>1. sender' = "idle" /\ batch' = {} /\ ~ (Len(t) > 0)
      BY <1>1, <1>2, <2>1 DEF SInv, Modes
    <3> QED
      BY <1>1, <3>1 DEF SInv, Modes
  <2>2. CASE Len(burst) # 1
    <3>1. Len(t) > 0 /\ sender' = sender
      BY <1>1, <1>2, <2>2
    <3> QED
      BY <1>1, <3>1 DEF SInv, Modes
  <2> QED
    BY <2>1, <2>2
<1>8. /\ wire' \in [MarkerIds -> 0 .. MaxEdits]
      /\ \A i \in Sender!Sent : i \in pending \/ wire'[i] >= owed[i]
      /\ \A i \in MarkerIds \ Sender!Sent : wire'[i] = wire[i]
  BY Zenon, WireHas
<1>9. Books'
  BY Zenon, <1>1, <1>8 DEF SInv, Books
<1>10. Datagrams'
  BY Zenon, <1>1, <1>2 DEF SInv, Datagrams
<1>11. Newest'
  BY ZenonT(60), <1>1, <1>2, <1>3 DEF SInv, Newest
<1>12. Queued'
  <2> SUFFICES ASSUME NEW i \in MarkerIds, wire'[i] < owed'[i], i \notin pending \cup batch
               PROVE  kind = "delta" /\ i \in Among(t)
    BY Zenon, <1>1, <1>3 DEF Queued
  <2>1. i \notin Sender!Sent
    <3>1. ~ (wire'[i] >= owed[i])
      BY <1>1, <1>8, SenderConstants DEF SInv, Books
    <3> QED
      BY <1>8, <3>1
  <2>2. wire[i] < owed[i]
    BY <1>1, <1>8, <2>1
  <2>3. kind = "delta" /\ i \in Among(burst)
    BY Zenon, <2>2 DEF SInv, Queued
  <2> QED
    BY <1>2, <2>1, <2>3
<1>13. Rotating'
  <2> SUFFICES ASSUME promise' # None PROVE Rotating'
    BY Zenon DEF Rotating
  <2>1. promise # None
    BY Zenon, <1>1 DEF Sender!Kept
  <2>2. CASE kind # "heartbeat"
    <3>1. kind = "delta"
      BY <2>2 DEF SInv, Modes
    <3>2. promise' = promise
      BY Zenon, <1>1, <3>1 DEF Sender!Kept
    <3>3. cursor' = cursor
      BY Zenon, <1>1, <2>2
    <3> QED
      BY Zenon, <1>1, <2>2, <3>2, <3>3 DEF SInv, Rotating
  <2>3. CASE kind = "heartbeat"
    <3> DEFINE ids == promise.ids
               beats == promise.beats
               left == ids \ Sender!Sent
    <3>1. /\ ids \in SUBSET MarkerIds /\ ids # {} /\ beats \in Nat /\ beats > 0
          /\ \A i \in ids : EntrySize[i] <= room
          /\ Ahead(version, room, LastId(burst), ids \ Among(burst), beats - 1)
      BY Zenon, <1>1, <2>1, <2>3 DEF SInv, Rotating
    <3>2. /\ left # {} /\ promise'.ids = left
          /\ promise'.beats = IF Len(burst) = 1 THEN beats - 1 ELSE beats
      <4>1. kind # "delta"
        BY <2>3
      <4>2. promise' = LET rest == [ids |-> left, beats |-> IF Len(burst) = 1 THEN beats - 1 ELSE beats]
                       IN IF rest.ids = {} THEN None ELSE rest
        BY Zenon, <1>1, <2>1, <4>1 DEF Sender!Kept
      <4> HIDE DEF left, beats
      <4> QED
        BY <4>2
    <3> HIDE DEF ids, beats
    <3>3. left \in SUBSET MarkerIds /\ \A i \in left : EntrySize[i] <= room
      BY Zenon, <3>1
    <3>4. left \ Among(t) = ids \ Among(burst)
      BY Zenon, <1>2
    <3> HIDE DEF left
    <3>5. CASE Len(burst) = 1
      <4>1. Len(t) = 0 /\ LastId(burst) = h[Len(h)].id
        <5>1. LastId(burst) = burst[1][Len(burst[1])].id
          BY Zenon, <3>5 DEF LastId
        <5> QED
          BY <1>2, <3>5, <5>1
      <4>2. Among(t) = {}
        BY <4>1 DEF Among
      <4>3. left = ids \ Among(burst)
        BY Zenon, <3>4, <4>2
      <4>4. cursor' = h[Len(h)].id /\ sender' = "idle" /\ promise'.beats = beats - 1
        BY Zenon, <1>1, <2>3, <3>2, <3>5
      <4>5. Ahead(version, room, cursor', left, beats - 1)
        BY Zenon, <3>1, <4>1, <4>3, <4>4
      <4>6. beats - 1 \in Nat /\ cursor' \in Nat /\ room \in Nat
        <5>1. beats \in Nat /\ beats > 0
          BY Zenon, <3>1
        <5>2. cursor' \in MarkerIds
          BY Zenon, <1>5, <4>4
        <5>3. room \in Rooms
          BY DEF SInv, Counts
        <5> QED
          BY <5>1, <5>2, <5>3, SenderConstants
      <4>7. beats - 1 > 0
        <5>1. version \in [MarkerIds -> 0 .. MaxEdits]
          BY DEF SInv, Books
        <5> QED
          BY Zenon, <3>2, <3>3, <4>5, <4>6, <5>1, Beat
      <4>8. ~ (sender' = "burst")
        BY <4>4
      <4> QED
        BY Zenon, <1>1, <3>2, <3>3, <4>4, <4>5, <4>6, <4>7, <4>8 DEF Rotating
    <3>6. CASE Len(burst) # 1
      <4>1. Len(t) \in 1 .. Len(t) /\ Len(t) + 1 = Len(burst)
        BY <1>2, <3>6
      <4>2. t[Len(t)] = burst[Len(burst)]
        BY Zenon, <1>2, <4>1
      <4>3. LastId(t) = LastId(burst)
        BY Zenon, <4>2 DEF LastId
      <4>4. sender' = "burst" /\ promise'.beats = beats
        BY Zenon, <1>1, <3>2, <3>6
      <4>5. Ahead(version, room, LastId(t), left \ Among(t), beats - 1)
        BY Zenon, <3>1, <3>4, <4>3
      <4> QED
        BY Zenon, <1>1, <2>3, <3>1, <3>2, <3>3, <4>4, <4>5 DEF Rotating
    <3> QED
      BY <3>5, <3>6
  <2> QED
    BY <2>2, <2>3
<1> QED
  BY <1>6, <1>7, <1>9, <1>10, <1>11, <1>12, <1>13 DEF SInv

LEMMA InBurstIs ==
  ASSUME burst \in Chunks, NEW k \in 1 .. Len(burst), NEW x \in 1 .. Len(burst[k])
  PROVE  burst[k][x] \in Sender!InBurst
<1> DEFINE c == burst[k]
<1>1. k \in DOMAIN burst /\ x \in DOMAIN c
  BY DEF Chunks
<1>2. c \in Sender!ToSet(burst)
  BY Zenon, <1>1 DEF Sender!ToSet
<1>3. c[x] \in Sender!ToSet(c)
  BY Zenon, <1>1 DEF Sender!ToSet
<1> HIDE DEF c
<1>4. c[x] \in Sender!InBurst
  BY <1>2, <1>3 DEF Sender!InBurst
<1> QED
  BY Zenon, <1>4 DEF c

LEMMA FailStep == ASSUME SInv, Sender!SendFails PROVE SInv'
<1> DEFINE dropped == {e.id : e \in Sender!InBurst}
<1>1. /\ UNCHANGED <<version, handler, edits, pending, batch, kind, cursor, room, wire>>
      /\ sender = "burst" /\ failures < MaxFailures /\ failures' = failures + 1
      /\ burst' = <<>> /\ sender' = "idle" /\ promise' = None
      /\ IF kind = "delta" THEN owed' = [i \in MarkerIds |-> IF i \in dropped THEN 0 ELSE owed[i]]
         ELSE owed' = owed
  BY DEF Sender!SendFails, Sender!catalog, Sender!Forgive
<1>2. owed \in [MarkerIds -> 0 .. MaxEdits] /\ batch = {}
  BY <1>1 DEF SInv, Books, Modes
<1>3. owed' \in [MarkerIds -> 0 .. MaxEdits] /\ \A i \in MarkerIds : owed'[i] <= owed[i]
  BY <1>1, <1>2, SenderConstants
<1>4. Counts' /\ Rotating'
  BY <1>1, SenderConstants DEF SInv, Counts, Rotating
<1>5. Modes'
  BY <1>1, <1>2 DEF SInv, Modes
<1>6. Books'
  BY <1>1, <1>2, <1>3, SenderConstants DEF SInv, Books
<1>7. Datagrams' /\ Newest'
  <2>1. <<>> \in Chunks /\ Len(<<>>) = 0
    BY DEF Chunks
  <2> QED
    BY <1>1, <2>1 DEF Datagrams, Newest
<1>8. ASSUME NEW i \in Among(burst) PROVE i \in dropped
  <2>1. burst \in Chunks
    BY DEF SInv, Datagrams
  <2>2. PICK k \in 1 .. Len(burst) : \E x \in 1 .. Len(burst[k]) : burst[k][x].id = i
    BY Zenon, <1>8 DEF Among
  <2>3. PICK x \in 1 .. Len(burst[k]) : burst[k][x].id = i
    BY <2>2
  <2>4. burst[k][x] \in Sender!InBurst
    BY Zenon, <2>1, InBurstIs
  <2> QED
    BY Zenon, <2>3, <2>4
<1> HIDE DEF dropped
<1>9. Queued'
  <2> SUFFICES ASSUME NEW i \in MarkerIds, wire'[i] < owed'[i] PROVE i \in pending
    BY Zenon, <1>1 DEF Queued
  <2>1. wire[i] < owed[i] /\ wire[i] \in Nat
    BY <1>1, <1>2, <1>3, SenderConstants DEF SInv, Books
  <2>2. i \in pending \/ (kind = "delta" /\ i \in Among(burst))
    BY <1>2, <2>1 DEF SInv, Queued
  <2>3. CASE kind = "delta" /\ i \in Among(burst)
    <3>1. owed'[i] = 0 /\ wire'[i] = wire[i]
      BY <1>1, <1>8, <2>3
    <3> QED
      BY <2>1, <3>1
  <2> QED
    BY <2>2, <2>3
<1> QED
  BY <1>4, <1>5, <1>6, <1>7, <1>9 DEF SInv


LEMMA SenderInit == Sender!Init => SInv
<1> SUFFICES ASSUME Sender!Init PROVE SInv
  OBVIOUS
<1>1. /\ version \in [MarkerIds -> {0, 1}] /\ handler = None /\ pending = {}
      /\ sender = "idle" /\ batch = {} /\ burst = <<>> /\ kind = "heartbeat" /\ cursor = 0
      /\ room \in Rooms /\ edits = 1 /\ failures = 0
      /\ wire = [i \in MarkerIds |-> 0] /\ owed = [i \in MarkerIds |-> 0] /\ promise = None
  BY DEF Sender!Init
<1>2. Counts
  BY <1>1, SenderConstants DEF Counts
<1>3. Modes
  BY <1>1 DEF Modes
<1>4. Books
  BY <1>1, SenderConstants DEF Books
<1>5. Datagrams /\ Newest
  BY <1>1 DEF Datagrams, Newest, Chunks
<1>6. Queued
  BY <1>1 DEF Queued
<1>7. Rotating
  BY Zenon, <1>1 DEF Rotating
<1> QED
  BY <1>2, <1>3, <1>4, <1>5, <1>6, <1>7 DEF SInv

LEMMA SenderNext == SInv /\ [Sender!Next]_(Sender!vars) => SInv'
<1> SUFFICES ASSUME SInv, [Sender!Next]_(Sender!vars) PROVE SInv'
  OBVIOUS
<1>1. ASSUME NEW i \in MarkerIds, Sender!Upsert(i) PROVE SInv'
  <2>1. handler' \in MarkerIds \cup {None}
    BY <1>1 DEF Sender!Upsert
  <2>2. Sender!Set(i) /\ UNCHANGED <<pending, Sender!sender, room, failures, wire, owed>>
    BY <1>1 DEF Sender!Upsert
  <2> QED
    BY Zenon, <2>1, <2>2, SetStep
<1>2. ASSUME NEW i \in MarkerIds, Sender!Merge(i) PROVE SInv'
  <2>1. handler' \in MarkerIds \cup {None}
    BY <1>2 DEF Sender!Merge, SInv, Counts
  <2>2. Sender!Set(i) /\ UNCHANGED <<pending, Sender!sender, room, failures, wire, owed>>
    BY <1>2 DEF Sender!Merge
  <2> QED
    BY Zenon, <2>1, <2>2, SetStep
<1>3. CASE UNCHANGED Sender!vars
  <2>1. UNCHANGED <<version, handler, pending, sender, batch, burst, kind, cursor, room, edits, failures,
                    wire, owed, promise>>
    BY <1>3 DEF Sender!vars, Sender!catalog, Sender!sender
  <2>2. Counts' /\ Modes' /\ Books' /\ Datagrams'
    BY Zenon, <2>1 DEF SInv, Counts, Modes, Books, Datagrams
  <2>3. Newest' /\ Queued' /\ Rotating'
    BY Zenon, <2>1 DEF SInv, Newest, Queued, Rotating
  <2> QED
    BY <2>2, <2>3 DEF SInv
<1> QED
  BY Zenon, <1>1, <1>2, <1>3, RequestStep, SelectStep, ConsumeStep, DeltaStep, HeartbeatStep, SentStep,
     FailStep DEF Sender!Next, Sender!SendStep

LEMMA SenderInvariant == Sender!Spec => []SInv
<1>1. Sender!Init => SInv
  BY SenderInit
<1>2. SInv /\ [Sender!Next]_(Sender!vars) => SInv'
  BY SenderNext
<1> QED
  BY <1>1, <1>2, PTL DEF Sender!Spec

LEMMA SenderTypes == SInv => Sender!TypeOK
<1> SUFFICES ASSUME SInv PROVE Sender!TypeOK
  OBVIOUS
<1>1. /\ version \in [MarkerIds -> 0 .. MaxEdits]
      /\ wire \in [MarkerIds -> 0 .. MaxEdits] /\ owed \in [MarkerIds -> 0 .. MaxEdits]
      /\ edits \in 0 .. MaxEdits /\ failures \in 0 .. MaxFailures
      /\ handler \in MarkerIds \cup {None} /\ pending \subseteq MarkerIds /\ batch \subseteq MarkerIds
      /\ cursor \in {0} \cup MarkerIds /\ room \in Rooms
      /\ sender \in {"idle", "delta", "burst"} /\ kind \in {"delta", "heartbeat"}
  BY DEF SInv, Books, Counts, Modes
<1>2. burst \in Chunks /\ Len(burst) \in Nat
  BY ChunkOf DEF SInv, Datagrams
<1>3. (sender = "burst") = (burst # <<>>) /\ (sender = "delta") = (batch # {})
  <2>1. burst # <<>> <=> Len(burst) > 0
    BY <1>2 DEF Chunks
  <2>2. (sender = "burst" <=> Len(burst) > 0) /\ (sender = "delta" <=> batch # {})
    BY Zenon DEF SInv, Modes
  <2> QED
    BY Zenon, <2>1, <2>2
<1>4. ASSUME NEW c \in Sender!ToSet(burst)
      PROVE  /\ c # <<>> /\ \E r \in Rooms : Sender!Length(c) <= r
             /\ \A e \in Sender!ToSet(c) : e.id \in MarkerIds /\ e.version \in 0 .. MaxEdits
  <2>1. DOMAIN burst = 1 .. Len(burst)
    BY <1>2 DEF Chunks
  <2>2. PICK k \in 1 .. Len(burst) : c = burst[k]
    BY Zenon, <2>1 DEF Sender!ToSet
  <2>3. c \in Seq(Entry) /\ Len(c) > 0 /\ \E r \in Rooms : Sender!Length(c) <= r
    BY Zenon, <1>2, <2>2, ChunkOf DEF SInv, Datagrams
  <2>4. c # <<>> /\ DOMAIN c = 1 .. Len(c)
    BY <2>3
  <2>5. ASSUME NEW e \in Sender!ToSet(c) PROVE e.id \in MarkerIds /\ e.version \in 0 .. MaxEdits
    <3>1. PICK x \in 1 .. Len(c) : e = c[x]
      BY Zenon, <2>4 DEF Sender!ToSet
    <3>2. x \in 1 .. Len(burst[k]) /\ e = burst[k][x]
      BY Zenon, <2>2, <3>1
    <3> QED
      BY Zenon, <1>2, <3>2, EntriesIn
  <2> QED
    BY Zenon, <2>3, <2>4, <2>5
<1> QED
  BY Zenon, <1>1, <1>3, <1>4 DEF Sender!TypeOK, Sender!Versions

LEMMA SenderWord == SInv => SenderKeepsItsWord
<1> SUFFICES ASSUME SInv PROVE SenderKeepsItsWord
  OBVIOUS
<1>1. Sender!RotationKeepsWord
  BY Zenon DEF SInv, Rotating, Sender!RotationKeepsWord
<1>2. ASSUME NEW i \in MarkerIds, wire[i] < owed[i], i \notin pending \cup batch
      PROVE  \E e \in Sender!InBurst : e.id = i /\ e.version >= owed[i]
  <2>1. i \in Among(burst)
    BY Zenon, <1>2 DEF SInv, Queued
  <2>2. burst \in Chunks
    BY DEF SInv, Datagrams
  <2>3. PICK k \in 1 .. Len(burst) : \E x \in 1 .. Len(burst[k]) : burst[k][x].id = i
    BY Zenon, <2>1 DEF Among
  <2>4. PICK x \in 1 .. Len(burst[k]) : burst[k][x].id = i
    BY <2>3
  <2>5. i \in pending \/ burst[k][x].version >= owed[i]
    BY Zenon, <2>4 DEF SInv, Newest
  <2>6. burst[k][x] \in Sender!InBurst
    BY Zenon, <2>2, InBurstIs
  <2> QED
    BY Zenon, <1>2, <2>4, <2>5, <2>6
<1> QED
  BY Zenon, <1>1, <1>2 DEF SenderKeepsItsWord, Sender!DeltaNotLost

\* The send thread's variables keep their types, and no datagram of a burst is empty
\* or larger than a peer gets unfragmented.
THEOREM SenderTypeCorrect == Sender!Spec => []Sender!TypeOK
<1>1. SInv => Sender!TypeOK
  BY SenderTypes
<1> QED
  BY <1>1, SenderInvariant, PTL

\* An edit that a delta was asked for goes out, and a rotation is through in as many
\* heartbeats as the log says, for every catalog, room and limit of datagrams.
THEOREM SenderKeepsWord == Sender!Spec => []SenderKeepsItsWord
<1>1. SInv => SenderKeepsItsWord
  BY SenderWord
<1> QED
  BY <1>1, SenderInvariant, PTL

-----------------------------------------------------------------------------
(* The composition: the components that stand still are in initial states, *)
(* and a step of one is a stutter of the others.                           *)

LEMMA StandingIs ==
  /\ FollowStands => IInv
  /\ SenderStands => SInv
  /\ ReceiverStands => RInv
<1>1. FollowStands => Init
  BY DEF FollowStands, Init
<1>2. SenderStands => Sender!Init
  <2> SUFFICES ASSUME SenderStands PROVE Sender!Init
    OBVIOUS
  <2>1. Rooms # {}
    BY NetworkAssumption DEF Sender!CatalogSenderAssumption
  <2>2. room \in Rooms
    BY Zenon, <2>1 DEF SenderStands
  <2>3. version \in [MarkerIds -> {0, 1}]
    BY DEF SenderStands
  <2> QED
    BY Zenon, <2>2, <2>3 DEF SenderStands, Sender!Init
<1>3. ReceiverStands => Receiver!Init
  BY DEF ReceiverStands, Receiver!Init, Receiver!Threads
<1> QED
  BY Zenon, <1>1, <1>2, <1>3, InitSound, SenderInit, ReceiverInit

NetworkInv == IInv /\ SInv /\ RInv

LEMMA NetworkStarts == NetworkInit => NetworkInv
BY Zenon, StandingIs, InitSound, SenderInit, ReceiverInit DEF NetworkInit, NetworkInv

LEMMA NetworkSteps == NetworkInv /\ [NetworkNext]_all => NetworkInv'
<1> SUFFICES ASSUME NetworkInv, [NetworkNext]_all PROVE NetworkInv'
  OBVIOUS
<1>1. [Next]_vars /\ [Sender!Next]_(Sender!vars) /\ [Receiver!Next]_(Receiver!vars)
  <2>1. UNCHANGED sending => UNCHANGED Sender!vars
    BY DEF sending, Sender!vars, Sender!catalog, Sender!sender
  <2>2. UNCHANGED receiving => UNCHANGED Receiver!vars
    BY DEF receiving, Receiver!vars
  <2>3. UNCHANGED all => UNCHANGED <<vars, sending, receiving>>
    BY DEF all
  <2> QED
    BY Zenon, <2>1, <2>2, <2>3 DEF NetworkNext, OfFollow, OfSender, OfReceiver
<1> QED
  BY Zenon, <1>1, StepSound, SenderNext, ReceiverNext DEF NetworkInv

LEMMA NetworkHolds == NetworkSpec => []NetworkInv
<1> QED
  BY NetworkStarts, NetworkSteps, PTL DEF NetworkSpec

\* Whatever of the network a behaviour is of, all of it keeps its types.
THEOREM NetworkTypeCorrect == NetworkSpec => []NetworkTypeOK
<1>1. NetworkInv => NetworkTypeOK
  BY Zenon, FollowTypes, SenderTypes, HeardIsTypeOK DEF NetworkInv, NetworkTypeOK
<1> QED
  BY <1>1, NetworkHolds, PTL

\* And its safety invariants: no loop goes on where its service is not any more
\* without being told, and the send thread keeps its word.
THEOREM NetworkIsSafe == NetworkSpec => [](NoRepointLost /\ SenderKeepsItsWord)
<1>1. NetworkInv => NoRepointLost /\ SenderKeepsItsWord
  BY Zenon, SenderWord DEF NetworkInv, IInv
<1> QED
  BY <1>1, NetworkHolds, PTL
=============================================================================
