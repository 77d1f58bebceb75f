---------------------------- MODULE SafetyProofs ----------------------------
(***************************************************************************)
(* Proofs about PsnOutput, for any streams, addresses, sockets and threads *)
(* and any bounds: the type invariant, that the output's socket is open on *)
(* the address it was last bound to, and that every open socket has an     *)
(* owner and every generation one opener at most.  And about               *)
(* ControllerSlots, for any controllers, slots, clicks and edits: no       *)
(* controller sits twice, a pinned slot is its socket's, and nobody moves  *)
(* but by a pin.                                                           *)
(***************************************************************************)
EXTENDS SafetyMC, FiniteSetTheorems, FunctionTheorems, SequenceTheorems, TLAPS

-----------------------------------------------------------------------------
(* The PSN output.                                                         *)

Stopping == {"join", "drain", "teardown", "close", "restart"}
Starting == {"open", "opened", "launch"}

\* Only the last generation may still be running.
StoppedInOrder ==
  /\ stopped \subseteq 0..gen
  /\ \A g \in Starts : g < gen => g \in stopped
  /\ main \in Stopping => gen \in stopped
  /\ main \in Starting => gen # 0

\* Between two generations there is neither a socket nor a stack.
Emptied ==
  (main \in {"close", "restart"} \/ gen = 0) => stack = {} /\ socket = None

\* What main holds is the socket it has opened or the stack it closes.
MainSound ==
  /\ mine # {} => main \in {"opened", "close"}
  /\ main = "opened" => \E s \in Sockets : mine = {s} /\ fds[s] = source

\* A thread that may still open a socket for a running generation.
IsOpener(k) == Live(k) /\ threads[k].gen \notin stopped /\ threads[k].pc # "done"

\* It is the one _socket_thread points at, works on the address the output is
\* bound to, and holds a socket from the open to the delivery.
ThreadSound(k) ==
  /\ threads[k].gen <= gen
  /\ threads[k].gen = gen => main \notin {"open", "opened"}
  /\ threads[k].pc \in {"new", "wait"} => MayTryAgain(threads[k])
  /\ threads[k].pc \in {"opening", "opened"} =>
       /\ threads[k].addr \in Addrs
       /\ threads[k].gen \notin stopped => threads[k].addr = source
  /\ threads[k].sock # None <=> threads[k].pc = "opened"
  /\ threads[k].pc = "opened" => fds[threads[k].sock] = threads[k].addr
  /\ IsOpener(k) => pointer = k

ThreadsSound ==
  /\ \A k \in Threads : Live(k) => ThreadSound(k)
  /\ pointer # None => Live(pointer)

\* A send thread that holds the lock keeps main out of the teardown, so it is
\* one of the last generation, which has no other thread with the lock.
HasLock(g, x) == senders[g][x].pc \in {"checked", "spawned"}

SenderSound(g, x) ==
  /\ (g > gen \/ (g = gen /\ main \in Starting)) => senders[g][x] = Ended
  /\ senders[g][x].pc \notin {"spawned", "closing"} => senders[g][x].old = {}
  /\ HasLock(g, x) => g = gen /\ main \notin {"close", "restart"}
  /\ At(g, x, "checked") => pointer = None

SendersSound ==
  /\ \A g \in Starts, x \in Streams : SenderSound(g, x)
  /\ \A g, h \in Starts, x, y \in Streams :
       HasLock(g, x) /\ HasLock(h, y) => g = h /\ x = y

\* A socket is open from the moment somebody holds it, and one holds it.
Holds(k, s) == Live(k) /\ threads[k].sock = s
IsOld(g, x, s) == s \in senders[g][x].old

Owned(s) ==
  \/ s \in stack \cup mine
  \/ \E k \in Threads : Holds(k, s)
  \/ \E g \in Starts, x \in Streams : IsOld(g, x, s)

OneOwner(s) ==
  /\ s \in stack => s \notin mine
  /\ \A k \in Threads : Holds(k, s) => s \notin stack \cup mine
  /\ \A j, k \in Threads : Holds(j, s) /\ Holds(k, s) => j = k
  /\ \A g \in Starts, x \in Streams : IsOld(g, x, s) =>
       s \notin stack \cup mine /\ \A k \in Threads : ~Holds(k, s)
  /\ \A g, h \in Starts, x, y \in Streams :
       IsOld(g, x, s) /\ IsOld(h, y, s) => g = h /\ x = y

OwnersSound == \A s \in Sockets : OneOwner(s) /\ (Owned(s) <=> fds[s] # None)

IInv ==
  /\ TypeOK /\ StoppedInOrder /\ Emptied /\ MainSound
  /\ ThreadsSound /\ SendersSound /\ OwnersSound /\ SocketOnSource

-----------------------------------------------------------------------------
(* The type invariant.                                                     *)

SenderRecords ==
  [pc: {"loop", "frame", "failed", "checked", "spawned", "closing", "ended"},
   old: SUBSET Sockets]

\* A thread that is made has the type of its record, and its fields.
LEMMA ThreadMade ==
  ASSUME NEW g \in Starts, NEW kind \in {"retry", "recover"}, NEW n \in 0..MaxRetries,
         NEW pc \in {"new", "wait"}
  PROVE  /\ Thread(g, kind, n, pc) \in ThreadRecords
         /\ Thread(g, kind, n, pc) # None
BY PsnOutputAssumption DEF Thread, ThreadRecords

LEMMA ThreadFields ==
  ASSUME TypeOK, NEW k \in Threads, Live(k)
  PROVE  /\ threads[k] \in ThreadRecords
         /\ threads[k].gen \in Starts
         /\ threads[k].kind \in {"retry", "recover"}
         /\ threads[k].tries \in 0..MaxRetries
         /\ threads[k].pc \in {"new", "wait", "opening", "opened", "done"}
         /\ threads[k].addr \in Addrs \cup {None}
         /\ threads[k].sock \in Sockets \cup {None}
<1>1. threads[k] \in ThreadRecords
  BY DEF TypeOK, Live
<1>2. QED
  BY <1>1 DEF ThreadRecords

\* What the update of one thread leaves of the others.
LEMMA ThreadUpdate ==
  ASSUME TypeOK, NEW k \in Threads, NEW r \in ThreadRecords \cup {None},
         threads' = [threads EXCEPT ![k] = r]
  PROVE  /\ threads' \in [Threads -> ThreadRecords \cup {None}]
         /\ threads'[k] = r
         /\ \A j \in Threads \ {k} : threads'[j] = threads[j]
BY DEF TypeOK

LEMMA EndFacts ==
  ASSUME TypeOK, NEW k \in Threads, End(k)
  PROVE  /\ threads' \in [Threads -> ThreadRecords \cup {None}]
         /\ pointer' \in Threads \cup {None}
         /\ threads'[k] = None
         /\ \A j \in Threads \ {k} : threads'[j] = threads[j]
         /\ pointer' = IF pointer = k THEN None ELSE pointer
<1>1. threads' = [threads EXCEPT ![k] = None]
  BY DEF End
<1>2. pointer' = IF pointer = k THEN None ELSE pointer
  BY DEF End
<1>3. QED
  BY <1>1, <1>2, ThreadUpdate DEF TypeOK

LEMMA CloseFacts ==
  ASSUME TypeOK, NEW S, Close(S)
  PROVE  /\ fds' \in [Sockets -> Addrs \cup {None}]
         /\ \A s \in Sockets : fds'[s] = IF s \in S THEN None ELSE fds[s]
BY DEF TypeOK, Close

\* What the update of one send thread leaves of the others.
LEMMA SenderUpdate ==
  ASSUME TypeOK, NEW g \in Starts, NEW x \in Streams, NEW r \in SenderRecords,
         senders' = [senders EXCEPT ![g][x] = r]
  PROVE  /\ senders' \in [Starts -> [Streams -> SenderRecords]]
         /\ senders'[g][x] = r
         /\ \A h \in Starts, y \in Streams : h # g \/ y # x => senders'[h][y] = senders[h][y]
<1>1. senders \in [Starts -> [Streams -> SenderRecords]]
  BY DEF TypeOK, SenderRecords
<1>2. QED
  BY <1>1

LEMMA SenderFields ==
  ASSUME TypeOK, NEW g \in Starts, NEW x \in Streams
  PROVE  /\ senders[g][x] \in SenderRecords
         /\ senders[g][x].old \in SUBSET Sockets
         /\ senders[g][x] = [pc |-> senders[g][x].pc, old |-> senders[g][x].old]
<1>1. senders \in [Starts -> [Streams -> SenderRecords]]
  BY DEF TypeOK, SenderRecords
<1>2. QED
  BY <1>1 DEF SenderRecords

LEMMA GotoFacts ==
  ASSUME TypeOK, NEW g \in Starts, NEW x \in Streams,
         NEW pc \in {"loop", "frame", "failed", "checked", "spawned", "closing", "ended"},
         Goto(g, x, pc)
  PROVE  /\ senders' \in [Starts -> [Streams -> SenderRecords]]
         /\ senders'[g][x] = [pc |-> pc, old |-> senders[g][x].old]
         /\ \A h \in Starts, y \in Streams : h # g \/ y # x => senders'[h][y] = senders[h][y]
<1> DEFINE r == [pc |-> pc, old |-> senders[g][x].old]
<1>1. r \in SenderRecords
  BY SenderFields DEF SenderRecords
<1>2. [senders[g][x] EXCEPT !.pc = pc] = r
  <2>1. senders[g][x] \in [pc: {"loop", "frame", "failed", "checked", "spawned", "closing", "ended"},
                           old: SUBSET Sockets]
    BY SenderFields DEF SenderRecords
  <2>2. QED
    BY <2>1
<1>3. senders' = [senders EXCEPT ![g][x] = r]
  BY <1>2 DEF Goto
<1>4. senders \in [Starts -> [Streams -> SenderRecords]]
  BY DEF TypeOK, SenderRecords
<1> HIDE DEF r
<1>5. /\ senders' \in [Starts -> [Streams -> SenderRecords]] /\ senders'[g][x] = r
      /\ \A h \in Starts, y \in Streams : h # g \/ y # x => senders'[h][y] = senders[h][y]
  BY <1>1, <1>3, <1>4
<1>6. QED
  BY <1>5 DEF r

LEMMA GenRuns ==
  ASSUME IInv, main \in Starting
  PROVE  gen \in Starts
BY PsnOutputAssumption DEF IInv, StoppedInOrder, TypeOK, Starts

LEMMA InitType == Init => TypeOK
<1>1. MaxStarts \in Nat /\ MaxFlaps \in Nat
  BY PsnOutputAssumption
<1> SUFFICES ASSUME Init PROVE TypeOK
  OBVIOUS
<1>2. senders \in [Starts -> [Streams ->
         [pc: {"loop", "frame", "failed", "checked", "spawned", "closing", "ended"},
          old: SUBSET Sockets]]]
  <2>1. Ended \in [pc: {"loop", "frame", "failed", "checked", "spawned", "closing", "ended"},
                   old: SUBSET Sockets]
    BY DEF Ended
  <2>2. QED
    BY <2>1 DEF Init
<1>3. up \subseteq Addrs /\ connected \subseteq Starts /\ mine \subseteq Sockets
  BY DEF Init
<1>4. fds \in [Sockets -> Addrs \cup {None}] /\ threads \in [Threads -> ThreadRecords \cup {None}]
  BY DEF Init
<1>5. running \in BOOLEAN
  BY Zenon DEF Init
<1>6. gen \in 0..MaxStarts /\ stopped \subseteq 0..MaxStarts /\ flaps \in 0..MaxFlaps
  BY <1>1 DEF Init
<1>7. /\ main = "idle" /\ target = None /\ source \in Addrs
      /\ socket = None /\ stack = {} /\ pointer = None
  BY Zenon DEF Init
<1>8. QED
  BY <1>2, <1>3, <1>4, <1>5, <1>6, <1>7 DEF TypeOK



-----------------------------------------------------------------------------
(* The parts of the invariant that a step leaves alone.                    *)

LEMMA OwnersFrame ==
  ASSUME OwnersSound, UNCHANGED <<stack, mine, threads, senders, fds>>
  PROVE  OwnersSound'
BY DEF OwnersSound, OneOwner, Owned, Holds, IsOld, Live

LEMMA ThreadsFrame ==
  ASSUME ThreadsSound, UNCHANGED <<threads, gen, fds, source, stopped, pointer>>,
         main' \in {"open", "opened"} => main \in {"open", "opened"}
  PROVE  ThreadsSound'
BY DEF ThreadsSound, ThreadSound, IsOpener, Live, MayTryAgain

LEMMA SendersFrame ==
  ASSUME SendersSound, UNCHANGED <<senders, gen, pointer>>,
         main' \in Starting => main \in Starting,
         main' \in {"close", "restart"} => main \in {"close", "restart"} \/ LockFree
  PROVE  SendersSound'
BY DEF SendersSound, SenderSound, HasLock, At, LockFree

-----------------------------------------------------------------------------
(* The steps of main.                                                      *)

LEMMA StartSound == ASSUME IInv, Start PROVE IInv'
<1> USE PsnOutputAssumption
<1>1. /\ main \in {"idle", "restart"} /\ (main = "idle" => gen = 0)
      /\ gen' = gen + 1 /\ gen < MaxStarts /\ stack' = {} /\ main' = "open"
      /\ UNCHANGED <<mine, source, socket, stopped, fds, threads, pointer, senders>>
  BY DEF Start
<1>2. gen \in Nat /\ stack = {} /\ socket = None /\ mine = {}
  BY <1>1 DEF IInv, Emptied, MainSound, TypeOK
<1>3. TypeOK'
  BY DEF IInv, TypeOK, Start, world
<1>4. StoppedInOrder' /\ Emptied' /\ MainSound' /\ SocketOnSource'
  BY <1>1, <1>2
     DEF IInv, StoppedInOrder, Emptied, MainSound, SocketOnSource, Starts, Stopping, Starting
<1>5. ThreadsSound'
  <2>1. \A k \in Threads : Live(k) => threads[k].gen \in Nat /\ threads[k].gen <= gen
    BY ThreadFields DEF IInv, ThreadsSound, ThreadSound, Starts
  <2>2. QED
    BY <1>1, <1>2, <2>1
       DEF IInv, ThreadsSound, ThreadSound, IsOpener, Live, MayTryAgain
<1>6. SendersSound'
  <2>1. \A g \in Starts, x \in Streams : ~HasLock(g, x)
    BY <1>1 DEF IInv, SendersSound, SenderSound, Starts
  <2>2. \A g \in Starts : g >= gen + 1 => g > gen
    BY <1>2 DEF Starts
  <2>3. ASSUME NEW g \in Starts, NEW x \in Streams PROVE SenderSound(g, x)' /\ ~HasLock(g, x)'
    <3>1. SenderSound(g, x) /\ ~HasLock(g, x) /\ (g > gen' \/ g = gen' => g > gen)
      BY <1>1, <1>2, <2>1, <2>2 DEF IInv, SendersSound, Starts
    <3>2. senders' = senders
      BY <1>1
    <3>3. QED
      BY <3>1, <3>2 DEF SenderSound, HasLock, At
  <2>4. QED
    BY <2>3 DEF SendersSound
<1>7. OwnersSound'
  BY <1>1, <1>2, OwnersFrame DEF IInv
<1>8. QED
  BY <1>3, <1>4, <1>5, <1>6, <1>7 DEF IInv

\* Stop, Rebind, Verify, Signal and the joins only move main on.
LEMMA MoveSound ==
  ASSUME IInv,
         \/ Stop \/ (\E a \in Addrs : Rebind(a)) \/ Verify \/ Signal
         \/ JoinSocketThread \/ JoinRaises \/ JoinSenders
  PROVE  IInv'
<1>1. /\ main \in {"idle", "verify", "signal", "join", "drain"}
      /\ main' \in {"idle", "signal", "join", "drain", "teardown"}
      /\ main' \in Stopping => main \in Stopping \/ gen \in stopped'
      /\ stopped' = stopped \/ stopped' = stopped \cup {gen}
      /\ pointer' = pointer \/ (main = "join" /\ pointer' = None)
  <2>1. CASE Stop \/ Verify \/ \E a \in Addrs : Rebind(a)
    BY <2>1 DEF Stop, Verify, Rebind, signals, Stopping
  <2>2. CASE Signal
    BY <2>2 DEF Signal, Stopping
  <2>3. CASE JoinSocketThread \/ JoinRaises \/ JoinSenders
    BY <2>3 DEF JoinSocketThread, JoinRaises, JoinSenders, signals, Stopping
  <2>4. QED
    BY <2>1, <2>2, <2>3
<1>u. UNCHANGED <<mine, gen, source, socket, stack, connected, fds, threads, senders, up, flaps>>
  <2>1. CASE Stop \/ Verify \/ \E a \in Addrs : Rebind(a)
    BY <2>1 DEF Stop, Verify, Rebind, signals, shared, world
  <2>2. CASE Signal \/ JoinSocketThread \/ JoinRaises \/ JoinSenders
    BY <2>2 DEF Signal, JoinSocketThread, JoinRaises, JoinSenders, signals, shared, world
  <2>3. QED
    BY <2>1, <2>2
<1>2. running' \in BOOLEAN
  BY Zenon DEF IInv, TypeOK, Stop, Rebind, Verify, Signal, JoinSocketThread, JoinRaises,
               JoinSenders, signals
<1>3. target' \in Addrs \cup {None}
  BY DEF IInv, TypeOK, Stop, Rebind, Verify, Signal, JoinSocketThread, JoinRaises, JoinSenders
<1>4. gen \in Nat /\ stopped \subseteq 0..gen /\ gen \in 0..MaxStarts
  BY PsnOutputAssumption DEF IInv, TypeOK, StoppedInOrder
<1>5. stopped' \subseteq 0..gen /\ stopped' \subseteq 0..MaxStarts
  <2>1. 0..gen \subseteq 0..MaxStarts /\ gen \in 0..gen
    BY <1>4, PsnOutputAssumption
  <2>2. QED
    BY <1>1, <1>u, <1>4, <2>1
<1>6. TypeOK'
  BY <1>1, <1>u, <1>2, <1>3, <1>5 DEF IInv, TypeOK
<1>7. StoppedInOrder' /\ Emptied' /\ MainSound' /\ SocketOnSource'
  BY <1>1, <1>u, <1>5
     DEF IInv, StoppedInOrder, Emptied, MainSound, SocketOnSource, Stopping, Starting
<1>8. ThreadsSound'
  <2>1. ASSUME NEW k \in Threads, Live(k) PROVE ThreadSound(k)'
    <3>1. ThreadSound(k) /\ threads[k].gen \in Starts /\ threads[k].gen <= gen
      BY <2>1, ThreadFields DEF IInv, ThreadsSound, ThreadSound
    <3>2. IsOpener(k)' => IsOpener(k) /\ threads[k].gen \notin stopped'
      BY <1>1, <1>u DEF IsOpener, Live
    <3>3. main = "join" => threads[k].gen \in stopped
      BY <1>4, <3>1 DEF IInv, StoppedInOrder, Stopping, Starts
    <3>4. QED
      BY <1>1, <1>u, <3>1, <3>2, <3>3 DEF ThreadSound, MayTryAgain, IsOpener
  <2>2. (pointer # None => Live(pointer))'
    BY <1>1, <1>u DEF IInv, ThreadsSound, Live
  <2>3. QED
    BY <1>1, <1>u, <2>1, <2>2 DEF ThreadsSound, Live
<1>9. SendersSound'
  BY <1>1, <1>u DEF IInv, SendersSound, SenderSound, HasLock, At, Starting
<1>10. OwnersSound'
  BY <1>1, <1>u, OwnersFrame DEF IInv
<1>11. QED
  BY <1>6, <1>7, <1>8, <1>9, <1>10 DEF IInv

LEMMA OpenSound == ASSUME IInv, Open PROVE IInv'
<1> USE PsnOutputAssumption
<1>1. /\ main = "open" /\ main' \in {"opened", "launch"} /\ gen \in Starts /\ mine = {}
      /\ UNCHANGED <<target, gen, stopped, source, socket, stack, connected, senders, up, flaps>>
  BY GenRuns DEF Open, signals, shared, world, Starting, IInv, MainSound
<1>2. running' \in BOOLEAN
  BY Zenon DEF IInv, TypeOK, Open, signals
<1>3. CASE main' = "opened"
  <2>1. PICK s \in Sockets : /\ fds[s] = None /\ fds' = [fds EXCEPT ![s] = source] /\ mine' = {s}
                             /\ UNCHANGED <<threads, pointer>>
    BY <1>3 DEF Open
  <2>2. /\ fds' \in [Sockets -> Addrs \cup {None}] /\ source \in Addrs /\ source # None
        /\ fds'[s] = source /\ \A r \in Sockets \ {s} : fds'[r] = fds[r]
    BY <2>1 DEF IInv, TypeOK
  <2>3. TypeOK'
    BY <1>1, <1>2, <1>3, <2>1, <2>2 DEF IInv, TypeOK
  <2>4. ~Owned(s)
    BY <2>1 DEF IInv, OwnersSound
  <2>5. StoppedInOrder' /\ Emptied' /\ MainSound' /\ SocketOnSource'
    BY <1>1, <1>3, <2>1, <2>2, <2>4
       DEF IInv, StoppedInOrder, Emptied, MainSound, SocketOnSource, Stopping, Starting, Owned, Starts,
           TypeOK
  <2>6. ThreadsSound'
    <3>1. ASSUME NEW k \in Threads, Live(k) PROVE ThreadSound(k)'
      <4>1. ThreadSound(k) /\ threads[k].sock \in Sockets \cup {None} /\ threads[k].sock # s
        BY <3>1, <2>1, <2>4, ThreadFields DEF IInv, ThreadsSound, Owned, Holds
      <4>2. QED
        BY <1>1, <1>3, <2>1, <2>2, <4>1 DEF ThreadSound, MayTryAgain, IsOpener, Live
    <3>2. QED
      BY <2>1, <3>1 DEF IInv, ThreadsSound, Live
  <2>7. SendersSound'
    BY <1>1, <1>3, <2>1, SendersFrame DEF IInv, Starting
  <2>8. OwnersSound'
    <3>1. ASSUME NEW r \in Sockets, r # s
          PROVE  OneOwner(r)' /\ (Owned(r) <=> fds[r] # None)'
      <4>1. OneOwner(r) /\ (Owned(r) <=> fds[r] # None) /\ r \notin mine'
        BY <2>1, <3>1 DEF IInv, OwnersSound
      <4>2. fds'[r] = fds[r]
        BY <2>2, <3>1
      <4>3. QED
        BY <1>1, <2>1, <4>1, <4>2 DEF OneOwner, Owned, Holds, IsOld, Live
    <3>2. OneOwner(s)' /\ Owned(s)' /\ fds'[s] # None
      BY <1>1, <2>1, <2>2, <2>4 DEF OneOwner, Owned, Holds, IsOld, Live
    <3>3. QED
      BY <3>1, <3>2 DEF OwnersSound
  <2>9. QED
    BY <2>3, <2>5, <2>6, <2>7, <2>8 DEF IInv
<1>4. CASE main' = "launch"
  <2> DEFINE r == Thread(gen, "retry", 1, "wait")
  <2>1. PICK k \in Threads : /\ ~Live(k) /\ threads' = [threads EXCEPT ![k] = r] /\ pointer' = k
                             /\ UNCHANGED <<fds, mine>>
    BY <1>4 DEF Open
  <2>2. r \in ThreadRecords /\ r # None
    <3>1. 1 \in 0..MaxRetries
      OBVIOUS
    <3>2. QED
      BY <1>1, <3>1, ThreadMade
  <2>3. /\ threads' \in [Threads -> ThreadRecords \cup {None}] /\ threads'[k] = r
        /\ \A j \in Threads \ {k} : threads'[j] = threads[j]
    BY <2>1, <2>2, ThreadUpdate DEF IInv
  <2>4. TypeOK'
    BY <1>1, <1>2, <1>4, <2>1, <2>3 DEF IInv, TypeOK
  <2>5. StoppedInOrder' /\ Emptied' /\ MainSound' /\ SocketOnSource'
    BY <1>1, <1>4, <2>1
       DEF IInv, StoppedInOrder, Emptied, MainSound, SocketOnSource, Stopping, Starting, Starts
  <2>6. ThreadsSound'
    <3>1. r.gen = gen /\ r.kind = "retry" /\ r.tries = 1 /\ r.pc = "wait" /\ r.sock = None
      BY DEF Thread
    <3>2. ThreadSound(k)'
      BY <1>1, <1>4, <2>1, <2>3, <3>1 DEF ThreadSound, MayTryAgain, IsOpener, Starts
    <3>3. ASSUME NEW j \in Threads, Live(j), j # k PROVE ThreadSound(j)'
      <4>1. ThreadSound(j) /\ threads[j].gen \in Starts /\ threads[j].gen <= gen
            /\ threads[j].gen # gen
        BY <3>3, <1>1, ThreadFields DEF IInv, ThreadsSound, ThreadSound
      <4>2. threads[j].gen \in stopped
        BY <1>1, <4>1 DEF IInv, StoppedInOrder, Starts
      <4>3. QED
        BY <1>1, <1>4, <2>1, <2>3, <3>3, <4>1, <4>2 DEF ThreadSound, MayTryAgain, IsOpener
    <3>4. QED
      BY <2>1, <2>2, <2>3, <3>2, <3>3 DEF ThreadsSound, Live
  <2>7. SendersSound'
    <3>1. ASSUME NEW g \in Starts, NEW x \in Streams PROVE ~HasLock(g, x)
      BY <1>1 DEF IInv, SendersSound, SenderSound, HasLock, Starting, Ended
    <3>2. QED
      BY <1>1, <1>4, <3>1 DEF IInv, SendersSound, SenderSound, HasLock, At, Starting
  <2>8. OwnersSound'
    <3>1. \A j \in Threads, s \in Sockets : Holds(j, s)' <=> Holds(j, s)
      <4>1. r.sock = None
        BY DEF Thread
      <4>2. QED
        BY <2>1, <2>2, <2>3, <4>1 DEF Holds, Live
    <3>2. QED
      BY <1>1, <2>1, <3>1 DEF IInv, OwnersSound, OneOwner, Owned, IsOld
  <2>9. QED
    BY <2>4, <2>5, <2>6, <2>7, <2>8 DEF IInv
<1>5. QED
  BY <1>1, <1>3, <1>4

LEMMA HandOverSound == ASSUME IInv, HandOver PROVE IInv'
<1> USE PsnOutputAssumption
<1>1. /\ main = "opened" /\ main' = "launch" /\ mine' = {} /\ gen \in Starts
      /\ UNCHANGED <<target, gen, stopped, source, fds, threads, pointer, senders, up, flaps>>
  BY GenRuns DEF HandOver, Adopt, signals, world, Starting
<1>2. PICK s \in Sockets : /\ mine = {s} /\ fds[s] = source /\ socket' = s
                           /\ stack' = stack \cup {s} /\ connected' = connected \cup {gen}
  BY <1>1 DEF IInv, MainSound, HandOver, Adopt
<1>3. running' \in BOOLEAN
  BY Zenon DEF IInv, TypeOK, HandOver, signals
<1>4. TypeOK'
  BY <1>1, <1>2, <1>3 DEF IInv, TypeOK
<1>5. StoppedInOrder' /\ Emptied' /\ MainSound' /\ SocketOnSource'
  BY <1>1, <1>2
     DEF IInv, StoppedInOrder, Emptied, MainSound, SocketOnSource, Stopping, Starting, Starts
<1>6. ThreadsSound'
  BY <1>1, ThreadsFrame DEF IInv
<1>7. SendersSound'
  BY <1>1, SendersFrame DEF IInv, Starting
<1>8. OwnersSound'
  BY <1>1, <1>2 DEF IInv, OwnersSound, OneOwner, Owned, Holds, IsOld, Live
<1>9. QED
  BY <1>4, <1>5, <1>6, <1>7, <1>8 DEF IInv

LEMMA LaunchSound == ASSUME IInv, Launch PROVE IInv'
<1> USE PsnOutputAssumption
<1> DEFINE r == [pc |-> "loop", old |-> {}]
<1>1. /\ main = "launch" /\ main' \in {"idle", "verify"} /\ gen \in Starts
      /\ senders' = [senders EXCEPT ![gen] = [x \in Streams |-> r]]
      /\ UNCHANGED <<target, mine, gen, stopped, source, socket, stack, connected, fds, threads,
                     pointer, up, flaps>>
  BY GenRuns DEF Launch, shared, world, Starting
<1>2. running' \in BOOLEAN
  BY Zenon DEF Launch
<1>3. senders \in [Starts -> [Streams -> SenderRecords]] /\ r \in SenderRecords
  BY DEF IInv, TypeOK, SenderRecords
<1>4. /\ senders' \in [Starts -> [Streams -> SenderRecords]]
      /\ \A x \in Streams : senders'[gen][x] = r
      /\ \A g \in Starts \ {gen}, x \in Streams : senders'[g][x] = senders[g][x]
  BY <1>1, <1>3
<1>5. \A x \in Streams : senders[gen][x] = Ended
  BY <1>1 DEF IInv, SendersSound, SenderSound, Starting
<1>6. TypeOK'
  BY <1>1, <1>2, <1>4 DEF IInv, TypeOK, SenderRecords
<1>7. StoppedInOrder' /\ Emptied' /\ MainSound' /\ SocketOnSource'
  BY <1>1 DEF IInv, StoppedInOrder, Emptied, MainSound, SocketOnSource, Stopping, Starting, Starts
<1>8. ThreadsSound'
  BY <1>1, ThreadsFrame DEF IInv
<1>9. SendersSound'
  <2>1. ASSUME NEW g \in Starts, NEW x \in Streams PROVE SenderSound(g, x)'
    <3>1. CASE g = gen
      BY <1>1, <1>4, <3>1 DEF SenderSound, HasLock, At, Starting, Starts
    <3>2. CASE g # gen
      <4>1. SenderSound(g, x)
        BY DEF IInv, SendersSound
      <4>2. QED
        BY <1>1, <1>4, <3>2, <4>1 DEF SenderSound, HasLock, At, Starting
    <3>3. QED
      BY <3>1, <3>2
  <2>2. \A g \in Starts, x \in Streams : HasLock(g, x)' <=> HasLock(g, x)
    BY <1>1, <1>4, <1>5 DEF HasLock, Ended
  <2>3. QED
    BY <2>1, <2>2 DEF IInv, SendersSound
<1>10. OwnersSound'
  <2>1. ASSUME NEW g \in Starts, NEW x \in Streams PROVE senders'[g][x].old = senders[g][x].old
    <3>1. g = gen => senders'[g][x] = r /\ senders[g][x] = Ended
      BY <1>1, <1>4, <1>5
    <3>2. r.old = Ended.old
      BY DEF Ended
    <3>3. QED
      BY <3>1, <3>2, <1>4
  <2>2. QED
    BY <1>1, <2>1 DEF IInv, OwnersSound, OneOwner, Owned, Holds, IsOld, Live
<1>11. QED
  BY <1>6, <1>7, <1>8, <1>9, <1>10 DEF IInv

LEMMA TeardownSound == ASSUME IInv, Teardown PROVE IInv'
<1> USE PsnOutputAssumption
<1>1. /\ main = "teardown" /\ main' = "close" /\ LockFree
      /\ socket' = None /\ mine' = stack /\ stack' = {}
      /\ UNCHANGED <<target, gen, stopped, source, connected, fds, threads, pointer, senders,
                     up, flaps>>
  BY DEF Teardown, signals, world
<1>2. running' \in BOOLEAN
  BY Zenon DEF IInv, TypeOK, Teardown, signals
<1>3. TypeOK'
  BY <1>1, <1>2 DEF IInv, TypeOK
<1>4. StoppedInOrder' /\ Emptied' /\ MainSound' /\ SocketOnSource'
  BY <1>1
     DEF IInv, StoppedInOrder, Emptied, MainSound, SocketOnSource, Stopping, Starting, Starts
<1>5. ThreadsSound'
  BY <1>1, ThreadsFrame DEF IInv
<1>6. SendersSound'
  BY <1>1, SendersFrame DEF IInv, Starting
<1>7. OwnersSound'
  <2>1. mine = {}
    BY <1>1 DEF IInv, MainSound
  <2>2. QED
    BY <1>1, <2>1 DEF IInv, OwnersSound, OneOwner, Owned, Holds, IsOld, Live
<1>8. QED
  BY <1>3, <1>4, <1>5, <1>6, <1>7 DEF IInv

LEMMA CloseStackSound == ASSUME IInv, CloseStack PROVE IInv'
<1> USE PsnOutputAssumption
<1>1. /\ main = "close" /\ main' \in {"idle", "restart"} /\ mine' = {} /\ Close(mine)
      /\ UNCHANGED <<target, gen, stopped, connected, socket, stack, threads, pointer, senders,
                     up, flaps>>
  BY DEF CloseStack, signals, world
<1>2. source' = source \/ source' \in Addrs
  BY DEF CloseStack, IInv, TypeOK
<1>3. running' \in BOOLEAN
  BY Zenon DEF IInv, TypeOK, CloseStack, signals
<1>4. /\ fds' \in [Sockets -> Addrs \cup {None}]
      /\ \A s \in Sockets : fds'[s] = IF s \in mine THEN None ELSE fds[s]
  BY <1>1, CloseFacts DEF IInv
<1>5. TypeOK'
  BY <1>1, <1>2, <1>3, <1>4 DEF IInv, TypeOK
<1>6. StoppedInOrder' /\ Emptied' /\ MainSound' /\ SocketOnSource'
  BY <1>1, <1>2
     DEF IInv, StoppedInOrder, Emptied, MainSound, SocketOnSource, Stopping, Starting, Starts
<1>7. ThreadsSound'
  <2>1. ASSUME NEW k \in Threads, Live(k) PROVE ThreadSound(k)'
    <3>1. /\ ThreadSound(k) /\ threads[k].gen \in Starts /\ threads[k].gen <= gen
          /\ threads[k].sock \in Sockets \cup {None}
      BY <2>1, ThreadFields DEF IInv, ThreadsSound, ThreadSound
    <3>2. threads[k].gen \in stopped
      BY <1>1, <3>1 DEF IInv, TypeOK, StoppedInOrder, Stopping, Starts
    <3>3. threads[k].sock \in Sockets => fds'[threads[k].sock] = fds[threads[k].sock]
      BY <2>1, <1>4 DEF IInv, OwnersSound, OneOwner, Holds
    <3>4. QED
      BY <1>1, <3>1, <3>2, <3>3 DEF ThreadSound, MayTryAgain, IsOpener
  <2>2. QED
    BY <1>1, <2>1 DEF IInv, ThreadsSound, Live
<1>8. SendersSound'
  BY <1>1, SendersFrame DEF IInv, Starting
<1>9. OwnersSound'
  <2>1. ASSUME NEW s \in Sockets PROVE OneOwner(s)' /\ (Owned(s) <=> fds[s] # None)'
    BY <1>1, <1>4 DEF IInv, OwnersSound, OneOwner, Owned, Holds, IsOld, Live
  <2>2. QED
    BY <2>1 DEF OwnersSound
<1>10. QED
  BY <1>5, <1>6, <1>7, <1>8, <1>9 DEF IInv

-----------------------------------------------------------------------------
(* The steps of the retry and recovery threads.                            *)

\* A thread that ends with no socket in its hands leaves nothing behind.
LEMMA EndSound ==
  ASSUME IInv, NEW k \in Threads, Live(k), threads[k].sock = None, End(k),
         UNCHANGED <<callers, signals, shared, fds, senders, world>>
  PROVE  IInv'
<1> USE PsnOutputAssumption
<1>1. UNCHANGED <<main, target, mine, gen, stopped, source, socket, stack, connected, fds,
                  senders, up, flaps>>
  BY DEF callers, signals, shared, world
<1>2. running' \in BOOLEAN
  BY Zenon DEF IInv, TypeOK, signals
<1>3. /\ threads' \in [Threads -> ThreadRecords \cup {None}]
      /\ pointer' \in Threads \cup {None}
      /\ threads'[k] = None /\ \A j \in Threads \ {k} : threads'[j] = threads[j]
      /\ pointer' = IF pointer = k THEN None ELSE pointer
  BY EndFacts DEF IInv
<1>4. TypeOK'
  BY <1>1, <1>2, <1>3 DEF IInv, TypeOK
<1>5. StoppedInOrder' /\ Emptied' /\ MainSound' /\ SocketOnSource'
  BY <1>1 DEF IInv, StoppedInOrder, Emptied, MainSound, SocketOnSource
<1>6. ThreadsSound'
  BY <1>1, <1>3 DEF IInv, ThreadsSound, ThreadSound, IsOpener, Live, MayTryAgain
<1>7. SendersSound'
  BY <1>1, <1>3 DEF IInv, SendersSound, SenderSound, HasLock, At
<1>8. OwnersSound'
  <2>1. \A j \in Threads, s \in Sockets : Holds(j, s)' <=> Holds(j, s)
    BY <1>3 DEF Holds, Live
  <2>2. QED
    BY <1>1, <2>1 DEF IInv, OwnersSound, OneOwner, Owned, IsOld
<1>9. QED
  BY <1>4, <1>5, <1>6, <1>7, <1>8 DEF IInv

\* Nor does one that goes on without one, where its record stays sound.
LEMMA GoOnSound ==
  ASSUME IInv, NEW k \in Threads, Live(k), threads[k].sock = None,
         NEW r \in ThreadRecords, threads' = [threads EXCEPT ![k] = r],
         r.gen = threads[k].gen, r.sock = None, ThreadSound(k)',
         UNCHANGED <<callers, signals, shared, fds, pointer, senders, world>>
  PROVE  IInv'
<1> USE PsnOutputAssumption
<1>1. UNCHANGED <<main, target, mine, gen, stopped, source, socket, stack, connected, fds,
                  pointer, senders, up, flaps>>
  BY DEF callers, signals, shared, world
<1>2. running' \in BOOLEAN
  BY Zenon DEF IInv, TypeOK, signals
<1>3. /\ threads' \in [Threads -> ThreadRecords \cup {None}]
      /\ threads'[k] = r /\ \A j \in Threads \ {k} : threads'[j] = threads[j]
  BY ThreadUpdate DEF IInv
<1>4. TypeOK'
  BY <1>1, <1>2, <1>3 DEF IInv, TypeOK
<1>5. StoppedInOrder' /\ Emptied' /\ MainSound' /\ SocketOnSource'
  BY <1>1 DEF IInv, StoppedInOrder, Emptied, MainSound, SocketOnSource
<1>6. ThreadsSound'
  <2>1. ASSUME NEW j \in Threads, Live(j)' PROVE ThreadSound(j)'
    <3>1. CASE j # k
      BY <1>1, <1>3, <2>1, <3>1 DEF IInv, ThreadsSound, ThreadSound, IsOpener, Live, MayTryAgain
    <3>2. QED
      BY <3>1
  <2>2. QED
    BY <1>1, <1>3, <2>1 DEF IInv, ThreadsSound, Live
<1>7. SendersSound'
  BY <1>1, SendersFrame DEF IInv
<1>8. OwnersSound'
  <2>1. \A j \in Threads, s \in Sockets : Holds(j, s)' <=> Holds(j, s)
    BY <1>3 DEF Holds, Live
  <2>2. QED
    BY <1>1, <2>1 DEF IInv, OwnersSound, OneOwner, Owned, IsOld
<1>9. QED
  BY <1>4, <1>5, <1>6, <1>7, <1>8 DEF IInv

LEMMA WakeSound == ASSUME IInv, NEW k \in Threads, Wake(k) PROVE IInv'
<1> USE PsnOutputAssumption
<1> DEFINE r == [threads[k] EXCEPT !.pc = "opening", !.addr = source,
                                   !.tries = IF threads[k].kind = "retry" THEN @ + 1 ELSE @]
<1>1. Live(k) /\ threads[k].pc = "wait" /\ threads[k].sock = None /\ ThreadSound(k)
  BY DEF Wake, IInv, ThreadsSound, ThreadSound
<1>2. UNCHANGED <<callers, signals, shared, fds, senders, world>>
  BY DEF Wake
<1>3. CASE threads[k].gen \in stopped
  BY <1>1, <1>2, <1>3, EndSound DEF Wake
<1>4. CASE threads[k].gen \notin stopped
  <2>1. threads' = [threads EXCEPT ![k] = r] /\ pointer' = pointer
    BY <1>4 DEF Wake
  <2>2. /\ threads[k] \in ThreadRecords /\ threads[k].gen \in Starts
        /\ threads[k].kind \in {"retry", "recover"} /\ threads[k].tries \in 0..MaxRetries
        /\ source \in Addrs
    BY <1>1, ThreadFields DEF IInv, TypeOK
  <2>3. threads[k].kind = "retry" => threads[k].tries + 1 \in 0..MaxRetries
    BY <1>1, <2>2 DEF ThreadSound, MayTryAgain
  <2>4. /\ r.gen = threads[k].gen /\ r.sock = None /\ r.pc = "opening" /\ r.addr = source
        /\ r \in ThreadRecords
    BY <1>1, <2>2, <2>3 DEF ThreadRecords
  <2>5. threads'[k] = r
    BY <2>1 DEF IInv, TypeOK
  <2>6. UNCHANGED <<main, gen, stopped, source>>
    BY <1>2 DEF callers, signals, shared
  <2>7. ThreadSound(k)'
    BY <1>1, <2>1, <2>2, <2>4, <2>5, <2>6 DEF ThreadSound, IsOpener, Live
  <2>8. QED
    BY <1>1, <1>2, <2>1, <2>4, <2>7, GoOnSound
<1>5. QED
  BY <1>3, <1>4

LEMMA ReturnSound == ASSUME IInv, NEW k \in Threads, Return(k) PROVE IInv'
<1>1. Live(k) /\ threads[k].sock = None
  BY DEF Return, IInv, ThreadsSound, ThreadSound
<1>2. QED
  BY <1>1, EndSound DEF Return

LEMMA OpenAgainSound == ASSUME IInv, NEW k \in Threads, OpenAgain(k) PROVE IInv'
<1> USE PsnOutputAssumption
<1>1. /\ Live(k) /\ threads[k].pc = "opening" /\ threads[k].sock = None /\ ThreadSound(k)
      /\ threads[k].addr \in Addrs
  BY DEF OpenAgain, IInv, ThreadsSound, ThreadSound
<1>2. UNCHANGED <<callers, signals, shared, senders, world>>
  BY DEF OpenAgain
<1>3. threads[k] \in ThreadRecords
  BY <1>1, ThreadFields DEF IInv
<1>4. UNCHANGED <<main, target, mine, gen, stopped, source, socket, stack, connected, senders,
                  up, flaps>>
  BY <1>2 DEF callers, signals, shared, world
<1>5. ASSUME threads[k].addr \notin up PROVE IInv'
  <2> DEFINE r == [threads[k] EXCEPT !.pc = "wait", !.addr = None]
  <2>1. fds' = fds
    BY <1>5 DEF OpenAgain
  <2>2. CASE ~MayTryAgain(threads[k])
    BY <1>1, <1>2, <1>5, <2>1, <2>2, EndSound DEF OpenAgain
  <2>3. CASE MayTryAgain(threads[k])
    <3>1. threads' = [threads EXCEPT ![k] = r] /\ pointer' = pointer
      BY <1>5, <2>3 DEF OpenAgain
    <3>2. /\ r.gen = threads[k].gen /\ r.sock = None /\ r.pc = "wait" /\ r.addr = None
          /\ r.kind = threads[k].kind /\ r.tries = threads[k].tries /\ r \in ThreadRecords
      BY <1>1, <1>3 DEF ThreadRecords
    <3>3. threads'[k] = r
      BY <3>1 DEF IInv, TypeOK
    <3>4. ThreadSound(k)'
      BY <1>1, <1>4, <2>1, <2>3, <3>1, <3>2, <3>3 DEF ThreadSound, MayTryAgain, IsOpener, Live
    <3>5. QED
      BY <1>1, <1>2, <2>1, <3>1, <3>2, <3>4, GoOnSound
  <2>4. QED
    BY <2>2, <2>3
<1>6. ASSUME threads[k].addr \in up PROVE IInv'
  <2>1. PICK s \in Sockets :
          /\ fds[s] = None /\ fds' = [fds EXCEPT ![s] = threads[k].addr]
          /\ threads' = [threads EXCEPT ![k].pc = "opened", ![k].sock = s] /\ pointer' = pointer
    BY <1>6 DEF OpenAgain
  <2> DEFINE r == [threads[k] EXCEPT !.pc = "opened", !.sock = s]
  <2>2. threads' = [threads EXCEPT ![k] = r]
    BY <2>1 DEF IInv, TypeOK
  <2>3. /\ r.gen = threads[k].gen /\ r.sock = s /\ r.pc = "opened" /\ r.addr = threads[k].addr
        /\ r \in ThreadRecords /\ r # None
    BY ZenonT(60), <1>1, <1>3 DEF ThreadRecords
  <2>4. /\ threads' \in [Threads -> ThreadRecords \cup {None}] /\ threads'[k] = r
        /\ \A j \in Threads \ {k} : threads'[j] = threads[j]
    BY <2>2, <2>3, ThreadUpdate DEF IInv
  <2>5. /\ fds' \in [Sockets -> Addrs \cup {None}] /\ fds'[s] = threads[k].addr /\ fds'[s] # None
        /\ \A q \in Sockets \ {s} : fds'[q] = fds[q]
    BY <1>1, <2>1 DEF IInv, TypeOK
  <2>6. running' \in BOOLEAN
    BY <1>2, Zenon DEF IInv, TypeOK, signals
  <2>7. TypeOK'
    BY <1>4, <2>1, <2>4, <2>5, <2>6 DEF IInv, TypeOK
  <2>8. ~Owned(s)
    BY <2>1 DEF IInv, OwnersSound
  <2>9. StoppedInOrder' /\ Emptied' /\ MainSound' /\ SocketOnSource'
    BY <1>4, <2>1, <2>5, <2>8
       DEF IInv, StoppedInOrder, Emptied, MainSound, SocketOnSource, Owned, TypeOK
  <2>10. ThreadsSound'
    <3>1. ThreadSound(k)'
      BY <1>1, <1>4, <2>1, <2>3, <2>4, <2>5 DEF ThreadSound, IsOpener, Live
    <3>2. ASSUME NEW j \in Threads, Live(j), j # k PROVE ThreadSound(j)'
      <4>1. ThreadSound(j) /\ threads[j].sock \in Sockets \cup {None} /\ threads[j].sock # s
        BY <3>2, <2>8, ThreadFields DEF IInv, ThreadsSound, Owned, Holds
      <4>2. QED
        BY <1>4, <2>1, <2>4, <2>5, <3>2, <4>1 DEF ThreadSound, MayTryAgain, IsOpener, Live
    <3>3. pointer \in Threads \cup {None}
      BY DEF IInv, TypeOK
    <3>4. QED
      BY <2>1, <2>3, <2>4, <3>1, <3>2, <3>3 DEF IInv, ThreadsSound, Live
  <2>11. SendersSound'
    BY <1>4, <2>1, SendersFrame DEF IInv
  <2>12. OwnersSound'
    <3>1. ASSUME NEW q \in Sockets, q # s
          PROVE  OneOwner(q)' /\ (Owned(q) <=> fds[q] # None)'
      <4>1. OneOwner(q) /\ (Owned(q) <=> fds[q] # None)
        BY DEF IInv, OwnersSound
      <4>2. fds'[q] = fds[q] /\ \A j \in Threads : Holds(j, q)' <=> Holds(j, q)
        BY ZenonT(60), <1>1, <2>3, <2>4, <2>5, <3>1 DEF Holds, Live
      <4>3. QED
        BY <1>4, <4>1, <4>2 DEF OneOwner, Owned, IsOld
    <3>2. \A j \in Threads : Holds(j, s)' <=> j = k
      BY <1>1, <2>3, <2>4, <2>8 DEF Holds, Live, Owned
    <3>3. OneOwner(s)' /\ Owned(s)' /\ fds'[s] # None
      BY <1>4, <2>5, <2>8, <3>2 DEF OneOwner, Owned, IsOld
    <3>4. QED
      BY <3>1, <3>3 DEF OwnersSound
  <2>13. QED
    BY <2>7, <2>9, <2>10, <2>11, <2>12 DEF IInv
<1>7. QED
  BY <1>5, <1>6

\* A thread of the running generation hands its socket over; one that was
\* superseded while it opened closes it.
LEMMA DeliverSound == ASSUME IInv, NEW k \in Threads, Deliver(k) PROVE IInv'
<1> USE PsnOutputAssumption
<1>0. PICK s \in Sockets : s = threads[k].sock /\ s # None
  BY ThreadFields DEF Deliver, IInv, ThreadsSound, ThreadSound
<1>1. /\ Live(k) /\ threads[k].pc = "opened" /\ ThreadSound(k)
      /\ Holds(k, s) /\ threads[k] \in ThreadRecords /\ threads[k].gen \in Starts
      /\ fds[s] = threads[k].addr /\ threads[k].addr \in Addrs
  BY <1>0, ThreadFields DEF Deliver, IInv, ThreadsSound, ThreadSound, Holds
<1>2. UNCHANGED <<main, target, mine, gen, stopped, senders, up, flaps, source>>
  BY DEF Deliver, callers, signals, world, shared, Adopt
<1>3. running' \in BOOLEAN
  BY Zenon DEF Deliver, IInv, TypeOK, signals
<1>4. /\ s \notin stack \cup mine /\ \A j \in Threads \ {k} : ~Holds(j, s)
      /\ \A g \in Starts, x \in Streams : ~IsOld(g, x, s)
  BY <1>0, <1>1 DEF IInv, OwnersSound, OneOwner
<1>5. \A j \in Threads \ {k} : Live(j) =>
        /\ ThreadSound(j) /\ threads[j].sock \in Sockets \cup {None} /\ threads[j].sock # s
  BY <1>0, <1>4, ThreadFields DEF IInv, ThreadsSound, Holds
<1>6. ASSUME Superseded(k) PROVE IInv'
  <2>1. Close({s}) /\ End(k) /\ UNCHANGED <<socket, stack, connected>>
    BY <1>0, <1>6 DEF Deliver, shared
  <2>2. /\ fds' \in [Sockets -> Addrs \cup {None}]
        /\ fds'[s] = None /\ \A q \in Sockets \ {s} : fds'[q] = fds[q]
    BY <1>0, <1>1, <2>1, CloseFacts DEF IInv
  <2>3. /\ threads' \in [Threads -> ThreadRecords \cup {None}] /\ pointer' \in Threads \cup {None}
        /\ threads'[k] = None /\ \A j \in Threads \ {k} : threads'[j] = threads[j]
        /\ pointer' = IF pointer = k THEN None ELSE pointer
    BY <2>1, EndFacts DEF IInv
  <2>4. TypeOK'
    BY <1>2, <1>3, <2>1, <2>2, <2>3 DEF IInv, TypeOK
  <2>5. StoppedInOrder' /\ Emptied' /\ MainSound' /\ SocketOnSource'
    BY <1>2, <1>4, <2>1, <2>2
       DEF IInv, StoppedInOrder, Emptied, MainSound, SocketOnSource, TypeOK
  <2>6. ThreadsSound'
    <3>1. ASSUME NEW j \in Threads, Live(j), j # k PROVE ThreadSound(j)'
      BY <1>2, <1>5, <2>2, <2>3, <3>1 DEF ThreadSound, MayTryAgain, IsOpener, Live
    <3>2. QED
      BY <2>3, <3>1 DEF IInv, ThreadsSound, Live
  <2>7. SendersSound'
    BY <1>2, <2>3 DEF IInv, SendersSound, SenderSound, HasLock, At
  <2>8. OwnersSound'
    <3>1. ASSUME NEW q \in Sockets, q # s
          PROVE  OneOwner(q)' /\ (Owned(q) <=> fds[q] # None)'
      <4>1. OneOwner(q) /\ (Owned(q) <=> fds[q] # None)
        BY DEF IInv, OwnersSound
      <4>2. fds'[q] = fds[q] /\ \A j \in Threads : Holds(j, q)' <=> Holds(j, q)
        BY <1>0, <1>1, <2>2, <2>3, <3>1 DEF Holds, Live
      <4>3. QED
        BY <1>2, <2>1, <4>1, <4>2 DEF OneOwner, Owned, IsOld
    <3>2. \A j \in Threads : ~Holds(j, s)'
      BY <1>4, <2>3 DEF Holds, Live
    <3>3. OneOwner(s)' /\ ~Owned(s)' /\ fds'[s] = None
      BY <1>2, <1>4, <2>1, <2>2, <3>2 DEF OneOwner, Owned, IsOld
    <3>4. QED
      BY <3>1, <3>3 DEF OwnersSound
  <2>9. QED
    BY <2>4, <2>5, <2>6, <2>7, <2>8 DEF IInv
<1>7. ASSUME ~Superseded(k) PROVE IInv'
  <2> DEFINE r == [threads[k] EXCEPT !.pc = "done", !.sock = None]
  <2>1. /\ socket' = s /\ stack' = stack \cup {s}
        /\ connected' = connected \cup {threads[k].gen}
        /\ threads' = [threads EXCEPT ![k] = r] /\ UNCHANGED <<fds, pointer>>
    BY <1>0, <1>7 DEF Deliver, Adopt, IInv, TypeOK
  <2>2. /\ r.gen = threads[k].gen /\ r.sock = None /\ r.pc = "done"
        /\ r \in ThreadRecords /\ r # None
    BY <1>0, <1>1 DEF ThreadRecords
  <2>3. /\ threads' \in [Threads -> ThreadRecords \cup {None}] /\ threads'[k] = r
        /\ \A j \in Threads \ {k} : threads'[j] = threads[j]
    BY <2>1, <2>2, ThreadUpdate DEF IInv
  <2>4. TypeOK'
    BY <1>0, <1>1, <1>2, <1>3, <2>1, <2>3 DEF IInv, TypeOK
  <2>5. threads[k].gen = gen /\ gen \notin stopped /\ gen # 0
    BY <1>0, <1>1, <1>7 DEF Superseded, IInv, TypeOK, StoppedInOrder, ThreadSound, Starts
  <2>6. fds[s] = source
    BY <1>0, <1>1, <1>7 DEF Superseded, ThreadSound
  <2>7. main \notin Stopping
    BY <2>5 DEF IInv, StoppedInOrder
  <2>8. StoppedInOrder' /\ Emptied' /\ MainSound' /\ SocketOnSource'
    BY <1>2, <2>1, <2>5, <2>6, <2>7
       DEF IInv, StoppedInOrder, Emptied, MainSound, SocketOnSource, Stopping
  <2>9. ThreadsSound'
    <3>1. ThreadSound(k)'
      BY <1>0, <1>1, <1>2, <2>1, <2>2, <2>3 DEF ThreadSound, IsOpener, Live
    <3>2. ASSUME NEW j \in Threads, Live(j), j # k PROVE ThreadSound(j)'
      BY <1>2, <1>5, <2>1, <2>3, <3>2 DEF ThreadSound, MayTryAgain, IsOpener, Live
    <3>3. QED
      BY <2>1, <2>2, <2>3, <3>1, <3>2 DEF IInv, ThreadsSound, Live
  <2>10. SendersSound'
    BY <1>2, <2>1, SendersFrame DEF IInv
  <2>11. OwnersSound'
    <3>1. ASSUME NEW q \in Sockets, q # s
          PROVE  OneOwner(q)' /\ (Owned(q) <=> fds[q] # None)'
      <4>1. OneOwner(q) /\ (Owned(q) <=> fds[q] # None)
        BY DEF IInv, OwnersSound
      <4>2. (q \in stack' <=> q \in stack) /\ \A j \in Threads : Holds(j, q)' <=> Holds(j, q)
        BY <1>0, <1>1, <2>1, <2>2, <2>3, <3>1 DEF Holds, Live
      <4>3. QED
        BY <1>2, <2>1, <4>1, <4>2 DEF OneOwner, Owned, IsOld
    <3>2. \A j \in Threads : ~Holds(j, s)'
      BY <1>0, <1>1, <1>4, <2>2, <2>3 DEF Holds, Live
    <3>3. OneOwner(s)' /\ Owned(s)' /\ fds'[s] # None
      BY <1>0, <1>1, <1>2, <1>4, <2>1, <3>2 DEF OneOwner, Owned, IsOld
    <3>4. QED
      BY <3>1, <3>3 DEF OwnersSound
  <2>12. QED
    BY <2>4, <2>8, <2>9, <2>10, <2>11 DEF IInv
<1>8. QED
  BY <1>6, <1>7

-----------------------------------------------------------------------------
(* The steps of the send threads.                                          *)

\* A send thread that goes on without a socket in its hands.
LEMMA SenderGoes ==
  ASSUME IInv, NEW g \in Starts, NEW x \in Streams,
         senders[g][x].pc \in {"loop", "frame", "failed"},
         NEW pc \in {"loop", "frame", "failed", "checked", "ended"}, Goto(g, x, pc),
         pc = "checked" => LockFree /\ g \notin stopped /\ pointer = None,
         UNCHANGED <<callers, signals, shared, fds, threads, pointer, world>>
  PROVE  IInv'
<1>1. UNCHANGED <<main, target, mine, gen, stopped, source, socket, stack, connected, fds,
                  threads, pointer, up, flaps>>
  BY DEF callers, signals, shared, world
<1>2. running' \in BOOLEAN
  BY Zenon DEF IInv, TypeOK, signals
<1>3. senders[g][x].old = {} /\ SenderSound(g, x)
  BY DEF IInv, SendersSound, SenderSound
<1>4. /\ senders' \in [Starts -> [Streams -> SenderRecords]]
      /\ senders'[g][x] = [pc |-> pc, old |-> {}]
      /\ \A h \in Starts, y \in Streams : h # g \/ y # x => senders'[h][y] = senders[h][y]
  <2>1. pc \in {"loop", "frame", "failed", "checked", "spawned", "closing", "ended"}
    OBVIOUS
  <2>2. /\ senders' \in [Starts -> [Streams -> SenderRecords]]
        /\ senders'[g][x] = [pc |-> pc, old |-> senders[g][x].old]
        /\ \A h \in Starts, y \in Streams : h # g \/ y # x => senders'[h][y] = senders[h][y]
    BY <2>1, GotoFacts, ZenonT(60) DEF IInv
  <2>3. QED
    BY <1>3, <2>2
<1> USE PsnOutputAssumption
<1>5. TypeOK'
  BY <1>1, <1>2, <1>4 DEF IInv, TypeOK, SenderRecords
<1>6. StoppedInOrder' /\ Emptied' /\ MainSound' /\ SocketOnSource'
  BY <1>1 DEF IInv, StoppedInOrder, Emptied, MainSound, SocketOnSource
<1>7. ThreadsSound'
  BY <1>1, ThreadsFrame DEF IInv
<1>8. SendersSound'
  <2>1. g <= gen /\ ~(g = gen /\ main \in Starting)
    BY <1>3 DEF SenderSound, Ended, Starts, IInv, TypeOK
  <2>2. pc = "checked" => g = gen /\ main \notin {"close", "restart"}
    BY <2>1 DEF IInv, StoppedInOrder, TypeOK, Stopping, Starts
  <2>3. SenderSound(g, x)'
    BY <1>1, <1>4, <2>1, <2>2 DEF SenderSound, HasLock, At, Starts, IInv, TypeOK
  <2>4. ASSUME NEW h \in Starts, NEW y \in Streams, h # g \/ y # x
        PROVE  SenderSound(h, y)' /\ (HasLock(h, y)' <=> HasLock(h, y))
    BY <1>1, <1>4, <2>4 DEF IInv, SendersSound, SenderSound, HasLock, At
  <2>5. HasLock(g, x)' => pc = "checked"
    BY <1>4 DEF HasLock
  <2>6. pc = "checked" => \A h \in Starts, y \in Streams : ~HasLock(h, y)
    BY DEF LockFree, HasLock
  <2>7. ASSUME NEW h \in Starts, NEW y \in Streams, NEW i \in Starts, NEW z \in Streams,
               HasLock(h, y)', HasLock(i, z)'
        PROVE  h = i /\ y = z
    BY <2>4, <2>5, <2>6, <2>7 DEF IInv, SendersSound
  <2>8. QED
    BY <2>3, <2>4, <2>7 DEF SendersSound
<1>9. OwnersSound'
  <2>1. \A h \in Starts, y \in Streams, s \in Sockets : IsOld(h, y, s)' <=> IsOld(h, y, s)
    BY <1>3, <1>4 DEF IsOld
  <2>2. QED
    BY <1>1, <2>1 DEF IInv, OwnersSound, OneOwner, Owned, Holds, Live
<1>10. QED
  BY <1>5, <1>6, <1>7, <1>8, <1>9 DEF IInv

LEMMA LoopSound ==
  ASSUME IInv, NEW g \in Starts, NEW x \in Streams, Loop(g, x) \/ Send(g, x) \/ CheckError(g, x)
  PROVE  IInv'
<1>1. CASE Loop(g, x)
  BY <1>1, SenderGoes DEF Loop, At
<1>2. CASE Send(g, x)
  BY <1>2, SenderGoes DEF Send, At
<1>3. CASE CheckError(g, x)
  BY <1>3, SenderGoes DEF CheckError, At, MustRecover
<1>4. QED
  BY <1>1, <1>2, <1>3

\* The stack goes to the send thread that recovers, and there was no opener.
LEMMA MakeRecoverySound ==
  ASSUME IInv, NEW g \in Starts, NEW x \in Streams, MakeRecovery(g, x)
  PROVE  IInv'
<1>0. PICK r \in SenderRecords : r = [pc |-> "spawned", old |-> stack]
  BY DEF IInv, TypeOK, SenderRecords
<1>1. /\ At(g, x, "checked") /\ senders' = [senders EXCEPT ![g][x] = r]
      /\ socket' = None /\ stack' = {}
  BY <1>0 DEF MakeRecovery
<1>2. UNCHANGED <<main, target, mine, gen, stopped, source, connected, fds, up, flaps>>
  BY DEF MakeRecovery, callers, signals, world
<1>3. running' \in BOOLEAN
  BY Zenon DEF IInv, TypeOK, signals, MakeRecovery
<1>4. /\ SenderSound(g, x) /\ HasLock(g, x) /\ g = gen /\ pointer = None
      /\ main \notin {"close", "restart", "open", "opened", "launch"} /\ senders[g][x].old = {}
  BY <1>1 DEF IInv, SendersSound, SenderSound, HasLock, At, Ended, Starting
<1>5. PICK k \in Threads : /\ ~Live(k) /\ pointer' = k
                           /\ threads' = [threads EXCEPT ![k] = Thread(g, "recover", 0, "new")]
  BY DEF MakeRecovery
<1>6. /\ senders' \in [Starts -> [Streams -> SenderRecords]] /\ senders'[g][x] = r
      /\ \A h \in Starts, y \in Streams : h # g \/ y # x => senders'[h][y] = senders[h][y]
  <2>1. senders \in [Starts -> [Streams -> SenderRecords]]
    BY DEF IInv, TypeOK, SenderRecords
  <2> QED
    BY <1>1, <2>1
<1> USE PsnOutputAssumption
<1>7. PICK n \in ThreadRecords :
        /\ n # None /\ threads' = [threads EXCEPT ![k] = n]
        /\ n.gen = gen /\ n.kind = "recover" /\ n.pc = "new" /\ n.sock = None
  <2>1. Thread(g, "recover", 0, "new") \in ThreadRecords /\ Thread(g, "recover", 0, "new") # None
    BY DEF Thread, ThreadRecords
  <2>2. QED
    BY <1>4, <1>5, <2>1 DEF Thread
<1>8. /\ threads' \in [Threads -> ThreadRecords \cup {None}] /\ threads'[k] = n
      /\ \A j \in Threads \ {k} : threads'[j] = threads[j]
  BY <1>7, ThreadUpdate DEF IInv
<1>9. TypeOK'
  BY <1>1, <1>2, <1>3, <1>5, <1>0, <1>6, <1>8 DEF IInv, TypeOK, SenderRecords
<1>10. StoppedInOrder' /\ Emptied' /\ MainSound' /\ SocketOnSource'
  BY <1>1, <1>2 DEF IInv, StoppedInOrder, Emptied, MainSound, SocketOnSource
<1>11. ThreadsSound'
  <2>1. ThreadSound(k)'
    BY <1>2, <1>4, <1>5, <1>7, <1>8 DEF ThreadSound, MayTryAgain, IsOpener, Starts
  <2>2. ASSUME NEW j \in Threads, Live(j), j # k PROVE ThreadSound(j)'
    <3>1. ThreadSound(j) /\ ~IsOpener(j)
      BY <1>4, <2>2 DEF IInv, ThreadsSound, ThreadSound
    <3>2. QED
      BY <1>2, <1>8, <2>2, <3>1 DEF ThreadSound, MayTryAgain, IsOpener, Live
  <2>3. QED
    BY <1>5, <1>7, <1>8, <2>1, <2>2 DEF ThreadsSound, Live
<1>12. SendersSound'
  <2>1. ASSUME NEW h \in Starts, NEW y \in Streams, h # g \/ y # x
        PROVE  SenderSound(h, y)' /\ ~HasLock(h, y) /\ ~HasLock(h, y)'
    <3>1. SenderSound(h, y) /\ ~HasLock(h, y)
      BY <1>4, <2>1 DEF IInv, SendersSound
    <3>2. QED
      BY <1>2, <1>0, <1>6, <2>1, <3>1 DEF SenderSound, HasLock, At
  <2>2. SenderSound(g, x)'
    BY <1>2, <1>4, <1>0, <1>6 DEF SenderSound, HasLock, At, Starting, Starts
  <2>3. QED
    BY <2>1, <2>2 DEF SendersSound
<1>13. OwnersSound'
  <2>1. \A j \in Threads, s \in Sockets : Holds(j, s)' <=> Holds(j, s)
    BY <1>5, <1>7, <1>8 DEF Holds, Live
  <2>2. \A h \in Starts, y \in Streams, s \in Sockets :
          IsOld(h, y, s)' <=> IsOld(h, y, s) \/ (h = g /\ y = x /\ s \in stack)
    BY <1>4, <1>0, <1>6 DEF IsOld
  <2>3. ASSUME NEW s \in Sockets PROVE OneOwner(s)' /\ (Owned(s) <=> fds[s] # None)'
    <3>1. OneOwner(s) /\ (Owned(s) <=> fds[s] # None)
      BY DEF IInv, OwnersSound
    <3>2. QED
      BY <1>1, <1>2, <2>1, <2>2, <3>1 DEF OneOwner, Owned
  <2>4. QED
    BY <2>3 DEF OwnersSound
<1>14. QED
  BY <1>9, <1>10, <1>11, <1>12, <1>13 DEF IInv

LEMMA StartRecoverySound ==
  ASSUME IInv, NEW g \in Starts, NEW x \in Streams, StartRecovery(g, x)
  PROVE  IInv'
<1> USE PsnOutputAssumption
<1>1. At(g, x, "spawned") /\ Goto(g, x, "closing")
  BY DEF StartRecovery
<1>2. UNCHANGED <<main, target, mine, gen, stopped, source, socket, stack, connected, fds,
                  pointer, up, flaps>>
  BY DEF StartRecovery, callers, signals, shared, world
<1>3. running' \in BOOLEAN
  BY Zenon DEF IInv, TypeOK, signals, StartRecovery
<1>4. /\ senders' \in [Starts -> [Streams -> SenderRecords]]
      /\ senders'[g][x] = [pc |-> "closing", old |-> senders[g][x].old]
      /\ \A h \in Starts, y \in Streams : h # g \/ y # x => senders'[h][y] = senders[h][y]
  BY <1>1, GotoFacts DEF IInv
<1>5. ASSUME NEW k \in Threads
      PROVE  /\ threads'[k] \in ThreadRecords \cup {None} /\ (Live(k)' <=> Live(k))
             /\ Live(k) => /\ threads'[k].gen = threads[k].gen
                           /\ threads'[k].kind = threads[k].kind
                           /\ threads'[k].tries = threads[k].tries
                           /\ threads'[k].addr = threads[k].addr
                           /\ threads'[k].sock = threads[k].sock
                           /\ \/ threads'[k].pc = threads[k].pc
                              \/ threads[k].pc = "new" /\ threads'[k].pc = "wait"
  <2>1. threads'[k] = IF Live(k) /\ threads[k].pc = "new" THEN [threads[k] EXCEPT !.pc = "wait"]
                                                        ELSE threads[k]
    BY DEF StartRecovery
  <2>2. CASE Live(k) /\ threads[k].pc = "new"
    <3>1. threads[k] \in ThreadRecords
      BY <2>2, ThreadFields DEF IInv
    <3>2. [threads[k] EXCEPT !.pc = "wait"] \in ThreadRecords
      BY <3>1 DEF ThreadRecords
    <3>3. QED
      BY <2>1, <2>2, <3>1, <3>2 DEF ThreadRecords, Live
  <2>3. CASE ~(Live(k) /\ threads[k].pc = "new")
    BY <2>1, <2>3 DEF IInv, TypeOK, Live
  <2>4. QED
    BY <2>2, <2>3
<1>6. threads' \in [Threads -> ThreadRecords \cup {None}]
  BY <1>5 DEF StartRecovery
<1>7. TypeOK'
  BY <1>2, <1>3, <1>4, <1>6 DEF IInv, TypeOK, SenderRecords
<1>8. StoppedInOrder' /\ Emptied' /\ MainSound' /\ SocketOnSource'
  BY <1>2 DEF IInv, StoppedInOrder, Emptied, MainSound, SocketOnSource
<1>9. ThreadsSound'
  <2>1. ASSUME NEW k \in Threads, Live(k) PROVE ThreadSound(k)'
    <3>1. ThreadSound(k)
      BY <2>1 DEF IInv, ThreadsSound
    <3>2. QED
      BY <1>2, <1>5, <2>1, <3>1 DEF ThreadSound, MayTryAgain, IsOpener
  <2>2. (pointer # None => Live(pointer))'
    BY <1>2, <1>5 DEF IInv, ThreadsSound, TypeOK
  <2>3. QED
    BY <1>5, <2>1, <2>2 DEF ThreadsSound
<1>10. SendersSound'
  <2>1. SenderSound(g, x)'
    <3>1. SenderSound(g, x) /\ senders[g][x] # Ended
      BY <1>1 DEF IInv, SendersSound, At, Ended
    <3>2. QED
      BY <1>2, <1>4, <3>1 DEF SenderSound, HasLock, At
  <2>2. ~HasLock(g, x)'
    BY <1>4 DEF HasLock
  <2>3. ASSUME NEW h \in Starts, NEW y \in Streams, h # g \/ y # x
        PROVE  SenderSound(h, y)' /\ (HasLock(h, y)' <=> HasLock(h, y))
    BY <1>2, <1>4, <2>3 DEF IInv, SendersSound, SenderSound, HasLock, At
  <2>4. QED
    BY <2>1, <2>2, <2>3 DEF IInv, SendersSound
<1>11. OwnersSound'
  <2>1. \A h \in Starts, y \in Streams, s \in Sockets : IsOld(h, y, s)' <=> IsOld(h, y, s)
    BY <1>4 DEF IsOld
  <2>2. \A j \in Threads, s \in Sockets : Holds(j, s)' <=> Holds(j, s)
    BY <1>5 DEF Holds
  <2>3. QED
    BY <1>2, <2>1, <2>2 DEF IInv, OwnersSound, OneOwner, Owned
<1>12. QED
  BY <1>7, <1>8, <1>9, <1>10, <1>11 DEF IInv

LEMMA CloseOldSound ==
  ASSUME IInv, NEW g \in Starts, NEW x \in Streams, CloseOld(g, x)
  PROVE  IInv'
<1>0. PICK r \in SenderRecords : r = [pc |-> "loop", old |-> {}]
  BY DEF SenderRecords
<1>1. PICK old \in SUBSET Sockets : old = senders[g][x].old /\ Close(old)
  BY SenderFields DEF CloseOld, IInv
<1>2. At(g, x, "closing") /\ senders' = [senders EXCEPT ![g][x] = r]
  BY <1>0 DEF CloseOld
<1>3. UNCHANGED <<main, target, mine, gen, stopped, source, socket, stack, connected, threads,
                  pointer, up, flaps>>
  BY DEF CloseOld, callers, signals, shared, world
<1>4. running' \in BOOLEAN
  BY Zenon DEF IInv, TypeOK, signals, CloseOld
<1>5. /\ senders' \in [Starts -> [Streams -> SenderRecords]] /\ senders'[g][x] = r
      /\ \A h \in Starts, y \in Streams : h # g \/ y # x => senders'[h][y] = senders[h][y]
  <2>1. senders \in [Starts -> [Streams -> SenderRecords]]
    BY DEF IInv, TypeOK, SenderRecords
  <2> QED
    BY <1>2, <2>1
<1> USE PsnOutputAssumption
<1>6. /\ fds' \in [Sockets -> Addrs \cup {None}]
      /\ \A s \in Sockets : fds'[s] = IF s \in old THEN None ELSE fds[s]
  BY <1>1, CloseFacts DEF IInv
<1>7. TypeOK'
  BY <1>3, <1>4, <1>0, <1>5, <1>6 DEF IInv, TypeOK, SenderRecords
<1>8. \A s \in old : s \notin stack \cup mine /\ \A k \in Threads : ~Holds(k, s)
  BY <1>1 DEF IInv, OwnersSound, OneOwner, IsOld
<1>9. StoppedInOrder' /\ Emptied' /\ MainSound' /\ SocketOnSource'
  BY <1>3, <1>6, <1>8 DEF IInv, StoppedInOrder, Emptied, MainSound, SocketOnSource, TypeOK
<1>10. ThreadsSound'
  <2>1. ASSUME NEW k \in Threads, Live(k) PROVE ThreadSound(k)'
    <3>1. ThreadSound(k) /\ threads[k].sock \in Sockets \cup {None} /\ threads[k].sock \notin old
      BY <1>8, <2>1, ThreadFields DEF IInv, ThreadsSound, Holds
    <3>2. QED
      BY <1>3, <1>6, <2>1, <3>1 DEF ThreadSound, MayTryAgain, IsOpener, Live
  <2>2. QED
    BY <1>3, <2>1 DEF IInv, ThreadsSound, Live
<1>11. SendersSound'
  <2>1. SenderSound(g, x)'
    <3>1. SenderSound(g, x) /\ senders[g][x] # Ended
      BY <1>2 DEF IInv, SendersSound, At, Ended
    <3>2. QED
      BY <1>3, <1>0, <1>5, <3>1 DEF SenderSound, HasLock, At
  <2>2. ~HasLock(g, x)'
    BY <1>0, <1>5 DEF HasLock
  <2>3. ASSUME NEW h \in Starts, NEW y \in Streams, h # g \/ y # x
        PROVE  SenderSound(h, y)' /\ (HasLock(h, y)' <=> HasLock(h, y))
    BY <1>3, <1>0, <1>5, <2>3 DEF IInv, SendersSound, SenderSound, HasLock, At
  <2>4. QED
    BY <2>1, <2>2, <2>3 DEF IInv, SendersSound
<1>12. OwnersSound'
  <2>1. \A h \in Starts, y \in Streams, s \in Sockets :
          IsOld(h, y, s)' <=> IsOld(h, y, s) /\ (h # g \/ y # x)
    BY <1>0, <1>5 DEF IsOld
  <2>2. \A j \in Threads, s \in Sockets : Holds(j, s)' <=> Holds(j, s)
    BY <1>3 DEF Holds, Live
  <2>3. ASSUME NEW s \in Sockets PROVE OneOwner(s)' /\ (Owned(s) <=> fds[s] # None)'
    <3>1. OneOwner(s) /\ (Owned(s) <=> fds[s] # None)
      BY DEF IInv, OwnersSound
    <3>2. s \in old <=> IsOld(g, x, s)
      BY <1>1 DEF IsOld
    <3>3. QED
      BY <1>3, <1>6, <2>1, <2>2, <3>1, <3>2 DEF OneOwner, Owned
  <2>4. QED
    BY <2>3 DEF OwnersSound
<1>13. QED
  BY <1>7, <1>9, <1>10, <1>11, <1>12 DEF IInv

-----------------------------------------------------------------------------
(* The theorems.                                                           *)

LEMMA InitSound == Init => IInv
<1> SUFFICES ASSUME Init PROVE IInv
  OBVIOUS
<1>1. TypeOK
  BY InitType
<1>2. StoppedInOrder /\ Emptied /\ MainSound /\ SocketOnSource
  BY DEF Init, StoppedInOrder, Emptied, MainSound, SocketOnSource, Starts, Stopping, Starting
<1>3. ThreadsSound
  BY DEF Init, ThreadsSound, Live
<1>4. \A g \in Starts, x \in Streams : senders[g][x] = Ended
  BY DEF Init
<1>5. SendersSound
  BY <1>4 DEF SendersSound, SenderSound, HasLock, At, Ended
<1>6. OwnersSound
  BY <1>4 DEF Init, OwnersSound, OneOwner, Owned, Holds, IsOld, Live, Ended
<1>7. QED
  BY <1>1, <1>2, <1>3, <1>5, <1>6 DEF IInv

LEMMA FrameSound ==
  ASSUME IInv, UNCHANGED vars \/ Flap
  PROVE  IInv'
<1>1. UNCHANGED <<main, target, mine, gen, stopped, source, socket, stack, connected, fds,
                  threads, pointer, senders>>
  BY DEF Flap, vars, callers, signals, shared
<1>2. running' \in BOOLEAN
  BY Zenon DEF IInv, TypeOK, Flap, vars, signals
<1>3. up' \subseteq Addrs /\ flaps' \in 0..MaxFlaps
  BY PsnOutputAssumption DEF IInv, TypeOK, Flap, vars, world
<1>4. TypeOK'
  BY <1>1, <1>2, <1>3 DEF IInv, TypeOK
<1>5. StoppedInOrder' /\ Emptied' /\ MainSound' /\ SocketOnSource'
  BY <1>1 DEF IInv, StoppedInOrder, Emptied, MainSound, SocketOnSource
<1>6. ThreadsSound' /\ SendersSound' /\ OwnersSound'
  BY <1>1, ThreadsFrame, SendersFrame, OwnersFrame DEF IInv
<1>7. QED
  BY <1>4, <1>5, <1>6 DEF IInv

LEMMA StepSound == ASSUME IInv, [Next]_vars PROVE IInv'
<1>1. CASE Start
  BY <1>1, StartSound
<1>2. CASE Call
  BY <1>2, MoveSound DEF Call
<1>3. CASE MainStep
  BY <1>3, OpenSound, HandOverSound, LaunchSound, MoveSound, TeardownSound, CloseStackSound
     DEF MainStep
<1>4. ASSUME NEW k \in Threads, ThreadStep(k) PROVE IInv'
  BY <1>4, WakeSound, OpenAgainSound, DeliverSound, ReturnSound DEF ThreadStep
<1>5. ASSUME NEW g \in Starts, NEW x \in Streams, SenderStep(g, x) PROVE IInv'
  BY <1>5, LoopSound, MakeRecoverySound, StartRecoverySound, CloseOldSound DEF SenderStep
<1>6. CASE UNCHANGED vars \/ Flap
  BY <1>6, FrameSound
<1>7. QED
  BY <1>1, <1>2, <1>3, <1>4, <1>5, <1>6 DEF Next

LEMMA InvariantHolds == Spec => []IInv
<1>1. Init => IInv
  BY InitSound
<1>2. IInv /\ [Next]_vars => IInv'
  BY StepSound
<1>3. QED
  BY <1>1, <1>2, PTL DEF Spec

\* Every variable of the output keeps its type.
THEOREM TypeCorrect == Spec => []TypeOK
<1>1. IInv => TypeOK
  BY DEF IInv
<1>2. QED
  BY <1>1, InvariantHolds, PTL

\* Whatever outlives a stop or a rebind, the socket the output sends through is
\* open on the interface and address it was last bound to.
THEOREM SendsFromTheSource == Spec => []SocketOnSource
<1>1. IInv => SocketOnSource
  BY DEF IInv
<1>2. QED
  BY <1>1, InvariantHolds, PTL

\* Of the threads that have not ended one at most may still open a socket for a
\* generation that runs: the one the pointer names.
LEMMA OpenerIsThePointer == ASSUME IInv PROVE OneOpener
<1> DEFINE S == {k \in Threads : IsOpener(k)}
<1>1. \A k \in S : pointer = k
  BY DEF IInv, ThreadsSound, ThreadSound, IsOpener
<1>2. S = {} \/ S = {pointer}
  BY <1>1
<1>3. Cardinality(S) \in {0, 1}
  BY <1>2, FS_EmptySet, FS_Singleton
<1>4. S = {k \in Threads : Live(k) /\ threads[k].gen \notin stopped /\ threads[k].pc # "done"}
  BY DEF IsOpener
<1>5. QED
  BY <1>3, <1>4 DEF OneOpener

\* Every open socket is in the hands of one that will close it, and no two
\* threads open one for the same generation.
THEOREM SocketsAreAccounted == Spec => []SocketsAccounted
<1>1. IInv => NoLeak
  BY DEF IInv, OwnersSound, Owned, Holds, IsOld, NoLeak
<1>2. IInv => OneOpener
  BY OpenerIsThePointer
<1>3. IInv => SocketsAccounted
  BY <1>1, <1>2 DEF SocketsAccounted
<1>4. QED
  BY <1>3, InvariantHolds, PTL

-----------------------------------------------------------------------------
(* The slots of controllers: least elements, and orders of a finite set.   *)

\* A set of naturals has a least one.
LEMMA Least == ASSUME NEW S, S \subseteq Nat, S # {} PROVE \E x \in S : \A y \in S : x <= y
<1> DEFINE Less == OpToRel(<, Nat)
<1>1. IsWellFoundedOn(Less, Nat)
  BY NatLessThanWellFounded
<1>2. \A x, y \in Nat : <<x, y>> \in Less <=> x < y
  BY DEF OpToRel
<1> HIDE DEF Less
<1>3. PICK x \in S : \A y \in S : ~ (<<y, x>> \in Less)
  BY <1>1, WFMin
<1>4. ASSUME NEW y \in S PROVE x <= y
  <2>1. x \in Nat /\ y \in Nat /\ ~ (<<y, x>> \in Less)
    BY <1>3
  <2>2. ~ (y < x)
    BY <1>2, <2>1
  <2> QED
    BY <2>1, <2>2
<1> QED
  BY <1>4

LEMMA MinIs ==
  ASSUME NEW S, S \subseteq Nat, S # {}
  PROVE  Slots!Min(S) \in S /\ \A y \in S : Slots!Min(S) <= y
<1>1. \E x \in S : \A y \in S : x <= y
  BY Least
<1> QED
  BY Zenon, <1>1 DEF Slots!Min

LEMMA MaxIs ==
  ASSUME NEW n \in Nat, NEW S, S \subseteq 0 .. n, S # {}
  PROVE  Slots!Max(S) \in S /\ \A y \in S : Slots!Max(S) >= y
<1> DEFINE U == {m \in 0 .. n : \A y \in S : y <= m}
<1>1. n \in U /\ U \subseteq Nat
  BY SMT
<1>2. PICK m \in U : \A y \in U : m <= y
  BY <1>1, Least
<1>3. m \in 0 .. n /\ \A y \in S : y <= m
  BY <1>2
<1>4. m \in S
  <2> SUFFICES ASSUME m \notin S PROVE FALSE
    OBVIOUS
  <2>1. PICK z \in S : TRUE
    OBVIOUS
  <2>2. m # 0
    BY <1>3, <2>1
  <2>3. m - 1 \in U
    BY <1>3, <2>2
  <2> QED
    BY <1>2, <1>3, <2>3
<1>5. \A y \in S : m >= y
  BY <1>3, <1>4
<1> QED
  BY Zenon, <1>4, <1>5 DEF Slots!Max

\* The count of an instance is the library's.
LEMMA SameCount ==
  ASSUME NEW S
  PROVE  Slots!Cardinality(S) = Cardinality(S) /\ Slots!IsFiniteSet(S) = IsFiniteSet(S)
BY Zenon DEF Slots!Cardinality, Cardinality, Slots!IsFiniteSet, IsFiniteSet

-----------------------------------------------------------------------------
(* A finite set in the order of a relation.                                *)

Ordering(T, R) ==
  /\ IsFiniteSet(T)
  /\ \A i, j \in T : <<i, j>> \in R <=> i # j /\ <<j, i>> \notin R
  /\ \A i, j, k \in T : <<i, j>> \in R /\ <<j, k>> \in R => <<i, k>> \in R

Place(T, R, i) == Cardinality({j \in T : <<j, i>> \in R})

InOrder(T, R) == [k \in 1 .. Cardinality(T) |-> CHOOSE i \in T : Place(T, R, i) = k - 1]

LEMMA Places ==
  ASSUME NEW T, NEW R, Ordering(T, R)
  PROVE  /\ Cardinality(T) \in Nat
         /\ \A i \in T : Place(T, R, i) \in 0 .. Cardinality(T) - 1
         /\ \A i, j \in T : Place(T, R, i) = Place(T, R, j) => i = j
<1> DEFINE Below(i) == {j \in T : <<j, i>> \in R}
<1>1. Cardinality(T) \in Nat
  BY FS_CardinalityType DEF Ordering
<1>2. ASSUME NEW i \in T
      PROVE  IsFiniteSet(Below(i)) /\ Place(T, R, i) \in Nat /\ Place(T, R, i) < Cardinality(T)
  <2>1. Below(i) \in SUBSET T
    OBVIOUS
  <2>2. i \in T /\ i \notin Below(i)
    BY DEF Ordering
  <2>3. Place(T, R, i) = Cardinality(Below(i))
    BY DEF Place
  <2>a. IsFiniteSet(T)
    BY DEF Ordering
  <2> HIDE DEF Below
  <2>4. IsFiniteSet(Below(i)) /\ Cardinality(Below(i)) <= Cardinality(T)
        /\ (Cardinality(T) = Cardinality(Below(i)) => T = Below(i))
    BY <2>1, <2>a, FS_Subset
  <2>5. Cardinality(Below(i)) \in Nat
    BY <2>4, FS_CardinalityType
  <2>6. Cardinality(Below(i)) # Cardinality(T)
    BY <2>2, <2>4
  <2> QED
    BY <1>1, <2>3, <2>4, <2>5, <2>6
<1>3. ASSUME NEW i \in T, NEW j \in T, <<i, j>> \in R PROVE Place(T, R, i) # Place(T, R, j)
  <2>1. Below(i) \in SUBSET Below(j) /\ i \in Below(j) /\ i \notin Below(i)
    BY <1>3 DEF Ordering
  <2>2. Place(T, R, i) = Cardinality(Below(i)) /\ Place(T, R, j) = Cardinality(Below(j))
    BY DEF Place
  <2>3. IsFiniteSet(Below(j))
    BY <1>2
  <2> HIDE DEF Below
  <2>5. Cardinality(Below(j)) = Cardinality(Below(i)) => Below(j) = Below(i)
    BY <2>1, <2>3, FS_Subset
  <2> QED
    BY <2>1, <2>2, <2>5
<1> HIDE DEF Below
<1>4. ASSUME NEW i \in T PROVE Place(T, R, i) \in 0 .. Cardinality(T) - 1
  BY <1>1, <1>2
<1>5. ASSUME NEW i \in T, NEW j \in T, Place(T, R, i) = Place(T, R, j) PROVE i = j
  <2>1. i = j \/ <<i, j>> \in R \/ <<j, i>> \in R
    BY DEF Ordering
  <2> QED
    BY <2>1, <1>3, <1>5
<1> QED
  BY <1>1, <1>4, <1>5

LEMMA PlacesReach ==
  ASSUME NEW T, NEW R, Ordering(T, R), NEW k \in 1 .. Cardinality(T)
  PROVE  \E i \in T : Place(T, R, i) = k - 1
<1> DEFINE n == Cardinality(T)
           f == [i \in T |-> Place(T, R, i) + 1]
<1>1. /\ n \in Nat
      /\ \A i \in T : Place(T, R, i) \in 0 .. n - 1
      /\ \A i, j \in T : Place(T, R, i) = Place(T, R, j) => i = j
  BY Zenon, Places
<1>2. f \in [T -> 1 .. n]
  <2>1. \A i \in T : Place(T, R, i) + 1 \in 1 .. n
    BY <1>1
  <2> QED
    BY <2>1
<1>3. \A i, j \in T : f[i] = f[j] => i = j
  <2> SUFFICES ASSUME NEW i \in T, NEW j \in T, f[i] = f[j] PROVE i = j
    OBVIOUS
  <2>1. Place(T, R, i) \in Nat /\ Place(T, R, j) \in Nat
    BY <1>1
  <2>2. Place(T, R, i) = Place(T, R, j)
    BY <2>1
  <2> QED
    BY <1>1, <2>2
<1>4. IsFiniteSet(1 .. n) /\ Cardinality(1 .. n) = n
  BY <1>1, FS_Interval
<1>5. f \in Injection(T, 1 .. n)
  BY <1>2, <1>3 DEF Injection, IsInjective
<1>6. f \in Surjection(T, 1 .. n)
  <2>1. IsFiniteSet(T)
    BY DEF Ordering
  <2> HIDE DEF f
  <2> QED
    BY <2>1, <1>4, <1>5, FS_Injection
<1>7. PICK i \in T : f[i] = k
  BY <1>6 DEF Surjection
<1>8. Place(T, R, i) \in Nat /\ k \in Nat
  BY <1>1
<1> QED
  BY <1>7, <1>8

\* Each member comes once.
LEMMA InOrderIs ==
  ASSUME NEW T, NEW R, Ordering(T, R)
  PROVE  /\ InOrder(T, R) \in Seq(T) /\ Len(InOrder(T, R)) = Cardinality(T)
         /\ \A k, l \in 1 .. Cardinality(T) : InOrder(T, R)[k] = InOrder(T, R)[l] => k = l
         /\ \A i \in T : \E k \in 1 .. Cardinality(T) : InOrder(T, R)[k] = i
<1> DEFINE n == Cardinality(T)
           q == InOrder(T, R)
<1>1. /\ n \in Nat
      /\ \A i \in T : Place(T, R, i) \in 0 .. n - 1
      /\ \A i, j \in T : Place(T, R, i) = Place(T, R, j) => i = j
  BY Zenon, Places
<1>2. ASSUME NEW k \in 1 .. n PROVE q[k] \in T /\ Place(T, R, q[k]) = k - 1
  <2>1. \E i \in T : Place(T, R, i) = k - 1
    BY PlacesReach
  <2>2. q[k] = CHOOSE i \in T : Place(T, R, i) = k - 1
    BY DEF InOrder
  <2> HIDE DEF q
  <2> QED
    BY Zenon, <2>1, <2>2
<1>3. q = [k \in 1 .. n |-> q[k]]
  BY DEF InOrder
<1> HIDE DEF q, n
<1>4. q \in Seq(T) /\ Len(q) = n
  <2>1. \A k \in 1 .. n : q[k] \in T
    BY <1>2
  <2>2. q \in [1 .. n -> T]
    BY <1>3, <2>1
  <2>3. q \in Seq(T)
    BY <1>1, <2>2
  <2>4. DOMAIN q = 1 .. n
    BY <2>2
  <2> QED
    BY <1>1, <2>3, <2>4
<1>5. ASSUME NEW k \in 1 .. n, NEW l \in 1 .. n, q[k] = q[l] PROVE k = l
  BY <1>1, <1>2, <1>5
<1>6. ASSUME NEW i \in T PROVE \E k \in 1 .. n : q[k] = i
  <2>1. Place(T, R, i) + 1 \in 1 .. n /\ (Place(T, R, i) + 1) - 1 = Place(T, R, i)
    BY <1>1
  <2>2. q[Place(T, R, i) + 1] \in T /\ Place(T, R, q[Place(T, R, i) + 1]) = Place(T, R, i)
    BY <1>2, <2>1
  <2> QED
    BY <1>1, <2>1, <2>2
<1> QED
  BY <1>4, <1>5, <1>6 DEF q, n

-----------------------------------------------------------------------------
(* Folding a sequence, as FoldLeft does: by its sets of places.            *)

Folds(f, N, b, G, q) ==
  f = [s \in SUBSET (1 .. N) |->
         IF s = {} THEN b ELSE G[f[s \ {Slots!Max(s)}]][q[Slots!Max(s)]]]

LEMMA UpTo ==
  ASSUME NEW n \in Nat, n # 0
  PROVE  1 .. n # {} /\ Slots!Max(1 .. n) = n /\ (1 .. n) \ {n} = 1 .. n - 1
<1>1. 1 .. n # {} /\ (1 .. n) \ {n} = 1 .. n - 1 /\ 1 .. n \subseteq 0 .. n /\ n \in 1 .. n
  BY SMT
<1>2. Slots!Max(1 .. n) \in 1 .. n /\ \A y \in 1 .. n : Slots!Max(1 .. n) >= y
  BY <1>1, MaxIs
<1>3. Slots!Max(1 .. n) >= n
  BY <1>1, <1>2
<1> QED
  BY <1>1, <1>2, <1>3

LEMMA FoldExists ==
  ASSUME NEW N \in Nat, NEW X, NEW E, NEW b \in X, NEW G \in [X -> [E -> X]], NEW q \in [1 .. N -> E]
  PROVE  \E f \in [SUBSET (1 .. N) -> X] : Folds(f, N, b, G, q)
<1> DEFINE Bad == {n \in 0 .. N : ~ \E f \in [SUBSET (1 .. n) -> X] : Folds(f, n, b, G, q)}
<1>1. SUFFICES ASSUME Bad # {} PROVE FALSE
  <2> DEFINE Some(n) == \E f \in [SUBSET (1 .. n) -> X] : Folds(f, n, b, G, q)
  <2>1. Bad = {n \in 0 .. N : ~ Some(n)}
    BY Zenon
  <2>2. N \in 0 .. N
    BY SMT
  <2>3. SUFFICES ASSUME Bad = {} PROVE Some(N)
    BY Zenon
  <2> HIDE DEF Some, Bad
  <2> QED
    BY <2>1, <2>2, <2>3
<1>2. PICK n \in Bad : \A m \in Bad : n <= m
  <2>1. Bad \subseteq Nat
    OBVIOUS
  <2> HIDE DEF Bad
  <2> QED
    BY <1>1, <2>1, Least
<1>3. n # 0
  <2> SUFFICES ASSUME n = 0 PROVE FALSE
    OBVIOUS
  <2> DEFINE f0 == [s \in SUBSET (1 .. 0) |-> b]
  <2>1. f0 \in [SUBSET (1 .. 0) -> X]
    OBVIOUS
  <2>2. \A s \in SUBSET (1 .. 0) : s = {}
    BY SMT
  <2>3. Folds(f0, 0, b, G, q)
    BY <2>2 DEF Folds
  <2> HIDE DEF f0
  <2> QED
    BY <1>2, <2>1, <2>3
<1>4. n \in 1 .. N /\ n - 1 \in 0 .. N /\ n \in Nat /\ n - 1 \in Nat
  BY <1>2, <1>3
<1>5. n - 1 \notin Bad
  <2> HIDE DEF Bad
  <2> QED
    BY <1>2, <1>4
<1>6. PICK f \in [SUBSET (1 .. n - 1) -> X] : Folds(f, n - 1, b, G, q)
  BY <1>4, <1>5
<1> DEFINE h == [s \in SUBSET (1 .. n) |-> IF n \in s THEN G[f[s \ {n}]][q[n]] ELSE f[s]]
<1>7. ASSUME NEW s \in SUBSET (1 .. n)
      PROVE  /\ n \in s => s \ {n} \in SUBSET (1 .. n - 1) /\ Slots!Max(s) = n /\ s # {}
             /\ n \notin s => s \in SUBSET (1 .. n - 1)
             /\ s # {} => s \ {Slots!Max(s)} \in SUBSET (1 .. n - 1)
  <2>1. \A x \in s : x \in 1 .. n
    OBVIOUS
  <2>2. n \notin s => s \in SUBSET (1 .. n - 1)
    BY <1>4, <2>1
  <2>3. s # {} => Slots!Max(s) \in s /\ \A y \in s : Slots!Max(s) >= y
    <3>1. s \subseteq 0 .. n
      BY <1>4, <2>1
    <3> QED
      BY <1>4, <3>1, MaxIs
  <2>4. n \in s => Slots!Max(s) = n
    <3>1. n \in s => s # {}
      OBVIOUS
    <3>2. ASSUME n \in s PROVE Slots!Max(s) >= n /\ Slots!Max(s) \in 1 .. n
      <4>1. Slots!Max(s) \in s /\ Slots!Max(s) >= n
        BY <2>3, <3>1, <3>2
      <4> QED
        BY <2>1, <4>1
    <3> QED
      BY <1>4, <3>2
  <2>5. n \in s => s \ {n} \in SUBSET (1 .. n - 1)
    BY <1>4, <2>1
  <2>6. n \notin s => s \ {Slots!Max(s)} \in SUBSET (1 .. n - 1)
    BY <2>2
  <2> QED
    BY <2>2, <2>4, <2>5, <2>6
<1>8. h \in [SUBSET (1 .. n) -> X]
  <2>1. ASSUME NEW s \in SUBSET (1 .. n) PROVE (IF n \in s THEN G[f[s \ {n}]][q[n]] ELSE f[s]) \in X
    <3>1. CASE n \in s
      <4>1. f[s \ {n}] \in X
        BY <1>6, <1>7, <3>1
      <4>2. q[n] \in E
        BY <1>4
      <4>3. \A x \in X, e \in E : G[x][e] \in X
        OBVIOUS
      <4> QED
        BY Zenon, <3>1, <4>1, <4>2, <4>3
    <3>2. CASE n \notin s
      BY <1>6, <1>7, <3>2
    <3> QED
      BY <3>1, <3>2
  <2> QED
    BY <2>1
<1>9. ASSUME NEW s \in SUBSET (1 .. n)
      PROVE  h[s] = IF s = {} THEN b ELSE G[h[s \ {Slots!Max(s)}]][q[Slots!Max(s)]]
  <2>1. CASE n \in s
    <3>1. h[s] = G[f[s \ {n}]][q[n]]
      BY <2>1
    <3>2. s \ {n} \in SUBSET (1 .. n) /\ n \notin s \ {n}
      OBVIOUS
    <3>3. h[s \ {n}] = f[s \ {n}]
      BY <3>2
    <3>4. s # {} /\ Slots!Max(s) = n
      BY <1>7, <2>1
    <3> HIDE DEF h
    <3> QED
      BY <3>1, <3>3, <3>4
  <2>2. CASE n \notin s
    <3>1. h[s] = f[s] /\ s \in SUBSET (1 .. n - 1)
      BY <1>7, <2>2
    <3>2. f[s] = IF s = {} THEN b ELSE G[f[s \ {Slots!Max(s)}]][q[Slots!Max(s)]]
      <4>1. \A t \in SUBSET (1 .. n - 1) :
              f[t] = IF t = {} THEN b ELSE G[f[t \ {Slots!Max(t)}]][q[Slots!Max(t)]]
        BY Zenon, <1>6 DEF Folds
      <4> QED
        BY Zenon, <3>1, <4>1
    <3>3. s # {} => h[s \ {Slots!Max(s)}] = f[s \ {Slots!Max(s)}]
      <4>1. s \ {Slots!Max(s)} \in SUBSET (1 .. n) /\ n \notin s \ {Slots!Max(s)}
        <5> HIDE DEF h
        <5> QED
          BY <2>2
      <4> QED
        BY <4>1
    <3> HIDE DEF h
    <3> QED
      BY <3>1, <3>2, <3>3
  <2> QED
    BY <2>1, <2>2
<1>10. Folds(h, n, b, G, q)
  <2>1. h = [s \in SUBSET (1 .. n) |-> h[s]]
    OBVIOUS
  <2> HIDE DEF h
  <2> QED
    BY <1>9, <2>1 DEF Folds
<1> HIDE DEF h
<1> QED
  BY <1>2, <1>8, <1>10

-----------------------------------------------------------------------------
(* The controllers of a frame.                                             *)

LEMMA SlotConstants ==
  /\ Kinds \in Seq(STRING)
  /\ Slots!KindSet = {Kinds[k] : k \in DOMAIN Kinds}
  /\ Slots!Ports \subseteq Nat \ {0} /\ None \notin Nat
  /\ \A d \in Devices : d.kind \in Slots!KindSet /\ d.key \in Slots!Ports \cup {None}
  /\ \A e \in Edits :
       /\ DOMAIN e \subseteq Nat \ {0} /\ IsFiniteSet(DOMAIN e)
       /\ e \in [DOMAIN e -> [key : Slots!Ports, kind : Slots!KindSet]]
       /\ \A i, j \in DOMAIN e : e[i].key = e[j].key => i = j
<1>1. Slots!ControllerSlotsAssumption
  BY SafetyAssumption
<1>2. Slots!KindSet = {Kinds[k] : k \in DOMAIN Kinds}
  BY DEF Slots!KindSet, Slots!Range
<1>3. \A d \in Devices : d.kind \in Slots!KindSet /\ d.key \in Slots!Ports \cup {None}
  BY <1>1 DEF Slots!ControllerSlotsAssumption, Slots!Ports
<1>4. \A e \in Edits : IsFiniteSet(DOMAIN e)
  <2>1. \A e \in Edits : Slots!IsFiniteSet(DOMAIN e)
    BY Zenon, <1>1 DEF Slots!ControllerSlotsAssumption
  <2> QED
    BY Zenon, <2>1, SameCount
<1>5. Kinds \in Seq(STRING) /\ Slots!Ports \subseteq Nat \ {0} /\ None \notin Nat
  BY Zenon, <1>1 DEF Slots!ControllerSlotsAssumption
<1>6. \A e \in Edits :
       /\ DOMAIN e \subseteq Nat \ {0}
       /\ e \in [DOMAIN e -> [key : Slots!Ports, kind : Slots!KindSet]]
       /\ \A i, j \in DOMAIN e : e[i].key = e[j].key => i = j
  BY Zenon, <1>1 DEF Slots!ControllerSlotsAssumption
<1> QED
  BY Zenon, <1>2, <1>3, <1>4, <1>5, <1>6

ControllerOf == [kind : Slots!KindSet, key : Slots!Ports \cup {None}, id : 1 .. lastId]

Named(cs) == cs \subseteq ControllerOf /\ \A c, d \in cs : c.id = d.id => c = d

\* What a frame folds in.
Crowd(cs) ==
  /\ Named(cs) /\ IsFiniteSet(cs) /\ lastId \in Nat
  /\ \A c, d \in cs : c.key # None /\ c.key = d.key => c = d

LEMMA KindRanks ==
  /\ \A k \in Slots!KindSet : Slots!KindRank(k) \in Nat
  /\ \A k, l \in Slots!KindSet : Slots!KindRank(k) = Slots!KindRank(l) => k = l
<1>1. ASSUME NEW k \in Slots!KindSet
      PROVE  Slots!KindRank(k) \in DOMAIN Kinds /\ Kinds[Slots!KindRank(k)] = k
  <2>1. \E i \in DOMAIN Kinds : Kinds[i] = k
    BY SlotConstants
  <2> QED
    BY Zenon, <2>1 DEF Slots!KindRank
<1>2. DOMAIN Kinds \subseteq Nat
  BY SlotConstants
<1> QED
  BY <1>1, <1>2

LEMMA AheadOrders ==
  ASSUME NEW cs, Named(cs), lastId \in Nat
  PROVE  /\ \A c, d \in cs : Slots!Ahead(c, d) <=> c # d /\ ~ Slots!Ahead(d, c)
         /\ \A c, d, e \in cs : Slots!Ahead(c, d) /\ Slots!Ahead(d, e) => Slots!Ahead(c, e)
<1>1. \A c \in cs : c.kind \in Slots!KindSet /\ c.id \in Nat
  BY DEF Named, ControllerOf
<1>2. \A c, d \in cs : c.id = d.id => c = d
  BY DEF Named
<1>3. ASSUME NEW c \in cs, NEW d \in cs
      PROVE  Slots!Ahead(c, d) <=> c # d /\ ~ Slots!Ahead(d, c)
  <2> DEFINE r == Slots!KindRank(c.kind)
             s == Slots!KindRank(d.kind)
  <2>1. r \in Nat /\ s \in Nat /\ (r = s => c.kind = d.kind)
    BY <1>1, KindRanks
  <2>2. c.id \in Nat /\ d.id \in Nat /\ (c.id = d.id => c = d)
    BY <1>1, <1>2
  <2>3. Slots!Ahead(c, d) <=> r < s \/ (c.kind = d.kind /\ c.id < d.id)
    BY Zenon DEF Slots!Ahead
  <2>4. Slots!Ahead(d, c) <=> s < r \/ (d.kind = c.kind /\ d.id < c.id)
    BY Zenon DEF Slots!Ahead
  <2>5. c.kind = d.kind => r = s
    OBVIOUS
  <2>6. c = d => c.id = d.id
    OBVIOUS
  <2> HIDE DEF r, s
  <2> QED
    BY <2>1, <2>2, <2>3, <2>4, <2>5, <2>6
<1>4. ASSUME NEW c \in cs, NEW d \in cs, NEW e \in cs, Slots!Ahead(c, d), Slots!Ahead(d, e)
      PROVE  Slots!Ahead(c, e)
  <2>1. /\ Slots!KindRank(c.kind) \in Nat /\ Slots!KindRank(d.kind) \in Nat /\ Slots!KindRank(e.kind) \in Nat
        /\ c.id \in Nat /\ d.id \in Nat /\ e.id \in Nat
    BY <1>1, KindRanks
  <2> QED
    BY <1>4, <2>1 DEF Slots!Ahead
<1> QED
  BY <1>3, <1>4

\* PortOrder's Before.
PortBefore(c, d) ==
  CASE c.key # None /\ d.key # None -> c.key < d.key
    [] c.key = None /\ d.key = None -> Slots!Ahead(c, d)
    [] OTHER -> c.key # None

PortRelation(cs) == {p \in cs \X cs : PortBefore(p[1], p[2])}

LEMMA PortOrders == ASSUME NEW cs, Crowd(cs) PROVE Ordering(cs, PortRelation(cs))
<1>1. /\ IsFiniteSet(cs) /\ Named(cs) /\ lastId \in Nat
      /\ \A c, d \in cs : c.key # None /\ c.key = d.key => c = d
  BY DEF Crowd
<1>2. \A c \in cs : c.key \in Nat \cup {None}
  BY <1>1, SlotConstants DEF Named, ControllerOf
<1>3. /\ \A c, d \in cs : Slots!Ahead(c, d) <=> c # d /\ ~ Slots!Ahead(d, c)
      /\ \A c, d, e \in cs : Slots!Ahead(c, d) /\ Slots!Ahead(d, e) => Slots!Ahead(c, e)
  BY <1>1, AheadOrders
<1>4. ASSUME NEW c \in cs, NEW d \in cs PROVE <<c, d>> \in PortRelation(cs) <=> PortBefore(c, d)
  BY DEF PortRelation
<1>5. None \notin Nat
  BY SlotConstants
<1>6. ASSUME NEW c \in cs, NEW d \in cs
      PROVE  /\ c.key = None /\ d.key = None => (PortBefore(c, d) <=> Slots!Ahead(c, d))
             /\ c.key = None /\ d.key # None => ~ PortBefore(c, d)
             /\ c.key # None /\ d.key = None => PortBefore(c, d)
             /\ c.key # None /\ d.key # None => (PortBefore(c, d) <=> c.key < d.key)
  BY DEF PortBefore
<1>7. ASSUME NEW c \in cs, NEW d \in cs PROVE PortBefore(c, d) <=> c # d /\ ~ PortBefore(d, c)
  <2>1. c.key \in Nat \cup {None} /\ d.key \in Nat \cup {None}
    BY <1>2
  <2>2. CASE c.key = None \/ d.key = None
    BY <1>3, <1>6, <2>2
  <2>3. CASE c.key # None /\ d.key # None
    <3>1. (PortBefore(c, d) <=> c.key < d.key) /\ (PortBefore(d, c) <=> d.key < c.key)
      BY <1>6, <2>3
    <3>2. c.key = d.key <=> c = d
      BY <1>1, <2>3
    <3> QED
      BY <2>1, <2>3, <3>1, <3>2
  <2> QED
    BY <2>2, <2>3
<1>8. ASSUME NEW c \in cs, NEW d \in cs, NEW e \in cs, PortBefore(c, d), PortBefore(d, e)
      PROVE  PortBefore(c, e)
  <2>1. c.key \in Nat \cup {None} /\ d.key \in Nat \cup {None} /\ e.key \in Nat \cup {None}
    BY <1>2
  <2>2. CASE c.key = None
    BY <1>3, <1>6, <1>8, <2>2
  <2>3. CASE c.key # None /\ e.key = None
    BY <1>6, <2>3
  <2>4. CASE c.key # None /\ e.key # None
    <3>1. d.key # None
      BY <1>6, <1>8, <2>4
    <3>2. c.key < d.key /\ d.key < e.key /\ (PortBefore(c, e) <=> c.key < e.key)
      BY <1>6, <1>8, <2>4, <3>1
    <3> QED
      BY <2>1, <2>4, <3>1, <3>2
  <2> QED
    BY <2>2, <2>3, <2>4
<1> QED
  BY <1>1, <1>4, <1>7, <1>8 DEF Ordering

LEMMA PortOrderIs ==
  ASSUME NEW cs, Crowd(cs)
  PROVE  LET q == Slots!PortOrder(cs)
         IN /\ q \in Seq(cs)
            /\ \A k, l \in 1 .. Len(q) : q[k] = q[l] => k = l
            /\ \A c \in cs : \E k \in 1 .. Len(q) : q[k] = c
<1>1. Slots!PortOrder(cs) =
        [k \in 1 .. Slots!Cardinality(cs) |->
           CHOOSE x \in cs : Slots!Cardinality({y \in cs : PortBefore(y, x)}) = k - 1]
  BY Zenon DEF Slots!PortOrder, Slots!Ordered, PortBefore
<1>2. ASSUME NEW x \in cs
      PROVE  Slots!Cardinality({y \in cs : PortBefore(y, x)}) = Place(cs, PortRelation(cs), x)
  <2>1. {y \in cs : PortBefore(y, x)} = {y \in cs : <<y, x>> \in PortRelation(cs)}
    BY DEF PortRelation
  <2> QED
    BY <2>1, SameCount DEF Place
<1>3. Slots!PortOrder(cs) = InOrder(cs, PortRelation(cs))
  <2>1. ASSUME NEW k
        PROVE  (CHOOSE x \in cs : Slots!Cardinality({y \in cs : PortBefore(y, x)}) = k - 1)
                 = CHOOSE x \in cs : Place(cs, PortRelation(cs), x) = k - 1
    BY Zenon, <1>2
  <2>2. Slots!Cardinality(cs) = Cardinality(cs)
    BY SameCount
  <2> QED
    BY Zenon, <1>1, <2>1, <2>2 DEF InOrder
<1>4. Ordering(cs, PortRelation(cs))
  BY PortOrders
<1> DEFINE q == Slots!PortOrder(cs)
           R == PortRelation(cs)
<1> HIDE DEF R
<1>a. /\ InOrder(cs, R) \in Seq(cs) /\ Len(InOrder(cs, R)) = Cardinality(cs)
      /\ \A k, l \in 1 .. Cardinality(cs) : InOrder(cs, R)[k] = InOrder(cs, R)[l] => k = l
      /\ \A c \in cs : \E k \in 1 .. Cardinality(cs) : InOrder(cs, R)[k] = c
  <2>1. Ordering(cs, R)
    BY Zenon, <1>4 DEF R
  <2> QED
    BY ZenonT(60), <2>1, InOrderIs
<1>b. q = InOrder(cs, R)
  BY Zenon, <1>3 DEF R
<1> HIDE DEF q
<1>5. /\ q \in Seq(cs) /\ Len(q) = Cardinality(cs)
      /\ \A k, l \in 1 .. Cardinality(cs) : q[k] = q[l] => k = l
      /\ \A c \in cs : \E k \in 1 .. Cardinality(cs) : q[k] = c
  BY Zenon, <1>a, <1>b
<1>6. /\ q \in Seq(cs)
      /\ \A k, l \in 1 .. Len(q) : q[k] = q[l] => k = l
      /\ \A c \in cs : \E k \in 1 .. Len(q) : q[k] = c
  BY Zenon, <1>5
<1> QED
  BY Zenon, <1>6 DEF q

Attached == Named(attached) /\ IsFiniteSet(attached) /\ lastId \in Nat

LEMMA LiveIs == ASSUME Attached PROVE Crowd(Slots!Live)
<1> DEFINE A == {c \in attached : c.kind \notin off}
           Late(c) == \E d \in A : d.key = c.key /\ Slots!Ahead(d, c)
           f == [c \in A |-> [c EXCEPT !.key = IF Late(c) THEN None ELSE @]]
           U == {[c EXCEPT !.key = IF Late(c) THEN None ELSE @] : c \in A}
<1>1. Slots!Live = U
  BY Zenon DEF Slots!Live, Slots!UniqueKeys
<1>2. Named(A) /\ lastId \in Nat
  BY DEF Attached, Named
<1>3. IsFiniteSet(A)
  <2>1. A \in SUBSET attached
    OBVIOUS
  <2> HIDE DEF A
  <2> QED
    BY <2>1, FS_Subset DEF Attached
<1>4. \A c, d \in A : c # d => Slots!Ahead(c, d) \/ Slots!Ahead(d, c)
  <2> HIDE DEF A
  <2> QED
    BY <1>2, AheadOrders
<1> HIDE DEF A
<1>5. U = {f[c] : c \in A} /\ DOMAIN f = A
  OBVIOUS
<1>6. ASSUME NEW c \in A
      PROVE  /\ f[c] \in ControllerOf /\ f[c].id = c.id
             /\ f[c].key = IF Late(c) THEN None ELSE c.key
  <2>1. f[c] = [c EXCEPT !.key = IF Late(c) THEN None ELSE @]
    OBVIOUS
  <2>2. c \in ControllerOf
    BY <1>2 DEF Named
  <2> HIDE DEF f, Late
  <2> QED
    BY <2>1, <2>2 DEF ControllerOf
<1>7. IsFiniteSet(U)
  <2>1. f \in Surjection(A, U)
    <3>1. f = [c \in A |-> f[c]]
      OBVIOUS
    <3> HIDE DEF U, f
    <3>2. f \in [A -> U]
      BY <1>5, <3>1
    <3> QED
      BY <1>5, <3>2 DEF Surjection
  <2> HIDE DEF U, f
  <2> QED
    BY <1>3, <2>1, FS_Surjection
<1> HIDE DEF f, U
<1>8. Named(U)
  <2>1. U \subseteq ControllerOf
    BY <1>5, <1>6
  <2>2. ASSUME NEW u \in U, NEW v \in U, u.id = v.id PROVE u = v
    <3>1. PICK c \in A : u = f[c]
      BY <1>5
    <3>2. PICK d \in A : v = f[d]
      BY <1>5
    <3>3. c.id = d.id
      BY <1>6, <2>2, <3>1, <3>2
    <3> QED
      BY <1>2, <3>1, <3>2, <3>3 DEF Named
  <2> QED
    BY <2>1, <2>2 DEF Named
<1>9. ASSUME NEW u \in U, NEW v \in U, u.key # None, u.key = v.key PROVE u = v
  <2>1. PICK c \in A : u = f[c]
    BY <1>5
  <2>2. PICK d \in A : v = f[d]
    BY <1>5
  <2>3. ~ Late(c) /\ u.key = c.key
    BY Zenon, <1>6, <1>9, <2>1
  <2>4. ~ Late(d) /\ v.key = d.key
    BY Zenon, <1>6, <1>9, <2>2
  <2>5. c = d
    BY Zenon, <1>4, <1>9, <2>3, <2>4
  <2> QED
    BY <2>1, <2>2, <2>5
<1> QED
  BY <1>1, <1>2, <1>7, <1>8, <1>9 DEF Crowd

-----------------------------------------------------------------------------
(* Tables.                                                                 *)

SlotOf ==
  [kind : Slots!KindSet \cup {None}, key : Slots!Ports \cup {None},
   state : {"connected", "missing", "reserved", "empty"},
   id : 1 .. lastId \cup {None}, pinned : BOOLEAN]

\* Only a connected slot has a controller, and no other has the same.
Sound(s) ==
  /\ s \in Seq(SlotOf)
  /\ \A i \in 1 .. Len(s) : s[i].id # None <=> s[i].state = "connected"
  /\ \A i \in 1 .. Len(s) : s[i].state = "connected" => s[i].kind \in Slots!KindSet
  /\ \A i, j \in 1 .. Len(s) : s[i].id # None /\ s[i].id = s[j].id => i = j

PinOf == [key : Slots!Ports, kind : Slots!KindSet]

Pinning(p) ==
  /\ DOMAIN p \subseteq Nat \ {0} /\ IsFiniteSet(DOMAIN p)
  /\ p \in [DOMAIN p -> PinOf]
  /\ \A i, j \in DOMAIN p : p[i].key = p[j].key => i = j

\* Each pinned slot is its socket's.
Held(s, p) ==
  \A i \in DOMAIN p :
    i \in 1 .. Len(s) /\ s[i].pinned /\ s[i].key = p[i].key /\ s[i].state # "empty"

LEMMA ConnectedIs ==
  ASSUME NEW c \in ControllerOf, NEW b \in BOOLEAN, lastId \in Nat
  PROVE  LET s == Slots!Connected(c, b)
         IN /\ s \in SlotOf /\ s.kind = c.kind /\ s.kind \in Slots!KindSet /\ s.key = c.key
            /\ s.state = "connected" /\ s.id = c.id /\ s.id # None /\ s.pinned = b
<1>1. c.kind \in Slots!KindSet /\ c.key \in Slots!Ports \cup {None} /\ c.id \in 1 .. lastId
  BY DEF ControllerOf
<1>2. c.id # None
  BY <1>1, SlotConstants
<1> QED
  BY <1>1, <1>2 DEF Slots!Connected, SlotOf

LEMMA PinnedAbsentIs ==
  ASSUME NEW pin \in PinOf
  PROVE  LET s == Slots!PinnedAbsent(pin)
         IN /\ s \in SlotOf /\ s.key = pin.key /\ s.state = "missing" /\ s.id = None /\ s.pinned
<1>1. pin.kind \in Slots!KindSet /\ pin.key \in Slots!Ports
  BY DEF PinOf
<1> QED
  BY <1>1 DEF Slots!PinnedAbsent, SlotOf

LEMMA EmptySlotIs ==
  /\ Slots!EmptySlot \in SlotOf /\ Slots!EmptySlot.state = "empty"
  /\ Slots!EmptySlot.id = None
BY DEF Slots!EmptySlot, SlotOf

\* _trimmed drops empty slots only.
LEMMA TrimmedIs ==
  ASSUME NEW s, Sound(s)
  PROVE  LET t == Slots!Trimmed(s)
         IN /\ Sound(t) /\ Len(t) <= Len(s)
            /\ \A i \in 1 .. Len(t) : t[i] = s[i]
            /\ \A i \in 1 .. Len(s) : s[i].state # "empty" => i \in 1 .. Len(t)
<1> DEFINE I == {0} \cup {i \in DOMAIN s : s[i].state # "empty"}
           n == Slots!Max(I)
           t == SubSeq(s, 1, n)
<1>0. s \in Seq(SlotOf) /\ DOMAIN s = 1 .. Len(s) /\ Len(s) \in Nat
  BY DEF Sound
<1>1. I \subseteq 0 .. Len(s) /\ I # {}
  BY <1>0
<1>2. n \in I /\ \A y \in I : n >= y
  <2> HIDE DEF I
  <2> QED
    BY <1>0, <1>1, MaxIs
<1>3. n \in 0 .. Len(s) /\ \A i \in 1 .. Len(s) : s[i].state # "empty" => i <= n
  BY <1>0, <1>1, <1>2
<1>4. Slots!Trimmed(s) = t
  BY Zenon DEF Slots!Trimmed
<1> HIDE DEF I, n
<1>5. t \in Seq(SlotOf) /\ Len(t) = n /\ \A i \in 1 .. n : t[i] = s[i]
  BY <1>0, <1>3
<1> HIDE DEF t
<1>6. \A i \in 1 .. n : i \in 1 .. Len(s)
  BY <1>0, <1>3
<1>7. Sound(t)
  BY SMTT(60), <1>5, <1>6 DEF Sound
<1>8. \A i \in 1 .. Len(s) : s[i].state # "empty" => i \in 1 .. Len(t)
  BY <1>0, <1>3, <1>5
<1>9. Len(t) <= Len(s)
  BY <1>0, <1>3, <1>5
<1> QED
  BY <1>4, <1>5, <1>7, <1>8, <1>9

LEMMA TrimmedHeld ==
  ASSUME NEW s, Sound(s), NEW p, Held(s, p)
  PROVE  Held(Slots!Trimmed(s), p)
<1>1. /\ \A i \in 1 .. Len(Slots!Trimmed(s)) : Slots!Trimmed(s)[i] = s[i]
      /\ \A i \in 1 .. Len(s) : s[i].state # "empty" => i \in 1 .. Len(Slots!Trimmed(s))
  BY TrimmedIs
<1> QED
  BY <1>1 DEF Held

LEMMA SlotChanges ==
  ASSUME NEW s \in SlotOf
  PROVE  /\ \A b \in BOOLEAN :
              LET t == [s EXCEPT !.pinned = b]
              IN /\ t \in SlotOf /\ t.kind = s.kind /\ t.key = s.key /\ t.state = s.state
                 /\ t.id = s.id /\ t.pinned = b
         /\ LET t == [s EXCEPT !.state = "missing", !.id = None]
            IN /\ t \in SlotOf /\ t.kind = s.kind /\ t.key = s.key /\ t.state = "missing"
               /\ t.id = None /\ t.pinned = s.pinned
         /\ LET t == [s EXCEPT !.state = "reserved"]
            IN /\ t \in SlotOf /\ t.kind = s.kind /\ t.key = s.key /\ t.state = "reserved"
               /\ t.id = s.id /\ t.pinned = s.pinned
BY DEF SlotOf

\* Who is connected and still there keeps the slot.
LEMMA CarriedIs ==
  ASSUME Sound(slots), NEW cs
  PROVE  LET t == Slots!Carried(cs)
         IN /\ Sound(t) /\ Len(t) = Len(slots) /\ \A p : Held(slots, p) => Held(t, p)
            /\ \A i \in 1 .. Len(slots) : slots[i].state # "empty" => t[i].state # "empty"
            /\ \A i \in 1 .. Len(t) :
                 /\ slots[i].state = "connected" /\ slots[i].id \in {c.id : c \in cs} => t[i] = slots[i]
                 /\ t[i].state = "connected" => t[i] = slots[i] /\ t[i].id \in {c.id : c \in cs}
<1> DEFINE gone(i) == slots[i].state = "connected" /\ slots[i].id \notin {c.id : c \in cs}
           t == [i \in DOMAIN slots |->
                   IF gone(i) THEN [slots[i] EXCEPT !.state = "missing", !.id = None] ELSE slots[i]]
<1>1. Slots!Carried(cs) = t
  BY Zenon DEF Slots!Carried, Slots!IsTaken
<1>2. slots \in Seq(SlotOf) /\ DOMAIN slots = 1 .. Len(slots) /\ Len(slots) \in Nat
  BY DEF Sound
<1> HIDE DEF gone
<1>3. ASSUME NEW i \in 1 .. Len(slots)
      PROVE  /\ t[i] \in SlotOf /\ t[i].key = slots[i].key /\ t[i].pinned = slots[i].pinned
             /\ t[i].kind = slots[i].kind
             /\ ~ gone(i) => t[i] = slots[i]
             /\ gone(i) => t[i].state = "missing" /\ t[i].id = None
  <2>1. slots[i] \in SlotOf
    BY <1>2
  <2>2. t[i] = IF gone(i) THEN [slots[i] EXCEPT !.state = "missing", !.id = None] ELSE slots[i]
    BY <1>2
  <2> HIDE DEF t
  <2>3. CASE gone(i)
    <3>1. t[i] = [slots[i] EXCEPT !.state = "missing", !.id = None]
      BY <2>2, <2>3
    <3> QED
      BY <2>1, <2>3, <3>1 DEF SlotOf
  <2>4. CASE ~ gone(i)
    BY Zenon, <2>1, <2>2, <2>4
  <2> QED
    BY Zenon, <2>3, <2>4
<1>4. t \in Seq(SlotOf) /\ Len(t) = Len(slots)
  <2>1. DOMAIN t = 1 .. Len(slots) /\ t = [i \in 1 .. Len(slots) |-> t[i]]
    BY <1>2
  <2> HIDE DEF t
  <2>2. t \in [1 .. Len(slots) -> SlotOf]
    BY <1>3, <2>1
  <2>3. t \in Seq(SlotOf)
    BY <1>2, <2>2
  <2> QED
    BY <1>2, <2>1, <2>3
<1> HIDE DEF t
<1>5. Sound(t)
  <2>1. \A i \in 1 .. Len(slots) : slots[i].id # None <=> slots[i].state = "connected"
    BY DEF Sound
  <2>2. \A i \in 1 .. Len(slots) : t[i].id # None <=> t[i].state = "connected"
    BY <1>3, <2>1
  <2>3. \A i \in 1 .. Len(slots) : t[i].id # None => t[i] = slots[i]
    BY <1>3
  <2>4. \A i, j \in 1 .. Len(slots) : slots[i].id # None /\ slots[i].id = slots[j].id => i = j
    BY DEF Sound
  <2>5. ASSUME NEW i \in 1 .. Len(slots), NEW j \in 1 .. Len(slots), t[i].id # None, t[i].id = t[j].id
        PROVE  i = j
    BY Zenon, <2>3, <2>4, <2>5
  <2>6. \A i \in 1 .. Len(slots) : t[i].state = "connected" => t[i].kind \in Slots!KindSet
    BY <1>3 DEF Sound
  <2> QED
    BY Zenon, <1>4, <2>2, <2>5, <2>6 DEF Sound
<1>6. ASSUME NEW p, Held(slots, p) PROVE Held(t, p)
  <2>1. \A i \in DOMAIN p :
          i \in 1 .. Len(slots) /\ slots[i].pinned /\ slots[i].key = p[i].key /\ slots[i].state # "empty"
    BY Zenon, <1>6 DEF Held
  <2>2. "missing" # "empty"
    OBVIOUS
  <2> QED
    BY Zenon, <1>3, <1>4, <2>1, <2>2 DEF Held
<1>7. ASSUME NEW i \in 1 .. Len(t)
      PROVE  /\ slots[i].state = "connected" /\ slots[i].id \in {c.id : c \in cs} => t[i] = slots[i]
             /\ t[i].state = "connected" => t[i] = slots[i] /\ t[i].id \in {c.id : c \in cs}
  <2>1. i \in 1 .. Len(slots)
    BY <1>4
  <2>2. slots[i].state = "connected" /\ slots[i].id \in {c.id : c \in cs} => ~ gone(i)
    BY Zenon DEF gone
  <2>3. t[i].state = "connected" => ~ gone(i)
    BY <1>3, <2>1
  <2>4. t[i].state = "connected" => t[i] = slots[i]
    BY Zenon, <1>3, <2>1, <2>3
  <2>5. t[i].state = "connected" => slots[i].id \in {c.id : c \in cs}
    BY Zenon, <2>3, <2>4 DEF gone
  <2> QED
    BY Zenon, <1>3, <2>1, <2>2, <2>4, <2>5
<1>8. \A i \in 1 .. Len(slots) : slots[i].state # "empty" => t[i].state # "empty"
  BY <1>3
<1> QED
  BY Zenon, <1>1, <1>4, <1>5, <1>6, <1>7, <1>8

\* No slot of s is empty in t that was not empty.
Filled(s, t) ==
  \A i \in 1 .. Len(s) : s[i].state # "empty" => i \in 1 .. Len(t) /\ t[i].state # "empty"

OwnSeat(s, c) == Slots!Min(Slots!OwnSlots(s, c))

LEMMA OwnIs ==
  ASSUME NEW s, Sound(s), Held(s, pins), NEW c, Slots!OwnSlots(s, c) # {}
  PROVE  /\ OwnSeat(s, c) \in 1 .. Len(s) /\ s[OwnSeat(s, c)].state # "connected"
         /\ OwnSeat(s, c) \in DOMAIN pins => pins[OwnSeat(s, c)].key = c.key
         /\ OwnSeat(s, c) \in Slots!OwnSlots(s, c)
<1> DEFINE open == {i \in DOMAIN s : ~ Slots!IsTaken(s[i])}
           pinnedAt == {i \in open \cap DOMAIN pins : pins[i].key = c.key}
           O == Slots!OwnSlots(s, c)
<1>1. O = IF pinnedAt # {} THEN pinnedAt
          ELSE {i \in open : c.key # None /\ s[i].kind = c.kind /\ s[i].key = c.key}
  BY Zenon DEF Slots!OwnSlots
<1>2. DOMAIN s = 1 .. Len(s) /\ Len(s) \in Nat
  BY DEF Sound
<1>3. \A i \in DOMAIN pins : s[i].key = pins[i].key
  BY DEF Held
<1> HIDE DEF O
<1>4. ASSUME NEW i \in O
      PROVE  i \in 1 .. Len(s) /\ s[i].state # "connected" /\ (i \in DOMAIN pins => pins[i].key = c.key)
  <2>1. i \in open /\ (i \in DOMAIN pins => pins[i].key = c.key)
    BY Zenon, <1>1, <1>3
  <2> QED
    BY <2>1, <1>2 DEF Slots!IsTaken
<1>5. O \subseteq Nat /\ O # {}
  BY <1>2, <1>4 DEF O
<1>6. Slots!Min(O) \in O
  BY <1>5, MinIs
<1> QED
  BY Zenon, <1>4, <1>6 DEF O, OwnSeat

\* Who comes back sits in a slot that was open, one in each.
LEMMA ReclaimedIs ==
  ASSUME NEW s, Sound(s), Held(s, pins), NEW cs, Crowd(cs)
  PROVE  LET t == Slots!Reclaimed(s, cs)
         IN /\ Sound(t) /\ Len(t) = Len(s) /\ Held(t, pins)
            /\ \A i \in 1 .. Len(s) : s[i].state = "connected" => t[i] = s[i]
            /\ \A i \in 1 .. Len(s) : s[i].state # "empty" => t[i].state # "empty"
<1> DEFINE back(i) == {c \in Slots!Newcomers(s, cs) :
                        Slots!OwnSlots(s, c) # {} /\ Slots!Min(Slots!OwnSlots(s, c)) = i}
           comes(i) == CHOOSE c \in back(i) : TRUE
           t == [i \in DOMAIN s |->
                   IF back(i) = {} THEN s[i] ELSE Slots!Connected(comes(i), i \in DOMAIN pins)]
<1>1. Slots!Reclaimed(s, cs) = t
  BY Zenon DEF Slots!Reclaimed
<1>2. /\ s \in Seq(SlotOf) /\ DOMAIN s = 1 .. Len(s) /\ Len(s) \in Nat
      /\ cs \subseteq ControllerOf /\ lastId \in Nat /\ \A c, d \in cs : c.id = d.id => c = d
  BY DEF Sound, Crowd, Named
<1>3. ASSUME NEW i \in 1 .. Len(s), back(i) # {}
      PROVE  /\ comes(i) \in cs /\ \A j \in 1 .. Len(s) : s[j].id # comes(i).id
             /\ OwnSeat(s, comes(i)) = i /\ s[i].state # "connected"
             /\ i \in DOMAIN pins => pins[i].key = comes(i).key
  <2>1. comes(i) \in back(i)
    BY <1>3
  <2> HIDE DEF comes
  <2>2. /\ comes(i) \in cs /\ \A j \in DOMAIN s : s[j].id # comes(i).id
        /\ Slots!OwnSlots(s, comes(i)) # {} /\ OwnSeat(s, comes(i)) = i
    BY Zenon, <2>1 DEF Slots!Newcomers, OwnSeat
  <2>3. /\ OwnSeat(s, comes(i)) \in 1 .. Len(s) /\ s[OwnSeat(s, comes(i))].state # "connected"
        /\ OwnSeat(s, comes(i)) \in DOMAIN pins => pins[OwnSeat(s, comes(i))].key = comes(i).key
    BY Zenon, <2>2, OwnIs
  <2> QED
    BY Zenon, <1>2, <2>2, <2>3
<1> HIDE DEF comes, back
<1>4. ASSUME NEW i \in 1 .. Len(s), back(i) # {}
      PROVE  /\ t[i] \in SlotOf /\ t[i].kind \in Slots!KindSet /\ t[i].key = comes(i).key
             /\ t[i].state = "connected" /\ t[i].id = comes(i).id /\ t[i].id # None
             /\ t[i].pinned = (i \in DOMAIN pins)
  <2>1. t[i] = Slots!Connected(comes(i), i \in DOMAIN pins)
    BY <1>2, <1>4
  <2>2. comes(i) \in ControllerOf
    BY <1>2, <1>3, <1>4
  <2>3. (i \in DOMAIN pins) \in BOOLEAN
    OBVIOUS
  <2>4. \A c \in ControllerOf, b \in BOOLEAN :
          LET u == Slots!Connected(c, b)
          IN /\ u \in SlotOf /\ u.kind = c.kind /\ u.kind \in Slots!KindSet /\ u.key = c.key
             /\ u.state = "connected" /\ u.id = c.id /\ u.id # None /\ u.pinned = b
    BY Zenon, <1>2, ConnectedIs
  <2> DEFINE b == i \in DOMAIN pins
             c == comes(i)
  <2>5. t[i] = Slots!Connected(c, b) /\ c \in ControllerOf /\ b \in BOOLEAN
    BY <2>1, <2>2
  <2> HIDE DEF t, b, c
  <2>6. /\ t[i] \in SlotOf /\ t[i].kind \in Slots!KindSet /\ t[i].key = c.key
        /\ t[i].state = "connected" /\ t[i].id = c.id /\ t[i].id # None /\ t[i].pinned = b
    BY <2>4, <2>5
  <2> QED
    BY Zenon, <2>6 DEF b, c
<1>5. ASSUME NEW i \in 1 .. Len(s), back(i) = {} PROVE t[i] = s[i]
  BY <1>2, <1>5
<1>6. t \in Seq(SlotOf) /\ Len(t) = Len(s)
  <2>1. DOMAIN t = 1 .. Len(s) /\ t = [i \in 1 .. Len(s) |-> t[i]]
    BY <1>2
  <2> HIDE DEF t
  <2>2. \A i \in 1 .. Len(s) : t[i] \in SlotOf
    BY <1>2, <1>4, <1>5
  <2>3. t \in [1 .. Len(s) -> SlotOf]
    BY <2>1, <2>2
  <2>4. t \in Seq(SlotOf)
    BY <1>2, <2>3
  <2> QED
    BY <1>2, <2>1, <2>4
<1> HIDE DEF t
<1>7. Sound(t)
  <2>1. /\ \A i \in 1 .. Len(s) : s[i].id # None <=> s[i].state = "connected"
        /\ \A i \in 1 .. Len(s) : s[i].state = "connected" => s[i].kind \in Slots!KindSet
        /\ \A i, j \in 1 .. Len(s) : s[i].id # None /\ s[i].id = s[j].id => i = j
    BY DEF Sound
  <2>2. ASSUME NEW i \in 1 .. Len(s)
        PROVE  /\ t[i].id # None <=> t[i].state = "connected"
               /\ t[i].state = "connected" => t[i].kind \in Slots!KindSet
    BY Zenon, <1>4, <1>5, <2>1
  <2>3. ASSUME NEW i \in 1 .. Len(s), NEW j \in 1 .. Len(s), t[i].id # None, t[i].id = t[j].id
        PROVE  i = j
    <3>1. CASE back(i) = {} /\ back(j) = {}
      BY Zenon, <1>5, <2>1, <2>3, <3>1
    <3>2. CASE back(i) # {} /\ back(j) = {}
      <4>1. t[i].id = comes(i).id /\ s[j].id # comes(i).id
        BY Zenon, <1>3, <1>4, <3>2
      <4>2. t[j] = s[j]
        BY Zenon, <1>5, <3>2
      <4> QED
        BY Zenon, <2>3, <4>1, <4>2
    <3>3. CASE back(i) = {} /\ back(j) # {}
      <4>1. t[j].id = comes(j).id /\ s[i].id # comes(j).id
        BY Zenon, <1>3, <1>4, <3>3
      <4>2. t[i] = s[i]
        BY Zenon, <1>5, <3>3
      <4> QED
        BY Zenon, <2>3, <4>1, <4>2
    <3>4. CASE back(i) # {} /\ back(j) # {}
      <4>1. comes(i) = comes(j)
        <5>1. comes(i) \in cs /\ t[i].id = comes(i).id
          BY Zenon, <1>3, <1>4, <3>4
        <5>2. comes(j) \in cs /\ t[j].id = comes(j).id
          BY Zenon, <1>3, <1>4, <3>4
        <5> QED
          BY <1>2, <2>3, <5>1, <5>2
      <4> QED
        BY Zenon, <1>3, <3>4, <4>1
    <3> QED
      BY Zenon, <3>1, <3>2, <3>3, <3>4
  <2> QED
    BY Zenon, <1>6, <2>2, <2>3 DEF Sound
<1>8. Held(t, pins)
  <2>1. ASSUME NEW i \in DOMAIN pins
        PROVE  i \in 1 .. Len(s) /\ t[i].pinned /\ t[i].key = pins[i].key /\ t[i].state # "empty"
    <3>1. i \in 1 .. Len(s) /\ s[i].pinned /\ s[i].key = pins[i].key /\ s[i].state # "empty"
      BY DEF Held
    <3>2. CASE back(i) = {}
      BY Zenon, <1>5, <3>1, <3>2
    <3>3. CASE back(i) # {}
      <4>1. t[i].state # "empty"
        BY <1>4, <3>1, <3>3
      <4> QED
        BY Zenon, <1>3, <1>4, <3>1, <3>3, <4>1
    <3> QED
      BY Zenon, <3>2, <3>3
  <2> QED
    BY Zenon, <1>6, <2>1 DEF Held
<1>9. \A i \in 1 .. Len(s) : s[i].state = "connected" => t[i] = s[i]
  BY Zenon, <1>3, <1>5
<1>10. \A i \in 1 .. Len(s) : s[i].state # "empty" => t[i].state # "empty"
  BY <1>4, <1>5
<1> QED
  BY Zenon, <1>1, <1>6, <1>7, <1>8, <1>9, <1>10

\* What is left for a controller was left at its socket.
LEMMA OwnKey ==
  ASSUME NEW s, Sound(s), Held(s, pins), Pinning(pins), NEW c, Slots!OwnSlots(s, c) # {}
  PROVE  s[OwnSeat(s, c)].key = c.key /\ c.key # None
<1> DEFINE open == {i \in DOMAIN s : ~ Slots!IsTaken(s[i])}
           pinnedAt == {i \in open \cap DOMAIN pins : pins[i].key = c.key}
           O == Slots!OwnSlots(s, c)
           m == OwnSeat(s, c)
<1>1. O = IF pinnedAt # {} THEN pinnedAt
          ELSE {i \in open : c.key # None /\ s[i].kind = c.kind /\ s[i].key = c.key}
  BY Zenon DEF Slots!OwnSlots
<1>2. \A i \in DOMAIN pins : s[i].key = pins[i].key
  BY DEF Held
<1>3. \A i \in DOMAIN pins : pins[i].key # None
  <2>1. \A i \in DOMAIN pins : pins[i].key \in Slots!Ports
    BY DEF Pinning, PinOf
  <2> QED
    BY <2>1, SlotConstants
<1>4. m \in O
  BY OwnIs
<1> HIDE DEF O, m
<1>5. s[m].key = c.key /\ c.key # None
  BY Zenon, <1>1, <1>2, <1>3, <1>4
<1> QED
  BY Zenon, <1>5 DEF m

\* Who comes back to a socket gets what was left there, and no other does.
LEMMA ComesBack ==
  ASSUME NEW s, Sound(s), Held(s, pins), Pinning(pins), NEW cs, Crowd(cs),
         NEW c \in cs, \A i \in 1 .. Len(s) : s[i].id # c.id, Slots!OwnSlots(s, c) # {}
  PROVE  LET u == Slots!Reclaimed(s, cs)[OwnSeat(s, c)]
         IN OwnSeat(s, c) \in 1 .. Len(s) /\ u.state = "connected" /\ u.id = c.id
<1> DEFINE m == OwnSeat(s, c)
           back(i) == {d \in Slots!Newcomers(s, cs) :
                        Slots!OwnSlots(s, d) # {} /\ Slots!Min(Slots!OwnSlots(s, d)) = i}
           u == Slots!Reclaimed(s, cs)[m]
<1>1. /\ s \in Seq(SlotOf) /\ DOMAIN s = 1 .. Len(s)
      /\ cs \subseteq ControllerOf /\ lastId \in Nat
      /\ \A d, e \in cs : d.key # None /\ d.key = e.key => d = e
  BY DEF Sound, Crowd, Named
<1>2. m \in 1 .. Len(s) /\ s[m].key = c.key /\ c.key # None
  BY Zenon, OwnIs, OwnKey
<1> HIDE DEF m
<1>3. c \in back(m)
  <2>1. c \in Slots!Newcomers(s, cs)
    BY Zenon, <1>1 DEF Slots!Newcomers
  <2> QED
    BY Zenon, <2>1 DEF m, OwnSeat
<1>4. ASSUME NEW d \in back(m) PROVE d = c
  <2>1. d \in cs /\ Slots!OwnSlots(s, d) # {} /\ OwnSeat(s, d) = m
    BY Zenon DEF Slots!Newcomers, OwnSeat
  <2>2. s[m].key = d.key
    BY Zenon, <2>1, OwnKey
  <2> QED
    BY Zenon, <1>1, <1>2, <2>1, <2>2
<1>5. Slots!Reclaimed(s, cs) =
        [i \in DOMAIN s |->
           IF back(i) = {} THEN s[i]
           ELSE Slots!Connected(CHOOSE d \in back(i) : TRUE, i \in DOMAIN pins)]
  BY Zenon DEF Slots!Reclaimed
<1> HIDE DEF back
<1>6. (CHOOSE d \in back(m) : TRUE) = c
  BY Zenon, <1>3, <1>4
<1>7. u = Slots!Connected(c, m \in DOMAIN pins)
  <2>1. m \in DOMAIN s /\ back(m) # {}
    BY <1>1, <1>2, <1>3
  <2> QED
    BY <1>5, <1>6, <2>1
<1> DEFINE b == m \in DOMAIN pins
<1>8. b \in BOOLEAN /\ c \in ControllerOf /\ u = Slots!Connected(c, b)
  BY <1>1, <1>7
<1> HIDE DEF u, b
<1>9. u.state = "connected" /\ u.id = c.id
  BY <1>1, <1>8, ConnectedIs
<1> QED
  BY Zenon, <1>2, <1>9 DEF m, u

Proper(u) ==
  /\ u \in SlotOf
  /\ u.id # None <=> u.state = "connected"
  /\ u.state = "connected" => u.kind \in Slots!KindSet

\* One slot is another, or is added.
LEMMA Reseated ==
  ASSUME NEW s, Sound(s), NEW t \in Seq(SlotOf), NEW i \in 1 .. Len(t), Proper(t[i]),
         Len(t) = IF i = Len(s) + 1 THEN Len(s) + 1 ELSE Len(s),
         \A j \in 1 .. Len(t) : j # i => t[j] = s[j],
         t[i].id # None => \A j \in 1 .. Len(s) : j # i => s[j].id # t[i].id
  PROVE  Sound(t)
<1>1. s \in Seq(SlotOf) /\ Len(s) \in Nat /\ Len(t) \in Nat
  BY DEF Sound
<1>2. \A j \in 1 .. Len(t) : j # i => j \in 1 .. Len(s)
  BY <1>1
<1>3. /\ \A k \in 1 .. Len(s) : s[k].id # None <=> s[k].state = "connected"
      /\ \A k \in 1 .. Len(s) : s[k].state = "connected" => s[k].kind \in Slots!KindSet
      /\ \A k, l \in 1 .. Len(s) : s[k].id # None /\ s[k].id = s[l].id => k = l
  BY DEF Sound
<1>4. /\ t[i].id # None <=> t[i].state = "connected"
      /\ t[i].state = "connected" => t[i].kind \in Slots!KindSet
  BY DEF Proper
<1>5. ASSUME NEW k \in 1 .. Len(t)
      PROVE  /\ t[k].id # None <=> t[k].state = "connected"
             /\ t[k].state = "connected" => t[k].kind \in Slots!KindSet
  BY Zenon, <1>2, <1>3, <1>4
<1>6. ASSUME NEW k \in 1 .. Len(t), NEW l \in 1 .. Len(t), t[k].id # None, t[k].id = t[l].id
      PROVE  k = l
  <2>1. CASE k # i /\ l # i
    BY Zenon, <1>2, <1>3, <1>6, <2>1
  <2>2. CASE k = i /\ l # i
    BY Zenon, <1>2, <1>6, <2>2
  <2>3. CASE k # i /\ l = i
    BY Zenon, <1>2, <1>6, <2>3
  <2> QED
    BY Zenon, <2>1, <2>2, <2>3
<1> QED
  BY Zenon, <1>5, <1>6 DEF Sound

Free(s, c) == \A i \in 1 .. Len(s) : s[i].id # c.id

LEMMA VacantIs ==
  ASSUME NEW s \in Seq(SlotOf), NEW c, Slots!VacantFor(s, c) # {}
  PROVE  LET i == Slots!Min(Slots!VacantFor(s, c))
         IN i \in 1 .. Len(s) /\ s[i].state # "connected" /\ i \notin DOMAIN pins
<1> DEFINE V == Slots!VacantFor(s, c)
<1>1. V \subseteq {i \in DOMAIN s : s[i].state # "connected"} \ DOMAIN pins
  BY Zenon DEF Slots!VacantFor, Slots!IsTaken
<1>2. DOMAIN s = 1 .. Len(s) /\ Len(s) \in Nat
  OBVIOUS
<1> HIDE DEF V
<1>3. V \subseteq Nat
  BY <1>1, <1>2
<1>4. Slots!Min(V) \in V
  BY <1>3, MinIs DEF V
<1> DEFINE m == Slots!Min(V)
<1> HIDE DEF m
<1>5. m \in V
  BY <1>4 DEF m
<1>6. m \in 1 .. Len(s) /\ s[m].state # "connected" /\ m \notin DOMAIN pins
  BY Zenon, <1>1, <1>2, <1>5
<1> QED
  BY Zenon, <1>6 DEF m, V

LEMMA PlacedType ==
  ASSUME NEW s \in Seq(SlotOf), NEW c \in ControllerOf, lastId \in Nat
  PROVE  Slots!Placed(s, c) \in Seq(SlotOf)
<1> DEFINE u == Slots!Connected(c, FALSE)
<1>1. u \in SlotOf
  BY ConnectedIs
<1> HIDE DEF u
<1>2. CASE Slots!VacantFor(s, c) = {}
  <2>1. Slots!Placed(s, c) = Append(s, u)
    BY Zenon, <1>2 DEF Slots!Placed, u
  <2>2. Append(s, u) \in Seq(SlotOf)
    BY <1>1
  <2> QED
    BY Zenon, <2>1, <2>2
<1>3. CASE Slots!VacantFor(s, c) # {}
  <2> DEFINE i == Slots!Min(Slots!VacantFor(s, c))
  <2>1. i \in 1 .. Len(s)
    BY <1>3, VacantIs
  <2>2. Slots!Placed(s, c) = [s EXCEPT ![i] = u]
    BY Zenon, <1>3 DEF Slots!Placed, u
  <2> HIDE DEF i
  <2>3. [s EXCEPT ![i] = u] \in Seq(SlotOf)
    BY <1>1, <2>1
  <2> QED
    BY Zenon, <2>2, <2>3
<1> QED
  BY <1>2, <1>3

\* A newcomer takes a slot that is nobody's, and no pinned one.
LEMMA PlacedIs ==
  ASSUME NEW s, Sound(s), Held(s, pins), NEW c \in ControllerOf, Free(s, c), lastId \in Nat
  PROVE  LET t == Slots!Placed(s, c)
         IN /\ Sound(t) /\ Held(t, pins) /\ Len(s) <= Len(t)
            /\ \A i \in 1 .. Len(s) : s[i].state = "connected" => t[i] = s[i]
            /\ Filled(s, t)
            /\ \A d \in ControllerOf : Free(s, d) /\ d.id # c.id => Free(t, d)
<1> DEFINE u == Slots!Connected(c, FALSE)
           t == Slots!Placed(s, c)
           i == IF Slots!VacantFor(s, c) = {} THEN Len(s) + 1 ELSE Slots!Min(Slots!VacantFor(s, c))
<1>1. s \in Seq(SlotOf) /\ Len(s) \in Nat
  BY DEF Sound
<1>2. /\ u \in SlotOf /\ u.kind \in Slots!KindSet /\ u.key = c.key
      /\ u.state = "connected" /\ u.id = c.id /\ u.id # None
  BY ConnectedIs
<1>3. t \in Seq(SlotOf)
  BY <1>1, PlacedType
<1> HIDE DEF u
<1>4. /\ i \in 1 .. Len(t) /\ t[i] = u /\ Len(s) <= Len(t)
      /\ Len(t) = IF i = Len(s) + 1 THEN Len(s) + 1 ELSE Len(s)
      /\ \A j \in 1 .. Len(t) : j # i => t[j] = s[j]
      /\ i \in 1 .. Len(s) => s[i].state # "connected" /\ i \notin DOMAIN pins
  <2>1. CASE Slots!VacantFor(s, c) = {}
    <3>1. t = Append(s, u) /\ i = Len(s) + 1
      BY Zenon, <2>1 DEF Slots!Placed, u
    <3> HIDE DEF t, i
    <3> QED
      BY <1>1, <1>2, <3>1
  <2>2. CASE Slots!VacantFor(s, c) # {}
    <3>1. i = Slots!Min(Slots!VacantFor(s, c))
      BY Zenon, <2>2
    <3>2. t = [s EXCEPT ![i] = u]
      BY Zenon, <2>2, <3>1 DEF Slots!Placed, u
    <3>3. i \in 1 .. Len(s) /\ s[i].state # "connected" /\ i \notin DOMAIN pins
      BY Zenon, <1>1, <2>2, <3>1, VacantIs
    <3> HIDE DEF t, i
    <3> QED
      BY <1>1, <1>2, <3>2, <3>3
  <2> QED
    BY Zenon, <2>1, <2>2
<1> HIDE DEF t, i
<1>5. \A j \in 1 .. Len(s) : j \in 1 .. Len(t)
  BY <1>1, <1>4
<1>6. Sound(t)
  <2>1. Proper(t[i])
    BY <1>2, <1>4 DEF Proper
  <2>2. t[i].id # None => \A j \in 1 .. Len(s) : j # i => s[j].id # t[i].id
    BY <1>2, <1>4 DEF Free
  <2> QED
    BY Zenon, <1>3, <1>4, <2>1, <2>2, Reseated
<1>7. Held(t, pins)
  <2> SUFFICES ASSUME NEW k \in DOMAIN pins
               PROVE  k \in 1 .. Len(t) /\ t[k].pinned /\ t[k].key = pins[k].key /\ t[k].state # "empty"
    BY DEF Held
  <2>1. k \in 1 .. Len(s) /\ s[k].pinned /\ s[k].key = pins[k].key /\ s[k].state # "empty"
    BY DEF Held
  <2>2. k # i
    BY <1>4, <2>1
  <2> QED
    BY Zenon, <1>4, <1>5, <2>1, <2>2
<1>8. ASSUME NEW j \in 1 .. Len(s), s[j].state = "connected" PROVE t[j] = s[j]
  BY Zenon, <1>4, <1>5, <1>8
<1>9. ASSUME NEW d \in ControllerOf, Free(s, d), d.id # c.id PROVE Free(t, d)
  <2> SUFFICES ASSUME NEW k \in 1 .. Len(t) PROVE t[k].id # d.id
    BY DEF Free
  <2>1. CASE k = i
    BY Zenon, <1>2, <1>4, <1>9, <2>1
  <2>2. CASE k # i
    <3>1. k \in 1 .. Len(s)
      BY <1>1, <1>4, <2>2
    <3> QED
      BY Zenon, <1>4, <1>9, <2>2, <3>1 DEF Free
  <2> QED
    BY Zenon, <2>1, <2>2
<1>10. Filled(s, t)
  <2> SUFFICES ASSUME NEW j \in 1 .. Len(s), s[j].state # "empty"
               PROVE  j \in 1 .. Len(t) /\ t[j].state # "empty"
    BY DEF Filled
  <2>1. u.state # "empty"
    BY <1>2
  <2> QED
    BY Zenon, <1>4, <1>5, <2>1
<1> QED
  BY Zenon, <1>4, <1>6, <1>7, <1>8, <1>9, <1>10 DEF t

LEMMA CrowdPart == ASSUME NEW cs, Crowd(cs), NEW T \in SUBSET cs PROVE Crowd(T)
<1>1. IsFiniteSet(T)
  BY FS_Subset DEF Crowd
<1> QED
  BY <1>1 DEF Crowd, Named

\* The fold of the newcomers, one at a time.
LEMMA PlacedAll ==
  ASSUME NEW b \in Seq(SlotOf), NEW q \in Seq(ControllerOf), lastId \in Nat
  PROVE  \E f : /\ f[0] = b
                /\ \A n \in 1 .. Len(q) : f[n] = Slots!Placed(f[n - 1], q[n])
                /\ Slots!FoldLeft(Slots!Placed, b, q) = f[Len(q)]
<1> DEFINE N == Len(q)
           X == Seq(SlotOf)
           G == [s \in X |-> [c \in ControllerOf |-> Slots!Placed(s, c)]]
           Eq(g) == g = [s \in SUBSET DOMAIN q |->
                           IF s = {} THEN b
                           ELSE Slots!Placed(g[s \ {Slots!Max(s)}], q[Slots!Max(s)])]
           h == CHOOSE g : Eq(g)
<1>1. N \in Nat /\ DOMAIN q = 1 .. N /\ q \in [1 .. N -> ControllerOf] /\ b \in X
  OBVIOUS
<1>2. G \in [X -> [ControllerOf -> X]]
  <2>1. \A s \in X, c \in ControllerOf : Slots!Placed(s, c) \in X
    BY PlacedType
  <2> HIDE DEF X
  <2> QED
    BY <2>1
<1>3. \A s \in X, c \in ControllerOf : G[s][c] = Slots!Placed(s, c)
  <2> HIDE DEF X
  <2> QED
    OBVIOUS
<1> HIDE DEF G, X, N
<1>4. PICK f \in [SUBSET (1 .. N) -> X] : Folds(f, N, b, G, q)
  BY <1>1, <1>2, FoldExists
<1>5. Eq(f)
  <2>1. \A s \in SUBSET (1 .. N) : f[s] = IF s = {} THEN b ELSE G[f[s \ {Slots!Max(s)}]][q[Slots!Max(s)]]
    BY Zenon, <1>4 DEF Folds
  <2>2. ASSUME NEW s \in SUBSET (1 .. N), s # {}
        PROVE  f[s] = Slots!Placed(f[s \ {Slots!Max(s)}], q[Slots!Max(s)])
    <3>1. s \ {Slots!Max(s)} \in SUBSET (1 .. N)
      OBVIOUS
    <3>2. Slots!Max(s) \in 1 .. N
      <4>1. s \subseteq 0 .. N
        BY <1>1
      <4>2. Slots!Max(s) \in s
        BY <1>1, <2>2, <4>1, MaxIs
      <4> QED
        BY <4>2
    <3>3. f[s \ {Slots!Max(s)}] \in X
      BY Zenon, <1>4, <3>1
    <3>4. q[Slots!Max(s)] \in ControllerOf
      BY Zenon, <1>1, <3>2
    <3>5. f[s] = G[f[s \ {Slots!Max(s)}]][q[Slots!Max(s)]]
      BY Zenon, <2>1, <2>2
    <3> QED
      BY Zenon, <1>3, <3>3, <3>4, <3>5
  <2>3. f = [s \in SUBSET (1 .. N) |-> f[s]]
    BY <1>4
  <2>4. \A s \in SUBSET (1 .. N) :
          f[s] = IF s = {} THEN b ELSE Slots!Placed(f[s \ {Slots!Max(s)}], q[Slots!Max(s)])
    BY Zenon, <2>1, <2>2
  <2> QED
    BY Zenon, <1>1, <2>3, <2>4
<1>6. Eq(h)
  <2> HIDE DEF Eq
  <2> QED
    BY Zenon, <1>5
<1>7. Slots!FoldLeft(Slots!Placed, b, q) = h[DOMAIN q]
  BY Zenon DEF Slots!FoldLeft, Slots!MapThenFoldSet
<1> HIDE DEF h
<1>8. \A s \in SUBSET (1 .. N) :
        h[s] = IF s = {} THEN b ELSE Slots!Placed(h[s \ {Slots!Max(s)}], q[Slots!Max(s)])
  BY Zenon, <1>1, <1>6
<1> DEFINE e == [n \in 0 .. N |-> h[1 .. n]]
<1>9. e[0] = b
  <2>1. 1 .. 0 = {} /\ 1 .. 0 \in SUBSET (1 .. N)
    BY SMT
  <2>2. h[1 .. 0] = b
    BY Zenon, <1>8, <2>1
  <2>3. 0 \in 0 .. N
    BY <1>1
  <2> QED
    BY <2>2, <2>3
<1>10. ASSUME NEW n \in 1 .. N PROVE e[n] = Slots!Placed(e[n - 1], q[n])
  <2>1. n \in Nat /\ n # 0 /\ n \in 0 .. N /\ n - 1 \in 0 .. N
    BY <1>1
  <2>2. 1 .. n # {} /\ Slots!Max(1 .. n) = n /\ (1 .. n) \ {n} = 1 .. n - 1
    BY <2>1, UpTo
  <2>3. 1 .. n \in SUBSET (1 .. N)
    BY <1>1
  <2>4. h[1 .. n] = Slots!Placed(h[1 .. n - 1], q[n])
    BY Zenon, <1>8, <2>2, <2>3
  <2> QED
    BY <2>1, <2>4
<1>11. e[N] = h[DOMAIN q]
  BY <1>1
<1> HIDE DEF e
<1>12. Slots!FoldLeft(Slots!Placed, b, q) = e[N]
  BY Zenon, <1>7, <1>11
<1> QED
  BY Zenon, <1>9, <1>10, <1>12 DEF N

\* A frozen table takes a frame: pins hold, and who sits stays.
LEMMA FrozenIs ==
  ASSUME Sound(slots), Held(slots, pins), NEW cs, Crowd(cs)
  PROVE  LET t == Slots!Frozen(cs)
         IN /\ Sound(t) /\ Held(t, pins) /\ Len(slots) <= Len(t)
            /\ \A i \in 1 .. Len(slots) :
                 slots[i].state = "connected" /\ slots[i].id \in {c.id : c \in cs} => t[i] = slots[i]
            /\ Filled(slots, t)
            /\ LET back == Slots!Reclaimed(Slots!Carried(cs), cs)
               IN \A i \in 1 .. Len(slots) : back[i].state = "connected" => t[i] = back[i]
<1> DEFINE carried == Slots!Carried(cs)
           back == Slots!Reclaimed(carried, cs)
           new == Slots!Newcomers(back, cs)
           q == Slots!PortOrder(new)
           stays(s) == \A i \in 1 .. Len(slots) :
                         slots[i].state = "connected" /\ slots[i].id \in {c.id : c \in cs} => s[i] = slots[i]
           sits(s) == \A i \in 1 .. Len(slots) : back[i].state = "connected" => s[i] = back[i]
<1>0. slots \in Seq(SlotOf) /\ Len(slots) \in Nat /\ lastId \in Nat /\ cs \subseteq ControllerOf
  BY DEF Sound, Crowd, Named
<1>1. /\ Sound(carried) /\ Len(carried) = Len(slots) /\ Held(carried, pins) /\ stays(carried)
      /\ \A i \in 1 .. Len(slots) : slots[i].state # "empty" => carried[i].state # "empty"
  <2>1. /\ Sound(carried) /\ Len(carried) = Len(slots) /\ \A p : Held(slots, p) => Held(carried, p)
        /\ \A i \in 1 .. Len(slots) : slots[i].state # "empty" => carried[i].state # "empty"
        /\ \A i \in 1 .. Len(carried) :
             slots[i].state = "connected" /\ slots[i].id \in {c.id : c \in cs} => carried[i] = slots[i]
    <3> HIDE DEF stays
    <3> QED
      BY Zenon, CarriedIs
  <2> HIDE DEF carried
  <2> QED
    BY Zenon, <2>1
<1> HIDE DEF carried
<1>2. /\ Sound(back) /\ Len(back) = Len(carried) /\ Held(back, pins)
      /\ \A i \in 1 .. Len(carried) : carried[i].state = "connected" => back[i] = carried[i]
      /\ \A i \in 1 .. Len(carried) : carried[i].state # "empty" => back[i].state # "empty"
  BY Zenon, <1>1, ReclaimedIs
<1>3. Len(back) = Len(slots) /\ stays(back) /\ Filled(slots, back)
  BY Zenon, <1>1, <1>2 DEF Filled
<1>4. new \in SUBSET cs /\ \A c \in new : Free(back, c)
  <2>1. back \in Seq(SlotOf) /\ DOMAIN back = 1 .. Len(back)
    BY <1>2 DEF Sound
  <2> HIDE DEF back
  <2> QED
    BY Zenon, <2>1 DEF Slots!Newcomers, Free
<1> HIDE DEF back, new
<1>5. Crowd(new)
  BY Zenon, <1>4, CrowdPart
<1>6. q \in Seq(new) /\ \A k, l \in 1 .. Len(q) : q[k] = q[l] => k = l
  BY Zenon, <1>5, PortOrderIs
<1>7. Slots!Frozen(cs) = Slots!FoldLeft(Slots!Placed, back, q)
  BY Zenon DEF Slots!Frozen, back, carried, new
<1> HIDE DEF q
<1>8. /\ q \in Seq(ControllerOf) /\ back \in Seq(SlotOf) /\ Len(q) \in Nat
      /\ \A k \in 1 .. Len(q) : q[k] \in new /\ q[k] \in cs /\ q[k] \in ControllerOf
  <2>1. new \subseteq ControllerOf
    BY <1>0, <1>4
  <2> QED
    BY <1>2, <1>4, <1>6, <2>1 DEF Sound
<1>9. PICK f : /\ f[0] = back
               /\ \A n \in 1 .. Len(q) : f[n] = Slots!Placed(f[n - 1], q[n])
               /\ Slots!FoldLeft(Slots!Placed, back, q) = f[Len(q)]
  BY Zenon, <1>0, <1>8, PlacedAll
<1> DEFINE Good(n) == /\ Sound(f[n]) /\ Held(f[n], pins) /\ Len(slots) <= Len(f[n]) /\ stays(f[n])
                      /\ Filled(slots, f[n]) /\ sits(f[n])
                      /\ \A k \in n + 1 .. Len(q) : Free(f[n], q[k])
           Bad == {n \in 0 .. Len(q) : ~ Good(n)}
<1>10. Good(0)
  <2>1. Len(slots) <= Len(back)
    BY <1>0, <1>3
  <2>2. \A k \in 0 + 1 .. Len(q) : Free(back, q[k])
    BY <1>4, <1>8
  <2>3. sits(back)
    OBVIOUS
  <2> HIDE DEF stays, sits
  <2> QED
    BY Zenon, <1>2, <1>3, <1>9, <2>1, <2>2, <2>3
<1>11. ASSUME NEW n \in 1 .. Len(q), Good(n - 1) PROVE Good(n)
  <2> DEFINE s == f[n - 1]
             t == f[n]
             c == q[n]
  <2>0. n \in Nat /\ n - 1 \in Nat /\ n \in (n - 1) + 1 .. Len(q)
        /\ \A k \in n + 1 .. Len(q) : k \in (n - 1) + 1 .. Len(q) /\ k \in 1 .. Len(q) /\ k # n
    BY <1>8
  <2>1. /\ Sound(s) /\ Held(s, pins) /\ Len(slots) <= Len(s) /\ stays(s) /\ Free(s, c)
        /\ c \in ControllerOf /\ c \in cs /\ Filled(slots, s) /\ sits(s)
    <3> HIDE DEF stays, sits
    <3> QED
      BY Zenon, <1>8, <1>11, <2>0
  <2>2. t = Slots!Placed(s, c)
    BY Zenon, <1>9
  <2> HIDE DEF s, t, c
  <2>3. /\ Sound(t) /\ Held(t, pins) /\ Len(s) <= Len(t)
        /\ \A i \in 1 .. Len(s) : s[i].state = "connected" => t[i] = s[i]
        /\ Filled(s, t)
        /\ \A d \in ControllerOf : Free(s, d) /\ d.id # c.id => Free(t, d)
    BY Zenon, <1>0, <2>1, <2>2, PlacedIs
  <2>4. Len(s) \in Nat /\ Len(t) \in Nat
    BY <2>1, <2>3 DEF Sound
  <2>5. Len(slots) <= Len(t)
    BY <1>0, <2>1, <2>3, <2>4
  <2>6. stays(t)
    <3>1. \A i \in 1 .. Len(slots) : i \in 1 .. Len(s)
      BY <1>0, <2>1, <2>4
    <3> QED
      BY Zenon, <2>1, <2>3, <3>1
  <2>7. Filled(slots, t)
    BY Zenon, <2>1, <2>3 DEF Filled
  <2>8. sits(t)
    <3>1. \A i \in 1 .. Len(slots) : i \in 1 .. Len(s)
      BY <1>0, <2>1, <2>4
    <3> QED
      BY Zenon, <2>1, <2>3, <3>1
  <2>9. ASSUME NEW k \in n + 1 .. Len(q) PROVE Free(t, q[k])
    <3>1. /\ k \in (n - 1) + 1 .. Len(q) /\ k \in 1 .. Len(q) /\ k # n
      BY <2>0
    <3>2. Free(s, q[k]) /\ q[k] \in ControllerOf /\ q[k] \in cs
      BY Zenon, <1>8, <1>11, <3>1 DEF s
    <3>3. q[k] # c
      BY Zenon, <1>6, <3>1 DEF c
    <3>4. q[k].id # c.id
      BY Zenon, <2>1, <3>2, <3>3 DEF Crowd, Named
    <3> QED
      BY Zenon, <2>3, <3>2, <3>4
  <2> HIDE DEF stays, sits
  <2> QED
    BY Zenon, <2>3, <2>5, <2>6, <2>7, <2>8, <2>9 DEF t
<1> HIDE DEF Good
<1>12. Bad = {}
  <2> SUFFICES ASSUME Bad # {} PROVE FALSE
    OBVIOUS
  <2>1. Bad \subseteq Nat
    OBVIOUS
  <2>2. PICK n \in Bad : \A m \in Bad : n <= m
    <3> HIDE DEF Bad
    <3> QED
      BY <2>1, Least
  <2>3. n \in 0 .. Len(q) /\ ~ Good(n)
    OBVIOUS
  <2>4. n # 0
    BY <1>10, <2>3
  <2>5. n \in 1 .. Len(q) /\ n - 1 \in 0 .. Len(q) /\ ~ (n <= n - 1)
    BY <1>8, <2>3, <2>4
  <2>6. Good(n - 1)
    BY <2>2, <2>5
  <2> QED
    BY <1>11, <2>3, <2>5, <2>6
<1>13. Good(Len(q))
  <2>1. Len(q) \in 0 .. Len(q)
    BY <1>8
  <2> QED
    BY <1>12, <2>1
<1>14. Slots!Frozen(cs) = f[Len(q)]
  BY Zenon, <1>7, <1>9
<1> QED
  BY Zenon, <1>13, <1>14 DEF Good, back, carried

-----------------------------------------------------------------------------
(* Seeding.                                                                *)

\* The places that are not in D, up to i.
Gaps(D, i) == Cardinality((1 .. i) \ D)

LEMMA GapsAre ==
  ASSUME NEW D
  PROVE  /\ \A i \in Nat : Gaps(D, i) \in Nat
         /\ \A i, j \in Nat : i < j /\ j \notin D => Gaps(D, i) < Gaps(D, j)
         /\ \A i \in Nat : i # 0 /\ i \in D => Gaps(D, i) = Gaps(D, i - 1)
         /\ \A i \in Nat : i # 0 /\ i \notin D => Gaps(D, i) = Gaps(D, i - 1) + 1
<1> DEFINE S(i) == (1 .. i) \ D
<1>1. ASSUME NEW i \in Nat PROVE IsFiniteSet(S(i)) /\ Cardinality(S(i)) \in Nat
  <2>1. IsFiniteSet(1 .. i)
    BY FS_Interval
  <2>2. S(i) \in SUBSET (1 .. i)
    OBVIOUS
  <2> HIDE DEF S
  <2>3. IsFiniteSet(S(i))
    BY <2>1, <2>2, FS_Subset
  <2> QED
    BY <2>3, FS_CardinalityType
<1>2. ASSUME NEW i \in Nat, NEW j \in Nat, i < j, j \notin D
      PROVE  Cardinality(S(i)) < Cardinality(S(j))
  <2>1. S(i) \in SUBSET S(j) /\ j \in S(j) /\ j \notin S(i)
    BY <1>2
  <2>2. IsFiniteSet(S(j)) /\ Cardinality(S(i)) \in Nat /\ Cardinality(S(j)) \in Nat
    BY <1>1
  <2> HIDE DEF S
  <2>3. /\ Cardinality(S(i)) <= Cardinality(S(j))
        /\ Cardinality(S(j)) = Cardinality(S(i)) => S(j) = S(i)
    BY <2>1, <2>2, FS_Subset
  <2> QED
    BY <2>1, <2>2, <2>3
<1>3. ASSUME NEW i \in Nat, i # 0, i \in D PROVE S(i) = S(i - 1)
  BY <1>3
<1>4. ASSUME NEW i \in Nat, i # 0, i \notin D PROVE Cardinality(S(i)) = Cardinality(S(i - 1)) + 1
  <2>1. S(i) = S(i - 1) \cup {i} /\ i \notin S(i - 1) /\ i - 1 \in Nat
    BY <1>4
  <2>2. IsFiniteSet(S(i - 1))
    BY <1>1, <2>1
  <2> HIDE DEF S
  <2>3. Cardinality(S(i - 1) \cup {i}) = Cardinality(S(i - 1)) + 1
    BY <2>1, <2>2, FS_AddElement
  <2> QED
    BY <2>1, <2>3
<1>5. \A i : Gaps(D, i) = Cardinality(S(i))
  BY DEF Gaps
<1> HIDE DEF S
<1> QED
  BY <1>1, <1>2, <1>3, <1>4, <1>5

\* A finite set of naturals ends.
LEMMA Ends ==
  ASSUME NEW D, D \subseteq Nat, IsFiniteSet(D)
  PROVE  \E n \in Nat : \A i \in D : i <= n
<1> DEFINE R == {p \in D \X D : p[1] > p[2]}
<1>1. CASE D = {}
  BY <1>1
<1>2. CASE D # {}
  <2>1. \A i, j \in D : <<i, j>> \in R <=> i > j
    OBVIOUS
  <2>2. \A i \in D : i \in Nat
    OBVIOUS
  <2> HIDE DEF R
  <2>3. Ordering(D, R)
    BY <2>1, <2>2 DEF Ordering
  <2>4. 1 \in 1 .. Cardinality(D)
    BY <1>2, FS_EmptySet, FS_CardinalityType
  <2>5. PICK i \in D : Place(D, R, i) = 1 - 1
    BY <2>3, <2>4, PlacesReach
  <2> DEFINE A == {j \in D : <<j, i>> \in R}
  <2>6. Cardinality(A) = 0
    BY <2>5 DEF Place
  <2>7. A \in SUBSET D
    OBVIOUS
  <2>8. A = {}
    <3> HIDE DEF A
    <3>1. IsFiniteSet(A)
      BY <2>7, FS_Subset
    <3> QED
      BY <2>6, <3>1, FS_EmptySet
  <2>9. ASSUME NEW j \in D PROVE j <= i
    <3>1. ~ (<<j, i>> \in R)
      BY <2>8
    <3>2. ~ (j > i)
      BY <2>1, <3>1
    <3> QED
      BY <2>2, <3>2
  <2> QED
    BY <2>2, <2>9
<1> QED
  BY <1>1, <1>2

\* The table is long enough for the pins and for everybody else, and no longer.
Size(L, D) ==
  CHOOSE n \in 0 .. L + Slots!Max({0} \cup D) :
    /\ Gaps(D, n) >= L /\ \A i \in D : i <= n
    /\ n = 0 \/ n \in D \/ Gaps(D, n) = L

LEMMA SizeIs ==
  ASSUME NEW L \in Nat, NEW D, D \subseteq Nat \ {0}, IsFiniteSet(D)
  PROVE  Size(L, D) \in Nat /\ Gaps(D, Size(L, D)) >= L /\ \A i \in D : i <= Size(L, D)
<1> DEFINE M == Slots!Max({0} \cup D)
           Ok(n) == Gaps(D, n) >= L /\ \A i \in D : i <= n
           Fits(n) == Ok(n) /\ (n = 0 \/ n \in D \/ Gaps(D, n) = L)
<1>0. \A i \in D : i \in Nat /\ i # 0
  OBVIOUS
<1>1. M \in Nat /\ \A i \in D : i <= M
  <2>1. PICK n \in Nat : \A i \in D : i <= n
    BY Ends
  <2>2. {0} \cup D \subseteq 0 .. n
    BY <1>0, <2>1
  <2>3. M \in {0} \cup D /\ \A i \in {0} \cup D : M >= i
    <3> HIDE DEF M
    <3> QED
      BY <2>2, MaxIs DEF M
  <2> HIDE DEF M
  <2> QED
    BY <1>0, <2>3
<1> HIDE DEF M
<1>2. Ok(L + M)
  <2>1. (M + 1) .. (L + M) \in SUBSET ((1 .. L + M) \ D)
    BY <1>0, <1>1
  <2>2. IsFiniteSet((1 .. L + M) \ D)
    <3>1. IsFiniteSet(1 .. L + M)
      BY <1>1, FS_Interval
    <3> QED
      BY <3>1, FS_Difference
  <2>3. Cardinality((M + 1) .. (L + M)) <= Gaps(D, L + M)
    BY <2>1, <2>2, FS_Subset DEF Gaps
  <2>4. Cardinality((M + 1) .. (L + M)) = L
    BY <1>1, FS_Interval
  <2>5. Gaps(D, L + M) \in Nat
    BY <1>1, GapsAre
  <2> QED
    BY <1>0, <1>1, <2>3, <2>4, <2>5
<1>3. PICK n \in {k \in 0 .. L + M : Ok(k)} : \A m \in {k \in 0 .. L + M : Ok(k)} : n <= m
  <2>1. L + M \in {k \in 0 .. L + M : Ok(k)} /\ {k \in 0 .. L + M : Ok(k)} \subseteq Nat
    <3> HIDE DEF Ok
    <3> QED
      BY <1>1, <1>2
  <2> DEFINE A == {k \in 0 .. L + M : Ok(k)}
  <2> HIDE DEF A
  <2>2. A # {} /\ A \subseteq Nat
    BY <2>1 DEF A
  <2>3. \E x \in A : \A y \in A : x <= y
    BY <2>2, Least
  <2> QED
    BY Zenon, <2>3 DEF A
<1>4. n \in 0 .. L + M /\ Ok(n) /\ n \in Nat
  BY <1>1, <1>3
<1>5. n = 0 \/ n \in D \/ Gaps(D, n) = L
  <2> SUFFICES ASSUME n # 0, n \notin D PROVE Gaps(D, n) = L
    OBVIOUS
  <2>1. n - 1 \in 0 .. L + M /\ ~ (n <= n - 1) /\ n - 1 \in Nat
    BY <1>1, <1>4
  <2>2. ~ Ok(n - 1)
    <3> HIDE DEF Ok
    <3> QED
      BY <1>3, <2>1
  <2>3. \A i \in D : i <= n - 1
    BY <1>0, <1>4
  <2>4. ~ (Gaps(D, n - 1) >= L)
    BY <2>2, <2>3
  <2>5. Gaps(D, n) = Gaps(D, n - 1) + 1 /\ Gaps(D, n - 1) \in Nat
    BY <1>4, <2>1, GapsAre
  <2> QED
    BY <1>4, <2>4, <2>5
<1> HIDE DEF Ok
<1>6. Fits(n)
  BY <1>4, <1>5
<1>7. Size(L, D) = CHOOSE k \in 0 .. L + M : Fits(k)
  BY Zenon DEF Size, Ok, M
<1> HIDE DEF Fits
<1>8. Size(L, D) \in 0 .. L + M /\ Fits(Size(L, D))
  BY Zenon, <1>4, <1>6, <1>7
<1>9. Ok(Size(L, D))
  BY <1>8 DEF Fits
<1> QED
  BY <1>1, <1>8, <1>9 DEF Ok


\* A table that is seeded: what is pinned is at its pin, and nobody sits twice.
LEMMA SeededIs ==
  ASSUME NEW cs, Crowd(cs), Pinning(pins)
  PROVE  Sound(Slots!Seeded(cs)) /\ Held(Slots!Seeded(cs), pins)
<1> DEFINE D == DOMAIN pins
           rest == {c \in cs : c.key \notin {pins[i].key : i \in DOMAIN pins}}
           others == Slots!PortOrder(rest)
           size == Size(Len(others), D)
           there(i) == {c \in cs : c.key = pins[i].key}
           owner(i) == CHOOSE c \in there(i) : TRUE
           seat(i) == IF i \in D
                      THEN IF there(i) = {} THEN Slots!PinnedAbsent(pins[i])
                           ELSE Slots!Connected(owner(i), TRUE)
                      ELSE IF Gaps(D, i) <= Len(others) THEN Slots!Connected(others[Gaps(D, i)], FALSE)
                      ELSE Slots!EmptySlot
           t == [i \in 1 .. size |-> seat(i)]
<1>1. Slots!Seeded(cs) = t
  BY Zenon DEF Slots!Seeded, Size, Gaps, Slots!Cardinality, Cardinality
<1>2. /\ cs \subseteq ControllerOf /\ lastId \in Nat
      /\ \A c, d \in cs : c.id = d.id => c = d
      /\ \A c, d \in cs : c.key # None /\ c.key = d.key => c = d
  BY DEF Crowd, Named
<1>3. /\ D \subseteq Nat \ {0} /\ IsFiniteSet(D)
      /\ \A i \in D : pins[i] \in PinOf
      /\ \A i, j \in D : pins[i].key = pins[j].key => i = j
  BY DEF Pinning
<1>4. /\ others \in Seq(cs) /\ Len(others) \in Nat
      /\ \A k \in 1 .. Len(others) : others[k] \in rest
      /\ \A k, l \in 1 .. Len(others) : others[k] = others[l] => k = l
  <2>1. rest \in SUBSET cs
    OBVIOUS
  <2> HIDE DEF rest
  <2>2. Crowd(rest)
    BY Zenon, <2>1, CrowdPart
  <2>3. others \in Seq(rest) /\ \A k, l \in 1 .. Len(others) : others[k] = others[l] => k = l
    BY Zenon, <2>2, PortOrderIs
  <2> HIDE DEF others
  <2> QED
    BY <2>1, <2>3
<1>5. \A k \in 1 .. Len(others) : others[k] \in cs /\ \A i \in D : others[k].key # pins[i].key
  <2>1. \A c \in rest : c \in cs /\ \A i \in D : c.key # pins[i].key
    BY Zenon
  <2> HIDE DEF rest, others
  <2> QED
    BY <1>4, <2>1
<1>6. ASSUME NEW i \in D, there(i) # {} PROVE owner(i) \in cs /\ owner(i).key = pins[i].key
  BY <1>6
<1> HIDE DEF rest, others, owner, there, D
<1>7. size \in Nat /\ Gaps(D, size) >= Len(others) /\ \A i \in D : i <= size
  BY Zenon, <1>3, <1>4, SizeIs
<1> HIDE DEF size
<1>8. /\ \A i \in Nat : Gaps(D, i) \in Nat
      /\ \A i, j \in Nat : i < j /\ j \notin D => Gaps(D, i) < Gaps(D, j)
  BY Zenon, GapsAre
<1>9. ASSUME NEW i \in 1 .. size, i \notin D, Gaps(D, i) <= Len(others)
      PROVE  Gaps(D, i) \in 1 .. Len(others)
  <2>1. Gaps(D, 0) \in Nat /\ Gaps(D, i) \in Nat /\ Gaps(D, 0) < Gaps(D, i)
    BY <1>7, <1>8, <1>9
  <2> QED
    BY <1>4, <1>9, <2>1
<1> DEFINE here(i) == (i \in D /\ there(i) # {}) \/ (i \notin D /\ Gaps(D, i) <= Len(others))
           sits(i) == IF i \in D THEN owner(i) ELSE others[Gaps(D, i)]
<1>10. ASSUME NEW i \in 1 .. size, here(i)
       PROVE  /\ sits(i) \in cs
              /\ i \in D => seat(i) = Slots!Connected(sits(i), TRUE)
              /\ i \notin D => seat(i) = Slots!Connected(sits(i), FALSE)
  <2>1. CASE i \in D
    BY Zenon, <1>6, <1>10, <2>1
  <2>2. CASE i \notin D
    BY Zenon, <1>5, <1>9, <1>10, <2>2
  <2> QED
    BY Zenon, <2>1, <2>2
<1>11. ASSUME NEW i \in 1 .. size, NEW j \in 1 .. size, here(i), here(j), sits(i) = sits(j) PROVE i = j
  <2>0. i \in Nat /\ j \in Nat
    BY <1>7
  <2>1. CASE i \in D /\ j \in D
    BY Zenon, <1>3, <1>6, <1>11, <2>1
  <2>2. CASE i \in D /\ j \notin D
    BY Zenon, <1>5, <1>6, <1>9, <1>11, <2>2
  <2>3. CASE i \notin D /\ j \in D
    BY Zenon, <1>5, <1>6, <1>9, <1>11, <2>3
  <2>4. CASE i \notin D /\ j \notin D
    <3>1. Gaps(D, i) = Gaps(D, j)
      BY Zenon, <1>4, <1>9, <1>11, <2>4
    <3>2. ~ (i < j) /\ ~ (j < i)
      BY <1>8, <2>0, <2>4, <3>1
    <3> QED
      BY <2>0, <3>2
  <2> QED
    BY Zenon, <2>1, <2>2, <2>3, <2>4
<1> HIDE DEF here, sits
<1>12. ASSUME NEW i \in 1 .. size, here(i)
       PROVE  /\ seat(i) \in SlotOf /\ seat(i).kind \in Slots!KindSet /\ seat(i).key = sits(i).key
              /\ seat(i).state = "connected" /\ seat(i).id = sits(i).id /\ seat(i).id # None
              /\ i \in D => seat(i).pinned
  <2> DEFINE c == sits(i)
             u == seat(i)
  <2>0. c \in ControllerOf
    BY <1>2, <1>10, <1>12
  <2>1. /\ i \in D => u = Slots!Connected(c, TRUE)
        /\ i \notin D => u = Slots!Connected(c, FALSE)
    BY Zenon, <1>10, <1>12
  <2> HIDE DEF c, u
  <2>2. /\ u \in SlotOf /\ u.kind \in Slots!KindSet /\ u.key = c.key
        /\ u.state = "connected" /\ u.id = c.id /\ u.id # None /\ (i \in D => u.pinned)
    <3>1. CASE i \in D
      BY ZenonT(60), <1>2, <2>0, <2>1, <3>1, ConnectedIs
    <3>2. CASE i \notin D
      BY <1>2, <2>0, <2>1, <3>2, ConnectedIs
    <3> QED
      BY Zenon, <3>1, <3>2
  <2> QED
    BY Zenon, <2>2 DEF c, u
<1>13. ASSUME NEW i \in 1 .. size, ~ here(i)
       PROVE  /\ seat(i) \in SlotOf /\ seat(i).id = None /\ seat(i).state # "connected"
              /\ i \in D => seat(i).pinned /\ seat(i).key = pins[i].key /\ seat(i).state # "empty"
  <2>1. CASE i \in D
    <3>1. seat(i) = Slots!PinnedAbsent(pins[i])
      BY Zenon, <1>13, <2>1 DEF here
    <3> HIDE DEF seat
    <3> QED
      BY <1>3, <2>1, <3>1, PinnedAbsentIs
  <2>2. CASE i \notin D
    <3>1. seat(i) = Slots!EmptySlot
      BY Zenon, <1>13, <2>2 DEF here
    <3> HIDE DEF seat
    <3> QED
      BY <2>2, <3>1, EmptySlotIs
  <2> QED
    BY Zenon, <2>1, <2>2
<1> HIDE DEF seat
<1>14. t \in Seq(SlotOf) /\ Len(t) = size /\ \A i \in 1 .. size : t[i] = seat(i)
  <2>1. \A i \in 1 .. size : seat(i) \in SlotOf
    BY Zenon, <1>12, <1>13
  <2> QED
    BY <1>7, <2>1
<1> HIDE DEF t
<1>15. Sound(t)
  <2>1. ASSUME NEW i \in 1 .. size
        PROVE  /\ t[i].id # None <=> t[i].state = "connected"
               /\ t[i].state = "connected" => t[i].kind \in Slots!KindSet
    BY Zenon, <1>12, <1>13, <1>14
  <2>2. ASSUME NEW i \in 1 .. size, NEW j \in 1 .. size, t[i].id # None, t[i].id = t[j].id PROVE i = j
    <3>1. here(i) /\ here(j)
      BY Zenon, <1>13, <1>14, <2>2
    <3>2. sits(i) \in cs /\ sits(j) \in cs /\ sits(i).id = sits(j).id
      BY Zenon, <1>10, <1>12, <1>14, <2>2, <3>1
    <3>3. sits(i) = sits(j)
      BY Zenon, <1>2, <3>2
    <3> QED
      BY Zenon, <1>11, <3>1, <3>3
  <2> QED
    BY Zenon, <1>14, <2>1, <2>2 DEF Sound
<1>16. Held(t, pins)
  <2> SUFFICES ASSUME NEW i \in D
               PROVE  i \in 1 .. Len(t) /\ t[i].pinned /\ t[i].key = pins[i].key /\ t[i].state # "empty"
    BY Zenon DEF Held, D
  <2>1. i \in 1 .. size
    BY <1>3, <1>7
  <2>2. CASE here(i)
    <3>1. sits(i).key = pins[i].key
      BY Zenon, <1>6, <2>2 DEF here, sits
    <3>2. "connected" # "empty"
      OBVIOUS
    <3>3. t[i] = seat(i) /\ seat(i).pinned /\ seat(i).key = sits(i).key /\ seat(i).state = "connected"
      BY Zenon, <1>12, <1>14, <2>1, <2>2
    <3> QED
      BY Zenon, <1>14, <2>1, <3>1, <3>2, <3>3
  <2>3. CASE ~ here(i)
    BY Zenon, <1>13, <1>14, <2>1, <2>3
  <2> QED
    BY Zenon, <2>2, <2>3
<1> QED
  BY Zenon, <1>1, <1>15, <1>16

LEMMA RefreshedIs ==
  ASSUME Attached, Sound(slots), Pinning(pins), ~ seeding => Held(slots, pins)
  PROVE  /\ Sound(Slots!Refreshed) /\ Held(Slots!Refreshed, pins)
         /\ ~ seeding => Len(slots) <= Len(Slots!Refreshed)
<1>1. Crowd(Slots!Live)
  BY LiveIs
<1>2. CASE seeding
  <2>1. Slots!Refreshed = Slots!Seeded(Slots!Live)
    BY Zenon, <1>2 DEF Slots!Refreshed
  <2> QED
    BY Zenon, <1>1, <1>2, <2>1, SeededIs
<1>3. CASE ~ seeding
  <2>1. Slots!Refreshed = Slots!Frozen(Slots!Live)
    BY Zenon, <1>3 DEF Slots!Refreshed
  <2> QED
    BY Zenon, <1>1, <1>3, <2>1, FrozenIs
<1> QED
  BY <1>2, <1>3

-----------------------------------------------------------------------------
(* Pins.                                                                   *)

\* u is p with the pin v of slot i.
Widened(p, i, v, u) ==
  /\ Pinning(u) /\ DOMAIN u = DOMAIN p \cup {i} /\ u[i] = v
  /\ \A j \in DOMAIN p : j # i => u[j] = p[j]

LEMMA WithIs ==
  ASSUME NEW p, Pinning(p), NEW i \in Nat \ {0}, NEW v \in PinOf,
         \A j \in DOMAIN p : j # i => p[j].key # v.key
  PROVE  Widened(p, i, v, Slots!With(p, i, v))
<1> DEFINE u == [j \in DOMAIN p \cup {i} |-> IF j = i THEN v ELSE p[j]]
<1>1. Slots!With(p, i, v) = u
  BY Zenon DEF Slots!With
<1>2. DOMAIN u = DOMAIN p \cup {i} /\ u[i] = v /\ \A j \in DOMAIN p : j # i => u[j] = p[j]
  OBVIOUS
<1>3. IsFiniteSet(DOMAIN p \cup {i})
  BY FS_AddElement DEF Pinning
<1>4. DOMAIN p \subseteq Nat \ {0} /\ \A j \in DOMAIN p : p[j] \in PinOf
  BY DEF Pinning
<1>5. u \in [DOMAIN p \cup {i} -> PinOf]
  BY <1>4
<1> HIDE DEF u
<1>6. Pinning(u)
  <2>1. \A j, k \in DOMAIN p : p[j].key = p[k].key => j = k
    BY DEF Pinning
  <2>2. \A j, k \in DOMAIN u : u[j].key = u[k].key => j = k
    BY Zenon, <1>2, <2>1
  <2>3. DOMAIN u \subseteq Nat \ {0}
    BY <1>2, <1>4
  <2> QED
    BY Zenon, <1>2, <1>3, <1>5, <2>2, <2>3 DEF Pinning
<1> QED
  BY Zenon, <1>1, <1>2, <1>6 DEF Widened

LEMMA FewerPins ==
  ASSUME NEW p, Pinning(p), NEW D, D \in SUBSET DOMAIN p
  PROVE  LET u == [j \in D |-> p[j]]
         IN Pinning(u) /\ DOMAIN u = D /\ \A j \in D : u[j] = p[j]
<1> DEFINE u == [j \in D |-> p[j]]
<1>1. DOMAIN u = D /\ \A j \in D : u[j] = p[j]
  OBVIOUS
<1>2. IsFiniteSet(D)
  BY FS_Subset DEF Pinning
<1>3. u \in [D -> PinOf]
  BY DEF Pinning
<1> HIDE DEF u
<1>4. Pinning(u)
  BY <1>1, <1>2, <1>3 DEF Pinning
<1> QED
  BY <1>1, <1>4 DEF u

LEMMA PaddedIs ==
  ASSUME NEW s, Sound(s), NEW i \in Nat \ {0}
  PROVE  LET w == Slots!Padded(s, i)
         IN /\ Sound(w) /\ i \in 1 .. Len(w) /\ Len(s) <= Len(w)
            /\ \A j \in 1 .. Len(s) : w[j] = s[j]
            /\ \A j \in 1 .. Len(w) : j \notin 1 .. Len(s) => w[j] = Slots!EmptySlot
<1>1. s \in Seq(SlotOf) /\ Len(s) \in Nat
  BY DEF Sound
<1> DEFINE x == i - Len(s)
           m == Slots!Max({0, x})
           e == [j \in 1 .. m |-> Slots!EmptySlot]
           w == s \o e
<1>2. m = IF x > 0 THEN x ELSE 0
  <2>1. x \in Int
    BY <1>1
  <2> HIDE DEF x
  <2>2. \E y \in {0, x} : \A z \in {0, x} : y >= z
    BY <2>1
  <2>3. m \in {0, x} /\ \A z \in {0, x} : m >= z
    BY Zenon, <2>2 DEF Slots!Max
  <2> HIDE DEF m
  <2> QED
    BY <2>1, <2>3
<1>3. m \in Nat /\ i <= Len(s) + m
  BY <1>1, <1>2
<1>4. Slots!Padded(s, i) = w
  BY Zenon DEF Slots!Padded
<1> HIDE DEF m
<1>5. e \in Seq(SlotOf) /\ Len(e) = m /\ \A j \in 1 .. m : e[j] = Slots!EmptySlot
  BY <1>3, EmptySlotIs
<1> HIDE DEF e
<1>6. /\ w \in Seq(SlotOf) /\ Len(w) = Len(s) + m
      /\ \A j \in 1 .. Len(s) : w[j] = s[j]
      /\ \A j \in 1 .. Len(w) : j \notin 1 .. Len(s) => w[j] = Slots!EmptySlot
  BY <1>1, <1>3, <1>5
<1> HIDE DEF w
<1>7. i \in 1 .. Len(w) /\ Len(s) <= Len(w)
  BY <1>1, <1>3, <1>6
<1>8. Sound(w)
  <2>1. \A j \in 1 .. Len(w) : j \notin 1 .. Len(s) => w[j].id = None /\ w[j].state = "empty"
    BY <1>6, EmptySlotIs
  <2>2. ASSUME NEW j \in 1 .. Len(w)
        PROVE  /\ w[j].id # None <=> w[j].state = "connected"
               /\ w[j].state = "connected" => w[j].kind \in Slots!KindSet
    <3>1. CASE j \in 1 .. Len(s)
      BY Zenon, <1>6, <3>1 DEF Sound
    <3>2. CASE j \notin 1 .. Len(s)
      BY <2>1, <3>2
    <3> QED
      BY <3>1, <3>2
  <2>3. ASSUME NEW j \in 1 .. Len(w), NEW k \in 1 .. Len(w), w[j].id # None, w[j].id = w[k].id PROVE j = k
    <3>1. j \in 1 .. Len(s) /\ k \in 1 .. Len(s)
      BY <2>1, <2>3
    <3> QED
      BY Zenon, <1>6, <2>3, <3>1 DEF Sound
  <2> QED
    BY Zenon, <1>6, <2>2, <2>3 DEF Sound
<1> QED
  BY Zenon, <1>4, <1>6, <1>7, <1>8

\* Two slots change places.
LEMMA SwapSound ==
  ASSUME NEW s, Sound(s), NEW t \in Seq(SlotOf), Len(t) = Len(s),
         NEW i \in 1 .. Len(s), NEW j \in 1 .. Len(s),
         t[i].id = s[j].id, t[i].kind = s[j].kind, t[i].state = s[j].state,
         t[j].id = s[i].id, t[j].kind = s[i].kind, t[j].state = s[i].state,
         \A k \in 1 .. Len(s) : k # i /\ k # j => t[k] = s[k]
  PROVE  Sound(t)
<1> DEFINE from(k) == IF k = i THEN j ELSE IF k = j THEN i ELSE k
<1>1. \A k \in 1 .. Len(s) :
        /\ from(k) \in 1 .. Len(s)
        /\ t[k].id = s[from(k)].id /\ t[k].kind = s[from(k)].kind /\ t[k].state = s[from(k)].state
  BY Zenon
<1>2. \A k, l \in 1 .. Len(s) : from(k) = from(l) => k = l
  BY Zenon
<1> HIDE DEF from
<1>3. /\ \A k \in 1 .. Len(s) : s[k].id # None <=> s[k].state = "connected"
      /\ \A k \in 1 .. Len(s) : s[k].state = "connected" => s[k].kind \in Slots!KindSet
      /\ \A k, l \in 1 .. Len(s) : s[k].id # None /\ s[k].id = s[l].id => k = l
  BY DEF Sound
<1>4. ASSUME NEW k \in 1 .. Len(s)
      PROVE  /\ t[k].id # None <=> t[k].state = "connected"
             /\ t[k].state = "connected" => t[k].kind \in Slots!KindSet
  <2>1. PICK f \in 1 .. Len(s) : t[k].id = s[f].id /\ t[k].kind = s[f].kind /\ t[k].state = s[f].state
    BY Zenon, <1>1
  <2>2. /\ s[f].id # None <=> s[f].state = "connected"
        /\ s[f].state = "connected" => s[f].kind \in Slots!KindSet
    BY Zenon, <1>3
  <2> QED
    BY Zenon, <2>1, <2>2
<1>5. ASSUME NEW k \in 1 .. Len(s), NEW l \in 1 .. Len(s), t[k].id # None, t[k].id = t[l].id PROVE k = l
  <2> DEFINE f == from(k)
             g == from(l)
  <2>1. f \in 1 .. Len(s) /\ g \in 1 .. Len(s) /\ t[k].id = s[f].id /\ t[l].id = s[g].id
    BY Zenon, <1>1
  <2>2. f = g => k = l
    BY Zenon, <1>2
  <2> HIDE DEF f, g
  <2>3. f = g
    BY ZenonT(60), <1>3, <1>5, <2>1
  <2> QED
    BY <2>2, <2>3
<1> QED
  BY Zenon, <1>4, <1>5 DEF Sound

\* u is t with the socket key pinned to slot i, whose own pin makes room.
PinsTo(t, i, key, u) ==
  /\ u = [slots |-> u.slots, pins |-> u.pins]
  /\ Sound(u.slots) /\ Pinning(u.pins) /\ Held(u.slots, u.pins)
  /\ i \in DOMAIN u.pins /\ u.pins[i].key = key
  /\ \/ \A j \in DOMAIN t.pins : t.pins[j].key = key <=> j = i
     \/ \A j \in DOMAIN t.pins : t.pins[j].key # key /\ j # i
     => /\ DOMAIN u.pins = DOMAIN t.pins \cup {i}
        /\ \A j \in DOMAIN t.pins : j # i => u.pins[j] = t.pins[j]

\* Pin here: the controller's socket is pinned to slot i, and what was pinned
\* there goes where the controller was.
LEMMA PinnedIs ==
  ASSUME NEW t, Sound(t.slots), Pinning(t.pins), Held(t.slots, t.pins), lastId \in Nat,
         NEW i \in Nat \ {0}, NEW id \in 1 .. lastId, Slots!CanPin(t.slots, id),
         NEW h \in 1 .. Len(t.slots), t.slots[h].id = id
  PROVE  PinsTo(t, i, t.slots[h].key, Slots!Pinned(t, i, id))
<1> DEFINE s == t.slots
           p == t.pins
           held == Slots!SelectInSeq(s, LAMBDA x : x.id = id)
           moving == s[h]
           key == moving.key
           kept == [j \in DOMAIN p \ {j \in DOMAIN p : p[j].key = key} |-> p[j]]
           wide == Slots!Padded(s, i)
           less == [j \in DOMAIN kept \ {i} |-> kept[j]]
           traded == IF i \in DOMAIN kept THEN Slots!With(less, h, kept[i]) ELSE kept
           moved == [moving EXCEPT !.pinned = TRUE]
           there == [wide[i] EXCEPT !.pinned = i \in DOMAIN kept]
           pin == [key |-> key, kind |-> moving.kind]
           new == [[wide EXCEPT ![h] = there] EXCEPT ![i] = moved]
           now == Slots!With(traded, i, pin)
           u == [slots |-> Slots!Trimmed(new), pins |-> now]
<1>1. s \in Seq(SlotOf) /\ Len(s) \in Nat /\ DOMAIN s = 1 .. Len(s) /\ id # None
  BY SlotConstants DEF Sound
<1>2. \A j \in 1 .. Len(s) : s[j].id = id <=> j = h
  <2>1. \A j, k \in 1 .. Len(s) : s[j].id # None /\ s[j].id = s[k].id => j = k
    BY Zenon DEF Sound
  <2> QED
    BY Zenon, <1>1, <2>1
<1>3. held = h
  <2>1. {j \in 1 .. Len(s) : s[j].id = id} = {h}
    BY <1>2
  <2>2. held = Slots!Min({h})
    BY Zenon, <2>1 DEF Slots!SelectInSeq
  <2>3. h \in Nat
    BY <1>1
  <2>4. Slots!Min({h}) \in {h}
    BY <2>3, MinIs
  <2> QED
    BY <2>2, <2>4
<1>4. /\ moving \in SlotOf /\ key # None /\ key \in Slots!Ports
      /\ moving.state = "connected" /\ moving.kind \in Slots!KindSet /\ moving.id = id
  <2>1. key # None
    BY Zenon, <1>1, <1>2 DEF Slots!CanPin
  <2>2. moving \in SlotOf
    BY <1>1
  <2>3. moving.state = "connected"
    BY Zenon, <1>1 DEF Sound
  <2>4. moving.kind \in Slots!KindSet
    BY Zenon, <2>3 DEF Sound
  <2>5. key \in Slots!Ports
    BY <2>1, <2>2 DEF SlotOf
  <2> QED
    BY Zenon, <2>1, <2>2, <2>3, <2>4, <2>5
<1>5. Slots!Pinned(t, i, id) = u
  <2> DEFINE k0 == [j \in DOMAIN t.pins \ {j \in DOMAIN t.pins : t.pins[j].key = t.slots[held].key} |-> t.pins[j]]
  <2>1. Slots!Pinned(t, i, id) =
          [slots |-> Slots!Trimmed(
              [[Slots!Padded(t.slots, i) EXCEPT ![held] = [Slots!Padded(t.slots, i)[i] EXCEPT !.pinned = i \in DOMAIN k0]]
                 EXCEPT ![i] = [t.slots[held] EXCEPT !.pinned = TRUE]]),
           pins |-> Slots!With(IF i \in DOMAIN k0 THEN Slots!With(Slots!Without(k0, i), held, k0[i]) ELSE k0, i,
                               [key |-> t.slots[held].key, kind |-> t.slots[held].kind])]
    BY Zenon DEF Slots!Pinned
  <2> QED
    BY Zenon, <1>3, <2>1 DEF Slots!Without
<1> HIDE DEF held
<1>6. /\ Sound(wide) /\ i \in 1 .. Len(wide) /\ Len(s) <= Len(wide)
      /\ \A j \in 1 .. Len(s) : wide[j] = s[j]
      /\ \A j \in 1 .. Len(wide) : j \notin 1 .. Len(s) => wide[j] = Slots!EmptySlot
  BY Zenon, PaddedIs
<1> HIDE DEF wide
<1>7. wide \in Seq(SlotOf) /\ Len(wide) \in Nat /\ h \in 1 .. Len(wide) /\ wide[h] = s[h]
      /\ \A j \in 1 .. Len(s) : j \in 1 .. Len(wide)
  BY <1>1, <1>6 DEF Sound
<1>8. \A j \in DOMAIN p : /\ j \in 1 .. Len(s) /\ s[j].pinned /\ s[j].key = p[j].key /\ s[j].state # "empty"
                          /\ p[j] \in PinOf /\ j \in Nat \ {0}
  BY Zenon DEF Held, Pinning
<1> DEFINE K == {j \in DOMAIN p : p[j].key # key}
<1>9. DOMAIN kept = K /\ \A j \in K : kept[j] = p[j] /\ kept[j].key # key
  OBVIOUS
<1>10. Pinning(kept)
  <2>1. K \in SUBSET DOMAIN p /\ kept = [j \in K |-> p[j]]
    OBVIOUS
  <2> HIDE DEF K, kept
  <2> QED
    BY Zenon, <2>1, FewerPins
<1> HIDE DEF kept
<1>11. h \notin K /\ \A j \in K : j \in DOMAIN p
  BY Zenon, <1>8
<1> DEFINE b == i \in K
<1>12. /\ moved \in SlotOf /\ moved.kind = moving.kind /\ moved.key = key /\ moved.state = moving.state
       /\ moved.id = moving.id /\ moved.pinned = TRUE
  <2> HIDE DEF moving
  <2> QED
    BY <1>4 DEF SlotOf
<1>13. /\ there \in SlotOf /\ there.kind = wide[i].kind /\ there.key = wide[i].key
       /\ there.state = wide[i].state /\ there.id = wide[i].id /\ (i \in K => there.pinned)
  <2>1. there = [wide[i] EXCEPT !.pinned = b]
    BY <1>9
  <2>2. b \in BOOLEAN /\ wide[i] \in SlotOf /\ (i \in K => b = TRUE)
    BY <1>6, <1>7
  <2> HIDE DEF there, b
  <2>3. /\ there \in SlotOf /\ there.kind = wide[i].kind /\ there.key = wide[i].key
        /\ there.state = wide[i].state /\ there.id = wide[i].id /\ there.pinned = b
    BY <2>1, <2>2 DEF SlotOf
  <2> QED
    BY <2>2, <2>3
<1> HIDE DEF moved, there, moving
<1>14. /\ new \in Seq(SlotOf) /\ Len(new) = Len(wide) /\ new[i] = moved /\ (h # i => new[h] = there)
       /\ \A j \in 1 .. Len(wide) : j # i /\ j # h => new[j] = wide[j]
  BY <1>6, <1>7, <1>12, <1>13
<1> HIDE DEF new
<1>15. Sound(new)
  <2>1. /\ new[i].id = wide[h].id /\ new[i].kind = wide[h].kind /\ new[i].state = wide[h].state
    BY Zenon, <1>7, <1>12, <1>14 DEF moving
  <2>2. /\ new[h].id = wide[i].id /\ new[h].kind = wide[i].kind /\ new[h].state = wide[i].state
    <3>1. CASE h = i
      BY Zenon, <2>1, <3>1
    <3>2. CASE h # i
      BY Zenon, <1>13, <1>14, <3>2
    <3> QED
      BY Zenon, <3>1, <3>2
  <2> QED
    BY Zenon, <1>6, <1>7, <1>14, <2>1, <2>2, SwapSound
<1>16. Pinning(less) /\ DOMAIN less = K \ {i} /\ \A j \in K \ {i} : less[j] = p[j] /\ less[j].key # key
  <2>1. K \ {i} \in SUBSET DOMAIN kept /\ less = [j \in K \ {i} |-> kept[j]]
    BY <1>9
  <2> HIDE DEF less, K
  <2>2. Pinning(less) /\ DOMAIN less = K \ {i} /\ \A j \in K \ {i} : less[j] = kept[j]
    BY Zenon, <1>10, <2>1, FewerPins
  <2> QED
    BY <1>9, <2>2
<1> HIDE DEF less
<1>17. /\ Pinning(traded)
       /\ DOMAIN traded = IF i \in K THEN (K \ {i}) \cup {h} ELSE K
       /\ \A j \in DOMAIN traded : traded[j].key # key
       /\ \A j \in K : j # i => traded[j] = p[j]
       /\ i \in K => traded[h] = p[i]
  <2>1. CASE i \in K
    <3>0. kept[i] = p[i] /\ p[i] \in PinOf /\ p[i].key # key /\ h \in Nat \ {0} /\ i \in DOMAIN p
      BY Zenon, <1>9, <1>8, <2>1, <1>1, SMT
    <3>1. \A j \in DOMAIN less : j # h => less[j].key # p[i].key
      BY ZenonT(60), <1>8, <1>16, <3>0, <1>11 DEF Pinning
    <3> DEFINE v == p[i]
    <3>2. traded = Slots!With(less, h, v)
      BY Zenon, <1>9, <2>1, <3>0
    <3> HIDE DEF traded, v
    <3>a. v \in PinOf /\ \A j \in DOMAIN less : j # h => less[j].key # v.key
      BY Zenon, <3>0, <3>1 DEF v
    <3>b. Widened(less, h, v, traded)
      BY Zenon, <1>16, <3>0, <3>2, <3>a, WithIs
    <3>3. /\ Pinning(traded) /\ DOMAIN traded = DOMAIN less \cup {h} /\ traded[h] = v
          /\ \A j \in DOMAIN less : j # h => traded[j] = less[j]
      BY Zenon, <3>b DEF Widened
    <3>4. \A j \in K : j # h
      BY Zenon, <1>11
    <3>5. v.key # key
      BY Zenon, <3>0 DEF v
    <3> HIDE DEF K
    <3>6. \A j \in K : j # i => traded[j] = p[j]
      BY <1>16, <3>3, <3>4
    <3>7. \A j \in DOMAIN traded : traded[j].key # key
      <4> SUFFICES ASSUME NEW j \in DOMAIN traded PROVE traded[j].key # key
        OBVIOUS
      <4>1. j = h \/ (j \in K \ {i} /\ j # h)
        BY <1>16, <3>3, <3>4
      <4> QED
        BY Zenon, <1>16, <3>3, <3>5, <4>1
    <3> QED
      BY Zenon, <1>16, <2>1, <3>3, <3>6, <3>7 DEF v
  <2>2. CASE i \notin K
    <3>1. traded = kept
      BY Zenon, <1>9, <2>2
    <3> QED
      BY Zenon, <1>9, <1>10, <2>2, <3>1
  <2> QED
    BY Zenon, <2>1, <2>2
<1> HIDE DEF traded
<1>18. pin \in PinOf /\ pin.key = key
  BY <1>4 DEF PinOf
<1> HIDE DEF pin
<1>19. /\ Pinning(now) /\ DOMAIN now = DOMAIN traded \cup {i} /\ now[i] = pin
       /\ \A j \in DOMAIN traded : j # i => now[j] = traded[j]
  <2>1. \A j \in DOMAIN traded : j # i => traded[j].key # pin.key
    BY Zenon, <1>17, <1>18
  <2>2. Widened(traded, i, pin, now)
    BY Zenon, <1>17, <1>18, <2>1, WithIs
  <2> HIDE DEF now
  <2> QED
    BY Zenon, <2>2 DEF Widened
<1> HIDE DEF now
<1>20. Held(new, now)
  <2> SUFFICES ASSUME NEW j \in DOMAIN now
               PROVE  j \in 1 .. Len(new) /\ new[j].pinned /\ new[j].key = now[j].key /\ new[j].state # "empty"
    BY DEF Held
  <2>1. CASE j = i
    <3>1. new[i].state = "connected" /\ "connected" # "empty"
      BY <1>4, <1>12, <1>14
    <3> QED
      BY Zenon, <1>6, <1>12, <1>14, <1>18, <1>19, <2>1, <3>1
  <2>2. CASE j # i /\ j = h
    <3>1. i \in K /\ now[h] = p[i]
      <4>1. h \in DOMAIN traded /\ now[h] = traded[h]
        BY <1>19, <2>2
      <4>2. i \in K
        <5> HIDE DEF K
        <5> QED
          BY <1>11, <1>17, <4>1
      <4> QED
        BY Zenon, <1>17, <4>1, <4>2
    <3>2. wide[i] = s[i] /\ s[i].key = p[i].key /\ s[i].state # "empty"
      BY Zenon, <1>6, <1>8, <1>11, <3>1
    <3> QED
      BY Zenon, <1>7, <1>13, <1>14, <2>2, <3>1, <3>2
  <2>3. CASE j # i /\ j # h
    <3>1. j \in K /\ now[j] = p[j]
      <4>1. j \in DOMAIN traded /\ now[j] = traded[j]
        BY <1>19, <2>3
      <4>2. j \in K
        <5> HIDE DEF K
        <5> QED
          BY <1>17, <4>1, <2>3
      <4> QED
        BY Zenon, <1>17, <2>3, <4>1, <4>2
    <3>2. /\ j \in 1 .. Len(s) /\ s[j].pinned /\ s[j].key = p[j].key /\ s[j].state # "empty"
      BY Zenon, <1>8, <1>11, <3>1
    <3>3. j \in 1 .. Len(wide) /\ new[j] = s[j]
      BY Zenon, <1>6, <1>7, <1>14, <2>3, <3>2
    <3> QED
      BY Zenon, <1>14, <3>1, <3>2, <3>3
  <2> QED
    BY Zenon, <2>1, <2>2, <2>3
<1>21. Sound(Slots!Trimmed(new)) /\ Held(Slots!Trimmed(new), now)
  BY Zenon, <1>15, <1>20, TrimmedIs, TrimmedHeld
<1>22. ASSUME (\A j \in DOMAIN p : p[j].key = key <=> j = i) \/ (\A j \in DOMAIN p : p[j].key # key /\ j # i)
       PROVE  DOMAIN now = DOMAIN p \cup {i} /\ \A j \in DOMAIN p : j # i => now[j] = p[j]
  <2>1. i \notin K /\ \A j \in DOMAIN p : j # i => j \in K
    BY Zenon, <1>22
  <2>2. DOMAIN traded = K /\ K \subseteq DOMAIN p
    BY Zenon, <1>17, <2>1
  <2>3. DOMAIN now = DOMAIN p \cup {i}
    <3> HIDE DEF K
    <3> QED
      BY <1>19, <2>1, <2>2
  <2>4. \A j \in DOMAIN p : j # i => now[j] = p[j]
    BY Zenon, <1>17, <1>19, <2>1, <2>2
  <2> QED
    BY Zenon, <2>3, <2>4
<1>23. i \in DOMAIN now /\ now[i].key = key
  BY <1>18, <1>19
<1>24. u.slots = Slots!Trimmed(new) /\ u.pins = now
  OBVIOUS
<1> HIDE DEF u
<1>25. /\ u = [slots |-> u.slots, pins |-> u.pins]
       /\ Sound(u.slots) /\ Pinning(u.pins) /\ Held(u.slots, u.pins)
       /\ i \in DOMAIN u.pins /\ u.pins[i].key = key
       /\ (\A j \in DOMAIN p : p[j].key = key <=> j = i) \/ (\A j \in DOMAIN p : p[j].key # key /\ j # i)
          => /\ DOMAIN u.pins = DOMAIN p \cup {i}
             /\ \A j \in DOMAIN p : j # i => u.pins[j] = p[j]
  BY Zenon, <1>19, <1>21, <1>22, <1>23, <1>24 DEF u
<1>26. PinsTo(t, i, key, u)
  BY Zenon, <1>25 DEF PinsTo
<1> QED
  BY Zenon, <1>5, <1>26 DEF moving

LEMMA UnpinnedIs ==
  ASSUME NEW t, Sound(t.slots), Pinning(t.pins), NEW I
  PROVE  LET u == Slots!Unpinned(t, I)
         IN /\ u = [slots |-> u.slots, pins |-> u.pins]
            /\ Sound(u.slots) /\ Pinning(u.pins)
            /\ DOMAIN u.pins = DOMAIN t.pins \ I /\ \A i \in DOMAIN u.pins : u.pins[i] = t.pins[i]
            /\ Held(t.slots, t.pins) => Held(u.slots, u.pins)
<1> DEFINE s == t.slots
           p == t.pins
           w == [i \in DOMAIN s |-> IF i \in I THEN [s[i] EXCEPT !.pinned = FALSE] ELSE s[i]]
           r == [i \in DOMAIN p \ I |-> p[i]]
           u == [slots |-> Slots!Trimmed(w), pins |-> r]
<1>1. Slots!Unpinned(t, I) = u
  BY Zenon DEF Slots!Unpinned
<1>2. s \in Seq(SlotOf) /\ DOMAIN s = 1 .. Len(s) /\ Len(s) \in Nat
  BY DEF Sound
<1>3. ASSUME NEW i \in 1 .. Len(s)
      PROVE  /\ w[i] \in SlotOf /\ w[i].kind = s[i].kind /\ w[i].key = s[i].key
             /\ w[i].state = s[i].state /\ w[i].id = s[i].id /\ (i \notin I => w[i] = s[i])
  <2>1. s[i] \in SlotOf
    BY <1>2
  <2>2. w[i] = IF i \in I THEN [s[i] EXCEPT !.pinned = FALSE] ELSE s[i]
    BY <1>2
  <2> HIDE DEF w
  <2>3. CASE i \in I
    <3>1. w[i] = [s[i] EXCEPT !.pinned = FALSE]
      BY <2>2, <2>3
    <3> QED
      BY <2>1, <2>3, <3>1 DEF SlotOf
  <2>4. CASE i \notin I
    <3>1. w[i] = s[i]
      BY <2>2, <2>4
    <3> QED
      BY <2>1, <3>1
  <2> QED
    BY <2>3, <2>4
<1>4. w \in Seq(SlotOf) /\ Len(w) = Len(s)
  <2>1. DOMAIN w = 1 .. Len(s) /\ w = [i \in 1 .. Len(s) |-> w[i]]
    BY <1>2
  <2> HIDE DEF w
  <2>2. w \in [1 .. Len(s) -> SlotOf]
    BY <1>3, <2>1
  <2>3. w \in Seq(SlotOf)
    BY <1>2, <2>2
  <2> QED
    BY <1>2, <2>1, <2>3
<1> HIDE DEF w
<1>5. Sound(w)
  <2>1. /\ \A i \in 1 .. Len(s) : s[i].id # None <=> s[i].state = "connected"
        /\ \A i \in 1 .. Len(s) : s[i].state = "connected" => s[i].kind \in Slots!KindSet
        /\ \A i, j \in 1 .. Len(s) : s[i].id # None /\ s[i].id = s[j].id => i = j
    BY DEF Sound
  <2>2. ASSUME NEW i \in 1 .. Len(s)
        PROVE  (w[i].id # None <=> w[i].state = "connected") /\ (w[i].state = "connected" => w[i].kind \in Slots!KindSet)
    BY <1>3, <2>1
  <2>3. \A i, j \in 1 .. Len(s) : w[i].id # None /\ w[i].id = w[j].id => i = j
    BY <1>3, <2>1
  <2> QED
    BY Zenon, <1>4, <2>2, <2>3 DEF Sound
<1>6. Pinning(r) /\ DOMAIN r = DOMAIN p \ I /\ \A i \in DOMAIN p \ I : r[i] = p[i]
  <2>1. DOMAIN p \ I \in SUBSET DOMAIN p
    OBVIOUS
  <2> QED
    BY Zenon, <2>1, FewerPins
<1> HIDE DEF r
<1>7. ASSUME Held(s, p) PROVE Held(Slots!Trimmed(w), r)
  <2>1. ASSUME NEW i \in DOMAIN r
        PROVE  i \in 1 .. Len(w) /\ w[i].pinned /\ w[i].key = r[i].key /\ w[i].state # "empty"
    <3>1. i \in DOMAIN p /\ i \notin I /\ r[i] = p[i]
      BY <1>6
    <3>2. i \in 1 .. Len(s) /\ s[i].pinned /\ s[i].key = p[i].key /\ s[i].state # "empty"
      BY Zenon, <1>7, <3>1 DEF Held
    <3> QED
      BY Zenon, <1>3, <1>4, <3>1, <3>2
  <2>2. Held(w, r)
    BY Zenon, <2>1 DEF Held
  <2> QED
    BY Zenon, <1>5, <2>2, TrimmedHeld
<1>8. Sound(Slots!Trimmed(w))
  BY Zenon, <1>5, TrimmedIs
<1>9. u.slots = Slots!Trimmed(w) /\ u.pins = r
  OBVIOUS
<1> HIDE DEF u
<1>10. u = [slots |-> u.slots, pins |-> u.pins]
  BY Zenon, <1>9 DEF u
<1>11. \A i \in DOMAIN r : r[i] = p[i]
  BY Zenon, <1>6
<1> QED
  BY Zenon, <1>1, <1>6, <1>7, <1>8, <1>9, <1>10, <1>11

\* A socket that is nobody's is pinned to slot i: who was there goes to the end.
LEMMA PlacedAbsentIs ==
  ASSUME NEW t, Sound(t.slots), Pinning(t.pins), Held(t.slots, t.pins),
         NEW i \in Nat \ {0}, NEW pin \in PinOf,
         \A j \in DOMAIN t.pins : j # i => t.pins[j].key # pin.key
  PROVE  LET u == Slots!PlacedAbsent(t, i, pin)
         IN /\ u = [slots |-> u.slots, pins |-> u.pins]
            /\ Sound(u.slots) /\ Widened(t.pins, i, pin, u.pins) /\ Held(u.slots, u.pins)
<1> DEFINE s == t.slots
           p == t.pins
           wide == Slots!Padded(s, i)
           absent == Slots!PinnedAbsent(pin)
           there == [wide[i] EXCEPT !.pinned = FALSE]
           w == [wide EXCEPT ![i] = absent]
           new == w \o (IF wide[i].state = "empty" THEN <<>> ELSE <<there>>)
           now == Slots!With(p, i, pin)
           u == [slots |-> Slots!Trimmed(new), pins |-> now]
<1>1. Slots!PlacedAbsent(t, i, pin) = u
  BY Zenon DEF Slots!PlacedAbsent
<1>2. s \in Seq(SlotOf) /\ Len(s) \in Nat
  BY DEF Sound
<1>3. /\ Sound(wide) /\ i \in 1 .. Len(wide) /\ Len(s) <= Len(wide)
      /\ \A j \in 1 .. Len(s) : wide[j] = s[j]
  BY Zenon, PaddedIs
<1> HIDE DEF wide
<1>4. /\ wide \in Seq(SlotOf) /\ Len(wide) \in Nat /\ wide[i] \in SlotOf
      /\ \A j \in 1 .. Len(s) : j \in 1 .. Len(wide)
      /\ wide[i].id # None <=> wide[i].state = "connected"
      /\ wide[i].state = "connected" => wide[i].kind \in Slots!KindSet
      /\ \A j \in 1 .. Len(wide) : wide[i].id # None /\ wide[i].id = wide[j].id => i = j
  BY <1>2, <1>3 DEF Sound
<1>5. /\ absent \in SlotOf /\ absent.key = pin.key /\ absent.state = "missing"
      /\ absent.id = None /\ absent.pinned
  BY PinnedAbsentIs
<1>6. /\ there \in SlotOf /\ there.kind = wide[i].kind /\ there.state = wide[i].state
      /\ there.id = wide[i].id
  BY <1>4 DEF SlotOf
<1> HIDE DEF absent, there
<1>7. /\ w \in Seq(SlotOf) /\ Len(w) = Len(wide) /\ w[i] = absent
      /\ \A j \in 1 .. Len(wide) : j # i => w[j] = wide[j]
  BY <1>3, <1>4, <1>5
<1> HIDE DEF w
<1>8. Sound(w)
  <2>1. Proper(w[i])
    BY <1>5, <1>7 DEF Proper
  <2>2. Len(w) = IF i = Len(wide) + 1 THEN Len(wide) + 1 ELSE Len(wide)
    BY <1>3, <1>4, <1>7
  <2>3. w[i].id = None
    BY <1>5, <1>7
  <2> QED
    BY Zenon, <1>3, <1>7, <2>1, <2>2, <2>3, Reseated
<1>9. /\ Sound(new) /\ Len(wide) <= Len(new) /\ \A j \in 1 .. Len(wide) : new[j] = w[j]
  <2>1. CASE wide[i].state = "empty"
    <3>1. new = w
      BY <1>7, <2>1
    <3>2. Len(wide) <= Len(w)
      BY <1>4, <1>7
    <3> HIDE DEF new
    <3> QED
      BY Zenon, <1>8, <3>1, <3>2
  <2>2. CASE wide[i].state # "empty"
    <3>1. new = Append(w, there)
      BY <1>7, <1>6, <2>2
    <3> HIDE DEF new
    <3> DEFINE n == Len(w) + 1
    <3>2. /\ new \in Seq(SlotOf) /\ Len(new) = n /\ new[n] = there /\ n \in 1 .. Len(new)
          /\ \A j \in 1 .. Len(new) : j # n => j \in 1 .. Len(w) /\ new[j] = w[j]
          /\ \A j \in 1 .. Len(wide) : new[j] = w[j]
          /\ Len(wide) <= Len(new)
      BY <1>4, <1>6, <1>7, <3>1
    <3>3. Proper(new[n])
      BY <1>4, <1>6, <3>2 DEF Proper
    <3>4. ASSUME new[n].id # None, NEW j \in 1 .. Len(w), j # n PROVE w[j].id # new[n].id
      <4>1. CASE j = i
        BY Zenon, <1>5, <1>7, <3>2, <3>4, <4>1
      <4>2. CASE j # i
        BY Zenon, <1>4, <1>6, <1>7, <3>2, <3>4, <4>2
      <4> QED
        BY Zenon, <4>1, <4>2
    <3>5. Len(new) = IF n = Len(w) + 1 THEN Len(w) + 1 ELSE Len(w)
      BY Zenon, <3>2
    <3> HIDE DEF n
    <3>6. Sound(new)
      BY Zenon, <1>8, <3>2, <3>3, <3>4, <3>5, Reseated
    <3> QED
      BY Zenon, <3>2, <3>6
  <2> QED
    BY Zenon, <2>1, <2>2
<1> HIDE DEF new
<1>10. Widened(p, i, pin, now)
  BY Zenon, WithIs
<1> HIDE DEF now
<1>11. Held(new, now)
  <2> SUFFICES ASSUME NEW j \in DOMAIN now
               PROVE  j \in 1 .. Len(new) /\ new[j].pinned /\ new[j].key = now[j].key /\ new[j].state # "empty"
    BY Zenon DEF Held
  <2>0. Len(new) \in Nat /\ \A k \in 1 .. Len(wide) : k \in 1 .. Len(new)
    BY <1>4, <1>9 DEF Sound
  <2>1. CASE j = i
    <3>1. new[i] = absent /\ now[i] = pin
      BY Zenon, <1>3, <1>7, <1>9, <1>10 DEF Widened
    <3>2. "missing" # "empty"
      OBVIOUS
    <3> QED
      BY Zenon, <1>3, <1>5, <2>0, <2>1, <3>1, <3>2
  <2>2. CASE j # i
    <3>1. j \in DOMAIN p /\ now[j] = p[j]
      <4>1. DOMAIN now = DOMAIN p \cup {i} /\ \A k \in DOMAIN p : k # i => now[k] = p[k]
        BY Zenon, <1>10 DEF Widened
      <4> QED
        BY Zenon, <2>2, <4>1
    <3>2. j \in 1 .. Len(s) /\ s[j].pinned /\ s[j].key = p[j].key /\ s[j].state # "empty"
      BY Zenon, <3>1 DEF Held
    <3>3. j \in 1 .. Len(wide) /\ new[j] = s[j]
      BY Zenon, <1>3, <1>4, <1>7, <1>9, <2>2, <3>2
    <3> QED
      BY Zenon, <2>0, <3>1, <3>2, <3>3
  <2> QED
    BY Zenon, <2>1, <2>2
<1>12. Sound(Slots!Trimmed(new)) /\ Held(Slots!Trimmed(new), now)
  BY Zenon, <1>9, <1>11, TrimmedIs, TrimmedHeld
<1>13. u.slots = Slots!Trimmed(new) /\ u.pins = now
  OBVIOUS
<1> HIDE DEF u
<1>14. u = [slots |-> u.slots, pins |-> u.pins]
  BY Zenon, <1>13 DEF u
<1> QED
  BY Zenon, <1>1, <1>10, <1>12, <1>13, <1>14


\* set_pins, for one slot of new.
PinSets == UNION {[D -> PinOf] : D \in SUBSET (Nat \ {0})}

\* The tables on the way to new: every pin is one of its own.
Towards(new) ==
  {u \in [slots : Seq(SlotOf), pins : PinSets] :
     /\ Sound(u.slots) /\ Pinning(u.pins) /\ Held(u.slots, u.pins)
     /\ DOMAIN u.pins \subseteq DOMAIN new
     /\ \A i \in DOMAIN u.pins : u.pins[i].key = new[i].key}

LEMMA TowardsIs ==
  ASSUME NEW new, NEW u, u = [slots |-> u.slots, pins |-> u.pins],
         Sound(u.slots), Pinning(u.pins), Held(u.slots, u.pins),
         DOMAIN u.pins \subseteq DOMAIN new, \A i \in DOMAIN u.pins : u.pins[i].key = new[i].key
  PROVE  u \in Towards(new)
<1>1. u.slots \in Seq(SlotOf)
  BY DEF Sound
<1>2. u.pins \in PinSets
  <2>1. DOMAIN u.pins \in SUBSET (Nat \ {0}) /\ u.pins \in [DOMAIN u.pins -> PinOf]
    BY DEF Pinning
  <2> QED
    BY Zenon, <2>1 DEF PinSets
<1>3. u \in [slots : Seq(SlotOf), pins : PinSets]
  BY <1>1, <1>2
<1> QED
  BY Zenon, <1>3 DEF Towards

LEMMA PutIs ==
  ASSUME NEW new, Pinning(new), NEW u \in Towards(new), NEW i \in DOMAIN new, lastId \in Nat
  PROVE  /\ Slots!Put(new, u, i) \in Towards(new)
         /\ DOMAIN Slots!Put(new, u, i).pins = DOMAIN u.pins \cup {i}
<1> DEFINE s == u.slots
           p == u.pins
           at == {j \in DOMAIN s : Slots!IsTaken(s[j]) /\ s[j].key = new[i].key}
           h == Slots!Min(at)
           v == Slots!Put(new, u, i)
<1>1. /\ Sound(s) /\ Pinning(p) /\ Held(s, p) /\ DOMAIN p \subseteq DOMAIN new
      /\ \A j \in DOMAIN p : p[j].key = new[j].key
  BY DEF Towards
<1>2. /\ i \in Nat \ {0} /\ new[i] \in PinOf
      /\ \A j, k \in DOMAIN new : new[j].key = new[k].key => j = k
  BY DEF Pinning
<1>3. /\ \A j \in DOMAIN p : j # i => p[j].key # new[i].key
      /\ i \in DOMAIN p => p[i].key = new[i].key
  BY Zenon, <1>1, <1>2
<1>4. s \in Seq(SlotOf) /\ DOMAIN s = 1 .. Len(s) /\ Len(s) \in Nat
  BY <1>1 DEF Sound
<1>5. CASE i \in DOMAIN p /\ p[i] = new[i]
  <2>1. v = u
    BY Zenon, <1>5 DEF Slots!Put
  <2>2. DOMAIN p = DOMAIN p \cup {i}
    BY <1>5
  <2> HIDE DEF v
  <2> QED
    BY Zenon, <2>1, <2>2 DEF v
<1>6. CASE ~ (i \in DOMAIN p /\ p[i] = new[i]) /\ at # {}
  <2>1. v = Slots!Pinned(u, i, s[h].id)
    BY Zenon, <1>6 DEF Slots!Put
  <2>2. at \subseteq Nat /\ \A j \in at : j \in 1 .. Len(s) /\ s[j].state = "connected" /\ s[j].key = new[i].key
    BY <1>4 DEF Slots!IsTaken
  <2>3. h \in at
    <3> HIDE DEF at
    <3> QED
      BY <1>6, <2>2, MinIs
  <2> HIDE DEF at
  <2>4. h \in 1 .. Len(s) /\ s[h].state = "connected" /\ s[h].key = new[i].key
    BY Zenon, <2>2, <2>3
  <2> HIDE DEF h
  <2> DEFINE id == s[h].id
  <2>5. id # None
    BY Zenon, <1>1, <2>4 DEF Sound
  <2>6. id \in 1 .. lastId
    <3>1. s[h] \in SlotOf
      BY <1>4, <2>4
    <3> QED
      BY <2>5, <3>1 DEF SlotOf
  <2>7. Slots!CanPin(s, id)
    <3>1. new[i].key # None
      BY <1>2, SlotConstants DEF PinOf
    <3> QED
      BY Zenon, <1>4, <2>4, <3>1 DEF Slots!CanPin
  <2>8. v = Slots!Pinned(u, i, id)
    BY Zenon, <2>1
  <2> HIDE DEF id, v
  <2>9. s[h].id = id
    BY DEF id
  <2> DEFINE Same == /\ DOMAIN v.pins = DOMAIN p \cup {i}
                     /\ \A j \in DOMAIN p : j # i => v.pins[j] = p[j]
  <2>10. /\ v = [slots |-> v.slots, pins |-> v.pins]
         /\ Sound(v.slots) /\ Pinning(v.pins) /\ Held(v.slots, v.pins)
         /\ i \in DOMAIN v.pins /\ v.pins[i].key = s[h].key
         /\ (\A j \in DOMAIN p : p[j].key = s[h].key <=> j = i) \/ (\A j \in DOMAIN p : p[j].key # s[h].key /\ j # i)
            => Same
    <3>1. PinsTo(u, i, s[h].key, v)
      BY Zenon, <1>1, <1>2, <2>4, <2>6, <2>7, <2>8, <2>9, PinnedIs
    <3> QED
      BY Zenon, <3>1 DEF PinsTo
  <2>11. Same
    <3>1. CASE i \in DOMAIN p
      <4>1. \A j \in DOMAIN p : p[j].key = s[h].key <=> j = i
        BY Zenon, <1>3, <2>4, <3>1
      <4> HIDE DEF Same
      <4> QED
        BY Zenon, <2>10, <4>1
    <3>2. CASE i \notin DOMAIN p
      <4>1. \A j \in DOMAIN p : p[j].key # s[h].key /\ j # i
        BY Zenon, <1>3, <2>4, <3>2
      <4> HIDE DEF Same
      <4> QED
        BY Zenon, <2>10, <4>1
    <3> QED
      BY Zenon, <3>1, <3>2
  <2>12. \A j \in DOMAIN v.pins : j \in DOMAIN new /\ v.pins[j].key = new[j].key
    <3> SUFFICES ASSUME NEW j \in DOMAIN v.pins PROVE j \in DOMAIN new /\ v.pins[j].key = new[j].key
      OBVIOUS
    <3>1. CASE j = i
      BY Zenon, <2>4, <2>10, <3>1
    <3>2. CASE j # i
      <4>1. j \in DOMAIN p /\ v.pins[j] = p[j]
        BY Zenon, <2>11, <3>2
      <4> QED
        BY Zenon, <1>1, <4>1
    <3> QED
      BY Zenon, <3>1, <3>2
  <2>13. DOMAIN v.pins \subseteq DOMAIN new
    BY Zenon, <2>12
  <2>14. v \in Towards(new)
    BY Zenon, <2>10, <2>12, <2>13, TowardsIs
  <2> QED
    BY Zenon, <2>11, <2>14 DEF v
<1>7. CASE ~ (i \in DOMAIN p /\ p[i] = new[i]) /\ at = {}
  <2>1. v = Slots!PlacedAbsent(u, i, new[i])
    BY Zenon, <1>7 DEF Slots!Put
  <2> HIDE DEF v
  <2> DEFINE pin == new[i]
  <2>2. pin \in PinOf /\ \A j \in DOMAIN u.pins : j # i => u.pins[j].key # pin.key
    BY <1>2, <1>3
  <2>3. v = Slots!PlacedAbsent(u, i, pin)
    BY Zenon, <2>1
  <2> HIDE DEF pin
  <2>4. /\ v = [slots |-> v.slots, pins |-> v.pins]
        /\ Sound(v.slots) /\ Widened(u.pins, i, pin, v.pins) /\ Held(v.slots, v.pins)
    BY Zenon, <1>1, <1>2, <2>2, <2>3, PlacedAbsentIs
  <2>5. /\ Pinning(v.pins) /\ DOMAIN v.pins = DOMAIN p \cup {i} /\ v.pins[i] = pin
        /\ \A j \in DOMAIN p : j # i => v.pins[j] = p[j]
    BY Zenon, <2>4 DEF Widened
  <2>6. \A j \in DOMAIN v.pins : j \in DOMAIN new /\ v.pins[j].key = new[j].key
    <3> SUFFICES ASSUME NEW j \in DOMAIN v.pins PROVE j \in DOMAIN new /\ v.pins[j].key = new[j].key
      OBVIOUS
    <3>1. CASE j = i
      BY Zenon, <2>5, <3>1 DEF pin
    <3>2. CASE j # i
      <4>1. j \in DOMAIN p /\ v.pins[j] = p[j]
        BY Zenon, <2>5, <3>2
      <4> QED
        BY Zenon, <1>1, <4>1
    <3> QED
      BY Zenon, <3>1, <3>2
  <2>7. DOMAIN v.pins \subseteq DOMAIN new
    BY Zenon, <2>6
  <2>8. v \in Towards(new)
    BY Zenon, <2>4, <2>5, <2>6, <2>7, TowardsIs
  <2> QED
    BY Zenon, <2>5, <2>8 DEF v
<1> QED
  BY Zenon, <1>5, <1>6, <1>7

AllPut(new, b, q) == Slots!FoldLeft(LAMBDA u, i : Slots!Put(new, u, i), b, q)

\* The fold of the slots of new, one at a time.
LEMMA PutAll ==
  ASSUME NEW new, Pinning(new), NEW b \in Towards(new), NEW q \in Seq(DOMAIN new), lastId \in Nat
  PROVE  \E f : /\ f[0] = b
                /\ \A n \in 1 .. Len(q) : f[n] = Slots!Put(new, f[n - 1], q[n])
                /\ AllPut(new, b, q) = f[Len(q)]
<1> DEFINE N == Len(q)
           X == Towards(new)
           E == DOMAIN new
           G == [u \in X |-> [i \in E |-> Slots!Put(new, u, i)]]
           Eq(g) == g = [s \in SUBSET DOMAIN q |->
                           IF s = {} THEN b
                           ELSE Slots!Put(new, g[s \ {Slots!Max(s)}], q[Slots!Max(s)])]
           h == CHOOSE g : Eq(g)
<1>1. N \in Nat /\ DOMAIN q = 1 .. N /\ q \in [1 .. N -> E] /\ b \in X
  OBVIOUS
<1>2. G \in [X -> [E -> X]]
  <2>1. \A u \in X, i \in E : Slots!Put(new, u, i) \in X
    BY Zenon, PutIs
  <2> HIDE DEF X, E
  <2> QED
    BY <2>1
<1>3. \A u \in X, i \in E : G[u][i] = Slots!Put(new, u, i)
  <2> HIDE DEF X, E
  <2> QED
    OBVIOUS
<1> HIDE DEF G, X, N, E
<1>4. PICK f \in [SUBSET (1 .. N) -> X] : Folds(f, N, b, G, q)
  BY <1>1, <1>2, FoldExists
<1>5. Eq(f)
  <2>1. \A s \in SUBSET (1 .. N) : f[s] = IF s = {} THEN b ELSE G[f[s \ {Slots!Max(s)}]][q[Slots!Max(s)]]
    BY Zenon, <1>4 DEF Folds
  <2>2. ASSUME NEW s \in SUBSET (1 .. N), s # {}
        PROVE  f[s] = Slots!Put(new, f[s \ {Slots!Max(s)}], q[Slots!Max(s)])
    <3>1. s \ {Slots!Max(s)} \in SUBSET (1 .. N)
      OBVIOUS
    <3>2. Slots!Max(s) \in 1 .. N
      <4>1. s \subseteq 0 .. N
        BY <1>1
      <4>2. Slots!Max(s) \in s
        BY <1>1, <2>2, <4>1, MaxIs
      <4> QED
        BY <4>2
    <3>3. f[s \ {Slots!Max(s)}] \in X
      BY Zenon, <1>4, <3>1
    <3>4. q[Slots!Max(s)] \in E
      BY Zenon, <1>1, <3>2
    <3>5. f[s] = G[f[s \ {Slots!Max(s)}]][q[Slots!Max(s)]]
      BY Zenon, <2>1, <2>2
    <3> QED
      BY Zenon, <1>3, <3>3, <3>4, <3>5
  <2>3. f = [s \in SUBSET (1 .. N) |-> f[s]]
    BY <1>4
  <2>4. \A s \in SUBSET (1 .. N) :
          f[s] = IF s = {} THEN b ELSE Slots!Put(new, f[s \ {Slots!Max(s)}], q[Slots!Max(s)])
    BY Zenon, <2>1, <2>2
  <2> QED
    BY Zenon, <1>1, <2>3, <2>4
<1>6. Eq(h)
  <2> HIDE DEF Eq
  <2> QED
    BY Zenon, <1>5
<1>7. AllPut(new, b, q) = h[DOMAIN q]
  BY Zenon DEF AllPut, Slots!FoldLeft, Slots!MapThenFoldSet
<1> HIDE DEF h
<1>8. \A s \in SUBSET (1 .. N) :
        h[s] = IF s = {} THEN b ELSE Slots!Put(new, h[s \ {Slots!Max(s)}], q[Slots!Max(s)])
  BY Zenon, <1>1, <1>6
<1> DEFINE e == [n \in 0 .. N |-> h[1 .. n]]
<1>9. e[0] = b
  <2>1. 1 .. 0 = {} /\ 1 .. 0 \in SUBSET (1 .. N)
    BY SMT
  <2>2. h[1 .. 0] = b
    BY Zenon, <1>8, <2>1
  <2>3. 0 \in 0 .. N
    BY <1>1
  <2> QED
    BY <2>2, <2>3
<1>10. ASSUME NEW n \in 1 .. N PROVE e[n] = Slots!Put(new, e[n - 1], q[n])
  <2>1. n \in Nat /\ n # 0 /\ n \in 0 .. N /\ n - 1 \in 0 .. N
    BY <1>1
  <2>2. 1 .. n # {} /\ Slots!Max(1 .. n) = n /\ (1 .. n) \ {n} = 1 .. n - 1
    BY <2>1, UpTo
  <2>3. 1 .. n \in SUBSET (1 .. N)
    BY <1>1
  <2>4. h[1 .. n] = Slots!Put(new, h[1 .. n - 1], q[n])
    BY Zenon, <1>8, <2>2, <2>3
  <2> QED
    BY <2>1, <2>4
<1>11. e[N] = h[DOMAIN q]
  BY <1>1
<1> HIDE DEF e
<1>12. AllPut(new, b, q) = e[N]
  BY Zenon, <1>7, <1>11
<1> QED
  BY Zenon, <1>9, <1>10, <1>12 DEF N

LEMMA InPlaceOrder ==
  ASSUME NEW D, D \subseteq Nat, IsFiniteSet(D)
  PROVE  LET q == Slots!Ordered(D, <)
         IN q \in Seq(D) /\ \A i \in D : \E k \in 1 .. Len(q) : q[k] = i
<1> DEFINE R == {p \in D \X D : p[1] < p[2]}
           q == Slots!Ordered(D, <)
<1>1. \A i, j \in D : <<i, j>> \in R <=> i < j
  OBVIOUS
<1>2. Ordering(D, R)
  <2>1. \A i \in D : i \in Nat
    OBVIOUS
  <2> HIDE DEF R
  <2> QED
    BY <1>1, <2>1 DEF Ordering
<1> HIDE DEF R
<1>3. q = [k \in 1 .. Slots!Cardinality(D) |->
             CHOOSE x \in D : Slots!Cardinality({y \in D : y < x}) = k - 1]
  BY Zenon DEF Slots!Ordered
<1> HIDE DEF q
<1>4. ASSUME NEW x \in D PROVE Slots!Cardinality({y \in D : y < x}) = Place(D, R, x)
  <2>1. {y \in D : y < x} = {y \in D : <<y, x>> \in R}
    BY Zenon, <1>1
  <2> QED
    BY <2>1, SameCount DEF Place
<1>5. q = InOrder(D, R)
  <2>1. ASSUME NEW k
        PROVE  (CHOOSE x \in D : Slots!Cardinality({y \in D : y < x}) = k - 1)
                 = CHOOSE x \in D : Place(D, R, x) = k - 1
    BY Zenon, <1>4
  <2>2. Slots!Cardinality(D) = Cardinality(D)
    BY SameCount
  <2> DEFINE A(k) == CHOOSE x \in D : Slots!Cardinality({y \in D : y < x}) = k - 1
             B(k) == CHOOSE x \in D : Place(D, R, x) = k - 1
  <2>3. \A k : A(k) = B(k)
    BY Zenon, <2>1
  <2>4. q = [k \in 1 .. Cardinality(D) |-> A(k)]
    BY Zenon, <1>3, <2>2
  <2>5. InOrder(D, R) = [k \in 1 .. Cardinality(D) |-> B(k)]
    BY Zenon DEF InOrder
  <2> HIDE DEF A, B
  <2>6. [k \in 1 .. Cardinality(D) |-> A(k)] = [k \in 1 .. Cardinality(D) |-> B(k)]
    BY <2>3
  <2> QED
    BY Zenon, <2>4, <2>5, <2>6
<1>6. /\ InOrder(D, R) \in Seq(D) /\ Len(InOrder(D, R)) = Cardinality(D)
      /\ \A i \in D : \E k \in 1 .. Cardinality(D) : InOrder(D, R)[k] = i
  BY ZenonT(60), <1>2, InOrderIs
<1>7. q \in Seq(D) /\ \A i \in D : \E k \in 1 .. Len(q) : q[k] = i
  BY Zenon, <1>5, <1>6
<1> QED
  BY Zenon, <1>7 DEF q

\* set_pins: the table pins what it is told to, and holds to it.
LEMMA ReplacedIs ==
  ASSUME NEW t, Sound(t.slots), Pinning(t.pins), Held(t.slots, t.pins),
         NEW new, Pinning(new), lastId \in Nat
  PROVE  LET u == Slots!Replaced(t, new)
         IN /\ Sound(u.slots) /\ Pinning(u.pins) /\ Held(u.slots, u.pins)
            /\ DOMAIN u.pins = DOMAIN new /\ \A i \in DOMAIN new : u.pins[i].key = new[i].key
<1> DEFINE kept == {i \in DOMAIN t.pins \cap DOMAIN new : t.pins[i] = new[i]}
           I == DOMAIN t.pins \ kept
           b == Slots!Unpinned(t, I)
           q == Slots!Ordered(DOMAIN new, <)
           r == Slots!Replaced(t, new)
<1>1. r = AllPut(new, b, q)
  BY Zenon DEF Slots!Replaced, AllPut
<1>2. b \in Towards(new)
  <2>1. /\ b = [slots |-> b.slots, pins |-> b.pins]
        /\ Sound(b.slots) /\ Pinning(b.pins)
        /\ DOMAIN b.pins = DOMAIN t.pins \ I /\ \A i \in DOMAIN b.pins : b.pins[i] = t.pins[i]
        /\ Held(t.slots, t.pins) => Held(b.slots, b.pins)
    <3> HIDE DEF I
    <3> QED
      BY Zenon, UnpinnedIs
  <2>2. DOMAIN t.pins \ I = kept
    OBVIOUS
  <2> HIDE DEF b, I
  <2>3. ASSUME NEW i \in DOMAIN b.pins PROVE i \in DOMAIN new /\ b.pins[i].key = new[i].key
    <3>1. i \in kept
      BY <2>1, <2>2
    <3>2. i \in DOMAIN new /\ t.pins[i] = new[i]
      BY Zenon, <3>1
    <3>3. b.pins[i] = t.pins[i]
      BY Zenon, <2>1
    <3> QED
      BY Zenon, <3>2, <3>3
  <2>4. DOMAIN b.pins \subseteq DOMAIN new
    BY Zenon, <2>3
  <2> QED
    BY Zenon, <2>1, <2>3, <2>4, TowardsIs
<1>3. q \in Seq(DOMAIN new) /\ \A i \in DOMAIN new : \E k \in 1 .. Len(q) : q[k] = i
  <2>1. DOMAIN new \subseteq Nat /\ IsFiniteSet(DOMAIN new)
    BY DEF Pinning
  <2> QED
    BY Zenon, <2>1, InPlaceOrder
<1> HIDE DEF b, q, r
<1>4. PICK f : /\ f[0] = b
               /\ \A n \in 1 .. Len(q) : f[n] = Slots!Put(new, f[n - 1], q[n])
               /\ r = f[Len(q)]
  <2>1. \E f : /\ f[0] = b
               /\ \A n \in 1 .. Len(q) : f[n] = Slots!Put(new, f[n - 1], q[n])
               /\ AllPut(new, b, q) = f[Len(q)]
    BY <1>2, <1>3, PutAll
  <2> QED
    BY Zenon, <1>1, <2>1
<1> DEFINE Good(n) == f[n] \in Towards(new) /\ \A k \in 1 .. n : q[k] \in DOMAIN f[n].pins
           Bad == {n \in 0 .. Len(q) : ~ Good(n)}
<1>5. Len(q) \in Nat /\ \A k \in 1 .. Len(q) : q[k] \in DOMAIN new
  BY <1>3
<1>6. Good(0)
  <2>1. \A k \in 1 .. 0 : FALSE
    BY SMT
  <2> QED
    BY Zenon, <1>2, <1>4, <2>1
<1>7. ASSUME NEW n \in 1 .. Len(q), Good(n - 1) PROVE Good(n)
  <2>1. f[n - 1] \in Towards(new) /\ q[n] \in DOMAIN new /\ f[n] = Slots!Put(new, f[n - 1], q[n])
    BY Zenon, <1>4, <1>5, <1>7
  <2> DEFINE v == f[n - 1]
             w == f[n]
             i == q[n]
  <2>1a. v \in Towards(new) /\ i \in DOMAIN new /\ w = Slots!Put(new, v, i)
    BY Zenon, <2>1
  <2> HIDE DEF v, w, i
  <2>2a. w \in Towards(new) /\ DOMAIN w.pins = DOMAIN v.pins \cup {i}
    BY <2>1a, PutIs
  <2>2. w \in Towards(new) /\ DOMAIN w.pins = DOMAIN v.pins \cup {q[n]}
    BY Zenon, <2>2a DEF i
  <2>3. ASSUME NEW k \in 1 .. n PROVE q[k] \in DOMAIN w.pins
    <3>1. k = n \/ k \in 1 .. n - 1
      BY <1>5
    <3>2. k \in 1 .. n - 1 => q[k] \in DOMAIN v.pins
      BY Zenon, <1>7 DEF v
    <3> QED
      BY Zenon, <2>2, <3>1, <3>2
  <2> QED
    BY Zenon, <2>2, <2>3 DEF w
<1> HIDE DEF Good
<1>8. Bad = {}
  <2> SUFFICES ASSUME Bad # {} PROVE FALSE
    OBVIOUS
  <2>1. Bad \subseteq Nat
    OBVIOUS
  <2>2. PICK n \in Bad : \A m \in Bad : n <= m
    <3> HIDE DEF Bad
    <3> QED
      BY <2>1, Least
  <2>3. n \in 0 .. Len(q) /\ ~ Good(n)
    OBVIOUS
  <2>4. n # 0
    BY <1>6, <2>3
  <2>5. n \in 1 .. Len(q) /\ n - 1 \in 0 .. Len(q) /\ ~ (n <= n - 1)
    BY <1>5, <2>3, <2>4
  <2>6. Good(n - 1)
    BY <2>2, <2>5
  <2> QED
    BY <1>7, <2>3, <2>5, <2>6
<1>9. r \in Towards(new) /\ \A k \in 1 .. Len(q) : q[k] \in DOMAIN r.pins
  <2>1. Len(q) \in 0 .. Len(q)
    BY <1>5
  <2>2. Good(Len(q))
    BY <1>8, <2>1
  <2> QED
    BY Zenon, <1>4, <2>2 DEF Good
<1>10. \A i \in DOMAIN new : i \in DOMAIN r.pins
  BY Zenon, <1>3, <1>9
<1>11. /\ Sound(r.slots) /\ Pinning(r.pins) /\ Held(r.slots, r.pins)
       /\ DOMAIN r.pins \subseteq DOMAIN new /\ \A i \in DOMAIN r.pins : r.pins[i].key = new[i].key
  BY Zenon, <1>9 DEF Towards
<1>12. DOMAIN r.pins = DOMAIN new
  BY Zenon, <1>10, <1>11
<1> QED
  BY Zenon, <1>11, <1>12 DEF r

-----------------------------------------------------------------------------
(* Markers.                                                                *)

Marks == Slots!Range(Controlled) \cup {0}

MarkRelation(S) == {p \in S \X S : Slots!Rank(p[1]) < Slots!Rank(p[2])}

\* The markers no slot picked are markers, and finitely many.
LEMMA SpareIs == Slots!Spare \in Seq(Slots!Range(Controlled)) /\ 0 \notin Slots!Range(Controlled)
<1> DEFINE M == Slots!Range(Controlled)
           S == M \ Slots!Range(Slots!ValidPicks)
           R == MarkRelation(S)
           q == Slots!Spare
<1>1. Controlled \in Seq(Nat \ {0})
  BY Zenon, SafetyAssumption DEF Slots!ControllerSlotsAssumption
<1>2. M = {Controlled[k] : k \in 1 .. Len(Controlled)} /\ DOMAIN Controlled = 1 .. Len(Controlled)
      /\ Len(Controlled) \in Nat
  BY <1>1 DEF Slots!Range
<1> HIDE DEF M
<1>3. IsFiniteSet(M)
  <2>1. Controlled \in Surjection(1 .. Len(Controlled), M)
    BY <1>1, <1>2 DEF Surjection
  <2>2. IsFiniteSet(1 .. Len(Controlled))
    BY <1>2, FS_Interval
  <2> QED
    BY <2>1, <2>2, FS_Surjection
<1>4. ASSUME NEW m \in M
      PROVE  Slots!Rank(m) \in Nat /\ Controlled[Slots!Rank(m)] = m
  <2>1. \E k \in DOMAIN Controlled : Controlled[k] = m
    BY <1>2
  <2>2. Slots!Rank(m) \in DOMAIN Controlled /\ Controlled[Slots!Rank(m)] = m
    BY Zenon, <2>1 DEF Slots!Rank
  <2> QED
    BY <1>2, <2>2
<1>5. S \in SUBSET M
  OBVIOUS
<1> HIDE DEF S
<1>6. \A i, j \in S : <<i, j>> \in R <=> Slots!Rank(i) < Slots!Rank(j)
  BY DEF MarkRelation
<1>7. Ordering(S, R)
  <2>1. IsFiniteSet(S)
    BY <1>3, <1>5, FS_Subset
  <2>2. \A i \in S : Slots!Rank(i) \in Nat
    BY <1>4, <1>5
  <2>3. \A i, j \in S : Slots!Rank(i) = Slots!Rank(j) => i = j
    BY Zenon, <1>4, <1>5
  <2> HIDE DEF R
  <2> QED
    BY <1>6, <2>1, <2>2, <2>3 DEF Ordering
<1> HIDE DEF R
<1>8. q = [k \in 1 .. Slots!Cardinality(S) |->
             CHOOSE x \in S : Slots!Cardinality({y \in S : Slots!Rank(y) < Slots!Rank(x)}) = k - 1]
  BY Zenon DEF Slots!Spare, Slots!Ordered, S, M
<1> HIDE DEF q
<1>9. ASSUME NEW x \in S
      PROVE  Slots!Cardinality({y \in S : Slots!Rank(y) < Slots!Rank(x)}) = Place(S, R, x)
  <2>1. {y \in S : Slots!Rank(y) < Slots!Rank(x)} = {y \in S : <<y, x>> \in R}
    BY Zenon, <1>6
  <2> QED
    BY <2>1, SameCount DEF Place
<1>10. q = InOrder(S, R)
  <2> DEFINE A(k) == CHOOSE x \in S : Slots!Cardinality({y \in S : Slots!Rank(y) < Slots!Rank(x)}) = k - 1
             B(k) == CHOOSE x \in S : Place(S, R, x) = k - 1
  <2>1. ASSUME NEW k PROVE A(k) = B(k)
    BY Zenon, <1>9
  <2>2. Slots!Cardinality(S) = Cardinality(S)
    BY SameCount
  <2>3. \A k : A(k) = B(k)
    BY Zenon, <2>1
  <2>4. q = [k \in 1 .. Cardinality(S) |-> A(k)]
    BY Zenon, <1>8, <2>2
  <2>5. InOrder(S, R) = [k \in 1 .. Cardinality(S) |-> B(k)]
    BY Zenon DEF InOrder
  <2> HIDE DEF A, B
  <2>6. [k \in 1 .. Cardinality(S) |-> A(k)] = [k \in 1 .. Cardinality(S) |-> B(k)]
    BY <2>3
  <2> QED
    BY Zenon, <2>4, <2>5, <2>6
<1>11. q \in Seq(S)
  BY Zenon, <1>7, <1>10, InOrderIs
<1>12. q \in Seq(M)
  BY <1>5, <1>11
<1>13. 0 \notin M
  BY <1>1, <1>2
<1> QED
  BY Zenon, <1>12, <1>13 DEF M, q

Picking(f) == DOMAIN f \subseteq Nat \ {0} /\ \A j \in DOMAIN f : f[j] \in Marks

\* slot_markers: a slot drives a marker, or none.
LEMMA DrivenIs ==
  ASSUME Picking(picks), NEW size \in Nat
  PROVE  /\ Picking(Slots!ValidPicks)
         /\ \A j \in 1 .. size : Slots!SlotMarkers(size)[j] \in Marks \cup {None}
<1> DEFINE v == Slots!ValidPicks
           spare == Slots!Spare
           rank(j) == Slots!Cardinality((1 .. j) \ DOMAIN v)
           drive(j) == CASE j \in DOMAIN v -> IF v[j] = 0 THEN None ELSE v[j]
                         [] j \notin DOMAIN v /\ rank(j) <= Len(spare) -> spare[rank(j)]
                         [] OTHER -> None
<1>1. Picking(v)
  BY DEF Slots!ValidPicks, Picking, Marks
<1>2. spare \in Seq(Slots!Range(Controlled))
  BY Zenon, SpareIs
<1>3. \A j : rank(j) = Gaps(DOMAIN v, j)
  BY Zenon, SameCount DEF Gaps
<1>4. Slots!SlotMarkers(size) = [j \in 1 .. size |-> drive(j)]
  BY Zenon DEF Slots!SlotMarkers
<1> HIDE DEF v, spare, rank
<1>5. ASSUME NEW j \in 1 .. size PROVE drive(j) \in Marks \cup {None}
  <2>0. j \in Nat /\ j # 0 /\ j - 1 \in Nat
    OBVIOUS
  <2>1. CASE j \in DOMAIN v
    BY <1>1, <2>1 DEF Picking
  <2>2. CASE j \notin DOMAIN v /\ rank(j) <= Len(spare)
    <3>1. rank(j) = Gaps(DOMAIN v, j - 1) + 1 /\ Gaps(DOMAIN v, j - 1) \in Nat
      BY Zenon, <1>3, <2>0, <2>2, GapsAre
    <3>2. rank(j) \in 1 .. Len(spare)
      BY <1>2, <2>2, <3>1
    <3>3. spare[rank(j)] \in Slots!Range(Controlled)
      BY <1>2, <3>2
    <3> QED
      BY <2>2, <3>3 DEF Marks
  <2>3. CASE j \notin DOMAIN v /\ ~ (rank(j) <= Len(spare))
    BY <2>3
  <2> QED
    BY <2>1, <2>2, <2>3
<1> HIDE DEF drive
<1> QED
  BY <1>1, <1>4, <1>5 DEF v

\* pick_marker: what is picked is markers, or none.
LEMMA PickedIs ==
  ASSUME Picking(picks), NEW size \in Nat, NEW i \in 1 .. size, NEW m \in Slots!Range(Controlled)
  PROVE  Picking(Slots!Picked(size, i, m))
<1> DEFINE v == Slots!ValidPicks
           drives == Slots!SlotMarkers(size)
           D == {k \in DOMAIN v : k > size \/ v[k] = 0} \cup {k \in 1 .. size : drives[k] # None}
           kept(j) == IF j <= size /\ drives[j] # None THEN drives[j] ELSE v[j]
           asIs == [j \in D |-> kept(j)]
           holders == {j \in DOMAIN asIs \ {i} : asIs[j] = m}
           lost == IF drives[i] = None THEN 0 ELSE drives[i]
           w == [j \in DOMAIN asIs |-> IF j \in holders THEN lost ELSE asIs[j]]
           u == [j \in DOMAIN w \cup {i} |-> IF j = i THEN m ELSE w[j]]
<1>1. Slots!Picked(size, i, m) = u
  BY Zenon DEF Slots!Picked, Slots!With
<1>2. Picking(v) /\ \A j \in 1 .. size : drives[j] \in Marks \cup {None}
  BY Zenon, DrivenIs
<1>3. m \in Marks /\ 0 \in Marks
  BY DEF Marks
<1> HIDE DEF v, drives
<1>4. D \subseteq Nat \ {0}
  BY <1>2 DEF Picking
<1>5. ASSUME NEW j \in D PROVE kept(j) \in Marks
  <2>1. CASE j <= size /\ drives[j] # None
    <3>1. j \in 1 .. size
      BY <1>4, <2>1
    <3> QED
      BY <1>2, <2>1, <3>1
  <2>2. CASE ~ (j <= size /\ drives[j] # None)
    <3>1. j \in DOMAIN v
      BY <2>2
    <3> QED
      BY <1>2, <2>2, <3>1 DEF Picking
  <2> QED
    BY <2>1, <2>2
<1>6. lost \in Marks
  BY <1>2, <1>3
<1>7. DOMAIN asIs = D /\ \A j \in D : asIs[j] \in Marks
  <2> HIDE DEF D, kept
  <2> QED
    BY <1>5
<1> HIDE DEF asIs, lost, D
<1>8. DOMAIN w = D /\ \A j \in D : w[j] \in Marks
  <2> HIDE DEF holders
  <2> QED
    BY <1>6, <1>7
<1> HIDE DEF w
<1>9. Picking(u)
  <2>1. DOMAIN u = D \cup {i} /\ \A j \in D \cup {i} : u[j] \in Marks
    BY <1>3, <1>8
  <2>2. D \cup {i} \subseteq Nat \ {0}
    BY <1>4
  <2> HIDE DEF u
  <2> QED
    BY <2>1, <2>2 DEF Picking
<1> QED
  BY Zenon, <1>1, <1>9

-----------------------------------------------------------------------------
(* The invariant.                                                          *)

ClickOf ==
  [do : {"forget", "pin", "unpin", "marker"}, slot : Nat \ {0},
   marker : Slots!Range(Controlled) \cup {None},
   ref : [kind : Slots!KindSet \cup {None}, key : Slots!Ports \cup {None},
          state : {"connected", "missing", "reserved", "empty"}, pinned : BOOLEAN]]

Asked ==
  /\ clicks \in Seq(ClickOf)
  /\ capture # None => capture.slot \in Nat \ {0} /\ capture.pressed \in 1 .. lastId \cup {None}

Seated ==
  /\ Sound(slots) /\ Pinning(pins)
  /\ DOMAIN saved = DOMAIN pins /\ \A i \in DOMAIN pins : saved[i].key = pins[i].key
  /\ ~ seeding => Held(slots, pins)

Switched == off \subseteq Slots!KindSet /\ seeding \in BOOLEAN

SlotsInv == Attached /\ Switched /\ Seated /\ Picking(picks) /\ Asked

\* What holds of a table holds of it in the next state, of the ids given then.
LEMMA SeatedNext ==
  ASSUME lastId \in Nat, lastId' \in {lastId, lastId + 1},
         NEW s, Sound(s), NEW p, Pinning(p), ~ seeding' => Held(s, p), slots' = s, pins' = p,
         DOMAIN saved' = DOMAIN p, \A i \in DOMAIN p : saved'[i].key = p[i].key
  PROVE  Seated'
<1>1. SlotOf \subseteq SlotOf'
  <2>1. 1 .. lastId \subseteq 1 .. lastId'
    OBVIOUS
  <2> QED
    BY <2>1 DEF SlotOf
<1>2. Sound(slots)'
  <2>1. s \in Seq(SlotOf') 
    BY <1>1 DEF Sound
  <2> QED
    BY <2>1 DEF Sound
<1>3. Pinning(pins)'
  BY DEF Pinning, PinOf
<1>4. (~ seeding => Held(slots, pins))'
  BY DEF Held
<1> QED
  BY <1>2, <1>3, <1>4 DEF Seated

LEMMA AskedNext ==
  ASSUME Asked, lastId \in Nat, lastId' \in {lastId, lastId + 1}, UNCHANGED <<clicks, capture>>
  PROVE  Asked'
BY DEF Asked, ClickOf

LEMMA SlotsInit == Slots!Init => SlotsInv
<1> SUFFICES ASSUME Slots!Init PROVE SlotsInv
  OBVIOUS
<1> USE DEF Slots!Init
<1>1. Attached
  BY FS_EmptySet DEF Attached, Named
<1>2. Pinning(pins)
  BY SlotConstants DEF Pinning, PinOf
<1>3. Sound(slots)
  BY DEF Sound
<1>4. Seated
  BY <1>2, <1>3 DEF Seated
<1>5. Picking(picks)
  BY DEF Picking
<1>6. Switched /\ Asked
  BY DEF Switched, Asked
<1> QED
  BY <1>1, <1>4, <1>5, <1>6 DEF SlotsInv

LEMMA Plugged == ASSUME SlotsInv, NEW d \in Devices, Slots!Plug(d) PROVE SlotsInv'
<1> DEFINE c == [kind |-> d.kind, key |-> d.key, id |-> lastId']
<1>1. /\ lastId' = lastId + 1 /\ attached' = attached \cup {c}
      /\ UNCHANGED <<off, seeding, slots, pins, saved, picks, clicks, capture>>
  BY DEF Slots!Plug, Slots!table
<1>2. Named(attached) /\ IsFiniteSet(attached) /\ lastId \in Nat
  BY DEF SlotsInv, Attached
<1>3. Attached'
  <2>1. IsFiniteSet(attached')
    BY <1>1, <1>2, FS_AddElement
  <2>2. d.kind \in Slots!KindSet /\ d.key \in Slots!Ports \cup {None}
    BY SlotConstants
  <2>3. attached' \subseteq ControllerOf'
    BY <1>1, <1>2, <2>2 DEF Named, ControllerOf
  <2>4. \A x \in attached : x.id \in 1 .. lastId
    BY <1>2 DEF Named, ControllerOf
  <2>5. \A x, y \in attached' : x.id = y.id => x = y
    BY <1>1, <1>2, <2>4 DEF Named
  <2> QED
    BY <1>1, <1>2, <2>1, <2>3, <2>5 DEF Attached, Named
<1>4. Seated'
  BY <1>1, <1>2, SeatedNext DEF SlotsInv, Seated
<1>5. Asked'
  BY <1>1, <1>2, AskedNext DEF SlotsInv
<1> QED
  BY <1>1, <1>3, <1>4, <1>5 DEF SlotsInv, Switched, Picking, Marks

\* An id is given once, and nothing else is plugged in.
LEMMA AttachedNext ==
  ASSUME Attached, attached' \in SUBSET attached, lastId' = lastId PROVE Attached'
<1>1. IsFiniteSet(attached')
  BY FS_Subset DEF Attached
<1> QED
  BY <1>1 DEF Attached, Named, ControllerOf

LEMMA Unplugged == ASSUME SlotsInv, NEW c \in attached, Slots!Unplug(c) PROVE SlotsInv'
<1>1. /\ attached' \in SUBSET attached
      /\ UNCHANGED <<lastId, off, seeding, slots, pins, saved, picks, clicks, capture>>
  BY DEF Slots!Unplug, Slots!table
<1>2. lastId \in Nat
  BY DEF SlotsInv, Attached
<1>3. Attached'
  BY <1>1, AttachedNext DEF SlotsInv
<1>4. Seated'
  BY <1>1, <1>2, SeatedNext DEF SlotsInv, Seated
<1>5. Asked'
  BY <1>1, <1>2, AskedNext DEF SlotsInv
<1> QED
  BY <1>1, <1>3, <1>4, <1>5 DEF SlotsInv, Switched, Picking, Marks

LEMMA SwitchedOver == ASSUME SlotsInv, NEW kind \in Slots!KindSet, Slots!Switch(kind) PROVE SlotsInv'
<1>1. /\ off' \in {off \ {kind}, off \cup {kind}}
      /\ UNCHANGED <<attached, lastId, seeding, slots, pins, saved, picks, clicks, capture>>
  BY DEF Slots!Switch, Slots!table
<1>2. lastId \in Nat
  BY DEF SlotsInv, Attached
<1>3. Attached'
  BY <1>1, AttachedNext DEF SlotsInv
<1>4. Seated'
  BY <1>1, <1>2, SeatedNext DEF SlotsInv, Seated
<1>5. Asked'
  BY <1>1, <1>2, AskedNext DEF SlotsInv
<1> QED
  BY <1>1, <1>3, <1>4, <1>5 DEF SlotsInv, Switched, Picking, Marks

LEMMA Clicked ==
  ASSUME SlotsInv, NEW i \in DOMAIN slots, NEW do \in {"forget", "pin", "unpin", "marker"},
         NEW m \in Slots!Range(Controlled) \cup {None}, Slots!Click(do, i, m)
  PROVE  SlotsInv'
<1> DEFINE click == [do |-> do, slot |-> i, marker |-> m, ref |-> Slots!Ref(slots[i])]
<1>1. /\ clicks' = Append(clicks, click)
      /\ UNCHANGED <<attached, off, lastId, seeding, slots, pins, saved, picks, capture>>
  BY DEF Slots!Click, Slots!table
<1>2. lastId \in Nat
  BY DEF SlotsInv, Attached
<1>3. Attached'
  BY <1>1, AttachedNext DEF SlotsInv
<1>4. Seated'
  BY <1>1, <1>2, SeatedNext DEF SlotsInv, Seated
<1>5. Asked'
  <2>1. slots[i] \in SlotOf /\ i \in Nat \ {0}
    BY DEF SlotsInv, Seated, Sound
  <2>2. click \in ClickOf
    BY <2>1 DEF SlotOf, ClickOf, Slots!Ref
  <2> HIDE DEF click
  <2>3. clicks' \in Seq(ClickOf)
    BY <1>1, <2>2 DEF SlotsInv, Asked
  <2> QED
    BY <1>1, <2>3 DEF SlotsInv, Asked, ClickOf
<1> QED
  BY <1>1, <1>3, <1>4, <1>5 DEF SlotsInv, Switched, Picking, Marks

\* A frame folds in who is attached.
LEMMA FrameIs ==
  ASSUME SlotsInv
  PROVE  /\ Sound(Slots!Refreshed) /\ Held(Slots!Refreshed, pins) /\ Pinning(pins)
         /\ lastId \in Nat /\ DOMAIN saved = DOMAIN pins
         /\ \A i \in DOMAIN pins : saved[i].key = pins[i].key
<1>1. Attached /\ Seated
  BY DEF SlotsInv
<1>2. Attached /\ Sound(slots) /\ Pinning(pins) /\ (~ seeding => Held(slots, pins))
  BY <1>1 DEF Seated
<1>3. Sound(Slots!Refreshed) /\ Held(Slots!Refreshed, pins)
  BY Zenon, <1>2, RefreshedIs
<1> QED
  BY <1>1, <1>3 DEF Attached, Seated

LEMMA RefreshedSeats ==
  ASSUME SlotsInv, slots' = Slots!Refreshed, UNCHANGED <<lastId, pins, saved>>
  PROVE  Seated'
<1> DEFINE s == Slots!Refreshed
<1>1. /\ Sound(s) /\ Held(s, pins) /\ Pinning(pins)
      /\ lastId \in Nat /\ DOMAIN saved = DOMAIN pins
      /\ \A i \in DOMAIN pins : saved[i].key = pins[i].key
  BY FrameIs
<1> HIDE DEF s
<1>2. slots' = s
  BY DEF s
<1> QED
  BY <1>1, <1>2, SeatedNext

LEMMA Framed == ASSUME SlotsInv, Slots!Refresh PROVE SlotsInv'
<1>1. /\ slots' = Slots!Refreshed /\ seeding' \in {seeding, FALSE}
      /\ UNCHANGED <<attached, off, lastId, pins, saved, picks, clicks, capture>>
  BY DEF Slots!Refresh
<1>2. Seated'
  BY <1>1, RefreshedSeats
<1>3. lastId \in Nat
  BY DEF SlotsInv, Attached
<1>4. Attached'
  BY <1>1, AttachedNext DEF SlotsInv
<1>5. Asked'
  BY <1>1, <1>3, AskedNext DEF SlotsInv
<1> QED
  BY <1>1, <1>2, <1>4, <1>5 DEF SlotsInv, Switched, Picking, Marks

LEMMA Pressed == ASSUME SlotsInv, Slots!Press PROVE SlotsInv'
<1>1. /\ capture # None /\ slots' = Slots!Refreshed
      /\ UNCHANGED <<attached, off, lastId, seeding, pins, saved, picks, clicks>>
  BY DEF Slots!Press
<1>2. PICK c \in Slots!Live : capture' = [capture EXCEPT !.pressed = c.id]
  BY DEF Slots!Press
<1>3. Seated'
  BY <1>1, RefreshedSeats
<1>4. Attached'
  BY <1>1, AttachedNext DEF SlotsInv
<1>5. c.id \in 1 .. lastId
  <2>1. Crowd(Slots!Live)
    BY LiveIs DEF SlotsInv
  <2> QED
    BY <2>1 DEF Crowd, Named, ControllerOf
<1>6. Asked'
  BY <1>1, <1>2, <1>5 DEF SlotsInv, Asked, ClickOf
<1> QED
  BY <1>1, <1>3, <1>4, <1>6 DEF SlotsInv, Switched, Picking, Marks

LEMMA GivenUp == ASSUME SlotsInv, Slots!GiveUp PROVE SlotsInv'
<1>1. /\ slots' = Slots!Refreshed \/ slots' = slots
      /\ capture' = None
      /\ UNCHANGED <<attached, off, lastId, seeding, pins, saved, picks, clicks>>
  BY DEF Slots!GiveUp
<1>2. lastId \in Nat
  BY DEF SlotsInv, Attached
<1>3. CASE slots' = Slots!Refreshed
  <2>1. Seated'
    BY <1>1, <1>3, RefreshedSeats
  <2>2. Attached'
    BY <1>1, AttachedNext DEF SlotsInv
  <2> QED
    BY <1>1, <2>1, <2>2 DEF SlotsInv, Switched, Picking, Marks, Asked, ClickOf
<1>4. CASE slots' = slots
  <2>1. Seated'
    BY <1>1, <1>2, <1>4, SeatedNext DEF SlotsInv, Seated
  <2>2. Attached'
    BY <1>1, AttachedNext DEF SlotsInv
  <2> QED
    BY <1>1, <2>1, <2>2 DEF SlotsInv, Switched, Picking, Marks, Asked, ClickOf
<1> QED
  BY <1>1, <1>3, <1>4

\* The press is over: its controller's socket is pinned, if it has one.
LEMMA PinnedHere == ASSUME SlotsInv, Slots!EndCapture PROVE SlotsInv'
<1> DEFINE s == Slots!Refreshed
           t == [slots |-> s, pins |-> pins]
           i == capture.slot
           id == capture.pressed
           u == Slots!Pinned(t, i, id)
<1>1. /\ capture # None /\ id # None /\ slots' = u.slots /\ pins' = u.pins
      /\ saved' = IF Slots!CanPin(s, id) THEN pins' ELSE saved
      /\ capture' = None
      /\ UNCHANGED <<attached, off, lastId, seeding, picks, clicks>>
  BY DEF Slots!EndCapture, Slots!Become
<1>2. i \in Nat \ {0} /\ id \in 1 .. lastId
  BY <1>1 DEF SlotsInv, Asked
<1>3. /\ Sound(s) /\ Held(s, pins) /\ Pinning(pins)
      /\ lastId \in Nat /\ DOMAIN saved = DOMAIN pins
      /\ \A j \in DOMAIN pins : saved[j].key = pins[j].key
  BY FrameIs
<1>4. t.slots = s /\ t.pins = pins
  OBVIOUS
<1>5. Seated'
  <2>1. CASE Slots!CanPin(s, id)
    <3>1. PICK h \in DOMAIN s : s[h].id = id
      BY Zenon, <2>1 DEF Slots!CanPin
    <3>2. h \in 1 .. Len(s)
      BY <1>3, <3>1 DEF Sound
    <3> HIDE DEF s, t, i, id
    <3>3. PinsTo(t, i, t.slots[h].key, Slots!Pinned(t, i, id))
      <4>1. /\ Sound(t.slots) /\ Held(t.slots, t.pins) /\ Pinning(t.pins)
            /\ Slots!CanPin(t.slots, id) /\ h \in 1 .. Len(t.slots) /\ t.slots[h].id = id
        BY <1>3, <1>4, <2>1, <3>1, <3>2
      <4> QED
        BY <1>2, <1>3, <4>1, PinnedIs
    <3> HIDE DEF u
    <3>4. PinsTo(t, i, t.slots[h].key, u)
      BY Zenon, <3>3 DEF u
    <3>5. Sound(u.slots) /\ Pinning(u.pins) /\ Held(u.slots, u.pins)
      BY Zenon, <3>4 DEF PinsTo
    <3> DEFINE x == u.slots
               y == u.pins
    <3>6. slots' = x /\ pins' = y /\ saved' = y /\ lastId' = lastId
      BY <1>1, <2>1
    <3>7. Sound(x) /\ Pinning(y) /\ Held(x, y)
      BY <3>5
    <3> HIDE DEF x, y
    <3> QED
      BY <1>3, <3>6, <3>7, SeatedNext
  <2>2. CASE ~ Slots!CanPin(s, id)
    <3>1. u = t
      <4>1. ~ Slots!CanPin(t.slots, id)
        BY Zenon, <1>4, <2>2
      <4> HIDE DEF t
      <4> QED
        BY Zenon, <4>1 DEF Slots!Pinned
    <3>2. slots' = s /\ pins' = pins /\ saved' = saved /\ lastId' = lastId
      BY <1>1, <1>4, <2>2, <3>1
    <3> HIDE DEF s
    <3> QED
      BY <1>3, <3>2, SeatedNext
  <2> QED
    BY <2>1, <2>2
<1>6. Attached'
  BY <1>1, AttachedNext DEF SlotsInv
<1> QED
  BY <1>1, <1>5, <1>6 DEF SlotsInv, Switched, Picking, Marks, Asked, ClickOf

\* config.toml pins otherwise.
LEMMA Reloaded == ASSUME SlotsInv, NEW new \in Edits, Slots!Reload(new) PROVE SlotsInv'
<1> DEFINE t == Slots!Now
           u == Slots!Replaced(t, new)
<1>1. /\ saved' = new
      /\ UNCHANGED <<attached, off, lastId, seeding, picks, clicks, capture>>
  BY DEF Slots!Reload
<1>2. Slots!TakePins(new)
  BY DEF Slots!Reload
<1>3. Pinning(new)
  BY SlotConstants DEF Pinning, PinOf
<1>4. lastId \in Nat /\ Sound(slots) /\ Pinning(pins) /\ (~ seeding => Held(slots, pins))
  BY DEF SlotsInv, Attached, Seated
<1>5. Seated'
  <2>1. CASE seeding
    <3>1. pins' = new /\ slots' = slots
      BY <1>2, <2>1 DEF Slots!TakePins
    <3> QED
      BY <1>1, <1>3, <1>4, <2>1, <3>1, SeatedNext
  <2>2. CASE ~ seeding
    <3>1. slots' = u.slots /\ pins' = u.pins
      BY <1>2, <2>2 DEF Slots!TakePins, Slots!Become
    <3>2. t.slots = slots /\ t.pins = pins
      BY DEF Slots!Now
    <3> HIDE DEF t
    <3>3. Sound(t.slots) /\ Pinning(t.pins) /\ Held(t.slots, t.pins)
      BY <1>4, <2>2, <3>2
    <3>4. /\ Sound(u.slots) /\ Pinning(u.pins) /\ Held(u.slots, u.pins)
          /\ DOMAIN u.pins = DOMAIN new /\ \A i \in DOMAIN new : u.pins[i].key = new[i].key
      BY <1>3, <1>4, <3>3, ReplacedIs
    <3> DEFINE x == u.slots
               y == u.pins
    <3>5. slots' = x /\ pins' = y /\ saved' = new /\ lastId' = lastId
      BY <1>1, <3>1
    <3>6. /\ Sound(x) /\ Pinning(y) /\ Held(x, y)
          /\ DOMAIN y = DOMAIN new /\ \A i \in DOMAIN new : y[i].key = new[i].key
      BY <3>4
    <3> HIDE DEF x, y
    <3> QED
      BY <1>4, <3>5, <3>6, SeatedNext
  <2> QED
    BY <2>1, <2>2
<1>6. Attached'
  BY <1>1, AttachedNext DEF SlotsInv
<1>7. Asked'
  BY <1>1, <1>4, AskedNext DEF SlotsInv
<1> QED
  BY <1>1, <1>5, <1>6, <1>7 DEF SlotsInv, Switched, Picking, Marks

\* Forget: a slot that misses its controller is reserved for nobody else.
LEMMA ForgottenIs ==
  ASSUME NEW s, Sound(s), NEW i \in 1 .. Len(s), s[i].state = "missing"
  PROVE  LET t == [s EXCEPT ![i].state = "reserved"]
         IN Sound(t) /\ \A p : Held(s, p) => Held(t, p)
<1> DEFINE r == [s[i] EXCEPT !.state = "reserved"]
           t == [s EXCEPT ![i].state = "reserved"]
<1>1. s \in Seq(SlotOf) /\ Len(s) \in Nat /\ s[i] \in SlotOf
  BY DEF Sound
<1>2. /\ r \in SlotOf /\ r.kind = s[i].kind /\ r.key = s[i].key /\ r.state = "reserved"
      /\ r.id = s[i].id /\ r.pinned = s[i].pinned
  BY <1>1, SlotChanges
<1>3. t = [s EXCEPT ![i] = r]
  OBVIOUS
<1> HIDE DEF r
<1>4. t \in Seq(SlotOf) /\ Len(t) = Len(s) /\ t[i] = r /\ \A j \in 1 .. Len(s) : j # i => t[j] = s[j]
  BY <1>1, <1>2, <1>3
<1> HIDE DEF t
<1>5. s[i].id = None
  BY DEF Sound
<1>6. Sound(t)
  BY <1>2, <1>4, <1>5 DEF Sound
<1>7. \A p : Held(s, p) => Held(t, p)
  BY <1>2, <1>4 DEF Held
<1> QED
  BY Zenon, <1>6, <1>7 DEF t

LEMMA Acted == ASSUME SlotsInv, Slots!Act PROVE SlotsInv'
<1> DEFINE click == Head(clicks)
           i == click.slot
           shown == i \in DOMAIN slots /\ Slots!Ref(slots[i]) = click.ref
           forget == click.do = "forget" /\ shown /\ slots[i].state = "missing"
           unpin == click.do = "unpin" /\ shown /\ i \in DOMAIN pins
           pin == click.do = "pin" /\ shown
           marker == /\ click.do = "marker" /\ shown
                     /\ slots[i].state \in {"connected", "missing"}
                     /\ Slots!Occupied(slots) # 1 /\ click.marker \in Slots!Range(Controlled)
           u == Slots!Unpinned(Slots!Now, {i})
<1>1. /\ clicks # <<>> /\ clicks' = Tail(clicks)
      /\ IF forget THEN slots' = [slots EXCEPT ![i].state = "reserved"] /\ pins' = pins
         ELSE IF unpin THEN slots' = u.slots /\ pins' = u.pins ELSE slots' = slots /\ pins' = pins
      /\ saved' = IF unpin THEN pins' ELSE saved
      /\ capture' = IF pin /\ capture = None THEN [slot |-> i, pressed |-> None] ELSE capture
      /\ picks' = IF marker THEN Slots!Picked(Len(slots), i, click.marker) ELSE picks
      /\ UNCHANGED <<attached, off, lastId, seeding>>
  BY DEF Slots!Act, Slots!Become
<1>2. click \in ClickOf /\ Tail(clicks) \in Seq(ClickOf)
  BY <1>1 DEF SlotsInv, Asked
<1>3. i \in Nat \ {0}
  BY <1>2 DEF ClickOf
<1>4. lastId \in Nat /\ Sound(slots) /\ Pinning(pins) /\ (~ seeding => Held(slots, pins))
  BY DEF SlotsInv, Attached, Seated
<1>5. DOMAIN saved = DOMAIN pins /\ \A j \in DOMAIN pins : saved[j].key = pins[j].key
  BY DEF SlotsInv, Seated
<1>6. DOMAIN slots = 1 .. Len(slots) /\ Len(slots) \in Nat
  BY <1>4 DEF Sound
<1>7. ~ (forget /\ unpin)
  OBVIOUS
<1>8. shown => i \in 1 .. Len(slots)
  BY <1>6
<1> HIDE DEF click, i, shown
<1>9. Seated'
  <2>1. CASE forget
    <3> DEFINE t == [slots EXCEPT ![i].state = "reserved"]
    <3>1. slots' = t /\ pins' = pins /\ saved' = saved
      BY <1>1, <1>7, <2>1
    <3>2. Sound(t) /\ \A p : Held(slots, p) => Held(t, p)
      BY <1>4, <1>8, <2>1, ForgottenIs
    <3> HIDE DEF t
    <3> QED
      BY <1>1, <1>4, <1>5, <3>1, <3>2, SeatedNext
  <2>2. CASE unpin
    <3> DEFINE now == Slots!Now
               x == u.slots
               y == u.pins
    <3>1. now.slots = slots /\ now.pins = pins
      BY DEF Slots!Now
    <3>2. Sound(x) /\ Pinning(y) /\ (Held(slots, pins) => Held(x, y))
      <4> HIDE DEF now
      <4>1. Sound(now.slots) /\ Pinning(now.pins)
        BY <1>4, <3>1
      <4>2. LET v == Slots!Unpinned(now, {i})
            IN /\ Sound(v.slots) /\ Pinning(v.pins)
               /\ Held(now.slots, now.pins) => Held(v.slots, v.pins)
        BY <4>1, UnpinnedIs
      <4> QED
        BY <3>1, <4>2 DEF now
    <3>3. slots' = x /\ pins' = y /\ saved' = y
      BY <1>1, <1>7, <2>2
    <3> HIDE DEF x, y
    <3> QED
      BY <1>1, <1>4, <3>2, <3>3, SeatedNext
  <2>3. CASE ~ forget /\ ~ unpin
    <3>1. slots' = slots /\ pins' = pins /\ saved' = saved
      BY <1>1, <2>3
    <3> QED
      BY <1>1, <1>4, <1>5, <3>1, SeatedNext
  <2> QED
    BY <2>1, <2>2, <2>3
<1>10. Picking(picks')
  <2>1. CASE marker
    <3>1. Picking(picks)
      BY DEF SlotsInv
    <3>2. picks' = Slots!Picked(Len(slots), i, click.marker)
      BY <1>1, <2>1
    <3>3. i \in 1 .. Len(slots) /\ click.marker \in Slots!Range(Controlled)
      BY <1>8, <2>1
    <3> QED
      BY <1>6, <3>1, <3>2, <3>3, PickedIs
  <2>2. CASE ~ marker
    BY <1>1, <2>2 DEF SlotsInv
  <2> QED
    BY <2>1, <2>2
<1>11. Asked'
  BY <1>1, <1>2, <1>3 DEF SlotsInv, Asked, ClickOf
<1>12. Attached'
  BY <1>1, AttachedNext DEF SlotsInv
<1> QED
  BY <1>1, <1>9, <1>10, <1>11, <1>12 DEF SlotsInv, Switched, Picking, Marks

LEMMA SlotsStep == ASSUME SlotsInv, Slots!Next PROVE SlotsInv'
<1>1. ASSUME NEW i \in DOMAIN slots,
             \/ \E do \in {"forget", "pin", "unpin"} : Slots!Click(do, i, None)
             \/ \E m \in Slots!Range(Controlled) : Slots!Click("marker", i, m)
      PROVE  SlotsInv'
  <2>1. ASSUME NEW do \in {"forget", "pin", "unpin"}, Slots!Click(do, i, None) PROVE SlotsInv'
    BY <2>1, Clicked
  <2>2. ASSUME NEW m \in Slots!Range(Controlled), Slots!Click("marker", i, m) PROVE SlotsInv'
    BY <2>2, Clicked
  <2> QED
    BY <1>1, <2>1, <2>2
<1>2. ASSUME NEW d \in Devices, Slots!Plug(d) PROVE SlotsInv'
  BY <1>2, Plugged
<1>3. ASSUME NEW c \in attached, Slots!Unplug(c) PROVE SlotsInv'
  BY <1>3, Unplugged
<1>4. ASSUME NEW kind \in Slots!KindSet, Slots!Switch(kind) PROVE SlotsInv'
  BY <1>4, SwitchedOver
<1>5. ASSUME NEW new \in Edits, Slots!Reload(new) PROVE SlotsInv'
  BY <1>5, Reloaded
<1>6. Slots!Refresh \/ Slots!Act \/ Slots!Press \/ Slots!EndCapture \/ Slots!GiveUp => SlotsInv'
  BY Framed, Acted, Pressed, PinnedHere, GivenUp
<1> QED
  BY Zenon, <1>1, <1>2, <1>3, <1>4, <1>5, <1>6 DEF Slots!Next

LEMMA SlotsHold == ASSUME SlotsInv PROVE Slots!TypeOK /\ Slots!PinsHold
<1>1. Slots!TypeOK
  <2>1. attached \subseteq ControllerOf /\ slots \in Seq(SlotOf) /\ off \subseteq Slots!KindSet
        /\ seeding \in BOOLEAN /\ \A i \in DOMAIN pins : pins[i] \in PinOf
    BY DEF SlotsInv, Attached, Named, Seated, Sound, Pinning, Switched
  <2>2. \A i \in DOMAIN picks : picks[i] \in Slots!Range(Controlled) \cup {0}
    BY DEF SlotsInv, Picking, Marks
  <2>3. capture # None => capture.pressed \in 1 .. lastId \cup {None}
    BY DEF SlotsInv, Asked
  <2> QED
    BY Zenon, <2>1, <2>2, <2>3 DEF Slots!TypeOK, ControllerOf, SlotOf, PinOf
<1>2. Sound(slots) /\ Pinning(pins)
  BY DEF SlotsInv, Seated
<1>3. ASSUME NEW c \in attached PROVE Slots!Cardinality(Slots!SeatOf(slots, c.id)) <= 1
  <2> DEFINE S == {i \in DOMAIN slots : slots[i].id = c.id}
  <2>1. c.id # None
    BY SlotConstants DEF SlotsInv, Attached, Named, ControllerOf
  <2>2. \A i, j \in S : i = j
    BY <1>2, <2>1 DEF Sound
  <2> HIDE DEF S
  <2>3. S = {} \/ \E i \in S : S = {i}
    BY <2>2
  <2>4. Cardinality(S) = 0 \/ Cardinality(S) = 1
    BY <2>3, FS_EmptySet, FS_Singleton
  <2>5. Slots!Cardinality(S) = Cardinality(S)
    BY SameCount
  <2> QED
    BY <2>4, <2>5 DEF S, Slots!SeatOf
<1>4. Slots!Keys(pins) = Slots!Keys(saved)
  BY DEF SlotsInv, Seated, Slots!Keys
<1>5. \A i, j \in DOMAIN pins : pins[i].key = pins[j].key => i = j
  BY <1>2 DEF Pinning
<1>6. ~ seeding => \A i \in DOMAIN pins :
                     i \in DOMAIN slots /\ slots[i].pinned /\ slots[i].key = pins[i].key
  <2>1. DOMAIN slots = 1 .. Len(slots)
    BY <1>2 DEF Sound
  <2>2. ~ seeding => Held(slots, pins)
    BY DEF SlotsInv, Seated
  <2> QED
    BY <2>1, <2>2 DEF Held
<1>7. Slots!PinsHold
  BY Zenon, <1>3, <1>4, <1>5, <1>6 DEF Slots!PinsHold
<1> QED
  BY <1>1, <1>7

LEMMA SlotsInvariant == SafetySpec => [](subject = "slots" => SlotsInv)
<1> DEFINE I == subject = "slots" => SlotsInv
<1>1. SafetyInit => I
  BY SlotsInit DEF SafetyInit
<1>2. I /\ [SafetyNext]_<<subject, output, controllers>> => I'
  <2> SUFFICES ASSUME I, [SafetyNext]_<<subject, output, controllers>>, subject' = "slots" PROVE SlotsInv'
    BY Zenon
  <2>1. CASE subject = "output" /\ Next /\ UNCHANGED <<subject, controllers>>
    BY <2>1
  <2>2. CASE subject = "slots" /\ Slots!Next /\ UNCHANGED <<subject, output>>
    <3>1. SlotsInv /\ Slots!Next
      BY Zenon, <2>2
    <3> QED
      BY Zenon, <3>1, SlotsStep
  <2>3. CASE UNCHANGED <<subject, output, controllers>>
    <3>1. SlotsInv /\ UNCHANGED <<attached, off, lastId, seeding, slots, pins, saved, picks, clicks, capture>>
      BY <2>3 DEF controllers
    <3>2. lastId \in Nat
      BY <3>1 DEF SlotsInv, Attached
    <3>3. Attached'
      BY <3>1, AttachedNext DEF SlotsInv
    <3>4. Seated'
      BY <3>1, <3>2, SeatedNext DEF SlotsInv, Seated
    <3>5. Asked'
      BY <3>1, <3>2, AskedNext DEF SlotsInv
    <3> QED
      BY <3>1, <3>3, <3>4, <3>5 DEF SlotsInv, Switched, Picking, Marks
  <2> QED
    BY Zenon, <2>1, <2>2, <2>3 DEF SafetyNext
<1> QED
  BY <1>1, <1>2, PTL DEF SafetySpec

LEMMA OutputInvariant == SafetySpec => []IInv
<1>1. SafetyInit => IInv
  BY InitSound DEF SafetyInit, OutputStands
<1>2. IInv /\ [SafetyNext]_<<subject, output, controllers>> => IInv'
  BY StepSound DEF SafetyNext, output
<1> QED
  BY <1>1, <1>2, PTL DEF SafetySpec

\* The controllers' slots, while the output stands still: a pin holds.  Of every
\* controller, slot and click, and every edit of config.toml that pins a socket once.
\* And the output keeps its types, while the slots stand still.
THEOREM PinsDoHold == SafetySpec => []PinsHold
<1>1. IInv /\ (subject = "slots" => SlotsInv) => PinsHold
  BY SlotsHold DEF PinsHold, IInv
<1> QED
  BY <1>1, OutputInvariant, SlotsInvariant, PTL

-----------------------------------------------------------------------------
(* Nobody moves but by a pin.                                              *)

\* A frame of a frozen table, as the property tells it.
Folded(t) ==
  /\ Sound(t) /\ Len(slots) <= Len(t) /\ Filled(slots, t)
  /\ \A i \in 1 .. Len(slots) :
       slots[i].state = "connected" /\ slots[i].id \in {c.id : c \in Slots!Live} => t[i] = slots[i]
  /\ \A c \in Slots!Live :
       /\ \A i \in 1 .. Len(slots) : slots[i].id # c.id
       /\ Slots!OwnSlots(Slots!Carried(Slots!Live), c) # {}
       => \E i \in Slots!OwnSlots(Slots!Carried(Slots!Live), c) :
            i \in 1 .. Len(t) /\ t[i].id = c.id

LEMMA FrameFolds == ASSUME SlotsInv, ~ seeding PROVE Folded(Slots!Refreshed)
<1> DEFINE cs == Slots!Live
           carried == Slots!Carried(cs)
           back == Slots!Reclaimed(carried, cs)
           t == Slots!Refreshed
<1>1. Sound(slots) /\ Pinning(pins) /\ Held(slots, pins)
  BY DEF SlotsInv, Seated
<1>2. Crowd(cs)
  BY LiveIs DEF SlotsInv
<1>3. t = Slots!Frozen(cs)
  BY Zenon DEF Slots!Refreshed
<1> HIDE DEF cs, t
<1>4. /\ Sound(t) /\ Len(slots) <= Len(t) /\ Filled(slots, t)
      /\ \A i \in 1 .. Len(slots) :
           slots[i].state = "connected" /\ slots[i].id \in {c.id : c \in cs} => t[i] = slots[i]
      /\ \A i \in 1 .. Len(slots) : back[i].state = "connected" => t[i] = back[i]
  BY Zenon, <1>1, <1>2, <1>3, FrozenIs
<1>5. /\ Sound(carried) /\ Len(carried) = Len(slots) /\ Held(carried, pins)
      /\ \A i \in 1 .. Len(carried) : carried[i].state = "connected" => carried[i] = slots[i]
  BY Zenon, <1>1, CarriedIs
<1> HIDE DEF back, carried
<1>6. ASSUME NEW c \in cs, \A i \in 1 .. Len(slots) : slots[i].id # c.id,
             Slots!OwnSlots(carried, c) # {}
      PROVE  \E i \in Slots!OwnSlots(carried, c) : i \in 1 .. Len(t) /\ t[i].id = c.id
  <2> DEFINE m == OwnSeat(carried, c)
  <2>1. \A i \in 1 .. Len(carried) : carried[i].id # c.id
    <3>1. c.id # None
      BY <1>2, SlotConstants DEF Crowd, Named, ControllerOf
    <3>2. \A i \in 1 .. Len(carried) : carried[i].id # None <=> carried[i].state = "connected"
      BY <1>5 DEF Sound
    <3> QED
      BY Zenon, <1>5, <1>6, <3>1, <3>2
  <2>2. m \in 1 .. Len(carried) /\ back[m].state = "connected" /\ back[m].id = c.id
    <3> DEFINE u == back[m]
    <3>1. c \in cs /\ Slots!OwnSlots(carried, c) # {}
      BY <1>6
    <3>2. m \in 1 .. Len(carried) /\ u.state = "connected" /\ u.id = c.id
      BY ZenonT(60), <1>1, <1>2, <1>5, <2>1, <3>1, ComesBack DEF back
    <3> QED
      BY Zenon, <3>2
  <2>3. m \in Slots!OwnSlots(carried, c)
    BY Zenon, <1>5, <1>6, OwnIs
  <2> HIDE DEF m
  <2>4. m \in 1 .. Len(slots) /\ t[m] = back[m]
    BY Zenon, <1>4, <1>5, <2>2
  <2>5. m \in 1 .. Len(t)
    BY <1>1, <1>4, <2>4 DEF Sound
  <2> QED
    BY Zenon, <2>2, <2>3, <2>4, <2>5
<1> QED
  BY Zenon, <1>4, <1>6 DEF Folded, cs, t, carried

\* As many slots are not empty, or more.
LEMMA MoreHold ==
  ASSUME NEW s, Sound(s), NEW t, Sound(t), Filled(s, t), Slots!Occupied(s) > 1
  PROVE  Slots!Occupied(t) > 1
<1> DEFINE S == {i \in DOMAIN s : s[i].state # "empty"}
           T == {i \in DOMAIN t : t[i].state # "empty"}
<1>1. DOMAIN s = 1 .. Len(s) /\ DOMAIN t = 1 .. Len(t) /\ Len(s) \in Nat /\ Len(t) \in Nat
  BY DEF Sound
<1>2. S \subseteq T
  BY Zenon, <1>1 DEF Filled
<1>3. IsFiniteSet(T)
  <2>1. IsFiniteSet(1 .. Len(t))
    BY <1>1, FS_Interval
  <2> QED
    BY <1>1, <2>1, FS_Subset
<1>4. Slots!Occupied(s) = Cardinality(S) /\ Slots!Occupied(t) = Cardinality(T)
  BY SameCount DEF Slots!Occupied
<1> HIDE DEF S, T
<1>5. Cardinality(S) <= Cardinality(T) /\ Cardinality(S) \in Nat /\ Cardinality(T) \in Nat
  BY <1>2, <1>3, FS_Subset, FS_CardinalityType
<1> QED
  BY <1>4, <1>5

\* What a slot drives does not depend on how many slots there are.
LEMMA MarkerOfSlot ==
  ASSUME NEW m \in Nat, NEW n \in Nat, NEW i \in 1 .. m, i \in 1 .. n
  PROVE  Slots!SlotMarkers(m)[i] = Slots!SlotMarkers(n)[i]
<1> DEFINE rank(j) == Slots!Cardinality((1 .. j) \ DOMAIN Slots!ValidPicks)
           drives(j) ==
             CASE j \in DOMAIN Slots!ValidPicks ->
                    IF Slots!ValidPicks[j] = 0 THEN None ELSE Slots!ValidPicks[j]
               [] j \notin DOMAIN Slots!ValidPicks /\ rank(j) <= Len(Slots!Spare) ->
                    Slots!Spare[rank(j)]
               [] OTHER -> None
<1>1. \A k : Slots!SlotMarkers(k) = [j \in 1 .. k |-> drives(j)]
  BY Zenon DEF Slots!SlotMarkers
<1> HIDE DEF drives
<1> QED
  BY <1>1

\* While the picks stand, so does the marker of a slot that somebody keeps.
LEMMA DrivesOn ==
  ASSUME Sound(slots), NEW s, Sound(s), slots' = s, Len(slots) <= Len(s), Filled(slots, s),
         picks' = picks, Slots!Occupied(slots) > 1,
         NEW i \in 1 .. Len(slots), slots[i].state = "connected", s[i].id = slots[i].id
  PROVE  Slots!Drives(i)' = Slots!Drives(i)
<1>1. Len(slots) \in Nat /\ Len(s) \in Nat /\ i \in 1 .. Len(s)
  BY DEF Sound
<1>2. s[i].state = "connected"
  BY <1>1 DEF Sound
<1>3. Slots!Occupied(s) > 1
  BY MoreHold
<1>4. Slots!Drives(i) = Slots!SlotMarkers(Len(slots))[i]
  BY <1>3 DEF Slots!Drives
<1>5. Slots!ValidPicks' = Slots!ValidPicks
  BY DEF Slots!ValidPicks
<1>6. Slots!Spare' = Slots!Spare
  BY <1>5 DEF Slots!Spare, Slots!Ordered, Slots!Range
<1>7. Slots!SlotMarkers(Len(slots))' = Slots!SlotMarkers(Len(s))
  BY <1>5, <1>6 DEF Slots!SlotMarkers
<1>8. Slots!Drives(i)' = Slots!SlotMarkers(Len(s))[i]
  BY <1>2, <1>3, <1>7 DEF Slots!Drives
<1>9. Slots!SlotMarkers(Len(slots))[i] = Slots!SlotMarkers(Len(s))[i]
  BY <1>1, MarkerOfSlot
<1> QED
  BY Zenon, <1>4, <1>8, <1>9

LEMMA FoldedStays ==
  ASSUME SlotsInv, NEW s, Folded(s), slots' = s PROVE Slots!SeatsStay
<1> DEFINE cs == Slots!Live
           O(c) == Slots!OwnSlots(Slots!Carried(Slots!Live), c)
<1>1. /\ Sound(slots) /\ Sound(s) /\ Len(slots) <= Len(s) /\ Filled(slots, s)
      /\ DOMAIN slots = 1 .. Len(slots) /\ DOMAIN s = 1 .. Len(s)
  BY DEF SlotsInv, Seated, Folded, Sound
<1>2. /\ \A i \in 1 .. Len(slots) :
           slots[i].state = "connected" /\ slots[i].id \in {c.id : c \in cs} => s[i] = slots[i]
      /\ \A c \in cs : (\A i \in 1 .. Len(slots) : slots[i].id # c.id) /\ O(c) # {}
                        => \E i \in O(c) : i \in 1 .. Len(s) /\ s[i].id = c.id
  BY DEF Folded
<1> HIDE DEF cs, O
<1>3. ASSUME NEW i \in 1 .. Len(slots), slots[i].state = "connected", s[i].id # slots[i].id
      PROVE  slots[i].id \notin {c.id : c \in cs}
  BY Zenon, <1>2, <1>3
<1>4. ASSUME NEW i \in 1 .. Len(slots), slots[i].state = "connected", s[i].id = slots[i].id,
             picks' = picks, Slots!Occupied(slots) > 1
      PROVE  Slots!Drives(i)' = Slots!Drives(i)
  BY <1>1, <1>4, DrivesOn
<1>5. ASSUME NEW c \in cs, Slots!SeatOf(slots, c.id) = {}, O(c) # {}
      PROVE  Slots!SeatOf(s, c.id) \cap O(c) # {}
  <2>1. \A i \in 1 .. Len(slots) : slots[i].id # c.id
    BY Zenon, <1>1, <1>5 DEF Slots!SeatOf
  <2>2. PICK i \in O(c) : i \in 1 .. Len(s) /\ s[i].id = c.id
    BY Zenon, <1>2, <1>5, <2>1
  <2>3. i \in Slots!SeatOf(s, c.id)
    BY Zenon, <1>1, <2>2 DEF Slots!SeatOf
  <2> QED
    BY Zenon, <2>2, <2>3
<1> QED
  BY Zenon, <1>1, <1>3, <1>4, <1>5 DEF Slots!SeatsStay, Slots!IsTaken, cs, O

\* Nobody comes, and nobody goes.
LEMMA SameSeats ==
  ASSUME SlotsInv, NEW s, Sound(s), slots' = s, Len(s) = Len(slots), Filled(slots, s),
         \A i \in 1 .. Len(slots) : s[i].id = slots[i].id
  PROVE  Slots!SeatsStay
<1>1. /\ Sound(slots) /\ DOMAIN slots = 1 .. Len(slots) /\ DOMAIN s = 1 .. Len(slots)
      /\ Len(slots) <= Len(s)
  BY DEF SlotsInv, Seated, Sound
<1>2. ASSUME NEW i \in 1 .. Len(slots), slots[i].state = "connected",
             picks' = picks, Slots!Occupied(slots) > 1
      PROVE  Slots!Drives(i)' = Slots!Drives(i)
  BY <1>1, <1>2, DrivesOn
<1>3. ASSUME NEW c PROVE Slots!SeatOf(slots, c.id) = Slots!SeatOf(s, c.id)
  BY <1>1 DEF Slots!SeatOf
<1> QED
  BY Zenon, <1>1, <1>2, <1>3 DEF Slots!SeatsStay, Slots!IsTaken

LEMMA TableStands == ASSUME SlotsInv, slots' = slots PROVE Slots!SeatsStay
<1>1. Sound(slots)
  BY DEF SlotsInv, Seated
<1>2. Filled(slots, slots)
  BY DEF Filled
<1> QED
  BY <1>1, <1>2, SameSeats

LEMMA PressStays ==
  ASSUME SlotsInv, Slots!Refresh \/ Slots!Press \/ Slots!GiveUp PROVE Slots!SeatsStay
<1>1. slots' = slots \/ slots' = Slots!Refreshed
  BY DEF Slots!Refresh, Slots!Press, Slots!GiveUp
<1>2. CASE seeding
  BY <1>2 DEF Slots!SeatsStay
<1>3. CASE ~ seeding /\ slots' = Slots!Refreshed
  <2> DEFINE s == Slots!Refreshed
  <2>1. Folded(s) /\ slots' = s
    BY <1>3, FrameFolds
  <2> HIDE DEF s
  <2> QED
    BY <2>1, FoldedStays
<1>4. CASE slots' = slots
  BY <1>4, TableStands
<1> QED
  BY <1>1, <1>2, <1>3, <1>4

\* Who pressed holds no slot any more, or has no socket.
LEMMA CaptureStays == ASSUME SlotsInv, Slots!EndCapture PROVE Slots!SeatsStay
<1> DEFINE s == Slots!Refreshed
           id == capture.pressed
<1>1. CASE seeding \/ Slots!CanPin(s, id)
  BY <1>1 DEF Slots!SeatsStay, Slots!PinsHere
<1>2. CASE ~ seeding /\ ~ Slots!CanPin(s, id)
  <2> DEFINE t == [slots |-> s, pins |-> pins]
  <2>1. slots' = Slots!Pinned(t, capture.slot, id).slots
    BY DEF Slots!EndCapture, Slots!Become
  <2>2. t.slots = s
    OBVIOUS
  <2>3. Folded(s)
    BY <1>2, FrameFolds
  <2> HIDE DEF s, t, id
  <2>4. Slots!Pinned(t, capture.slot, id) = t
    BY Zenon, <1>2, <2>2 DEF Slots!Pinned
  <2>5. slots' = s
    BY <2>1, <2>2, <2>4
  <2> QED
    BY <2>3, <2>5, FoldedStays
<1> QED
  BY <1>1, <1>2

LEMMA ClickStays == ASSUME SlotsInv, Slots!Act PROVE Slots!SeatsStay
<1> DEFINE i == Head(clicks).slot
           shown == i \in DOMAIN slots /\ Slots!Ref(slots[i]) = Head(clicks).ref
           forget == Head(clicks).do = "forget" /\ shown /\ slots[i].state = "missing"
           unpin == Head(clicks).do = "unpin" /\ shown /\ i \in DOMAIN pins
           u == Slots!Unpinned(Slots!Now, {i})
<1>1. IF forget THEN slots' = [slots EXCEPT ![i].state = "reserved"] /\ pins' = pins
      ELSE IF unpin THEN slots' = u.slots /\ pins' = u.pins ELSE slots' = slots /\ pins' = pins
  BY DEF Slots!Act, Slots!Become
<1>2. Sound(slots) /\ DOMAIN slots = 1 .. Len(slots) /\ Len(slots) \in Nat
  BY DEF SlotsInv, Seated, Sound
<1>3. shown => i \in 1 .. Len(slots)
  BY <1>2
<1> HIDE DEF i, shown
<1>4. CASE forget
  <2> DEFINE t == [slots EXCEPT ![i].state = "reserved"]
  <2>1. slots' = t
    BY <1>1, <1>4
  <2>2. Sound(t)
    BY <1>2, <1>3, <1>4, ForgottenIs
  <2>3. /\ Len(t) = Len(slots) /\ \A k \in 1 .. Len(slots) : k # i => t[k] = slots[k]
        /\ t[i] = [slots[i] EXCEPT !.state = "reserved"] /\ slots[i] \in SlotOf
    BY <1>2, <1>3, <1>4 DEF Sound
  <2> HIDE DEF t
  <2>4. t[i].id = slots[i].id /\ t[i].state = "reserved"
    BY <2>3 DEF SlotOf
  <2>5. Filled(slots, t) /\ \A k \in 1 .. Len(slots) : t[k].id = slots[k].id
    BY <2>3, <2>4 DEF Filled
  <2> QED
    BY <2>1, <2>2, <2>3, <2>5, SameSeats
<1>5. CASE ~ forget /\ unpin
  <2>1. pins' = u.pins /\ i \in DOMAIN pins
    BY <1>1, <1>5
  <2>2. DOMAIN u.pins = DOMAIN pins \ {i}
    BY DEF Slots!Unpinned, Slots!Now
  <2>3. pins' # pins
    BY <2>1, <2>2
  <2> QED
    BY <2>3 DEF Slots!SeatsStay
<1>6. CASE ~ forget /\ ~ unpin
  <2>1. slots' = slots
    BY <1>1, <1>6
  <2> QED
    BY <2>1, TableStands
<1> QED
  BY <1>4, <1>5, <1>6

LEMMA SeatsStep == ASSUME SlotsInv, [Slots!Next]_(Slots!vars) PROVE Slots!SeatsStay
<1>1. CASE UNCHANGED Slots!vars
  <2>1. slots' = slots
    BY <1>1 DEF Slots!vars, Slots!table
  <2> QED
    BY <2>1, TableStands
<1>2. CASE \/ \E d \in Devices : Slots!Plug(d)
           \/ \E c \in attached : Slots!Unplug(c)
           \/ \E kind \in Slots!KindSet : Slots!Switch(kind)
           \/ \E i \in DOMAIN slots :
                \/ \E do \in {"forget", "pin", "unpin"} : Slots!Click(do, i, None)
                \/ \E m \in Slots!Range(Controlled) : Slots!Click("marker", i, m)
  <2>1. slots' = slots
    BY <1>2 DEF Slots!Plug, Slots!Unplug, Slots!Switch, Slots!Click, Slots!table
  <2> QED
    BY <2>1, TableStands
<1>3. ASSUME NEW new \in Edits, Slots!Reload(new) PROVE Slots!SeatsStay
  BY <1>3 DEF Slots!Reload, Slots!SeatsStay
<1>4. Slots!Refresh \/ Slots!Act \/ Slots!Press \/ Slots!EndCapture \/ Slots!GiveUp
      => Slots!SeatsStay
  BY PressStays, CaptureStays, ClickStays
<1> QED
  BY Zenon, <1>1, <1>2, <1>3, <1>4 DEF Slots!Next

\* The controllers' slots: whatever comes, goes, is forgotten or switched off,
\* nobody who stays moves, nor loses the marker, but by a pin.
THEOREM SeatsAreKept == SafetySpec => SeatsKept
<1> DEFINE I == subject = "slots" => SlotsInv
<1>1. I /\ [SafetyNext]_<<subject, output, controllers>> => [Slots!SeatsStay]_(Slots!vars)
  <2> SUFFICES ASSUME I, [SafetyNext]_<<subject, output, controllers>>, Slots!vars' # Slots!vars
               PROVE  Slots!SeatsStay
    BY Zenon
  <2>1. controllers' # controllers
    BY DEF controllers, Slots!vars, Slots!table
  <2>2. subject = "slots" /\ Slots!Next
    BY Zenon, <2>1 DEF SafetyNext
  <2> QED
    BY Zenon, <2>2, SeatsStep
<1> QED
  BY <1>1, SlotsInvariant, PTL DEF SafetySpec, SeatsKept, Slots!SeatsKept

=============================================================================
