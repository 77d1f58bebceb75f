----------------------------- MODULE PsnOutput -----------------------------
(***************************************************************************)
(* The PSN output of psn/server.py: a multicast socket, two send threads   *)
(* (data and info packets), a thread that retries a socket which did not   *)
(* open at the start and one that recovers a socket whose interface went   *)
(* away, and the main loop that starts, stops and rebinds all of them.     *)
(* otp/server.py is built the same way.                                    *)
(*                                                                         *)
(* Every start makes a generation with a stop event of its own.  stop()    *)
(* waits for threads only so long: one that hangs in an open or a send     *)
(* outlives it and finds the next generation running.                      *)
(*                                                                         *)
(* An address stands for what a socket is opened with: interface, source   *)
(* address and group.  It works while it is up.  Packets are not modelled, *)
(* nor is unicast output, which has no socket to recover.                  *)
(***************************************************************************)
EXTENDS Naturals, FiniteSets

CONSTANTS
  Streams,      \* the data and the info packets: one send thread each
  Addrs,        \* what a socket can be opened with
  Sockets,      \* names for sockets
  Threads,      \* names for the retry and recovery threads
  MaxRetries,   \* _MAX_SOCKET_RETRIES
  MaxStarts,    \* bound: starts of the output
  MaxFlaps,     \* bound: changes of the set of addresses that are up
  None

Starts == 1..MaxStarts

ThreadRecords ==
  [gen: Starts, kind: {"retry", "recover"}, tries: 0..MaxRetries,
   pc: {"new", "wait", "opening", "opened", "done"},
   addr: Addrs \cup {None}, sock: Sockets \cup {None}]

ASSUME PsnOutputAssumption ==
  /\ MaxRetries \in Nat \ {0, 1} /\ MaxStarts \in Nat /\ MaxFlaps \in Nat
  /\ None \notin Addrs \cup Sockets \cup Threads \cup ThreadRecords

VARIABLES
  main,       \* the main loop: where it is in start, stop or rebind
  target,     \* the address rebind was called with, or None
  mine,       \* the sockets main has opened or is about to close
  gen,        \* the generation self._stop_event belongs to, 0 before a start
  stopped,    \* the generations whose stop event is set
  running,    \* _data_thread is not None
  source,     \* _source_ip and _source_iface
  socket,     \* _socket
  stack,      \* the sockets _exit_stack closes
  fds,        \* the address every open socket was opened with
  threads,    \* the retry and recovery threads that have not ended
  pointer,    \* _socket_thread; one that ended counts as None
  senders,    \* the send threads of every generation
  up,         \* the addresses that work
  flaps,      \* how often up has changed
  connected   \* history: the generations that had a socket

callers == <<main, target, mine>>
signals == <<gen, stopped, running>>
shared == <<source, socket, stack, connected>>
world == <<up, flaps>>
vars == <<callers, signals, shared, fds, threads, pointer, senders, world>>

-----------------------------------------------------------------------------
Thread(g, kind, tries, pc) ==
  [gen |-> g, kind |-> kind, tries |-> tries, pc |-> pc, addr |-> None, sock |-> None]

Live(k) == threads[k] # None
Ended == [pc |-> "ended", old |-> {}]

\* _lock is held across steps only by a send thread in _handle_send_error.
LockFree == \A g \in Starts, x \in Streams : senders[g][x].pc \notin {"checked", "spawned"}

\* A thread that returns.
End(k) ==
  /\ threads' = [threads EXCEPT ![k] = None]
  /\ pointer' = IF pointer = k THEN None ELSE pointer

\* self._exit_stack.push(staging.pop_all()) with self._socket = opened
Adopt(s, g) ==
  /\ socket' = s
  /\ stack' = stack \cup {s}
  /\ connected' = connected \cup {g}
  /\ UNCHANGED source

Close(S) == fds' = [s \in Sockets |-> IF s \in S THEN None ELSE fds[s]]

-----------------------------------------------------------------------------
(* The main loop.                                                          *)

\* start(): a stop event and an exit stack of its own.
Start ==
  /\ main \in {"idle", "restart"}
  /\ main = "idle" => gen = 0
  /\ gen < MaxStarts
  /\ gen' = gen + 1
  /\ stack' = {}
  /\ main' = "open"
  /\ UNCHANGED <<target, mine, stopped, running, source, socket, connected, fds,
                 threads, pointer, senders, world>>

\* The first attempt, off the lock.  Where it fails a retry thread takes over.
Open ==
  /\ main = "open"
  /\ \/ /\ source \in up
        /\ \E s \in Sockets :
             /\ fds[s] = None
             /\ fds' = [fds EXCEPT ![s] = source]
             /\ mine' = {s}
        /\ main' = "opened"
        /\ UNCHANGED <<threads, pointer>>
     \/ /\ source \notin up
        /\ \E k \in Threads :
             /\ ~Live(k)
             /\ threads' = [threads EXCEPT ![k] = Thread(gen, "retry", 1, "wait")]
             /\ pointer' = k
        /\ main' = "launch"
        /\ UNCHANGED <<fds, mine>>
  /\ UNCHANGED <<target, signals, shared, senders, world>>

HandOver ==
  /\ main = "opened"
  /\ LockFree
  /\ \E s \in mine : Adopt(s, gen)
  /\ mine' = {}
  /\ main' = "launch"
  /\ UNCHANGED <<target, signals, fds, threads, pointer, senders, world>>

\* The send threads start, and start() is done.
Launch ==
  /\ main = "launch"
  /\ running' = TRUE
  /\ senders' = [senders EXCEPT ![gen] = [x \in Streams |-> [pc |-> "loop", old |-> {}]]]
  /\ main' = IF target = None THEN "idle" ELSE "verify"
  /\ UNCHANGED <<target, mine, gen, stopped, shared, fds, threads, pointer, world>>

\* rebind() wants a socket at once: without one it stops the output and raises.
Verify ==
  /\ main = "verify"
  /\ target' = None
  /\ main' = IF socket = None THEN "signal" ELSE "idle"
  /\ UNCHANGED <<mine, signals, shared, fds, threads, pointer, senders, world>>

\* stop() and rebind(a) are called by the main loop, one at a time.
Stop ==
  /\ main = "idle"
  /\ main' = "signal"
  /\ UNCHANGED <<target, mine, signals, shared, fds, threads, pointer, senders, world>>

Rebind(a) ==
  /\ main = "idle"
  /\ gen < MaxStarts
  /\ target' = a
  /\ main' = "signal"
  /\ UNCHANGED <<mine, signals, shared, fds, threads, pointer, senders, world>>

Signal ==
  /\ main = "signal"
  /\ stopped' = stopped \cup {gen}
  /\ main' = "join"
  /\ UNCHANGED <<target, mine, gen, running, shared, fds, threads, pointer, senders, world>>

\* The socket thread is waited for, in vain while it hangs in an open.
JoinSocketThread ==
  /\ main = "join"
  /\ pointer # None => threads[pointer].pc \in {"opening", "opened"}
  /\ pointer' = None
  /\ main' = "drain"
  /\ UNCHANGED <<target, mine, signals, shared, fds, threads, senders, world>>

\* join() of a thread that was made but not started raises out of stop().
JoinRaises ==
  /\ main = "join"
  /\ pointer # None
  /\ threads[pointer].pc = "new"
  /\ target' = None
  /\ main' = "idle"
  /\ UNCHANGED <<mine, signals, shared, fds, threads, pointer, senders, world>>

\* So are the send threads, in vain while they hang in a frame.
JoinSenders ==
  /\ main = "drain"
  /\ gen # 0 => \A x \in Streams : senders[gen][x].pc # "loop"
  /\ running' = FALSE
  /\ main' = "teardown"
  /\ UNCHANGED <<target, mine, gen, stopped, shared, fds, threads, pointer, senders, world>>

Teardown ==
  /\ main = "teardown"
  /\ LockFree
  /\ socket' = None
  /\ mine' = stack
  /\ stack' = {}
  /\ main' = "close"
  /\ UNCHANGED <<target, signals, source, connected, fds, threads, pointer, senders, world>>

\* stack.close(); rebind() goes on with the new address.
CloseStack ==
  /\ main = "close"
  /\ Close(mine)
  /\ mine' = {}
  /\ IF target = None
     THEN main' = "idle" /\ UNCHANGED source
     ELSE main' = "restart" /\ source' = target
  /\ UNCHANGED <<target, signals, socket, stack, connected, threads, pointer, senders, world>>

-----------------------------------------------------------------------------
(* The retry and recovery threads.                                         *)

\* stop.wait(_SOCKET_RETRY_DELAY), and the address the attempt is made with.
Wake(k) ==
  /\ Live(k)
  /\ threads[k].pc = "wait"
  /\ IF threads[k].gen \in stopped
     THEN End(k)
     ELSE /\ threads' = [threads EXCEPT ![k].pc = "opening", ![k].addr = source,
                                        ![k].tries = IF threads[k].kind = "retry" THEN @ + 1 ELSE @]
          /\ UNCHANGED pointer
  /\ UNCHANGED <<callers, signals, shared, fds, senders, world>>

\* A retry is bounded, a recovery goes on until it is stopped.
MayTryAgain(t) == t.kind = "recover" \/ t.tries < MaxRetries

OpenAgain(k) ==
  /\ Live(k)
  /\ threads[k].pc = "opening"
  /\ \/ /\ threads[k].addr \in up
        /\ \E s \in Sockets :
             /\ fds[s] = None
             /\ fds' = [fds EXCEPT ![s] = threads[k].addr]
             /\ threads' = [threads EXCEPT ![k].pc = "opened", ![k].sock = s]
        /\ UNCHANGED pointer
     \/ /\ threads[k].addr \notin up
        /\ IF MayTryAgain(threads[k])
           THEN /\ threads' = [threads EXCEPT ![k].pc = "wait", ![k].addr = None]
                /\ UNCHANGED pointer
           ELSE End(k)
        /\ UNCHANGED fds
  /\ UNCHANGED <<callers, signals, shared, senders, world>>

\* Mutant of Superseded: the live event is asked.
SupersededLive(k) == gen \in stopped /\ Live(k)

\* self._resolve_stop(stop_event).is_set(): the thread's own event.
Superseded(k) == threads[k].gen \in stopped

\* Under the lock the socket is handed over, or closed if its generation is.
Deliver(k) ==
  /\ Live(k) /\ threads[k].pc = "opened" /\ LockFree
  /\ IF Superseded(k)
     THEN /\ Close({threads[k].sock})
          /\ End(k)
          /\ UNCHANGED shared
     ELSE /\ Adopt(threads[k].sock, threads[k].gen)
          /\ threads' = [threads EXCEPT ![k].pc = "done", ![k].sock = None]
          /\ UNCHANGED <<fds, pointer>>
  /\ UNCHANGED <<callers, signals, senders, world>>

\* A thread that has delivered is alive until it returns.
Return(k) ==
  /\ Live(k) /\ threads[k].pc = "done"
  /\ End(k)
  /\ UNCHANGED <<callers, signals, shared, fds, senders, world>>

-----------------------------------------------------------------------------
(* The send threads.                                                       *)

At(g, x, pc) == senders[g][x].pc = pc
Goto(g, x, pc) == senders' = [senders EXCEPT ![g][x].pc = pc]

\* while not stop.is_set()
Loop(g, x) ==
  /\ At(g, x, "loop")
  /\ Goto(g, x, IF g \in stopped THEN "ended" ELSE "frame")
  /\ UNCHANGED <<callers, signals, shared, fds, threads, pointer, world>>

\* _send: a socket whose address went down fails with a transient error.  One
\* that was closed meanwhile fails for good, and that is left alone.
Send(g, x) ==
  /\ At(g, x, "frame")
  /\ Goto(g, x, IF socket # None /\ fds[socket] # None /\ fds[socket] \notin up
                THEN "failed" ELSE "loop")
  /\ UNCHANGED <<callers, signals, shared, fds, threads, pointer, world>>

\* Mutants of MustRecover: any generation's failure counts; the socket thread is
\* not asked.
MustRecoverAnyGen(g) == pointer = None /\ g # 0
MustRecoverTwice(g) == g \notin stopped

\* The checks of _handle_send_error under the lock.
MustRecover(g) == g \notin stopped /\ pointer = None

CheckError(g, x) ==
  /\ At(g, x, "failed")
  /\ LockFree
  /\ Goto(g, x, IF MustRecover(g) THEN "checked" ELSE "loop")
  /\ UNCHANGED <<callers, signals, shared, fds, threads, pointer, world>>

\* The broken socket is taken out and the recovery thread made.
MakeRecovery(g, x) ==
  /\ At(g, x, "checked")
  /\ senders' = [senders EXCEPT ![g][x] = [pc |-> "spawned", old |-> stack]]
  /\ socket' = None
  /\ stack' = {}
  /\ \E k \in Threads :
       /\ ~Live(k)
       /\ threads' = [threads EXCEPT ![k] = Thread(g, "recover", 0, "new")]
       /\ pointer' = k
  /\ UNCHANGED <<callers, signals, source, connected, fds, world>>

\* It starts, and the lock is released.
StartRecovery(g, x) ==
  /\ At(g, x, "spawned")
  /\ Goto(g, x, "closing")
  /\ threads' = [k \in Threads |->
                   IF Live(k) /\ threads[k].pc = "new" THEN [threads[k] EXCEPT !.pc = "wait"]
                                                       ELSE threads[k]]
  /\ UNCHANGED <<callers, signals, shared, fds, pointer, world>>

CloseOld(g, x) ==
  /\ At(g, x, "closing")
  /\ senders' = [senders EXCEPT ![g][x] = [pc |-> "loop", old |-> {}]]
  /\ Close(senders[g][x].old)
  /\ UNCHANGED <<callers, signals, shared, threads, pointer, world>>

-----------------------------------------------------------------------------
\* A cable, a lease or nmcli: an address comes up or goes down.
Flap ==
  /\ flaps < MaxFlaps
  /\ flaps' = flaps + 1
  /\ \E a \in Addrs : up' = IF a \in up THEN up \ {a} ELSE up \cup {a}
  /\ UNCHANGED <<callers, signals, shared, fds, threads, pointer, senders>>

Init ==
  /\ main = "idle" /\ target = None /\ mine = {}
  /\ gen = 0 /\ stopped = {} /\ running = FALSE
  /\ source \in Addrs
  /\ socket = None /\ stack = {} /\ connected = {}
  /\ fds = [s \in Sockets |-> None]
  /\ threads = [k \in Threads |-> None]
  /\ pointer = None
  /\ senders = [g \in Starts |-> [x \in Streams |-> Ended]]
  /\ up \in SUBSET Addrs
  /\ flaps = 0

Call == Stop \/ \E a \in Addrs : Rebind(a)
MainStep == \/ Open \/ HandOver \/ Launch \/ Verify
            \/ Signal \/ JoinSocketThread \/ JoinRaises \/ JoinSenders
            \/ Teardown \/ CloseStack
ThreadStep(k) == Wake(k) \/ OpenAgain(k) \/ Deliver(k) \/ Return(k)
SenderStep(g, x) == \/ Loop(g, x) \/ Send(g, x) \/ CheckError(g, x)
                    \/ MakeRecovery(g, x) \/ StartRecovery(g, x) \/ CloseOld(g, x)

Next ==
  \/ Start \/ Call \/ MainStep
  \/ \E k \in Threads : ThreadStep(k)
  \/ \E g \in Starts, x \in Streams : SenderStep(g, x)
  \/ Flap

Spec == Init /\ [][Next]_vars

\* Threads that can run do, waits end, and no open or send hangs for ever.
Fairness ==
  /\ WF_vars(MainStep)
  /\ WF_vars(main = "restart" /\ Start)
  /\ \A k \in Threads : WF_vars(ThreadStep(k))
  /\ \A g \in Starts, x \in Streams :
       WF_vars(SenderStep(g, x)) /\ SF_vars(CheckError(g, x))

FairSpec == Spec /\ Fairness

-----------------------------------------------------------------------------
TypeOK ==
  /\ main \in {"idle", "restart", "open", "opened", "launch", "verify", "signal",
               "join", "drain", "teardown", "close"}
  /\ target \in Addrs \cup {None}
  /\ mine \subseteq Sockets
  /\ gen \in 0..MaxStarts
  /\ stopped \subseteq 0..MaxStarts
  /\ running \in BOOLEAN
  /\ source \in Addrs
  /\ socket \in Sockets \cup {None}
  /\ stack \subseteq Sockets
  /\ fds \in [Sockets -> Addrs \cup {None}]
  /\ threads \in [Threads -> ThreadRecords \cup {None}]
  /\ pointer \in Threads \cup {None}
  /\ senders \in [Starts -> [Streams ->
       [pc: {"loop", "frame", "failed", "checked", "spawned", "closing", "ended"},
        old: SUBSET Sockets]]]
  /\ up \subseteq Addrs
  /\ flaps \in 0..MaxFlaps
  /\ connected \subseteq Starts

\* bound_source_ip()
Bound == IF gen \in stopped \/ ~running THEN None ELSE source

\* The output sends through an open socket on the address it was last bound to:
\* no thread that outlived a stop hands over one opened before the rebind.
SocketOnSource ==
  socket # None => socket \in stack /\ fds[socket] = source

\* Every open socket has an owner that will close it: the exit stack, the thread
\* that has just opened it, or whoever is closing an old stack.
NoLeak ==
  \A s \in Sockets : fds[s] # None =>
    \/ s \in stack \cup mine
    \/ \E k \in Threads : Live(k) /\ threads[k].sock = s
    \/ \E g \in Starts, x \in Streams : s \in senders[g][x].old

\* However the two streams fail, one thread at most opens sockets for a
\* generation that is not stopped.
OneOpener ==
  Cardinality({k \in Threads : /\ Live(k)
                               /\ threads[k].gen \notin stopped
                               /\ threads[k].pc # "done"}) <= 1

\* No socket is left open, and no two threads open one at once.
SocketsAccounted == NoLeak /\ OneOpener

\* A generation that once had a socket, and is left alone on an address that stays
\* up, has one in the end, whatever failed before and in whatever order.
Recovers ==
  <>[](main = "idle" /\ Bound # None /\ source \in up /\ gen \in connected)
    => <>[](socket # None /\ fds[socket] \in up)

=============================================================================
