----------------------------- MODULE OscClients -----------------------------
(***************************************************************************)
(* The clients OSC leaves by (osc/service.py, osc/transport.py), pinned to *)
(* the interface of their destination (osc/egress.py, net_egress.py).  The *)
(* transmitter's scheduler, the zone engine and the web's test sends share *)
(* one client per egress; a client is made outside the cache's lock, a TCP *)
(* one connects on its first send and again after a failure.  The app loop *)
(* restages the egress table when the operator moves the destination to    *)
(* another interface, and the observer's poll marks the interface in use,  *)
(* dropping the clients of what went away.                                 *)
(*                                                                         *)
(* A client is a number; the lowest one free is taken, and one that leaked *)
(* is not followed further.  One destination.                              *)
(***************************************************************************)
EXTENDS Naturals, FiniteSets, FiniteSetsExt

CONSTANTS
  Threads,    \* threads that send
  Ifaces,     \* interfaces the destination may be pinned to
  Addrs,      \* addresses an interface may get
  MaxClients, \* bound: clients alive at once
  MaxFlaps,   \* bound: changes of an interface's address
  MaxEdits,   \* bound: moves of the destination to another interface
  MaxBreaks,  \* bound: failures that are not the interface's
  None

Egresses == Ifaces \X Addrs
Clients == 1 .. MaxClients

ASSUME OscClientsAssumption ==
  /\ {MaxClients, MaxFlaps, MaxEdits, MaxBreaks} \subseteq Nat
  /\ Ifaces # {}
  /\ None \notin Addrs \cup Ifaces \cup Egresses

VARIABLES
  proto,    \* the destination's protocol, udp or tcp
  link,     \* the interfaces' addresses
  staged,   \* OscEgressTable: the interface in use and the address it leaves from
  poll,     \* the interface marked, its clients not dropped yet, or None
  cache,    \* OscService._cache
  client,   \* per client: its egress or None, its socket, its backoff
  at,       \* where a thread is in send()
  has,      \* the egress a thread has, and the client
  closing,  \* clients on their way to be closed
  waiting,  \* _create_retry_at: egresses whose next attempt is not due
  flaps, edits, breaks,
  dropped,  \* ghost: threads whose egress was dropped while they made its client
  marks     \* ghost: clients by what befell them

bounds == <<flaps, edits, breaks>>
world == <<proto, link>>
ghosts == <<dropped, marks>>
vars == <<world, staged, poll, cache, client, at, has, closing, waiting, bounds, ghosts>>

Free == [egress |-> None, sock |-> FALSE, backoff |-> FALSE]
Nothing == [egress |-> None, client |-> 0]

Unmarked(c) == [m \in DOMAIN marks |-> marks[m] \ {c}]

\* Every staged interface that currently has an address.
Live == IF staged.addr = None THEN {} ELSE {<<staged.iface, staged.addr>>}

Held(c) == \E t \in Threads : has[t].client = c
Cached(c) == \E e \in Egresses : cache[e] = c

-----------------------------------------------------------------------------
(* OscService.send on any thread.                                          *)

\* for_destination, at every send: None, so no send, while it is down.
ForDestination(t) == IF t \in Threads THEN Live ELSE {}

Back(t) ==
  /\ at' = [at EXCEPT ![t] = "idle"] /\ has' = [has EXCEPT ![t] = Nothing]

Fire(t) ==
  /\ at[t] = "idle"
  /\ \E e \in ForDestination(t) :
       IF cache[e] # 0
       THEN /\ at' = [at EXCEPT ![t] = "send"]
            /\ has' = [has EXCEPT ![t] = [egress |-> e, client |-> cache[e]]]
       ELSE /\ e \notin waiting
            /\ at' = [at EXCEPT ![t] = "make"]
            /\ has' = [has EXCEPT ![t] = [egress |-> e, client |-> 0]]
  /\ UNCHANGED <<world, staged, poll, cache, client, closing, waiting, bounds, ghosts>>

Break == breaks < MaxBreaks /\ breaks' = breaks + 1

\* _make_client: a datagram socket is bound to the address, so it needs it;
\* a TCP sender opens nothing yet.
Make(t) ==
  LET e == has[t].egress
      unused == {c \in Clients : client[c] = Free \/ (c \in marks.reopened /\ ~Held(c) /\ ~Cached(c))}
  IN
  /\ at[t] = "make"
  /\ \/ /\ unused # {} /\ (proto = "tcp" \/ link[e[1]] = e[2])
        /\ LET c == Min(unused) IN
           /\ client' = [client EXCEPT ![c] = [egress |-> e, sock |-> proto = "udp", backoff |-> FALSE]]
           /\ has' = [has EXCEPT ![t].client = c]
           /\ marks' = Unmarked(c)
        /\ at' = [at EXCEPT ![t] = "made"]
        /\ UNCHANGED <<waiting, breaks, dropped>>
     \/ /\ proto = "udp"
        /\ IF link[e[1]] = e[2] THEN Break ELSE UNCHANGED breaks
        /\ waiting' = waiting \cup {e}
        /\ Back(t) /\ dropped' = dropped \ {t}
        /\ UNCHANGED <<client, marks>>
  /\ UNCHANGED <<world, staged, poll, cache, closing, flaps, edits>>

\* Mutant: the client made last is the one cached.
InsertedOver(t) ==
  /\ cache' = [cache EXCEPT ![has[t].egress] = has[t].client]
  /\ UNCHANGED <<has, client>>

\* Back under the lock: another thread's client wins and this one is closed.
Inserted(t) ==
  LET e == has[t].egress IN
  IF cache[e] # 0
  THEN /\ client' = [client EXCEPT ![has[t].client] = Free]
       /\ has' = [has EXCEPT ![t].client = cache[e]]
       /\ UNCHANGED cache
  ELSE /\ cache' = [cache EXCEPT ![e] = has[t].client]
       /\ UNCHANGED <<has, client>>

Insert(t) ==
  /\ at[t] = "made" /\ Inserted(t)
  /\ at' = [at EXCEPT ![t] = "send"]
  /\ marks' = IF cache[has[t].egress] # 0 THEN Unmarked(has[t].client)
              ELSE IF t \in dropped THEN [marks EXCEPT !.late = @ \cup {has[t].client}]
              ELSE marks
  /\ dropped' = dropped \ {t}
  /\ UNCHANGED <<world, staged, poll, closing, waiting, bounds>>

\* TcpOscSender._open, of a sender that may have been closed meanwhile.
Reopened(c) ==
  marks' = IF c \in marks.closed THEN [marks EXCEPT !.reopened = @ \cup {c}] ELSE marks

\* A closed client goes with the last thread that has it.
Released(c, t, now) ==
  IF now.sock \/ Cached(c) \/ c \in closing \/ \E u \in Threads \ {t} : has[u].client = c
  THEN now ELSE Free

\* _mark_failed: the connection goes and the next attempt waits.
MarkedFailed(now) == [now EXCEPT !.sock = FALSE, !.backoff = TRUE]

Reachable(c) == link[client[c].egress[1]] = client[c].egress[2]

\* send_message under the sender's lock: connect when there is no connection
\* and no backoff, then write.  Either may fail; a closed socket always does.
Send(t) ==
  LET c == has[t].client
      now == client[c]
      opens == proto = "tcp" /\ ~now.sock /\ ~now.backoff
      Becomes(new) == client' = [client EXCEPT ![c] = Released(c, t, new)]
  IN
  /\ at[t] = "send" /\ Back(t)
  /\ \/ /\ now.sock \/ opens
        /\ Reachable(c)
        /\ Becomes([now EXCEPT !.sock = TRUE])
        /\ IF opens THEN Reopened(c) ELSE UNCHANGED marks
        /\ UNCHANGED breaks
     \/ /\ now.sock \/ opens
        /\ IF Reachable(c) THEN Break ELSE UNCHANGED breaks
        /\ Becomes(IF proto = "tcp" THEN MarkedFailed(now) ELSE now)
        /\ UNCHANGED marks
     \/ /\ ~now.sock /\ ~opens
        /\ Becomes(now)
        /\ UNCHANGED <<breaks, marks>>
  /\ UNCHANGED <<world, staged, poll, cache, closing, waiting, flaps, edits, dropped>>

\* Mutant: a client that could not be made is never tried again.
ElapseOfBackoff ==
  /\ \E c \in Clients : client[c].backoff
  /\ client' = [c \in Clients |-> [client[c] EXCEPT !.backoff = FALSE]]
  /\ UNCHANGED <<world, staged, poll, cache, at, has, closing, waiting, bounds, ghosts>>

\* Time: _CREATE_RETRY_S and the backoff pass.
Elapse ==
  /\ waiting # {} \/ \E c \in Clients : client[c].backoff
  /\ waiting' = {}
  /\ client' = [c \in Clients |-> [client[c] EXCEPT !.backoff = FALSE]]
  /\ UNCHANGED <<world, staged, poll, cache, at, has, closing, bounds, ghosts>>

-----------------------------------------------------------------------------
(* Dropping clients.                                                       *)

\* Mutant: the clients stay in the cache until they are closed.
DropLater(gone) ==
  /\ closing' = closing \cup {cache[e] : e \in {g \in gone : cache[g] # 0}}
  /\ waiting' = waiting \ gone
  /\ UNCHANGED <<cache, dropped, marks>>

\* _drop_pinned; the clients are closed in the background.
Drop(gone) ==
  /\ cache' = [e \in Egresses |-> IF e \in gone THEN 0 ELSE cache[e]]
  /\ closing' = closing \cup {cache[e] : e \in {g \in gone : cache[g] # 0}}
  /\ waiting' = waiting \ gone
  /\ dropped' = dropped \cup {t \in Threads : at[t] \in {"make", "made"} /\ has[t].egress \in gone}
  /\ UNCHANGED marks

\* _close_client: a send under way is waited for; one that has the client
\* and not yet its lock goes on with it afterwards.
Close(c) ==
  /\ c \in closing
  /\ closing' = closing \ {c}
  /\ client' = [client EXCEPT ![c] = IF Held(c) THEN [@ EXCEPT !.sock = FALSE] ELSE Free]
  /\ marks' = IF Held(c) THEN [marks EXCEPT !.closed = @ \cup {c}] ELSE Unmarked(c)
  /\ UNCHANGED <<world, staged, poll, cache, at, has, waiting, bounds, dropped>>

\* retain_egress
Retain(live) == Drop(Egresses \ live)

\* _restage_osc_egress: the destination moves to another interface.
Restage ==
  /\ edits < MaxEdits /\ edits' = edits + 1
  /\ poll = None
  /\ \E i \in Ifaces \ {staged.iface} :
       /\ staged' = [iface |-> i, addr |-> link[i]]
       /\ Retain(IF link[i] = None THEN {} ELSE {<<i, link[i]>>})
  /\ UNCHANGED <<world, poll, client, at, has, flaps, breaks>>

\* The observer's poll finds another address, or none: mark, then evict.
\* Both apply and suspend do; the outage it saw makes it evict at the same
\* address too.
Mark ==
  /\ poll = None
  /\ staged.addr # link[staged.iface]
  /\ staged' = [staged EXCEPT !.addr = link[staged.iface]]
  /\ poll' = staged.iface
  /\ UNCHANGED <<world, cache, client, at, has, closing, waiting, bounds, ghosts>>

\* Mutant: only the clients of the address that is marked go.
OfAddress(i) == {<<i, staged.addr>>} \cap Egresses

\* evict_egress: every client pinned to the interface, at any address.
OfIface(i) == {e \in Egresses : e[1] = i}

Evict ==
  /\ poll # None
  /\ Drop(OfIface(poll))
  /\ poll' = None
  /\ UNCHANGED <<world, staged, client, at, has, bounds>>

\* The interface loses its address or gets one.  An outage lasts longer than
\* a bound client takes to be cached and sent by; one of the interface in
\* use, as long as the DOWN_POLLS the observer waits for.
Flap(i) ==
  /\ flaps < MaxFlaps /\ flaps' = flaps + 1
  /\ i = staged.iface => poll = None /\ staged.addr = link[i]
  /\ \E a \in (Addrs \cup {None}) \ {link[i]} :
       /\ a = None \/ \A t \in Threads : at[t] \in {"made", "send"} => has[t].egress[1] # i
       /\ link' = [link EXCEPT ![i] = a]
  /\ marks' = [marks EXCEPT !.stale = @ \cup
                 {c \in Clients : client[c] # Free /\ client[c].sock /\ client[c].egress[1] = i}]
  /\ UNCHANGED <<proto, staged, poll, cache, client, at, has, closing, waiting,
                 edits, breaks, dropped>>

-----------------------------------------------------------------------------
Init ==
  /\ proto \in {"udp", "tcp"}
  /\ LET i == CHOOSE j \in Ifaces : TRUE IN
       \E a \in Addrs : link = [j \in Ifaces |-> a] /\ staged = [iface |-> i, addr |-> a]
  /\ poll = None
  /\ cache = [e \in Egresses |-> 0]
  /\ client = [c \in Clients |-> Free]
  /\ at = [t \in Threads |-> "idle"] /\ has = [t \in Threads |-> Nothing]
  /\ closing = {} /\ waiting = {}
  /\ flaps = 0 /\ edits = 0 /\ breaks = 0
  /\ dropped = {} /\ marks = [m \in {"late", "closed", "reopened", "stale"} |-> {}]

Sending(t) == Fire(t) \/ Make(t) \/ Insert(t) \/ Send(t)

Next ==
  \/ \E t \in Threads : Sending(t)
  \/ \E c \in Clients : Close(c)
  \/ Elapse \/ Restage \/ Mark \/ Evict \/ \E i \in Ifaces : Flap(i)

Spec == Init /\ [][Next]_vars

\* The threads keep sending, the poll keeps polling and time passes.
FairSpec ==
  /\ Spec /\ WF_vars(Mark) /\ WF_vars(Evict) /\ WF_vars(Elapse)
  /\ \A t \in Threads : WF_vars(Sending(t))
  /\ \A c \in Clients : WF_vars(Close(c))

-----------------------------------------------------------------------------
(* Properties.                                                             *)

TypeOK ==
  /\ proto \in {"udp", "tcp"} /\ link \in [Ifaces -> Addrs \cup {None}]
  /\ staged \in [iface : Ifaces, addr : Addrs \cup {None}] /\ poll \in Ifaces \cup {None}
  /\ cache \in [Egresses -> 0 .. MaxClients]
  /\ client \in [Clients -> [egress : Egresses \cup {None}, sock : BOOLEAN, backoff : BOOLEAN]]
  /\ at \in [Threads -> {"idle", "make", "made", "send"}]
  /\ has \in [Threads -> [egress : Egresses \cup {None}, client : 0 .. MaxClients]]
  /\ closing \subseteq Clients /\ waiting \subseteq Egresses /\ dropped \subseteq Threads
  /\ \A c \in closing : ~Cached(c)

\* An open socket is some cached client's, or one a thread still has or the
\* background closes: none is left behind by two threads making the same
\* client or by a drop, whatever it falls into.  A TCP sender that a thread
\* still had when it was closed is the exception: it opens again, though its
\* close() waits for the send "so shutdown can't race an in-flight _open()".
NoLeak ==
  \A c \in Clients : client[c].sock =>
    Cached(c) \/ Held(c) \/ c \in closing \/ c \in marks.reopened

\* "Evicting rebuilds even at the same address after an outage, which
\* dropped whatever the old sockets were bound to" (_mark_osc_egress): what
\* leaves leaves by a socket made since, at every moment between the outage
\* and the eviction.  Of a client that a thread was making when its egress
\* was dropped this does not hold: it is cached after the eviction.
FreshAfterOutage ==
  [][\A t \in Threads :
       Send(t) /\ client[has[t].client].sock /\ Reachable(has[t].client)
         => has[t].client \notin marks.stale \ marks.late]_vars

\* While the interface is up, what is sent gets out again and again,
\* whatever failed before.
Recovers ==
  <>[](staged.addr # None) =>
    []<><<\E t \in Threads : Send(t) /\ client'[has[t].client].sock>>_vars
=============================================================================
