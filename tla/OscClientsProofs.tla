-------------------------- MODULE OscClientsProofs --------------------------
(***************************************************************************)
(* Proofs about OscClients, for any threads, interfaces and addresses and  *)
(* any bounds: the type invariant, that no open socket is left behind, and *)
(* that nothing is sent by a socket from before an outage.                 *)
(***************************************************************************)
EXTENDS OscClients, NaturalsInduction, WellFoundedInduction, TLAPS

Marks == [{"late", "closed", "reopened", "stale"} -> SUBSET Clients]

\* A client that is free has nobody; the cache has one client for an egress, and
\* a client that was dropped is no longer in it.
ClientSound(c) ==
  /\ client[c].egress = None => client[c] = Free
  /\ client[c] = Free => ~Cached(c) /\ ~Held(c) /\ c \notin closing
  /\ \A e \in Egresses : cache[e] = c => client[c].egress = e
  /\ c \in closing \cup marks.closed => ~Cached(c)
  /\ c \in closing => c \notin marks.closed

\* A client just made is its thread's alone; one a thread sends by is cached,
\* about to be closed, or closed.
ThreadSound(t) ==
  LET c == has[t].client IN
  /\ at[t] \in {"idle", "make"} => c = 0
  /\ at[t] \in {"make", "made"} => has[t].egress \in Egresses
  /\ at[t] = "made" =>
       /\ c # 0 /\ ~Cached(c) /\ c \notin closing \cup marks.closed
       /\ client[c].egress = has[t].egress
       /\ \A u \in Threads : has[u].client = c => u = t
  /\ at[t] = "send" => c # 0 /\ (Cached(c) \/ c \in closing \cup marks.closed)

\* Only a TCP sender that opened again after it was closed still has a socket.
ClosedSound ==
  /\ marks.reopened \subseteq marks.closed
  /\ \A c \in marks.closed : client[c].sock => c \in marks.reopened

Sound ==
  /\ \A c \in Clients : ClientSound(c)
  /\ \A t \in Threads : ThreadSound(t)
  /\ ClosedSound /\ NoLeak

IInv == TypeOK /\ marks \in Marks /\ Sound

ClientRecords == [egress : Egresses \cup {None}, sock : BOOLEAN, backoff : BOOLEAN]
Holdings == [egress : Egresses \cup {None}, client : 0 .. MaxClients]

-----------------------------------------------------------------------------
(* Operators.                                                              *)

LEMMA NoneIsNoEgress == None \notin Egresses /\ None \notin Addrs /\ None \notin Ifaces
BY OscClientsAssumption

\* The least of a set of clients is one of them.
LEMMA MinOfClients ==
  ASSUME NEW S \in SUBSET Clients, S # {}
  PROVE  Min(S) \in S
<1> DEFINE R == OpToRel(<, Nat)
<1>1. S \subseteq Nat
  BY OscClientsAssumption DEF Clients
<1>2. \E x \in S : \A y \in S : ~(<<y, x>> \in R)
  BY <1>1, NatLessThanWellFounded, WFMin
<1>3. \E x \in S : \A y \in S : x <= y
  <2>1. PICK x \in S : \A y \in S : ~(<<y, x>> \in R)
    BY <1>2
  <2>2. ASSUME NEW y \in S PROVE x <= y
    <3>1. x \in Nat /\ y \in Nat
      BY <1>1
    <3>2. ~(<<y, x>> \in OpToRel(<, Nat))
      BY <2>1
    <3>3. ~(y < x)
      BY <3>1, <3>2 DEF OpToRel
    <3>4. QED
      BY <3>1, <3>3
  <2>3. QED
    BY <2>2
<1>4. QED
  BY <1>3 DEF Min

LEMMA LiveEgresses == ASSUME TypeOK PROVE Live \subseteq Egresses
BY NoneIsNoEgress DEF TypeOK, Live, Egresses

LEMMA ClientFields ==
  ASSUME TypeOK, NEW c \in Clients
  PROVE  /\ client[c] \in ClientRecords
         /\ client[c].egress \in Egresses \cup {None}
         /\ client[c].sock \in BOOLEAN
         /\ client[c].backoff \in BOOLEAN
<1>1. client[c] \in ClientRecords
  BY DEF TypeOK, ClientRecords
<1>2. QED
  BY <1>1 DEF ClientRecords

LEMMA HasFields ==
  ASSUME TypeOK, NEW t \in Threads
  PROVE  /\ has[t] \in Holdings
         /\ has[t].egress \in Egresses \cup {None}
         /\ has[t].client \in 0 .. MaxClients
         /\ has[t].client # 0 => has[t].client \in Clients
<1>1. has[t] \in Holdings
  BY DEF TypeOK, Holdings
<1>2. has[t].egress \in Egresses \cup {None} /\ has[t].client \in 0 .. MaxClients
  BY <1>1 DEF Holdings
<1>3. QED
  BY <1>1, <1>2, OscClientsAssumption DEF Clients

LEMMA FreeIsFree == Free \in ClientRecords /\ Free.egress = None /\ Free.sock = FALSE
BY DEF Free, ClientRecords

LEMMA NothingIsNothing == Nothing \in Holdings /\ Nothing.client = 0 /\ Nothing.egress = None
BY OscClientsAssumption DEF Nothing, Holdings

LEMMA InitSound == Init => IInv
<1> SUFFICES ASSUME Init PROVE IInv
  OBVIOUS
<1>1. PICK a \in Addrs : /\ link = [j \in Ifaces |-> a]
                         /\ staged = [iface |-> CHOOSE j \in Ifaces : TRUE, addr |-> a]
  BY DEF Init
<1>2. (CHOOSE j \in Ifaces : TRUE) \in Ifaces
  BY OscClientsAssumption
<1>3. link \in [Ifaces -> Addrs \cup {None}] /\ staged \in [iface : Ifaces, addr : Addrs \cup {None}]
  BY <1>1, <1>2
<1>4. cache \in [Egresses -> 0 .. MaxClients]
  BY OscClientsAssumption DEF Init
<1>5. client \in [Clients -> ClientRecords] /\ has \in [Threads -> Holdings]
  BY FreeIsFree, NothingIsNothing DEF Init
<1>6. /\ proto \in {"udp", "tcp"} /\ poll = None /\ at \in [Threads -> {"idle", "make", "made", "send"}]
      /\ closing = {} /\ waiting = {} /\ dropped = {}
  BY DEF Init
<1>7. TypeOK
  BY <1>3, <1>4, <1>5, <1>6 DEF TypeOK, ClientRecords, Holdings
<1>8. marks \in Marks /\ marks.closed = {} /\ marks.reopened = {}
  BY DEF Init, Marks
<1>9. /\ \A e \in Egresses : cache[e] = 0
      /\ \A c \in Clients : client[c] = Free /\ c # 0
      /\ \A t \in Threads : has[t] = Nothing /\ at[t] = "idle"
  BY OscClientsAssumption DEF Init, Clients
<1>10. \A c \in Clients : ClientSound(c)
  BY <1>6, <1>8, <1>9, NothingIsNothing DEF ClientSound, Cached, Held
<1>11. \A t \in Threads : ThreadSound(t)
  BY <1>9, NothingIsNothing DEF ThreadSound
<1>12. ClosedSound /\ NoLeak
  BY <1>8, <1>9, FreeIsFree DEF ClosedSound, NoLeak
<1>13. QED
  BY <1>7, <1>8, <1>10, <1>11, <1>12 DEF IInv, Sound

LEMMA MarkFields ==
  ASSUME marks \in Marks
  PROVE  marks.closed \in SUBSET Clients /\ marks.reopened \in SUBSET Clients
BY DEF Marks

LEMMA UnmarkedFacts ==
  ASSUME marks \in Marks, NEW c \in Clients
  PROVE  /\ Unmarked(c) \in Marks
         /\ Unmarked(c).closed = marks.closed \ {c}
         /\ Unmarked(c).reopened = marks.reopened \ {c}
BY DEF Unmarked, Marks

-----------------------------------------------------------------------------
(* Steps that no client, thread or socket is part of.                      *)

LEMMA QuietSound ==
  ASSUME IInv, UNCHANGED <<cache, at, has, closing>>,
         marks'.closed = marks.closed, marks'.reopened = marks.reopened,
         \A c \in Clients : client'[c].egress = client[c].egress,
         \A c \in Clients : client'[c].sock <=> client[c].sock,
         \A c \in Clients : client'[c] = Free <=> client[c] = Free
  PROVE  Sound'
<1>1. ASSUME NEW c \in Clients PROVE ClientSound(c)'
  <2>1. ClientSound(c)
    BY DEF IInv, Sound
  <2>2. /\ client'[c].egress = client[c].egress /\ (client'[c] = Free <=> client[c] = Free)
        /\ (Cached(c)' <=> Cached(c)) /\ (Held(c)' <=> Held(c))
    BY DEF Cached, Held
  <2>3. QED
    BY <2>1, <2>2 DEF ClientSound
<1>2. ASSUME NEW t \in Threads PROVE ThreadSound(t)'
  <2>1. ThreadSound(t)
    BY DEF IInv, Sound
  <2>2. has[t].client # 0 => client'[has[t].client].egress = client[has[t].client].egress
    BY HasFields DEF IInv
  <2>3. QED
    BY <2>1, <2>2 DEF ThreadSound, Cached
<1>3. ClosedSound'
  BY MarkFields DEF IInv, Sound, ClosedSound
<1>4. NoLeak'
  <2>1. ASSUME NEW c \in Clients, client'[c].sock
        PROVE  (Cached(c) \/ Held(c) \/ c \in closing \/ c \in marks.reopened)'
    <3>1. client[c].sock
      BY <2>1
    <3>2. QED
      BY <3>1 DEF IInv, Sound, NoLeak, Cached, Held
  <2>2. QED
    BY <2>1 DEF NoLeak
<1>5. QED
  BY <1>1, <1>2, <1>3, <1>4 DEF Sound

LEMMA IdleStep ==
  ASSUME IInv, UNCHANGED vars \/ Mark \/ \E i \in Ifaces : Flap(i)
  PROVE  IInv'
<1>1. UNCHANGED <<cache, client, at, has, closing, waiting, proto, dropped>>
  BY DEF vars, Mark, Flap, world, bounds, ghosts
<1>2. poll' \in Ifaces \cup {None}
  BY DEF IInv, TypeOK, vars, Mark, Flap
<1>3. link' \in [Ifaces -> Addrs \cup {None}]
  BY DEF IInv, TypeOK, vars, world, Mark, Flap
<1>4. staged' \in [iface : Ifaces, addr : Addrs \cup {None}]
  BY DEF IInv, TypeOK, vars, Mark, Flap
<1>5. TypeOK'
  BY <1>1, <1>2, <1>3, <1>4 DEF IInv, TypeOK, Cached
<1>6. marks' \in Marks /\ marks'.closed = marks.closed /\ marks'.reopened = marks.reopened
  BY DEF IInv, Marks, vars, ghosts, Mark, Flap
<1>7. QED
  BY <1>1, <1>5, <1>6, QuietSound DEF IInv

LEMMA ElapseStep == ASSUME IInv, Elapse PROVE IInv'
<1>1. /\ waiting' = {} /\ client' = [c \in Clients |-> [client[c] EXCEPT !.backoff = FALSE]]
      /\ UNCHANGED <<proto, link, staged, poll, cache, at, has, closing, dropped, marks>>
  BY DEF Elapse, world, bounds, ghosts
<1>2. ASSUME NEW c \in Clients
      PROVE  /\ client'[c] \in ClientRecords
             /\ client'[c].egress = client[c].egress
             /\ client'[c].sock <=> client[c].sock
             /\ client'[c] = Free <=> client[c] = Free
  <2>1. client[c] \in ClientRecords /\ client'[c] = [client[c] EXCEPT !.backoff = FALSE]
    BY <1>1, ClientFields DEF IInv
  <2>2. /\ client'[c] \in ClientRecords
        /\ client'[c].egress = client[c].egress
        /\ client'[c].sock <=> client[c].sock
    <3>1. client'[c] = [egress |-> client[c].egress, sock |-> client[c].sock, backoff |-> FALSE]
      BY <2>1 DEF ClientRecords
    <3>2. client[c].egress \in Egresses \cup {None} /\ client[c].sock \in BOOLEAN
      BY ClientFields DEF IInv
    <3>3. client'[c] \in ClientRecords
      BY <3>1, <3>2 DEF ClientRecords
    <3>4. client'[c].egress = client[c].egress
      BY <3>1
    <3>5. client'[c].sock <=> client[c].sock
      BY <3>1
    <3>6. QED
      BY <3>3, <3>4, <3>5
  <2>3. client[c] = Free => client'[c] = Free
    <3>1. SUFFICES ASSUME client[c] = Free PROVE client'[c] = Free
      OBVIOUS
    <3>2. client'[c] = [Free EXCEPT !.backoff = FALSE]
      BY Zenon, <2>1, <3>1
    <3>3. client'[c] = [egress |-> Free.egress, sock |-> Free.sock, backoff |-> FALSE]
      BY <3>2 DEF Free
    <3>4. QED
      BY Zenon, <3>3, FreeIsFree DEF Free
  <2>4. client'[c] = Free => client[c] = Free
    BY <2>2, FreeIsFree DEF IInv, Sound, ClientSound
  <2>5. QED
    BY <2>2, <2>3, <2>4
<1>3. client' \in [Clients -> ClientRecords]
  BY <1>1, <1>2
<1>4. TypeOK'
  BY <1>1, <1>3 DEF IInv, TypeOK, Cached, ClientRecords
<1>5. QED
  BY <1>1, <1>2, <1>4, QuietSound DEF IInv

-----------------------------------------------------------------------------
(* Clients that are dropped.                                               *)

LEMMA DropStep ==
  ASSUME IInv, NEW gone \in SUBSET Egresses, Drop(gone), UNCHANGED <<proto, link, client, at, has>>,
         staged' \in [iface : Ifaces, addr : Addrs \cup {None}], poll' \in Ifaces \cup {None}
  PROVE  IInv'
<1>1. /\ \A e \in Egresses : cache'[e] = IF e \in gone THEN 0 ELSE cache[e]
      /\ \A c \in Clients : c \in closing' <=> c \in closing \/ \E e \in gone : cache[e] = c
      /\ marks' = marks
  <2>1. \A c \in Clients : c # 0
    BY OscClientsAssumption DEF Clients
  <2>2. closing' = closing \cup {cache[e] : e \in {g \in gone : cache[g] # 0}}
    BY DEF Drop
  <2>3. \A c \in Clients : c \in closing' <=> c \in closing \/ \E e \in gone : cache[e] = c
    BY <2>1, <2>2
  <2>4. QED
    BY <2>3 DEF Drop
<1>2. cache' \in [Egresses -> 0 .. MaxClients]
  BY OscClientsAssumption DEF Drop, IInv, TypeOK
<1>3. closing' \subseteq Clients
  <2>1. \A e \in gone : cache[e] # 0 => cache[e] \in Clients
    BY OscClientsAssumption DEF IInv, TypeOK, Clients
  <2>2. QED
    BY <2>1 DEF Drop, IInv, TypeOK
<1>4. waiting' \subseteq Egresses /\ dropped' \subseteq Threads
  BY DEF Drop, IInv, TypeOK
<1>5. ASSUME NEW c \in Clients
      PROVE  /\ c # 0 /\ ClientSound(c)
             /\ Cached(c)' => Cached(c)
             /\ Cached(c) => Cached(c)' \/ c \in closing'
             /\ c \in closing' => ~Cached(c)'
             /\ c \in closing => c \in closing'
             /\ c \in closing' => c \in closing \/ Cached(c)
  <2>1. c # 0 /\ ClientSound(c)
    BY OscClientsAssumption DEF Clients, IInv, Sound
  <2>2. \A e, f \in Egresses : cache[e] = c /\ cache[f] = c => e = f
    BY <2>1 DEF ClientSound
  <2>3. QED
    BY <1>1, <2>1, <2>2 DEF Cached, ClientSound
<1>6. TypeOK'
  BY <1>2, <1>3, <1>4, <1>5 DEF IInv, TypeOK
<1>7. ASSUME NEW c \in Clients PROVE ClientSound(c)'
  <2>1. \A e \in Egresses : cache'[e] = c => cache[e] = c
    BY <1>1, <1>5
  <2>2. QED
    BY <1>1, <1>5, <2>1 DEF ClientSound, Held
<1>8. ASSUME NEW t \in Threads PROVE ThreadSound(t)'
  <2>1. ThreadSound(t) /\ (has[t].client # 0 => has[t].client \in Clients)
    BY HasFields DEF IInv, Sound
  <2>2. QED
    BY <1>1, <1>5, <2>1 DEF ThreadSound
<1>9. ClosedSound' /\ NoLeak'
  BY <1>1, <1>5 DEF IInv, Sound, ClosedSound, NoLeak, Held
<1>10. QED
  BY <1>1, <1>6, <1>7, <1>8, <1>9 DEF IInv, Sound

LEMMA RestageStep == ASSUME IInv, Restage PROVE IInv'
<1>1. PICK i \in Ifaces :
        /\ staged' = [iface |-> i, addr |-> link[i]]
        /\ Retain(IF link[i] = None THEN {} ELSE {<<i, link[i]>>})
  BY DEF Restage
<1>2. UNCHANGED <<proto, link, client, at, has>> /\ poll' = poll
  BY DEF Restage, world
<1>3. staged' \in [iface : Ifaces, addr : Addrs \cup {None}] /\ poll' \in Ifaces \cup {None}
  BY <1>1, <1>2 DEF IInv, TypeOK
<1>4. PICK gone \in SUBSET Egresses : Drop(gone)
  BY <1>1 DEF Retain
<1>5. QED
  BY <1>2, <1>3, <1>4, DropStep

LEMMA EvictStep == ASSUME IInv, Evict PROVE IInv'
<1>1. Drop(OfIface(poll)) /\ OfIface(poll) \in SUBSET Egresses
  BY DEF Evict, OfIface
<1>2. UNCHANGED <<proto, link, client, at, has>> /\ staged' = staged /\ poll' = None
  BY DEF Evict, world
<1>3. staged' \in [iface : Ifaces, addr : Addrs \cup {None}] /\ poll' \in Ifaces \cup {None}
  BY <1>2 DEF IInv, TypeOK
<1>4. PICK gone \in SUBSET Egresses : Drop(gone)
  BY <1>1
<1>5. QED
  BY <1>2, <1>3, <1>4, DropStep

-----------------------------------------------------------------------------
(* One thread and one client at a time.                                    *)

LEMMA ThreadUpdate ==
  ASSUME TypeOK, NEW t \in Threads, NEW a \in {"idle", "make", "made", "send"}, NEW h \in Holdings,
         at' = [at EXCEPT ![t] = a], has' = [has EXCEPT ![t] = h]
  PROVE  /\ at' \in [Threads -> {"idle", "make", "made", "send"}] /\ has' \in [Threads -> Holdings]
         /\ at'[t] = a /\ has'[t] = h
         /\ \A u \in Threads \ {t} : at'[u] = at[u] /\ has'[u] = has[u]
BY DEF TypeOK, Holdings

LEMMA ClientUpdate ==
  ASSUME TypeOK, NEW c \in Clients, NEW r \in ClientRecords, client' = [client EXCEPT ![c] = r]
  PROVE  /\ client' \in [Clients -> ClientRecords] /\ client'[c] = r
         /\ \A d \in Clients \ {c} : client'[d] = client[d]
BY DEF TypeOK, ClientRecords

\* What a failure, a connection or a close leaves of a client.
LEMMA SocketChanges ==
  ASSUME NEW r \in ClientRecords
  PROVE  /\ [r EXCEPT !.sock = TRUE] \in ClientRecords
         /\ [r EXCEPT !.sock = TRUE].egress = r.egress
         /\ [r EXCEPT !.sock = FALSE] \in ClientRecords
         /\ [r EXCEPT !.sock = FALSE].egress = r.egress
         /\ ~[r EXCEPT !.sock = FALSE].sock
         /\ MarkedFailed(r) \in ClientRecords
         /\ MarkedFailed(r).egress = r.egress
         /\ ~MarkedFailed(r).sock
<1>1. /\ [r EXCEPT !.sock = TRUE] \in ClientRecords
      /\ [r EXCEPT !.sock = TRUE].egress = r.egress
  BY DEF ClientRecords
<1>2. /\ [r EXCEPT !.sock = FALSE] \in ClientRecords
      /\ [r EXCEPT !.sock = FALSE].egress = r.egress
      /\ ~[r EXCEPT !.sock = FALSE].sock
  BY DEF ClientRecords
<1>3. /\ MarkedFailed(r) \in ClientRecords
      /\ MarkedFailed(r).egress = r.egress
      /\ ~MarkedFailed(r).sock
  BY DEF ClientRecords, MarkedFailed
<1>4. QED
  BY <1>1, <1>2, <1>3

\* A client that a step leaves alone stays sound, and its socket accounted for;
\* a thread may take it when it is not free.
LEMMA ClientLeftAlone ==
  ASSUME IInv, NEW d \in Clients, client'[d] = client[d],
         \A e \in Egresses : cache'[e] = d <=> cache[e] = d,
         Held(d) => Held(d)', Held(d)' => Held(d) \/ client[d] # Free,
         d \in closing' <=> d \in closing,
         d \in marks'.closed <=> d \in marks.closed,
         d \in marks'.reopened <=> d \in marks.reopened
  PROVE  /\ ClientSound(d)'
         /\ d \in marks'.closed /\ client'[d].sock => d \in marks'.reopened
         /\ client'[d].sock => Cached(d)' \/ Held(d)' \/ d \in closing' \/ d \in marks'.reopened
<1>1. ClientSound(d) /\ (Cached(d)' <=> Cached(d))
  BY DEF IInv, Sound, Cached
<1>2. ClientSound(d)'
  BY <1>1 DEF ClientSound
<1>3. /\ d \in marks.closed /\ client[d].sock => d \in marks.reopened
      /\ client[d].sock => Cached(d) \/ Held(d) \/ d \in closing \/ d \in marks.reopened
  BY DEF IInv, Sound, ClosedSound, NoLeak
<1>4. QED
  BY <1>1, <1>2, <1>3

LEMMA FireStep == ASSUME IInv, NEW t \in Threads, Fire(t) PROVE IInv'
<1>1. PICK e \in Live :
        IF cache[e] # 0
        THEN /\ at' = [at EXCEPT ![t] = "send"]
             /\ has' = [has EXCEPT ![t] = [egress |-> e, client |-> cache[e]]]
        ELSE /\ at' = [at EXCEPT ![t] = "make"]
             /\ has' = [has EXCEPT ![t] = [egress |-> e, client |-> 0]]
  BY DEF Fire, ForDestination
<1>2. /\ at[t] = "idle"
      /\ UNCHANGED <<proto, link, staged, poll, cache, client, closing, waiting, dropped, marks>>
  BY DEF Fire, world, ghosts
<1>3. e \in Egresses /\ cache[e] \in 0 .. MaxClients
  BY <1>1, LiveEgresses DEF IInv, TypeOK
<1> DEFINE h == [egress |-> e, client |-> cache[e]]
           a == IF cache[e] # 0 THEN "send" ELSE "make"
<1>4. h \in Holdings /\ a \in {"idle", "make", "made", "send"}
  BY <1>3 DEF Holdings
<1>5. at' = [at EXCEPT ![t] = a] /\ has' = [has EXCEPT ![t] = h]
  BY <1>1
<1>6. /\ at' \in [Threads -> {"idle", "make", "made", "send"}] /\ has' \in [Threads -> Holdings]
      /\ at'[t] = a /\ has'[t] = h
      /\ \A u \in Threads \ {t} : at'[u] = at[u] /\ has'[u] = has[u]
  BY <1>4, <1>5, ThreadUpdate DEF IInv
<1>7. TypeOK'
  BY <1>2, <1>6 DEF IInv, TypeOK, Holdings, Cached
<1>8. ASSUME NEW d \in Clients
      PROVE  /\ ClientSound(d)'
             /\ d \in marks'.closed /\ client'[d].sock => d \in marks'.reopened
             /\ client'[d].sock => Cached(d)' \/ Held(d)' \/ d \in closing' \/ d \in marks'.reopened
  <2>1. d # 0 /\ ClientSound(d) /\ has[t].client = 0
    BY <1>2, OscClientsAssumption DEF Clients, IInv, Sound, ThreadSound
  <2>2. Held(d) => Held(d)'
    BY <1>6, <2>1 DEF Held
  <2>3. Held(d)' => Held(d) \/ client[d] # Free
    <3>1. cache[e] = d => client[d] # Free
      BY <1>3, <2>1 DEF ClientSound, Cached
    <3>2. Held(d)' => Held(d) \/ cache[e] = d
      BY <1>6 DEF Held
    <3>3. QED
      BY <3>1, <3>2
  <2>4. QED
    BY <1>2, <2>2, <2>3, ClientLeftAlone
<1>9. ASSUME NEW u \in Threads PROVE ThreadSound(u)'
  <2>1. CASE u = t
    BY <1>2, <1>3, <1>6, <2>1 DEF ThreadSound, Cached
  <2>2. CASE u # t
    <3>1. ThreadSound(u) /\ at'[u] = at[u] /\ has'[u] = has[u]
      BY <1>6, <2>2 DEF IInv, Sound
    <3>2. at[u] = "made" => has'[t].client # has[u].client
      BY <1>3, <1>6, <3>1 DEF ThreadSound, Cached
    <3>3. at[u] = "made" => \A v \in Threads : has'[v].client = has[u].client => v = u
      BY <1>6, <3>1, <3>2 DEF ThreadSound
    <3>4. QED
      BY <1>2, <3>1, <3>3 DEF ThreadSound, Cached
  <2>3. QED
    BY <2>1, <2>2
<1>10. ClosedSound' /\ NoLeak'
  BY <1>2, <1>8 DEF ClosedSound, NoLeak, IInv, Sound
<1>11. QED
  BY <1>2, <1>7, <1>8, <1>9, <1>10 DEF IInv, Sound

\* A thread that a step leaves alone stays sound: no other thread takes the
\* client it has just made, and none of the clients it may have becomes free.
LEMMA ThreadLeftAlone ==
  ASSUME IInv, NEW u \in Threads, at'[u] = at[u], has'[u] = has[u],
         LET c == has[u].client IN
         c # 0 => /\ client'[c].egress = client[c].egress
                  /\ at[u] = "made" => /\ Cached(c)' => Cached(c)
                                       /\ c \in closing' \cup marks'.closed => c \in closing \cup marks.closed
                                       /\ \A v \in Threads \ {u} : has'[v].client = c => has[v].client = c
                  /\ at[u] = "send" => Cached(c)' \/ c \in closing' \cup marks'.closed
  PROVE  ThreadSound(u)'
<1>1. ThreadSound(u)
  BY DEF IInv, Sound
<1> DEFINE c == has[u].client
<1>2. CASE at[u] = "made"
  <2>1. /\ c # 0 /\ ~Cached(c) /\ c \notin closing \cup marks.closed
        /\ client[c].egress = has[u].egress /\ has[u].egress \in Egresses
        /\ \A v \in Threads : has[v].client = c => v = u
    BY <1>1, <1>2 DEF ThreadSound
  <2>2. \A v \in Threads : has'[v].client = c => v = u
    BY <1>2, <2>1
  <2>3. QED
    BY <1>2, <2>1, <2>2 DEF ThreadSound
<1>3. CASE at[u] # "made"
  BY <1>1, <1>3 DEF ThreadSound
<1>4. QED
  BY <1>2, <1>3

\* _make_client that makes one: the lowest of the clients nobody has.
LEMMA MadeStep ==
  ASSUME IInv, NEW t \in Threads, at[t] = "make", NEW c \in Clients,
         client[c] = Free \/ (c \in marks.reopened /\ ~Held(c) /\ ~Cached(c)),
         NEW r \in ClientRecords, r.egress = has[t].egress,
         client' = [client EXCEPT ![c] = r], has' = [has EXCEPT ![t].client = c],
         marks' = Unmarked(c), at' = [at EXCEPT ![t] = "made"],
         UNCHANGED <<proto, link, staged, poll, cache, closing, waiting, dropped>>
  PROVE  IInv'
<1>1. c # 0 /\ ClientSound(c) /\ has[t].client = 0 /\ has[t].egress \in Egresses
  BY OscClientsAssumption DEF Clients, IInv, Sound, ThreadSound
<1>2. ~Cached(c) /\ ~Held(c) /\ c \notin closing
  BY <1>1 DEF ClientSound, IInv, Sound, ClosedSound
<1> DEFINE h == [egress |-> has[t].egress, client |-> c]
<1>3. h \in Holdings /\ has' = [has EXCEPT ![t] = h]
  <2>1. has[t] \in Holdings /\ c \in 0 .. MaxClients
    BY HasFields, OscClientsAssumption DEF IInv, Clients
  <2>2. [has[t] EXCEPT !.client = c] = h
    BY <2>1 DEF Holdings
  <2>3. h \in Holdings
    BY <2>1 DEF Holdings
  <2>4. QED
    BY <2>2, <2>3
<1>4. /\ at' \in [Threads -> {"idle", "make", "made", "send"}] /\ has' \in [Threads -> Holdings]
      /\ at'[t] = "made" /\ has'[t] = h
      /\ \A u \in Threads \ {t} : at'[u] = at[u] /\ has'[u] = has[u]
  BY <1>3, ThreadUpdate DEF IInv
<1>5. /\ client' \in [Clients -> ClientRecords] /\ client'[c] = r
      /\ \A d \in Clients \ {c} : client'[d] = client[d]
  BY ClientUpdate DEF IInv
<1>6. /\ marks' \in Marks /\ marks'.closed = marks.closed \ {c}
      /\ marks'.reopened = marks.reopened \ {c}
  BY UnmarkedFacts DEF IInv
<1>7. TypeOK'
  BY <1>4, <1>5 DEF IInv, TypeOK, Holdings, ClientRecords, Cached
<1>8. ASSUME NEW d \in Clients, d # c
      PROVE  /\ ClientSound(d)'
             /\ d \in marks'.closed /\ client'[d].sock => d \in marks'.reopened
             /\ client'[d].sock => Cached(d)' \/ Held(d)' \/ d \in closing' \/ d \in marks'.reopened
  <2>1. d # 0
    BY OscClientsAssumption DEF Clients
  <2>2. Held(d)' <=> Held(d)
    <3>1. has[t].client = 0 /\ has'[t].client = c /\ d # 0 /\ d # c
      BY <1>1, <1>4, <1>8, <2>1
    <3>2. \A u \in Threads \ {t} : has'[u] = has[u]
      BY <1>4
    <3>3. \A u \in Threads : has'[u].client = d <=> has[u].client = d
      BY Zenon, <3>1, <3>2
    <3> QED
      BY Zenon, <3>3 DEF Held
  <2>3. client'[d] = client[d]
    BY <1>5, <1>8
  <2>4. QED
    BY <1>6, <1>8, <2>2, <2>3, ClientLeftAlone
<1>9. Held(c)' /\ c \notin marks'.closed /\ c \notin closing' /\ ~Cached(c)' /\ c \notin marks'.reopened
  BY <1>2, <1>4, <1>6 DEF Held, Cached
<1>10. ClientSound(c)'
  <2>1. client'[c].egress # None /\ client'[c] # Free
    BY <1>1, <1>5, NoneIsNoEgress, FreeIsFree
  <2>2. QED
    BY <1>9, <2>1 DEF ClientSound, Cached
<1>11. ASSUME NEW u \in Threads PROVE ThreadSound(u)'
  <2>1. CASE u = t
    BY <1>1, <1>2, <1>4, <1>5, <1>9, <2>1 DEF ThreadSound, Held
  <2>2. CASE u # t
    <3>1. at'[u] = at[u] /\ has'[u] = has[u] /\ has[u].client # c /\ ThreadSound(u)
      BY <1>2, <1>4, <2>2 DEF Held, IInv, Sound
    <3>2. has[u].client # 0 => client'[has[u].client] = client[has[u].client]
      BY <1>5, <3>1, HasFields DEF IInv
    <3>3. at[u] = "send" => Cached(has[u].client)' \/ has[u].client \in closing' \cup marks'.closed
      BY <1>6, <3>1 DEF ThreadSound, Cached
    <3>4. \A v \in Threads : has'[v].client = has[u].client => has[v].client = has[u].client
      BY <1>4, <3>1
    <3>5. Cached(has[u].client)' <=> Cached(has[u].client)
      BY <3>1 DEF Cached
    <3>6. QED
      BY <1>6, <3>1, <3>2, <3>3, <3>4, <3>5, ThreadLeftAlone
  <2>3. QED
    BY <2>1, <2>2
<1>12. ClosedSound'
  <2>1. \A d \in marks'.closed : d \in Clients /\ d # c
    BY <1>6, MarkFields DEF IInv
  <2>2. QED
    BY <1>6, <1>8, <2>1 DEF ClosedSound, IInv, Sound
<1>13. NoLeak'
  BY <1>8, <1>9 DEF NoLeak
<1>14. QED
  BY <1>6, <1>7, <1>8, <1>10, <1>11, <1>12, <1>13 DEF IInv, Sound

\* A thread that had no client yet is done.
LEMMA UnmadeStep ==
  ASSUME IInv, NEW t \in Threads, has[t].client = 0, Back(t),
         waiting' \subseteq Egresses, dropped' \subseteq Threads,
         UNCHANGED <<proto, link, staged, poll, cache, client, closing, marks>>
  PROVE  IInv'
<1>1. /\ at' \in [Threads -> {"idle", "make", "made", "send"}] /\ has' \in [Threads -> Holdings]
      /\ at'[t] = "idle" /\ has'[t] = Nothing
      /\ \A u \in Threads \ {t} : at'[u] = at[u] /\ has'[u] = has[u]
  BY ThreadUpdate, NothingIsNothing DEF IInv, Back
<1>2. TypeOK'
  BY <1>1 DEF IInv, TypeOK, Holdings, Cached
<1>3. ASSUME NEW d \in Clients
      PROVE  /\ ClientSound(d)'
             /\ d \in marks'.closed /\ client'[d].sock => d \in marks'.reopened
             /\ client'[d].sock => Cached(d)' \/ Held(d)' \/ d \in closing' \/ d \in marks'.reopened
  <2>1. d # 0
    BY OscClientsAssumption DEF Clients
  <2>2. Held(d)' <=> Held(d)
    BY <1>1, <2>1, NothingIsNothing DEF Held
  <2>3. QED
    BY <2>2, ClientLeftAlone
<1>4. ASSUME NEW u \in Threads PROVE ThreadSound(u)'
  <2>1. CASE u = t
    BY <1>1, <2>1, NothingIsNothing DEF ThreadSound
  <2>2. CASE u # t
    <3>1. at'[u] = at[u] /\ has'[u] = has[u] /\ ThreadSound(u)
      BY <1>1, <2>2 DEF IInv, Sound
    <3>2. \A v \in Threads : has'[v].client # 0 => has'[v].client = has[v].client
      BY <1>1, NothingIsNothing
    <3>3. has[u].client # 0 =>
            \A v \in Threads : has'[v].client = has[u].client => has[v].client = has[u].client
      BY <3>2
    <3>4. Cached(has[u].client)' <=> Cached(has[u].client)
      BY <3>1 DEF Cached
    <3>5. at[u] = "send" => Cached(has[u].client)' \/ has[u].client \in closing' \cup marks'.closed
      BY <3>1, <3>4 DEF ThreadSound
    <3>6. QED
      BY <3>1, <3>3, <3>4, <3>5, ThreadLeftAlone
  <2>3. QED
    BY <2>1, <2>2
<1>5. ClosedSound' /\ NoLeak'
  BY <1>3 DEF ClosedSound, NoLeak, IInv, Sound
<1>6. QED
  BY <1>2, <1>3, <1>4, <1>5 DEF IInv, Sound

LEMMA MakeStep == ASSUME IInv, NEW t \in Threads, Make(t) PROVE IInv'
<1> DEFINE e == has[t].egress
           unused == {c \in Clients : client[c] = Free \/ (c \in marks.reopened /\ ~Held(c) /\ ~Cached(c))}
<1>1. at[t] = "make" /\ e \in Egresses /\ has[t].client = 0
  BY DEF Make, IInv, Sound, ThreadSound
<1>2. UNCHANGED <<proto, link, staged, poll, cache, closing>>
  BY DEF Make, world
<1>3. ASSUME unused # {},
             client' = [client EXCEPT ![Min(unused)] = [egress |-> e, sock |-> proto = "udp", backoff |-> FALSE]],
             has' = [has EXCEPT ![t].client = Min(unused)], marks' = Unmarked(Min(unused)),
             at' = [at EXCEPT ![t] = "made"], UNCHANGED <<waiting, breaks, dropped>>
      PROVE  IInv'
  <2>1. Min(unused) \in unused
    <3>1. unused \in SUBSET Clients
      OBVIOUS
    <3>2. QED
      BY <1>3, <3>1, MinOfClients
  <2>2. PICK c \in unused : c = Min(unused)
    BY <2>1
  <2>3. [egress |-> e, sock |-> proto = "udp", backoff |-> FALSE] \in ClientRecords
    <3>1. (proto = "udp") \in BOOLEAN
      OBVIOUS
    <3>2. QED
      BY <1>1, <3>1 DEF ClientRecords
  <2>4. PICK r \in ClientRecords : r = [egress |-> e, sock |-> proto = "udp", backoff |-> FALSE]
    BY <2>3
  <2>5. r.egress = e
    BY <2>4
  <2>6. /\ client' = [client EXCEPT ![c] = r] /\ has' = [has EXCEPT ![t].client = c]
        /\ marks' = Unmarked(c) /\ at' = [at EXCEPT ![t] = "made"]
    BY Zenon, <1>3, <2>2, <2>4
  <2>7. QED
    BY <1>1, <1>2, <1>3, <2>5, <2>6, MadeStep
<1>4. ASSUME waiting' = waiting \cup {e}, Back(t), dropped' = dropped \ {t}, UNCHANGED <<client, marks>>
      PROVE  IInv'
  <2>1. waiting' \subseteq Egresses /\ dropped' \subseteq Threads
    BY <1>1, <1>4 DEF IInv, TypeOK
  <2>2. QED
    BY <1>1, <1>2, <1>4, <2>1, UnmadeStep
<1>5. QED
  BY <1>3, <1>4 DEF Make

\* A thread takes the client that is cached, or caches its own.
LEMMA InsertLost ==
  ASSUME IInv, NEW t \in Threads, at[t] = "made", cache[has[t].egress] # 0,
         client' = [client EXCEPT ![has[t].client] = Free],
         has' = [has EXCEPT ![t].client = cache[has[t].egress]],
         at' = [at EXCEPT ![t] = "send"], marks' = Unmarked(has[t].client),
         dropped' \subseteq Threads,
         UNCHANGED <<proto, link, staged, poll, cache, closing, waiting>>
  PROVE  IInv'
<1>1. PICK c \in Clients : c = has[t].client
  BY HasFields DEF IInv, Sound, ThreadSound
<1>2. PICK e \in Egresses : e = has[t].egress
  BY DEF IInv, Sound, ThreadSound
<1>3. PICK k \in Clients : k = cache[e]
  BY <1>2, OscClientsAssumption DEF IInv, TypeOK, Clients
<1>4. /\ c # 0 /\ ~Cached(c) /\ c \notin closing \cup marks.closed
      /\ \A u \in Threads : has[u].client = c => u = t
  BY <1>1 DEF IInv, Sound, ThreadSound
<1>5. k # 0 /\ k # c /\ Cached(k) /\ client[k].egress = e /\ client[k] # Free
  BY <1>2, <1>3, <1>4 DEF Cached, IInv, Sound, ClientSound
<1> DEFINE h == [egress |-> e, client |-> k]
<1>6. h \in Holdings /\ has' = [has EXCEPT ![t] = h]
  <2>1. has[t] \in Holdings /\ k \in 0 .. MaxClients
    BY HasFields, OscClientsAssumption DEF IInv, Clients
  <2>2. [has[t] EXCEPT !.client = k] = h
    BY <1>2, <2>1 DEF Holdings
  <2>3. h \in Holdings
    BY <2>1 DEF Holdings
  <2>4. QED
    BY <1>2, <1>3, <2>2, <2>3
<1>7. /\ at' \in [Threads -> {"idle", "make", "made", "send"}] /\ has' \in [Threads -> Holdings]
      /\ at'[t] = "send" /\ has'[t] = h
      /\ \A u \in Threads \ {t} : at'[u] = at[u] /\ has'[u] = has[u]
  BY <1>6, ThreadUpdate DEF IInv
<1>8. /\ client' \in [Clients -> ClientRecords] /\ client'[c] = Free
      /\ \A d \in Clients \ {c} : client'[d] = client[d]
  BY <1>1, ClientUpdate, FreeIsFree DEF IInv
<1>9. /\ marks' \in Marks /\ marks'.closed = marks.closed \ {c}
      /\ marks'.reopened = marks.reopened \ {c}
  BY <1>1, UnmarkedFacts DEF IInv
<1>10. TypeOK'
  BY <1>7, <1>8 DEF IInv, TypeOK, Holdings, ClientRecords, Cached
<1>11. ASSUME NEW d \in Clients, d # c
       PROVE  /\ ClientSound(d)'
              /\ d \in marks'.closed /\ client'[d].sock => d \in marks'.reopened
              /\ client'[d].sock => Cached(d)' \/ Held(d)' \/ d \in closing' \/ d \in marks'.reopened
  <2>1. Held(d) => Held(d)'
    BY <1>1, <1>7, <1>11 DEF Held
  <2>2. Held(d)' => Held(d) \/ d = k
    BY <1>7 DEF Held
  <2>3. QED
    BY <1>5, <1>8, <1>9, <1>11, <2>1, <2>2, ClientLeftAlone
<1>12. ~Held(c)' /\ c \notin marks'.closed /\ c \notin closing' /\ ~Cached(c)'
  BY <1>4, <1>5, <1>7, <1>9 DEF Held, Cached
<1>13. ClientSound(c)' /\ client'[c].sock = FALSE
  BY <1>4, <1>8, <1>12, FreeIsFree DEF ClientSound, Cached
<1>14. ASSUME NEW u \in Threads PROVE ThreadSound(u)'
  <2>1. CASE u = t
    <3>1. Cached(k)' /\ has'[u].client = k /\ at'[u] = "send"
      BY <1>5, <1>7, <2>1 DEF Cached
    <3>2. QED
      BY <1>5, <3>1 DEF ThreadSound, Cached
  <2>2. CASE u # t
    <3>1. at'[u] = at[u] /\ has'[u] = has[u] /\ has[u].client # c /\ ThreadSound(u)
      BY <1>4, <1>7, <2>2 DEF IInv, Sound
    <3>2. has[u].client # 0 => client'[has[u].client] = client[has[u].client]
      BY <1>8, <3>1, HasFields DEF IInv
    <3>3. at[u] = "send" => Cached(has[u].client)' \/ has[u].client \in closing' \cup marks'.closed
      BY <1>9, <3>1 DEF ThreadSound, Cached
    <3>4. at[u] = "made" => has[u].client # k
      BY <1>5, <3>1 DEF ThreadSound
    <3>5. at[u] = "made" => \A v \in Threads : has'[v].client = has[u].client => has[v].client = has[u].client
      BY <1>7, <3>4
    <3>6. Cached(has[u].client)' <=> Cached(has[u].client)
      BY <3>1 DEF Cached
    <3>7. QED
      BY <1>9, <3>1, <3>2, <3>3, <3>5, <3>6, ThreadLeftAlone
  <2>3. QED
    BY <2>1, <2>2
<1>15. ClosedSound'
  <2>1. \A d \in marks'.closed : d \in Clients /\ d # c
    BY <1>9, MarkFields DEF IInv
  <2>2. QED
    BY <1>9, <1>11, <2>1 DEF ClosedSound, IInv, Sound
<1>16. NoLeak'
  BY <1>11, <1>13 DEF NoLeak
<1>17. QED
  BY <1>9, <1>10, <1>11, <1>13, <1>14, <1>15, <1>16 DEF IInv, Sound

LEMMA InsertWon ==
  ASSUME IInv, NEW t \in Threads, at[t] = "made", cache[has[t].egress] = 0,
         cache' = [cache EXCEPT ![has[t].egress] = has[t].client],
         at' = [at EXCEPT ![t] = "send"],
         marks' \in Marks, marks'.closed = marks.closed, marks'.reopened = marks.reopened,
         dropped' \subseteq Threads,
         UNCHANGED <<proto, link, staged, poll, client, has, closing, waiting>>
  PROVE  IInv'
<1>1. PICK c \in Clients : c = has[t].client
  BY HasFields DEF IInv, Sound, ThreadSound
<1>2. PICK e \in Egresses : e = has[t].egress
  BY DEF IInv, Sound, ThreadSound
<1>3. /\ c # 0 /\ ~Cached(c) /\ c \notin closing \cup marks.closed
      /\ \A u \in Threads : has[u].client = c => u = t
      /\ client[c].egress = e /\ Held(c) /\ c \in 0 .. MaxClients
  BY <1>1, <1>2, HasFields DEF IInv, Sound, ThreadSound, Held
<1>4. /\ cache' \in [Egresses -> 0 .. MaxClients] /\ cache'[e] = c /\ cache[e] = 0
      /\ \A f \in Egresses \ {e} : cache'[f] = cache[f]
  BY <1>1, <1>2, <1>3 DEF IInv, TypeOK
<1>5. Cached(c)' /\ \A d \in Clients \ {c} : (Cached(d)' <=> Cached(d))
  <2>1. \A d \in Clients : d # 0
    BY OscClientsAssumption DEF Clients
  <2>2. QED
    BY <1>4, <2>1 DEF Cached
<1>6. TypeOK'
  <2>1. at' \in [Threads -> {"idle", "make", "made", "send"}]
    BY DEF IInv, TypeOK
  <2>2. \A d \in closing : ~Cached(d)'
    BY <1>3, <1>5 DEF IInv, TypeOK
  <2>3. QED
    BY <1>4, <2>1, <2>2 DEF IInv, TypeOK
<1>7. ASSUME NEW d \in Clients, d # c
      PROVE  /\ ClientSound(d)'
             /\ d \in marks'.closed /\ client'[d].sock => d \in marks'.reopened
             /\ client'[d].sock => Cached(d)' \/ Held(d)' \/ d \in closing' \/ d \in marks'.reopened
  <2>1. d # 0 /\ \A f \in Egresses : cache'[f] = d <=> cache[f] = d
    BY <1>4, <1>7, OscClientsAssumption DEF Clients
  <2>2. Held(d)' <=> Held(d)
    BY DEF Held
  <2>3. QED
    BY <2>1, <2>2, ClientLeftAlone
<1>8. ClientSound(c)'
  <2>1. client[c] # Free /\ ClientSound(c)
    BY <1>3 DEF IInv, Sound, ClientSound
  <2>2. \A f \in Egresses : cache'[f] = c => f = e
    BY <1>3, <1>4 DEF Cached
  <2>3. QED
    BY <1>3, <2>1, <2>2 DEF ClientSound
<1>9. ASSUME NEW u \in Threads PROVE ThreadSound(u)'
  <2>1. CASE u = t
    <3>1. at'[u] = "send" /\ has'[u].client = c
      BY <1>1, <2>1 DEF IInv, TypeOK
    <3>2. QED
      BY <1>3, <1>5, <3>1 DEF ThreadSound, Cached
  <2>2. CASE u # t
    <3>1. at'[u] = at[u] /\ has'[u] = has[u] /\ has[u].client # c /\ ThreadSound(u)
      BY <1>3, <2>2 DEF IInv, Sound, TypeOK
    <3>2. has[u].client # 0 => (Cached(has[u].client)' <=> Cached(has[u].client))
      BY <1>5, <3>1, HasFields DEF IInv, Cached
    <3>3. QED
      BY <3>1, <3>2, ThreadLeftAlone DEF ThreadSound
  <2>3. QED
    BY <2>1, <2>2
<1>10. ClosedSound' /\ NoLeak'
  <2>1. NoLeak'
    BY <1>5, <1>7 DEF NoLeak
  <2>2. QED
    BY <2>1 DEF ClosedSound, IInv, Sound
<1>11. QED
  BY <1>6, <1>7, <1>8, <1>9, <1>10 DEF IInv, Sound

LEMMA InsertStep == ASSUME IInv, NEW t \in Threads, Insert(t) PROVE IInv'
<1>1. /\ at[t] = "made" /\ at' = [at EXCEPT ![t] = "send"] /\ dropped' \subseteq Threads
      /\ UNCHANGED <<proto, link, staged, poll, closing, waiting>>
  BY DEF Insert, world, IInv, TypeOK
<1>2. CASE cache[has[t].egress] # 0
  BY <1>1, <1>2, InsertLost DEF Insert, Inserted
<1>3. CASE cache[has[t].egress] = 0
  <2>1. has[t].client \in Clients
    BY <1>1, HasFields DEF IInv, Sound, ThreadSound
  <2>2. marks' \in Marks /\ marks'.closed = marks.closed /\ marks'.reopened = marks.reopened
    BY <1>3, <2>1 DEF Insert, Marks, IInv
  <2>3. QED
    BY <1>1, <1>3, <2>2, InsertWon DEF Insert, Inserted
<1>4. QED
  BY <1>2, <1>3

\* A thread gives its client back: what becomes of it is what it was but for
\* its socket and its backoff, or free when nobody else has it.
LEMMA GivenBack ==
  ASSUME IInv, NEW t \in Threads, at[t] = "send", Back(t),
         NEW c \in Clients, c = has[t].client,
         NEW new \in ClientRecords, new.egress = client[c].egress,
         client' = [client EXCEPT ![c] = Released(c, t, new)],
         c \in marks.closed /\ new.sock => c \in marks'.reopened,
         marks' \in Marks, marks'.closed = marks.closed,
         \/ marks'.reopened = marks.reopened
         \/ marks'.reopened = marks.reopened \cup {c} /\ c \in marks.closed,
         UNCHANGED <<proto, link, staged, poll, cache, closing, waiting, dropped>>
  PROVE  IInv'
<1>1. /\ at' \in [Threads -> {"idle", "make", "made", "send"}] /\ has' \in [Threads -> Holdings]
      /\ at'[t] = "idle" /\ has'[t] = Nothing
      /\ \A u \in Threads \ {t} : at'[u] = at[u] /\ has'[u] = has[u]
  BY ThreadUpdate, NothingIsNothing DEF IInv, Back
<1>2. Released(c, t, new) \in ClientRecords
  BY FreeIsFree DEF Released
<1>3. /\ client' \in [Clients -> ClientRecords] /\ client'[c] = Released(c, t, new)
      /\ \A d \in Clients \ {c} : client'[d] = client[d]
  BY <1>2, ClientUpdate DEF IInv
<1>4. TypeOK'
  BY <1>1, <1>3 DEF IInv, TypeOK, Holdings, ClientRecords, Cached
<1>5. /\ c # 0 /\ ClientSound(c) /\ Held(c) /\ client[c] # Free /\ client[c].egress # None
      /\ Cached(c) \/ c \in closing \cup marks.closed
  BY OscClientsAssumption DEF Clients, IInv, Sound, ClientSound, ThreadSound, Held
<1>6. ASSUME NEW d \in Clients, d # c
      PROVE  /\ ClientSound(d)'
             /\ d \in marks'.closed /\ client'[d].sock => d \in marks'.reopened
             /\ client'[d].sock => Cached(d)' \/ Held(d)' \/ d \in closing' \/ d \in marks'.reopened
  <2>1. d # 0 /\ client'[d] = client[d]
    BY <1>3, <1>6, OscClientsAssumption DEF Clients
  <2>2. Held(d)' <=> Held(d)
    BY <1>1, <1>6, <2>1, NothingIsNothing DEF Held
  <2>3. QED
    BY <1>6, <2>1, <2>2, ClientLeftAlone
<1>7. /\ ClientSound(c)'
      /\ client'[c].sock => new.sock
      /\ \A u \in Threads \ {t} : has[u].client = c => client'[c].egress = client[c].egress
  <2>1. CASE client'[c] = Free
    <3>1. new # Free
      BY <1>5, FreeIsFree
    <3>2. ~Cached(c) /\ c \notin closing /\ \A u \in Threads \ {t} : has[u].client # c
      BY <1>3, <2>1, <3>1 DEF Released
    <3>3. ~Cached(c)' /\ ~Held(c)' /\ c \notin closing'
      BY <1>1, <1>5, <3>2, NothingIsNothing DEF Cached, Held
    <3>4. ClientSound(c)' /\ client'[c].sock = FALSE
      BY <2>1, <3>3, FreeIsFree DEF ClientSound, Cached
    <3>5. QED
      BY <3>2, <3>4
  <2>2. CASE client'[c] # Free
    <3>1. client'[c] = new
      BY <1>3, <2>2 DEF Released
    <3>2. client'[c].egress # None
      BY <1>5, <3>1
    <3>3. ClientSound(c)'
      BY <1>5, <2>2, <3>1, <3>2 DEF ClientSound, Cached
    <3>4. QED
      BY <3>1, <3>3
  <2>3. QED
    BY <2>1, <2>2
<1>8. /\ c \in marks'.closed /\ client'[c].sock => c \in marks'.reopened
      /\ client'[c].sock => Cached(c)' \/ Held(c)' \/ c \in closing' \/ c \in marks'.reopened
  BY <1>5, <1>7 DEF Cached
<1>9. ASSUME NEW u \in Threads PROVE ThreadSound(u)'
  <2>1. CASE u = t
    BY <1>1, <2>1, NothingIsNothing DEF ThreadSound
  <2>2. CASE u # t
    <3>1. at'[u] = at[u] /\ has'[u] = has[u] /\ ThreadSound(u)
      BY <1>1, <2>2 DEF IInv, Sound
    <3>2. has[u].client # 0 => client'[has[u].client].egress = client[has[u].client].egress
      BY <1>3, <1>7, <2>2, HasFields DEF IInv
    <3>3. has[u].client # 0 =>
            \A v \in Threads : has'[v].client = has[u].client => has[v].client = has[u].client
      BY <1>1, NothingIsNothing
    <3>4. Cached(has[u].client)' <=> Cached(has[u].client)
      BY <3>1 DEF Cached
    <3>5. at[u] = "send" => Cached(has[u].client)' \/ has[u].client \in closing' \cup marks'.closed
      BY <3>1, <3>4 DEF ThreadSound
    <3>6. QED
      BY <3>1, <3>2, <3>3, <3>4, <3>5, ThreadLeftAlone
  <2>3. QED
    BY <2>1, <2>2
<1>10. ClosedSound'
  <2>1. marks'.reopened \subseteq marks'.closed /\ marks'.closed \subseteq Clients
    BY MarkFields DEF IInv, Sound, ClosedSound
  <2>2. QED
    BY <1>6, <1>8, <2>1 DEF ClosedSound
<1>11. NoLeak'
  BY <1>6, <1>8 DEF NoLeak
<1>12. QED
  BY <1>4, <1>6, <1>7, <1>9, <1>10, <1>11 DEF IInv, Sound

LEMMA SendStep == ASSUME IInv, NEW t \in Threads, Send(t) PROVE IInv'
<1>1. PICK c \in Clients : c = has[t].client
  BY HasFields DEF Send, IInv, Sound, ThreadSound
<1>2. PICK now \in ClientRecords : now = client[c]
  BY ClientFields DEF IInv
<1> DEFINE opens == proto = "tcp" /\ ~now.sock /\ ~now.backoff
           Becomes(new) == client' = [client EXCEPT ![c] = Released(c, t, new)]
<1>3. /\ at[t] = "send" /\ Back(t)
      /\ UNCHANGED <<proto, link, staged, poll, cache, closing, waiting, dropped>>
  BY DEF Send, world
<1>4. \/ /\ now.sock \/ opens
         /\ Becomes([now EXCEPT !.sock = TRUE])
         /\ IF opens THEN Reopened(c) ELSE UNCHANGED marks
      \/ /\ Becomes(IF proto = "tcp" THEN MarkedFailed(now) ELSE now)
         /\ UNCHANGED marks
      \/ /\ Becomes(now)
         /\ UNCHANGED marks
  BY <1>1, <1>2 DEF Send
<1>5. marks \in Marks /\ (c \in marks.closed /\ client[c].sock => c \in marks.reopened)
  BY DEF IInv, Sound, ClosedSound
<1>6. ASSUME Becomes(now), UNCHANGED marks PROVE IInv'
  <2>1. now.egress = client[c].egress
    BY Zenon, <1>2
  <2>2. marks' \in Marks /\ marks'.closed = marks.closed /\ marks'.reopened = marks.reopened
    BY <1>5, <1>6
  <2>3. CASE now.sock
    <3>1. c \in marks.closed => c \in marks'.reopened
      BY Zenon, <1>2, <1>5, <1>6, <2>3
    <3>2. QED
      BY <1>1, <1>3, <1>6, <2>1, <2>2, <3>1, GivenBack
  <2>4. CASE ~now.sock
    BY <1>1, <1>3, <1>6, <2>1, <2>2, <2>4, GivenBack
  <2>5. QED
    BY <2>3, <2>4
<1>7. CASE /\ now.sock \/ opens
           /\ Becomes([now EXCEPT !.sock = TRUE])
           /\ IF opens THEN Reopened(c) ELSE UNCHANGED marks
  <2>1. /\ [now EXCEPT !.sock = TRUE] \in ClientRecords
        /\ [now EXCEPT !.sock = TRUE].egress = client[c].egress
    BY Zenon, <1>2, SocketChanges
  <2>2. CASE opens /\ c \in marks.closed
    <3>1. marks' = [marks EXCEPT !.reopened = @ \cup {c}]
      BY <1>7, <2>2 DEF Reopened
    <3>2. marks' \in Marks /\ marks'.closed = marks.closed /\ marks'.reopened = marks.reopened \cup {c}
      BY <1>5, <3>1 DEF Marks
    <3>3. QED
      BY <1>1, <1>3, <1>7, <2>1, <2>2, <3>2, GivenBack
  <2>3. CASE ~opens \/ c \notin marks.closed
    <3>1. marks' = marks
      BY <1>7, <2>3 DEF Reopened
    <3>2. c \in marks.closed => c \in marks'.reopened
      BY <1>2, <1>5, <1>7, <2>3, <3>1
    <3>3. marks' \in Marks /\ marks'.closed = marks.closed /\ marks'.reopened = marks.reopened
      BY <1>5, <3>1
    <3>4. QED
      BY <1>1, <1>3, <1>7, <2>1, <3>2, <3>3, GivenBack
  <2>4. QED
    BY <2>2, <2>3
<1>8. CASE /\ Becomes(IF proto = "tcp" THEN MarkedFailed(now) ELSE now)
           /\ UNCHANGED marks
  <2>1. CASE proto = "tcp"
    <3>1. /\ MarkedFailed(now) \in ClientRecords /\ MarkedFailed(now).egress = client[c].egress
          /\ ~MarkedFailed(now).sock
      BY Zenon, <1>2, SocketChanges
    <3>2. Becomes(MarkedFailed(now))
      BY Zenon, <1>8, <2>1
    <3>3. marks' \in Marks /\ marks'.closed = marks.closed /\ marks'.reopened = marks.reopened
      BY <1>5, <1>8
    <3>4. QED
      BY <1>1, <1>3, <3>1, <3>2, <3>3, GivenBack
  <2>2. CASE proto # "tcp"
    <3>1. Becomes(now)
      BY Zenon, <1>8, <2>2
    <3>2. QED
      BY <1>8, <3>1, <1>6
  <2>3. QED
    BY <2>1, <2>2
<1>9. QED
  BY <1>4, <1>7, <1>8, <1>6

\* A client that is closed goes, or stays without a socket with whoever has it.
LEMMA CloseStep == ASSUME IInv, NEW c \in Clients, Close(c) PROVE IInv'
<1>1. /\ c \in closing /\ closing' = closing \ {c}
      /\ UNCHANGED <<proto, link, staged, poll, cache, at, has, waiting, dropped>>
  BY DEF Close, world
<1>2. /\ c # 0 /\ ClientSound(c) /\ ~Cached(c) /\ client[c] # Free /\ client[c].egress # None
      /\ c \notin marks.closed /\ c \notin marks.reopened
  BY <1>1, OscClientsAssumption DEF Clients, IInv, Sound, ClientSound, ClosedSound
<1>3. PICK new \in ClientRecords :
        /\ client' = [client EXCEPT ![c] = new]
        /\ ~new.sock
        /\ IF Held(c) THEN new.egress = client[c].egress ELSE new = Free
  <2>1. CASE Held(c)
    <3>1. client' = [client EXCEPT ![c] = [client[c] EXCEPT !.sock = FALSE]]
      BY <2>1 DEF Close
    <3>2. client[c] \in ClientRecords
      BY ClientFields DEF IInv
    <3>3. /\ [client[c] EXCEPT !.sock = FALSE] \in ClientRecords
          /\ [client[c] EXCEPT !.sock = FALSE].egress = client[c].egress
          /\ ~[client[c] EXCEPT !.sock = FALSE].sock
      BY Zenon, <3>2, SocketChanges
    <3>4. QED
      BY Zenon, <2>1, <3>1, <3>3
  <2>2. CASE ~Held(c)
    <3>1. client' = [client EXCEPT ![c] = Free]
      BY <2>2 DEF Close
    <3>2. QED
      BY <2>2, <3>1, FreeIsFree
  <2>3. QED
    BY <2>1, <2>2
<1>4. /\ marks' \in Marks /\ marks'.reopened \subseteq marks'.closed
      /\ \A d \in Clients \ {c} : /\ d \in marks'.closed <=> d \in marks.closed
                                  /\ d \in marks'.reopened <=> d \in marks.reopened
      /\ Held(c) => c \in marks'.closed
      /\ ~Held(c) => c \notin marks'.closed
  <2>1. CASE Held(c)
    <3>1. marks' = [marks EXCEPT !.closed = @ \cup {c}]
      BY <2>1 DEF Close
    <3>2. marks' \in Marks /\ marks'.closed = marks.closed \cup {c} /\ marks'.reopened = marks.reopened
      BY <3>1 DEF IInv, Marks
    <3>3. QED
      BY <2>1, <3>2 DEF IInv, Sound, ClosedSound
  <2>2. CASE ~Held(c)
    <3>1. marks' = Unmarked(c)
      BY <2>2 DEF Close
    <3>2. QED
      BY <2>2, <3>1, UnmarkedFacts DEF IInv, Sound, ClosedSound
  <2>3. QED
    BY <2>1, <2>2
<1>5. /\ client' \in [Clients -> ClientRecords] /\ client'[c] = new
      /\ \A d \in Clients \ {c} : client'[d] = client[d]
  BY <1>3, ClientUpdate DEF IInv
<1>6. TypeOK'
  BY <1>1, <1>5 DEF IInv, TypeOK, ClientRecords, Cached
<1>7. ASSUME NEW d \in Clients, d # c
      PROVE  /\ ClientSound(d)'
             /\ d \in marks'.closed /\ client'[d].sock => d \in marks'.reopened
             /\ client'[d].sock => Cached(d)' \/ Held(d)' \/ d \in closing' \/ d \in marks'.reopened
  <2>1. Held(d)' <=> Held(d)
    BY <1>1 DEF Held
  <2>2. /\ client'[d] = client[d] /\ (d \in closing' <=> d \in closing)
        /\ (d \in marks'.closed <=> d \in marks.closed)
        /\ (d \in marks'.reopened <=> d \in marks.reopened)
    <3>1. client'[d] = client[d]
      BY <1>5, <1>7
    <3>2. d \in closing' <=> d \in closing
      BY <1>1, <1>7
    <3>3. (d \in marks'.closed <=> d \in marks.closed) /\ (d \in marks'.reopened <=> d \in marks.reopened)
      BY <1>4, <1>7
    <3>4. QED
      BY <3>1, <3>2, <3>3
  <2>3. QED
    BY <1>1, <2>1, <2>2, ClientLeftAlone
<1>8. ClientSound(c)'
  <2>1. (Held(c)' <=> Held(c)) /\ ~Cached(c)' /\ c \notin closing'
    BY <1>1, <1>2 DEF Held, Cached
  <2>2. Held(c) => new # Free /\ new.egress # None
    BY <1>2, <1>3, FreeIsFree
  <2>3. ~Held(c) => new = Free
    BY <1>3
  <2>4. QED
    BY <1>5, <2>1, <2>2, <2>3 DEF ClientSound, Cached
<1>9. ASSUME NEW u \in Threads PROVE ThreadSound(u)'
  <2>1. ThreadSound(u) /\ at'[u] = at[u] /\ has'[u] = has[u]
    BY <1>1 DEF IInv, Sound
  <2>2. Cached(has[u].client)' <=> Cached(has[u].client)
    BY <1>1 DEF Cached
  <2>3. CASE has[u].client = c
    <3>1. Held(c) /\ new.egress = client[c].egress
      BY <1>3, <2>3 DEF Held
    <3>2. at[u] # "made"
      BY <1>1, <2>1, <2>3 DEF ThreadSound
    <3>3. QED
      BY <1>4, <1>5, <2>1, <2>3, <3>1, <3>2, ThreadLeftAlone
  <2>4. CASE has[u].client # c
    <3>1. has[u].client # 0 =>
            /\ client'[has[u].client] = client[has[u].client]
            /\ has[u].client \in closing' \cup marks'.closed <=> has[u].client \in closing \cup marks.closed
      <4>1. ASSUME has[u].client # 0 PROVE has[u].client \in Clients \ {c}
        BY <2>4, <4>1, HasFields DEF IInv
      <4>2. \A d \in Clients \ {c} : /\ client'[d] = client[d] /\ (d \in closing' <=> d \in closing)
                                     /\ d \in marks'.closed <=> d \in marks.closed
        <5>1. \A d \in Clients \ {c} : client'[d] = client[d]
          BY <1>5
        <5>2. \A d \in Clients \ {c} : d \in closing' <=> d \in closing
          BY <1>1
        <5>3. \A d \in Clients \ {c} : d \in marks'.closed <=> d \in marks.closed
          BY <1>4
        <5>4. QED
          BY <5>1, <5>2, <5>3
      <4>3. QED
        BY <4>1, <4>2
    <3>2. at[u] = "send" => has[u].client # 0 /\ (Cached(has[u].client) \/ has[u].client \in closing \cup marks.closed)
      BY <2>1 DEF ThreadSound
    <3>3. \A v \in Threads : has'[v].client = has[v].client
      BY <1>1
    <3>4. QED
      BY <2>1, <2>2, <3>1, <3>2, <3>3, ThreadLeftAlone
  <2>5. QED
    BY <2>3, <2>4
<1>10. ~client'[c].sock
  BY <1>3, <1>5
<1>11. ClosedSound'
  <2>1. marks'.closed \subseteq Clients
    BY <1>4 DEF Marks
  <2>2. QED
    BY <1>4, <1>7, <1>10, <2>1 DEF ClosedSound
<1>12. NoLeak'
  BY <1>7, <1>10 DEF NoLeak
<1>13. QED
  BY <1>4, <1>6, <1>7, <1>8, <1>9, <1>11, <1>12 DEF IInv, Sound

-----------------------------------------------------------------------------
(* Every step, and the theorems.                                           *)

LEMMA StepSound == IInv /\ [Next]_vars => IInv'
<1> SUFFICES ASSUME IInv, [Next]_vars PROVE IInv'
  OBVIOUS
<1>1. ASSUME NEW t \in Threads, Sending(t) PROVE IInv'
  BY <1>1, FireStep, MakeStep, InsertStep, SendStep DEF Sending
<1>2. ASSUME NEW c \in Clients, Close(c) PROVE IInv'
  BY <1>2, CloseStep
<1>3. ASSUME NEW i \in Ifaces, Flap(i) PROVE IInv'
  BY <1>3, IdleStep
<1>4. QED
  BY <1>1, <1>2, <1>3, IdleStep, ElapseStep, RestageStep, EvictStep DEF Next

LEMMA InvariantHolds == Spec => []IInv
BY InitSound, StepSound, PTL DEF Spec

\* The clients, the cache and the threads are always what the code takes them
\* for, and a client on its way to be closed is never in the cache
\* (OscService._drop_pinned takes it out under the lock before it closes it).
THEOREM TypeCorrect == Spec => []TypeOK
<1>1. IInv => TypeOK
  BY DEF IInv
<1>2. QED
  BY <1>1, InvariantHolds, PTL

\* OscService leaves no open socket behind, however many threads make a client
\* for one egress at the same time and whenever the egress is dropped: it is
\* cached, some thread's, about to be closed, or one that opened again after
\* it was closed.
THEOREM NoSocketLeft == Spec => []NoLeak
<1>1. IInv => NoLeak
  BY DEF IInv, Sound
<1>2. QED
  BY <1>1, InvariantHolds, PTL
-----------------------------------------------------------------------------
(* What is sent by after an outage.  The invariant says of every client     *)
(* that can still be sent by why an old socket of it reaches nobody: the    *)
(* address it was made for is gone.  The cache holds only clients of the    *)
(* interface in use, at the address the table has until an eviction is      *)
(* due, and a thread that makes one is of those or knows it was dropped; so *)
(* an address that comes back finds none of them, but those cached late.    *)

Current(e) == e[1] = staged.iface /\ (poll = None => e[2] = staged.addr)
Parted(e) == link[e[1]] # e[2]
Aged(c) == c \in marks.stale \ marks.late

CacheFresh(e) ==
  cache[e] # 0 /\ cache[e] \notin marks.late =>
    Current(e) /\ (cache[e] \in marks.stale => Parted(e))

ThreadFresh(t) ==
  /\ at[t] \in {"make", "made"} /\ t \notin dropped => Current(has[t].egress)
  /\ at[t] = "send" => client[has[t].client].egress = has[t].egress
  /\ at[t] \in {"made", "send"} /\ Aged(has[t].client) => Parted(has[t].egress)

Fresh ==
  /\ poll \in {None, staged.iface}
  /\ \A e \in Egresses : CacheFresh(e)
  /\ \A t \in Threads : ThreadFresh(t)

SameMarks(c) == (c \in marks'.stale <=> c \in marks.stale) /\ (c \in marks'.late <=> c \in marks.late)

LEMMA InitFresh == Init => Fresh
BY DEF Init, Fresh, CacheFresh, ThreadFresh

\* A cached client and a thread that a step leaves alone stay fresh.
LEMMA CacheStays ==
  ASSUME NEW e, CacheFresh(e), UNCHANGED <<link, staged, poll>>, cache'[e] = cache[e],
         cache[e] # 0 => SameMarks(cache[e])
  PROVE  CacheFresh(e)'
BY DEF CacheFresh, SameMarks, Current, Parted

LEMMA ThreadStays ==
  ASSUME NEW u, ThreadFresh(u), UNCHANGED <<link, staged, poll>>,
         at'[u] = at[u], has'[u] = has[u], u \in dropped' <=> u \in dropped,
         at[u] \in {"made", "send"} => SameMarks(has[u].client),
         at[u] = "send" => client'[has[u].client].egress = client[has[u].client].egress
  PROVE  ThreadFresh(u)'
BY DEF ThreadFresh, SameMarks, Current, Parted, Aged

\* What the marks of the other clients become.
LEMMA UnmarkedStay ==
  ASSUME marks \in Marks, NEW c, marks' = Unmarked(c)
  PROVE  /\ c \notin marks'.stale
         /\ \A d : d # c => SameMarks(d)
BY DEF Unmarked, Marks, SameMarks

LEMMA OtherMarks ==
  ASSUME marks \in Marks, NEW S,
         marks' \in {[marks EXCEPT !.closed = S], [marks EXCEPT !.reopened = S], marks}
  PROVE  \A d : SameMarks(d)
BY DEF Marks, SameMarks

\* The client of a cached egress, and of a thread, is one made for it.
LEMMA CachedFor ==
  ASSUME IInv, NEW e \in Egresses, cache[e] # 0
  PROVE  cache[e] \in Clients /\ client[cache[e]].egress = e /\ Cached(cache[e])
<1>1. cache[e] \in Clients
  BY OscClientsAssumption DEF IInv, TypeOK, Clients
<1> QED
  BY <1>1 DEF IInv, Sound, ClientSound, Cached

LEMMA HeldFor ==
  ASSUME IInv, Fresh, NEW t \in Threads, at[t] \in {"made", "send"}
  PROVE  /\ has[t].client \in Clients /\ has[t].egress \in Egresses
         /\ client[has[t].client].egress = has[t].egress
<1>1. has[t].client \in Clients
  BY HasFields DEF IInv, Sound, ThreadSound
<1>2. client[has[t].client].egress = has[t].egress
  BY DEF IInv, Sound, ThreadSound, Fresh, ThreadFresh
<1>3. client[has[t].client].egress \in Egresses
  BY <1>1, ClientFields DEF IInv, Sound, ClientSound, Held
<1> QED
  BY <1>1, <1>2, <1>3

-----------------------------------------------------------------------------
(* The steps of the world and of time.                                     *)

LEMMA MarkFresh == ASSUME IInv, Fresh, Mark PROVE Fresh'
<1>1. /\ UNCHANGED <<link, cache, client, at, has, dropped, marks>> /\ poll' = staged.iface
      /\ staged' = [staged EXCEPT !.addr = link[staged.iface]]
  BY DEF Mark, world, ghosts
<1>2. staged'.iface = staged.iface /\ staged.iface \in Ifaces
  BY <1>1 DEF IInv, TypeOK
<1>3. \A e : Current(e) => Current(e)'
  BY <1>1, <1>2, NoneIsNoEgress DEF Current
<1>4. \A e : Parted(e)' <=> Parted(e)
  BY <1>1 DEF Parted
<1>5. ASSUME NEW e \in Egresses PROVE CacheFresh(e)'
  BY <1>1, <1>3, <1>4 DEF Fresh, CacheFresh
<1>6. ASSUME NEW t \in Threads PROVE ThreadFresh(t)'
  BY <1>1, <1>3, <1>4 DEF Fresh, ThreadFresh, Aged
<1> QED
  BY <1>1, <1>2, <1>5, <1>6 DEF Fresh

\* An address that goes parts every client made for it; one that comes finds
\* no thread with a client of its interface, and none cached that is not late.
LEMMA FlapFresh == ASSUME IInv, Fresh, NEW i \in Ifaces, Flap(i) PROVE Fresh'
<1>1. PICK a \in (Addrs \cup {None}) \ {link[i]} :
        /\ a = None \/ \A t \in Threads : at[t] \in {"made", "send"} => has[t].egress[1] # i
        /\ link' = [link EXCEPT ![i] = a]
  BY DEF Flap
<1>2. UNCHANGED <<staged, poll, cache, client, at, has, dropped>>
  BY DEF Flap
<1>3. i = staged.iface => poll = None /\ staged.addr = link[i]
  BY DEF Flap
<1>4. link'[i] = a /\ \A j \in Ifaces \ {i} : link'[j] = link[j]
  BY <1>1 DEF IInv, TypeOK
<1>5. /\ marks'.late = marks.late
      /\ \A c \in Clients : c \in marks'.stale => c \in marks.stale \/ client[c].egress[1] = i
  BY DEF Flap, IInv, Marks
<1>6. \A e : Current(e)' <=> Current(e)
  BY <1>2 DEF Current
<1>7. ASSUME NEW e \in Egresses PROVE CacheFresh(e)'
  <2>1. SUFFICES ASSUME cache[e] # 0, cache[e] \notin marks.late PROVE CacheFresh(e)'
    BY <1>2, <1>5 DEF CacheFresh
  <2>2. Current(e) /\ (cache[e] \in marks.stale => Parted(e))
    BY <2>1 DEF Fresh, CacheFresh
  <2>3. e[1] \in Ifaces /\ e[2] \in Addrs
    BY DEF Egresses
  <2>4. CASE e[1] = i
    <3>1. e[2] = link[i]
      BY <1>3, <2>2, <2>4 DEF Current
    <3>2. Parted(e)'
      BY <1>4, <2>4, <3>1 DEF Parted
    <3> QED
      BY <1>2, <1>6, <2>2, <3>2 DEF CacheFresh
  <2>5. CASE e[1] # i
    <3>1. cache[e] \in marks'.stale => cache[e] \in marks.stale
      BY <1>5, <2>1, <2>5, CachedFor
    <3>2. Parted(e)' <=> Parted(e)
      BY <1>4, <2>3, <2>5 DEF Parted
    <3> QED
      BY <1>2, <1>6, <2>2, <3>1, <3>2 DEF CacheFresh
  <2> QED
    BY <2>4, <2>5
<1>8. ASSUME NEW t \in Threads PROVE ThreadFresh(t)'
  <2>1. ThreadFresh(t)
    BY DEF Fresh
  <2>2. ASSUME at[t] \in {"made", "send"}, Aged(has[t].client)' PROVE Parted(has[t].egress)'
    <3>1. /\ has[t].client \in Clients /\ has[t].egress \in Egresses
          /\ client[has[t].client].egress = has[t].egress
      BY <2>2, HeldFor
    <3>2. has[t].egress[1] \in Ifaces /\ has[t].egress[2] \in Addrs
      BY <3>1 DEF Egresses
    <3>3. CASE has[t].egress[1] = i
      <4>1. a = None
        BY <1>1, <2>2, <3>3
      <4> QED
        BY <1>2, <1>4, <3>2, <3>3, <4>1, NoneIsNoEgress DEF Parted
    <3>4. CASE has[t].egress[1] # i
      <4>1. Aged(has[t].client)
        BY <1>2, <1>5, <2>2, <3>1, <3>4 DEF Aged
      <4>2. Parted(has[t].egress)
        BY <2>1, <2>2, <4>1 DEF ThreadFresh
      <4> QED
        BY <1>2, <1>4, <3>2, <3>4, <4>2 DEF Parted
    <3> QED
      BY <3>3, <3>4
  <2>3. at'[t] \in {"made", "send"} /\ Aged(has[t].client)' => Parted(has[t].egress)'
    BY <1>2, <2>2
  <2> QED
    BY <1>2, <1>6, <2>1, <2>3 DEF ThreadFresh
<1> QED
  BY <1>2, <1>7, <1>8 DEF Fresh

LEMMA ElapseFresh == ASSUME IInv, Fresh, Elapse PROVE Fresh'
<1>1. /\ client' = [c \in Clients |-> [client[c] EXCEPT !.backoff = FALSE]]
      /\ UNCHANGED <<link, staged, poll, cache, at, has, dropped, marks>>
  BY DEF Elapse, world, ghosts
<1>2. ASSUME NEW c \in Clients PROVE client'[c].egress = client[c].egress
  <2>1. client[c] \in ClientRecords /\ client'[c] = [client[c] EXCEPT !.backoff = FALSE]
    BY <1>1, ClientFields DEF IInv
  <2> QED
    BY <2>1 DEF ClientRecords
<1>3. \A d : SameMarks(d)
  BY <1>1 DEF SameMarks
<1>4. ASSUME NEW e \in Egresses PROVE CacheFresh(e)'
  BY <1>1, <1>3, CacheStays DEF Fresh
<1>5. ASSUME NEW t \in Threads PROVE ThreadFresh(t)'
  <2>1. at[t] = "send" => client'[has[t].client].egress = client[has[t].client].egress
    BY <1>2, HeldFor
  <2> QED
    BY <1>1, <1>3, <2>1, ThreadStays DEF Fresh
<1> QED
  BY <1>1, <1>4, <1>5 DEF Fresh
-----------------------------------------------------------------------------
(* Drops.  What the cache still has is then of the interface in use or was *)
(* late before, and who makes a client of the rest knows.                  *)

LEMMA DroppedIs ==
  ASSUME IInv, NEW gone \in SUBSET Egresses, Drop(gone), UNCHANGED <<at, has>>
  PROVE  /\ \A e \in Egresses : cache'[e] # 0 => e \notin gone /\ cache'[e] = cache[e]
         /\ \A t \in Threads : at[t] \in {"make", "made"} /\ t \notin dropped' =>
              t \notin dropped /\ has[t].egress \in Egresses \ gone
         /\ marks' = marks
BY DEF Drop, IInv, Sound, ThreadSound

LEMMA DropFresh ==
  ASSUME IInv, Fresh, NEW gone \in SUBSET Egresses, Drop(gone), UNCHANGED <<link, client, at, has>>,
         poll' \in {None, staged'.iface},
         \A e \in Egresses \ gone : ~Current(e)
  PROVE  Fresh'
<1>1. /\ \A e \in Egresses : cache'[e] # 0 => e \notin gone /\ cache'[e] = cache[e]
      /\ \A t \in Threads : at[t] \in {"make", "made"} /\ t \notin dropped' =>
           t \notin dropped /\ has[t].egress \in Egresses \ gone
      /\ marks' = marks
  BY DroppedIs
<1>2. ASSUME NEW e \in Egresses PROVE CacheFresh(e)'
  BY <1>1 DEF Fresh, CacheFresh
<1>3. ASSUME NEW t \in Threads PROVE ThreadFresh(t)'
  <2>1. ThreadFresh(t)
    BY DEF Fresh
  <2>2. at[t] \in {"make", "made"} => t \in dropped'
    BY <1>1, <2>1 DEF ThreadFresh
  <2> QED
    BY <1>1, <2>1, <2>2 DEF ThreadFresh, Aged, Parted
<1> QED
  BY <1>2, <1>3 DEF Fresh

LEMMA EvictFresh == ASSUME IInv, Fresh, Evict PROVE Fresh'
<1>1. /\ poll # None /\ Drop(OfIface(poll)) /\ poll' = None
      /\ UNCHANGED <<link, client, at, has>>
  BY DEF Evict, world
<1>2. poll = staged.iface
  BY <1>1 DEF Fresh
<1>3. \A e \in Egresses \ OfIface(poll) : ~Current(e)
  BY <1>2 DEF OfIface, Current
<1>4. PICK gone \in SUBSET Egresses : Drop(gone) /\ \A e \in Egresses \ gone : ~Current(e)
  <2>1. OfIface(poll) \in SUBSET Egresses
    BY DEF OfIface
  <2> QED
    BY <1>1, <1>3, <2>1
<1> QED
  BY <1>1, <1>4, DropFresh

LEMMA RestageFresh == ASSUME IInv, Fresh, Restage PROVE Fresh'
<1>1. PICK i \in Ifaces \ {staged.iface} :
        /\ staged' = [iface |-> i, addr |-> link[i]]
        /\ Retain(IF link[i] = None THEN {} ELSE {<<i, link[i]>>})
  BY DEF Restage
<1>2. UNCHANGED <<link, client, at, has>> /\ poll = None /\ poll' = None
  BY DEF Restage, world
<1> DEFINE live == IF link[i] = None THEN {} ELSE {<<i, link[i]>>}
<1>3. Drop(Egresses \ live)
  BY <1>1 DEF Retain
<1>4. \A e \in live : ~Current(e)
  BY <1>1 DEF Current
<1>5. PICK gone \in SUBSET Egresses : Drop(gone) /\ \A e \in Egresses \ gone : ~Current(e)
  <2> HIDE DEF live
  <2>1. \A e \in Egresses \ (Egresses \ live) : e \in live
    OBVIOUS
  <2> QED
    BY <1>3, <1>4, <2>1
<1> QED
  BY <1>2, <1>5, DropFresh

-----------------------------------------------------------------------------
(* The steps of a thread.                                                  *)

LEMMA FireFresh == ASSUME IInv, Fresh, NEW t \in Threads, Fire(t) PROVE Fresh'
<1>1. PICK e \in Live :
        IF cache[e] # 0
        THEN /\ at' = [at EXCEPT ![t] = "send"]
             /\ has' = [has EXCEPT ![t] = [egress |-> e, client |-> cache[e]]]
        ELSE /\ at' = [at EXCEPT ![t] = "make"]
             /\ has' = [has EXCEPT ![t] = [egress |-> e, client |-> 0]]
  BY DEF Fire, ForDestination
<1>2. UNCHANGED <<link, staged, poll, cache, client, dropped, marks>>
  BY DEF Fire, world, ghosts
<1>3. e \in Egresses /\ Current(e)
  BY <1>1, LiveEgresses DEF IInv, Live, Current
<1>4. \A u \in Threads \ {t} : at'[u] = at[u] /\ has'[u] = has[u]
  BY <1>1 DEF IInv, TypeOK
<1>5. \A d : SameMarks(d)
  BY <1>2 DEF SameMarks
<1>6. ThreadFresh(t)'
  <2>1. CASE cache[e] # 0
    <3>1. at'[t] = "send" /\ has'[t].egress = e /\ has'[t].client = cache[e]
      BY <1>1, <2>1 DEF IInv, TypeOK
    <3>2. client[cache[e]].egress = e
      BY <1>3, <2>1, CachedFor
    <3>3. Aged(cache[e]) => Parted(e)
      BY <1>3, <2>1 DEF Fresh, CacheFresh, Aged
    <3> QED
      BY <1>2, <3>1, <3>2, <3>3 DEF ThreadFresh, Aged, Parted
  <2>2. CASE cache[e] = 0
    <3>1. at'[t] = "make" /\ has'[t].egress = e
      BY <1>1, <2>2 DEF IInv, TypeOK
    <3> QED
      BY <1>2, <1>3, <3>1 DEF ThreadFresh, Current
  <2> QED
    BY <2>1, <2>2
<1>7. ASSUME NEW f \in Egresses PROVE CacheFresh(f)'
  BY <1>2, <1>5, CacheStays DEF Fresh
<1>8. ASSUME NEW u \in Threads PROVE ThreadFresh(u)'
  BY <1>2, <1>4, <1>5, <1>6, ThreadStays DEF Fresh
<1> QED
  BY <1>2, <1>7, <1>8 DEF Fresh

\* A client that is made is nobody's before, and new.
LEMMA MakeFresh == ASSUME IInv, Fresh, NEW t \in Threads, Make(t) PROVE Fresh'
<1> DEFINE unused == {c \in Clients : client[c] = Free \/ (c \in marks.reopened /\ ~Held(c) /\ ~Cached(c))}
<1>1. at[t] = "make" /\ UNCHANGED <<link, staged, poll, cache>>
  BY DEF Make, world
<1>2. ASSUME unused # {},
             client' = [client EXCEPT ![Min(unused)] =
               [egress |-> has[t].egress, sock |-> proto = "udp", backoff |-> FALSE]],
             has' = [has EXCEPT ![t].client = Min(unused)], marks' = Unmarked(Min(unused)),
             at' = [at EXCEPT ![t] = "made"], UNCHANGED dropped
      PROVE  Fresh'
  <2>1. Min(unused) \in unused
    <3>1. unused \in SUBSET Clients
      OBVIOUS
    <3> QED
      BY <1>2, <3>1, MinOfClients
  <2>2. PICK c \in Clients : /\ c = Min(unused)
                             /\ client[c] = Free \/ (c \in marks.reopened /\ ~Held(c) /\ ~Cached(c))
    BY <2>1
  <2>3. ~Held(c) /\ ~Cached(c)
    BY <2>2 DEF IInv, Sound, ClientSound
  <2>4. c \notin marks'.stale /\ \A d : d # c => SameMarks(d)
    BY <1>2, <2>2, UnmarkedStay DEF IInv
  <2>5. \A u \in Threads \ {t} : at'[u] = at[u] /\ has'[u] = has[u]
    BY <1>2 DEF IInv, TypeOK
  <2>6. at'[t] = "made" /\ has'[t].egress = has[t].egress /\ has'[t].client = c
    BY <1>2, <2>2 DEF IInv, TypeOK
  <2>7. ThreadFresh(t)'
    <3> HIDE DEF unused
    <3>1. t \notin dropped => Current(has[t].egress)
      BY <1>1 DEF Fresh, ThreadFresh
    <3>2. PICK e : e = has[t].egress
      OBVIOUS
    <3>3. t \notin dropped' => Current(e)'
      BY <1>1, <1>2, <3>1, <3>2 DEF Current
    <3>4. c \notin marks'.stale
      BY <2>4
    <3> QED
      BY <2>6, <3>2, <3>3, <3>4 DEF ThreadFresh, Aged
  <2>8. ASSUME NEW e \in Egresses PROVE CacheFresh(e)'
    <3>1. cache[e] # c
      BY <2>3 DEF Cached
    <3> QED
      BY <1>1, <2>4, <3>1, CacheStays DEF Fresh
  <2>9. ASSUME NEW u \in Threads, u # t PROVE ThreadFresh(u)'
    <3>1. has[u].client # c
      BY <2>3 DEF Held
    <3>2. client'[has[u].client] = client[has[u].client]
      BY <1>2, <2>2, <3>1 DEF IInv, TypeOK
    <3> QED
      BY <1>1, <1>2, <2>4, <2>5, <2>9, <3>1, <3>2, ThreadStays DEF Fresh
  <2> QED
    BY <1>1, <2>7, <2>8, <2>9 DEF Fresh
<1>3. ASSUME Back(t), dropped' = dropped \ {t}, UNCHANGED <<client, marks>>
      PROVE  Fresh'
  <2>1. at'[t] = "idle" /\ \A u \in Threads \ {t} : at'[u] = at[u] /\ has'[u] = has[u]
    BY <1>3 DEF Back, IInv, TypeOK
  <2>2. \A d : SameMarks(d)
    BY <1>3 DEF SameMarks
  <2>3. ThreadFresh(t)'
    BY <2>1 DEF ThreadFresh
  <2>4. ASSUME NEW e \in Egresses PROVE CacheFresh(e)'
    BY <1>1, <2>2, CacheStays DEF Fresh
  <2>5. ASSUME NEW u \in Threads, u # t PROVE ThreadFresh(u)'
    BY <1>1, <1>3, <2>1, <2>2, <2>5, ThreadStays DEF Fresh
  <2> QED
    BY <1>1, <2>3, <2>4, <2>5 DEF Fresh
<1> QED
  BY <1>2, <1>3 DEF Make

\* Who loses to a client that is cached sends by that one; who wins caches
\* its own, of the interface in use or marked late.
LEMMA InsertFresh == ASSUME IInv, Fresh, NEW t \in Threads, Insert(t) PROVE Fresh'
<1>1. /\ at[t] = "made" /\ at' = [at EXCEPT ![t] = "send"] /\ dropped' = dropped \ {t}
      /\ UNCHANGED <<link, staged, poll>>
  BY DEF Insert, world
<1>2. PICK c \in Clients : c = has[t].client
  BY <1>1, HeldFor
<1>3. PICK e \in Egresses : e = has[t].egress
  BY <1>1, HeldFor
<1>4. /\ client[c].egress = e /\ ~Cached(c) /\ c # 0
      /\ \A u \in Threads : has[u].client = c => u = t
  BY <1>1, <1>2, <1>3 DEF IInv, Sound, ThreadSound
<1>5. CASE cache[e] # 0
  <2>1. /\ client' = [client EXCEPT ![c] = Free] /\ has' = [has EXCEPT ![t].client = cache[e]]
        /\ cache' = cache /\ marks' = Unmarked(c)
    BY <1>2, <1>3, <1>5 DEF Insert, Inserted
  <2>2. \A d : d # c => SameMarks(d)
    BY <2>1, UnmarkedStay DEF IInv
  <2>3. \A f \in Egresses : cache[f] # c
    BY <1>4 DEF Cached
  <2>4. /\ at'[t] = "send" /\ has'[t].egress = e /\ has'[t].client = cache[e]
        /\ \A u \in Threads \ {t} : at'[u] = at[u] /\ has'[u] = has[u]
    BY <1>1, <1>3, <2>1 DEF IInv, TypeOK
  <2>5. \A d \in Clients \ {c} : client'[d] = client[d]
    BY <2>1 DEF IInv, TypeOK
  <2>6. ThreadFresh(t)'
    <3>1. client'[cache[e]].egress = e
      BY <1>5, <2>3, <2>5, CachedFor
    <3>2. cache[e] \in marks.stale \ marks.late => Parted(e)
      BY <1>5 DEF Fresh, CacheFresh
    <3>3. SameMarks(cache[e])
      BY <2>2, <2>3
    <3>4. has'[t].client \in marks'.stale \ marks'.late => link'[e[1]] # e[2]
      BY <1>1, <2>4, <3>2, <3>3 DEF SameMarks, Parted
    <3> QED
      BY <2>4, <3>1, <3>4 DEF ThreadFresh, Aged, Parted
  <2>7. ASSUME NEW f \in Egresses PROVE CacheFresh(f)'
    BY <1>1, <2>1, <2>2, <2>3, CacheStays DEF Fresh
  <2>8. ASSUME NEW u \in Threads, u # t PROVE ThreadFresh(u)'
    <3>1. has[u].client # c
      BY <1>4, <2>8
    <3>2. at[u] = "send" => client'[has[u].client] = client[has[u].client]
      BY <2>5, <3>1, HeldFor
    <3> QED
      BY <1>1, <2>2, <2>4, <2>8, <3>1, <3>2, ThreadStays DEF Fresh
  <2> QED
    BY <1>1, <2>6, <2>7, <2>8 DEF Fresh
<1>6. CASE cache[e] = 0
  <2>1. /\ cache' = [cache EXCEPT ![e] = c] /\ has' = has /\ client' = client
        /\ marks' = IF t \in dropped THEN [marks EXCEPT !.late = @ \cup {c}] ELSE marks
    BY <1>2, <1>3, <1>6 DEF Insert, Inserted
  <2>2. /\ marks'.stale = marks.stale /\ (t \in dropped => c \in marks'.late)
        /\ \A d : d # c => SameMarks(d)
        /\ c \in marks.late => c \in marks'.late
    BY <2>1 DEF IInv, Marks, SameMarks
  <2>3. /\ at'[t] = "send" /\ \A u \in Threads \ {t} : at'[u] = at[u]
    BY <1>1 DEF IInv, TypeOK
  <2>4. Aged(c)' => Parted(e)'
    BY <1>1, <1>2, <1>3, <2>2 DEF Fresh, ThreadFresh, Aged, Parted
  <2>5. ThreadFresh(t)'
    BY <1>2, <1>3, <1>4, <2>1, <2>3, <2>4 DEF ThreadFresh
  <2>6. t \notin dropped => Current(e)'
    BY <1>1, <1>3 DEF Fresh, ThreadFresh, Current
  <2>7. ASSUME NEW f \in Egresses PROVE CacheFresh(f)'
    <3>1. CASE f = e
      <4>1. cache'[f] = c
        BY <2>1, <3>1 DEF IInv, TypeOK
      <4> QED
        BY <2>2, <2>4, <2>6, <3>1, <4>1 DEF CacheFresh, Aged
    <3>2. CASE f # e
      <4>1. cache'[f] = cache[f] /\ cache[f] # c
        BY <1>4, <2>1, <3>2 DEF Cached, IInv, TypeOK
      <4> QED
        BY <1>1, <2>2, <4>1, CacheStays DEF Fresh
    <3> QED
      BY <3>1, <3>2
  <2>8. ASSUME NEW u \in Threads, u # t PROVE ThreadFresh(u)'
    <3>1. has[u].client # c
      BY <1>4, <2>8
    <3> QED
      BY <1>1, <2>1, <2>2, <2>3, <2>8, <3>1, ThreadStays DEF Fresh
  <2> QED
    BY <1>1, <2>5, <2>7, <2>8 DEF Fresh
<1> QED
  BY <1>5, <1>6

\* Who gives its client back leaves it to the others as it is, but for the
\* socket and the backoff.
LEMMA SendFresh == ASSUME IInv, Fresh, NEW t \in Threads, Send(t) PROVE Fresh'
<1>1. at[t] = "send" /\ Back(t) /\ UNCHANGED <<link, staged, poll, cache, dropped>>
  BY DEF Send, world
<1>2. PICK c \in Clients : c = has[t].client
  BY <1>1, HeldFor
<1>3. PICK now \in ClientRecords : now = client[c]
  BY ClientFields DEF IInv
<1>4. PICK new : /\ client' = [client EXCEPT ![c] = Released(c, t, new)]
                 /\ new \in {now, [now EXCEPT !.sock = TRUE], MarkedFailed(now)}
  BY <1>2, <1>3 DEF Send
<1>5. new.egress = now.egress
  <2>1. [now EXCEPT !.sock = TRUE].egress = now.egress /\ MarkedFailed(now).egress = now.egress
    BY SocketChanges
  <2> QED
    BY Zenon, <1>4, <2>1
<1>6. \A d : SameMarks(d)
  <2>1. UNCHANGED marks \/ Reopened(c)
    BY <1>2 DEF Send
  <2> QED
    BY <2>1, OtherMarks DEF Reopened, IInv
<1>7. ASSUME NEW u \in Threads, u # t, at[u] = "send"
      PROVE  client'[has[u].client].egress = client[has[u].client].egress
  <2>1. has[u].client \in Clients
    BY <1>7, HeldFor
  <2>2. CASE has[u].client = c
    <3>1. Released(c, t, new) = new
      BY <1>7, <2>2 DEF Released
    <3>2. client'[c] = new
      BY <1>4, <3>1 DEF IInv, TypeOK
    <3> QED
      BY Zenon, <1>3, <1>5, <2>2, <3>2
  <2>3. CASE has[u].client # c
    BY <1>4, <2>1, <2>3 DEF IInv, TypeOK
  <2> QED
    BY <2>2, <2>3
<1>8. at'[t] = "idle" /\ \A u \in Threads \ {t} : at'[u] = at[u] /\ has'[u] = has[u]
  BY <1>1 DEF Back, IInv, TypeOK
<1>9. ThreadFresh(t)'
  BY <1>8 DEF ThreadFresh
<1>10. ASSUME NEW e \in Egresses PROVE CacheFresh(e)'
  BY <1>1, <1>6, CacheStays DEF Fresh
<1>11. ASSUME NEW u \in Threads, u # t PROVE ThreadFresh(u)'
  BY <1>1, <1>6, <1>7, <1>8, <1>11, ThreadStays DEF Fresh
<1> QED
  BY <1>1, <1>9, <1>10, <1>11 DEF Fresh

LEMMA CloseFresh == ASSUME IInv, Fresh, NEW c \in Clients, Close(c) PROVE Fresh'
<1>1. c \in closing /\ ~Cached(c) /\ UNCHANGED <<link, staged, poll, cache, at, has, dropped>>
  BY DEF Close, world, IInv, TypeOK
<1>2. (\A d : d # c => SameMarks(d)) /\ (Held(c) => SameMarks(c))
  <2>1. CASE Held(c)
    <3>1. marks' = [marks EXCEPT !.closed = marks.closed \cup {c}]
      BY <2>1 DEF Close
    <3>2. marks'.stale = marks.stale /\ marks'.late = marks.late
      BY <3>1 DEF IInv, Marks
    <3> QED
      BY <3>2 DEF SameMarks
  <2>2. CASE ~Held(c)
    <3>1. marks' = Unmarked(c)
      BY <2>2 DEF Close
    <3> QED
      BY <2>2, <3>1, UnmarkedStay DEF IInv
  <2> QED
    BY <2>1, <2>2
<1>3. \A e \in Egresses : cache[e] # c
  BY <1>1 DEF Cached
<1>4. ASSUME NEW e \in Egresses PROVE CacheFresh(e)'
  BY <1>1, <1>2, <1>3, CacheStays DEF Fresh
<1>5. ASSUME NEW u \in Threads PROVE ThreadFresh(u)'
  <2>1. SameMarks(has[u].client)
    BY <1>2 DEF Held
  <2>2. ASSUME at[u] = "send" PROVE client'[has[u].client].egress = client[has[u].client].egress
    <3>1. has[u].client \in Clients
      BY <2>2, HeldFor
    <3>2. CASE has[u].client = c
      <4>1. client' = [client EXCEPT ![c] = [client[c] EXCEPT !.sock = FALSE]]
        BY <3>2 DEF Close, Held
      <4>2. client'[c] = [client[c] EXCEPT !.sock = FALSE]
        BY <4>1 DEF IInv, TypeOK
      <4>3. [client[c] EXCEPT !.sock = FALSE].egress = client[c].egress
        BY ClientFields, SocketChanges DEF IInv
      <4> QED
        BY Zenon, <3>2, <4>2, <4>3
    <3>3. CASE has[u].client # c
      BY <3>1, <3>3 DEF Close, IInv, TypeOK
    <3> QED
      BY <3>2, <3>3
  <2> QED
    BY <1>1, <2>1, <2>2, ThreadStays DEF Fresh
<1> QED
  BY <1>1, <1>4, <1>5 DEF Fresh

-----------------------------------------------------------------------------

LEMMA StepFresh == IInv /\ Fresh /\ [Next]_vars => Fresh'
<1> SUFFICES ASSUME IInv, Fresh, [Next]_vars PROVE Fresh'
  OBVIOUS
<1>1. ASSUME NEW t \in Threads, Sending(t) PROVE Fresh'
  BY <1>1, FireFresh, MakeFresh, InsertFresh, SendFresh DEF Sending
<1>2. ASSUME NEW c \in Clients, Close(c) PROVE Fresh'
  BY <1>2, CloseFresh
<1>3. ASSUME NEW i \in Ifaces, Flap(i) PROVE Fresh'
  BY <1>3, FlapFresh
<1>4. CASE UNCHANGED vars
  BY <1>4 DEF vars, world, ghosts, Fresh, CacheFresh, ThreadFresh, Current, Parted, Aged
<1> QED
  BY <1>1, <1>2, <1>3, <1>4, MarkFresh, EvictFresh, RestageFresh, ElapseFresh DEF Next

\* A client that is fresh is parted when its socket is old.
LEMMA SentFresh ==
  IInv /\ Fresh =>
    \A t \in Threads :
      Send(t) /\ client[has[t].client].sock /\ Reachable(has[t].client)
        => has[t].client \notin marks.stale \ marks.late
<1> SUFFICES ASSUME IInv, Fresh, NEW t \in Threads, Send(t), Reachable(has[t].client)
             PROVE  has[t].client \notin marks.stale \ marks.late
  OBVIOUS
<1>1. at[t] = "send"
  BY DEF Send
<1>2. ~Parted(has[t].egress)
  BY <1>1, HeldFor DEF Reachable, Parted
<1> QED
  BY <1>1, <1>2 DEF Fresh, ThreadFresh, Aged

\* OscService, _mark_osc_egress: what gets out gets out by a socket made after
\* the last outage of its interface, whatever threads make clients while the
\* poll marks and evicts, and however often the address goes and comes; but by
\* a client whose egress was dropped while it was made.
THEOREM SentByFreshSockets == Spec => FreshAfterOutage
<1>1. Init => IInv /\ Fresh
  BY InitSound, InitFresh
<1>2. IInv /\ Fresh /\ [Next]_vars => (IInv /\ Fresh)'
  BY StepSound, StepFresh
<1> QED
  BY <1>1, <1>2, SentFresh, PTL DEF Spec, FreshAfterOutage
=============================================================================
