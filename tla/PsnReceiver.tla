---------------------------- MODULE PsnReceiver ----------------------------
(***************************************************************************)
(* PSN input (psn/receiver.py): the main loop starts, stops and moves the  *)
(* receiver and switches the feature, a receive thread per start decodes   *)
(* what other stations send, and what draws or sends markers reads them.   *)
(* stop() waits one second for its thread, which may still hold a packet.  *)
(*                                                                         *)
(* Time passes by _EVICT_SWEEP_INTERVAL_S.  A packet is about one tracker; *)
(* its position and speed are left out, and so are this station's own      *)
(* packets, dropped before they are decoded.                               *)
(***************************************************************************)
EXTENDS Naturals, Sequences

CONSTANTS
  Ids,       \* tracker ids
  Ttl,       \* _MARKER_TTL_S, in sweep intervals
  MaxStarts, \* bound: receive threads over a behaviour
  MaxOrders, \* bound: calls of the main loop
  None

PsnReceiverAssumption ==
  {Ttl, MaxStarts, MaxOrders} \subseteq Nat /\ None \notin Ids /\ None \notin Nat

Threads == 1 .. MaxStarts

VARIABLES
  enabled,    \* _enabled
  ignored,    \* _ignore_ids
  generation, \* _generation: the thread whose packets count, or 0
  receiver,   \* _receiver: the thread start() left, or 0
  thread,     \* per thread: whether its gate is stopped, the packet it holds
  todo,       \* what is left of the call the main loop is in
  markers,    \* _markers and _last_seen: the age of a marker, in intervals
  due,        \* whether the next sweep is due
  orders

vars == <<enabled, ignored, generation, receiver, thread, todo, markers, due, orders>>

Unborn == [state |-> "unborn", stopped |-> FALSE, packet |-> None]
Started == {g \in Threads : thread[g].state # "unborn"}

-----------------------------------------------------------------------------
(* The main loop.                                                          *)

Stopping == <<"quiet", "close">>
Rebinding == Stopping \o <<"open", "publish">>

Order(steps) ==
  /\ todo = <<>> /\ todo' = steps
  /\ orders < MaxOrders /\ orders' = orders + 1
  /\ UNCHANGED <<generation, receiver, thread, markers, due>>

\* init_psn_receiver with an address, and apply_psn_source_ip_change.
Rebind == Order(Rebinding) /\ UNCHANGED <<enabled, ignored>>

\* The interface is gone: _suspend_psn.
Suspend == Order(Stopping) /\ UNCHANGED <<enabled, ignored>>

\* set_enabled(False): stop, then forget.
Disable == Order(Append(Stopping, "forget")) /\ enabled' = FALSE /\ UNCHANGED ignored

\* apply_psn_input_change: a receiver that is bound is left alone, and one
\* whose interface has no address is not started.
Enable ==
  /\ \/ Order(<<>>)
     \/ receiver = 0 /\ Order(Rebinding)
  /\ enabled' = TRUE
  /\ UNCHANGED ignored

SetIgnoreIds ==
  /\ Order(<<>>)
  /\ ignored' \in SUBSET Ids \ {ignored}
  /\ UNCHANGED enabled

Now(step) == todo # <<>> /\ Head(todo) = step
Done == todo' = Tail(todo)

\* stop(), first under the lock.
Quiet ==
  /\ Now("quiet") /\ Done
  /\ generation' = 0
  /\ UNCHANGED <<enabled, ignored, receiver, thread, markers, due, orders>>

\* Then the gate, the join, which gives up after a second, and the socket.
Close ==
  /\ Now("close") /\ Done
  /\ IF receiver = 0
     THEN UNCHANGED <<thread, receiver>>
     ELSE thread' = [thread EXCEPT ![receiver].stopped = TRUE] /\ receiver' = 0
  /\ UNCHANGED <<enabled, ignored, generation, markers, due, orders>>

Forget ==
  /\ Now("forget") /\ Done
  /\ markers' = [i \in Ids |-> None]
  /\ UNCHANGED <<enabled, ignored, generation, receiver, thread, due, orders>>

\* start(): the thread runs before it is the one that counts.  Not while off;
\* without a socket or a thread it is given up.
Open ==
  /\ Now("open")
  /\ \/ /\ enabled /\ Done
        /\ \E g \in Threads \ Started :
             /\ \A older \in 1 .. g - 1 : older \in Started
             /\ thread' = [thread EXCEPT ![g].state = "reading"]
     \/ todo' = <<>> /\ UNCHANGED thread
  /\ UNCHANGED <<enabled, ignored, generation, receiver, markers, due, orders>>

Publish ==
  /\ Now("publish") /\ Done
  /\ \E g \in Started :
       /\ Started = 1 .. g
       /\ generation' = g /\ receiver' = g
  /\ UNCHANGED <<enabled, ignored, thread, markers, due, orders>>

-----------------------------------------------------------------------------
(* A receive thread.                                                       *)

Receive(g, i) ==
  /\ thread[g].state = "reading" /\ ~thread[g].stopped
  /\ thread' = [thread EXCEPT ![g] = [@ EXCEPT !.state = "holding", !.packet = i]]
  /\ UNCHANGED <<enabled, ignored, generation, receiver, todo, markers, due, orders>>

\* _sweep_if_due_locked
Swept == [i \in Ids |-> IF due /\ markers[i] # None /\ markers[i] > Ttl THEN None ELSE markers[i]]

\* Mutant: any thread's packet counts.
Counts(g) == g \in Started

\* A packet read before stop() is dropped after it, and so is one that comes
\* before start() is through.
IsCurrent(g) == g = generation

\* _on_packet
OnPacket(g) ==
  LET i == thread[g].packet IN
  /\ thread[g].state = "holding"
  /\ IF IsCurrent(g)
     THEN /\ markers' = IF i \in ignored THEN Swept ELSE [Swept EXCEPT ![i] = 0]
          /\ due' = FALSE
     ELSE UNCHANGED <<markers, due>>
  /\ thread' = [thread EXCEPT ![g] = [@ EXCEPT !.state = "reading", !.packet = None]]
  /\ UNCHANGED <<enabled, ignored, generation, receiver, todo, orders>>

End(g) ==
  /\ thread[g].state = "reading" /\ thread[g].stopped
  /\ thread' = [thread EXCEPT ![g].state = "ended"]
  /\ UNCHANGED <<enabled, ignored, generation, receiver, todo, markers, due, orders>>

-----------------------------------------------------------------------------
(* Readers, on any thread, and time.                                       *)

\* Swept on read too: with no peer left sending, no packet ever would.
GetMarker ==
  /\ markers' = Swept /\ due' = FALSE
  /\ UNCHANGED <<enabled, ignored, generation, receiver, thread, todo, orders>>

\* Ages count to one more than the time to live.
Tick ==
  /\ markers' = [i \in Ids |-> IF markers[i] \in 0 .. Ttl THEN markers[i] + 1 ELSE markers[i]]
  /\ due' = TRUE
  /\ UNCHANGED <<enabled, ignored, generation, receiver, thread, todo, orders>>

Init ==
  /\ enabled \in BOOLEAN /\ ignored = {}
  /\ generation = 0 /\ receiver = 0
  /\ thread = [g \in Threads |-> Unborn]
  /\ todo \in {<<>>, <<"open", "publish">>}
  /\ markers = [i \in Ids |-> None] /\ due = TRUE /\ orders = 0

MainStep == Quiet \/ Close \/ Forget \/ Open \/ Publish

Next ==
  \/ Rebind \/ Suspend \/ Disable \/ Enable \/ SetIgnoreIds \/ MainStep
  \/ \E g \in Threads : OnPacket(g) \/ End(g) \/ \E i \in Ids : Receive(g, i)
  \/ GetMarker \/ Tick

Spec == Init /\ [][Next]_vars

-----------------------------------------------------------------------------
(* Properties.                                                             *)

TypeOK ==
  /\ enabled \in BOOLEAN /\ due \in BOOLEAN /\ ignored \subseteq Ids
  /\ {generation, receiver} \subseteq 0 .. MaxStarts
  /\ thread \in [Threads -> [state : {"unborn", "reading", "holding", "ended"},
                            stopped : BOOLEAN, packet : Ids \cup {None}]]
  /\ markers \in [Ids -> (0 .. Ttl + 1) \cup {None}]

\* A reader gets a marker only while the input is on, and one heard within
\* its time to live: neither a packet a stopped thread still held brings one
\* back, nor does one stay because nobody sends any more.
ReadsWhatIsHeard ==
  [][GetMarker /\ todo = <<>> =>
       \A i \in Ids : markers'[i] # None => enabled /\ markers'[i] <= Ttl]_vars
=============================================================================
