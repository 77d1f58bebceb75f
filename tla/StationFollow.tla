--------------------------- MODULE StationFollow ---------------------------
(***************************************************************************)
(* The services that follow the station's interface without a plane of     *)
(* their own: the discovery beacon (web/discovery.py, repointed through    *)
(* web/server.py) and marker-catalog sync (marker_catalog/sync.py).  Each  *)
(* has a send and a receive loop with a socket and a reopen event.  The    *)
(* housekeeping poll repoints them (_follow_station_ip in services.py) and *)
(* so do web requests, which ask for the station's address at most once in *)
(* a while.                                                                *)
(*                                                                         *)
(* The station has an interface configured.  When its address goes away    *)
(* the kernel drops what sockets hold on it, and the same address coming   *)
(* back does not restore that.  An outage no poll sees is not claimed.     *)
(***************************************************************************)
EXTENDS Naturals

CONSTANTS
  Loops,      \* the loops of this instance, a subset of AllLoops
  Addrs,      \* addresses the interface may get
  DownPolls,  \* DOWN_POLLS_BEFORE_SUSPEND
  RefreshTTL, \* _LOCAL_IP_REFRESH_TTL, in polls
  RxTries,    \* _RX_OPEN_MAX_RETRIES
  MaxStall,   \* bound: polls a web request may take to use what it resolved
  MaxChanges, \* bound: changes of the interface and of the port's owner
  None

AllLoops == {"beacon_tx", "beacon_rx", "catalog_tx", "catalog_rx"}
BeaconLoops == Loops \cap {"beacon_tx", "beacon_rx"}
CatalogLoops == Loops \cap {"catalog_tx", "catalog_rx"}

ASSUME StationFollowAssumption ==
  /\ Loops \subseteq AllLoops
  /\ DownPolls \in Nat \ {0} /\ RxTries \in Nat \ {0}
  /\ RefreshTTL \in Nat /\ MaxStall \in Nat /\ MaxChanges \in Nat
  /\ None \notin Addrs

VARIABLES
  addr,       \* the interface's address, or None
  portTaken,  \* another process has the catalog's port
  beaconIp,   \* _iface_ip of both beacons
  catalogIp,  \* MarkerCatalogSync._iface_ip
  reopen,     \* the loops' reopen events
  pc,         \* where the loops are
  sock,       \* the address a loop's socket was opened on, or None
  lost,       \* the loops whose socket an outage cut off, as a poll saw
  tries,      \* the catalog's failed attempts to bind its port
  downPolls, sawOutage, suspended,  \* _station_down_polls and so on
  throttle,   \* polls until a refresh may resolve again
  request,    \* the web request between resolving and using it, or None
  changes

net == <<addr, portTaken, changes>>
station == <<downPolls, sawOutage, suspended>>
web == <<throttle, request>>
loops == <<pc, sock, lost, tries>>
vars == <<net, beaconIp, catalogIp, reopen, loops, station, web>>

-----------------------------------------------------------------------------
(* Repointing.                                                             *)

Ring(S) == reopen' = [l \in Loops |-> reopen[l] \/ l \in S]

\* update_iface_ip and reopen of the beacons: the loops to wake.
WakeBeacons(a, force) == IF a # beaconIp \/ force THEN BeaconLoops ELSE {}

\* Mutant of WakeCatalog: an unchanged address is a no-op, whatever happened.
WakeCatalogOnMove(a, force) ==
  IF a # catalogIp /\ force \in BOOLEAN THEN CatalogLoops ELSE {}

\* MarkerCatalogSync.update_iface_ip
WakeCatalog(a, force) == IF a # catalogIp \/ force THEN CatalogLoops ELSE {}

\* _refresh_local_ip from a request: the throttle, and what the resolver says.
Ask ==
  /\ BeaconLoops # {}
  /\ request = None
  /\ throttle = 0
  /\ throttle' = RefreshTTL
  /\ request' = [addr |-> addr, age |-> 0]
  /\ UNCHANGED <<net, beaconIp, catalogIp, reopen, loops, station>>

\* The rest of it: no address stops the beacons, a new one repoints them.
Answer ==
  /\ request # None
  /\ beaconIp' = request.addr
  /\ Ring(WakeBeacons(request.addr, FALSE))
  /\ request' = None
  /\ UNCHANGED <<net, catalogIp, loops, station, throttle>>

\* _follow_station_ip, once per poll.
Tick == throttle' = (IF throttle = 0 THEN 0 ELSE throttle - 1)
Age == /\ request # None => request.age < MaxStall
       /\ request' = IF request = None THEN None ELSE [request EXCEPT !.age = @ + 1]

Suspends == ~suspended /\ downPolls + 1 >= DownPolls

\* suspend_beacons() and update_iface_ip(None)
Suspended ==
  /\ suspended' = TRUE
  /\ beaconIp' = None
  /\ catalogIp' = None
  /\ Ring(WakeBeacons(None, FALSE) \cup WakeCatalog(None, FALSE))

FollowDown ==
  /\ addr = None
  /\ Age /\ Tick
  /\ sawOutage' = TRUE
  /\ downPolls' = IF downPolls < DownPolls THEN downPolls + 1 ELSE downPolls
  /\ IF Suspends THEN Suspended ELSE UNCHANGED <<suspended, beaconIp, catalogIp, reopen>>
  /\ lost' = {l \in Loops : sock[l] # None}
  /\ UNCHANGED <<net, pc, sock, tries>>

\* reopen_beacons() after an outage, unless the refresh has done it.
Rebuilt(repoints) == IF repoints \/ sawOutage THEN BeaconLoops ELSE {}

\* The refresh goes first.  Where it is throttled or finds nothing to repoint, an
\* outage has the beacons rebuilt; the catalog is told to rebuild as it is.
FollowUp ==
  LET refreshes == BeaconLoops # {} /\ throttle <= 1
      repoints == refreshes /\ beaconIp # addr
  IN
  /\ addr # None
  /\ Age
  /\ IF refreshes THEN throttle' = RefreshTTL ELSE Tick
  /\ beaconIp' = IF refreshes THEN addr ELSE beaconIp
  /\ catalogIp' = addr
  /\ Ring(Rebuilt(repoints) \cup WakeCatalog(addr, sawOutage))
  /\ sawOutage' = FALSE /\ downPolls' = 0 /\ suspended' = FALSE
  /\ UNCHANGED <<net, loops>>

-----------------------------------------------------------------------------
(* The loops.                                                              *)

ConfiguredIp(l) == IF l \in BeaconLoops THEN beaconIp ELSE catalogIp

Drop(l) == sock' = [sock EXCEPT ![l] = None] /\ lost' = lost \ {l}

\* Mutant of Clear: one event for both loops.
ClearBoth(l) == reopen' = [k \in Loops |-> FALSE /\ l \in Loops]

\* The event is cleared before the open reads the address.  Only the beacon's
\* receiver, with no socket, goes straight to the open.
Clear(l) ==
  reopen' = IF l = "beacon_rx" /\ sock[l] = None THEN reopen ELSE [reopen EXCEPT ![l] = FALSE]

\* A loop that was told to, or has no socket, drops what it has.
Rebuild(l) ==
  /\ \/ pc[l] = "run" /\ reopen[l]
     \/ pc[l] = "wait"
     \/ pc[l] = "parked" /\ reopen[l]
  /\ Clear(l)
  /\ Drop(l)
  /\ pc' = [pc EXCEPT ![l] = "open"]
  /\ UNCHANGED <<net, beaconIp, catalogIp, tries, station, web>>

\* An address that is gone may be accepted: the interface is named by its index.
Open(l) ==
  /\ pc[l] = "open"
  /\ ConfiguredIp(l) # None
  /\ l = "catalog_rx" => ~portTaken
  /\ sock' = [sock EXCEPT ![l] = ConfiguredIp(l)] /\ lost' = lost \ {l}
  /\ pc' = [pc EXCEPT ![l] = "run"]
  /\ tries' = IF l = "catalog_rx" THEN 0 ELSE tries
  /\ UNCHANGED <<net, beaconIp, catalogIp, reopen, station, web>>

\* InterfaceUnavailable, waited out for as long as it lasts.
OpenUnavailable(l) ==
  /\ pc[l] = "open"
  /\ l = "catalog_rx" => ~portTaken
  /\ ConfiguredIp(l) = None \/ ConfiguredIp(l) # addr
  /\ pc' = [pc EXCEPT ![l] = "wait"]
  /\ UNCHANGED <<net, beaconIp, catalogIp, reopen, sock, lost, tries, station, web>>

\* Mutant of BindFails: the attempts are counted past the limit.
BindFailsOnce ==
  /\ "catalog_rx" \in Loops
  /\ pc["catalog_rx"] = "open"
  /\ portTaken
  /\ tries' = tries + 1
  /\ pc' = [pc EXCEPT !["catalog_rx"] = IF tries = RxTries THEN "parked" ELSE "wait"]
  /\ UNCHANGED <<net, beaconIp, catalogIp, reopen, sock, lost, station, web>>

\* The catalog's port is taken: so many attempts, then the loop parks until it
\* is repointed.
BindFails ==
  /\ "catalog_rx" \in Loops
  /\ pc["catalog_rx"] = "open"
  /\ portTaken
  /\ IF tries + 1 >= RxTries
     THEN tries' = 0 /\ pc' = [pc EXCEPT !["catalog_rx"] = "parked"]
     ELSE tries' = tries + 1 /\ pc' = [pc EXCEPT !["catalog_rx"] = "wait"]
  /\ UNCHANGED <<net, beaconIp, catalogIp, reopen, sock, lost, station, web>>

\* A send on an address that is gone may fail and drop the socket; a receive
\* only times out.
SendFails(l) ==
  /\ l \in {"beacon_tx", "catalog_tx"}
  /\ pc[l] = "run"
  /\ sock[l] # addr
  /\ Drop(l)
  /\ pc' = [pc EXCEPT ![l] = "wait"]
  /\ UNCHANGED <<net, beaconIp, catalogIp, reopen, tries, station, web>>

-----------------------------------------------------------------------------
Change == changes < MaxChanges /\ changes' = changes + 1

InterfaceChanges ==
  /\ Change
  /\ addr' \in (Addrs \cup {None}) \ {addr}
  /\ UNCHANGED <<portTaken, beaconIp, catalogIp, reopen, loops, station, web>>

PortChanges ==
  /\ Change
  /\ "catalog_rx" \in Loops
  /\ portTaken' = ~portTaken
  /\ UNCHANGED <<addr, beaconIp, catalogIp, reopen, loops, station, web>>

\* Both services are built with the address the station has.
Init ==
  /\ addr \in Addrs \cup {None}
  /\ portTaken \in BOOLEAN /\ (portTaken => "catalog_rx" \in Loops)
  /\ beaconIp = addr /\ catalogIp = addr
  /\ reopen = [l \in Loops |-> FALSE]
  /\ pc = [l \in Loops |-> "open"]
  /\ sock = [l \in Loops |-> None]
  /\ lost = {}
  /\ tries = 0
  /\ downPolls = 0 /\ sawOutage = FALSE /\ suspended = FALSE
  /\ throttle = 0 /\ request = None
  /\ changes = 0

Poll == FollowDown \/ FollowUp
LoopStep(l) == Rebuild(l) \/ Open(l) \/ OpenUnavailable(l) \/ (l = "catalog_rx" /\ BindFails)

Next ==
  \/ Ask \/ Answer
  \/ Poll
  \/ \E l \in Loops : LoopStep(l) \/ SendFails(l)
  \/ InterfaceChanges \/ PortChanges

Spec == Init /\ [][Next]_vars

\* Housekeeping polls, a request that resolved goes on, and the loops run.
FairSpec ==
  /\ Spec
  /\ WF_vars(Poll) /\ WF_vars(Answer)
  /\ \A l \in Loops : WF_vars(LoopStep(l))

-----------------------------------------------------------------------------
TypeOK ==
  /\ addr \in Addrs \cup {None} /\ portTaken \in BOOLEAN
  /\ beaconIp \in Addrs \cup {None} /\ catalogIp \in Addrs \cup {None}
  /\ reopen \in [Loops -> BOOLEAN]
  /\ pc \in [Loops -> {"open", "run", "wait", "parked"}]
  /\ sock \in [Loops -> Addrs \cup {None}]
  /\ lost \subseteq Loops
  /\ tries \in 0..RxTries - 1
  /\ downPolls \in 0..DownPolls
  /\ sawOutage \in BOOLEAN /\ suspended \in BOOLEAN
  /\ throttle \in 0..RefreshTTL
  /\ request \in [addr: Addrs \cup {None}, age: 0..MaxStall] \cup {None}
  /\ changes \in 0..MaxChanges

\* No repoint is lost: a loop that runs, and has no reopen pending, runs on the
\* address its service was last given, whenever that was given.
NoRepointLost ==
  \A l \in Loops : pc[l] = "run" /\ ~reopen[l] => sock[l] = ConfiguredIp(l)

\* When the interface keeps an address, every loop comes to have a socket on it
\* that no outage has cut off, even when it is the address the interface had
\* before; the catalog's receiver may have parked on a port it could not get.
Heals ==
  (\E a \in Addrs : <>[](addr = a)) =>
    <>[](\A l \in Loops : pc[l] = "parked" \/ (sock[l] = addr /\ l \notin lost))

\* When the interface stays dark the catalog keeps no socket: this station's
\* identity goes out on no other network.
CatalogGoesQuiet == <>[](addr = None) => <>[](\A l \in CatalogLoops : sock[l] = None)

\* Both: the loops come to be where the interface is, or nowhere.
FollowsTheStation == Heals /\ CatalogGoesQuiet
=============================================================================
