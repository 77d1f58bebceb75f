---------------------------- MODULE NetworkPage ----------------------------
(***************************************************************************)
(* The network page of the station's own screen                            *)
(* (runtime/app_modes_network.py): the operator opens an interface, or in  *)
(* Simple mode has the station's, and puts it on DHCP, types an address or *)
(* renews its lease.  What is done to the host runs on a worker thread,    *)
(* which reads the interfaces again and hands both to the main thread;     *)
(* leaving the page orphans it.  A read for the page is given two seconds. *)
(* Interfaces come and go, and the configuration may name another one for  *)
(* the station while the page shows what was read.                         *)
(*                                                                         *)
(* An interface is a number, and a backend lists them by it.  An IPv4      *)
(* configuration is the set of interfaces its values come from: were read  *)
(* of, or typed for.  The worker's generation is whether it is the latest. *)
(***************************************************************************)
EXTENDS Naturals, FiniteSets, FiniteSetsExt

CONSTANTS
  Ifaces,     \* interfaces, as numbers
  MaxComings, \* bound: interfaces that come or go, and other stations saved
  Automatic,  \* the station on no interface by name
  None

NetworkPageAssumption ==
  /\ Ifaces \subseteq Nat /\ IsFiniteSet(Ifaces) /\ MaxComings \in Nat
  /\ Automatic # None /\ {Automatic, None} \cap Ifaces = {}
  /\ \A S \in SUBSET Ifaces : S # None

VARIABLES
  simple,   \* Simple network mode
  present,  \* the interfaces the backend lists
  station,  \* psn_source_iface of the running configuration
  page,     \* the page's state, _pi_network_*
  worker,   \* the worker under way
  result,   \* _pi_network_pending_result
  comings,
  astray    \* ghost: a read did not find the interface that is open

world == <<simple, present, station, comings>>
vars == <<world, page, worker, result, astray>>

Maybe(S) == S \cup {None}

-----------------------------------------------------------------------------
(* Reading.                                                                *)

Snapshot(names, active, pending, read) ==
  [names |-> names, active |-> active, pending |-> pending, station |-> read]

\* _read_pi_network, of a list of names that is not empty.  In Simple mode a
\* station that is not there is never another interface in its place.
ReadOf(names, asked, auto, of) ==
  IF simple
  THEN LET target == IF of = Automatic THEN auto ELSE of
           shown == IF target = None THEN Min(names) ELSE target
       IN Snapshot(names, shown, IF shown \in names THEN {shown} ELSE None, of)
  ELSE LET shown == IF asked \in names THEN asked ELSE Min(names)
       IN Snapshot(names, shown, {shown}, None)

\* What a read may come to; auto_station_iface is the system's to say.
Reads(names, asked, of) ==
  IF names = {}
  THEN {Snapshot({}, None, None, None)}
  ELSE {ReadOf(names, asked, auto, of) : auto \in Maybe(Ifaces)}

\* _apply_pi_network_snapshot
Applied(p, snap) ==
  [p EXCEPT !.reading = FALSE, !.listed = snap.names, !.active = snap.active,
            !.pending = snap.pending, !.read = snap.station]

\* The budget of the read is spent; what it brings later is dropped.
NotRead(p) == [p EXCEPT !.pending = None, !.read = None, !.reading = TRUE]

\* A page without its interface after this.
Astray(p) == astray' = (p.open # None /\ (astray \/ p.open \notin p.listed))

Shows(p) == page' = p /\ Astray(p)

\* _refresh_pi_network_bounded
Refreshed(p, of) ==
  \/ \E snap \in Reads(present, p.active, of) : Shows(Applied(p, snap))
  \/ Shows(NotRead(p))

-----------------------------------------------------------------------------
(* Around the page.                                                        *)

Latest(job, own) == IF job = None THEN None ELSE [job EXCEPT !.own = own]

\* Mutant: leaving clears the busy flag and keeps the generation.
Stay == UNCHANGED <<worker, result>>

\* Another generation: what is under way or has come is orphaned.
Bump == worker' = Latest(worker, FALSE) /\ result' = Latest(result, FALSE)

Enter ==
  /\ page.at = "away"
  /\ Refreshed([page EXCEPT !.at = "page", !.busy = FALSE, !.static = FALSE], station)
  /\ UNCHANGED <<world, worker, result>>

\* _leave_pi_network_level: the list first, then the settings menu.
Leave ==
  /\ page.at = "page"
  /\ IF ~simple /\ page.open # None
     THEN /\ Shows([page EXCEPT !.open = None, !.static = FALSE])
          /\ UNCHANGED <<worker, result>>
     ELSE Shows([page EXCEPT !.at = "away", !.open = None, !.busy = FALSE]) /\ Bump
  /\ UNCHANGED world

\* _pi_network_confirm acts on nothing while a worker is in flight.
Confirm(p) == page.at = "page" /\ ~page.busy /\ Shows(p)

Open(i) ==
  /\ page.at = "page" /\ ~page.busy /\ ~simple /\ page.open = None /\ i \in page.listed
  /\ Refreshed([page EXCEPT !.open = i, !.active = i, !.static = FALSE], station)
  /\ UNCHANGED <<world, worker, result>>

Detail == ~simple /\ page.open # None

\* The rows Simple mode lets the operator change.
Editable == simple /\ ~page.reading /\ page.active \in page.listed /\ page.read = station

\* The interface whose name the page shows above its rows.
Named == IF simple THEN page.active ELSE page.open

-----------------------------------------------------------------------------
(* Editing.                                                                *)

BeginStatic ==
  /\ Detail /\ ~page.static
  /\ Confirm([page EXCEPT !.static = TRUE, !.pending = IF @ = None THEN {} ELSE @])
  /\ UNCHANGED <<world, worker, result>>

CancelStatic ==
  /\ page.at = "page" /\ ~page.busy /\ Detail /\ page.static
  /\ Refreshed([page EXCEPT !.static = FALSE], station)
  /\ UNCHANGED <<world, worker, result>>

EditField ==
  /\ (Detail /\ page.static) \/ Editable
  /\ Confirm([page EXCEPT !.at = "field", !.field = Named])
  /\ UNCHANGED <<world, worker, result>>

\* confirm_pi_network_field_edit and its cancel; a value that is not valid
\* leaves the editor open.
EndEdit ==
  /\ page.at = "field"
  /\ \E typed \in {{}, {page.field}} :
       Shows([page EXCEPT !.at = "page", !.field = None,
                          !.pending = IF @ = None THEN None ELSE @ \cup typed])
  /\ UNCHANGED <<world, worker, result>>

\* _pick_method: what the method does not own is dropped.
PickMethod ==
  /\ Editable
  /\ \E kept \in SUBSET page.pending : Confirm([page EXCEPT !.pending = kept])
  /\ UNCHANGED <<world, worker, result>>

\* _pick_station_iface: saved, and applied at once unless that fails.
PickStation(i) ==
  /\ page.at = "page" /\ ~page.busy /\ simple /\ i # station
  /\ station' \in {station, i}
  /\ Refreshed(page, station')
  /\ UNCHANGED <<simple, present, comings, worker, result>>

-----------------------------------------------------------------------------
(* The worker.                                                             *)

\* _start_worker, of what an action does to an interface with some values;
\* one at a time, whoever started it.
Launch(p, values) ==
  /\ p.active # None /\ worker = None
  /\ Confirm([p EXCEPT !.busy = TRUE])
  /\ worker' = [target |-> p.active, values |-> values, own |-> TRUE, names |-> None]
  /\ result' = Latest(result, FALSE)
  /\ UNCHANGED world

SetDhcp ==
  /\ Detail /\ ~page.static
  /\ Launch([page EXCEPT !.pending = {}], {})

Apply ==
  /\ (Detail /\ page.static) \/ Editable
  /\ ~page.reading /\ page.pending # None
  /\ Launch(page, page.pending)

Renew ==
  /\ (Detail /\ ~page.static) \/ Editable
  /\ Launch(page, {})

\* The host has been changed, or not, and the backend lists its interfaces.
WorkerReads ==
  /\ worker # None /\ worker.names = None
  /\ worker' = [worker EXCEPT !.names = present]
  /\ UNCHANGED <<world, page, result, astray>>

\* The rest of the read looks at the page as it is by then; it may fail.
WorkerEnds ==
  /\ worker # None /\ worker.names # None
  /\ \E snap \in Maybe(Reads(worker.names, page.active, station)) :
       result' = [own |-> worker.own, snap |-> snap]
  /\ worker' = None
  /\ UNCHANGED <<world, page, astray>>

WorkerStep == WorkerReads \/ WorkerEnds

\* _finish_worker: an orphan's result is dropped, busy is another's by then.
Finished(p) ==
  IF ~result.own THEN p
  ELSE LET free == [p EXCEPT !.busy = FALSE]
       IN IF result.snap = None THEN free ELSE Applied(free, result.snap)

\* drain_pi_network_worker, on every tick of the main thread.
Drain ==
  /\ result # None
  /\ Shows(Finished(page))
  /\ result' = None
  /\ UNCHANGED <<world, worker>>

-----------------------------------------------------------------------------
(* Meanwhile: an interface comes or goes, or the web saves another station. *)

Come ==
  /\ comings < MaxComings /\ comings' = comings + 1
  /\ \/ present' \in SUBSET Ifaces \ {present} /\ UNCHANGED station
     \/ simple /\ station' \in (Ifaces \cup {Automatic}) \ {station} /\ UNCHANGED present
  /\ UNCHANGED <<simple, page, worker, result, astray>>

Closed ==
  [at |-> "away", open |-> None, active |-> None, listed |-> {}, pending |-> None,
   read |-> None, reading |-> FALSE, static |-> FALSE, field |-> None, busy |-> FALSE]

Init ==
  /\ simple \in BOOLEAN
  /\ present = Ifaces /\ station \in IF simple THEN Ifaces \cup {Automatic} ELSE {Automatic}
  /\ page = Closed
  /\ worker = None /\ result = None /\ comings = 0 /\ astray = FALSE

Next ==
  \/ Enter \/ Leave \/ BeginStatic \/ CancelStatic \/ EditField \/ EndEdit \/ PickMethod
  \/ \E i \in Ifaces : Open(i)
  \/ \E i \in Ifaces \cup {Automatic} : PickStation(i)
  \/ SetDhcp \/ Apply \/ Renew \/ WorkerStep \/ Drain
  \/ Come

Spec == Init /\ [][Next]_vars

\* The worker ends and the main thread ticks.
FairSpec == Spec /\ WF_vars(WorkerStep) /\ WF_vars(Drain)

-----------------------------------------------------------------------------
(* Properties.                                                             *)

Values == Maybe(SUBSET Ifaces)

TypeOK ==
  /\ simple \in BOOLEAN /\ present \subseteq Ifaces /\ station \in Ifaces \cup {Automatic}
  /\ page \in [at : {"away", "page", "field"}, open : Maybe(Ifaces), active : Maybe(Ifaces),
               listed : SUBSET Ifaces, pending : Values, read : Maybe(Ifaces \cup {Automatic}),
               reading : BOOLEAN, static : BOOLEAN, field : Maybe(Ifaces), busy : BOOLEAN]
  /\ worker # None => worker.target \in Ifaces /\ worker.values \in Values
  /\ astray \in BOOLEAN

Starts == worker = None /\ worker' # None

\* "Every action here acts on" the interface the page names, "so none of them
\* repeats it" (_iface_detail_rows).
ActsOnTheOneNamed == [][Starts => worker'.target = Named]_vars

\* It does, with values that were read of that interface or typed for it, and
\* in Simple mode on the station's, whatever was left, opened or saved while
\* a worker ran; as long as no read missed the interface that is open.
AppliesWhatItShows ==
  [][Starts /\ ~astray =>
       /\ worker'.target = Named /\ worker'.values \subseteq {worker'.target}
       /\ (simple /\ station # Automatic) => worker'.target = station]_vars

\* A page never stays busy, so that it can be used again.
NeverStaysBusy == []<>~page.busy
=============================================================================
