--------------------------- MODULE PlaneObserver ---------------------------
(***************************************************************************)
(* runtime/network_observer.py: once a second the observer resolves the    *)
(* interface a network plane (PSN, OTP, RTTrPM, OSC input, video) is       *)
(* configured to use, rebinds the plane when the address is not the one it *)
(* is bound to, and stops it when the interface stays without an address.  *)
(* Planes do not share state, so one is modelled, with what the plane      *)
(* wiring of services.py makes of it: a bind that works or raises, and a   *)
(* config save that rebinds it behind the observer's back.                 *)
(*                                                                         *)
(* Time is counted in polls: POLL_INTERVAL_S is one.                       *)
(***************************************************************************)
EXTENDS Naturals

CONSTANTS
  Addrs,      \* addresses the interface may get
  DownPolls,  \* DOWN_POLLS_BEFORE_SUSPEND
  Backoff,    \* _RETRY_BACKOFF_S
  MaxBackoff, \* _RETRY_BACKOFF_MAX_S
  MaxChanges, \* bound: changes of the interface and config saves together
  Any,        \* bound on every interface
  None        \* no address, not bound

ASSUME PlaneObserverAssumption ==
  /\ DownPolls \in Nat \ {0}
  /\ Backoff \in Nat \ {0} /\ MaxBackoff \in Nat /\ Backoff <= MaxBackoff
  /\ MaxChanges \in Nat
  /\ Any \notin Addrs /\ None \notin Addrs /\ Any # None

VARIABLES
  addr,       \* the address the configured interface has, or None
  enabled,    \* the plane is switched on and pinned
  bound,      \* plane.current(): what it is bound to, or None
  complete,   \* plane.complete(): PSN input is up beside PSN output
  downPolls, suspended, sawOutage, failure, superseded, backoff,  \* _PlaneState
  wait,       \* polls until retry_at
  changes,
  dark,       \* history: polls in a row that found no address; from DownPolls
              \* on two numbers by turns, so that every poll shows
  stale       \* history: a poll found no address since the plane was bound

memory == <<downPolls, suspended, sawOutage, failure, superseded, backoff, wait>>
plane == <<bound, complete>>
world == <<addr, enabled, changes>>
history == <<dark, stale>>
vars == <<memory, plane, world, history>>

-----------------------------------------------------------------------------
\* One second has passed since the last poll.
Waiting == IF wait = 0 THEN 0 ELSE wait - 1
BackingOff == Waiting # 0

Smaller(a, b) == IF a < b THEN a ELSE b

\* down_polls is compared with DownPolls and nothing above it.
Count(n) == Smaller(n + 1, DownPolls)

ClearFailure ==
  /\ failure' = FALSE /\ superseded' = FALSE
  /\ wait' = 0 /\ backoff' = Backoff

\* Mutant of Fail: the wait doubles without end.
FailUncapped ==
  /\ failure' = TRUE /\ superseded' = FALSE
  /\ wait' = backoff /\ backoff' = 2 * backoff

\* What _record_failure does when it is not backing off already.
Fail ==
  /\ failure' = TRUE /\ superseded' = FALSE
  /\ wait' = backoff /\ backoff' = Smaller(2 * backoff, MaxBackoff)

\* Mutant of RecordFailure: a failure during the backoff starts it again.
RecordFailureAgain(s) == Fail /\ s \in BOOLEAN

\* _record_failure, with superseded as the poll left it so far.
RecordFailure(s) ==
  IF BackingOff
  THEN failure' = failure /\ superseded' = s /\ wait' = Waiting /\ backoff' = backoff
  ELSE Fail

\* A poll that changes nothing but its own bookkeeping.
StandBy(s) ==
  /\ wait' = Waiting /\ superseded' = s
  /\ UNCHANGED <<failure, backoff>>

\* A bind or a stop that raises may have got halfway.
Halfway ==
  /\ bound' \in {bound, None}
  /\ complete' \in BOOLEAN
  /\ stale' = stale

-----------------------------------------------------------------------------
\* Nothing to follow: the state is thrown away.
PollUnfollowed ==
  /\ ~enabled
  /\ downPolls' = 0 /\ suspended' = FALSE /\ sawOutage' = FALSE
  /\ ClearFailure
  /\ dark' = 0
  /\ UNCHANGED <<plane, world, stale>>

\* resolve() raises.
PollRaises ==
  /\ enabled
  /\ RecordFailure(superseded)
  /\ UNCHANGED <<downPolls, suspended, sawOutage, plane, world, history>>

\* Mutant of IsStopped: the recorded flag is trusted.
IsStoppedByFlag == suspended

\* The live binding is asked, not only the recorded flag.
IsStopped == suspended /\ bound = None

\* _handle_down
PollDown ==
  LET s == IF downPolls = 0 THEN failure ELSE superseded
  IN
  /\ enabled
  /\ addr = None
  /\ downPolls' = Count(downPolls)
  /\ sawOutage' = TRUE
  /\ dark' = IF dark < DownPolls THEN dark + 1 ELSE 2 * DownPolls + 1 - dark
  /\ \/ /\ Count(downPolls) < DownPolls
        /\ StandBy(s)
        /\ stale' = (stale \/ bound # None)
        /\ UNCHANGED <<suspended, plane>>
     \/ /\ Count(downPolls) = DownPolls
        /\ IsStopped
        /\ ClearFailure
        /\ stale' = (stale \/ bound # None)
        /\ UNCHANGED <<suspended, plane>>
     \/ /\ Count(downPolls) = DownPolls
        /\ ~IsStopped
        /\ BackingOff
        /\ StandBy(s)
        /\ stale' = (stale \/ bound # None)
        /\ UNCHANGED <<suspended, plane>>
     \/ /\ Count(downPolls) = DownPolls
        /\ ~IsStopped
        /\ ~BackingOff
        /\ \/ /\ bound' = None /\ complete' = FALSE /\ stale' = FALSE
              /\ suspended' = TRUE
              /\ ClearFailure
           \/ /\ Halfway
              /\ Fail
              /\ UNCHANGED suspended
  /\ UNCHANGED world

\* Nothing to do: bound to the address, whole, and no outage since.
Settled == bound = addr /\ complete /\ ~sawOutage

\* An address ends the outage.  A failure that an outage stood in front of leads again.
PollUp ==
  /\ enabled
  /\ addr # None
  /\ downPolls' = 0
  /\ dark' = 0
  /\ \/ /\ Settled
        /\ suspended' = FALSE
        /\ ClearFailure
        /\ UNCHANGED <<sawOutage, plane, stale>>
     \/ /\ ~Settled
        /\ BackingOff
        /\ StandBy(FALSE)
        /\ UNCHANGED <<suspended, sawOutage, plane, stale>>
     \/ /\ ~Settled
        /\ ~BackingOff
        /\ Halfway
        /\ Fail
        /\ UNCHANGED <<suspended, sawOutage>>
  /\ UNCHANGED world

\* apply() binds the plane to the address.
Apply ==
  /\ enabled
  /\ addr # None
  /\ ~Settled
  /\ ~BackingOff
  /\ downPolls' = 0 /\ dark' = 0
  /\ bound' = addr /\ complete' = TRUE /\ stale' = FALSE
  /\ suspended' = FALSE /\ sawOutage' = FALSE
  /\ ClearFailure
  /\ UNCHANGED world

Poll == PollUnfollowed \/ PollRaises \/ PollDown \/ PollUp \/ Apply

-----------------------------------------------------------------------------
(* The world.                                                              *)

Change == changes < MaxChanges /\ changes' = changes + 1

\* A cable, a lease, nmcli or another interface in the config.
InterfaceChanges ==
  /\ Change
  /\ addr' \in (Addrs \cup {None}) \ {addr}
  /\ UNCHANGED <<memory, plane, enabled, history>>

\* A config save restarts the plane, on the address or on every interface, or
\* leaves it stopped.
Rebind ==
  /\ Change
  /\ enabled
  /\ bound' \in {addr, Any, None}
  /\ complete' \in BOOLEAN
  /\ stale' = FALSE
  /\ UNCHANGED <<memory, addr, enabled, dark>>

\* The plane is switched on or off.
Switch ==
  /\ Change
  /\ enabled' = ~enabled
  /\ bound' \in IF enabled' THEN {addr, None} ELSE {None}
  /\ complete' \in BOOLEAN
  /\ stale' = FALSE
  /\ UNCHANGED <<memory, addr, dark>>

\* The runtime has started the plane, or could not, before the first poll.
Init ==
  /\ addr \in Addrs \cup {None}
  /\ enabled \in BOOLEAN
  /\ bound \in IF enabled THEN {addr, None} ELSE {None}
  /\ complete \in BOOLEAN
  /\ downPolls = 0 /\ suspended = FALSE /\ sawOutage = FALSE
  /\ failure = FALSE /\ superseded = FALSE
  /\ wait = 0 /\ backoff = Backoff
  /\ changes = 0
  /\ dark = 0 /\ stale = FALSE

Next == Poll \/ InterfaceChanges \/ Rebind \/ Switch

Spec == Init /\ [][Next]_vars

\* Housekeeping polls.  A bind that is tried again and again works in the end, and
\* resolving, which may raise, does not do so whenever it matters.
FairSpec == Spec /\ WF_vars(Poll) /\ SF_vars(Apply) /\ SF_vars(PollUp /\ Settled)

-----------------------------------------------------------------------------
TypeOK ==
  /\ addr \in Addrs \cup {None}
  /\ enabled \in BOOLEAN
  /\ bound \in Addrs \cup {Any, None}
  /\ complete \in BOOLEAN
  /\ downPolls \in 0..DownPolls
  /\ suspended \in BOOLEAN /\ sawOutage \in BOOLEAN
  /\ failure \in BOOLEAN /\ superseded \in BOOLEAN
  /\ wait \in 0..MaxBackoff
  /\ backoff \in Backoff..MaxBackoff
  /\ changes \in 0..MaxChanges
  /\ dark \in 0..DownPolls + 1
  /\ stale \in BOOLEAN

\* alerts(): the operator sees a line for the plane.
Alert == (failure /\ ~superseded) \/ suspended \/ downPolls # 0

\* The plane sends and receives on the interface: the binding is the right one
\* and no outage seen by a poll has taken its memberships away.
Working == addr # None /\ bound = addr /\ complete /\ ~stale

\* What the observer promises, with the memory it keeps hidden.
Promise == INSTANCE PlanePromise WITH
  address <- addr, followed <- enabled, binding <- bound, sound <- complete /\ ~stale,
  alert <- Alert, retrying <- failure /\ wait # 0

\* An outage or a fault is never silent, Apply and Renew DHCP lease never drop
\* the output, nothing goes out on an interface nobody chose: in whatever
\* order outages, failed binds, backoff and config saves follow each other,
\* every step is one the promise allows.
KeepsThePromise == Promise!Spec

\* Once the interface keeps its address and the plane stays switched on, the
\* plane comes to work for good, and no alert stays behind.
ComesBack ==
  <>[](enabled /\ addr # None) => <>[]Working /\ []<>~Alert
=============================================================================
