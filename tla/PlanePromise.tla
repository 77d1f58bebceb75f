---------------------------- MODULE PlanePromise ----------------------------
(***************************************************************************)
(* What the network observer (runtime/network_observer.py) promises about  *)
(* one network plane, whatever it remembers and however it waits:          *)
(*   - a poll that finds an address leaves the plane working or an alert;  *)
(*   - a plane is left alone until as many polls in a row as the debounce  *)
(*     takes have found no address;                                        *)
(*   - from then on every such poll leaves it stopped, or a failed stop    *)
(*     that will be tried again.                                           *)
(* PlaneObserver implements it.                                            *)
(***************************************************************************)
EXTENDS Naturals

CONSTANTS Addrs, DownPolls, Any, None

VARIABLES
  address,  \* what the interface has, or None
  followed, \* the plane is switched on and pinned
  binding,  \* what the plane is bound to, or None
  sound,    \* whole, and no outage since it was bound
  dark,     \* polls in a row that found no address, two of them by turns
            \* once they are DownPolls or more
  alert,    \* the operator sees a line for the plane
  retrying  \* a bind or a stop failed and is tried again

vars == <<address, followed, binding, sound, dark, alert, retrying>>

Works == address # None /\ binding = address /\ sound

OneMore(n) == IF n < DownPolls THEN n + 1 ELSE 2 * DownPolls + 1 - n

NothingSilent == Works' \/ alert'

Unfollowed ==
  /\ ~followed
  /\ dark' = 0 /\ ~alert' /\ ~retrying'
  /\ UNCHANGED <<address, followed, binding, sound>>

\* The address could not be asked for.
Unresolved ==
  /\ followed /\ NothingSilent
  /\ alert' \in BOOLEAN /\ retrying' \in BOOLEAN
  /\ UNCHANGED <<address, followed, binding, sound, dark>>

\* An address: the plane goes nowhere but there, or a try stops halfway.
Found ==
  /\ followed /\ address # None
  /\ dark' = 0
  /\ binding' \in {binding, address, None} /\ sound' \in BOOLEAN
  /\ alert' \in BOOLEAN /\ retrying' \in BOOLEAN
  /\ NothingSilent
  /\ UNCHANGED <<address, followed>>

\* No address, for less than the debounce.
Waiting ==
  /\ followed /\ address = None
  /\ dark' = OneMore(dark) /\ dark' < DownPolls
  /\ alert' /\ sound' \in BOOLEAN /\ retrying' \in BOOLEAN
  /\ UNCHANGED <<address, followed, binding>>

\* No address for the whole debounce.
Dark ==
  /\ followed /\ address = None
  /\ dark' = OneMore(dark) /\ dark' >= DownPolls
  /\ alert' /\ sound' \in BOOLEAN /\ retrying' \in BOOLEAN
  /\ binding' \in {None, binding} /\ (binding' # None => retrying')
  /\ UNCHANGED <<address, followed>>

\* The interface, the plane's switch, and a config save that starts it anew.
World ==
  /\ address' \in Addrs \cup {None} /\ followed' \in BOOLEAN
  /\ binding' \in {binding, address, Any, None} /\ sound' \in BOOLEAN
  /\ address' # address => binding' = binding /\ sound' = sound
  /\ UNCHANGED <<dark, alert, retrying>>

Init ==
  /\ address \in Addrs \cup {None} /\ followed \in BOOLEAN
  /\ binding \in {address, None} /\ sound \in BOOLEAN
  /\ dark = 0 /\ ~alert /\ ~retrying

Next == Unfollowed \/ Unresolved \/ Found \/ Waiting \/ Dark \/ World

Spec == Init /\ [][Next]_vars
=============================================================================
