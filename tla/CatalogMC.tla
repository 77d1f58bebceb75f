----------------------------- MODULE CatalogMC -----------------------------
(***************************************************************************)
(* MarkerCatalog for TLC: stations that select markers and of which one is *)
(* restarted, for safety, and, calm, ones that are and do neither, for     *)
(* what they settle on.                                                    *)
(***************************************************************************)
EXTENDS MarkerCatalog

\* The station that may be started again.
Restarted == CHOOSE s \in Stations : TRUE

VARIABLE calm

mcVars == <<vars, calm>>

McInit == Init /\ calm \in BOOLEAN /\ (calm => selected = [s \in Stations |-> {}])

OfCalm(step) == calm /\ step /\ UNCHANGED calm

McNext ==
  /\ Next /\ UNCHANGED calm
  /\ boots' # boots => ~calm /\ boots'[Restarted] > boots[Restarted]

\* Fairness of MarkerCatalog, of the calm ones.
McFairness ==
  /\ \A s \in Stations :
       /\ WF_mcVars(OfCalm(WriterStep(s)))
       /\ WF_mcVars(OfCalm(OnChange(s) \/ OnChangeDone(s)))
       /\ \A i \in Ids : WF_mcVars(OfCalm(Beacon(s, i, Stations \ {s})))
       /\ WF_mcVars(OfCalm(\E m \in net[s] : Receive(s, m) \/ Lose(s, m)))
  /\ \A s \in Stations, i \in Ids : \A t \in Stations \ {s} :
       SF_mcVars(OfCalm(\E m \in net[t] : /\ m.id = i /\ m.entry = entries[s][i]
                                          /\ Receive(t, m)))

McSpec == McInit /\ [][McNext]_mcVars /\ McFairness

\* Calm stations come to show the same markers and stay so.
Converges == calm => Convergence
=============================================================================
