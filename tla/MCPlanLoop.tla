----------------------------- MODULE MCPlanLoop -----------------------------
(* One session with one or two plans and a few runs.                       *)
EXTENDS PlanLoop, TLC

\* Bound: of a second plan, a third run and a crash each needs that the others
\* stay away, and with a second plan a loop has one round; a crash may come at
\* any moment, and ends what is beyond the bound.
Sent == Cardinality({r \in Runs : runStatus[r] # "none"})
Scenario ==
    \/ /\ \A p \in Plans \ {1} : plan[p] = "none"
       /\ Sent + faults + crashes <= 3
    \/ /\ crashes = 0 /\ Sent <= 1
       /\ \A p \in Plans : loop[p].max <= 1
BoundedNext ==
    \/ CrashAndRestart
    \/ Next /\ Scenario'
    \/ ~Scenario /\ UNCHANGED vars
BoundedSpec == Init /\ [][BoundedNext]_vars

Symmetry == Permutations(Runs)
=============================================================================
