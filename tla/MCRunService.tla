---------------------------- MODULE MCRunService ----------------------------
(* One or two runs of one session.                                         *)
EXTENDS RunService, TLC

CONSTANTS r1, r2, s1

OneSession == [r \in Runs |-> s1]

\* Events each engine reports.
OneCallEach  == [r \in Runs |-> 1]
TwoCallsEach == [r \in Runs |-> 2]
OnlySecond   == [r \in Runs |-> IF r = r2 THEN 1 ELSE 0]

\* Bound: crashes, storage faults and a second report of the engine are tried
\* on a run that has the session to itself.
Scenario ==
    \/ crashes = MaxCrashes /\ faults = 0 /\ calls[r1] + calls[r2] <= 1
    \/ Cardinality({r \in Runs : status[r] # "none"}) <= 1
BoundedNext == CrashAndRestart \/ (Next /\ Scenario')
BoundedSpec == Init /\ [][BoundedNext]_vars

Symmetry == Permutations({r1, r2})
=============================================================================
