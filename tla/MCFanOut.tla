------------------------------- MODULE MCFanOut -------------------------------
(* Model-checking instance of FanOut and, in the composition, of ClusterClient: *)
(* the per-type goroutines and other callers share one gate.                    *)
EXTENDS FanOut, TLC

CONSTANTS t1, t2, t3, r1

MCTypes == {t1, t2, t3}
MCCallers == MCTypes \cup {r1}

\* Nothing skipped (and GetStatistics), one slow type, every type slow.
MCSkips == {{}, {t1}, MCTypes}
===============================================================================
