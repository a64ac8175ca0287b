------------------------------ MODULE MCCollector ------------------------------
(* Model-checking instances of Collector.  Sys, Vol and Sdt stand for an object *)
(* type of both generations with inventory counts, one without, and one that    *)
(* only Gen2 has.                                                               *)
EXTENDS Collector, TLC

\* Clusters whose gateways never answer a call: they fail or hang, which is all
\* that one cluster can do to another, and how far it came first is of no matter.
CONSTANT Silent

StaySilent == \A c \in Silent : result'[c].generation = "none"
MCSpec == Init /\ [][Next /\ StaySilent]_vars /\ Fairness
================================================================================
