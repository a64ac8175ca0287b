---------------------------- MODULE StatisticsCall ----------------------------
(***************************************************************************)
(* What a statistics call promises the collector, in three steps: it asks  *)
(* for a set of object types, some of them are answered, and it returns    *)
(* exactly those, or an error if it asked for some and none was answered.  *)
(* FanOut implements it with a goroutine per type.                         *)
(***************************************************************************)
CONSTANTS Types     \* object types of the path

VARIABLES
    phase,      \* "none", "pending", "ok" or "failed"
    asked,      \* the types queried: all but the skipped ones
    answered,   \* those of which the gateway gave a usable answer
    stats       \* the types in the statistics that the call returned

vars == <<phase, asked, answered, stats>>

Init == phase = "none" /\ asked = {} /\ answered = {} /\ stats = {}

Begin ==
    /\ phase # "pending"
    /\ phase' = "pending"
    /\ asked' \in SUBSET Types
    /\ stats' = {}
    /\ UNCHANGED answered

Answer(t) ==
    /\ phase = "pending" /\ t \in asked \ answered
    /\ answered' = answered \cup {t}
    /\ UNCHANGED <<phase, asked, stats>>

Return ==
    /\ phase = "pending"
    /\ IF asked # {} /\ answered = {}
       THEN phase' = "failed" /\ stats' = {}
       ELSE phase' = "ok" /\ stats' = answered
    /\ asked' = {} /\ answered' = {}

Next == Begin \/ (\E t \in Types : Answer(t)) \/ Return

Spec == Init /\ [][Next]_vars
===============================================================================
