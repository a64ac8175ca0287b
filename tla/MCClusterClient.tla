--------------------------- MODULE MCClusterClient ---------------------------
(* Model-checking instance of ClusterClient: callers and closers are the      *)
(* model values that the .cfg files name.                                     *)
EXTENDS ClusterClient, TLC
=============================================================================
