--------------------------- MODULE MCLayer2Switch ---------------------------
(* Instances of Layer2Switch for TLC. *)
EXTENDS Layer2Switch, TLC

\* Switches that may leave or have a window link are alike, and so are hosts
\* and ports.
Alike == Permutations(Dpid) \cup Permutations(Mac) \cup Permutations(Port)
=============================================================================
