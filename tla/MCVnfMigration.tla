--------------------------- MODULE MCVnfMigration ---------------------------
(* An instance of VnfMigration for TLC. *)
EXTENDS VnfMigration

CONSTANTS s1, s2, v1

Homes == [u \in {v1} |-> s1]
=============================================================================
