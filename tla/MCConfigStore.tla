---------------------------- MODULE MCConfigStore ----------------------------
(***************************************************************************)
(* ConfigStore for TLC: one field of each kind, two values, and the first  *)
(* value as every default.                                                 *)
(***************************************************************************)
EXTENDS ConfigStore

CONSTANTS slotCount, mode, v1, v2

MCDefaults == [k \in {slotCount, mode} |-> v1]
=============================================================================
