---------------------------- MODULE MCHealthProbe ----------------------------
(***************************************************************************)
(* HealthProbe for TLC: the default ports, and a second query port for the *)
(* operator to change to.                                                  *)
(***************************************************************************)
EXTENDS HealthProbe

OnePair == {[game |-> 15636, query |-> 15637]}
TwoPairs == OnePair \cup {[game |-> 15636, query |-> 27015]}
=============================================================================
