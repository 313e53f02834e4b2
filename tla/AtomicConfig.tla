---------------------------- MODULE AtomicConfig ----------------------------
(***************************************************************************)
(* What load_or_create_config owes the operator's file, however many       *)
(* processes load it at once: each load lays the environment over the      *)
(* whole file in one step, or does nothing.  A load that is killed, or     *)
(* finds the disk full, may leave the file cut short; only a load that had *)
(* read it before, or the operator, makes it whole again.                  *)
(***************************************************************************)
CONSTANTS
  Configs, Envs,
  Absent, Broken,
  Overlay(_, _)  \* what a load makes of what it finds, under an environment

VARIABLES
  stored,   \* what the file says, or said before it was cut short
  cut,      \* it is cut short
  env,      \* the environment of the loads
  loading   \* some load has read the file and has not ended

vars == <<stored, cut, env, loading>>

Init ==
  /\ stored \in Configs \cup {Absent}
  /\ cut = FALSE
  /\ env \in Envs
  /\ loading = FALSE

Begin ==
  /\ ~loading /\ ~cut /\ stored # Broken
  /\ loading' = TRUE
  /\ UNCHANGED <<stored, cut, env>>

Load ==
  /\ loading
  /\ stored' = Overlay(env, stored)
  /\ cut' = FALSE
  /\ UNCHANGED <<env, loading>>

\* The last load ends, or a write ends without its bytes.
End == loading /\ loading' = FALSE /\ UNCHANGED <<stored, cut, env>>

Lose ==
  /\ loading /\ stored \in Configs
  /\ cut' = TRUE
  /\ loading' \in BOOLEAN
  /\ UNCHANGED <<stored, env>>

Edit(c) ==
  /\ ~loading
  /\ stored' = c
  /\ cut' = FALSE
  /\ UNCHANGED <<env, loading>>

\* The loads are killed; the next ones may have another environment.
Recreate(e) ==
  /\ env' = e
  /\ loading' = FALSE
  /\ cut' \in {cut, loading /\ stored \in Configs}
  /\ UNCHANGED stored

Next ==
  \/ Begin
  \/ Load
  \/ End
  \/ Lose
  \/ \E c \in Configs \cup {Absent, Broken} : Edit(c)
  \/ \E e \in Envs : Recreate(e)

Spec == Init /\ [][Next]_vars
=============================================================================
