---------------------------- MODULE StopPromise ----------------------------
(***************************************************************************)
(* What stop_server promises its callers, without the signals and the      *)
(* timeouts: every call ends; it ends Ok only at a moment when no server   *)
(* process is to be seen, and Err only when one still is.                  *)
(***************************************************************************)
CONSTANTS Actors, Servers

VARIABLES
  up,    \* the server processes that can be seen in the process table
  call   \* the state of each actor's call

vars == <<up, call>>

TypeOK == up \in SUBSET Servers /\ call \in [Actors -> {"out", "busy", "ok", "err"}]

Init == up \in SUBSET Servers /\ call = [a \in Actors |-> "out"]

Arrive(s) == up' = up \cup {s} /\ UNCHANGED call

Leave(s) == up' = up \ {s} /\ UNCHANGED call

Become(a, from, to) ==
  /\ call[a] \in from
  /\ call' = [call EXCEPT ![a] = to]
  /\ UNCHANGED up

Begin(a) == Become(a, {"out"}, "busy")
Succeed(a) == up = {} /\ Become(a, {"busy"}, "ok")
Fail(a) == up # {} /\ Become(a, {"busy"}, "err")
Return(a) == Become(a, {"ok", "err"}, "out")

Next ==
  \/ \E s \in Servers : Arrive(s) \/ Leave(s)
  \/ \E a \in Actors : Begin(a) \/ Succeed(a) \/ Fail(a) \/ Return(a)

Spec == Init /\ [][Next]_vars

FairSpec == Spec /\ \A a \in Actors : WF_vars(Succeed(a) \/ Fail(a))
=============================================================================
