--------------------------- MODULE ManagedServer ---------------------------
(***************************************************************************)
(* What the monitor's jobs promise together: one server process at a time  *)
(* on the save directory, and no server while steamcmd rewrites the game   *)
(* files.                                                                  *)
(***************************************************************************)
CONSTANT Servers

VARIABLES
  up,        \* the server processes alive, launchers included
  updating   \* steamcmd is at work

vars == <<up, updating>>

Init == up \in {{}} \cup {{s} : s \in Servers} /\ updating = FALSE

Start(s) ==
  /\ up = {} /\ ~updating
  /\ up' = {s}
  /\ UNCHANGED updating

End(s) == up' = up \ {s} /\ UNCHANGED updating

BeginUpdate == up = {} /\ updating' = TRUE /\ UNCHANGED up

EndUpdate == updating' = FALSE /\ UNCHANGED up

Next ==
  \/ \E s \in Servers : Start(s) \/ End(s)
  \/ BeginUpdate
  \/ EndUpdate

Spec == Init /\ [][Next]_vars
=============================================================================
