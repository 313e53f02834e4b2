------------------------------ MODULE Shutdown ------------------------------
(***************************************************************************)
(* stop_server (cli/src/utils/shutdown.rs): find the game by executable    *)
(* name, interrupt it, wait up to STOP_TIMEOUT, kill what is left.  Any    *)
(* number of callers may be inside it at once: tasks of the monitor and    *)
(* separate CLI processes share nothing but the process table.             *)
(*                                                                         *)
(* A server is a slot of the process table.  "launching" is Proton's       *)
(* launcher before it has started the game: find_pids compares argv[0], so *)
(* it does not see a launcher.  "saving" has had SIGINT (and may hang),    *)
(* "killed" has had SIGKILL and is not gone yet.  Zombies have no command  *)
(* line, so they count as "gone".                                          *)
(***************************************************************************)
EXTENDS Naturals, FiniteSets

CONSTANTS
  Actors,   \* whoever may call stop_server
  Servers   \* slots of the process table; also the bound on live servers

\* The kernel's process table has an end (kernel.pid_max).
ASSUME ServersAssumption == IsFiniteSet(Servers)

VARIABLES
  proc,     \* state of each server process
  phase,    \* how far each actor is in stop_processes; "out" when not in it
  asked,    \* the pids this call found and interrupts
  todo      \* the pids this call still has to signal in the current loop

stopVars == <<proc, phase, asked, todo>>

ProcState == {"gone", "launching", "running", "saving", "killed"}
Phase == {"out", "scan", "signal", "poll", "kill", "recheck", "ok", "err"}

StopTypeOK ==
  /\ proc \in [Servers -> ProcState]
  /\ phase \in [Actors -> Phase]
  /\ asked \in [Actors -> SUBSET Servers]
  /\ todo \in [Actors -> SUBSET Servers]

-----------------------------------------------------------------------------
(***************************************************************************)
(* The game, Proton and the kernel.                                        *)
(***************************************************************************)

\* A pid is not recycled while some stop call still remembers it.
Remembered == UNION {asked[a] \cup todo[a] : a \in Actors}

Spawn(s, st) ==
  /\ proc[s] = "gone"
  /\ s \notin Remembered
  /\ proc' = [proc EXCEPT ![s] = st]

Appear(s) ==
  /\ proc[s] = "launching"
  /\ proc' = [proc EXCEPT ![s] = "running"]
  /\ UNCHANGED <<phase, asked, todo>>

\* The launcher fails, the game crashes, quits, or finishes saving.
Quit(s) ==
  /\ proc[s] \in {"launching", "running", "saving"}
  /\ proc' = [proc EXCEPT ![s] = "gone"]
  /\ UNCHANGED <<phase, asked, todo>>

\* The kernel tears a killed process down, however long that takes.
Reap(s) ==
  /\ proc[s] = "killed"
  /\ proc' = [proc EXCEPT ![s] = "gone"]
  /\ UNCHANGED <<phase, asked, todo>>

-----------------------------------------------------------------------------
(***************************************************************************)
(* stop_processes.                                                         *)
(***************************************************************************)

\* The walk through /proc, entry by entry, is taken as one look at the table.
find_pids == {s \in Servers : proc[s] \in {"running", "saving", "killed"}}

Goto(a, p) == phase' = [phase EXCEPT ![a] = p]

Call(a) ==
  /\ phase[a] = "out"
  /\ Goto(a, "scan")
  /\ UNCHANGED <<proc, asked, todo>>

Scan(a) ==
  /\ phase[a] = "scan"
  /\ Goto(a, IF find_pids = {} THEN "ok" ELSE "signal")
  /\ asked' = [asked EXCEPT ![a] = find_pids]
  /\ todo' = [todo EXCEPT ![a] = find_pids]
  /\ UNCHANGED proc

\* signal(): a pid that is gone by now (ESRCH) is skipped without an error.
Signal(a, s, from, to) ==
  /\ proc' = [proc EXCEPT ![s] = IF @ \in from THEN to ELSE @]
  /\ todo' = [todo EXCEPT ![a] = @ \ {s}]

\* Variant: only one of the pids is interrupted.
InterruptOne(a) ==
  /\ phase[a] = "signal"
  /\ \E s \in todo[a] : Signal(a, s, {"running"}, "saving")
  /\ Goto(a, "poll")
  /\ UNCHANGED asked

Interrupt(a) ==
  /\ phase[a] = "signal"
  /\ \E s \in todo[a] :
       /\ Signal(a, s, {"running"}, "saving")
       /\ Goto(a, IF todo[a] = {s} THEN "poll" ELSE "signal")
  /\ UNCHANGED asked

\* Variant: the wait is over as soon as one of the pids is gone.
PollFewer(a) ==
  /\ phase[a] = "poll"
  /\ \E s \in asked[a] : proc[s] = "gone"
  /\ Goto(a, "ok")
  /\ UNCHANGED <<proc, asked, todo>>

PollEmpty(a) ==
  /\ phase[a] = "poll"
  /\ find_pids = {}
  /\ Goto(a, "ok")
  /\ UNCHANGED <<proc, asked, todo>>

\* Variant: the deadline is set anew on every round of the loop.
ExpireNever(a) ==
  /\ phase[a] = "poll"
  /\ find_pids # {}
  /\ UNCHANGED stopVars

\* The deadline may pass at any point of the other actors' progress.
Expire(a) ==
  /\ phase[a] = "poll"
  /\ find_pids # {}
  /\ Goto(a, "kill")
  /\ todo' = [todo EXCEPT ![a] = find_pids]
  /\ UNCHANGED <<proc, asked>>

\* Variant: a kill that was sent is taken for a server that is gone.
KillAndForget(a) ==
  /\ phase[a] = "kill"
  /\ \E s \in todo[a] :
       /\ Signal(a, s, {"running", "saving"}, "killed")
       /\ Goto(a, IF todo[a] = {s} THEN "ok" ELSE "kill")
  /\ UNCHANGED asked

Kill(a) ==
  /\ phase[a] = "kill"
  /\ \E s \in todo[a] :
       /\ Signal(a, s, {"running", "saving"}, "killed")
       /\ Goto(a, IF todo[a] = {s} THEN "recheck" ELSE "kill")
  /\ UNCHANGED asked

\* One more look, a single poll interval after the kill.
Recheck(a) ==
  /\ phase[a] = "recheck"
  /\ Goto(a, IF find_pids = {} THEN "ok" ELSE "err")
  /\ UNCHANGED <<proc, asked, todo>>

\* The caller takes the result; the call's local variables are dropped.
Return(a) ==
  /\ phase[a] \in {"ok", "err"}
  /\ Goto(a, "out")
  /\ asked' = [asked EXCEPT ![a] = {}]
  /\ todo' = [todo EXCEPT ![a] = {}]
  /\ UNCHANGED proc

-----------------------------------------------------------------------------
(***************************************************************************)
(* Callers that call whenever they like, and launches at any time.         *)
(***************************************************************************)
StopInit ==
  /\ proc \in [Servers -> {"gone", "launching", "running"}]
  /\ phase = [a \in Actors |-> "out"]
  /\ asked = [a \in Actors |-> {}]
  /\ todo = [a \in Actors |-> {}]

Launch(s) ==
  /\ \E st \in {"launching", "running"} : Spawn(s, st)
  /\ UNCHANGED <<phase, asked, todo>>

World == \E s \in Servers : Launch(s) \/ Appear(s) \/ Quit(s) \/ Reap(s)

Step(a) ==
  \/ Scan(a)
  \/ Interrupt(a)
  \/ PollEmpty(a)
  \/ Expire(a)
  \/ Kill(a)
  \/ Recheck(a)

StopNext == World \/ \E a \in Actors : Call(a) \/ Step(a) \/ Return(a)

StopSpec == StopInit /\ [][StopNext]_stopVars

\* A thread inside stop_processes keeps running, and its deadline passes.
StopFairSpec == StopSpec /\ \A a \in Actors : WF_stopVars(Step(a))

-----------------------------------------------------------------------------
(***************************************************************************)
(* Properties.                                                             *)
(***************************************************************************)

\* "Stop the running server and wait for it to exit": when a call ends Ok,
\* every process it found when it was called is gone for good, whatever other
\* callers signalled, killed or started meanwhile.
StopOkMeansGone ==
  \A a \in Actors : phase[a] = "ok" => \A s \in asked[a] : proc[s] = "gone"

\* Once a call has left the interrupt loop, no process it found is still in
\* the state in which it has been given no chance to save; so what this call
\* kills of them has had SIGINT first.
AskedWereInterrupted ==
  \A a \in Actors : phase[a] \in {"poll", "kill", "recheck"} =>
    \A s \in asked[a] : proc[s] \in {"saving", "killed", "gone"}

\* stop_server implements its promise: Ok and Err are told apart by what is in
\* the process table at that moment, and every call ends, even when the game
\* ignores SIGINT or dies between the scan and the signal.
Promise == INSTANCE StopPromise WITH
  up <- find_pids,
  call <- [a \in Actors |->
             IF phase[a] \in {"out", "ok", "err"} THEN phase[a] ELSE "busy"]

KeepsPromise == Promise!FairSpec

\* How many more steps a call can take, whatever the game does and whoever else
\* signals: both loops over the pids are bounded by the scan before them.
StopLeft(a) ==
  LET table == Cardinality(Servers)
      pids == Cardinality(todo[a])
  IN  CASE phase[a] = "scan" -> 2 * table + 3
        [] phase[a] = "signal" -> table + 2 + pids
        [] phase[a] = "poll" -> table + 2
        [] phase[a] = "kill" -> pids + 1
        [] phase[a] = "recheck" -> 1
        [] OTHER -> 0

=============================================================================
