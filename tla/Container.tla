----------------------------- MODULE Container -----------------------------
(***************************************************************************)
(* The container around the commands: scripts/entrypoint.sh.  It installs  *)
(* and starts the server, runs the monitor in the background, and from     *)
(* then on waits for it with a trap on SIGTERM, SIGINT and ERR.  The       *)
(* script is process 1: a signal before the trap is set has no effect, and *)
(* when the script ends, the kernel kills whatever is left.                *)
(*                                                                         *)
(* bash runs the trap between two commands.  A SIGTERM ends the wait with  *)
(* status 143, which is an error, so the trap runs for SIGTERM and then    *)
(* once more for ERR; a SIGTERM that arrives while a stop of the trap runs *)
(* makes another stop follow it.                                           *)
(***************************************************************************)
EXTENDS ServerControl

CONSTANTS
  Entry,    \* the actor whose commands entrypoint.sh runs, one at a time
  MaxStops  \* bound: how often one life of the container is sent SIGTERM

ASSUME ContainerAssumption ==
  /\ Clis = {Entry}
  /\ {"install", "start", "stop"} \subseteq CliCommands
  /\ MaxStops \in Nat

VARIABLES
  sh,         \* how far entrypoint.sh is
  monitor,    \* the monitor process is alive
  signalled,  \* a SIGTERM that the trap has not served yet
  stops,      \* how many were sent in this life of the container
  late        \* history: what was still launching at the script's last scan

shVars == <<sh, monitor, signalled, stops, late>>
boxVars == <<vars, shVars>>

Untrapped == {"install", "start", "monitor"}
Trapping == {"term", "err"}
Sh == {"down", "wait", "failed", "exit"} \cup Untrapped \cup Trapping

BoxTypeOK ==
  /\ TypeOK
  /\ sh \in Sh
  /\ monitor \in BOOLEAN
  /\ signalled \in BOOLEAN
  /\ stops \in 0..MaxStops
  /\ late \subseteq Servers

BoxInit ==
  /\ proc = [s \in Servers |-> "gone"]
  /\ phase = [a \in Actors |-> "out"]
  /\ asked = [a \in Actors |-> {}]
  /\ todo = [a \in Actors |-> {}]
  /\ pc = [a \in Actors |-> "idle"]
  /\ cmd = [a \in Actors |-> "none"]
  /\ attempt = [a \in Actors |-> 1]
  /\ holder = None
  /\ files \in Files
  /\ sh = "down"
  /\ monitor = FALSE
  /\ signalled = FALSE
  /\ stops = 0
  /\ late = {}

-----------------------------------------------------------------------------
(***************************************************************************)
(* The script up to its wait.                                              *)
(***************************************************************************)
Idle(a) == pc[a] = "idle"

\* The script's next command; `set -e` is off, so how the last one ended does
\* not matter.
Run(k, next) ==
  /\ Idle(Entry)
  /\ Invoke(Entry, k)
  /\ sh' = next

\* Install if UPDATE_ON_START says so or the executable is missing, which some
\* partial installs have and some have not.
Boot ==
  /\ sh = "down"
  /\ \/ Run("install", "install")
     \/ files # "absent" /\ Run("start", "start")
  /\ UNCHANGED <<monitor, signalled, stops, late>>

Installed ==
  /\ sh = "install"
  /\ Run("start", "start")
  /\ UNCHANGED <<monitor, signalled, stops, late>>

StartMonitorEarly ==       \* variant: the start, too, runs in the background
  /\ sh = "start"
  /\ monitor' = TRUE
  /\ sh' = "monitor"
  /\ UNCHANGED <<vars, signalled, stops, late>>

StartMonitor ==
  /\ sh = "start"
  /\ Idle(Entry)
  /\ monitor' = TRUE
  /\ sh' = "monitor"
  /\ UNCHANGED <<vars, signalled, stops, late>>

\* The trap is set and the wait begins, or ends at once with the status of a
\* monitor that has died already.
SetTrap ==
  /\ sh = "monitor"
  /\ sh' = IF monitor THEN "wait" ELSE "failed"
  /\ UNCHANGED <<vars, monitor, signalled, stops, late>>

-----------------------------------------------------------------------------
(***************************************************************************)
(* The trap: stop, kill the monitor.                                       *)
(***************************************************************************)

\* docker stop.
Sigterm ==
  /\ sh # "down"
  /\ stops < MaxStops
  /\ stops' = stops + 1
  /\ signalled' = (sh \notin Untrapped)
  /\ UNCHANGED <<vars, sh, monitor, late>>

OnTerm ==
  /\ sh = "wait"
  /\ signalled
  /\ Run("stop", "term")
  /\ signalled' = FALSE
  /\ UNCHANGED <<monitor, stops, late>>

OnErr ==
  /\ sh = "failed"
  /\ Run("stop", "err")
  /\ UNCHANGED <<monitor, signalled, stops, late>>

OnTermAgainStale ==        \* variant: the signal is served and not taken
  /\ sh \in Trapping
  /\ signalled
  /\ Run("stop", sh)
  /\ UNCHANGED <<monitor, signalled, stops, late>>

\* A SIGTERM that came during a stop of the trap.
OnTermAgain ==
  /\ sh \in Trapping
  /\ signalled
  /\ Run("stop", sh)
  /\ signalled' = FALSE
  /\ UNCHANGED <<monitor, stops, late>>

\* Processes die at any point of what they do.  A steamcmd that one of them
\* waited for may have got anywhere, with its parent gone or not.
Die(A) ==
  /\ phase' = [a \in Actors |-> IF a \in A THEN "out" ELSE phase[a]]
  /\ asked' = [a \in Actors |-> IF a \in A THEN {} ELSE asked[a]]
  /\ todo' = [a \in Actors |-> IF a \in A THEN {} ELSE todo[a]]
  /\ pc' = [a \in Actors |-> IF a \in A THEN "idle" ELSE pc[a]]
  /\ cmd' = [a \in Actors |-> IF a \in A THEN "none" ELSE cmd[a]]
  /\ attempt' = [a \in Actors |-> IF a \in A THEN 1 ELSE attempt[a]]
  /\ holder' = IF holder \in A THEN None ELSE holder
  /\ files' \in {files} \cup
       IF \E a \in A : pc[a] = "steamcmd" THEN {"partial", "complete"} ELSE {}

KillMonitorAndExit ==      \* variant: the trap is not set for ERR
  /\ sh \in Trapping
  /\ Idle(Entry)
  /\ ~signalled
  /\ Die(Tasks)
  /\ monitor' = FALSE
  /\ sh' = "exit"
  /\ UNCHANGED <<proc, signalled, stops, late>>

\* The monitor has no handler for SIGTERM.  Its death, or the signal before,
\* has ended the wait with an error.
KillMonitor ==
  /\ sh \in Trapping
  /\ Idle(Entry)
  /\ ~signalled
  /\ Die(Tasks)
  /\ monitor' = FALSE
  /\ sh' = IF sh = "term" THEN "failed" ELSE "exit"
  /\ UNCHANGED <<proc, signalled, stops, late>>

-----------------------------------------------------------------------------
(***************************************************************************)
(* Ends, and faults.                                                       *)
(***************************************************************************)
MonitorCrash ==
  /\ monitor
  /\ Die(Tasks)
  /\ monitor' = FALSE
  /\ sh' = IF sh = "wait" THEN "failed" ELSE sh
  /\ UNCHANGED <<proc, signalled, stops, late>>

\* Every process of the container is gone, the volume stays.
Down ==
  /\ Die(Actors)
  /\ proc' = [s \in Servers |-> "gone"]
  /\ monitor' = FALSE
  /\ sh' = "down"
  /\ signalled' = FALSE
  /\ stops' = 0
  /\ late' = {}

Exit == sh = "exit" /\ Down

\* The grace period is over, docker kill, the host loses power.
Killed == sh \notin {"down", "exit"} /\ Down

-----------------------------------------------------------------------------
Launching == {s \in Servers : proc[s] = "launching"}

\* A step of the command that the script is at.
EntryWork ==
  /\ Work(Entry)
  /\ late' = IF phase[Entry] = "scan" THEN Launching ELSE late
  /\ UNCHANGED <<sh, monitor, signalled, stops>>

\* A step of a job; cron fires only while its monitor is alive.
JobWork(t) ==
  /\ \/ monitor /\ \E k \in Jobs : Fire(t, k)
     \/ Acquire(t)
     \/ Work(t)
  /\ UNCHANGED shVars

GameStep(s) == (Settle(s) \/ GameEnds(s)) /\ UNCHANGED shVars

Script ==
  \/ Installed
  \/ StartMonitor
  \/ SetTrap
  \/ OnTerm
  \/ OnErr
  \/ OnTermAgain
  \/ KillMonitor
  \/ Exit

BoxNext ==
  \/ Boot
  \/ Script
  \/ EntryWork
  \/ Sigterm
  \/ MonitorCrash
  \/ Killed
  \/ \E t \in Tasks : JobWork(t)
  \/ \E s \in Servers : GameStep(s)

BoxSpec == BoxInit /\ [][BoxNext]_boxVars

\* bash and the command it runs keep running, and a launch settles.
BoxFairSpec ==
  /\ BoxSpec
  /\ WF_boxVars(Script)
  /\ WF_boxVars(EntryWork)
  /\ \A s \in Servers : WF_boxVars(Settle(s) /\ UNCHANGED shVars)

-----------------------------------------------------------------------------
(***************************************************************************)
(* Properties.                                                             *)
(***************************************************************************)

\* "safely instead of getting killed mid-save" (README.md:74): when the script
\* ends by itself, every game that has had no SIGINT was still being launched
\* when the script's last stop looked for it.  A job that starts the server
\* again during the first stop does not lose a world, because the stop for ERR
\* runs when the monitor is dead.
EndsSaved == sh = "exit" => \A s \in Servers : proc[s] = "running" => s \in late

\* A SIGTERM that the trap has taken, and a monitor that has died, end the
\* container by themselves, with jobs and games in any state: nothing in the
\* trap waits for the monitor's mutex or for a game that hangs.
StopsByItself == signalled \/ sh = "failed" ~> sh = "down"

\* How many more commands and waits the script comes to in this life: its stages,
\* and a stop for every SIGTERM that may still come or is not served yet.
ScriptLeft ==
  LET stages == [install |-> 7, start |-> 6, monitor |-> 5, wait |-> 4,
                 term |-> 3, failed |-> 2, err |-> 1, exit |-> 0, down |-> 0]
  IN  stages[sh] + (MaxStops - stops) + (IF signalled THEN 1 ELSE 0)

\* The script never goes back, whatever order signals, deaths of the monitor and
\* jobs come in: each of its steps leaves it fewer commands to run, each step of a
\* command leaves that fewer to take, and a trap is served once for its signal.
ScriptRunsOut ==
  [][sh # "down" /\ sh' # "down" =>
       /\ ScriptLeft' <= ScriptLeft
       /\ Script => ScriptLeft' < ScriptLeft
       /\ EntryWork => CommandLeft(Entry)' < CommandLeft(Entry)]_boxVars

=============================================================================
