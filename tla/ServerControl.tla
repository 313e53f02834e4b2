--------------------------- MODULE ServerControl ---------------------------
(***************************************************************************)
(* The commands that control the server (cli/src/main.rs), built on        *)
(* stop_server.  Two kinds of actors run them:                             *)
(*   - tasks of the monitor process, one per firing of a cron job, which   *)
(*     share the monitor's Arc<Mutex<Instance>>;                           *)
(*   - processes of the command line (entrypoint.sh, docker exec), each    *)
(*     with a mutex of its own that nobody else can hold.                  *)
(***************************************************************************)
EXTENDS Shutdown

CONSTANTS
  Tasks, Clis,  \* the two kinds of actors; Tasks also bounds the queued jobs
  None,         \* nobody holds the monitor's mutex
  CliCommands,  \* the commands that are typed in this configuration
  Attempts,     \* STEAMCMD_ATTEMPTS
  LaunchMode,   \* LAUNCH_MODE
  StopNotice,   \* WEBHOOK_URL is set and STOP_DELAY parses
  SlowLaunch    \* a job may look for the game before Proton has started it

Jobs == {"update_job", "restart_job"}
Commands == {"start", "stop", "restart", "update", "install"}

ASSUME ControlAssumption ==
  /\ Actors = Tasks \cup Clis
  /\ Tasks \cap Clis = {}
  /\ None \notin Actors
  /\ CliCommands \subseteq Commands
  /\ Attempts \in Nat \ {0}
  /\ LaunchMode \in {"proton", "native", "wine"}
  /\ StopNotice \in BOOLEAN
  /\ SlowLaunch \in BOOLEAN

VARIABLES
  pc,       \* where each actor is in its command
  cmd,      \* the command it runs
  attempt,  \* the try of steamcmd it is at
  holder,   \* the task that holds the monitor's mutex
  files     \* the game files that steamcmd writes

ctlVars == <<pc, cmd, attempt, holder, files>>
vars == <<stopVars, ctlVars>>

PC == {"idle", "queued", "check", "notify", "stop", "stopping", "steamcmd", "start"}
Files == {"absent", "partial", "complete"}

TypeOK ==
  /\ StopTypeOK
  /\ pc \in [Actors -> PC]
  /\ cmd \in [Actors -> Jobs \cup Commands \cup {"none"}]
  /\ attempt \in [Actors -> 1..Attempts]
  /\ holder \in Tasks \cup {None}
  /\ files \in Files

\* At most the server that entrypoint.sh started; only Proton has a launcher.
Init ==
  /\ StopInit
  /\ LaunchMode # "proton" => \A s \in Servers : proc[s] # "launching"
  /\ \A s, r \in Servers : proc[s] # "gone" /\ proc[r] # "gone" => s = r
  /\ pc = [a \in Actors |-> "idle"]
  /\ cmd = [a \in Actors |-> "none"]
  /\ attempt = [a \in Actors |-> 1]
  /\ holder = None
  /\ files \in Files

-----------------------------------------------------------------------------
(***************************************************************************)
(* Who runs what.  Enter(a, "idle") is the end of the command, where the   *)
(* mutex guard is dropped on every path.                                   *)
(***************************************************************************)
EnterReleasing(a, p) ==    \* variant: the guard's scope ends before the stop
  /\ pc' = [pc EXCEPT ![a] = p]
  /\ cmd' = [cmd EXCEPT ![a] = IF p = "idle" THEN "none" ELSE @]
  /\ holder' = IF p \in {"idle", "stopping"} /\ holder = a THEN None ELSE holder

Enter(a, p) ==
  /\ pc' = [pc EXCEPT ![a] = p]
  /\ cmd' = [cmd EXCEPT ![a] = IF p = "idle" THEN "none" ELSE @]
  /\ holder' = IF p = "idle" /\ holder = a THEN None ELSE holder

FirstStepUnstopped ==      \* variant: the scheduled restart only starts
  [update_job |-> "check", update |-> "check",
   restart_job |-> "start", restart |-> "stop",
   stop |-> IF StopNotice THEN "notify" ELSE "stop",
   install |-> "steamcmd", start |-> "start"]

FirstStep ==
  [update_job |-> "check", update |-> "check",
   restart_job |-> "stop", restart |-> "stop",
   stop |-> IF StopNotice THEN "notify" ELSE "stop",
   install |-> "steamcmd", start |-> "start"]

\* Cron fires a job: tokio::spawn, and the new task waits for the mutex.
Fire(t, k) ==
  /\ pc[t] = "idle"
  /\ pc' = [pc EXCEPT ![t] = "queued"]
  /\ cmd' = [cmd EXCEPT ![t] = k]
  /\ UNCHANGED <<stopVars, attempt, holder, files>>

AcquireAnyway(t) ==        \* variant: a mutex per task, not one for all
  /\ pc[t] = "queued"
  /\ holder' = t
  /\ pc' = [pc EXCEPT ![t] = FirstStep[cmd[t]]]
  /\ UNCHANGED <<stopVars, cmd, attempt, files>>

Acquire(t) ==
  /\ pc[t] = "queued"
  /\ holder = None
  /\ holder' = t
  /\ pc' = [pc EXCEPT ![t] = FirstStep[cmd[t]]]
  /\ UNCHANGED <<stopVars, cmd, attempt, files>>

\* A command of its own process: its mutex is always free.
Invoke(c, k) ==
  /\ pc[c] = "idle"
  /\ pc' = [pc EXCEPT ![c] = FirstStep[k]]
  /\ cmd' = [cmd EXCEPT ![c] = k]
  /\ UNCHANGED <<stopVars, attempt, holder, files>>

-----------------------------------------------------------------------------
(***************************************************************************)
(* The steps of a command.                                                 *)
(***************************************************************************)

CheckThenUpdate(a) ==      \* variant: the job updates without a stop
  /\ pc[a] = "check"
  /\ \/ Enter(a, "steamcmd")
     \/ Enter(a, "idle")
  /\ UNCHANGED <<stopVars, attempt, files>>

\* update_available() asks Steam.
Check(a) ==
  /\ pc[a] = "check"
  /\ \/ Enter(a, IF cmd[a] = "update_job" THEN "stop" ELSE "steamcmd")
     \/ Enter(a, "idle")
  /\ UNCHANGED <<stopVars, attempt, files>>

\* The "stopping" webhook and STOP_DELAY; a send that fails panics, and
\* the process is gone before it has stopped anything.
Notify(a) ==
  /\ pc[a] = "notify"
  /\ \/ Enter(a, "stop")
     \/ Enter(a, "idle")
  /\ UNCHANGED <<stopVars, attempt, files>>

CallStop(a) ==
  /\ pc[a] = "stop"
  /\ Call(a)
  /\ Enter(a, "stopping")
  /\ UNCHANGED <<attempt, files>>

\* Unless SlowLaunch, the schedules leave a launch the time it takes.
Settled == \A s \in Servers : proc[s] # "launching"

StopStep(a) ==
  /\ Step(a)
  /\ a \in Tasks /\ phase[a] = "scan" => SlowLaunch \/ Settled
  /\ UNCHANGED ctlVars

AfterStop ==
  [update_job |-> "steamcmd",
   restart_job |-> "start", restart |-> "start",
   stop |-> "idle"]

EndStopAnyway(a) ==        \* variant: an Err of the stop is logged, no more
  /\ pc[a] = "stopping"
  /\ Return(a)
  /\ Enter(a, AfterStop[cmd[a]])
  /\ UNCHANGED <<attempt, files>>

EndStopRetrying(a) ==      \* variant: an Err of the stop is tried again
  /\ pc[a] = "stopping"
  /\ Return(a)
  /\ Enter(a, IF phase[a] = "ok" THEN AfterStop[cmd[a]] ELSE "stop")
  /\ UNCHANGED <<attempt, files>>

EndStop(a) ==
  /\ pc[a] = "stopping"
  /\ Return(a)
  /\ Enter(a, IF phase[a] = "ok" THEN AfterStop[cmd[a]] ELSE "idle")
  /\ UNCHANGED <<attempt, files>>

SteamcmdOk(a) ==
  /\ pc[a] = "steamcmd"
  /\ files' = "complete"
  /\ attempt' = [attempt EXCEPT ![a] = 1]
  /\ Enter(a, IF cmd[a] = "update_job" THEN "start" ELSE "idle")
  /\ UNCHANGED stopVars

SteamcmdOffByOne(a) ==     \* variant: one try too many
  /\ pc[a] = "steamcmd"
  /\ files' \in {files, "partial"}
  /\ IF attempt[a] <= Attempts
       THEN /\ attempt' = [attempt EXCEPT ![a] = @ + 1]
            /\ UNCHANGED <<pc, cmd, holder>>
       ELSE /\ attempt' = [attempt EXCEPT ![a] = 1]
            /\ Enter(a, "idle")
  /\ UNCHANGED stopVars

SteamcmdForever(a) ==      \* variant: the count starts again at the limit
  /\ pc[a] = "steamcmd"
  /\ files' \in {files, "partial"}
  /\ attempt' = [attempt EXCEPT ![a] = IF @ < Attempts THEN @ + 1 ELSE 1]
  /\ UNCHANGED <<stopVars, pc, cmd, holder>>

SteamcmdNoReturn(a) ==     \* variant: the job goes on after the last failure
  /\ pc[a] = "steamcmd"
  /\ files' \in {files, "partial"}
  /\ IF attempt[a] < Attempts
       THEN /\ attempt' = [attempt EXCEPT ![a] = @ + 1]
            /\ UNCHANGED <<pc, cmd, holder>>
       ELSE /\ attempt' = [attempt EXCEPT ![a] = 1]
            /\ Enter(a, IF cmd[a] = "update_job" THEN "start" ELSE "idle")
  /\ UNCHANGED stopVars

\* A failed try is repeated until the tries are used up.
SteamcmdErr(a) ==
  /\ pc[a] = "steamcmd"
  /\ files' \in {files, "partial"}
  /\ IF attempt[a] < Attempts
       THEN /\ attempt' = [attempt EXCEPT ![a] = @ + 1]
            /\ UNCHANGED <<pc, cmd, holder>>
       ELSE /\ attempt' = [attempt EXCEPT ![a] = 1]
            /\ Enter(a, "idle")
  /\ UNCHANGED stopVars

\* start_server_via_runtime: Proton's launcher is spawned and left alone.
StartOk(a) ==
  /\ pc[a] = "start"
  /\ \E s \in Servers :
       \/ LaunchMode = "proton" /\ Spawn(s, "launching")
       \/ LaunchMode = "native" /\ files # "absent" /\ Spawn(s, "running")
  /\ Enter(a, "idle")
  /\ UNCHANGED <<phase, asked, todo, attempt, files>>

\* No Proton, an unwritable file, the Wine runtime.
StartErr(a) ==
  /\ pc[a] = "start"
  /\ Enter(a, "idle")
  /\ UNCHANGED <<stopVars, attempt, files>>

\* Proton's launcher comes to its end: the game is up, or it never will be.
Settle(s) ==
  /\ proc[s] = "launching"
  /\ \/ files # "absent" /\ Appear(s)
     \/ Quit(s)
  /\ UNCHANGED ctlVars

GameEnds(s) ==
  /\ proc[s] # "launching"
  /\ Quit(s) \/ Reap(s)
  /\ UNCHANGED ctlVars

-----------------------------------------------------------------------------
Work(a) ==
  \/ Check(a)
  \/ Notify(a)
  \/ CallStop(a)
  \/ StopStep(a)
  \/ EndStop(a)
  \/ SteamcmdOk(a)
  \/ SteamcmdErr(a)
  \/ StartOk(a)
  \/ StartErr(a)

Next ==
  \/ \E s \in Servers : Settle(s) \/ GameEnds(s)
  \/ \E t \in Tasks : Acquire(t) \/ \E k \in Jobs : Fire(t, k)
  \/ \E c \in Clis, k \in CliCommands : Invoke(c, k)
  \/ \E a \in Actors : Work(a)

Spec == Init /\ [][Next]_vars

\* Threads keep running, steamcmd ends, a launch settles, and tokio's mutex
\* serves its waiters in the order in which they came.
FairSpec ==
  /\ Spec
  /\ \A a \in Actors : WF_vars(Work(a))
  /\ \A t \in Tasks : SF_vars(Acquire(t))
  /\ \A s \in Servers : WF_vars(Settle(s))

-----------------------------------------------------------------------------
(***************************************************************************)
(* Properties.                                                             *)
(***************************************************************************)

Live == {s \in Servers : proc[s] # "gone"}

\* Two servers on one save directory corrupt it (docs/health-checks.md:137):
\* a start never finds another server, or its launcher, alive.
AtMostOneServer == \A s, r \in Live : s = r

\* steamcmd rewrites the game files only while nothing runs from them.
NoUpdateUnderServer == (\E a \in Actors : pc[a] = "steamcmd") => Live = {}

\* STOP_TIMEOUT is "seconds the server gets to save and exit after an
\* interrupt before it is killed" (README.md:142): a call kills only what the
\* same call interrupted, STOP_TIMEOUT ago.
KillsOnlyAsked == \A a \in Actors : phase[a] = "kill" => todo[a] \subseteq asked[a]

\* An update job starts the server only from files that its own steamcmd run
\* completed and that no other job has touched since.
StartsUpdatedFiles ==
  \A t \in Tasks : pc[t] = "start" /\ cmd[t] = "update_job" => files = "complete"

\* The monitor's mutex is held across every await of a job: no two jobs are
\* past it at once, and it is free exactly when none is.
JobsExclusive ==
  \A t \in Tasks : pc[t] \notin {"idle", "queued"} <=> holder = t

\* Every job that fired gets its turn and ends, however its steps fail: no
\* path keeps the mutex, no stop waits forever for a game that hangs.
EveryJobEnds == \A t \in Tasks : pc[t] = "queued" ~> pc[t] = "idle"

\* Every command that is typed ends, whatever jobs run at the same time.
EveryCommandEnds == \A c \in Clis : pc[c] # "idle" ~> pc[c] = "idle"

\* How many more steps a command can take, from the mutex to its end.
CommandLeft(a) ==
  LET table == Cardinality(Servers)
  IN  CASE pc[a] = "queued" -> Attempts + 2 * table + 8
        [] pc[a] \in {"check", "notify"} -> Attempts + 2 * table + 7
        [] pc[a] = "stop" -> Attempts + 2 * table + 6
        [] pc[a] = "stopping" -> Attempts + 2 + StopLeft(a)
        [] pc[a] = "steamcmd" -> Attempts + 2 - attempt[a]
        [] pc[a] = "start" -> 1
        [] pc[a] = "idle" -> 0

\* The steps of a command are counted from the start: none of them repeats without
\* a limit, an Err of the stop, a game that hangs, a steamcmd that keeps failing or
\* another actor's steps included.
CommandsRunOut ==
  [][\A a \in Actors : pc[a] # "idle" =>
       \/ CommandLeft(a)' < CommandLeft(a)
       \/ UNCHANGED <<pc[a], phase[a], todo[a], attempt[a]>>]_vars

\* The jobs together implement a single managed server.
Managed == INSTANCE ManagedServer WITH
  up <- Live, updating <- \E a \in Actors : pc[a] = "steamcmd"

ManagesOneServer == Managed!Spec

=============================================================================
