-------------------------- MODULE Container_proofs --------------------------
(***************************************************************************)
(* Theorems about the container, for any number of jobs, servers, steamcmd *)
(* tries and SIGTERMs.                                                     *)
(***************************************************************************)
EXTENDS Container, ServerControl_proofs

(***************************************************************************)
(* Where the script is says what its command can be doing, whether there   *)
(* is a monitor, and, before the monitor, that no server is there until    *)
(* the start.                                                              *)
(***************************************************************************)
EntryAt(places) == pc[Entry] \in places

ScriptInv ==
  /\ sh \in Sh /\ monitor \in BOOLEAN /\ signalled \in BOOLEAN
  /\ stops \in 0..MaxStops /\ late \subseteq Servers
  /\ ~monitor => \A t \in Tasks : pc[t] = "idle" /\ phase[t] = "out"
  /\ sh \in {"down", "install", "start", "failed", "err", "exit"} => ~monitor
  /\ cmd[Entry] \in {"none", "install", "start", "stop"}
  /\ phase[Entry] # "out" <=> EntryAt({"stopping"})
  /\ sh \in {"down", "monitor", "wait", "failed", "exit"} => EntryAt({"idle"})
  /\ sh = "install" => EntryAt({"idle", "steamcmd"})
  /\ sh = "start" => EntryAt({"idle", "start"})
  /\ sh \in Trapping => EntryAt({"idle", "notify", "stop", "stopping"})
  /\ sh \in {"down", "install"} \/ EntryAt({"start"}) => Live = {}

BoxInv == StopInv /\ CtlInv /\ ScriptInv

-----------------------------------------------------------------------------
(***************************************************************************)
(* The three kinds of steps: one of the commands, a death of the monitor,  *)
(* and the end of the container.                                           *)
(***************************************************************************)
LEMMA BoxSteps ==
  BoxNext => [Next]_vars \/ (Die(Tasks) /\ UNCHANGED proc) \/ Down
<1> USE ContainerAssumption
<1>1. ASSUME NEW k \in {"install", "start", "stop"}, NEW n, Run(k, n) PROVE Next
  BY <1>1 DEF Run, Next
<1>2. Boot \/ Installed \/ OnTerm \/ OnErr \/ OnTermAgain => Next
  BY <1>1 DEF Boot, Installed, OnTerm, OnErr, OnTermAgain
<1>3. StartMonitor \/ SetTrap \/ Sigterm => UNCHANGED vars
  BY DEF StartMonitor, SetTrap, Sigterm
<1>4. KillMonitor \/ MonitorCrash => Die(Tasks) /\ UNCHANGED proc
  BY DEF KillMonitor, MonitorCrash
<1>5. Exit \/ Killed => Down
  BY DEF Exit, Killed
<1>6. EntryWork \/ (\E t \in Tasks : JobWork(t)) \/ (\E s \in Servers : GameStep(s))
      => Next
  BY ControlAssumption DEF EntryWork, JobWork, GameStep, Next
<1> QED
  BY <1>2, <1>3, <1>4, <1>5, <1>6 DEF BoxNext, Script

\* The dead know nothing, and the others what they knew.
LEMMA DieStep ==
  ASSUME StopInv, CtlInv, NEW A \in {Tasks, Actors}, Die(A),
         \/ UNCHANGED proc
         \/ A = Actors /\ proc' = [s \in Servers |-> "gone"]
  PROVE  StopInv' /\ CtlInv'
<1> USE ControlAssumption
<1>0. A \subseteq Actors
  OBVIOUS
<1>1. StopTypeOK'
  BY <1>0 DEF Die, StopInv, StopTypeOK, ProcState, Phase
<1>2. ASSUME NEW a \in Actors PROVE CallInv(a)'
  <2>1. CASE a \in A
    BY <2>1 DEF Die, CallInv
  <2>2. CASE a \notin A
    BY <2>2 DEF Die, StopInv, CallInv
  <2> QED
    BY <2>1, <2>2
<1>3. CtlTypeOK'
  BY <1>0 DEF Die, CtlInv, CtlTypeOK, PC, Files
<1>4. CmdFits'
  BY <1>0 DEF Die, CtlInv, CmdFits, Fits
<1>5. JobsExclusive'
  BY DEF Die, CtlInv, CtlTypeOK, JobsExclusive
<1> QED
  BY <1>1, <1>2, <1>3, <1>4, <1>5 DEF StopInv, CtlInv

\* What is known of stop_server's calls and of the commands survives the script's
\* steps, deaths and the container's end too.
LEMMA StopCtlStep == StopInv /\ CtlInv /\ [BoxNext]_boxVars => StopInv' /\ CtlInv'
<1>1. UNCHANGED boxVars => [Next]_vars
  BY DEF boxVars
<1>2. StopInv /\ CtlInv /\ [Next]_vars => StopInv' /\ CtlInv'
  BY StopInvStep, ControlStopStep, CtlInvStep
<1>3. StopInv /\ CtlInv /\ Down => StopInv' /\ CtlInv'
  BY DieStep DEF Down
<1> QED
  BY <1>1, <1>2, <1>3, BoxSteps, DieStep

-----------------------------------------------------------------------------
\* Jobs die with the monitor: without it none takes a step.
LEMMA DeadJobsRest ==
  ASSUME BoxInv, ~monitor, NEW t \in Tasks PROVE ~JobWork(t)
<1>1. pc[t] = "idle" /\ phase[t] = "out"
  BY DEF BoxInv, ScriptInv
<1> QED
  BY <1>1 DEF JobWork, Acquire, Work, Check, Notify, CallStop, StopStep, Step, Scan,
     Interrupt, PollEmpty, Expire, Kill, Recheck, EndStop, SteamcmdOk, SteamcmdErr,
     StartOk, StartErr

\* A job's step, as the script sees it.
LEMMA JobLeavesScript ==
  ASSUME BoxInv, NEW t \in Tasks, JobWork(t)
  PROVE  /\ UNCHANGED <<sh, monitor, signalled, stops, late, pc[Entry], phase[Entry]>>
         /\ monitor
<1> USE ControlAssumption, ContainerAssumption
    DEF BoxInv, StopInv, StopTypeOK, CtlInv, CtlTypeOK
<1>1. Entry # t
  OBVIOUS
<1>2. pc'[Entry] = pc[Entry]
  BY <1>1 DEF JobWork, Fire, Acquire, Work, Check, Notify, CallStop, StopStep,
     EndStop, SteamcmdOk, SteamcmdErr, StartOk, StartErr, Enter, ctlVars
<1>3. phase'[Entry] = phase[Entry]
  BY <1>1 DEF JobWork, Fire, Acquire, Work, Check, Notify, CallStop, StopStep, Step,
     Call, Scan, Interrupt, PollEmpty, Expire, Kill, Recheck, EndStop, Return,
     SteamcmdOk, SteamcmdErr, StartOk, StartErr, Goto, stopVars
<1>4. UNCHANGED <<sh, monitor, signalled, stops, late>>
  BY DEF JobWork, shVars
<1>5. monitor
  BY DeadJobsRest DEF ScriptInv
<1> QED
  BY <1>2, <1>3, <1>4, <1>5

\* The script's command, as the jobs see it, and where it may go next.
LEMMA EntryStep ==
  ASSUME BoxInv, EntryWork
  PROVE  /\ \A t \in Tasks : pc'[t] = pc[t] /\ phase'[t] = phase[t]
         /\ cmd'[Entry] \in {"none", "install", "start", "stop"}
         /\ sh \in {"install", "start"} \cup Trapping
         /\ phase'[Entry] # "out" <=> pc'[Entry] = "stopping"
         /\ sh = "install" => pc'[Entry] \in {"steamcmd", "idle"}
         /\ sh = "start" => pc'[Entry] = "idle"
         /\ sh \in Trapping => pc'[Entry] \in {"idle", "stop", "stopping"}
<1> USE ControlAssumption, ContainerAssumption
    DEF BoxInv, StopInv, StopTypeOK, CtlInv, CtlTypeOK
<1>1. Entry \in Actors /\ Entry \notin Tasks
  OBVIOUS
<1>2. Work(Entry)
  BY DEF EntryWork
<1>3. \A t \in Tasks : pc'[t] = pc[t]
  BY <1>1, <1>2 DEF Work, Check, Notify, CallStop, StopStep, EndStop, SteamcmdOk,
     SteamcmdErr, StartOk, StartErr, Enter, ctlVars
<1>4. \A t \in Tasks : phase'[t] = phase[t]
  BY <1>1, <1>2 DEF Work, Check, Notify, CallStop, StopStep, Step, Call, Scan,
     Interrupt, PollEmpty, Expire, Kill, Recheck, EndStop, Return, SteamcmdOk,
     SteamcmdErr, StartOk, StartErr, Goto, stopVars
<1>5. pc[Entry] # "idle"
  BY <1>2 DEF ScriptInv, EntryAt, Work, Check, Notify, CallStop, StopStep, Step, Scan,
     Interrupt, PollEmpty, Expire, Kill, Recheck, EndStop, SteamcmdOk, SteamcmdErr,
     StartOk, StartErr
<1>6. sh \in {"install", "start"} \cup Trapping
  BY <1>5 DEF ScriptInv, EntryAt, Sh, Untrapped
<1>7. cmd'[Entry] \in {"none", "install", "start", "stop"}
  BY <1>2 DEF ScriptInv, Work, Check, Notify, CallStop, StopStep, EndStop, SteamcmdOk,
     SteamcmdErr, StartOk, StartErr, Enter, ctlVars
<1>8. phase'[Entry] # "out" <=> pc'[Entry] = "stopping"
  <2>1. CASE CallStop(Entry)
    BY <1>1, <2>1 DEF CallStop, Call, Goto, Enter
  <2>2. CASE StopStep(Entry)
    BY <1>1, <2>2 DEF StopStep, Step, Scan, Interrupt, PollEmpty, Expire, Kill,
       Recheck, Goto, ctlVars, ScriptInv, EntryAt
  <2>3. CASE EndStop(Entry)
    BY <1>1, <2>3 DEF EndStop, Return, Goto, Enter, AfterStop, ScriptInv, CmdFits, Fits
  <2>4. CASE \/ Check(Entry) \/ Notify(Entry) \/ SteamcmdOk(Entry)
             \/ SteamcmdErr(Entry) \/ StartOk(Entry) \/ StartErr(Entry)
    BY <1>1, <2>4 DEF Check, Notify, SteamcmdOk, SteamcmdErr, StartOk, StartErr,
       Enter, stopVars, ScriptInv, EntryAt
  <2> QED
    BY <1>2, <2>1, <2>2, <2>3, <2>4 DEF Work
<1>9. pc[Entry] = "steamcmd" => pc'[Entry] \in {"steamcmd", "idle"}
  BY <1>1, <1>2 DEF Work, Check, Notify, CallStop, StopStep, Step, Scan, Interrupt,
     PollEmpty, Expire, Kill, Recheck, EndStop, SteamcmdOk, SteamcmdErr, StartOk,
     StartErr, Enter, ScriptInv, EntryAt
<1>10. pc[Entry] = "start" => pc'[Entry] = "idle"
  BY <1>1, <1>2 DEF Work, Check, Notify, CallStop, StopStep, Step, Scan, Interrupt,
     PollEmpty, Expire, Kill, Recheck, EndStop, SteamcmdOk, SteamcmdErr, StartOk,
     StartErr, Enter, ScriptInv, EntryAt
<1>11. pc[Entry] \in {"notify", "stop", "stopping"}
       => pc'[Entry] \in {"idle", "stop", "stopping"}
  BY <1>1, <1>2 DEF Work, Check, Notify, CallStop, StopStep, Step, Scan, Interrupt,
     PollEmpty, Expire, Kill, Recheck, EndStop, AfterStop, SteamcmdOk, SteamcmdErr,
     StartOk, StartErr, Enter, ctlVars, ScriptInv, EntryAt, CmdFits, Fits
<1> QED
  BY <1>3, <1>4, <1>5, <1>6, <1>7, <1>8, <1>9, <1>10, <1>11 DEF ScriptInv, EntryAt

\* Each step of the script, of its command, of a job and of a fault keeps what the
\* script's place says.
LEMMA ScriptInvStep == ASSUME BoxInv, [BoxNext]_boxVars PROVE ScriptInv'
<1> USE ControlAssumption, ContainerAssumption
<1>0. /\ Entry \in Actors /\ Entry \notin Tasks
      /\ ScriptInv
      /\ pc \in [Actors -> PC] /\ cmd \in [Actors -> Jobs \cup Commands \cup {"none"}]
  BY DEF BoxInv, CtlInv, CtlTypeOK
<1> USE <1>0 DEF ScriptInv, EntryAt, Sh, Untrapped, Trapping
<1>1. CASE UNCHANGED boxVars
  BY <1>1 DEF boxVars, vars, stopVars, ctlVars, shVars, Live
<1>2. ASSUME NEW k \in {"install", "start", "stop"}, NEW n, Run(k, n)
      PROVE  /\ UNCHANGED <<proc, phase>> /\ Live' = Live /\ pc[Entry] = "idle"
             /\ \A t \in Tasks : pc'[t] = pc[t]
             /\ pc'[Entry] = FirstStep[k] /\ cmd'[Entry] = k /\ sh' = n
  BY <1>2 DEF Run, Idle, Invoke, stopVars, Live
<1>3. CASE Boot
  <2>1. \/ Run("install", "install")
        \/ Run("start", "start")
    BY <1>3 DEF Boot
  <2> QED
    BY <1>2, <1>3, <2>1 DEF Boot, FirstStep
<1>4. CASE Installed
  <2>1. /\ UNCHANGED <<proc, phase>> /\ Live' = Live /\ pc[Entry] = "idle"
        /\ \A t \in Tasks : pc'[t] = pc[t]
        /\ pc'[Entry] = "start" /\ cmd'[Entry] = "start" /\ sh' = "start"
    BY <1>2, <1>4 DEF Installed, FirstStep
  <2> QED
    BY <1>4, <2>1 DEF Installed
<1>5. ASSUME NEW n \in Trapping, Run("stop", n), UNCHANGED <<monitor, stops, late>>,
             signalled' \in BOOLEAN, sh \in {"failed", "err"} => n = "err",
             n = "err" => sh \in {"failed", "err"}
      PROVE  ScriptInv'
  <2>1. FirstStep["stop"] \in {"notify", "stop"}
    BY DEF FirstStep
  <2> QED
    BY <1>2, <1>5, <2>1
<1>6. CASE OnErr
  BY <1>5, <1>6 DEF OnErr
<1>7. CASE OnTerm \/ OnTermAgain
  BY <1>5, <1>7 DEF OnTerm, OnTermAgain
<1>8. CASE StartMonitor \/ SetTrap \/ Sigterm
  <2>1. UNCHANGED <<pc, phase, cmd, proc>> /\ Live' = Live
    BY <1>8 DEF StartMonitor, SetTrap, Sigterm, vars, stopVars, ctlVars, Live
  <2>2. signalled' \in BOOLEAN /\ monitor' \in BOOLEAN
    BY <1>8 DEF StartMonitor, SetTrap, Sigterm
  <2>3. CASE StartMonitor
    BY <2>1, <2>2, <2>3 DEF StartMonitor, Idle
  <2>4. CASE SetTrap
    BY <2>1, <2>2, <2>4 DEF SetTrap
  <2>5. CASE Sigterm
    BY <2>1, <2>2, <2>5 DEF Sigterm
  <2> QED
    BY <1>8, <2>3, <2>4, <2>5
<1>9. CASE KillMonitor \/ MonitorCrash
  <2>1. /\ \A t \in Tasks : pc'[t] = "idle" /\ phase'[t] = "out"
        /\ UNCHANGED <<pc[Entry], phase[Entry], cmd[Entry], proc>> /\ Live' = Live
    BY <1>9 DEF KillMonitor, MonitorCrash, Die, Live
  <2> QED
    BY <1>9, <2>1 DEF KillMonitor, MonitorCrash, Idle
<1>10. CASE Exit \/ Killed
  <2>1. /\ \A a \in Actors : pc'[a] = "idle" /\ phase'[a] = "out" /\ cmd'[a] = "none"
        /\ Live' = {}
    BY <1>10 DEF Exit, Killed, Down, Die, Live
  <2>2. /\ sh' = "down" /\ stops' = 0 /\ late' = {}
        /\ monitor' \in BOOLEAN /\ signalled' \in BOOLEAN /\ ~monitor'
    BY <1>10 DEF Exit, Killed, Down
  <2> QED
    BY <2>1, <2>2
<1>11. CASE EntryWork
  <2>1. UNCHANGED <<sh, monitor, signalled, stops>> /\ late' \subseteq Servers
    BY <1>11 DEF EntryWork, Launching
  <2>2. sh = "install" => UNCHANGED proc
    BY <1>11 DEF EntryWork, Work, Check, Notify, CallStop, StopStep, Step, Scan,
       Interrupt, PollEmpty, Expire, Kill, Recheck, EndStop, SteamcmdOk, SteamcmdErr,
       StartOk, StartErr, stopVars
  <2>3. sh = "install" => Live' = {}
    BY <2>2 DEF Live
  <2>4. sh = "down" => FALSE
    BY <1>11, EntryStep
  <2> QED
    BY <1>11, <2>1, <2>3, <2>4, EntryStep
<1>12. ASSUME NEW t \in Tasks, JobWork(t) PROVE ScriptInv'
  <2>1. /\ UNCHANGED <<sh, monitor, signalled, stops, late, pc[Entry], phase[Entry]>>
        /\ monitor
    BY <1>12, JobLeavesScript
  <2>2. cmd'[Entry] = cmd[Entry]
    BY <1>12 DEF JobWork, Fire, Acquire, Work, Check, Notify, CallStop, StopStep,
       EndStop, SteamcmdOk, SteamcmdErr, StartOk, StartErr, Enter, ctlVars
  <2> QED
    BY <2>1, <2>2
<1>13. ASSUME NEW s \in Servers, GameStep(s) PROVE ScriptInv'
  <2>1. UNCHANGED <<pc, phase, cmd, sh, monitor, signalled, stops, late>>
    BY <1>13 DEF GameStep, Settle, GameEnds, Appear, Quit, Reap, ctlVars, shVars
  <2>2. Live' \subseteq Live
    BY <1>13 DEF GameStep, Settle, GameEnds, Appear, Quit, Reap, Live, BoxInv, StopInv,
       StopTypeOK
  <2> QED
    BY <2>1, <2>2
<1> QED
  BY <1>1, <1>3, <1>4, <1>6, <1>7, <1>8, <1>9, <1>10, <1>11, <1>12, <1>13
  DEF BoxNext, Script

\* A container that has not been created yet satisfies the invariant.
LEMMA BoxInvInit == BoxInit => BoxInv
<1> SUFFICES ASSUME BoxInit PROVE BoxInv
  OBVIOUS
<1> USE ControlAssumption, ContainerAssumption DEF BoxInit
<1>1. StopInv
  BY DEF StopInv, StopTypeOK, CallInv, ProcState, Phase
<1>2. CtlInv
  BY DEF CtlInv, CtlTypeOK, CmdFits, Fits, JobsExclusive, PC
<1>3. ScriptInv
  <2>1. Live = {} /\ monitor \in BOOLEAN /\ signalled \in BOOLEAN /\ ~monitor
    BY DEF Live
  <2> QED
    BY <2>1 DEF ScriptInv, EntryAt, Sh, Untrapped, Trapping
<1> QED
  BY <1>1, <1>2, <1>3 DEF BoxInv

\* Types, what every stop knows, and where the script and its commands can be.
THEOREM BoxInvariant == BoxSpec => []BoxInv
<1>1. BoxInv /\ [BoxNext]_boxVars => BoxInv'
  BY StopCtlStep, ScriptInvStep DEF BoxInv
<1> QED
  BY BoxInvInit, <1>1, PTL DEF BoxSpec

\* The script's state, and that of the commands under it, keep their types through
\* any number of lives of the container.
THEOREM BoxTypeCorrect == BoxSpec => []BoxTypeOK
<1>1. BoxInv => BoxTypeOK
  BY DEF BoxInv, StopInv, CtlInv, CtlTypeOK, TypeOK, ScriptInv, BoxTypeOK
<1> QED
  BY <1>1, BoxInvariant, PTL

\* In the container, too, an Ok of stop_server means that what it found is gone,
\* with the script's stop, the jobs' stops and deaths of the monitor in between.
THEOREM BoxOkMeansGone == BoxSpec => []StopOkMeansGone
<1>1. BoxInv => StopOkMeansGone
  BY DEF BoxInv, StopInv, CallInv, StopOkMeansGone
<1> QED
  BY <1>1, BoxInvariant, PTL

\* What a stop of the script or of a job found has had SIGINT, or is on its way
\* out, before the stop waits and kills.
THEOREM BoxFoundAreInterrupted == BoxSpec => []AskedWereInterrupted
<1>1. BoxInv => AskedWereInterrupted
  BY DEF BoxInv, StopInv, CallInv, StopTypeOK, ProcState, AskedWereInterrupted
<1> QED
  BY <1>1, BoxInvariant, PTL

\* A monitor that dies with its mutex held leaves none behind, so the jobs of the
\* next one exclude each other too.
THEOREM BoxJobsAreExclusive == BoxSpec => []JobsExclusive
<1>1. BoxInv => JobsExclusive
  BY DEF BoxInv, CtlInv
<1> QED
  BY <1>1, BoxInvariant, PTL

-----------------------------------------------------------------------------
(***************************************************************************)
(* The script and its commands come to an end.                             *)
(***************************************************************************)
\* The dead are outside stop_server, so commands and calls stay together.
LEMMA BoxFitsStep ==
  ASSUME BoxInv, StopFits, [BoxNext]_boxVars PROVE StopFits'
<1> USE ControlAssumption
<1>1. [Next]_vars => StopFits'
  BY StopFitsStep DEF BoxInv, StopInv
<1>2. ASSUME NEW A \in {Tasks, Actors}, Die(A) PROVE StopFits'
  BY <1>2 DEF Die, StopFits
<1>3. UNCHANGED boxVars => [Next]_vars
  BY DEF boxVars
<1> QED
  BY <1>1, <1>2, <1>3, BoxSteps DEF Down

\* Types, calls and places, over all lives of the container.
LEMMA BoxPlaces == BoxSpec => [](BoxInv /\ StopFits)
<1>1. BoxInit => StopFits
  BY DEF BoxInit, StopFits
<1>2. BoxInv /\ StopFits /\ [BoxNext]_boxVars => StopFits'
  BY BoxFitsStep
<1> QED
  BY <1>1, <1>2, BoxInvariant, PTL DEF BoxSpec

\* Only a command that has ended has no steps left.
LEMMA BegunHasSteps ==
  ASSUME StopTypeOK, CtlInv, NEW a \in Actors, pc[a] # "idle"
  PROVE  CommandLeft(a) > 0
<1>1. Cardinality(Servers) \in Nat
  BY PidCount
<1>2. 2 * Cardinality(Servers) + 3 \in Nat
  BY <1>1
<1>3. StopLeft(a) \in Nat
  BY <1>2, StopLeftBound
<1>4. /\ pc[a] \in PC /\ attempt[a] \in 1..Attempts
      /\ Attempts \in Nat \ {0}
  BY ControlAssumption DEF CtlInv, CtlTypeOK
<1> QED
  BY <1>1, <1>3, <1>4 DEF CommandLeft, PC

\* A step of the container lowers the count of a command or leaves it where it is:
\* a death ends it.
LEMMA BoxCountStep ==
  ASSUME BoxInv, StopFits, [BoxNext]_boxVars, NEW a \in Actors, pc[a] # "idle"
  PROVE  \/ CommandLeft(a)' < CommandLeft(a)
         \/ UNCHANGED <<pc[a], phase[a], todo[a], attempt[a]>>
<1> USE ControlAssumption
<1>1. CASE [Next]_vars
  BY <1>1, CountStep DEF BoxInv, StopInv
<1>2. ASSUME NEW A \in {Tasks, Actors}, Die(A)
      PROVE  \/ CommandLeft(a)' < CommandLeft(a)
             \/ UNCHANGED <<pc[a], phase[a], todo[a], attempt[a]>>
  <2>1. CASE a \in A
    <3>1. CommandLeft(a)' = 0
      BY <1>2, <2>1 DEF Die, CommandLeft
    <3> QED
      BY <3>1, BegunHasSteps DEF BoxInv, StopInv
  <2>2. CASE a \notin A
    BY <1>2, <2>2 DEF Die
  <2> QED
    BY <2>1, <2>2
<1>3. UNCHANGED boxVars => [Next]_vars
  BY DEF boxVars
<1> QED
  BY <1>1, <1>2, <1>3, BoxSteps DEF Down

\* In the container every command has a limited number of steps, whoever dies.
THEOREM BoxStepsRunOut == BoxSpec => CommandsRunOut
<1> DEFINE Counts ==
      \A a \in Actors : pc[a] # "idle" =>
        \/ CommandLeft(a)' < CommandLeft(a)
        \/ UNCHANGED <<pc[a], phase[a], todo[a], attempt[a]>>
<1>1. BoxInv /\ StopFits /\ [BoxNext]_boxVars => [Counts]_vars
  BY BoxCountStep
<1> QED
  BY <1>1, BoxPlaces, PTL DEF BoxSpec, CommandsRunOut

\* Each step of the script leaves it fewer commands, each step of its command
\* leaves that fewer steps, and nothing else gives either of them more.
LEMMA ScriptCountStep ==
  ASSUME BoxInv, StopFits, BoxNext, sh # "down", sh' # "down"
  PROVE  /\ ScriptLeft' <= ScriptLeft
         /\ Script => ScriptLeft' < ScriptLeft
         /\ EntryWork => CommandLeft(Entry)' < CommandLeft(Entry)
<1> USE ControlAssumption, ContainerAssumption
<1>1. /\ sh \in Sh /\ stops \in 0..MaxStops /\ signalled \in BOOLEAN
      /\ MaxStops \in Nat /\ stops \in Int /\ Entry \in Actors
  BY DEF BoxInv, ScriptInv
<1> USE <1>1 DEF Sh, Untrapped, Trapping
<1>2. EntryWork => CommandLeft(Entry)' < CommandLeft(Entry)
  BY WorkCounts DEF EntryWork, BoxInv, StopInv
<1>3. Script => ScriptLeft' < ScriptLeft
  <2>1. CASE Installed \/ StartMonitor \/ SetTrap
    BY <2>1 DEF Installed, StartMonitor, SetTrap, Run, ScriptLeft
  <2>2. CASE OnTerm \/ OnErr \/ OnTermAgain
    BY <2>2 DEF OnTerm, OnErr, OnTermAgain, Run, ScriptLeft
  <2>3. CASE KillMonitor
    BY <2>3 DEF KillMonitor, ScriptLeft
  <2>4. ~Exit
    BY DEF Exit, Down
  <2> QED
    BY <2>1, <2>2, <2>3, <2>4 DEF Script
<1>4. ScriptLeft' <= ScriptLeft \/ Script
  <2>1. CASE EntryWork \/ (\E t \in Tasks : JobWork(t)) \/ (\E s \in Servers : GameStep(s))
    BY <2>1 DEF EntryWork, JobWork, GameStep, shVars, ScriptLeft
  <2>2. CASE Sigterm
    BY <2>2 DEF Sigterm, ScriptLeft
  <2>3. CASE MonitorCrash
    BY <2>3 DEF MonitorCrash, ScriptLeft
  <2>4. ~Boot /\ ~Killed
    BY DEF Boot, Killed, Down
  <2> QED
    BY <2>1, <2>2, <2>3, <2>4 DEF BoxNext
<1>5. ScriptLeft \in Int /\ (Script => ScriptLeft' \in Int)
  <2>1. (stops' \in Int /\ sh' \in Sh) \/ ~Script
    BY DEF Script, Installed, StartMonitor, SetTrap, OnTerm, OnErr, OnTermAgain,
       KillMonitor, Exit, Down, Run
  <2> QED
    BY <2>1 DEF ScriptLeft
<1> QED
  BY <1>2, <1>3, <1>4, <1>5

\* The script comes to its end within a number of steps that one life's SIGTERMs
\* and the commands' own limits fix.
THEOREM ScriptComesToAnEnd == BoxSpec => ScriptRunsOut
<1> DEFINE Counts ==
      sh # "down" /\ sh' # "down" =>
        /\ ScriptLeft' <= ScriptLeft
        /\ Script => ScriptLeft' < ScriptLeft
        /\ EntryWork => CommandLeft(Entry)' < CommandLeft(Entry)
<1>1. BoxInv /\ StopFits /\ [BoxNext]_boxVars => [Counts]_boxVars
  BY ScriptCountStep
<1> QED
  BY <1>1, BoxPlaces, PTL DEF BoxSpec, ScriptRunsOut

\* In the container, too, every command can go on or waits for somebody who can:
\* a monitor that dies takes its waiting jobs with it, and the mutex.
THEOREM BoxNobodyIsStuck ==
  BoxSpec => [](\A a \in Actors : pc[a] # "idle" => Unstuck(a))
<1>1. BoxInv /\ StopFits => \A a \in Actors : pc[a] # "idle" => Unstuck(a)
  BY PlacesUnstuck DEF BoxInv
<1> QED
  BY <1>1, BoxPlaces, PTL

\* And the script's own command can always go on at once: nothing in it waits for
\* the monitor's mutex, for a job, for a launcher or for a game that hangs.
THEOREM ScriptNeverWaits == BoxSpec => [](pc[Entry] # "idle" => CanStep(Entry))
<1>1. BoxInv /\ StopFits => (pc[Entry] # "idle" => CanStep(Entry))
  <2> SUFFICES ASSUME BoxInv, StopFits, pc[Entry] # "idle" PROVE CanStep(Entry)
    OBVIOUS
  <2>1. /\ Entry \in Actors /\ Entry \notin Tasks /\ Entry \in Clis
        /\ pc[Entry] \in PC /\ pc[Entry] # "queued"
    BY ControlAssumption, ContainerAssumption DEF BoxInv, CtlInv, CtlTypeOK, CmdFits
  <2>2. CASE pc[Entry] = "stopping"
    BY <2>1, <2>2 DEF StopFits, BoxInv, StopInv, CallInv, CanStep, CallCanStep
  <2>3. CASE pc[Entry] = "stop"
    BY <2>1, <2>3 DEF StopFits, CanStep
  <2> QED
    BY <2>1, <2>2, <2>3 DEF PC, CanStep
<1> QED
  BY <1>1, BoxPlaces, PTL

-----------------------------------------------------------------------------
(***************************************************************************)
(* No world is lost.  The stop for ERR runs without a monitor, so nothing  *)
(* starts a server beside it: after its scan every game is one that it     *)
(* still has to interrupt, or one that was launching at the scan.  The     *)
(* webhook must be off: a stop that panics scans nothing.                  *)
(***************************************************************************)
Scanned == EntryAt({"idle"}) \/ phase[Entry] \notin {"out", "scan"}

ToInterrupt == IF phase[Entry] = "signal" THEN todo[Entry] ELSE {}

SaveInv ==
  /\ pc[Entry] # "notify"
  /\ sh = "err" /\ Scanned => \A s \in Servers :
       /\ proc[s] = "launching" => s \in late
       /\ proc[s] = "running" => s \in late \/ s \in ToInterrupt
  /\ sh = "exit" => \A s \in Servers : proc[s] \in {"launching", "running"} => s \in late

\* A stop moves games towards their end, and what it has to interrupt it takes
\* off its list only when it has.
LEMMA ErrStopSaves ==
  ASSUME BoxInv, SaveInv, EntryWork, sh = "err" PROVE SaveInv'
<1> USE ControlAssumption, ContainerAssumption
    DEF BoxInv, ScriptInv, EntryAt, Trapping, StopInv, StopTypeOK, ProcState, CtlInv,
        CtlTypeOK
<1>1. /\ Entry \in Actors /\ Work(Entry) /\ sh' = "err"
      /\ pc[Entry] \in {"idle", "stop", "stopping"} /\ pc'[Entry] # "notify"
  BY EntryStep DEF EntryWork, SaveInv
<1> SUFFICES ASSUME Scanned', NEW s \in Servers
             PROVE  /\ proc'[s] = "launching" => s \in late'
                    /\ proc'[s] = "running" => s \in late' \/ s \in ToInterrupt'
  BY <1>1 DEF SaveInv
<1>2. CASE CallStop(Entry)
  BY <1>1, <1>2 DEF CallStop, Call, Goto, Enter, Scanned
<1>3. CASE StopStep(Entry) /\ Scan(Entry)
  BY <1>1, <1>3 DEF Scan, Goto, find_pids, EntryWork, Launching, ToInterrupt
<1>4. CASE StopStep(Entry) /\ Interrupt(Entry)
  <2>1. PICK r \in todo[Entry] :
          /\ Signal(Entry, r, {"running"}, "saving")
          /\ Goto(Entry, IF todo[Entry] = {r} THEN "poll" ELSE "signal")
    BY <1>4 DEF Interrupt
  <2>2. phase[Entry] = "signal" /\ late' = late
    BY <1>4 DEF Interrupt, EntryWork
  <2>3. /\ proc'[r] \notin {"running"} /\ (s # r => proc'[s] = proc[s])
        /\ proc'[s] = "launching" => proc[s] = "launching"
    BY <2>1 DEF Signal
  <2>4. todo'[Entry] = todo[Entry] \ {r}
        /\ phase'[Entry] = IF todo[Entry] = {r} THEN "poll" ELSE "signal"
    BY <1>1, <2>1 DEF Signal, Goto
  <2> QED
    BY <1>1, <2>2, <2>3, <2>4 DEF SaveInv, Scanned, ToInterrupt
<1>5. CASE StopStep(Entry) /\ Kill(Entry)
  <2>1. /\ proc'[s] \in {"launching", "running"} => proc[s] = proc'[s]
        /\ phase[Entry] = "kill" /\ late' = late
    BY <1>5 DEF Kill, Signal, EntryWork
  <2> QED
    BY <1>1, <2>1 DEF SaveInv, Scanned, ToInterrupt
<1>6. CASE StopStep(Entry) /\ (PollEmpty(Entry) \/ Expire(Entry) \/ Recheck(Entry))
  <2>1. UNCHANGED proc /\ phase[Entry] \in {"poll", "recheck"} /\ late' = late
    BY <1>6 DEF PollEmpty, Expire, Recheck, EntryWork
  <2> QED
    BY <1>1, <2>1 DEF SaveInv, Scanned, ToInterrupt
<1>7. CASE EndStop(Entry)
  <2>1. UNCHANGED proc /\ phase[Entry] \in {"ok", "err"} /\ late' = late
    BY <1>7 DEF EndStop, Return, EntryWork
  <2> QED
    BY <1>1, <2>1 DEF SaveInv, Scanned, ToInterrupt
<1> QED
  BY <1>1, <1>2, <1>3, <1>4, <1>5, <1>6, <1>7
  DEF Work, Check, Notify, SteamcmdOk, SteamcmdErr, StartOk, StartErr, StopStep, Step

\* What is known of unsaved games survives every step, when no webhook can make
\* the stop fail.
LEMMA SaveInvStep ==
  ASSUME ~StopNotice, BoxInv, SaveInv, [BoxNext]_boxVars PROVE SaveInv'
<1> USE ControlAssumption, ContainerAssumption
    DEF BoxInv, ScriptInv, EntryAt, Trapping, Untrapped
<1>0. Entry \in Actors /\ Entry \notin Tasks
  OBVIOUS
<1>1. CASE UNCHANGED boxVars
  BY <1>1 DEF boxVars, vars, stopVars, ctlVars, shVars, SaveInv, Scanned, ToInterrupt
<1>2. ASSUME NEW k \in {"install", "start", "stop"}, NEW n \in Untrapped \cup Trapping,
             Run(k, n)
      PROVE  SaveInv'
  <2>1. /\ pc' = [pc EXCEPT ![Entry] = FirstStep[k]] /\ phase' = phase
        /\ pc[Entry] = "idle" /\ sh' = n
    BY <1>2 DEF Run, Idle, Invoke, stopVars
  <2>2. FirstStep[k] \in {"steamcmd", "start", "stop"}
    BY DEF FirstStep
  <2> QED
    BY <1>0, <2>1, <2>2 DEF SaveInv, Scanned, CtlInv, CtlTypeOK
<1>3. CASE Boot \/ Installed \/ OnTerm \/ OnErr \/ OnTermAgain
  BY <1>2, <1>3 DEF Boot, Installed, OnTerm, OnErr, OnTermAgain
<1>4. CASE StartMonitor \/ SetTrap
  BY <1>4 DEF StartMonitor, SetTrap, SaveInv, vars, ctlVars
<1>5. CASE Sigterm
  BY <1>5 DEF Sigterm, SaveInv, Scanned, ToInterrupt, vars, stopVars, ctlVars
<1>6. CASE KillMonitor
  <2>1. /\ UNCHANGED <<pc[Entry], proc, late>> /\ pc[Entry] = "idle"
        /\ phase[Entry] = "out"
        /\ sh' = "failed" \/ (sh' = "exit" /\ sh = "err")
    BY <1>0, <1>6 DEF KillMonitor, Die, Idle
  <2> QED
    BY <2>1 DEF SaveInv, Scanned, ToInterrupt
<1>7. CASE MonitorCrash
  BY <1>0, <1>7 DEF MonitorCrash, Die, SaveInv
<1>8. CASE Exit \/ Killed
  BY <1>0, <1>8 DEF Exit, Killed, Down, Die, SaveInv
<1>9. CASE EntryWork
  <2>1. CASE sh = "err"
    BY <1>9, <2>1, ErrStopSaves
  <2>2. CASE sh # "err"
    BY <1>9, <2>2, EntryStep DEF SaveInv, EntryWork
  <2> QED
    BY <2>1, <2>2
<1>10. ASSUME NEW t \in Tasks, JobWork(t) PROVE SaveInv'
  BY <1>10, JobLeavesScript DEF SaveInv
<1>11. ASSUME NEW s \in Servers, GameStep(s) PROVE SaveInv'
  <2>1. UNCHANGED <<pc, phase, todo, sh, late>>
    BY <1>11 DEF GameStep, Settle, GameEnds, Appear, Quit, Reap, ctlVars, shVars
  <2>2. \A r \in Servers :
          /\ proc'[r] = "launching" => proc[r] = "launching"
          /\ proc'[r] = "running" => proc[r] \in {"launching", "running"}
    BY <1>11 DEF GameStep, Settle, GameEnds, Appear, Quit, Reap, StopInv, StopTypeOK
  <2> QED
    BY <2>1, <2>2 DEF SaveInv, Scanned, ToInterrupt
<1> QED
  BY <1>1, <1>3, <1>4, <1>5, <1>6, <1>7, <1>8, <1>9, <1>10, <1>11 DEF BoxNext, Script

\* A script that ends by itself has given every game the chance to save, but for
\* one that Proton was still starting when the last stop looked.
THEOREM NoWorldIsLost == ASSUME ~StopNotice PROVE BoxSpec => []EndsSaved
<1>1. BoxInit => SaveInv
  BY ControlAssumption, ContainerAssumption DEF BoxInit, SaveInv
<1>2. BoxInv /\ SaveInv /\ [BoxNext]_boxVars => SaveInv'
  BY SaveInvStep
<1>3. SaveInv => EndsSaved
  BY DEF SaveInv, EndsSaved
<1> QED
  BY <1>1, <1>2, <1>3, BoxInvariant, PTL DEF BoxSpec

-----------------------------------------------------------------------------
(***************************************************************************)
(* The container manages one server: the jobs keep to it while there is a  *)
(* monitor, because the trap only stops; and before the monitor the script *)
(* has the container to itself.                                            *)
(***************************************************************************)
\* No server but the script's own start, where there is no monitor.
LEMMA AloneStep ==
  ASSUME BoxInv, JobsInv, ~monitor, BoxNext, [Next]_vars, BoxInv', ~monitor'
  PROVE  JobsInv'
<1> USE ControlAssumption, ContainerAssumption
    DEF BoxInv, JobsInv, StopInv, StopTypeOK, ProcState
<1>1. \A t \in Tasks : JobInv(t)'
  BY DEF ScriptInv, JobInv
<1>2. CASE UNCHANGED vars
  BY <1>1, <1>2 DEF vars, stopVars, AtMostOneServer, Live, NativeHasNoLauncher
<1>3. CASE Next /\ \A a \in Actors : ~StartOk(a)
  BY <1>1, <1>3, LiveShrinks DEF AtMostOneServer
<1>4. ASSUME NEW a \in Actors, StartOk(a)
      PROVE  AtMostOneServer' /\ NativeHasNoLauncher'
  <2>1. a = Entry /\ Live = {}
    BY <1>4 DEF StartOk, ScriptInv, EntryAt
  <2>2. PICK s \in Servers :
          \/ LaunchMode = "proton" /\ Spawn(s, "launching")
          \/ LaunchMode = "native" /\ Spawn(s, "running")
    BY <1>4 DEF StartOk
  <2> QED
    BY <2>1, <2>2 DEF Spawn, Live, AtMostOneServer, NativeHasNoLauncher
<1> QED
  BY <1>1, <1>2, <1>3, <1>4

\* While there is a monitor the jobs keep their invariant by themselves; without
\* one AloneStep applies, and deaths only take servers and jobs away.
LEMMA BoxJobsStep ==
  ASSUME NoJobMeetsLauncher, BoxInv, BoxInv', JobsInv, [BoxNext]_boxVars
  PROVE  JobsInv'
<1> USE ControlAssumption, ContainerAssumption
<1>1. CASE UNCHANGED boxVars
  BY <1>1 DEF boxVars, vars, stopVars, ctlVars, JobsInv, BoxInv, JobInv, Live,
     AtMostOneServer, NativeHasNoLauncher
<1>2. CASE BoxNext /\ [Next]_vars /\ monitor
  <2>1. ClisOnlyStop
    BY <1>2 DEF BoxInv, ScriptInv, EntryAt, ClisOnlyStop, Sh, Untrapped, Trapping
  <2> QED
    BY <1>2, <2>1, JobsInvStep
<1>3. CASE BoxNext /\ [Next]_vars /\ ~monitor
  <2>1. CASE ~monitor'
    BY <1>3, <2>1, AloneStep
  <2>2. CASE StartMonitor
    BY <2>2 DEF StartMonitor, vars, stopVars, ctlVars, JobsInv, BoxInv, JobInv, Live,
       AtMostOneServer, NativeHasNoLauncher
  <2>3. monitor' => StartMonitor
    BY <1>3, JobLeavesScript
    DEF BoxNext, Script, Boot, Installed, SetTrap, OnTerm, OnErr, OnTermAgain,
        KillMonitor, Exit, Killed, Down, EntryWork, Sigterm, MonitorCrash, GameStep,
        shVars
  <2> QED
    BY <2>1, <2>2, <2>3
<1>4. ASSUME \/ Die(Tasks) /\ UNCHANGED proc
             \/ Down
      PROVE  JobsInv'
  <2>1. \A t \in Tasks : pc'[t] = "idle" /\ phase'[t] = "out"
    BY <1>4 DEF Down, Die
  <2>2. \A t \in Tasks : JobInv(t)'
    BY <2>1 DEF JobInv
  <2>3. UNCHANGED proc \/ \A s \in Servers : proc'[s] = "gone"
    BY <1>4 DEF Down
  <2> QED
    BY <2>2, <2>3 DEF JobsInv, BoxInv, Live, AtMostOneServer, NativeHasNoLauncher
<1> QED
  BY <1>1, <1>2, <1>3, <1>4, BoxSteps

\* The jobs' invariant, over all lives of the container.
LEMMA BoxJobsInvariant ==
  ASSUME NoJobMeetsLauncher PROVE BoxSpec => [](BoxInv /\ JobsInv)
<1>1. BoxInit => JobsInv
  <2> SUFFICES ASSUME BoxInit PROVE JobsInv
    OBVIOUS
  <2>1. StopInv /\ CtlInv
    BY BoxInvInit DEF BoxInv
  <2> QED
    BY <2>1, ControlAssumption
    DEF BoxInit, JobsInv, JobInv, AtMostOneServer, Live, NativeHasNoLauncher
<1>2. BoxInv /\ BoxInv' /\ JobsInv /\ [BoxNext]_boxVars => JobsInv'
  BY BoxJobsStep
<1> QED
  BY <1>1, <1>2, BoxInvariant, PTL DEF BoxSpec

\* One server at a time over the whole life of the container and the next one.
THEOREM BoxOneServer == ASSUME NoJobMeetsLauncher PROVE BoxSpec => []AtMostOneServer
<1>1. JobsInv => AtMostOneServer
  BY DEF JobsInv
<1> QED
  BY <1>1, BoxJobsInvariant, PTL

\* An update job of the container starts complete files only: what it updated
\* cannot be touched by the script, which installs before there is a monitor, nor
\* by a steamcmd that died with another job's monitor.
THEOREM BoxUpdatedFilesStart ==
  ASSUME NoJobMeetsLauncher PROVE BoxSpec => []StartsUpdatedFiles
<1>1. JobsInv => StartsUpdatedFiles
  BY DEF JobsInv, JobInv, StartsUpdatedFiles
<1> QED
  BY <1>1, BoxJobsInvariant, PTL

\* In such a state steamcmd has the files to itself, whoever runs it.
LEMMA BoxOffline ==
  ASSUME BoxInv, JobsInv PROVE NoUpdateUnderServer
<1> SUFFICES ASSUME NEW a \in Actors, pc[a] = "steamcmd" PROVE Live = {}
  BY DEF NoUpdateUnderServer
<1>1. CASE a \in Tasks
  BY <1>1 DEF JobsInv, JobInv
<1>2. CASE a = Entry
  BY <1>2 DEF BoxInv, ScriptInv, EntryAt, Sh, Untrapped, Trapping
<1> QED
  BY <1>1, <1>2, ControlAssumption, ContainerAssumption

\* The script's install and the jobs' updates find no server.
THEOREM BoxUpdatesAreOffline ==
  ASSUME NoJobMeetsLauncher PROVE BoxSpec => []NoUpdateUnderServer
BY BoxOffline, BoxJobsInvariant, PTL

\* A job starts the server while the script waits or stops it; the script does
\* so while there is no monitor.
LEMMA BoxStartsAlone ==
  ASSUME BoxInv, JobsInv PROVE StartsAlone
<1> USE ControlAssumption, ContainerAssumption
<1> SUFFICES ASSUME NEW a \in Actors, pc[a] = "start"
             PROVE  Live = {} /\ \A b \in Actors : pc[b] # "steamcmd"
  BY DEF StartsAlone
<1>1. CASE a \in Tasks
  <2>1. Live = {}
    BY <1>1 DEF JobsInv, JobInv
  <2>2. \A t \in Tasks : pc[t] # "steamcmd"
    BY <1>1 DEF BoxInv, CtlInv, JobsExclusive
  <2>3. pc[Entry] # "steamcmd"
    BY <1>1 DEF BoxInv, ScriptInv, EntryAt, Sh, Untrapped, Trapping
  <2> QED
    BY <2>1, <2>2, <2>3
<1>2. CASE a = Entry
  <2>1. Live = {} /\ ~monitor
    BY <1>2 DEF BoxInv, ScriptInv, EntryAt, Sh, Untrapped, Trapping
  <2> QED
    BY <1>2, <2>1 DEF BoxInv, ScriptInv
<1> QED
  BY <1>1, <1>2

\* A step of the container is a step of the managed server, or none.
LEMMA BoxManagedStep ==
  ASSUME BoxInv, JobsInv, NoUpdateUnderServer', [BoxNext]_boxVars
  PROVE  [Managed!Next]_Managed!vars
<1> DEFINE updating == \E a \in Actors : pc[a] = "steamcmd"
<1>0. NoUpdateUnderServer
  BY BoxOffline
<1>1. CASE [Next]_vars
  BY <1>0, <1>1, BoxStartsAlone, ManagedStep DEF BoxInv, StopInv, CtlInv, CtlTypeOK
<1>2. CASE Die(Tasks) /\ UNCHANGED proc
  <2>1. Live' = Live
    BY <1>2 DEF Live
  <2>2. updating' => Live' = {}
    BY <1>0 DEF NoUpdateUnderServer
  <2>3. updating' \in BOOLEAN
    OBVIOUS
  <2> QED
    BY <2>1, <2>2, <2>3 DEF Managed!Next, Managed!BeginUpdate, Managed!EndUpdate
<1>3. CASE Down
  <2>1. Live' = {} /\ updating' = FALSE
    BY <1>3 DEF Down, Die, Live
  <2>2. CASE Live = {}
    BY <2>1, <2>2 DEF Managed!Next, Managed!EndUpdate
  <2>3. CASE Live # {}
    <3>1. updating = FALSE
      BY <1>0, <2>3 DEF NoUpdateUnderServer
    <3>2. PICK s \in Servers : Live = {s}
      BY <2>3 DEF JobsInv, AtMostOneServer, Live
    <3> QED
      BY <2>1, <3>1, <3>2 DEF Managed!Next, Managed!End
  <2> QED
    BY <2>2, <2>3
<1>4. UNCHANGED boxVars => UNCHANGED vars
  BY DEF boxVars
<1> QED
  BY <1>1, <1>2, <1>3, <1>4, BoxSteps

\* The container implements the managed server over all its lives: a monitor that
\* dies in an update, and a kill of everything, are steps of it too.
THEOREM BoxManagesOneServer ==
  ASSUME NoJobMeetsLauncher PROVE BoxSpec => ManagesOneServer
<1>1. BoxInit => Managed!Init
  BY DEF BoxInit, Managed!Init, Live
<1>2. BoxInv /\ JobsInv /\ NoUpdateUnderServer' /\ [BoxNext]_boxVars
      => [Managed!Next]_Managed!vars
  BY BoxManagedStep
<1> QED
  BY <1>1, <1>2, BoxJobsInvariant, BoxUpdatesAreOffline, PTL DEF BoxSpec, ManagesOneServer, Managed!Spec
=============================================================================
