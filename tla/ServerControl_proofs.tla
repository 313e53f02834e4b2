------------------------ MODULE ServerControl_proofs ------------------------
(***************************************************************************)
(* Theorems about the commands and the jobs, for any number of tasks,      *)
(* command line processes, servers and steamcmd tries.                     *)
(***************************************************************************)
EXTENDS ServerControl, Shutdown_proofs

(***************************************************************************)
(* Which command an actor can be running, given where it is.  The steps    *)
(* that a command shares with others branch on cmd, so the types depend on *)
(* it.                                                                     *)
(***************************************************************************)
Fits(p, k) ==
  /\ p = "idle" => k = "none"
  /\ p = "queued" => k \in Jobs
  /\ p = "check" => k \in {"update_job", "update"}
  /\ p = "notify" => k = "stop"
  /\ p \in {"stop", "stopping"} => k \in {"update_job", "restart_job", "restart", "stop"}
  /\ p = "steamcmd" => k \in {"update_job", "update", "install"}
  /\ p = "start" => k \in {"update_job", "restart_job", "restart", "start"}

CtlTypeOK ==
  /\ pc \in [Actors -> PC]
  /\ cmd \in [Actors -> Jobs \cup Commands \cup {"none"}]
  /\ attempt \in [Actors -> 1..Attempts]
  /\ holder \in Tasks \cup {None}
  /\ files \in Files

CmdFits ==
  /\ \A a \in Actors : Fits(pc[a], cmd[a])
  /\ \A t \in Tasks : cmd[t] \in Jobs \cup {"none"}
  /\ \A c \in Clis : pc[c] # "queued"

CtlInv == CtlTypeOK /\ CmdFits /\ JobsExclusive

\* The end of a step that every command shares: what Enter does to an actor
\* that is past the mutex.
LEMMA EnterStep ==
  ASSUME CtlInv, NEW a \in Actors, NEW p \in PC, p # "queued",
         pc[a] \notin {"idle", "queued"},
         p # "idle" => Fits(p, cmd[a]),
         Enter(a, p), attempt' \in [Actors -> 1..Attempts], files' \in Files
  PROVE  CtlInv'
<1> USE ControlAssumption DEF CtlInv, CtlTypeOK, CmdFits, JobsExclusive, Enter
<1>1. CtlTypeOK'
  BY DEF PC
<1>2. CmdFits'
  BY DEF Fits
<1>3. JobsExclusive'
  BY DEF PC
<1> QED
  BY <1>1, <1>2, <1>3

\* A command that goes on to its next step, or ends, keeps the types, the fit
\* of command and step, and the mutex.
LEMMA CtlInvStep == CtlInv /\ [Next]_vars => CtlInv'
<1> SUFFICES ASSUME CtlInv, [Next]_vars PROVE CtlInv'
  OBVIOUS
<1>0. CASE UNCHANGED ctlVars
  BY <1>0 DEF ctlVars, CtlInv, CtlTypeOK, CmdFits, Fits, JobsExclusive
<1>1. ASSUME NEW t \in Tasks, NEW k \in Jobs, Fire(t, k) PROVE CtlInv'
  BY <1>1, ControlAssumption
  DEF Fire, CtlInv, CtlTypeOK, CmdFits, Fits, JobsExclusive, PC
<1>2. ASSUME NEW t \in Tasks, Acquire(t) PROVE CtlInv'
  <2>1. cmd[t] \in Jobs /\ t \in Actors /\ t \notin Clis
    BY <1>2, ControlAssumption DEF Acquire, CtlInv, CmdFits, Fits
  <2>2. FirstStep[cmd[t]] \in {"check", "stop"} /\ Fits(FirstStep[cmd[t]], cmd[t])
    BY <2>1 DEF FirstStep, Jobs, Fits
  <2>3. \A u \in Tasks : pc[u] \in {"idle", "queued"}
    BY <1>2, ControlAssumption DEF Acquire, CtlInv, JobsExclusive
  <2> QED
    BY <1>2, <2>1, <2>2, <2>3 DEF Acquire, CtlInv, CtlTypeOK, CmdFits, JobsExclusive, PC
<1>3. ASSUME NEW c \in Clis, NEW k \in CliCommands, Invoke(c, k) PROVE CtlInv'
  <2>1. k \in Commands /\ c \in Actors /\ c \notin Tasks
    BY <1>3, ControlAssumption
  <2>2. /\ FirstStep[k] \in {"check", "stop", "notify", "steamcmd", "start"}
        /\ Fits(FirstStep[k], k)
    BY <2>1, ControlAssumption DEF FirstStep, Commands, Fits
  <2> QED
    BY <1>3, <2>1, <2>2, ControlAssumption
    DEF Invoke, CtlInv, CtlTypeOK, CmdFits, JobsExclusive, PC
<1>4. ASSUME NEW a \in Actors, Check(a) PROVE CtlInv'
  <2>1. PICK p \in {"stop", "steamcmd", "idle"} :
          Enter(a, p) /\ (p # "idle" => Fits(p, cmd[a]))
    BY <1>4 DEF Check, CtlInv, CmdFits, Fits
  <2> QED
    BY <1>4, <2>1, EnterStep DEF Check, CtlInv, CtlTypeOK, PC
<1>5. ASSUME NEW a \in Actors, Notify(a) PROVE CtlInv'
  <2>1. PICK p \in {"stop", "idle"} :
          Enter(a, p) /\ (p # "idle" => Fits(p, cmd[a]))
    BY <1>5 DEF Notify, CtlInv, CmdFits, Fits
  <2> QED
    BY <1>5, <2>1, EnterStep DEF Notify, CtlInv, CtlTypeOK, PC
<1>6. ASSUME NEW a \in Actors, CallStop(a) PROVE CtlInv'
  <2>1. Fits("stopping", cmd[a])
    BY <1>6 DEF CallStop, CtlInv, CmdFits, Fits
  <2> QED
    BY <1>6, <2>1, EnterStep DEF CallStop, CtlInv, CtlTypeOK, PC
<1>7. ASSUME NEW a \in Actors, EndStop(a) PROVE CtlInv'
  <2>1. /\ AfterStop[cmd[a]] \in {"steamcmd", "start", "idle"}
        /\ AfterStop[cmd[a]] # "idle" => Fits(AfterStop[cmd[a]], cmd[a])
    BY <1>7 DEF EndStop, AfterStop, CtlInv, CmdFits, Fits
  <2>2. PICK p \in {"steamcmd", "start", "idle"} :
          Enter(a, p) /\ (p # "idle" => Fits(p, cmd[a]))
    BY <1>7, <2>1 DEF EndStop
  <2> QED
    BY <1>7, <2>2, EnterStep DEF EndStop, CtlInv, CtlTypeOK, PC
<1>8. ASSUME NEW a \in Actors, SteamcmdOk(a) PROVE CtlInv'
  <2>1. PICK p \in {"start", "idle"} :
          Enter(a, p) /\ (p # "idle" => Fits(p, cmd[a]))
    BY <1>8 DEF SteamcmdOk, CtlInv, CmdFits, Fits
  <2>2. attempt' \in [Actors -> 1..Attempts] /\ files' \in Files
    BY <1>8, ControlAssumption DEF SteamcmdOk, CtlInv, CtlTypeOK, Files
  <2> QED
    BY <1>8, <2>1, <2>2, EnterStep DEF SteamcmdOk, PC
<1>9. ASSUME NEW a \in Actors, SteamcmdErr(a) PROVE CtlInv'
  <2>1. attempt' \in [Actors -> 1..Attempts] /\ files' \in Files
    BY <1>9, ControlAssumption DEF SteamcmdErr, CtlInv, CtlTypeOK, Files
  <2>2. CASE Enter(a, "idle")
    BY <1>9, <2>1, <2>2, EnterStep DEF SteamcmdErr, PC
  <2>3. CASE UNCHANGED <<pc, cmd, holder>>
    BY <2>1, <2>3 DEF CtlInv, CtlTypeOK, CmdFits, Fits, JobsExclusive
  <2> QED
    BY <1>9, <2>2, <2>3 DEF SteamcmdErr
<1>10. ASSUME NEW a \in Actors, StartOk(a) \/ StartErr(a) PROVE CtlInv'
  <2>1. pc[a] = "start" /\ Enter(a, "idle") /\ UNCHANGED <<attempt, files>>
    BY <1>10 DEF StartOk, StartErr
  <2> QED
    BY <2>1, EnterStep DEF CtlInv, CtlTypeOK, PC
<1>11. ASSUME NEW s \in Servers, Settle(s) \/ GameEnds(s) PROVE UNCHANGED ctlVars
  BY <1>11 DEF Settle, GameEnds
<1>12. ASSUME NEW a \in Actors, StopStep(a) PROVE UNCHANGED ctlVars
  BY <1>12 DEF StopStep
<1>13. UNCHANGED vars => UNCHANGED ctlVars
  BY DEF vars
<1> QED
  BY <1>0, <1>1, <1>2, <1>3, <1>4, <1>5, <1>6, <1>7, <1>8, <1>9, <1>10, <1>11,
     <1>12, <1>13
  DEF Next, Work

\* The initial states of the commands.
LEMMA CtlInvInit == Init => CtlInv
  BY ControlAssumption
  DEF Init, CtlInv, CtlTypeOK, CmdFits, Fits, JobsExclusive, PC

\* Types, commands that fit where their actors are, and one job at a time past
\* the monitor's mutex.
THEOREM CtlInvariant == Spec => []CtlInv
  BY CtlInvInit, CtlInvStep, PTL DEF Spec

-----------------------------------------------------------------------------
(***************************************************************************)
(* The commands drive stop_server only in the ways Shutdown foresees, so   *)
(* its theorems carry over.                                                *)
(***************************************************************************)
LEMMA ControlStopStep == [Next]_vars => [StopNext]_stopVars
<1> SUFFICES ASSUME Next PROVE StopNext \/ UNCHANGED stopVars
  BY DEF vars
<1>1. ASSUME NEW s \in Servers, Settle(s) \/ GameEnds(s) PROVE World
  BY <1>1 DEF Settle, GameEnds, World
<1>2. ASSUME NEW a \in Actors, CallStop(a) PROVE Call(a)
  BY <1>2 DEF CallStop
<1>3. ASSUME NEW a \in Actors, StopStep(a) PROVE Step(a)
  BY <1>3 DEF StopStep
<1>4. ASSUME NEW a \in Actors, EndStop(a) PROVE Return(a)
  BY <1>4 DEF EndStop
<1>5. ASSUME NEW a \in Actors, StartOk(a) PROVE World
  BY <1>5 DEF StartOk, World, Launch
<1>6. ASSUME NEW a \in Actors,
             \/ Check(a) \/ Notify(a)
             \/ SteamcmdOk(a) \/ SteamcmdErr(a) \/ StartErr(a)
      PROVE  UNCHANGED stopVars
  BY <1>6 DEF Check, Notify, SteamcmdOk, SteamcmdErr, StartErr
<1>7. ASSUME NEW t \in Tasks, NEW k \in Jobs, Acquire(t) \/ Fire(t, k)
      PROVE  UNCHANGED stopVars
  BY <1>7 DEF Acquire, Fire
<1>8. ASSUME NEW c \in Clis, NEW k \in CliCommands, Invoke(c, k)
      PROVE  UNCHANGED stopVars
  BY <1>8 DEF Invoke
<1>9. ASSUME NEW t \in Tasks, Acquire(t) PROVE UNCHANGED stopVars
  BY <1>9 DEF Acquire
<1> QED
  BY <1>1, <1>2, <1>3, <1>4, <1>5, <1>6, <1>7, <1>8, <1>9 DEF Next, Work, StopNext

\* The commands drive stop_server only in the ways that its own specification
\* foresees, so that its theorems hold within them.
THEOREM ControlUsesShutdown == Spec => StopSpec
<1>1. Init => StopInit
  BY DEF Init
<1> QED
  BY <1>1, ControlStopStep, PTL DEF Spec, StopSpec

\* The types hold for any number of jobs, command line processes and servers.
THEOREM TypeCorrect == Spec => []TypeOK
<1>1. StopTypeOK /\ CtlInv => TypeOK
  BY DEF CtlInv, CtlTypeOK, TypeOK
<1> QED
  BY <1>1, CtlInvariant, ControlUsesShutdown, StopTypeCorrect, PTL

\* The jobs exclude each other, whatever the command line does beside them.
THEOREM JobsAreExclusive == Spec => []JobsExclusive
<1>1. CtlInv => JobsExclusive
  BY DEF CtlInv
<1> QED
  BY <1>1, CtlInvariant, PTL

\* Within the commands, too, an Ok of stop_server means what it says.
THEOREM StopPromiseKept == Spec => Promise!Spec
  BY ControlUsesShutdown, StopImplementsPromise, PTL

-----------------------------------------------------------------------------
(***************************************************************************)
(* Commands come to an end.  That a command which can step does step is    *)
(* fairness, and stays with TLC; what is proved is that it has a limited   *)
(* number of steps left, and that nobody who has some is stuck.            *)
(***************************************************************************)
\* A command is inside stop_server exactly where its own steps say so.
StopFits == \A a \in Actors : phase[a] # "out" <=> pc[a] = "stopping"

\* What an actor that does not move keeps.
Place(a) == <<pc[a], cmd[a], phase[a], todo[a], attempt[a]>>

\* A step moves one actor at most, or only the game.
LEMMA OneActorMoves ==
  ASSUME StopTypeOK, CtlInv, Next
  PROVE  \/ \A b \in Actors : UNCHANGED Place(b)
         \/ \E a \in Actors :
              /\ \/ pc[a] = "idle" /\ pc'[a] # "stopping" /\ UNCHANGED phase
                 \/ a \in Tasks /\ Acquire(a)
                 \/ Work(a)
              /\ \A b \in Actors \ {a} : UNCHANGED Place(b)
<1> USE ControlAssumption DEF StopTypeOK, CtlInv, CtlTypeOK, Place
<1>1. ASSUME NEW s \in Servers, Settle(s) \/ GameEnds(s)
      PROVE  \A b \in Actors : UNCHANGED Place(b)
  BY <1>1 DEF Settle, GameEnds, Appear, Quit, Reap, ctlVars
<1>2. ASSUME NEW t \in Tasks, NEW k \in Jobs, Fire(t, k)
      PROVE  /\ pc[t] = "idle" /\ pc'[t] # "stopping" /\ UNCHANGED phase
             /\ \A b \in Actors \ {t} : UNCHANGED Place(b)
  BY <1>2 DEF Fire, stopVars
<1>3. ASSUME NEW t \in Tasks, Acquire(t)
      PROVE  \A b \in Actors \ {t} : UNCHANGED Place(b)
  BY <1>3 DEF Acquire, stopVars
<1>4. ASSUME NEW c \in Clis, NEW k \in CliCommands, Invoke(c, k)
      PROVE  /\ pc[c] = "idle" /\ pc'[c] # "stopping" /\ UNCHANGED phase
             /\ \A b \in Actors \ {c} : UNCHANGED Place(b)
  <2>1. FirstStep[k] # "stopping"
    BY DEF FirstStep, Commands
  <2> QED
    BY <1>4, <2>1 DEF Invoke, stopVars
<1>5. ASSUME NEW a \in Actors, Work(a), NEW b \in Actors \ {a}
      PROVE  UNCHANGED Place(b)
  <2>1. pc'[b] = pc[b] /\ cmd'[b] = cmd[b] /\ attempt'[b] = attempt[b]
    BY <1>5 DEF Work, Check, Notify, CallStop, StopStep, EndStop, SteamcmdOk,
       SteamcmdErr, StartOk, StartErr, Enter, ctlVars
  <2>2. phase'[b] = phase[b] /\ todo'[b] = todo[b]
    BY <1>5 DEF Work, Check, Notify, CallStop, StopStep, Step, Call, Scan, Interrupt,
       PollEmpty, Expire, Kill, Recheck, EndStop, Return, SteamcmdOk, SteamcmdErr,
       StartOk, StartErr, Goto, Signal, stopVars
  <2> QED
    BY <2>1, <2>2
<1> QED
  BY <1>1, <1>2, <1>3, <1>4, <1>5 DEF Next

\* What a step of a command does to its place, and that it lowers the count.
LEMMA WorkCounts ==
  ASSUME StopTypeOK, CtlInv, StopFits, NEW a \in Actors, Work(a)
  PROVE  /\ CommandLeft(a)' < CommandLeft(a)
         /\ phase'[a] # "out" <=> pc'[a] = "stopping"
<1> USE ControlAssumption DEF StopTypeOK, CtlInv, CtlTypeOK
<1> DEFINE table == Cardinality(Servers)
<1>1. table \in Nat
  BY PidCount
<1>2. CASE Check(a) \/ Notify(a)
  <2>1. /\ pc[a] \in {"check", "notify"} /\ pc'[a] \in {"stop", "steamcmd", "idle"}
        /\ UNCHANGED <<phase, attempt>>
    BY <1>2 DEF Check, Notify, Enter, stopVars
  <2>2. phase[a] = "out"
    BY <2>1 DEF StopFits
  <2> QED
    BY <1>1, <2>1, <2>2 DEF CommandLeft
<1>3. CASE CallStop(a)
  <2>1. pc[a] = "stop" /\ pc'[a] = "stopping" /\ phase'[a] = "scan"
    BY <1>3 DEF CallStop, Call, Goto, Enter
  <2>2. StopLeft(a)' = 2 * table + 3
    BY <2>1 DEF StopLeft
  <2> QED
    BY <1>1, <2>1, <2>2 DEF CommandLeft
<1>4. CASE StopStep(a)
  <2>1. Step(a) /\ pc' = pc /\ phase[a] # "out" /\ phase'[a] # "out"
    BY <1>4 DEF StopStep, Step, Scan, Interrupt, PollEmpty, Expire, Kill, Recheck,
       Goto, ctlVars
  <2>2. pc[a] = "stopping" /\ pc'[a] = "stopping"
    BY <2>1 DEF StopFits
  <2>3. StopLeft(a)' \in Nat /\ StopLeft(a) \in Nat /\ StopLeft(a)' < StopLeft(a)
    <3>1. 2 * table + 3 \in Nat
      BY <1>1
    <3> QED
      BY <2>1, <3>1, StopStepCounts, StopLeftBound
  <2> QED
    BY <2>1, <2>2, <2>3 DEF CommandLeft
<1>5. CASE EndStop(a)
  <2>1. /\ pc[a] = "stopping" /\ phase[a] \in {"ok", "err"} /\ phase'[a] = "out"
        /\ attempt' = attempt
    BY <1>5 DEF EndStop, Return, Goto
  <2>2. pc'[a] \in {"steamcmd", "start", "idle"}
    BY <1>5 DEF EndStop, Enter, AfterStop, CmdFits, Fits
  <2>3. StopLeft(a) = 0
    BY <2>1 DEF StopLeft
  <2> QED
    BY <2>1, <2>2, <2>3 DEF CommandLeft
<1>6. CASE SteamcmdOk(a) \/ SteamcmdErr(a)
  <2>1. /\ pc[a] = "steamcmd" /\ phase' = phase
        /\ \/ pc'[a] \in {"start", "idle"}
           \/ pc'[a] = "steamcmd" /\ attempt'[a] = attempt[a] + 1
    BY <1>6 DEF SteamcmdOk, SteamcmdErr, Enter, stopVars
  <2>2. phase[a] = "out"
    BY <2>1 DEF StopFits
  <2> QED
    BY <2>1, <2>2 DEF CommandLeft
<1>7. CASE StartOk(a) \/ StartErr(a)
  <2>1. pc[a] = "start" /\ pc'[a] = "idle" /\ phase' = phase
    BY <1>7 DEF StartOk, StartErr, Enter, stopVars
  <2> QED
    BY <2>1 DEF CommandLeft, StopFits
<1> QED
  BY <1>2, <1>3, <1>4, <1>5, <1>6, <1>7 DEF Work

\* So commands and calls stay together.
LEMMA StopFitsStep ==
  ASSUME StopTypeOK, CtlInv, StopFits, [Next]_vars PROVE StopFits'
<1>1. CASE UNCHANGED vars
  BY <1>1 DEF vars, stopVars, ctlVars, StopFits
<1>2. CASE \A b \in Actors : UNCHANGED Place(b)
  BY <1>2 DEF Place, StopFits
<1>3. ASSUME NEW a \in Actors,
             \/ pc[a] = "idle" /\ pc'[a] # "stopping" /\ UNCHANGED phase
             \/ a \in Tasks /\ Acquire(a)
             \/ Work(a),
             \A b \in Actors \ {a} : UNCHANGED Place(b)
      PROVE  StopFits'
  <2>1. \A b \in Actors \ {a} : phase'[b] # "out" <=> pc'[b] = "stopping"
    BY <1>3 DEF Place, StopFits
  <2>2. phase'[a] # "out" <=> pc'[a] = "stopping"
    <3>1. CASE pc[a] = "idle" /\ pc'[a] # "stopping" /\ UNCHANGED phase
      BY <3>1 DEF StopFits
    <3>2. CASE a \in Tasks /\ Acquire(a)
      <4>1. FirstStep[cmd[a]] # "stopping"
        BY <3>2 DEF Acquire, CtlInv, CmdFits, Fits, Jobs, FirstStep
      <4> QED
        BY <3>2, <4>1 DEF Acquire, stopVars, StopFits, CtlInv, CtlTypeOK
    <3>3. CASE Work(a)
      BY <3>3, WorkCounts
    <3> QED
      BY <1>3, <3>1, <3>2, <3>3
  <2> QED
    BY <2>1, <2>2 DEF StopFits
<1> QED
  BY <1>1, <1>2, <1>3, OneActorMoves

\* A command that has begun has, with every step it takes, fewer left; no other
\* actor and no game can give it more.
LEMMA CountStep ==
  ASSUME StopTypeOK, CtlInv, StopFits, [Next]_vars, NEW a \in Actors, pc[a] # "idle"
  PROVE  \/ CommandLeft(a)' < CommandLeft(a)
         \/ UNCHANGED <<pc[a], phase[a], todo[a], attempt[a]>>
<1>1. CASE UNCHANGED vars
  BY <1>1 DEF vars, stopVars, ctlVars
<1>2. CASE UNCHANGED Place(a)
  BY <1>2 DEF Place
<1>3. CASE a \in Tasks /\ Acquire(a)
  <2>1. pc[a] = "queued" /\ pc'[a] \in {"check", "stop"}
    BY <1>3 DEF Acquire, CtlInv, CtlTypeOK, CmdFits, Fits, Jobs, FirstStep
  <2>2. Cardinality(Servers) \in Nat
    BY PidCount
  <2> QED
    BY <2>1, <2>2, ControlAssumption DEF CommandLeft
<1>4. CASE Work(a)
  BY <1>4, WorkCounts
<1> QED
  BY <1>1, <1>2, <1>3, <1>4, OneActorMoves

\* Types, calls, commands and their places, together.
LEMMA PlacesInvariant == Spec => [](StopInv /\ CtlInv /\ StopFits)
<1>1. Init => StopFits
  BY DEF Init, StopInit, StopFits
<1>2. StopInv /\ CtlInv /\ StopFits /\ [Next]_vars => StopFits'
  BY StopFitsStep DEF StopInv
<1> QED
  BY <1>1, <1>2, CtlInvariant, ControlUsesShutdown, StopInvariant, PTL DEF Spec

\* A command takes no more steps than are counted when it begins.
THEOREM StepsRunOut == Spec => CommandsRunOut
<1> DEFINE Counts ==
      \A a \in Actors : pc[a] # "idle" =>
        \/ CommandLeft(a)' < CommandLeft(a)
        \/ UNCHANGED <<pc[a], phase[a], todo[a], attempt[a]>>
<1>1. StopInv /\ CtlInv /\ StopFits /\ [Next]_vars => [Counts]_vars
  <2> SUFFICES ASSUME StopInv, CtlInv, StopFits, [Next]_vars PROVE Counts
    OBVIOUS
  <2> QED
    BY CountStep DEF StopInv
<1> QED
  BY <1>1, PlacesInvariant, PTL DEF Spec, CommandsRunOut

\* The guards of a command's next step, spelled out: what a call of stop_server
\* needs, and what the command around it needs.
CallCanStep(a) ==
  /\ phase[a] # "out"
  /\ phase[a] \in {"signal", "kill"} => todo[a] # {}
  /\ phase[a] = "scan" => a \notin Tasks \/ SlowLaunch \/ Settled

CanStep(a) ==
  \/ pc[a] = "queued" /\ holder = None
  \/ pc[a] \in {"check", "notify", "steamcmd", "start"}
  \/ pc[a] = "stop" /\ phase[a] = "out"
  \/ pc[a] = "stopping" /\ CallCanStep(a)

\* A job's first look waits for a launcher, which comes to its end by itself.
AwaitsLaunch(a) ==
  pc[a] = "stopping" /\ phase[a] = "scan" /\ \E s \in Servers : proc[s] = "launching"

\* A queued job waits for the holder of the mutex, and the holder for nobody.
Unstuck(a) ==
  \/ CanStep(a)
  \/ AwaitsLaunch(a)
  \/ pc[a] = "queued" /\ holder \in Tasks /\ (CanStep(holder) \/ AwaitsLaunch(holder))

\* Calls, commands and the mutex as the invariants have them leave nobody stuck.
LEMMA PlacesUnstuck ==
  StopInv /\ CtlInv /\ StopFits => \A a \in Actors : pc[a] # "idle" => Unstuck(a)
<1>1. ASSUME StopInv, CtlInv, StopFits, NEW a \in Actors, pc[a] \notin {"idle", "queued"}
      PROVE  CanStep(a) \/ AwaitsLaunch(a)
  <2>1. pc[a] \in PC
    BY <1>1 DEF CtlInv, CtlTypeOK
  <2>2. CASE pc[a] = "stop"
    BY <1>1, <2>2 DEF StopFits, CanStep
  <2>3. CASE pc[a] = "stopping"
    <3>1. phase[a] # "out" /\ (phase[a] \in {"signal", "kill"} => todo[a] # {})
      BY <1>1, <2>3 DEF StopFits, StopInv, CallInv
    <3>2. Settled \/ \E s \in Servers : proc[s] = "launching"
      BY DEF Settled
    <3> QED
      BY <2>3, <3>1, <3>2 DEF CanStep, CallCanStep, AwaitsLaunch
  <2> QED
    BY <1>1, <2>1, <2>2, <2>3 DEF PC, CanStep
<1>2. ASSUME StopInv, CtlInv, StopFits, NEW a \in Actors, pc[a] = "queued"
      PROVE  Unstuck(a)
  <2>1. CASE holder = None
    BY <1>2, <2>1 DEF Unstuck, CanStep
  <2>2. CASE holder \in Tasks
    <3>1. holder \in Actors /\ pc[holder] \notin {"idle", "queued"}
      BY <1>2, <2>2, ControlAssumption DEF CtlInv, JobsExclusive
    <3> QED
      BY <1>1, <1>2, <2>2, <3>1 DEF Unstuck
  <2> QED
    BY <1>2, <2>1, <2>2 DEF CtlInv, CtlTypeOK
<1> QED
  BY <1>1, <1>2 DEF Unstuck

\* Whoever runs a command can go on, or waits for somebody who can.  No path
\* leaves the mutex with a task that is gone, and no loop over the pids is left
\* with nothing to signal.
THEOREM NobodyIsStuck ==
  Spec => [](\A a \in Actors : pc[a] # "idle" => Unstuck(a))
BY PlacesUnstuck, PlacesInvariant, PTL

-----------------------------------------------------------------------------
(***************************************************************************)
(* The jobs of the monitor.  They keep each other's servers apart when no  *)
(* job meets a launcher (launches have the time they take, or there is no  *)
(* launcher at all) and what is typed beside them only stops servers.      *)
(* Without the first the properties below are false (the run slow_launch), *)
(* and without the second too: `enshrouded restart` starts a server under  *)
(* a mutex of its own.                                                     *)
(***************************************************************************)
NoJobMeetsLauncher == SlowLaunch => LaunchMode # "proton"

ClisOnlyStop == \A c \in Clis : pc[c] \notin {"check", "steamcmd", "start"}

MonitorAlone == Clis = {} /\ NoJobMeetsLauncher

\* What holds of the job that has the mutex.  The third conjunct is the heart:
\* a job that has looked for the game has found all there is, because only the
\* holder of the mutex starts servers.
JobInv(a) ==
  /\ phase[a] # "out" <=> pc[a] = "stopping"
  /\ phase[a] = "ok" => Live = {}
  /\ phase[a] \notin {"out", "scan"} => Live \subseteq asked[a]
  /\ phase[a] = "kill" => todo[a] \subseteq asked[a]
  /\ pc[a] \in {"steamcmd", "start"} => Live = {}
  /\ pc[a] = "start" /\ cmd[a] = "update_job" => files = "complete"

NativeHasNoLauncher ==
  LaunchMode # "proton" => \A s \in Servers : proc[s] # "launching"

JobsInv ==
  /\ StopInv
  /\ CtlInv
  /\ \A t \in Tasks : JobInv(t)
  /\ AtMostOneServer
  /\ NativeHasNoLauncher

\* Before any command the jobs' invariant holds.
LEMMA JobsInvInit == Init => JobsInv
<1> SUFFICES ASSUME Init PROVE JobsInv
  OBVIOUS
<1>1. StopInv /\ CtlInv
  BY CtlInvInit, StopInvInit DEF Init
<1>2. \A t \in Tasks : JobInv(t)
  BY ControlAssumption DEF Init, StopInit, JobInv
<1>3. AtMostOneServer /\ NativeHasNoLauncher
  BY DEF Init, AtMostOneServer, Live, NativeHasNoLauncher
<1> QED
  BY <1>1, <1>2, <1>3 DEF JobsInv

\* Nothing but a start brings a server to life.
LEMMA LiveShrinks ==
  ASSUME StopTypeOK, Next, \A a \in Actors : ~StartOk(a)
  PROVE  /\ Live' \subseteq Live
         /\ NativeHasNoLauncher => NativeHasNoLauncher'
<1> USE DEF StopTypeOK, ProcState, Live, NativeHasNoLauncher
<1>1. ASSUME NEW s \in Servers, Settle(s) \/ GameEnds(s)
      PROVE  \E st \in {"gone", "running"} :
               /\ proc' = [proc EXCEPT ![s] = st]
               /\ proc[s] # "gone"
  BY <1>1 DEF Settle, GameEnds, Appear, Quit, Reap
<1>2. ASSUME NEW a \in Actors, Interrupt(a) \/ Kill(a)
      PROVE  \A s \in Servers :
               \/ proc'[s] = proc[s]
               \/ proc[s] \in {"running", "saving"} /\ proc'[s] \in {"saving", "killed"}
  BY <1>2 DEF Interrupt, Kill, Signal
<1>3. ASSUME NEW a \in Actors,
             Call(a) \/ Scan(a) \/ PollEmpty(a) \/ Expire(a) \/ Recheck(a) \/ Return(a)
      PROVE  UNCHANGED proc
  BY <1>3 DEF Call, Scan, PollEmpty, Expire, Recheck, Return
<1>4. ASSUME NEW a \in Actors,
             \/ Check(a) \/ Notify(a)
             \/ SteamcmdOk(a) \/ SteamcmdErr(a) \/ StartErr(a)
      PROVE  UNCHANGED proc
  BY <1>4 DEF Check, Notify, SteamcmdOk, SteamcmdErr, StartErr, stopVars
<1>5. ASSUME \/ \E t \in Tasks : Acquire(t) \/ \E k \in Jobs : Fire(t, k)
             \/ \E c \in Clis, k \in CliCommands : Invoke(c, k)
      PROVE  UNCHANGED proc
  BY <1>5 DEF Acquire, Fire, Invoke, stopVars
<1>6. UNCHANGED proc => Live' \subseteq Live /\ (NativeHasNoLauncher => NativeHasNoLauncher')
  OBVIOUS
<1>7. ASSUME NEW a \in Actors, CallStop(a) \/ StopStep(a) \/ EndStop(a)
      PROVE  \/ UNCHANGED proc
             \/ Interrupt(a) \/ Kill(a)
  BY <1>3, <1>7 DEF CallStop, StopStep, EndStop, Step
<1> QED
  BY <1>1, <1>2, <1>4, <1>5, <1>6, <1>7 DEF Next, Work

\* While a job works, every other job is idle or waits for the mutex.
LEMMA OthersWait ==
  ASSUME JobsInv, NEW b \in Tasks, Work(b), NEW a \in Tasks, a # b
  PROVE  /\ pc[a] \in {"idle", "queued"} /\ pc'[a] = pc[a]
         /\ phase[a] = "out" /\ phase'[a] = "out"
<1> USE ControlAssumption
    DEF JobsInv, CtlInv, CtlTypeOK, StopInv, StopTypeOK
<1>1. phase[b] # "out" => pc[b] = "stopping"
  BY DEF JobInv
<1>2. pc[b] \notin {"idle", "queued"}
  BY <1>1 DEF Work, Check, Notify, CallStop, StopStep, Step, Scan, Interrupt,
     PollEmpty, Expire, Kill, Recheck, EndStop, SteamcmdOk, SteamcmdErr,
     StartOk, StartErr
<1>3. holder = b
  BY <1>2 DEF JobsExclusive
<1>4. pc[a] \in {"idle", "queued"}
  BY <1>3 DEF JobsExclusive
<1>5. phase[a] = "out"
  BY <1>4 DEF JobInv
<1>6. pc'[a] = pc[a]
  BY DEF Work, Check, Notify, CallStop, StopStep, EndStop, SteamcmdOk,
     SteamcmdErr, StartOk, StartErr, Enter, ctlVars
<1>7. phase'[a] = phase[a]
  BY DEF Work, Check, Notify, CallStop, StopStep, Step, Call, Scan, Interrupt,
     PollEmpty, Expire, Kill, Recheck, EndStop, Return, SteamcmdOk, SteamcmdErr,
     StartOk, StartErr, Goto, stopVars
<1> QED
  BY <1>4, <1>5, <1>6, <1>7

\* The working job's own steps, the start included.
LEMMA OwnStep ==
  ASSUME NoJobMeetsLauncher, ClisOnlyStop, JobsInv, Next,
         NEW a \in Tasks, Work(a)
  PROVE  JobInv(a)' /\ AtMostOneServer'
<1> USE DEF JobsInv, StopInv, StopTypeOK, ProcState, Phase
<1>0. a \in Actors
  BY ControlAssumption
<1> USE <1>0
<1>1. JobInv(a) /\ AtMostOneServer /\ pc \in [Actors -> PC]
  BY DEF CtlInv, CtlTypeOK
<1>2. CASE StartOk(a)
  <2>1. Live = {} /\ phase[a] = "out" /\ phase' = phase /\ pc'[a] = "idle"
    BY <1>1, <1>2 DEF StartOk, JobInv, Enter
  <2>2. PICK s \in Servers : Live' \subseteq {s}
    <3>1. PICK s \in Servers : \E st \in {"launching", "running"} : Spawn(s, st)
      BY <1>2 DEF StartOk
    <3> QED
      BY <2>1, <3>1 DEF Spawn, Live
  <2> QED
    BY <2>1, <2>2 DEF JobInv, AtMostOneServer
<1>3. CASE ~StartOk(a)
  <2>1. \A b \in Actors : ~StartOk(b)
    <3> SUFFICES ASSUME NEW b \in Actors, StartOk(b), b # a PROVE FALSE
      BY <1>3
    <3>1. Work(b) /\ b \in Tasks
      BY ControlAssumption DEF Work, StartOk, ClisOnlyStop
    <3>2. pc[b] \in {"idle", "queued"}
      BY <3>1, OthersWait
    <3> QED
      BY <3>2 DEF StartOk
  <2>2. Live' \subseteq Live
    BY <2>1, LiveShrinks
  <2>3. AtMostOneServer'
    BY <1>1, <2>2 DEF AtMostOneServer
  <2> SUFFICES JobInv(a)'
    BY <2>3
  <2>4. CASE Check(a) \/ Notify(a) \/ StartErr(a)
    <3>1. /\ phase[a] = "out" /\ phase' = phase
          /\ \/ pc'[a] \in {"stop", "idle"}
             \/ pc'[a] = "steamcmd" /\ cmd[a] = "update"
      BY <1>1, <2>4 DEF Check, Notify, StartErr, JobInv, Enter, stopVars,
         CtlInv, CmdFits, Fits
    <3>2. cmd[a] \in Jobs \cup {"none"}
      BY DEF CtlInv, CmdFits
    <3> QED
      BY <3>1, <3>2 DEF JobInv, Jobs
  <2>5. CASE CallStop(a)
    <3>1. phase'[a] = "scan" /\ pc'[a] = "stopping"
      BY <1>1, <2>5 DEF CallStop, Call, Goto, Enter
    <3> QED
      BY <3>1 DEF JobInv
  <2>6. CASE StopStep(a)
    <3>1. /\ pc'[a] = "stopping" /\ phase'[a] # "out"
          /\ phase[a] # "scan" => asked' = asked
      BY <1>1, <2>6 DEF StopStep, JobInv, Step, Scan, Interrupt, PollEmpty,
         Expire, Kill, Recheck, Goto, ctlVars
    <3>2. phase[a] = "scan" => \A s \in Servers : proc[s] # "launching"
      BY <2>6 DEF StopStep, Settled, NoJobMeetsLauncher, NativeHasNoLauncher
    <3>3. phase'[a] \notin {"out", "scan"} => Live' \subseteq asked'[a]
      <4>1. CASE phase[a] = "scan"
        <5>1. asked'[a] = find_pids /\ proc' = proc
          BY <2>6, <4>1 DEF StopStep, Step, Scan, Interrupt, PollEmpty, Expire,
             Kill, Recheck
        <5>2. Live \subseteq find_pids
          BY <3>2, <4>1 DEF find_pids, Live
        <5> QED
          BY <2>2, <5>1, <5>2
      <4>2. CASE phase[a] # "scan"
        <5>1. phase[a] # "out"
          BY <2>6 DEF StopStep, Step, Scan, Interrupt, PollEmpty, Expire, Kill,
             Recheck
        <5> QED
          BY <1>1, <2>2, <3>1, <4>2, <5>1 DEF JobInv
      <4> QED
        BY <4>1, <4>2
    <3>4. phase'[a] = "ok" => Live' = {}
      <4> SUFFICES ASSUME phase'[a] = "ok" PROVE Live' = {}
        OBVIOUS
      <4>1. find_pids = {} /\ proc' = proc
        BY <2>6 DEF StopStep, Step, Scan, Interrupt, PollEmpty, Expire, Kill,
           Recheck, Goto
      <4>2. \A s \in Live : proc[s] # "launching"
        <5>1. phase[a] # "out" /\ CallInv(a)
          BY <2>6 DEF StopStep, Step, Scan, Interrupt, PollEmpty, Expire, Kill,
             Recheck
        <5> QED
          BY <1>1, <3>2, <5>1 DEF Live, JobInv, CallInv
      <4> QED
        BY <4>1, <4>2 DEF find_pids, Live
    <3>5. phase'[a] = "kill" => todo'[a] \subseteq asked'[a]
      BY <1>1, <2>6, <3>1 DEF JobInv, StopStep, Step, Scan, Interrupt, PollEmpty,
         Expire, Kill, Recheck, Goto, Signal, find_pids, Live
    <3> QED
      BY <3>1, <3>3, <3>4, <3>5 DEF JobInv
  <2>7. CASE EndStop(a)
    <3>1. phase'[a] = "out" /\ pc'[a] # "stopping"
      BY <1>1, <2>7 DEF EndStop, Return, Goto, Enter, AfterStop, CtlInv, CmdFits, Fits
    <3>2. pc'[a] \in {"steamcmd", "start"} => Live' = {}
      BY <1>1, <2>2, <2>7 DEF EndStop, Enter, JobInv
    <3>3. pc'[a] = "start" => cmd'[a] # "update_job"
      BY <1>1, <2>7 DEF EndStop, Enter, AfterStop, CtlInv, CtlTypeOK, CmdFits, Fits
    <3> QED
      BY <3>1, <3>2, <3>3 DEF JobInv
  <2>8. CASE SteamcmdOk(a)
    <3>1. /\ phase[a] = "out" /\ phase' = phase /\ pc'[a] \in {"start", "idle"}
          /\ Live = {} /\ files' = "complete"
      BY <1>1, <2>8 DEF SteamcmdOk, JobInv, Enter, stopVars
    <3> QED
      BY <2>2, <3>1 DEF JobInv
  <2>9. CASE SteamcmdErr(a)
    <3>1. /\ phase[a] = "out" /\ phase' = phase /\ pc'[a] \in {"steamcmd", "idle"}
          /\ Live = {}
      BY <1>1, <2>9 DEF SteamcmdErr, JobInv, Enter, stopVars
    <3> QED
      BY <2>2, <3>1 DEF JobInv
  <2> QED
    BY <1>3, <2>3, <2>4, <2>5, <2>6, <2>7, <2>8, <2>9 DEF Work
<1> QED
  BY <1>2, <1>3

\* A step of the game or of Proton, the firing of a job, the taking of the
\* mutex, and a stop that is typed leave a job what it knows.
LEMMA OutsideStep ==
  ASSUME NoJobMeetsLauncher, ClisOnlyStop, JobsInv, Next,
         \A b \in Tasks : ~Work(b), NEW a \in Tasks
  PROVE  JobInv(a)' /\ AtMostOneServer'
<1> USE DEF JobsInv, StopInv, StopTypeOK
<1>1. JobInv(a) /\ AtMostOneServer /\ a \in Actors /\ a \notin Clis
  BY ControlAssumption
<1>2. Live' \subseteq Live
  <2>1. \A b \in Actors : ~StartOk(b)
    BY ControlAssumption DEF Work, StartOk, ClisOnlyStop
  <2> QED
    BY <2>1, LiveShrinks
<1>3. AtMostOneServer'
  BY <1>1, <1>2 DEF AtMostOneServer
<1>4. ASSUME NEW s \in Servers, Settle(s) \/ GameEnds(s)
      PROVE  UNCHANGED <<phase, asked, todo, pc, cmd, files>>
  BY <1>4 DEF Settle, GameEnds, Appear, Quit, Reap, ctlVars
<1>5. ASSUME UNCHANGED <<phase, asked, todo, pc, cmd, files>> PROVE JobInv(a)'
  BY <1>1, <1>2, <1>5 DEF JobInv
<1>6. ASSUME NEW t \in Tasks, NEW k \in Jobs, Fire(t, k) PROVE JobInv(a)'
  <2>1. /\ UNCHANGED <<phase, asked, todo, files>>
        /\ \/ pc'[a] = pc[a] /\ cmd'[a] = cmd[a]
           \/ pc[a] = "idle" /\ pc'[a] = "queued"
    BY <1>1, <1>6, ControlAssumption DEF Fire, stopVars, CtlInv, CtlTypeOK
  <2> QED
    BY <1>1, <1>2, <2>1 DEF JobInv
<1>7. ASSUME NEW t \in Tasks, Acquire(t) PROVE JobInv(a)'
  <2>1. FirstStep[cmd[t]] \in {"check", "stop"}
    BY <1>7, ControlAssumption DEF Acquire, FirstStep, Jobs, CtlInv, CmdFits, Fits
  <2>2. /\ UNCHANGED <<phase, asked, todo, files, cmd>>
        /\ \/ pc'[a] = pc[a]
           \/ pc[a] = "queued" /\ pc'[a] \in {"check", "stop"}
    BY <1>1, <1>7, <2>1, ControlAssumption DEF Acquire, stopVars, CtlInv, CtlTypeOK
  <2> QED
    BY <1>1, <1>2, <2>2 DEF JobInv
<1>8. ASSUME NEW c \in Clis, Work(c) \/ \E k \in CliCommands : Invoke(c, k)
      PROVE  JobInv(a)'
  <2>1. /\ phase'[a] = phase[a] /\ asked'[a] = asked[a] /\ todo'[a] = todo[a]
        /\ UNCHANGED files
    BY <1>1, <1>8 DEF ClisOnlyStop, Work, Check, Notify, CallStop, StopStep, Step,
       Call, Scan, Interrupt, PollEmpty, Expire, Kill, Recheck, EndStop, Return,
       SteamcmdOk, SteamcmdErr, StartOk, StartErr, Invoke, Goto, Signal, stopVars,
       ctlVars
  <2>2. pc'[a] = pc[a] /\ cmd'[a] = cmd[a]
    BY <1>1, <1>8 DEF ClisOnlyStop, Work, Check, Notify, CallStop, StopStep,
       EndStop, SteamcmdOk, SteamcmdErr, StartOk, StartErr, Invoke, Enter, ctlVars,
       CtlInv, CtlTypeOK
  <2> QED
    BY <1>1, <1>2, <2>1, <2>2 DEF JobInv
<1> QED
  BY <1>3, <1>4, <1>5, <1>6, <1>7, <1>8, ControlAssumption DEF Next

\* Every step keeps it, when no job meets a launcher and the others only stop.
LEMMA JobsInvStep ==
  ASSUME NoJobMeetsLauncher, ClisOnlyStop, JobsInv, [Next]_vars PROVE JobsInv'
<1> USE ControlAssumption
<1>1. StopInv' /\ CtlInv'
  BY StopInvStep, ControlStopStep, CtlInvStep DEF JobsInv
<1>2. CASE UNCHANGED vars
  <2>1. UNCHANGED <<proc, phase, asked, todo, pc, cmd, files>>
    BY <1>2 DEF vars, stopVars, ctlVars
  <2>2. (\A t \in Tasks : JobInv(t))' /\ AtMostOneServer'
    BY <2>1 DEF JobsInv, JobInv, AtMostOneServer, Live
  <2>3. NativeHasNoLauncher'
    BY <2>1 DEF JobsInv, NativeHasNoLauncher
  <2> QED
    BY <1>1, <2>2, <2>3 DEF JobsInv
<1>3. CASE Next
  <2>1. ASSUME NEW a \in Tasks PROVE JobInv(a)'
    <3>1. CASE Work(a)
      BY <1>3, <3>1, OwnStep
    <3>2. ASSUME NEW b \in Tasks, b # a, Work(b) PROVE JobInv(a)'
      BY <3>2, OthersWait DEF JobInv
    <3> QED
      BY <1>3, <3>1, <3>2, OutsideStep
  <2>2. AtMostOneServer' /\ NativeHasNoLauncher'
    <3>1. ASSUME NEW a \in Actors, StartOk(a)
          PROVE  AtMostOneServer' /\ NativeHasNoLauncher'
      <4>1. a \in Tasks /\ Work(a)
        BY <3>1 DEF StartOk, ClisOnlyStop, Work
      <4>2. NativeHasNoLauncher'
        BY <3>1 DEF StartOk, Spawn, NativeHasNoLauncher, JobsInv, StopInv, StopTypeOK
      <4> QED
        BY <1>3, <4>1, <4>2, OwnStep
    <3>2. CASE \A a \in Actors : ~StartOk(a)
      BY <1>3, <3>2, LiveShrinks DEF JobsInv, StopInv, AtMostOneServer
    <3> QED
      BY <3>1, <3>2
  <2> QED
    BY <1>1, <2>1, <2>2 DEF JobsInv
<1> QED
  BY <1>2, <1>3

\* The monitor's jobs work as JobInv says, all of them, at all times.
THEOREM MonitorInvariant == ASSUME MonitorAlone PROVE Spec => []JobsInv
<1>1. JobsInv /\ [Next]_vars => JobsInv'
  BY JobsInvStep DEF MonitorAlone, ClisOnlyStop
<1> QED
  BY JobsInvInit, <1>1, PTL DEF Spec

\* One server at a time on the save directory.
THEOREM OneServer == ASSUME MonitorAlone PROVE Spec => []AtMostOneServer
<1>1. JobsInv => AtMostOneServer
  BY DEF JobsInv
<1> QED
  BY <1>1, MonitorInvariant, PTL

\* Nothing runs from the game files while steamcmd rewrites them.
THEOREM UpdatesAreOffline == ASSUME MonitorAlone PROVE Spec => []NoUpdateUnderServer
<1>1. JobsInv => NoUpdateUnderServer
  BY ControlAssumption DEF MonitorAlone, JobsInv, JobInv, NoUpdateUnderServer
<1> QED
  BY <1>1, MonitorInvariant, PTL

\* Every process a job kills has had SIGINT from that job STOP_TIMEOUT ago.
THEOREM OnlyAskedAreKilled == ASSUME MonitorAlone PROVE Spec => []KillsOnlyAsked
<1>1. JobsInv => KillsOnlyAsked
  BY ControlAssumption DEF MonitorAlone, JobsInv, JobInv, KillsOnlyAsked
<1> QED
  BY <1>1, MonitorInvariant, PTL

\* An update job starts complete files only.
THEOREM UpdatedFilesStart == ASSUME MonitorAlone PROVE Spec => []StartsUpdatedFiles
<1>1. JobsInv => StartsUpdatedFiles
  BY DEF JobsInv, JobInv, StartsUpdatedFiles
<1> QED
  BY <1>1, MonitorInvariant, PTL

-----------------------------------------------------------------------------
\* Whoever is about to start a server is alone with the files, and no server is
\* there.
StartsAlone ==
  \A a \in Actors : pc[a] = "start" =>
    Live = {} /\ \A b \in Actors : pc[b] # "steamcmd"

\* Then a step is a step of the managed server, or none.  Where the servers stay
\* as they are, the only question is whether an update may begin, and
\* NoUpdateUnderServer in the next state answers it.
LEMMA ManagedStep ==
  ASSUME StopTypeOK, pc \in [Actors -> PC], StartsAlone, NoUpdateUnderServer',
         [Next]_vars
  PROVE  [Managed!Next]_Managed!vars
<1> USE ControlAssumption
<1> DEFINE updating == \E a \in Actors : pc[a] = "steamcmd"
<1>1. ASSUME Live' = Live PROVE Managed!BeginUpdate \/ Managed!EndUpdate
  <2>1. updating' => Live' = {}
    BY DEF NoUpdateUnderServer
  <2>2. updating' \in BOOLEAN
    OBVIOUS
  <2> QED
    BY <1>1, <2>1, <2>2 DEF Managed!BeginUpdate, Managed!EndUpdate
<1>2. ASSUME NEW a \in Actors, StartOk(a)
      PROVE  \E s \in Servers : Managed!Start(s)
  <2>1. Live = {} /\ \A b \in Actors : pc[b] # "steamcmd"
    BY <1>2 DEF StartOk, StartsAlone
  <2>2. PICK s \in Servers : \E st \in {"launching", "running"} : Spawn(s, st)
    BY <1>2 DEF StartOk
  <2>3. Live' = {s}
    BY <2>1, <2>2 DEF Spawn, Live, StopTypeOK
  <2>4. pc' = [pc EXCEPT ![a] = "idle"]
    BY <1>2 DEF StartOk, Enter
  <2>5. updating = FALSE /\ updating' = FALSE
    BY <2>1, <2>4
  <2> QED
    BY <2>1, <2>3, <2>5 DEF Managed!Start
<1>3. ASSUME NEW s \in Servers, Settle(s) \/ GameEnds(s)
      PROVE  Live' = Live \/ Managed!End(s)
  <2>1. pc' = pc
    BY <1>3 DEF Settle, GameEnds, ctlVars
  <2>2. Live' = Live \/ Live' = Live \ {s}
    BY <1>3 DEF Settle, GameEnds, Appear, Quit, Reap, Live, StopTypeOK
  <2> QED
    BY <2>1, <2>2 DEF Managed!End
<1>4. ASSUME NEW a \in Actors, StopStep(a) PROVE Live' = Live
  <2>1. CASE Interrupt(a) \/ Kill(a)
    BY <2>1 DEF Interrupt, Kill, Signal, Live, StopTypeOK
  <2>2. CASE Scan(a) \/ PollEmpty(a) \/ Expire(a) \/ Recheck(a)
    BY <2>2 DEF Scan, PollEmpty, Expire, Recheck, Live
  <2> QED
    BY <1>4, <2>1, <2>2 DEF StopStep, Step
<1>5. ASSUME NEW a \in Actors,
             \/ Check(a) \/ Notify(a) \/ CallStop(a) \/ EndStop(a)
             \/ SteamcmdOk(a) \/ SteamcmdErr(a) \/ StartErr(a)
      PROVE  Live' = Live
  BY <1>5 DEF Check, Notify, CallStop, Call, EndStop, Return, SteamcmdOk,
     SteamcmdErr, StartErr, stopVars, Live
<1>6. ASSUME \E t \in Tasks : Acquire(t) \/ \E k \in Jobs : Fire(t, k)
      PROVE  Live' = Live
  BY <1>6 DEF Acquire, Fire, stopVars, Live
<1>7. ASSUME NEW c \in Clis, NEW k \in CliCommands, Invoke(c, k) PROVE Live' = Live
  BY <1>7 DEF Invoke, stopVars, Live
<1>8. UNCHANGED vars => Live' = Live
  BY DEF vars, stopVars, Live
<1> QED
  BY <1>1, <1>2, <1>3, <1>4, <1>5, <1>6, <1>7, <1>8 DEF Next, Work, Managed!Next

\* The monitor implements the managed server: it starts one only when there is
\* none, and updates only when there is none.
THEOREM MonitorImplementsManaged == ASSUME MonitorAlone PROVE Spec => ManagesOneServer
<1>1. Init => Managed!Init
  <2> SUFFICES ASSUME Init PROVE Managed!Init
    OBVIOUS
  <2>1. \A a \in Actors : pc[a] # "steamcmd"
    BY DEF Init
  <2>2. Live = {} \/ \E s \in Servers : Live = {s}
    BY DEF Init, Live
  <2> QED
    BY <2>1, <2>2 DEF Managed!Init
<1>2. JobsInv => NoUpdateUnderServer /\ StartsAlone
  BY ControlAssumption
  DEF MonitorAlone, JobsInv, JobInv, CtlInv, JobsExclusive, NoUpdateUnderServer,
      StartsAlone
<1>3. JobsInv /\ NoUpdateUnderServer' /\ [Next]_vars => [Managed!Next]_Managed!vars
  BY <1>2, ManagedStep DEF JobsInv, StopInv, CtlInv, CtlTypeOK
<1> QED
  BY <1>1, <1>2, <1>3, MonitorInvariant, PTL DEF Spec, ManagesOneServer, Managed!Spec
=============================================================================
