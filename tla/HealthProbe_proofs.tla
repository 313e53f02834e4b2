-------------------------- MODULE HealthProbe_proofs --------------------------
(***************************************************************************)
(* How far the probes' answers lag behind the server, for any number of     *)
(* worker threads and of requests, and any ports.                          *)
(***************************************************************************)
EXTENDS HealthProbe, TLAPS

\* The game holds its query port whenever it holds any.
BoundInv ==
  /\ bound \in {{}, {runs.query}, {AsU16(runs.game), runs.query}}
  /\ ~game => bound = {}

\* What has been found out since the game last bound or released a port, or a
\* process of it came or went: whether a watched port is bound, and whether it is up.
PortIsKnown ==
  /\ poll = "port" /\ portAge # 0 => (ready <=> server_listening(watched))
  /\ portAge = MaxAge => (port_bound <=> server_listening(watched))

UpIsKnown == upAge # 0 => (process_up <=> (launcher \/ game))

Inv == PollerTypeOK /\ BoundInv /\ PortIsKnown /\ UpIsKnown

-----------------------------------------------------------------------------
\* `as u16` gives a port.
LEMMA AsU16Type == ASSUME NEW p \in Int PROVE AsU16(p) \in U16
BY DEF AsU16, U16

\* Ports from the file, and what the poller makes of them.
LEMMA PairType ==
  ASSUME NEW pair \in PortPairs
  PROVE  /\ pair.game \in Int /\ pair.query \in U16
         /\ Captured(pair) \in [game : U16, query : U16]
<1>1. pair.game \in Int /\ pair.query \in U16
  BY HealthAssumption
<1> QED
  BY <1>1, AsU16Type DEF Captured

\* The ages keep their types, whatever the step.
LEMMA HistoryStep == HistoryType /\ Remember => HistoryType'
BY DEF HistoryType, Remember, Aged, MaxAge

\* Every step keeps the variables' types.
LEMMA TypeStep == PollerTypeOK /\ [Next]_vars => PollerTypeOK'
<1> SUFFICES ASSUME PollerTypeOK, [Next]_vars PROVE PollerTypeOK'
  OBVIOUS
<1>1. CASE Beside(Serve, <<health, probes, job>>)
  <2>1. UNCHANGED <<workers, <<health, probes, job>>>> /\ Remember /\ Serve
    BY <1>1 DEF Beside
  <2>2. ServerType'
    <3>1. AsU16(runs.game) \in U16 /\ runs.query \in U16
      BY PairType, AsU16Type DEF PollerTypeOK, ServerType
    <3> QED
      BY <2>1, <3>1 DEF Serve, PollerTypeOK, ServerType
  <2>3. HealthType' /\ ProbeType' /\ WorkType'
    BY <2>1 DEF health, probes, PollerTypeOK, HealthType, ProbeType, WorkType, Busy
  <2> QED
    BY <2>1, <2>2, <2>3, HistoryStep DEF PollerTypeOK
<1>2. CASE JobStep(Job)
  <2>1. UNCHANGED <<workers, <<health, probes>>>> /\ Remember /\ Job
    BY <1>2 DEF JobStep, Beside
  <2>2. ServerType'
    BY <2>1 DEF Job, Fire, JobStops, JobUpdates, JobStarts, PollerTypeOK, ServerType, server
  <2>3. HealthType' /\ ProbeType'
    BY <2>1 DEF health, probes, PollerTypeOK, HealthType, ProbeType
  <2>4. WorkType'
    <3>1. poll' = poll /\ workers' = workers
      BY <2>1 DEF health
    <3>2. job' \in {"idle", "stopping", "updating", "starting"}
      BY <2>1 DEF Job, Fire, JobStops, JobUpdates, JobStarts
    <3>3. CASE Fire
      BY <3>1, <3>2, <3>3, HealthAssumption DEF Fire, PollerTypeOK, WorkType, Busy
    <3>4. CASE JobStops \/ JobUpdates \/ JobStarts
      <4>1. job # "idle"
        BY <3>4 DEF JobStops, JobUpdates, JobStarts
      <4> QED
        BY <3>1, <3>2, <4>1, HealthAssumption DEF PollerTypeOK, WorkType, Busy
    <3> QED
      BY <2>1, <3>3, <3>4 DEF Job
  <2> QED
    BY <2>1, <2>2, <2>3, <2>4, HistoryStep DEF PollerTypeOK
<1>3. CASE PollStep(Poll)
  <2>1. UNCHANGED <<workers, <<server, probes, job>>>> /\ Remember /\ Poll
    BY <1>3 DEF PollStep, Beside
  <2>2. ServerType' /\ ProbeType'
    BY <2>1 DEF server, probes, PollerTypeOK, ServerType, ProbeType
  <2>3. HealthType'
    BY <2>1 DEF Poll, Tick, StorePort, StoreProcess, server_listening, process_matching,
       PollerTypeOK, HealthType, ServerType
  <2>4. WorkType'
    BY <2>1, HealthAssumption DEF Poll, Tick, StorePort, StoreProcess, PollerTypeOK, WorkType, Busy
  <2> QED
    BY <2>1, <2>2, <2>3, <2>4, HistoryStep DEF PollerTypeOK
<1>4. CASE ProbeStep(Probing)
  <2>1. UNCHANGED <<workers, <<server, health, job>>>> /\ Remember /\ Probing
    BY <1>4 DEF ProbeStep, Beside
  <2>2. ServerType' /\ HealthType' /\ WorkType'
    BY <2>1 DEF server, health, PollerTypeOK, ServerType, HealthType, WorkType, Busy
  <2>3. ProbeType'
    BY <2>1 DEF Probing, Send, Answer, TimeOut, Routes, PollerTypeOK, ProbeType
  <2> QED
    BY <2>1, <2>2, <2>3, HistoryStep DEF PollerTypeOK
<1>5. CASE UNCHANGED vars
  BY <1>5 DEF vars, server, health, probes, history, PollerTypeOK, ServerType, HealthType,
     ProbeType, WorkType, HistoryType, Busy
<1> QED
  BY <1>1, <1>2, <1>3, <1>4, <1>5 DEF Next

\* The types hold at the start.
LEMMA InitType == Init => PollerTypeOK
<1> SUFFICES ASSUME Init PROVE PollerTypeOK
  OBVIOUS
<1>1. ServerType
  BY DEF Init, ServerType
<1>2. WorkType
  BY HealthAssumption DEF Init, WorkType, Busy
<1>3. HealthType
  BY PairType DEF Init, HealthType
<1>4. HistoryType
  BY DEF Init, HistoryType, MaxAge
<1>5. ProbeType
  BY DEF Init, ProbeType, Routes
<1> QED
  BY <1>1, <1>2, <1>3, <1>4, <1>5 DEF PollerTypeOK

\* The types hold in every behaviour; no more tasks run than there are workers.
THEOREM TypeCorrect == Spec => []PollerTypeOK
BY InitType, TypeStep, PTL DEF Spec

-----------------------------------------------------------------------------
\* What the game holds is one of its own sets of ports, after every step, and it
\* binds none while it holds any.
LEMMA BoundStep ==
  ASSUME BoundInv, [Next]_vars
  PROVE  BoundInv' /\ (Listening' = Listening => bound' = bound)
<1>1. CASE Beside(Serve, <<health, probes, job>>)
  BY <1>1 DEF Beside, Serve, BoundInv, Listening
<1>2. CASE JobStep(Job)
  <2>1. runs' = runs /\ (bound' = {} \/ (bound' = bound /\ game' = game))
    BY <1>2 DEF JobStep, Beside, Job, Fire, JobStops, JobUpdates, JobStarts, server
  <2> QED
    BY <2>1 DEF BoundInv, Listening
<1>3. CASE PollStep(Poll) \/ ProbeStep(Probing) \/ UNCHANGED vars
  BY <1>3 DEF PollStep, ProbeStep, Beside, vars, server, BoundInv
<1> QED
  BY <1>1, <1>2, <1>3 DEF Next

\* A step outside the poller leaves what it found out as true as it was, or
\* restarts the count of rounds.
LEMMA AgesStay ==
  ASSUME Remember, UNCHANGED health, Listening' = Listening => bound' = bound
  PROVE  /\ PortIsKnown => PortIsKnown'
         /\ UpIsKnown => UpIsKnown'
<1>1. /\ UNCHANGED watched /\ UNCHANGED poll /\ UNCHANGED ready
      /\ UNCHANGED port_bound /\ UNCHANGED process_up
  BY DEF health
<1>2. UpIsKnown => UpIsKnown'
  BY <1>1 DEF UpIsKnown, Remember, Aged
<1>3. CASE Listening' # Listening
  <2>1. portAge' = 0
    BY <1>3 DEF Remember, Aged
  <2> QED
    BY <1>2, <2>1 DEF PortIsKnown, MaxAge
<1>4. CASE Listening' = Listening
  <2>1. portAge' = portAge /\ server_listening(watched)' = server_listening(watched)
    BY <1>1, <1>4 DEF Remember, Aged, server_listening
  <2> QED
    BY <1>1, <1>2, <2>1 DEF PortIsKnown
<1> QED
  BY <1>3, <1>4

\* A step of a round finds out what is so and stores what it has found out.
LEMMA RoundsTell ==
  ASSUME PollerTypeOK, PollStep(Poll)
  PROVE  /\ PortIsKnown => PortIsKnown'
         /\ UpIsKnown => UpIsKnown'
<1>1. /\ UNCHANGED launcher /\ UNCHANGED game /\ UNCHANGED bound
      /\ Remember /\ Poll
  BY DEF PollStep, Beside, server
<1>2. Listening' = Listening /\ server_listening(watched)' = server_listening(watched)
  BY <1>1 DEF Listening, server_listening, Poll, Tick, StorePort, StoreProcess
<1>3. ASSUME Tick
      PROVE  /\ ready' = server_listening(watched) /\ poll' = "port"
             /\ portAge' = portAge /\ port_bound' = port_bound
             /\ upAge' = upAge /\ process_up' = process_up
  BY <1>1, <1>2, <1>3 DEF Tick, Remember, Aged
<1>4. ASSUME StorePort
      PROVE  /\ portAge' = MaxAge => portAge # 0
             /\ poll = "port" /\ poll' = "scan" /\ port_bound' = ready
             /\ upAge' = upAge /\ process_up' = process_up
  BY <1>1, <1>2, <1>4 DEF StorePort, Remember, Aged, MaxAge, PollerTypeOK, HistoryType
<1>5. ASSUME StoreProcess
      PROVE  /\ process_up' <=> (launcher \/ game)
             /\ poll' = "tick" /\ portAge' = portAge /\ port_bound' = port_bound
  BY <1>1, <1>2, <1>5 DEF StoreProcess, process_matching, Remember, Aged
<1>6. PortIsKnown => PortIsKnown'
  BY <1>1, <1>2, <1>3, <1>4, <1>5 DEF Poll, PortIsKnown
<1>7. UpIsKnown => UpIsKnown'
  BY <1>1, <1>3, <1>4, <1>5 DEF Poll, UpIsKnown
<1> QED
  BY <1>6, <1>7

\* A step is one of the poller's rounds, or leaves what the poller knows alone.
LEMMA Rounds == [Next]_vars => PollStep(Poll) \/ (Remember /\ UNCHANGED health) \/ UNCHANGED vars
BY DEF Next, Beside, JobStep, ProbeStep

\* Every step keeps the invariant, with ports that are edited or not.
LEMMA NextInv == Inv /\ [Next]_vars => Inv'
<1> SUFFICES ASSUME Inv, [Next]_vars PROVE Inv'
  OBVIOUS
<1>1. PollerTypeOK' /\ BoundInv' /\ (Listening' = Listening => bound' = bound)
  BY TypeStep, BoundStep DEF Inv
<1>2. CASE PollStep(Poll)
  BY <1>1, <1>2, RoundsTell DEF Inv
<1>3. CASE Remember /\ UNCHANGED health
  BY <1>1, <1>3, AgesStay DEF Inv
<1>4. CASE UNCHANGED vars
  BY <1>1, <1>4 DEF vars, server, health, history, Inv, PortIsKnown, UpIsKnown, server_listening
<1> QED
  BY <1>2, <1>3, <1>4, Rounds

\* The invariant holds at the start.
LEMMA InitInv == Init => Inv
BY InitType DEF Init, Inv, BoundInv, PortIsKnown, UpIsKnown, MaxAge

\* Whoever holds a watched port is the game; and the game holds one if it was
\* started with the query port that is watched, whatever its game port is.
LEMMA WatchedIsHeld ==
  ASSUME BoundInv
  PROVE  /\ server_listening(watched) => Listening
         /\ QueryPortIsWatched /\ Listening => server_listening(watched)
BY DEF BoundInv, QueryPortIsWatched, server_listening, Listening

\* What the probes answer is at most one round behind, for any number of workers
\* and any ports, whatever the jobs do and whatever the operator edits: /live is
\* right, /ready never speaks for a game that is not there, and misses one only
\* where its query port is not the one that is watched.
THEOREM ProbesLagOneRound == Spec => []StaleForOneRound
<1>1. Inv => StaleForOneRound
  <2> SUFFICES ASSUME Inv PROVE StaleForOneRound
    OBVIOUS
  <2>1. upAge = MaxAge => process_up = (launcher \/ game)
    BY DEF Inv, UpIsKnown, MaxAge, PollerTypeOK, HealthType, ServerType
  <2> QED
    BY <2>1, WatchedIsHeld DEF Inv, PortIsKnown, StaleForOneRound
<1> QED
  BY InitInv, NextInv, <1>1, PTL DEF Spec

=============================================================================
