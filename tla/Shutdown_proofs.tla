--------------------------- MODULE Shutdown_proofs ---------------------------
(***************************************************************************)
(* Theorems about stop_server, for any number of callers and of servers.   *)
(***************************************************************************)
EXTENDS Shutdown, FiniteSetTheorems, TLAPS

(***************************************************************************)
(* What a call knows of the processes it found, for each caller.  A call   *)
(* starts with nothing found; nothing found is a launcher; what still runs *)
(* is yet to be interrupted; an Ok call's processes are gone; and the      *)
(* loops over the pids never have an empty list.                           *)
(***************************************************************************)
CallInv(a) ==
  /\ phase[a] \in {"out", "scan"} => asked[a] = {} /\ todo[a] = {}
  /\ phase[a] \in {"signal", "kill"} => todo[a] # {}
  /\ \A s \in asked[a] :
       /\ proc[s] # "launching"
       /\ proc[s] = "running" => phase[a] = "signal" /\ s \in todo[a]
       /\ phase[a] = "ok" => proc[s] = "gone"

StopInv == StopTypeOK /\ \A a \in Actors : CallInv(a)

-----------------------------------------------------------------------------
\* Every launch, exit and step of stop_processes keeps the variables' types.
LEMMA StopTypeStep == StopTypeOK /\ [StopNext]_stopVars => StopTypeOK'
<1> SUFFICES ASSUME StopTypeOK, [StopNext]_stopVars PROVE StopTypeOK'
  OBVIOUS
<1> USE DEF StopTypeOK, ProcState, Phase
<1>1. ASSUME NEW s \in Servers, Launch(s) \/ Appear(s) \/ Quit(s) \/ Reap(s)
      PROVE  StopTypeOK'
  BY <1>1 DEF Launch, Spawn, Appear, Quit, Reap
<1>2. ASSUME NEW a \in Actors, Call(a) PROVE StopTypeOK'
  BY <1>2 DEF Call, Goto
<1>3. ASSUME NEW a \in Actors, Scan(a) PROVE StopTypeOK'
  BY <1>3 DEF Scan, Goto, find_pids
<1>4. ASSUME NEW a \in Actors, Interrupt(a) PROVE StopTypeOK'
  BY <1>4 DEF Interrupt, Signal, Goto
<1>5. ASSUME NEW a \in Actors, PollEmpty(a) PROVE StopTypeOK'
  BY <1>5 DEF PollEmpty, Goto
<1>6. ASSUME NEW a \in Actors, Expire(a) PROVE StopTypeOK'
  BY <1>6 DEF Expire, Goto, find_pids
<1>7. ASSUME NEW a \in Actors, Kill(a) PROVE StopTypeOK'
  BY <1>7 DEF Kill, Signal, Goto
<1>8. ASSUME NEW a \in Actors, Recheck(a) PROVE StopTypeOK'
  BY <1>8 DEF Recheck, Goto
<1>9. ASSUME NEW a \in Actors, Return(a) PROVE StopTypeOK'
  BY <1>9 DEF Return, Goto
<1>10. CASE UNCHANGED stopVars
  BY <1>10 DEF stopVars
<1> QED
  BY <1>1, <1>2, <1>3, <1>4, <1>5, <1>6, <1>7, <1>8, <1>9, <1>10
  DEF StopNext, World, Step

\* A process that calls remember changes only towards its end: it is not
\* launched again, and it does not run again once it was interrupted.
LEMMA RememberedOnlyEnd ==
  ASSUME StopTypeOK, StopNext, NEW a \in Actors, NEW s \in asked[a],
         proc[s] # "launching"
  PROVE  /\ proc'[s] # "launching"
         /\ proc'[s] = "running" => proc[s] = "running"
         /\ proc[s] = "gone" => proc'[s] = "gone"
<1> USE DEF StopTypeOK, ProcState, Phase
<1>1. ASSUME NEW r \in Servers, Launch(r)
      PROVE  proc'[s] = proc[s]
  BY <1>1 DEF Launch, Spawn, Remembered
<1>2. ASSUME NEW r \in Servers, Appear(r) \/ Quit(r) \/ Reap(r)
      PROVE  proc'[s] \in {proc[s], "gone"}
  BY <1>2 DEF Appear, Quit, Reap
<1>3. ASSUME NEW b \in Actors, Interrupt(b) \/ Kill(b)
      PROVE  \/ proc'[s] = proc[s]
             \/ proc[s] \in {"running", "saving"} /\ proc'[s] \in {"saving", "killed"}
  BY <1>3 DEF Interrupt, Kill, Signal
<1>4. ASSUME NEW b \in Actors,
             Call(b) \/ Scan(b) \/ PollEmpty(b) \/ Expire(b) \/ Recheck(b) \/ Return(b)
      PROVE  proc'[s] = proc[s]
  BY <1>4 DEF Call, Scan, PollEmpty, Expire, Recheck, Return
<1> QED
  BY <1>1, <1>2, <1>3, <1>4 DEF StopNext, World, Step

\* Types hold in every state of the stop component.
THEOREM StopTypeCorrect == StopSpec => []StopTypeOK
<1>1. StopInit => StopTypeOK
  BY DEF StopInit, StopTypeOK, ProcState, Phase
<1> QED
  BY <1>1, StopTypeStep, PTL DEF StopSpec

-----------------------------------------------------------------------------
\* Before any call there is nothing to know.
LEMMA StopInvInit == StopInit => StopInv
  BY DEF StopInit, StopInv, CallInv, StopTypeOK, ProcState, Phase

\* A step keeps what a caller knows: its own steps by what they do, a step of
\* anything else because it leaves the call's variables alone and, as
\* RememberedOnlyEnd says, moves the processes only towards their end.
LEMMA CallInvStep ==
  ASSUME StopInv, StopNext, NEW a \in Actors PROVE CallInv(a)'
<1>1. /\ CallInv(a)
      /\ StopTypeOK
  BY DEF StopInv
<1>2. \A s \in asked[a] :
        /\ proc'[s] # "launching"
        /\ proc'[s] = "running" => proc[s] = "running"
        /\ proc[s] = "gone" => proc'[s] = "gone"
  BY <1>1, RememberedOnlyEnd DEF CallInv
<1> USE <1>1 DEF StopTypeOK, ProcState, Phase
<1>3. CASE Call(a)
  BY <1>3 DEF Call, Goto, CallInv
<1>4. CASE Scan(a)
  BY <1>4 DEF Scan, Goto, find_pids, CallInv
<1>5. CASE Interrupt(a)
  <2>1. PICK r \in todo[a] :
          /\ Signal(a, r, {"running"}, "saving")
          /\ Goto(a, IF todo[a] = {r} THEN "poll" ELSE "signal")
    BY <1>5 DEF Interrupt
  <2>2. asked' = asked /\ phase[a] = "signal"
    BY <1>5 DEF Interrupt
  <2>3. todo'[a] = todo[a] \ {r} /\ proc'[r] # "running"
    BY <2>1 DEF Signal
  <2>4. phase'[a] = IF todo[a] = {r} THEN "poll" ELSE "signal"
    BY <2>1 DEF Goto
  <2> QED
    BY <1>2, <2>2, <2>3, <2>4 DEF CallInv
<1>6. CASE PollEmpty(a)
  BY <1>6 DEF PollEmpty, Goto, find_pids, CallInv
<1>7. CASE Expire(a)
  BY <1>7 DEF Expire, Goto, CallInv
<1>8. CASE Kill(a)
  <2>1. /\ phase[a] = "kill" /\ asked' = asked
        /\ phase'[a] \in {"kill", "recheck"}
    BY <1>8 DEF Kill, Goto
  <2>2. PICK r \in todo[a] :
          todo'[a] = todo[a] \ {r} /\ phase'[a] = IF todo[a] = {r} THEN "recheck" ELSE "kill"
    BY <1>8 DEF Kill, Signal, Goto
  <2> QED
    BY <1>2, <2>1, <2>2 DEF CallInv
<1>9. CASE Recheck(a)
  BY <1>9 DEF Recheck, Goto, find_pids, CallInv
<1>10. CASE Return(a)
  BY <1>10 DEF Return, Goto, CallInv
<1>11. CASE UNCHANGED <<phase[a], asked[a], todo[a]>>
  BY <1>2, <1>11 DEF CallInv
<1>12. ASSUME NEW b \in Actors, b # a, Call(b) \/ Step(b) \/ Return(b)
       PROVE  UNCHANGED <<phase[a], asked[a], todo[a]>>
  BY <1>12 DEF Call, Step, Scan, Interrupt, PollEmpty, Expire, Kill, Recheck,
     Return, Goto, Signal
<1>13. ASSUME World PROVE UNCHANGED <<phase[a], asked[a], todo[a]>>
  BY <1>13 DEF World, Launch, Appear, Quit, Reap
<1> QED
  BY <1>3, <1>4, <1>5, <1>6, <1>7, <1>8, <1>9, <1>10, <1>11, <1>12, <1>13
  DEF StopNext, Step

\* Every step of a call, and every change of the process table, keeps what each
\* call knows.
LEMMA StopInvStep == StopInv /\ [StopNext]_stopVars => StopInv'
<1>1. StopInv /\ UNCHANGED stopVars => StopInv'
  BY DEF StopInv, CallInv, StopTypeOK, stopVars
<1>2. StopInv /\ StopNext => StopInv'
  BY StopTypeStep, CallInvStep DEF StopInv
<1> QED
  BY <1>1, <1>2

\* What every caller knows of its processes holds throughout.
THEOREM StopInvariant == StopSpec => []StopInv
  BY StopInvInit, StopInvStep, PTL DEF StopSpec

\* An Ok result means that what the call found is gone, with any number of
\* callers and launches around it.
THEOREM OkMeansGone == StopSpec => []StopOkMeansGone
<1>1. StopInv => StopOkMeansGone
  BY DEF StopInv, CallInv, StopOkMeansGone
<1> QED
  BY <1>1, StopInvariant, PTL

\* What a call found has had SIGINT, or is on its way out, before the call
\* waits and kills.
THEOREM FoundAreInterrupted == StopSpec => []AskedWereInterrupted
<1>1. StopInv => AskedWereInterrupted
  BY DEF StopInv, CallInv, StopTypeOK, ProcState, AskedWereInterrupted
<1> QED
  BY <1>1, StopInvariant, PTL

-----------------------------------------------------------------------------
(***************************************************************************)
(* stop_server implements the safety part of its promise.                  *)
(***************************************************************************)
\* Each step of stop_processes is a step of the promise, or none.
LEMMA PromiseStep ==
  ASSUME StopTypeOK, [StopNext]_stopVars PROVE [Promise!Next]_Promise!vars
<1> USE DEF StopTypeOK, ProcState, Phase, find_pids
<1>1. ASSUME NEW s \in Servers, Launch(s) \/ Appear(s) \/ Quit(s) \/ Reap(s)
      PROVE  Promise!Arrive(s) \/ Promise!Leave(s)
  BY <1>1 DEF Launch, Spawn, Appear, Quit, Reap, Promise!Arrive, Promise!Leave
<1>2. ASSUME NEW a \in Actors, Call(a) PROVE Promise!Begin(a)
  BY <1>2 DEF Call, Goto, Promise!Begin, Promise!Become
<1>3. ASSUME NEW a \in Actors, Scan(a)
      PROVE  Promise!Succeed(a) \/ UNCHANGED Promise!vars
  BY <1>3 DEF Scan, Goto, Promise!Succeed, Promise!Become, Promise!vars
<1>4. ASSUME NEW a \in Actors, Interrupt(a) PROVE UNCHANGED Promise!vars
  BY <1>4 DEF Interrupt, Signal, Goto, Promise!vars
<1>5. ASSUME NEW a \in Actors, PollEmpty(a) PROVE Promise!Succeed(a)
  BY <1>5 DEF PollEmpty, Goto, Promise!Succeed, Promise!Become
<1>6. ASSUME NEW a \in Actors, Expire(a) PROVE UNCHANGED Promise!vars
  BY <1>6 DEF Expire, Goto, Promise!vars
<1>7. ASSUME NEW a \in Actors, Kill(a) PROVE UNCHANGED Promise!vars
  BY <1>7 DEF Kill, Signal, Goto, Promise!vars
<1>8. ASSUME NEW a \in Actors, Recheck(a)
      PROVE  Promise!Succeed(a) \/ Promise!Fail(a)
  BY <1>8 DEF Recheck, Goto, Promise!Succeed, Promise!Fail, Promise!Become
<1>9. ASSUME NEW a \in Actors, Return(a) PROVE Promise!Return(a)
  BY <1>9 DEF Return, Goto, Promise!Return, Promise!Become
<1>10. UNCHANGED stopVars => UNCHANGED Promise!vars
  BY DEF stopVars, Promise!vars
<1> QED
  BY <1>1, <1>2, <1>3, <1>4, <1>5, <1>6, <1>7, <1>8, <1>9, <1>10
  DEF StopNext, World, Step, Promise!Next

\* stop_server keeps the safety part of its promise: Ok only when no server is
\* to be seen, Err only when one still is.
THEOREM StopImplementsPromise == StopSpec => Promise!Spec
<1>1. StopInit => Promise!Init
  BY DEF StopInit, find_pids, Promise!Init
<1> QED
  BY <1>1, PromiseStep, StopTypeCorrect, PTL DEF StopSpec, Promise!Spec

-----------------------------------------------------------------------------
(***************************************************************************)
(* stop_server comes to an end.                                            *)
(***************************************************************************)
\* What a scan finds is never more than the process table holds, and a signal
\* takes one pid off the list.
LEMMA PidCount ==
  ASSUME NEW T \in SUBSET Servers
  PROVE  /\ Cardinality(T) \in Nat
         /\ Cardinality(T) <= Cardinality(Servers)
         /\ Cardinality(Servers) \in Nat
         /\ \A s \in T : Cardinality(T \ {s}) = Cardinality(T) - 1 /\ Cardinality(T) > 0
<1>1. IsFiniteSet(T) /\ Cardinality(T) <= Cardinality(Servers)
  BY FS_Subset, ServersAssumption
<1>2. Cardinality(T) \in Nat /\ Cardinality(Servers) \in Nat
  BY <1>1, FS_CardinalityType, ServersAssumption
<1>3. ASSUME NEW s \in T
      PROVE  Cardinality(T \ {s}) = Cardinality(T) - 1 /\ Cardinality(T \ {s}) \in Nat
  BY <1>1, FS_RemoveElement, FS_CardinalityType
<1> QED
  BY <1>1, <1>2, <1>3

\* The count of the steps left is a number, and never above the one of a call
\* that is about to scan.
LEMMA StopLeftBound ==
  ASSUME StopTypeOK, NEW a \in Actors
  PROVE  StopLeft(a) \in 0 .. 2 * Cardinality(Servers) + 3
<1>1. Cardinality(todo[a]) \in 0 .. Cardinality(Servers) /\ Cardinality(Servers) \in Nat
  BY PidCount DEF StopTypeOK
<1> QED
  BY <1>1 DEF StopLeft

\* Every step of a call lowers the count.
LEMMA StopStepCounts ==
  ASSUME StopTypeOK, NEW a \in Actors, Step(a)
  PROVE  /\ StopLeft(a)' \in Nat
         /\ StopLeft(a)' < StopLeft(a)
<1> USE DEF StopTypeOK, Goto
<1> DEFINE table == Cardinality(Servers)
           pids == Cardinality(todo[a])
           left == Cardinality(todo'[a])
<1>1. table \in Nat /\ pids \in Nat /\ pids <= table
  BY PidCount
<1>2. CASE Scan(a)
  <2>1. todo'[a] = find_pids /\ left \in Nat /\ left <= table
    BY <1>2, PidCount DEF Scan, find_pids
  <2>2. phase[a] = "scan" /\ phase'[a] \in {"ok", "signal"}
    BY <1>2 DEF Scan
  <2> HIDE DEF table, left
  <2>3. StopLeft(a) = 2 * table + 3
    BY <2>2 DEF StopLeft, table
  <2>4. StopLeft(a)' \in {0, table + 2 + left}
    BY <2>2 DEF StopLeft, table, left
  <2> QED
    BY <1>1, <2>1, <2>3, <2>4
<1>3. ASSUME NEW s \in todo[a], todo' = [todo EXCEPT ![a] = @ \ {s}]
      PROVE  left = pids - 1 /\ pids > 0
  <2>1. todo'[a] = todo[a] \ {s}
    BY <1>3
  <2> QED
    BY <2>1, PidCount
<1>4. CASE Interrupt(a)
  <2>1. PICK s \in todo[a] :
          /\ Signal(a, s, {"running"}, "saving")
          /\ Goto(a, IF todo[a] = {s} THEN "poll" ELSE "signal")
    BY <1>4 DEF Interrupt
  <2>2. left = pids - 1 /\ pids > 0
    BY <1>3, <2>1 DEF Signal
  <2>3. phase[a] = "signal" /\ phase'[a] \in {"poll", "signal"}
    BY <1>4, <2>1 DEF Interrupt
  <2> HIDE DEF table, left, pids
  <2>4. StopLeft(a) = table + 2 + pids
    BY <2>3 DEF StopLeft, table, pids
  <2>5. StopLeft(a)' \in {table + 2, table + 2 + left}
    BY <2>3 DEF StopLeft, table, left
  <2> QED
    BY <1>1, <2>2, <2>4, <2>5
<1>5. CASE PollEmpty(a)
  BY <1>1, <1>5 DEF PollEmpty, StopLeft
<1>6. CASE Expire(a)
  <2>1. todo'[a] = find_pids /\ left \in Nat /\ left <= table
    BY <1>6, PidCount DEF Expire, find_pids
  <2>2. phase[a] = "poll" /\ phase'[a] = "kill"
    BY <1>6 DEF Expire
  <2> HIDE DEF table, left
  <2>3. StopLeft(a) = table + 2 /\ StopLeft(a)' = left + 1
    BY <2>2 DEF StopLeft, table, left
  <2> QED
    BY <1>1, <2>1, <2>3
<1>7. CASE Kill(a)
  <2>1. PICK s \in todo[a] :
          /\ Signal(a, s, {"running", "saving"}, "killed")
          /\ Goto(a, IF todo[a] = {s} THEN "recheck" ELSE "kill")
    BY <1>7 DEF Kill
  <2>2. left = pids - 1 /\ pids > 0
    BY <1>3, <2>1 DEF Signal
  <2>3. phase[a] = "kill" /\ phase'[a] = IF todo[a] = {s} THEN "recheck" ELSE "kill"
    BY <1>7, <2>1 DEF Kill
  <2> HIDE DEF table, left, pids
  <2>4. StopLeft(a) = pids + 1
    BY <2>3 DEF StopLeft, pids
  <2>5. StopLeft(a)' \in {1, left + 1}
    BY <2>3 DEF StopLeft, left
  <2> QED
    BY <1>1, <2>2, <2>4, <2>5
<1>8. CASE Recheck(a)
  BY <1>8 DEF Recheck, StopLeft
<1> QED
  BY <1>2, <1>4, <1>5, <1>6, <1>7, <1>8 DEF Step
=============================================================================
