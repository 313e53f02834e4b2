----------------------------- MODULE HealthProbe -----------------------------
(***************************************************************************)
(* The monitor's health poller and its HTTP probes (cli/src/utils/health.rs *)
(* and http.rs), beside a job of the same monitor that stops, updates and   *)
(* starts the server (cli/src/main.rs).                                     *)
(*                                                                          *)
(* Poller, handlers and job are tasks of one tokio runtime.  A job runs     *)
(* from its lock to its end without awaiting, and a round of the poller     *)
(* does too, so each keeps a worker thread for as long as it takes.         *)
(***************************************************************************)
EXTENDS Integers, FiniteSets

CONSTANTS
  Probes,     \* requests to the probe endpoints, and `enshrouded health`
  Workers,    \* how many worker threads the runtime may have
  PortPairs,  \* game and query port, as enshrouded_server.json may have them
  PortEdits,  \* the operator may change them while the monitor runs
  HttpPort    \* 0 turns the HTTP server off

U16 == 0 .. 65535

ASSUME HealthAssumption ==
  /\ Workers \subseteq Nat \ {0}
  /\ PortPairs \subseteq [game : Int, query : U16]
  /\ PortEdits \in BOOLEAN
  /\ HttpPort \in Nat

Routes == {"live", "ready", "health"}

VARIABLES
  launcher,    \* Proton's launcher runs; its command line names the game too
  game,        \* the game runs
  bound,       \* the UDP ports that the game holds
  ports,       \* the ports in enshrouded_server.json
  runs,        \* the ports the game was started with
  watched,     \* HealthState's ports, read when the monitor started
  workers,     \* the runtime's worker threads, one for each CPU
  job,         \* the job that holds the instance lock
  poll,        \* where the poller's round is
  ready,       \* what the round found out about the ports, before it is stored
  port_bound,  \* HealthState
  process_up,  \* HealthState
  request,     \* each probe: what became of it
  route,       \* each probe: what it asked for
  portAge,     \* history: rounds stored since the game bound or released a port
  upAge        \* history: rounds stored since the launcher or the game came or went

server == <<launcher, game, bound, ports, runs>>
health == <<watched, poll, ready, port_bound, process_up>>
probes == <<request, route>>
history == <<portAge, upAge>>
vars == <<server, health, probes, workers, job, history>>

\* How far the ages are counted: two rounds are all the properties ask for.
MaxAge == 2

Busy == (IF job = "idle" THEN 0 ELSE 1) + (IF poll = "tick" THEN 0 ELSE 1)

ServerType ==
  /\ launcher \in BOOLEAN /\ game \in BOOLEAN
  /\ bound \subseteq U16
  /\ ports \in PortPairs /\ runs \in PortPairs

HealthType ==
  /\ watched \in [game : U16, query : U16]
  /\ ready \in BOOLEAN /\ port_bound \in BOOLEAN /\ process_up \in BOOLEAN

ProbeType ==
  /\ request \in [Probes -> {"none", "sent", "ok", "unavailable", "failed"}]
  /\ route \in [Probes -> Routes]

\* No more tasks run than there are workers.
WorkType ==
  /\ workers \in Workers
  /\ job \in {"idle", "stopping", "updating", "starting"}
  /\ poll \in {"tick", "port", "scan"}
  /\ Busy <= workers

HistoryType == portAge \in 0 .. MaxAge /\ upAge \in 0 .. MaxAge

PollerTypeOK == ServerType /\ HealthType /\ ProbeType /\ WorkType /\ HistoryType

-----------------------------------------------------------------------------
(***************************************************************************)
(* What the poller looks at.                                               *)
(***************************************************************************)
AsU16(p) == p % 65536

\* HealthState::new
Captured(pair) == [game |-> AsU16(pair.game), query |-> pair.query]

ListeningOnGamePort(w) == w.game \in bound  \* variant: the check before the fix

server_listening(w) == w.game \in bound \/ w.query \in bound

\* process_matching: the launcher names enshrouded_server.exe just as well.
process_matching == launcher \/ game

Listening == bound # {}

Init ==
  /\ launcher \in BOOLEAN /\ game = FALSE /\ bound = {}
  /\ ports \in PortPairs /\ runs = ports /\ watched = Captured(ports)
  /\ workers \in Workers
  /\ job = "idle" /\ poll = "tick" /\ ready = FALSE
  /\ port_bound = FALSE /\ process_up = FALSE
  /\ request = [p \in Probes |-> "none"]
  /\ route = [p \in Probes |-> "health"]
  /\ portAge = 0 /\ upAge = 0

-----------------------------------------------------------------------------
(***************************************************************************)
(* The server.  The game holds its query port, and may hold its game port. *)
(***************************************************************************)
Serve ==
  \/ /\ launcher /\ ~game
     /\ game' = TRUE /\ runs' = ports
     /\ UNCHANGED <<launcher, bound, ports>>
  \/ /\ game /\ bound = {}
     /\ bound' \in {{runs.query}, {AsU16(runs.game), runs.query}}
     /\ UNCHANGED <<launcher, game, ports, runs>>
  \/ /\ game \* the game crashes
     /\ game' = FALSE /\ bound' = {}
     /\ UNCHANGED <<launcher, ports, runs>>
  \/ /\ launcher /\ ~game
     /\ launcher' = FALSE
     /\ UNCHANGED <<game, bound, ports, runs>>
  \/ /\ PortEdits
     /\ ports' \in PortPairs \ {ports}
     /\ UNCHANGED <<launcher, game, bound, runs>>

-----------------------------------------------------------------------------
(***************************************************************************)
(* A job: auto-update, or scheduled-restart, which has nothing to update.  *)
(***************************************************************************)
FireAnyway ==       \* variant: the job finds a worker though all are taken
  /\ job = "idle"
  /\ job' = "stopping"
  /\ UNCHANGED server

Fire ==
  /\ job = "idle" /\ Busy < workers
  /\ job' = "stopping"
  /\ UNCHANGED server

\* stop_server; an Err of it ends the job, and so does "no update available".
JobStops ==
  /\ job = "stopping"
  /\ \/ game' = FALSE /\ bound' = {} /\ job' \in {"updating", "starting"}
     \/ UNCHANGED <<game, bound>> /\ job' = "idle"
  /\ UNCHANGED <<launcher, ports, runs>>

\* An update whose attempts all fail ends the job too.
JobUpdates ==
  /\ job = "updating"
  /\ job' \in {"starting", "idle"}
  /\ UNCHANGED server

JobStarts ==
  /\ job = "starting"
  /\ launcher' \in {TRUE, launcher} \* the start may fail
  /\ job' = "idle"
  /\ UNCHANGED <<game, bound, ports, runs>>

Job == Fire \/ JobStops \/ JobUpdates \/ JobStarts

-----------------------------------------------------------------------------
(***************************************************************************)
(* A round of run_health_poller: look at the ports, store, look for the    *)
(* process, store.                                                         *)
(***************************************************************************)
Tick ==
  /\ poll = "tick" /\ Busy < workers
  /\ ready' = server_listening(watched)
  /\ poll' = "port"
  /\ UNCHANGED <<watched, port_bound, process_up>>

StoreReadyOnly ==   \* variant: only good news is stored
  /\ poll = "port"
  /\ port_bound' = (port_bound \/ ready)
  /\ poll' = "scan"
  /\ UNCHANGED <<watched, ready, process_up>>

StorePort ==
  /\ poll = "port"
  /\ port_bound' = ready
  /\ poll' = "scan"
  /\ UNCHANGED <<watched, ready, process_up>>

StoreLatched ==     \* variant: a process once seen counts for ever
  /\ poll = "scan"
  /\ process_up' = (process_up \/ process_matching)
  /\ poll' = "tick"
  /\ UNCHANGED <<watched, ready, port_bound>>

StoreProcess ==
  /\ poll = "scan"
  /\ process_up' = process_matching
  /\ poll' = "tick"
  /\ UNCHANGED <<watched, ready, port_bound>>

Poll == Tick \/ StorePort \/ StoreProcess

-----------------------------------------------------------------------------
(***************************************************************************)
(* Probes: requests from outside, and probe_locally for the HEALTHCHECK.   *)
(***************************************************************************)
Send(p, r) ==
  /\ request[p] # "sent"
  /\ request' = [request EXCEPT ![p] = IF HttpPort = 0 THEN "failed" ELSE "sent"]
  /\ route' = [route EXCEPT ![p] = r]

status_for(r) ==
  [live |-> process_up, ready |-> port_bound, health |-> process_up /\ port_bound][r]

AnswerWhenUp(p) ==  \* variant: the handler waits for good news
  /\ request[p] = "sent" /\ Busy < workers /\ status_for(route[p])
  /\ request' = [request EXCEPT ![p] = "ok"]
  /\ UNCHANGED route

\* The handlers load what they need and await nothing.
Answer(p) ==
  /\ request[p] = "sent" /\ Busy < workers
  /\ request' = [request EXCEPT ![p] = IF status_for(route[p]) THEN "ok" ELSE "unavailable"]
  /\ UNCHANGED route

\* After five seconds probe_locally gives up; others have timeouts as well.
TimeOut(p) ==
  /\ request[p] = "sent"
  /\ request' = [request EXCEPT ![p] = "failed"]
  /\ UNCHANGED route

Probing ==
  \E p \in Probes : (\E r \in Routes : Send(p, r)) \/ Answer(p) \/ TimeOut(p)

-----------------------------------------------------------------------------
\* How many rounds have stored a flag since what it tells of last changed.
Aged(age, changed, stored) ==
  IF changed THEN 0 ELSE IF stored /\ age < MaxAge THEN age + 1 ELSE age

Remember ==
  /\ portAge' = Aged(portAge, Listening' # Listening, poll = "port" /\ poll' # "port")
  /\ upAge' = Aged(upAge, launcher' # launcher \/ game' # game,
                   poll = "scan" /\ poll' # "scan")

Beside(Step, others) == Step /\ UNCHANGED <<workers, others>> /\ Remember

PollStep(Step) == Beside(Step, <<server, probes, job>>)
JobStep(Step) == Beside(Step, <<health, probes>>)
ProbeStep(Step) == Beside(Step, <<server, health, job>>)

Next ==
  \/ Beside(Serve, <<health, probes, job>>)
  \/ JobStep(Job)
  \/ PollStep(Poll)
  \/ ProbeStep(Probing)

Spec == Init /\ [][Next]_vars

(***************************************************************************)
(* A thread that runs keeps running.  tokio polls its ready tasks in turn,  *)
(* so a task that is ready whenever a worker comes free gets one.           *)
(***************************************************************************)
FairSpec ==
  /\ Spec
  /\ SF_vars(PollStep(Tick))
  /\ WF_vars(PollStep(StorePort \/ StoreProcess))
  /\ WF_vars(JobStep(JobStops \/ JobUpdates \/ JobStarts))
  /\ \A p \in Probes : SF_vars(ProbeStep(Answer(p)))

-----------------------------------------------------------------------------
(***************************************************************************)
(* Properties.                                                             *)
(***************************************************************************)

\* The port the game binds whatever it is set to is the one that the monitor read.
QueryPortIsWatched == watched.query = runs.query

\* Two rounds after the game bound or released its port, or a process of it came
\* or went, the flags the handlers read say so, whatever a job was doing.  An edit
\* of the query port can hide a game that listens, and nothing else.
StaleForOneRound ==
  /\ portAge = MaxAge /\ port_bound => Listening
  /\ portAge = MaxAge /\ Listening /\ QueryPortIsWatched => port_bound
  /\ upAge = MaxAge => process_up = (launcher \/ game)

\* "readiness goes `false` for the duration of the restart and comes back on its
\* own" (docs/health-checks.md:140): a game that stays connectable is reported,
\* also after edits of the ports, if it is on the query port that is watched.
ComesBack == <>[](Listening /\ QueryPortIsWatched) => <>[](port_bound /\ process_up)

\* Without a process the probes end up, and stay, unavailable.
GoesDown == <>[](~launcher /\ ~game) => <>[](~port_bound /\ ~process_up)

\* Jobs may keep the only worker for minutes, but no probe waits for ever.
ProbesEnd == \A p \in Probes : request[p] = "sent" ~> request[p] # "sent"

\* "A false here means the container should be restarted -- the process died and
\* isn't coming back on its own" (health.rs:43-45): /live is not down for two
\* rounds while a job is about to start the server again.
DeadMeansGone == upAge = MaxAge /\ ~process_up => job \notin {"updating", "starting"}

=============================================================================
