# Verification of enshrouded-docker

enshrouded-docker runs an Enshrouded dedicated server (a Windows program, through
Proton) in a container. A Rust program, `enshrouded`, installs, starts, stops and
updates the server, keeps its config file, runs scheduled jobs, and answers health
probes. The game is not in the repository; the repository decides when it runs,
what its config says, and what the outside is told about it. This directory holds
TLA+ models of those decisions, what TLC checks of them, and what TLAPS proves.

Paths are relative to the repository root (`cli/src/main.rs` and so on).

## 1. The system

| Component | Code | State it keeps | Operations |
|---|---|---|---|
| stop_server | `cli/src/utils/shutdown.rs` | none of its own: the process table, and a call's pids and deadline | find the game by the name in `argv[0]`, SIGINT, poll for `STOP_TIMEOUT`, SIGKILL, one more look |
| commands and scheduled jobs | `cli/src/main.rs`, `utils/retry.rs` | a mutex on the `Instance`, one per process; steamcmd's try count; the game files | install, start, stop, restart, update; the monitor's auto-update and scheduled-restart |
| configuration store | `cli/src/game_settings.rs`, `utils/config_io.rs` | `enshrouded_server.json`, up to five backups | load, lay the environment over it, back up, prune, truncate, write |
| environment overrides | `utils/env_overrides.rs`, `game_settings.rs` | none | per-field override or reset, user groups by name |
| health poller and probes | `utils/health.rs`, `utils/http.rs` | two atomic flags, the ports read when the monitor started | poll round, `/live`, `/ready`, `/health`, `enshrouded health` |
| container lifecycle | `scripts/entrypoint.sh`, `Dockerfile`, `compose.yaml` | the monitor's pid, the trap, what is on the volume | setup, install, start, monitor, wait; stop on a signal or an error |
| log monitor | `main.rs`, `utils/extract_player_name.rs` | the session log, rules | wait for the log, match lines, send webhooks |
| runtime setup | `utils/setup.rs` | directories, steamclient links | create them, find Proton, spawn the launcher |
| server name, build, image | `environment.rs`, `Dockerfile`, ... | none | none that changes state at run time |

**How they interact.** The entrypoint runs `setup`, perhaps `install`, `start`, then
`monitor` in the background, and calls `stop` from its trap. Each is a process of its
own; an operator adds more with `docker exec`. They share no lock: only the
monitor's jobs share one mutex, inside the monitor. What they do share is the process
table (stop_server), the game files (steamcmd), and the config file. Every
`setup`, `install`, `start`, `restart`, every job that starts the server, and the
monitor at its start load *and rewrite* that file. Inside the monitor the poller, the
HTTP handlers and the jobs are tasks of one tokio runtime; a job blocks its worker
thread from its first step to its last.

**What is hard.** Steps of two processes without a common lock; a server that
cannot be seen yet because Proton is still starting it; processes that end, hang
or appear between a look at the table and a signal; a deadline that passes while
others act; a write that a kill cuts in two; a file that changes between its read
and its rewrite; flags that are stored one after the other and read at any time;
ports remembered from a file that has changed since; a job that fails half-way
with the server down. `PROJECT.json` lists each of these under "hazards", at its line.

**What makes the parts correct.**

* stop_server: Ok means that what was found is gone; what it found had its SIGINT
  before it is killed; every call ends, with a result that fits the process table.
* commands and jobs: one server on one save directory; no update under a live
  server; jobs exclude each other, all get their turn, none keeps the mutex when it fails.
* configuration store: the operator's fields stay, variables win, a broken file is
  not touched, the file is never left cut short except by a kill or a full disk,
  loading again changes nothing and backs up nothing.
* health: the flags follow the server within two rounds and settle on the truth; every
  probe is answered even when a job has the only thread.
* environment overrides: the last variable wins, in a group that is found or made once;
  the operator's groups keep everything else; a second load changes nothing.
* container: a script that comes to its end has had the game saved, whatever jobs and signals
  came between; it does come to its end; one server over all lives of the container.
* runtime setup: whatever failed before, a server starts on a config with the environment in it.
  Processes that make the steamclient links at once leave none out, and what an earlier set-up left is
  no error to a later one.

## 2. Modules

| Module | Models |
|---|---|
| `StopPromise` | abstract: what stop_server promises its callers |
| `Shutdown` | stop_server, step by step, for any number of concurrent callers |
| `ManagedServer` | abstract: what the monitor's jobs promise together |
| `ServerControl` | the commands and jobs, composed with `Shutdown` |
| `AtomicConfig` | abstract: what the loads promise together: a file that others change in one step |
| `ConfigStore`, `MCConfigStore` | load_or_create_config as interleaved steps on one file |
| `HealthProbe`, `MCHealthProbe` | poller, probes and a job on the runtime's worker threads |
| `Container` | entrypoint.sh as process 1, its trap, signals and deaths, composed with `ServerControl` |
| `EnvOverrides` | the pass over the `SET_GROUP_` variables |
| `Startup`, `MCStartup` | setup, install and start on one volume, composed with `EnvOverrides` |
| `SteamLinks` | the linking of the steamclient libraries, in several processes at once |
| `Shutdown_proofs`, `ServerControl_proofs`, `ConfigStore_proofs`, `HealthProbe_proofs`, `Container_proofs`, `EnvOverrides_proofs`, `Startup_proofs`, `SteamLinks_proofs` | the theorems |

A definition whose comment says "variant" is a plausible bug of the code beside the
definition it would replace. No specification uses it; it shows that a property
can fail, by putting it in the place of the definition that follows it.

### Shutdown

A server is a slot of the process table: `gone`, `launching` (Proton's launcher; its
`argv[0]` is not the game's, so `find_pids` does not see it), `running`, `saving` (had
SIGINT, may hang), `killed` (had SIGKILL, not torn down yet). `phase[a]` is how far
actor `a` is in `stop_processes`; `asked` and `todo` are its local pids.

| Action | Code (`shutdown.rs`) |
|---|---|
| `Scan` | the first `find_pids`, Ok at once if it is empty |
| `Interrupt` | the SIGINT loop, one signal per step; a pid that has gone is skipped (ESRCH) |
| `PollEmpty` | the game is gone within the deadline |
| `Expire` | the deadline passes: a new look decides who is killed |
| `Kill`, `Recheck` | the SIGKILL loop; a sleep, and the last look, Ok or Err |
| `Appear`, `Quit`, `Reap`, `Launch` | Proton, the game, the kernel, other starters |

Time is not counted. The deadline may pass at any point at which the loop finds the
game still there, which covers every value of `STOP_TIMEOUT`. A pid is not reused while a
call remembers it.

### ServerControl

Actors are `Tasks` (firings of the monitor's cron jobs, which queue on its mutex) and
`Clis` (processes of the command line, whose mutex nobody else can hold). `pc` and
`cmd` say where an actor is; `StopStep` embeds the steps of `Shutdown`. `Enter(a,
"idle")` ends a command on any path, and drops the mutex guard as Rust does at the
end of its scope. steamcmd (`SteamcmdOk`, `SteamcmdErr`) leaves `files` complete,
partial or as they were; a start may fail (`StartErr`: no Proton, a file that is not
executable, the Wine runtime that is refused). `SlowLaunch = FALSE` states an assumption: a stop does not look for the
game in the moments between `spawn_server` and the game's own `exec`.

### ConfigStore

One action per system call that matters: `Read` (or `ReadUnreadable`), `Backup` (or
`BackupFails`), `Prune`, `Truncate` (or `OpenFails`), `Write` (or `WriteFails`).
`fs::write` is two steps, because the kernel truncates at `open` and fills later.
`Recreate` kills every load where it is. `Override` is the environment's effect on a
config: a variable that parses wins; one that does not parse leaves a server field as
it is, but resets a *game setting* to its default, since `from_env` has put the
default there and `merge_env` only asks whether the variable is set. Fields the
structs do not name (serde's flatten) behave as fields without a variable.
`edited`, `covered`, `settled`, `damaged` and `whole` (the file as it was when it was last in one piece)
are history: no action reads them.

### HealthProbe

`Tick`, `StorePort` and `StoreProcess` are one round of `run_health_poller`. `watched`
is what `HealthState::new` was given when the monitor started, while `runs` is what the game
was started with: `Captured` cuts the game port to 16 bits as the code does. A job
(`Fire`, `JobStops`, `JobUpdates`, `JobStarts`) and a round each keep a worker thread,
so `Tick`, `Fire` and `Answer` need a free one (`Busy < workers`; how many there are is chosen in the
initial state). `portAge` and `upAge` are history: rounds since the server last changed, capped at `MaxAge`.

### Container

`sh` is where `entrypoint.sh` is; its commands run as the actor `Entry` of `ServerControl`, and
its monitor's jobs as `Tasks`. `Run` starts a command when the last one has ended, with
whatever status, because the script does not `set -e`.

| Action | Code (`scripts/entrypoint.sh`) |
|---|---|
| `Boot`, `Installed` | install if `UPDATE_ON_START` says so or the executable is missing, then start (56-65) |
| `StartMonitor`, `SetTrap` | the monitor in the background, the trap, the wait (72-79) |
| `Sigterm` | docker stop; without effect before the trap is set, since bash is process 1 |
| `OnTerm`, `OnTermAgain`, `OnErr` | the trap's stop: for the signal, for a signal during a stop, for the wait that has failed |
| `KillMonitor` | the trap's kill, which ends the jobs where they are |
| `Exit` | the script ends and the kernel kills the rest |
| `MonitorCrash`, `Killed` | faults: the monitor dies; the grace period runs out, `docker kill`, a power cut |

bash runs a trap between two commands. A SIGTERM ends the `wait` with a status that is an error,
so the trap runs for SIGTERM and then for ERR. `Die(A)` ends processes at any point: the mutex
goes with its process, and a steamcmd that was at work may have left the files in any state.
`late` is history: what was still being launched when the script's last stop looked.

### EnvOverrides

A name is the sequence of the words between its underscores, so that a group's name and a field's
may both have several. A variable is recorded by the group and field that its author meant;
`split_group_var` sees only the name they make together. `Overridden` is one round of the loop in
`apply_env_overrides`: take the name apart, find the group without regard to case or append one
(`WithGroup`), set the field if the text parses (`parse_or_keep`). `Apply` does so for one variable
after another, in the order of `environ`. `found` is history: the groups the pass began with.

### Startup

`cmd` and `at` are the command that runs and its next step; one command runs after another, as the
script has them. `Over` ends a command short of a server: the script goes on to the next,
an install may or may not be among them, and after a failed start the container stays as it is.

| Action | Code |
|---|---|
| `Dirs` | initialize_runtime (`setup.rs:7`); it fails where a directory or a link cannot be made |
| `Install` | `main.rs:188-198`; a failed one loads no config |
| `Read`, `ReadUnreadable`, `Override`, `Save` | load_or_create_config as the groups see it |
| `Runtime`, `Spawn` | start_server_via_runtime and spawn_server (`main.rs:113-134`); each may fail, a lost race for a link included |
| `StartAgain` | a job or `restart` starts the server anew |
| `Down`, `Recreate`, `Edit` | the container ends at any step; it is created anew with other variables; the operator edits the file, at any time |

The volume keeps `installed` and `file`.
ConfigStore has the steps of a single load and what a kill does to its write; here a load's
save succeeds or fails as a whole. `unsaved`, `touched` and `clean` are history.

### SteamLinks

Any number of processes (the script's setup and start, a job's start, `docker exec`) run
`setup_steam_client_symlinks` on one home directory. `pc` and `arch` say which step of which pass a
process is at.

| Action | Code (`utils/setup.rs`) |
|---|---|
| `Begin`, `Install` | a command begins; steamcmd may put its libraries in place |
| `Bootstrap` | steamcmd is run for its libraries if linux64 has none (97-103) |
| `Look` | symlink_metadata: is the link there, dangling or not (115) |
| `Make`, `Lose` | symlink: the name is still free, or another process has taken it since (121) |
| `Service` | the alias beside the library; its error is dropped, whatever it is (125-127) |
| `Spawn` | both passes are done, and a start goes on to the server (287) |
| `Die` | the process is killed, or its command ends with another error |

`sure` (what was in place when a process had run `Bootstrap`), `lost` (races it has lost), `refused` (an alias
that the file system did not allow beside a library that is there) and `due` (an alias that a process has set out
to make, and that none was killed over) are history.

## 3. What the runs show

| Run | Bounds | Shows |
|---|---|---|
| `shutdown_concurrent` | 2 callers, 3 processes | `StopOkMeansGone`, `AskedWereInterrupted`, and `KeepsPromise`: `Shutdown` implements `StopPromise`, liveness included |
| `all_commands` | 1 job, 1 command line, every command, 2 tries, slow launches | every command ends (`EveryCommandEnds`), and `CommandsRunOut`: each of its steps lowers a count that nobody else can raise |
| `monitor_jobs` | 3 jobs, 2 tries, settled launches | `JobsExclusive`, `AtMostOneServer`, `NoUpdateUnderServer`, `KillsOnlyAsked`, `StartsUpdatedFiles`; the jobs implement `ManagedServer`; each gets its turn |
| `slow_launch` | 1 job | *violated*: a job that fires during a launch starts a second server |
| `config_one_at_a_time` | 1 load at a time, 2 fields, 2 values, 2 backups kept | `EnvironmentWins`, `BrokenIsLeftAlone`, `SettledIsQuiet`, `ChangedIsBackedUp`, with edits, kills and failures |
| `config_concurrent` | 2 loads at once | `EditsStick` and `ReadableAtRest`: loads never lose a field, nor cut the file short, for each other; `LoadsAreAtomic`: between two edits, whatever the loads do to each other's bytes is one step of `AtomicConfig` |
| `health` | 1 worker and 2 workers, 2 pairs of ports that may be edited | `StaleForOneRound`, `ComesBack` and `GoesDown` while a job works beside the poller, or keeps it waiting on the only thread; `ProbesEnd` |
| `health_updating` | 2 workers | *violated*: `/live` is down for whole rounds of an update that will start the server |
| `container` | 2 jobs, 2 processes, 2 SIGTERMs a life, 1 try, settled launches, no webhook | `EndsSaved`, `StopsByItself`, and `ScriptRunsOut`: the script never goes back; the container implements `ManagedServer` over any number of lives |
| `container_webhook` | 1 job, 1 SIGTERM, a webhook that may fail | *violated*: both stops of the trap panic, and the game is killed unsaved |
| `startup` | 2 fields, 4 environments of up to 3 variables, an operator's file, none or a broken one | `VariablesWin`, `NoTwinGroups`, `OperatorGroupsStay`, `LoadsSettle`, `ConfigIsCurrent` |
| `steam_links` | 2 processes | `ServiceAtSpawn`, `NoneIsForgotten`, `NoRaceIsLostTwice`, with libraries that appear and processes that die at any step |

**Why these bounds are enough.** Two callers of stop_server and three processes are the fewest
with which two calls share a process while a third appears. Three queued jobs are the
fewest where two wait for the mutex; a third server cannot appear in `monitor_jobs`
before the second has broken `AtMostOneServer`. Two tries of steamcmd have a first, a
last and a step between. One field of each kind (a server field, a game setting) is
one of each rule of `Override`, which treats fields separately; two values
tell the default from another. Two kept backups and a bound of three copies
(`MaxCopies`) let pruning both keep and drop; in `config_concurrent`, where no property
is about backups, both are one. `MaxAge` is two because the
claim is about two rounds; with one worker a job keeps the poller and the probes waiting, with two it works
beside them, and a third would have nothing to do but answer probes; a second pair differs in the query port, the one
that an edit can hide. Two processes are the fewest that can race for a link. In `container` one job can hold the mutex while another waits
when the monitor dies, and two SIGTERMs are the fewest where one comes during the stop for the
other (`MaxStops` counts them for one life). In `startup` a field of one word that takes any text
and one of three that takes a Boolean are one of each kind; the environments have two spellings of a group of
two words in both orders, a group that the file has and one that it has not, a text that does
not parse, and a name that ends in no field. The theorems of section 5 have none of these bounds.

**Findings** (in `PROJECT.json`, each with the line it disagrees with):

1. `slow_launch`: a server that Proton is still starting is "already stopped".
2. `health_updating`: `process_up` is false during an update, though `health.rs` says that a false is final.
3. `container_webhook`: with `WEBHOOK_URL` and `STOP_DELAY` set, a notification that cannot be sent panics
   `enshrouded stop` before it stops anything (`main.rs:358`), twice, and the container ends without a save.

Seen while modelling, and not given a run of their own: the kill loop takes the pids of its last scan,
so a game that Proton starts during the wait is killed without SIGINT (`shutdown.rs:63`, against the
comment at line 20); the lock of `restart`, `update` and `install` is private to their process, so
`enshrouded restart` beside a scheduled restart may start two servers (`main.rs:385`); a load that changes nothing
truncates and rewrites the file without a backup (`game_settings.rs:369`, against README.md:363); a SIGTERM
before the trap is set is ignored (`entrypoint.sh:76`); the trap runs its stop, delay and webhooks twice
(`entrypoint.sh:76`), and it is the second stop that saves a world which a job has started again during
the first; `compose.yaml:4` still says that the stop has no timeout of its own; the `Err` of a stop whose killed process
is still in the table a second later (`shutdown.rs:74`, against the comment "so a restart can always
proceed"); an edit of the file between a load's read and its write is overwritten
(`game_settings.rs:374`); a handler on a second worker may combine the flags of two rounds
(`health.rs:200`, against "every reader sees the last snapshot" at line 21: what `StaleForOneRound` says
holds for each flag alone); the poller watches the
old query port after an edit and a restart (`main.rs:273`); of two starts that make a link at once one fails
(`setup.rs:121`), and a server is spawned without its alias where the file system refuses it (`setup.rs:126`); a float
variable such as `inf` parses, is written as null, and leaves a file that no load can read (`game_settings.rs:144`); the launcher's command line
counts as the game (`health.rs:172`); with `HTTP_PORT=0` the image's HEALTHCHECK always
fails (`http.rs:133`). The hazards say which properties hold in spite of the ones listed there, and under which constant.

## 4. Fairness

* `Shutdown`: weak fairness of each call's steps. A thread inside `stop_processes` keeps
  running, and `Instant` passes the deadline. Nothing is assumed of the game: it may hang.
* `ServerControl`: weak fairness of each actor's work (steamcmd ends, threads run), weak
  fairness of `Settle` (Proton's launcher comes to its end, so that a stop that waits
  for it can look), strong fairness of `Acquire`: tokio's mutex is a FIFO queue, so a waiter is not overtaken for ever.
  No fairness for firing a job, typing a command, or the game's own exit.
* `HealthProbe`: weak fairness of a round or a job that has started; strong
  fairness of `Tick` and `Answer`, since a ready task is only disabled while all
  workers are taken and tokio polls its ready tasks in turn. None for jobs to fire,
  for requests, for timeouts, or for anything the server does.
* `Container`: weak fairness of the script's next step and of the command it runs (bash and its child keep
  running), and of `Settle`. None for signals, for jobs, for faults, or for the game: `StopsByItself` holds
  with a game that hangs and a job that never gets on, because nothing in the trap waits for either.
* `ConfigStore`, `Startup` and `SteamLinks` have no liveness property, and no fairness.

## 5. What is proved

TLAPS checks every proof, for all values of the constants that meet the named assumptions
(`ServersAssumption`: the process table is finite; `ControlAssumption`, `ConfigAssumption`, `HealthAssumption`,
`ContainerAssumption`, `OverridesAssumption`, `StartupAssumption`; `SteamLinks` needs none; TLC evaluates each of them too). Every
safety and action property of the passing runs is a theorem.

**Shutdown.** `OkMeansGone`, `FoundAreInterrupted`, and `StopImplementsPromise` for the safety part of
`StopPromise`. The inductive invariant is `StopInv`: types, and for each caller `CallInv`, which says what is
known of the processes it found in each phase. It needs that a remembered pid only moves
towards `gone` (`RememberedOnlyEnd`), whatever the other callers do. `StopLeft` counts what a call has left to do, and
`StopStepCounts` shows that each of its steps lowers it: signals are sent to a set of pids that only shrinks.

**ServerControl.** `ControlUsesShutdown` shows that the commands drive stop_server only as
`Shutdown` foresees, so that its theorems hold inside them (`StopPromiseKept`).
`JobsAreExclusive` and `TypeCorrect` need no assumption; their invariant is `CtlInv` (types,
which command fits which step, who holds the mutex). `StepsRunOut` (`CommandsRunOut`) needs none either: `CommandLeft`
starts at no more than `Attempts + 2 * Cardinality(Servers) + 8`, each step of a command lowers its own, and no step of
another, of the game or of the kernel raises it (`OneActorMoves`, `CountStep`). With it goes
`NobodyIsStuck`: a command that has begun can take its next step, or waits for a mutex whose holder can, or for a
launcher, so no two commands ever wait for each other. ENABLED is out of the prover's reach, so `CanStep` writes the
guards of the next steps out. Together they are the safety half of `EveryCommandEnds`.

The rest assume `MonitorAlone == Clis = {} /\ (SlowLaunch => LaunchMode # "proton")`; `slow_launch` shows that the second
half is needed, and `restart` beside a job the first. The inductive invariant is
`JobsInv`. Its heart is `JobInv`: the holder of the mutex that has looked for the
game has found everything there is, since only the holder starts servers.
From it follow `OneServer`, `UpdatesAreOffline`, `OnlyAskedAreKilled`, `UpdatedFilesStart`,
and `MonitorImplementsManaged`. Its step (`JobsInvStep`) asks less than `MonitorAlone`: that no job
meets a launcher (`NoJobMeetsLauncher`), and that the command line does nothing but stop the server
(`ClisOnlyStop`). That is what lets the container reuse it.

**Container.** `BoxTypeCorrect` by `BoxInv`, which adds `ScriptInv` to the invariants of the commands: where
the script is says what its command can be doing and whether there is a monitor, and a dead monitor's jobs
do nothing. `NoWorldIsLost` assumes `~StopNotice` (`container_webhook` shows why) and rests on `SaveInv`: when
the script has stopped for ERR there is no monitor, nothing starts a server any more, and what that stop found it
has interrupted. `BoxOneServer`, `BoxUpdatesAreOffline`, `BoxUpdatedFilesStart` and `BoxManagesOneServer` assume
`NoJobMeetsLauncher`: while there is a monitor the script only stops, so `JobsInvStep` applies; before
it the script is alone (`AloneStep`); deaths only take away.

With no such assumption, and over deaths at any step, the theorems of the parts hold in the container:
`BoxOkMeansGone`, `BoxFoundAreInterrupted`, `BoxJobsAreExclusive`, `BoxStepsRunOut`, `BoxNobodyIsStuck`. `KillsOnlyAsked`
is not among them, because it is not true there: a game that a job starts during the script's stop is killed without an interrupt.
`ScriptComesToAnEnd` (`ScriptRunsOut`) has a count for the script itself, which signals, jobs and deaths cannot raise,
and `ScriptNeverWaits` says that its own command can always go on at once, whatever the monitor and the game do.

**ConfigStore.** `TypeCorrect` assumes nothing; the others assume `EditsAtRest`, and
`QuietOnceSettled` and `PruningKeepsTheCopy` also `OneAtATime`. `Inv` holds for any number of concurrent
loads because of `Agreement`: all loads under way are about to save the same config,
the one that `Result` gives of the last whole file. That survives one load's write under
another because laying the environment over a config twice is the same as once
(`OverrideIdempotent`); so the bytes that overlap are the same bytes.
`LoadsTakeOneStep` draws the conclusion: `ConfigStore` implements `AtomicConfig`, in which a load is one step. An empty file
stands for `whole`, what it is about to say, as long as a load is there to write it; so a load takes effect when it truncates,
the writes that follow are stutters, and a kill or a full disk that leaves the file cut short is a step of its own. An edit between a load's read and its write is what `EditsAtRest` excludes: it
is lost (`game_settings.rs:374`).

**HealthProbe.** `TypeCorrect`, and `ProbesLagOneRound` (`StaleForOneRound`) for any number of workers and requests, any
ports and any edits of them. `PortIsKnown` says what a round has found out since the game last bound or released its
ports: whether a *watched* port is bound, which cannot change in the meantime, since the game binds all it binds at once
(`BoundStep`). `WatchedIsHeld` says what that tells of the game: a bound watched port is the game's, and the game holds
one if it runs on the query port that is watched, because it holds its query port whenever it holds any (`BoundInv`). So
an edit of the game port does no harm, and one of the query port may hide a game but never invent one.

**EnvOverrides, Startup.** `PassInv` is what a pass has achieved after each variable: the operator's groups are
in their places, each later group has a name of its own, and each field is what the last variable for it
says, or what it was. `OverriddenEffect` says what one variable does, `SplitIsInverse` that a name is taken apart as it
was put together, for any fields none of which ends in another (`OverridesAssumption`; it holds for
`GROUP_FIELDS`). `Laid` is what a whole pass leaves, and `SecondPass` that another one over it changes nothing;
`OrderMattersOnlyToContradictions` that this is so for a process with the variables in another order too, as long as no two
spellings of one variable differ in what they say.
`StartupInv` adds where a command can be and that a start past its load has the environment in the file, unless the
operator has edited it since (`FileIsCurrent`). All six properties of the run are theorems of `Startup_proofs`.

**SteamLinks.** `LinksTypeCorrect`, `ServerHasItsService`, `EveryAliasIsMade` and `RacesAreLostOnce`, for any number of processes. Their
invariant is `LinksInv`. `PassesDone` says that a process has seen to the alias of every pass behind it, for the libraries
that were in place; `LostAreThere` rests on links that are never taken away (`NothingIsRemoved`). The heart is
`DueAreCarried`: an alias that is due and not there has a process at work that will come to it (`Carries`). When another
process makes the link first, the loser no longer counts, and the winner takes over what it carried (`CarriedOn`): it is
in the same pass, so all that lay ahead of the loser lies ahead of it.

**Only model-checked**: everything under fairness (`EveryJobEnds`, `EveryCommandEnds`, `ComesBack`,
`GoesDown`, `ProbesEnd`, `StopsByItself`, the liveness half of `KeepsPromise`), because liveness and ENABLED are out
of the prover's reach. For commands and the script the counts above leave only "a step that can be taken is taken"
to the fairness of section 4. Facts that would need induction over data cannot be
proved either; no module here declares a RECURSIVE operator.

## 6. What is not modelled

* Time: `STOP_TIMEOUT`, `STOP_DELAY`, poll intervals and cron schedules are orders of events.
* Pid reuse within one scan-and-signal loop; a signal refused for lack of permission.
* `update_available`, steamcmd, Proton, the game, tokio and the kernel beyond how `cli/src` uses them.
* The JSON text, key order, backup names (their whole seconds are: a second copy may replace the first).
* The log monitor: in `cli/src` it is a wait for a file without an end, three rules and two regular
  expressions, none of which keeps state or depends on another step. The tailing, the matching and the
  thread are gsm-monitor's, which is not in the repository.
* In `Container`, that a grace period has a length: `Killed` may come at any step. The display server.
* In `Startup`, two commands at once (`ConfigStore` has the loads of several processes, `SteamLinks` their links),
  and the monitor's own load at its start (`main.rs:273`), which is one more load of `ConfigStore`.
* Assumptions on the operator: in `ConfigStore` what is proved beyond types needs `EditsAtRest`. In `Startup` the file may be
  edited at any time; `ConfigIsCurrent` then says nothing of a start that is past its load (`touched`), since the operator's
  edit stands, and an edit between a load's read and its save is lost, as in the code.
* The walk of `find_pids` and of `process_matching` through `/proc`, entry by entry: `Scan`, `Expire`, `Recheck` and
  `StoreProcess` take one look. A process that starts or ends during the walk may be missed or reported in the code at a moment that
  differs from the model's by the length of a walk; what is said of "the table at the moment of the answer"
  (`StopPromise`) is exact up to that.
* The poller's own bind: `port_bound` (`health.rs:120`) holds a free port for an instant, in which the game's bind could fail.
* Texts of numbers: a value reads back as it was written, which is not so of non-finite floats (`game_settings.rs:144`).
* Where Proton is found and which variables are set for it: they decide only whether a start fails.
* Two processes that get the environment in another order: `OrderMattersOnlyToContradictions` says when that matters.
* Build files, image layers, documentation pages: no behaviour at run time.

## 7. Plan

In order of what matters most; all of it is done.

1. `Shutdown`, `ServerControl` with `StopPromise`, `ManagedServer`.
2. `ConfigStore`.
3. `HealthProbe`.
4. `Container`, composed with `ServerControl`.
5. `EnvOverrides`. The result does depend on the order of contradicting variables; what was to be shown
   of it became `VariablesWin` and `LoadsSettle`.
6. `Startup`, composed with `EnvOverrides`.
7. `SteamLinks`, for the links that several processes make at once.

A log monitor of its own was planned and dropped, for the reason given in section 6. What could be added:
`ConfigStore`'s loads and the steps of `SteamLinks` as the steps of `Container`'s commands.
