------------------------------ MODULE Startup ------------------------------
(***************************************************************************)
(* What lies between a container's creation and its server: `setup`,       *)
(* perhaps `install`, and `start`, one after the other (entrypoint.sh),    *)
(* each of which may fail without stopping the next, on a volume that      *)
(* outlives the container.  All three lay the environment over the config  *)
(* (EnvOverrides), while the operator may edit it.  ConfigStore has the    *)
(* steps of one load and what kills do to its write; SteamLinks has the    *)
(* links that setup and start make; Container the processes and signals.   *)
(***************************************************************************)
EXTENDS EnvOverrides

CONSTANTS
  DefaultGroups,  \* user_groups of ServerConfig::default()
  OperatorFiles,  \* the groups that an operator may leave in the file
  Environs,       \* the environments that a container may be created with
  Absent, Broken  \* no file, a file that cannot be parsed

ASSUME StartupAssumption ==
  /\ DefaultGroups \in Seq(Groups)
  /\ OperatorFiles \subseteq Seq(Groups)
  /\ Environs \subseteq Seq(Variables)
  /\ Absent # Broken /\ {Absent, Broken} \cap Seq(Groups) = {}

VARIABLES
  installed,  \* enshrouded_server.exe is on the volume
  file,       \* the groups in enshrouded_server.json, on the volume
  cmd, at,    \* the command that runs, and how far it is
  unsaved,    \* history: the last load could not be saved
  touched,    \* history: the operator has edited the file since a load ended
  clean       \* history: the file is as a save under this environment left it

bootVars == <<installed, file, cmd, at, unsaved, touched, clean>>
startVars == <<envVars, bootVars>>

Steps == {"dirs", "read", "apply", "steamcmd", "runtime", "spawn"}

StartupTypeOK ==
  /\ EnvTypeOK
  /\ installed \in BOOLEAN
  /\ file \in Seq(Groups) \cup {Absent, Broken}
  /\ cmd \in {"down", "setup", "install", "start", "up", "failed"}
  /\ at \in Steps
  /\ unsaved \in BOOLEAN
  /\ touched \in BOOLEAN
  /\ clean \in BOOLEAN

StartupInit ==
  /\ environ \in Environs
  /\ installed \in BOOLEAN
  /\ file \in OperatorFiles \cup {Absent, Broken}
  /\ groups = <<>> /\ found = <<>> /\ seen = 0
  /\ cmd = "down" /\ at = "dirs"
  /\ unsaved = FALSE
  /\ touched = FALSE
  /\ clean = FALSE

-----------------------------------------------------------------------------
(***************************************************************************)
(* The script: a command's exit status changes nothing (`set -e` is off).  *)
(***************************************************************************)
Goto(p) == at' = p /\ UNCHANGED cmd

Begin(c) ==
  /\ cmd' = c
  /\ at' = CASE c = "setup" -> "dirs"
             [] c = "install" -> "steamcmd"
             [] OTHER -> "read"

StartUnconfigured ==       \* variant: start counts on setup's config
  IF cmd = "start" THEN cmd' = "failed" /\ at' = "dirs"
  ELSE \/ cmd = "setup" /\ Begin("install")
       \/ (cmd = "setup" => installed) /\ cmd' = "start" /\ at' = "runtime"

\* The command has ended, short of a server.
Over ==
  IF cmd = "start" THEN cmd' = "failed" /\ at' = "dirs"
  ELSE \/ cmd = "setup" /\ Begin("install")
       \/ (cmd = "setup" => installed) /\ Begin("start")

-----------------------------------------------------------------------------
(***************************************************************************)
(* initialize_runtime, install, and the start of the server.               *)
(***************************************************************************)

\* The game's directory, its logs and the links are there, or setup fails.
Dirs ==
  /\ cmd = "setup" /\ at = "dirs"
  /\ Goto("read") \/ Over
  /\ UNCHANGED <<envVars, installed, file, unsaved, touched, clean>>

\* An install that fails may leave an executable, and loads no config.
Install ==
  /\ at = "steamcmd"
  /\ \/ installed' = TRUE /\ (Goto("read") \/ Over)
     \/ UNCHANGED installed /\ Over
  /\ UNCHANGED <<envVars, file, unsaved, touched, clean>>

\* steam_appid.txt, the launch mode, Proton's directories and executable, the
\* links: each may fail.
Runtime ==
  /\ at = "runtime"
  /\ Goto("spawn") \/ Over
  /\ UNCHANGED <<envVars, installed, file, unsaved, touched, clean>>

Spawn ==
  /\ at = "spawn"
  /\ (cmd' = "up" /\ at' = "dirs") \/ Over
  /\ UNCHANGED <<envVars, installed, file, unsaved, touched, clean>>

-----------------------------------------------------------------------------
(***************************************************************************)
(* setup_configuration: load_or_create_config, as the groups see it.       *)
(***************************************************************************)
Loaded == IF cmd = "start" THEN Goto("runtime") ELSE Over

Read ==
  /\ at = "read"
  /\ file # Broken
  /\ BeginPass(IF file = Absent THEN DefaultGroups ELSE file)
  /\ Goto("apply")
  /\ UNCHANGED <<installed, file, unsaved, touched, clean>>

\* What cannot be parsed is not saved either.
ReadUnreadable ==
  /\ at = "read"
  /\ file = Broken
  /\ Loaded
  /\ touched' = FALSE
  /\ UNCHANGED <<envVars, installed, file, unsaved, clean>>

Override ==
  /\ at = "apply"
  /\ Apply
  /\ UNCHANGED bootVars

\* Whatever the operator has written since the read is overwritten.
Save ==
  /\ at = "apply"
  /\ PassDone
  /\ \/ file' = groups /\ unsaved' = FALSE /\ clean' = TRUE
     \/ UNCHANGED <<file, clean>> /\ unsaved' = TRUE
  /\ touched' = FALSE
  /\ Loaded
  /\ EndPass
  /\ UNCHANGED installed

-----------------------------------------------------------------------------
(***************************************************************************)
(* The container's life.                                                   *)
(***************************************************************************)
Boot ==
  /\ cmd = "down"
  /\ Begin("setup")
  /\ UNCHANGED <<envVars, installed, file, unsaved, touched, clean>>

\* restart, or a job that has stopped the server, starts it again.
StartAgain ==
  /\ cmd \in {"up", "failed"}
  /\ Begin("start")
  /\ UNCHANGED <<envVars, installed, file, unsaved, touched, clean>>

\* The container stops or is killed, at any point.
Down ==
  /\ cmd # "down"
  /\ cmd' = "down" /\ at' = "dirs"
  /\ EndPass
  /\ UNCHANGED <<installed, file, unsaved, touched, clean>>

\* It is removed and created again, maybe with another environment.
Recreate ==
  /\ cmd = "down"
  /\ environ' \in Environs
  /\ UNCHANGED <<groups, found, seen>>
  /\ clean' = (clean /\ environ' = environ)
  /\ UNCHANGED <<installed, file, cmd, at, unsaved, touched>>

\* "Edit the file in your mounted volume and restart the container"; nothing
\* keeps the operator from doing so while a command is at work.
Edit ==
  /\ file' \in OperatorFiles \cup {Absent, Broken}
  /\ touched' = TRUE
  /\ clean' = FALSE
  /\ UNCHANGED <<envVars, installed, cmd, at, unsaved>>

StartupNext ==
  \/ Boot
  \/ Dirs
  \/ Install
  \/ Read
  \/ ReadUnreadable
  \/ Override
  \/ Save
  \/ Runtime
  \/ Spawn
  \/ StartAgain
  \/ Down
  \/ Recreate
  \/ Edit

StartupSpec == StartupInit /\ [][StartupNext]_startVars

-----------------------------------------------------------------------------
(***************************************************************************)
(* Properties.                                                             *)
(***************************************************************************)

\* A server is started on a config that the environment has been laid over,
\* whatever of setup and install failed before, unless the operator's file is
\* broken, the start's own save has failed, or the operator has edited the file
\* while the start was past its load.
ConfigIsCurrent ==
  [][cmd # "up" /\ cmd' = "up" /\ file # Broken /\ ~unsaved /\ ~touched
       => file # Absent /\ \A i \in 1..Len(environ) : Wins(file, Len(environ), i)]_startVars

\* Every start loads the config two or three times: under the same environment,
\* in whatever order it lists its variables, and with no edit, the later loads
\* find the groups as they leave them, so that they back nothing up.
LoadsSettle == clean /\ at = "apply" /\ PassDone => groups = found

=============================================================================
