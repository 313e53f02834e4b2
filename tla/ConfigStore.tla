----------------------------- MODULE ConfigStore -----------------------------
(***************************************************************************)
(* load_or_create_config (cli/src/game_settings.rs): read                  *)
(* enshrouded_server.json, lay the environment over it, keep a backup of   *)
(* what changes, and write the file back.  setup, install, start, restart, *)
(* monitor and the monitor's jobs all call it on the same file, in         *)
(* processes that may be killed at any point, while an operator edits it.  *)
(*                                                                         *)
(* fs::write is two steps here as it is in the kernel: the file is         *)
(* truncated when it is opened, and filled afterwards.                     *)
(***************************************************************************)
EXTENDS Naturals, Sequences

CONSTANTS
  Loaders,      \* calls of load_or_create_config
  ServerKeys,   \* top-level fields (apply_field_env_overrides)
  GameKeys,     \* fields of gameSettings (merge_env)
  Values,
  Defaults,     \* what serde's defaults give
  Absent,       \* no file
  Broken,       \* a file the operator left unparseable
  Empty,        \* a file that was truncated and not filled
  Unset, Invalid,  \* an environment variable that is not there, or not parsed
  MaxBackups,   \* how many backups pruning keeps
  MaxCopies,    \* bound: how many copies kills may leave before the next pruning
  OneAtATime,   \* no load starts while another is under way
  EditsAtRest   \* the operator edits only while no load is under way

Keys == ServerKeys \cup GameKeys
Configs == [Keys -> Values]
Envs == [Keys -> Values \cup {Unset, Invalid}]
Contents == Configs \cup {Absent, Broken, Empty}

ASSUME ConfigAssumption ==
  /\ ServerKeys \cap GameKeys = {}
  /\ Defaults \in Configs
  /\ {Absent, Broken, Empty} \cap Configs = {}
  /\ Absent # Broken /\ Absent # Empty /\ Broken # Empty
  /\ Unset # Invalid /\ {Unset, Invalid} \cap Values = {}
  /\ MaxBackups \in Nat \ {0} /\ MaxCopies \in Nat
  /\ OneAtATime \in BOOLEAN /\ EditsAtRest \in BOOLEAN

VARIABLES
  file,     \* enshrouded_server.json
  backups,  \* the backups beside it, oldest first
  env,      \* the environment the container was created with
  pc, mem,  \* where each load is, and the config that it saves and returns
  edited,   \* history: what the operator last left in the file
  covered,  \* history: fields that finished loads have had a variable for since
  settled,  \* history: a load has finished since the last edit or recreation
  damaged,  \* history: a write was cut short and has not been made good
  whole     \* history: what the file said, or was to say, before it was cut short

history == <<edited, covered, settled, damaged, whole>>
vars == <<file, backups, env, pc, mem, history>>

StoreTypeOK ==
  /\ file \in Contents
  /\ backups \in Seq(Contents)
  /\ env \in Envs
  /\ pc \in [Loaders -> {"idle", "backup", "prune", "truncate", "write"}]
  /\ mem \in [Loaders -> Configs]
  /\ edited \in Contents \ {Empty}
  /\ covered \subseteq Keys
  /\ settled \in BOOLEAN
  /\ damaged \in BOOLEAN
  /\ whole \in Contents \ {Empty}

Init ==
  /\ file \in Configs \cup {Absent}
  /\ backups = <<>>
  /\ env \in Envs
  /\ pc = [l \in Loaders |-> "idle"]
  /\ mem = [l \in Loaders |-> Defaults]
  /\ edited = file
  /\ covered = {}
  /\ settled = FALSE
  /\ damaged = FALSE
  /\ whole = file

AtRest == \A l \in Loaders : pc[l] = "idle"

-----------------------------------------------------------------------------
(***************************************************************************)
(* The environment laid over a config.  A variable that does not parse     *)
(* leaves a server field as it is, but resets a game setting: from_env has *)
(* put the default where the value would be.                               *)
(***************************************************************************)
OverrideUnparsed(e, c) ==  \* variant: the value is taken without parsing it
  [k \in Keys |-> IF e[k] # Unset THEN e[k] ELSE c[k]]

OverrideAll(e, c) ==       \* variant: merge_env without looking for the variable
  [k \in Keys |->
     IF e[k] \in Values THEN e[k] ELSE IF k \in GameKeys THEN Defaults[k] ELSE c[k]]

OverrideDefaults(e, c) ==  \* variant: a value that is not the default stays
  [k \in Keys |-> IF e[k] \in Values /\ c[k] = Defaults[k] THEN e[k] ELSE c[k]]

Override(e, c) ==
  [k \in Keys |->
     IF e[k] \in Values THEN e[k]
     ELSE IF e[k] = Invalid /\ k \in GameKeys THEN Defaults[k]
     ELSE c[k]]

\* The fields that a load may change.
Covers(e) == {k \in Keys : e[k] \in Values \/ (e[k] = Invalid /\ k \in GameKeys)}

\* What a load that finds this content makes of it.
Result(e, content) == Override(e, IF content = Absent THEN Defaults ELSE content)

Goto(l, p) == pc' = [pc EXCEPT ![l] = p]

\* load_config, apply_env_overrides and the comparison.
ReadVariant(l) ==          \* variant: an unparseable file counts as missing
  /\ pc[l] = "idle"
  /\ OneAtATime => AtRest
  /\ LET found == IF file \in Configs THEN file ELSE Absent IN
       /\ mem' = [mem EXCEPT ![l] = Result(env, found)]
       /\ Goto(l, IF found = Absent \/ mem'[l] = found THEN "truncate" ELSE "backup")
  /\ UNCHANGED <<file, backups, env, history>>

ReadComparing(l) ==        \* variant: "changed" means other than the defaults
  /\ pc[l] = "idle"
  /\ OneAtATime => AtRest
  /\ file \in Configs \cup {Absent}
  /\ mem' = [mem EXCEPT ![l] = Result(env, file)]
  /\ Goto(l, IF file = Absent \/ mem'[l] = Defaults THEN "truncate" ELSE "backup")
  /\ UNCHANGED <<file, backups, env, history>>

Read(l) ==
  /\ pc[l] = "idle"
  /\ OneAtATime => AtRest
  /\ file \in Configs \cup {Absent}
  /\ mem' = [mem EXCEPT ![l] = Result(env, file)]
  /\ Goto(l, IF file = Absent \/ mem'[l] = file THEN "truncate" ELSE "backup")
  /\ UNCHANGED <<file, backups, env, history>>

\* A file that cannot be parsed: the defaults serve this call, nothing is saved.
ReadUnreadable(l) ==
  /\ pc[l] = "idle"
  /\ OneAtATime => AtRest
  /\ file \in {Broken, Empty}
  /\ mem' = [mem EXCEPT ![l] = Result(env, Absent)]
  /\ UNCHANGED <<file, backups, env, pc, history>>

\* backup_config copies the file as it is by now.  Its name has the second in
\* it, so a second copy within one second replaces the first.
BackupLater(l) ==          \* variant: the copy is made of the new config
  /\ pc[l] = "backup"
  /\ Len(backups) < MaxCopies /\ backups' = Append(backups, mem[l])
  /\ Goto(l, "prune")
  /\ UNCHANGED <<file, env, mem, history>>

Backup(l) ==
  /\ pc[l] = "backup"
  /\ \/ Len(backups) < MaxCopies /\ backups' = Append(backups, file)
     \/ backups # <<>> /\ backups' = [backups EXCEPT ![Len(backups)] = file]
  /\ Goto(l, "prune")
  /\ UNCHANGED <<file, env, mem, history>>

\* A copy that fails is logged; the load goes on.
BackupFails(l) ==
  /\ pc[l] = "backup"
  /\ Goto(l, "truncate")
  /\ UNCHANGED <<file, backups, env, mem, history>>

Prune(l) ==
  /\ pc[l] = "prune"
  /\ backups' = IF Len(backups) <= MaxBackups THEN backups
                ELSE SubSeq(backups, Len(backups) - MaxBackups + 1, Len(backups))
  /\ Goto(l, "truncate")
  /\ UNCHANGED <<file, env, mem, history>>

TruncateEarly(l) ==        \* variant: the file is opened before the JSON is made
  /\ pc[l] = "truncate"
  /\ file' = Empty
  /\ \E p \in {"write", "idle"} : Goto(l, p)
  /\ whole' = mem[l]
  /\ UNCHANGED <<backups, env, mem, edited, covered, settled, damaged>>

Truncate(l) ==
  /\ pc[l] = "truncate"
  /\ file' = Empty
  /\ Goto(l, "write")
  /\ whole' = mem[l]
  /\ UNCHANGED <<backups, env, mem, edited, covered, settled, damaged>>

\* save_config only logs that it could not open the file.
OpenFails(l) ==
  /\ pc[l] = "truncate"
  /\ Goto(l, "idle")
  /\ UNCHANGED <<file, backups, env, mem, history>>

\* The bytes go over what is there by now: nothing, the same bytes, or others
\* of which a tail may remain.  A file that was replaced meanwhile stays.
Write(l) ==
  /\ pc[l] = "write"
  /\ file' \in IF file \in {Empty, mem[l]} THEN {mem[l]} ELSE {mem[l], Broken, file}
  /\ Goto(l, "idle")
  /\ covered' = covered \cup Covers(env)
  /\ settled' = TRUE
  /\ damaged' = FALSE
  /\ UNCHANGED <<backups, env, mem, edited, whole>>

\* The disk is full: what was truncated stays empty.
WriteFails(l) ==
  /\ pc[l] = "write"
  /\ Goto(l, "idle")
  /\ damaged' = (damaged \/ file = Empty)
  /\ UNCHANGED <<file, backups, env, mem, edited, covered, settled, whole>>

Step(l) ==
  \/ Read(l)
  \/ ReadUnreadable(l)
  \/ Backup(l)
  \/ BackupFails(l)
  \/ Prune(l)
  \/ Truncate(l)
  \/ OpenFails(l)
  \/ Write(l)
  \/ WriteFails(l)

-----------------------------------------------------------------------------
(***************************************************************************)
(* The operator and the container.                                         *)
(***************************************************************************)
Edit(c) ==
  /\ EditsAtRest => AtRest
  /\ file' = c
  /\ edited' = c
  /\ covered' = {}
  /\ settled' = FALSE
  /\ damaged' = FALSE
  /\ whole' = c
  /\ UNCHANGED <<backups, env, pc, mem>>

\* The container is killed, whatever is under way, and created again, maybe
\* with other variables.
Recreate(e) ==
  /\ pc' = [l \in Loaders |-> "idle"]
  /\ env' = e
  /\ settled' = (settled /\ e = env)
  /\ damaged' = (damaged \/ \E l \in Loaders : pc[l] = "write")
  /\ UNCHANGED <<file, backups, mem, edited, covered, whole>>

Next ==
  \/ \E l \in Loaders : Step(l)
  \/ \E c \in Configs \cup {Absent, Broken} : Edit(c)
  \/ \E e \in Envs : Recreate(e)

Spec == Init /\ [][Next]_vars

-----------------------------------------------------------------------------
(***************************************************************************)
(* Properties.                                                             *)
(***************************************************************************)

\* A config with the operator's value in every field that no variable covered in
\* a load since, and with the default there if the operator left no file.
Kept(c) ==
  /\ edited # Broken /\ c \in Configs
  /\ \A k \in Keys \ covered : c[k] = IF edited = Absent THEN Defaults[k] ELSE edited[k]

\* "your changes stick" (README.md:347): loads leave the operator's file, or one
\* that keeps every field no variable covers, or one that was cut short.
EditsStick == file \in {Empty, edited} \/ Kept(file)

\* "An environment variable always wins": once a load has finished, every
\* variable that parses is in the file, unless that is cut short.
EnvironmentWins ==
  settled /\ file \in Configs => \A k \in Keys : env[k] \in Values => file[k] = env[k]

\* "leaves the file exactly as it is", whatever runs after: no load replaces or
\* truncates a file that the operator broke.
BrokenIsLeftAlone == edited = Broken => file = Broken

\* A file is found cut short only after a load was killed, or the disk full,
\* in the middle of its write: loads never break it for each other.
ReadableAtRest == AtRest /\ file = Empty => damaged

\* Once a load has finished, further loads find nothing to change, so they make
\* no backups that would push the useful ones out.
SettledIsQuiet ==
  settled => \A l \in Loaders : pc[l] \notin {"backup", "prune"}

\* A rewrite that changes the settings and whose copy succeeded leaves what the
\* operator wrote among the backups, however many there are by then.
ChangedIsBackedUp ==
  [][\A l \in Loaders : pc[l] = "prune" /\ pc'[l] = "truncate"
       => \E i \in DOMAIN backups' : Kept(backups'[i])]_vars

\* Loads of several processes that read, truncate and fill the file in any order,
\* with no lock (load_or_create_config), have the effect of loads of one step each:
\* none works on what is older than the file, or on another's half-written one, and
\* a file that was cut short is made whole only by a load that had read it before.
Atomic == INSTANCE AtomicConfig WITH
  Overlay <- Result,
  stored <- IF file = Empty THEN whole ELSE file,
  cut <- file = Empty /\ \A l \in Loaders : pc[l] # "write",
  loading <- ~AtRest

LoadsAreAtomic == Atomic!Spec

=============================================================================
