-------------------------- MODULE ConfigStore_proofs --------------------------
(***************************************************************************)
(* What load_or_create_config leaves of the operator's file, for any       *)
(* number of concurrent loads, fields and values, whatever is killed, when *)
(* the operator edits the file only while nothing loads it.                *)
(*                                                                         *)
(* The argument: every load under way has read the same file, so all of    *)
(* them are about to save the same config, and laying the environment over *)
(* that config again changes nothing.                                      *)
(***************************************************************************)
EXTENDS ConfigStore, TLAPS

Steps == {"idle", "backup", "prune", "truncate", "write"}

-----------------------------------------------------------------------------
(***************************************************************************)
(* The environment over a config.                                          *)
(***************************************************************************)

\* Laying the environment over a config gives a config.
LEMMA OverrideType ==
  ASSUME NEW e \in Envs, NEW c \in Configs
  PROVE  Override(e, c) \in Configs
BY ConfigAssumption DEF Override, Configs, Envs, Keys

\* apply_env_overrides is idempotent: the second load finds nothing to change.
LEMMA OverrideIdempotent ==
  ASSUME NEW e \in Envs, NEW c \in Configs
  PROVE  Override(e, Override(e, c)) = Override(e, c)
BY ConfigAssumption DEF Override, Configs, Envs, Keys

\* Fields that no variable covers stay, and variables that parse are taken.
LEMMA OverrideFields ==
  ASSUME NEW e \in Envs, NEW c \in Configs, NEW k \in Keys
  PROVE  /\ k \notin Covers(e) => Override(e, c)[k] = c[k]
         /\ e[k] \in Values => Override(e, c)[k] = e[k]
BY ConfigAssumption DEF Override, Covers, Configs, Envs, Keys

\* A load of no file, or of a config, ends up with a config.
LEMMA ResultType ==
  ASSUME NEW e \in Envs, NEW c \in Configs \cup {Absent}
  PROVE  Result(e, c) \in Configs
BY ConfigAssumption, OverrideType DEF Result

-----------------------------------------------------------------------------
(***************************************************************************)
(* The inductive invariant.                                                *)
(***************************************************************************)
Base == IF edited = Absent THEN Defaults ELSE edited

\* What a load that is under way is about to save.
Pending(l) ==
  /\ edited # Broken
  /\ Override(env, mem[l]) = mem[l]
  /\ file \in Configs \cup {Absent} => mem[l] = Result(env, file)
  /\ \A k \in Keys \ (covered \cup Covers(env)) : mem[l][k] = Base[k]
  /\ pc[l] = "write" => file \in {Empty, mem[l]}

Agreement ==
  \A l \in Loaders : pc[l] # "idle" =>
    /\ Pending(l)
    /\ \A m \in Loaders : pc[m] # "idle" => mem[m] = mem[l]

EmptyIsExplained == file = Empty => damaged \/ \E l \in Loaders : pc[l] = "write"

\* A load that has finished leaves a file the environment does not change.
SettledIsFixed == settled /\ file \in Configs => Override(env, file) = file

Inv ==
  /\ StoreTypeOK
  /\ EditsStick
  /\ BrokenIsLeftAlone
  /\ Agreement
  /\ EmptyIsExplained
  /\ SettledIsFixed

\* The invariant holds before any load has begun.
LEMMA InitInv == Init => Inv
<1> SUFFICES ASSUME Init PROVE Inv
  OBVIOUS
<1>1. StoreTypeOK
  <2>1. file \in Contents /\ edited \in Contents \ {Empty}
    BY ConfigAssumption DEF Init, Contents
  <2>2. backups \in Seq(Contents) /\ env \in Envs /\ covered \subseteq Keys
    BY DEF Init
  <2>3. /\ pc \in [Loaders -> {"idle", "backup", "prune", "truncate", "write"}]
        /\ mem \in [Loaders -> Configs]
    BY ConfigAssumption DEF Init
  <2>4. whole \in Contents \ {Empty}
    BY ConfigAssumption DEF Init, Contents
  <2> QED
    BY <2>1, <2>2, <2>3, <2>4 DEF Init, StoreTypeOK
<1>2. EditsStick /\ BrokenIsLeftAlone
  BY ConfigAssumption DEF Init, EditsStick, BrokenIsLeftAlone
<1>3. Agreement /\ EmptyIsExplained /\ SettledIsFixed
  BY ConfigAssumption DEF Init, Agreement, EmptyIsExplained, SettledIsFixed
<1> QED
  BY <1>1, <1>2, <1>3 DEF Inv

-----------------------------------------------------------------------------
(***************************************************************************)
(* Every step keeps it.                                                    *)
(***************************************************************************)

\* Every step of a load, an edit and a recreation keep the types.
LEMMA TypeStep == StoreTypeOK /\ [Next]_vars => StoreTypeOK'
<1> SUFFICES ASSUME StoreTypeOK, [Next]_vars PROVE StoreTypeOK'
  OBVIOUS
<1> USE DEF StoreTypeOK, history
<1>1. ASSUME NEW l \in Loaders, Read(l) PROVE StoreTypeOK'
  <2>1. Result(env, file) \in Configs
    BY <1>1, ResultType DEF Read
  <2> QED
    BY <1>1, <2>1 DEF Read, Goto
<1>2. ASSUME NEW l \in Loaders, ReadUnreadable(l) PROVE StoreTypeOK'
  <2>1. Result(env, Absent) \in Configs
    BY ResultType
  <2> QED
    BY <1>2, <2>1 DEF ReadUnreadable
<1>3. ASSUME NEW l \in Loaders, Backup(l) PROVE StoreTypeOK'
  <2>1. backups' \in Seq(Contents)
    BY <1>3 DEF Backup
  <2> QED
    BY <1>3, <2>1 DEF Backup, Goto
<1>4. ASSUME NEW l \in Loaders, BackupFails(l) \/ OpenFails(l) PROVE StoreTypeOK'
  BY <1>4 DEF BackupFails, OpenFails, Goto
<1>5. ASSUME NEW l \in Loaders, Prune(l) PROVE StoreTypeOK'
  <2>1. backups' \in Seq(Contents)
    BY <1>5, ConfigAssumption DEF Prune
  <2> QED
    BY <1>5, <2>1 DEF Prune, Goto
<1>6. ASSUME NEW l \in Loaders, Truncate(l) PROVE StoreTypeOK'
  BY <1>6, ConfigAssumption DEF Truncate, Goto, Contents
<1>7. ASSUME NEW l \in Loaders, Write(l) PROVE StoreTypeOK'
  BY <1>7 DEF Write, Goto, Contents, Covers
<1>8. ASSUME NEW l \in Loaders, WriteFails(l) PROVE StoreTypeOK'
  BY <1>8 DEF WriteFails, Goto
<1>9. ASSUME NEW c \in Configs \cup {Absent, Broken}, Edit(c) PROVE StoreTypeOK'
  BY <1>9, ConfigAssumption DEF Edit, Contents
<1>10. ASSUME NEW e \in Envs, Recreate(e) PROVE StoreTypeOK'
  BY <1>10 DEF Recreate
<1>11. CASE UNCHANGED vars
  BY <1>11 DEF vars
<1> QED
  BY <1>1, <1>2, <1>3, <1>4, <1>5, <1>6, <1>7, <1>8, <1>9, <1>10, <1>11
  DEF Next, Step

\* The invariant of the file holds after a step that changes neither the file
\* nor what is remembered of it, and takes no load into its write.
LEMMA QuietStep ==
  ASSUME Inv, StoreTypeOK', UNCHANGED <<file, env, edited, covered, settled, damaged>>,
         \A l \in Loaders :
           /\ pc'[l] # "idle" => pc[l] # "idle" /\ mem'[l] = mem[l]
           /\ (pc'[l] = "write") <=> (pc[l] = "write")
  PROVE  Inv'
<1>1. EditsStick' /\ BrokenIsLeftAlone' /\ SettledIsFixed'
  BY DEF Inv, EditsStick, Kept, BrokenIsLeftAlone, SettledIsFixed
<1>2. Agreement'
  BY DEF Inv, Agreement, Pending, Base
<1>3. EmptyIsExplained'
  BY DEF Inv, EmptyIsExplained
<1> QED
  BY <1>1, <1>2, <1>3 DEF Inv

\* A load that reads the file joins the others in what they are about to save.
LEMMA ReadStep ==
  ASSUME Inv, StoreTypeOK', NEW l \in Loaders, Read(l)
  PROVE  Inv'
<1> DEFINE read == IF file = Absent THEN Defaults ELSE file
<1>1. /\ file \in Configs \cup {Absent} /\ mem'[l] = Result(env, file)
      /\ mem'[l] = Override(env, read) /\ read \in Configs /\ env \in Envs
      /\ pc'[l] \in {"truncate", "backup"}
      /\ \A m \in Loaders \ {l} : pc'[m] = pc[m] /\ mem'[m] = mem[m]
      /\ UNCHANGED <<file, backups, env, edited, covered, settled, damaged>>
  BY ConfigAssumption DEF Read, Inv, StoreTypeOK, Goto, Result, history
<1>2. edited # Broken
  BY <1>1, ConfigAssumption DEF Inv, BrokenIsLeftAlone
<1>3. \A k \in Keys \ covered : read[k] = Base[k]
  <2>1. CASE file = edited
    BY <2>1 DEF Base
  <2>2. CASE Kept(file)
    BY <2>2, ConfigAssumption DEF Kept, Base
  <2> QED
    BY <1>1, <2>1, <2>2, ConfigAssumption DEF Inv, EditsStick
<1>4. Pending(l)'
  <2>1. \A k \in Keys \ (covered \cup Covers(env)) : mem'[l][k] = Base[k]
    BY <1>1, <1>3, OverrideFields
  <2>2. Override(env, mem'[l]) = mem'[l]
    BY <1>1, OverrideIdempotent
  <2> QED
    BY <1>1, <1>2, <2>1, <2>2 DEF Pending, Base
<1>5. ASSUME NEW m \in Loaders, m # l, pc[m] # "idle"
      PROVE  Pending(m)' /\ mem'[m] = mem'[l]
  <2>1. Pending(m) /\ mem'[m] = mem[m] /\ pc'[m] = pc[m]
    BY <1>1, <1>5 DEF Inv, Agreement
  <2>2. mem[m] = Result(env, file)
    BY <1>1, <2>1 DEF Pending
  <2>3. Pending(m)'
    BY <1>1, <2>1 DEF Pending, Base, Result, Override, Covers
  <2> QED
    BY <1>1, <2>1, <2>2, <2>3
<1>6. Agreement'
  BY <1>1, <1>4, <1>5 DEF Inv, Agreement
<1>7. EditsStick' /\ BrokenIsLeftAlone' /\ SettledIsFixed'
  BY <1>1 DEF Inv, EditsStick, Kept, BrokenIsLeftAlone, SettledIsFixed
<1>8. EmptyIsExplained'
  BY <1>1, ConfigAssumption DEF Inv, EmptyIsExplained
<1> QED
  BY <1>6, <1>7, <1>8 DEF Inv

\* Truncating the file hides what it was from the loads that come next.
LEMMA TruncateStep ==
  ASSUME Inv, StoreTypeOK', NEW l \in Loaders, Truncate(l)
  PROVE  Inv'
<1>1. /\ file' = Empty /\ pc[l] = "truncate" /\ pc'[l] = "write"
      /\ \A m \in Loaders \ {l} : pc'[m] = pc[m]
      /\ UNCHANGED <<mem, env, edited, covered, settled, damaged>>
  BY DEF Truncate, Inv, StoreTypeOK, Goto, history
<1>2. Agreement'
  <2>1. ASSUME NEW m \in Loaders, pc'[m] # "idle" PROVE Pending(m)'
    BY <1>1, <2>1, ConfigAssumption DEF Inv, Agreement, Pending, Base, Override, Covers
  <2> QED
    BY <1>1, <2>1 DEF Inv, Agreement
<1>3. EditsStick' /\ SettledIsFixed' /\ EmptyIsExplained'
  BY <1>1, ConfigAssumption DEF EditsStick, SettledIsFixed, EmptyIsExplained
<1>4. BrokenIsLeftAlone'
  BY <1>1 DEF Inv, Agreement, Pending, BrokenIsLeftAlone
<1> QED
  BY <1>2, <1>3, <1>4 DEF Inv

\* A write fills the file with the one config that all loads are about to save.
LEMMA WriteStep ==
  ASSUME Inv, StoreTypeOK', NEW l \in Loaders, Write(l)
  PROVE  Inv'
<1>1. /\ pc[l] = "write" /\ pc'[l] = "idle"
      /\ \A m \in Loaders \ {l} : pc'[m] = pc[m]
      /\ covered' = covered \cup Covers(env)
      /\ UNCHANGED <<mem, env, edited>>
      /\ damaged' = FALSE
  BY DEF Write, Inv, StoreTypeOK, Goto
<1>2. Pending(l) /\ mem[l] \in Configs
  BY <1>1 DEF Inv, StoreTypeOK, Agreement
<1>3. file' = mem[l]
  BY <1>1, <1>2 DEF Write, Pending
<1>4. EditsStick' /\ BrokenIsLeftAlone'
  BY <1>1, <1>2, <1>3 DEF Pending, EditsStick, Kept, Base, BrokenIsLeftAlone
<1>5. SettledIsFixed'
  BY <1>1, <1>2, <1>3 DEF Pending, SettledIsFixed, Override
<1>6. EmptyIsExplained'
  BY <1>2, <1>3, ConfigAssumption DEF EmptyIsExplained
<1>7. Agreement'
  <2>1. ASSUME NEW m \in Loaders, pc'[m] # "idle" PROVE Pending(m)'
    <3>1. Pending(m) /\ mem[m] = mem[l]
      BY <1>1, <2>1 DEF Inv, Agreement
    <3>2. file' # Absent
      BY <1>2, <1>3, ConfigAssumption
    <3>3. mem[m] = Override(env, file') /\ Override(env, file') = Result(env, file')
      BY <1>2, <1>3, <3>1, <3>2 DEF Pending, Result
    <3> QED
      BY <1>1, <1>2, <1>3, <3>1, <3>3 DEF Pending, Base, Result, Override, Covers
  <2> QED
    BY <1>1, <2>1 DEF Inv, Agreement
<1> QED
  BY <1>4, <1>5, <1>6, <1>7 DEF Inv

\* A load that gives up in its write leaves a file cut short only as damage.
LEMMA WriteFailsStep ==
  ASSUME Inv, StoreTypeOK', NEW l \in Loaders, WriteFails(l)
  PROVE  Inv'
<1>1. /\ pc'[l] = "idle"
      /\ \A m \in Loaders \ {l} : pc'[m] = pc[m]
      /\ UNCHANGED <<file, mem, env, edited, covered, settled>>
      /\ damaged' = (damaged \/ file = Empty)
  BY DEF WriteFails, Inv, StoreTypeOK, Goto
<1>2. EditsStick' /\ BrokenIsLeftAlone' /\ SettledIsFixed' /\ EmptyIsExplained'
  BY <1>1 DEF Inv, EditsStick, Kept, BrokenIsLeftAlone, SettledIsFixed, EmptyIsExplained
<1>3. Agreement'
  BY <1>1 DEF Inv, Agreement, Pending, Base
<1> QED
  BY <1>2, <1>3 DEF Inv

\* An edit comes while no load is under way, and is what loads start from next.
LEMMA EditStep ==
  ASSUME EditsAtRest, Inv, StoreTypeOK',
         NEW c \in Configs \cup {Absent, Broken}, Edit(c)
  PROVE  Inv'
<1>1. /\ file' = c /\ edited' = c /\ settled' = FALSE
      /\ \A l \in Loaders : pc'[l] = "idle"
  BY DEF Edit, AtRest
<1>2. EditsStick' /\ BrokenIsLeftAlone' /\ SettledIsFixed' /\ Agreement'
  BY <1>1 DEF EditsStick, BrokenIsLeftAlone, SettledIsFixed, Agreement
<1>3. EmptyIsExplained'
  BY <1>1, ConfigAssumption DEF EmptyIsExplained
<1> QED
  BY <1>2, <1>3 DEF Inv

\* A kill ends every load; a file that one of them cut short stays so.
LEMMA RecreateStep ==
  ASSUME Inv, StoreTypeOK', NEW e \in Envs, Recreate(e)
  PROVE  Inv'
<1>1. /\ \A l \in Loaders : pc'[l] = "idle"
      /\ UNCHANGED <<file, edited, covered>>
      /\ settled' => settled /\ env' = env
      /\ damaged' = (damaged \/ \E l \in Loaders : pc[l] = "write")
  BY DEF Recreate
<1>2. EditsStick' /\ BrokenIsLeftAlone' /\ EmptyIsExplained' /\ Agreement'
  BY <1>1 DEF Inv, EditsStick, Kept, BrokenIsLeftAlone, EmptyIsExplained, Agreement
<1>3. SettledIsFixed'
  BY <1>1 DEF Inv, SettledIsFixed
<1> QED
  BY <1>2, <1>3 DEF Inv

\* Every step of a load, a kill, and an edit at rest keep it.
LEMMA NextInv ==
  ASSUME EditsAtRest, Inv, [Next]_vars
  PROVE  Inv'
<1>1. StoreTypeOK'
  BY TypeStep DEF Inv
<1>2. ASSUME NEW l \in Loaders,
             ReadUnreadable(l) \/ Backup(l) \/ BackupFails(l) \/ Prune(l) \/ OpenFails(l)
      PROVE  Inv'
  <2>1. \A m \in Loaders :
          /\ pc'[m] # "idle" => pc[m] # "idle" /\ mem'[m] = mem[m]
          /\ (pc'[m] = "write") <=> (pc[m] = "write")
    BY <1>2 DEF ReadUnreadable, Backup, BackupFails, Prune, OpenFails, Goto, Inv, StoreTypeOK
  <2>2. UNCHANGED <<file, env, edited, covered, settled, damaged>>
    BY <1>2 DEF ReadUnreadable, Backup, BackupFails, Prune, OpenFails, history
  <2> QED
    BY <1>1, <2>1, <2>2, QuietStep
<1>3. CASE UNCHANGED vars
  BY <1>1, <1>3, QuietStep DEF vars, history
<1> QED
  BY <1>1, <1>2, <1>3, ReadStep, TruncateStep, WriteStep, WriteFailsStep, EditStep,
     RecreateStep
  DEF Next, Step

-----------------------------------------------------------------------------
(***************************************************************************)
(* Theorems.                                                               *)
(***************************************************************************)

\* The file, its backups and the loads keep their types in every behaviour, also
\* when the operator edits the file under a load.
THEOREM TypeCorrect == Spec => []StoreTypeOK
<1>1. Init => StoreTypeOK
  BY InitInv DEF Inv
<1> QED
  BY <1>1, TypeStep, PTL DEF Spec

\* The invariant, for any number of loads.
LEMMA SpecInv == ASSUME EditsAtRest PROVE Spec => []Inv
<1>1. Inv /\ [Next]_vars => Inv'
  BY NextInv
<1> QED
  BY InitInv, <1>1, PTL DEF Spec

\* Loads that run side by side, are killed, or fail never touch a field of the
\* operator's that no variable covers.
THEOREM EditsAreKept == ASSUME EditsAtRest PROVE Spec => []EditsStick
<1>1. Inv => EditsStick
  BY DEF Inv
<1> QED
  BY <1>1, SpecInv, PTL

\* An unparseable file is left exactly as it is, however many loads find it.
THEOREM BrokenIsKept == ASSUME EditsAtRest PROVE Spec => []BrokenIsLeftAlone
<1>1. Inv => BrokenIsLeftAlone
  BY DEF Inv
<1> QED
  BY <1>1, SpecInv, PTL

\* Every variable that parses is in the file once a load has finished.
THEOREM EnvironmentIsApplied == ASSUME EditsAtRest PROVE Spec => []EnvironmentWins
<1>1. Inv => EnvironmentWins
  <2> SUFFICES ASSUME Inv, settled, file \in Configs, NEW k \in Keys, env[k] \in Values
               PROVE  file[k] = env[k]
    BY DEF EnvironmentWins
  <2>1. Override(env, file) = file /\ env \in Envs
    BY DEF Inv, SettledIsFixed, StoreTypeOK
  <2> QED
    BY <2>1, OverrideFields
<1> QED
  BY <1>1, SpecInv, PTL

\* Loads never leave the file cut short for each other: only a kill or a full
\* disk does.
THEOREM ReadableUnlessKilled == ASSUME EditsAtRest PROVE Spec => []ReadableAtRest
<1>1. Inv => ReadableAtRest
  BY DEF Inv, EmptyIsExplained, ReadableAtRest, AtRest
<1> QED
  BY <1>1, SpecInv, PTL

\* When loads come one at a time, those that follow a finished one find nothing
\* to change and back nothing up.
THEOREM QuietOnceSettled ==
  ASSUME EditsAtRest, OneAtATime PROVE Spec => []SettledIsQuiet
<1> DEFINE Alone == \A l, m \in Loaders : pc[l] # "idle" /\ pc[m] # "idle" => l = m
<1> DEFINE Quiet == SettledIsQuiet /\ Alone
<1>1. Init => Quiet
  BY DEF Init, SettledIsQuiet
<1>2. Inv /\ Quiet /\ [Next]_vars => Quiet'
  <2> SUFFICES ASSUME Inv, Quiet, [Next]_vars PROVE Quiet'
    OBVIOUS
  <2> USE DEF SettledIsQuiet, Inv, StoreTypeOK, Goto, history
  <2>1. ASSUME NEW l \in Loaders, Read(l) PROVE Quiet'
    <3>1. /\ \A m \in Loaders : pc[m] = "idle"
          /\ \A m \in Loaders \ {l} : pc'[m] = "idle"
          /\ settled' = settled
      BY <2>1 DEF Read, AtRest
    <3>2. settled => pc'[l] = "truncate"
      BY <2>1, ConfigAssumption DEF Read, Result, SettledIsFixed
    <3> QED
      BY <3>1, <3>2
  <2>2. ASSUME NEW l \in Loaders, Write(l) \/ WriteFails(l) \/ OpenFails(l)
        PROVE  Quiet'
    <3>1. \A m \in Loaders : pc'[m] = "idle"
      BY <2>2 DEF Write, WriteFails, OpenFails
    <3> QED
      BY <3>1
  <2>3. ASSUME NEW l \in Loaders,
               ReadUnreadable(l) \/ Backup(l) \/ BackupFails(l) \/ Prune(l) \/ Truncate(l)
        PROVE  Quiet'
    BY <2>3 DEF ReadUnreadable, Backup, BackupFails, Prune, Truncate
  <2>4. ASSUME NEW c \in Configs \cup {Absent, Broken}, Edit(c) PROVE Quiet'
    BY <2>4 DEF Edit, AtRest
  <2>5. ASSUME NEW e \in Envs, Recreate(e) PROVE Quiet'
    BY <2>5 DEF Recreate
  <2>6. CASE UNCHANGED vars
    BY <2>6 DEF vars
  <2> QED
    BY <2>1, <2>2, <2>3, <2>4, <2>5, <2>6 DEF Next, Step
<1>3. Quiet => SettledIsQuiet
  OBVIOUS
<1> QED
  BY <1>1, <1>2, <1>3, SpecInv, PTL DEF Spec

\* When loads come one at a time, pruning after a copy that succeeded keeps the
\* operator's settings among the backups.
THEOREM PruningKeepsTheCopy ==
  ASSUME EditsAtRest, OneAtATime PROVE Spec => ChangedIsBackedUp
<1> DEFINE Alone == \A l, m \in Loaders : pc[l] # "idle" /\ pc[m] # "idle" => l = m
<1> DEFINE Copied == \A l \in Loaders :
             /\ pc[l] \in {"backup", "prune"} => file \in Configs
             /\ pc[l] = "prune" => backups # <<>> /\ backups[Len(backups)] = file
<1> DEFINE Safe == Alone /\ Copied
<1>1. Init => Safe
  BY DEF Init
<1>2. Inv /\ Safe /\ [Next]_vars => Safe'
  <2> SUFFICES ASSUME Inv, Safe, [Next]_vars PROVE Safe'
    OBVIOUS
  <2> USE DEF Inv, StoreTypeOK, Goto, history
  <2>1. ASSUME NEW l \in Loaders, Read(l) PROVE Safe'
    <3>1. /\ \A m \in Loaders \ {l} : pc'[m] = "idle"
          /\ pc'[l] # "prune"
          /\ pc'[l] = "backup" => file \in Configs
          /\ file' = file
      BY <2>1 DEF Read, AtRest
    <3> QED
      BY <3>1
  <2>2. ASSUME NEW l \in Loaders, Write(l) \/ WriteFails(l) \/ OpenFails(l)
        PROVE  Safe'
    <3>1. \A m \in Loaders : pc'[m] = "idle"
      BY <2>2 DEF Write, WriteFails, OpenFails
    <3> QED
      BY <3>1
  <2>3. ASSUME NEW l \in Loaders, Backup(l) PROVE Safe'
    <3>1. backups' # <<>> /\ backups'[Len(backups')] = file
      BY <2>3 DEF Backup
    <3> QED
      BY <2>3, <3>1 DEF Backup
  <2>4. ASSUME NEW l \in Loaders,
               BackupFails(l) \/ Prune(l) \/ Truncate(l)
        PROVE  Safe'
    <3>1. \A m \in Loaders : pc'[m] \notin {"backup", "prune"}
      BY <2>4 DEF BackupFails, Prune, Truncate
    <3> QED
      BY <2>4, <3>1 DEF BackupFails, Prune, Truncate
  <2>5. ASSUME NEW l \in Loaders, ReadUnreadable(l) PROVE Safe'
    BY <2>5 DEF ReadUnreadable
  <2>6. ASSUME NEW c \in Configs \cup {Absent, Broken}, Edit(c) PROVE Safe'
    BY <2>6 DEF Edit, AtRest
  <2>7. ASSUME NEW e \in Envs, Recreate(e) PROVE Safe'
    BY <2>7 DEF Recreate
  <2>8. CASE UNCHANGED vars
    BY <2>8 DEF vars
  <2> QED
    BY <2>1, <2>2, <2>3, <2>4, <2>5, <2>6, <2>7, <2>8 DEF Next, Step
<1>3. Inv /\ Safe /\ [Next]_vars =>
        [\A l \in Loaders : pc[l] = "prune" /\ pc'[l] = "truncate"
           => \E i \in DOMAIN backups' : Kept(backups'[i])]_vars
  <2> SUFFICES ASSUME Inv, Safe, Next, NEW l \in Loaders,
                      pc[l] = "prune", pc'[l] = "truncate"
               PROVE  \E i \in DOMAIN backups' : Kept(backups'[i])
    OBVIOUS
  <2>1. Prune(l)
    BY DEF Next, Step, Read, ReadUnreadable, Backup, BackupFails, Prune, Truncate,
           OpenFails, Write, WriteFails, Edit, Recreate, Goto, AtRest, Inv, StoreTypeOK
  <2>2. Kept(file)
    BY ConfigAssumption DEF Inv, EditsStick, Kept, Agreement, Pending
  <2>3. Len(backups') \in DOMAIN backups' /\ backups'[Len(backups')] = file
    BY <2>1, ConfigAssumption DEF Prune, Inv, StoreTypeOK
  <2> QED
    BY <2>2, <2>3
<1> QED
  BY <1>1, <1>2, <1>3, SpecInv, PTL DEF Spec, ChangedIsBackedUp

-----------------------------------------------------------------------------
(***************************************************************************)
(* Loads are atomic.                                                       *)
(***************************************************************************)

\* What the file says, or said before it was cut short.
Said == IF file = Empty THEN whole ELSE file

\* whole is what the file says, a load is about to save what the environment
\* makes of that, and from its truncation on that is what the file is to say.
WholeInv ==
  /\ file \in {whole, Empty}
  /\ file = Empty => whole \in Configs
  /\ \A l \in Loaders : pc[l] # "idle" =>
       /\ whole \in Configs \cup {Absent}
       /\ mem[l] = Result(env, whole)
       /\ pc[l] = "write" => whole = mem[l]

\* Every step keeps what is said of whole.
LEMMA WholeStep ==
  ASSUME EditsAtRest, Inv, WholeInv, [Next]_vars
  PROVE  WholeInv'
<1> USE DEF Inv, StoreTypeOK
<1>1. ASSUME NEW l \in Loaders, Read(l) PROVE WholeInv'
  <2>1. /\ file \in Configs \cup {Absent} /\ file = whole
        /\ mem'[l] = Result(env, whole)
        /\ pc'[l] # "write"
        /\ \A m \in Loaders \ {l} : pc'[m] = pc[m] /\ mem'[m] = mem[m]
        /\ UNCHANGED <<file, env, whole>>
    BY <1>1, ConfigAssumption DEF Read, Goto, history, WholeInv
  <2>2. Result(env, whole)' = Result(env, whole)
    BY <2>1 DEF Result, Override
  <2> QED
    BY <2>1, <2>2, ConfigAssumption DEF WholeInv
<1>2. ASSUME NEW l \in Loaders, Truncate(l) PROVE WholeInv'
  <2>1. /\ pc[l] = "truncate" /\ file' = Empty /\ whole' = mem[l]
        /\ \A m \in Loaders \ {l} : pc'[m] = pc[m]
        /\ UNCHANGED <<mem, env>>
    BY <1>2 DEF Truncate, Goto
  <2>2. ASSUME NEW m \in Loaders, pc'[m] # "idle"
        PROVE  mem[m] = mem[l] /\ Override(env, mem[m]) = mem[m]
    BY <2>1, <2>2 DEF Agreement, Pending
  <2>3. mem[l] \in Configs /\ mem[l] # Absent
    BY <2>1, ConfigAssumption
  <2>4. Result(env, whole)' = Override(env, mem[l])
    BY <2>1, <2>3 DEF Result, Override
  <2> QED
    BY <2>1, <2>2, <2>3, <2>4 DEF WholeInv
<1>3. ASSUME NEW l \in Loaders, Write(l) PROVE WholeInv'
  <2>1. /\ pc[l] = "write" /\ pc'[l] = "idle"
        /\ \A m \in Loaders \ {l} : pc'[m] = pc[m]
        /\ UNCHANGED <<mem, env, whole>>
    BY <1>3 DEF Write, Goto
  <2>2. file' = mem[l] /\ whole = mem[l]
    BY <1>3, <2>1 DEF Write, Agreement, Pending, WholeInv
  <2>3. Result(env, whole)' = Result(env, whole)
    BY <2>1 DEF Result, Override
  <2> QED
    BY <2>1, <2>2, <2>3, ConfigAssumption DEF WholeInv
<1>4. ASSUME NEW l \in Loaders,
             \/ ReadUnreadable(l) \/ Backup(l) \/ BackupFails(l) \/ Prune(l)
             \/ OpenFails(l) \/ WriteFails(l)
      PROVE  WholeInv'
  <2>1. UNCHANGED <<file, env, whole>>
    BY <1>4 DEF ReadUnreadable, Backup, BackupFails, Prune, OpenFails, WriteFails, history
  <2>2. \A m \in Loaders :
          /\ pc'[m] # "idle" => pc[m] # "idle" /\ mem'[m] = mem[m]
          /\ pc'[m] = "write" => pc[m] = "write"
    BY <1>4 DEF ReadUnreadable, Backup, BackupFails, Prune, OpenFails, WriteFails, Goto
  <2>3. Result(env, whole)' = Result(env, whole)
    BY <2>1 DEF Result, Override
  <2> QED
    BY <2>1, <2>2, <2>3 DEF WholeInv
<1>5. ASSUME NEW c \in Configs \cup {Absent, Broken}, Edit(c) PROVE WholeInv'
  BY <1>5, ConfigAssumption DEF Edit, AtRest, WholeInv
<1>6. ASSUME NEW e \in Envs, Recreate(e) PROVE WholeInv'
  BY <1>6 DEF Recreate, WholeInv
<1>7. CASE UNCHANGED vars
  BY <1>7 DEF vars, history, WholeInv, Result, Override
<1> QED
  BY <1>1, <1>2, <1>3, <1>4, <1>5, <1>6, <1>7 DEF Next, Step

\* A load takes effect when it truncates the file; every other step of it begins
\* or ends it, loses the file, or is none of the others' business.
LEMMA AtomicStep ==
  ASSUME EditsAtRest, Inv, WholeInv, WholeInv', [Next]_vars
  PROVE  [Atomic!Next]_Atomic!vars
<1> DEFINE cut == file = Empty /\ \A l \in Loaders : pc[l] # "write"
<1> USE DEF Inv, StoreTypeOK, AtRest
<1>0. Said = whole /\ Said' = whole'
  BY DEF Said, WholeInv
<1>1. ASSUME NEW l \in Loaders, Read(l)
      PROVE  Atomic!Begin \/ UNCHANGED Atomic!vars
  <2>1. /\ file \in Configs \cup {Absent}
        /\ pc[l] = "idle" /\ pc'[l] \in {"truncate", "backup"}
        /\ UNCHANGED <<file, env, whole>>
    BY <1>1 DEF Read, Goto, history
  <2>2. file # Empty /\ file # Broken
    BY <2>1, ConfigAssumption
  <2>3. ~AtRest'
    BY <2>1
  <2> QED
    BY <2>1, <2>2, <2>3 DEF Atomic!Begin, Atomic!vars
<1>2. ASSUME NEW l \in Loaders, Truncate(l) PROVE Atomic!Load
  <2>1. /\ pc[l] = "truncate" /\ pc'[l] = "write" /\ file' = Empty
        /\ whole' = mem[l] /\ env' = env
    BY <1>2 DEF Truncate, Goto
  <2>2. whole' = Result(env, whole)
    BY <2>1 DEF WholeInv
  <2>3. ~AtRest /\ ~AtRest' /\ ~cut'
    BY <2>1
  <2> QED
    BY <1>0, <2>1, <2>2, <2>3 DEF Atomic!Load, Said
<1>3. ASSUME NEW l \in Loaders, Write(l)
      PROVE  Atomic!End \/ UNCHANGED Atomic!vars
  <2>1. /\ pc[l] = "write" /\ UNCHANGED <<env, whole>>
        /\ file' # Empty
    BY <1>3, ConfigAssumption DEF Write, Agreement, Pending
  <2>2. ~cut /\ ~cut' /\ ~AtRest
    BY <2>1
  <2> QED
    BY <1>0, <2>1, <2>2 DEF Atomic!End, Atomic!vars, Said
<1>4. ASSUME NEW l \in Loaders, WriteFails(l)
      PROVE  Atomic!Lose \/ Atomic!End \/ UNCHANGED Atomic!vars
  <2>1. /\ pc[l] = "write" /\ UNCHANGED <<env, whole, file>>
    BY <1>4 DEF WriteFails
  <2>2. ~cut /\ ~AtRest /\ whole \in Configs
    BY <2>1 DEF WholeInv
  <2> QED
    BY <1>0, <2>1, <2>2 DEF Atomic!Lose, Atomic!End, Atomic!vars, Said
<1>5. ASSUME NEW l \in Loaders, OpenFails(l)
      PROVE  Atomic!End \/ UNCHANGED Atomic!vars
  <2>1. /\ pc[l] = "truncate" /\ UNCHANGED <<env, whole, file>>
        /\ \A m \in Loaders : (pc'[m] = "write") <=> (pc[m] = "write")
    BY <1>5 DEF OpenFails, Goto, history
  <2>2. ~AtRest /\ (cut' <=> cut)
    BY <2>1
  <2> QED
    BY <2>1, <2>2 DEF Atomic!End, Atomic!vars
<1>6. ASSUME NEW l \in Loaders,
             ReadUnreadable(l) \/ Backup(l) \/ BackupFails(l) \/ Prune(l)
      PROVE  UNCHANGED Atomic!vars
  <2>1. /\ UNCHANGED <<env, whole, file>>
        /\ \A m \in Loaders : (pc'[m] = "write") <=> (pc[m] = "write")
        /\ \A m \in Loaders : (pc'[m] = "idle") <=> (pc[m] = "idle")
    BY <1>6 DEF ReadUnreadable, Backup, BackupFails, Prune, Goto, history
  <2>2. (AtRest' <=> AtRest) /\ (cut' <=> cut)
    BY <2>1
  <2> QED
    BY <2>1, <2>2 DEF Atomic!vars
<1>7. ASSUME NEW c \in Configs \cup {Absent, Broken}, Edit(c) PROVE Atomic!Edit(c)
  <2>1. AtRest /\ pc' = pc /\ file' = c /\ c # Empty /\ env' = env
    BY <1>7, ConfigAssumption DEF Edit
  <2> QED
    BY <2>1 DEF Atomic!Edit
<1>8. ASSUME NEW e \in Envs, Recreate(e) PROVE Atomic!Recreate(e)
  <2>1. /\ AtRest' /\ env' = e /\ UNCHANGED <<file, whole>>
        /\ \A l \in Loaders : pc'[l] # "write"
    BY <1>8 DEF Recreate
  <2>2. cut' <=> file = Empty
    BY <2>1
  <2>3. CASE file = Empty /\ \E l \in Loaders : pc[l] = "write"
    BY <1>0, <2>1, <2>2, <2>3 DEF Atomic!Recreate, WholeInv
  <2>4. CASE ~(file = Empty /\ \E l \in Loaders : pc[l] = "write")
    BY <2>1, <2>2, <2>4 DEF Atomic!Recreate
  <2> QED
    BY <2>3, <2>4
<1>9. UNCHANGED vars => UNCHANGED Atomic!vars
  BY DEF vars, history, Atomic!vars
<1> QED
  BY <1>1, <1>2, <1>3, <1>4, <1>5, <1>6, <1>7, <1>8, <1>9 DEF Next, Step, Atomic!Next

\* Any number of loads, killed or failing at any step, act on the file as if each
\* took one step: load_or_create_config implements AtomicConfig.
THEOREM LoadsTakeOneStep == ASSUME EditsAtRest PROVE Spec => LoadsAreAtomic
<1>1. Init => WholeInv
  BY ConfigAssumption DEF Init, WholeInv
<1>2. Init => Atomic!Init
  BY ConfigAssumption DEF Init, Atomic!Init, AtRest
<1>3. Inv /\ WholeInv /\ [Next]_vars => WholeInv'
  BY WholeStep
<1>4. Inv /\ WholeInv /\ WholeInv' /\ [Next]_vars => [Atomic!Next]_Atomic!vars
  BY AtomicStep
<1> QED
  BY <1>1, <1>2, <1>3, <1>4, SpecInv, PTL DEF Spec, LoadsAreAtomic, Atomic!Spec

=============================================================================
