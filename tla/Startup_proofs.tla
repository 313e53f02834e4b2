--------------------------- MODULE Startup_proofs ---------------------------
(***************************************************************************)
(* The way to a server, for every environment, every file and every list   *)
(* of group fields of which none ends in another.                          *)
(***************************************************************************)
EXTENDS Startup, EnvOverrides_proofs

\* Which commands reach which steps.
AtFitsCmd ==
  /\ cmd \in {"down", "up", "failed"} => at = "dirs"
  /\ at = "dirs" => cmd \in {"down", "up", "failed", "setup"}
  /\ at = "steamcmd" => cmd = "install"
  /\ at \in {"runtime", "spawn"} => cmd = "start"

\* The config is in memory only while it is laid over.
Forgotten ==
  at # "apply" => seen = 0 /\ groups = <<>> /\ found = <<>>

\* From its load to its end, a start has the environment in the file, unless the
\* operator has edited it since.
FileIsCurrent ==
  cmd = "start" /\ at \in {"runtime", "spawn"}
  => file = Broken \/ unsaved \/ touched \/ Laid(file)

\* A file that the last save under this environment has left, and the pass
\* over it.
CleanIsLaid ==
  clean => Laid(file) /\ (at = "apply" => found = file)

StartupInv ==
  /\ StartupTypeOK
  /\ PassInv
  /\ AtFitsCmd
  /\ Forgotten
  /\ FileIsCurrent
  /\ CleanIsLaid

-----------------------------------------------------------------------------
\* Groups that variables have been laid over are neither a missing nor a broken file.
LEMMA LaidIsAList ==
  ASSUME NEW gs, Laid(gs)
  PROVE  gs \in Seq(Groups) /\ gs # Absent /\ gs # Broken
BY StartupAssumption DEF Laid

\* A volume and a container before the first boot satisfy the invariant.
LEMMA StartupInvInit ==
  ASSUME StartupInit
  PROVE  StartupInv
<1>1. environ \in Seq(Variables)
  BY StartupAssumption DEF StartupInit
<1>2. /\ Len(environ) \in Nat /\ <<>> \in Seq(Groups) /\ Len(<<>>) = 0 /\ DOMAIN <<>> = {}
  BY <1>1, LenProperties
<1>3. \A i \in 1..0 : FALSE
  OBVIOUS
<1>4. PassInv
  <2>1. EnvTypeOK
    BY <1>1, <1>2 DEF StartupInit, EnvTypeOK
  <2>2. VariablesWin /\ GroupsAreThere /\ FieldsAreSet
    BY <1>2, <1>3 DEF StartupInit, VariablesWin, GroupsAreThere, FieldsAreSet
  <2>3. NoTwinGroups /\ NoneIsNew /\ NamesStay
    BY <1>2, <1>3 DEF StartupInit, NoTwinGroups, NoneIsNew, NamesStay
  <2> QED  BY <2>1, <2>2, <2>3 DEF PassInv
<1>5. StartupTypeOK
  BY <1>4, StartupAssumption DEF StartupInit, StartupTypeOK, PassInv, Steps
<1> QED  BY <1>4, <1>5
         DEF StartupInit, StartupInv, AtFitsCmd, Forgotten, FileIsCurrent, CleanIsLaid

\* What the config pass keeps, whatever step is taken.
LEMMA PassInvStep ==
  ASSUME StartupInv, [StartupNext]_startVars
  PROVE  PassInv'
<1>0. /\ PassInv /\ environ \in Seq(Variables) /\ file \in Seq(Groups) \cup {Absent, Broken}
      /\ Forgotten
  BY DEF StartupInv, StartupTypeOK, EnvTypeOK
<1>1. ASSUME UNCHANGED envVars PROVE PassInv'
  BY <1>0, <1>1
     DEF envVars, PassInv, EnvTypeOK, VariablesWin, Wins, NoTwinGroups, GroupsAreThere,
         HasGroup, NoneIsNew, NamesStay, FieldsAreSet, IsFirst
<1>2. CASE Read
  <2> DEFINE gs == IF file = Absent THEN DefaultGroups ELSE file
  <2>1. gs \in Seq(Groups) /\ BeginPass(gs)
    BY <1>0, <1>2, StartupAssumption DEF Read
  <2> HIDE DEF gs
  <2> QED  BY <1>0, <2>1, BeginPassInv
<1>3. CASE Override
  BY <1>0, <1>3, ApplyPassInv DEF Override
<1>4. CASE Save \/ Down
  BY <1>0, <1>4, EndPassInv DEF Save, Down, EndPass
<1>5. CASE Recreate
  <2>1. cmd = "down" /\ at = "dirs"
    BY <1>5 DEF Recreate, StartupInv, AtFitsCmd
  <2>2. groups = <<>> /\ found = <<>> /\ seen = 0
    BY <1>0, <2>1 DEF Forgotten
  <2>3. environ' \in Seq(Variables)
    BY <1>5, StartupAssumption DEF Recreate
  <2>4. groups' = <<>> /\ found' = <<>> /\ seen' = 0
    BY <1>5, <2>2 DEF Recreate
  <2> QED  BY <2>3, <2>4, EndPassInv
<1>6. CASE Boot \/ Dirs \/ Install \/ ReadUnreadable \/ Runtime \/ Spawn
           \/ StartAgain \/ Edit
  <2>1. UNCHANGED envVars
    BY <1>6 DEF Boot, Dirs, Install, ReadUnreadable, Runtime, Spawn, StartAgain, Edit
  <2> QED  BY <1>1, <2>1
<1>7. CASE UNCHANGED startVars
  BY <1>1, <1>7 DEF startVars
<1> QED  BY <1>2, <1>3, <1>4, <1>5, <1>6, <1>7 DEF StartupNext

\* Every step keeps the types.
LEMMA StartupTypeStep ==
  ASSUME StartupInv, [StartupNext]_startVars
  PROVE  StartupTypeOK'
<1>0. StartupTypeOK /\ EnvTypeOK' /\ EnvTypeOK
  BY PassInvStep DEF StartupInv, PassInv
<1>1. /\ file \in Seq(Groups) \cup {Absent, Broken} /\ groups \in Seq(Groups)
      /\ DefaultGroups \in Seq(Groups) /\ OperatorFiles \subseteq Seq(Groups)
  BY <1>0, StartupAssumption DEF StartupTypeOK, EnvTypeOK
<1>2. file' \in Seq(Groups) \cup {Absent, Broken}
  BY <1>0, <1>1
     DEF StartupTypeOK, StartupNext, startVars, bootVars, Boot, Dirs, Install, Read,
         ReadUnreadable, Override, Save, Runtime, Spawn, StartAgain, Down, Recreate, Edit
<1>3. installed' \in BOOLEAN /\ unsaved' \in BOOLEAN
  BY <1>0
     DEF StartupTypeOK, StartupNext, startVars, bootVars, Boot, Dirs, Install, Read,
         ReadUnreadable, Override, Save, Runtime, Spawn, StartAgain, Down, Recreate, Edit
<1>4. touched' \in BOOLEAN /\ clean' \in BOOLEAN
  BY <1>0
     DEF StartupTypeOK, StartupNext, startVars, bootVars, Boot, Dirs, Install, Read,
         ReadUnreadable, Override, Save, Runtime, Spawn, StartAgain, Down, Recreate, Edit
<1>5. /\ cmd' \in {"down", "setup", "install", "start", "up", "failed"} /\ at' \in Steps
  BY <1>0
     DEF StartupTypeOK, StartupNext, startVars, bootVars, Boot, Dirs, Install, Read,
         ReadUnreadable, Override, Save, Runtime, Spawn, StartAgain, Down, Recreate, Edit, Goto, Begin, Over, Loaded, Steps
<1> QED  BY <1>0, <1>2, <1>3, <1>4, <1>5 DEF StartupTypeOK

\* Every step leaves a command at one of its own places.
LEMMA AtFitsStep ==
  ASSUME StartupInv, [StartupNext]_startVars
  PROVE  AtFitsCmd'
BY DEF StartupInv, StartupTypeOK, AtFitsCmd, StartupNext, startVars, bootVars, Boot, Dirs,
       Install, Read, ReadUnreadable, Override, Save, Runtime, Spawn, StartAgain, Down,
       Recreate, Edit, Goto, Begin, Over, Loaded, Steps

\* Every step but those of a load leaves no groups in memory.
LEMMA ForgottenStep ==
  ASSUME StartupInv, [StartupNext]_startVars
  PROVE  Forgotten'
BY DEF StartupInv, StartupTypeOK, AtFitsCmd, Forgotten, StartupNext, startVars, bootVars,
       envVars, Boot, Dirs, Install, Read, ReadUnreadable, Override, Save, EndPass, Runtime,
       Spawn, StartAgain, Down, Recreate, Edit, Goto, Begin, Over, Loaded, Steps

\* What is laid stays laid while neither the file nor the environment changes.
LEMMA LaidStays ==
  ASSUME UNCHANGED <<environ, file>>, Laid(file)
  PROVE  Laid(file)'
BY DEF Laid, HasGroup, Wins

\* A save leaves the environment laid over the file.
LEMMA SavedIsLaid ==
  ASSUME StartupInv, Save, file' = groups
  PROVE  Laid(file)'
<1>1. Laid(groups)
  BY PassLays DEF StartupInv, Save
<1>2. environ' = environ
  BY DEF Save, EndPass
<1> QED  BY <1>1, <1>2 DEF Laid, HasGroup, Wins

\* Every step keeps what is known of the file past a load.
LEMMA FileStep ==
  ASSUME StartupInv, [StartupNext]_startVars
  PROVE  FileIsCurrent'
<1> SUFFICES ASSUME cmd' = "start",
                    at' \in {"runtime", "spawn"},
                    file' # Broken, unsaved' # TRUE, touched' # TRUE
             PROVE  Laid(file)'
  BY StartupTypeStep DEF FileIsCurrent, StartupTypeOK
<1>1. CASE Save
  BY <1>1, SavedIsLaid DEF Save
<1>2. CASE Boot \/ Read \/ StartAgain \/ Down
  BY <1>2 DEF Boot, Read, StartAgain, Down, Goto, Begin
<1>3. CASE ReadUnreadable
  BY <1>3 DEF ReadUnreadable
<1>4. CASE Recreate \/ Edit
  BY <1>4 DEF Recreate, Edit, StartupInv, AtFitsCmd
<1>5. CASE Override \/ UNCHANGED startVars \/ Dirs \/ Install \/ Runtime \/ Spawn
  <2>1. UNCHANGED <<environ, file, unsaved, touched>>
    BY <1>5 DEF Override, Apply, startVars, envVars, bootVars, Dirs, Install, Runtime, Spawn
  <2>2. cmd = "start" /\ at \in {"runtime", "spawn"}
    BY <1>5 DEF StartupInv, AtFitsCmd, Override, startVars, bootVars, Dirs, Install, Runtime,
                Spawn, Goto, Begin, Over
  <2>3. Laid(file)
    BY <2>1, <2>2 DEF StartupInv, FileIsCurrent
  <2> QED  BY <2>1, <2>3, LaidStays
<1> QED  BY <1>1, <1>2, <1>3, <1>4, <1>5 DEF StartupNext

\* Every step keeps a clean file laid.
LEMMA CleanStep ==
  ASSUME StartupInv, [StartupNext]_startVars
  PROVE  CleanIsLaid'
<1> SUFFICES ASSUME clean' PROVE Laid(file)' /\ (at' = "apply" => found' = file')
  BY DEF CleanIsLaid
<1>0. clean => Laid(file) /\ (at = "apply" => found = file)
  BY DEF StartupInv, CleanIsLaid
<1>1. CASE Save
  <2>1. at' # "apply"
    BY <1>1 DEF Save, Loaded, Goto, Over, Begin
  <2>2. CASE file' = groups
    BY <1>1, <2>1, <2>2, SavedIsLaid
  <2>3. CASE UNCHANGED <<file, clean>>
    BY <1>0, <1>1, <2>1, <2>3, LaidStays DEF Save, EndPass
  <2> QED  BY <1>1, <2>2, <2>3 DEF Save
<1>2. CASE Read
  <2>1. clean /\ UNCHANGED <<environ, file>>
    BY <1>2 DEF Read, BeginPass
  <2>2. file # Absent
    BY <1>0, <2>1, LaidIsAList
  <2>3. found' = file
    BY <1>2, <2>2 DEF Read, BeginPass
  <2> QED  BY <1>0, <2>1, <2>3, LaidStays
<1>3. CASE Recreate
  <2>1. clean /\ UNCHANGED <<environ, file>> /\ at' = "dirs"
    BY <1>3 DEF Recreate, StartupInv, AtFitsCmd
  <2> QED  BY <1>0, <2>1, LaidStays
<1>4. CASE Edit
  BY <1>4 DEF Edit
<1>5. CASE Override \/ UNCHANGED startVars
  <2>1. UNCHANGED <<environ, file, found, clean, at>>
    BY <1>5 DEF Override, Apply, startVars, envVars, bootVars
  <2> QED  BY <1>0, <2>1, LaidStays
<1>6. CASE Boot \/ Dirs \/ Install \/ ReadUnreadable \/ Runtime \/ Spawn
           \/ StartAgain \/ Down
  <2>1. UNCHANGED <<environ, file, clean>> /\ at' # "apply"
    BY <1>6 DEF envVars, Boot, Dirs, Install, ReadUnreadable, Runtime, Spawn, StartAgain,
                Down, EndPass, Goto, Begin, Over, Loaded
  <2> QED  BY <1>0, <2>1, LaidStays
<1> QED  BY <1>1, <1>2, <1>3, <1>4, <1>5, <1>6 DEF StartupNext

\* The invariant of set-up, install and start: every property below follows.
THEOREM StartupInvariant == StartupSpec => []StartupInv
<1>1. StartupInit => StartupInv
  BY StartupInvInit
<1>2. StartupInv /\ [StartupNext]_startVars => StartupInv'
  BY StartupTypeStep, PassInvStep, AtFitsStep, ForgottenStep, FileStep, CleanStep
     DEF StartupInv
<1> QED  BY <1>1, <1>2, PTL DEF StartupSpec

\* Types, of the groups in memory and in the file too.
THEOREM StartupTypeCorrect == StartupSpec => []StartupTypeOK
<1>1. StartupInv => StartupTypeOK
  BY DEF StartupInv
<1> QED  BY <1>1, StartupInvariant, PTL

\* At every point of the pass the last variable so far that sets a field wins,
\* in the first group of its name, whatever the spelling (README.md:353).
THEOREM LastVariableWins == StartupSpec => []VariablesWin
<1>1. StartupInv => VariablesWin
  BY DEF StartupInv, PassInv
<1> QED  BY <1>1, StartupInvariant, PTL

\* No pass makes a group under a name that is there in another spelling.
THEOREM GroupsAreMadeOnce == StartupSpec => []NoTwinGroups
<1>1. StartupInv => NoTwinGroups
  BY DEF StartupInv, PassInv
<1> QED  BY <1>1, StartupInvariant, PTL

\* Places, names and uncovered fields of the file's groups stay (README.md:358).
THEOREM OperatorGroupsAreKept == StartupSpec => []OperatorGroupsStay
<1>1. StartupInv => OperatorGroupsStay
  BY PassKeepsGroups DEF StartupInv
<1> QED  BY <1>1, StartupInvariant, PTL

\* A load of what a load has saved finds nothing to change, also where variables
\* contradict each other and the pass changes a field to and fro.
THEOREM LoadsAreIdempotent == StartupSpec => []LoadsSettle
<1>1. StartupInv => LoadsSettle
  <2> SUFFICES ASSUME StartupInv, clean, at = "apply", PassDone PROVE groups = found
    BY DEF LoadsSettle
  <2>1. Laid(found)
    BY DEF StartupInv, CleanIsLaid
  <2> QED  BY <2>1, SecondPass DEF StartupInv
<1> QED  BY <1>1, StartupInvariant, PTL

\* Whatever failed before it, a server is started on a current config.
THEOREM ServerHasItsConfig == StartupSpec => ConfigIsCurrent
<1>1. StartupInv /\ [StartupNext]_startVars
      => [cmd # "up" /\ cmd' = "up" /\ file # Broken /\ ~unsaved /\ ~touched
            => file # Absent /\ \A i \in 1..Len(environ) : Wins(file, Len(environ), i)]_startVars
  <2> SUFFICES ASSUME StartupInv, StartupNext,
                      cmd # "up", cmd' = "up", file # Broken, ~unsaved, ~touched
               PROVE  file # Absent /\ \A i \in 1..Len(environ) : Wins(file, Len(environ), i)
    OBVIOUS
  <2>1. cmd = "start" /\ at = "spawn"
    BY DEF StartupInv, AtFitsCmd, StartupNext, bootVars, Boot, Dirs, Install, Read,
           ReadUnreadable, Override, Save, Runtime, Spawn, StartAgain, Down, Recreate, Edit,
           Goto, Begin, Over, Loaded
  <2>2. Laid(file)
    BY <2>1 DEF StartupInv, FileIsCurrent
  <2> QED  BY <2>2, LaidIsAList DEF Laid
<1> QED  BY <1>1, StartupInvariant, PTL DEF StartupSpec, ConfigIsCurrent

=============================================================================
