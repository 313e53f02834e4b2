--------------------------- MODULE SteamLinks_proofs ---------------------------
(***************************************************************************)
(* The linking loop in any number of processes at once, each of which may   *)
(* end at any step.                                                        *)
(***************************************************************************)
EXTENDS SteamLinks, TLAPS

\* The alias of a is there, or was refused.
SeenTo(a) == service[a] \/ refused[a]

\* No pass comes to its alias without a link.
LinkedInLoop == \A p \in Procs : pc[p] = "service" => link[arch[p]] # "missing"

\* What was in place as p set out is so still, and p has seen to the alias of
\* every pass that is behind it.
PassesDone ==
  \A p \in Procs : pc[p] # "idle" =>
    \A a \in sure[p] :
      /\ client[a]
      /\ pc[p] = "spawn" \/ (pc[p] \in Loop /\ arch[p] = "linux64" /\ a = "linux32")
           => SeenTo(a)

\* A link is never taken away, so whoever lost a race for it does not miss it.
LostAreThere ==
  \A p \in Procs :
    /\ \A a \in lost[p] : link[a] # "missing"
    /\ pc[p] = "make" => arch[p] \notin lost[p]

\* p will see to the alias of a if it lives: it is in the loop, and no other has
\* made the link that it is about to make.
Carries(p, a) == Heads(p, a) /\ (pc[p] = "make" => link[arch[p]] = "missing")

\* Who is to be served is served or has a process at work on it.
DueAreCarried ==
  \A a \in Archs : due[a] =>
    client[a] /\ (service[a] \/ \E p \in Procs : Carries(p, a))

LinksInv ==
  LinksTypeOK /\ LinkedInLoop /\ PassesDone /\ LostAreThere /\ DueAreCarried

-----------------------------------------------------------------------------
\* A container as it was created satisfies the invariant.
LEMMA LinksInvInit == Init => LinksInv
BY DEF Init, LinksInv, LinksTypeOK, LinkedInLoop, PassesDone, LostAreThere, DueAreCarried,
       Archs, Loop

\* Every step keeps the types.
LEMMA LinksTypeStep == LinksTypeOK /\ [Next]_vars => LinksTypeOK'
<1> SUFFICES ASSUME LinksTypeOK, [Next]_vars PROVE LinksTypeOK'
  OBVIOUS
<1> USE DEF LinksTypeOK, Goto, Loop, Archs
<1>1. ASSUME NEW p \in Procs, Begin(p) PROVE LinksTypeOK'
  BY <1>1 DEF Begin, home, InPlace
<1>2. ASSUME NEW p \in Procs, Install(p) PROVE LinksTypeOK'
  BY <1>2 DEF Install, Steamcmd, history
<1>3. ASSUME NEW p \in Procs, Bootstrap(p) PROVE LinksTypeOK'
  BY <1>3 DEF Bootstrap, Steamcmd, InPlace
<1>4. ASSUME NEW p \in Procs, Look(p) PROVE LinksTypeOK'
  BY <1>4 DEF Look, home, history
<1>5. ASSUME NEW p \in Procs, Make(p) PROVE LinksTypeOK'
  BY <1>5 DEF Make, history
<1>6. ASSUME NEW p \in Procs, Lose(p) PROVE LinksTypeOK'
  BY <1>6 DEF Lose, home
<1>7. ASSUME NEW p \in Procs, Service(p) PROVE LinksTypeOK'
  <2>1. service' \in [Archs -> BOOLEAN]
    <3>1. \/ service' = service
          \/ service' = [service EXCEPT ![arch[p]] = TRUE]
      BY <1>7 DEF Service
    <3> QED
      BY <3>1
  <2>2. UNCHANGED <<client, link, sure, lost>>
    BY <1>7 DEF Service
  <2>3. /\ pc' \in [Procs -> Loop \cup {"idle", "steamcmd", "client", "spawn"}]
        /\ arch' \in [Procs -> Archs]
    <3>1. NextPass(p)
      BY <1>7 DEF Service
    <3> QED
      BY <3>1 DEF NextPass
  <2>4. refused' \in [Archs -> BOOLEAN]
    BY <1>7 DEF Service
  <2>5. due' \in [Archs -> BOOLEAN]
    BY <1>7 DEF Service
  <2> QED
    BY <2>1, <2>2, <2>3, <2>4, <2>5
<1>8. ASSUME NEW p \in Procs, Spawn(p) \/ Die(p) PROVE LinksTypeOK'
  BY <1>8 DEF Spawn, Die, home, history
<1>9. CASE UNCHANGED vars
  BY <1>9 DEF vars, home, history
<1> QED
  BY <1>1, <1>2, <1>3, <1>4, <1>5, <1>6, <1>7, <1>8, <1>9 DEF Next

\* Links and libraries are never taken away, and an alias only appears.
LEMMA NothingIsRemoved ==
  ASSUME LinksTypeOK, [Next]_vars, NEW a \in Archs
  PROVE  /\ client[a] => client'[a]
         /\ link[a] # "missing" => link'[a] = link[a]
         /\ service[a] => service'[a]
<1> USE DEF LinksTypeOK
<1>1. client[a] => client'[a]
  BY DEF Next, vars, home, history, Begin, Install, Bootstrap, Steamcmd, Look, Make, Lose,
         Service, Spawn, Die
<1>2. link[a] # "missing" => link'[a] = link[a]
  BY DEF Next, vars, home, history, Begin, Install, Bootstrap, Steamcmd, Look, Make, Lose,
         Service, Spawn, Die
<1>3. service[a] => service'[a]
  BY DEF Next, vars, home, history, Begin, Install, Bootstrap, Steamcmd, Look, Make, Lose,
         Service, Spawn, Die
<1> QED
  BY <1>1, <1>2, <1>3

-----------------------------------------------------------------------------
\* Where a library and a link to it are there, trying leaves the alias or a refusal.
LEMMA ServiceSees ==
  ASSUME LinksInv, NEW p \in Procs, NEW a \in Archs, a = arch[p], Service(p), client[a]
  PROVE  SeenTo(a)'
<1>1. a \in Archs /\ service' \in [Archs -> BOOLEAN] /\ refused' \in [Archs -> BOOLEAN]
  BY LinksTypeStep DEF LinksInv, LinksTypeOK, Next
<1>2. LeadsSomewhere(a)
  BY <1>1 DEF LinksInv, LinksTypeOK, LinkedInLoop, Service, LeadsSomewhere
<1>3. refused'[a] = (LeadsSomewhere(a) /\ ~service'[a])
  BY <1>1 DEF Service, LinksInv, LinksTypeOK
<1>4. service'[a] \/ refused'[a]
  BY <1>2, <1>3
<1> QED
  BY <1>4 DEF SeenTo

\* What has been seen to stays so.
LEMMA SeenStays ==
  ASSUME LinksInv, [Next]_vars, NEW a \in Archs, client[a], SeenTo(a)
  PROVE  SeenTo(a)'
<1>1. CASE \E p \in Procs : Service(p) /\ arch[p] = a
  BY <1>1, ServiceSees
<1>2. CASE ~ \E p \in Procs : Service(p) /\ arch[p] = a
  <2>1. service[a] => service'[a]
    BY NothingIsRemoved DEF LinksInv
  <2>2. refused'[a] = refused[a]
    BY <1>2 DEF LinksInv, LinksTypeOK, Next, vars, home, history, Begin, Install, Bootstrap,
       Look, Make, Lose, Service, Spawn, Die
  <2> QED
    BY <2>1, <2>2 DEF SeenTo
<1> QED
  BY <1>1, <1>2

\* Every step keeps a link under the processes that are at their alias.
LEMMA LinkedStep == LinksInv /\ [Next]_vars => LinkedInLoop'
<1> SUFFICES ASSUME LinksInv, [Next]_vars, NEW q \in Procs, pc'[q] = "service"
             PROVE  link'[arch'[q]] # "missing"
  BY DEF LinkedInLoop
<1>1. arch[q] \in Archs /\ arch'[q] \in Archs
  BY LinksTypeStep DEF LinksInv, LinksTypeOK
<1>2. CASE pc[q] = "service" /\ arch'[q] = arch[q]
  BY <1>1, <1>2, NothingIsRemoved DEF LinksInv, LinkedInLoop
<1>3. CASE ~(pc[q] = "service" /\ arch'[q] = arch[q])
  BY <1>1, <1>3
     DEF LinksInv, LinksTypeOK, Next, vars, home, history, Goto, Begin, Install, Bootstrap, Look,
         LinkIsThere, Make, Lose, Service, NextPass, Spawn, Die
<1> QED
  BY <1>2, <1>3

\* Every step keeps those who lost a race from losing it again.
LEMMA LostStep == LinksInv /\ [Next]_vars => LostAreThere'
<1> SUFFICES ASSUME LinksInv, [Next]_vars, NEW q \in Procs
             PROVE  /\ \A a \in lost'[q] : link'[a] # "missing"
                    /\ pc'[q] = "make" => arch'[q] \notin lost'[q]
  BY DEF LostAreThere
<1>1. /\ lost[q] \subseteq Archs /\ arch[q] \in Archs
      /\ \A a \in lost[q] : link[a] # "missing"
      /\ pc[q] = "make" => arch[q] \notin lost[q]
  BY DEF LinksInv, LinksTypeOK, LostAreThere
<1>2. CASE \E p \in Procs : Lose(p)
  BY <1>1, <1>2 DEF Lose, home, Goto, LinksInv, LinksTypeOK
<1>3. CASE ~ \E p \in Procs : Lose(p)
  <2>1. lost'[q] = lost[q]
    BY <1>3 DEF Next, vars, home, history, Begin, Install, Bootstrap, Look, Make, Service,
       Spawn, Die
  <2>2. \A a \in lost[q] : link'[a] # "missing"
    BY <1>1, NothingIsRemoved DEF LinksInv
  <2>3. pc'[q] = "make" => arch'[q] = arch[q] /\ (pc[q] = "make" \/ link[arch[q]] = "missing")
    BY <1>3 DEF LinksInv, LinksTypeOK, Next, vars, home, history, Goto, Begin, Install,
       Bootstrap, Look, LinkIsThere, Make, Service, NextPass, Spawn, Die
  <2> QED
    BY <1>1, <2>1, <2>2, <2>3
<1> QED
  BY <1>2, <1>3

\* Every step keeps what the passes behind a process have achieved.
LEMMA PassesStep == LinksInv /\ [Next]_vars => PassesDone'
<1> SUFFICES ASSUME LinksInv, [Next]_vars, NEW q \in Procs, pc'[q] # "idle", NEW a \in sure'[q]
             PROVE  /\ client'[a]
                    /\ pc'[q] = "spawn" \/ (pc'[q] \in Loop /\ arch'[q] = "linux64" /\ a = "linux32")
                         => SeenTo(a)'
  BY DEF PassesDone
<1>1. /\ arch[q] \in Archs /\ a \in Archs
      /\ pc[q] # "idle" /\ a \in sure[q] => client[a]
  BY LinksTypeStep DEF LinksInv, LinksTypeOK, PassesDone
<1>2. CASE Begin(q) \/ Bootstrap(q)
  <2>1. client'[a] /\ pc'[q] # "spawn" /\ (pc'[q] \in Loop => arch'[q] = "linux32")
    BY <1>1, <1>2 DEF Begin, Bootstrap, InPlace, home, Goto, Loop, LinksInv, LinksTypeOK
  <2> QED
    BY <2>1
<1>3. CASE Service(q)
  <2>1. pc[q] = "service" /\ a \in sure[q] /\ client[a] /\ client'[a]
    BY <1>1, <1>3 DEF Service
  <2>2. CASE a = arch[q]
    BY <1>1, <1>3, <2>1, <2>2, ServiceSees
  <2>3. CASE a # arch[q]
    <3>1. pc'[q] = "spawn" => arch[q] = "linux64" /\ a = "linux32"
      BY <1>1, <1>3, <2>3 DEF Service, NextPass, Goto, Archs, LinksInv, LinksTypeOK
    <3>2. pc'[q] \in Loop /\ arch'[q] = "linux64" => arch[q] = "linux32"
      BY <1>1, <1>3 DEF Service, NextPass, Goto, Loop, Archs, LinksInv, LinksTypeOK
    <3>3. arch[q] = "linux64" /\ a = "linux32" => SeenTo(a)
      BY <2>1 DEF LinksInv, PassesDone, Loop
    <3> QED
      BY <1>1, <2>1, <2>3, <3>1, <3>2, <3>3, SeenStays
  <2> QED
    BY <2>2, <2>3
<1>4. CASE ~(Begin(q) \/ Bootstrap(q) \/ Service(q))
  <2>1. /\ sure'[q] = sure[q] /\ arch'[q] = arch[q] /\ pc[q] # "idle"
        /\ pc'[q] = "spawn" => pc[q] = "spawn"
        /\ pc'[q] \in Loop => pc[q] \in Loop
    BY <1>4 DEF LinksInv, LinksTypeOK, Next, vars, home, history, Goto, Begin, Install,
       Bootstrap, Look, Make, Lose, Service, NextPass, Spawn, Die, Loop
  <2>2. client[a] /\ client'[a]
    BY <1>1, <2>1, NothingIsRemoved DEF LinksInv
  <2>3. pc'[q] = "spawn" \/ (pc'[q] \in Loop /\ arch'[q] = "linux64" /\ a = "linux32")
          => SeenTo(a)
    BY <2>1 DEF LinksInv, PassesDone
  <2> QED
    BY <1>1, <2>2, <2>3, SeenStays
<1> QED
  BY <1>2, <1>3, <1>4

-----------------------------------------------------------------------------
\* What p carries it carries still, has seen to, or has lost to one that carries
\* it; unless it dies over it, and then nobody owes it any more.
LEMMA CarriedOn ==
  ASSUME LinksInv, [Next]_vars, NEW a \in Archs, due'[a], client[a],
         NEW p \in Procs, Carries(p, a), ~service'[a]
  PROVE  \E q \in Procs : Carries(q, a)'
<1>1. /\ LinksTypeOK /\ Heads(p, a) /\ (pc[p] = "make" => link[arch[p]] = "missing")
      /\ arch[p] \in Archs
  BY DEF LinksInv, LinksTypeOK, Carries
<1>2. ASSUME NEW q \in Procs, Make(q), arch[q] = arch[p]
      PROVE  Carries(q, a)'
  <2>1. pc'[q] = "service" /\ arch'[q] = arch[p]
    BY <1>1, <1>2 DEF Make, Goto, LinksTypeOK
  <2>2. arch[p] = a \/ arch[p] = "linux32"
    BY <1>1 DEF Heads
  <2> QED
    BY <2>1, <2>2 DEF Carries, Heads, Loop
<1>3. CASE \E q \in Procs : Make(q) /\ arch[q] = arch[p]
  BY <1>2, <1>3
<1>4. ASSUME Service(p) PROVE Carries(p, a)'
  <2>1. arch[p] = a => SeenTo(a)' /\ ~refused'[a]
    <3> SUFFICES ASSUME arch[p] = a PROVE SeenTo(a)' /\ ~refused'[a]
      OBVIOUS
    <3>1. SeenTo(a)'
      BY <1>4, ServiceSees
    <3>2. due'[a] = (due[a] /\ ~refused'[a])
      BY <1>1, <1>4 DEF Service, LinksTypeOK
    <3> QED
      BY <3>1, <3>2
  <2>2. arch[p] # a
    BY <2>1 DEF SeenTo
  <2>3. arch[p] = "linux32" /\ a = "linux64"
    BY <1>1, <2>2 DEF Heads, Archs
  <2>4. pc'[p] = "link" /\ arch'[p] = "linux64"
    <3>1. NextPass(p)
      BY <1>4 DEF Service
    <3> QED
      BY <1>1, <2>3, <3>1 DEF NextPass, Goto, LinksTypeOK
  <2> QED
    BY <2>3, <2>4 DEF Carries, Heads, Loop
<1>5. ASSUME Die(p) PROVE FALSE
  BY <1>1, <1>5 DEF Die, LinksTypeOK
<1>6. ASSUME Lose(p) PROVE FALSE
  BY <1>1, <1>6 DEF Lose
<1>7. ASSUME Look(p) PROVE Carries(p, a)'
  BY <1>1, <1>7 DEF Look, LinkIsThere, Goto, home, Carries, Heads, Loop, LinksTypeOK
<1>8. ASSUME Make(p) PROVE Carries(p, a)'
  BY <1>2, <1>8
<1>9. CASE /\ ~ \E q \in Procs : Make(q) /\ arch[q] = arch[p]
           /\ ~(Service(p) \/ Die(p) \/ Lose(p) \/ Look(p) \/ Make(p))
  <2>1. pc[p] \in Loop
    BY <1>1 DEF Heads
  <2>2. pc'[p] = pc[p] /\ arch'[p] = arch[p]
    BY <1>1, <1>9, <2>1 DEF LinksTypeOK, Next, vars, home, history, Goto, Begin, Install,
       Bootstrap, Look, Make, Lose, Service, NextPass, Spawn, Die, Loop
  <2>3. link'[arch[p]] = link[arch[p]]
    BY <1>1, <1>9 DEF LinksTypeOK, Next, vars, home, history, Begin, Install,
       Bootstrap, Look, Make, Lose, Service, Spawn, Die
  <2> QED
    BY <1>1, <2>2, <2>3 DEF Carries, Heads
<1> QED
  BY <1>3, <1>4, <1>5, <1>6, <1>7, <1>8, <1>9

\* Every step leaves what is due with somebody.
LEMMA DueStep == LinksInv /\ [Next]_vars => DueAreCarried'
<1> SUFFICES ASSUME LinksInv, [Next]_vars, NEW a \in Archs, due'[a]
             PROVE  client'[a] /\ (service'[a] \/ \E p \in Procs : Carries(p, a)')
  BY DEF DueAreCarried
<1>1. CASE \E p \in Procs : Bootstrap(p) /\ client'[a]
  <2> PICK p \in Procs : Bootstrap(p) /\ client'[a]
    BY <1>1
  <2>1. pc'[p] = "link" /\ arch'[p] = "linux32"
    BY DEF Bootstrap, Goto, LinksInv, LinksTypeOK
  <2> QED
    BY <2>1 DEF Carries, Heads, Loop
<1>2. CASE ~ \E p \in Procs : Bootstrap(p) /\ client'[a]
  <2>1. due[a]
    BY <1>2 DEF LinksInv, LinksTypeOK, Next, vars, home, history, Begin, Install, Bootstrap,
       Look, Make, Lose, Service, Spawn, Die
  <2>2. client[a] /\ (service[a] \/ \E p \in Procs : Carries(p, a))
    BY <2>1 DEF LinksInv, DueAreCarried
  <2>3. client'[a] /\ (service[a] => service'[a])
    BY <2>2, NothingIsRemoved DEF LinksInv
  <2> QED
    BY <2>2, <2>3, CarriedOn
<1> QED
  BY <1>1, <1>2

\* The invariant, for any number of processes: every property below follows.
THEOREM LinksInvariant == Spec => []LinksInv
<1>1. LinksInv /\ [Next]_vars => LinksInv'
  BY LinksTypeStep, LinkedStep, PassesStep, LostStep, DueStep DEF LinksInv
<1> QED
  BY LinksInvInit, <1>1, PTL DEF Spec

\* Types, of the home directory and of every process.
THEOREM LinksTypeCorrect == Spec => []LinksTypeOK
<1>1. LinksInv => LinksTypeOK
  BY DEF LinksInv
<1> QED
  BY <1>1, LinksInvariant, PTL

\* A server that is spawned has an alias, or had it refused, beside each library
\* that its start found or fetched, however many processes link at once.
THEOREM ServerHasItsService == Spec => []ServiceAtSpawn
<1>1. LinksInv => ServiceAtSpawn
  BY DEF LinksInv, PassesDone, ServiceAtSpawn, SeenTo
<1> QED
  BY <1>1, LinksInvariant, PTL

\* Whoever loses a race loses it to a process that does what it would have done.
THEOREM EveryAliasIsMade == Spec => []NoneIsForgotten
<1>1. LinksInv => NoneIsForgotten
  BY DEF LinksInv, DueAreCarried, Carries, Heads, NoneIsForgotten
<1> QED
  BY <1>1, LinksInvariant, PTL

\* A race for a link is lost once at most.
THEOREM RacesAreLostOnce == Spec => []NoRaceIsLostTwice
<1>1. LinksInv => NoRaceIsLostTwice
  BY DEF LinksInv, LostAreThere, NoRaceIsLostTwice
<1> QED
  BY <1>1, LinksInvariant, PTL

=============================================================================
