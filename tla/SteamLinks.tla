----------------------------- MODULE SteamLinks -----------------------------
(***************************************************************************)
(* setup_steam_client_symlinks (cli/src/utils/setup.rs) in several          *)
(* processes of one container at once: the script's setup and start, a      *)
(* job's start, and whatever `docker exec` adds.  They share the home       *)
(* directory and no lock; that a link is looked for and that it is made are *)
(* two system calls.                                                        *)
(***************************************************************************)
CONSTANT Procs  \* processes of `enshrouded`

Archs == {"linux32", "linux64"}

VARIABLES
  client,   \* arch: steamcmd has put its libraries in place
  link,     \* arch: ~/.steam/sdk32 and sdk64
  service,  \* arch: the link leads to a steamservice.so
  pc, arch, \* each process: where it is, in which pass of the loop
  sure,     \* history, each process: the libraries in place as it set out
  lost,     \* history, each process: the links it found taken as it made them
  refused,  \* history, arch: the last alias could not be made beside a library
  due       \* history, arch: a process has set out to see to its alias

home == <<client, link, service>>
history == <<sure, lost, refused, due>>
vars == <<home, pc, arch, history>>

Loop == {"link", "make", "service"}

LinksTypeOK ==
  /\ client \in [Archs -> BOOLEAN]
  /\ link \in [Archs -> {"missing", "ours", "other"}]
  /\ service \in [Archs -> BOOLEAN]
  /\ pc \in [Procs -> Loop \cup {"idle", "steamcmd", "client", "spawn"}]
  /\ arch \in [Procs -> Archs]
  /\ sure \in [Procs -> SUBSET Archs]
  /\ lost \in [Procs -> SUBSET Archs]
  /\ refused \in [Archs -> BOOLEAN]
  /\ due \in [Archs -> BOOLEAN]

InPlace == {a \in Archs : client[a]}

\* A container as it was created: no links, unless something is mounted there,
\* and steamcmd's libraries if the image has them.
Init ==
  /\ client \in [Archs -> BOOLEAN]
  /\ link \in [Archs -> {"missing", "other"}]
  /\ service = [a \in Archs |-> FALSE]
  /\ pc = [p \in Procs |-> "idle"]
  /\ arch = [p \in Procs |-> "linux32"]
  /\ sure = [p \in Procs |-> {}]
  /\ lost = [p \in Procs |-> {}]
  /\ refused = [a \in Archs |-> FALSE]
  /\ due = [a \in Archs |-> FALSE]

-----------------------------------------------------------------------------
Goto(p, step) == pc' = [pc EXCEPT ![p] = step]

\* p has yet to see to the alias of a.
Heads(p, a) == pc[p] \in Loop /\ (arch[p] = a \/ arch[p] = "linux32")

\* p is killed, or its command ends with an error that no other is the cause of
\* (a directory or a link cannot be made, Proton is not there).
Die(p) ==
  /\ pc[p] # "idle"
  /\ Goto(p, "idle")
  /\ due' = [a \in Archs |-> due[a] /\ ~Heads(p, a)]
  /\ UNCHANGED <<home, arch, sure, lost, refused>>

BeginSpawnAtOnce(p) ==     \* variant: start leaves the links to setup
  /\ pc[p] = "idle"
  /\ \E step \in {"steamcmd", "client", "spawn"} : Goto(p, step)
  /\ sure' = [sure EXCEPT ![p] = InPlace]
  /\ UNCHANGED <<home, arch, lost, refused, due>>

\* install or update run steamcmd; setup, and a start through Proton, link.
Begin(p) ==
  /\ pc[p] = "idle"
  /\ \E step \in {"steamcmd", "client"} : Goto(p, step)
  /\ sure' = [sure EXCEPT ![p] = InPlace]
  /\ UNCHANGED <<home, arch, lost, refused, due>>

\* steamcmd may put its libraries in place, whatever else it achieves.
Steamcmd ==
  \E c \in [Archs -> BOOLEAN] :
    /\ \A a \in Archs : client[a] => c[a]
    /\ client' = c

Install(p) ==
  /\ pc[p] = "steamcmd"
  /\ Steamcmd
  /\ Goto(p, "idle")
  /\ UNCHANGED <<link, service, arch, history>>

\* `steamcmd +quit` unless the library of linux64 is there; how it ends is
\* not looked at.
Bootstrap(p) ==
  /\ pc[p] = "client"
  /\ IF client["linux64"] THEN UNCHANGED client ELSE Steamcmd
  /\ Goto(p, "link")
  /\ arch' = [arch EXCEPT ![p] = "linux32"]
  /\ sure' = [sure EXCEPT ![p] = InPlace']
  /\ due' = [a \in Archs |-> due[a] \/ client'[a]]
  /\ UNCHANGED <<link, service, lost, refused>>

\* A link of ours leads to what steamcmd has put there, once it has.
LeadsSomewhere(a) == link[a] = "other" \/ (link[a] = "ours" /\ client[a])

FollowsLink(a) == LeadsSomewhere(a)  \* variant: exists(), which a dangling link fails

\* symlink_metadata(&sdk_link).is_ok()
LinkIsThere(a) == link[a] # "missing"

\* After the pass for linux64 a setup is done, and a start goes on.
NextPass(p) ==
  IF arch[p] = "linux32"
  THEN Goto(p, "link") /\ arch' = [arch EXCEPT ![p] = "linux64"]
  ELSE (Goto(p, "idle") \/ Goto(p, "spawn")) /\ UNCHANGED arch

LookOnce(p) ==             \* variant: a link that is there ends its pass
  /\ pc[p] = "link"
  /\ IF LinkIsThere(arch[p]) THEN NextPass(p) ELSE Goto(p, "make") /\ UNCHANGED arch
  /\ UNCHANGED <<home, history>>

Look(p) ==
  /\ pc[p] = "link"
  /\ Goto(p, IF LinkIsThere(arch[p]) THEN "service" ELSE "make")
  /\ UNCHANGED <<home, arch, history>>

\* symlink(..)?, for a name that is still free.
Make(p) ==
  /\ pc[p] = "make"
  /\ link[arch[p]] = "missing"
  /\ link' = [link EXCEPT ![arch[p]] = "ours"]
  /\ Goto(p, "service")
  /\ UNCHANGED <<client, service, arch, history>>

\* EEXIST: another process has made it since; the error ends this one's command.
Lose(p) ==
  /\ pc[p] = "make"
  /\ link[arch[p]] # "missing"
  /\ Goto(p, "idle")
  /\ lost' = [lost EXCEPT ![p] = @ \cup {arch[p]}]
  /\ UNCHANGED <<home, arch, sure, refused, due>>

\* The alias, through the link.  No error of it is looked at: it fails where the
\* link leads to nothing, and may fail anywhere.
Service(p) ==
  /\ pc[p] = "service"
  /\ LET a == arch[p] IN
     /\ \/ LeadsSomewhere(a) /\ service' = [service EXCEPT ![a] = TRUE]
        \/ UNCHANGED service
     /\ refused' = [refused EXCEPT ![a] = LeadsSomewhere(a) /\ ~service'[a]]
     /\ due' = [due EXCEPT ![a] = @ /\ ~refused'[a]]
  /\ NextPass(p)
  /\ UNCHANGED <<client, link, sure, lost>>

Spawn(p) ==
  /\ pc[p] = "spawn"
  /\ Goto(p, "idle")
  /\ UNCHANGED <<home, arch, history>>

Next ==
  \E p \in Procs :
    \/ Begin(p)
    \/ Install(p)
    \/ Bootstrap(p)
    \/ Look(p)
    \/ Make(p)
    \/ Lose(p)
    \/ Service(p)
    \/ Spawn(p)
    \/ Die(p)

Spec == Init /\ [][Next]_vars

-----------------------------------------------------------------------------
(***************************************************************************)
(* Properties.                                                             *)
(***************************************************************************)

\* The links are seen to again before every server ("Retry", setup.rs:271-275):
\* beside each library that was in place when the start set out there is a
\* steamservice.so, unless the file system refused it, whatever steamcmd and
\* however many other processes did meanwhile.
ServiceAtSpawn ==
  \A p \in Procs : pc[p] = "spawn" => \A a \in sure[p] : service[a] \/ refused[a]

\* Two that begin at once may both find no link, and one of them is refused it
\* (setup.rs:121).  No alias is forgotten for that: when nobody is at work any
\* more, whatever some process had set out to see to has been seen to, unless one
\* was killed over it.
NoneIsForgotten ==
  (\A p \in Procs : pc[p] \notin Loop) => \A a \in Archs : due[a] => service[a]

\* The error ends a start, so that one must not come back: a process that has lost the
\* race for a link finds it there ever after, dangling or not (setup.rs:112-114).
NoRaceIsLostTwice ==
  \A p \in Procs : pc[p] = "make" => arch[p] \notin lost[p]

=============================================================================
