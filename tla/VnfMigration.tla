---------------------------- MODULE VnfMigration ----------------------------
(***************************************************************************)
(* The migration of a VNF from one switch to another: the request handler  *)
(* migrate_VNF of mininet_script/DockerTopo/mininet_rest.py, the script    *)
(* mn.sh it calls, and what they ask of containernet and of docker.        *)
(*                                                                         *)
(* The switches are containers too, but share the docker daemon of the     *)
(* machine (DockerNodes.py:76), so that the image a VNF is committed to is *)
(* there whether or not its archive reaches the other switch.  The script  *)
(* goes on after a command that fails, and the handler after a script that *)
(* fails.  The server handles one request at a time (ClosTree.py:208); the *)
(* VNF goes on working meanwhile, until it is stopped.                     *)
(*                                                                         *)
(* Every update of a VNF's file system is a new version.  ARP entries,     *)
(* routes, and the ports of containers are left out.                       *)
(***************************************************************************)
EXTENDS Integers, Sequences, FiniteSets

CONSTANTS
    Switch, Vnf,
    Home,        \* VNF -> the switch it starts at
    MaxVersion,  \* bound on the updates of a VNF
    MaxFailures  \* bound on the commands that fail

ASSUME VnfMigrationAssumption ==
    /\ Home \in [Vnf -> Switch]
    /\ MaxVersion \in Nat /\ MaxFailures \in Nat

VARIABLES
    container,  \* VNF -> "none", "running" or "stopped"
    content,    \* the version in its file system
    newest,     \* the newest version the VNF ever made
    image,      \* the version in the image mn.<vnf>:latest, or None
    archive,    \* switch -> VNF -> the version in its archive in /root
    node,       \* the VNF is one of the hosts of the network
    links,      \* VNF -> switch -> number of links
    orphans,    \* VNFs that links of an object no longer in the network end at
    addressed,  \* both interfaces of the VNF have its addresses
    pc,         \* the step of the request, 0 between two
    request,    \* [vnf, src, tar]
    hurt,       \* VNF -> what failed on its migrations
    failures

dockerVars == <<container, content, newest, image, archive>>
netVars == <<node, links, orphans, addressed>>
faultVars == <<hurt, failures>>
vars == <<dockerVars, netVars, pc, request, faultVars>>

Version == 0 .. MaxVersion
None == -1   \* no image, no archive
Empty == -2  \* an archive with nothing in it

\* What a migration does: with the script of src/mn.sh, with a script that
\* removes too early, and with the one beside mininet_rest.py.
StepsCommitFirst == <<"commit", "stop", "save", "rsync", "rm_archive", "rm", "load",
                      "unlink", "remove", "add", "link", "link", "address">>
StepsRemoveFirst == <<"stop", "rm", "commit", "save", "rsync", "rm_archive", "load",
                      "unlink", "remove", "add", "link", "link", "address">>
Steps == <<"stop", "commit", "save", "rsync", "rm_archive", "rm", "load",
           "unlink", "remove", "add", "link", "link", "address">>
LoadStep == 7

v == request.vnf

At(c) == pc # 0 /\ Steps[pc] = c
Advance == pc' = pc + 1 /\ UNCHANGED request
Ends == pc' = 0 /\ UNCHANGED request

Init ==
    /\ container = [u \in Vnf |-> "running"]
    /\ content = [u \in Vnf |-> 0] /\ newest = content
    /\ image = [u \in Vnf |-> None]
    /\ archive = [s \in Switch |-> [u \in Vnf |-> None]]
    /\ node = [u \in Vnf |-> TRUE]
    /\ links = [u \in Vnf |-> [s \in Switch |-> IF s = Home[u] THEN 2 ELSE 0]]
    /\ orphans = {}
    /\ addressed = [u \in Vnf |-> TRUE]
    /\ pc = 0
    /\ request \in [vnf : Vnf, src : Switch, tar : Switch]
    /\ hurt = [u \in Vnf |-> {}] /\ failures = 0

\* A VNF that is running updates its file system.
Update(u) ==
    /\ container[u] = "running"
    /\ newest[u] < MaxVersion
    /\ newest' = [newest EXCEPT ![u] = @ + 1]
    /\ content' = [content EXCEPT ![u] = newest[u] + 1]
    /\ UNCHANGED <<container, image, archive, netVars, pc, request, faultVars>>

\* A request: the names it looks up are there, or it raises at once.  Whether
\* the VNF is at the switch src is not looked at.
Migrate(u, s, t) ==
    /\ pc = 0
    /\ node[u]
    /\ pc' = 1
    /\ request' = [vnf |-> u, src |-> s, tar |-> t]
    /\ hurt' = [hurt EXCEPT ![u] = IF links[u][s] = 0 THEN @ \cup {"source"} ELSE @]
    /\ UNCHANGED <<dockerVars, netVars, failures>>

-----------------------------------------------------------------------------
\* mn.sh.

\* A command fails when it has nothing to work on, or for a reason of its own.
Outcome(c, ok, possible) ==
    /\ ok => possible
    /\ IF ok \/ ~possible THEN UNCHANGED faultVars
       ELSE /\ failures < MaxFailures
            /\ failures' = failures + 1
            /\ hurt' = [hurt EXCEPT ![v] = @ \cup {c}]

\* docker exec fails: nothing of what was to be done in the switch src is done.
NoExec ==
    /\ pc = 1
    /\ Outcome("exec", FALSE, TRUE)
    /\ pc' = LoadStep
    /\ UNCHANGED <<request, dockerVars, netVars>>

Stop(ok) ==
    /\ At("stop")
    /\ Outcome("stop", ok, container[v] = "running")
    /\ container' = IF ok THEN [container EXCEPT ![v] = "stopped"] ELSE container
    /\ Advance
    /\ UNCHANGED <<content, newest, image, archive, netVars>>

Commit(ok) ==
    /\ At("commit")
    /\ Outcome("commit", ok, container[v] # "none")
    /\ image' = IF ok THEN [image EXCEPT ![v] = content[v]] ELSE image
    /\ Advance
    /\ UNCHANGED <<container, content, newest, archive, netVars>>

\* The shell has made the archive before docker save can fail.
Save(ok) ==
    /\ At("save")
    /\ Outcome("save", ok, image[v] # None)
    /\ archive' = [archive EXCEPT ![request.src][v] = IF ok THEN image[v] ELSE Empty]
    /\ Advance
    /\ UNCHANGED <<container, content, newest, image, netVars>>

\* An archive of an earlier migration is still there when rsync fails, as
\* nothing removes it after docker load.
Rsync(ok) ==
    /\ At("rsync")
    /\ Outcome(IF archive[request.tar][v] \in Version THEN "stale" ELSE "rsync", ok, TRUE)
    /\ archive' = IF ok THEN [archive EXCEPT ![request.tar][v] = archive[request.src][v]]
                  ELSE archive
    /\ Advance
    /\ UNCHANGED <<container, content, newest, image, netVars>>

RemoveArchive(ok) ==
    /\ At("rm_archive")
    /\ Outcome("rm_archive", ok, TRUE)
    /\ archive' = IF ok THEN [archive EXCEPT ![request.src][v] = None] ELSE archive
    /\ Advance
    /\ UNCHANGED <<container, content, newest, image, netVars>>

\* docker container rm removes no running container.
RemoveContainer(ok) ==
    /\ At("rm")
    /\ Outcome("rm", ok, container[v] = "stopped")
    /\ container' = IF ok THEN [container EXCEPT ![v] = "none"] ELSE container
    /\ Advance
    /\ UNCHANGED <<content, newest, image, archive, netVars>>

\* In the switch tar: the image gets the name mn.<vnf>:latest, whatever had it.
Load(ok) ==
    /\ At("load")
    /\ Outcome("load", ok, archive[request.tar][v] \in Version)
    /\ image' = IF ok THEN [image EXCEPT ![v] = archive[request.tar][v]] ELSE image
    /\ Advance
    /\ UNCHANGED <<container, content, newest, archive, netVars>>

-----------------------------------------------------------------------------
\* The rest of migrate_VNF.

\* What removeLink, called twice, leaves of n links: none it cannot find, where
\* it does not look, and where it is called once.
LessTwo(n) == n - 2
LessOne(n) == IF n > 1 THEN n - 1 ELSE 0
Unlinked(n) == IF n > 2 THEN n - 2 ELSE 0

Unlink ==
    /\ At("unlink")
    /\ links' = [links EXCEPT ![v][request.src] = Unlinked(@)]
    /\ Advance
    /\ UNCHANGED <<dockerVars, node, orphans, addressed, faultVars>>

\* The containers terminate removes: without force, and as it is, those that run.
RemovedUnforced(c) == FALSE
RemovedByForce(c) == c = "running"

\* removeDocker: terminate does nothing about a container that is not running.
RemoveDocker(ok) ==
    /\ At("remove")
    /\ Outcome("remove", ok, RemovedByForce(container[v]))
    /\ container' = IF ok THEN [container EXCEPT ![v] = "none"] ELSE container
    /\ node' = [node EXCEPT ![v] = FALSE]
    /\ orphans' = IF \E s \in Switch : links[v][s] > 0 THEN orphans \cup {v} ELSE orphans
    /\ links' = [links EXCEPT ![v] = [s \in Switch |-> 0]]
    /\ Advance
    /\ UNCHANGED <<content, newest, image, archive, addressed>>

\* addDocker: a new container and a new host, or an exception that ends the
\* request: if there is no image, if the name is taken, or from any step of
\* Docker.__init__, after which a container may be left under the name.
AddDocker(ok) ==
    LET possible == image[v] # None /\ container[v] = "none"
        left     == IF ok THEN {"running"}
                    ELSE IF possible THEN {"none", "stopped", "running"} ELSE {container[v]}
    IN  /\ At("add")
        /\ Outcome("add", ok, possible)
        /\ \E c \in left :
              /\ container' = [container EXCEPT ![v] = c]
              /\ content' = IF possible /\ c # "none" THEN [content EXCEPT ![v] = image[v]]
                            ELSE content
        /\ IF ok THEN node' = [node EXCEPT ![v] = TRUE] /\ Advance
           ELSE UNCHANGED node /\ Ends
        /\ UNCHANGED <<newest, image, archive, links, orphans, addressed>>

\* addLink raises when the pair of interfaces cannot be made.
AddLink(ok) ==
    /\ At("link")
    /\ Outcome("link", ok, TRUE)
    /\ IF ok THEN links' = [links EXCEPT ![v][request.tar] = @ + 1] /\ Advance
       ELSE UNCHANGED links /\ Ends
    /\ addressed' = IF ok THEN addressed ELSE [addressed EXCEPT ![v] = FALSE]
    /\ UNCHANGED <<dockerVars, node, orphans>>

\* setIP with the addresses of the old interfaces: it raises where there was no
\* such interface, or where it had no address.
SetAddresses ==
    /\ At("address")
    /\ Ends
    /\ UNCHANGED <<dockerVars, netVars, faultVars>>

-----------------------------------------------------------------------------

Script ==
    \/ NoExec
    \/ \E ok \in BOOLEAN : \/ Stop(ok) \/ Commit(ok) \/ Save(ok) \/ Rsync(ok)
                           \/ RemoveArchive(ok) \/ RemoveContainer(ok) \/ Load(ok)

Handler ==
    \/ Unlink \/ SetAddresses
    \/ \E ok \in BOOLEAN : RemoveDocker(ok) \/ AddDocker(ok) \/ AddLink(ok)

Next ==
    \/ \E u \in Vnf : Update(u) \/ \E s, t \in Switch : Migrate(u, s, t)
    \/ Script
    \/ Handler

Spec == Init /\ [][Next]_vars

-----------------------------------------------------------------------------

Kind == {"exec", "stop", "commit", "save", "stale", "rsync", "rm_archive", "rm", "load",
         "remove", "add", "link", "source"}

TypeOK ==
    /\ container \in [Vnf -> {"none", "running", "stopped"}]
    /\ content \in [Vnf -> Version] /\ newest \in [Vnf -> Version]
    /\ image \in [Vnf -> Version \cup {None}]
    /\ archive \in [Switch -> [Vnf -> Version \cup {None, Empty}]]
    /\ node \in [Vnf -> BOOLEAN]
    /\ links \in [Vnf -> [Switch -> Nat]]
    /\ orphans \subseteq Vnf
    /\ addressed \in [Vnf -> BOOLEAN]
    /\ pc \in 0 .. Len(Steps)
    /\ request \in [vnf : Vnf, src : Switch, tar : Switch]
    /\ hurt \in [Vnf -> SUBSET Kind]
    /\ failures \in 0 .. MaxFailures

\* What may cost a VNF its state: no other failure does.
Loses == {"exec", "stop", "commit", "stale"}

\* The newest state of a VNF is in its container, its image or an archive all
\* through a migration (mn.sh:11-16), unless it could not be stopped, committed
\* or taken to the other switch over an older archive.
StateKept == \A u \in Vnf :
    \/ container[u] # "none" /\ content[u] = newest[u]
    \/ image[u] = newest[u]
    \/ hurt[u] \cap Loses # {}

\* A VNF that runs again has its newest state.
ResumesNewest == \A u \in Vnf :
    container[u] = "running" => content[u] = newest[u] \/ hurt[u] \cap Loses # {}

\* Between two requests a VNF has its two links to one switch and its addresses
\* (mininet_rest.py:249-264), unless a link failed or a request named the wrong
\* switch; and only then is there a link that ends nowhere.
LinkedTwice == \A u \in Vnf :
    pc = 0 /\ hurt[u] \cap {"link", "source"} = {} =>
        /\ u \notin orphans
        /\ addressed[u]
        /\ node[u] => \E s \in Switch : \A t \in Switch : links[u][t] = IF t = s THEN 2 ELSE 0

\* A VNF is only missing from the network if its container could not be removed
\* by the script or the handler, could not be committed, or could not be made.
StaysInNetwork == \A u \in Vnf :
    pc = 0 /\ ~node[u] => hurt[u] \cap {"exec", "commit", "rm", "remove", "add"} # {}
=============================================================================
