------------------------- MODULE VnfMigrationProofs -------------------------
(***************************************************************************)
(* What may cost a VNF its state on a migration: proofs for any switches,  *)
(* VNFs and numbers of updates and failures.                               *)
(***************************************************************************)
EXTENDS VnfMigration, TLAPS

\* The numbers of the steps.
LEMMA StepNumbers ==
    ASSUME pc \in 0 .. 13
    PROVE  /\ At("stop") <=> pc = 1
           /\ At("commit") <=> pc = 2
           /\ At("save") <=> pc = 3
           /\ At("rsync") <=> pc = 4
           /\ At("rm_archive") <=> pc = 5
           /\ At("rm") <=> pc = 6
           /\ At("load") <=> pc = 7
           /\ At("unlink") <=> pc = 8
           /\ At("remove") <=> pc = 9
           /\ At("add") <=> pc = 10
           /\ At("link") <=> pc \in {11, 12}
           /\ At("address") <=> pc = 13
BY DEF At, Steps

\* The part of TypeOK that a VNF's state turns on.
StateTypes ==
    /\ container \in [Vnf -> {"none", "running", "stopped"}]
    /\ content \in [Vnf -> Version] /\ newest \in [Vnf -> Version]
    /\ image \in [Vnf -> Version \cup {None}]
    /\ archive \in [Switch -> [Vnf -> Version \cup {None, Empty}]]
    /\ node \in [Vnf -> BOOLEAN]
    /\ pc \in 0 .. 13
    /\ request \in [vnf : Vnf, src : Switch, tar : Switch]
    /\ hurt \in [Vnf -> SUBSET Kind]

\* Nothing that could cost u its state has failed.
Unhurt(u) == hurt[u] \cap Loses = {}

\* The migration of u is under way.
Moving(u) == pc # 0 /\ request.vnf = u

\* Where the newest state of u is at each step.
Kept(u) ==
    /\ container[u] # "none" => content[u] = newest[u]
    /\ container[u] = "none" => image[u] = newest[u]
    /\ node[u] /\ pc = 0 => container[u] = "running"
    /\ Moving(u) =>
        /\ pc = 1 => container[u] = "running"
        /\ pc \in 2 .. 6 => container[u] = "stopped"
        /\ pc \in 7 .. 10 => container[u] # "running"
        /\ pc \in 3 .. 10 => image[u] = newest[u]
        /\ pc \in {4, 5} => archive[request.src][u] \in {newest[u], Empty}
        /\ pc \in 5 .. 7 => archive[request.tar][u] \in {newest[u], Empty, None}
        /\ pc = 10 => ~node[u]
        /\ pc \in 11 .. 13 => container[u] = "running"
    /\ ~Moving(u) /\ node[u] => container[u] = "running"

KeptInv == StateTypes /\ \A u \in Vnf : Unhurt(u) => Kept(u)

LEMMA KeptInit == Init => KeptInv
<1> SUFFICES ASSUME Init PROVE KeptInv
  OBVIOUS
<1>1. StateTypes
  BY VnfMigrationAssumption DEF Init, StateTypes, Version
<1>2. ASSUME NEW u \in Vnf  PROVE Kept(u)
  BY VnfMigrationAssumption DEF Init, Kept, Moving
<1> QED  BY <1>1, <1>2 DEF KeptInv

-----------------------------------------------------------------------------
\* One lemma for each step of a migration.

\* What failed is only added to, and only for the VNF that is moved.
LEMMA HurtGrows ==
    ASSUME StateTypes, NEW c \in Kind, NEW ok, NEW possible, Outcome(c, ok, possible)
    PROVE  /\ hurt' \in [Vnf -> SUBSET Kind]
           /\ \A u \in Vnf : hurt[u] \subseteq hurt'[u]
           /\ \A u \in Vnf : Unhurt(u)' => Unhurt(u)
           /\ hurt'[v] \cap Loses = {} /\ c \in Loses => ok \/ ~possible
           /\ ok => possible
<1>1. v \in Vnf  BY DEF StateTypes, v
<1>2. hurt' = hurt \/ hurt' = [hurt EXCEPT ![v] = @ \cup {c}]
  BY DEF Outcome, faultVars
<1>3. hurt' \in [Vnf -> SUBSET Kind] /\ \A u \in Vnf : hurt[u] \subseteq hurt'[u]
  <2>1. CASE hurt' = hurt
    BY <2>1 DEF StateTypes
  <2>2. CASE hurt' = [hurt EXCEPT ![v] = @ \cup {c}]
    <3>1. hurt'[v] = hurt[v] \cup {c} /\ \A u \in Vnf \ {v} : hurt'[u] = hurt[u]
      BY <1>1, <2>2 DEF StateTypes
    <3>2. hurt[v] \cup {c} \in SUBSET Kind  BY <1>1 DEF StateTypes
    <3>3. hurt' \in [Vnf -> SUBSET Kind]  BY <2>2, <3>2 DEF StateTypes
    <3> QED  BY <3>1, <3>3
  <2> QED  BY <1>2, <2>1, <2>2
<1>4. \A u \in Vnf : Unhurt(u)' => Unhurt(u)
  BY <1>3 DEF Unhurt
<1>5. ok \/ ~possible \/ c \in hurt'[v]
  <2> SUFFICES ASSUME ~ok, possible  PROVE c \in hurt'[v]
    OBVIOUS
  <2>1. hurt' = [hurt EXCEPT ![v] = @ \cup {c}]  BY DEF Outcome
  <2> QED  BY <1>1, <2>1 DEF StateTypes
<1> QED  BY <1>3, <1>4, <1>5 DEF Outcome, Unhurt, Loses

\* docker exec fails: the VNF is hurt.
LEMMA KeptNoExec ==
    ASSUME KeptInv, NoExec
    PROVE  KeptInv'
<1> USE DEF KeptInv, StateTypes
<1>1. pc = 1 /\ v \in Vnf /\ v = request.vnf /\ request.src \in Switch /\ request.tar \in Switch
  BY StepNumbers DEF NoExec, v
<1>2. pc' \in 0 .. 13 /\ request' = request
  BY <1>1 DEF NoExec, Advance, Ends, LoadStep
<1>3. /\ hurt' \in [Vnf -> SUBSET Kind]
      /\ \A u \in Vnf : Unhurt(u)' => Unhurt(u)
  BY HurtGrows DEF NoExec, Kind
<1>4. hurt'[v] \cap Loses # {}
  BY HurtGrows DEF NoExec, Kind, Loses
<1>5. StateTypes'
  BY <1>1, <1>2, <1>3, <1>4 DEF NoExec, dockerVars, netVars
<1>6. ASSUME NEW u \in Vnf, Unhurt(u)'  PROVE Kept(u)'
  <2>1. Kept(u)  BY <1>3, <1>6 DEF Unhurt
  <2>2. CASE u # v
    BY <1>1, <1>2, <2>1, <2>2 DEF NoExec, Kept, Moving, dockerVars, netVars
  <2>3. CASE u = v
    BY <1>1, <1>2, <1>6, <1>4, <2>1, <2>3
       DEF Unhurt, NoExec, Kept, Moving, Advance, Ends, LoadStep, dockerVars, netVars
  <2> QED  BY <2>2, <2>3
<1> QED  BY <1>5, <1>6

\* The VNF is stopped.
LEMMA KeptStop ==
    ASSUME KeptInv, NEW ok \in BOOLEAN, Stop(ok)
    PROVE  KeptInv'
<1> USE DEF KeptInv, StateTypes
<1>1. pc = 1 /\ v \in Vnf /\ v = request.vnf /\ request.src \in Switch /\ request.tar \in Switch
  BY StepNumbers DEF Stop, v
<1>2. pc' \in 0 .. 13 /\ request' = request
  BY <1>1 DEF Stop, Advance, Ends, LoadStep
<1>3. /\ hurt' \in [Vnf -> SUBSET Kind]
      /\ \A u \in Vnf : Unhurt(u)' => Unhurt(u)
  BY HurtGrows DEF Stop, Kind
<1>4. hurt'[v] \cap Loses = {} => ok \/ container[v] # "running"
  BY HurtGrows DEF Stop, Kind, Loses
<1>5. StateTypes'
  BY <1>1, <1>2, <1>3, <1>4 DEF Stop, dockerVars, netVars
<1>6. ASSUME NEW u \in Vnf, Unhurt(u)'  PROVE Kept(u)'
  <2>1. Kept(u)  BY <1>3, <1>6 DEF Unhurt
  <2>2. CASE u # v
    BY <1>1, <1>2, <2>1, <2>2 DEF Stop, Kept, Moving, dockerVars, netVars
  <2>3. CASE u = v
    BY <1>1, <1>2, <1>6, <1>4, <2>1, <2>3
       DEF Unhurt, Stop, Kept, Moving, Advance, Ends, LoadStep, dockerVars, netVars
  <2> QED  BY <2>2, <2>3
<1> QED  BY <1>5, <1>6

\* The image has the newest version.
LEMMA KeptCommit ==
    ASSUME KeptInv, NEW ok \in BOOLEAN, Commit(ok)
    PROVE  KeptInv'
<1> USE DEF KeptInv, StateTypes
<1>1. pc = 2 /\ v \in Vnf /\ v = request.vnf /\ request.src \in Switch /\ request.tar \in Switch
  BY StepNumbers DEF Commit, v
<1>2. pc' \in 0 .. 13 /\ request' = request
  BY <1>1 DEF Commit, Advance, Ends, LoadStep
<1>3. /\ hurt' \in [Vnf -> SUBSET Kind]
      /\ \A u \in Vnf : Unhurt(u)' => Unhurt(u)
  BY HurtGrows DEF Commit, Kind
<1>4. hurt'[v] \cap Loses = {} => ok \/ container[v] = "none"
  BY HurtGrows DEF Commit, Kind, Loses
<1>5. StateTypes'
  BY <1>1, <1>2, <1>3, <1>4 DEF Commit, dockerVars, netVars
<1>6. ASSUME NEW u \in Vnf, Unhurt(u)'  PROVE Kept(u)'
  <2>1. Kept(u)  BY <1>3, <1>6 DEF Unhurt
  <2>2. CASE u # v
    BY <1>1, <1>2, <2>1, <2>2 DEF Commit, Kept, Moving, dockerVars, netVars
  <2>3. CASE u = v
    BY <1>1, <1>2, <1>6, <1>4, <2>1, <2>3
       DEF Unhurt, Commit, Kept, Moving, Advance, Ends, LoadStep, dockerVars, netVars
  <2> QED  BY <2>2, <2>3
<1> QED  BY <1>5, <1>6

\* The archive has it too, or nothing.
LEMMA KeptSave ==
    ASSUME KeptInv, NEW ok \in BOOLEAN, Save(ok)
    PROVE  KeptInv'
<1> USE DEF KeptInv, StateTypes
<1>1. pc = 3 /\ v \in Vnf /\ v = request.vnf /\ request.src \in Switch /\ request.tar \in Switch
  BY StepNumbers DEF Save, v
<1>2. pc' \in 0 .. 13 /\ request' = request
  BY <1>1 DEF Save, Advance, Ends, LoadStep
<1>3. /\ hurt' \in [Vnf -> SUBSET Kind]
      /\ \A u \in Vnf : Unhurt(u)' => Unhurt(u)
  BY HurtGrows DEF Save, Kind
<1>4. ok => image[v] # None
  BY DEF Save, Outcome
<1>5. StateTypes'
  BY <1>1, <1>2, <1>3, <1>4 DEF Save, dockerVars, netVars
<1>6. ASSUME NEW u \in Vnf, Unhurt(u)'  PROVE Kept(u)'
  <2>1. Kept(u)  BY <1>3, <1>6 DEF Unhurt
  <2>2. CASE u # v
    BY <1>1, <1>2, <2>1, <2>2 DEF Save, Kept, Moving, dockerVars, netVars
  <2>3. CASE u = v
    BY <1>1, <1>2, <1>6, <1>4, <2>1, <2>3
       DEF Unhurt, Save, Kept, Moving, Advance, Ends, LoadStep, dockerVars, netVars
  <2> QED  BY <2>2, <2>3
<1> QED  BY <1>5, <1>6

\* So has the other switch, or it had no archive.
LEMMA KeptRsync ==
    ASSUME KeptInv, NEW ok \in BOOLEAN, Rsync(ok)
    PROVE  KeptInv'
<1> USE DEF KeptInv, StateTypes
<1>1. pc = 4 /\ v \in Vnf /\ v = request.vnf /\ request.src \in Switch /\ request.tar \in Switch
  BY StepNumbers DEF Rsync, v
<1>2. pc' \in 0 .. 13 /\ request' = request
  BY <1>1 DEF Rsync, Advance, Ends, LoadStep
<1>3. /\ hurt' \in [Vnf -> SUBSET Kind]
      /\ \A u \in Vnf : Unhurt(u)' => Unhurt(u)
  BY HurtGrows DEF Rsync, Kind
<1>4. hurt'[v] \cap Loses = {} => ok \/ archive[request.tar][v] \notin Version
  BY HurtGrows DEF Rsync, Kind, Loses
<1>5. StateTypes'
  BY <1>1, <1>2, <1>3, <1>4 DEF Rsync, dockerVars, netVars
<1>6. ASSUME NEW u \in Vnf, Unhurt(u)'  PROVE Kept(u)'
  <2>1. Kept(u)  BY <1>3, <1>6 DEF Unhurt
  <2>2. CASE u # v
    BY <1>1, <1>2, <2>1, <2>2 DEF Rsync, Kept, Moving, dockerVars, netVars
  <2>3. CASE u = v
    BY <1>1, <1>2, <1>6, <1>4, <2>1, <2>3
       DEF Unhurt, Rsync, Kept, Moving, Advance, Ends, LoadStep, dockerVars, netVars
  <2> QED  BY <2>2, <2>3
<1> QED  BY <1>5, <1>6

\* The archive goes; the one at the other switch stays, or is the same.
LEMMA KeptRemoveArchive ==
    ASSUME KeptInv, NEW ok \in BOOLEAN, RemoveArchive(ok)
    PROVE  KeptInv'
<1> USE DEF KeptInv, StateTypes
<1>1. pc = 5 /\ v \in Vnf /\ v = request.vnf /\ request.src \in Switch /\ request.tar \in Switch
  BY StepNumbers DEF RemoveArchive, v
<1>2. pc' \in 0 .. 13 /\ request' = request
  BY <1>1 DEF RemoveArchive, Advance, Ends, LoadStep
<1>3. /\ hurt' \in [Vnf -> SUBSET Kind]
      /\ \A u \in Vnf : Unhurt(u)' => Unhurt(u)
  BY HurtGrows DEF RemoveArchive, Kind
<1>4. StateTypes'
  BY <1>1, <1>2, <1>3 DEF RemoveArchive, dockerVars, netVars
<1>5. ASSUME NEW u \in Vnf, Unhurt(u)'  PROVE Kept(u)'
  <2>1. Kept(u)  BY <1>3, <1>5 DEF Unhurt
  <2>2. CASE u # v
    BY <1>1, <1>2, <2>1, <2>2 DEF RemoveArchive, Kept, Moving, dockerVars, netVars
  <2>3. CASE u = v
    BY <1>1, <1>2, <1>5, <2>1, <2>3
       DEF Unhurt, RemoveArchive, Kept, Moving, Advance, Ends, LoadStep, dockerVars, netVars
  <2> QED  BY <2>2, <2>3
<1> QED  BY <1>4, <1>5

\* The container goes, the image has the newest version.
LEMMA KeptRemoveContainer ==
    ASSUME KeptInv, NEW ok \in BOOLEAN, RemoveContainer(ok)
    PROVE  KeptInv'
<1> USE DEF KeptInv, StateTypes
<1>1. pc = 6 /\ v \in Vnf /\ v = request.vnf /\ request.src \in Switch /\ request.tar \in Switch
  BY StepNumbers DEF RemoveContainer, v
<1>2. pc' \in 0 .. 13 /\ request' = request
  BY <1>1 DEF RemoveContainer, Advance, Ends, LoadStep
<1>3. /\ hurt' \in [Vnf -> SUBSET Kind]
      /\ \A u \in Vnf : Unhurt(u)' => Unhurt(u)
  BY HurtGrows DEF RemoveContainer, Kind
<1>4. ok => container[v] = "stopped"
  BY DEF RemoveContainer, Outcome
<1>5. StateTypes'
  BY <1>1, <1>2, <1>3, <1>4 DEF RemoveContainer, dockerVars, netVars
<1>6. ASSUME NEW u \in Vnf, Unhurt(u)'  PROVE Kept(u)'
  <2>1. Kept(u)  BY <1>3, <1>6 DEF Unhurt
  <2>2. CASE u # v
    BY <1>1, <1>2, <2>1, <2>2 DEF RemoveContainer, Kept, Moving, dockerVars, netVars
  <2>3. CASE u = v
    BY <1>1, <1>2, <1>6, <1>4, <2>1, <2>3
       DEF Unhurt, RemoveContainer, Kept, Moving, Advance, Ends, LoadStep, dockerVars, netVars
  <2> QED  BY <2>2, <2>3
<1> QED  BY <1>5, <1>6

\* The image is loaded from an archive of the newest version, or not at all.
LEMMA KeptLoad ==
    ASSUME KeptInv, NEW ok \in BOOLEAN, Load(ok)
    PROVE  KeptInv'
<1> USE DEF KeptInv, StateTypes
<1>1. pc = 7 /\ v \in Vnf /\ v = request.vnf /\ request.src \in Switch /\ request.tar \in Switch
  BY StepNumbers DEF Load, v
<1>2. pc' \in 0 .. 13 /\ request' = request
  BY <1>1 DEF Load, Advance, Ends, LoadStep
<1>3. /\ hurt' \in [Vnf -> SUBSET Kind]
      /\ \A u \in Vnf : Unhurt(u)' => Unhurt(u)
  BY HurtGrows DEF Load, Kind
<1>4. ok => archive[request.tar][v] \in Version
  BY DEF Load, Outcome
<1>5. StateTypes'
  BY <1>1, <1>2, <1>3, <1>4 DEF Load, dockerVars, netVars
<1>6. ASSUME NEW u \in Vnf, Unhurt(u)'  PROVE Kept(u)'
  <2>1. Kept(u)  BY <1>3, <1>6 DEF Unhurt
  <2>2. CASE u # v
    BY <1>1, <1>2, <2>1, <2>2 DEF Load, Kept, Moving, dockerVars, netVars
  <2>3. CASE u = v
    BY <1>1, <1>2, <1>6, <1>4, <2>1, <2>3
       DEF Unhurt, Load, Kept, Moving, Advance, Ends, LoadStep, dockerVars, netVars,
           Version, None, Empty
  <2> QED  BY <2>2, <2>3
<1> QED  BY <1>5, <1>6

\* The links go.
LEMMA KeptUnlink ==
    ASSUME KeptInv, Unlink
    PROVE  KeptInv'
<1> USE DEF KeptInv, StateTypes
<1>1. pc = 8 /\ v \in Vnf /\ v = request.vnf /\ request.src \in Switch /\ request.tar \in Switch
  BY StepNumbers DEF Unlink, v
<1>2. pc' \in 0 .. 13 /\ request' = request
  BY <1>1 DEF Unlink, Advance, Ends, LoadStep
<1>3. hurt' = hurt
  BY DEF Unlink, faultVars
<1>4. StateTypes'
  BY <1>1, <1>2, <1>3 DEF Unlink, dockerVars, netVars
<1>5. ASSUME NEW u \in Vnf, Unhurt(u)'  PROVE Kept(u)'
  <2>1. Kept(u)  BY <1>3, <1>5 DEF Unhurt
  <2>2. CASE u # v
    BY <1>1, <1>2, <2>1, <2>2 DEF Unlink, Kept, Moving, dockerVars, netVars
  <2>3. CASE u = v
    BY <1>1, <1>2, <1>5, <2>1, <2>3
       DEF Unhurt, Unlink, Kept, Moving, Advance, Ends, LoadStep, dockerVars, netVars
  <2> QED  BY <2>2, <2>3
<1> QED  BY <1>4, <1>5

\* The host goes.
LEMMA KeptRemoveDocker ==
    ASSUME KeptInv, NEW ok \in BOOLEAN, RemoveDocker(ok)
    PROVE  KeptInv'
<1> USE DEF KeptInv, StateTypes
<1>1. pc = 9 /\ v \in Vnf /\ v = request.vnf /\ request.src \in Switch /\ request.tar \in Switch
  BY StepNumbers DEF RemoveDocker, v
<1>2. pc' \in 0 .. 13 /\ request' = request
  BY <1>1 DEF RemoveDocker, Advance, Ends, LoadStep
<1>3. /\ hurt' \in [Vnf -> SUBSET Kind]
      /\ \A u \in Vnf : Unhurt(u)' => Unhurt(u)
  BY HurtGrows DEF RemoveDocker, Kind
<1>4. ok => container[v] = "running"
  BY DEF RemoveDocker, Outcome, RemovedByForce
<1>5. StateTypes'
  BY <1>1, <1>2, <1>3, <1>4 DEF RemoveDocker, dockerVars, netVars
<1>6. ASSUME NEW u \in Vnf, Unhurt(u)'  PROVE Kept(u)'
  <2>1. Kept(u)  BY <1>3, <1>6 DEF Unhurt
  <2>2. CASE u # v
    BY <1>1, <1>2, <2>1, <2>2 DEF RemoveDocker, Kept, Moving, dockerVars, netVars
  <2>3. CASE u = v
    BY <1>1, <1>2, <1>6, <1>4, <2>1, <2>3
       DEF Unhurt, RemoveDocker, Kept, Moving, Advance, Ends, LoadStep, dockerVars, netVars
  <2> QED  BY <2>2, <2>3
<1> QED  BY <1>5, <1>6

\* The new container has the version of the image.
LEMMA KeptAddDocker ==
    ASSUME KeptInv, NEW ok \in BOOLEAN, AddDocker(ok)
    PROVE  KeptInv'
<1> USE DEF KeptInv, StateTypes
<1>1. pc = 10 /\ v \in Vnf /\ v = request.vnf /\ request.src \in Switch /\ request.tar \in Switch
  BY StepNumbers DEF AddDocker, v
<1>2. pc' \in 0 .. 13 /\ request' = request
  BY <1>1 DEF AddDocker, Advance, Ends, LoadStep
<1>3. /\ hurt' \in [Vnf -> SUBSET Kind]
      /\ \A u \in Vnf : Unhurt(u)' => Unhurt(u)
  BY HurtGrows DEF AddDocker, Kind
<1>4. ok => image[v] # None /\ container[v] = "none"
  BY DEF AddDocker, Outcome
<1>5. StateTypes'
  BY <1>1, <1>2, <1>3, <1>4 DEF AddDocker, dockerVars, netVars
<1>6. ASSUME NEW u \in Vnf, Unhurt(u)'  PROVE Kept(u)'
  <2>1. Kept(u)  BY <1>3, <1>6 DEF Unhurt
  <2>2. CASE u # v
    BY <1>1, <1>2, <2>1, <2>2 DEF AddDocker, Kept, Moving, dockerVars, netVars
  <2>3. CASE u = v
    BY <1>1, <1>2, <1>6, <1>4, <2>1, <2>3
       DEF Unhurt, AddDocker, Kept, Moving, Advance, Ends, LoadStep, dockerVars, netVars
  <2> QED  BY <2>2, <2>3
<1> QED  BY <1>5, <1>6

\* The new links.
LEMMA KeptAddLink ==
    ASSUME KeptInv, NEW ok \in BOOLEAN, AddLink(ok)
    PROVE  KeptInv'
<1> USE DEF KeptInv, StateTypes
<1>1. pc \in {11, 12} /\ v \in Vnf /\ v = request.vnf /\ request.src \in Switch /\ request.tar \in Switch
  BY StepNumbers DEF AddLink, v
<1>2. pc' \in 0 .. 13 /\ request' = request
  BY <1>1 DEF AddLink, Advance, Ends, LoadStep
<1>3. /\ hurt' \in [Vnf -> SUBSET Kind]
      /\ \A u \in Vnf : Unhurt(u)' => Unhurt(u)
  BY HurtGrows DEF AddLink, Kind
<1>4. StateTypes'
  BY <1>1, <1>2, <1>3 DEF AddLink, dockerVars, netVars
<1>5. ASSUME NEW u \in Vnf, Unhurt(u)'  PROVE Kept(u)'
  <2>1. Kept(u)  BY <1>3, <1>5 DEF Unhurt
  <2>2. CASE u # v
    BY <1>1, <1>2, <2>1, <2>2 DEF AddLink, Kept, Moving, dockerVars, netVars
  <2>3. CASE u = v
    BY <1>1, <1>2, <1>5, <2>1, <2>3
       DEF Unhurt, AddLink, Kept, Moving, Advance, Ends, LoadStep, dockerVars, netVars
  <2> QED  BY <2>2, <2>3
<1> QED  BY <1>4, <1>5

\* The addresses.
LEMMA KeptSetAddresses ==
    ASSUME KeptInv, SetAddresses
    PROVE  KeptInv'
<1> USE DEF KeptInv, StateTypes
<1>1. pc = 13 /\ v \in Vnf /\ v = request.vnf /\ request.src \in Switch /\ request.tar \in Switch
  BY StepNumbers DEF SetAddresses, v
<1>2. pc' \in 0 .. 13 /\ request' = request
  BY <1>1 DEF SetAddresses, Advance, Ends, LoadStep
<1>3. hurt' = hurt
  BY DEF SetAddresses, faultVars
<1>4. StateTypes'
  BY <1>1, <1>2, <1>3 DEF SetAddresses, dockerVars, netVars
<1>5. ASSUME NEW u \in Vnf, Unhurt(u)'  PROVE Kept(u)'
  <2>1. Kept(u)  BY <1>3, <1>5 DEF Unhurt
  <2>2. CASE u # v
    BY <1>1, <1>2, <2>1, <2>2 DEF SetAddresses, Kept, Moving, dockerVars, netVars
  <2>3. CASE u = v
    BY <1>1, <1>2, <1>5, <2>1, <2>3
       DEF Unhurt, SetAddresses, Kept, Moving, Advance, Ends, LoadStep, dockerVars, netVars
  <2> QED  BY <2>2, <2>3
<1> QED  BY <1>4, <1>5

-----------------------------------------------------------------------------
\* A VNF updates its file system: it is running, so not between being stopped
\* and being started again.
LEMMA KeptUpdate ==
    ASSUME KeptInv, NEW u \in Vnf, Update(u)
    PROVE  KeptInv'
<1> USE DEF KeptInv, StateTypes, Update
<1>1. StateTypes'  BY VnfMigrationAssumption DEF Version, netVars, faultVars
<1>2. ASSUME NEW w \in Vnf, Unhurt(w)'  PROVE Kept(w)'
  <2>1. Kept(w)  BY <1>2 DEF Unhurt, faultVars
  <2>2. CASE w # u
    BY <2>1, <2>2 DEF Kept, Moving, netVars
  <2>3. CASE w = u
    BY <2>1, <2>3, StepNumbers, VnfMigrationAssumption DEF Kept, Moving, netVars, Version
  <2> QED  BY <2>2, <2>3
<1> QED  BY <1>1, <1>2

\* A request for a VNF that is in the network, so that it is running.
LEMMA KeptMigrate ==
    ASSUME KeptInv, NEW u \in Vnf, NEW s \in Switch, NEW t \in Switch, Migrate(u, s, t)
    PROVE  KeptInv'
<1> USE StepNumbers DEF KeptInv, StateTypes, Migrate
<1>1. StateTypes'  BY DEF dockerVars, netVars, Kind
<1>2. ASSUME NEW w \in Vnf, Unhurt(w)'  PROVE Kept(w)'
  <2>1. Kept(w)  BY <1>2 DEF Unhurt, Loses
  <2> QED  BY <2>1 DEF Kept, Moving, dockerVars, netVars
<1> QED  BY <1>1, <1>2

LEMMA KeptStep ==
    ASSUME KeptInv, [Next]_vars
    PROVE  KeptInv'
<1>1. ASSUME UNCHANGED vars  PROVE KeptInv'
  BY <1>1 DEF vars, dockerVars, netVars, faultVars, KeptInv, StateTypes, Kept, Moving, Unhurt
<1>2. ASSUME Script  PROVE KeptInv'
  BY <1>2, KeptNoExec, KeptStop, KeptCommit, KeptSave, KeptRsync, KeptRemoveArchive,
     KeptRemoveContainer, KeptLoad, Zenon DEF Script
<1>3. ASSUME Handler  PROVE KeptInv'
  BY <1>3, KeptUnlink, KeptSetAddresses, KeptRemoveDocker, KeptAddDocker, KeptAddLink, Zenon
     DEF Handler
<1> QED  BY <1>1, <1>2, <1>3, KeptUpdate, KeptMigrate, Zenon DEF Next

LEMMA KeptAlways == Spec => []KeptInv
<1>1. KeptInv /\ [Next]_vars => KeptInv'  BY KeptStep
<1> QED  BY <1>1, KeptInit, PTL DEF Spec

\* All through a migration the newest state is somewhere (mn.sh:11-16), unless
\* docker exec, stop or commit failed, or rsync over an older archive.
THEOREM StateKeptCorrect == Spec => []StateKept
<1>1. KeptInv => StateKept
  BY DEF KeptInv, Kept, Unhurt, StateKept
<1> QED  BY <1>1, KeptAlways, PTL

\* A VNF that runs again (mininet_rest.py:252) has its newest state, with the
\* same exceptions.
THEOREM ResumesNewestCorrect == Spec => []ResumesNewest
<1>1. KeptInv => ResumesNewest
  BY DEF KeptInv, Kept, Unhurt, ResumesNewest
<1> QED  BY <1>1, KeptAlways, PTL

-----------------------------------------------------------------------------
\* The network, the containers and what failed are typed; no command fails
\* after the last one that may.

\* A request goes on, or ends; what it hurts is known.
LEMMA TypeOfStep ==
    ASSUME TypeOK, Script \/ Handler
    PROVE  /\ v \in Vnf /\ request.src \in Switch /\ request.tar \in Switch
           /\ pc # 0 /\ pc' \in 0 .. 13 /\ request' = request
           /\ hurt' \in [Vnf -> SUBSET Kind] /\ failures' \in 0 .. MaxFailures
           /\ \A u \in Vnf \ {v} : hurt'[u] = hurt[u]
           /\ hurt[v] \subseteq hurt'[v]
<1>1. /\ pc \in 0 .. 13 /\ v \in Vnf /\ request.src \in Switch /\ request.tar \in Switch
      /\ hurt \in [Vnf -> SUBSET Kind] /\ failures \in 0 .. MaxFailures
  BY DEF TypeOK, Steps, v
<1> DEFINE MayGoOn == pc # 0 /\ (pc' = 0 \/ (pc' = pc + 1 /\ pc # 13) \/ pc' = LoadStep) /\ request' = request
<1>2. MayGoOn
  <2>0. CASE NoExec
    BY <2>0 DEF NoExec
  <2>1. ASSUME NEW ok \in BOOLEAN, Stop(ok) PROVE MayGoOn
    BY <1>1, <2>1, StepNumbers DEF Stop, Advance, MayGoOn
  <2>2. ASSUME NEW ok \in BOOLEAN, Commit(ok) PROVE MayGoOn
    BY <1>1, <2>2, StepNumbers DEF Commit, Advance, MayGoOn
  <2>3. ASSUME NEW ok \in BOOLEAN, Save(ok) PROVE MayGoOn
    BY <1>1, <2>3, StepNumbers DEF Save, Advance, MayGoOn
  <2>4. ASSUME NEW ok \in BOOLEAN, Rsync(ok) PROVE MayGoOn
    BY <1>1, <2>4, StepNumbers DEF Rsync, Advance, MayGoOn
  <2>5. ASSUME NEW ok \in BOOLEAN, RemoveArchive(ok) PROVE MayGoOn
    BY <1>1, <2>5, StepNumbers DEF RemoveArchive, Advance, MayGoOn
  <2>6. ASSUME NEW ok \in BOOLEAN, RemoveContainer(ok) PROVE MayGoOn
    BY <1>1, <2>6, StepNumbers DEF RemoveContainer, Advance, MayGoOn
  <2>7. ASSUME NEW ok \in BOOLEAN, Load(ok) PROVE MayGoOn
    BY <1>1, <2>7, StepNumbers DEF Load, Advance, MayGoOn
  <2>8. ASSUME Unlink PROVE MayGoOn
    BY <1>1, <2>8, StepNumbers DEF Unlink, Advance, MayGoOn
  <2>9. ASSUME SetAddresses PROVE MayGoOn
    BY <1>1, <2>9, StepNumbers DEF SetAddresses, Ends, MayGoOn
  <2>10. ASSUME NEW ok \in BOOLEAN, RemoveDocker(ok) PROVE MayGoOn
    BY <1>1, <2>10, StepNumbers DEF RemoveDocker, Advance, MayGoOn
  <2>11. ASSUME NEW ok \in BOOLEAN, AddDocker(ok) PROVE MayGoOn
    BY <1>1, <2>11, StepNumbers DEF AddDocker, Advance, Ends, MayGoOn
  <2>12. ASSUME NEW ok \in BOOLEAN, AddLink(ok) PROVE MayGoOn
    BY <1>1, <2>12, StepNumbers DEF AddLink, Advance, Ends, MayGoOn
  <2> QED  BY <2>0, <2>1, <2>2, <2>3, <2>4, <2>5, <2>6, <2>7, <2>8, <2>9, <2>10, <2>11, <2>12 DEF Script, Handler, MayGoOn
<1>3. \E c \in Kind : UNCHANGED faultVars \/
         (/\ failures < MaxFailures /\ failures' = failures + 1
          /\ hurt' = [hurt EXCEPT ![v] = @ \cup {c}])
  BY DEF Script, Handler, NoExec, Stop, Commit, Save, Rsync, RemoveArchive, RemoveContainer, Load,
     Unlink, RemoveDocker, AddDocker, AddLink, SetAddresses, Outcome, Kind, faultVars
<1>4. /\ hurt' \in [Vnf -> SUBSET Kind] /\ failures' \in 0 .. MaxFailures
      /\ \A u \in Vnf \ {v} : hurt'[u] = hurt[u]
      /\ hurt[v] \subseteq hurt'[v]
  <2>1. CASE UNCHANGED faultVars
    BY <1>1, <2>1 DEF faultVars
  <2>2. ASSUME NEW c \in Kind, failures < MaxFailures, failures' = failures + 1,
               hurt' = [hurt EXCEPT ![v] = @ \cup {c}]
        PROVE  /\ hurt' \in [Vnf -> SUBSET Kind] /\ failures' \in 0 .. MaxFailures
               /\ \A u \in Vnf \ {v} : hurt'[u] = hurt[u]
               /\ hurt[v] \subseteq hurt'[v]
    <3>1. hurt[v] \cup {c} \in SUBSET Kind  BY <1>1
    <3>2. hurt' \in [Vnf -> SUBSET Kind]  BY <1>1, <2>2, <3>1
    <3>3. failures' \in 0 .. MaxFailures  BY <1>1, <2>2, VnfMigrationAssumption
    <3> QED  BY <1>1, <2>2, <3>2, <3>3
  <2> QED  BY <1>3, <2>1, <2>2
<1> QED  BY <1>1, <1>2, <1>4 DEF LoadStep, MayGoOn

\* The part of TypeOK that is not in StateTypes.
NetTypes ==
    /\ links \in [Vnf -> [Switch -> Nat]]
    /\ orphans \subseteq Vnf
    /\ addressed \in [Vnf -> BOOLEAN]
    /\ failures \in 0 .. MaxFailures

LEMMA TypeParts == TypeOK <=> StateTypes /\ NetTypes
BY DEF TypeOK, StateTypes, NetTypes, Steps

\* Only the links of the VNF that is moved change.
LEMMA NetTypesHandler ==
    ASSUME TypeOK, Handler
    PROVE  NetTypes'
<1>1. v \in Vnf /\ request.src \in Switch /\ request.tar \in Switch /\ failures' \in 0 .. MaxFailures
  BY TypeOfStep
<1>2. NetTypes  BY TypeParts
<1> USE DEF NetTypes, dockerVars, netVars
<1>3. CASE Unlink
  <2>1. Unlinked(links[v][request.src]) \in Nat  BY <1>1, <1>2 DEF Unlinked
  <2> QED  BY <1>1, <1>2, <1>3, <2>1 DEF Unlink
<1>4. CASE SetAddresses
  BY <1>1, <1>2, <1>4 DEF SetAddresses
<1>5. ASSUME NEW ok \in BOOLEAN, RemoveDocker(ok)  PROVE NetTypes'
  <2>1. [s \in Switch |-> 0] \in [Switch -> Nat]  OBVIOUS
  <2> QED  BY <1>1, <1>2, <1>5, <2>1 DEF RemoveDocker
<1>6. ASSUME NEW ok \in BOOLEAN, AddDocker(ok)  PROVE NetTypes'
  BY <1>1, <1>2, <1>6 DEF AddDocker
<1>7. ASSUME NEW ok \in BOOLEAN, AddLink(ok)  PROVE NetTypes'
  BY <1>1, <1>2, <1>7 DEF AddLink
<1> QED  BY <1>3, <1>4, <1>5, <1>6, <1>7 DEF Handler

LEMMA NetTypesStep ==
    ASSUME TypeOK, [Next]_vars
    PROVE  NetTypes'
<1>1. NetTypes  BY TypeParts
<1>2. CASE Script
  <2>1. UNCHANGED netVars
    BY <1>2 DEF Script, NoExec, Stop, Commit, Save, Rsync, RemoveArchive, RemoveContainer, Load
  <2> QED  BY <1>1, <1>2, <2>1, TypeOfStep DEF NetTypes, netVars
<1>3. ASSUME NEW u \in Vnf, Update(u)  PROVE NetTypes'
  BY <1>1, <1>3 DEF NetTypes, Update, netVars, faultVars
<1>4. ASSUME NEW u \in Vnf, NEW s \in Switch, NEW t \in Switch, Migrate(u, s, t)  PROVE NetTypes'
  BY <1>1, <1>4 DEF NetTypes, Migrate, netVars
<1>5. ASSUME UNCHANGED vars  PROVE NetTypes'
  BY <1>1, <1>5 DEF NetTypes, vars, netVars, faultVars
<1> QED  BY <1>2, <1>3, <1>4, <1>5, NetTypesHandler, Zenon DEF Next

\* What docker and the network hold of each VNF is typed, for any number of
\* switches, VNFs, updates and failures.
THEOREM VnfMigrationTypeCorrect == Spec => []TypeOK
<1>1. Init => NetTypes
  BY VnfMigrationAssumption DEF Init, NetTypes
<1>2. StateTypes /\ StateTypes' /\ NetTypes /\ [Next]_vars => NetTypes'
  BY TypeParts, NetTypesStep
<1>3. KeptInv => StateTypes
  BY DEF KeptInv
<1>4. StateTypes /\ NetTypes => TypeOK
  BY TypeParts
<1> QED  BY <1>1, <1>2, <1>3, <1>4, KeptAlways, PTL DEF Spec

-----------------------------------------------------------------------------
\* The links of a VNF.

Zero == [s \in Switch |-> 0]
Pair(s) == [t \in Switch |-> IF t = s THEN 2 ELSE 0]

\* No link of u failed, and no request named a switch it is not at.
LinksSafe(u) == hurt[u] \cap {"link", "source"} = {}

\* Where the two links of u are at each step.
Linked(u) ==
    /\ u \notin orphans
    /\ addressed[u]
    /\ ~Moving(u) /\ node[u] => \E s \in Switch : links[u] = Pair(s)
    /\ Moving(u) =>
        /\ pc \in 1 .. 8 => links[u] = Pair(request.src)
        /\ pc \in 9 .. 11 => links[u] = Zero
        /\ pc = 10 => ~node[u]
        /\ pc = 12 => links[u] = [Zero EXCEPT ![request.tar] = 1]
        /\ pc = 13 => links[u] = Pair(request.tar)

LinkInv == \A u \in Vnf : LinksSafe(u) => Linked(u)

\* The other VNFs are left alone.
LEMMA LinkedElsewhere ==
    ASSUME TypeOK, Script \/ Handler, NEW u \in Vnf, u # v, LinksSafe(u) => Linked(u)
    PROVE  LinksSafe(u)' => Linked(u)'
<1>1. /\ v \in Vnf /\ request' = request
      /\ hurt'[u] = hurt[u]
  BY TypeOfStep
<1>2. NetTypes /\ node \in [Vnf -> BOOLEAN]  BY TypeParts DEF StateTypes
<1>3. links'[u] = links[u] /\ node'[u] = node[u] /\ addressed'[u] = addressed[u] /\ (u \in orphans' <=> u \in orphans)
  <2>1. CASE Script
    BY <2>1 DEF Script, NoExec, Stop, Commit, Save, Rsync, RemoveArchive, RemoveContainer, Load, netVars
  <2>2. CASE Unlink
    BY <1>1, <1>2, <2>2 DEF Unlink, NetTypes
  <2>3. CASE SetAddresses
    BY <2>3 DEF SetAddresses, netVars
  <2>4. ASSUME NEW ok \in BOOLEAN, RemoveDocker(ok)  PROVE <1>3
    BY <1>1, <1>2, <2>4 DEF RemoveDocker, NetTypes
  <2>5. ASSUME NEW ok \in BOOLEAN, AddDocker(ok)  PROVE <1>3
    BY <1>1, <1>2, <2>5 DEF AddDocker, NetTypes
  <2>6. ASSUME NEW ok \in BOOLEAN, AddLink(ok)  PROVE <1>3
    BY <1>1, <1>2, <2>6 DEF AddLink, NetTypes
  <2> QED  BY <2>1, <2>2, <2>3, <2>4, <2>5, <2>6 DEF Handler
<1>4. ~Moving(u) /\ ~Moving(u)'
  BY <1>1 DEF Moving, v
<1>5. LinksSafe(u)' <=> LinksSafe(u)
  BY <1>1 DEF LinksSafe
<1> QED  BY <1>1, <1>3, <1>4, <1>5 DEF Linked

\* The links of the VNF that is moved: taken from where it was, put where it
\* goes to.
LEMMA LinkedHere ==
    ASSUME TypeOK, Script \/ Handler, LinksSafe(v) => Linked(v), LinksSafe(v)'
    PROVE  Linked(v)'
<1>1. /\ v \in Vnf /\ v' = v /\ request' = request
      /\ request.src \in Switch /\ request.tar \in Switch
      /\ pc \in 1 .. 13 /\ hurt[v] \subseteq hurt'[v]
      /\ Moving(v) /\ (Moving(v)' <=> pc' # 0)
  BY TypeOfStep, TypeParts DEF StateTypes, Moving, v
<1>2. NetTypes /\ node \in [Vnf -> BOOLEAN]  BY TypeParts DEF StateTypes
<1>3. Linked(v)  BY <1>1 DEF LinksSafe
<1>4. CASE Script
  <2>1. UNCHANGED netVars
    BY <1>4 DEF Script, NoExec, Stop, Commit, Save, Rsync, RemoveArchive, RemoveContainer, Load
  <2>2. pc \in 1 .. 7 /\ pc' \in 1 .. 8
    <3>1. CASE NoExec
      BY <3>1 DEF NoExec, LoadStep
    <3>2. ASSUME NEW ok \in BOOLEAN, Stop(ok)  PROVE <2>2
      BY <1>1, <3>2, StepNumbers DEF Stop, Advance
    <3>3. ASSUME NEW ok \in BOOLEAN, Commit(ok)  PROVE <2>2
      BY <1>1, <3>3, StepNumbers DEF Commit, Advance
    <3>4. ASSUME NEW ok \in BOOLEAN, Save(ok)  PROVE <2>2
      BY <1>1, <3>4, StepNumbers DEF Save, Advance
    <3>5. ASSUME NEW ok \in BOOLEAN, Rsync(ok)  PROVE <2>2
      BY <1>1, <3>5, StepNumbers DEF Rsync, Advance
    <3>6. ASSUME NEW ok \in BOOLEAN, RemoveArchive(ok)  PROVE <2>2
      BY <1>1, <3>6, StepNumbers DEF RemoveArchive, Advance
    <3>7. ASSUME NEW ok \in BOOLEAN, RemoveContainer(ok)  PROVE <2>2
      BY <1>1, <3>7, StepNumbers DEF RemoveContainer, Advance
    <3>8. ASSUME NEW ok \in BOOLEAN, Load(ok)  PROVE <2>2
      BY <1>1, <3>8, StepNumbers DEF Load, Advance
    <3> QED  BY <1>4, <3>1, <3>2, <3>3, <3>4, <3>5, <3>6, <3>7, <3>8 DEF Script
  <2> QED  BY <1>1, <1>3, <2>1, <2>2 DEF Linked, netVars
<1>5. CASE Unlink
  <2>1. pc = 8 /\ pc' = 9  BY <1>1, <1>5, StepNumbers DEF Unlink, Advance
  <2>2. links[v] = Pair(request.src)  BY <1>1, <1>3, <2>1 DEF Linked
  <2>3. links'[v] = [links[v] EXCEPT ![request.src] = Unlinked(@)]
    BY <1>1, <1>2, <1>5 DEF Unlink, NetTypes
  <2>4. links'[v] = Zero
    BY <1>1, <2>2, <2>3 DEF Pair, Zero, Unlinked
  <2> QED  BY <1>1, <1>3, <1>5, <2>1, <2>4 DEF Linked, Unlink
<1>6. CASE SetAddresses
  <2>1. pc = 13 /\ pc' = 0 /\ UNCHANGED netVars
    BY <1>1, <1>6, StepNumbers DEF SetAddresses, Ends
  <2>2. links[v] = Pair(request.tar)  BY <1>1, <1>3, <2>1 DEF Linked
  <2> QED  BY <1>1, <1>3, <2>1, <2>2 DEF Linked, netVars
<1>7. ASSUME NEW ok \in BOOLEAN, RemoveDocker(ok)  PROVE Linked(v)'
  <2>1. pc = 9 /\ pc' = 10  BY <1>1, <1>7, StepNumbers DEF RemoveDocker, Advance
  <2>2. links[v] = Zero  BY <1>1, <1>3, <2>1 DEF Linked
  <2>3. orphans' = orphans  BY <1>7, <2>2 DEF RemoveDocker, Zero
  <2>4. links'[v] = Zero /\ ~node'[v] /\ addressed' = addressed
    BY <1>1, <1>2, <1>7 DEF RemoveDocker, Zero, NetTypes
  <2> QED  BY <1>1, <1>3, <2>1, <2>3, <2>4 DEF Linked
<1>8. ASSUME NEW ok \in BOOLEAN, AddDocker(ok)  PROVE Linked(v)'
  <2>1. pc = 10 /\ links[v] = Zero /\ ~node[v]
    BY <1>1, <1>3, <1>8, StepNumbers DEF AddDocker, Linked
  <2>2. (pc' = 11 /\ ok) \/ (pc' = 0 /\ node' = node)
    BY <1>8, <2>1 DEF AddDocker, Advance, Ends
  <2>3. UNCHANGED <<links, orphans, addressed>>  BY <1>8 DEF AddDocker
  <2> QED  BY <1>1, <1>3, <2>1, <2>2, <2>3 DEF Linked
<1>9. ASSUME NEW ok \in BOOLEAN, AddLink(ok)  PROVE Linked(v)'
  <2>1. pc \in {11, 12} /\ UNCHANGED <<node, orphans>>
    BY <1>1, <1>9, StepNumbers DEF AddLink
  <2>2. ok
    <3> SUFFICES ASSUME ~ok PROVE FALSE
      BY <1>9
    <3>1. hurt' = [hurt EXCEPT ![v] = @ \cup {"link"}]  BY <1>9 DEF AddLink, Outcome
    <3>2. "link" \in hurt'[v]  BY <1>1, <3>1, TypeParts DEF StateTypes
    <3> QED  BY <3>2, <1>1 DEF LinksSafe
  <2>3. /\ links'[v] = [links[v] EXCEPT ![request.tar] = @ + 1]
        /\ addressed' = addressed /\ pc' = pc + 1
    BY <1>1, <1>2, <1>9, <2>2 DEF AddLink, Advance, NetTypes
  <2>4. CASE pc = 11
    <3>1. links'[v] = [Zero EXCEPT ![request.tar] = 1]
      BY <1>1, <1>3, <2>3, <2>4 DEF Linked, Zero
    <3> QED  BY <1>1, <1>3, <2>1, <2>3, <2>4, <3>1 DEF Linked
  <2>5. CASE pc = 12
    <3>1. links'[v] = Pair(request.tar)
      BY <1>1, <1>3, <2>3, <2>5 DEF Linked, Zero, Pair
    <3> QED  BY <1>1, <1>3, <2>1, <2>3, <2>5, <3>1 DEF Linked
  <2> QED  BY <2>1, <2>4, <2>5
<1> QED  BY <1>4, <1>5, <1>6, <1>7, <1>8, <1>9 DEF Handler

\* A request that names the right switch finds both links there.
LEMMA LinkedMigrate ==
    ASSUME TypeOK, LinkInv, NEW u \in Vnf, NEW s \in Switch, NEW t \in Switch, Migrate(u, s, t)
    PROVE  LinkInv'
<1> SUFFICES ASSUME NEW w \in Vnf, LinksSafe(w)'  PROVE Linked(w)'
  BY DEF LinkInv
<1>1. hurt \in [Vnf -> SUBSET Kind] /\ pc = 0 /\ pc' = 1 /\ request' = [vnf |-> u, src |-> s, tar |-> t]
      /\ UNCHANGED netVars /\ node[u]
  BY DEF Migrate, TypeOK
<1>2. hurt'[w] = IF w = u /\ links[u][s] = 0 THEN hurt[w] \cup {"source"} ELSE hurt[w]
  BY <1>1 DEF Migrate
<1>3. Linked(w)  BY <1>2 DEF LinksSafe, LinkInv
<1>4. CASE w # u
  BY <1>1, <1>3, <1>4 DEF Linked, Moving, netVars
<1>5. CASE w = u
  <2>1. links[u][s] # 0  BY <1>2, <1>5 DEF LinksSafe
  <2>2. links[u] = Pair(s)
    <3>1. PICK r \in Switch : links[u] = Pair(r)  BY <1>1, <1>3, <1>5 DEF Linked, Moving
    <3> QED  BY <2>1, <3>1 DEF Pair
  <2> QED  BY <1>1, <1>3, <1>5, <2>2 DEF Linked, Moving, netVars
<1> QED  BY <1>4, <1>5

LEMMA LinkStep ==
    ASSUME TypeOK, LinkInv, [Next]_vars
    PROVE  LinkInv'
<1>1. ASSUME Script \/ Handler  PROVE LinkInv'
  <2> SUFFICES ASSUME NEW u \in Vnf  PROVE LinksSafe(u)' => Linked(u)'
    BY DEF LinkInv
  <2>1. v \in Vnf /\ v' = v  BY <1>1, TypeOfStep DEF v
  <2>2. LinksSafe(v)' => Linked(v)'  BY <1>1, <2>1, LinkedHere DEF LinkInv
  <2>3. CASE u = v
    BY <2>2, <2>3, <2>1 DEF LinksSafe, Linked, Moving
  <2> QED  BY <1>1, <2>3, LinkedElsewhere DEF LinkInv
<1>2. ASSUME NEW u \in Vnf, Update(u)  PROVE LinkInv'
  BY <1>2 DEF LinkInv, LinksSafe, Linked, Moving, Update, netVars, faultVars
<1>3. ASSUME UNCHANGED vars  PROVE LinkInv'
  BY <1>3 DEF LinkInv, LinksSafe, Linked, Moving, vars, netVars, faultVars
<1> QED  BY <1>1, <1>2, <1>3, LinkedMigrate, Zenon DEF Next

\* Between two requests a VNF has two links to one switch and its addresses,
\* and no link ends nowhere (mininet_rest.py:249-264), unless a link failed or
\* a request named the wrong switch.
THEOREM LinkedTwiceCorrect == Spec => []LinkedTwice
<1>1. Init => LinkInv
  <2> SUFFICES ASSUME Init, NEW u \in Vnf  PROVE Linked(u)
    BY DEF LinkInv
  <2>1. Home[u] \in Switch /\ links[u] = Pair(Home[u])
    BY VnfMigrationAssumption DEF Init, Pair
  <2> QED  BY <2>1 DEF Init, Linked, Moving
<1>2. TypeOK /\ LinkInv /\ [Next]_vars => LinkInv'
  BY LinkStep
<1>3. LinkInv => LinkedTwice
  <2> SUFFICES ASSUME LinkInv, NEW u \in Vnf, pc = 0, LinksSafe(u)
               PROVE  /\ u \notin orphans /\ addressed[u]
                      /\ node[u] => \E s \in Switch : \A t \in Switch :
                            links[u][t] = IF t = s THEN 2 ELSE 0
    BY DEF LinkedTwice, LinksSafe
  <2>1. Linked(u)  BY DEF LinkInv
  <2>2. node[u] => \E s \in Switch : links[u] = Pair(s)
    BY <2>1 DEF Linked, Moving
  <2>3. \A s, t \in Switch : Pair(s)[t] = IF t = s THEN 2 ELSE 0
    BY DEF Pair
  <2> QED  BY <2>1, <2>2, <2>3 DEF Linked
<1> QED  BY <1>1, <1>2, <1>3, VnfMigrationTypeCorrect, PTL DEF Spec

-----------------------------------------------------------------------------
\* The place of a VNF in the network.

\* Nothing failed that keeps u from being made again.
NodeSafe(u) == hurt[u] \cap {"exec", "commit", "rm", "remove", "add"} = {}

\* When u is a host, and what there is of it while it is none.
Present(u) ==
    /\ ~Moving(u) => node[u] /\ container[u] # "none"
    /\ Moving(u) =>
        /\ pc # 10 => node[u]
        /\ pc \in 1 .. 6 => container[u] # "none"
        /\ pc \in 3 .. 10 => image[u] # None
        /\ pc \in 7 .. 9 => container[u] # "stopped"
        /\ pc = 10 => container[u] = "none"
        /\ pc \in 11 .. 13 => container[u] # "none"

NodeInv == \A u \in Vnf : NodeSafe(u) => Present(u)

\* The other VNFs are left alone.
LEMMA PresentElsewhere ==
    ASSUME TypeOK, Script \/ Handler, NEW u \in Vnf, u # v, NodeSafe(u) => Present(u)
    PROVE  NodeSafe(u)' => Present(u)'
<1>1. /\ v \in Vnf /\ request' = request
      /\ hurt'[u] = hurt[u]
  BY TypeOfStep
<1>2. StateTypes  BY TypeParts
<1>3. node'[u] = node[u] /\ container'[u] = container[u]
  <2>1. CASE NoExec \/ Unlink \/ SetAddresses
    BY <2>1 DEF NoExec, Unlink, SetAddresses, netVars, dockerVars
  <2>2. ASSUME NEW ok \in BOOLEAN, Commit(ok) \/ Save(ok) \/ Rsync(ok) \/ RemoveArchive(ok) \/ Load(ok)
        PROVE  <1>3
    BY <2>2 DEF Commit, Save, Rsync, RemoveArchive, Load, netVars
  <2>3. ASSUME NEW ok \in BOOLEAN, Stop(ok)  PROVE <1>3
    BY <1>1, <1>2, <2>3 DEF Stop, StateTypes, netVars
  <2>4. ASSUME NEW ok \in BOOLEAN, RemoveContainer(ok)  PROVE <1>3
    BY <1>1, <1>2, <2>4 DEF RemoveContainer, StateTypes, netVars
  <2>5. ASSUME NEW ok \in BOOLEAN, RemoveDocker(ok)  PROVE <1>3
    BY <1>1, <1>2, <2>5 DEF RemoveDocker, StateTypes
  <2>6. ASSUME NEW ok \in BOOLEAN, AddDocker(ok)  PROVE <1>3
    BY <1>1, <1>2, <2>6 DEF AddDocker, StateTypes
  <2>7. ASSUME NEW ok \in BOOLEAN, AddLink(ok)  PROVE <1>3
    BY <2>7 DEF AddLink, dockerVars
  <2> QED  BY <2>1, <2>2, <2>3, <2>4, <2>5, <2>6, <2>7 DEF Script, Handler
<1>4. ~Moving(u) /\ ~Moving(u)'
  BY <1>1 DEF Moving, v
<1> QED  BY <1>1, <1>3, <1>4 DEF NodeSafe, Present

\* What a command that fails although it could work leaves behind.
LEMMA FailureHurts ==
    ASSUME TypeOK, v \in Vnf, v' = v, NEW c \in {"commit", "rm", "remove", "add"}, NEW ok \in BOOLEAN,
           NEW possible, Outcome(c, ok, possible), NodeSafe(v)'
    PROVE  IF ok THEN possible ELSE ~possible
<1> SUFFICES ASSUME ~ok, possible  PROVE FALSE
  BY DEF Outcome
<1>1. hurt' = [hurt EXCEPT ![v] = @ \cup {c}]  BY DEF Outcome
<1>2. c \in hurt'[v]  BY <1>1 DEF TypeOK
<1> QED  BY <1>2 DEF NodeSafe

\* The VNF that is moved: there is an image of it before its container is
\* removed, and its name is free before it is made again.
LEMMA PresentHere ==
    ASSUME TypeOK, Script \/ Handler, NodeSafe(v) => Present(v), NodeSafe(v)'
    PROVE  Present(v)'
<1>1. /\ v \in Vnf /\ v' = v /\ request' = request
      /\ request.src \in Switch /\ request.tar \in Switch
      /\ pc \in 1 .. 13 /\ hurt[v] \subseteq hurt'[v]
      /\ Moving(v) /\ (Moving(v)' <=> pc' # 0)
  BY TypeOfStep, TypeParts DEF StateTypes, Moving, v
<1>2. StateTypes  BY TypeParts
<1>3. Present(v)  BY <1>1 DEF NodeSafe
<1>4. CASE NoExec
  <2>1. hurt' = [hurt EXCEPT ![v] = @ \cup {"exec"}]  BY <1>4 DEF NoExec, Outcome
  <2> QED  BY <1>1, <1>2, <2>1 DEF StateTypes, NodeSafe
<1>5. ASSUME NEW ok \in BOOLEAN, Stop(ok)  PROVE Present(v)'
  <2>1. pc = 1 /\ pc' = 2  BY <1>1, <1>5, StepNumbers DEF Stop, Advance
  <2> QED  BY <1>1, <1>2, <1>3, <1>5, <2>1 DEF Stop, StateTypes, Present, netVars
<1>6. ASSUME NEW ok \in BOOLEAN, Commit(ok)  PROVE Present(v)'
  <2>1. pc = 2 /\ pc' = 3  BY <1>1, <1>6, StepNumbers DEF Commit, Advance
  <2>2. ok
    <3>1. container[v] # "none"  BY <1>1, <1>3, <2>1 DEF Present
    <3>2. Outcome("commit", ok, container[v] # "none")  BY <1>6 DEF Commit
    <3> QED  BY <1>1, <3>1, <3>2, FailureHurts
  <2>3. image'[v] = content[v] /\ content[v] # None
    BY <1>1, <1>2, <1>6, <2>2 DEF Commit, StateTypes, Version, None
  <2> QED  BY <1>1, <1>3, <1>6, <2>1, <2>3 DEF Commit, Present, netVars
<1>7. ASSUME NEW ok \in BOOLEAN, Save(ok)  PROVE Present(v)'
  <2>1. pc = 3 /\ pc' = 4  BY <1>1, <1>7, StepNumbers DEF Save, Advance
  <2> QED  BY <1>1, <1>3, <1>7, <2>1 DEF Save, Present, netVars
<1>8. ASSUME NEW ok \in BOOLEAN, Rsync(ok)  PROVE Present(v)'
  <2>1. pc = 4 /\ pc' = 5  BY <1>1, <1>8, StepNumbers DEF Rsync, Advance
  <2> QED  BY <1>1, <1>3, <1>8, <2>1 DEF Rsync, Present, netVars
<1>9. ASSUME NEW ok \in BOOLEAN, RemoveArchive(ok)  PROVE Present(v)'
  <2>1. pc = 5 /\ pc' = 6  BY <1>1, <1>9, StepNumbers DEF RemoveArchive, Advance
  <2> QED  BY <1>1, <1>3, <1>9, <2>1 DEF RemoveArchive, Present, netVars
<1>10. ASSUME NEW ok \in BOOLEAN, RemoveContainer(ok)  PROVE Present(v)'
  <2>1. pc = 6 /\ pc' = 7  BY <1>1, <1>10, StepNumbers DEF RemoveContainer, Advance
  <2>2. container'[v] # "stopped"
    <3>1. ok \/ container[v] # "stopped"  BY <1>1, <1>10, FailureHurts DEF RemoveContainer
    <3> QED  BY <1>1, <1>2, <1>10, <3>1 DEF RemoveContainer, StateTypes
  <2> QED  BY <1>1, <1>3, <1>10, <2>1, <2>2 DEF RemoveContainer, Present, netVars
<1>11. ASSUME NEW ok \in BOOLEAN, Load(ok)  PROVE Present(v)'
  <2>1. pc = 7 /\ pc' = 8  BY <1>1, <1>11, StepNumbers DEF Load, Advance
  <2>2. image'[v] # None
    <3>1. image[v] # None  BY <1>1, <1>3, <2>1 DEF Present
    <3>2. ok => archive[request.tar][v] \in Version  BY <1>11 DEF Load, Outcome
    <3> QED  BY <1>1, <1>2, <1>11, <3>1, <3>2 DEF Load, StateTypes, Version, None
  <2> QED  BY <1>1, <1>3, <1>11, <2>1, <2>2 DEF Load, Present, netVars
<1>12. CASE Unlink
  <2>1. pc = 8 /\ pc' = 9  BY <1>1, <1>12, StepNumbers DEF Unlink, Advance
  <2> QED  BY <1>1, <1>3, <1>12, <2>1 DEF Unlink, Present, dockerVars
<1>13. ASSUME NEW ok \in BOOLEAN, RemoveDocker(ok)  PROVE Present(v)'
  <2>1. pc = 9 /\ pc' = 10  BY <1>1, <1>13, StepNumbers DEF RemoveDocker, Advance
  <2>2. ok \/ container[v] # "running"
    BY <1>1, <1>13, FailureHurts DEF RemoveDocker, RemovedByForce
  <2>3. container'[v] = "none"
    BY <1>1, <1>2, <1>3, <1>13, <2>1, <2>2 DEF RemoveDocker, StateTypes, Present
  <2> QED  BY <1>1, <1>3, <1>13, <2>1, <2>3 DEF RemoveDocker, Present
<1>14. ASSUME NEW ok \in BOOLEAN, AddDocker(ok)  PROVE Present(v)'
  <2>1. pc = 10  BY <1>1, <1>14, StepNumbers DEF AddDocker
  <2>2. image[v] # None /\ container[v] = "none"  BY <1>1, <1>3, <2>1 DEF Present
  <2>3. ok  BY <1>1, <1>14, <2>2, FailureHurts DEF AddDocker
  <2>4. pc' = 11 /\ node'[v] /\ container'[v] = "running"
    BY <1>1, <1>2, <1>14, <2>1, <2>3 DEF AddDocker, Advance, StateTypes
  <2> QED  BY <1>1, <2>4 DEF Present
<1>15. ASSUME NEW ok \in BOOLEAN, AddLink(ok)  PROVE Present(v)'
  <2>1. pc \in {11, 12} /\ UNCHANGED <<node, dockerVars>> /\ pc' \in {0, 12, 13}
    BY <1>1, <1>15, StepNumbers DEF AddLink, Advance, Ends
  <2> QED  BY <1>1, <1>3, <2>1 DEF Present, dockerVars
<1>16. CASE SetAddresses
  <2>1. pc = 13 /\ pc' = 0 /\ UNCHANGED <<node, container>>
    BY <1>1, <1>16, StepNumbers DEF SetAddresses, Ends, netVars, dockerVars
  <2> QED  BY <1>1, <1>3, <2>1 DEF Present
<1> QED
  BY <1>4, <1>5, <1>6, <1>7, <1>8, <1>9, <1>10, <1>11, <1>12, <1>13, <1>14, <1>15, <1>16
     DEF Script, Handler

LEMMA NodeStep ==
    ASSUME TypeOK, NodeInv, [Next]_vars
    PROVE  NodeInv'
<1>1. ASSUME Script \/ Handler  PROVE NodeInv'
  <2> SUFFICES ASSUME NEW u \in Vnf  PROVE NodeSafe(u)' => Present(u)'
    BY DEF NodeInv
  <2>1. v \in Vnf /\ v' = v  BY <1>1, TypeOfStep DEF v
  <2>2. NodeSafe(v)' => Present(v)'  BY <1>1, <2>1, PresentHere DEF NodeInv
  <2>3. CASE u = v
    BY <2>2, <2>3, <2>1 DEF NodeSafe, Present, Moving
  <2> QED  BY <1>1, <2>3, PresentElsewhere DEF NodeInv
<1>2. ASSUME NEW u \in Vnf, Update(u)  PROVE NodeInv'
  BY <1>2 DEF NodeInv, NodeSafe, Present, Moving, Update, netVars, faultVars
<1>3. ASSUME NEW u \in Vnf, NEW s \in Switch, NEW t \in Switch, Migrate(u, s, t)  PROVE NodeInv'
  <2> SUFFICES ASSUME NEW w \in Vnf, NodeSafe(w)'  PROVE Present(w)'
    BY DEF NodeInv
  <2>1. Present(w)  BY <1>3 DEF NodeInv, NodeSafe, Migrate, TypeOK
  <2> QED  BY <1>3, <2>1 DEF Present, Moving, Migrate, dockerVars, netVars
<1>4. ASSUME UNCHANGED vars  PROVE NodeInv'
  BY <1>4 DEF NodeInv, NodeSafe, Present, Moving, vars, dockerVars, netVars, faultVars
<1> QED  BY <1>1, <1>2, <1>3, <1>4, Zenon DEF Next

\* A VNF is only missing from the network (mininet_rest.py:250-254) if the
\* script was not run, or its container could not be committed, removed or made
\* again.  A failed save, copy, load or link never costs the node.
THEOREM StaysInNetworkCorrect == Spec => []StaysInNetwork
<1>1. Init => NodeInv
  BY DEF Init, NodeInv, Present, Moving
<1>2. TypeOK /\ NodeInv /\ [Next]_vars => NodeInv'
  BY NodeStep
<1>3. NodeInv => StaysInNetwork
  BY DEF NodeInv, NodeSafe, Present, Moving, StaysInNetwork
<1> QED  BY <1>1, <1>2, <1>3, VnfMigrationTypeCorrect, PTL DEF Spec
=============================================================================
