---------------------- MODULE SupervisorUpdateProofs ----------------------
(***************************************************************************)
(* What an update of the Worker, and of the Supervisor itself, keeps true  *)
(* for every package, every number of releases and every fault.            *)
(***************************************************************************)
EXTENDS SupervisorUpdate, TLAPS

\* While an update replaces files, every file it is done with is of its target;
\* a file it has moved away makes the directory dirty.
Replacing ==
  /\ pc = "replace" => \A f \in File \ todo : files[f] = target
  /\ pc = "copy" => /\ dirty /\ at \notin todo
                    /\ \A f \in File \ (todo \cup {at}) : files[f] = target
  /\ pc = "record" => \A f \in File : files[f] = target

\* A Supervisor that runs has its executable in place; a helper past its first
\* step has the service stopped, and knows where the old executable is.
SelfUpdate ==
  /\ pc # "down" => exe \in Version
  /\ helper.phase \in {"rename", "copy", "start"} => pc = "down" /\ ~wanted
  /\ helper.phase \in {"stop", "rename", "start"} => exe \in Version
  /\ helper.phase = "copy" => backup \in Version
  /\ helper.phase # "none" => helper.target \in Version

\* The inductive invariant.
SupervisorInv ==
  TypeOK /\ Replacing /\ RecordedIsInstalled /\ SelfUpdate /\ CopyOnDisk

\* The flags are Booleans.
Flags == restart \in BOOLEAN /\ wanted \in BOOLEAN /\ dirty \in BOOLEAN

\* The rest of the type invariant, in the three parts the steps change.
DiskTypes == files \in [File -> Image] /\ recorded \in 0..MaxVersion
ServiceTypes == unit \in 0..MaxVersion /\ wrun \in 0..MaxVersion
LoopTypes == /\ pc \in Place /\ srun \in Version /\ target \in 0..MaxVersion
             /\ at \in File /\ todo \subseteq File
OwnTypes == /\ exe \in Image /\ backup \in 0..MaxVersion
            /\ helper \in [phase : HelperPhase, target : 0..MaxVersion]
WorldTypes == /\ offer \in [w : Version, s : Version]
              /\ published \in 0..MaxPublished /\ faults \in 0..MaxFaults

\* Together they are the type invariant.
Types == /\ Flags /\ DiskTypes /\ ServiceTypes /\ LoopTypes /\ OwnTypes
         /\ WorldTypes

\* The type invariant, before and after a step, is its parts.
LEMMA TypeParts == (TypeOK <=> Types) /\ (TypeOK' <=> Types')
BY DEF TypeOK, Types, Flags, DiskTypes, ServiceTypes, LoopTypes, OwnTypes,
       WorldTypes

\* A device with a fresh Supervisor satisfies the invariant.
LEMMA InitSupervisor == Init => SupervisorInv
<1> SUFFICES ASSUME Init PROVE SupervisorInv
  OBVIOUS
<1>1. Flags
  BY DEF Init, Flags
<1>2. DiskTypes /\ ServiceTypes /\ WorldTypes
  BY BoundsAssumption
     DEF Init, DiskTypes, ServiceTypes, WorldTypes, Version, Image, Missing
<1>3. LoopTypes
  BY ExeAssumption, BoundsAssumption DEF Init, LoopTypes, Place, Version
<1>4. OwnTypes
  BY BoundsAssumption DEF Init, OwnTypes, Image, Missing, HelperPhase
<1>5. Replacing /\ RecordedIsInstalled /\ SelfUpdate /\ CopyOnDisk
  BY BoundsAssumption DEF Init, Replacing, RecordedIsInstalled, SelfUpdate,
     CopyOnDisk, Version, Missing
<1> QED BY <1>1, <1>2, <1>3, <1>4, <1>5, TypeParts DEF SupervisorInv, Types

\* The count of faults stays within its bound, whether a step works or fails.
LEMMA FaultBound ==
  ASSUME TypeOK, Works \/ Fails
  PROVE  faults' \in 0..MaxFaults
BY BoundsAssumption DEF TypeOK, Works, Fails

\* A start gives the release of the executable, or nothing runs.
LEMMA LaunchedType ==
  ASSUME NEW image
  PROVE  Launched(image) \in 0..MaxVersion
BY BoundsAssumption DEF Launched, Version

\* A change of the offer touches nothing on the device.
LEMMA PublishKeeps ==
  ASSUME SupervisorInv, Publish
  PROVE  SupervisorInv'
<1>1. WorldTypes'
  BY BoundsAssumption DEF SupervisorInv, TypeOK, Publish, WorldTypes
<1>2. (Flags /\ DiskTypes /\ ServiceTypes /\ LoopTypes /\ OwnTypes)'
  BY TypeParts DEF SupervisorInv, Types, Publish, Flags, DiskTypes, ServiceTypes,
     LoopTypes, OwnTypes, disk, service, loop, own
<1>3. (Replacing /\ RecordedIsInstalled /\ SelfUpdate /\ CopyOnDisk)'
  BY DEF SupervisorInv, Publish, Replacing, RecordedIsInstalled, SelfUpdate,
     CopyOnDisk, disk, service, loop, own
<1> QED BY <1>1, <1>2, <1>3, TypeParts DEF SupervisorInv, Types

\* The health check, however it ends, changes the service only.
LEMMA HealthTypes ==
  ASSUME TypeOK, Healthy \/ Unhealthy
  PROVE  ServiceTypes'
<1>1. CASE Healthy /\ ~Present
  BY <1>1, TypeParts DEF Healthy, Types, ServiceTypes, service
<1>2. CASE Healthy /\ Present
  <2>1. PICK changed : /\ unit' = IF changed THEN srun ELSE unit
                       /\ wrun' = IF wrun # 0 /\ ~changed THEN wrun
                                  ELSE Launched(files[Exe])
    BY <1>2 DEF Healthy
  <2> QED BY <2>1, LaunchedType, TypeParts, BoundsAssumption
          DEF Types, ServiceTypes, LoopTypes, Version
<1>3. CASE Unhealthy
  BY <1>3, TypeParts, BoundsAssumption
     DEF Unhealthy, Types, ServiceTypes, LoopTypes, Version
<1> QED BY <1>1, <1>2, <1>3

\* What a step keeps of the types when it leaves whole groups of variables.
LEMMA TypeFrame ==
  ASSUME TypeOK
  PROVE  /\ UNCHANGED world /\ (Works \/ Fails) => WorldTypes'
         /\ UNCHANGED <<files, recorded>> => DiskTypes'
         /\ UNCHANGED service => ServiceTypes'
         /\ UNCHANGED loop => LoopTypes'
         /\ UNCHANGED <<exe, backup, helper>> => OwnTypes'
BY FaultBound, TypeParts DEF Types, WorldTypes, DiskTypes, ServiceTypes,
   LoopTypes, OwnTypes, world, service, loop

\* A step of a running Supervisor that leaves its own files alone.
LEMMA SelfFrame ==
  ASSUME SupervisorInv, pc # "down", UNCHANGED own
  PROVE  SelfUpdate' /\ CopyOnDisk' /\ OwnTypes'
BY TypeParts DEF SupervisorInv, SelfUpdate, CopyOnDisk, own, Types, OwnTypes

\* An update that returns forgets its local variables.
LEMMA ReturnFacts ==
  ASSUME TypeOK, NEW place \in {"idle", "ensure", "down"}, Return(place),
         UNCHANGED srun
  PROVE  LoopTypes' /\ Replacing'
BY ExeAssumption, BoundsAssumption, TypeParts
   DEF Return, Types, LoopTypes, Replacing, Place

\* The health check keeps the invariant.
LEMMA MonitorKeeps ==
  ASSUME SupervisorInv, Monitor
  PROVE  SupervisorInv'
<1> USE DEF SupervisorInv
<1>1. ServiceTypes'
  BY HealthTypes DEF Monitor
<1>2. WorldTypes' /\ DiskTypes'
  BY TypeFrame DEF Monitor, disk
<1>3. Flags'
  BY TypeParts DEF Monitor, Types, Flags, disk, own
<1>4. LoopTypes' /\ Replacing'
  BY TypeParts DEF Monitor, Types, LoopTypes, Replacing, Place
<1>5. SelfUpdate' /\ CopyOnDisk' /\ OwnTypes'
  BY SelfFrame DEF Monitor
<1>6. RecordedIsInstalled'
  BY DEF Monitor, RecordedIsInstalled, disk
<1> QED BY <1>1, <1>2, <1>3, <1>4, <1>5, <1>6, TypeParts DEF Types

\* A check for a newer Supervisor touches the helper only.
LEMMA CheckSupervisorKeeps ==
  ASSUME SupervisorInv, CheckSupervisor
  PROVE  SupervisorInv'
<1> USE DEF SupervisorInv
<1>1. WorldTypes' /\ DiskTypes' /\ ServiceTypes'
  BY TypeFrame DEF CheckSupervisor, disk
<1>2. Flags'
  BY TypeParts DEF CheckSupervisor, Types, Flags, disk
<1>3. LoopTypes' /\ Replacing'
  BY TypeParts DEF CheckSupervisor, Types, LoopTypes, Replacing, Place
<1>4. CASE UNCHANGED helper
  <2>1. SelfUpdate' /\ CopyOnDisk' /\ OwnTypes'
    BY <1>4, SelfFrame DEF CheckSupervisor, own
  <2>2. RecordedIsInstalled'
    BY DEF CheckSupervisor, RecordedIsInstalled, disk
  <2> QED BY <1>1, <1>2, <1>3, <2>1, <2>2, TypeParts DEF Types
<1>5. CASE helper' = [phase |-> "stop", target |-> offer.s]
  <2>1. offer.s \in Version /\ exe \in Version
    BY TypeParts DEF CheckSupervisor, Types, WorldTypes, SelfUpdate
  <2>2. OwnTypes'
    BY <1>5, <2>1, TypeParts, BoundsAssumption
       DEF CheckSupervisor, Types, OwnTypes, HelperPhase, Version
  <2>3. SelfUpdate' /\ CopyOnDisk'
    BY <1>5, <2>1 DEF CheckSupervisor, SelfUpdate, CopyOnDisk
  <2>4. RecordedIsInstalled'
    BY DEF CheckSupervisor, RecordedIsInstalled, disk
  <2> QED BY <1>1, <1>2, <1>3, <2>2, <2>3, <2>4, TypeParts DEF Types
<1> QED BY <1>4, <1>5 DEF CheckSupervisor

\* A check for a newer Worker only chooses the target.
LEMMA CheckWorkerKeeps ==
  ASSUME SupervisorInv, CheckWorker
  PROVE  SupervisorInv'
<1> USE DEF SupervisorInv
<1>1. WorldTypes' /\ DiskTypes' /\ ServiceTypes'
  BY TypeFrame DEF CheckWorker, disk
<1>2. Flags'
  BY TypeParts DEF CheckWorker, Types, Flags, disk, own
<1>3. LoopTypes' /\ Replacing'
  <2>1. CASE Return("idle")
    BY <2>1, ReturnFacts DEF CheckWorker
  <2>2. CASE pc' = "apply" /\ target' = offer.w /\ UNCHANGED <<at, todo>>
    BY <2>2, TypeParts DEF CheckWorker, Types, LoopTypes, WorldTypes, Replacing,
       Place, Version
  <2> QED BY <2>1, <2>2 DEF CheckWorker
<1>4. SelfUpdate' /\ CopyOnDisk' /\ OwnTypes'
  BY SelfFrame DEF CheckWorker
<1>5. RecordedIsInstalled'
  BY DEF CheckWorker, RecordedIsInstalled, disk
<1> QED BY <1>1, <1>2, <1>3, <1>4, <1>5, TypeParts DEF Types

\* Stopping the Worker touches no file.
LEMMA StopWorkerKeeps ==
  ASSUME SupervisorInv, StopWorker
  PROVE  SupervisorInv'
<1> USE DEF SupervisorInv
<1>1. WorldTypes' /\ DiskTypes'
  BY TypeFrame DEF StopWorker, disk
<1>2. ServiceTypes'
  BY TypeParts, BoundsAssumption DEF StopWorker, Types, ServiceTypes
<1>3. Flags'
  <2>1. restart' \in BOOLEAN
    BY TypeParts DEF StopWorker, Types, Flags
  <2> QED BY <2>1, TypeParts DEF StopWorker, Types, Flags, disk, own
<1>4. LoopTypes' /\ Replacing'
  <2>1. CASE Return("idle")
    BY <2>1, ReturnFacts DEF StopWorker
  <2>2. CASE pc' = "replace" /\ todo' = File /\ UNCHANGED <<target, at>>
    BY <2>2, TypeParts DEF StopWorker, Types, LoopTypes, Replacing, Place
  <2> QED BY <2>1, <2>2 DEF StopWorker
<1>5. SelfUpdate' /\ CopyOnDisk' /\ OwnTypes'
  BY SelfFrame DEF StopWorker
<1>6. RecordedIsInstalled'
  BY DEF StopWorker, RecordedIsInstalled, disk
<1> QED BY <1>1, <1>2, <1>3, <1>4, <1>5, <1>6, TypeParts DEF Types

\* Moving a file away makes the directory dirty.
LEMMA MoveAwayKeeps ==
  ASSUME SupervisorInv, NEW f \in File, MoveAway(f)
  PROVE  SupervisorInv'
<1> USE DEF SupervisorInv
<1>1. WorldTypes' /\ ServiceTypes'
  BY TypeFrame DEF MoveAway
<1>2. DiskTypes'
  BY TypeParts, BoundsAssumption
     DEF MoveAway, Types, DiskTypes, Image, Missing
<1>3. Flags'
  BY TypeParts DEF MoveAway, Types, Flags, own
<1>4. LoopTypes' /\ Replacing' /\ RecordedIsInstalled'
  <2>1. CASE Return("idle") /\ UNCHANGED <<files, dirty>>
    BY <2>1, ReturnFacts DEF MoveAway, RecordedIsInstalled
  <2>2. CASE /\ pc' = "copy" /\ at' = f /\ todo' = todo \ {f} /\ UNCHANGED target
             /\ files' = [files EXCEPT ![f] = Missing] /\ dirty' = TRUE
    <3>1. LoopTypes'
      BY <2>2, TypeParts DEF MoveAway, Types, LoopTypes, Place
    <3>2. \A g \in File \ (todo' \cup {f}) : files'[g] = target
      BY <2>2, TypeParts DEF MoveAway, Replacing, Types, DiskTypes
    <3> QED BY <2>2, <3>1, <3>2 DEF Replacing, RecordedIsInstalled
  <2> QED BY <2>1, <2>2 DEF MoveAway
<1>5. SelfUpdate' /\ CopyOnDisk' /\ OwnTypes'
  BY SelfFrame DEF MoveAway
<1> QED BY <1>1, <1>2, <1>3, <1>4, <1>5, TypeParts DEF Types

\* A copied file is of the target, and until then the directory is dirty.
LEMMA CopyStagedKeeps ==
  ASSUME SupervisorInv, CopyStaged
  PROVE  SupervisorInv'
<1> USE DEF SupervisorInv
<1>1. WorldTypes' /\ ServiceTypes'
  BY TypeFrame DEF CopyStaged
<1>2. DiskTypes'
  BY TypeParts, BoundsAssumption
     DEF CopyStaged, Types, DiskTypes, LoopTypes, Image, Missing, Torn
<1>3. Flags'
  BY TypeParts DEF CopyStaged, Types, Flags, own
<1>4. LoopTypes' /\ Replacing'
  <2>1. CASE Return("idle")
    BY <2>1, ReturnFacts DEF CopyStaged
  <2>2. CASE /\ pc' = "replace" /\ UNCHANGED <<target, at, todo>>
             /\ files' = [files EXCEPT ![at] = target]
    <3>1. LoopTypes'
      BY <2>2, TypeParts DEF CopyStaged, Types, LoopTypes, Place
    <3>2. \A g \in File \ todo : files'[g] = target
      BY <2>2, TypeParts DEF CopyStaged, Replacing, Types, DiskTypes
    <3> QED BY <2>2, <3>1, <3>2 DEF Replacing
  <2> QED BY <2>1, <2>2 DEF CopyStaged
<1>5. RecordedIsInstalled'
  BY DEF CopyStaged, Replacing, RecordedIsInstalled
<1>6. SelfUpdate' /\ CopyOnDisk' /\ OwnTypes'
  BY SelfFrame DEF CopyStaged
<1> QED BY <1>1, <1>2, <1>3, <1>4, <1>5, <1>6, TypeParts DEF Types

\* When the service is started again every file is of the target.
LEMMA RestartWorkerKeeps ==
  ASSUME SupervisorInv, RestartWorker
  PROVE  SupervisorInv'
<1> USE DEF SupervisorInv
<1>1. WorldTypes' /\ DiskTypes'
  BY TypeFrame DEF RestartWorker, disk
<1>2. ServiceTypes'
  BY TypeParts, LaunchedType, BoundsAssumption
     DEF RestartWorker, Types, ServiceTypes
<1>3. Flags'
  BY TypeParts DEF RestartWorker, Types, Flags, disk, own
<1>4. LoopTypes' /\ Replacing'
  <2>1. CASE Return("idle")
    BY <2>1, ReturnFacts DEF RestartWorker
  <2>2. CASE pc' = "record" /\ UNCHANGED <<target, at, todo>>
    BY <2>2, TypeParts
       DEF RestartWorker, Types, LoopTypes, Replacing, Place, disk
  <2> QED BY <2>1, <2>2 DEF RestartWorker
<1>5. SelfUpdate' /\ CopyOnDisk' /\ OwnTypes'
  BY SelfFrame DEF RestartWorker
<1>6. RecordedIsInstalled'
  BY DEF RestartWorker, RecordedIsInstalled, disk
<1> QED BY <1>1, <1>2, <1>3, <1>4, <1>5, <1>6, TypeParts DEF Types

\* The version that is recorded is the one every file is of.
LEMMA RecordVersionKeeps ==
  ASSUME SupervisorInv, RecordVersion
  PROVE  SupervisorInv'
<1> USE DEF SupervisorInv
<1>1. WorldTypes' /\ ServiceTypes'
  BY TypeFrame DEF RecordVersion
<1>2. DiskTypes'
  BY TypeParts, BoundsAssumption DEF RecordVersion, Types, DiskTypes, LoopTypes
<1>3. Flags'
  BY TypeParts DEF RecordVersion, Types, Flags, own
<1>4. LoopTypes' /\ Replacing'
  BY ReturnFacts DEF RecordVersion
<1>5. SelfUpdate' /\ CopyOnDisk' /\ OwnTypes'
  BY SelfFrame DEF RecordVersion
<1>6. RecordedIsInstalled'
  BY DEF RecordVersion, Replacing, RecordedIsInstalled
<1> QED BY <1>1, <1>2, <1>3, <1>4, <1>5, <1>6, TypeParts DEF Types

\* A Supervisor that ends anywhere leaves a directory that is as recorded, or
\* dirty.
LEMMA CutKeeps ==
  ASSUME SupervisorInv, Cut
  PROVE  /\ LoopTypes' /\ DiskTypes' /\ Replacing' /\ RecordedIsInstalled'
         /\ dirty' \in BOOLEAN /\ UNCHANGED restart /\ pc' = "down"
<1> USE DEF SupervisorInv
<1>1. LoopTypes' /\ Replacing'
  BY ReturnFacts DEF Cut
<1>2. PICK image \in IF pc = "copy" THEN {Missing, Torn} ELSE {files[at]} :
        files' = [files EXCEPT ![at] = image]
  BY DEF Cut
<1>3. image \in Image
  BY <1>2, TypeParts, BoundsAssumption
     DEF Types, LoopTypes, DiskTypes, Image, Missing, Torn
<1>4. DiskTypes'
  <2>1. files' \in [File -> Image]
    BY <1>2, <1>3, TypeParts DEF Types, DiskTypes
  <2>2. recorded' \in 0..MaxVersion
    BY TypeParts, BoundsAssumption DEF Cut, Types, DiskTypes
  <2> QED BY <2>1, <2>2 DEF DiskTypes
<1>5. dirty' \in BOOLEAN
  BY DEF Cut
<1>6. RecordedIsInstalled'
  <2>1. SUFFICES ASSUME ~dirty' PROVE \A f \in File : files'[f] = recorded'
    BY DEF RecordedIsInstalled
  <2>2. ~dirty /\ recorded' = recorded
    BY <2>1 DEF Cut
  <2>3. pc # "copy"
    BY <2>2 DEF Replacing
  <2>4. files' = files
    BY <1>2, <2>3, TypeParts DEF Types, DiskTypes, LoopTypes
  <2> QED BY <2>2, <2>4 DEF RecordedIsInstalled
<1> QED BY <1>1, <1>4, <1>5, <1>6 DEF Cut, Return

\* A helper that is gone.
LEMMA NoHelperFacts ==
  /\ NoHelper.phase = "none"
  /\ NoHelper \in [phase : HelperPhase, target : 0..MaxVersion]
BY BoundsAssumption DEF NoHelper, HelperPhase

\* The helper stops a Supervisor whose executable is in place.
LEMMA HelperStopKeeps ==
  ASSUME SupervisorInv, HelperStop
  PROVE  SupervisorInv'
<1> USE DEF SupervisorInv
<1>1. WorldTypes' /\ ServiceTypes'
  BY TypeFrame DEF HelperStop
<1>2. exe \in Version /\ helper.target \in Version
  BY DEF HelperStop, SelfUpdate
<1>3. CopyOnDisk'
  BY DEF HelperStop, CopyOnDisk
<1>4. CASE Cut /\ wanted' = FALSE
  <2>1. OwnTypes' /\ SelfUpdate'
    <3>1. CASE helper' = [helper EXCEPT !.phase = "rename"]
      <4>1. /\ helper' \in [phase : HelperPhase, target : 0..MaxVersion]
            /\ helper'.phase = "rename" /\ helper'.target = helper.target
        BY <3>1, TypeParts DEF Types, OwnTypes, HelperPhase
      <4> QED BY <1>2, <1>4, <4>1, CutKeeps, TypeParts
              DEF HelperStop, SelfUpdate, Types, OwnTypes
    <3>2. CASE helper' = NoHelper
      BY <1>2, <1>4, <3>2, NoHelperFacts, CutKeeps, TypeParts
         DEF HelperStop, SelfUpdate, Types, OwnTypes
    <3> QED BY <3>1, <3>2 DEF HelperStop
  <2>2. Flags'
    BY <1>4, CutKeeps, TypeParts DEF Types, Flags
  <2> QED BY <1>1, <1>3, <1>4, <2>1, <2>2, CutKeeps, TypeParts DEF Types
<1>5. CASE helper' = NoHelper /\ UNCHANGED <<disk, loop, wanted>>
  <2>1. DiskTypes' /\ LoopTypes'
    BY <1>5, TypeFrame DEF disk
  <2>2. Flags'
    BY <1>5, TypeParts DEF Types, Flags, disk, loop
  <2>3. OwnTypes' /\ SelfUpdate'
    BY <1>5, NoHelperFacts, TypeParts
       DEF HelperStop, SelfUpdate, Types, OwnTypes, loop
  <2>4. Replacing' /\ RecordedIsInstalled'
    BY <1>5 DEF Replacing, RecordedIsInstalled, disk, loop
  <2> QED BY <1>1, <1>3, <2>1, <2>2, <2>3, <2>4, TypeParts DEF Types
<1> QED BY <1>4, <1>5 DEF HelperStop

\* What the helper's other steps leave alone.
LEMMA HelperFrame ==
  ASSUME SupervisorInv, UNCHANGED <<world, disk, service, loop>>, Works \/ Fails
  PROVE  /\ WorldTypes' /\ DiskTypes' /\ ServiceTypes' /\ LoopTypes'
         /\ Replacing' /\ RecordedIsInstalled'
         /\ restart' \in BOOLEAN /\ dirty' \in BOOLEAN
<1> USE DEF SupervisorInv
<1>1. WorldTypes' /\ DiskTypes' /\ ServiceTypes' /\ LoopTypes'
  BY TypeFrame DEF disk
<1>2. Replacing' /\ RecordedIsInstalled'
  BY DEF Replacing, RecordedIsInstalled, disk, loop
<1>3. restart' \in BOOLEAN /\ dirty' \in BOOLEAN
  BY TypeParts DEF Types, Flags, disk, loop
<1> QED BY <1>1, <1>2, <1>3

\* The old executable is the backup before the new one is written.
LEMMA HelperRenameKeeps ==
  ASSUME SupervisorInv, HelperRename
  PROVE  SupervisorInv'
<1> USE DEF SupervisorInv
<1>1. exe \in Version /\ helper.target \in Version /\ pc = "down" /\ ~wanted
  BY DEF HelperRename, SelfUpdate
<1>2. /\ WorldTypes' /\ DiskTypes' /\ ServiceTypes' /\ LoopTypes'
      /\ Replacing' /\ RecordedIsInstalled'
      /\ restart' \in BOOLEAN /\ dirty' \in BOOLEAN
  BY HelperFrame DEF HelperRename
<1>3. Flags'
  BY <1>2, TypeParts DEF HelperRename, Types, Flags
<1>4. CASE /\ backup' = exe /\ exe' = Missing
           /\ helper' = [helper EXCEPT !.phase = "copy"]
  <2>1. /\ helper' \in [phase : HelperPhase, target : 0..MaxVersion]
        /\ helper'.phase = "copy" /\ helper'.target = helper.target
    BY <1>4, TypeParts DEF Types, OwnTypes, HelperPhase
  <2>2. OwnTypes' /\ SelfUpdate' /\ CopyOnDisk'
    BY <1>1, <1>4, <2>1, BoundsAssumption DEF HelperRename, OwnTypes, SelfUpdate,
       CopyOnDisk, Version, Image, Missing, loop
  <2> QED BY <1>2, <1>3, <2>2, TypeParts DEF Types
<1>5. CASE backup' = Missing /\ helper' = NoHelper /\ UNCHANGED exe
  <2>1. OwnTypes' /\ SelfUpdate' /\ CopyOnDisk'
    BY <1>1, <1>5, NoHelperFacts, TypeParts, BoundsAssumption DEF HelperRename,
       Types, OwnTypes, SelfUpdate, CopyOnDisk, Missing, loop
  <2> QED BY <1>2, <1>3, <2>1, TypeParts DEF Types
<1> QED BY <1>4, <1>5 DEF HelperRename

\* The backup goes only when the new executable is whole.
LEMMA HelperCopyKeeps ==
  ASSUME SupervisorInv, HelperCopy
  PROVE  SupervisorInv'
<1> USE DEF SupervisorInv
<1>1. backup \in Version /\ helper.target \in Version /\ pc = "down" /\ ~wanted
  BY DEF HelperCopy, SelfUpdate
<1>2. /\ WorldTypes' /\ DiskTypes' /\ ServiceTypes' /\ LoopTypes'
      /\ Replacing' /\ RecordedIsInstalled'
      /\ restart' \in BOOLEAN /\ dirty' \in BOOLEAN
  BY HelperFrame DEF HelperCopy
<1>3. Flags'
  BY <1>2, TypeParts DEF HelperCopy, Types, Flags
<1>4. CASE /\ exe' = helper.target /\ backup' = Missing
           /\ helper' = [helper EXCEPT !.phase = "start"]
  <2>1. /\ helper' \in [phase : HelperPhase, target : 0..MaxVersion]
        /\ helper'.phase = "start" /\ helper'.target = helper.target
    BY <1>4, TypeParts DEF Types, OwnTypes, HelperPhase
  <2>2. OwnTypes' /\ SelfUpdate' /\ CopyOnDisk'
    BY <1>1, <1>4, <2>1, BoundsAssumption DEF HelperCopy, OwnTypes, SelfUpdate,
       CopyOnDisk, Version, Image, Missing, loop
  <2> QED BY <1>2, <1>3, <2>2, TypeParts DEF Types
<1>5. CASE /\ helper' = NoHelper
           /\ \/ exe' \in {helper.target, backup} /\ backup' = Missing
              \/ exe' = Torn /\ UNCHANGED backup
  <2>1. OwnTypes' /\ SelfUpdate' /\ CopyOnDisk'
    BY <1>1, <1>5, NoHelperFacts, BoundsAssumption DEF HelperCopy,
       OwnTypes, SelfUpdate, CopyOnDisk, Version, Image, Missing, Torn, loop
  <2> QED BY <1>2, <1>3, <2>1, TypeParts DEF Types
<1> QED BY <1>4, <1>5 DEF HelperCopy

\* The last step of the helper changes no file.
LEMMA HelperStartKeeps ==
  ASSUME SupervisorInv, HelperStart
  PROVE  SupervisorInv'
<1> USE DEF SupervisorInv
<1>1. /\ WorldTypes' /\ DiskTypes' /\ ServiceTypes' /\ LoopTypes'
      /\ Replacing' /\ RecordedIsInstalled'
      /\ restart' \in BOOLEAN /\ dirty' \in BOOLEAN
  BY HelperFrame DEF HelperStart
<1>2. Flags'
  <2>1. wanted' \in BOOLEAN
    BY TypeParts DEF HelperStart, Types, Flags
  <2> QED BY <1>1, <2>1 DEF Flags
<1>3. OwnTypes' /\ SelfUpdate' /\ CopyOnDisk'
  BY NoHelperFacts, TypeParts
     DEF HelperStart, Types, OwnTypes, SelfUpdate, CopyOnDisk, loop
<1> QED BY <1>1, <1>2, <1>3, TypeParts DEF Types

\* systemd starts the Supervisor on a whole executable.
LEMMA StartSupervisorKeeps ==
  ASSUME SupervisorInv, StartSupervisor
  PROVE  SupervisorInv'
<1> USE DEF SupervisorInv
<1>1. WorldTypes' /\ DiskTypes' /\ ServiceTypes' /\ OwnTypes'
  BY TypeFrame DEF StartSupervisor, Works, disk, own
<1>2. Flags'
  BY TypeParts DEF StartSupervisor, Types, Flags, disk, own
<1>3. LoopTypes' /\ Replacing' /\ RecordedIsInstalled'
  BY TypeParts DEF StartSupervisor, Types, LoopTypes, Replacing, Place,
     RecordedIsInstalled, disk
<1>4. SelfUpdate' /\ CopyOnDisk'
  BY DEF StartSupervisor, SelfUpdate, CopyOnDisk, own
<1> QED BY <1>1, <1>2, <1>3, <1>4, TypeParts DEF Types

\* A helper that ends anywhere leaves a whole executable.
LEMMA HelperCutKeeps ==
  ASSUME SupervisorInv, HelperCut
  PROVE  OwnTypes' /\ CopyOnDisk' /\ (pc # "down" => exe' \in Version)
<1> USE DEF SupervisorInv
<1>1. CASE helper.phase = "copy"
  <2>1. backup \in Version /\ pc = "down"
    BY <1>1 DEF SelfUpdate
  <2> QED BY <1>1, <2>1, NoHelperFacts, TypeParts, BoundsAssumption
          DEF HelperCut, Types, OwnTypes, CopyOnDisk, Image, Missing, Torn
<1>2. CASE helper.phase # "copy"
  BY <1>2, NoHelperFacts, TypeParts
     DEF HelperCut, Types, OwnTypes, CopyOnDisk, SelfUpdate
<1> QED BY <1>1, <1>2

\* A crash of any of the processes, or of the device, keeps the invariant.
LEMMA CrashKeeps ==
  ASSUME SupervisorInv,
         CrashSupervisor \/ CrashHelper \/ CrashWorker \/ Reboot
  PROVE  SupervisorInv'
<1> USE DEF SupervisorInv
<1>1. CASE CrashSupervisor
  <2>1. WorldTypes' /\ ServiceTypes' /\ OwnTypes'
    BY <1>1, TypeFrame DEF CrashSupervisor, own
  <2>2. Flags'
    BY <1>1, CutKeeps, TypeParts DEF CrashSupervisor, Types, Flags, own
  <2>3. SelfUpdate' /\ CopyOnDisk'
    BY <1>1, CutKeeps DEF CrashSupervisor, SelfUpdate, CopyOnDisk, own
  <2> QED BY <1>1, <2>1, <2>2, <2>3, CutKeeps, TypeParts
          DEF CrashSupervisor, Types
<1>2. CASE CrashHelper
  <2>1. /\ WorldTypes' /\ DiskTypes' /\ ServiceTypes' /\ LoopTypes'
        /\ Replacing' /\ RecordedIsInstalled'
        /\ restart' \in BOOLEAN /\ dirty' \in BOOLEAN
    BY <1>2, HelperFrame DEF CrashHelper
  <2>2. Flags'
    BY <1>2, <2>1, TypeParts DEF CrashHelper, Types, Flags
  <2>3. OwnTypes' /\ CopyOnDisk' /\ SelfUpdate'
    BY <1>2, HelperCutKeeps, NoHelperFacts
       DEF CrashHelper, HelperCut, SelfUpdate, loop
  <2> QED BY <2>1, <2>2, <2>3, TypeParts DEF Types
<1>3. CASE CrashWorker
  <2>1. WorldTypes' /\ DiskTypes' /\ LoopTypes' /\ OwnTypes'
    BY <1>3, TypeFrame DEF CrashWorker, disk, own
  <2>2. ServiceTypes'
    BY <1>3, TypeParts, BoundsAssumption DEF CrashWorker, Types, ServiceTypes
  <2>3. Flags'
    BY <1>3, TypeParts DEF CrashWorker, Types, Flags, disk, loop, own
  <2>4. Replacing' /\ RecordedIsInstalled' /\ SelfUpdate' /\ CopyOnDisk'
    BY <1>3 DEF CrashWorker, Replacing, RecordedIsInstalled, SelfUpdate,
       CopyOnDisk, disk, loop, own
  <2> QED BY <2>1, <2>2, <2>3, <2>4, TypeParts DEF Types
<1>4. CASE Reboot
  <2>1. WorldTypes'
    BY <1>4, TypeFrame DEF Reboot
  <2>2. ServiceTypes'
    BY <1>4, TypeParts, LaunchedType, BoundsAssumption
       DEF Reboot, Types, ServiceTypes
  <2>3. Flags'
    BY <1>4, CutKeeps, TypeParts DEF Reboot, Types, Flags
  <2>4. OwnTypes' /\ CopyOnDisk' /\ SelfUpdate'
    BY <1>4, HelperCutKeeps, NoHelperFacts, CutKeeps
       DEF Reboot, HelperCut, SelfUpdate
  <2> QED BY <1>4, <2>1, <2>2, <2>3, <2>4, CutKeeps, TypeParts DEF Reboot, Types
<1> QED BY <1>1, <1>2, <1>3, <1>4

----------------------------------------------------------------------------

\* In every behaviour of the Supervisor, its helper and the device, with any
\* faults, the inductive invariant holds.
THEOREM SupervisorInvariant == Spec => []SupervisorInv
<1>1. Init => SupervisorInv
  BY InitSupervisor
<1>2. SupervisorInv /\ [Next]_vars => SupervisorInv'
  <2> SUFFICES ASSUME SupervisorInv, [Next]_vars PROVE SupervisorInv'
    OBVIOUS
  <2>1. CASE Publish
    BY <2>1, PublishKeeps
  <2>2. CASE Monitor
    BY <2>2, MonitorKeeps
  <2>3. CASE Cycle
    BY <2>3, CheckSupervisorKeeps, CheckWorkerKeeps, StopWorkerKeeps,
       MoveAwayKeeps, CopyStagedKeeps, RestartWorkerKeeps, RecordVersionKeeps,
       StartSupervisorKeeps DEF Cycle
  <2>4. CASE Helper
    BY <2>4, HelperStopKeeps, HelperRenameKeeps, HelperCopyKeeps,
       HelperStartKeeps DEF Helper
  <2>5. CASE CrashSupervisor \/ CrashHelper \/ CrashWorker \/ Reboot
    BY <2>5, CrashKeeps
  <2>6. CASE UNCHANGED vars
    BY <2>6 DEF vars, SupervisorInv, TypeOK, Replacing, RecordedIsInstalled,
       SelfUpdate, CopyOnDisk
  <2> QED BY <2>1, <2>2, <2>3, <2>4, <2>5, <2>6 DEF Next
<1> QED BY <1>1, <1>2, PTL DEF Spec

\* The variables of the Supervisor's model keep their types: in particular no
\* torn file ever becomes the backup of the Supervisor's executable.
THEOREM SupervisorTypes == Spec => []TypeOK
BY SupervisorInvariant, PTL DEF SupervisorInv

\* The version file names the release of every file of the Worker, unless an
\* update was broken off after it touched one (check_worker_update).
THEOREM VersionFileIsTrue == Spec => []RecordedIsInstalled
BY SupervisorInvariant, PTL DEF SupervisorInv

\* A whole executable of the Supervisor is on disk at every moment of a
\* self-update, whatever fails (replace_file_with_backup).
THEOREM SupervisorSurvives == Spec => []CopyOnDisk
BY SupervisorInvariant, PTL DEF SupervisorInv
===========================================================================
