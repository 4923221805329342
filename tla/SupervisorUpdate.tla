------------------------- MODULE SupervisorUpdate -------------------------
(***************************************************************************)
(* The Supervisor of a Linux device (talos_supervisor): the loop that      *)
(* keeps the Worker installed, up to date and running, and the detached    *)
(* helper by which the Supervisor replaces its own executable.             *)
(*                                                                         *)
(* An update is a sequence of file operations with nothing around them: a  *)
(* step that fails returns with "?" and undoes nothing, and the power or   *)
(* the process may go between any two of them.  What brings the device     *)
(* back is the next round of the loop: the version file is written last,   *)
(* a missing Worker executable counts as version 0.0.0, and the health     *)
(* check starts whatever executable it finds.  The helper stops the very   *)
(* Supervisor that launched it, in whatever it is doing.                   *)
(*                                                                         *)
(* A file holds the number of a release, or Missing, or Torn (a copy that  *)
(* was cut short).  The ".previous" copies of the Worker's files are never *)
(* read back by the code and are left out.  The Supervisor's package has   *)
(* one file.  Downloads and their verification are part of the check that  *)
(* fetches them: a package that fails it is an update that did not come.   *)
(***************************************************************************)
EXTENDS Naturals, FiniteSets

CONSTANTS File,         \* the files of the Worker's package
          Exe,          \* the Worker's executable, one of them
          MaxVersion,   \* releases are numbered 1..MaxVersion
          MaxPublished, \* bound on the changes of what the server offers
          MaxFaults     \* bound on failing steps, crashes and reboots

ASSUME ExeAssumption == Exe \in File
ASSUME BoundsAssumption == /\ MaxVersion \in Nat \ {0}
                           /\ MaxPublished \in Nat /\ MaxFaults \in Nat

Version == 1..MaxVersion
Missing == 0
Torn == MaxVersion + 1
Image == 0..MaxVersion + 1

\* Where the Supervisor's loop is.
Place == {"down", "start", "idle", "worker", "apply", "replace", "copy",
          "record", "ensure"}

HelperPhase == {"none", "stop", "rename", "copy", "start"}

VARIABLES
  offer,     \* release the update server offers: w for Worker, s for Supervisor
  files,     \* the Worker's install directory
  recorded,  \* the Worker's version file, 0 when absent or empty
  unit,      \* release of the Supervisor that wrote the Worker's unit, 0: none
  wrun,      \* release the Worker's process runs, 0 when it is stopped
  pc,        \* the Supervisor's loop
  srun,      \* release the Supervisor's process runs
  target,    \* release being applied to the Worker
  at,        \* the file being copied
  todo,      \* its files still to be replaced
  restart,   \* restart_service of the last apply
  wanted,    \* the Supervisor's service is meant to run (not stopped by hand)
  exe,       \* the Supervisor's executable
  backup,    \* its backup
  helper,    \* the apply helper
  dirty,     \* history: files were touched since the version was recorded
  published, faults

disk == <<files, recorded, dirty>>
service == <<unit, wrun>>
loop == <<pc, srun, target, at, todo, restart>>
own == <<wanted, exe, backup, helper>>
world == <<offer, published>>
vars == <<offer, files, recorded, unit, wrun, pc, srun, target, at, todo,
          restart, wanted, exe, backup, helper, dirty, published, faults>>

\* Type invariant of the files, the services, the loop and the helper.
TypeOK ==
  /\ offer \in [w : Version, s : Version]
  /\ files \in [File -> Image]
  /\ recorded \in 0..MaxVersion
  /\ unit \in 0..MaxVersion /\ wrun \in 0..MaxVersion
  /\ pc \in Place /\ srun \in Version
  /\ target \in 0..MaxVersion /\ at \in File /\ todo \subseteq File
  /\ restart \in BOOLEAN /\ wanted \in BOOLEAN
  /\ exe \in Image /\ backup \in 0..MaxVersion
  /\ helper \in [phase : HelperPhase, target : 0..MaxVersion]
  /\ dirty \in BOOLEAN
  /\ published \in 0..MaxPublished /\ faults \in 0..MaxFaults

\* A device on which the first Supervisor has just been installed.
Init ==
  /\ offer = [w |-> 1, s |-> 1]
  /\ files = [f \in File |-> Missing] /\ recorded = 0 /\ dirty = FALSE
  /\ unit = 0 /\ wrun = 0
  /\ pc = "start" /\ srun = 1 /\ target = 0 /\ at = Exe /\ todo = {} /\ restart = FALSE
  /\ wanted = TRUE /\ exe = 1 /\ backup = Missing
  /\ helper = [phase |-> "none", target |-> 0]
  /\ published = 0 /\ faults = 0

Works == UNCHANGED faults
Fails == faults < MaxFaults /\ faults' = faults + 1

\* An update returns: its local variables are gone.
Return(place) == pc' = place /\ target' = 0 /\ at' = Exe /\ todo' = {}

----------------------------------------------------------------------------
(* What the update server offers: a newer release, or an older one again.  *)

Publish ==
  /\ published < MaxPublished
  /\ published' = published + 1
  /\ \/ \E v \in Version \ {offer.w} : offer' = [offer EXCEPT !.w = v]
     \/ \E v \in Version \ {offer.s} : offer' = [offer EXCEPT !.s = v]
  /\ UNCHANGED <<disk, service, loop, own, faults>>

----------------------------------------------------------------------------
(* The Supervisor's loop.                                                  *)

Present == files[Exe] # Missing

\* What runs after a start of an executable with this content.
Launched(image) == IF image \in Version THEN image ELSE 0

\* Mutant: a service that exists but is stopped is not started.
HealthyIfInstalled ==
  IF ~Present THEN UNCHANGED service
  ELSE \E changed \in {unit = 0, unit # srun} :
         /\ unit' = IF changed THEN srun ELSE unit
         /\ wrun' = IF ~changed THEN wrun ELSE Launched(files[Exe])

\* ensure_worker_service_healthy: write the unit if its text changed, restart
\* a running service whose unit changed, start one that is not running.
Healthy ==
  IF ~Present THEN UNCHANGED service
  ELSE \E changed \in {unit = 0, unit # srun} :
         /\ unit' = IF changed THEN srun ELSE unit
         /\ wrun' = IF wrun # 0 /\ ~changed THEN wrun ELSE Launched(files[Exe])

\* The same, with a query, a write, a stop or a start that fails.
Unhealthy ==
  /\ Present
  /\ unit' \in {unit, srun}
  /\ wrun' \in {wrun, IF wrun # 0 /\ unit' = unit THEN wrun ELSE 0}

\* At startup, after a Worker update, and whenever the monitor interval ends.
\* What follows the startup check is the first update cycle.
Monitor ==
  /\ pc \in {"start", "ensure", "idle"}
  /\ pc' = "idle"
  /\ \/ Works /\ Healthy
     \/ Fails /\ Unhealthy
  /\ UNCHANGED <<world, disk, own, srun, target, at, todo, restart>>

\* check_supervisor_update: a newer Supervisor is fetched and handed to a
\* helper, and the Worker's turn is put off.  A second helper is refused: its
\* unit has the name of the first.  (The name holds the process id; a process
\* that crashes, returns and launches another helper before the first has
\* stopped it is left out.)
CheckSupervisor ==
  /\ pc = "idle"
  /\ \/ /\ Works /\ offer.s > srun /\ helper.phase = "none"
        /\ helper' = [phase |-> "stop", target |-> offer.s]
        /\ pc' = "idle"
     \/ /\ Works /\ (offer.s <= srun \/ helper.phase # "none")
        /\ pc' = "worker" /\ UNCHANGED helper
     \/ /\ Fails /\ offer.s > srun
        /\ pc' = "worker" /\ UNCHANGED helper
  /\ UNCHANGED <<world, disk, service, srun, target, at, todo, restart, wanted,
                 exe, backup>>

\* Mutant: the version file is believed although the executable is missing.
RecordedWorker == recorded

\* The version the update is asked for: 0.0.0 when the executable is missing.
CurrentWorker == IF Present THEN recorded ELSE 0

\* check_worker_update up to the staged package.
CheckWorker ==
  /\ pc = "worker"
  /\ \/ Works /\ offer.w > CurrentWorker /\ pc' = "apply" /\ target' = offer.w
        /\ UNCHANGED <<at, todo>>
     \/ Works /\ offer.w <= CurrentWorker /\ Return("idle")
     \/ Fails /\ offer.w > CurrentWorker /\ Return("idle")
  /\ UNCHANGED <<world, disk, service, own, srun, restart>>

\* The service is stopped if it exists.  A stop that fails ends the update; a
\* query that fails counts as "no service", and the update goes on.
StopWorker ==
  /\ pc = "apply"
  /\ \/ /\ Works /\ pc' = "replace" /\ restart' = (unit # 0) /\ wrun' = 0
        /\ todo' = File /\ UNCHANGED <<target, at>>
     \/ /\ Fails /\ unit # 0 /\ pc' = "replace" /\ restart' = FALSE
        /\ todo' = File /\ UNCHANGED <<wrun, target, at>>
     \/ /\ Fails /\ unit # 0 /\ Return("idle")
        /\ wrun' \in {wrun, 0} /\ UNCHANGED restart
  /\ UNCHANGED <<world, disk, own, unit, srun>>

\* replace_directory_contents, one file: the old one is moved away ...
MoveAway(f) ==
  /\ pc = "replace" /\ f \in todo
  /\ \/ /\ Works /\ pc' = "copy" /\ at' = f /\ todo' = todo \ {f}
        /\ files' = [files EXCEPT ![f] = Missing] /\ dirty' = TRUE
        /\ UNCHANGED target
     \/ Fails /\ Return("idle") /\ UNCHANGED <<files, dirty>>
  /\ UNCHANGED <<world, service, own, recorded, srun, restart>>

\* Mutant: the result of the copy is not looked at.
CopyUnchecked ==
  /\ pc = "copy" /\ pc' = "replace"
  /\ \/ Works /\ files' = [files EXCEPT ![at] = target]
     \/ Fails /\ \E image \in {Missing, Torn, target} :
                  files' = [files EXCEPT ![at] = image]
  /\ UNCHANGED <<world, service, own, recorded, dirty, srun, restart, target, at,
                 todo>>

\* ... and the staged one is copied into its place.  A copy that fails leaves
\* nothing, a part, or a file whose permissions could not be set.
CopyStaged ==
  /\ pc = "copy"
  /\ \/ /\ Works /\ pc' = "replace" /\ files' = [files EXCEPT ![at] = target]
        /\ UNCHANGED <<target, at, todo>>
     \/ /\ Fails /\ Return("idle")
        /\ \E image \in {Missing, Torn, target} :
             files' = [files EXCEPT ![at] = image]
  /\ UNCHANGED <<world, service, own, recorded, dirty, srun, restart>>

\* Every file is in place: the service is started again if it was stopped.
RestartWorker ==
  /\ pc = "replace" /\ todo = {}
  /\ \/ /\ Works /\ pc' = "record"
        /\ wrun' = IF restart THEN Launched(files[Exe]) ELSE wrun
        /\ UNCHANGED <<target, at, todo>>
     \/ /\ Fails /\ restart /\ Return("idle")
        /\ wrun' \in {0, Launched(files[Exe])}
  /\ UNCHANGED <<world, disk, own, unit, srun, restart>>

\* write_worker_version: a write that fails may have emptied the file.
RecordVersion ==
  /\ pc = "record"
  /\ \/ Works /\ Return("ensure") /\ recorded' = target /\ dirty' = FALSE
     \/ Fails /\ Return("idle") /\ recorded' \in {recorded, 0} /\ dirty' = TRUE
  /\ UNCHANGED <<world, files, service, own, srun, restart>>

----------------------------------------------------------------------------
(* The helper, "talos_supervisor --apply", and the end of a process.       *)

\* The Supervisor's process ends where it is: a copy may be cut short, a
\* version file emptied.
Cut ==
  /\ Return("down")
  /\ \E image \in IF pc = "copy" THEN {Missing, Torn} ELSE {files[at]} :
       files' = [files EXCEPT ![at] = image]
  /\ recorded' \in IF pc = "record" THEN {recorded, 0} ELSE {recorded}
  /\ dirty' = (dirty \/ recorded' # recorded)
  /\ UNCHANGED <<srun, restart>>

NoHelper == [phase |-> "none", target |-> 0]

\* The package is staged and the Supervisor's service is stopped.
HelperStop ==
  /\ helper.phase = "stop"
  /\ \/ Works /\ Cut /\ wanted' = FALSE
        /\ helper' = [helper EXCEPT !.phase = "rename"]
     \/ Fails /\ helper' = NoHelper /\ UNCHANGED <<disk, loop, wanted>>
     \/ Fails /\ helper' = NoHelper /\ Cut /\ wanted' = FALSE
  /\ UNCHANGED <<world, service, exe, backup>>

\* Mutant: the old executable is removed, not kept.
HelperRemove ==
  /\ helper.phase = "rename"
  /\ \/ Works /\ backup' = Missing /\ exe' = Missing
        /\ helper' = [helper EXCEPT !.phase = "copy"]
     \/ Fails /\ backup' = Missing /\ helper' = NoHelper /\ UNCHANGED exe
  /\ UNCHANGED <<world, disk, service, loop, wanted>>

\* replace_file_with_backup: the executable becomes the backup ...
HelperRename ==
  /\ helper.phase = "rename"
  /\ \/ Works /\ backup' = exe /\ exe' = Missing
        /\ helper' = [helper EXCEPT !.phase = "copy"]
     \/ Fails /\ backup' = Missing /\ helper' = NoHelper /\ UNCHANGED exe
  /\ UNCHANGED <<world, disk, service, loop, wanted>>

\* ... and the staged one takes its place.  A failing copy that created no
\* file is rolled back; one that left a part of a file is not.
HelperCopy ==
  /\ helper.phase = "copy"
  /\ \/ Works /\ exe' = helper.target /\ backup' = Missing
        /\ helper' = [helper EXCEPT !.phase = "start"]
     \/ Fails /\ exe' = helper.target /\ backup' = Missing /\ helper' = NoHelper
     \/ Fails /\ exe' = backup /\ backup' = Missing /\ helper' = NoHelper
     \/ Fails /\ exe' = Torn /\ helper' = NoHelper /\ UNCHANGED backup
  /\ UNCHANGED <<world, disk, service, loop, wanted>>

\* The service is started with the executable that is now in place.
HelperStart ==
  /\ helper.phase = "start" /\ helper' = NoHelper
  /\ \/ Works /\ wanted' = TRUE
     \/ Fails /\ UNCHANGED wanted
  /\ UNCHANGED <<world, disk, service, loop, exe, backup>>

----------------------------------------------------------------------------
(* The device.                                                             *)

\* systemd keeps a Supervisor running that was not stopped (Restart=always).
StartSupervisor ==
  /\ pc = "down" /\ wanted /\ exe \in Version
  /\ pc' = "start" /\ srun' = exe
  /\ UNCHANGED <<world, disk, service, own, target, at, todo, restart, faults>>

CrashSupervisor ==
  /\ Fails /\ pc # "down" /\ Cut
  /\ UNCHANGED <<world, service, own>>

\* What the end of the helper leaves of the Supervisor's executable.
HelperCut ==
  /\ helper' = NoHelper
  /\ exe' \in IF helper.phase = "copy" THEN {Missing, Torn} ELSE {exe}
  /\ UNCHANGED backup

CrashHelper ==
  /\ Fails /\ helper.phase # "none" /\ HelperCut
  /\ UNCHANGED <<world, disk, service, loop, wanted>>

\* The Worker's process ends and systemd gives up restarting it.
CrashWorker ==
  /\ Fails /\ wrun # 0 /\ wrun' = 0
  /\ UNCHANGED <<world, disk, loop, own, unit>>

\* Every process ends; both services are enabled and start again.
Reboot ==
  /\ Fails /\ Cut /\ HelperCut /\ wanted' = TRUE
  /\ wrun' = IF unit # 0 THEN Launched(files'[Exe]) ELSE 0
  /\ UNCHANGED <<world, unit>>

Cycle ==
  \/ CheckSupervisor \/ CheckWorker \/ StopWorker
  \/ \E f \in File : MoveAway(f)
  \/ CopyStaged \/ RestartWorker \/ RecordVersion \/ StartSupervisor

Helper == HelperStop \/ HelperRename \/ HelperCopy \/ HelperStart

Next ==
  \/ Publish \/ Monitor \/ Cycle \/ Helper
  \/ CrashSupervisor \/ CrashHelper \/ CrashWorker \/ Reboot

Spec == Init /\ [][Next]_vars

\* The loop looks at both of its timers in every round, so neither the update
\* cycle nor the health check is put off for ever; the helper runs by itself.
Fairness == WF_vars(Cycle) /\ SF_vars(Monitor) /\ WF_vars(Helper)

FairSpec == Spec /\ Fairness

----------------------------------------------------------------------------
(* Properties.                                                             *)

\* The version file tells the truth about the install directory: unless an
\* update was broken off after it touched a file, every file of the Worker is
\* of the recorded release.  The file is written after the last copy, and a
\* broken update is not recorded (check_worker_update).
RecordedIsInstalled == ~dirty => \A f \in File : files[f] = recorded

\* Whatever fails or crashes during a self-update, a whole executable of the
\* Supervisor is on disk, in its place or as the backup
\* (replace_file_with_backup).
CopyOnDisk == exe \in Version \/ backup \in Version

\* Nobody is left who would start the Supervisor.
Stranded ==
  /\ pc = "down" /\ helper.phase = "none"
  /\ ~(wanted /\ exe \in Version)

\* However an update was broken off, the release that is offered in the end is
\* applied: the Supervisor comes to a point where it has no newer one to apply
\* and an executable is in place, or it is stranded.
NewerInstalled == <>[](Stranded \/ (Present /\ recorded >= offer.w))

\* A Worker stopped by an update that broke off, or dead, is started again, and
\* on the executable that is in place, unless the update took the service for
\* absent; or the executable is unusable, or the Supervisor stranded.
WorkerServed ==
  <>[](\/ Stranded \/ files[Exe] \notin Version
       \/ wrun # 0 /\ (restart => wrun = files[Exe]))
============================================================================
