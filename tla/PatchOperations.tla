---------------------------- MODULE PatchOperations ----------------------------
(***************************************************************************)
(* Patch operations of one device: an operator asks for a scan or an       *)
(* install, the device finds the override at its next check-in, runs the   *)
(* action, and reports it on two paths.  Progress travels through the      *)
(* broker, in order but possibly more than once, and is projected in one   *)
(* transaction.  The action result is a call whose statements are not.     *)
(*                                                                         *)
(* Requests are for the whole device: the engine takes the operation id    *)
(* from such overrides only.  The device's updates are one update, event   *)
(* time counts the progress records, and what the policy alone starts is   *)
(* left out: nobody waits for it.                                          *)
(***************************************************************************)
EXTENDS Naturals, Sequences

CONSTANTS
    Install,        \* the requests for an install; the others are for a scan
    MaxOperations,  \* bound: requests of the operator
    MaxFaults,      \* bound: losses, redeliveries, crashes, reconnections
    MaxReports,     \* bound: progress records beyond which no heartbeat is sent
    MaxLag          \* bound: progress records the consumer may be behind

Operation == 1..MaxOperations

ASSUME InstallAssumption == Install \subseteq Operation
ASSUME BoundsAssumption == MaxOperations \in Nat /\ MaxFaults \in Nat /\ MaxReports \in Nat
                           /\ MaxLag \in Nat

VARIABLES
    request,    \* request[o]: the handler: "none", "override" created, "done" or "cut" short
    override,   \* override[o]: the force_ override of o is enabled
    row,        \* row[o]: status and reported_at of o in rmm_patch_action
    logged,     \* logged[o]: the override ids of the latest decision logged for o
    update,     \* lifecycle_state of the update: "pending", "failed" or "installed"
    worker,     \* the patch manager: where it is, and in which operation
    clock,      \* the event time of the latest progress record
    queue,      \* the records the consumer has before it
    again,      \* records a consumer that lost its partition is still projecting
    calls,      \* the action-result calls the API is executing
    faults,
    excused,    \* history: operations whose row nobody will finish
    half        \* history: operations whose call was cut after the row, before the overrides

database == <<override, row, logged, update>>
broker == <<clock, queue, again>>
history == <<excused, half>>
vars == <<request, database, worker, broker, calls, faults, history>>

Terminal(status) == status \in {"completed", "failed"}
Status == {"none", "queued", "running", "completed", "failed"}

Progress == [op : Operation, status : Status \ {"none"}, time : Nat]
Call == [op : Operation, status : {"completed", "failed"}, step : 1..3, awaited : BOOLEAN]
Idle == [at |-> "idle", op |-> 0]

Fault == faults < MaxFaults /\ faults' = faults + 1

--------------------------------------------------------------------------------
(* The operator                                                            *)

\* The override is stored before the row of the operation.
CreateOverride(o) ==
    /\ request[o] = "none" /\ (o > 1 => request[o - 1] # "none")
    /\ request' = [request EXCEPT ![o] = "override"]
    /\ override' = [override EXCEPT ![o] = TRUE]
    /\ UNCHANGED <<row, logged, update, worker, broker, calls, faults, history>>

\* insertPatchAction: the upsert takes an existing row back to queued.
InsertAction(o) ==
    /\ request[o] = "override"
    /\ request' = [request EXCEPT ![o] = "done"]
    /\ row' = [row EXCEPT ![o].status = "queued"]
    /\ excused' = IF Terminal(row[o].status) THEN excused \cup {o} ELSE excused
    /\ UNCHANGED <<override, logged, update, worker, broker, calls, faults, half>>

\* The API dies between the two.
RequestCut(o) ==
    /\ request[o] = "override" /\ Fault
    /\ request' = [request EXCEPT ![o] = "cut"]
    /\ UNCHANGED <<database, worker, broker, calls, history>>

\* Cancel disables the overrides of the device and leaves the rows.
Cancel ==
    /\ \E o \in Operation : override[o]
    /\ override' = [o \in Operation |-> FALSE]
    /\ excused' = excused \cup {o \in Operation : override[o]}
    /\ UNCHANGED <<request, row, logged, update, worker, broker, calls, faults, half>>

--------------------------------------------------------------------------------
(* The device                                                              *)

Enabled == {o \in Operation : override[o]}

\* evaluatePatchActionPlan: an install request holds scans back, even when
\* there is nothing to install.
Chosen ==
    IF Enabled \cap Install = {} THEN Enabled
    ELSE IF update = "installed" THEN {} ELSE Enabled \cap Install

\* The operation id of the item is that of the newest override; the decision
\* logged for it names them all.
Planned(o) == o \in Chosen /\ \A p \in Chosen : p <= o

\* A progress record reaches the broker, or is dropped when it cannot be published.
Emit(op, status) ==
    /\ \/ /\ Len(queue) < MaxLag
          /\ clock' = clock + 1
          /\ queue' = Append(queue, [op |-> op, status |-> status, time |-> clock + 1])
          /\ UNCHANGED faults
       \/ Fault /\ UNCHANGED <<clock, queue>>
    /\ UNCHANGED again

\* Mutant: the overrides are used up when they are handed out.
CheckInOnce(o) ==
    /\ worker.at = "idle" /\ Planned(o)
    /\ logged' = [logged EXCEPT ![o] = Chosen]
    /\ override' = [p \in Operation |-> override[p] /\ p \notin Chosen]
    /\ excused' = excused \cup (Chosen \ {o})
    /\ \/ worker' = [at |-> "running", op |-> o] /\ Emit(o, "running")
       \/ Fault /\ UNCHANGED <<worker, broker>>
    /\ UNCHANGED <<request, row, update, calls, half>>

\* patch_state_checkin: the decision is logged and the plan sent; it may come
\* too late or not at all.  The device begins and says so.
CheckIn(o) ==
    /\ worker.at = "idle" /\ Planned(o)
    /\ logged' = [logged EXCEPT ![o] = Chosen]
    /\ excused' = excused \cup (Chosen \ {o})
    /\ \/ worker' = [at |-> "running", op |-> o] /\ Emit(o, "running")
       \/ Fault /\ UNCHANGED <<worker, broker>>
    /\ UNCHANGED <<request, override, row, update, calls, half>>

Heartbeat ==
    /\ worker.at = "running" /\ clock < MaxReports
    /\ Emit(worker.op, "running")
    /\ UNCHANGED <<request, database, worker, calls, history>>

\* The terminal progress (none when run_patch_job fails outside the executor),
\* then report_patch_action_result.  The server waits for the API before it
\* reads the next message of the connection.
Finish(status) ==
    /\ worker.at = "running"
    /\ Emit(worker.op, status)
    /\ worker' = [worker EXCEPT !.at = "reporting"]
    /\ calls' = calls \cup {[op |-> worker.op, status |-> status, step |-> 1, awaited |-> TRUE]}
    /\ UNCHANGED <<request, database, history>>

\* The connection is replaced, or the server gives up on the call; the API
\* goes on with it.
WorkerLost ==
    /\ worker.at # "idle" /\ Fault
    /\ worker' = Idle
    /\ calls' = {[c EXCEPT !.awaited = FALSE] : c \in calls}
    /\ UNCHANGED <<request, database, broker, history>>

--------------------------------------------------------------------------------
(* The projection of progress                                              *)

\* Mutant: a record older than the row is applied.
AppliesAnyTime(r, e) == ~Terminal(r.status)

\* classifyPatchProgressTransition, and the guard of the upsert.
Applies(r, e) == ~Terminal(r.status) /\ r.at <= e.time

UpdateAfter(status) == IF status = "completed" THEN "installed" ELSE "failed"

\* Mutant: the one-shot overrides are left to the action result.
ProjectRowOnly(e) ==
    /\ row' = IF Applies(row[e.op], e) THEN [row EXCEPT ![e.op] = [status |-> e.status, at |-> e.time]] ELSE row
    /\ UNCHANGED <<override, update>>

\* projectPatchProgressBatch, one transaction: the row; with a terminal
\* status also the overrides of the operation and, of an install, the result
\* of the update and the overrides its decision names.
ProjectProgress(e) ==
    LET applies == Applies(row[e.op], e)
        ends == applies /\ Terminal(e.status)
        closed == IF e.op \in Install THEN {e.op} \cup logged[e.op] ELSE {e.op}
    IN  /\ row' = IF applies THEN [row EXCEPT ![e.op] = [status |-> e.status, at |-> e.time]] ELSE row
        /\ override' = [o \in Operation |-> override[o] /\ ~(ends /\ o \in closed)]
        /\ update' = IF ends /\ e.op \in Install THEN UpdateAfter(e.status) ELSE update

\* The consumer hands the next record over and commits its offset.
Consume ==
    /\ queue # <<>>
    /\ ProjectProgress(Head(queue))
    /\ queue' = Tail(queue)
    /\ UNCHANGED <<request, logged, clock, again, worker, calls, faults, history>>

\* The partition moves while the record is being handed over: the next owner
\* gets it too.
Rebalance ==
    /\ queue # <<>> /\ Fault
    /\ again' = again \cup {Head(queue)}
    /\ UNCHANGED <<request, database, clock, queue, worker, calls, history>>

ConsumeAgain(e) ==
    /\ ProjectProgress(e)
    /\ again' = again \ {e}
    /\ UNCHANGED <<request, logged, clock, queue, worker, calls, faults, history>>

--------------------------------------------------------------------------------
(* The action result                                                       *)

\* recordPatchActionResult, one statement at a time: the update, the row
\* whatever its status, the overrides of the decision.
ResultStep(c) ==
    /\ \/ /\ c.step = 1
          /\ update' = IF c.op \in Install THEN UpdateAfter(c.status) ELSE update
          /\ UNCHANGED <<override, row, excused>>
       \/ /\ c.step = 2
          /\ row' = IF row[c.op].status = "none" THEN row ELSE [row EXCEPT ![c.op].status = c.status]
          /\ excused' = IF row[c.op].status = "none" THEN excused \cup {c.op} ELSE excused
          /\ UNCHANGED <<override, update>>
       \/ /\ c.step = 3
          /\ override' = [o \in Operation |-> override[o] /\ o \notin logged[c.op]]
          /\ UNCHANGED <<row, update, excused>>
    /\ calls' = (calls \ {c}) \cup (IF c.step < 3 THEN {[c EXCEPT !.step = @ + 1]} ELSE {})
    /\ worker' = IF c.step = 3 /\ c.awaited THEN Idle ELSE worker
    /\ UNCHANGED <<request, logged, broker, faults, half>>

\* The API dies in the middle; the server sees the call fail.
ResultCut(c) ==
    /\ Fault
    /\ calls' = calls \ {c}
    /\ worker' = IF c.awaited THEN Idle ELSE worker
    /\ half' = IF c.step = 3 THEN half \cup {c.op} ELSE half
    /\ UNCHANGED <<request, database, broker, excused>>

--------------------------------------------------------------------------------
Init ==
    /\ request = [o \in Operation |-> "none"]
    /\ override = [o \in Operation |-> FALSE]
    /\ row = [o \in Operation |-> [status |-> "none", at |-> 0]]
    /\ logged = [o \in Operation |-> {}]
    /\ update = "pending"
    /\ worker = Idle
    /\ clock = 0 /\ queue = <<>> /\ again = {} /\ calls = {}
    /\ faults = 0 /\ excused = {} /\ half = {}

Finishes == Finish("completed") \/ Finish("failed")

Next ==
    \/ \E o \in Operation : CreateOverride(o) \/ InsertAction(o) \/ RequestCut(o) \/ CheckIn(o)
    \/ Cancel \/ Heartbeat \/ Finishes \/ WorkerLost
    \/ Consume \/ Rebalance \/ (\E e \in again : ConsumeAgain(e))
    \/ \E c \in calls : ResultStep(c) \/ ResultCut(c)

Spec == Init /\ [][Next]_vars

\* The device checks in every few minutes and its executor ends; consumer and
\* API run on.
FairSpec ==
    /\ Spec
    /\ WF_vars(\E o \in Operation : CheckIn(o)) /\ WF_vars(Finishes) /\ WF_vars(Consume)
    /\ WF_vars(\E c \in calls : ResultStep(c))

--------------------------------------------------------------------------------
(* Properties                                                              *)

\* Type invariant of the patch tables, the broker and the calls in progress.
TypeOK ==
    /\ request \in [Operation -> {"none", "override", "done", "cut"}]
    /\ override \in [Operation -> BOOLEAN]
    /\ row \in [Operation -> [status : Status, at : Nat]]
    /\ logged \in [Operation -> SUBSET Operation]
    /\ update \in {"pending", "failed", "installed"}
    /\ worker \in [at : {"idle", "running", "reporting"}, op : Operation \cup {0}]
    /\ clock \in Nat /\ queue \in Seq(Progress) /\ again \subseteq Progress
    /\ calls \subseteq Call
    /\ faults \in 0..MaxFaults /\ excused \subseteq Operation /\ half \subseteq Operation

\* An operation whose result is recorded is not handed to the device again:
\* the overrides go with the row.  The exceptions are the calls that have
\* written the row and are still on the way to the overrides, or were cut there.
NoRerun ==
    [][worker.at = "idle" /\ worker'.at = "running" /\ Terminal(row[worker'.op].status) =>
          \/ worker'.op \in half
          \/ \E c \in calls : c.op = worker'.op /\ c.step = 3]_vars

\* Redelivered progress never takes a row back in event time.
NeverBackInTime == [][\A o \in Operation : row[o].at <= row'[o].at]_vars

\* Nothing can be planned for o: the update it is for is installed, or an
\* install request that has nothing to do holds it back.
HeldBack(o) == update = "installed" /\ (Install \cap ({o} \cup Enabled) # {})

\* A request ends, whatever is lost, as long as the device keeps checking in:
\* its override stands until a result has been recorded.  Left aside are
\* requests that were cancelled, taken over by a newer one, reported before
\* their row was there, or held back.
EveryRequestEnds ==
    \A o \in Operation :
        request[o] = "done" ~> Terminal(row[o].status) \/ o \in excused \/ HeldBack(o)

\* ADR 0003: "Completed, failed, and cancelled states are immutable for an
\* operation ID, including when a later-timestamp heartbeat or conflicting
\* terminal report arrives."  The statement that records an action result has
\* no such guard.
TerminalForGood ==
    [][\A o \in Operation : Terminal(row[o].status) /\ Terminal(row'[o].status) =>
                                row'[o].status = row[o].status]_vars

================================================================================
