------------------------ MODULE PatchOperationsProofs ------------------------
(***************************************************************************)
(* Proofs about patch operations, for any number of requests, losses and   *)
(* redeliveries, and however far the consumer is behind.                   *)
(***************************************************************************)
EXTENDS PatchOperations, TLAPS

\* Nothing is known of an operation before its override is created.
Requested ==
    \A o \in Operation : request[o] = "none" => row[o].status = "none" /\ logged[o] = {}

\* An override is that of a request.
Overridden == \A o \in Operation : override[o] => request[o] # "none"

\* Whatever the device works on or has reported went through a decision that
\* names the override of the operation itself.
Decided(o) == o \in Operation /\ o \in logged[o]

AllDecided ==
    /\ worker.at # "idle" => Decided(worker.op)
    /\ \A i \in 1..Len(queue) : Decided(queue[i].op)
    /\ \A e \in again : Decided(e.op)
    /\ \A c \in calls : Decided(c.op)

\* A recorded result leaves no enabled override behind, except where a call
\* is between its two statements or was cut there.
CleanedUp ==
    \A o \in Operation :
        Terminal(row[o].status) /\ override[o] =>
            o \in half \/ \E c \in calls : c.op = o /\ c.step = 3

OperationInv == TypeOK /\ Requested /\ Overridden /\ AllDecided /\ CleanedUp

\* Nothing has been asked for at the start.
LEMMA InitOperation == Init => OperationInv
<1> SUFFICES ASSUME Init PROVE OperationInv
  OBVIOUS
<1>1. <<>> \in Seq(Progress)
  OBVIOUS
<1>2. TypeOK
  <2>1. row \in [Operation -> [status : Status, at : Nat]]
    BY DEF Init, Status
  <2>2. worker \in [at : {"idle", "running", "reporting"}, op : Operation \cup {0}]
    BY DEF Init, Idle
  <2>3. faults \in 0..MaxFaults
    BY BoundsAssumption DEF Init
  <2> QED BY <1>1, <2>1, <2>2, <2>3 DEF Init, TypeOK
<1>3. Requested /\ Overridden /\ AllDecided /\ CleanedUp
  BY DEF Init, Requested, Overridden, AllDecided, CleanedUp, Idle, Terminal
<1> QED BY <1>2, <1>3 DEF OperationInv

\* The fault counter stays within its bound.
LEMMA FaultType == ASSUME TypeOK, Fault \/ UNCHANGED faults PROVE faults' \in 0..MaxFaults
BY BoundsAssumption DEF TypeOK, Fault

\* Publishing a progress record of an operation that was decided.
LEMMA EmitFacts ==
    ASSUME TypeOK, NEW op \in Operation, NEW status \in Status \ {"none"}, Emit(op, status)
    PROVE  /\ clock' \in Nat /\ queue' \in Seq(Progress) /\ again' = again
           /\ faults' \in 0..MaxFaults
           /\ \A i \in 1..Len(queue') : queue'[i].op = op \/ \E j \in 1..Len(queue) : queue'[i].op = queue[j].op
<1>1. faults' \in 0..MaxFaults /\ again' = again
  BY FaultType DEF Emit
<1>2. CASE clock' = clock + 1 /\ queue' = Append(queue, [op |-> op, status |-> status, time |-> clock + 1])
  <2>1. [op |-> op, status |-> status, time |-> clock + 1] \in Progress
    BY DEF TypeOK, Progress
  <2>2. queue \in Seq(Progress)
    BY DEF TypeOK
  <2>3. queue' \in Seq(Progress)
    BY <1>2, <2>1, <2>2
  <2>4. \A i \in 1..Len(queue') : queue'[i].op = op \/ \E j \in 1..Len(queue) : queue'[i].op = queue[j].op
    BY <1>2, <2>1, <2>2
  <2> QED BY <1>1, <1>2, <2>3, <2>4 DEF TypeOK
<1>3. CASE UNCHANGED <<clock, queue>>
  BY <1>1, <1>3 DEF TypeOK
<1> QED BY <1>2, <1>3 DEF Emit

\* What projecting a record does to the row and the override of each operation.
LEMMA ProjectFacts ==
    ASSUME TypeOK, NEW e \in Progress, ProjectProgress(e)
    PROVE  /\ row' \in [Operation -> [status : Status, at : Nat]]
           /\ override' \in [Operation -> BOOLEAN]
           /\ update' \in {"pending", "failed", "installed"}
           /\ \A o \in Operation : override'[o] => override[o]
           /\ \A o \in Operation : row[o].at <= row'[o].at
           /\ \A o \in Operation : row'[o] = row[o] \/ (o = e.op /\ ~Terminal(row[o].status) /\ (Terminal(row'[o].status) => ~override'[o]))
<1> USE DEF ProjectProgress, Applies
<1>1. e.op \in Operation /\ e.status \in Status /\ e.time \in Nat
  BY DEF Progress
<1>2. row' \in [Operation -> [status : Status, at : Nat]]
  BY <1>1 DEF TypeOK
<1>3. override' \in [Operation -> BOOLEAN] /\ \A o \in Operation : override'[o] => override[o]
  BY DEF TypeOK
<1>4. update' \in {"pending", "failed", "installed"}
  BY DEF TypeOK, UpdateAfter
<1>5. \A o \in Operation : row[o].at <= row'[o].at
  BY <1>1 DEF TypeOK
<1>6. \A o \in Operation : row'[o] = row[o] \/ (o = e.op /\ ~Terminal(row[o].status) /\ (Terminal(row'[o].status) => ~override'[o]))
  BY <1>1 DEF TypeOK
<1> QED BY <1>2, <1>3, <1>4, <1>5, <1>6

\* The operator's handlers and the cancellation.
LEMMA OperatorKeeps ==
    ASSUME OperationInv,
           \/ \E o \in Operation : CreateOverride(o) \/ InsertAction(o) \/ RequestCut(o)
           \/ Cancel
    PROVE  OperationInv'
<1> USE DEF OperationInv, database, broker, history
<1>1. ASSUME NEW o \in Operation, CreateOverride(o) PROVE OperationInv'
  <2>1. TypeOK'
    BY <1>1 DEF CreateOverride, TypeOK
  <2>2. row[o].status = "none"
    BY <1>1 DEF CreateOverride, Requested
  <2>3. Requested' /\ Overridden'
    BY <1>1 DEF CreateOverride, Requested, Overridden, TypeOK
  <2>4. CleanedUp'
    BY <1>1, <2>2 DEF CreateOverride, CleanedUp, TypeOK, Terminal
  <2>5. AllDecided'
    BY <1>1 DEF CreateOverride, AllDecided, Decided
  <2> QED BY <2>1, <2>3, <2>4, <2>5
<1>2. ASSUME NEW o \in Operation, InsertAction(o) PROVE OperationInv'
  <2>1. row' \in [Operation -> [status : Status, at : Nat]]
    BY <1>2 DEF InsertAction, TypeOK, Status
  <2>2. TypeOK'
    BY <1>2, <2>1 DEF InsertAction, TypeOK
  <2>3. \A p \in Operation : row'[p] = row[p] \/ (p = o /\ row'[p].status = "queued")
    BY <1>2 DEF InsertAction, TypeOK
  <2>4. Requested' /\ Overridden'
    BY <1>2, <2>3 DEF InsertAction, Requested, Overridden, TypeOK
  <2>5. CleanedUp'
    BY <1>2, <2>3 DEF InsertAction, CleanedUp, Terminal
  <2>6. AllDecided'
    BY <1>2 DEF InsertAction, AllDecided, Decided
  <2> QED BY <2>2, <2>4, <2>5, <2>6
<1>3. ASSUME NEW o \in Operation, RequestCut(o) PROVE OperationInv'
  <2>1. TypeOK'
    BY <1>3, FaultType DEF RequestCut, TypeOK
  <2>2. Requested' /\ Overridden'
    BY <1>3 DEF RequestCut, Requested, Overridden, TypeOK
  <2>3. CleanedUp' /\ AllDecided'
    BY <1>3 DEF RequestCut, CleanedUp, AllDecided, Decided
  <2> QED BY <2>1, <2>2, <2>3
<1>4. ASSUME Cancel PROVE OperationInv'
  <2>1. TypeOK'
    BY <1>4 DEF Cancel, TypeOK
  <2>2. Requested' /\ Overridden' /\ CleanedUp'
    BY <1>4 DEF Cancel, Requested, Overridden, CleanedUp
  <2>3. AllDecided'
    BY <1>4 DEF Cancel, AllDecided, Decided
  <2> QED BY <2>1, <2>2, <2>3
<1> QED BY <1>1, <1>2, <1>3, <1>4

\* The check-in logs a decision that names the planned operation.
LEMMA CheckInKeeps ==
    ASSUME OperationInv, NEW o \in Operation, CheckIn(o)
    PROVE  OperationInv'
<1> USE DEF OperationInv
<1>1. o \in Chosen /\ Chosen \subseteq Enabled /\ Enabled \subseteq Operation /\ override[o]
  BY DEF CheckIn, Planned, Chosen, Enabled
<1>2. \/ worker' = [at |-> "running", op |-> o] /\ Emit(o, "running")
      \/ Fault /\ UNCHANGED <<worker, broker>>
  BY DEF CheckIn
<1>3. "running" \in Status \ {"none"}
  BY DEF Status
<1>4. /\ clock' \in Nat /\ queue' \in Seq(Progress) /\ again' = again /\ faults' \in 0..MaxFaults
      /\ \A i \in 1..Len(queue') : queue'[i].op = o \/ \E j \in 1..Len(queue) : queue'[i].op = queue[j].op
      /\ worker' = worker \/ worker' = [at |-> "running", op |-> o]
  <2>1. CASE worker' = [at |-> "running", op |-> o] /\ Emit(o, "running")
    BY <1>3, <2>1, EmitFacts
  <2>2. CASE Fault /\ UNCHANGED <<worker, broker>>
    BY <2>2, FaultType DEF broker, TypeOK
  <2> QED BY <1>2, <2>1, <2>2
<1>5. UNCHANGED <<request, override, row, update, calls, half>>
  BY DEF CheckIn
<1>6. /\ logged' \in [Operation -> SUBSET Operation] /\ excused' \subseteq Operation
      /\ \A p \in Operation : Decided(p) => p \in logged'[p]
      /\ o \in logged'[o]
      /\ \A p \in Operation : p # o => logged'[p] = logged[p]
  BY <1>1 DEF CheckIn, TypeOK, Decided
<1>7. TypeOK'
  BY <1>4, <1>5, <1>6 DEF TypeOK
<1>8. Requested' /\ Overridden'
  BY <1>1, <1>5, <1>6 DEF Requested, Overridden
<1>9. CleanedUp'
  BY <1>5 DEF CleanedUp
<1>10. AllDecided'
  <2> DEFINE Now(p) == p \in Operation /\ p \in logged'[p]
  <2>1. Now(o) /\ \A p : Decided(p) => Now(p)
    BY <1>6 DEF Decided
  <2> HIDE DEF Now
  <2>2. worker'.at # "idle" => Now(worker'.op)
    BY <1>4, <2>1 DEF AllDecided
  <2>3. \A i \in 1..Len(queue') : Now(queue'[i].op)
    BY <1>4, <2>1 DEF AllDecided
  <2>4. \A e \in again' : Now(e.op)
    BY <1>4, <2>1 DEF AllDecided
  <2>5. \A c \in calls' : Now(c.op)
    BY <1>5, <2>1 DEF AllDecided
  <2> QED BY <2>2, <2>3, <2>4, <2>5 DEF AllDecided, Decided, Now
<1> QED BY <1>7, <1>8, <1>9, <1>10

\* The device goes on with a decided operation, or is lost.
LEMMA DeviceKeeps ==
    ASSUME OperationInv, Heartbeat \/ Finishes \/ WorkerLost
    PROVE  OperationInv'
<1> USE DEF OperationInv, database, broker, history
<1>1. worker.at # "idle" /\ worker.op \in Operation /\ Decided(worker.op)
  BY DEF Heartbeat, Finishes, Finish, WorkerLost, AllDecided, Decided
<1>2. UNCHANGED <<request, override, row, logged, update, excused, half>>
  BY DEF Heartbeat, Finishes, Finish, WorkerLost
<1>3. {"running", "completed", "failed"} \subseteq Status \ {"none"}
  BY DEF Status
<1>4. CASE Heartbeat
  <2>1. /\ clock' \in Nat /\ queue' \in Seq(Progress) /\ again' = again /\ faults' \in 0..MaxFaults
        /\ \A i \in 1..Len(queue') :
              queue'[i].op = worker.op \/ \E j \in 1..Len(queue) : queue'[i].op = queue[j].op
    BY <1>1, <1>3, <1>4, EmitFacts DEF Heartbeat
  <2>2. UNCHANGED <<worker, calls>>
    BY <1>4 DEF Heartbeat
  <2>3. TypeOK'
    BY <1>2, <2>1, <2>2 DEF TypeOK
  <2>4. AllDecided'
    BY <1>1, <1>2, <2>1, <2>2 DEF AllDecided, Decided
  <2> QED BY <1>2, <2>2, <2>3, <2>4 DEF Requested, Overridden, CleanedUp
<1>5. ASSUME NEW status \in {"completed", "failed"}, Finish(status) PROVE OperationInv'
  <2>1. /\ clock' \in Nat /\ queue' \in Seq(Progress) /\ again' = again /\ faults' \in 0..MaxFaults
        /\ \A i \in 1..Len(queue') :
              queue'[i].op = worker.op \/ \E j \in 1..Len(queue) : queue'[i].op = queue[j].op
    BY <1>1, <1>3, <1>5, EmitFacts DEF Finish
  <2> DEFINE call == [op |-> worker.op, status |-> status, step |-> 1, awaited |-> TRUE]
  <2>2. call \in Call /\ call.op = worker.op /\ calls' = calls \cup {call}
    BY <1>1, <1>5 DEF Finish, Call
  <2>3. worker' \in [at : {"idle", "running", "reporting"}, op : Operation \cup {0}]
        /\ worker'.op = worker.op
    BY <1>5 DEF Finish, TypeOK
  <2> HIDE DEF call
  <2>4. TypeOK'
    BY <1>2, <2>1, <2>2, <2>3 DEF TypeOK
  <2>5. AllDecided'
    BY <1>1, <1>2, <2>1, <2>2, <2>3 DEF AllDecided, Decided
  <2>6. CleanedUp'
    BY <1>2, <2>2 DEF CleanedUp
  <2> QED BY <1>2, <2>4, <2>5, <2>6 DEF Requested, Overridden
<1>6. CASE WorkerLost
  <2>1. worker' = Idle /\ UNCHANGED broker /\ calls' = {[c EXCEPT !.awaited = FALSE] : c \in calls}
    BY <1>6 DEF WorkerLost
  <2>2. \A c \in calls : /\ [c EXCEPT !.awaited = FALSE] \in Call
                         /\ [c EXCEPT !.awaited = FALSE].op = c.op
                         /\ [c EXCEPT !.awaited = FALSE].step = c.step
    BY DEF TypeOK, Call
  <2>3. TypeOK'
    <3>1. worker' \in [at : {"idle", "running", "reporting"}, op : Operation \cup {0}]
      BY <2>1 DEF Idle
    <3>2. faults' \in 0..MaxFaults
      BY <1>6, FaultType DEF WorkerLost
    <3>3. calls' \subseteq Call
      BY <2>1, <2>2
    <3> QED BY <1>2, <2>1, <3>1, <3>2, <3>3 DEF TypeOK
  <2>4. /\ \A d \in calls' : \E c \in calls : d.op = c.op
        /\ \A c \in calls : \E d \in calls' : d.op = c.op /\ d.step = c.step
    BY <2>1, <2>2
  <2>5. AllDecided'
    <3>1. worker'.at = "idle"
      BY <2>1 DEF Idle
    <3> QED BY <1>2, <2>1, <2>4, <3>1 DEF AllDecided, Decided
  <2>6. CleanedUp'
    BY <1>2, <2>4 DEF CleanedUp
  <2> QED BY <1>2, <2>3, <2>5, <2>6 DEF Requested, Overridden
<1> QED BY <1>4, <1>5, <1>6 DEF Finishes

\* Projecting a record: when it ends the operation, its override goes too.
LEMMA ProjectKeeps ==
    ASSUME OperationInv, NEW e \in Progress, Decided(e.op), ProjectProgress(e),
           UNCHANGED <<request, logged, clock, worker, calls, faults, history>>,
           queue' \in Seq(Progress), again' \subseteq again,
           \A i \in 1..Len(queue') : Decided(queue'[i].op)
    PROVE  OperationInv'
<1> USE DEF OperationInv, history
<1>1. TypeOK'
  BY ProjectFacts DEF TypeOK
<1>2. Requested' /\ Overridden'
  <2>1. request[e.op] # "none"
    BY DEF Decided, Requested
  <2> QED BY <2>1, ProjectFacts DEF Requested, Overridden
<1>3. AllDecided'
  BY DEF AllDecided, Decided
<1>4. CleanedUp'
  BY ProjectFacts DEF CleanedUp
<1> QED BY <1>1, <1>2, <1>3, <1>4

\* The consumers.
LEMMA ConsumerKeeps ==
    ASSUME OperationInv, Consume \/ Rebalance \/ \E e \in again : ConsumeAgain(e)
    PROVE  OperationInv'
<1> USE DEF OperationInv, history, database
<1>1. CASE Consume
  <2>1. queue # <<>> /\ queue \in Seq(Progress)
    BY <1>1 DEF Consume, TypeOK
  <2>2. /\ Head(queue) \in Progress /\ Tail(queue) \in Seq(Progress) /\ 1 \in 1..Len(queue)
        /\ Head(queue) = queue[1]
        /\ \A i \in 1..Len(Tail(queue)) : i + 1 \in 1..Len(queue) /\ Tail(queue)[i] = queue[i + 1]
    BY <2>1
  <2>3. Decided(Head(queue).op) /\ \A i \in 1..Len(Tail(queue)) : Decided(Tail(queue)[i].op)
    BY <2>2 DEF AllDecided
  <2> QED BY <1>1, <2>2, <2>3, ProjectKeeps DEF Consume
<1>2. CASE Rebalance
  <2>1. queue # <<>> /\ queue \in Seq(Progress)
    BY <1>2 DEF Rebalance, TypeOK
  <2>2. Head(queue) \in Progress /\ 1 \in 1..Len(queue) /\ Head(queue) = queue[1]
    BY <2>1
  <2>3. TypeOK'
    BY <1>2, <2>2, FaultType DEF Rebalance, TypeOK
  <2>4. AllDecided'
    BY <1>2, <2>2 DEF Rebalance, AllDecided, Decided
  <2> QED BY <1>2, <2>3, <2>4 DEF Rebalance, Requested, Overridden, CleanedUp
<1>3. ASSUME NEW e \in again, ConsumeAgain(e) PROVE OperationInv'
  <2>1. e \in Progress /\ Decided(e.op)
    BY DEF TypeOK, AllDecided
  <2>2. queue' \in Seq(Progress) /\ \A i \in 1..Len(queue') : Decided(queue'[i].op)
    BY <1>3 DEF ConsumeAgain, TypeOK, AllDecided
  <2> QED BY <1>3, <2>1, <2>2, ProjectKeeps DEF ConsumeAgain
<1> QED BY <1>1, <1>2, <1>3

\* A call moves from statement to statement, or is cut.
LEMMA ResultKeeps ==
    ASSUME OperationInv, NEW c \in calls, ResultStep(c) \/ ResultCut(c)
    PROVE  OperationInv'
<1> USE DEF OperationInv
<1>1. c \in Call /\ Decided(c.op) /\ c.step \in 1..3 /\ c.status \in {"completed", "failed"}
  BY DEF TypeOK, Call, AllDecided
<1>2. UNCHANGED <<request, logged, broker>>
  BY DEF ResultStep, ResultCut, database
<1>3. /\ worker' \in [at : {"idle", "running", "reporting"}, op : Operation \cup {0}]
      /\ worker'.at = "idle" \/ worker' = worker
  <2>1. Idle \in [at : {"idle", "running", "reporting"}, op : Operation \cup {0}] /\ Idle.at = "idle"
    BY DEF Idle
  <2>2. worker' = Idle \/ worker' = worker
    BY DEF ResultStep, ResultCut
  <2> QED BY <2>1, <2>2 DEF TypeOK
<1> DEFINE next == [c EXCEPT !.step = @ + 1]
<1>4. c.step < 3 => next \in Call /\ next.op = c.op /\ next.step = c.step + 1
  BY <1>1 DEF Call
<1>5. /\ calls' \subseteq (calls \ {c}) \cup {next}
      /\ next \in calls' => c.step < 3 \/ next \in calls
      /\ calls \ {c} \subseteq calls'
      /\ ResultStep(c) /\ c.step < 3 => next \in calls'
  BY DEF ResultStep, ResultCut
<1> HIDE DEF next
<1>6. calls' \subseteq Call /\ \A d \in calls' : Decided(d.op)
  BY <1>1, <1>4, <1>5 DEF TypeOK, AllDecided
<1>7. AllDecided'
  BY <1>2, <1>3, <1>6 DEF AllDecided, Decided, broker
<1>8. TypeOK'
  <2>1. faults' \in 0..MaxFaults
    BY FaultType DEF ResultStep, ResultCut
  <2>2. row' \in [Operation -> [status : Status, at : Nat]]
    BY <1>1 DEF ResultStep, ResultCut, database, TypeOK, Status, Decided
  <2>3. override' \in [Operation -> BOOLEAN] /\ update' \in {"pending", "failed", "installed"}
    BY DEF ResultStep, ResultCut, database, TypeOK, UpdateAfter
  <2>4. excused' \subseteq Operation /\ half' \subseteq Operation
    BY <1>1 DEF ResultStep, ResultCut, TypeOK, Decided
  <2> QED BY <1>2, <1>3, <1>6, <2>1, <2>2, <2>3, <2>4 DEF TypeOK, broker
<1>9. \A o \in Operation : override'[o] => override[o]
  BY DEF ResultStep, ResultCut, database, TypeOK
<1>10. \A o \in Operation : row'[o].status = row[o].status
          \/ (ResultStep(c) /\ c.step = 2 /\ o = c.op /\ row[o].status # "none")
  BY DEF ResultStep, ResultCut, database, TypeOK
<1>11. Requested' /\ Overridden'
  BY <1>2, <1>9, <1>10 DEF Requested, Overridden
<1>12. CleanedUp'
  <2> SUFFICES ASSUME NEW o \in Operation, Terminal(row'[o].status), override'[o]
               PROVE  o \in half' \/ \E d \in calls' : d.op = o /\ d.step = 3
    BY DEF CleanedUp
  <2>1. half \subseteq half'
    BY DEF ResultStep, ResultCut
  <2>2. CASE ResultStep(c) /\ c.step = 2 /\ o = c.op
    BY <1>4, <1>5, <2>2
  <2>3. CASE ~(ResultStep(c) /\ c.step = 2 /\ o = c.op)
    <3>1. o \in half \/ \E d \in calls : d.op = o /\ d.step = 3
      BY <1>9, <1>10, <2>3 DEF CleanedUp
    <3>2. CASE c.op = o /\ c.step = 3
      <4>1. ~ResultStep(c)
        <5> SUFFICES ASSUME ResultStep(c) PROVE FALSE
          OBVIOUS
        <5>1. override' = [p \in Operation |-> override[p] /\ p \notin logged[c.op]]
          BY <3>2 DEF ResultStep
        <5>2. o \in logged[c.op]
          BY <1>1, <3>2 DEF Decided
        <5> QED BY <5>1, <5>2, Zenon
      <4> QED BY <3>2, <4>1 DEF ResultCut
    <3>3. CASE ~(c.op = o /\ c.step = 3)
      BY <1>5, <2>1, <3>1, <3>3
    <3> QED BY <3>2, <3>3
  <2> QED BY <2>2, <2>3
<1> QED BY <1>7, <1>8, <1>11, <1>12

\* What is on record of patch operations is consistent in every reachable
\* state, whatever is lost, cut or delivered again.
THEOREM OperationInvariant == Spec => []OperationInv
<1>1. OperationInv /\ [Next]_vars => OperationInv'
  <2> SUFFICES ASSUME OperationInv, [Next]_vars PROVE OperationInv'
    OBVIOUS
  <2>1. CASE \E o \in Operation : CreateOverride(o) \/ InsertAction(o) \/ RequestCut(o)
    BY <2>1, OperatorKeeps
  <2>2. CASE Cancel
    BY <2>2, OperatorKeeps
  <2>3. CASE \E o \in Operation : CheckIn(o)
    BY <2>3, CheckInKeeps
  <2>4. CASE Heartbeat \/ Finishes \/ WorkerLost
    BY <2>4, DeviceKeeps
  <2>5. CASE Consume \/ Rebalance \/ \E e \in again : ConsumeAgain(e)
    BY <2>5, ConsumerKeeps
  <2>6. CASE \E c \in calls : ResultStep(c) \/ ResultCut(c)
    BY <2>6, ResultKeeps
  <2>7. CASE UNCHANGED vars
    BY <2>7 DEF vars, broker, database, history, OperationInv, TypeOK, Requested, Overridden,
                AllDecided, Decided, CleanedUp
  <2> QED BY <2>1, <2>2, <2>3, <2>4, <2>5, <2>6, <2>7 DEF Next
<1> QED BY <1>1, InitOperation, PTL DEF Spec

\* The tables, the broker and the calls keep their types.
THEOREM OperationTypes == Spec => []TypeOK
<1>1. OperationInv => TypeOK
  BY DEF OperationInv
<1> QED BY <1>1, OperationInvariant, PTL

\* An operation whose result is recorded is not handed out again, for any
\* number of requests: the override of a planned operation is enabled.
THEOREM OperationRunsOnce == Spec => NoRerun
<1> DEFINE Once == worker.at = "idle" /\ worker'.at = "running" /\ Terminal(row[worker'.op].status) =>
                       worker'.op \in half \/ \E c \in calls : c.op = worker'.op /\ c.step = 3
<1>1. OperationInv /\ [Next]_vars => [Once]_vars
  <2> SUFFICES ASSUME OperationInv, Next, worker.at = "idle", worker'.at = "running",
                      Terminal(row[worker'.op].status)
               PROVE  worker'.op \in half \/ \E c \in calls : c.op = worker'.op /\ c.step = 3
    BY DEF vars
  <2>1. \E o \in Operation : CheckIn(o)
    <3>1. worker' # worker /\ worker' # Idle
      BY DEF Idle
    <3>2. ~Finishes
      BY DEF Finishes, Finish
    <3>3. ~(Cancel \/ Heartbeat \/ WorkerLost \/ Consume \/ Rebalance)
      BY <3>1 DEF Cancel, Heartbeat, WorkerLost, Consume, Rebalance
    <3>4. ~\E e \in again : ConsumeAgain(e)
      BY <3>1 DEF ConsumeAgain
    <3>5. ~\E c \in calls : ResultStep(c) \/ ResultCut(c)
      BY <3>1 DEF ResultStep, ResultCut
    <3>6. ~\E o \in Operation : CreateOverride(o) \/ InsertAction(o) \/ RequestCut(o)
      BY <3>1 DEF CreateOverride, InsertAction, RequestCut
    <3> QED BY <3>2, <3>3, <3>4, <3>5, <3>6 DEF Next
  <2>2. PICK o \in Operation : CheckIn(o)
    BY <2>1
  <2>3. worker'.op = o
    BY <2>2 DEF CheckIn
  <2>4. override[o]
    BY <2>2 DEF CheckIn, Planned, Chosen, Enabled
  <2> QED BY <2>3, <2>4 DEF OperationInv, CleanedUp
<1> QED BY <1>1, OperationInvariant, PTL DEF Spec, NoRerun

\* No record, however late or often it comes, takes a row back in event time.
THEOREM OperationTime == Spec => NeverBackInTime
<1>1. OperationInv /\ [Next]_vars => [\A o \in Operation : row[o].at <= row'[o].at]_vars
  <2> SUFFICES ASSUME OperationInv, Next, NEW o \in Operation PROVE row[o].at <= row'[o].at
    BY DEF vars
  <2>1. row[o].at \in Nat /\ row \in [Operation -> [status : Status, at : Nat]]
    BY DEF OperationInv, TypeOK
  <2>2. ASSUME NEW e \in Progress, ProjectProgress(e) PROVE row[o].at <= row'[o].at
    <3>1. row' = row \/ (row[e.op].at <= e.time /\ row' = [row EXCEPT ![e.op] = [status |-> e.status, at |-> e.time]])
      BY <2>2 DEF ProjectProgress, Applies
    <3> QED BY <2>1, <3>1 DEF Progress
  <2>3. CASE Consume
    <3>1. queue # <<>> /\ queue \in Seq(Progress)
      BY <2>3 DEF Consume, OperationInv, TypeOK
    <3>2. Head(queue) \in Progress
      BY <3>1
    <3> QED BY <2>2, <2>3, <3>2 DEF Consume
  <2>4. CASE \E e \in again : ConsumeAgain(e)
    BY <2>2, <2>4 DEF ConsumeAgain, OperationInv, TypeOK
  <2>5. CASE \E p \in Operation : InsertAction(p)
    BY <2>1, <2>5 DEF InsertAction
  <2>6. CASE \E c \in calls : ResultStep(c)
    BY <2>1, <2>6 DEF ResultStep
  <2>7. CASE UNCHANGED row
    BY <2>1, <2>7
  <2> QED BY <2>3, <2>4, <2>5, <2>6, <2>7
          DEF Next, CreateOverride, RequestCut, CheckIn, Cancel, Heartbeat, Finishes, Finish,
              WorkerLost, Rebalance, ResultCut, database
<1> QED BY <1>1, OperationInvariant, PTL DEF Spec, NeverBackInTime

=============================================================================
