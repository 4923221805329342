-------------------------- MODULE TelemetryConsumer --------------------------
(***************************************************************************)
(* The telemetry consumer: the members of a consumer group read one        *)
(* partition of the event topic through the vendored samsa client, hand    *)
(* every record to the API and execute the routing decision the API        *)
(* returns.  A member the broker has given up on may still be at work on   *)
(* its batch; a request whose caller has given up may still be run.        *)
(***************************************************************************)
EXTENDS Naturals

CONSTANTS Member,      \* consumer processes of the group
          Messages,    \* records of the partition
          Poison,      \* records that cannot be parsed
          Decides,     \* records for which the rules decide on a remediation
          MaxBatch,    \* records of one fetch
          MaxRetries,  \* cfg.max_retries
          MaxFaults    \* lost requests, crashes, rebalances

Message == 1..Messages

ASSUME MessageAssumption == Messages \in Nat /\ Poison \subseteq Message /\ Decides \subseteq Message
ASSUME BoundAssumption == MaxBatch \in Nat \ {0} /\ MaxRetries \in Nat /\ MaxFaults \in Nat

VARIABLES generation, owner, committed,  \* the coordinator of the group
          member,                        \* what each process is doing
          alerted, applied,              \* effects of device_event and processed_message_log rows
          fact,                          \* the record the current facts are of
          decision, published,           \* routing_decision, commands published for it
          late,                          \* requests nobody waits for
          dlq, lost,                     \* dead letters, and those that were not published
          faults, missed                 \* history: losses; decisions whose caller was cut off

group == <<generation, owner, committed>>
api == <<alerted, applied, fact, decision, published>>
vars == <<group, member, api, late, dlq, lost, faults, missed>>

Phase == {"polling", "checking", "storing", "applying", "executing", "recording", "failing"}
Request == [step : {"storing", "applying", "executing", "recording"}, msg : Message]
Status == {"none", "pending", "done"}

Fault == faults < MaxFaults /\ faults' = faults + 1

--------------------------------------------------------------------------------
(* The group                                                               *)

\* A process that is not in the group: nothing of it survives a crash.
Out == [gen |-> 0, assigned |-> FALSE, pos |-> 1, dirty |-> FALSE,
        at |-> "polling", msg |-> 0, attempt |-> 0]

\* The coordinator moves the partition; nobody is told before the next poll.
Rebalance ==
    /\ Fault
    /\ generation' = generation + 1
    /\ \E m \in Member : owner' = m
    /\ UNCHANGED <<committed, member, api, late, dlq, lost, missed>>

\* RebalanceInProgress at the heartbeat, or a commit refused for its
\* generation: the member joins again, from the committed offset.
Rejoin(m) ==
    /\ member[m].at = "polling" /\ member[m].gen # generation
    /\ member' = [member EXCEPT ![m] =
           [Out EXCEPT !.gen = generation, !.assigned = (owner = m), !.pos = committed]]
    /\ UNCHANGED <<group, api, late, dlq, lost, faults, missed>>

\* Mutant: the offsets are committed when the batch is handed out.
CommitAtYield(m) ==
    /\ member[m].dirty /\ member[m].gen = generation
    /\ committed' = member[m].pos
    /\ member' = [member EXCEPT ![m].dirty = FALSE]
    /\ UNCHANGED <<generation, owner, api, late, dlq, lost, faults, missed>>

\* into_autocommit_stream: the offsets of a batch are committed when the next
\* one is asked for.
Commit(m) ==
    /\ member[m].at = "polling" /\ member[m].dirty /\ member[m].gen = generation
    /\ committed' = member[m].pos
    /\ member' = [member EXCEPT ![m].dirty = FALSE]
    /\ UNCHANGED <<generation, owner, api, late, dlq, lost, faults, missed>>

\* The broker serves fetches of any generation.
Fetch(m) ==
    /\ member[m].at = "polling" /\ member[m].assigned /\ ~member[m].dirty
    /\ member[m].pos <= Messages
    /\ \E n \in 1..MaxBatch :
          /\ member[m].pos + n <= Messages + 1
          /\ member' = [member EXCEPT ![m].at = "checking", ![m].msg = member[m].pos,
                                      ![m].pos = @ + n, ![m].dirty = TRUE]
    /\ UNCHANGED <<group, api, late, dlq, lost, faults, missed>>

--------------------------------------------------------------------------------
(* What the API does with a request                                        *)

\* /events/batch: the alert rules run when the row of the event is new.
StoreEvent(o) == alerted' = [alerted EXCEPT ![o] = IF @ = 0 THEN 1 ELSE @]

\* Mutant: facts and decision are written whether or not the record is in
\* processed_message_log.
GraphApplyAlways(o) ==
    /\ applied' = [applied EXCEPT ![o] = @ + 1]
    /\ fact' = o
    /\ decision' = IF o \in Decides THEN [decision EXCEPT ![o] = "pending"] ELSE decision

\* Mutant: the facts are written before the record is looked up.
GraphApplyFactsFirst(o) ==
    /\ fact' = o
    /\ applied' = [applied EXCEPT ![o] = IF @ = 0 THEN 1 ELSE @]
    /\ decision' = IF applied[o] = 0 /\ o \in Decides THEN [decision EXCEPT ![o] = "pending"] ELSE decision

\* /graph/apply-batch, one transaction: a record that is in
\* processed_message_log changes nothing.
GraphApply(o) ==
    IF applied[o] > 0 THEN UNCHANGED <<applied, fact, decision>>
    ELSE /\ applied' = [applied EXCEPT ![o] = @ + 1]
         /\ fact' = o
         /\ decision' = IF o \in Decides THEN [decision EXCEPT ![o] = "pending"] ELSE decision

\* The answer names the decision only when the record was new.
Answered(o) == applied[o] = 0 /\ o \in Decides

\* /internal/decisions/execute: the status is read and the command published,
\* then the status is written; no lock is held in between.
Publish(o) == published' = [published EXCEPT ![o] = IF decision[o] = "pending" THEN @ + 1 ELSE @]
RecordOutcome(o) == decision' = [decision EXCEPT ![o] = "done"]

--------------------------------------------------------------------------------
(* A member at work on its batch                                           *)

Goes(m, at) == member' = [member EXCEPT ![m].at = at]

\* The next record of the batch, or the next poll.
Following(r) ==
    IF r.msg + 1 < r.pos THEN [r EXCEPT !.at = "checking", !.msg = @ + 1, !.attempt = 0]
    ELSE [r EXCEPT !.at = "polling", !.msg = 0, !.attempt = 0]

Advance(m) == member' = [member EXCEPT ![m] = Following(@)]

\* is_message_already_processed; when the check fails the record is processed.
Check(m) ==
    /\ member[m].at = "checking"
    /\ \/ /\ applied[member[m].msg] > 0 /\ Advance(m) /\ UNCHANGED faults
       \/ /\ applied[member[m].msg] = 0 /\ Goes(m, "storing") /\ UNCHANGED faults
       \/ /\ applied[member[m].msg] > 0 /\ Fault /\ Goes(m, "storing")
    /\ UNCHANGED <<group, api, late, dlq, lost, missed>>

\* process_event_message: the event is stored and the rules are fetched.
Store(m) ==
    LET o == member[m].msg
    IN  /\ member[m].at = "storing"
        /\ \/ o \in Poison /\ Goes(m, "failing") /\ UNCHANGED alerted
           \/ o \notin Poison /\ StoreEvent(o) /\ Goes(m, "applying")
        /\ UNCHANGED <<group, applied, fact, decision, published, late, dlq, lost, faults, missed>>

\* Mutant: the decision in the answer is left alone.
ApplyOnly(m) ==
    /\ member[m].at = "applying"
    /\ GraphApply(member[m].msg) /\ Advance(m)
    /\ UNCHANGED <<group, alerted, published, late, dlq, lost, faults, missed>>

\* post_graph_apply; with a decision in the answer the member executes it.
Apply(m) ==
    LET o == member[m].msg
    IN  /\ member[m].at = "applying"
        /\ GraphApply(o)
        /\ IF Answered(o) THEN Goes(m, "executing") ELSE Advance(m)
        /\ UNCHANGED <<group, alerted, published, late, dlq, lost, faults, missed>>

\* maybe_execute_decision: the command goes out, the outcome is recorded.
Execute(m) ==
    /\ member[m].at = "executing"
    /\ Publish(member[m].msg) /\ Goes(m, "recording")
    /\ UNCHANGED <<group, alerted, applied, fact, decision, late, dlq, lost, faults, missed>>

Record(m) ==
    /\ member[m].at = "recording"
    /\ RecordOutcome(member[m].msg) /\ Advance(m)
    /\ UNCHANGED <<group, alerted, applied, fact, published, late, dlq, lost, faults, missed>>

--------------------------------------------------------------------------------
(* Failures                                                                *)

Waiting(m) == member[m].at \in {"storing", "applying", "executing", "recording"} /\ member[m].msg \notin Poison

\* process_with_retries: process_once starts over, up to max_retries times.
Again(r) ==
    IF r.attempt < MaxRetries THEN [r EXCEPT !.at = "storing", !.attempt = @ + 1]
    ELSE [r EXCEPT !.at = "failing"]

Retry(m) == member' = [member EXCEPT ![m] = Again(@)]

\* A decision is left pending when the one request to execute it fails: the
\* retry finds the record processed and gets no decision.
Drops(m) == IF member[m].at \in {"executing", "recording"} THEN {member[m].msg} ELSE {}

CallFails(m) ==
    /\ Waiting(m) /\ Fault /\ Retry(m)
    /\ missed' = missed \cup Drops(m)
    /\ UNCHANGED <<group, api, late, dlq, lost>>

\* The connection drops and the API goes on with the request.
CallLost(m) ==
    /\ Waiting(m) /\ Fault /\ Retry(m)
    /\ late' = late \cup {[step |-> member[m].at, msg |-> member[m].msg]}
    /\ UNCHANGED <<group, api, dlq, lost, missed>>

LateStep(r) ==
    /\ \/ r.step = "storing" /\ StoreEvent(r.msg) /\ UNCHANGED <<applied, fact, decision, published>>
       \/ r.step = "applying" /\ GraphApply(r.msg) /\ UNCHANGED <<alerted, published>>
       \/ r.step = "executing" /\ Publish(r.msg) /\ UNCHANGED <<alerted, applied, fact, decision>>
       \/ r.step = "recording" /\ RecordOutcome(r.msg) /\ UNCHANGED <<alerted, applied, fact, published>>
    /\ late' = (late \ {r}) \cup (IF r.step = "executing" THEN {[r EXCEPT !.step = "recording"]} ELSE {})
    /\ missed' = IF r.step = "applying" /\ Answered(r.msg) THEN missed \cup {r.msg} ELSE missed
    /\ UNCHANGED <<group, member, dlq, lost, faults>>

\* The process dies; a request it has sent may still be run.
Crash(m) ==
    /\ member[m].at # "polling" /\ Fault
    /\ member' = [member EXCEPT ![m] = Out]
    /\ \/ missed' = missed \cup Drops(m) /\ UNCHANGED late
       \/ Waiting(m) /\ late' = late \cup {[step |-> member[m].at, msg |-> member[m].msg]} /\ UNCHANGED missed
    /\ UNCHANGED <<group, api, dlq, lost>>

\* Mutant: a record that fails for good is tried until it succeeds.
DeadLetterAgain(m) ==
    /\ member[m].at = "failing" /\ Goes(m, "checking")
    /\ UNCHANGED <<group, api, late, dlq, lost, faults, missed>>

\* A record that fails for good goes to the dead letters; when that fails too
\* the consumer goes on.
DeadLetter(m) ==
    /\ member[m].at = "failing" /\ Advance(m)
    /\ \/ dlq' = dlq \cup {member[m].msg} /\ UNCHANGED <<lost, faults>>
       \/ Fault /\ lost' = lost \cup {member[m].msg} /\ UNCHANGED dlq
    /\ UNCHANGED <<group, api, late, missed>>

--------------------------------------------------------------------------------
Init ==
    /\ generation = 1 /\ committed = 1
    /\ owner \in Member
    /\ member = [m \in Member |-> Out]
    /\ alerted = [o \in Message |-> 0] /\ applied = [o \in Message |-> 0] /\ fact = 0
    /\ decision = [o \in Message |-> "none"] /\ published = [o \in Message |-> 0]
    /\ late = {} /\ dlq = {} /\ lost = {} /\ faults = 0 /\ missed = {}

Works(m) ==
    \/ Rejoin(m) \/ Commit(m) \/ Fetch(m) \/ Check(m) \/ Store(m) \/ Apply(m)
    \/ Execute(m) \/ Record(m) \/ DeadLetter(m)

Next ==
    \/ Rebalance
    \/ \E m \in Member : Works(m) \/ CallFails(m) \/ CallLost(m) \/ Crash(m)
    \/ \E r \in late : LateStep(r)

Spec == Init /\ [][Next]_vars

\* Every process polls again once its batch is done, and the API runs the
\* requests it has taken.
FairSpec == Spec /\ (\A m \in Member : WF_vars(Works(m))) /\ WF_vars(\E r \in late : LateStep(r))

--------------------------------------------------------------------------------
(* Properties                                                              *)

\* Type invariant of the group, the processes and the tables.
TypeOK ==
    /\ generation \in Nat /\ owner \in Member /\ committed \in 1..(Messages + 1)
    /\ member \in [Member -> [gen : Nat, assigned : BOOLEAN, pos : 1..(Messages + 1), dirty : BOOLEAN,
                              at : Phase, msg : 0..Messages, attempt : 0..MaxRetries]]
    /\ \A m \in Member : member[m].at # "polling" => member[m].msg \in Message
    /\ alerted \in [Message -> Nat] /\ applied \in [Message -> Nat] /\ fact \in 0..Messages
    /\ decision \in [Message -> Status] /\ published \in [Message -> Nat]
    /\ late \subseteq Request /\ dlq \subseteq Message /\ lost \subseteq Message
    /\ faults \in 0..MaxFaults /\ missed \subseteq Message

\* However often a record is delivered and by however many members, its event
\* raises alerts once, its facts are applied once and its decision publishes
\* one command: the execution takes no lock, but only the request that first
\* applied the record is told of the decision.
EffectsOnce == \A o \in Message : alerted[o] <= 1 /\ applied[o] <= 1 /\ published[o] <= 1

Settled(o) == applied[o] > 0 \/ o \in dlq \/ o \in lost

\* The group never commits past a record that is neither applied nor given up.
NothingSkipped == \A o \in Message : o < committed => Settled(o)

\* The facts of a device, written without a look at their time, go back to an
\* older record only when that record had been given up and a late request
\* applied it after all.
FactsInOrder == [][fact' < fact => fact' \in dlq \cup lost]_vars

\* The backlog is worked off, whatever fails.
BacklogDrained == <>(committed = Messages + 1)

\* A decision is executed unless the call that carried it was cut off.
DecisionsExecuted == <>[](\A o \in Message : decision[o] = "pending" => o \in missed)

================================================================================
