---------------------------- MODULE RemediationJobs ----------------------------
(***************************************************************************)
(* The durable remediation queue of the API backend: the rows of           *)
(* rmm_telemetry.remediation_job and remediation_step, and the three       *)
(* routes that change them.                                                *)
(*                                                                         *)
(*   Project       POST /remediation/commands/project                      *)
(*   Claim         POST /agents/:agentId/jobs/claim                        *)
(*   ReportStatus  PATCH .../jobs/:commandId/status and                    *)
(*                 POST /remediation/commands/status                       *)
(*                                                                         *)
(* Each route is one PostgreSQL transaction that first locks the job row   *)
(* it is about (INSERT .. ON CONFLICT, FOR UPDATE), so each is one atomic  *)
(* action; concurrency is the interleaving of the actions.  A request the  *)
(* route rejects changes no row, and is a stuttering step.                 *)
(*                                                                         *)
(* Abstracted: evidence bodies, timestamps and metadata other than the     *)
(* frozen execution policy.  requested_at only orders a claim's            *)
(* candidates, and SKIP LOCKED already lets a claim pass over any of them  *)
(* another transaction holds, so Claim takes any candidates up to its      *)
(* limit.                                                                  *)
(***************************************************************************)
EXTENDS Naturals, FiniteSets

CONSTANTS
    CommandId,      \* command_id: unique and never null on the project route
    DedupeKey,      \* values of the unique column dedupe_key
    NoKey,          \* a null dedupe_key
    Agent,          \* agent_id
    Org,            \* organization_id
    AnyOrg,         \* the selector of the PATCH route, which names no organization
    DeviceOrg,      \* the organization each enrolled device belongs to
    Intent,         \* intent_id
    PatchIntent,    \* 'talos.patch.install', which has routes of its own
    StepIndex,      \* step_index
    Command,        \* the shell commands of steps
    NoCommand,      \* the command of a step row that does not exist
    Policy,         \* the frozen execution snapshot of metadata_jsonb
    Requests,       \* the projection requests that may arrive, in any order and repeatedly
    MaxClaim        \* the largest claim limit (readLimit clamps it to 10)

Unclaimed == {"pending_approval", "queued"}
Terminal == {"completed", "failed", "cancelled"}
Reportable == {"running"} \cup Terminal
JobStatus == {"none"} \cup Unclaimed \cup Reportable
StepStatus == {"absent", "pending"} \cup Reportable

Owner == [org : Org, agent : Agent, intent : Intent]
Step == [command : Command \cup {NoCommand}, status : StepStatus]
Steps == [StepIndex -> Step]
NoSteps == [i \in StepIndex |-> [command |-> NoCommand, status |-> "absent"]]

Request == [commandId : CommandId, owner : Owner, dedupe : DedupeKey \cup {NoKey},
            approved : BOOLEAN, policy : Policy, steps : Steps]

\* What a status report says of the steps: nothing beyond the step it names
\* ("direct"), an outcome for each executed step ("aggregate"), or something
\* the validation of evidence rejects by its shape ("malformed").
Outcomes == [StepIndex -> Terminal \cup {"unreported"}]
NoOutcome == [i \in StepIndex |-> "unreported"]
Evidence == [kind : {"aggregate"}, steps : Outcomes]
                \cup [kind : {"direct", "malformed"}, steps : {NoOutcome}]
Report == [status : Reportable, step : StepIndex, evidence : Evidence]

ASSUME RequestsAssumption == Requests \subseteq Request

ASSUME DeviceAssumption == DeviceOrg \in [Agent -> Org]

ASSUME ClaimAssumption == MaxClaim \in Nat \ {0}

ASSUME NonemptyAssumption == Agent # {} /\ Intent # {} /\ Policy # {}

VARIABLES
    status,     \* status[c]: remediation_job.status, "none" before the row exists
    owner,      \* owner[c]: organization_id, agent_id and intent_id
    dedupe,     \* dedupe[c]: dedupe_key
    policy,     \* policy[c]: the frozen execution snapshot
    steps       \* steps[c][i]: the remediation_step row i of the job

jobVars == <<status, owner, dedupe, policy, steps>>

--------------------------------------------------------------------------------
(* The state machine of one job (lib/remediationStatusTransitions.ts)      *)

Durable(s) == {i \in StepIndex : s[i].status # "absent"}

\* Mutant: any step may be closed, whatever it was.
StepTransitionAllowedLax(current, next) ==
    current = next \/ current = "pending" \/ next \in Terminal

\* Mutant: a step must be on record as running before it may end.
StepTransitionAllowedStrict(current, next) ==
    \/ current = next
    \/ current = "pending" /\ next = "running"
    \/ current = "running" /\ next \in Terminal

StepTransitionAllowed(current, next) ==
    \/ current = next
    \/ current = "pending"
    \/ current = "running" /\ next \in Terminal

\* Mutant: the first terminal step closes the job.
DeriveJobStatusEager(s) ==
    IF \A i \in Durable(s) : s[i].status \notin Terminal THEN "running"
    ELSE IF \E i \in Durable(s) : s[i].status = "failed" THEN "failed"
    ELSE IF \E i \in Durable(s) : s[i].status = "cancelled" THEN "cancelled"
    ELSE "completed"

DeriveJobStatus(s) ==
    IF \E i \in Durable(s) : s[i].status \notin Terminal THEN "running"
    ELSE IF \E i \in Durable(s) : s[i].status = "failed" THEN "failed"
    ELSE IF \E i \in Durable(s) : s[i].status = "cancelled" THEN "cancelled"
    ELSE "completed"

\* Mutant: a step a terminal aggregate leaves out shares the outcome of the rest.
ProjectedStatusOptimistic(evidence, i) ==
    IF evidence.steps[i] = "unreported" THEN "completed" ELSE evidence.steps[i]

\* A step a terminal aggregate leaves out was not executed.
ProjectedStatus(evidence, i) ==
    IF evidence.steps[i] = "unreported" THEN "cancelled" ELSE evidence.steps[i]

ProjectedSteps(s, evidence) ==
    [i \in StepIndex |->
        IF i \in Durable(s) THEN [s[i] EXCEPT !.status = ProjectedStatus(evidence, i)]
                            ELSE s[i]]

ValidAggregate(s, report) ==
    LET reported == {i \in StepIndex : report.evidence.steps[i] # "unreported"}
    IN  /\ reported \subseteq Durable(s)
        /\ report.step \in reported
        /\ report.status = "completed" => reported = Durable(s)
        /\ \A i \in Durable(s) :
              StepTransitionAllowed(s[i].status, ProjectedStatus(report.evidence, i))
        /\ DeriveJobStatus(ProjectedSteps(s, report.evidence)) = report.status

\* Evidence is only looked at when the report is terminal.
ValidEvidence(s, report) ==
    report.status \in Terminal =>
        \/ report.evidence.kind = "direct"
        \/ report.evidence.kind = "aggregate" /\ ValidAggregate(s, report)

\* Mutant: a direct report takes the status from the evidence instead.
ReportedStepsFromEvidence(s, report) ==
    IF report.status \in Terminal /\ report.evidence.kind = "aggregate"
    THEN ProjectedSteps(s, report.evidence)
    ELSE [s EXCEPT ![report.step].status = report.evidence.steps[report.step]]

ReportedSteps(s, report) ==
    IF report.status \in Terminal /\ report.evidence.kind = "aggregate"
    THEN ProjectedSteps(s, report.evidence)
    ELSE [s EXCEPT ![report.step].status = report.status]

--------------------------------------------------------------------------------
(* Projection (insertRemediationJob)                                       *)

\* Mutant: 'running' is missing from the statuses an upsert preserves.
ClaimedNotRunning(c) == status[c] \in Terminal

Claimed(c) == status[c] \in Reportable

\* Mutant: the upsert on dedupe_key does not compare the owner columns.
AcceptableAnyOwner(r) ==
    /\ DeviceOrg[r.owner.agent] = r.owner.org
    /\ \/ /\ status[r.commandId] = "none"
          /\ r.dedupe # NoKey =>
                \A c \in CommandId : status[c] # "none" => dedupe[c] # r.dedupe
       \/ /\ status[r.commandId] # "none"
          /\ r.dedupe # NoKey => dedupe[r.commandId] = r.dedupe

\* Mutant: the index on dedupe_key is missing.
AcceptableAnyKey(r) ==
    /\ DeviceOrg[r.owner.agent] = r.owner.org
    /\ status[r.commandId] # "none" => owner[r.commandId] = r.owner

\* The unique indexes on command_id and dedupe_key, and the ownership
\* conditions of the upsert.
Acceptable(r) ==
    /\ DeviceOrg[r.owner.agent] = r.owner.org
    /\ \/ /\ status[r.commandId] = "none"
          /\ r.dedupe # NoKey =>
                \A c \in CommandId : status[c] # "none" => dedupe[c] # r.dedupe
       \/ /\ status[r.commandId] # "none"
          /\ owner[r.commandId] = r.owner
          /\ r.dedupe # NoKey => dedupe[r.commandId] = r.dedupe

\* Mutant: a replay refreshes the step rows of a job that is already running.
MergedStepsAlwaysFresh(c, r) ==
    [i \in StepIndex |-> IF i \in Durable(r.steps) THEN r.steps[i] ELSE steps[c][i]]

\* Step rows are only ever added or refreshed: the upsert deletes none, and
\* adds the missing ones to a job of any status.
MergedSteps(c, r) ==
    [i \in StepIndex |->
        IF i \in Durable(r.steps) /\ (~Claimed(c) \/ i \notin Durable(steps[c]))
        THEN r.steps[i] ELSE steps[c][i]]

Project(r) ==
    LET c == r.commandId
    IN  /\ Acceptable(r)
        /\ steps' = [steps EXCEPT ![c] = MergedSteps(c, r)]
        /\ owner' = [owner EXCEPT ![c] = r.owner]
        /\ dedupe' = [dedupe EXCEPT ![c] = IF status[c] = "none" THEN r.dedupe ELSE @]
        /\ IF Claimed(c)
           THEN UNCHANGED <<status, policy>>
           ELSE /\ status' = [status EXCEPT ![c] =
                                IF r.approved THEN "queued" ELSE "pending_approval"]
                /\ policy' = [policy EXCEPT ![c] = r.policy]

--------------------------------------------------------------------------------
(* Claim (routes/remediationDispatch.routes.ts)                            *)

\* Mutant: the generic claim does not exclude the patch intent.
ClaimableAnyIntent(a) ==
    {c \in CommandId : /\ status[c] = "queued"
                       /\ owner[c].agent = a
                       /\ Durable(steps[c]) # {}}

Claimable(a) ==
    {c \in CommandId : /\ status[c] = "queued"
                       /\ owner[c].agent = a
                       /\ owner[c].intent # PatchIntent
                       /\ Durable(steps[c]) # {}}

Claim(a, claimed) ==
    /\ claimed \subseteq Claimable(a)
    /\ Cardinality(claimed) \in 1..MaxClaim
    /\ status' = [c \in CommandId |-> IF c \in claimed THEN "running" ELSE status[c]]
    /\ UNCHANGED <<owner, dedupe, policy, steps>>

--------------------------------------------------------------------------------
(* Status report (transitionRemediationStatus, generic intent scope)       *)

Selected(c, a, org) ==
    /\ status[c] # "none"
    /\ owner[c].agent = a
    /\ org \in {AnyOrg, owner[c].org}
    /\ owner[c].intent # PatchIntent

TransitionAccepted(c, report) ==
    /\ status[c] \in {report.status, "running"}
    /\ report.step \in Durable(steps[c])
    /\ StepTransitionAllowed(steps[c][report.step].status, report.status)
    /\ ValidEvidence(steps[c], report)

ReportStatus(c, a, org, report) ==
    /\ Selected(c, a, org)
    /\ TransitionAccepted(c, report)
    /\ steps' = [steps EXCEPT ![c] = ReportedSteps(steps[c], report)]
    /\ status' = [status EXCEPT ![c] = DeriveJobStatus(ReportedSteps(steps[c], report))]
    /\ UNCHANGED <<owner, dedupe, policy>>

--------------------------------------------------------------------------------

NoOwner == CHOOSE o \in Owner : TRUE
NoPolicy == CHOOSE p \in Policy : TRUE

JobsInit ==
    /\ status = [c \in CommandId |-> "none"]
    /\ owner = [c \in CommandId |-> NoOwner]
    /\ dedupe = [c \in CommandId |-> NoKey]
    /\ policy = [c \in CommandId |-> NoPolicy]
    /\ steps = [c \in CommandId |-> NoSteps]

JobsNext ==
    \/ \E r \in Requests : Project(r)
    \/ \E a \in Agent, claimed \in SUBSET CommandId : Claim(a, claimed)
    \/ \E c \in CommandId, a \in Agent, org \in Org \cup {AnyOrg}, report \in Report :
          ReportStatus(c, a, org, report)

JobsSpec == JobsInit /\ [][JobsNext]_jobVars

--------------------------------------------------------------------------------
(* Properties                                                              *)

\* Every column holds a value of its type.
JobsTypeOK ==
    /\ status \in [CommandId -> JobStatus]
    /\ owner \in [CommandId -> Owner]
    /\ dedupe \in [CommandId -> DedupeKey \cup {NoKey}]
    /\ policy \in [CommandId -> Policy]
    /\ steps \in [CommandId -> Steps]

\* All requests for one command name the same steps: the producer publishes
\* an immutable event, and a redelivery of it is the same event.
StableSteps ==
    \A r, q \in Requests : r.commandId = q.commandId => Durable(r.steps) = Durable(q.steps)

\* The steps of a request have not been executed yet.
FreshSteps ==
    \A r \in Requests : \A i \in Durable(r.steps) : r.steps[i].status = "pending"

\* A claim is handed out once: no replayed projection, report or claim brings
\* a job that was claimed back to a status from which insertRemediationJob or
\* the claim route could dispatch it again.
NeverRequeued ==
    [][\A c \in CommandId : status[c] \in Reportable => status'[c] \in Reportable]_jobVars

\* What was claimed is what stays on record: whatever is projected or reported
\* later, a claimed job keeps its execution policy, and each of its steps keeps
\* its command and moves only from pending to running to one terminal status
\* (the CASE expressions of insertRemediationJob, stepTransitionAllowed).
FrozenWork ==
    [][\A c \in CommandId : Claimed(c) =>
          /\ policy'[c] = policy[c]
          /\ \A i \in Durable(steps[c]) :
                /\ steps'[c][i].command = steps[c][i].command
                /\ StepTransitionAllowed(steps[c][i].status, steps'[c][i].status)]_jobVars

\* A job keeps its organization, agent, intent and dedupe key for good: a
\* request with a colliding command ID or key cannot re-parent it
\* (the WHERE clauses of the upserts).
OwnershipStable ==
    [][\A c \in CommandId : status[c] # "none" =>
          owner'[c] = owner[c] /\ dedupe'[c] = dedupe[c]]_jobVars

\* No two jobs hold the same dedupe key, although the key's index is tested
\* against a request whose command ID may belong to yet another job.
DedupeUnique ==
    \A c, d \in CommandId :
        status[c] # "none" /\ status[d] # "none" /\ dedupe[c] = dedupe[d] /\ c # d
            => dedupe[c] = NoKey

\* The generic routes never start or finish a patch-install job: those have
\* their own claim and status routes.
PatchJobsUntouched ==
    \A c \in CommandId :
        status[c] # "none" /\ owner[c].intent = PatchIntent => status[c] \in Unclaimed

\* A claimed job is running until every durable step is terminal, and then is
\* failed if a step failed, else cancelled if one was cancelled, else completed:
\* transitionRemediationStatus stores the status, and it never disagrees with
\* the step rows, whatever reports raced (ADR-0005).
JobAgreesWithSteps ==
    \A c \in CommandId : Claimed(c) => status[c] = DeriveJobStatus(steps[c])

\* Why JobAgreesWithSteps holds (its inductive strengthening): a job that was
\* never claimed has no step that was started, the status of a claimed one is
\* derived from its steps, and the step rows of a job are exactly those that
\* every request for it names, so insertRemediationJob adds no row later on.
QueueInv ==
    /\ JobsTypeOK
    /\ \A c \in CommandId :
          /\ status[c] = "none" => steps[c] = NoSteps
          /\ status[c] \in Unclaimed =>
                \A i \in Durable(steps[c]) : steps[c][i].status = "pending"
          /\ Claimed(c) => status[c] = DeriveJobStatus(steps[c])
          /\ status[c] # "none" =>
                \A r \in Requests : r.commandId = c => Durable(r.steps) = Durable(steps[c])

\* Repeating a terminal report is idempotent and a conflicting one fails: no
\* request changes the status or any step of a job that has ended.
TerminalFrozen ==
    [][\A c \in CommandId : status[c] \in Terminal =>
          status'[c] = status[c] /\ steps'[c] = steps[c]]_jobVars

\* The queue implements the contract of JobLifecycle: a command is dispatched
\* at most once and ends at most once, whatever is replayed
\* (insertRemediationJob, the claim route, transitionRemediationStatus).
Lifecycle == INSTANCE JobLifecycle WITH
    phase <- [c \in CommandId |-> IF status[c] \in Unclaimed THEN "waiting" ELSE status[c]]

ImplementsLifecycle == Lifecycle!Spec

================================================================================
