------------------------- MODULE RemediationJobsProofs -------------------------
(***************************************************************************)
(* Proofs about the remediation queue, for every set of commands, agents,  *)
(* steps and requests; then what the queue's jobs and reports are while    *)
(* they travel between the server and the workers: the invariant of        *)
(* RemediationDispatch, its types, and the steps that leave a command      *)
(* where it is.  RemediationDispatchProofs goes on from here.              *)
(*                                                                         *)
(* The invariants of RemediationDispatch rest on where a command may be: a *)
(* claim hands it to one link, where it is carried by a response, then     *)
(* held by the link's manager, then spoken of by reports on their way.     *)
(***************************************************************************)
EXTENDS RemediationDispatch, TLAPS

--------------------------------------------------------------------------------
(* The operators on step rows                                              *)

\* The derived status of a job is one a claimed job may have.
LEMMA DeriveType == \A s : DeriveJobStatus(s) \in Reportable
BY DEF DeriveJobStatus, Reportable, Terminal

\* A job whose derived status is terminal has only terminal steps, and
\* conversely.
LEMMA DeriveTerminal ==
    \A s : DeriveJobStatus(s) \in Terminal
              <=> \A i \in Durable(s) : s[i].status \in Terminal
BY DEF DeriveJobStatus, Terminal

\* The steps of a request merge into step rows.
LEMMA MergedType ==
    ASSUME JobsTypeOK, NEW r \in Requests
    PROVE  MergedSteps(r.commandId, r) \in Steps
BY RequestsAssumption DEF JobsTypeOK, MergedSteps, Request, Steps

\* A report turns step rows into step rows.
LEMMA ReportedType ==
    ASSUME NEW s \in Steps, NEW report \in Report
    PROVE  ReportedSteps(s, report) \in Steps
<1>1. CASE report.status \in Terminal /\ report.evidence.kind = "aggregate"
  <2>1. report.evidence.steps \in Outcomes
    BY DEF Report, Evidence, Outcomes, NoOutcome
  <2>2. ASSUME NEW i \in StepIndex
        PROVE  ProjectedStatus(report.evidence, i) \in StepStatus
    BY <2>1 DEF Outcomes, ProjectedStatus, StepStatus, Reportable, Terminal
  <2>3. ASSUME NEW i \in StepIndex
        PROVE  [s[i] EXCEPT !.status = ProjectedStatus(report.evidence, i)] \in Step
    BY <2>2 DEF Steps, Step
  <2> QED
    BY <1>1, <2>3 DEF ReportedSteps, ProjectedSteps, Steps
<1>2. CASE ~(report.status \in Terminal /\ report.evidence.kind = "aggregate")
  <2>1. report.step \in StepIndex /\ report.status \in StepStatus
    BY DEF Report, StepStatus
  <2> QED
    BY <1>2, <2>1 DEF ReportedSteps, Steps, Step
<1> QED
  BY <1>1, <1>2

--------------------------------------------------------------------------------
(* Type correctness                                                        *)

\* The queue starts with columns of their types.
LEMMA InitType == JobsInit => JobsTypeOK
<1> SUFFICES ASSUME JobsInit PROVE JobsTypeOK
  OBVIOUS
<1>1. NoOwner \in Owner
  <2>1. PICK a \in Agent, i \in Intent : TRUE
    BY NonemptyAssumption
  <2>2. [org |-> DeviceOrg[a], agent |-> a, intent |-> i] \in Owner
    BY <2>1, DeviceAssumption DEF Owner
  <2> QED
    BY <2>2 DEF NoOwner
<1>2. NoPolicy \in Policy
  BY NonemptyAssumption DEF NoPolicy
<1>3. NoSteps \in Steps
  BY DEF NoSteps, Steps, Step, StepStatus
<1> QED
  BY <1>1, <1>2, <1>3 DEF JobsInit, JobsTypeOK, JobStatus

\* A projection stores values of the columns' types.
LEMMA ProjectType ==
    ASSUME JobsTypeOK, NEW r \in Requests, Project(r)
    PROVE  JobsTypeOK'
<1>1. MergedSteps(r.commandId, r) \in Steps
  BY MergedType
<1>2. r \in Request
  BY RequestsAssumption
<1>3. steps' \in [CommandId -> Steps] /\ owner' \in [CommandId -> Owner]
        /\ dedupe' \in [CommandId -> DedupeKey \cup {NoKey}]
  BY <1>1, <1>2 DEF JobsTypeOK, Project, Request
<1>4. status' \in [CommandId -> JobStatus] /\ policy' \in [CommandId -> Policy]
  BY <1>2 DEF JobsTypeOK, Project, Request, JobStatus, Unclaimed
<1> QED
  BY <1>3, <1>4 DEF JobsTypeOK

\* A claim stores values of the columns' types.
LEMMA ClaimType ==
    ASSUME JobsTypeOK, NEW a \in Agent, NEW claimed \in SUBSET CommandId, Claim(a, claimed)
    PROVE  JobsTypeOK'
BY DEF JobsTypeOK, Claim, JobStatus, Reportable

\* A status report stores values of the columns' types.
LEMMA ReportType ==
    ASSUME JobsTypeOK, NEW c \in CommandId, NEW a \in Agent, NEW org,
           NEW report \in Report, ReportStatus(c, a, org, report)
    PROVE  JobsTypeOK'
<1>1. ReportedSteps(steps[c], report) \in Steps
  BY ReportedType DEF JobsTypeOK
<1>2. DeriveJobStatus(ReportedSteps(steps[c], report)) \in JobStatus
  BY DeriveType DEF JobStatus
<1> QED
  BY <1>1, <1>2 DEF JobsTypeOK, ReportStatus

\* Every step of the queue keeps the type invariant.
LEMMA NextType == JobsTypeOK /\ [JobsNext]_jobVars => JobsTypeOK'
<1> SUFFICES ASSUME JobsTypeOK, [JobsNext]_jobVars PROVE JobsTypeOK'
  OBVIOUS
<1>1. CASE \E r \in Requests : Project(r)
  BY <1>1, ProjectType
<1>2. CASE \E a \in Agent, claimed \in SUBSET CommandId : Claim(a, claimed)
  BY <1>2, ClaimType
<1>3. CASE \E c \in CommandId, a \in Agent, org \in Org \cup {AnyOrg}, report \in Report :
              ReportStatus(c, a, org, report)
  BY <1>3, ReportType
<1>4. CASE UNCHANGED jobVars
  BY <1>4 DEF jobVars, JobsTypeOK
<1> QED
  BY <1>1, <1>2, <1>3, <1>4 DEF JobsNext

\* The columns of the job and step tables always hold values of their types.
THEOREM TypeCorrect == JobsSpec => []JobsTypeOK
BY InitType, NextType, PTL DEF JobsSpec

--------------------------------------------------------------------------------
(* What holds of every set of requests                                     *)

\* No step moves a claimed job back to an unclaimed status.
LEMMA NeverRequeuedStep ==
    JobsTypeOK /\ [JobsNext]_jobVars =>
        \A c \in CommandId : Claimed(c) => status'[c] \in Reportable
<1> SUFFICES ASSUME JobsTypeOK, [JobsNext]_jobVars, NEW c \in CommandId, Claimed(c)
             PROVE  status'[c] \in Reportable
  OBVIOUS
<1>1. ASSUME NEW r \in Requests, Project(r) PROVE status'[c] \in Reportable
  BY <1>1 DEF JobsTypeOK, Project, Claimed
<1>2. ASSUME NEW a \in Agent, NEW claimed \in SUBSET CommandId, Claim(a, claimed)
      PROVE  status'[c] \in Reportable
  BY <1>2 DEF Claim, Claimed, Reportable
<1>3. ASSUME NEW d \in CommandId, NEW a \in Agent, NEW org, NEW report \in Report,
             ReportStatus(d, a, org, report)
      PROVE  status'[c] \in Reportable
  BY <1>3, DeriveType DEF JobsTypeOK, ReportStatus, Claimed
<1>4. CASE UNCHANGED jobVars
  BY <1>4 DEF jobVars, Claimed
<1> QED
  BY <1>1, <1>2, <1>3, <1>4 DEF JobsNext

\* No step brings a claimed job back to a status it could be claimed from: a
\* command is dispatched at most once, whatever is projected or reported, by
\* whom and in whatever order.
THEOREM DispatchedOnce == JobsSpec => NeverRequeued
<1>1. JobsSpec => []JobsTypeOK
  BY TypeCorrect
<1>2. JobsTypeOK /\ [JobsNext]_jobVars
        => [\A c \in CommandId : status[c] \in Reportable => status'[c] \in Reportable]_jobVars
  BY NeverRequeuedStep DEF Claimed
<1> QED
  BY <1>1, <1>2, PTL DEF JobsSpec, NeverRequeued

\* An accepted report moves each step along the legal transitions and leaves
\* its command alone.
LEMMA ReportAdvances ==
    ASSUME NEW s \in Steps, NEW report \in Report, ValidEvidence(s, report),
           report.step \in Durable(s),
           StepTransitionAllowed(s[report.step].status, report.status),
           NEW i \in Durable(s)
    PROVE  /\ ReportedSteps(s, report)[i].command = s[i].command
           /\ StepTransitionAllowed(s[i].status, ReportedSteps(s, report)[i].status)
<1>1. s[i] \in Step /\ i \in StepIndex
  BY DEF Steps, Durable
<1>2. CASE report.status \in Terminal /\ report.evidence.kind = "aggregate"
  <2>1. StepTransitionAllowed(s[i].status, ProjectedStatus(report.evidence, i))
    BY <1>2 DEF ValidEvidence, ValidAggregate
  <2>2. ReportedSteps(s, report)[i] = [s[i] EXCEPT !.status = ProjectedStatus(report.evidence, i)]
    BY <1>1, <1>2 DEF ReportedSteps, ProjectedSteps
  <2> QED
    BY <1>1, <2>1, <2>2 DEF Step
<1>3. CASE ~(report.status \in Terminal /\ report.evidence.kind = "aggregate")
  <2>1. ReportedSteps(s, report) = [s EXCEPT ![report.step].status = report.status]
    BY <1>3 DEF ReportedSteps
  <2>2. CASE i = report.step
    BY <1>1, <2>1, <2>2 DEF Steps, Step
  <2>3. CASE i # report.step
    BY <1>1, <2>1, <2>3, Zenon DEF Steps, Step, StepTransitionAllowed
  <2> QED
    BY <2>2, <2>3
<1> QED
  BY <1>2, <1>3

\* No step changes the work of a claimed job.
LEMMA FrozenWorkStep ==
    JobsTypeOK /\ [JobsNext]_jobVars =>
        \A c \in CommandId : Claimed(c) =>
            /\ policy'[c] = policy[c]
            /\ \A i \in Durable(steps[c]) :
                  /\ steps'[c][i].command = steps[c][i].command
                  /\ StepTransitionAllowed(steps[c][i].status, steps'[c][i].status)
<1> SUFFICES ASSUME JobsTypeOK, [JobsNext]_jobVars, NEW c \in CommandId, Claimed(c)
             PROVE  /\ policy'[c] = policy[c]
                    /\ \A i \in Durable(steps[c]) :
                          /\ steps'[c][i].command = steps[c][i].command
                          /\ StepTransitionAllowed(steps[c][i].status, steps'[c][i].status)
  OBVIOUS
<1>0. \A i \in Durable(steps[c]) :
        i \in StepIndex /\ StepTransitionAllowed(steps[c][i].status, steps[c][i].status)
  BY DEF Durable, StepTransitionAllowed
<1>1. ASSUME NEW r \in Requests, Project(r)
      PROVE  policy'[c] = policy[c] /\ \A i \in Durable(steps[c]) : steps'[c][i] = steps[c][i]
  <2>1. CASE c = r.commandId
    <3>1. \A i \in Durable(steps[c]) : MergedSteps(c, r)[i] = steps[c][i]
      BY <1>0 DEF MergedSteps
    <3> QED
      BY <1>1, <2>1, <3>1 DEF Project, JobsTypeOK
  <2>2. CASE c # r.commandId
    BY <1>1, <2>2 DEF Project, JobsTypeOK
  <2> QED
    BY <2>1, <2>2
<1>2. ASSUME NEW a \in Agent, NEW claimed \in SUBSET CommandId, Claim(a, claimed)
      PROVE  policy'[c] = policy[c] /\ steps'[c] = steps[c]
  BY <1>2 DEF Claim
<1>3. ASSUME NEW d \in CommandId, NEW a \in Agent, NEW org, NEW report \in Report,
             ReportStatus(d, a, org, report)
      PROVE  /\ policy'[c] = policy[c]
             /\ \A i \in Durable(steps[c]) :
                   /\ steps'[c][i].command = steps[c][i].command
                   /\ StepTransitionAllowed(steps[c][i].status, steps'[c][i].status)
  <2>1. policy' = policy
    BY <1>3, Zenon DEF ReportStatus
  <2>2. CASE c = d
    <3>1. steps'[c] = ReportedSteps(steps[c], report)
      BY <1>3, <2>2 DEF ReportStatus, JobsTypeOK
    <3>2. steps[c] \in Steps
      BY DEF JobsTypeOK
    <3> QED
      BY <1>3, <2>1, <2>2, <3>1, <3>2, ReportAdvances DEF ReportStatus, TransitionAccepted
  <2>3. CASE c # d
    BY <1>0, <1>3, <2>1, <2>3 DEF ReportStatus, JobsTypeOK
  <2> QED
    BY <2>2, <2>3
<1>4. CASE UNCHANGED jobVars
  BY <1>0, <1>4 DEF jobVars
<1> QED
  BY <1>0, <1>1, <1>2, <1>3, <1>4 DEF JobsNext

\* The work of a claimed job is frozen: neither a redelivered projection nor a
\* report changes its policy or the command of a step, and the status of a step
\* only advances.
THEOREM WorkIsFrozen == JobsSpec => FrozenWork
<1>1. JobsSpec => []JobsTypeOK
  BY TypeCorrect
<1>2. JobsTypeOK /\ [JobsNext]_jobVars =>
        [\A c \in CommandId : Claimed(c) =>
            /\ policy'[c] = policy[c]
            /\ \A i \in Durable(steps[c]) :
                  /\ steps'[c][i].command = steps[c][i].command
                  /\ StepTransitionAllowed(steps[c][i].status, steps'[c][i].status)]_jobVars
  BY FrozenWorkStep
<1> QED
  BY <1>1, <1>2, PTL DEF JobsSpec, FrozenWork

\* No step changes the owner or the key of a job.
LEMMA OwnershipStep ==
    JobsTypeOK /\ [JobsNext]_jobVars =>
        \A c \in CommandId : status[c] # "none" =>
            owner'[c] = owner[c] /\ dedupe'[c] = dedupe[c]
<1> SUFFICES ASSUME JobsTypeOK, [JobsNext]_jobVars, NEW c \in CommandId, status[c] # "none"
             PROVE  owner'[c] = owner[c] /\ dedupe'[c] = dedupe[c]
  OBVIOUS
<1>1. ASSUME NEW r \in Requests, Project(r)
      PROVE  owner'[c] = owner[c] /\ dedupe'[c] = dedupe[c]
  <2>1. CASE c = r.commandId
    <3>1. owner[c] = r.owner
      BY <1>1, <2>1 DEF Project, Acceptable
    <3> QED
      BY <1>1, <2>1, <3>1 DEF Project, JobsTypeOK
  <2>2. CASE c # r.commandId
    BY <1>1, <2>2 DEF Project, JobsTypeOK
  <2> QED
    BY <2>1, <2>2
<1>2. ASSUME NEW a \in Agent, NEW claimed \in SUBSET CommandId, Claim(a, claimed)
      PROVE  owner'[c] = owner[c] /\ dedupe'[c] = dedupe[c]
  BY <1>2 DEF Claim
<1>3. ASSUME NEW d \in CommandId, NEW a \in Agent, NEW org, NEW report \in Report,
             ReportStatus(d, a, org, report)
      PROVE  owner'[c] = owner[c] /\ dedupe'[c] = dedupe[c]
  BY <1>3 DEF ReportStatus
<1>4. CASE UNCHANGED jobVars
  BY <1>4 DEF jobVars
<1> QED
  BY <1>1, <1>2, <1>3, <1>4 DEF JobsNext

\* No request re-parents a job or takes over its dedupe key.
THEOREM OwnershipIsStable == JobsSpec => OwnershipStable
<1>1. JobsSpec => []JobsTypeOK
  BY TypeCorrect
<1>2. JobsTypeOK /\ [JobsNext]_jobVars =>
        [\A c \in CommandId : status[c] # "none" =>
            owner'[c] = owner[c] /\ dedupe'[c] = dedupe[c]]_jobVars
  BY OwnershipStep, Zenon
<1> QED
  BY <1>1, <1>2, PTL DEF JobsSpec, OwnershipStable

\* What a step changes about the existence of jobs: only a projection creates
\* one, under a key no other job has.
LEMMA CreationStep ==
    ASSUME JobsTypeOK, [JobsNext]_jobVars, NEW c \in CommandId, status'[c] # "none",
           status[c] = "none"
    PROVE  \E r \in Requests :
              /\ r.commandId = c
              /\ status'[c] \in Unclaimed
              /\ dedupe'[c] = r.dedupe
              /\ r.dedupe # NoKey =>
                    \A d \in CommandId : status[d] # "none" => dedupe[d] # r.dedupe
              /\ \A d \in CommandId : d # c => status'[d] = status[d] /\ dedupe'[d] = dedupe[d]
<1>1. ASSUME NEW r \in Requests, Project(r)
      PROVE  /\ r.commandId = c
             /\ status'[c] \in Unclaimed
             /\ dedupe'[c] = r.dedupe
             /\ r.dedupe # NoKey =>
                   \A d \in CommandId : status[d] # "none" => dedupe[d] # r.dedupe
             /\ \A d \in CommandId : d # c => status'[d] = status[d] /\ dedupe'[d] = dedupe[d]
  <2>1. r.commandId = c
    BY <1>1 DEF Project, JobsTypeOK
  <2>2. ~Claimed(c)
    BY DEF Claimed, Reportable, Terminal
  <2> QED
    BY <1>1, <2>1, <2>2 DEF Project, Acceptable, JobsTypeOK, Unclaimed
<1>2. ASSUME NEW a \in Agent, NEW claimed \in SUBSET CommandId, Claim(a, claimed)
      PROVE  FALSE
  BY <1>2 DEF Claim, Claimable
<1>3. ASSUME NEW d \in CommandId, NEW a \in Agent, NEW org, NEW report \in Report,
             ReportStatus(d, a, org, report)
      PROVE  FALSE
  BY <1>3 DEF ReportStatus, Selected, JobsTypeOK
<1>4. CASE UNCHANGED jobVars
  BY <1>4 DEF jobVars
<1> QED
  BY <1>1, <1>2, <1>3, <1>4 DEF JobsNext

\* Two jobs never share a dedupe key.
THEOREM DedupeKeysUnique == JobsSpec => []DedupeUnique
<1>1. JobsInit => DedupeUnique
  BY DEF JobsInit, DedupeUnique
<1>2. JobsTypeOK /\ DedupeUnique /\ [JobsNext]_jobVars => DedupeUnique'
  <2> SUFFICES ASSUME JobsTypeOK, DedupeUnique, [JobsNext]_jobVars,
                      NEW c \in CommandId, NEW d \in CommandId,
                      status'[c] # "none", status'[d] # "none", dedupe'[c] = dedupe'[d], c # d
               PROVE  dedupe'[c] = NoKey
    BY DEF DedupeUnique
  <2>1. CASE status[c] = "none"
    BY <2>1, CreationStep
  <2>2. CASE status[d] = "none"
    BY <2>2, CreationStep
  <2>3. CASE status[c] # "none" /\ status[d] # "none"
    BY <2>3, OwnershipStep DEF DedupeUnique
  <2> QED
    BY <2>1, <2>2, <2>3
<1> QED
  BY <1>1, <1>2, TypeCorrect, PTL DEF JobsSpec

\* The generic claim and status routes leave patch-install jobs alone.
THEOREM PatchJobsAreUntouched == JobsSpec => []PatchJobsUntouched
<1>1. JobsInit => PatchJobsUntouched
  BY DEF JobsInit, PatchJobsUntouched
<1>2. JobsTypeOK /\ PatchJobsUntouched /\ [JobsNext]_jobVars => PatchJobsUntouched'
  <2> SUFFICES ASSUME JobsTypeOK, PatchJobsUntouched, [JobsNext]_jobVars, NEW c \in CommandId,
                      status'[c] # "none", owner'[c].intent = PatchIntent
               PROVE  status'[c] \in Unclaimed
    BY DEF PatchJobsUntouched
  <2>1. CASE status[c] = "none"
    BY <2>1, CreationStep
  <2>2. CASE status[c] # "none"
    <3>1. owner[c].intent = PatchIntent /\ status[c] \in Unclaimed
      BY <2>2, OwnershipStep DEF PatchJobsUntouched
    <3>2. ASSUME NEW r \in Requests, Project(r) PROVE status'[c] \in Unclaimed
      BY <3>1, <3>2 DEF Project, Unclaimed, JobsTypeOK
    <3>3. ASSUME NEW a \in Agent, NEW claimed \in SUBSET CommandId, Claim(a, claimed)
          PROVE  status'[c] \in Unclaimed
      BY <3>1, <3>3 DEF Claim, Claimable
    <3>4. ASSUME NEW d \in CommandId, NEW a \in Agent, NEW org, NEW report \in Report,
                 ReportStatus(d, a, org, report)
          PROVE  status'[c] \in Unclaimed
      BY <3>1, <3>4 DEF ReportStatus, Selected, JobsTypeOK
    <3>5. CASE UNCHANGED jobVars
      BY <3>1, <3>5 DEF jobVars
    <3> QED
      BY <3>2, <3>3, <3>4, <3>5 DEF JobsNext
  <2> QED
    BY <2>1, <2>2
<1> QED
  BY <1>1, <1>2, TypeCorrect, PTL DEF JobsSpec

--------------------------------------------------------------------------------
(* What needs events to be immutable: StableSteps and FreshSteps           *)

\* A report adds and removes no step row.
LEMMA ReportedDurable ==
    ASSUME NEW s \in Steps, NEW report \in Report, report.step \in Durable(s)
    PROVE  Durable(ReportedSteps(s, report)) = Durable(s)
<1>1. CASE report.status \in Terminal /\ report.evidence.kind = "aggregate"
  <2>1. report.evidence.steps \in Outcomes
    BY DEF Report, Evidence, Outcomes, NoOutcome
  <2>2. \A i \in StepIndex : ProjectedStatus(report.evidence, i) # "absent"
    BY <2>1 DEF Outcomes, ProjectedStatus, Terminal
  <2>3. ASSUME NEW i \in StepIndex
        PROVE  (ReportedSteps(s, report)[i].status # "absent") <=> (s[i].status # "absent")
    BY <1>1, <2>2 DEF ReportedSteps, ProjectedSteps, Durable, Steps, Step
  <2> QED
    BY <2>3 DEF Durable
<1>2. CASE ~(report.status \in Terminal /\ report.evidence.kind = "aggregate")
  <2>1. report.status # "absent" /\ report.step \in StepIndex
    BY DEF Report, Reportable, Terminal
  <2>2. ASSUME NEW i \in StepIndex
        PROVE  (ReportedSteps(s, report)[i].status # "absent") <=> (s[i].status # "absent")
    <3>1. CASE i = report.step
      BY <1>2, <2>1, <3>1 DEF ReportedSteps, Durable, Steps, Step
    <3>2. CASE i # report.step
      BY <1>2, <3>2 DEF ReportedSteps, Steps, Step
    <3> QED
      BY <3>1, <3>2
  <2> QED
    BY <2>2 DEF Durable
<1> QED
  BY <1>1, <1>2

\* A report that is accepted for steps that are all terminal changes nothing.
LEMMA ReportIdempotent ==
    ASSUME NEW s \in Steps, NEW report \in Report, ValidEvidence(s, report),
           report.step \in Durable(s),
           StepTransitionAllowed(s[report.step].status, report.status),
           \A i \in Durable(s) : s[i].status \in Terminal
    PROVE  ReportedSteps(s, report) = s
<1>1. ReportedSteps(s, report) \in Steps
  BY ReportedType
<1>2. ASSUME NEW i \in StepIndex PROVE ReportedSteps(s, report)[i] = s[i]
  <2>1. ReportedSteps(s, report)[i] \in Step /\ s[i] \in Step
    BY <1>1 DEF Steps
  <2>2. CASE i \in Durable(s)
    <3>1. /\ ReportedSteps(s, report)[i].command = s[i].command
          /\ StepTransitionAllowed(s[i].status, ReportedSteps(s, report)[i].status)
      BY <2>2, ReportAdvances
    <3>2. ReportedSteps(s, report)[i].status = s[i].status
      BY <2>2, <3>1 DEF StepTransitionAllowed, Terminal
    <3> QED
      BY <2>1, <3>1, <3>2 DEF Step
  <2>3. CASE i \notin Durable(s)
    <3>1. i # report.step
      BY <2>3
    <3> QED
      BY <2>3, <3>1 DEF ReportedSteps, ProjectedSteps, Steps
  <2> QED
    BY <2>2, <2>3
<1> QED
  BY <1>1, <1>2 DEF Steps

\* Projecting a request for a claimed job whose rows it names adds no row.
LEMMA MergeIdempotent ==
    ASSUME JobsTypeOK, NEW r \in Requests, NEW c \in CommandId, Claimed(c),
           Durable(r.steps) = Durable(steps[c])
    PROVE  MergedSteps(c, r) = steps[c]
BY DEF JobsTypeOK, MergedSteps, Steps

\* Projecting a request leaves a waiting job with exactly the rows it names,
\* all of them pending.
LEMMA MergeFresh ==
    ASSUME QueueInv, FreshSteps, NEW r \in Requests, NEW c \in CommandId, ~Claimed(c),
           c = r.commandId
    PROVE  /\ Durable(MergedSteps(c, r)) = Durable(r.steps)
           /\ \A i \in Durable(MergedSteps(c, r)) : MergedSteps(c, r)[i].status = "pending"
<1>1. status[c] = "none" \/ status[c] \in Unclaimed
  BY DEF QueueInv, JobsTypeOK, JobStatus, Claimed
<1>2. Durable(steps[c]) \subseteq Durable(r.steps)
  <2>1. CASE status[c] = "none"
    BY <2>1 DEF QueueInv, NoSteps, Durable
  <2>2. CASE status[c] \in Unclaimed
    BY <2>2 DEF QueueInv, Unclaimed
  <2> QED
    BY <1>1, <2>1, <2>2
<1>3. ASSUME NEW i \in StepIndex
      PROVE  MergedSteps(c, r)[i] = IF i \in Durable(r.steps) THEN r.steps[i] ELSE steps[c][i]
  BY DEF MergedSteps
<1>4. ASSUME NEW i \in StepIndex
      PROVE  MergedSteps(c, r)[i].status # "absent" <=> i \in Durable(r.steps)
  BY <1>2, <1>3 DEF Durable
<1>5. Durable(MergedSteps(c, r)) = Durable(r.steps)
  BY <1>4, Zenon DEF Durable
<1> QED
  BY <1>3, <1>5 DEF FreshSteps, Durable

\* The part of QueueInv that is about one job.
JobInv(c) ==
    /\ status[c] = "none" => steps[c] = NoSteps
    /\ status[c] \in Unclaimed =>
          \A i \in Durable(steps[c]) : steps[c][i].status = "pending"
    /\ Claimed(c) => status[c] = DeriveJobStatus(steps[c])
    /\ status[c] # "none" =>
          \A r \in Requests : r.commandId = c => Durable(r.steps) = Durable(steps[c])

\* A job whose status and steps stay as they are keeps the invariant.
LEMMA JobInvUnchanged ==
    ASSUME NEW c \in CommandId, JobInv(c), status'[c] = status[c], steps'[c] = steps[c]
    PROVE  JobInv(c)'
BY DEF JobInv, Claimed, Durable, DeriveJobStatus

\* A projection keeps the invariant of the job it is about.
LEMMA ProjectInv ==
    ASSUME QueueInv, StableSteps, FreshSteps, NEW r \in Requests, Project(r)
    PROVE  JobInv(r.commandId)'
<1> DEFINE c == r.commandId
<1>1. c \in CommandId
  BY RequestsAssumption, Zenon DEF Request
<1>2. JobInv(c)
  BY <1>1, Zenon DEF QueueInv, JobInv
<1>3. steps'[c] = MergedSteps(c, r)
  BY <1>1, Zenon DEF Project, QueueInv, JobsTypeOK
<1>4. CASE Claimed(c)
  <2>1. Durable(r.steps) = Durable(steps[c])
    BY <1>1, <1>2, <1>4 DEF JobInv, Claimed, Reportable, Terminal
  <2>2. steps'[c] = steps[c]
    BY <1>1, <1>3, <1>4, <2>1, MergeIdempotent DEF QueueInv
  <2>3. status'[c] = status[c]
    BY <1>4 DEF Project
  <2> QED
    BY <1>1, <1>2, <2>2, <2>3, JobInvUnchanged
<1>5. CASE ~Claimed(c)
  <2>1. /\ Durable(steps'[c]) = Durable(r.steps)
        /\ \A i \in Durable(steps'[c]) : steps'[c][i].status = "pending"
    BY <1>1, <1>3, <1>5, MergeFresh
  <2>2. status'[c] \in Unclaimed
    BY <1>1, <1>5 DEF Project, Unclaimed, QueueInv, JobsTypeOK
  <2>3. status'[c] # "none" /\ status'[c] \notin Reportable
    BY <2>2 DEF Unclaimed, Reportable, Terminal
  <2>4. \A q \in Requests : q.commandId = c => Durable(q.steps) = Durable(steps'[c])
    BY <2>1 DEF StableSteps
  <2> QED
    BY <2>1, <2>3, <2>4 DEF JobInv, Claimed, Durable
<1> QED
  BY <1>4, <1>5

\* A claim keeps the invariant of every job.
LEMMA ClaimInv ==
    ASSUME QueueInv, NEW a \in Agent, NEW claimed \in SUBSET CommandId, Claim(a, claimed),
           NEW c \in CommandId
    PROVE  JobInv(c)'
<1>1. JobInv(c)
  BY DEF QueueInv, JobInv
<1>2. steps'[c] = steps[c]
  BY Zenon DEF Claim
<1>3. CASE c \in claimed
  <2>1. status'[c] = "running" /\ status[c] = "queued" /\ Durable(steps[c]) # {}
    BY <1>3, Zenon DEF Claim, Claimable
  <2>2. DeriveJobStatus(steps[c]) = "running"
    BY <1>1, <2>1, Zenon DEF JobInv, Unclaimed, DeriveJobStatus, Terminal
  <2>3. \A r \in Requests : r.commandId = c => Durable(r.steps) = Durable(steps[c])
    BY <1>1, <2>1 DEF JobInv
  <2> QED
    BY <1>2, <2>1, <2>2, <2>3 DEF JobInv, Unclaimed, Claimed, Durable, DeriveJobStatus
<1>4. CASE c \notin claimed
  BY <1>1, <1>2, <1>4, JobInvUnchanged, Zenon DEF Claim
<1> QED
  BY <1>3, <1>4

\* A report keeps the invariant of the job it is about.
LEMMA ReportInv ==
    ASSUME QueueInv, NEW c \in CommandId, NEW a \in Agent, NEW org, NEW report \in Report,
           ReportStatus(c, a, org, report)
    PROVE  JobInv(c)'
<1>1. JobInv(c) /\ steps[c] \in Steps
  BY Zenon DEF QueueInv, JobInv, JobsTypeOK
<1>2. steps'[c] = ReportedSteps(steps[c], report)
  BY Zenon DEF ReportStatus, QueueInv, JobsTypeOK
<1>3. status'[c] = DeriveJobStatus(steps'[c])
  BY <1>2, Zenon DEF ReportStatus, QueueInv, JobsTypeOK
<1>4. Durable(steps'[c]) = Durable(steps[c])
  BY <1>1, <1>2, ReportedDurable DEF ReportStatus, TransitionAccepted
<1>5. status'[c] \in Reportable
  BY <1>3, DeriveType, Zenon
<1>6. status[c] # "none"
  BY DEF ReportStatus, Selected
<1>7. status'[c] # "none" /\ status'[c] \notin Unclaimed
  BY <1>5, Zenon DEF Reportable, Terminal, Unclaimed
<1>8. \A r \in Requests : r.commandId = c => Durable(r.steps) = Durable(steps'[c])
  BY <1>1, <1>4, <1>6, Zenon DEF JobInv
<1> QED
  BY <1>3, <1>7, <1>8, Zenon DEF JobInv, Durable, DeriveJobStatus

\* Every step of the queue keeps the inductive invariant.
LEMMA QueueInvStep ==
    ASSUME StableSteps, FreshSteps, QueueInv, [JobsNext]_jobVars
    PROVE  QueueInv'
<1>1. JobsTypeOK'
  BY NextType DEF QueueInv
<1>2. ASSUME NEW c \in CommandId PROVE JobInv(c)'
  <2>0. JobInv(c)
    BY DEF QueueInv, JobInv
  <2>1. ASSUME NEW r \in Requests, Project(r) PROVE JobInv(c)'
    <3>1. CASE c = r.commandId
      BY <2>1, <3>1, ProjectInv
    <3>2. CASE c # r.commandId
      <4>1. status'[c] = status[c] /\ steps'[c] = steps[c]
        BY <2>1, <3>2 DEF Project, QueueInv, JobsTypeOK
      <4> QED
        BY <2>0, <4>1, JobInvUnchanged, Zenon
    <3> QED
      BY <3>1, <3>2
  <2>2. ASSUME NEW a \in Agent, NEW claimed \in SUBSET CommandId, Claim(a, claimed)
        PROVE  JobInv(c)'
    BY <2>2, ClaimInv
  <2>3. ASSUME NEW d \in CommandId, NEW a \in Agent, NEW org, NEW report \in Report,
               ReportStatus(d, a, org, report)
        PROVE  JobInv(c)'
    <3>1. CASE c = d
      BY <2>3, <3>1, ReportInv
    <3>2. CASE c # d
      <4>1. status'[c] = status[c] /\ steps'[c] = steps[c]
        BY <2>3, <3>2 DEF ReportStatus, QueueInv, JobsTypeOK
      <4> QED
        BY <2>0, <4>1, JobInvUnchanged, Zenon
    <3> QED
      BY <3>1, <3>2
  <2>4. CASE UNCHANGED jobVars
    BY <2>0, <2>4, JobInvUnchanged DEF jobVars
  <2> QED
    BY <2>1, <2>2, <2>3, <2>4, Zenon DEF JobsNext
<1> QED
  BY <1>1, <1>2, Zenon DEF QueueInv, JobInv

\* When all events for a command name the same steps, the step rows of a job
\* are fixed by its first projection and its status is derived from them.
THEOREM QueueInvariant == StableSteps /\ FreshSteps => (JobsSpec => []QueueInv)
<1> SUFFICES ASSUME StableSteps, FreshSteps PROVE JobsSpec => []QueueInv
  OBVIOUS
<1>1. JobsInit => QueueInv
  <2>1. JobsInit => \A c \in CommandId : status[c] = "none" /\ steps[c] = NoSteps
    BY DEF JobsInit
  <2>2. "none" \notin Unclaimed /\ "none" \notin Reportable
    BY DEF Unclaimed, Reportable, Terminal
  <2> QED
    BY <2>1, <2>2, InitType DEF QueueInv, Claimed
<1>2. QueueInv /\ [JobsNext]_jobVars => QueueInv'
  BY QueueInvStep
<1> QED
  BY <1>1, <1>2, PTL DEF JobsSpec

\* A claimed job is running until each of its steps is terminal, and then has
\* the status its steps add up to.
THEOREM StatusAgrees == StableSteps /\ FreshSteps => (JobsSpec => []JobAgreesWithSteps)
<1> SUFFICES ASSUME StableSteps, FreshSteps PROVE JobsSpec => []JobAgreesWithSteps
  OBVIOUS
<1>1. JobsSpec => []QueueInv
  BY QueueInvariant
<1>2. QueueInv => JobAgreesWithSteps
  BY Zenon DEF QueueInv, JobAgreesWithSteps
<1> QED
  BY <1>1, <1>2, PTL

\* No step changes a job that has ended.
LEMMA TerminalFrozenStep ==
    ASSUME QueueInv, [JobsNext]_jobVars, NEW c \in CommandId, status[c] \in Terminal
    PROVE  status'[c] = status[c] /\ steps'[c] = steps[c]
<1>1. Claimed(c) /\ status[c] = DeriveJobStatus(steps[c])
  BY DEF QueueInv, Claimed, Reportable
<1>2. \A i \in Durable(steps[c]) : steps[c][i].status \in Terminal
  BY <1>1, DeriveTerminal
<1>3. ASSUME NEW r \in Requests, Project(r)
      PROVE  status'[c] = status[c] /\ steps'[c] = steps[c]
  <2>1. CASE c = r.commandId
    <3>1. Durable(r.steps) = Durable(steps[c])
      BY <2>1 DEF QueueInv, Terminal
    <3>2. MergedSteps(c, r) = steps[c]
      BY <1>1, <3>1, MergeIdempotent DEF QueueInv
    <3> QED
      BY <1>1, <1>3, <2>1, <3>2, Zenon DEF Project, QueueInv, JobsTypeOK
  <2>2. CASE c # r.commandId
    BY <1>3, <2>2, Zenon DEF Project, QueueInv, JobsTypeOK
  <2> QED
    BY <2>1, <2>2, Zenon
<1>4. ASSUME NEW a \in Agent, NEW claimed \in SUBSET CommandId, Claim(a, claimed)
      PROVE  status'[c] = status[c] /\ steps'[c] = steps[c]
  BY <1>4 DEF Claim, Claimable, Terminal
<1>5. ASSUME NEW d \in CommandId, NEW a \in Agent, NEW org, NEW report \in Report,
             ReportStatus(d, a, org, report)
      PROVE  status'[c] = status[c] /\ steps'[c] = steps[c]
  <2>1. CASE c = d
    <3>1. ReportedSteps(steps[c], report) = steps[c]
      BY <1>2, <1>5, <2>1, ReportIdempotent, Zenon
         DEF ReportStatus, TransitionAccepted, QueueInv, JobsTypeOK
    <3> QED
      BY <1>1, <1>5, <2>1, <3>1 DEF ReportStatus, QueueInv, JobsTypeOK
  <2>2. CASE c # d
    BY <1>5, <2>2 DEF ReportStatus, QueueInv, JobsTypeOK
  <2> QED
    BY <2>1, <2>2, Zenon
<1>6. CASE UNCHANGED jobVars
  BY <1>6 DEF jobVars
<1> QED
  BY <1>3, <1>4, <1>5, <1>6, Zenon DEF JobsNext

\* Nothing changes the status or a step of a job that has ended.
THEOREM EndedIsFrozen == StableSteps /\ FreshSteps => (JobsSpec => TerminalFrozen)
<1> SUFFICES ASSUME StableSteps, FreshSteps PROVE JobsSpec => TerminalFrozen
  OBVIOUS
<1>1. JobsSpec => []QueueInv
  BY QueueInvariant
<1>2. QueueInv /\ [JobsNext]_jobVars =>
        [\A c \in CommandId : status[c] \in Terminal =>
            status'[c] = status[c] /\ steps'[c] = steps[c]]_jobVars
  BY TerminalFrozenStep
<1> QED
  BY <1>1, <1>2, PTL DEF JobsSpec, TerminalFrozen

--------------------------------------------------------------------------------
(* The queue implements JobLifecycle                                       *)

\* The refinement mapping, as in the instance Lifecycle.
Phase == [c \in CommandId |-> IF status[c] \in Unclaimed THEN "waiting" ELSE status[c]]

\* A projection submits the command or changes no phase.
LEMMA ProjectRefines ==
    ASSUME QueueInv, NEW r \in Requests, Project(r)
    PROVE  \/ Phase' = Phase
           \/ /\ r.commandId \in CommandId
              /\ Phase[r.commandId] = "none"
              /\ Phase' = [Phase EXCEPT ![r.commandId] = "waiting"]
<1> DEFINE c == r.commandId
<1>1. c \in CommandId
  BY RequestsAssumption DEF Request
<1>2. CASE Claimed(c)
  BY <1>2, Zenon DEF Project, Phase
<1>3. CASE ~Claimed(c)
  <2>1. status' = [status EXCEPT ![c] = status'[c]] /\ status'[c] \in Unclaimed
    BY <1>1, <1>3 DEF Project, Unclaimed, QueueInv, JobsTypeOK
  <2>2. Phase' = [Phase EXCEPT ![c] = "waiting"]
    BY <1>1, <2>1, Zenon DEF Phase, QueueInv, JobsTypeOK
  <2>3. CASE status[c] = "none"
    BY <1>1, <2>2, <2>3 DEF Phase, Unclaimed
  <2>4. CASE status[c] \in Unclaimed
    BY <1>1, <2>2, <2>4 DEF Phase
  <2> QED
    BY <1>1, <1>3, <2>3, <2>4, Zenon DEF QueueInv, JobsTypeOK, JobStatus, Claimed
<1> QED
  BY <1>2, <1>3

\* A claim dispatches the commands it takes.
LEMMA ClaimRefines ==
    ASSUME QueueInv, NEW a \in Agent, NEW claimed \in SUBSET CommandId, Claim(a, claimed)
    PROVE  /\ \A c \in claimed : Phase[c] = "waiting"
           /\ Phase' = [c \in CommandId |-> IF c \in claimed THEN "running" ELSE Phase[c]]
<1>1. \A c \in claimed : status[c] = "queued"
  BY DEF Claim, Claimable
<1>2. \A c \in CommandId : status'[c] = IF c \in claimed THEN "running" ELSE status[c]
  BY DEF Claim
<1> QED
  BY <1>1, <1>2 DEF Phase, Unclaimed

\* A report finishes the command or changes no phase.
LEMMA ReportRefines ==
    ASSUME QueueInv, NEW c \in CommandId, NEW a \in Agent, NEW org \in Org \cup {AnyOrg},
           NEW report \in Report, ReportStatus(c, a, org, report)
    PROVE  \/ Phase' = Phase
           \/ /\ Phase[c] = "running"
              /\ \E end \in Terminal : Phase' = [Phase EXCEPT ![c] = end]
<1>1. status' = [status EXCEPT ![c] = status'[c]] /\ status'[c] \in Reportable
  BY DeriveType DEF ReportStatus, QueueInv, JobsTypeOK
<1>2. status[c] \in Reportable
  BY DEF ReportStatus, TransitionAccepted, Report, Reportable
<1>3. CASE status[c] \in Terminal
  <2>1. status'[c] = status[c]
    BY <1>3, TerminalFrozenStep, Zenon DEF JobsNext
  <2> QED
    BY <1>1, <2>1, ZenonT(30) DEF Phase, QueueInv, JobsTypeOK
<1>4. CASE status[c] = "running" /\ status'[c] = "running"
  <2>1. \A d \in CommandId : status'[d] = status[d]
    BY <1>1, <1>4 DEF QueueInv, JobsTypeOK
  <2> QED
    BY <2>1, Zenon DEF Phase
<1>5. CASE status[c] = "running" /\ status'[c] \in Terminal
  <2>1. Phase[c] = "running" /\ status'[c] \notin Unclaimed
    BY <1>5 DEF Phase, Unclaimed, Terminal
  <2>2. Phase' = [Phase EXCEPT ![c] = status'[c]]
    BY <1>1, <2>1, Zenon DEF Phase, QueueInv, JobsTypeOK
  <2> QED
    BY <1>5, <2>1, <2>2, Zenon
<1> QED
  BY <1>1, <1>2, <1>3, <1>4, <1>5, Zenon DEF Reportable

\* Every step of the queue is a step of the lifecycle, or none.
LEMMA NextRefines ==
    ASSUME QueueInv, [JobsNext]_jobVars
    PROVE  [Lifecycle!Next]_Phase
<1>1. ASSUME NEW r \in Requests, Project(r) PROVE [Lifecycle!Next]_Phase
  BY <1>1, ProjectRefines, Zenon DEF Lifecycle!Next, Lifecycle!Submit, Phase
<1>2. ASSUME NEW a \in Agent, NEW claimed \in SUBSET CommandId, Claim(a, claimed)
      PROVE  [Lifecycle!Next]_Phase
  BY <1>2, ClaimRefines DEF Lifecycle!Next, Lifecycle!Dispatch, Phase
<1>3. ASSUME NEW c \in CommandId, NEW a \in Agent, NEW org \in Org \cup {AnyOrg},
             NEW report \in Report, ReportStatus(c, a, org, report)
      PROVE  [Lifecycle!Next]_Phase
  BY <1>3, ReportRefines, Zenon DEF Lifecycle!Next, Lifecycle!Finish, Lifecycle!Ended, Terminal, Phase
<1>4. CASE UNCHANGED jobVars
  BY <1>4 DEF jobVars, Phase
<1> QED
  BY <1>1, <1>2, <1>3, <1>4 DEF JobsNext

\* A command waits, is dispatched at most once and then ends at most once and
\* for good, for any number of commands, agents, redeliveries and reports, as
\* long as all events for a command name the same steps.
THEOREM LifecycleImplemented ==
    StableSteps /\ FreshSteps => (JobsSpec => ImplementsLifecycle)
<1> SUFFICES ASSUME StableSteps, FreshSteps PROVE JobsSpec => ImplementsLifecycle
  OBVIOUS
<1>1. JobsSpec => []QueueInv
  BY QueueInvariant
<1>2. JobsInit => Lifecycle!Init
  BY DEF JobsInit, Lifecycle!Init, Unclaimed
<1>3. QueueInv /\ [JobsNext]_jobVars => [Lifecycle!Next]_Phase
  BY NextRefines
<1> QED
  BY <1>1, <1>2, <1>3, PTL DEF JobsSpec, ImplementsLifecycle, Lifecycle!Spec, Phase

--------------------------------------------------------------------------------
(* The inductive invariant                                                 *)

UpdateOf(m, c) == m.type = "update" /\ m.command = c
Brings(response, c) == \E job \in response.jobs : job.command = c

\* In a channel to the server the terminal report of a command is its last one.
LastWord(s, c) ==
    \A i, j \in DOMAIN s :
        UpdateOf(s[i], c) /\ s[i].report.status \in Terminal /\ UpdateOf(s[j], c) => j <= i

\* A channel to the worker brings a command at most once.
BringsOnce(s, c) ==
    \A i, j \in DOMAIN s : Brings(s[i], c) /\ Brings(s[j], c) => i = j

Carries(k, c) == \E j \in DOMAIN toWorker[k] : Brings(toWorker[k][j], c)
Holds(k, c) == Busy(k) /\ manager[k].job.command = c
Reports(k, c) == \E j \in DOMAIN toServer[k] : UpdateOf(toServer[k][j], c)
Involved(k, c) == Carries(k, c) \/ Holds(k, c) \/ Reports(k, c)

\* A command is involved with at most one link, one of the agent it belongs to,
\* and only while its job is running.
Located(c) ==
    /\ \A k \in Link : Involved(k, c) =>
          /\ status[c] = "running"
          /\ owner[c].agent = k[1] /\ owner[c].intent # PatchIntent
          /\ Durable(steps[c]) # {}
    /\ \A k, l \in Link : Involved(k, c) /\ Involved(l, c) => k = l

\* A job on its way to the worker is the stored one, comes once, and none of its
\* steps has been started.
Carried(c) ==
    \A k \in Link :
        /\ BringsOnce(toWorker[k], c)
        /\ Carries(k, c) => /\ ~Holds(k, c) /\ ~Reports(k, c)
                            /\ \A i \in StepIndex : ran[c][i] = "never"
        /\ \A j \in DOMAIN toWorker[k] : \A job \in toWorker[k][j].jobs :
              job.command = c => job = DispatchedJob(c)

\* What a manager knows of its job is what happened on the device.  A step it
\* passed over without an outcome comes after one that failed.
Progress(m, c) ==
    /\ m.job = DispatchedJob(c)
    /\ m.left \subseteq Durable(steps[c])
    /\ \A i \in StepIndex :
          IF m.outcome[i] # "unreported"
          THEN i \in Durable(steps[c]) \ m.left /\ ran[c][i] = m.outcome[i]
          ELSE ran[c][i] = IF m.phase = "executing" /\ First(i, m.left)
                           THEN "started" ELSE "never"
    /\ (\E i \in Durable(steps[c]) \ m.left : m.outcome[i] = "unreported") =>
          m.left = {} /\ \E i \in StepIndex : m.outcome[i] = "failed"

Held(c) ==
    \A k \in Link : Holds(k, c) =>
        /\ Progress(manager[k], c)
        /\ \A j \in DOMAIN toServer[k] :
              UpdateOf(toServer[k][j], c) => toServer[k][j].report.status = "running"

\* A report speaks of a step that was started, or of the outcome of each step.
TrueOutcome(c, outcome) ==
    /\ \A i \in StepIndex : outcome[i] # "unreported" => i \in Durable(steps[c])
    /\ \A i \in Durable(steps[c]) :
          ran[c][i] = IF outcome[i] = "unreported" THEN "never" ELSE outcome[i]

TrueReport(c, report) ==
    /\ report.step \in Durable(steps[c])
    /\ \/ report.status = "running" /\ ran[c][report.step] # "never"
       \/ /\ report.status \in {"completed", "failed"}
          /\ report.evidence.kind = "aggregate"
          /\ report.evidence.steps[report.step] # "unreported"
          /\ TrueOutcome(c, report.evidence.steps)
          /\ report.status = "completed"
                <=> \A i \in Durable(steps[c]) : report.evidence.steps[i] = "completed"
          /\ report.status = "failed"
                <=> \E i \in StepIndex : report.evidence.steps[i] = "failed"

Reported(c) ==
    \A k \in Link :
        /\ LastWord(toServer[k], c)
        /\ \A j \in DOMAIN toServer[k] :
              UpdateOf(toServer[k][j], c) => TrueReport(c, toServer[k][j].report)

\* The rows of a job and what happened to its steps on the device.
Recorded(c) ==
    /\ \A i \in StepIndex : starts[c][i] <= 1 /\ (ran[c][i] = "never" => starts[c][i] = 0)
    /\ ~Claimed(c) => \A i \in StepIndex : ran[c][i] = "never"
    /\ status[c] = "running" => \A i \in Durable(steps[c]) :
          /\ steps[c][i].status \in {"pending", "running"}
          /\ steps[c][i].status = "running" => ran[c][i] # "never"
    /\ status[c] \in Terminal => \A i \in Durable(steps[c]) :
          steps[c][i].status = IF ran[c][i] = "never" THEN "cancelled" ELSE ran[c][i]

CommandInv(c) == Located(c) /\ Carried(c) /\ Held(c) /\ Reported(c) /\ Recorded(c)

DispatchInv ==
    /\ TypeOK
    /\ QueueInv
    /\ \A c \in CommandId : CommandInv(c)

--------------------------------------------------------------------------------
(* Records and channels                                                    *)

\* The step a manager is at is determined by the steps it has left.
LEMMA FirstUnique ==
    ASSUME NEW S \in SUBSET StepIndex, NEW i, NEW j, First(i, S), First(j, S)
    PROVE  i = j
BY StepsAssumption DEF First

\* What the fields of a manager hold, phase by phase.
LEMMA ManagerFields ==
    ASSUME NEW m \in Manager
    PROVE  /\ m.phase \in {"off", "idle", "polling", "running", "executing"}
           /\ m.phase = "polling" => m.request \in RequestId
           /\ m.phase \in {"running", "executing"} =>
                 m.job \in Job /\ m.left \in SUBSET StepIndex /\ m.outcome \in Outcomes
           /\ m.phase = "executing" => m.attempt \in Nat
BY ZenonT(30) DEF Manager

\* The phases of a manager are managers.
LEMMA ManagerType ==
    /\ Off \in Manager /\ Idle \in Manager
    /\ \A id \in RequestId : Polling(id) \in Manager
    /\ \A job \in Job, left \in SUBSET StepIndex, outcome \in Outcomes :
          /\ Running(job, left, outcome) \in Manager
          /\ \A n \in Nat : Executing(job, left, outcome, n) \in Manager
BY ZenonT(30) DEF Manager, Off, Idle, Polling, Running, Executing

\* A manager without a job.
LEMMA RestingPhase ==
    Off.phase = "off" /\ Idle.phase = "idle" /\ \A id : Polling(id).phase = "polling"
BY DEF Off, Idle, Polling

\* A job names a command, a policy and the work of some steps.
LEMMA JobFields ==
    ASSUME NEW job \in Job
    PROVE  job.command \in CommandId /\ job.policy \in Policy /\ DOMAIN job.work \in SUBSET StepIndex
<1>1. job.work \in UNION {[S -> Command \cup {NoCommand}] : S \in SUBSET StepIndex}
  BY DEF Job
<1> QED
  BY <1>1 DEF Job

\* A message to the server is a poll or a status update.
LEMMA MessageFields ==
    ASSUME NEW m \in Message
    PROVE  /\ m.type \in {"poll", "update"}
           /\ m.type = "poll" => m.request \in RequestId
           /\ m.type = "update" => m.command \in CommandId /\ m.report \in Report
BY Zenon DEF Message

\* The job a claim hands out is the stored one.
LEMMA DispatchedType ==
    ASSUME JobsTypeOK, NEW c \in CommandId
    PROVE  /\ DispatchedJob(c) \in Job
           /\ DispatchedJob(c).command = c /\ DispatchedJob(c).policy = policy[c]
           /\ DOMAIN DispatchedJob(c).work = Durable(steps[c])
<1>1. Durable(steps[c]) \in SUBSET StepIndex
  BY DEF Durable
<1>2. [i \in Durable(steps[c]) |-> steps[c][i].command]
        \in [Durable(steps[c]) -> Command \cup {NoCommand}]
  BY <1>1 DEF JobsTypeOK, Steps, Step
<1> QED
  BY <1>1, <1>2, Zenon DEF DispatchedJob, Job, JobsTypeOK

\* The messages in a channel.
LEMMA InChannel ==
    ASSUME NEW S, NEW s \in Seq(S)
    PROVE  DOMAIN s = 1..Len(s) /\ Len(s) \in Nat /\ \A j \in DOMAIN s : s[j] \in S
OBVIOUS

\* Taking the first message off a channel.
LEMMA TailChannel ==
    ASSUME NEW S, NEW s \in Seq(S), s # <<>>
    PROVE  /\ 1 \in DOMAIN s /\ Head(s) = s[1] /\ s[1] \in S
           /\ Tail(s) \in Seq(S)
           /\ \A j \in DOMAIN Tail(s) :
                 /\ j \in Nat /\ j + 1 \in DOMAIN s /\ Tail(s)[j] = s[j + 1]
                 /\ j + 1 # 1 /\ ~(j + 1 <= 1)
OBVIOUS

\* Putting a message at the end of a channel.
LEMMA AppendChannel ==
    ASSUME NEW S, NEW s \in Seq(S), NEW m \in S
    PROVE  /\ Append(s, m) \in Seq(S)
           /\ DOMAIN s = 1..Len(s) /\ Len(s) \in Nat
           /\ DOMAIN Append(s, m) = 1..(Len(s) + 1)
           /\ \A j \in DOMAIN s : Append(s, m)[j] = s[j]
           /\ Append(s, m)[Len(s) + 1] = m
OBVIOUS

\* The part of a channel that still arrives when its link breaks.
LEMMA PrefixChannel ==
    ASSUME NEW S, NEW s \in Seq(S), NEW t \in Beginnings(s)
    PROVE  /\ t \in Seq(S)
           /\ \A j \in DOMAIN t : j \in DOMAIN s /\ t[j] = s[j]
<1>1. PICK l \in 0..Len(s) : t = SubSeq(s, 1, l)
  BY DEF Beginnings
<1>2. Len(s) \in Nat /\ \A i \in 1..l : s[i] \in S
  BY InChannel
<1>3. t \in Seq(S) /\ Len(t) = l /\ \A i \in 1..l : t[i] = s[i]
  BY <1>1, <1>2
<1> QED
  BY <1>2, <1>3, InChannel

--------------------------------------------------------------------------------
(* Steps in which a command makes no progress                              *)

\* As far as command c goes, channel t holds no more than channel s did.
FewerReports(s, t, c) ==
    /\ \A j \in DOMAIN t : UpdateOf(t[j], c) => \E i \in DOMAIN s : s[i] = t[j]
    /\ LastWord(s, c) => LastWord(t, c)

FewerJobs(s, t, c) ==
    /\ \A j \in DOMAIN t : Brings(t[j], c) => \E i \in DOMAIN s : s[i] = t[j]
    /\ BringsOnce(s, c) => BringsOnce(t, c)

RowsUnchanged(c) ==
    /\ status'[c] = status[c] /\ owner'[c] = owner[c]
    /\ policy'[c] = policy[c] /\ steps'[c] = steps[c]

\* Of the rows of c at most the statuses of its steps change.
WorkUnchanged(c) ==
    /\ status'[c] = status[c] /\ owner'[c] = owner[c]
    /\ DispatchedJob(c)' = DispatchedJob(c) /\ Durable(steps[c])' = Durable(steps[c])

\* A step that leaves the history of c alone, lets no new message about it out,
\* and lets no manager begin or advance it.
Recedes(c) ==
    /\ ran'[c] = ran[c] /\ starts'[c] = starts[c]
    /\ \A k \in Link :
          /\ FewerReports(toServer[k], toServer'[k], c)
          /\ FewerJobs(toWorker[k], toWorker'[k], c)
          /\ Holds(k, c)' => manager'[k] = manager[k]

Shrinks(c) == RowsUnchanged(c) /\ Recedes(c)

\* A message handled, or one that is no report on c sent, leaves a channel to
\* the server with no more reports on c.
LEMMA ReportsShrink ==
    ASSUME NEW s \in Seq(Message), NEW c
    PROVE  /\ FewerReports(s, s, c)
           /\ FewerReports(s, <<>>, c)
           /\ s # <<>> => FewerReports(s, Tail(s), c)
           /\ \A m \in Message : ~UpdateOf(m, c) => FewerReports(s, Append(s, m), c)
<1>1. FewerReports(s, s, c) /\ FewerReports(s, <<>>, c)
  BY DEF FewerReports, LastWord
<1>2. ASSUME s # <<>> PROVE FewerReports(s, Tail(s), c)
  <2>1. \A j \in DOMAIN Tail(s) : j \in Nat /\ j + 1 \in DOMAIN s /\ Tail(s)[j] = s[j + 1]
    BY <1>2, TailChannel
  <2>2. LastWord(s, c) => LastWord(Tail(s), c)
    <3> SUFFICES ASSUME LastWord(s, c), NEW i \in DOMAIN Tail(s), NEW j \in DOMAIN Tail(s),
                        UpdateOf(Tail(s)[i], c), Tail(s)[i].report.status \in Terminal,
                        UpdateOf(Tail(s)[j], c)
                 PROVE  j <= i
      BY Zenon DEF LastWord
    <3>1. j + 1 <= i + 1
      BY <2>1, ZenonT(30) DEF LastWord
    <3> QED
      BY <2>1, <3>1
  <2> QED
    BY <2>1, <2>2 DEF FewerReports
<1>3. ASSUME NEW m \in Message, ~UpdateOf(m, c) PROVE FewerReports(s, Append(s, m), c)
  <2>1. /\ DOMAIN s = 1..Len(s) /\ Len(s) \in Nat
        /\ DOMAIN Append(s, m) = 1..(Len(s) + 1)
        /\ \A j \in DOMAIN s : Append(s, m)[j] = s[j]
        /\ Append(s, m)[Len(s) + 1] = m
    BY AppendChannel
  <2>2. ASSUME NEW j \in DOMAIN Append(s, m), UpdateOf(Append(s, m)[j], c)
        PROVE  j \in DOMAIN s /\ Append(s, m)[j] = s[j]
    BY <1>3, <2>1, <2>2
  <2> QED
    BY <2>2 DEF FewerReports, LastWord
<1> QED
  BY <1>1, <1>2, <1>3, Zenon

\* A response received, lost, or sent without c, leaves a channel to the worker
\* with no more jobs of c.
LEMMA JobsShrink ==
    ASSUME NEW s \in Seq(Response), NEW c
    PROVE  /\ FewerJobs(s, s, c)
           /\ FewerJobs(s, <<>>, c)
           /\ s # <<>> => FewerJobs(s, Tail(s), c)
           /\ \A t \in Beginnings(s) : FewerJobs(s, t, c)
           /\ \A m \in Response : ~Brings(m, c) => FewerJobs(s, Append(s, m), c)
<1>1. FewerJobs(s, s, c) /\ FewerJobs(s, <<>>, c)
  BY DEF FewerJobs, BringsOnce
<1>2. ASSUME s # <<>> PROVE FewerJobs(s, Tail(s), c)
  <2>1. \A j \in DOMAIN Tail(s) : j \in Nat /\ j + 1 \in DOMAIN s /\ Tail(s)[j] = s[j + 1]
    BY <1>2, TailChannel
  <2>2. BringsOnce(s, c) => BringsOnce(Tail(s), c)
    <3> SUFFICES ASSUME BringsOnce(s, c), NEW i \in DOMAIN Tail(s), NEW j \in DOMAIN Tail(s),
                        Brings(Tail(s)[i], c), Brings(Tail(s)[j], c)
                 PROVE  i = j
      BY DEF BringsOnce
    <3>1. i + 1 = j + 1
      BY <2>1 DEF BringsOnce
    <3> QED
      BY <2>1, <3>1
  <2> QED
    BY <2>1, <2>2 DEF FewerJobs
<1>3. ASSUME NEW t \in Beginnings(s) PROVE FewerJobs(s, t, c)
  <2>1. \A j \in DOMAIN t : j \in DOMAIN s /\ t[j] = s[j]
    BY <1>3, PrefixChannel
  <2> QED
    BY <2>1 DEF FewerJobs, BringsOnce
<1>4. ASSUME NEW m \in Response, ~Brings(m, c) PROVE FewerJobs(s, Append(s, m), c)
  <2>1. /\ DOMAIN s = 1..Len(s) /\ Len(s) \in Nat
        /\ DOMAIN Append(s, m) = 1..(Len(s) + 1)
        /\ \A j \in DOMAIN s : Append(s, m)[j] = s[j]
        /\ Append(s, m)[Len(s) + 1] = m
    BY AppendChannel
  <2>2. ASSUME NEW j \in DOMAIN Append(s, m), Brings(Append(s, m)[j], c)
        PROVE  j \in DOMAIN s /\ Append(s, m)[j] = s[j]
    BY <1>4, <2>1, <2>2
  <2> QED
    BY <2>2 DEF FewerJobs, BringsOnce
<1> QED
  BY <1>1, <1>2, <1>3, <1>4

\* Where the device makes no progress with c, all that is known of its place,
\* its holder and its reports stays true.
LEMMA PlacesKept ==
    ASSUME NEW c \in CommandId, CommandInv(c), WorkUnchanged(c), Recedes(c)
    PROVE  Located(c)' /\ Carried(c)' /\ Held(c)' /\ Reported(c)'
<1>1. DispatchedJob(c)' = DispatchedJob(c) /\ Durable(steps[c])' = Durable(steps[c])
  BY ZenonT(30) DEF WorkUnchanged
<1>2. ASSUME NEW k \in Link
      PROVE  /\ Carries(k, c)' => Carries(k, c)
             /\ Reports(k, c)' => Reports(k, c)
             /\ Holds(k, c)' => Holds(k, c) /\ manager'[k] = manager[k]
  BY Zenon DEF Recedes, Carries, Reports, Holds, Busy, FewerReports, FewerJobs
<1>3. Located(c)'
  BY <1>2, Zenon DEF CommandInv, Located, Involved, WorkUnchanged
<1>4. Carried(c)'
  <2> SUFFICES ASSUME NEW k \in Link
               PROVE  /\ BringsOnce(toWorker[k], c)'
                      /\ Carries(k, c)' => /\ ~Holds(k, c)' /\ ~Reports(k, c)'
                                           /\ \A i \in StepIndex : ran'[c][i] = "never"
                      /\ \A j \in DOMAIN toWorker'[k] : \A job \in toWorker'[k][j].jobs :
                            job.command = c => job = DispatchedJob(c)'
    BY Zenon DEF Carried
  <2>1. BringsOnce(toWorker[k], c)'
    BY Zenon DEF CommandInv, Carried, Recedes, FewerJobs
  <2>2. Carries(k, c)' => /\ ~Holds(k, c)' /\ ~Reports(k, c)'
                          /\ \A i \in StepIndex : ran'[c][i] = "never"
    BY <1>2, Zenon DEF CommandInv, Carried, Recedes
  <2>3. ASSUME NEW j \in DOMAIN toWorker'[k], NEW job \in toWorker'[k][j].jobs, job.command = c
        PROVE  job = DispatchedJob(c)'
    <3>1. PICK i \in DOMAIN toWorker[k] : toWorker[k][i] = toWorker'[k][j]
      BY <2>3, Zenon DEF Recedes, FewerJobs, Brings
    <3> QED
      BY <1>1, <2>3, <3>1, Zenon DEF CommandInv, Carried
  <2> QED
    BY <2>1, <2>2, <2>3, Zenon
<1>5. Held(c)'
  <2> SUFFICES ASSUME NEW k \in Link, Holds(k, c)'
               PROVE  /\ Progress(manager[k], c)'
                      /\ \A j \in DOMAIN toServer'[k] : UpdateOf(toServer'[k][j], c)
                            => toServer'[k][j].report.status = "running"
    BY Zenon DEF Held
  <2>1. Holds(k, c) /\ manager'[k] = manager[k]
    BY <1>2, ZenonT(30)
  <2>2. Progress(manager[k], c)
    BY <2>1, Zenon DEF CommandInv, Held
  <2>3. Progress(manager[k], c)'
    BY <1>1, <2>1, <2>2, ZenonT(30) DEF Progress, Recedes
  <2>4. \A j \in DOMAIN toServer'[k] : UpdateOf(toServer'[k][j], c)
            => \E i \in DOMAIN toServer[k] : toServer[k][i] = toServer'[k][j]
    BY Zenon DEF Recedes, FewerReports
  <2>5. \A j \in DOMAIN toServer[k] : UpdateOf(toServer[k][j], c)
            => toServer[k][j].report.status = "running"
    BY <2>1, Zenon DEF CommandInv, Held
  <2> QED
    BY <2>3, <2>4, <2>5, Zenon
<1>6. Reported(c)'
  <2>1. \A report : TrueReport(c, report) => TrueReport(c, report)'
    BY <1>1, ZenonT(30) DEF TrueReport, TrueOutcome, Recedes
  <2> QED
    BY <2>1, Zenon DEF CommandInv, Reported, Recedes, FewerReports
<1> QED
  BY <1>3, <1>4, <1>5, <1>6, Zenon

\* A step in which c makes no progress keeps all that is known of it.
LEMMA ShrinkKeeps ==
    ASSUME NEW c \in CommandId, CommandInv(c), Shrinks(c)
    PROVE  CommandInv(c)'
<1>1. WorkUnchanged(c)
  BY Zenon DEF Shrinks, RowsUnchanged, WorkUnchanged, DispatchedJob, Durable
<1>2. Recorded(c)'
  BY ZenonT(30) DEF CommandInv, Recorded, Shrinks, Recedes, RowsUnchanged, Durable, Claimed
<1> QED
  BY <1>1, <1>2, PlacesKept DEF CommandInv, Shrinks

--------------------------------------------------------------------------------
(* The queue inside the whole                                              *)

\* A link belongs to an agent.
LEMMA LinkAgent == \A k \in Link : k[1] \in Agent
BY DEF Link

\* The report a server handles is the one the message carries.
LEMMA UpdateHandled ==
    ASSUME TypeOK, NEW k \in Link, Serves(k, "update")
    PROVE  Head(toServer[k]).command \in CommandId /\ Head(toServer[k]).report \in Report
<1>1. Head(toServer[k]) \in Message
  BY TailChannel DEF TypeOK, Serves
<1> QED
  BY <1>1, MessageFields DEF Serves

\* Whatever the consumer, the workers, the server and the network do, the rows
\* change only by the three routes of the API.
LEMMA QueueStep ==
    ASSUME TypeOK, [Next]_vars
    PROVE  [JobsNext]_jobVars
<1>1. CASE \E r \in Requests : Consume(r)
  BY <1>1 DEF Consume, JobsNext
<1>2. ASSUME NEW k \in Link, Manage(k) PROVE UNCHANGED jobVars
  BY <1>2, Zenon DEF Manage, Poll, Exit, PollTimeout, Receive, StartStep, EndAttempt, FinalReport,
              Abandon, Unreportable
<1>3. ASSUME NEW k \in Link, Serve(k) PROVE [JobsNext]_jobVars
  <2>1. ASSUME NEW c \in CommandId, ServePoll(k, c) \/ ServePollLost(k, c)
        PROVE  JobsNext
    BY <2>1, LinkAgent DEF ServePoll, ServePollLost, JobsNext
  <2>2. CASE ServePollNothing(k) \/ ServeUpdateLost(k)
    BY <2>2, Zenon DEF ServePollNothing, ServeUpdateLost
  <2>3. CASE ServeUpdate(k)
    <3>1. Head(toServer[k]).command \in CommandId /\ Head(toServer[k]).report \in Report
      BY <2>3, UpdateHandled DEF ServeUpdate
    <3>2. CASE ReportStatus(Head(toServer[k]).command, k[1], AnyOrg, Head(toServer[k]).report)
      BY <3>1, <3>2, LinkAgent, Zenon DEF JobsNext
    <3>3. CASE UNCHANGED jobVars
      BY <3>3, Zenon
    <3> QED
      BY <2>3, <3>2, <3>3, Zenon DEF ServeUpdate
  <2> QED
    BY <1>3, <2>1, <2>2, <2>3 DEF Serve
<1>4. ASSUME NEW k \in Link, Connect(k) \/ Break(k) \/ Notice(k) \/ SocketEnd(k)
      PROVE  UNCHANGED jobVars
  BY <1>4, Zenon DEF Connect, Break, Notice, SocketEnd
<1>5. ASSUME NEW a \in Agent, Crash(a) PROVE UNCHANGED jobVars
  BY <1>5 DEF Crash
<1>6. CASE UNCHANGED vars
  BY <1>6 DEF vars
<1> QED
  BY <1>1, <1>2, <1>3, <1>4, <1>5, <1>6 DEF Next

--------------------------------------------------------------------------------
(* Types                                                                   *)

\* A message a manager sends keeps its channel typed.
LEMMA SendType ==
    ASSUME TypeOK, NEW k \in Link, NEW m \in Message, Send(k, m)
    PROVE  toServer' \in [Link -> Seq(Message)]
<1>1. Append(toServer[k], m) \in Seq(Message)
  BY AppendChannel DEF TypeOK
<1> QED
  BY <1>1, Zenon DEF TypeOK, Send

\* The server takes the first message of one channel.
LEMMA ServesType ==
    ASSUME TypeOK, NEW k \in Link, NEW type, Serves(k, type)
    PROVE  /\ toServer' \in [Link -> Seq(Message)]
           /\ Head(toServer[k]) \in Message
           /\ toServer'[k] = Tail(toServer[k])
           /\ \A l \in Link : l # k => toServer'[l] = toServer[l]
<1>1. Tail(toServer[k]) \in Seq(Message) /\ Head(toServer[k]) \in Message
  <2>1. toServer[k] \in Seq(Message) /\ toServer[k] # <<>>
    BY Zenon DEF TypeOK, Serves
  <2> QED
    BY <2>1, TailChannel, Zenon
<1> QED
  BY <1>1 DEF TypeOK, Serves

\* The server answers on one channel, if the link is still open.
LEMMA RespondType ==
    ASSUME TypeOK, NEW k \in Link, Serves(k, "poll"),
           NEW jobs \in {js \in SUBSET Job : \A p, q \in js : p = q}, Respond(k, jobs)
    PROVE  /\ toWorker' \in [Link -> Seq(Response)]
           /\ [request |-> Head(toServer[k]).request, jobs |-> jobs] \in Response
           /\ \A l \in Link : l # k => toWorker'[l] = toWorker[l]
<1>1. Head(toServer[k]).request \in RequestId
  BY ServesType, MessageFields, Zenon DEF Serves
<1>2. [request |-> Head(toServer[k]).request, jobs |-> jobs] \in Response
  BY <1>1, Zenon DEF Response
<1>3. Append(toWorker[k], [request |-> Head(toServer[k]).request, jobs |-> jobs]) \in Seq(Response)
  BY <1>2, AppendChannel, Zenon DEF TypeOK
<1> QED
  BY <1>2, <1>3 DEF TypeOK, Respond

\* The next step of a job that is not finished is one of its steps.
LEMMA NextStep ==
    ASSUME TypeOK, NEW k \in Link, Busy(k)
    PROVE  /\ manager[k].job \in Job /\ manager[k].job.command \in CommandId
           /\ manager[k].left \in SUBSET StepIndex /\ manager[k].outcome \in Outcomes
           /\ \A i : First(i, manager[k].left) => i \in StepIndex
<1>1. manager[k] \in Manager
  BY DEF TypeOK
<1>2. /\ manager[k].job \in Job /\ manager[k].left \in SUBSET StepIndex
      /\ manager[k].outcome \in Outcomes
  BY <1>1, ManagerFields, Zenon DEF Busy
<1> QED
  BY <1>2 DEF Job, First

\* The report of FinalReport.
FinalOf(m, last) ==
    [status |-> IF \A i \in Executed(m) : m.outcome[i] = "completed" THEN "completed" ELSE "failed",
     step |-> last, evidence |-> Aggregate(m.outcome)]

\* The final report says completed or failed, names the last step executed, and
\* is complete: a step without an outcome was not started, and comes after one
\* that failed.
LEMMA FinalTrue ==
    ASSUME TypeOK, NEW k \in Link, NEW c \in CommandId, CommandInv(c), Holds(k, c),
           manager[k].phase = "running", manager[k].left = {},
           NEW last, Last(last, Executed(manager[k]))
    PROVE  FinalOf(manager[k], last) \in Report /\ TrueReport(c, FinalOf(manager[k], last))
<1> DEFINE m == manager[k]
<1>1. /\ m.outcome \in Outcomes /\ Progress(m, c) /\ Durable(steps[c]) # {}
      /\ Durable(steps[c]) \subseteq StepIndex
  BY NextStep, ZenonT(30) DEF Holds, CommandInv, Located, Held, Involved, Durable
<1>2. ran[c] \in [StepIndex -> {"never", "started", "completed", "failed"}]
  BY DEF TypeOK
<1>3. \A i \in StepIndex : m.outcome[i] \in {"unreported", "completed", "failed"}
  BY <1>1, <1>2, Zenon DEF Progress, Outcomes, Terminal
<1>4. last \in StepIndex /\ m.outcome[last] # "unreported"
  BY DEF Last, Executed
<1>6. Aggregate(m.outcome) \in Evidence
  BY <1>1, Zenon DEF Aggregate, Evidence
<1>7. FinalOf(m, last) \in Report
  BY <1>4, <1>6, Zenon DEF FinalOf, Report, Reportable, Terminal
<1>8. TrueOutcome(c, m.outcome)
  BY <1>1, Zenon DEF Progress, TrueOutcome
<1>9. (\A i \in Executed(m) : m.outcome[i] = "completed")
        <=> (\A i \in Durable(steps[c]) : m.outcome[i] = "completed")
  BY <1>1, <1>3, Zenon DEF Progress, Executed
<1>10. ~(\A i \in Executed(m) : m.outcome[i] = "completed")
         <=> (\E i \in StepIndex : m.outcome[i] = "failed")
  BY <1>3, Zenon DEF Executed
<1>11. last \in Durable(steps[c])
  BY <1>1, <1>4, Zenon DEF Progress
<1>12. TrueReport(c, FinalOf(m, last))
  BY <1>4, <1>8, <1>9, <1>10, <1>11, Zenon DEF TrueReport, FinalOf, Aggregate
<1> QED
  BY <1>7, <1>12

\* No step of a manager spoils a type.
LEMMA ManageType ==
    ASSUME TypeOK, NEW k \in Link, \A c \in CommandId : CommandInv(c), Manage(k)
    PROVE  TypeOK'
<1>1. JobsTypeOK'
  BY QueueStep, NextType, Zenon DEF TypeOK, Next
<1> USE DEF Becomes
<1>2. CASE Poll(k)
  <2>1. PICK id \in RequestId :
           Send(k, Poller(id)) /\ manager' = [manager EXCEPT ![k] = Polling(id)]
    BY <1>2, Zenon DEF Poll
  <2>2. Poller(id) \in Message
    BY DEF Poller, Message
  <2>4. toServer' \in [Link -> Seq(Message)]
    BY <2>1, <2>2, SendType, Zenon
  <2>5. manager' \in [Link -> Manager]
    BY <2>1, ManagerType DEF TypeOK
  <2> QED
    BY <1>1, <1>2, <2>4, <2>5 DEF Poll, TypeOK
<1>3. CASE Exit(k) \/ Abandon(k)
  BY <1>1, <1>3, ManagerType, Zenon DEF Exit, Abandon, TypeOK, channelVars
<1>4. CASE PollTimeout(k) \/ Unreportable(k)
  <2>1. faults' \in 0..MaxFaults
    BY <1>4, BoundsAssumption DEF PollTimeout, Unreportable, TypeOK
  <2>2. manager' \in [Link -> Manager]
    BY <1>4, ManagerType, Zenon DEF PollTimeout, Unreportable, TypeOK
  <2> QED
    BY <1>1, <1>4, <2>1, <2>2, Zenon DEF PollTimeout, Unreportable, TypeOK, channelVars
<1>5. CASE Receive(k)
  <2> DEFINE response == Head(toWorker[k])
             job == CHOOSE job \in response.jobs : TRUE
  <2>1. response \in Response /\ Tail(toWorker[k]) \in Seq(Response)
    <3>1. toWorker[k] \in Seq(Response) /\ toWorker[k] # <<>>
      BY <1>5, Zenon DEF Receive, TypeOK
    <3> QED
      BY <3>1, TailChannel, Zenon
  <2>2. toWorker' \in [Link -> Seq(Response)]
    BY <1>5, <2>1 DEF Receive, TypeOK
  <2>3. response.jobs # {} => job \in Job /\ DOMAIN job.work \in SUBSET StepIndex
    <3>1. response.jobs \in SUBSET Job
      BY <2>1 DEF Response
    <3>2. response.jobs # {} => job \in Job
      BY <3>1
    <3> QED
      BY <3>2, JobFields, Zenon
  <2>4. NoOutcome \in Outcomes
    BY Zenon DEF NoOutcome, Outcomes
  <2>5. \/ manager' = manager \/ manager' = [manager EXCEPT ![k] = Idle]
        \/ /\ response.jobs # {}
           /\ manager' = [manager EXCEPT ![k] = Running(job, DOMAIN job.work, NoOutcome)]
    BY <1>5 DEF Receive
  <2> HIDE DEF response, job
  <2>6. response.jobs # {} => Running(job, DOMAIN job.work, NoOutcome) \in Manager
    BY <2>3, <2>4, ManagerType, Zenon
  <2>7. manager' \in [Link -> Manager]
    BY <2>5, <2>6, ManagerType, Zenon DEF TypeOK
  <2> QED
    BY <1>1, <1>5, <2>2, <2>7, Zenon DEF Receive, TypeOK
<1>6. CASE StartStep(k)
  <2> DEFINE m == manager[k]
  <2>1. /\ m.job \in Job /\ m.job.command \in CommandId
        /\ m.left \in SUBSET StepIndex /\ m.outcome \in Outcomes
    BY <1>6, NextStep DEF StartStep, Busy
  <2>2. PICK i \in StepIndex :
           /\ Send(k, Update(m.job.command, "running", i, Direct))
           /\ manager' = [manager EXCEPT ![k] = Executing(m.job, m.left, m.outcome, 0)]
           /\ ran' = [ran EXCEPT ![m.job.command][i] = "started"]
           /\ starts' = [starts EXCEPT ![m.job.command][i] = @ + 1]
    BY <1>6, Zenon DEF StartStep
  <2>3. Update(m.job.command, "running", i, Direct) \in Message
    BY <2>1, Zenon DEF Update, Direct, Message, Report, Evidence, Reportable
  <2>4. toServer' \in [Link -> Seq(Message)]
    BY <2>2, <2>3, SendType
  <2>5. manager' \in [Link -> Manager]
    BY <2>1, <2>2, ManagerType, Zenon DEF TypeOK
  <2>6. ran' \in [CommandId -> [StepIndex -> {"never", "started", "completed", "failed"}]]
    BY <2>1, <2>2, Zenon DEF TypeOK
  <2>7. starts' \in [CommandId -> [StepIndex -> Nat]]
    <3>1. starts[m.job.command][i] + 1 \in Nat
      BY <2>1 DEF TypeOK
    <3> QED
      BY <2>1, <2>2, <3>1, Zenon DEF TypeOK
  <2>8. link' = link /\ toWorker' = toWorker /\ faults' = faults
    BY <1>6, Zenon DEF StartStep
  <2> QED
    BY <1>1, <2>4, <2>5, <2>6, <2>7, <2>8, ZenonT(30) DEF TypeOK
<1>7. ASSUME NEW ok \in BOOLEAN, EndAttempt(k, ok) PROVE TypeOK'
  <2> DEFINE m == manager[k]
             end == IF ok THEN "completed" ELSE "failed"
             Left(i) == IF ~ok /\ m.job.policy.stop THEN {} ELSE m.left \ {i}
             Ran == [CommandId -> [StepIndex -> {"never", "started", "completed", "failed"}]]
  <2>1. /\ m.job \in Job /\ m.job.command \in CommandId
        /\ m.left \in SUBSET StepIndex /\ m.outcome \in Outcomes /\ m.attempt \in Nat
    BY <1>7, NextStep, ManagerFields, Zenon DEF EndAttempt, Busy, TypeOK
  <2>2. \/ /\ manager' = [manager EXCEPT ![k] =
                             Executing(m.job, m.left, m.outcome, m.attempt + 1)]
           /\ ran' = ran
        \/ \E i \in StepIndex :
             /\ manager' = [manager EXCEPT ![k] =
                               Running(m.job, Left(i), [m.outcome EXCEPT ![i] = end])]
             /\ ran' = [ran EXCEPT ![m.job.command][i] = end]
    BY <1>7, Zenon DEF EndAttempt
  <2>3. manager \in [Link -> Manager] /\ ran \in Ran
    BY DEF TypeOK
  <2>4. ASSUME manager' = [manager EXCEPT ![k] =
                             Executing(m.job, m.left, m.outcome, m.attempt + 1)], ran' = ran
        PROVE  manager' \in [Link -> Manager] /\ ran' \in Ran
    <3>1. Executing(m.job, m.left, m.outcome, m.attempt + 1) \in Manager
      <4>1. m.attempt + 1 \in Nat
        BY <2>1
      <4> QED
        BY <2>1, <4>1, ManagerType, Zenon
    <3> HIDE DEF m
    <3> QED
      BY <2>3, <2>4, <3>1, Zenon
  <2>5. ASSUME NEW i \in StepIndex,
               manager' = [manager EXCEPT ![k] =
                             Running(m.job, Left(i), [m.outcome EXCEPT ![i] = end])],
               ran' = [ran EXCEPT ![m.job.command][i] = end]
        PROVE  manager' \in [Link -> Manager] /\ ran' \in Ran
    <3>1. end \in {"completed", "failed"} /\ Left(i) \in SUBSET StepIndex
      BY <2>1, Zenon
    <3> HIDE DEF m, end, Left
    <3>2. [m.outcome EXCEPT ![i] = end] \in Outcomes
      BY <2>1, <3>1 DEF Outcomes, Terminal
    <3>3. Running(m.job, Left(i), [m.outcome EXCEPT ![i] = end]) \in Manager
      BY <2>1, <3>1, <3>2, ManagerType, Zenon
    <3>4. manager' \in [Link -> Manager]
      BY <2>3, <2>5, <3>3, Zenon
    <3>5. ran' \in Ran
      BY <2>1, <2>3, <2>5, <3>1
    <3> QED
      BY <3>4, <3>5, Zenon
  <2>6. manager' \in [Link -> Manager] /\ ran' \in Ran
    BY <2>2, <2>4, <2>5, Zenon
  <2> QED
    BY <1>1, <1>7, <2>6, Zenon DEF EndAttempt, TypeOK, channelVars
<1>8. CASE FinalReport(k)
  <2>1. Holds(k, manager[k].job.command) /\ manager[k].job.command \in CommandId
    BY <1>8, NextStep, Zenon DEF FinalReport, Holds, Busy
  <2>2. PICK last \in StepIndex :
           /\ Last(last, Executed(manager[k]))
           /\ Send(k, [type |-> "update", command |-> manager[k].job.command,
                       report |-> FinalOf(manager[k], last)])
    BY <1>8, Zenon DEF FinalReport, FinalOf, Update
  <2>3. FinalOf(manager[k], last) \in Report
    BY <1>8, <2>1, <2>2, FinalTrue, Zenon DEF FinalReport
  <2>4. toServer' \in [Link -> Seq(Message)]
    BY <2>1, <2>2, <2>3, SendType, Zenon DEF Message
  <2> QED
    BY <1>1, <1>8, <2>4, ManagerType, Zenon DEF FinalReport, TypeOK
<1> QED
  BY <1>2, <1>3, <1>4, <1>5, <1>6, <1>7, <1>8, Zenon DEF Manage

\* No step of talos_server spoils a type.
LEMMA ServeType ==
    ASSUME TypeOK, NEW k \in Link, Serve(k)
    PROVE  TypeOK'
<1>1. JobsTypeOK'
  BY QueueStep, NextType, Zenon DEF TypeOK, Next
<1>2. ASSUME NEW c \in CommandId, ServePoll(k, c) PROVE TypeOK'
  <2>1. {DispatchedJob(c)} \in {js \in SUBSET Job : \A p, q \in js : p = q}
    BY DispatchedType DEF TypeOK
  <2>2. toServer' \in [Link -> Seq(Message)] /\ toWorker' \in [Link -> Seq(Response)]
    BY <1>2, <2>1, ServesType, RespondType, Zenon DEF ServePoll
  <2> QED
    BY <1>1, <1>2, <2>2, Zenon DEF ServePoll, TypeOK, workerVars
<1>3. {} \in {js \in SUBSET Job : \A p, q \in js : p = q}
  OBVIOUS
<1>4. ASSUME NEW c \in CommandId, ServePollLost(k, c) PROVE TypeOK'
  <2>1. toServer' \in [Link -> Seq(Message)] /\ toWorker' \in [Link -> Seq(Response)]
    BY <1>3, <1>4, ServesType, RespondType, Zenon DEF ServePollLost
  <2>2. faults' \in 0..MaxFaults
    BY <1>4, BoundsAssumption DEF ServePollLost, TypeOK
  <2> QED
    BY <1>1, <1>4, <2>1, <2>2 DEF ServePollLost, TypeOK, workerVars
<1>5. CASE ServePollNothing(k)
  <2>1. toServer' \in [Link -> Seq(Message)] /\ toWorker' \in [Link -> Seq(Response)]
    BY <1>3, <1>5, ServesType, RespondType, Zenon DEF ServePollNothing
  <2> QED
    BY <1>1, <1>5, <2>1 DEF ServePollNothing, TypeOK, workerVars
<1>6. CASE ServeUpdate(k)
  <2>1. toServer' \in [Link -> Seq(Message)]
    BY <1>6, ServesType, Zenon DEF ServeUpdate
  <2> QED
    BY <1>1, <1>6, <2>1, Zenon DEF ServeUpdate, TypeOK, workerVars
<1>7. CASE ServeUpdateLost(k)
  <2>1. toServer' \in [Link -> Seq(Message)]
    BY <1>7, ServesType DEF ServeUpdateLost
  <2>2. faults' \in 0..MaxFaults
    BY <1>7, BoundsAssumption DEF ServeUpdateLost, TypeOK
  <2> QED
    BY <1>1, <1>7, <2>1, <2>2 DEF ServeUpdateLost, TypeOK, workerVars
<1> QED
  BY <1>2, <1>4, <1>5, <1>6, <1>7, Zenon DEF Serve

\* No change of a connection spoils a type.
LEMMA ConnectionType ==
    ASSUME TypeOK, NEW k \in Link, Connect(k) \/ Break(k) \/ Notice(k) \/ SocketEnd(k)
    PROVE  TypeOK'
<1>1. JobsTypeOK'
  BY QueueStep, NextType, Zenon DEF TypeOK, Next
<1>2. CASE Connect(k)
  BY <1>1, <1>2, ManagerType, Zenon DEF Connect, Becomes, TypeOK, channelVars
<1>3. CASE Break(k)
  <2>1. PICK arrived \in Beginnings(toWorker[k]) : toWorker' = [toWorker EXCEPT ![k] = arrived]
    BY <1>3, Zenon DEF Break
  <2>2. arrived \in Seq(Response)
    BY <2>1, PrefixChannel DEF TypeOK
  <2>3. toWorker' \in [Link -> Seq(Response)]
    BY <2>1, <2>2 DEF TypeOK
  <2>4. faults' \in 0..MaxFaults
    BY <1>3, BoundsAssumption DEF Break, TypeOK
  <2> QED
    BY <1>1, <1>3, <2>3, <2>4 DEF Break, TypeOK
<1>4. CASE Notice(k)
  BY <1>1, <1>4, Zenon DEF Notice, TypeOK, channelVars
<1>5. CASE SocketEnd(k)
  BY <1>1, <1>5 DEF SocketEnd, TypeOK, workerVars
<1> QED
  BY <1>2, <1>3, <1>4, <1>5, Zenon

\* Neither does the consumer or a crash of the worker.
LEMMA ConsumeType ==
    ASSUME TypeOK, NEW r \in Requests, Consume(r)
    PROVE  TypeOK'
<1>1. JobsTypeOK'
  BY QueueStep, NextType, Zenon DEF TypeOK, Next
<1> QED
  BY <1>1 DEF Consume, TypeOK, workerVars, channelVars

\* A crash of the worker spoils no type.
LEMMA CrashType ==
    ASSUME TypeOK, NEW a \in Agent, Crash(a)
    PROVE  TypeOK'
<1>1. JobsTypeOK'
  BY QueueStep, NextType, Zenon DEF TypeOK, Next
<1>2. faults' \in 0..MaxFaults
  BY BoundsAssumption DEF Crash, TypeOK
<1>3. manager' \in [Link -> Manager]
  BY ManagerType, Zenon DEF Crash, TypeOK
<1>4. toWorker' \in [Link -> Seq(Response)]
  BY DEF Crash, TypeOK
<1> QED
  BY <1>1, <1>2, <1>3, <1>4 DEF Crash, TypeOK

--------------------------------------------------------------------------------
(* What a step tells of the commands it is not about                       *)

\* Sending affects the one channel, if the link is open.
LEMMA SendEffect ==
    ASSUME TypeOK, NEW k \in Link, NEW m, Send(k, m)
    PROVE  /\ toServer'[k] \in {toServer[k], Append(toServer[k], m)}
           /\ \A l \in Link : l # k => toServer'[l] = toServer[l]
BY DEF TypeOK, Send

\* A manager that goes on to m leaves the others alone.
LEMMA BecomesEffect ==
    ASSUME TypeOK, NEW k \in Link, NEW m, Becomes(k, m)
    PROVE  manager'[k] = m /\ \A l \in Link : l # k => manager'[l] = manager[l]
BY DEF TypeOK, Becomes

\* Sending a message that is no report on c.
LEMMA SendShrinks ==
    ASSUME TypeOK, NEW c, NEW k \in Link, NEW m \in Message, ~UpdateOf(m, c), Send(k, m)
    PROVE  \A l \in Link : FewerReports(toServer[l], toServer'[l], c)
<1>1. \A l \in Link : toServer[l] \in Seq(Message)
  BY Zenon DEF TypeOK
<1> QED
  BY <1>1, SendEffect, ReportsShrink, Zenon

\* Handling any message.
LEMMA ServesShrinks ==
    ASSUME TypeOK, NEW c, NEW k \in Link, NEW type, Serves(k, type)
    PROVE  \A l \in Link : FewerReports(toServer[l], toServer'[l], c)
<1>1. (\A l \in Link : toServer[l] \in Seq(Message)) /\ toServer[k] # <<>>
  BY DEF TypeOK, Serves
<1> QED
  BY <1>1, ServesType, ReportsShrink

\* Answering a poll with jobs other than c.
LEMMA RespondShrinks ==
    ASSUME TypeOK, NEW c, NEW k \in Link, Serves(k, "poll"),
           NEW jobs \in {js \in SUBSET Job : \A p, q \in js : p = q},
           \A job \in jobs : job.command # c, Respond(k, jobs)
    PROVE  \A l \in Link : FewerJobs(toWorker[l], toWorker'[l], c)
<1> DEFINE answer == [request |-> Head(toServer[k]).request, jobs |-> jobs]
<1>1. \A l \in Link : toWorker[l] \in Seq(Response)
  BY Zenon DEF TypeOK
<1>2. answer \in Response /\ \A l \in Link : l # k => toWorker'[l] = toWorker[l]
  BY RespondType, Zenon
<1>3. toWorker'[k] \in {toWorker[k], Append(toWorker[k], answer)}
  BY DEF Respond, TypeOK
<1>4. ~Brings(answer, c)
  BY DEF Brings
<1> HIDE DEF answer
<1> QED
  BY <1>1, <1>2, <1>3, <1>4, JobsShrink, Zenon

\* Channels to the server that do not change hold no more reports than before.
LEMMA SameReports ==
    ASSUME TypeOK, toServer' = toServer, NEW c
    PROVE  \A l \in Link : FewerReports(toServer[l], toServer'[l], c)
BY ReportsShrink DEF TypeOK

\* The same for the channels to the workers.
LEMMA SameJobs ==
    ASSUME TypeOK, toWorker' = toWorker, NEW c
    PROVE  \A l \in Link : FewerJobs(toWorker[l], toWorker'[l], c)
BY JobsShrink DEF TypeOK

\* A step that leaves all rows and the history alone.
LEMMA RowsSame ==
    ASSUME UNCHANGED jobVars, NEW c
    PROVE  RowsUnchanged(c)
BY DEF jobVars, RowsUnchanged

\* A manager that is not busy afterwards holds no job.
LEMMA NotBusy ==
    ASSUME TypeOK, NEW c, NEW k \in Link, NEW m,
           m.phase \in {"off", "idle", "polling"} \/ m.job.command # c, Becomes(k, m)
    PROVE  \A l \in Link : Holds(l, c)' => manager'[l] = manager[l]
BY BecomesEffect DEF Holds, Busy

--------------------------------------------------------------------------------
(* What each step tells of a command                                       *)

\* A manager that polls, waits in vain, gives its job up or stops begins nothing.
LEMMA QuietManager ==
    ASSUME TypeOK, NEW c \in CommandId, NEW k \in Link,
           Poll(k) \/ Exit(k) \/ PollTimeout(k) \/ Abandon(k) \/ Unreportable(k)
    PROVE  Shrinks(c)
<1>1. RowsUnchanged(c) /\ ran' = ran /\ starts' = starts /\ toWorker' = toWorker
  BY RowsSame DEF Poll, Exit, PollTimeout, Abandon, Unreportable, channelVars
<1>2. \A l \in Link : FewerJobs(toWorker[l], toWorker'[l], c)
  BY <1>1, SameJobs
<1>3. \A l \in Link : FewerReports(toServer[l], toServer'[l], c)
  <2>1. CASE Poll(k)
    <3>1. PICK id \in RequestId : Send(k, Poller(id))
      BY <2>1, Zenon DEF Poll
    <3>2. Poller(id) \in Message /\ ~UpdateOf(Poller(id), c)
      BY Zenon DEF Poller, Message, UpdateOf
    <3> QED
      BY <3>1, <3>2, SendShrinks
  <2>2. CASE Exit(k) \/ PollTimeout(k) \/ Abandon(k) \/ Unreportable(k)
    BY <2>2, SameReports, Zenon DEF Exit, PollTimeout, Abandon, Unreportable, channelVars
  <2> QED
    BY <2>1, <2>2, Zenon
<1>4. \A l \in Link : Holds(l, c)' => manager'[l] = manager[l]
  <2>1. PICK m : Becomes(k, m) /\ m.phase \in {"off", "idle", "polling"}
    <3>1. CASE Poll(k)
      BY <3>1, RestingPhase, Zenon DEF Poll
    <3>2. CASE Exit(k)
      BY <3>2, RestingPhase, Zenon DEF Exit
    <3>3. CASE PollTimeout(k) \/ Abandon(k) \/ Unreportable(k)
      BY <3>3, RestingPhase, Zenon DEF PollTimeout, Abandon, Unreportable
    <3> QED
      BY <3>1, <3>2, <3>3
  <2> QED
    BY <2>1, NotBusy, Zenon
<1> QED
  BY <1>1, <1>2, <1>3, <1>4, ZenonT(30) DEF Shrinks, Recedes

\* Connections that come and go begin nothing.
LEMMA QuietConnection ==
    ASSUME TypeOK, NEW c \in CommandId, NEW k \in Link,
           Connect(k) \/ Break(k) \/ Notice(k) \/ SocketEnd(k)
    PROVE  Shrinks(c)
<1>1. RowsUnchanged(c) /\ ran' = ran /\ starts' = starts
  BY RowsSame, Zenon DEF Connect, Break, Notice, SocketEnd, workerVars
<1>2. \A l \in Link : FewerJobs(toWorker[l], toWorker'[l], c)
  <2>1. CASE Break(k)
    <3>1. PICK arrived \in Beginnings(toWorker[k]) : toWorker' = [toWorker EXCEPT ![k] = arrived]
      BY <2>1, Zenon DEF Break
    <3>2. toWorker'[k] = arrived /\ \A l \in Link : l # k => toWorker'[l] = toWorker[l]
      BY <3>1, Zenon DEF TypeOK
    <3>3. \A l \in Link : toWorker[l] \in Seq(Response)
      BY DEF TypeOK
    <3> QED
      BY <3>1, <3>2, <3>3, JobsShrink, Zenon
  <2>2. CASE Connect(k) \/ Notice(k) \/ SocketEnd(k)
    BY <2>2, SameJobs, Zenon DEF Connect, Notice, SocketEnd, channelVars
  <2> QED
    BY <2>1, <2>2
<1>3. \A l \in Link : FewerReports(toServer[l], toServer'[l], c)
  <2>1. CASE SocketEnd(k)
    <3>1. toServer'[k] = <<>> /\ \A l \in Link : l # k => toServer'[l] = toServer[l]
      BY <2>1, Zenon DEF SocketEnd, TypeOK
    <3>2. \A l \in Link : toServer[l] \in Seq(Message)
      BY DEF TypeOK
    <3> QED
      BY <3>1, <3>2, ReportsShrink, Zenon
  <2>2. CASE Connect(k) \/ Break(k) \/ Notice(k)
    BY <2>2, SameReports, Zenon DEF Connect, Break, Notice, channelVars
  <2> QED
    BY <2>1, <2>2, Zenon
<1>4. \A l \in Link : Holds(l, c)' => manager'[l] = manager[l]
  <2>1. CASE Connect(k)
    BY <2>1, NotBusy, Zenon DEF Connect, Idle
  <2>2. CASE Break(k) \/ Notice(k) \/ SocketEnd(k)
    BY <2>2 DEF Break, Notice, SocketEnd, workerVars
  <2> QED
    BY <2>1, <2>2, Zenon
<1> QED
  BY <1>1, <1>2, <1>3, <1>4, Zenon DEF Shrinks, Recedes

\* A crash of the worker loses jobs and begins none.
LEMMA QuietCrash ==
    ASSUME TypeOK, NEW c \in CommandId, NEW a \in Agent, Crash(a)
    PROVE  Shrinks(c)
<1>1. RowsUnchanged(c) /\ ran' = ran /\ starts' = starts /\ toServer' = toServer
  BY RowsSame, Zenon DEF Crash
<1>2. \A l \in Link : toWorker'[l] \in {<<>>, toWorker[l]} /\ toWorker[l] \in Seq(Response)
  BY DEF Crash, TypeOK
<1>3. \A l \in Link : FewerJobs(toWorker[l], toWorker'[l], c)
  BY <1>2, JobsShrink, Zenon
<1>4. \A l \in Link : Holds(l, c)' => manager'[l] = manager[l]
  BY Zenon DEF Crash, Holds, Busy, Off
<1> QED
  BY <1>1, <1>3, <1>4, SameReports, Zenon DEF Shrinks, Recedes

\* A poll that finds nothing and an update that is lost or rejected say nothing
\* of any command; nor do a claim and an update of the other commands.
LEMMA QuietServe ==
    ASSUME TypeOK, NEW c \in CommandId, NEW k \in Link,
           \/ ServePollNothing(k) \/ ServeUpdateLost(k)
           \/ ServeUpdate(k) /\ RowsUnchanged(c)
           \/ \E d \in CommandId \ {c} : ServePoll(k, d) \/ ServePollLost(k, d)
    PROVE  Shrinks(c)
<1>1. RowsUnchanged(c)
  <2>1. CASE ServePollNothing(k) \/ ServeUpdateLost(k)
    BY <2>1, RowsSame DEF ServePollNothing, ServeUpdateLost
  <2>2. ASSUME NEW d \in CommandId \ {c}, ServePoll(k, d) \/ ServePollLost(k, d)
        PROVE  RowsUnchanged(c)
    BY <2>2, Zenon DEF ServePoll, ServePollLost, Claim, RowsUnchanged
  <2> QED
    BY <2>1, <2>2, Zenon
<1>2. ran' = ran /\ starts' = starts /\ manager' = manager
  BY Zenon DEF ServePollNothing, ServeUpdateLost, ServeUpdate, ServePoll, ServePollLost, workerVars
<1>3. \A l \in Link : FewerReports(toServer[l], toServer'[l], c)
  BY ServesShrinks, Zenon
     DEF ServePollNothing, ServeUpdateLost, ServeUpdate, ServePoll, ServePollLost
<1>4. \A l \in Link : FewerJobs(toWorker[l], toWorker'[l], c)
  <2>1. CASE ServeUpdate(k) \/ ServeUpdateLost(k)
    BY <2>1, SameJobs, Zenon DEF ServeUpdate, ServeUpdateLost
  <2>2. ASSUME Serves(k, "poll"), Respond(k, {})
        PROVE  \A l \in Link : FewerJobs(toWorker[l], toWorker'[l], c)
    BY <2>2, RespondShrinks, Zenon
  <2>3. ASSUME NEW d \in CommandId \ {c}, ServePoll(k, d)
        PROVE  \A l \in Link : FewerJobs(toWorker[l], toWorker'[l], c)
    <3>1. DispatchedJob(d) \in Job /\ DispatchedJob(d).command = d
      BY DispatchedType, Zenon DEF TypeOK
    <3>2. Serves(k, "poll") /\ Respond(k, {DispatchedJob(d)})
      BY <2>3 DEF ServePoll
    <3> QED
      BY <3>1, <3>2, RespondShrinks, Zenon
  <2> QED
    BY <2>1, <2>2, <2>3, Zenon DEF ServePollNothing, ServePollLost
<1> QED
  BY <1>1, <1>2, <1>3, <1>4, Zenon DEF Shrinks, Recedes

\* A redelivered event changes nothing of a job that was claimed.
LEMMA QuietConsume ==
    ASSUME TypeOK, QueueInv, NEW c \in CommandId, NEW r \in Requests, Consume(r),
           r.commandId = c => Claimed(c)
    PROVE  Shrinks(c)
<1>1. r.commandId \in CommandId
  BY RequestsAssumption DEF Request
<1>2. RowsUnchanged(c)
  <2>1. CASE r.commandId # c
    BY <1>1, <2>1, Zenon DEF Consume, Project, RowsUnchanged, TypeOK, JobsTypeOK
  <2>2. CASE r.commandId = c
    <3>1. Durable(r.steps) = Durable(steps[c]) /\ status[c] # "none"
      BY <2>2, Zenon DEF QueueInv, Claimed, Reportable, Terminal
    <3>2. MergedSteps(c, r) = steps[c]
      BY <2>2, <3>1, MergeIdempotent, ZenonT(30) DEF TypeOK
    <3>3. owner[c] = r.owner
      BY <2>2, <3>1 DEF Consume, Project, Acceptable
    <3> QED
      BY <2>2, <3>2, <3>3, Zenon DEF Consume, Project, RowsUnchanged, TypeOK, JobsTypeOK
  <2> QED
    BY <2>1, <2>2, Zenon
<1>3. /\ ran' = ran /\ starts' = starts /\ manager' = manager
      /\ toServer' = toServer /\ toWorker' = toWorker
  BY DEF Consume, workerVars, channelVars
<1> QED
  BY <1>2, <1>3, SameReports, SameJobs, Zenon DEF Shrinks, Recedes

\* A projection of a command nobody has claimed: it is involved with no link.
LEMMA ConsumeWaiting ==
    ASSUME TypeOK, QueueInv, NEW c \in CommandId, CommandInv(c), NEW r \in Requests, Consume(r),
           r.commandId = c, ~Claimed(c)
    PROVE  CommandInv(c)'
<1>1. /\ ran' = ran /\ starts' = starts /\ manager' = manager
      /\ toServer' = toServer /\ toWorker' = toWorker
  BY Zenon DEF Consume, workerVars, channelVars
<1>2. status'[c] \in Unclaimed
  BY DEF Consume, Project, TypeOK, JobsTypeOK, Unclaimed
<1>3. \A k \in Link : ~Involved(k, c)
  BY Zenon DEF CommandInv, Located, Claimed, Reportable
<1>4. \A k \in Link : ~Carries(k, c)' /\ ~Holds(k, c)' /\ ~Reports(k, c)'
  BY <1>1, <1>3, Zenon DEF Involved, Carries, Holds, Reports, Busy
<1>5. Located(c)' /\ Held(c)'
  BY <1>4, Zenon DEF Located, Held, Involved
<1>6. Carried(c)'
  BY <1>4, ZenonT(30) DEF Carried, Carries, Brings, BringsOnce
<1>7. Reported(c)'
  BY <1>4, Zenon DEF Reported, Reports, LastWord
<1>8. Recorded(c)'
  BY <1>1, <1>2, Zenon DEF CommandInv, Recorded, Claimed, Unclaimed, Reportable, Terminal
<1> QED
  BY <1>5, <1>6, <1>7, <1>8 DEF CommandInv

================================================================================
