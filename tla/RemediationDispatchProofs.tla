----------------------- MODULE RemediationDispatchProofs -----------------------
(***************************************************************************)
(* Proofs about generic remediation end to end, for every set of commands, *)
(* agents, steps and requests, and any number of connections and faults.   *)
(* The invariant, DispatchInv, is defined in RemediationJobsProofs, which  *)
(* also treats the steps that leave a command where it is; here are the    *)
(* steps that take it further, the invariant and what follows from it.     *)
(***************************************************************************)
EXTENDS RemediationJobsProofs

--------------------------------------------------------------------------------
(* The steps that take a command further                                   *)

\* A claim: the job was waiting, so no link was involved with it and none of its
\* steps was started; now a response carries it, or nothing does.
LEMMA ClaimKeeps ==
    ASSUME TypeOK, QueueInv, NEW c \in CommandId, CommandInv(c), NEW k \in Link,
           ServePoll(k, c) \/ ServePollLost(k, c)
    PROVE  CommandInv(c)'
<1> DEFINE answer(jobs) == [request |-> Head(toServer[k]).request, jobs |-> jobs]
<1>1. /\ c \in Claimable(k[1]) /\ status'[c] = "running"
      /\ UNCHANGED <<owner, policy, steps, ran, starts, manager>>
  BY DEF ServePoll, ServePollLost, Claim, workerVars
<1>2. \A l \in Link : ~Carries(l, c) /\ ~Holds(l, c) /\ ~Reports(l, c)
  BY <1>1 DEF CommandInv, Located, Claimable, Involved
<1>3. \A l \in Link : ~Holds(l, c)'
  BY <1>1, <1>2 DEF Holds, Busy
<1>4. \A l \in Link : ~Reports(l, c)'
  <2>1. \A l \in Link : FewerReports(toServer[l], toServer'[l], c)
    BY ServesShrinks DEF ServePoll, ServePollLost
  <2> QED
    BY <1>2, <2>1 DEF FewerReports, Reports
<1>5. DispatchedJob(c) \in Job /\ DispatchedJob(c)' = DispatchedJob(c)
  <2>1. DispatchedJob(c) \in Job
    BY DispatchedType DEF TypeOK
  <2> QED
    BY <1>1, <2>1 DEF DispatchedJob, Durable
<1>6. /\ \A l \in Link : l # k => ~Carries(l, c)'
      /\ BringsOnce(toWorker'[k], c)
      /\ \A j \in DOMAIN toWorker'[k] : \A job \in toWorker'[k][j].jobs :
            job.command = c => job = DispatchedJob(c)
  <2>1. PICK jobs \in {{}, {DispatchedJob(c)}} : Serves(k, "poll") /\ Respond(k, jobs)
    BY DEF ServePoll, ServePollLost
  <2>2. jobs \in {js \in SUBSET Job : \A p, q \in js : p = q}
    BY <1>5
  <2>3. answer(jobs) \in Response /\ \A l \in Link : l # k => toWorker'[l] = toWorker[l]
    BY <2>1, <2>2, RespondType
  <2>4. toWorker'[k] \in {toWorker[k], Append(toWorker[k], answer(jobs))}
    BY <2>1 DEF Respond, TypeOK
  <2>5. toWorker[k] \in Seq(Response) /\ \A job \in answer(jobs).jobs : job = DispatchedJob(c)
    BY DEF TypeOK
  <2> HIDE DEF answer
  <2>6. \A l \in Link : l # k => ~Carries(l, c)'
    BY <1>2, <2>3 DEF Carries
  <2>7. CASE toWorker'[k] = toWorker[k]
    BY <1>2, <2>6, <2>7 DEF Carries, Brings, BringsOnce
  <2>8. CASE toWorker'[k] = Append(toWorker[k], answer(jobs))
    <3>1. /\ DOMAIN toWorker[k] = 1..Len(toWorker[k]) /\ Len(toWorker[k]) \in Nat
          /\ DOMAIN toWorker'[k] = 1..(Len(toWorker[k]) + 1)
          /\ \A j \in DOMAIN toWorker[k] : toWorker'[k][j] = toWorker[k][j]
          /\ toWorker'[k][Len(toWorker[k]) + 1] = answer(jobs)
      BY <2>3, <2>5, <2>8, AppendChannel
    <3>2. \A j \in DOMAIN toWorker'[k] : j # Len(toWorker[k]) + 1 => ~Brings(toWorker'[k][j], c)
      BY <1>2, <3>1 DEF Carries
    <3> QED
      BY <2>5, <2>6, <3>1, <3>2 DEF Brings, BringsOnce
  <2> QED
    BY <2>4, <2>7, <2>8
<1>7. Located(c)' /\ Held(c)'
  BY <1>1, <1>3, <1>4, <1>6 DEF Located, Held, Involved, Claimable, Durable
<1>8. Carried(c)'
  <2>1. \A i \in StepIndex : ran'[c][i] = "never"
    BY <1>1 DEF CommandInv, Recorded, Claimable, Claimed, Reportable, Terminal
  <2>2. \A l \in Link : l # k => \A j \in DOMAIN toWorker'[l] : ~Brings(toWorker'[l][j], c)
    BY <1>6 DEF Carries
  <2> QED
    BY <1>3, <1>4, <1>5, <1>6, <2>1, <2>2 DEF Carried, BringsOnce, Brings
<1>9. Reported(c)'
  BY <1>4 DEF Reported, Reports, LastWord
<1>10. Recorded(c)'
  <2>1. \A i \in Durable(steps[c]) : steps[c][i].status = "pending"
    BY <1>1 DEF QueueInv, Claimable, Unclaimed
  <2> QED
    BY <1>1, <2>1 DEF CommandInv, Recorded, Claimed, Reportable, Terminal, Durable
<1> QED
  BY <1>7, <1>8, <1>9, <1>10 DEF CommandInv

\* A job a manager holds is nowhere else.
LEMMA HeldAlone ==
    ASSUME NEW c \in CommandId, CommandInv(c), NEW k \in Link, Holds(k, c)
    PROVE  \A l \in Link : ~Carries(l, c) /\ (l # k => ~Holds(l, c) /\ ~Reports(l, c))
<1>1. \A l \in Link : Involved(l, c) => l = k
  BY DEF CommandInv, Located, Involved
<1>2. ~Carries(k, c)
  BY DEF CommandInv, Carried
<1> QED
  BY <1>1, <1>2 DEF Involved

\* A step of the manager that holds c: it is enough that its own record stays
\* true, and that what it reports is the truth, and final only when it is done.
LEMMA HolderKeeps ==
    ASSUME TypeOK, NEW c \in CommandId, CommandInv(c), NEW k \in Link, Holds(k, c),
           UNCHANGED <<jobVars, toWorker>>,
           \A l \in Link : l # k => manager'[l] = manager[l] /\ toServer'[l] = toServer[l],
           Holds(k, c)' => Progress(manager[k], c)',
           \/ toServer'[k] = toServer[k]
           \/ \E m \in Message : /\ toServer'[k] = Append(toServer[k], m)
                                 /\ TrueReport(c, m.report)'
                                 /\ Holds(k, c)' => m.report.status = "running",
           \A i \in StepIndex : ran[c][i] # "never" => ran'[c][i] # "never",
           \A i \in StepIndex : starts'[c][i] <= 1 /\ (ran'[c][i] = "never" => starts'[c][i] = 0)
    PROVE  CommandInv(c)'
<1>1. \A l \in Link : ~Carries(l, c) /\ (l # k => ~Holds(l, c) /\ ~Reports(l, c))
  BY HeldAlone
<1>2. \A l \in Link : ~Carries(l, c)' /\ (l # k => ~Holds(l, c)' /\ ~Reports(l, c)')
  BY <1>1 DEF Carries, Holds, Busy, Reports
<1>3. /\ status[c] = "running" /\ owner[c].agent = k[1] /\ owner[c].intent # PatchIntent
      /\ Durable(steps[c]) # {}
  BY DEF CommandInv, Located, Involved
<1>4. UNCHANGED <<status, owner, policy, steps>>
  BY Zenon DEF jobVars
<1>5. Located(c)'
  BY <1>2, <1>3, <1>4 DEF Located, Involved, Durable
<1>6. Carried(c)'
  BY <1>2 DEF Carried, Carries, Brings, BringsOnce
<1>7. \A j \in DOMAIN toServer[k] : UpdateOf(toServer[k][j], c) =>
         /\ toServer[k][j].report.status = "running"
         /\ toServer[k][j].report.step \in Durable(steps[c])
         /\ ran[c][toServer[k][j].report.step] # "never"
  <2>1. Held(c) /\ Reported(c)
    BY Zenon DEF CommandInv
  <2>2. \A report : TrueReport(c, report) /\ report.status = "running" =>
           report.step \in Durable(steps[c]) /\ ran[c][report.step] # "never"
    BY DEF TrueReport
  <2> QED
    BY <2>1, <2>2, Zenon DEF Held, Reported
<1>8. \A report : /\ report.status = "running" /\ report.step \in Durable(steps[c])
                   /\ ran[c][report.step] # "never"
                   => TrueReport(c, report)'
  BY <1>4, Zenon DEF TrueReport, Durable
<1> DEFINE Goal ==
      /\ LastWord(toServer'[k], c)
      /\ \A j \in DOMAIN toServer'[k] : UpdateOf(toServer'[k][j], c) =>
            /\ TrueReport(c, toServer[k][j].report)'
            /\ Holds(k, c)' => toServer'[k][j].report.status = "running"
<1>9. Goal
  <2>1. CASE toServer'[k] = toServer[k]
    BY <1>7, <1>8, <2>1, Zenon DEF LastWord, Terminal
  <2>2. ASSUME NEW m \in Message, toServer'[k] = Append(toServer[k], m),
               TrueReport(c, m.report)', Holds(k, c)' => m.report.status = "running"
        PROVE  Goal
    <3>1. toServer[k] \in Seq(Message)
      BY Zenon DEF TypeOK
    <3>2. /\ DOMAIN toServer[k] = 1..Len(toServer[k]) /\ Len(toServer[k]) \in Nat
          /\ DOMAIN toServer'[k] = 1..(Len(toServer[k]) + 1)
          /\ \A j \in DOMAIN toServer[k] : toServer'[k][j] = toServer[k][j]
          /\ toServer'[k][Len(toServer[k]) + 1] = m
      BY <2>2, <3>1, AppendChannel
    <3>3. \A j \in DOMAIN toServer'[k] : j \in DOMAIN toServer[k] \/ j = Len(toServer[k]) + 1
      BY <3>2
    <3>4. LastWord(toServer'[k], c)
      <4> SUFFICES ASSUME NEW i \in DOMAIN toServer'[k], NEW j \in DOMAIN toServer'[k],
                          UpdateOf(toServer'[k][i], c), UpdateOf(toServer'[k][j], c),
                          toServer'[k][i].report.status \in Terminal
                   PROVE  j <= i
        BY Zenon DEF LastWord
      <4>1. i = Len(toServer[k]) + 1
        BY <1>7, <3>2, <3>3, Zenon DEF Terminal
      <4> QED
        BY <3>2, <4>1
    <3>5. ASSUME NEW j \in DOMAIN toServer'[k], UpdateOf(toServer'[k][j], c)
          PROVE  /\ TrueReport(c, toServer[k][j].report)'
                 /\ Holds(k, c)' => toServer'[k][j].report.status = "running"
      <4>1. CASE j \in DOMAIN toServer[k]
        BY <1>7, <1>8, <3>2, <3>5, <4>1
      <4>2. CASE j = Len(toServer[k]) + 1
        BY <2>2, <3>2, <4>2, Zenon
      <4> QED
        BY <3>3, <4>1, <4>2, ZenonT(30)
    <3> QED
      BY <3>4, <3>5, Zenon
  <2> QED
    BY <2>1, <2>2, Zenon
<1>10. Held(c)'
  BY <1>2, <1>9, Zenon DEF Held
<1>11. Reported(c)'
  BY <1>2, <1>9, Zenon DEF Reported, Reports, LastWord
<1>12. Recorded(c)'
  BY <1>3, <1>4, Zenon DEF CommandInv, Recorded, Claimed, Reportable, Terminal, Durable
<1> QED
  BY <1>5, <1>6, <1>10, <1>11, <1>12 DEF CommandInv

\* A manager that steps on leaves the commands it does not hold alone.
LEMMA OtherCommand ==
    ASSUME TypeOK, NEW c \in CommandId, NEW k \in Link, ~Holds(k, c),
           StartStep(k) \/ (\E ok \in BOOLEAN : EndAttempt(k, ok)) \/ FinalReport(k),
           \A d \in CommandId : CommandInv(d)
    PROVE  Shrinks(c)
<1> DEFINE m == manager[k]
<1>1. /\ Busy(k) /\ m.job.command \in CommandId /\ m.job.command # c
  BY NextStep, Zenon DEF StartStep, EndAttempt, FinalReport, Busy, Holds
<1>2. RowsUnchanged(c) /\ toWorker' = toWorker
  BY RowsSame, Zenon DEF StartStep, EndAttempt, FinalReport, channelVars
<1>3. ran'[c] = ran[c] /\ starts'[c] = starts[c]
  BY <1>1, Zenon DEF StartStep, EndAttempt, FinalReport, TypeOK
<1>4. \A l \in Link : Holds(l, c)' => manager'[l] = manager[l]
  BY <1>1, NotBusy, Zenon DEF StartStep, EndAttempt, FinalReport, Idle, Running, Executing
<1>5. \A l \in Link : FewerReports(toServer[l], toServer'[l], c)
  <2>1. CASE StartStep(k)
    <3>1. PICK i \in StepIndex : Send(k, Update(m.job.command, "running", i, Direct))
      BY <2>1, Zenon DEF StartStep
    <3> DEFINE u == Update(m.job.command, "running", i, Direct)
    <3>2. Direct \in Evidence
      BY Zenon DEF Direct, Evidence
    <3>3. u \in Message /\ ~UpdateOf(u, c)
      BY <1>1, <3>2 DEF Update, Message, Report, Reportable, UpdateOf
    <3> QED
      BY <3>1, <3>3, SendShrinks
  <2>2. CASE \E ok \in BOOLEAN : EndAttempt(k, ok)
    BY <2>2, SameReports, Zenon DEF EndAttempt, channelVars
  <2>3. CASE FinalReport(k)
    <3>0. PICK last \in StepIndex :
             /\ Last(last, Executed(m))
             /\ Send(k, Update(m.job.command, FinalOf(m, last).status, last, Aggregate(m.outcome)))
      BY <2>3, Zenon DEF FinalReport, FinalOf
    <3> DEFINE f == FinalOf(m, last)
               u == Update(m.job.command, f.status, f.step, f.evidence)
    <3>1. f \in Report
      BY <1>1, <2>3, <3>0, FinalTrue DEF FinalReport, Holds
    <3>2. f.status \in Reportable /\ f.step \in StepIndex /\ f.evidence \in Evidence
      BY <3>1, Zenon DEF Report
    <3>3. Send(k, u)
      BY <3>0, Zenon DEF FinalOf
    <3> HIDE DEF f
    <3>4. u \in Message /\ ~UpdateOf(u, c)
      BY <1>1, <3>2, ZenonT(30) DEF Update, Message, Report, UpdateOf
    <3> HIDE DEF u
    <3> QED
      BY <3>3, <3>4, SendShrinks, Zenon
  <2> QED
    BY <2>1, <2>2, <2>3
<1> QED
  BY <1>2, <1>3, <1>4, <1>5, SameJobs DEF Shrinks, Recedes

\* A manager that starts a step had not started it before, and reports it.
LEMMA StartKeeps ==
    ASSUME TypeOK, NEW c \in CommandId, CommandInv(c), NEW k \in Link, Holds(k, c), StartStep(k)
    PROVE  CommandInv(c)'
<1> DEFINE m == manager[k]
<1>0. PICK i \in StepIndex :
         /\ First(i, m.left)
         /\ Send(k, Update(m.job.command, "running", i, Direct))
         /\ ran' = [ran EXCEPT ![m.job.command][i] = "started"]
         /\ starts' = [starts EXCEPT ![m.job.command][i] = @ + 1]
  BY Zenon DEF StartStep
<1> DEFINE u == Update(c, "running", i, Direct)
<1>1. /\ Progress(m, c) /\ m.job.command = c /\ m.phase = "running"
      /\ i \in m.left /\ m.left \in SUBSET StepIndex
      /\ \A j \in StepIndex : First(j, m.left) <=> j = i
  BY <1>0, NextStep, FirstUnique, Zenon DEF CommandInv, Held, Holds, StartStep, First
<1>2. i \in Durable(steps[c]) /\ i \in StepIndex /\ ran[c][i] = "never" /\ m.outcome[i] = "unreported"
  BY <1>1, Zenon DEF Progress
<1>3. UNCHANGED <<jobVars, status, owner, policy, steps, toWorker>>
  BY Zenon DEF StartStep, jobVars
<1>4. /\ manager'[k] = Executing(m.job, m.left, m.outcome, 0)
      /\ \A l \in Link : l # k => manager'[l] = manager[l] /\ toServer'[l] = toServer[l]
      /\ toServer'[k] \in {toServer[k], Append(toServer[k], u)}
  <2>1. Becomes(k, Executing(m.job, m.left, m.outcome, 0))
    BY Zenon DEF StartStep
  <2>2. Send(k, u)
    BY <1>0, <1>1, Zenon
  <2> QED
    BY <2>1, <2>2, BecomesEffect, SendEffect, Zenon
<1>5. /\ ran'[c][i] = "started" /\ starts'[c][i] = starts[c][i] + 1
      /\ \A j \in StepIndex : j # i => ran'[c][j] = ran[c][j] /\ starts'[c][j] = starts[c][j]
  BY <1>0, <1>1, <1>2, Zenon DEF TypeOK
<1>6. \A j \in StepIndex : starts'[c][j] <= 1 /\ (ran'[c][j] = "never" => starts'[c][j] = 0)
  <2>1. \A j \in StepIndex : starts[c][j] <= 1 /\ (ran[c][j] = "never" => starts[c][j] = 0)
    BY Zenon DEF CommandInv, Recorded
  <2>2. starts'[c][i] <= 1 /\ ran'[c][i] # "never"
    BY <1>2, <1>5, <2>1
  <2> QED
    BY <1>5, <2>1, <2>2, Zenon
<1>7. \E message \in Message :
         message = u /\ message.report.status = "running" /\ TrueReport(c, message.report)'
  <2>1. Direct \in Evidence
    BY Zenon DEF Direct, Evidence
  <2>2. u \in Message /\ u.report.status = "running" /\ u.report.step = i
    BY <1>2, <2>1, Zenon DEF Update, Message, Report, Reportable
  <2>3. \A report : report.step = i /\ report.status = "running" => TrueReport(c, report)'
    BY <1>2, <1>3, <1>5, Zenon DEF TrueReport, Durable
  <2> QED
    BY <2>2, <2>3
<1>8. Progress(manager[k], c)'
  <2>1. DispatchedJob(c)' = DispatchedJob(c) /\ Durable(steps[c])' = Durable(steps[c])
    BY <1>3, Zenon DEF DispatchedJob, Durable
  <2>2. /\ manager'[k].job = m.job /\ manager'[k].left = m.left
        /\ manager'[k].outcome = m.outcome /\ manager'[k].phase = "executing"
    BY <1>4 DEF Executing
  <2>3. ASSUME NEW j \in StepIndex
        PROVE  IF m.outcome[j] # "unreported"
               THEN j \in Durable(steps[c]) \ m.left /\ ran'[c][j] = m.outcome[j]
               ELSE ran'[c][j] = IF j = i THEN "started" ELSE "never"
    BY <1>1, <1>2, <1>5 DEF Progress
  <2>4. /\ m.job = DispatchedJob(c) /\ m.left \subseteq Durable(steps[c])
        /\ (\E j \in Durable(steps[c]) \ m.left : m.outcome[j] = "unreported") =>
              m.left = {} /\ \E j \in StepIndex : m.outcome[j] = "failed"
    BY <1>1, Zenon DEF Progress
  <2>5. \A j \in StepIndex : First(j, m.left) <=> j = i
    BY <1>1, Zenon
  <2> QED
    BY <2>1, <2>2, <2>3, <2>4, <2>5 DEF Progress
<1> HIDE DEF u
<1>9. \A j \in StepIndex : ran[c][j] # "never" => ran'[c][j] # "never"
  BY <1>5
<1> QED
  BY <1>3, <1>4, <1>6, <1>7, <1>8, <1>9, HolderKeeps

\* A run of a step that ends leaves the manager with the outcome of the step, or
\* with another run of it to do.
LEMMA EndKeeps ==
    ASSUME TypeOK, NEW c \in CommandId, CommandInv(c), NEW k \in Link, Holds(k, c),
           NEW ok \in BOOLEAN, EndAttempt(k, ok)
    PROVE  CommandInv(c)'
<1> DEFINE m == manager[k]
           end == IF ok THEN "completed" ELSE "failed"
<1>1. Progress(m, c) /\ m.job.command = c /\ m.phase = "executing"
  BY Zenon DEF CommandInv, Held, Holds, EndAttempt
<1>2. m.left \in SUBSET StepIndex /\ m.outcome \in Outcomes
  BY NextStep, Zenon DEF Holds
<1>3. ASSUME NEW i, First(i, m.left)
      PROVE  /\ i \in Durable(steps[c]) /\ i \in StepIndex /\ i \in m.left
             /\ m.outcome[i] = "unreported" /\ ran[c][i] = "started"
             /\ \A j \in StepIndex : j # i => ~First(j, m.left)
  BY <1>1, <1>2, <1>3, FirstUnique, Zenon DEF Progress, First
<1>4. UNCHANGED <<jobVars, policy, steps, toServer, toWorker, starts>>
  BY Zenon DEF EndAttempt, jobVars, channelVars
<1>5. DispatchedJob(c)' = DispatchedJob(c) /\ Durable(steps[c])' = Durable(steps[c])
  BY <1>4 DEF DispatchedJob, Durable
<1> DEFINE Goal ==
      /\ Progress(manager[k], c)'
      /\ \A l \in Link : l # k => manager'[l] = manager[l]
      /\ \A j \in StepIndex : ran'[c][j] = "never" <=> ran[c][j] = "never"
<1>6. ASSUME ran' = ran, Becomes(k, Executing(m.job, m.left, m.outcome, m.attempt + 1))
      PROVE  Goal
  <2>1. manager'[k] = Executing(m.job, m.left, m.outcome, m.attempt + 1)
    BY <1>6, BecomesEffect, Zenon
  <2>2. \A l \in Link : l # k => manager'[l] = manager[l]
    BY <1>6, BecomesEffect, Zenon
  <2>3. /\ manager'[k].job = m.job /\ manager'[k].left = m.left
        /\ manager'[k].outcome = m.outcome /\ manager'[k].phase = "executing"
    BY <2>1 DEF Executing
  <2>4. Progress(manager[k], c)'
    BY <1>1, <1>5, <1>6, <2>3 DEF Progress
  <2> QED
    BY <1>6, <2>2, <2>4
<1>7. ASSUME NEW i \in StepIndex, First(i, m.left), ran' = [ran EXCEPT ![m.job.command][i] = end],
             Becomes(k, Running(m.job, IF ~ok /\ m.job.policy.stop THEN {} ELSE m.left \ {i},
                                [m.outcome EXCEPT ![i] = end]))
      PROVE  Goal
  <2> DEFINE left == IF ~ok /\ m.job.policy.stop THEN {} ELSE m.left \ {i}
             outcome == [m.outcome EXCEPT ![i] = end]
  <2>0. /\ i \in Durable(steps[c]) /\ i \in m.left
        /\ m.outcome[i] = "unreported" /\ ran[c][i] = "started"
        /\ \A j \in StepIndex : j # i => ~First(j, m.left)
    BY <1>3, <1>7
  <2>1. ran' = [ran EXCEPT ![c][i] = end] /\ Becomes(k, Running(m.job, left, outcome))
    BY <1>1, <1>7, Zenon
  <2>2. ran'[c][i] = end /\ \A j \in StepIndex : j # i => ran'[c][j] = ran[c][j]
    BY <2>0, <2>1 DEF TypeOK
  <2>3. /\ manager'[k] = Running(m.job, left, outcome)
        /\ \A l \in Link : l # k => manager'[l] = manager[l]
    BY <2>1, BecomesEffect, Zenon
  <2>4. /\ manager'[k].job = m.job /\ manager'[k].left = left
        /\ manager'[k].outcome = outcome /\ manager'[k].phase = "running"
    BY <2>3 DEF Running
  <2>5. outcome[i] = end /\ \A j \in StepIndex : j # i => outcome[j] = m.outcome[j]
    BY <1>2, <2>0 DEF Outcomes
  <2>6. end # "unreported" /\ end # "never" /\ left \subseteq m.left /\ i \notin left
    OBVIOUS
  <2>7. ASSUME NEW j \in StepIndex
        PROVE  IF outcome[j] # "unreported"
               THEN j \in Durable(steps[c]) \ left /\ ran'[c][j] = outcome[j]
               ELSE ran'[c][j] = "never"
    <3>1. CASE j = i
      BY <2>0, <2>2, <2>5, <2>6, <3>1, Zenon
    <3>2. CASE j # i
      <4>1. IF m.outcome[j] # "unreported"
            THEN j \in Durable(steps[c]) \ m.left /\ ran[c][j] = m.outcome[j]
            ELSE ran[c][j] = "never"
        BY <1>1, <2>0, <3>2, Zenon DEF Progress
      <4>2. ran'[c][j] = ran[c][j] /\ outcome[j] = m.outcome[j]
        BY <2>2, <2>5, <3>2, Zenon
      <4> QED
        BY <2>6, <4>1, <4>2
    <3> QED
      BY <3>1, <3>2, Zenon
  <2>8. ASSUME NEW j \in Durable(steps[c]) \ left, outcome[j] = "unreported"
        PROVE  left = {} /\ \E l \in StepIndex : outcome[l] = "failed"
    <3>1. j # i /\ j \in StepIndex /\ m.outcome[j] = "unreported"
      BY <2>5, <2>6, <2>8, Zenon DEF Durable
    <3>2. j \in m.left
      BY <1>1, <2>0, <2>8, <3>1 DEF Progress
    <3>3. ~ok /\ left = {}
      BY <2>8, <3>1, <3>2, Zenon
    <3> QED
      BY <2>0, <2>5, <3>3, Zenon
  <2>9. left \subseteq Durable(steps[c])
    BY <1>1, <2>6, ZenonT(30) DEF Progress
  <2> HIDE DEF left, outcome, end
  <2>10. Progress(manager[k], c)'
    BY <1>1, <1>5, <2>4, <2>7, <2>8, <2>9 DEF Progress
  <2> QED
    BY <2>0, <2>2, <2>3, <2>6, <2>10, Zenon
<1>8. Goal
  BY <1>6, <1>7, Zenon DEF EndAttempt
<1>9. \A j \in StepIndex : starts'[c][j] <= 1 /\ (ran'[c][j] = "never" => starts'[c][j] = 0)
  BY <1>4, <1>8, Zenon DEF CommandInv, Recorded
<1> QED
  BY <1>4, <1>8, <1>9, HolderKeeps, Zenon

\* The final report is the last word on the command, and the truth.
LEMMA FinalKeeps ==
    ASSUME TypeOK, NEW c \in CommandId, CommandInv(c), NEW k \in Link, Holds(k, c), FinalReport(k)
    PROVE  CommandInv(c)'
<1> DEFINE m == manager[k]
<1>0. PICK last \in StepIndex :
         /\ Last(last, Executed(m))
         /\ Send(k, Update(m.job.command, FinalOf(m, last).status, last, Aggregate(m.outcome)))
  BY Zenon DEF FinalReport, FinalOf
<1> DEFINE f == FinalOf(m, last)
           u == Update(c, f.status, f.step, f.evidence)
<1>1. UNCHANGED <<jobVars, steps, toWorker, ran, starts>>
  BY Zenon DEF FinalReport, jobVars
<1>2. manager'[k] = Idle /\ Send(k, u) /\ \A l \in Link : l # k => manager'[l] = manager[l]
  BY <1>0, BecomesEffect, Zenon DEF FinalReport, FinalOf, Holds
<1>3. f \in Report /\ TrueReport(c, f)
  BY <1>0, FinalTrue, Zenon DEF FinalReport
<1>4. u.report = f /\ u \in Message
  BY <1>3, ZenonT(30) DEF Update, Message, Report
<1> HIDE DEF f, u
<1>5. \A report : TrueReport(c, report) => TrueReport(c, report)'
  BY <1>1 DEF TrueReport, TrueOutcome, Durable
<1>6. \E message \in Message : message = u /\ TrueReport(c, message.report)'
  BY <1>3, <1>4, <1>5, Zenon
<1>7. /\ toServer'[k] \in {toServer[k], Append(toServer[k], u)}
      /\ \A l \in Link : l # k => toServer'[l] = toServer[l]
  BY <1>2, SendEffect, Zenon
<1>8. ~Holds(k, c)'
  BY <1>2, RestingPhase DEF Holds, Busy
<1>9. \A j \in StepIndex : starts'[c][j] <= 1 /\ (ran'[c][j] = "never" => starts'[c][j] = 0)
  BY <1>1 DEF CommandInv, Recorded
<1>10. \A i \in StepIndex : ran[c][i] # "never" => ran'[c][i] # "never"
  BY <1>1, Zenon
<1> QED
  BY <1>1, <1>2, <1>6, <1>7, <1>8, <1>9, <1>10, HolderKeeps, Zenon

\* A manager that accepts a response takes over the one job in it, as stored and
\* with none of its steps started.  One it discards takes its job with it.
LEMMA ReceiveKeeps ==
    ASSUME TypeOK, NEW c \in CommandId, CommandInv(c), NEW k \in Link, Receive(k)
    PROVE  CommandInv(c)'
<1> DEFINE s == toWorker[k]
           response == Head(s)
           job == CHOOSE job \in response.jobs : TRUE
<1>1. s \in Seq(Response) /\ s # <<>>
  BY DEF TypeOK, Receive
<1>2. /\ 1 \in DOMAIN s /\ response = s[1] /\ Tail(s) \in Seq(Response)
      /\ \A j \in DOMAIN Tail(s) :
            j + 1 \in DOMAIN s /\ Tail(s)[j] = s[j + 1] /\ j + 1 # 1
  BY <1>1, TailChannel, Zenon
<1>3. toWorker'[k] = Tail(s) /\ \A l \in Link : l # k => toWorker'[l] = toWorker[l]
  BY Zenon DEF Receive, TypeOK
<1>4. /\ UNCHANGED <<jobVars, status, owner, policy, steps, toServer, ran, starts>>
      /\ RowsUnchanged(c)
  BY RowsSame DEF Receive, jobVars
<1> DEFINE Accepts == /\ response.request = manager[k].request /\ response.jobs # {}
                      /\ job.command = c
<1>5. CASE ~Accepts
  <2>1. \A l \in Link : FewerJobs(toWorker[l], toWorker'[l], c)
    <3>1. \A l \in Link : toWorker[l] \in Seq(Response)
      BY Zenon DEF TypeOK
    <3> QED
      BY <1>1, <1>3, <3>1, JobsShrink
  <2>2. \A l \in Link : Holds(l, c)' => manager'[l] = manager[l]
    <3>1. CASE manager' = manager
      BY <3>1, Zenon
    <3>2. CASE Becomes(k, Idle)
      BY <3>2, NotBusy, Zenon DEF Idle
    <3>3. CASE /\ response.request = manager[k].request /\ response.jobs # {}
               /\ Becomes(k, Running(job, DOMAIN job.work, NoOutcome))
      <4>1. job.command # c
        BY <1>5, <3>3
      <4> HIDE DEF job
      <4> QED
        BY <3>3, <4>1, NotBusy, Zenon DEF Running
    <3> QED
      BY <3>1, <3>2, <3>3 DEF Receive
  <2>3. Shrinks(c)
    BY <1>4, <2>1, <2>2, SameReports, Zenon DEF Shrinks, Recedes
  <2> QED
    BY <2>3, ShrinkKeeps, Zenon
<1>6. CASE Accepts
  <2>1. job \in response.jobs /\ job.command = c /\ Brings(s[1], c)
    BY <1>2, <1>6, Zenon DEF Brings
  <2>2. Becomes(k, Running(job, DOMAIN job.work, NoOutcome))
    BY <1>6, Zenon DEF Receive
  <2> HIDE DEF job
  <2>3. /\ manager'[k] = Running(job, DOMAIN job.work, NoOutcome)
        /\ \A l \in Link : l # k => manager'[l] = manager[l]
    BY <2>2, BecomesEffect, Zenon
  <2>4. Carries(k, c)
    BY <1>2, <2>1, Zenon DEF Carries
  <2>5. \A l \in Link : l # k => ~Involved(l, c)
    BY <2>4 DEF CommandInv, Located, Involved
  <2>6. ~Reports(k, c) /\ (\A i \in StepIndex : ran[c][i] = "never") /\ job = DispatchedJob(c)
    BY <1>2, <2>1, <2>4, Zenon DEF CommandInv, Carried
  <2>7. ASSUME NEW j \in DOMAIN Tail(s) PROVE ~Brings(Tail(s)[j], c)
    <3>1. BringsOnce(s, c)
      BY DEF CommandInv, Carried
    <3> QED
      BY <1>2, <2>1, <2>7, <3>1, ZenonT(30) DEF BringsOnce
  <2>8. \A l \in Link : ~Carries(l, c)' /\ ~Reports(l, c)' /\ (l # k => ~Holds(l, c)')
    BY <1>3, <1>4, <2>3, <2>5, <2>6, <2>7, ZenonT(30) DEF Carries, Reports, Holds, Busy, Involved
  <2>9. /\ status[c] = "running" /\ owner[c].agent = k[1] /\ owner[c].intent # PatchIntent
        /\ Durable(steps[c]) # {}
    BY <2>4 DEF CommandInv, Located, Involved
  <2>10. Located(c)'
    BY <1>4, <2>8, <2>9, Zenon DEF Located, Involved, Durable
  <2>11. Carried(c)'
    BY <2>8 DEF Carried, Carries, Brings, BringsOnce
  <2>12. Progress(manager[k], c)'
    <3>1. DispatchedJob(c)' = DispatchedJob(c) /\ Durable(steps[c])' = Durable(steps[c])
      BY <1>4, Zenon DEF DispatchedJob, Durable
    <3>2. DOMAIN job.work = Durable(steps[c])
      BY <2>6, DispatchedType, Zenon DEF TypeOK
    <3>3. /\ manager'[k].job = job /\ manager'[k].left = Durable(steps[c])
          /\ manager'[k].outcome = NoOutcome /\ manager'[k].phase = "running"
      BY <2>3, <3>2 DEF Running
    <3> QED
      BY <1>4, <2>6, <3>1, <3>3, Zenon DEF Progress, NoOutcome
  <2>13. Held(c)'
    BY <2>8, <2>12, Zenon DEF Held, Reports
  <2>14. Reported(c)'
    BY <2>8, Zenon DEF Reported, Reports, LastWord
  <2>15. Recorded(c)'
    BY <1>4 DEF CommandInv, Recorded, Claimed, Durable
  <2> QED
    BY <2>10, <2>11, <2>13, <2>14, <2>15, Zenon DEF CommandInv
<1> QED
  BY <1>5, <1>6, Zenon

\* Whatever a manager does, all that is known of a command stays true.
LEMMA ManageKeeps ==
    ASSUME TypeOK, NEW k \in Link, \A d \in CommandId : CommandInv(d), Manage(k),
           NEW c \in CommandId
    PROVE  CommandInv(c)'
<1>1. CASE Poll(k) \/ Exit(k) \/ PollTimeout(k) \/ Abandon(k) \/ Unreportable(k)
  BY <1>1, QuietManager, ShrinkKeeps
<1>2. CASE Receive(k)
  BY <1>2, ReceiveKeeps
<1>3. CASE /\ ~Holds(k, c)
           /\ StartStep(k) \/ (\E ok \in BOOLEAN : EndAttempt(k, ok)) \/ FinalReport(k)
  BY <1>3, OtherCommand, ShrinkKeeps
<1>4. CASE Holds(k, c) /\ StartStep(k)
  BY <1>4, StartKeeps
<1>5. CASE Holds(k, c) /\ \E ok \in BOOLEAN : EndAttempt(k, ok)
  BY <1>5, EndKeeps
<1>6. CASE Holds(k, c) /\ FinalReport(k)
  BY <1>6, FinalKeeps
<1> QED
  BY <1>1, <1>2, <1>3, <1>4, <1>5, <1>6 DEF Manage

\* The message a server handles is a report on c that was on its way, so its job
\* is running, and the report is the truth.
LEMMA ReportFound ==
    ASSUME TypeOK, NEW c \in CommandId, CommandInv(c), NEW k \in Link, Serves(k, "update"),
           Head(toServer[k]).command = c
    PROVE  /\ toServer[k] \in Seq(Message)
           /\ 1 \in DOMAIN toServer[k] /\ Head(toServer[k]) = toServer[k][1]
           /\ UpdateOf(toServer[k][1], c) /\ Reports(k, c)
           /\ status[c] = "running"
           /\ toServer[k][1].report \in Report /\ TrueReport(c, toServer[k][1].report)
<1>1. toServer[k] \in Seq(Message)
  BY DEF TypeOK
<1>2. 1 \in DOMAIN toServer[k] /\ Head(toServer[k]) = toServer[k][1]
  BY <1>1, TailChannel DEF Serves
<1>3. UpdateOf(toServer[k][1], c) /\ Reports(k, c)
  BY <1>2 DEF Serves, UpdateOf, Reports
<1>4. toServer[k][1].report \in Report
  BY <1>2, UpdateHandled, Zenon
<1> QED
  BY <1>1, <1>2, <1>3, <1>4, Zenon DEF CommandInv, Located, Involved, Reported

\* The report that a step is running changes at most the status of that step.
LEMMA RunningKeeps ==
    ASSUME TypeOK, NEW c \in CommandId, CommandInv(c), NEW k \in Link, ServeUpdate(k),
           Head(toServer[k]).command = c,
           ReportStatus(c, k[1], AnyOrg, Head(toServer[k]).report),
           Head(toServer[k]).report.status = "running"
    PROVE  CommandInv(c)'
<1> DEFINE report == Head(toServer[k]).report
           i == report.step
<1>1. /\ report \in Report /\ TrueReport(c, report) /\ status[c] = "running"
      /\ Serves(k, "update")
  BY ReportFound, Zenon DEF ServeUpdate
<1>2. steps[c] \in Steps /\ i \in Durable(steps[c]) /\ i \in StepIndex /\ ran[c][i] # "never"
  BY <1>1, Zenon DEF TypeOK, JobsTypeOK, TrueReport, Durable, Terminal
<1>3. /\ steps'[c] = ReportedSteps(steps[c], report)
      /\ status'[c] = DeriveJobStatus(ReportedSteps(steps[c], report))
      /\ owner' = owner /\ policy' = policy
  BY Zenon DEF ReportStatus, TypeOK, JobsTypeOK
<1>4. ReportedSteps(steps[c], report) = [steps[c] EXCEPT ![i].status = "running"]
  BY Zenon DEF ReportedSteps, Terminal
<1>5. /\ steps'[c][i].status = "running" /\ steps'[c][i].command = steps[c][i].command
      /\ \A j \in StepIndex : j # i => steps'[c][j] = steps[c][j]
  <2>1. steps[c][i] \in Step /\ DOMAIN steps[c] = StepIndex
    BY <1>2 DEF Steps
  <2>2. steps'[c] = [steps[c] EXCEPT ![i] = [steps[c][i] EXCEPT !.status = "running"]]
    BY <1>3, <1>4, Zenon
  <2> HIDE DEF i
  <2>3. /\ steps'[c][i] = [steps[c][i] EXCEPT !.status = "running"]
        /\ \A j \in StepIndex : j # i => steps'[c][j] = steps[c][j]
    BY <1>2, <2>1, <2>2
  <2> QED
    BY <2>1, <2>3, Zenon DEF Step
<1>6. Durable(steps[c])' = Durable(steps[c])
  BY <1>2, <1>5, Zenon DEF Durable
<1>7. DispatchedJob(c)' = DispatchedJob(c)
  BY <1>3, <1>5, <1>6, Zenon DEF DispatchedJob, Durable
<1>8. status'[c] = "running"
  BY <1>2, <1>3, <1>5, <1>6, Zenon DEF DeriveJobStatus, Durable, Terminal
<1>9. WorkUnchanged(c)
  BY <1>1, <1>3, <1>6, <1>7, <1>8, Zenon DEF WorkUnchanged
<1>10. ran' = ran /\ starts' = starts /\ manager' = manager /\ toWorker' = toWorker
  BY Zenon DEF ServeUpdate, workerVars
<1>11. Recedes(c)
  BY <1>1, <1>10, ServesShrinks, SameJobs DEF Recedes
<1>12. Recorded(c)'
  <2>1. \A j \in Durable(steps[c]) : /\ steps'[c][j].status \in {"pending", "running"}
                                     /\ steps'[c][j].status = "running" => ran[c][j] # "never"
    BY <1>1, <1>2, <1>5, Zenon DEF CommandInv, Recorded, Durable
  <2> QED
    BY <1>6, <1>8, <1>10, <2>1, Zenon DEF CommandInv, Recorded, Claimed, Reportable, Terminal
<1> QED
  BY <1>9, <1>11, <1>12, PlacesKept DEF CommandInv

\* The final report ends the job: it is the last that any link has of it, and
\* leaves on record what happened on the device.
LEMMA TerminalKeeps ==
    ASSUME TypeOK, NEW c \in CommandId, CommandInv(c), NEW k \in Link, ServeUpdate(k),
           Head(toServer[k]).command = c,
           ReportStatus(c, k[1], AnyOrg, Head(toServer[k]).report),
           Head(toServer[k]).report.status # "running"
    PROVE  CommandInv(c)'
<1> DEFINE s == toServer[k]
           report == Head(s).report
<1>1. /\ report \in Report /\ TrueReport(c, report) /\ s \in Seq(Message) /\ s # <<>>
      /\ 1 \in DOMAIN s /\ Head(s) = s[1] /\ UpdateOf(s[1], c) /\ Reports(k, c)
      /\ Serves(k, "update")
  BY ReportFound, Zenon DEF ServeUpdate, Serves
<1>2. /\ report.status \in Terminal /\ report.evidence.kind = "aggregate"
      /\ TrueOutcome(c, report.evidence.steps)
      /\ report.evidence \in Evidence
  BY <1>1, Zenon DEF TrueReport, Terminal, Report
<1>3. \A l \in Link : Involved(l, c) => l = k
  BY <1>1, Zenon DEF CommandInv, Located, Involved
<1>4. ~Holds(k, c) /\ ~Carries(k, c)
  BY <1>1, <1>2, Zenon DEF CommandInv, Held, Carried, Terminal
<1>5. ran' = ran /\ starts' = starts /\ manager' = manager /\ toWorker' = toWorker
  BY Zenon DEF ServeUpdate, workerVars
<1>6. \A l \in Link : ~Holds(l, c)' /\ ~Carries(l, c)'
  BY <1>3, <1>4, <1>5, Zenon DEF Involved, Holds, Busy, Carries
<1>7. \A l \in Link : ~Reports(l, c)'
  <2>1. toServer'[k] = Tail(s) /\ \A l \in Link : l # k => toServer'[l] = toServer[l]
    BY <1>1, ServesType
  <2>2. ASSUME NEW j \in DOMAIN Tail(s) PROVE ~UpdateOf(Tail(s)[j], c)
    <3>1. j + 1 \in DOMAIN s /\ Tail(s)[j] = s[j + 1] /\ ~(j + 1 <= 1)
      BY <1>1, <2>2, TailChannel, ZenonT(30)
    <3>2. LastWord(s, c)
      BY DEF CommandInv, Reported
    <3> QED
      BY <1>1, <1>2, <3>1, <3>2, Zenon DEF LastWord
  <2> QED
    BY <1>3, <2>1, <2>2, Zenon DEF Reports, Involved
<1>8. Located(c)' /\ Held(c)'
  BY <1>6, <1>7, Zenon DEF Located, Held, Involved
<1>9. Carried(c)'
  BY <1>6, Zenon DEF Carried, Carries, Brings, BringsOnce
<1>10. Reported(c)'
  BY <1>7 DEF Reported, Reports, LastWord
<1>11. /\ steps'[c] = ProjectedSteps(steps[c], report.evidence)
       /\ status'[c] = DeriveJobStatus(steps'[c])
  BY <1>2, Zenon DEF ReportStatus, ReportedSteps, TypeOK, JobsTypeOK
<1>12. Durable(steps'[c]) = Durable(steps[c])
  <2>1. steps[c] \in Steps /\ report.step \in Durable(steps[c])
    BY <1>1, Zenon DEF TypeOK, JobsTypeOK, TrueReport
  <2>2. steps'[c] = ReportedSteps(steps[c], report)
    BY <1>2, <1>11 DEF ReportedSteps
  <2> HIDE DEF report
  <2> QED
    BY <1>1, <2>1, <2>2, ReportedDurable
<1>13. ASSUME NEW j \in Durable(steps[c])
       PROVE  /\ steps'[c][j].status = IF ran[c][j] = "never" THEN "cancelled" ELSE ran[c][j]
              /\ steps'[c][j].status \in Terminal
  <2>1. j \in StepIndex /\ steps[c][j] \in Step
    BY Zenon DEF Durable, TypeOK, JobsTypeOK, Steps
  <2>2. steps'[c][j].status = ProjectedStatus(report.evidence, j)
    BY <1>11, <2>1 DEF ProjectedSteps, Step
  <2>3. report.evidence.steps[j] \in Terminal \cup {"unreported"}
    BY <1>2, <2>1, Zenon DEF Evidence, Outcomes
  <2>4. ran[c][j] = IF report.evidence.steps[j] = "unreported" THEN "never"
                                                             ELSE report.evidence.steps[j]
    BY <1>2, Zenon DEF TrueOutcome
  <2> QED
    BY <2>2, <2>3, <2>4, Zenon DEF ProjectedStatus, Terminal
<1>14. status'[c] \in Terminal
  BY <1>11, <1>12, <1>13, DeriveTerminal, Zenon
<1>15. Recorded(c)'
  BY <1>5, <1>12, <1>13, <1>14, ZenonT(30) DEF CommandInv, Recorded, Claimed, Reportable, Terminal
<1> QED
  BY <1>8, <1>9, <1>10, <1>15, Zenon DEF CommandInv

\* Whatever the server does, all that is known of a command stays true.
LEMMA ServeKeeps ==
    ASSUME TypeOK, QueueInv, NEW k \in Link, Serve(k), NEW c \in CommandId, CommandInv(c)
    PROVE  CommandInv(c)'
<1>1. CASE ServePollNothing(k) \/ ServeUpdateLost(k)
  BY <1>1, QuietServe, ShrinkKeeps
<1>2. ASSUME NEW d \in CommandId, ServePoll(k, d) \/ ServePollLost(k, d) PROVE CommandInv(c)'
  <2>1. CASE d = c
    BY <1>2, <2>1, ClaimKeeps
  <2>2. CASE d # c
    BY <1>2, <2>2, QuietServe, ShrinkKeeps
  <2> QED
    BY <2>1, <2>2
<1>3. CASE ServeUpdate(k)
  <2> DEFINE m == Head(toServer[k])
  <2>1. CASE UNCHANGED jobVars
    BY <1>3, <2>1, RowsSame, QuietServe, ShrinkKeeps
  <2>2. CASE ReportStatus(m.command, k[1], AnyOrg, m.report) /\ m.command # c
    <3>1. RowsUnchanged(c)
      BY <2>2, Zenon DEF ReportStatus, RowsUnchanged, TypeOK, JobsTypeOK
    <3> QED
      BY <1>3, <3>1, QuietServe, ShrinkKeeps
  <2>3. CASE ReportStatus(m.command, k[1], AnyOrg, m.report) /\ m.command = c
    BY <1>3, <2>3, RunningKeeps, TerminalKeeps, Zenon
  <2> QED
    BY <1>3, <2>1, <2>2, <2>3 DEF ServeUpdate
<1> QED
  BY <1>1, <1>2, <1>3 DEF Serve

--------------------------------------------------------------------------------
(* The invariant                                                           *)

\* Before anything happened no command is anywhere.
LEMMA DispatchInit == Init => DispatchInv
<1> SUFFICES ASSUME Init PROVE DispatchInv
  OBVIOUS
<1>1. JobsTypeOK
  BY InitType DEF Init
<1>2. TypeOK
  <2>1. Off \in Manager /\ <<>> \in Seq(Message) /\ <<>> \in Seq(Response)
    BY ManagerType
  <2>2. faults \in 0..MaxFaults
    BY BoundsAssumption DEF Init
  <2> QED
    BY <1>1, <2>1, <2>2 DEF Init, TypeOK
<1>3. QueueInv
  BY <1>1 DEF Init, JobsInit, QueueInv, Claimed, Unclaimed, Reportable, Terminal
<1>4. ASSUME NEW k \in Link
      PROVE  /\ toServer[k] = <<>> /\ toWorker[k] = <<>> /\ manager[k] = Off /\ faults = 0
             /\ DOMAIN toServer[k] = {} /\ DOMAIN toWorker[k] = {}
  BY DEF Init
<1>5. ASSUME NEW c \in CommandId PROVE CommandInv(c)
  <2>1. \A k \in Link : ~Carries(k, c) /\ ~Holds(k, c) /\ ~Reports(k, c)
    BY <1>4, RestingPhase, Zenon DEF Carries, Holds, Busy, Reports
  <2>2. Located(c) /\ Held(c)
    BY <2>1 DEF Located, Held, Involved
  <2>3. Carried(c) /\ Reported(c)
    BY <1>4, <2>1, Zenon DEF Carried, Reported, BringsOnce, LastWord
  <2>4. Recorded(c)
    BY DEF Recorded, Init, JobsInit, Claimed, Reportable, Terminal
  <2> QED
    BY <2>2, <2>3, <2>4 DEF CommandInv
<1> QED
  BY <1>2, <1>3, <1>5 DEF DispatchInv

\* Each step of the consumer, of a manager, of the server, of a connection and
\* each crash keeps the invariant.
LEMMA DispatchStep ==
    ASSUME StableSteps, FreshSteps, DispatchInv, [Next]_vars
    PROVE  DispatchInv'
<1>1. /\ TypeOK /\ QueueInv /\ \A c \in CommandId : CommandInv(c)
  BY DEF DispatchInv
<1>2. QueueInv'
  BY <1>1, QueueStep, QueueInvStep
<1>3. ASSUME NEW r \in Requests, Consume(r) PROVE DispatchInv'
  <2>1. TypeOK'
    BY <1>1, <1>3, ConsumeType
  <2>2. ASSUME NEW c \in CommandId PROVE CommandInv(c)'
    <3>1. CASE r.commandId = c => Claimed(c)
      BY <1>1, <1>3, <3>1, QuietConsume, ShrinkKeeps
    <3>2. CASE r.commandId = c /\ ~Claimed(c)
      BY <1>1, <1>3, <3>2, ConsumeWaiting
    <3> QED
      BY <3>1, <3>2, Zenon
  <2> QED
    BY <1>2, <2>1, <2>2 DEF DispatchInv
<1>4. ASSUME NEW k \in Link, Manage(k) PROVE DispatchInv'
  <2>1. TypeOK'
    BY <1>1, <1>4, ManageType
  <2>2. \A c \in CommandId : CommandInv(c)'
    BY <1>1, <1>4, ManageKeeps
  <2> QED
    BY <1>2, <2>1, <2>2 DEF DispatchInv
<1>5. ASSUME NEW k \in Link, Serve(k) PROVE DispatchInv'
  <2>1. TypeOK'
    BY <1>1, <1>5, ServeType
  <2>2. \A c \in CommandId : CommandInv(c)'
    BY <1>1, <1>5, ServeKeeps, Zenon
  <2> QED
    BY <1>2, <2>1, <2>2 DEF DispatchInv
<1>6. ASSUME NEW k \in Link, Connect(k) \/ Break(k) \/ Notice(k) \/ SocketEnd(k)
      PROVE  DispatchInv'
  <2>1. TypeOK'
    BY <1>1, <1>6, ConnectionType, Zenon
  <2>2. \A c \in CommandId : CommandInv(c)'
    BY <1>1, <1>6, QuietConnection, ShrinkKeeps
  <2> QED
    BY <1>2, <2>1, <2>2 DEF DispatchInv
<1>7. ASSUME NEW a \in Agent, Crash(a) PROVE DispatchInv'
  <2>1. TypeOK'
    BY <1>1, <1>7, CrashType
  <2>2. \A c \in CommandId : CommandInv(c)'
    BY <1>1, <1>7, QuietCrash, ShrinkKeeps
  <2> QED
    BY <1>2, <2>1, <2>2, Zenon DEF DispatchInv
<1>8. CASE UNCHANGED vars
  <2>1. UNCHANGED <<status, owner, dedupe, policy, steps, link, toServer, toWorker, manager,
                    faults, ran, starts>>
    BY <1>8, Zenon DEF vars, jobVars, workerVars, channelVars
  <2>2. TypeOK'
    BY <1>1, <2>1 DEF TypeOK, JobsTypeOK
  <2>3. \A c \in CommandId : CommandInv(c)'
    <3>1. \A c \in CommandId : Shrinks(c)
      BY <1>1, <2>1, SameReports, SameJobs DEF Shrinks, Recedes, RowsUnchanged
    <3> QED
      BY <1>1, <3>1, ShrinkKeeps, Zenon
  <2> QED
    BY <1>2, <2>2, <2>3, Zenon DEF DispatchInv
<1> QED
  BY <1>3, <1>4, <1>5, <1>6, <1>7, <1>8 DEF Next

\* Wherever a command is, it is on one link of the agent it was claimed for, as
\* stored, and what its manager, its reports and its rows say of its steps is
\* what happened on the device: the invariant all else follows from.
THEOREM DispatchInvariant == StableSteps /\ FreshSteps => (Spec => []DispatchInv)
<1> SUFFICES ASSUME StableSteps, FreshSteps PROVE Spec => []DispatchInv
  OBVIOUS
<1>1. DispatchInv /\ [Next]_vars => DispatchInv'
  BY DispatchStep
<1> QED
  BY <1>1, DispatchInit, PTL DEF Spec

--------------------------------------------------------------------------------
(* What the system promises                                                *)

\* Rows, channels and managers hold values of their types, and a response brings
\* at most one job, for any number of connections and faults.
THEOREM DispatchTypes == StableSteps /\ FreshSteps => (Spec => []TypeOK)
<1> SUFFICES ASSUME StableSteps, FreshSteps PROVE Spec => []TypeOK
  OBVIOUS
<1>1. DispatchInv => TypeOK
  BY Zenon DEF DispatchInv
<1> QED
  BY <1>1, DispatchInvariant, PTL

\* No step of a command is begun twice, whatever is lost, redelivered, cut off or
\* restarted: the claim hands a command out once, and only its holder runs it.
THEOREM BegunOnce == StableSteps /\ FreshSteps => (Spec => []ExecutedOnce)
<1> SUFFICES ASSUME StableSteps, FreshSteps PROVE Spec => []ExecutedOnce
  OBVIOUS
<1>1. DispatchInv => ExecutedOnce
  BY Zenon DEF DispatchInv, CommandInv, Recorded, ExecutedOnce
<1> QED
  BY <1>1, DispatchInvariant, PTL

\* What a manager executes is the stored work of a job claimed for its agent,
\* however often the event of the command is redelivered meanwhile.
THEOREM StoredWorkExecuted == StableSteps /\ FreshSteps => (Spec => []ExecutesStoredWork)
<1> SUFFICES ASSUME StableSteps, FreshSteps PROVE Spec => []ExecutesStoredWork
  OBVIOUS
<1>1. ASSUME DispatchInv, NEW k \in Link, Busy(k)
      PROVE  LET job == manager[k].job
             IN  /\ Claimed(job.command) /\ owner[job.command].agent = k[1]
                 /\ job = DispatchedJob(job.command)
  <2> DEFINE c == manager[k].job.command
  <2>1. c \in CommandId /\ Holds(k, c)
    BY <1>1, NextStep DEF DispatchInv, Holds
  <2>2. CommandInv(c)
    BY <1>1, <2>1 DEF DispatchInv
  <2>3. status[c] = "running" /\ owner[c].agent = k[1]
    BY <2>1, <2>2, Zenon DEF CommandInv, Located, Involved
  <2>4. manager[k].job = DispatchedJob(c)
    BY <2>1, <2>2, Zenon DEF CommandInv, Held, Progress
  <2> QED
    BY <2>3, <2>4, ZenonT(30) DEF Claimed, Reportable
<1>2. DispatchInv => ExecutesStoredWork
  BY <1>1, Zenon DEF ExecutesStoredWork
<1> QED
  BY <1>2, DispatchInvariant, PTL

\* A durable outcome is what happened on the device: completed and failed steps
\* ended that way, running ones were started, and cancelled ones never were.
THEOREM RecordsAreTrue == StableSteps /\ FreshSteps => (Spec => []OutcomesAreTrue)
<1> SUFFICES ASSUME StableSteps, FreshSteps PROVE Spec => []OutcomesAreTrue
  OBVIOUS
<1>1. ASSUME DispatchInv, NEW c \in CommandId, NEW i \in StepIndex
      PROVE  /\ steps[c][i].status \in {"completed", "failed"} => ran[c][i] = steps[c][i].status
             /\ steps[c][i].status = "running" => ran[c][i] # "never"
             /\ steps[c][i].status = "cancelled" => ran[c][i] = "never"
  <2>1. /\ Recorded(c) /\ QueueInv /\ status[c] \in JobStatus
        /\ ran[c][i] \in {"never", "started", "completed", "failed"}
    BY <1>1, Zenon DEF DispatchInv, CommandInv, TypeOK, JobsTypeOK
  <2>2. CASE i \notin Durable(steps[c])
    BY <2>2, ZenonT(30) DEF Durable
  <2>3. CASE i \in Durable(steps[c]) /\ status[c] = "none"
    BY <2>1, <2>3 DEF QueueInv, NoSteps, Durable
  <2>4. CASE i \in Durable(steps[c]) /\ status[c] \in Unclaimed
    BY <2>1, <2>4, Zenon DEF QueueInv
  <2>5. CASE i \in Durable(steps[c]) /\ status[c] = "running"
    BY <2>1, <2>5, Zenon DEF Recorded
  <2>6. CASE i \in Durable(steps[c]) /\ status[c] \in Terminal
    BY <2>1, <2>6, Zenon DEF Recorded
  <2> QED
    BY <2>1, <2>2, <2>3, <2>4, <2>5, <2>6, Zenon DEF JobStatus, Reportable
<1>2. DispatchInv => OutcomesAreTrue
  BY <1>1, Zenon DEF OutcomesAreTrue
<1> QED
  BY <1>2, DispatchInvariant, PTL

\* Why transitionRemediationStatus accepts the truth about a running job: a step
\* that was not started is on record as pending, and the outcomes add up to the
\* status reported.
LEMMA TruthAccepted ==
    ASSUME TypeOK, NEW c \in CommandId, Recorded(c), status[c] = "running",
           NEW report \in Report, TrueReport(c, report)
    PROVE  TransitionAccepted(c, report)
<1> DEFINE s == steps[c]
           ev == report.evidence
           reported == {i \in StepIndex : ev.steps[i] # "unreported"}
<1>1. /\ \A i \in Durable(s) : s[i].status \in {"pending", "running"}
      /\ report.step \in Durable(s) /\ report.status \in {"running", "completed", "failed"}
  BY Zenon DEF Recorded, TrueReport
<1>2. StepTransitionAllowed(s[report.step].status, report.status)
  BY <1>1 DEF StepTransitionAllowed, Terminal
<1>3. ASSUME report.status \in Terminal PROVE ev.kind = "aggregate" /\ ValidAggregate(s, report)
  <2>1. /\ ev.kind = "aggregate" /\ ev.steps[report.step] # "unreported"
        /\ TrueOutcome(c, ev.steps)
        /\ report.status = "completed" <=> \A i \in Durable(s) : ev.steps[i] = "completed"
        /\ report.status = "failed" <=> \E i \in StepIndex : ev.steps[i] = "failed"
    BY <1>3, Zenon DEF TrueReport, Terminal
  <2>2. /\ reported \subseteq Durable(s) /\ Durable(s) \subseteq StepIndex
        /\ report.step \in reported
    BY <1>1, <2>1, Zenon DEF TrueOutcome, Durable
  <2>3. \A i \in StepIndex : ev.steps[i] \in Terminal \cup {"unreported"}
    BY <2>1, Zenon DEF Report, Evidence, Outcomes
  <2>4. \A i \in Durable(s) : ProjectedStatus(ev, i) \in Terminal
    BY <2>2, <2>3, Zenon DEF ProjectedStatus, Terminal
  <2>5. \A i \in Durable(s) : StepTransitionAllowed(s[i].status, ProjectedStatus(ev, i))
    BY <1>1, <2>4, Zenon DEF StepTransitionAllowed
  <2>6. report.status = "completed" => reported = Durable(s)
    BY <2>1, <2>2
  <2>7. DeriveJobStatus(ProjectedSteps(s, ev)) = report.status
    <3> DEFINE t == ProjectedSteps(s, ev)
    <3>1. \A i \in Durable(s) : t[i].status = ProjectedStatus(ev, i)
      <4>1. \A i \in Durable(s) : i \in StepIndex /\ s[i] \in Step
        BY <2>2, Zenon DEF TypeOK, JobsTypeOK, Steps
      <4> QED
        BY <4>1 DEF ProjectedSteps, Step
    <3>2. \A i \in StepIndex : i \notin Durable(s) => t[i] = s[i]
      BY DEF ProjectedSteps
    <3>3. Durable(t) = Durable(s)
      <4>1. \A i \in Durable(s) : t[i].status # "absent"
        BY <2>4, <3>1, Zenon DEF Terminal
      <4> HIDE DEF t
      <4> QED
        BY <3>2, <4>1, Zenon DEF Durable
    <3> HIDE DEF t
    <3>4. \A i \in Durable(t) : t[i].status \in Terminal
      BY <2>4, <3>1, <3>3, Zenon
    <3>5. ASSUME report.status = "completed" PROVE DeriveJobStatus(t) = report.status
      <4>1. \A i \in Durable(t) : t[i].status = "completed"
        BY <2>1, <3>1, <3>3, <3>5, Zenon DEF ProjectedStatus
      <4> QED
        BY <3>4, <3>5, <4>1, Zenon DEF DeriveJobStatus
    <3>6. ASSUME report.status = "failed" PROVE DeriveJobStatus(t) = report.status
      <4>1. \E i \in Durable(t) : t[i].status = "failed"
        BY <2>1, <2>2, <3>1, <3>3, <3>6 DEF ProjectedStatus
      <4> QED
        BY <3>4, <3>6, <4>1, ZenonT(30) DEF DeriveJobStatus
    <3> QED
      BY <1>1, <1>3, <3>5, <3>6, Zenon DEF t, Terminal
  <2> QED
    BY <2>1, <2>2, <2>5, <2>6, <2>7, Zenon DEF ValidAggregate
<1> QED
  BY <1>1, <1>2, <1>3, Zenon DEF TransitionAccepted, ValidEvidence

\* Every report on its way would be accepted if it were the next one handled, by
\* the status route of the agent that sent it.
THEOREM TruthIsAccepted == StableSteps /\ FreshSteps => (Spec => []ReportsAcceptable)
<1> SUFFICES ASSUME StableSteps, FreshSteps PROVE Spec => []ReportsAcceptable
  OBVIOUS
<1>1. ASSUME DispatchInv, NEW k \in Link, NEW j \in DOMAIN toServer[k],
             toServer[k][j].type = "update"
      PROVE  LET m == toServer[k][j]
             IN  Selected(m.command, k[1], AnyOrg) /\ TransitionAccepted(m.command, m.report)
  <2> DEFINE c == toServer[k][j].command
             report == toServer[k][j].report
  <2>1. toServer[k][j] \in Message
    BY <1>1, InChannel, Zenon DEF DispatchInv, TypeOK
  <2>2. c \in CommandId /\ report \in Report
    BY <1>1, <2>1, MessageFields, Zenon
  <2>3. CommandInv(c) /\ TypeOK /\ Reports(k, c)
    BY <1>1, <2>2 DEF DispatchInv, Reports, UpdateOf
  <2>4. /\ status[c] = "running" /\ owner[c].agent = k[1] /\ owner[c].intent # PatchIntent
        /\ TrueReport(c, report) /\ Recorded(c)
    BY <1>1, <2>3, Zenon DEF CommandInv, Located, Involved, Reported, UpdateOf
  <2> QED
    BY <2>2, <2>3, <2>4, TruthAccepted, Zenon DEF Selected
<1>2. DispatchInv => ReportsAcceptable
  BY <1>1 DEF ReportsAcceptable
<1> QED
  BY <1>2, DispatchInvariant, PTL

--------------------------------------------------------------------------------
(* The system implements the queue                                         *)

\* The consumer, the workers and the server use the queue as its specification
\* allows, so that every theorem about the queue holds of the whole system.
THEOREM ImplementsQueue == StableSteps /\ FreshSteps => (Spec => JobsSpec)
<1> SUFFICES ASSUME StableSteps, FreshSteps PROVE Spec => JobsSpec
  OBVIOUS
<1>1. Init => JobsInit
  BY DEF Init
<1>2. TypeOK /\ [Next]_vars => [JobsNext]_jobVars
  BY QueueStep
<1> QED
  BY <1>1, <1>2, DispatchTypes, PTL DEF Spec, JobsSpec

\* End to end, a command is dispatched at most once and ends at most once, its
\* work is frozen when it is handed out, and a job that ended stays as it is.
THEOREM EndToEndLifecycle ==
    StableSteps /\ FreshSteps =>
        (Spec => ImplementsLifecycle /\ FrozenWork /\ TerminalFrozen)
<1> SUFFICES ASSUME StableSteps, FreshSteps
             PROVE  Spec => ImplementsLifecycle /\ FrozenWork /\ TerminalFrozen
  OBVIOUS
<1> QED
  BY ImplementsQueue, LifecycleImplemented, WorkIsFrozen, EndedIsFrozen, PTL

================================================================================
