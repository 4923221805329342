-------------------------- MODULE RemediationDispatch --------------------------
(***************************************************************************)
(* Generic remediation end to end: the telemetry consumer projects         *)
(* published commands into the queue of RemediationJobs, workers poll for  *)
(* them through talos_server, execute their steps and report back.         *)
(*                                                                         *)
(* A link <<a, n>> is the n-th WebSocket connection of agent a.  Each one  *)
(* has a channel in either direction and, in the worker, a remediation     *)
(* manager of its own: connect_and_run starts a manager per connection,    *)
(* and a manager whose connection has gone keeps executing until its next  *)
(* report fails.  talos_server holds no job state: it handles the messages *)
(* of a socket one after the other, each by one API call.                  *)
(*                                                                         *)
(* The enqueue hint the consumer sends after a projection only makes an    *)
(* idle manager poll before its 30 second interval is over; Poll may       *)
(* happen at any time, so the hint is not part of the state.               *)
(***************************************************************************)
EXTENDS RemediationJobs, Sequences

CONSTANTS
    MaxConn,        \* bound: connections per agent
    MaxFaults       \* bound: broken links, crashes, timeouts and failed API calls

Link == Agent \X (1..MaxConn)
RequestId == 0..MaxFaults

ASSUME BoundsAssumption == MaxConn \in Nat \ {0} /\ MaxFaults \in Nat

\* step_index is a non-negative integer.
ASSUME StepsAssumption == StepIndex \subseteq Nat

ASSUME PolicyAssumption == Policy \subseteq [stop : BOOLEAN, retries : Nat]

VARIABLES
    link,       \* link[k]: "open", "broken" (the worker has not noticed), "closed"
    toServer,   \* toServer[k]: messages the agent sent, in order
    toWorker,   \* toWorker[k]: remediation_jobs responses, in flight or in jobs_rx
    manager,    \* manager[k]: the remediation manager of the connection
    faults,     \* how many faults have happened
    ran,        \* history: ran[c][i], what became of step i on the device
    starts      \* history: starts[c][i], how often step i was begun, retries aside

workerVars == <<link, manager, ran, starts>>
channelVars == <<toServer, toWorker>>
vars == <<jobVars, workerVars, channelVars, faults>>

Poller(id) == [type |-> "poll", request |-> id]
Update(c, st, i, ev) ==
    [type |-> "update", command |-> c,
     report |-> [status |-> st, step |-> i, evidence |-> ev]]
Direct == [kind |-> "direct", steps |-> NoOutcome]

\* Mutant: the outcomes are lost when the evidence is compacted.
AggregateCompacted(outcome) == Direct

Aggregate(outcome) == [kind |-> "aggregate", steps |-> outcome]

\* i is the least, or the greatest, number of a set.
First(i, S) == i \in S /\ \A j \in S : i <= j
Last(i, S) == i \in S /\ \A j \in S : j <= i

Idle == [phase |-> "idle"]
Off == [phase |-> "off"]
Polling(id) == [phase |-> "polling", request |-> id]

\* The job as buildRemediationDispatchJobs hands it out and parse_steps reads it:
\* the durable step rows in index order, under the frozen execution policy.
DispatchedJob(c) ==
    [command |-> c, policy |-> policy[c],
     work |-> [i \in Durable(steps[c]) |-> steps[c][i].command]]

Running(job, left, outcome) ==
    [phase |-> "running", job |-> job, left |-> left, outcome |-> outcome]
Executing(job, left, outcome, attempt) ==
    [phase |-> "executing", job |-> job, left |-> left, outcome |-> outcome,
     attempt |-> attempt]

--------------------------------------------------------------------------------
(* The telemetry consumer                                                  *)

\* Delivery is at least once: a published command may be projected at any time,
\* and again.  A projection the API rejects, or never receives, changes nothing.
Consume(r) ==
    /\ Project(r)
    /\ UNCHANGED <<workerVars, channelVars, faults>>

--------------------------------------------------------------------------------
(* The worker's manager                                                    *)

\* A report on a broken link vanishes, one on a closed link fails (see below).
Send(k, message) ==
    toServer' = IF link[k] = "open" THEN [toServer EXCEPT ![k] = Append(@, message)]
                                    ELSE toServer

Becomes(k, m) == manager' = [manager EXCEPT ![k] = m]

InFlight(k) == {toServer[k][j].request : j \in {j \in DOMAIN toServer[k] :
                                                    toServer[k][j].type = "poll"}}
                 \cup {toWorker[k][j].request : j \in DOMAIN toWorker[k]}

Poll(k) ==
    /\ manager[k].phase = "idle"
    /\ link[k] # "closed"
    /\ \E id \in RequestId :
          /\ First(id, RequestId \ InFlight(k))       \* a fresh UUID
          /\ Becomes(k, Polling(id)) /\ Send(k, Poller(id))
    /\ UNCHANGED <<jobVars, link, ran, starts, toWorker, faults>>

\* Without its connection a manager's wake channel is closed: it stops.
Exit(k) ==
    /\ manager[k].phase \in {"idle", "polling"}
    /\ link[k] = "closed"
    /\ Becomes(k, Off)
    /\ UNCHANGED <<jobVars, link, ran, starts, channelVars, faults>>

\* The answer may still come: the next poll finds it in jobs_rx.
PollTimeout(k) ==
    /\ manager[k].phase = "polling"
    /\ faults < MaxFaults
    /\ Becomes(k, Idle)
    /\ faults' = faults + 1
    /\ UNCHANGED <<jobVars, link, ran, starts, channelVars>>

\* A response to an earlier poll is discarded, with the job in it.
Receive(k) ==
    /\ manager[k].phase = "polling"
    /\ toWorker[k] # <<>>
    /\ LET response == Head(toWorker[k])
       IN  IF response.request # manager[k].request THEN manager' = manager
           ELSE IF response.jobs = {} THEN Becomes(k, Idle)
           ELSE LET job == CHOOSE job \in response.jobs : TRUE
                IN  Becomes(k, Running(job, DOMAIN job.work, NoOutcome))
    /\ toWorker' = [toWorker EXCEPT ![k] = Tail(@)]
    /\ UNCHANGED <<jobVars, link, ran, starts, toServer, faults>>

StartStep(k) ==
    LET m == manager[k]
    IN  /\ m.phase = "running"
        /\ link[k] # "closed"
        /\ \E i \in StepIndex :
              /\ First(i, m.left)
              /\ Send(k, Update(m.job.command, "running", i, Direct))
              /\ Becomes(k, Executing(m.job, m.left, m.outcome, 0))
              /\ ran' = [ran EXCEPT ![m.job.command][i] = "started"]
              /\ starts' = [starts EXCEPT ![m.job.command][i] = @ + 1]
        /\ UNCHANGED <<jobVars, link, toWorker, faults>>

\* One run of a step's command ends, by itself or at its time limit: it is run
\* again, or its outcome is kept and the job goes on, or stops.
EndAttempt(k, ok) ==
    LET m == manager[k]
        end == IF ok THEN "completed" ELSE "failed"
        Left(i) == IF ~ok /\ m.job.policy.stop THEN {} ELSE m.left \ {i}
    IN  /\ m.phase = "executing"
        /\ \/ /\ ~ok /\ m.attempt < m.job.policy.retries
              /\ Becomes(k, Executing(m.job, m.left, m.outcome, m.attempt + 1))
              /\ ran' = ran
           \/ /\ ok \/ m.attempt >= m.job.policy.retries
              /\ \E i \in StepIndex :
                    /\ First(i, m.left)
                    /\ Becomes(k, Running(m.job, Left(i), [m.outcome EXCEPT ![i] = end]))
                    /\ ran' = [ran EXCEPT ![m.job.command][i] = end]
        /\ UNCHANGED <<jobVars, link, starts, channelVars, faults>>

Executed(m) == {i \in StepIndex : m.outcome[i] # "unreported"}

FinalReport(k) ==
    LET m == manager[k]
        end == IF \A i \in Executed(m) : m.outcome[i] = "completed" THEN "completed" ELSE "failed"
    IN  /\ m.phase = "running" /\ m.left = {}
        /\ link[k] # "closed"
        /\ \E last \in StepIndex :
              /\ Last(last, Executed(m))
              /\ Send(k, Update(m.job.command, end, last, Aggregate(m.outcome)))
        /\ Becomes(k, Idle)
        /\ UNCHANGED <<jobVars, link, ran, starts, toWorker, faults>>

\* Mutant: the manager waits for its own connection to come back.
AbandonNever(k) ==
    /\ manager[k].phase = "running"
    /\ link[k] = "closed"
    /\ UNCHANGED vars

\* The report before a step or after the last one cannot be queued, because the
\* connection is gone: the job is abandoned.
Abandon(k) ==
    /\ manager[k].phase = "running"
    /\ link[k] = "closed"
    /\ Becomes(k, Idle)
    /\ UNCHANGED <<jobVars, link, ran, starts, channelVars, faults>>

\* The evidence exceeds the API limit even without any output: no final report.
Unreportable(k) ==
    /\ manager[k].phase = "running" /\ manager[k].left = {}
    /\ faults < MaxFaults
    /\ Becomes(k, Idle)
    /\ faults' = faults + 1
    /\ UNCHANGED <<jobVars, link, ran, starts, channelVars>>

--------------------------------------------------------------------------------
(* talos_server, one message of a socket at a time                         *)

Serves(k, type) ==
    /\ toServer[k] # <<>>
    /\ Head(toServer[k]).type = type
    /\ toServer' = [toServer EXCEPT ![k] = Tail(@)]

Respond(k, jobs) ==
    toWorker' = IF link[k] = "open"
                THEN [toWorker EXCEPT ![k] =
                        Append(@, [request |-> Head(toServer[k]).request, jobs |-> jobs])]
                ELSE toWorker

\* The worker asks for one job.  The claim commits before the answer is sent.
ServePoll(k, c) ==
    /\ Serves(k, "poll")
    /\ Claim(k[1], {c})
    /\ Respond(k, {DispatchedJob(c)})
    /\ UNCHANGED <<workerVars, faults>>

\* No job can be claimed, or other transactions hold the rows.
ServePollNothing(k) ==
    /\ Serves(k, "poll")
    /\ Respond(k, {})
    /\ UNCHANGED <<jobVars, workerVars, faults>>

\* The claim commits but its HTTP answer does not arrive: the server sends an
\* empty job list.
ServePollLost(k, c) ==
    /\ Serves(k, "poll")
    /\ faults < MaxFaults
    /\ Claim(k[1], {c})
    /\ Respond(k, {})
    /\ faults' = faults + 1
    /\ UNCHANGED <<workerVars>>

ServeUpdate(k) ==
    /\ Serves(k, "update")
    /\ LET m == Head(toServer[k])
       IN  \/ ReportStatus(m.command, k[1], AnyOrg, m.report)
           \/ /\ ~(Selected(m.command, k[1], AnyOrg)
                     /\ TransitionAccepted(m.command, m.report))
              /\ UNCHANGED jobVars
    /\ UNCHANGED <<workerVars, toWorker, faults>>

\* The API cannot be reached: the server logs the failure and goes on.
ServeUpdateLost(k) ==
    /\ Serves(k, "update")
    /\ faults < MaxFaults
    /\ faults' = faults + 1
    /\ UNCHANGED <<jobVars, workerVars, toWorker>>

--------------------------------------------------------------------------------
(* Connections                                                             *)

\* connect_and_run is one loop: a connection is opened after the last one ended.
Connect(k) ==
    /\ link[k] = "unopened"
    /\ \A n \in 1..(k[2] - 1) : link[<<k[1], n>>] = "closed"
    /\ link' = [link EXCEPT ![k] = "open"]
    /\ Becomes(k, Idle)
    /\ UNCHANGED <<jobVars, channelVars, ran, starts, faults>>

\* What may arrive of a channel whose link breaks.
Beginnings(channel) == {SubSeq(channel, 1, n) : n \in 0..Len(channel)}

\* The network or talos_server fails: of what is on its way to the worker only a
\* part arrives; SocketEnd loses the rest of what is on its way to the server.
Break(k) ==
    /\ link[k] = "open"
    /\ faults < MaxFaults
    /\ link' = [link EXCEPT ![k] = "broken"]
    /\ \E arrived \in Beginnings(toWorker[k]) : toWorker' = [toWorker EXCEPT ![k] = arrived]
    /\ faults' = faults + 1
    /\ UNCHANGED <<jobVars, manager, ran, starts, toServer>>

\* Mutant: the worker does not notice that its connection is dead.
NoticeNever(k) == link[k] = "broken" /\ UNCHANGED vars

\* connect_and_run returns and drops its ends of the channels.
Notice(k) ==
    /\ link[k] = "broken"
    /\ link' = [link EXCEPT ![k] = "closed"]
    /\ UNCHANGED <<jobVars, manager, ran, starts, channelVars, faults>>

\* handle_socket ends without reading the messages that remain.
SocketEnd(k) ==
    /\ link[k] \in {"broken", "closed"}
    /\ toServer[k] # <<>>
    /\ toServer' = [toServer EXCEPT ![k] = <<>>]
    /\ UNCHANGED <<jobVars, workerVars, toWorker, faults>>

\* The worker process dies, with every manager in it.
Crash(a) ==
    /\ faults < MaxFaults
    /\ \E k \in Link : k[1] = a /\ manager[k].phase # "off"
    /\ manager' = [k \in Link |-> IF k[1] = a THEN Off ELSE manager[k]]
    /\ link' = [k \in Link |->
                  IF k[1] = a /\ link[k] # "unopened" THEN "closed" ELSE link[k]]
    /\ toWorker' = [k \in Link |-> IF k[1] = a THEN <<>> ELSE toWorker[k]]
    /\ faults' = faults + 1
    /\ UNCHANGED <<jobVars, ran, starts, toServer>>

--------------------------------------------------------------------------------

Init ==
    /\ JobsInit
    /\ link = [k \in Link |-> "unopened"]
    /\ toServer = [k \in Link |-> <<>>]
    /\ toWorker = [k \in Link |-> <<>>]
    /\ manager = [k \in Link |-> Off]
    /\ faults = 0
    /\ ran = [c \in CommandId |-> [i \in StepIndex |-> "never"]]
    /\ starts = [c \in CommandId |-> [i \in StepIndex |-> 0]]

Manage(k) ==
    \/ Poll(k) \/ Exit(k) \/ PollTimeout(k) \/ Receive(k)
    \/ StartStep(k) \/ (\E ok \in BOOLEAN : EndAttempt(k, ok))
    \/ FinalReport(k) \/ Abandon(k) \/ Unreportable(k)

Serve(k) ==
    \/ \E c \in CommandId : ServePoll(k, c) \/ ServePollLost(k, c)
    \/ ServePollNothing(k) \/ ServeUpdate(k) \/ ServeUpdateLost(k)

Next ==
    \/ \E r \in Requests : Consume(r)
    \/ \E k \in Link : Manage(k) \/ Serve(k)
    \/ \E k \in Link : Connect(k) \/ Break(k) \/ Notice(k) \/ SocketEnd(k)
    \/ \E a \in Agent : Crash(a)

Spec == Init /\ [][Next]_vars

\* Every process is scheduled: the consumer retries its messages, a manager's
\* interval ticks, shell commands have a time limit, sockets are read, and the
\* worker reconnects.  A row is locked only for the length of a transaction, so
\* a job that stays claimable is in the end found unlocked by a poll.
Fairness ==
    /\ \A r \in Requests : WF_vars(Consume(r))
    /\ \A k \in Link :
          /\ WF_vars(Connect(k)) /\ WF_vars(Notice(k))
          /\ WF_vars(Poll(k)) /\ WF_vars(Receive(k)) /\ WF_vars(Exit(k))
          /\ WF_vars(StartStep(k)) /\ WF_vars(\E ok \in BOOLEAN : EndAttempt(k, ok))
          /\ WF_vars(FinalReport(k)) /\ WF_vars(Abandon(k))
          /\ WF_vars(ServePollNothing(k)) /\ WF_vars(ServeUpdate(k))
    /\ \A a \in Agent :
          SF_vars(\E k \in Link, c \in CommandId : k[1] = a /\ ServePoll(k, c))

FairSpec == Spec /\ Fairness

--------------------------------------------------------------------------------
(* Properties                                                              *)

Busy(k) == manager[k].phase \in {"running", "executing"}

Job == [command : CommandId, policy : Policy,
        work : UNION {[S -> Command \cup {NoCommand}] : S \in SUBSET StepIndex}]
Message == [type : {"poll"}, request : RequestId]
               \cup [type : {"update"}, command : CommandId, report : Report]
Response == [request : RequestId, jobs : {js \in SUBSET Job : \A p, q \in js : p = q}]
Manager == [phase : {"off", "idle"}]
               \cup [phase : {"polling"}, request : RequestId]
               \cup [phase : {"running"}, job : Job, left : SUBSET StepIndex, outcome : Outcomes]
               \cup [phase : {"executing"}, job : Job, left : SUBSET StepIndex,
                     outcome : Outcomes, attempt : Nat]

\* The rows, channels and managers hold values of their types, and a response
\* brings at most one job.
TypeOK ==
    /\ JobsTypeOK
    /\ link \in [Link -> {"unopened", "open", "broken", "closed"}]
    /\ toServer \in [Link -> Seq(Message)]
    /\ toWorker \in [Link -> Seq(Response)]
    /\ manager \in [Link -> Manager]
    /\ faults \in 0..MaxFaults
    /\ ran \in [CommandId -> [StepIndex -> {"never", "started", "completed", "failed"}]]
    /\ starts \in [CommandId -> [StepIndex -> Nat]]

\* A step of a command is begun at most once, by whichever manager: not again
\* after a timeout, a lost answer, a reconnection, a restart of the worker or a
\* redelivery of its event.
ExecutedOnce == \A c \in CommandId, i \in StepIndex : starts[c][i] <= 1

\* What a manager executes is the stored work of a job claimed for its agent:
\* no redelivered projection changes the commands or the policy of a job that
\* has been handed out, while it is on its way or being executed.
ExecutesStoredWork ==
    \A k \in Link : Busy(k) =>
        LET job == manager[k].job
        IN  /\ Claimed(job.command)
            /\ owner[job.command].agent = k[1]
            /\ job = DispatchedJob(job.command)

\* A durable outcome is what happened on the device: a step on record as
\* completed or failed ended that way, one on record as running was started,
\* and one the API cancelled as not executed was indeed never started.
OutcomesAreTrue ==
    \A c \in CommandId, i \in StepIndex :
        /\ steps[c][i].status \in {"completed", "failed"} => ran[c][i] = steps[c][i].status
        /\ steps[c][i].status = "running" => ran[c][i] # "never"
        /\ steps[c][i].status = "cancelled" => ran[c][i] = "never"

\* Every report on its way would be accepted if it were the next one handled:
\* lost reports before it, redelivered projections and reconnections never make
\* transitionRemediationStatus reject the truth.
ReportsAcceptable ==
    \A k \in Link : \A j \in DOMAIN toServer[k] :
        LET m == toServer[k][j]
        IN  m.type = "update" =>
                Selected(m.command, k[1], AnyOrg) /\ TransitionAccepted(m.command, m.report)

\* In a behaviour without faults every command that needs no approval is
\* executed and its outcome recorded.
EveryCommandEnds ==
    [](faults = 0) => <>(\A r \in Requests : status[r.commandId] \in Terminal)

\* Work that may be claimed does not stay in the queue, whatever faults
\* happened before: the worker reconnects and polls.
QueuedIsClaimed ==
    \A c \in CommandId :
        (status[c] = "queued") ~> (status[c] # "queued")

\* No manager hangs in a job: it reports, or gives up, and polls again or exits.
ManagersFinish == \A k \in Link : Busy(k) ~> ~Busy(k)

================================================================================
