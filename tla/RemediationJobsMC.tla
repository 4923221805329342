--------------------------- MODULE RemediationJobsMC ---------------------------
(* Instances of RemediationJobs for TLC.                                   *)
EXTENDS RemediationJobs, TLC

CONSTANTS c1, c2, k1, a1, a2, o1, o2, generic, patch, x, y, p1, p2

MCDeviceOrg == a1 :> o1 @@ a2 :> o2

Work(cmds) ==
    [i \in StepIndex |->
        IF i \in DOMAIN cmds THEN [command |-> cmds[i], status |-> "pending"]
                             ELSE NoSteps[i]]

Three == 0 :> x @@ 1 :> x @@ 2 :> y
ThreeOther == 0 :> y @@ 1 :> x @@ 2 :> y

Req(c, o, a, i, k, ok, p, w) ==
    [commandId |-> c, owner |-> [org |-> o, agent |-> a, intent |-> i], dedupe |-> k,
     approved |-> ok, policy |-> p, steps |-> w]

\* Redeliveries of one event, the same command published again with other
\* contents, and requests that collide with it on command ID, key or scope.
StableRequests ==
    { Req(c1, o1, a1, generic, k1,    TRUE,  p1, Work(Three)),
      Req(c1, o1, a1, generic, NoKey, FALSE, p2, Work(ThreeOther)),
      Req(c1, o2, a2, generic, k1,    TRUE,  p1, Work(Three)),
      Req(c2, o1, a1, generic, k1,    TRUE,  p1, Work(0 :> x)),
      Req(c2, o2, a2, generic, NoKey, TRUE,  p1, Work(0 :> x)),
      Req(c2, o1, a2, generic, NoKey, TRUE,  p1, Work(0 :> y)),
      Req(c2, o2, a2, patch,   NoKey, TRUE,  p1, Work(0 :> x)) }

\* The command is published again after its intent gained a step.
GrownRequests ==
    { Req(c1, o1, a1, generic, NoKey, TRUE, p1, Work(0 :> x)),
      Req(c1, o1, a1, generic, NoKey, TRUE, p1, Work(0 :> x @@ 1 :> y)) }

\* The requests of the main instance meet the conditions of the theorems about
\* claimed and ended jobs; the grown ones do not.
ASSUME Instances ==
    /\ Requests = StableRequests => StableSteps /\ FreshSteps
    /\ Requests = GrownRequests => ~StableSteps /\ FreshSteps

================================================================================
