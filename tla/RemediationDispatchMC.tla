------------------------- MODULE RemediationDispatchMC -------------------------
(* Instances of RemediationDispatch for TLC.                               *)
EXTENDS RemediationDispatch, TLC

CONSTANTS c1, c2, k1, a1, o1, generic, patch, x, y

MCDeviceOrg == a1 :> o1
MCPolicy == {[stop |-> TRUE, retries |-> 1], [stop |-> FALSE, retries |-> 0]}

Req(c, k, ok, p, cmds) ==
    [commandId |-> c, owner |-> [org |-> o1, agent |-> a1, intent |-> generic],
     dedupe |-> k, approved |-> ok, policy |-> p,
     steps |-> [i \in StepIndex |->
                  IF i \in DOMAIN cmds THEN [command |-> cmds[i], status |-> "pending"]
                                       ELSE NoSteps[i]]]

Stop == [stop |-> TRUE, retries |-> 1]
GoOn == [stop |-> FALSE, retries |-> 0]

\* One event per command.
Events == {Req(c1, k1, TRUE, Stop, 0 :> x @@ 1 :> y), Req(c2, NoKey, TRUE, GoOn, 0 :> y)}

\* c1 is published a second time, with other contents.
Republished == Events \cup {Req(c1, NoKey, TRUE, GoOn, 0 :> y @@ 1 :> y)}

================================================================================
