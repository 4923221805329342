----------------------------- MODULE JobLifecycle -----------------------------
(***************************************************************************)
(* What the remediation queue promises about one command, however often it *)
(* is projected, polled for and reported on: it waits, it is dispatched at *)
(* most once, and it then ends at most once, for good.  ADR-0005 states    *)
(* this contract; RemediationJobs is shown to implement it.                *)
(***************************************************************************)
CONSTANT CommandId

VARIABLE phase

Ended == {"completed", "failed", "cancelled"}

Init == phase = [c \in CommandId |-> "none"]

Submit(c) ==
    /\ phase[c] = "none"
    /\ phase' = [phase EXCEPT ![c] = "waiting"]

\* One claim may dispatch several commands.
Dispatch(claimed) ==
    /\ \A c \in claimed : phase[c] = "waiting"
    /\ phase' = [c \in CommandId |-> IF c \in claimed THEN "running" ELSE phase[c]]

Finish(c) ==
    /\ phase[c] = "running"
    /\ \E end \in Ended : phase' = [phase EXCEPT ![c] = end]

Next ==
    \/ \E c \in CommandId : Submit(c) \/ Finish(c)
    \/ \E claimed \in SUBSET CommandId : Dispatch(claimed)

Spec == Init /\ [][Next]_phase

================================================================================
