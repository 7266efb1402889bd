---------------------------- MODULE JobLifecycle ----------------------------
(***************************************************************************)
(* What the evaluation queue promises about one job, without lists, keys   *)
(* or workers: a job is published once, tried at most MaxAttempts times,   *)
(* ends completed or failed, and an interruption by a crash sends it back  *)
(* to the queue or, when its attempts are used up, to failed.              *)
(* Delivery is at least once: an interruption may strike after an outcome. *)
(***************************************************************************)
EXTENDS Naturals

CONSTANTS Jobs, MaxAttempts

VARIABLES state, tries

Init ==
    /\ state = [j \in Jobs |-> "absent"]
    /\ tries = [j \in Jobs |-> 0]

Publish(j) ==
    /\ state[j] = "absent"
    /\ state' = [state EXCEPT ![j] = "queued"]
    /\ UNCHANGED tries

Start(j) ==
    /\ state[j] = "queued" /\ tries[j] < MaxAttempts
    /\ state' = [state EXCEPT ![j] = "running"]
    /\ tries' = [tries EXCEPT ![j] = @ + 1]

Complete(j) ==
    /\ state[j] = "running"
    /\ state' = [state EXCEPT ![j] = "completed"]
    /\ UNCHANGED tries

\* A failed attempt, or one that is interrupted before or after its outcome
\* was saved: the next state depends only on the attempts that are left.
GiveBack(j) ==
    /\ state[j] # "absent"
    /\ state' = [state EXCEPT ![j] =
                    IF tries[j] < MaxAttempts THEN "queued" ELSE "failed"]
    /\ UNCHANGED tries

Next == \E j \in Jobs : Publish(j) \/ Start(j) \/ Complete(j) \/ GiveBack(j)

Spec == Init /\ [][Next]_<<state, tries>>
=============================================================================
