------------------------- MODULE EvaluationHandler -------------------------
(***************************************************************************)
(* What one run of the evaluation handler promises to the queue and to the *)
(* caller, without any of its steps: a run stores at most one report, an   *)
(* answer with a report is given once that report is stored, and nothing   *)
(* a run has stored or answered is taken back.  A run that answers with an *)
(* error may have stored its report all the same.                          *)
(***************************************************************************)
CONSTANTS Run

VARIABLES stored, answer

Init == stored = {} /\ answer = [r \in Run |-> "none"]

Store(r, reply) ==
    /\ answer[r] = "none" /\ r \notin stored
    /\ stored' = stored \cup {r}
    /\ answer' = [answer EXCEPT ![r] = reply]

GiveUp(r) ==
    /\ answer[r] = "none"
    /\ answer' = [answer EXCEPT ![r] = "error"]
    /\ UNCHANGED stored

Next == \E r \in Run : GiveUp(r) \/ \E reply \in {"report", "error"} : Store(r, reply)

Spec == Init /\ [][Next]_<<stored, answer>>
=============================================================================
