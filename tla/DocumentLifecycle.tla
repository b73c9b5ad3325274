------------------------- MODULE DocumentLifecycle -------------------------
(***************************************************************************)
(* What the pipeline promises the owner of a document, without outboxes,   *)
(* relays and batches: the work that a confirm asks for is done as in      *)
(* JobOutcomes, and an answer to it reaches the document once or again.    *)
(*                                                                         *)
(*   - no work starts for a document that was never confirmed;             *)
(*   - a quiz is made of a READY answer, and kept;                         *)
(*   - a document leaves PROCESSING only after an answer: it becomes READY *)
(*     if it has its quiz and FAILED if it has none, whichever answer is   *)
(*     delivered, and however often;                                       *)
(*   - READY is final.                                                     *)
(***************************************************************************)
EXTENDS JobOutcomes

VARIABLES
    status,  \* what the owner is told of each document
    quiz     \* the documents with a quiz

lifecycleVars == <<abstractVars, status, quiz>>

LifecycleInit ==
    /\ AbstractInit
    /\ status = [d \in Documents |-> "UPLOADED"]
    /\ quiz = {}

Answered(d, outcomes) == \E i \in DOMAIN log : log[i].doc = d /\ log[i].outcome \in outcomes

\* The owner confirms, first or after a failure.
Ask(d) ==
    /\ status[d] \in {"UPLOADED", "FAILED"}
    /\ status' = [status EXCEPT ![d] = "PROCESSING"]
    /\ UNCHANGED <<abstractVars, quiz>>

Work(d) ==
    /\ \/ status[d] # "UPLOADED" /\ Arm(d)
       \/ \E outcome \in {"READY", "FAILED"} : Answer(d, outcome)
    /\ UNCHANGED <<status, quiz>>

\* READY is answered with questions; enough of them are sound.
MakeQuiz(d) ==
    /\ Answered(d, {"READY"}) /\ d \notin quiz
    /\ quiz' = quiz \cup {d}
    /\ UNCHANGED <<abstractVars, status>>

Deliver(d) ==
    /\ Answered(d, {"READY", "FAILED"})
    /\ status[d] = "PROCESSING"
    /\ status' = [status EXCEPT ![d] = IF d \in quiz THEN "READY" ELSE "FAILED"]
    /\ UNCHANGED <<abstractVars, quiz>>

LifecycleNext == \E d \in Documents : Ask(d) \/ Work(d) \/ MakeQuiz(d) \/ Deliver(d)

LifecycleSpec == LifecycleInit /\ [][LifecycleNext]_lifecycleVars

=============================================================================
