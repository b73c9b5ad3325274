---------------------------- MODULE JobOutcomes ----------------------------
(***************************************************************************)
(* What the work queue promises its two neighbours, without leases,        *)
(* attempts or workers: a document's work is armed by the forward relay    *)
(* and answered by one result in the log the return relay reads.           *)
(*                                                                         *)
(*   - every arming is answered at most once;                              *)
(*   - work answered READY is never armed or answered again;               *)
(*   - an answer, once in the log, stays there, in order.                  *)
(***************************************************************************)
EXTENDS Sequences

CONSTANT Documents

VARIABLES
    phase,   \* where the work of each document stands
    log      \* the answers, in order

abstractVars == <<phase, log>>

AbstractInit ==
    /\ phase = [d \in Documents |-> "none"]
    /\ log = <<>>

\* Work starts, or is retried after a failure.
Arm(d) ==
    /\ phase[d] \in {"none", "FAILED"}
    /\ phase' = [phase EXCEPT ![d] = "open"]
    /\ UNCHANGED log

\* Open work is answered.
Answer(d, outcome) ==
    /\ phase[d] = "open"
    /\ phase' = [phase EXCEPT ![d] = outcome]
    /\ log' = Append(log, [doc |-> d, outcome |-> outcome])

AbstractNext ==
    \E d \in Documents : Arm(d) \/ \E outcome \in {"READY", "FAILED"} : Answer(d, outcome)

AbstractSpec == AbstractInit /\ [][AbstractNext]_abstractVars

=============================================================================
