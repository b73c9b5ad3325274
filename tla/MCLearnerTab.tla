---------------------------- MODULE MCLearnerTab ----------------------------
(***************************************************************************)
(* A quiz of two questions, two files and two models.                      *)
(***************************************************************************)
EXTENDS LearnerTab

KeyOfTwo == [q \in 1..2 |-> 1]

=============================================================================
