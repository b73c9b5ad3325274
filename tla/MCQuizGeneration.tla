-------------------------- MODULE MCQuizGeneration --------------------------
(* QuizGeneration on a small instance: see MCQuizGeneration.cfg.           *)
EXTENDS QuizGeneration, TLC

\* The texts of a document matter only as equal or different.
KeySymmetry == Permutations(Keys)

=============================================================================
