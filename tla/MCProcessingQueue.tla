------------------------- MODULE MCProcessingQueue -------------------------
(* ProcessingQueue on a small instance: see MCProcessingQueue*.cfg.        *)
EXTENDS ProcessingQueue, TLC

\* Loops and documents are interchangeable in every safety property.
QueueSymmetry == Permutations(Workers) \cup Permutations(Documents)

=============================================================================
