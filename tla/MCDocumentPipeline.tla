------------------------ MODULE MCDocumentPipeline ------------------------
(* DocumentPipeline on small instances: see the cfg files of the runs.     *)
EXTENDS DocumentPipeline, TLC

\* Loops are interchangeable in every safety property.
LoopSymmetry == Permutations(Workers)

=============================================================================
