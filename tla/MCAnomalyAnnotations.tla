------------------------ MODULE MCAnomalyAnnotations ------------------------
(* AnomalyAnnotations with interchangeable runs.                           *)
EXTENDS AnomalyAnnotations, TLC

RunSymmetry == Permutations(Runs)
=============================================================================
