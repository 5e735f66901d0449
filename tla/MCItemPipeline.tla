--------------------------- MODULE MCItemPipeline ---------------------------
(* ItemPipeline with interchangeable names and stream slots.               *)
EXTENDS ItemPipeline, TLC

Symmetry == Permutations(Names) \cup Permutations(Streams)
=============================================================================
