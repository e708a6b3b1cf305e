--------------------------- MODULE MCPhotoPipeline ----------------------------
(***************************************************************************)
(* PhotoPipeline on small instances.  Photos, and workers, are             *)
(* interchangeable: no operator picks one of them.                         *)
(***************************************************************************)
EXTENDS PhotoPipeline, TLC

MCSymmetry == Permutations(Photos) \cup Permutations(Workers)
===============================================================================
