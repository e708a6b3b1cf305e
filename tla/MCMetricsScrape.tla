---------------------------- MODULE MCMetricsScrape ----------------------------
(***************************************************************************)
(* Small instances of MetricsScrape.                                       *)
(***************************************************************************)
EXTENDS MetricsScrape, TLC

MCSymmetry == Permutations(Photos)
===============================================================================
