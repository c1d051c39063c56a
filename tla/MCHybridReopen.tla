--------------------------- MODULE MCHybridReopen ---------------------------
(* HybridReopen for TLC: records can be exchanged for one another, since no  *)
(* definition names one; every property of the runs is a safety property.    *)
EXTENDS HybridReopen, TLC

RecordSymmetry == Permutations(Records)
=============================================================================
