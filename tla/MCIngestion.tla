---------------------------- MODULE MCIngestion ----------------------------
(* Instances of Ingestion for TLC.                                         *)
EXTENDS Ingestion, TLC

\* Requests differ in nothing but their name.
RequestSymmetry == Permutations(Requests)
=============================================================================
