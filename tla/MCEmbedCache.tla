---------------------------- MODULE MCEmbedCache ----------------------------
(* Batches of one to three texts, with repeated and blank ones. *)
EXTENDS EmbedCache, TLC

CONSTANTS t1, t2, t3, a, b, blank

MCBatches == { <<a>>, <<b, a>>, <<a, blank, a>> }
ThreadSymmetry == Permutations({t1, t2, t3})
=============================================================================
