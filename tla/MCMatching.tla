----------------------------- MODULE MCMatching -----------------------------
(* TLC instances of Matching: embed workers are interchangeable.            *)
EXTENDS Matching, TLC

EmbedSymmetry == Permutations(EmbedWorker)
=============================================================================
