--------------------------- MODULE MCTailorWorker ---------------------------
(* TLC instances of TailorWorker: workers are interchangeable.              *)
EXTENDS TailorWorker, TLC

WorkerSymmetry == Permutations(Worker)
=============================================================================
