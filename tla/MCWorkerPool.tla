---------------------------- MODULE MCWorkerPool ----------------------------
(***************************************************************************)
(* WorkerPool with two workers and more orders than a full channel and     *)
(* busy workers hold.                                                      *)
(***************************************************************************)
EXTENDS WorkerPool

CONSTANTS w1, w2
=============================================================================
