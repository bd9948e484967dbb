------------------------- MODULE MCStorageTransactions -------------------------
(* Instances of StorageTransactions for TLC.  No symmetry: the run checks    *)
(* liveness.                                                                 *)
EXTENDS StorageTransactions
===============================================================================
