--------------------------- MODULE MCStorageClass ---------------------------
(***************************************************************************)
(* Small instances of StorageClassController for TLC.                      *)
(***************************************************************************)
EXTENDS StorageClassController

CONSTANTS rbd1, rbd2, fs1, rbd0

\* rbd0 is an RBD spec whose defaultFSType is still empty.
TypesOfSpecs == [s \in Specs |-> IF s = fs1 THEN "CephFS" ELSE "RBD"]
=============================================================================
