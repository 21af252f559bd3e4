------------------------------ MODULE MCModule ------------------------------
(***************************************************************************)
(* Small instances of ModuleLifecycle for TLC.                             *)
(***************************************************************************)
EXTENDS ModuleLifecycle

CONSTANTS k1, k2

\* A connection keeps its cluster whenever it is made again.
OneCluster == [c \in Conns |-> [life \in 0..MaxLives |-> k1]]

\* A connection that is made again is of another cluster.
NewClusters == [c \in Conns |-> [life \in 0..MaxLives |-> IF life < 2 THEN k1 ELSE k2]]
=============================================================================
