--------------------------- MODULE MCConnection ---------------------------
(***************************************************************************)
(* Small instances of ConnectionController for TLC.                        *)
(***************************************************************************)
EXTENDS ConnectionController

CONSTANTS c1, c2, k1, k2

\* Every connection is of a Ceph cluster of its own.
OwnClusters == [c \in Conns |-> [life \in 0..MaxLives |-> IF c = c1 THEN k1 ELSE k2]]

\* A connection that is made again is of another cluster.
NewClusters == [c \in Conns |-> [life \in 0..MaxLives |-> IF life < 2 THEN k1 ELSE k2]]

\* Two connections to one Ceph cluster.
OneCluster == [c \in Conns |-> [life \in 0..MaxLives |-> k1]]
=============================================================================
