----------------------------- MODULE MCMigration -----------------------------
(***************************************************************************)
(* Small instances of Migration for TLC.  The sizes are those of the       *)
(* interesting cases: two volumes in one class, a second driver, a         *)
(* VolumeSnapshotClass that belongs to no connection.                      *)
(***************************************************************************)
EXTENDS Migration

CONSTANTS d1, d2, c1, c2, p1, p2, p3, s1, s2, k1, k2

DriversOfClasses == [c \in Classes |-> IF c = c1 THEN d1 ELSE d2]
ClassesOfPVs == [v \in PVs |-> IF v = p3 THEN c2 ELSE c1]
AllRefs == [v \in PVs |-> "both"]
OneRefOfP3 == [v \in PVs |-> IF v = p3 THEN "one" ELSE "both"]
NoRefsOfP1 == [v \in PVs |-> IF v = p1 THEN "none" ELSE "both"]
DeletePolicies == [v \in PVs |-> "Delete"]
OwnersOfVSClasses == [s \in VSClasses |-> IF s = s1 THEN d1 ELSE NoDriver]
ClassesOfContents == [k \in Contents |-> s1]
=============================================================================
