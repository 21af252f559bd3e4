--------------------------- MODULE FinalizerGuard ---------------------------
(***************************************************************************)
(* What a controller of this module promises about its finalizer, whatever *)
(* the order of its calls: a custom resource is claimed (the controller's  *)
(* finalizer is on it) before anything is created on its behalf, and it is *)
(* released only once nothing that was created for it is left.  Both the   *)
(* CephClusterConnection and the CephStorageClass controllers are shown to *)
(* implement this specification.                                           *)
(***************************************************************************)
CONSTANTS
    Resources,  \* the names of the custom resources
    Assets      \* the kinds of object the controller creates for a resource

VARIABLES
    claimed,    \* [Resources -> BOOLEAN]: the finalizer is on the resource
    assets      \* [Resources -> SUBSET Assets]: what exists on its behalf

vars == <<claimed, assets>>

TypeOK ==
    /\ claimed \in [Resources -> BOOLEAN]
    /\ assets \in [Resources -> SUBSET Assets]

Init ==
    /\ claimed = [r \in Resources |-> FALSE]
    /\ assets = [r \in Resources |-> {}]

Claim(r) ==
    /\ ~claimed[r]
    /\ claimed' = [claimed EXCEPT ![r] = TRUE]
    /\ UNCHANGED assets

\* Assets come and go, but only a claimed resource gains one.
Work ==
    /\ assets' \in [Resources -> SUBSET Assets]
    /\ \A r \in Resources : claimed[r] \/ assets'[r] \subseteq assets[r]
    /\ UNCHANGED claimed

Release(r) ==
    /\ claimed[r]
    /\ assets[r] = {}
    /\ claimed' = [claimed EXCEPT ![r] = FALSE]
    /\ UNCHANGED assets

Next == Work \/ \E r \in Resources : Claim(r) \/ Release(r)

Spec == Init /\ [][Next]_vars

\* Nothing exists for a resource the controller has no hold on: an object
\* without an owner would never be cleaned up by anybody.
NoOrphans == \A r \in Resources : assets[r] # {} => claimed[r]
=============================================================================
