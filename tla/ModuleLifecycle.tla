---------------------------- MODULE ModuleLifecycle ----------------------------
(***************************************************************************)
(* The module as a whole: the connection and the class controller at work  *)
(* in one process, on a connection and a class that names it, until the    *)
(* module is disabled, the Helm release goes and the deletion hook takes   *)
(* the finalizers off what the controllers held; then, perhaps, the module *)
(* enabled again.                                                          *)
(*                                                                         *)
(* The controllers are ConnectionController (C) and StorageClassController *)
(* (S); the clusterID S reads is that of the connection of C.  Each has a  *)
(* worker, and its own view of the connection.  They share the fault       *)
(* budget, and crash together.  Nothing tells S of a connection: one that  *)
(* is made again for another cluster leaves the classes as they are until  *)
(* something else starts a pass over them.                                 *)
(***************************************************************************)
EXTENDS Naturals, Sequences

CONSTANTS
    Conns,          \* names of CephClusterConnections
    ClusterIDs,     \* values of spec.clusterID
    CidOf,          \* spec.clusterID of each life of a connection (0: before the first)
    ClassConn,      \* the connection the class names
    ConnSpecs,      \* specs of a connection
    ClassSpecs,     \* specs of the class
    Options,        \* settings of the module
    SnapshotCRD,    \* are the snapshot CRDs "absent" or "installed"
    ListFails,      \* may the hook fail to list the custom resources
    MaxLives,       \* bound: times a connection's name is created
    MaxClassLives,  \* bound: times the class is created
    MaxGen,         \* bound: generations of a connection
    MaxFaults       \* bound: failed calls, crashes and installations together

ASSUME ConnsAssumption ==
    ClassConn \in Conns /\ CidOf \in [Conns -> [0..MaxLives -> ClusterIDs]]
ASSUME NamesAssumption ==
    /\ "no owner" \notin Conns /\ "no spec" \notin ConnSpecs \cup ClassSpecs
    /\ "no clusterID" \notin ClusterIDs /\ "no option" \notin Options
ASSUME SwitchesAssumption == SnapshotCRD \in {"absent", "installed"} /\ ListFails \in BOOLEAN
ASSUME BoundsAssumption ==
    /\ MaxLives \in Nat /\ MaxClassLives \in Nat
    /\ MaxGen \in Nat \ {0} /\ MaxFaults \in Nat

VARIABLES
    conn, status, cm, secret, seenConn, seenCM, seenSecret,
    lagConn, lagCM, lagSecret, queue, cpass,                    \* of C
    class, sc, vsc, crd, option, seen, lag, queued, spass, marked,  \* of S
    faults,
    module,     \* is the module installed
    hook        \* the deletion hook: where it is, what it listed, has a call failed

connVars == <<conn, status, cm, secret, seenConn, seenCM, seenSecret,
              lagConn, lagCM, lagSecret, queue, cpass>>
classVars == <<class, sc, vsc, crd, option, seen, lag, queued, spass, marked>>
vars == <<connVars, classVars, faults, module, hook>>

-----------------------------------------------------------------------------
\* The controllers.

\* spec.clusterID of the connection that has the name the class gives, now.
cid == IF conn[ClassConn].phase = "absent" THEN "no clusterID"
       ELSE CidOf[ClassConn][conn[ClassConn].life]

C == INSTANCE ConnectionController WITH
    pass <- cpass, ValidSpecs <- ConnSpecs, InvalidSpecs <- {},
    StaleReads <- FALSE, Tampering <- {}

S == INSTANCE StorageClassController WITH
    pass <- spass, ValidSpecs <- ClassSpecs, InvalidSpecs <- {},
    Types <- {"RBD"}, TypeOf <- [s \in ClassSpecs |-> "RBD"],
    MapperFails <- FALSE,
    StaleReads <- FALSE, Meddling <- {}, MaxLives <- MaxClassLives, MaxEdits <- 0

\* A connection that comes or goes leaves the class controller's view of it behind.
ClassSees ==
    /\ IF cid' = cid
       THEN UNCHANGED <<lag, spass>>
       ELSE /\ lag' = lag \cup {"cid"}
            /\ spass' = [spass EXCEPT !.current = @ \ {"cid"}]
    /\ UNCHANGED <<class, sc, vsc, crd, option, seen, queued, marked>>

-----------------------------------------------------------------------------
\* The deletion hook.

Kinds == <<"Secret", "ConfigMap", "StorageClass", "CephClusterConnection",
           "CephStorageClass">>
Names == Conns \cup {"ceph-csi-config", "class"}

\* Mutant: all custom resources the controllers hold are listed.
CRGVKsForFinalizerRemoval_all == {"CephClusterConnection", "CephStorageClass"}

\* The custom resources of the module whose finalizers are taken off.
CRGVKsForFinalizerRemoval == {"CephClusterConnection"}

NoHook == [kind |-> 0, listed |-> FALSE, todo |-> {}, failed |-> FALSE]
HookStart == [NoHook EXCEPT !.kind = 1]
HookRecord == [kind : 0..Len(Kinds), listed : BOOLEAN, todo : SUBSET Names,
               failed : BOOLEAN]

isCustom(kind) == kind \in {"CephClusterConnection", "CephStorageClass"}

\* The objects there are.
present(kind) ==
    CASE kind = "Secret" -> {c \in Conns : secret[c].phase # "absent"}
      [] kind = "ConfigMap" -> {n \in {"ceph-csi-config"} : cm.phase # "absent"}
      [] kind = "StorageClass" -> {n \in {"class"} : sc.phase # "absent" /\ ~sc.foreign}
      [] kind = "CephClusterConnection" -> {c \in Conns : conn[c].phase # "absent"}
      [] kind = "CephStorageClass" -> {n \in {"class"} : class.phase # "absent"}

\* Those the hook takes on: of the custom resources the ones with finalizers.
listed(kind) ==
    CASE kind = "CephClusterConnection" -> {c \in Conns : conn[c].finalizer}
      [] kind = "CephStorageClass" -> {n \in {"class"} : class.finalizer}
      [] OTHER -> present(kind)

\* The patch of one object: without its finalizers what was deleted goes.
removeFinalizersFromObject(kind, n) ==
    /\ secret' = IF kind # "Secret" THEN secret
                 ELSE [secret EXCEPT ![n] = IF @.phase = "terminating" THEN C!NoSecret
                                            ELSE [@ EXCEPT !.managed = FALSE]]
    /\ cm' = IF kind # "ConfigMap" THEN cm
             ELSE IF cm.phase = "terminating" THEN C!NoConfigMap
             ELSE [cm EXCEPT !.managed = FALSE]
    /\ sc' = IF kind # "StorageClass" THEN sc ELSE S!afterUnfinalize(sc, S!NoSC)
    /\ conn' = IF kind # "CephClusterConnection" THEN conn
               ELSE [conn EXCEPT ![n] = IF @.phase = "deleting" THEN C!Gone(@.life)
                                        ELSE [@ EXCEPT !.finalizer = FALSE]]
    /\ status' = [c \in Conns |-> IF conn'[c].phase = "absent" THEN C!NoStatus ELSE status[c]]
    /\ class' = IF kind # "CephStorageClass" THEN class
                ELSE IF class.phase = "deleting" THEN S!Gone(class.life)
                ELSE [class EXCEPT !.finalizer = FALSE]

-----------------------------------------------------------------------------
Init ==
    /\ C!Init
    /\ S!Init
    /\ module = "installed"
    /\ hook = NoHook

-----------------------------------------------------------------------------
\* While the module is installed.

ConnectionStep(A) ==
    /\ module = "installed"
    /\ A
    /\ ClassSees
    /\ UNCHANGED <<module, hook>>

ClassStep(A) ==
    /\ module = "installed"
    /\ UNCHANGED connVars
    /\ A
    /\ UNCHANGED <<module, hook>>

ConnectionSync == ConnectionStep(C!Sync)
ConnectionStart == ConnectionStep(\E c \in Conns : C!StartReconcile(c))
ConnectionWork == ConnectionStep(C!Work)
ClassSync == ClassStep(\E part \in S!Parts : S!Sync(part))
ClassStart == ClassStep(S!Start)
ClassWork == ClassStep(S!Work)

\* One process: both controllers start afresh.
Restart ==
    /\ C!CrashRestart
    /\ S!CrashRestart

CrashRestart ==
    /\ module = "installed"
    /\ Restart
    /\ UNCHANGED <<module, hook>>

\* Users have the custom resources whether the module is there or not.
UserOfConnections ==
    /\ \E c \in Conns : C!CreateConnection(c) \/ C!EditConnection(c) \/ C!DeleteConnection(c)
    /\ ClassSees
    /\ UNCHANGED <<module, hook>>

UserOfClasses ==
    /\ UNCHANGED connVars
    /\ S!CreateClass \/ S!DeleteClass
    /\ UNCHANGED <<module, hook>>

-----------------------------------------------------------------------------
\* The module goes and comes back.

\* Helm deletes the Deployment, with the rights of its account, the webhook, and the
\* namespace: from then on the controllers change nothing, and what they knew is lost.
UninstallHelm ==
    /\ module = "installed"
    /\ module' = "removing"
    /\ hook' = HookStart
    /\ seenConn' = [c \in Conns |-> C!Gone(0)] /\ seenCM' = C!NoConfigMap
    /\ seenSecret' = [c \in Conns |-> C!NoSecret]
    /\ lagConn' = {} /\ lagCM' = FALSE /\ lagSecret' = {}
    /\ queue' = {} /\ cpass' = C!NoPass
    /\ seen' = S!NoPass.copies /\ lag' = {} /\ queued' = FALSE /\ spass' = S!NoPass
    /\ UNCHANGED <<conn, status, cm, secret, class, sc, vsc, crd, option, marked, faults>>

\* The namespace takes its objects with it, when their finalizers let it.
DeleteNamespaced ==
    /\ module # "installed"
    /\ \/ /\ cm.phase = "live"
          /\ cm' = IF cm.managed THEN [cm EXCEPT !.phase = "terminating"] ELSE C!NoConfigMap
          /\ UNCHANGED secret
       \/ \E c \in Conns :
            /\ secret[c].phase = "live"
            /\ secret' = [secret EXCEPT ![c] = IF @.managed THEN [@ EXCEPT !.phase = "terminating"]
                                               ELSE C!NoSecret]
            /\ UNCHANGED cm
    /\ UNCHANGED <<conn, status, seenConn, seenCM, seenSecret, lagConn, lagCM, lagSecret,
                   queue, cpass, classVars, faults, module, hook>>

\* Nothing guards the StorageClasses any more.
DeleteStorageClass ==
    /\ module # "installed"
    /\ sc.phase = "live"
    /\ sc' = S!afterDelete(sc, S!NoSC)
    /\ UNCHANGED <<connVars, class, vsc, crd, option, seen, lag, queued, spass, marked,
                   faults, module, hook>>

\* A list that fails is an error of the hook, but one of custom resources is taken for
\* a kind that is not there.
HookList(o) ==
    LET kind == Kinds[hook.kind]
        skipped == isCustom(kind) /\ kind \notin CRGVKsForFinalizerRemoval
    IN
    /\ hook.kind > 0 /\ ~hook.listed
    /\ o = "rejected" => ~skipped /\ (isCustom(kind) => ListFails)
    /\ C!Spend(o)
    /\ hook' = [hook EXCEPT !.listed = TRUE,
                            !.todo = IF o = "ok" /\ ~skipped THEN listed(kind) ELSE {},
                            !.failed = @ \/ (o = "rejected" /\ ~isCustom(kind))]
    /\ UNCHANGED <<connVars, classVars, module>>

\* Mutant: errors of single objects are logged only.
joined_logged(failed, error) == failed

\* resultErr: one error does not stop the hook.
joined(failed, error) == failed \/ error

\* A merge patch without a version; an object that is gone is an error.
HookPatch(n, o) ==
    LET kind == Kinds[hook.kind]
        there == n \in present(kind)
    IN
    /\ n \in hook.todo
    /\ C!Spend(o)
    /\ IF there /\ o # "rejected"
       THEN removeFinalizersFromObject(kind, n)
       ELSE UNCHANGED <<secret, cm, sc, conn, status, class>>
    /\ hook' = [hook EXCEPT !.todo = @ \ {n},
                            !.failed = joined(@, ~there \/ o # "ok")]
    /\ UNCHANGED <<seenConn, seenCM, seenSecret, lagConn, lagCM, lagSecret, queue, cpass,
                   vsc, crd, option, seen, lag, queued, spass, marked, module>>

\* The next kind, or the end; a hook that failed is run again.
HookNext ==
    /\ hook.listed /\ hook.todo = {}
    /\ IF hook.kind < Len(Kinds)
       THEN hook' = [hook EXCEPT !.kind = @ + 1, !.listed = FALSE] /\ UNCHANGED module
       ELSE IF hook.failed
       THEN hook' = HookStart /\ UNCHANGED module
       ELSE hook' = NoHook /\ module' = "removed"
    /\ UNCHANGED <<connVars, classVars, faults>>

HookWork == \/ HookNext
            \/ \E o \in C!Outcomes : o # "lost" /\ HookList(o)
            \/ \E n \in Names, o \in C!Outcomes : HookPatch(n, o)

\* The namespace is there again once the old one is gone.
Reinstall ==
    /\ module = "removed"
    /\ cm.phase = "absent" /\ \A c \in Conns : secret[c].phase = "absent"
    /\ Restart
    /\ module' = "installed"
    /\ UNCHANGED hook

-----------------------------------------------------------------------------
Controllers == \/ ConnectionSync \/ ConnectionStart \/ ConnectionWork
               \/ ClassSync \/ ClassStart \/ ClassWork
               \/ CrashRestart

User == UserOfConnections \/ UserOfClasses \/ DeleteStorageClass

Next == \/ Controllers
        \/ User
        \/ UninstallHelm
        \/ DeleteNamespaced
        \/ HookWork
        \/ Reinstall

Spec == Init /\ [][Next]_vars

\* Each controller goes on, the class controller's informers beside its worker, which
\* retries for ever when the connection is missing; the hook goes on and is repeated,
\* and a namespace goes.  Fairness for each part would be justified too.
Fairness ==
    /\ WF_vars(ConnectionSync \/ ConnectionStart \/ ConnectionWork)
    /\ WF_vars(ClassSync)
    /\ WF_vars(ClassStart \/ ClassWork)
    /\ WF_vars(HookWork \/ DeleteNamespaced)

FairSpec == Spec /\ Fairness

-----------------------------------------------------------------------------
\* Properties.

TypeOK ==
    /\ C!TypeOK
    /\ S!TypeOK
    /\ module \in {"installed", "removing", "removed"}
    /\ hook \in HookRecord

\* When the hook has reported success, no finalizer of the controllers holds a
\* connection, a Secret, the ConfigMap or a StorageClass, although calls of it failed,
\* the namespace was going at the same time and passes were cut short.
RemovalReleases ==
    module = "removed" =>
        /\ \A c \in Conns : ~conn[c].finalizer /\ ~secret[c].managed
        /\ ~cm.managed
        /\ ~sc.finalizer

\* The comment of consts.go: the finalizers of the module's custom resources are
\* removed.
CustomResourcesReleased ==
    module = "removed" => ~class.finalizer /\ \A c \in Conns : ~conn[c].finalizer

\* Whatever was deleted while the module was away, nothing the controllers made for it
\* is left when they are back.
NoOrphans == module = "installed" => C!NoOrphans /\ S!NoOrphans

AtRest == /\ module = "installed" /\ S!AtRest
          /\ cpass.step = "idle" /\ queue = {} /\ lagConn = {}

\* A removal takes the objects and leaves the verdicts, in resources that outlive it: once
\* the controllers of the next installation are at rest, each Ready=True is true again of
\* the objects it speaks of, those of the class and those of the connections.
ReadyMeansInPlace == AtRest => S!ReadyMeansInPlace /\ C!ReadyMeansInPlace

\* A class and its connection that are both Ready, and at rest, are of one cluster: the
\* clusterID the StorageClass names is the one the connection has its entry under.
SameCluster ==
    (/\ AtRest
     /\ class.phase = "live" /\ class.ready = "true" /\ class.observed = class.gen
     /\ conn[ClassConn].phase = "live" /\ status[ClassConn].ready = "true"
     /\ status[ClassConn].observed = conn[ClassConn].gen)
    => sc.cid = cid

\* Once users, faults and the administrator leave it alone, a removal ends, and an
\* installed module has brought connections and classes to their specs, those it left
\* without finalizers and objects before included.
EventuallySettled ==
    <>[](/\ module # "removing"
         /\ module = "installed" => S!Settled /\ \A c \in Conns : C!Settled(c))
=============================================================================
