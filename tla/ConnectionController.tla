------------------------ MODULE ConnectionController ------------------------
(***************************************************************************)
(* The CephClusterConnection controller: one worker that turns each        *)
(* CephClusterConnection into a credentials Secret of its own and an entry *)
(* of the shared ceph-csi-config ConfigMap, and takes both down again      *)
(* before it lets the resource go.                                         *)
(*                                                                         *)
(* The three parties are the API server (conn, status, cm, secret), the    *)
(* informer cache every read of the controller goes through (seen..., with *)
(* the objects it lags behind on in lag...), and the pass of the worker.   *)
(* A step of the pass is one call that may write, with the cached list it  *)
(* is computed from; users, the cache, crashes and lost answers come in    *)
(* between.  An Update carries the resourceVersion of the copy it changes, *)
(* so it is refused when that copy is not the current one.                 *)
(*                                                                         *)
(* Abstracted: a spec is one value (an edit changes the entry and the      *)
(* Secret alike); which clusterID each life of a name has is given by a    *)
(* constant; the cache jumps to the current version; a delayed requeue is  *)
(* a requeue.                                                              *)
(***************************************************************************)
EXTENDS Naturals

CONSTANTS
    Conns,          \* names of CephClusterConnections
    ClusterIDs,     \* values of spec.clusterID
    CidOf,          \* spec.clusterID of each life of a connection (0: before the first)
    ValidSpecs,     \* specs that pass validation
    InvalidSpecs,   \* specs with empty monitors or userID, which the CRD lets in
    StaleReads,     \* may a pass read a cached copy that is not current
    Tampering,      \* what users do to the objects the controller owns
    MaxLives,       \* bound: times one name is created
    MaxGen,         \* bound: generations of one life
    MaxFaults       \* bound: failed calls, crashes and tampering together

ASSUME ConnsAssumption == Conns # {}
ASSUME CidOfAssumption == CidOf \in [Conns -> [0..MaxLives -> ClusterIDs]]
ASSUME SpecsAssumption == ValidSpecs \cap InvalidSpecs = {}
ASSUME NamesAssumption == "no owner" \notin Conns /\ "no spec" \notin ValidSpecs \cup InvalidSpecs
ASSUME SwitchesAssumption ==
    /\ StaleReads \in BOOLEAN
    /\ Tampering \subseteq {"deleteConfigMap", "corruptConfigMap", "deleteSecret"}
ASSUME BoundsAssumption ==
    MaxLives \in Nat /\ MaxGen \in Nat \ {0} /\ MaxFaults \in Nat

VARIABLES
    conn,       \* CephClusterConnections on the API server
    status,     \* their status subresource
    cm,         \* the ConfigMap ceph-csi-config
    secret,     \* the Secret of each connection
    seenConn, seenCM, seenSecret,   \* the informer's copies
    lagConn, lagCM, lagSecret,      \* which of those copies are out of date
    queue,      \* keys in the workqueue
    pass,       \* the reconcile pass of the one worker
    faults      \* faults so far

vars == <<conn, status, cm, secret, seenConn, seenCM, seenSecret,
          lagConn, lagCM, lagSecret, queue, pass, faults>>

server == <<conn, status, cm, secret>>
informer == <<seenConn, seenCM, seenSecret, lagConn, lagCM, lagSecret>>

-----------------------------------------------------------------------------
\* Objects.

Specs == ValidSpecs \cup InvalidSpecs
NoSpec == "no spec"
NoOwner == "no owner"

ConnObject == [phase : {"absent", "live", "deleting"}, life : 0..MaxLives,
               gen : 0..MaxGen, spec : Specs \cup {NoSpec}, finalizer : BOOLEAN]

\* An entry of config.json names the connection's Secret and its monitors.
Entry == [owner : Conns \cup {NoOwner}, spec : Specs \cup {NoSpec}]
NoEntry == [owner |-> NoOwner, spec |-> NoSpec]

\* managed: the object carries the controller's label and finalizer.
ConfigMapObject == [phase : {"absent", "live", "terminating"}, managed : BOOLEAN,
                    corrupt : BOOLEAN, entries : [ClusterIDs -> Entry]]
SecretObject == [phase : {"absent", "live", "terminating"}, managed : BOOLEAN,
                 spec : Specs \cup {NoSpec}]
StatusObject == [ready : {"none", "true", "false"}, observed : 0..MaxGen]

Gone(life) == [phase |-> "absent", life |-> life, gen |-> 0,
               spec |-> NoSpec, finalizer |-> FALSE]
NoStatus == [ready |-> "none", observed |-> 0]
NoEntries == [k \in ClusterIDs |-> NoEntry]
NoConfigMap == [phase |-> "absent", managed |-> FALSE, corrupt |-> FALSE,
                entries |-> NoEntries]
NoSecret == [phase |-> "absent", managed |-> FALSE, spec |-> NoSpec]

\* What EnsureConfigMapExists creates: no label, no finalizer, an empty list.
EmptyConfigMap == [NoConfigMap EXCEPT !.phase = "live"]

PassSteps == {"idle", "finalizer", "configmap", "secret", "deleteSecret",
              "release", "publish"}

\* obj: the copy the pass works on; current: its resourceVersion is the
\* server's; failed, requeue: the err and shouldRequeue the pass will return.
PassRecord == [step : PassSteps, c : Conns, obj : ConnObject, current : BOOLEAN,
               failed : BOOLEAN, requeue : BOOLEAN]

NoPass == [step |-> "idle", c |-> CHOOSE c \in Conns : TRUE, obj |-> Gone(0),
           current |-> FALSE, failed |-> FALSE, requeue |-> FALSE]

-----------------------------------------------------------------------------
\* Helpers of the source.

\* spec.clusterID, which the CRD freezes as long as the object lives: a connection
\* deleted and made again may name another cluster.
clusterIDOf(c, obj) == CidOf[c][obj.life]

valid(obj) == obj.phase = "deleting" \/ obj.spec \in ValidSpecs

\* Mutant: the entry's secret reference is left empty.
generateClusterConfig_noSecretRef(c, obj) == [owner |-> "", spec |-> obj.spec]

generateClusterConfig(c, obj) == [owner |-> c, spec |-> obj.spec]

\* Mutant: a pass over a deleted connection keeps its entry.
updateClusterConfigs_keeps(entries, c, obj) ==
    [entries EXCEPT ![clusterIDOf(c, obj)] = generateClusterConfig(c, obj)]

\* The list is keyed by clusterID, whoever the entry belongs to.
updateClusterConfigs(entries, c, obj) ==
    [entries EXCEPT ![clusterIDOf(c, obj)] =
        IF obj.phase = "deleting" THEN NoEntry ELSE generateClusterConfig(c, obj)]

\* The ConfigMap an Update would leave: an unparsable list starts afresh.
updatedConfigMap(c, obj) ==
    [seenCM EXCEPT !.managed = TRUE, !.corrupt = FALSE,
                   !.entries = updateClusterConfigs(@, c, obj)]

generateNewConfigMap(c, obj) ==
    [phase |-> "live", managed |-> TRUE, corrupt |-> FALSE,
     entries |-> [NoEntries EXCEPT ![clusterIDOf(c, obj)] = generateClusterConfig(c, obj)]]

generateNewSecret(obj) == [phase |-> "live", managed |-> TRUE, spec |-> obj.spec]

\* A live object always publishes, one being deleted only when the pass failed
\* or has to run again.
shouldPublishStatus == pass.obj.phase = "live" \/ pass.failed \/ pass.requeue

-----------------------------------------------------------------------------
\* Calls.  The outcome of a call is chosen by the environment: "rejected" has
\* no effect and returns an error, "lost" has its effect and returns an error.

Outcomes == {"ok", "rejected", "lost"}

\* Every fault, and every act of tampering, is paid from one budget.
Fault ==
    /\ faults < MaxFaults
    /\ faults' = faults + 1

Spend(o) == IF o = "ok" THEN UNCHANGED faults ELSE Fault

Goto(step) == pass' = [pass EXCEPT !.step = step]
\* Mutants: an error that is logged only; an error that is reported but not
\* tried again.
Fail_logged == pass' = [pass EXCEPT !.step = "publish", !.requeue = TRUE]
Fail_forGood == pass' = [pass EXCEPT !.step = "publish", !.failed = TRUE]

Fail == pass' = [pass EXCEPT !.step = "publish", !.failed = TRUE, !.requeue = TRUE]

\* Mutant: the pass goes on after a call that failed.
Proceed_anyway(o, legal, step) == Goto(step)

\* A call the server accepts if `legal`, and the step that follows its success.
Proceed(o, legal, step) == IF legal /\ o = "ok" THEN Goto(step) ELSE Fail

\* Mutant: the list is written without a resourceVersion.
WriteConfigMap_forced(o, legal, new) ==
    IF o # "rejected"
    THEN cm' = new /\ lagCM' = TRUE
    ELSE UNCHANGED <<cm, lagCM>>

WriteConfigMap(o, legal, new) ==
    IF legal /\ o # "rejected"
    THEN cm' = new /\ lagCM' = TRUE
    ELSE UNCHANGED <<cm, lagCM>>

WriteSecret(o, legal, new) ==
    IF legal /\ o # "rejected"
    THEN /\ secret' = [secret EXCEPT ![pass.c] = new]
         /\ lagSecret' = lagSecret \cup {pass.c}
    ELSE UNCHANGED <<secret, lagSecret>>

NoWriteConfigMap == UNCHANGED <<cm, lagCM>>
NoWriteSecret == UNCHANGED <<secret, lagSecret>>

\* Update with the pass's own copy of the connection.
WriteConn(o, new) ==
    IF pass.current /\ o # "rejected"
    THEN /\ conn' = [conn EXCEPT ![pass.c] = new]
         /\ lagConn' = lagConn \cup {pass.c}
    ELSE UNCHANGED <<conn, lagConn>>

\* The cached copy a step reads is current, unless stale reads are allowed.
Fresh(lagging) == StaleReads \/ ~lagging

-----------------------------------------------------------------------------
Init ==
    /\ conn = [c \in Conns |-> Gone(0)]
    /\ status = [c \in Conns |-> NoStatus]
    /\ cm = EmptyConfigMap          \* EnsureConfigMapExists ran
    /\ secret = [c \in Conns |-> NoSecret]
    /\ seenConn = conn /\ seenCM = cm /\ seenSecret = secret
    /\ lagConn = {} /\ lagCM = FALSE /\ lagSecret = {}
    /\ queue = {}
    /\ pass = NoPass
    /\ faults = 0

-----------------------------------------------------------------------------
\* Users.

UserWritesConn(c, new) ==
    /\ conn' = [conn EXCEPT ![c] = new]
    /\ lagConn' = lagConn \cup {c}
    /\ pass' = IF pass.c = c THEN [pass EXCEPT !.current = FALSE] ELSE pass
    /\ UNCHANGED <<cm, secret, seenConn, seenCM, seenSecret, lagCM, lagSecret,
                   queue, faults>>

CreateConnection(c) ==
    /\ conn[c].phase = "absent"
    /\ conn[c].life < MaxLives
    /\ \E s \in Specs :
        UserWritesConn(c, [phase |-> "live", life |-> conn[c].life + 1, gen |-> 1,
                           spec |-> s, finalizer |-> FALSE])
    /\ UNCHANGED status

EditConnection(c) ==
    /\ conn[c].phase = "live"
    /\ conn[c].gen < MaxGen
    /\ \E s \in Specs \ {conn[c].spec} :
        UserWritesConn(c, [conn[c] EXCEPT !.gen = @ + 1, !.spec = s])
    /\ UNCHANGED status

\* The finalizer, if it is there, holds the object until the controller drops it.
DeleteConnection(c) ==
    /\ conn[c].phase = "live"
    /\ IF conn[c].finalizer
       THEN /\ UserWritesConn(c, [conn[c] EXCEPT !.phase = "deleting"])
            /\ UNCHANGED status
       ELSE /\ UserWritesConn(c, Gone(conn[c].life))
            /\ status' = [status EXCEPT ![c] = NoStatus]

DeleteConfigMap ==
    /\ "deleteConfigMap" \in Tampering
    /\ cm.phase = "live"
    /\ cm' = IF cm.managed THEN [cm EXCEPT !.phase = "terminating"] ELSE NoConfigMap
    /\ lagCM' = TRUE
    /\ Fault
    /\ UNCHANGED <<conn, status, secret, seenConn, seenCM, seenSecret, lagConn,
                   lagSecret, queue, pass>>

CorruptConfigMap ==
    /\ "corruptConfigMap" \in Tampering
    /\ cm.phase = "live"
    /\ cm' = [cm EXCEPT !.corrupt = TRUE, !.entries = NoEntries]
    /\ lagCM' = TRUE
    /\ Fault
    /\ UNCHANGED <<conn, status, secret, seenConn, seenCM, seenSecret, lagConn,
                   lagSecret, queue, pass>>

DeleteSecret(c) ==
    /\ "deleteSecret" \in Tampering
    /\ secret[c].phase = "live"
    /\ secret' = [secret EXCEPT ![c] = IF @.managed THEN [@ EXCEPT !.phase = "terminating"]
                                       ELSE NoSecret]
    /\ lagSecret' = lagSecret \cup {c}
    /\ Fault
    /\ UNCHANGED <<conn, status, cm, seenConn, seenCM, seenSecret, lagConn, lagCM,
                   queue, pass>>

-----------------------------------------------------------------------------
\* The informer cache.

\* Mutant: UpdateFunc looks at the spec alone.
enqueued_specOnly(c) ==
    /\ conn[c].phase # "absent"
    /\ \/ seenConn[c].phase = "absent"
       \/ seenConn[c].life # conn[c].life
       \/ seenConn[c].gen # conn[c].gen

\* CreateFunc adds the key always, UpdateFunc when the spec differs or the object
\* is being deleted; nothing handles the deletion of the object.  The versions the
\* cache jumps over have their events too: one of them differs in spec exactly
\* when the generation moved.
enqueued(c) ==
    /\ conn[c].phase # "absent"
    /\ \/ seenConn[c].phase = "absent"
       \/ seenConn[c].life # conn[c].life
       \/ seenConn[c].gen # conn[c].gen
       \/ conn[c].phase = "deleting"

SyncConnection(c) ==
    /\ c \in lagConn
    /\ seenConn' = [seenConn EXCEPT ![c] = conn[c]]
    /\ lagConn' = lagConn \ {c}
    /\ queue' = IF enqueued(c) THEN queue \cup {c} ELSE queue
    /\ UNCHANGED <<server, seenCM, seenSecret, lagCM, lagSecret, pass, faults>>

\* Nothing watches the objects the controller owns: no key is added.
SyncConfigMap ==
    /\ lagCM
    /\ seenCM' = cm
    /\ lagCM' = FALSE
    /\ UNCHANGED <<server, seenConn, seenSecret, lagConn, lagSecret, queue, pass, faults>>

SyncSecret(c) ==
    /\ c \in lagSecret
    /\ seenSecret' = [seenSecret EXCEPT ![c] = secret[c]]
    /\ lagSecret' = lagSecret \ {c}
    /\ UNCHANGED <<server, seenConn, seenCM, lagConn, lagCM, queue, pass, faults>>

-----------------------------------------------------------------------------
\* The reconcile pass.

\* The cached Get and the validation: an invalid spec goes straight to the
\* status, with an error and no requeue.
StartReconcile(c) ==
    /\ pass.step = "idle"
    /\ c \in queue
    /\ Fresh(c \in lagConn)
    /\ queue' = queue \ {c}
    /\ IF seenConn[c].phase = "absent"
       THEN UNCHANGED pass
       ELSE pass' = [step |-> IF valid(seenConn[c]) THEN "finalizer" ELSE "publish",
                     c |-> c, obj |-> seenConn[c], current |-> c \notin lagConn,
                     failed |-> ~valid(seenConn[c]), requeue |-> FALSE]
    /\ UNCHANGED <<server, informer, faults>>

addFinalizerIfNotExists(o) ==
    /\ pass.step = "finalizer"
    /\ IF pass.obj.finalizer
       THEN /\ Goto("configmap")
            /\ UNCHANGED <<conn, lagConn, faults>>
       ELSE LET claimed == [pass.obj EXCEPT !.finalizer = TRUE] IN
            /\ Spend(o)
            /\ WriteConn(o, claimed)
            /\ IF pass.current /\ o = "ok"
               THEN pass' = [pass EXCEPT !.step = "configmap", !.obj = claimed]
               ELSE Fail
    /\ UNCHANGED <<status, cm, secret, seenConn, seenCM, seenSecret, lagCM, lagSecret,
                   queue>>

reconcileConfigMap(o) ==
    LET deleting == pass.obj.phase = "deleting"
        new == updatedConfigMap(pass.c, pass.obj)
    IN
    /\ pass.step = "configmap"
    /\ Fresh(lagCM)
    /\ Spend(o)
    /\ \/ /\ seenCM.phase = "absent" /\ deleting
          /\ Proceed(o, TRUE, "secret")
          /\ NoWriteConfigMap
       \/ /\ seenCM.phase = "absent" /\ ~deleting
          /\ LET legal == cm.phase = "absent" IN
             /\ WriteConfigMap(o, legal, generateNewConfigMap(pass.c, pass.obj))
             /\ Proceed(o, legal, "secret")
       \* Without our finalizer the object goes away; errUpdateIncompleted
       \* makes the pass return here, to be requeued, and without an error.
       \/ /\ seenCM.phase = "terminating"
          /\ WriteConfigMap(o, ~lagCM, NoConfigMap)
          /\ IF ~lagCM /\ o = "ok"
             THEN pass' = [pass EXCEPT !.step = "publish", !.requeue = TRUE]
             ELSE Fail
       \/ /\ seenCM.phase = "live" /\ new = seenCM
          /\ Proceed(o, TRUE, "secret")
          /\ NoWriteConfigMap
       \/ /\ seenCM.phase = "live" /\ new # seenCM
          /\ WriteConfigMap(o, ~lagCM, new)
          /\ Proceed(o, ~lagCM, "secret")
    /\ UNCHANGED <<conn, status, secret, seenConn, seenCM, seenSecret, lagConn, lagSecret,
                   queue>>

\* A pass over a live object creates the Secret or brings it up to date.
reconcileLiveSecret(o) ==
    LET seen == seenSecret[pass.c]
        lagging == pass.c \in lagSecret
        wanted == generateNewSecret(pass.obj)
        new == [seen EXCEPT !.managed = TRUE, !.spec = pass.obj.spec]
    IN
    /\ pass.obj.phase = "live"
    /\ \/ /\ seen.phase = "absent"
          /\ LET legal == secret[pass.c].phase = "absent" IN
             /\ WriteSecret(o, legal, wanted)
             /\ Proceed(o, legal, "publish")
       \/ /\ seen.phase # "absent" /\ new = seen
          /\ Proceed(o, TRUE, "publish")
          /\ NoWriteSecret
       \/ /\ seen.phase # "absent" /\ new # seen
          /\ WriteSecret(o, ~lagging, new)
          /\ Proceed(o, ~lagging, "publish")

\* A pass over a deleted object takes the finalizer off the Secret first; one
\* that a user deleted before is gone at that moment.
removeSecretFinalizer(o) ==
    LET seen == seenSecret[pass.c]
        lagging == pass.c \in lagSecret
    IN
    /\ pass.obj.phase = "deleting"
    /\ \/ /\ seen.phase = "absent"
          /\ Proceed(o, TRUE, "release")
          /\ NoWriteSecret
       \/ /\ seen.phase # "absent" /\ ~seen.managed
          /\ Proceed(o, TRUE, "deleteSecret")
          /\ NoWriteSecret
       \/ /\ seen.phase # "absent" /\ seen.managed
          /\ WriteSecret(o, ~lagging, IF seen.phase = "terminating" THEN NoSecret
                                      ELSE [seen EXCEPT !.managed = FALSE])
          /\ Proceed(o, ~lagging, "deleteSecret")

reconcileSecret(o) ==
    /\ pass.step = "secret"
    /\ Fresh(pass.c \in lagSecret)
    /\ Spend(o)
    /\ reconcileLiveSecret(o) \/ removeSecretFinalizer(o)
    /\ UNCHANGED <<conn, status, cm, seenConn, seenCM, seenSecret, lagConn, lagCM, queue>>

\* Delete names no version; a Secret that is gone already is an error.
deleteSecret(o) ==
    /\ pass.step = "deleteSecret"
    /\ Spend(o)
    /\ LET present == secret[pass.c].phase # "absent" IN
       /\ WriteSecret(o, present, IF secret[pass.c].managed
                                  THEN [secret[pass.c] EXCEPT !.phase = "terminating"]
                                  ELSE NoSecret)
       /\ Proceed(o, present, "release")
    /\ UNCHANGED <<conn, status, cm, seenConn, seenCM, seenSecret, lagConn, lagCM, queue>>

\* The last step of a teardown.  Ours is the last finalizer: the object goes.
removeFinalizerIfExists(o) ==
    /\ pass.step = "release"
    /\ IF pass.obj.finalizer
       THEN /\ Spend(o)
            /\ WriteConn(o, Gone(pass.obj.life))
            /\ status' = IF pass.current /\ o # "rejected"
                         THEN [status EXCEPT ![pass.c] = NoStatus] ELSE status
            /\ Proceed(o, pass.current, "publish")
       ELSE /\ Goto("publish")
            /\ UNCHANGED <<conn, lagConn, status, faults>>
    /\ UNCHANGED <<cm, secret, seenConn, seenCM, seenSecret, lagCM, lagSecret, queue>>

\* The end of the pass: the verdict, about the generation the pass worked on,
\* then the requeue.  An object that is gone is no error, a failed write is.
updateCephClusterConnectionStatus(o) ==
    LET c == pass.c
        writes == shouldPublishStatus /\ conn[c].phase # "absent"
        verdict == [ready |-> IF pass.failed THEN "false" ELSE "true",
                    observed |-> pass.obj.gen]
        changed == writes /\ o # "rejected" /\ verdict # status[c]
    IN
    /\ pass.step = "publish"
    /\ writes \/ o = "ok"
    /\ Spend(o)
    /\ status' = IF changed THEN [status EXCEPT ![c] = verdict] ELSE status
    /\ lagConn' = IF changed THEN lagConn \cup {c} ELSE lagConn
    /\ queue' = IF pass.requeue \/ o # "ok" THEN queue \cup {c} ELSE queue
    /\ pass' = NoPass
    /\ UNCHANGED <<conn, cm, secret, seenConn, seenCM, seenSecret, lagCM, lagSecret>>

-----------------------------------------------------------------------------
\* Replicas.

EnsureConfigMapExists == IF cm.phase = "absent" THEN EmptyConfigMap ELSE cm

\* The leader dies with its pass; the next one ensures the ConfigMap, fills its
\* cache and gets a create event for every object there is.
CrashRestart ==
    /\ Fault
    /\ cm' = EnsureConfigMapExists
    /\ seenConn' = conn /\ seenCM' = cm' /\ seenSecret' = secret
    /\ lagConn' = {} /\ lagCM' = FALSE /\ lagSecret' = {}
    /\ queue' = {c \in Conns : conn[c].phase # "absent"}
    /\ pass' = NoPass
    /\ UNCHANGED <<conn, status, secret>>

\* A standby replica ensures the ConfigMap before it waits for the lease.
StandbyStart ==
    /\ cm.phase = "absent"
    /\ Fault
    /\ cm' = EnsureConfigMapExists
    /\ lagCM' = TRUE
    /\ UNCHANGED <<conn, status, secret, seenConn, seenCM, seenSecret, lagConn,
                   lagSecret, queue, pass>>

-----------------------------------------------------------------------------
Sync == \/ SyncConfigMap
        \/ \E c \in Conns : SyncConnection(c) \/ SyncSecret(c)

Work == \E o \in Outcomes :
            \/ addFinalizerIfNotExists(o)
            \/ reconcileConfigMap(o)
            \/ reconcileSecret(o)
            \/ deleteSecret(o)
            \/ removeFinalizerIfExists(o)
            \/ updateCephClusterConnectionStatus(o)

User == \/ DeleteConfigMap
        \/ CorruptConfigMap
        \/ \E c \in Conns : CreateConnection(c) \/ EditConnection(c) \/ DeleteConnection(c)
                               \/ DeleteSecret(c)

Next == \/ User
        \/ Sync
        \/ \E c \in Conns : StartReconcile(c)
        \/ Work
        \/ CrashRestart
        \/ StandbyStart

Spec == Init /\ [][Next]_vars

\* The cache catches up, a pass goes on, and a queued key is served: the
\* workqueue is first in, first out, so no key waits behind another for ever.
Fairness ==
    /\ WF_vars(Work)
    /\ WF_vars(SyncConfigMap)
    /\ \A c \in Conns : /\ WF_vars(SyncConnection(c))
                        /\ WF_vars(SyncSecret(c))
                        /\ SF_vars(StartReconcile(c))

FairSpec == Spec /\ Fairness
-----------------------------------------------------------------------------
\* Properties.

TypeOK ==
    /\ conn \in [Conns -> ConnObject] /\ seenConn \in [Conns -> ConnObject]
    /\ status \in [Conns -> StatusObject]
    /\ cm \in ConfigMapObject /\ seenCM \in ConfigMapObject
    /\ secret \in [Conns -> SecretObject] /\ seenSecret \in [Conns -> SecretObject]
    /\ lagConn \subseteq Conns /\ lagCM \in BOOLEAN /\ lagSecret \subseteq Conns
    /\ queue \subseteq Conns
    /\ pass \in PassRecord
    /\ faults \in 0..MaxFaults

EntryOwners == {cm.entries[k].owner : k \in ClusterIDs}

\* Nothing of a connection outlives it, and nothing is created for one before
\* the controller holds it: without the finalizer on the connection there is
\* neither a Secret nor a ConfigMap entry of its own (addFinalizerIfNotExists
\* comes first and removeFinalizerIfExists last in every pass, over crashes,
\* failed calls and users who delete the owned objects).  A connection that is made
\* again for another cluster finds no entry of its former life.
NoOrphans ==
    \A c \in Conns :
        /\ ~conn[c].finalizer => secret[c].phase = "absent" /\ c \notin EntryOwners
        /\ \A k \in ClusterIDs : cm.entries[k].owner = c => k = clusterIDOf(c, conn[c])

\* The entry and the Secret of a connection are those of its present spec.
InPlace(c) ==
    /\ cm.entries[clusterIDOf(c, conn[c])] = generateClusterConfig(c, conn[c])
    /\ secret[c].phase # "absent" /\ secret[c].spec = conn[c].spec

\* What the CRD and conditions.go say of the verdict: when Ready is True about
\* the present generation, every object the connection owns is in place, and it
\* stays so while later passes of this or another connection run.
ReadyMeansInPlace ==
    \A c \in Conns :
        (conn[c].phase = "live" /\ status[c].ready = "true"
             /\ status[c].observed = conn[c].gen)
        => InPlace(c)

\* The moment a verdict turns to Ready=True about the present generation, the
\* owned objects are in place, whatever users did to them before the pass.
ReadyVerdictIsEarned ==
    [][\A c \in Conns :
          (status'[c] # status[c] /\ status'[c].ready = "true"
               /\ status'[c].observed = conn[c].gen)
          => InPlace(c)]_vars

\* One connection never takes away or changes the entry of another cluster: the
\* list is rewritten whole from a cached copy, and the resourceVersion in the
\* Update refuses a copy another pass or a user has written over.
NoLostUpdate ==
    [][\A k \in ClusterIDs :
          (/\ cm.phase = "live" /\ cm'.phase = "live" /\ ~cm'.corrupt
           /\ cm'.entries[k] # cm.entries[k])
          => pass.step = "configmap" /\ clusterIDOf(pass.c, pass.obj) = k]_vars

Settled(c) ==
    \/ conn[c].phase = "absent" /\ secret[c].phase = "absent" /\ c \notin EntryOwners
    \/ /\ conn[c].phase = "live" /\ status[c].observed = conn[c].gen
       /\ IF conn[c].spec \in ValidSpecs
          THEN status[c].ready = "true" /\ InPlace(c)
          ELSE status[c].ready = "false"

\* Once users and faults leave it alone, the controller brings every connection
\* to its spec with a verdict about it, or to nothing at all, and stays there.
EventuallySettled == <>[](\A c \in Conns : Settled(c))

\* A deletion is not held for ever, whatever becomes of the owned objects.
DeletionCompletes ==
    \A c \in Conns : conn[c].phase = "deleting" ~> conn[c].phase = "absent"

\* The finalizer guards the two owned objects as FinalizerGuard says.
assetsOf(c) ==
    {a \in {"secret", "entry"} : IF a = "secret" THEN secret[c].phase # "absent"
                                 ELSE c \in EntryOwners}
claims == [c \in Conns |-> conn[c].finalizer]
holdings == [c \in Conns |-> assetsOf(c)]

Guard == INSTANCE FinalizerGuard WITH
    Resources <- Conns,
    Assets <- {"secret", "entry"},
    claimed <- claims,
    assets <- holdings

\* The controller implements FinalizerGuard: it claims a connection before it
\* creates anything for it and releases it when nothing is left.
GuardsItsAssets == Guard!Spec
=============================================================================
