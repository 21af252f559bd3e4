------------------------------- MODULE Migration -------------------------------
(***************************************************************************)
(* The hook that moves a cluster from the ceph-csi module to csi-ceph.     *)
(* For each CephCSIDriver it makes a CephClusterConnection and the         *)
(* CephStorageClasses, and moves the PersistentVolumes to the new Secret.  *)
(* The Secret in a volume's spec is immutable, so a volume is deleted and  *)
(* created again, a backup of it kept in between.  The VolumeSnapshot-     *)
(* Classes and their contents follow.                                      *)
(*                                                                         *)
(* Deckhouse runs the hook again until a run ends well, and once more at   *)
(* each later Helm release.  A run keeps nothing for the next one but what *)
(* it wrote to the API server.  An error ends the run, and so does a crash.*)
(*                                                                         *)
(* Abstracted: the objects of other drivers are left out, nothing touches  *)
(* them; the API server's order of a list is any order; of the backups of  *)
(* one volume the last is kept, the older ones are never read again; the   *)
(* two Secret references of a volume are old or new together.              *)
(***************************************************************************)
EXTENDS Naturals

CONSTANTS
    Drivers,        \* the CephCSIDrivers of the old module
    Classes,        \* their storage classes
    DriverOf,       \* the driver of a storage class
    NilExpansion,   \* RBD classes whose driver leaves allowVolumeExpansion out
    PVs,            \* the PersistentVolumes of those classes
    ClassOf,        \* the storage class of a volume
    RefsOf,         \* which Secret references it has: "both", "one" or "none"
    PolicyOf,       \* its reclaim policy before the migration
    InUse,          \* the volumes that stay bound to a claim
    VSClasses,      \* the VolumeSnapshotClasses of the two Ceph drivers
    OwnerOf,        \* the driver whose Secret or clusterID it names, or NoDriver
    Contents,       \* the VolumeSnapshotContents
    VSClassOf,      \* the VolumeSnapshotClass of a content
    SnapshotCRD,    \* are the snapshot CRDs installed
    Restorer,       \* may somebody else recreate a volume from its backup
    MaxFaults       \* bound: failed calls, crashes and the restorer's writes

NoDriver == "no driver"
Nothing == "nothing"
Secrets == {"old", "new"}
Policies == {"Delete", "Retain"}

ASSUME DriversAssumption ==
    NoDriver \notin Drivers /\ DriverOf \in [Classes -> Drivers] /\ NilExpansion \subseteq Classes
ASSUME PVsAssumption ==
    /\ Nothing \notin PVs \cup VSClasses \cup Drivers \cup Classes
    /\ ClassOf \in [PVs -> Classes] /\ RefsOf \in [PVs -> {"both", "one", "none"}]
    /\ PolicyOf \in [PVs -> Policies] /\ InUse \subseteq PVs
ASSUME SnapshotsAssumption ==
    /\ OwnerOf \in [VSClasses -> Drivers \cup {NoDriver}]
    /\ VSClassOf \in [Contents -> VSClasses]
ASSUME SwitchesAssumption ==
    SnapshotCRD \in BOOLEAN /\ Restorer \in BOOLEAN /\ MaxFaults \in Nat

VARIABLES
    migrated,       \* the drivers with the label that says migrated
    conn,           \* the drivers whose CephClusterConnection exists
    classes,        \* the CephStorageClasses that exist
    pv,             \* the PersistentVolumes
    backup,         \* the last CephMetadataBackup of each volume
    vsclass,        \* the VolumeSnapshotClasses
    content,        \* the VolumeSnapshotContents
    csi,            \* the pods of the CSI controllers and nodes
    prometheus,     \* the replicas of the prometheus operator
    hook,           \* the run in progress, and how the last one ended
    faults          \* faults so far

vars == <<migrated, conn, classes, pv, backup, vsclass, content, csi, prometheus,
          hook, faults>>

-----------------------------------------------------------------------------
\* Objects.

PVObject == [phase : {"absent", "live", "terminating"}, secret : Secrets,
             annotation : Secrets, policy : Policies, finalizer : BOOLEAN]
NoPV == [phase |-> "absent", secret |-> "old", annotation |-> "old",
         policy |-> "Retain", finalizer |-> FALSE]
PVBefore(v) == [phase |-> "live", secret |-> "old", annotation |-> "old",
                policy |-> PolicyOf[v], finalizer |-> TRUE]

\* label: pv-recreated-successfully.
BackupObject == [data : PVObject, label : {"none", "false", "true"}]
NoBackup == [data |-> NoPV, label |-> "none"]

\* label: migratedFromCephCSI.
SnapshotObject == [secret : Secrets, label : {"none", "false", "true"}]
SnapshotBefore == [secret |-> "old", label |-> "none"]

Steps == {"rest", "restore", "restored", "disable", "wait", "drivers", "connection",
          "classes", "pvs", "backedUp", "patch", "delete", "poll", "create", "created",
          "vsclasses", "contents"}

\* drivers, classes, todo: what the loop in progress still has to do; at: what it is
\* at; listed: the volumes as the run listed them; up: prometheus is to be restored.
HookRecord == [step : Steps, last : {"none", "ok", "failed"},
               drivers : SUBSET Drivers, driver : Drivers \cup {Nothing},
               classes : SUBSET Classes, class : Classes \cup {Nothing},
               todo : SUBSET PVs, at : PVs \cup {Nothing},
               listed : [PVs -> PVObject], up : BOOLEAN,
               vsclasses : SUBSET VSClasses, vsclass : VSClasses \cup {Nothing},
               contents : SUBSET Contents]

Rest(outcome) ==
    [step |-> "rest", last |-> outcome, drivers |-> {}, driver |-> Nothing,
     classes |-> {}, class |-> Nothing, todo |-> {}, at |-> Nothing,
     listed |-> [v \in PVs |-> NoPV], up |-> FALSE, vsclasses |-> {},
     vsclass |-> Nothing, contents |-> {}]

Exists(v) == pv[v].phase # "absent"

\* What BackupResource keeps: no finalizers, and nothing the API server sets.
sanitizeObject(object) == [object EXCEPT !.finalizer = FALSE, !.phase = "live"]

\* What setting the finalizers to none leaves of a volume.
Unguarded(object) ==
    IF object.phase = "terminating" THEN NoPV ELSE [object EXCEPT !.finalizer = FALSE]

needRecreate(v) == RefsOf[v] # "none" /\ hook.listed[v].secret = "old"
needUpdate(v) == hook.listed[v].annotation = "old"

newPV(v) == [hook.listed[v] EXCEPT !.phase = "live", !.secret = "new", !.annotation = "new"]

-----------------------------------------------------------------------------
Init ==
    /\ migrated = {} /\ conn = {} /\ classes = {}
    /\ pv = [v \in PVs |-> PVBefore(v)]
    /\ backup = [v \in PVs |-> NoBackup]
    /\ vsclass = [s \in VSClasses |-> SnapshotBefore]
    /\ content = [k \in Contents |-> SnapshotBefore]
    /\ csi = "on" /\ prometheus = 1
    /\ hook = Rest("none") /\ faults = 0

cluster == <<migrated, conn, classes, pv, backup, vsclass, content>>
snapshots == <<vsclass, content>>
resources == <<migrated, conn, classes>>
around == <<csi, prometheus, faults>>

Goto(step) == hook' = [hook EXCEPT !.step = step]
GiveUp == hook' = Rest("failed")

\* A call failed, or its answer was lost, or the process died: every error is returned
\* to Deckhouse, which runs the hook again.
Interrupted ==
    /\ hook.step # "rest" /\ faults < MaxFaults
    /\ faults' = faults + 1
    /\ GiveUp
    /\ UNCHANGED <<cluster, csi, prometheus>>

\* Deckhouse starts the hook; the first thing it lists is the backups labelled false.
Run ==
    /\ hook.step = "rest"
    /\ hook' = [Rest(hook.last) EXCEPT !.step = "restore",
                    !.todo = {v \in PVs : backup[v].label = "false"}]
    /\ UNCHANGED <<cluster, around>>

RestorePV_mustCreate(v) ==
    /\ hook.step = "restore" /\ v \in hook.todo
    /\ IF Exists(v) THEN GiveUp /\ UNCHANGED pv
       ELSE /\ pv' = [pv EXCEPT ![v] = backup[v].data]
            /\ hook' = [hook EXCEPT !.step = "restored", !.at = v]
    /\ UNCHANGED <<resources, backup, snapshots, around>>

\* ProcessRemovedPVs: a volume that exists is not touched.
RestorePV(v) ==
    /\ hook.step = "restore" /\ v \in hook.todo
    /\ pv' = IF Exists(v) THEN pv ELSE [pv EXCEPT ![v] = backup[v].data]
    /\ hook' = [hook EXCEPT !.step = "restored", !.at = v]
    /\ UNCHANGED <<resources, backup, snapshots, around>>

LabelRestored ==
    /\ hook.step = "restored"
    /\ backup' = [backup EXCEPT ![hook.at].label = "true"]
    /\ hook' = [hook EXCEPT !.step = "restore", !.todo = @ \ {hook.at}, !.at = Nothing]
    /\ UNCHANGED <<resources, pv, snapshots, around>>

ListDrivers ==
    /\ hook.step = "restore" /\ hook.todo = {}
    /\ hook' = [hook EXCEPT !.drivers = Drivers \ migrated,
                    !.step = IF Drivers = migrated THEN "drivers" ELSE "disable"]
    /\ UNCHANGED <<cluster, around>>

DisableCSIComponents ==
    /\ hook.step = "disable"
    /\ csi' = IF csi = "on" THEN "stopping" ELSE csi
    /\ Goto("wait")
    /\ UNCHANGED <<cluster, prometheus, faults>>

WaitForPods_notWaiting ==
    /\ hook.step = "wait"
    /\ hook' = [hook EXCEPT !.step = "drivers", !.listed = pv]
    /\ UNCHANGED <<cluster, around>>

\* The pods are gone; the volumes, connections and classes are listed.
WaitForPods ==
    /\ hook.step = "wait" /\ csi = "off"
    /\ hook' = [hook EXCEPT !.step = "drivers", !.listed = pv]
    /\ UNCHANGED <<cluster, around>>

\* The prometheus operator is scaled down once a run; a failure of that is ignored.
StartDriver(d) ==
    /\ hook.step = "drivers" /\ d \in hook.drivers
    /\ \/ hook.up /\ UNCHANGED <<prometheus, faults>>
          /\ hook' = [hook EXCEPT !.step = "connection", !.driver = d]
       \/ ~hook.up /\ prometheus' = 0 /\ UNCHANGED faults
          /\ hook' = [hook EXCEPT !.step = "connection", !.driver = d, !.up = TRUE]
       \/ ~hook.up /\ faults < MaxFaults /\ faults' = faults + 1 /\ UNCHANGED prometheus
          /\ hook' = [hook EXCEPT !.step = "connection", !.driver = d]
    /\ UNCHANGED <<cluster, csi>>

CreateConnection_labels ==
    /\ hook.step = "connection"
    /\ conn' = conn \cup {hook.driver} /\ migrated' = migrated \cup {hook.driver}
    /\ hook' = [hook EXCEPT !.step = "classes",
                    !.classes = {c \in Classes : DriverOf[c] = hook.driver}]
    /\ UNCHANGED <<classes, pv, backup, snapshots, around>>

CreateConnection_byHand ==
    /\ hook.step = "connection"
    /\ hook' = [hook EXCEPT !.step = "classes",
                    !.classes = {c \in Classes : DriverOf[c] = hook.driver}]
    /\ UNCHANGED <<cluster, around>>

CreateConnection ==
    /\ hook.step = "connection"
    /\ conn' = conn \cup {hook.driver}
    /\ hook' = [hook EXCEPT !.step = "classes",
                    !.classes = {c \in Classes : DriverOf[c] = hook.driver}]
    /\ UNCHANGED <<migrated, classes, pv, backup, snapshots, around>>

\* An RBD class to be made dereferences its driver's AllowVolumeExpansion: without one
\* the process dies, before the class is made.
CreateClass(c) ==
    /\ hook.step = "classes" /\ c \in hook.classes
    /\ IF c \in NilExpansion \ classes THEN GiveUp /\ UNCHANGED classes
       ELSE /\ classes' = classes \cup {c}
            /\ hook' = [hook EXCEPT !.step = "pvs", !.class = c,
                            !.todo = {v \in PVs : /\ ClassOf[v] = c
                                                  /\ hook.listed[v].phase # "absent"}]
    /\ UNCHANGED <<migrated, conn, pv, backup, snapshots, around>>

EndClass ==
    /\ hook.step = "pvs" /\ hook.todo = {}
    /\ hook' = [hook EXCEPT !.step = "classes", !.classes = @ \ {hook.class},
                    !.class = Nothing]
    /\ UNCHANGED <<cluster, around>>

LabelDriver_class ==
    /\ hook.step = "classes" /\ hook.classes = {}
    /\ migrated' = migrated \cup {hook.class}
    /\ hook' = [hook EXCEPT !.step = "drivers", !.drivers = @ \ {hook.driver},
                    !.driver = Nothing]
    /\ UNCHANGED <<conn, classes, pv, backup, snapshots, around>>

LabelDriver ==
    /\ hook.step = "classes" /\ hook.classes = {}
    /\ migrated' = migrated \cup {hook.driver}
    /\ hook' = [hook EXCEPT !.step = "drivers", !.drivers = @ \ {hook.driver},
                    !.driver = Nothing]
    /\ UNCHANGED <<conn, classes, pv, backup, snapshots, around>>

-----------------------------------------------------------------------------
\* MigratePVsToNewSecret, one volume.

SkipPV(v) ==
    /\ hook.step = "pvs" /\ v \in hook.todo
    /\ ~needRecreate(v) /\ ~needUpdate(v)
    /\ hook' = [hook EXCEPT !.todo = @ \ {v}]
    /\ UNCHANGED <<cluster, around>>

\* The Update writes the listed copy back, its annotations not yet changed; a copy
\* that is no longer current is refused.
UpdatePV(v) ==
    /\ hook.step = "pvs" /\ v \in hook.todo
    /\ ~needRecreate(v) /\ needUpdate(v)
    /\ IF pv[v] = hook.listed[v] THEN hook' = [hook EXCEPT !.todo = @ \ {v}] ELSE GiveUp
    /\ UNCHANGED <<cluster, around>>

BackupResource(v) ==
    /\ hook.step = "pvs" /\ v \in hook.todo
    /\ needRecreate(v)
    /\ backup' = [backup EXCEPT ![v] = [data |-> sanitizeObject(hook.listed[v]), label |-> "none"]]
    /\ hook' = [hook EXCEPT !.step = "backedUp", !.at = v]
    /\ UNCHANGED <<resources, pv, snapshots, around>>

LabelBackup_notYet ==
    /\ hook.step = "backedUp"
    /\ IF RefsOf[hook.at] = "both" THEN Goto("patch") ELSE GiveUp
    /\ UNCHANGED <<cluster, around>>

\* The copy with the new Secret is built next: a reference the volume does not have
\* is a nil pointer there, and the process dies.
LabelBackup ==
    /\ hook.step = "backedUp"
    /\ backup' = [backup EXCEPT ![hook.at].label = "false"]
    /\ IF RefsOf[hook.at] = "both" THEN Goto("patch") ELSE GiveUp
    /\ UNCHANGED <<resources, pv, snapshots, around>>

RetainPV_finalizersOnly ==
    /\ hook.step = "patch"
    /\ IF Exists(hook.at)
       THEN pv' = [pv EXCEPT ![hook.at] = Unguarded(@)] /\ Goto("delete")
       ELSE GiveUp /\ UNCHANGED pv
    /\ UNCHANGED <<resources, backup, snapshots, around>>

RetainPV ==
    /\ hook.step = "patch"
    /\ IF Exists(hook.at)
       THEN /\ pv' = [pv EXCEPT ![hook.at] = Unguarded([@ EXCEPT !.policy = "Retain"])]
            /\ Goto("delete")
       ELSE GiveUp /\ UNCHANGED pv
    /\ UNCHANGED <<resources, backup, snapshots, around>>

DeletePV ==
    /\ hook.step = "delete"
    /\ IF Exists(hook.at)
       THEN /\ pv' = [pv EXCEPT ![hook.at] = IF @.finalizer
                                               THEN [@ EXCEPT !.phase = "terminating"]
                                               ELSE NoPV]
            /\ Goto("poll")
       ELSE GiveUp /\ UNCHANGED pv
    /\ UNCHANGED <<resources, backup, snapshots, around>>

\* Finalizers that came back are taken off again, until the volume is gone; a volume
\* that somebody recreated never goes, and after three minutes the run gives up.
PollPV ==
    /\ hook.step = "poll"
    /\ \/ ~Exists(hook.at) /\ Goto("create") /\ UNCHANGED pv
       \/ /\ pv[hook.at].finalizer
          /\ pv' = [pv EXCEPT ![hook.at] = Unguarded(@)]
          /\ UNCHANGED hook
       \/ pv[hook.at].phase = "live" /\ GiveUp /\ UNCHANGED pv
    /\ UNCHANGED <<resources, backup, snapshots, around>>

\* The copy is taken after the patch, whose answer overwrites the original.
CreatePV_patchedCopy ==
    /\ hook.step = "create"
    /\ IF Exists(hook.at)
       THEN /\ pv' = [pv EXCEPT ![hook.at].policy = hook.listed[hook.at].policy]
            /\ hook' = [hook EXCEPT !.step = "pvs", !.todo = {}, !.at = Nothing]
       ELSE /\ pv' = [pv EXCEPT ![hook.at] = [newPV(hook.at) EXCEPT !.policy = "Retain"]]
            /\ Goto("created")
    /\ UNCHANGED <<resources, backup, snapshots, around>>

\* A volume that is there again gets its reclaim policy back, and the function returns,
\* leaving the volumes after it as they are.
CreatePV ==
    /\ hook.step = "create"
    /\ IF Exists(hook.at)
       THEN /\ pv' = [pv EXCEPT ![hook.at].policy = hook.listed[hook.at].policy]
            /\ hook' = [hook EXCEPT !.step = "pvs", !.todo = {}, !.at = Nothing]
       ELSE /\ pv' = [pv EXCEPT ![hook.at] = newPV(hook.at)]
            /\ Goto("created")
    /\ UNCHANGED <<resources, backup, snapshots, around>>

LabelCreated ==
    /\ hook.step = "created"
    /\ backup' = [backup EXCEPT ![hook.at].label = "true"]
    /\ hook' = [hook EXCEPT !.step = "pvs", !.todo = @ \ {hook.at}, !.at = Nothing]
    /\ UNCHANGED <<resources, pv, snapshots, around>>

-----------------------------------------------------------------------------
\* MigrateVSClassesAndVSContentsToNewSecret.

\* Listing a kind that is not installed is an error like any other.
ListSnapshots ==
    /\ hook.step = "drivers" /\ hook.drivers = {}
    /\ IF SnapshotCRD
       THEN hook' = [hook EXCEPT !.step = "vsclasses",
                         !.vsclasses = {s \in VSClasses : vsclass[s].label # "true"}]
       ELSE GiveUp
    /\ UNCHANGED <<cluster, around>>

MigrateVSClass_labelled(s) ==
    /\ hook.step = "vsclasses" /\ s \in hook.vsclasses
    /\ vsclass' = [vsclass EXCEPT ![s] = [secret |-> "new", label |-> "true"]]
    /\ hook' = [hook EXCEPT !.vsclasses = @ \ {s}]
    /\ UNCHANGED <<resources, pv, backup, content, around>>

MigrateVSClass(s) ==
    /\ hook.step = "vsclasses" /\ s \in hook.vsclasses
    /\ IF OwnerOf[s] \in conn
       THEN /\ vsclass' = [vsclass EXCEPT ![s] = [secret |-> "new", label |-> "true"]]
            /\ hook' = [hook EXCEPT !.step = "contents", !.vsclass = s,
                            !.contents = {k \in Contents : /\ VSClassOf[k] = s
                                                           /\ content[k].label # "true"}]
       ELSE /\ vsclass' = [vsclass EXCEPT ![s].label = "false"]
            /\ hook' = [hook EXCEPT !.vsclasses = @ \ {s}]
    /\ UNCHANGED <<resources, pv, backup, content, around>>

MigrateVSContent(k) ==
    /\ hook.step = "contents" /\ k \in hook.contents
    /\ content' = [content EXCEPT ![k] = [secret |-> "new", label |-> "true"]]
    /\ hook' = [hook EXCEPT !.contents = @ \ {k}]
    /\ UNCHANGED <<resources, pv, backup, vsclass, around>>

EndVSClass ==
    /\ hook.step = "contents" /\ hook.contents = {}
    /\ hook' = [hook EXCEPT !.step = "vsclasses", !.vsclasses = @ \ {hook.vsclass},
                    !.vsclass = Nothing]
    /\ UNCHANGED <<cluster, around>>

\* A failure to scale the prometheus operator up is ignored.
Finish ==
    /\ hook.step = "vsclasses" /\ hook.vsclasses = {}
    /\ \/ prometheus' = (IF hook.up THEN 1 ELSE prometheus) /\ UNCHANGED faults
       \/ hook.up /\ faults < MaxFaults /\ faults' = faults + 1 /\ UNCHANGED prometheus
    /\ hook' = Rest("ok")
    /\ UNCHANGED <<cluster, csi>>

-----------------------------------------------------------------------------
\* What happens around the hook.

PodsTerminate ==
    /\ csi = "stopping" /\ csi' = "off"
    /\ UNCHANGED <<cluster, prometheus, hook, faults>>

\* The release that follows the hook brings the CSI components back.
HelmRelease ==
    /\ hook.step = "rest" /\ hook.last = "ok" /\ csi # "on"
    /\ csi' = "on"
    /\ UNCHANGED <<cluster, prometheus, hook, faults>>

\* The PV protection controller guards a volume, and lets a deleted one go when no
\* claim uses it.
ProtectPV(v) ==
    /\ pv[v].phase = "live" /\ ~pv[v].finalizer
    /\ pv' = [pv EXCEPT ![v].finalizer = TRUE]
    /\ UNCHANGED <<resources, backup, snapshots, around, hook>>

UnprotectPV(v) ==
    /\ v \notin InUse /\ pv[v].phase = "terminating"
    /\ pv' = [pv EXCEPT ![v] = NoPV]
    /\ UNCHANGED <<resources, backup, snapshots, around, hook>>

SomebodyRestores(v) ==
    /\ Restorer /\ faults < MaxFaults
    /\ ~Exists(v) /\ backup[v] # NoBackup
    /\ pv' = [pv EXCEPT ![v] = backup[v].data]
    /\ faults' = faults + 1
    /\ UNCHANGED <<resources, backup, snapshots, csi, prometheus, hook>>

HookStep ==
    \/ \E v \in PVs : RestorePV(v) \/ SkipPV(v) \/ UpdatePV(v) \/ BackupResource(v)
    \/ LabelRestored \/ ListDrivers \/ DisableCSIComponents \/ WaitForPods
    \/ \E d \in Drivers : StartDriver(d)
    \/ \E c \in Classes : CreateClass(c)
    \/ CreateConnection \/ EndClass \/ LabelDriver
    \/ LabelBackup \/ RetainPV \/ DeletePV \/ PollPV \/ CreatePV \/ LabelCreated
    \/ \E s \in VSClasses : MigrateVSClass(s)
    \/ \E k \in Contents : MigrateVSContent(k)
    \/ ListSnapshots \/ EndVSClass \/ Finish

Next ==
    \/ Run \/ HookStep \/ Interrupted \/ PodsTerminate \/ HelmRelease
    \/ \E v \in PVs : ProtectPV(v) \/ UnprotectPV(v) \/ SomebodyRestores(v)

Spec == Init /\ [][Next]_vars

\* The process that runs goes on, its poll of a volume that stays ends, Deckhouse repeats
\* a run that failed, and deleted pods go.
Fairness ==
    /\ WF_vars(HookStep)
    /\ WF_vars(PollPV /\ GiveUp)
    /\ WF_vars(Run /\ hook.last # "ok")
    /\ WF_vars(PodsTerminate)

FairSpec == Spec /\ Fairness

-----------------------------------------------------------------------------
\* Every variable has its type.
TypeOK ==
    /\ migrated \subseteq Drivers /\ conn \subseteq Drivers /\ classes \subseteq Classes
    /\ pv \in [PVs -> PVObject] /\ backup \in [PVs -> BackupObject]
    /\ vsclass \in [VSClasses -> SnapshotObject] /\ content \in [Contents -> SnapshotObject]
    /\ csi \in {"on", "stopping", "off"} /\ prometheus \in 0..1
    /\ hook \in HookRecord /\ faults \in 0..MaxFaults

\* Wherever a run stops, a volume that is not there has a backup from which the next
\* run recreates it (ProcessRemovedPVs and the label of the backup).
NothingLost == \A v \in PVs : Exists(v) \/ backup[v].label = "false"

\* A volume is in the new Secret's hands, or a content is, only when the connection that
\* makes the Secret exists.
SecretWillExist ==
    /\ \A v \in PVs : pv[v].secret = "new" => DriverOf[ClassOf[v]] \in conn
    /\ \A k \in Contents : content[k].secret = "new" => OwnerOf[VSClassOf[k]] \in conn

\* A driver labelled as migrated has no volume left that names the old Secret: later
\* runs skip the driver, so what is left then is left for good.
LabelledMeansMigrated ==
    \A v \in PVs : DriverOf[ClassOf[v]] \in migrated =>
                       \/ RefsOf[v] = "none"
                       \/ Exists(v) /\ pv[v].secret = "new"

\* A volume is deleted only with the policy Retain, and while no CSI component runs:
\* the storage behind it stays, and nobody attaches it.
DeletedSafely ==
    [][\A v \in PVs : pv[v].phase = "live" /\ pv'[v].phase # "live" =>
           pv[v].policy = "Retain" /\ csi = "off"]_vars

Finished == hook.step = "rest" /\ hook.last = "ok"

\* After a finished migration a volume has the reclaim policy it had before.
PolicyKept ==
    Finished => \A v \in PVs : Exists(v) => pv[v].policy = PolicyOf[v]

\* After a finished migration the contents of a migrated VolumeSnapshotClass name the
\* new Secret too.
ContentsFollow ==
    Finished => \A k \in Contents : vsclass[VSClassOf[k]].label = "true" =>
                                        content[k].secret = "new"

\* A migration in which no call fails and no process dies leaves every volume its reclaim
\* policy and takes the snapshot contents along, in however many runs it is done and
\* whatever the PV protection controller does meanwhile.
CleanMigration == faults = 0 => PolicyKept /\ ContentsFollow

\* After a finished migration the annotation of a volume that says with which Secret it
\* is to be deleted names the new one.
AnnotationsFollow ==
    Finished => \A v \in PVs : Exists(v) => pv[v].annotation = "new"

\* Once the faults end, a run finishes with every driver migrated.
EventuallyFinished == []<>(Finished /\ migrated = Drivers)
===============================================================================
