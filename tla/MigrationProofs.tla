--------------------------- MODULE MigrationProofs ---------------------------
(***************************************************************************)
(* Theorems of Migration, for any drivers, classes, volumes, snapshots and *)
(* any number of faults: the types, and that no volume is lost as long as  *)
(* the volumes stay bound to their claims.                                 *)
(***************************************************************************)
EXTENDS Migration, TLAPS

-----------------------------------------------------------------------------
\* Type correctness.

\* The volumes and backups written as records have their types.
LEMMA ObjectTypes ==
    /\ NoPV \in PVObject /\ NoBackup \in BackupObject
    /\ \A v \in PVs : PVBefore(v) \in PVObject
    /\ SnapshotBefore \in SnapshotObject
    /\ [secret |-> "new", label |-> "true"] \in SnapshotObject
  <1>1. NoPV \in PVObject
    BY DEF NoPV, PVObject, Secrets, Policies
  <1>2. NoBackup \in BackupObject
    BY <1>1 DEF NoBackup, BackupObject
  <1>3. \A v \in PVs : PVBefore(v) \in PVObject
    BY PVsAssumption DEF PVBefore, PVObject, Secrets, Policies
  <1>4. /\ SnapshotBefore \in SnapshotObject
        /\ [secret |-> "new", label |-> "true"] \in SnapshotObject
    BY DEF SnapshotBefore, SnapshotObject, Secrets
  <1> QED
    BY <1>1, <1>2, <1>3, <1>4

\* A run that is over is a run.
LEMMA RestType == \A o \in {"none", "ok", "failed"} : Rest(o) \in HookRecord
  BY ObjectTypes DEF Rest, HookRecord, Steps

\* What is done to the finalizers of a volume leaves a volume, or nothing.
LEMMA UnguardedType ==
    \A object \in PVObject : /\ Unguarded(object) \in PVObject
                             /\ sanitizeObject(object) \in PVObject
                             /\ [object EXCEPT !.policy = "Retain"] \in PVObject
                             /\ [object EXCEPT !.phase = "terminating"] \in PVObject
                             /\ [object EXCEPT !.finalizer = TRUE] \in PVObject
  BY ObjectTypes DEF Unguarded, sanitizeObject, PVObject, Policies

\* The copy with the new Secret is a volume.
LEMMA newPVType ==
    ASSUME hook \in HookRecord, NEW v \in PVs
    PROVE  /\ newPV(v) \in PVObject
           /\ hook.listed[v] \in PVObject
  <1>1. hook.listed[v] \in PVObject
    BY DEF HookRecord
  <1> QED
    BY <1>1 DEF newPV, PVObject, Secrets

\* The hook starts with every variable of its type.
LEMMA TypeInitially == Init => TypeOK
  BY ObjectTypes, RestType, SwitchesAssumption
  DEF Init, TypeOK, PVObject, BackupObject, SnapshotObject

\* The volumes and the driver a run is at, by its step.
AtPV == {"restored", "backedUp", "patch", "delete", "poll", "create", "created"}
AtDriver == {"connection", "classes", "pvs", "backedUp", "patch", "delete", "poll",
             "create", "created"}
StepShape ==
    /\ hook.step \in AtPV => hook.at \in PVs
    /\ hook.step \in AtDriver => hook.driver \in Drivers

\* The calls on the connections and classes, and the loops over them, keep the types.
LEMMA TypeStepDrivers ==
    ASSUME TypeOK, StepShape,
           \/ Run \/ ListDrivers \/ DisableCSIComponents \/ WaitForPods
           \/ \E d \in Drivers : StartDriver(d)
           \/ \E c \in Classes : CreateClass(c)
           \/ CreateConnection \/ EndClass \/ LabelDriver
    PROVE  TypeOK' /\ StepShape'
  <1> USE DEF cluster, snapshots, resources, around
  <1>0. hook \in HookRecord
    BY DEF TypeOK
  <1>1. CASE Run
    <2>1. Rest(hook.last) \in HookRecord
      BY <1>0, RestType DEF HookRecord
    <2>2. hook' \in HookRecord /\ hook'.step = "restore"
      BY <1>1, <2>1 DEF Run, HookRecord, Steps
    <2> QED
      BY <1>1, <2>2 DEF Run, TypeOK, StepShape, AtPV, AtDriver
  <1>2. CASE ListDrivers
    <2>1. hook' \in HookRecord /\ hook'.step \in {"drivers", "disable"}
      BY <1>0, <1>2, ZenonT(40) DEF ListDrivers, HookRecord, Steps
    <2> QED
      BY <1>2, <2>1 DEF ListDrivers, TypeOK, StepShape, AtPV, AtDriver
  <1>3. CASE DisableCSIComponents
    <2>1. hook' \in HookRecord /\ hook'.step = "wait"
      BY <1>0, <1>3 DEF DisableCSIComponents, Goto, HookRecord, Steps
    <2> QED
      BY <1>3, <2>1 DEF DisableCSIComponents, TypeOK, StepShape, AtPV, AtDriver
  <1>4. CASE WaitForPods
    <2>1. hook' \in HookRecord /\ hook'.step = "drivers"
      BY <1>0, <1>4 DEF WaitForPods, HookRecord, Steps, TypeOK
    <2> QED
      BY <1>4, <2>1 DEF WaitForPods, TypeOK, StepShape, AtPV, AtDriver
  <1>5. ASSUME NEW d \in Drivers, StartDriver(d)
        PROVE  TypeOK' /\ StepShape'
    <2>1. hook' \in HookRecord /\ hook'.step = "connection" /\ hook'.driver = d
      BY <1>0, <1>5, ZenonT(40) DEF StartDriver, HookRecord, Steps
    <2>2. /\ prometheus' = prometheus \/ prometheus' = 0
          /\ faults' = faults \/ (faults < MaxFaults /\ faults' = faults + 1)
      BY <1>5, Zenon DEF StartDriver
    <2>3. prometheus' \in 0..1 /\ faults' \in 0..MaxFaults
      BY <2>2, SwitchesAssumption DEF TypeOK
    <2> QED
      BY <1>5, <2>1, <2>3 DEF StartDriver, TypeOK, StepShape, AtPV, AtDriver
  <1>6. ASSUME NEW c \in Classes, CreateClass(c)
        PROVE  TypeOK' /\ StepShape'
    <2>1. CASE c \in NilExpansion \ classes
      <3>1. /\ hook' = Rest("failed") /\ faults' = faults
            /\ UNCHANGED <<cluster, csi, prometheus>>
        BY <1>6, <2>1, Zenon DEF CreateClass, GiveUp
      <3>2. Rest("failed") \in HookRecord /\ Rest("failed").step = "rest"
        BY RestType DEF Rest
      <3>3. hook' \in HookRecord /\ hook'.step = "rest"
        BY <3>1, <3>2, Zenon
      <3> QED
        BY <3>1, <3>3, Zenon DEF TypeOK, StepShape, AtPV, AtDriver
    <2>2. CASE c \notin NilExpansion \ classes
      <3> DEFINE left == {v \in PVs : ClassOf[v] = c /\ hook.listed[v].phase # "absent"}
      <3>0. /\ hook' = [hook EXCEPT !.step = "pvs", !.class = c, !.todo = left]
            /\ left \in SUBSET PVs
        BY <1>6, <2>2, Zenon DEF CreateClass
      <3> HIDE DEF left
      <3>1. hook' \in HookRecord /\ hook'.step = "pvs" /\ hook'.driver = hook.driver
        BY <1>0, <3>0 DEF HookRecord, Steps
      <3> QED
        BY <1>6, <2>2, <3>1 DEF CreateClass, TypeOK, StepShape, AtPV, AtDriver
    <2> QED
      BY <2>1, <2>2
  <1>7. CASE CreateConnection
    <2>1. hook' \in HookRecord /\ hook'.step = "classes" /\ hook'.driver = hook.driver
      BY <1>0, <1>7 DEF CreateConnection, HookRecord, Steps
    <2> QED
      BY <1>7, <2>1 DEF CreateConnection, TypeOK, StepShape, AtPV, AtDriver
  <1>8. CASE EndClass
    <2>1. hook' \in HookRecord /\ hook'.step = "classes" /\ hook'.driver = hook.driver
      BY <1>0, <1>8 DEF EndClass, HookRecord, Steps
    <2> QED
      BY <1>8, <2>1 DEF EndClass, TypeOK, StepShape, AtPV, AtDriver
  <1>9. CASE LabelDriver
    <2>1. hook' \in HookRecord /\ hook'.step = "drivers"
      BY <1>0, <1>9 DEF LabelDriver, HookRecord, Steps
    <2> QED
      BY <1>9, <2>1 DEF LabelDriver, TypeOK, StepShape, AtPV, AtDriver
  <1> QED
    BY <1>1, <1>2, <1>3, <1>4, <1>5, <1>6, <1>7, <1>8, <1>9

\* A backup whose label is set is still one (LabelBackup, setRecreateLabelToBackupResource).
LEMMA BackupLabelled ==
    ASSUME backup \in [PVs -> BackupObject], NEW v \in PVs, NEW label \in {"none", "false", "true"}
    PROVE  [backup EXCEPT ![v].label = label] \in [PVs -> BackupObject]
  <1>1. backup[v] \in BackupObject
    OBVIOUS
  <1>2. [backup[v] EXCEPT !.label = label] \in BackupObject
    BY <1>1 DEF BackupObject
  <1>3. \A b \in BackupObject : [backup EXCEPT ![v] = b] \in [PVs -> BackupObject]
    OBVIOUS
  <1> QED
    BY <1>2, <1>3

\* The calls on the volumes and their backups keep the types.
LEMMA TypeStepPVs ==
    ASSUME TypeOK, StepShape,
           \/ \E v \in PVs : RestorePV(v) \/ SkipPV(v) \/ UpdatePV(v) \/ BackupResource(v)
           \/ LabelRestored \/ LabelBackup \/ RetainPV \/ DeletePV \/ PollPV \/ CreatePV
           \/ LabelCreated
    PROVE  TypeOK' /\ StepShape'
  <1> USE DEF cluster, snapshots, resources, around
  <1>0. hook \in HookRecord /\ Rest("failed") \in HookRecord /\ Rest("failed").step = "rest"
    BY RestType DEF TypeOK, Rest
  <1>a. /\ pv \in [PVs -> PVObject] /\ backup \in [PVs -> BackupObject]
        /\ \A v \in PVs : pv[v] \in PVObject /\ backup[v].data \in PVObject
    BY DEF TypeOK, BackupObject
  <1>1. ASSUME NEW v \in PVs, RestorePV(v)
        PROVE  TypeOK' /\ StepShape'
    <2>1. hook' \in HookRecord /\ hook'.step = "restored" /\ hook'.at = v
      BY <1>0, <1>1 DEF RestorePV, HookRecord, Steps
    <2>2. pv' \in [PVs -> PVObject]
      BY <1>a, <1>1 DEF RestorePV
    <2> QED
      BY <1>1, <2>1, <2>2 DEF RestorePV, TypeOK, StepShape, AtPV, AtDriver
  <1>2. ASSUME NEW v \in PVs, SkipPV(v)
        PROVE  TypeOK' /\ StepShape'
    <2>1. hook' \in HookRecord /\ hook'.step = "pvs" /\ hook'.driver = hook.driver
      BY <1>0, <1>2 DEF SkipPV, HookRecord, Steps
    <2> QED
      BY <1>2, <2>1 DEF SkipPV, TypeOK, StepShape, AtPV, AtDriver
  <1>3. ASSUME NEW v \in PVs, UpdatePV(v)
        PROVE  TypeOK' /\ StepShape'
    <2>1. CASE GiveUp
      BY <1>0, <1>3, <2>1 DEF UpdatePV, GiveUp, TypeOK, StepShape, AtPV, AtDriver
    <2>2. CASE hook' = [hook EXCEPT !.todo = @ \ {v}]
      <3>1. hook' \in HookRecord /\ hook'.step = "pvs" /\ hook'.driver = hook.driver
        BY <1>0, <1>3, <2>2 DEF UpdatePV, HookRecord, Steps
      <3> QED
        BY <1>3, <3>1 DEF UpdatePV, TypeOK, StepShape, AtPV, AtDriver
    <2> QED
      BY <1>3, <2>1, <2>2 DEF UpdatePV
  <1>4. ASSUME NEW v \in PVs, BackupResource(v)
        PROVE  TypeOK' /\ StepShape'
    <2>1. hook' \in HookRecord /\ hook'.step = "backedUp" /\ hook'.at = v /\ hook'.driver = hook.driver
      BY <1>0, <1>4 DEF BackupResource, HookRecord, Steps
    <2>2. sanitizeObject(hook.listed[v]) \in PVObject
      BY <1>0, newPVType, UnguardedType
    <2>3. backup' \in [PVs -> BackupObject]
      BY <1>a, <1>4, <2>2 DEF BackupResource, BackupObject
    <2> QED
      BY <1>4, <2>1, <2>3 DEF BackupResource, TypeOK, StepShape, AtPV, AtDriver
  <1>5. CASE LabelRestored
    <2>1. hook' \in HookRecord /\ hook'.step = "restore"
      BY <1>0, <1>5 DEF LabelRestored, HookRecord, Steps
    <2>2. backup' \in [PVs -> BackupObject]
      <3>1. hook.at \in PVs /\ backup' = [backup EXCEPT ![hook.at].label = "true"]
        BY <1>5 DEF LabelRestored, StepShape, AtPV
      <3> QED
        BY <1>a, <3>1, BackupLabelled
    <2> QED
      BY <1>5, <2>1, <2>2 DEF LabelRestored, TypeOK, StepShape, AtPV, AtDriver
  <1>6. CASE LabelBackup
    <2>1. /\ hook' \in HookRecord /\ hook'.step \in {"patch", "rest"}
          /\ hook'.step = "patch" => hook'.at = hook.at /\ hook'.driver = hook.driver
      BY <1>0, <1>6 DEF LabelBackup, Goto, GiveUp, HookRecord, Steps
    <2>2. backup' \in [PVs -> BackupObject]
      <3>1. hook.at \in PVs /\ backup' = [backup EXCEPT ![hook.at].label = "false"]
        BY <1>6 DEF LabelBackup, StepShape, AtPV
      <3> QED
        BY <1>a, <3>1, BackupLabelled
    <2> QED
      BY <1>6, <2>1, <2>2 DEF LabelBackup, TypeOK, StepShape, AtPV, AtDriver
  <1>7. CASE RetainPV
    <2>1. /\ hook' \in HookRecord /\ hook'.step \in {"delete", "rest"}
          /\ hook'.step = "delete" => hook'.at = hook.at /\ hook'.driver = hook.driver
      BY <1>0, <1>7 DEF RetainPV, Goto, GiveUp, HookRecord, Steps
    <2>2. pv' \in [PVs -> PVObject]
      BY <1>a, <1>7, UnguardedType, ZenonT(40) DEF RetainPV
    <2> QED
      BY <1>7, <2>1, <2>2 DEF RetainPV, TypeOK, StepShape, AtPV, AtDriver
  <1>8. CASE DeletePV
    <2>1. /\ hook' \in HookRecord /\ hook'.step \in {"poll", "rest"}
          /\ hook'.step = "poll" => hook'.at = hook.at /\ hook'.driver = hook.driver
      BY <1>0, <1>8 DEF DeletePV, Goto, GiveUp, HookRecord, Steps
    <2>2. pv' \in [PVs -> PVObject]
      <3>1. hook.at \in PVs
        BY <1>8 DEF DeletePV, StepShape, AtPV
      <3>2. \/ pv' = pv
            \/ pv' = [pv EXCEPT ![hook.at] = [pv[hook.at] EXCEPT !.phase = "terminating"]]
            \/ pv' = [pv EXCEPT ![hook.at] = NoPV]
        BY <1>8 DEF DeletePV
      <3> QED
        BY <1>a, <3>1, <3>2, UnguardedType, ObjectTypes
    <2> QED
      BY <1>8, <2>1, <2>2 DEF DeletePV, TypeOK, StepShape, AtPV, AtDriver
  <1>9. CASE PollPV
    <2>1. /\ hook' \in HookRecord /\ hook'.step \in {"poll", "create", "rest"}
          /\ hook'.step # "rest" => hook'.at = hook.at /\ hook'.driver = hook.driver
      BY <1>0, <1>9 DEF PollPV, Goto, GiveUp, HookRecord, Steps
    <2>2. pv' \in [PVs -> PVObject]
      BY <1>a, <1>9, UnguardedType, ZenonT(40) DEF PollPV
    <2> QED
      BY <1>9, <2>1, <2>2 DEF PollPV, TypeOK, StepShape, AtPV, AtDriver
  <1>10. CASE CreatePV
    <2>0. hook.at \in PVs
      BY <1>10 DEF CreatePV, StepShape, AtPV
    <2>1. /\ hook' \in HookRecord /\ hook'.step \in {"pvs", "created"}
          /\ hook'.driver = hook.driver /\ (hook'.step = "created" => hook'.at = hook.at)
      <3>1. \/ hook' = [hook EXCEPT !.step = "pvs", !.todo = {}, !.at = Nothing]
            \/ hook' = [hook EXCEPT !.step = "created"]
        BY <1>10, Zenon DEF CreatePV, Goto
      <3> QED
        BY <1>0, <3>1, ZenonT(40) DEF HookRecord, Steps
    <2>2. newPV(hook.at) \in PVObject /\ hook.listed[hook.at] \in PVObject
      BY <1>0, <2>0, newPVType
    <2>3. [pv[hook.at] EXCEPT !.policy = hook.listed[hook.at].policy] \in PVObject
      BY <1>a, <2>0, <2>2 DEF PVObject
    <2>4. pv' \in [PVs -> PVObject]
      BY <1>a, <1>10, <2>2, <2>3 DEF CreatePV
    <2> QED
      BY <1>10, <2>1, <2>4 DEF CreatePV, TypeOK, StepShape, AtPV, AtDriver
  <1>11. CASE LabelCreated
    <2>1. hook' \in HookRecord /\ hook'.step = "pvs" /\ hook'.driver = hook.driver
      BY <1>0, <1>11 DEF LabelCreated, HookRecord, Steps
    <2>2. backup' \in [PVs -> BackupObject]
      <3>1. hook.at \in PVs /\ backup' = [backup EXCEPT ![hook.at].label = "true"]
        BY <1>11 DEF LabelCreated, StepShape, AtPV
      <3> QED
        BY <1>a, <3>1, BackupLabelled
    <2> QED
      BY <1>11, <2>1, <2>2 DEF LabelCreated, TypeOK, StepShape, AtPV, AtDriver
  <1> QED
    BY <1>1, <1>2, <1>3, <1>4, <1>5, <1>6, <1>7, <1>8, <1>9, <1>10, <1>11

\* The calls on the snapshots, and the end of a run, keep the types.
LEMMA TypeStepSnapshots ==
    ASSUME TypeOK, StepShape,
           \/ \E s \in VSClasses : MigrateVSClass(s)
           \/ \E k \in Contents : MigrateVSContent(k)
           \/ ListSnapshots \/ EndVSClass \/ Finish \/ Interrupted
    PROVE  TypeOK' /\ StepShape'
  <1> USE DEF cluster, snapshots, resources, around
  <1>0. /\ hook \in HookRecord /\ Rest("failed") \in HookRecord /\ Rest("ok") \in HookRecord
        /\ Rest("failed").step = "rest" /\ Rest("ok").step = "rest"
    BY RestType DEF TypeOK, Rest
  <1>1. ASSUME NEW s \in VSClasses, MigrateVSClass(s)
        PROVE  TypeOK' /\ StepShape'
    <2>1. hook' \in HookRecord /\ hook'.step \in {"contents", "vsclasses"}
      <3>1. \/ \E contents \in SUBSET Contents :
                  hook' = [hook EXCEPT !.step = "contents", !.vsclass = s,
                                       !.contents = contents]
            \/ hook' = [hook EXCEPT !.vsclasses = @ \ {s}] /\ hook.step = "vsclasses"
        BY <1>1 DEF MigrateVSClass
      <3>2. ASSUME NEW contents \in SUBSET Contents,
                   hook' = [hook EXCEPT !.step = "contents", !.vsclass = s,
                                        !.contents = contents]
            PROVE  hook' \in HookRecord /\ hook'.step = "contents"
        BY <1>0, <3>2, ZenonT(40) DEF HookRecord, Steps
      <3>3. CASE hook' = [hook EXCEPT !.vsclasses = @ \ {s}] /\ hook.step = "vsclasses"
        BY <1>0, <3>3 DEF HookRecord, Steps
      <3> QED
        BY <3>1, <3>2, <3>3
    <2>2. vsclass' \in [VSClasses -> SnapshotObject]
      <3>1. [vsclass[s] EXCEPT !.label = "false"] \in SnapshotObject
        BY DEF TypeOK, SnapshotObject
      <3> QED
        BY <1>1, <3>1, ObjectTypes DEF MigrateVSClass, TypeOK
    <2> QED
      BY <1>1, <2>1, <2>2 DEF MigrateVSClass, TypeOK, StepShape, AtPV, AtDriver
  <1>2. ASSUME NEW k \in Contents, MigrateVSContent(k)
        PROVE  TypeOK' /\ StepShape'
    <2>1. hook' \in HookRecord /\ hook'.step = "contents"
      BY <1>0, <1>2 DEF MigrateVSContent, HookRecord, Steps
    <2>2. content' \in [Contents -> SnapshotObject]
      BY <1>2, ObjectTypes DEF MigrateVSContent, TypeOK
    <2> QED
      BY <1>2, <2>1, <2>2 DEF MigrateVSContent, TypeOK, StepShape, AtPV, AtDriver
  <1>3. CASE ListSnapshots
    <2>1. hook' \in HookRecord /\ hook'.step \in {"vsclasses", "rest"}
      <3>1. \/ \E left \in SUBSET VSClasses :
                  hook' = [hook EXCEPT !.step = "vsclasses", !.vsclasses = left]
            \/ hook' = Rest("failed")
        <4> DEFINE todo == {s \in VSClasses : vsclass[s].label # "true"}
        <4>1. todo \in SUBSET VSClasses
          OBVIOUS
        <4>2. \/ hook' = [hook EXCEPT !.step = "vsclasses", !.vsclasses = todo]
              \/ hook' = Rest("failed")
          BY <1>3, Zenon DEF ListSnapshots, GiveUp
        <4> HIDE DEF todo
        <4> QED
          BY <4>1, <4>2, Zenon
      <3> QED
        BY <1>0, <3>1, ZenonT(40) DEF HookRecord, Steps
    <2> QED
      BY <1>3, <2>1 DEF ListSnapshots, TypeOK, StepShape, AtPV, AtDriver
  <1>4. CASE EndVSClass
    <2>1. hook' \in HookRecord /\ hook'.step = "vsclasses"
      BY <1>0, <1>4 DEF EndVSClass, HookRecord, Steps
    <2> QED
      BY <1>4, <2>1 DEF EndVSClass, TypeOK, StepShape, AtPV, AtDriver
  <1>5. CASE Finish
    <2>1. prometheus' \in 0..1
      BY <1>5 DEF Finish, TypeOK
    <2>2. faults' \in 0..MaxFaults
      BY <1>5, SwitchesAssumption DEF Finish, TypeOK
    <2> QED
      BY <1>0, <1>5, <2>1, <2>2 DEF Finish, TypeOK, StepShape, AtPV, AtDriver
  <1>6. CASE Interrupted
    <2>1. faults' \in 0..MaxFaults
      BY <1>6, SwitchesAssumption DEF Interrupted, TypeOK
    <2> QED
      BY <1>0, <1>6, <2>1 DEF Interrupted, GiveUp, TypeOK, StepShape, AtPV, AtDriver
  <1> QED
    BY <1>1, <1>2, <1>3, <1>4, <1>5, <1>6

\* What happens around the hook keeps the types.
LEMMA TypeStepAround ==
    ASSUME TypeOK, StepShape,
           \/ PodsTerminate \/ HelmRelease
           \/ \E v \in PVs : ProtectPV(v) \/ UnprotectPV(v) \/ SomebodyRestores(v)
    PROVE  TypeOK' /\ StepShape'
  <1> USE DEF cluster, snapshots, resources, around
  <1>a. \A v \in PVs : pv[v] \in PVObject /\ backup[v].data \in PVObject
    BY DEF TypeOK, BackupObject
  <1>1. CASE PodsTerminate \/ HelmRelease
    BY <1>1 DEF PodsTerminate, HelmRelease, TypeOK, StepShape
  <1>2. ASSUME NEW v \in PVs, ProtectPV(v) \/ UnprotectPV(v) \/ SomebodyRestores(v)
        PROVE  TypeOK' /\ StepShape'
    <2>1. pv' \in [PVs -> PVObject]
      <3>1. \/ pv' = [pv EXCEPT ![v] = [pv[v] EXCEPT !.finalizer = TRUE]]
            \/ pv' = [pv EXCEPT ![v] = NoPV]
            \/ pv' = [pv EXCEPT ![v] = backup[v].data]
        BY <1>2 DEF ProtectPV, UnprotectPV, SomebodyRestores
      <3>2. /\ [pv[v] EXCEPT !.finalizer = TRUE] \in PVObject /\ NoPV \in PVObject
            /\ backup[v].data \in PVObject /\ pv \in [PVs -> PVObject]
        BY <1>a, UnguardedType, ObjectTypes DEF TypeOK
      <3> QED
        BY <3>1, <3>2
    <2>2. faults' \in 0..MaxFaults
      BY <1>2, SwitchesAssumption DEF ProtectPV, UnprotectPV, SomebodyRestores, TypeOK
    <2> QED
      BY <1>2, <2>1, <2>2 DEF ProtectPV, UnprotectPV, SomebodyRestores, TypeOK, StepShape
  <1> QED
    BY <1>1, <1>2

\* Every step keeps the types.
LEMMA TypeStep == TypeOK /\ StepShape /\ [Next]_vars => TypeOK' /\ StepShape'
  <1> SUFFICES ASSUME TypeOK, StepShape, [Next]_vars PROVE TypeOK' /\ StepShape'
    OBVIOUS
  <1>1. CASE UNCHANGED vars
    BY <1>1 DEF vars, TypeOK, StepShape
  <1>2. CASE Next
    BY <1>2, TypeStepDrivers, TypeStepPVs, TypeStepSnapshots, TypeStepAround
    DEF Next, HookStep
  <1> QED
    BY <1>1, <1>2

\* Every variable of the model stays what its comment says, in every behaviour.
THEOREM TypeCorrect == Spec => []TypeOK
  <1>1. Init => TypeOK /\ StepShape
    BY TypeInitially DEF Init, Rest, StepShape, AtPV, AtDriver
  <1> QED
    BY <1>1, TypeStep, PTL DEF Spec

-----------------------------------------------------------------------------
\* No volume is lost.  A run deletes the volume it is at, which has a backup labelled
\* false by then; it labels a backup true only when it has seen the volume exist, and
\* it makes a new backup of volumes it has listed only, all of which exist but the one
\* it is at.

Listed == {"drivers", "connection", "classes", "pvs", "backedUp", "patch", "delete",
           "poll", "create", "created"}
Removing == {"delete", "poll", "create"}

\* A volume on the list exists, unless it is the one being recreated.
ListShape ==
    /\ hook.step \in {"rest", "restore", "restored"} =>
           \A v \in PVs : hook.listed[v].phase = "absent"
    /\ hook.step \in Listed =>
           \A v \in PVs : hook.listed[v].phase # "absent" =>
               Exists(v) \/ (v = hook.at /\ hook.step \in Removing)

\* What is left to restore has a backup to restore it from; what is left to migrate is
\* on the list.
TodoShape ==
    /\ hook.step \in {"restore", "restored"} => \A v \in hook.todo : backup[v].label = "false"
    /\ hook.step \in {"pvs", "backedUp", "patch", "created"} \cup Removing =>
           \A v \in hook.todo : hook.listed[v].phase # "absent"

\* The volume the run is at.
AtShape ==
    /\ hook.step \in {"restored", "created"} => Exists(hook.at)
    /\ hook.step \in {"backedUp", "patch"} => hook.listed[hook.at].phase # "absent"
    /\ hook.step = "backedUp" => backup[hook.at].data.phase # "absent"
    /\ hook.step \in {"patch"} \cup Removing => backup[hook.at].label = "false"

\* A backup that is to be restored holds a volume.
BackupShape ==
    \A v \in PVs : backup[v].label = "false" => backup[v].data.phase # "absent"

LossInv == /\ TypeOK /\ StepShape
           /\ ListShape /\ TodoShape /\ AtShape /\ BackupShape /\ NothingLost

LossShapes == ListShape /\ TodoShape /\ AtShape /\ BackupShape /\ NothingLost

\* A run that is over has no list and is at nothing.
LEMMA RestShapes ==
    ASSUME LossInv, hook' = Rest("failed") \/ hook' = Rest("ok"),
           UNCHANGED <<pv, backup>>
    PROVE  LossShapes'
  <1>1. hook'.step = "rest" /\ \A v \in PVs : hook'.listed[v].phase = "absent"
    BY DEF Rest, NoPV
  <1> QED
    BY <1>1 DEF LossInv, LossShapes, ListShape, TodoShape, AtShape, BackupShape,
                NothingLost, Exists, Listed, Removing

\* Volumes that come to exist, or keep their phase, keep the shapes.
LEMMA ExistsShapes ==
    ASSUME LossInv, UNCHANGED <<hook, backup>>, \A v \in PVs : Exists(v) => Exists(v)'
    PROVE  LossShapes'
  <1>1. hook.step \in {"restored", "created"} => hook.at \in PVs
    BY DEF LossInv, StepShape, AtPV
  <1> QED
    BY <1>1 DEF LossInv, LossShapes, ListShape, TodoShape, AtShape, BackupShape,
                NothingLost, Listed, Removing

\* The steps of the hook that change no volume and no backup keep the shapes.
LEMMA LossStepLoops ==
    ASSUME LossInv,
           \/ Run \/ ListDrivers \/ DisableCSIComponents \/ WaitForPods
           \/ \E d \in Drivers : StartDriver(d)
           \/ \E c \in Classes : CreateClass(c)
           \/ \E v \in PVs : SkipPV(v) \/ UpdatePV(v)
           \/ CreateConnection \/ EndClass \/ LabelDriver
           \/ \E s \in VSClasses : MigrateVSClass(s)
           \/ \E k \in Contents : MigrateVSContent(k)
           \/ ListSnapshots \/ EndVSClass \/ Finish \/ Interrupted
    PROVE  LossShapes'
  <1> USE DEF cluster, snapshots, resources, around
  <1>0. hook \in HookRecord
    BY DEF LossInv, TypeOK
  <1>1. pv' = pv /\ backup' = backup
    BY Zenon DEF Run, ListDrivers, DisableCSIComponents, WaitForPods, StartDriver, CreateClass,
           SkipPV, UpdatePV, CreateConnection, EndClass, LabelDriver, MigrateVSClass,
           MigrateVSContent, ListSnapshots, EndVSClass, Finish, Interrupted
  <1>2. CASE hook' = Rest("failed") \/ hook' = Rest("ok")
    BY <1>1, <1>2, RestShapes
  <1>3. CASE Run
    <2>1. /\ hook'.step = "restore" /\ \A v \in PVs : hook'.listed[v].phase = "absent"
          /\ \A v \in hook'.todo : backup[v].label = "false"
      BY <1>3 DEF Run, Rest, NoPV
    <2> QED
      BY <1>1, <2>1 DEF LossInv, LossShapes, ListShape, TodoShape, AtShape, BackupShape,
                        NothingLost, Exists, Listed, Removing
  <1>4. CASE ListDrivers
    <2>1. /\ hook'.step \in {"drivers", "disable"} /\ hook'.listed = hook.listed
          /\ hook.step = "restore"
      BY <1>0, <1>4 DEF ListDrivers, HookRecord
    <2> QED
      BY <1>1, <2>1 DEF LossInv, LossShapes, ListShape, TodoShape, AtShape, BackupShape,
                        NothingLost, Exists, Listed, Removing
  <1>5. CASE WaitForPods
    <2>1. hook'.step = "drivers" /\ hook'.listed = pv
      BY <1>0, <1>5 DEF WaitForPods, HookRecord
    <2> QED
      BY <1>1, <2>1 DEF LossInv, LossShapes, ListShape, TodoShape, AtShape, BackupShape,
                        NothingLost, Exists, Listed, Removing
  <1>6. CASE \/ \E d \in Drivers : StartDriver(d)
             \/ CreateConnection \/ EndClass \/ LabelDriver
    <2>1. /\ hook'.step \in {"connection", "classes", "drivers"}
          /\ hook'.listed = hook.listed
          /\ hook.step \in Listed \ Removing
      BY <1>0, <1>6 DEF StartDriver, CreateConnection, EndClass, LabelDriver, HookRecord,
                        Listed, Removing
    <2> QED
      BY <1>1, <2>1 DEF LossInv, LossShapes, ListShape, TodoShape, AtShape, BackupShape,
                        NothingLost, Exists, Listed, Removing
  <1>7. CASE \/ \E c \in Classes : CreateClass(c) /\ ~GiveUp
             \/ \E v \in PVs : SkipPV(v) \/ (UpdatePV(v) /\ ~GiveUp)
    <2>1. /\ hook'.step = "pvs" /\ hook'.listed = hook.listed
          /\ hook.step \in {"classes", "pvs"}
          /\ \/ hook.step = "pvs" /\ hook'.todo \subseteq hook.todo
             \/ \A v \in hook'.todo : hook.listed[v].phase # "absent"
      <3>1. CASE \E c \in Classes : CreateClass(c) /\ ~GiveUp
        <4>1. PICK c \in Classes : CreateClass(c) /\ ~GiveUp
          BY <3>1
        <4> DEFINE left == {v \in PVs : ClassOf[v] = c /\ hook.listed[v].phase # "absent"}
        <4>2. /\ hook' = [hook EXCEPT !.step = "pvs", !.class = c, !.todo = left]
              /\ hook.step = "classes"
          BY <4>1, Zenon DEF CreateClass
        <4>3. \A v \in left : hook.listed[v].phase # "absent"
          OBVIOUS
        <4> HIDE DEF left
        <4>4. hook'.step = "pvs" /\ hook'.listed = hook.listed /\ hook'.todo = left
          BY <1>0, <4>2 DEF HookRecord
        <4> QED
          BY <4>2, <4>3, <4>4
      <3>2. CASE \E v \in PVs : SkipPV(v) \/ (UpdatePV(v) /\ ~GiveUp)
        BY <1>0, <3>2 DEF SkipPV, UpdatePV, HookRecord
      <3> QED
        BY <1>7, <3>1, <3>2
    <2> QED
      BY <1>1, <2>1 DEF LossInv, LossShapes, ListShape, TodoShape, AtShape, BackupShape,
                        NothingLost, Exists, Listed, Removing
  <1>8. CASE \/ DisableCSIComponents \/ EndVSClass
             \/ \E s \in VSClasses : MigrateVSClass(s)
             \/ \E k \in Contents : MigrateVSContent(k)
             \/ (ListSnapshots /\ ~GiveUp)
    <2>1. hook'.step \in {"wait", "vsclasses", "contents"}
      <3>1. CASE DisableCSIComponents \/ EndVSClass
        BY <1>0, <3>1 DEF DisableCSIComponents, Goto, EndVSClass, HookRecord
      <3>2. CASE \E s \in VSClasses : MigrateVSClass(s)
        BY <1>0, <3>2 DEF MigrateVSClass, HookRecord
      <3>3. CASE \E k \in Contents : MigrateVSContent(k)
        BY <1>0, <3>3 DEF MigrateVSContent, HookRecord
      <3>4. CASE ListSnapshots /\ ~GiveUp
        BY <1>0, <3>4 DEF ListSnapshots, HookRecord
      <3> QED
        BY <1>8, <3>1, <3>2, <3>3, <3>4
    <2> QED
      BY <1>1, <2>1 DEF LossInv, LossShapes, ListShape, TodoShape, AtShape, BackupShape,
                        NothingLost, Exists, Listed, Removing
  <1> QED
    BY <1>2, <1>3, <1>4, <1>5, <1>6, <1>7, <1>8, Zenon DEF Finish, Interrupted, GiveUp

\* The steps that change volumes and backups keep the shapes, if nobody but the hook
\* lets a deleted volume go.
LEMMA LossStepPVs ==
    ASSUME LossInv,
           \/ \E v \in PVs : RestorePV(v) \/ BackupResource(v)
           \/ LabelRestored \/ LabelBackup \/ RetainPV \/ DeletePV \/ PollPV \/ CreatePV
           \/ LabelCreated
    PROVE  LossShapes'
  <1> USE DEF cluster, snapshots, resources, around
  <1>0. hook \in HookRecord /\ pv \in [PVs -> PVObject] /\ backup \in [PVs -> BackupObject]
    BY DEF LossInv, TypeOK
  <1>a. hook.step \in AtPV => hook.at \in PVs
    BY DEF LossInv, StepShape
  <1>1. ASSUME NEW v \in PVs, RestorePV(v)
        PROVE  LossShapes'
    <2>1. /\ hook'.step = "restored" /\ hook'.at = v /\ hook'.listed = hook.listed
          /\ hook'.todo = hook.todo
          /\ hook.step = "restore" /\ backup' = backup
      BY <1>0, <1>1 DEF RestorePV, HookRecord
    <2>2. /\ pv'[v].phase # "absent"
          /\ \A w \in PVs \ {v} : pv'[w] = pv[w]
      BY <1>0, <1>1 DEF RestorePV, LossInv, TodoShape, BackupShape, Exists
    <2> QED
      BY <2>1, <2>2 DEF LossInv, LossShapes, ListShape, TodoShape, AtShape, BackupShape,
                        NothingLost, Exists, Listed, Removing
  <1>2. CASE LabelRestored
    <2>1. /\ hook'.step = "restore" /\ hook'.listed = hook.listed
          /\ hook'.todo = hook.todo \ {hook.at} /\ hook.step = "restored" /\ pv' = pv
          /\ hook.todo \subseteq PVs
      BY <1>0, <1>2 DEF LabelRestored, HookRecord
    <2>2. \A w \in PVs : IF w = hook.at THEN backup'[w].label = "true"
                                          ELSE backup'[w] = backup[w]
      BY <1>0, <1>2 DEF LabelRestored, BackupObject
    <2> QED
      BY <1>a, <2>1, <2>2 DEF LossInv, LossShapes, ListShape, TodoShape, AtShape, BackupShape,
                        NothingLost, Exists, Listed, Removing, AtPV
  <1>3. ASSUME NEW v \in PVs, BackupResource(v)
        PROVE  LossShapes'
    <2>1. /\ hook'.step = "backedUp" /\ hook'.at = v /\ hook'.listed = hook.listed
          /\ hook'.todo = hook.todo /\ hook.step = "pvs" /\ pv' = pv /\ v \in hook.todo
      BY <1>0, <1>3 DEF BackupResource, HookRecord
    <2>2. /\ backup'[v].label = "none" /\ backup'[v].data.phase = "live"
          /\ \A w \in PVs \ {v} : backup'[w] = backup[w]
      <3>1. hook.listed[v] \in PVObject
        BY <1>0, newPVType
      <3>2. sanitizeObject(hook.listed[v]).phase = "live"
        BY <3>1 DEF sanitizeObject, PVObject
      <3> QED
        BY <1>0, <1>3, <3>2 DEF BackupResource
    <2>3. hook.listed[v].phase # "absent" /\ Exists(v)
      BY <2>1 DEF LossInv, TodoShape, ListShape, Listed, Removing
    <2> QED
      BY <2>1, <2>2, <2>3 DEF LossInv, LossShapes, ListShape, TodoShape, AtShape, BackupShape,
                        NothingLost, Exists, Listed, Removing
  <1>4. CASE LabelBackup
    <2>1. /\ hook'.step \in {"patch", "rest"}
          /\ hook'.step = "patch" => /\ hook'.at = hook.at /\ hook'.listed = hook.listed
                                   /\ hook'.todo = hook.todo
          /\ hook'.step = "rest" => \A v \in PVs : hook'.listed[v].phase = "absent"
          /\ hook.step = "backedUp" /\ pv' = pv
      BY <1>0, <1>4 DEF LabelBackup, Goto, GiveUp, Rest, NoPV, HookRecord
    <2>2. \A w \in PVs : IF w = hook.at
                          THEN backup'[w].label = "false" /\ backup'[w].data = backup[w].data
                          ELSE backup'[w] = backup[w]
      BY <1>0, <1>4 DEF LabelBackup, BackupObject
    <2> QED
      BY <1>a, <2>1, <2>2 DEF LossInv, LossShapes, ListShape, TodoShape, AtShape, BackupShape,
                        NothingLost, Exists, Listed, Removing, AtPV
  <1>5. CASE RetainPV \/ DeletePV \/ PollPV
    <2>0. CASE hook' = Rest("failed") /\ UNCHANGED <<pv, backup>>
      BY <2>0, RestShapes
    <2>1. CASE ~(hook' = Rest("failed") /\ UNCHANGED pv)
      <3>1. /\ hook'.step \in Removing /\ hook'.at = hook.at /\ hook'.listed = hook.listed
            /\ hook'.todo = hook.todo
            /\ hook.step \in {"patch", "delete", "poll"} /\ backup' = backup
            /\ hook'.step = "create" => ~Exists(hook.at)
        BY <1>0, <1>5, <2>1 DEF RetainPV, DeletePV, PollPV, Goto, GiveUp, HookRecord, Removing
      <3>2. \A w \in PVs : w # hook.at => pv'[w] = pv[w]
        BY <1>0, <1>5 DEF RetainPV, DeletePV, PollPV
      <3> QED
        BY <1>a, <3>1, <3>2 DEF LossInv, LossShapes, ListShape, TodoShape, AtShape, BackupShape,
                        NothingLost, Exists, Listed, Removing, AtPV
    <2> QED
      BY <1>5, <2>0, <2>1 DEF RetainPV, DeletePV, PollPV
  <1>6. CASE CreatePV
    <2>0. hook.at \in PVs /\ hook.step = "create" /\ backup' = backup
      BY <1>a, <1>6 DEF CreatePV, AtPV
    <2>1. CASE Exists(hook.at)
      <3>1. /\ hook'.step = "pvs" /\ hook'.listed = hook.listed /\ hook'.todo = {}
        BY <1>0, <1>6, <2>1 DEF CreatePV, HookRecord
      <3>2. \A w \in PVs : pv'[w].phase = pv[w].phase
        BY <1>0, <1>6, <2>1 DEF CreatePV, PVObject
      <3> QED
        BY <2>0, <2>1, <3>1, <3>2 DEF LossInv, LossShapes, ListShape, TodoShape, AtShape, BackupShape,
                        NothingLost, Exists, Listed, Removing
    <2>2. CASE ~Exists(hook.at)
      <3>1. /\ hook'.step = "created" /\ hook'.listed = hook.listed /\ hook'.at = hook.at
            /\ hook'.todo = hook.todo
        BY <1>0, <1>6, <2>2 DEF CreatePV, Goto, HookRecord
      <3>2. /\ pv'[hook.at].phase = "live"
            /\ \A w \in PVs : w # hook.at => pv'[w] = pv[w]
        <4>1. newPV(hook.at).phase = "live"
          BY <1>0, <2>0, newPVType, ZenonT(40) DEF newPV, PVObject
        <4> QED
          BY <1>0, <1>6, <2>0, <2>2, <4>1 DEF CreatePV
      <3> QED
        BY <2>0, <3>1, <3>2 DEF LossInv, LossShapes, ListShape, TodoShape, AtShape, BackupShape,
                        NothingLost, Exists, Listed, Removing
    <2> QED
      BY <2>1, <2>2
  <1>7. CASE LabelCreated
    <2>1. /\ hook'.step = "pvs" /\ hook'.listed = hook.listed
          /\ hook.step = "created" /\ pv' = pv
          /\ \A w \in hook'.todo : w \in hook.todo
      BY <1>0, <1>7 DEF LabelCreated, HookRecord
    <2>2. \A w \in PVs : IF w = hook.at THEN backup'[w].label = "true"
                                          ELSE backup'[w] = backup[w]
      BY <1>0, <1>7 DEF LabelCreated, BackupObject
    <2> QED
      BY <1>a, <2>1, <2>2 DEF LossInv, LossShapes, ListShape, TodoShape, AtShape, BackupShape,
                        NothingLost, Exists, Listed, Removing, AtPV
  <1> QED
    BY <1>1, <1>2, <1>3, <1>4, <1>5, <1>6, <1>7

\* What happens around the hook keeps the shapes: with every volume bound, the PV
\* protection controller lets none go.
LEMMA LossStepAround ==
    ASSUME LossInv, InUse = PVs,
           \/ PodsTerminate \/ HelmRelease
           \/ \E v \in PVs : ProtectPV(v) \/ UnprotectPV(v) \/ SomebodyRestores(v)
    PROVE  LossShapes'
  <1> USE DEF cluster, snapshots, resources, around
  <1>0. pv \in [PVs -> PVObject]
    BY DEF LossInv, TypeOK
  <1>1. hook' = hook /\ backup' = backup
    BY Zenon DEF PodsTerminate, HelmRelease, ProtectPV, UnprotectPV, SomebodyRestores
  <1>2. \A w \in PVs : Exists(w) => Exists(w)'
    <2>1. CASE PodsTerminate \/ HelmRelease
      BY <2>1 DEF PodsTerminate, HelmRelease, Exists
    <2>2. ASSUME NEW v \in PVs, ProtectPV(v)
          PROVE  \A w \in PVs : Exists(w) => Exists(w)'
      BY <1>0, <2>2 DEF ProtectPV, Exists, PVObject
    <2>3. ASSUME NEW v \in PVs, SomebodyRestores(v)
          PROVE  \A w \in PVs : Exists(w) => Exists(w)'
      BY <1>0, <2>3 DEF SomebodyRestores, Exists
    <2>4. \A v \in PVs : ~UnprotectPV(v)
      BY DEF UnprotectPV
    <2> QED
      BY <2>1, <2>2, <2>3, <2>4
  <1> QED
    BY <1>1, <1>2, ExistsShapes

\* The hook starts with nothing lost.
LEMMA LossInitially == Init => LossInv
  <1> SUFFICES ASSUME Init PROVE LossInv
    OBVIOUS
  <1>1. TypeOK /\ StepShape
    BY TypeInitially DEF Init, Rest, StepShape, AtPV, AtDriver
  <1>2. /\ \A v \in PVs : /\ pv[v].phase = "live" /\ backup[v].label = "none"
                           /\ hook.listed[v].phase = "absent"
        /\ hook.step = "rest"
    BY DEF Init, PVBefore, NoBackup, Rest, NoPV
  <1> QED
    BY <1>1, <1>2 DEF LossInv, ListShape, TodoShape, AtShape, BackupShape,
                      NothingLost, Exists, Listed, Removing

\* Every step keeps it so, if all volumes stay bound to their claims.
LEMMA LossStep ==
    ASSUME InUse = PVs, LossInv, [Next]_vars
    PROVE  LossInv'
  <1>1. TypeOK' /\ StepShape'
    BY TypeStep DEF LossInv
  <1>2. LossShapes'
    <2>1. CASE UNCHANGED vars
      BY <2>1, ExistsShapes DEF vars, Exists
    <2>2. CASE Next
      BY <2>2, LossStepLoops, LossStepPVs, LossStepAround DEF Next, HookStep
    <2> QED
      BY <2>1, <2>2
  <1> QED
    BY <1>1, <1>2 DEF LossInv, LossShapes

\* Wherever a run stops, a volume that is not there has a backup the next run restores,
\* for any volumes, drivers and faults, if all volumes stay bound to their claims.  The
\* instance MCMigration_lost shows what becomes of a volume that does not.
THEOREM VolumesSurvive ==
    ASSUME InUse = PVs
    PROVE  Spec => []NothingLost
  <1>1. LossInv => NothingLost
    BY DEF LossInv
  <1> QED
    BY <1>1, LossInitially, LossStep, PTL DEF Spec
=============================================================================
