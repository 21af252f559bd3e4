------------------------ MODULE MigrationSafetyProofs ------------------------
(***************************************************************************)
(* More theorems of Migration, for any drivers, classes, volumes and       *)
(* faults: who holds the new Secret, which volumes are deleted and when,   *)
(* what the label of a driver is worth, and what a migration that nothing  *)
(* disturbs leaves.                                                        *)
(***************************************************************************)
EXTENDS MigrationProofs

-----------------------------------------------------------------------------
\* How a run moves through its loops.

AtClass == {"pvs", "backedUp", "patch", "delete", "poll", "create", "created"}
WithPV == AtClass \ {"pvs"}

\* The run goes on with the class it is at.
SameClass ==
    /\ hook.step \in AtClass /\ hook'.step \in AtClass
    /\ hook'.drivers = hook.drivers /\ hook'.driver = hook.driver
    /\ hook'.classes = hook.classes /\ hook'.class = hook.class
    /\ hook'.listed = hook.listed
    /\ hook'.todo \subseteq hook.todo
    /\ hook'.step \in WithPV =>
           /\ hook'.todo = hook.todo
           /\ hook'.at \in hook.todo \/ (hook.step \in WithPV /\ hook'.at = hook.at)

\* The steps about a volume of a class: the run goes on, or it is over.
LEMMA ClassGoesOn ==
    ASSUME TypeOK,
           \/ \E v \in PVs : SkipPV(v) \/ UpdatePV(v) \/ BackupResource(v)
           \/ LabelBackup \/ RetainPV \/ DeletePV \/ PollPV \/ CreatePV \/ LabelCreated
    PROVE  SameClass \/ hook' = Rest("failed")
  <1> USE DEF AtClass, WithPV
  <1>0. hook \in HookRecord
    BY DEF TypeOK
  <1>1. ASSUME NEW v \in PVs, SkipPV(v) \/ UpdatePV(v) \/ BackupResource(v)
        PROVE  SameClass \/ hook' = Rest("failed")
    <2>1. /\ hook.step = "pvs" /\ v \in hook.todo
          /\ \/ hook' = [hook EXCEPT !.todo = @ \ {v}]
             \/ hook' = [hook EXCEPT !.step = "backedUp", !.at = v]
             \/ hook' = Rest("failed")
      BY <1>1, Zenon DEF SkipPV, UpdatePV, BackupResource, GiveUp
    <2>2. CASE hook' = [hook EXCEPT !.todo = @ \ {v}]
      BY <1>0, <2>1, <2>2 DEF SameClass, HookRecord
    <2>3. CASE hook' = [hook EXCEPT !.step = "backedUp", !.at = v]
      BY <1>0, <2>1, <2>3 DEF SameClass, HookRecord
    <2> QED
      BY <2>1, <2>2, <2>3
  <1>2. CASE LabelBackup \/ RetainPV
    BY <1>0, <1>2 DEF LabelBackup, RetainPV, Goto, GiveUp, SameClass, HookRecord
  <1>3. CASE DeletePV \/ PollPV
    BY <1>0, <1>3 DEF DeletePV, PollPV, Goto, GiveUp, SameClass, HookRecord
  <1>4. CASE CreatePV
    <2>1. /\ hook.step = "create"
          /\ \/ hook' = [hook EXCEPT !.step = "pvs", !.todo = {}, !.at = Nothing]
             \/ hook' = [hook EXCEPT !.step = "created"]
      BY <1>4, Zenon DEF CreatePV, Goto
    <2>2. CASE hook' = [hook EXCEPT !.step = "pvs", !.todo = {}, !.at = Nothing]
      BY <1>0, <2>1, <2>2 DEF SameClass, HookRecord
    <2>3. CASE hook' = [hook EXCEPT !.step = "created"]
      BY <1>0, <2>1, <2>3 DEF SameClass, HookRecord
    <2> QED
      BY <2>1, <2>2, <2>3
  <1>5. CASE LabelCreated
    <2>1. /\ hook.step = "created"
          /\ hook' = [hook EXCEPT !.step = "pvs", !.todo = @ \ {hook.at}, !.at = Nothing]
      BY <1>5, Zenon DEF LabelCreated
    <2> QED
      BY <1>0, <2>1 DEF SameClass, HookRecord
  <1> QED
    BY <1>1, <1>2, <1>3, <1>4, <1>5

\* The steps after which the run is at no driver.
LEMMA OutsideDrivers ==
    ASSUME TypeOK,
           \/ Run \/ ListDrivers \/ DisableCSIComponents \/ WaitForPods \/ LabelDriver
           \/ \E v \in PVs : RestorePV(v)
           \/ \E s \in VSClasses : MigrateVSClass(s)
           \/ \E k \in Contents : MigrateVSContent(k)
           \/ LabelRestored \/ ListSnapshots \/ EndVSClass \/ Finish \/ Interrupted
    PROVE  hook'.step \notin AtDriver
  <1>0. hook \in HookRecord
    BY DEF TypeOK
  <1>1. CASE Run \/ ListDrivers \/ DisableCSIComponents \/ WaitForPods \/ LabelDriver
    <2>1. hook'.step \in {"restore", "drivers", "disable", "wait"}
      <3>1. CASE Run
        BY <1>0, <3>1 DEF Run, Rest
      <3>2. CASE ListDrivers
        BY <1>0, <3>2, ZenonT(40) DEF ListDrivers, HookRecord
      <3>3. CASE DisableCSIComponents \/ WaitForPods \/ LabelDriver
        BY <1>0, <3>3 DEF DisableCSIComponents, Goto, WaitForPods, LabelDriver, HookRecord
      <3> QED
        BY <1>1, <3>1, <3>2, <3>3
    <2> QED
      BY <2>1 DEF AtDriver
  <1>2. CASE \/ \E v \in PVs : RestorePV(v)
             \/ LabelRestored \/ EndVSClass \/ \E k \in Contents : MigrateVSContent(k)
    <2>1. CASE \E v \in PVs : RestorePV(v)
      BY <1>0, <2>1 DEF RestorePV, HookRecord, AtDriver
    <2>2. CASE LabelRestored \/ EndVSClass
      BY <1>0, <2>2 DEF LabelRestored, EndVSClass, HookRecord, AtDriver
    <2>3. CASE \E k \in Contents : MigrateVSContent(k)
      BY <1>0, <2>3 DEF MigrateVSContent, HookRecord, AtDriver
    <2> QED
      BY <1>2, <2>1, <2>2, <2>3
  <1>3. CASE \E s \in VSClasses : MigrateVSClass(s)
    BY <1>0, <1>3 DEF MigrateVSClass, HookRecord, AtDriver
  <1>4. CASE hook' = Rest("failed") \/ hook' = Rest("ok")
    BY <1>4 DEF Rest, AtDriver
  <1>5. CASE ListSnapshots /\ hook' # Rest("failed")
    BY <1>0, <1>5 DEF ListSnapshots, GiveUp, HookRecord, AtDriver
  <1> QED
    BY <1>1, <1>2, <1>3, <1>4, <1>5 DEF Finish, Interrupted, GiveUp

\* The steps of the loops over drivers and classes.
LEMMA LoopMoves ==
    ASSUME TypeOK
    PROVE  /\ \A d \in Drivers : StartDriver(d) =>
                  /\ hook.step = "drivers" /\ d \in hook.drivers
                  /\ hook'.step = "connection" /\ hook'.driver = d
                  /\ hook'.drivers = hook.drivers /\ hook'.listed = hook.listed
           /\ CreateConnection =>
                  /\ hook.step = "connection" /\ hook'.step = "classes"
                  /\ hook'.drivers = hook.drivers /\ hook'.driver = hook.driver
                  /\ hook'.classes = {c \in Classes : DriverOf[c] = hook.driver}
                  /\ hook'.listed = hook.listed
           /\ \A c \in Classes : CreateClass(c) /\ ~GiveUp =>
                  /\ hook.step = "classes" /\ c \in hook.classes
                  /\ hook'.step = "pvs" /\ hook'.class = c
                  /\ hook'.drivers = hook.drivers /\ hook'.driver = hook.driver
                  /\ hook'.classes = hook.classes /\ hook'.listed = hook.listed
                  /\ hook'.todo =
                         {v \in PVs : ClassOf[v] = c /\ hook.listed[v].phase # "absent"}
           /\ EndClass =>
                  /\ hook.step = "pvs" /\ hook.todo = {} /\ hook'.step = "classes"
                  /\ hook'.drivers = hook.drivers /\ hook'.driver = hook.driver
                  /\ hook'.classes = hook.classes \ {hook.class}
                  /\ hook'.listed = hook.listed
  <1>0. hook \in HookRecord
    BY DEF TypeOK
  <1>1. ASSUME NEW d \in Drivers, StartDriver(d)
        PROVE  /\ hook.step = "drivers" /\ d \in hook.drivers
               /\ hook'.step = "connection" /\ hook'.driver = d
               /\ hook'.drivers = hook.drivers /\ hook'.listed = hook.listed
    BY <1>0, <1>1, ZenonT(40) DEF StartDriver, HookRecord
  <1>2. ASSUME CreateConnection
        PROVE  /\ hook.step = "connection" /\ hook'.step = "classes"
               /\ hook'.drivers = hook.drivers /\ hook'.driver = hook.driver
               /\ hook'.classes = {c \in Classes : DriverOf[c] = hook.driver}
               /\ hook'.listed = hook.listed
    BY <1>0, <1>2 DEF CreateConnection, HookRecord
  <1>3. ASSUME NEW c \in Classes, CreateClass(c), ~GiveUp
        PROVE  /\ hook.step = "classes" /\ c \in hook.classes
               /\ hook'.step = "pvs" /\ hook'.class = c
               /\ hook'.drivers = hook.drivers /\ hook'.driver = hook.driver
               /\ hook'.classes = hook.classes /\ hook'.listed = hook.listed
               /\ hook'.todo = {v \in PVs : ClassOf[v] = c /\ hook.listed[v].phase # "absent"}
    BY <1>0, <1>3 DEF CreateClass, HookRecord
  <1>4. ASSUME EndClass
        PROVE  /\ hook.step = "pvs" /\ hook.todo = {} /\ hook'.step = "classes"
               /\ hook'.drivers = hook.drivers /\ hook'.driver = hook.driver
               /\ hook'.classes = hook.classes \ {hook.class} /\ hook'.listed = hook.listed
    BY <1>0, <1>4 DEF EndClass, HookRecord
  <1> QED
    BY <1>1, <1>2, <1>3, <1>4

\* What a run is at belongs together: the volumes left to the class, the classes left
\* to the driver.
LoopShape ==
    /\ hook.step \in AtDriver \ {"connection"} =>
           \A c \in hook.classes : DriverOf[c] = hook.driver
    /\ hook.step \in AtClass =>
           /\ hook.class \in Classes /\ DriverOf[hook.class] = hook.driver
           /\ \A v \in hook.todo : ClassOf[v] = hook.class
    /\ hook.step \in WithPV => hook.at \in hook.todo

\* Every step keeps the loops together.
LEMMA LoopStep == TypeOK /\ LoopShape /\ [Next]_vars => LoopShape'
  <1> SUFFICES ASSUME TypeOK, LoopShape, [Next]_vars PROVE LoopShape'
    OBVIOUS
  <1>0. hook \in HookRecord
    BY DEF TypeOK
  <1>1. CASE hook'.step \notin AtDriver
    BY <1>1 DEF LoopShape, AtDriver, AtClass, WithPV
  <1>2. CASE SameClass
    BY <1>0, <1>2 DEF SameClass, LoopShape, AtClass, WithPV, AtDriver
  <1>3. CASE \E d \in Drivers : StartDriver(d)
    <2>1. hook'.step = "connection"
      BY <1>3, LoopMoves
    <2> QED
      BY <2>1 DEF LoopShape, AtClass, WithPV
  <1>4. CASE CreateConnection
    <2>1. /\ hook'.step = "classes" /\ hook'.driver = hook.driver
          /\ hook'.classes = {c \in Classes : DriverOf[c] = hook.driver}
      BY <1>4, LoopMoves
    <2> QED
      BY <2>1 DEF LoopShape, AtClass, WithPV
  <1>5. ASSUME NEW c \in Classes, CreateClass(c), ~GiveUp
        PROVE  LoopShape'
    <2>1. /\ hook.step = "classes" /\ c \in hook.classes
          /\ hook'.step = "pvs" /\ hook'.class = c /\ hook'.driver = hook.driver
          /\ hook'.classes = hook.classes
          /\ hook'.todo = {v \in PVs : ClassOf[v] = c /\ hook.listed[v].phase # "absent"}
      BY <1>5, LoopMoves
    <2> QED
      BY <2>1 DEF LoopShape, AtClass, WithPV, AtDriver
  <1>6. CASE EndClass
    <2>1. /\ hook.step = "pvs" /\ hook'.step = "classes" /\ hook'.driver = hook.driver
          /\ hook'.classes = hook.classes \ {hook.class}
      BY <1>6, LoopMoves
    <2> QED
      BY <2>1 DEF LoopShape, AtClass, WithPV, AtDriver
  <1>7. CASE hook' = hook
    BY <1>7 DEF LoopShape
  <1>8. CASE hook' = Rest("failed")
    BY <1>1, <1>8 DEF Rest, AtDriver
  <1>9. CASE UNCHANGED vars
    BY <1>7, <1>9 DEF vars
  <1>10. CASE \/ PodsTerminate \/ HelmRelease
              \/ \E v \in PVs : ProtectPV(v) \/ UnprotectPV(v) \/ SomebodyRestores(v)
    BY <1>7, <1>10, Zenon DEF PodsTerminate, HelmRelease, ProtectPV, UnprotectPV,
                              SomebodyRestores
  <1> QED
    BY <1>1, <1>2, <1>3, <1>4, <1>5, <1>6, <1>8, <1>9, <1>10, ClassGoesOn, OutsideDrivers
    DEF Next, HookStep, GiveUp

-----------------------------------------------------------------------------
\* Who names the new Secret.  A copy of a volume names it only if the connection of its
\* driver exists, and copies of volumes wander: from the volumes to the list of a run, to
\* the backups, and back.

OwnedBy(v, object) == object.secret = "new" => DriverOf[ClassOf[v]] \in conn

CopyShape ==
    \A v \in PVs : /\ OwnedBy(v, pv[v]) /\ OwnedBy(v, backup[v].data)
                   /\ OwnedBy(v, hook.listed[v])

\* Past its first step a run has made the connection of the driver it is at.
ConnShape == hook.step \in AtDriver \ {"connection"} => hook.driver \in conn

\* Contents are done for a VolumeSnapshotClass whose connection exists.
ContentShape ==
    /\ hook.step = "contents" =>
           /\ hook.vsclass \in VSClasses /\ OwnerOf[hook.vsclass] \in conn
           /\ \A k \in hook.contents : VSClassOf[k] = hook.vsclass
    /\ \A k \in Contents : content[k].secret = "new" => OwnerOf[VSClassOf[k]] \in conn

SecretInv == /\ TypeOK /\ StepShape /\ LoopShape
             /\ CopyShape /\ ConnShape /\ ContentShape

\* The hook removes no connection, and neither does anybody else here.
LEMMA ConnGrows == [Next]_vars => conn \subseteq conn'
  <1> USE DEF cluster, snapshots, resources, around
  <1>1. ASSUME \/ \E v \in PVs : RestorePV(v) \/ SkipPV(v) \/ UpdatePV(v) \/ BackupResource(v)
               \/ LabelRestored \/ ListDrivers \/ DisableCSIComponents \/ WaitForPods
               \/ \E d \in Drivers : StartDriver(d)
               \/ \E c \in Classes : CreateClass(c)
               \/ EndClass \/ LabelDriver
               \/ LabelBackup \/ RetainPV \/ DeletePV \/ PollPV \/ CreatePV \/ LabelCreated
        PROVE  conn' = conn
    BY <1>1, Zenon DEF RestorePV, SkipPV, UpdatePV, BackupResource, LabelRestored, ListDrivers,
       DisableCSIComponents, WaitForPods, StartDriver, CreateClass, EndClass, LabelDriver,
       LabelBackup, RetainPV, DeletePV, PollPV, CreatePV, LabelCreated
  <1>2. ASSUME \/ \E s \in VSClasses : MigrateVSClass(s)
               \/ \E k \in Contents : MigrateVSContent(k)
               \/ ListSnapshots \/ EndVSClass \/ Finish
               \/ Run \/ Interrupted \/ PodsTerminate \/ HelmRelease
               \/ \E v \in PVs : ProtectPV(v) \/ UnprotectPV(v) \/ SomebodyRestores(v)
               \/ UNCHANGED vars
        PROVE  conn' = conn
    BY <1>2, Zenon DEF MigrateVSClass, MigrateVSContent, ListSnapshots, EndVSClass, Finish,
       Run, Interrupted, PodsTerminate, HelmRelease, ProtectPV, UnprotectPV,
       SomebodyRestores, vars
  <1>3. CreateConnection => conn \subseteq conn'
    BY DEF CreateConnection
  <1> QED
    BY <1>1, <1>2, <1>3 DEF Next, HookStep

\* Where the Secret of a volume comes from: the volume, its backup, nowhere, or the
\* connection of the driver the run is at.
LEMMA SecretOfPV ==
    ASSUME SecretInv, [Next]_vars, NEW v \in PVs
    PROVE  \/ pv'[v].secret \in {pv[v].secret, backup[v].data.secret, "old"}
           \/ DriverOf[ClassOf[v]] \in conn
  <1> USE DEF cluster, snapshots, resources, around
  <1>0. /\ hook \in HookRecord /\ pv \in [PVs -> PVObject] /\ pv[v] \in PVObject
        /\ hook.step \in AtPV => hook.at \in PVs
    BY DEF SecretInv, TypeOK, StepShape
  <1>a. ASSUME NEW object \in PVObject
        PROVE  Unguarded(object).secret \in {object.secret, "old"}
    BY DEF Unguarded, PVObject, NoPV
  <1>1. ASSUME NEW w \in PVs,
               RestorePV(w) \/ ProtectPV(w) \/ UnprotectPV(w) \/ SomebodyRestores(w)
        PROVE  pv'[v].secret \in {pv[v].secret, backup[v].data.secret, "old"}
    <2>1. CASE RestorePV(w) \/ SomebodyRestores(w)
      BY <1>0, <2>1 DEF RestorePV, SomebodyRestores
    <2>2. CASE ProtectPV(w)
      BY <1>0, <2>2 DEF ProtectPV, PVObject
    <2>3. CASE UnprotectPV(w)
      BY <1>0, <2>3 DEF UnprotectPV, NoPV
    <2> QED
      BY <1>1, <2>1, <2>2, <2>3
  <1>2. CASE RetainPV
    <2>1. [pv[v] EXCEPT !.policy = "Retain"] \in PVObject
      BY <1>0, UnguardedType
    <2>2. [pv[v] EXCEPT !.policy = "Retain"].secret = pv[v].secret
      BY <1>0 DEF PVObject
    <2>3. \/ pv'[v] = pv[v]
          \/ pv'[v] = Unguarded([pv[v] EXCEPT !.policy = "Retain"])
      BY <1>0, <1>2 DEF RetainPV
    <2> QED
      BY <1>a, <2>1, <2>2, <2>3
  <1>3. CASE DeletePV \/ PollPV
    <2>1. [pv[v] EXCEPT !.phase = "terminating"].secret = pv[v].secret
      BY <1>0 DEF PVObject
    <2>2. \/ pv'[v] \in {pv[v], NoPV, [pv[v] EXCEPT !.phase = "terminating"]}
          \/ pv'[v] = Unguarded(pv[v])
      BY <1>0, <1>3 DEF DeletePV, PollPV
    <2>3. NoPV.secret = "old" /\ Unguarded(pv[v]).secret \in {pv[v].secret, "old"}
      BY <1>0, <1>a DEF NoPV
    <2> QED
      BY <2>1, <2>2, <2>3, Zenon
  <1>4. CASE CreatePV
    <2>1. CASE v = hook.at /\ ~Exists(v)
      BY <1>4, <2>1 DEF CreatePV, SecretInv, LoopShape, ConnShape, AtDriver, AtClass, WithPV
    <2>2. CASE v # hook.at \/ Exists(v)
      BY <1>0, <1>4, <2>2 DEF CreatePV, PVObject
    <2> QED
      BY <2>1, <2>2
  <1>5. ASSUME \/ \E w \in PVs : SkipPV(w) \/ UpdatePV(w) \/ BackupResource(w)
               \/ LabelRestored \/ ListDrivers \/ DisableCSIComponents \/ WaitForPods
               \/ \E d \in Drivers : StartDriver(d)
               \/ \E c \in Classes : CreateClass(c)
               \/ CreateConnection \/ EndClass \/ LabelDriver \/ LabelBackup \/ LabelCreated
        PROVE  pv' = pv
    BY <1>5, Zenon DEF SkipPV, UpdatePV, BackupResource, LabelRestored, ListDrivers,
       DisableCSIComponents, WaitForPods, StartDriver, CreateClass, CreateConnection,
       EndClass, LabelDriver, LabelBackup, LabelCreated
  <1>6. ASSUME \/ \E s \in VSClasses : MigrateVSClass(s)
               \/ \E k \in Contents : MigrateVSContent(k)
               \/ ListSnapshots \/ EndVSClass \/ Finish
               \/ Run \/ Interrupted \/ PodsTerminate \/ HelmRelease \/ UNCHANGED vars
        PROVE  pv' = pv
    BY <1>6, Zenon DEF MigrateVSClass, MigrateVSContent, ListSnapshots, EndVSClass, Finish,
       Run, Interrupted, PodsTerminate, HelmRelease, vars
  <1> QED
    BY <1>1, <1>2, <1>3, <1>4, <1>5, <1>6 DEF Next, HookStep

\* Where the Secret of a backup comes from: the backup, or the list of the run.
LEMMA SecretOfBackup ==
    ASSUME TypeOK, [Next]_vars, NEW v \in PVs
    PROVE  backup'[v].data.secret \in {backup[v].data.secret, hook.listed[v].secret}
  <1> USE DEF cluster, snapshots, resources, around
  <1>0. /\ hook \in HookRecord /\ backup \in [PVs -> BackupObject]
        /\ backup[v] \in BackupObject /\ hook.listed[v] \in PVObject
    BY DEF TypeOK, HookRecord
  <1>1. ASSUME NEW w \in PVs, BackupResource(w)
        PROVE  backup'[v].data.secret \in {backup[v].data.secret, hook.listed[v].secret}
    <2>1. sanitizeObject(hook.listed[v]).secret = hook.listed[v].secret
      BY <1>0 DEF sanitizeObject, PVObject
    <2>2. \/ backup'[v] = backup[v]
          \/ backup'[v] = [data |-> sanitizeObject(hook.listed[v]), label |-> "none"]
      BY <1>0, <1>1 DEF BackupResource
    <2> QED
      BY <2>1, <2>2
  <1>2. CASE LabelRestored \/ LabelBackup \/ LabelCreated
    BY <1>0, <1>2 DEF LabelRestored, LabelBackup, LabelCreated, BackupObject
  <1>3. ASSUME \/ \E w \in PVs : RestorePV(w) \/ SkipPV(w) \/ UpdatePV(w)
               \/ ListDrivers \/ DisableCSIComponents \/ WaitForPods
               \/ \E d \in Drivers : StartDriver(d)
               \/ \E c \in Classes : CreateClass(c)
               \/ CreateConnection \/ EndClass \/ LabelDriver
               \/ RetainPV \/ DeletePV \/ PollPV \/ CreatePV
        PROVE  backup' = backup
    BY <1>3, Zenon DEF RestorePV, SkipPV, UpdatePV, ListDrivers, DisableCSIComponents,
       WaitForPods, StartDriver, CreateClass, CreateConnection, EndClass, LabelDriver,
       RetainPV, DeletePV, PollPV, CreatePV
  <1>4. ASSUME \/ \E s \in VSClasses : MigrateVSClass(s)
               \/ \E k \in Contents : MigrateVSContent(k)
               \/ ListSnapshots \/ EndVSClass \/ Finish
               \/ Run \/ Interrupted \/ PodsTerminate \/ HelmRelease
               \/ \E w \in PVs : ProtectPV(w) \/ UnprotectPV(w) \/ SomebodyRestores(w)
               \/ UNCHANGED vars
        PROVE  backup' = backup
    BY <1>4, Zenon DEF MigrateVSClass, MigrateVSContent, ListSnapshots, EndVSClass, Finish,
       Run, Interrupted, PodsTerminate, HelmRelease, ProtectPV, UnprotectPV,
       SomebodyRestores, vars
  <1> QED
    BY <1>1, <1>2, <1>3, <1>4 DEF Next, HookStep

\* What a run has listed is what it had listed, what is there now, or nothing.
LEMMA ListMoves ==
    ASSUME TypeOK, [Next]_vars
    PROVE  \/ hook'.listed = hook.listed
           \/ hook'.listed = [v \in PVs |-> NoPV] /\ hook'.step \in {"rest", "restore"}
           \/ /\ hook.step = "wait" /\ hook'.step = "drivers" /\ csi = "off"
              /\ hook'.listed = pv /\ pv' = pv
  <1> USE DEF cluster, snapshots, resources, around
  <1>0. hook \in HookRecord
    BY DEF TypeOK
  <1>1. CASE hook' = Rest("failed") \/ hook' = Rest("ok")
    BY <1>1 DEF Rest
  <1>2. CASE SameClass \/ hook' = hook
    BY <1>2 DEF SameClass
  <1>3. CASE Run
    BY <1>0, <1>3 DEF Run, Rest
  <1>4. CASE WaitForPods
    BY <1>0, <1>4 DEF WaitForPods, HookRecord
  <1>5. CASE ListDrivers
    BY <1>0, <1>5, ZenonT(40) DEF ListDrivers, HookRecord
  <1>6. CASE \/ \E d \in Drivers : StartDriver(d)
             \/ \E c \in Classes : CreateClass(c) /\ ~GiveUp
             \/ CreateConnection \/ EndClass
    BY <1>6, LoopMoves
  <1>7. CASE \/ \E v \in PVs : RestorePV(v)
             \/ LabelRestored \/ DisableCSIComponents \/ LabelDriver
             \/ \E k \in Contents : MigrateVSContent(k)
             \/ EndVSClass
    BY <1>0, <1>7 DEF RestorePV, LabelRestored, DisableCSIComponents, Goto, LabelDriver,
                      MigrateVSContent, EndVSClass, HookRecord
  <1>8. CASE \E s \in VSClasses : MigrateVSClass(s)
    BY <1>0, <1>8 DEF MigrateVSClass, HookRecord
  <1>9. CASE ListSnapshots /\ hook' # Rest("failed")
    BY <1>0, <1>9 DEF ListSnapshots, GiveUp, HookRecord
  <1>10. CASE \/ PodsTerminate \/ HelmRelease \/ UNCHANGED vars
              \/ \E v \in PVs : ProtectPV(v) \/ UnprotectPV(v) \/ SomebodyRestores(v)
    BY <1>2, <1>10, Zenon DEF PodsTerminate, HelmRelease, ProtectPV, UnprotectPV,
                              SomebodyRestores, vars
  <1>11. Finish \/ Interrupted => hook' = Rest("failed") \/ hook' = Rest("ok")
    BY DEF Finish, Interrupted, GiveUp
  <1> QED
    BY <1>1, <1>2, <1>3, <1>4, <1>5, <1>6, <1>7, <1>8, <1>9, <1>10, <1>11, ClassGoesOn
    DEF Next, HookStep, GiveUp

\* Every copy of a volume keeps its owner.
LEMMA CopyStep == SecretInv /\ [Next]_vars => CopyShape'
  <1> SUFFICES ASSUME SecretInv, [Next]_vars, NEW v \in PVs
               PROVE  (/\ OwnedBy(v, pv[v]) /\ OwnedBy(v, backup[v].data)
                       /\ OwnedBy(v, hook.listed[v]))'
    BY DEF CopyShape
  <1>1. conn \subseteq conn'
    BY ConnGrows
  <1>2. OwnedBy(v, pv[v]) /\ OwnedBy(v, backup[v].data) /\ OwnedBy(v, hook.listed[v])
    BY DEF SecretInv, CopyShape
  <1>3. OwnedBy(v, pv[v])'
    BY <1>1, <1>2, SecretOfPV DEF OwnedBy
  <1>4. OwnedBy(v, backup[v].data)'
    BY <1>1, <1>2, SecretOfBackup DEF SecretInv, OwnedBy
  <1>5. OwnedBy(v, hook.listed[v])'
    <2>1. hook'.listed[v].secret \in {hook.listed[v].secret, pv[v].secret, "old"}
      BY ListMoves DEF SecretInv, NoPV
    <2> QED
      BY <1>1, <1>2, <2>1 DEF OwnedBy
  <1> QED
    BY <1>3, <1>4, <1>5

\* The connection of the driver a run is at is made first and stays.
LEMMA ConnStep == SecretInv /\ [Next]_vars => ConnShape'
  <1> SUFFICES ASSUME SecretInv, [Next]_vars PROVE ConnShape'
    OBVIOUS
  <1>0. conn \subseteq conn' /\ TypeOK /\ ConnShape
    BY ConnGrows DEF SecretInv
  <1>1. CASE hook'.step \notin AtDriver \/ hook'.step = "connection"
    BY <1>1 DEF ConnShape
  <1>2. CASE CreateConnection
    BY <1>0, <1>2, LoopMoves DEF CreateConnection, ConnShape
  <1>3. CASE hook'.driver = hook.driver /\ hook.step \in AtDriver \ {"connection"}
    BY <1>0, <1>3 DEF ConnShape
  <1>4. CASE SameClass
    BY <1>3, <1>4 DEF SameClass, AtClass, AtDriver
  <1>5. CASE \/ \E d \in Drivers : StartDriver(d)
             \/ \E c \in Classes : CreateClass(c) /\ ~GiveUp
             \/ EndClass
    BY <1>0, <1>1, <1>3, <1>5, LoopMoves DEF AtDriver
  <1>6. CASE hook' = hook
    BY <1>0, <1>6 DEF ConnShape
  <1>7. CASE hook' = Rest("failed")
    BY <1>1, <1>7 DEF Rest, AtDriver
  <1>8. CASE \/ PodsTerminate \/ HelmRelease \/ UNCHANGED vars
             \/ \E v \in PVs : ProtectPV(v) \/ UnprotectPV(v) \/ SomebodyRestores(v)
    BY <1>6, <1>8, Zenon DEF PodsTerminate, HelmRelease, ProtectPV, UnprotectPV,
                              SomebodyRestores, vars
  <1> QED
    BY <1>0, <1>1, <1>2, <1>4, <1>5, <1>7, <1>8, ClassGoesOn, OutsideDrivers
    DEF Next, HookStep, GiveUp

\* Contents follow a class whose connection exists.
LEMMA ContentStep == SecretInv /\ [Next]_vars => ContentShape'
  <1> USE DEF cluster, snapshots, resources, around
  <1> SUFFICES ASSUME SecretInv, [Next]_vars PROVE ContentShape'
    OBVIOUS
  <1>0. /\ conn \subseteq conn' /\ TypeOK /\ hook \in HookRecord /\ ContentShape
        /\ content \in [Contents -> SnapshotObject]
    BY ConnGrows DEF SecretInv, TypeOK
  <1>1. CASE hook'.step # "contents" /\ content' = content
    BY <1>0, <1>1 DEF ContentShape
  <1>2. ASSUME NEW s \in VSClasses, MigrateVSClass(s)
        PROVE  ContentShape'
    <2>1. CASE OwnerOf[s] \notin conn
      <3>1. hook'.step # "contents" /\ content' = content
        BY <1>0, <1>2, <2>1 DEF MigrateVSClass, HookRecord
      <3> QED
        BY <1>1, <3>1
    <2>2. CASE OwnerOf[s] \in conn
      <3>1. /\ hook'.vsclass = s /\ content' = content
            /\ \A k \in hook'.contents : VSClassOf[k] = s
        <4> DEFINE left == {k \in Contents : VSClassOf[k] = s /\ content[k].label # "true"}
        <4>1. /\ hook' = [hook EXCEPT !.step = "contents", !.vsclass = s, !.contents = left]
              /\ content' = content
          BY <1>2, <2>2, Zenon DEF MigrateVSClass
        <4>2. \A k \in left : VSClassOf[k] = s
          OBVIOUS
        <4> HIDE DEF left
        <4> QED
          BY <1>0, <4>1, <4>2 DEF HookRecord
      <3> QED
        BY <1>0, <2>2, <3>1 DEF ContentShape
    <2> QED
      BY <2>1, <2>2
  <1>3. ASSUME NEW k \in Contents, MigrateVSContent(k)
        PROVE  ContentShape'
    <2>1. /\ hook.step = "contents" /\ k \in hook.contents
          /\ hook'.vsclass = hook.vsclass /\ hook'.contents \subseteq hook.contents
      BY <1>0, <1>3 DEF MigrateVSContent, HookRecord
    <2>2. /\ VSClassOf[k] = hook.vsclass
          /\ \A j \in Contents : j # k => content'[j] = content[j]
      BY <1>0, <1>3, <2>1 DEF MigrateVSContent, ContentShape
    <2> QED
      BY <1>0, <2>1, <2>2 DEF ContentShape
  <1>4. CASE UNCHANGED <<hook, content>>
    BY <1>0, <1>4 DEF ContentShape
  <1>5. ASSUME \/ \E v \in PVs : RestorePV(v) \/ SkipPV(v) \/ UpdatePV(v) \/ BackupResource(v)
               \/ LabelRestored \/ ListDrivers \/ DisableCSIComponents \/ WaitForPods
               \/ \E d \in Drivers : StartDriver(d)
               \/ \E c \in Classes : CreateClass(c)
               \/ CreateConnection \/ EndClass \/ LabelDriver \/ LabelBackup \/ RetainPV
               \/ DeletePV \/ PollPV \/ CreatePV \/ LabelCreated
               \/ ListSnapshots \/ EndVSClass \/ Finish \/ Run \/ Interrupted
        PROVE  content' = content
    BY <1>5, Zenon DEF RestorePV, SkipPV, UpdatePV, BackupResource, LabelRestored,
       ListDrivers, DisableCSIComponents, WaitForPods, StartDriver, CreateClass,
       CreateConnection, EndClass, LabelDriver, LabelBackup, RetainPV, DeletePV, PollPV,
       CreatePV, LabelCreated, ListSnapshots, EndVSClass, Finish, Run, Interrupted
  <1>6. SameClass => hook'.step # "contents"
    BY DEF SameClass, AtClass
  <1>7. hook' \in {Rest("failed"), Rest("ok")} => hook'.step # "contents"
    BY DEF Rest
  <1>8. ASSUME \/ \E d \in Drivers : StartDriver(d)
               \/ \E c \in Classes : CreateClass(c) /\ ~GiveUp
               \/ CreateConnection \/ EndClass
        PROVE  hook'.step # "contents"
    BY <1>0, <1>8, LoopMoves
  <1>9. ASSUME \/ \E v \in PVs : RestorePV(v)
               \/ LabelRestored \/ DisableCSIComponents \/ WaitForPods \/ LabelDriver
               \/ EndVSClass
        PROVE  hook'.step # "contents"
    BY <1>0, <1>9 DEF RestorePV, LabelRestored, DisableCSIComponents, Goto, WaitForPods,
                      LabelDriver, EndVSClass, HookRecord
  <1>10. Run => hook'.step # "contents"
    BY DEF Run, Rest
  <1>11. ListDrivers => hook'.step # "contents"
    BY <1>0, ZenonT(40) DEF ListDrivers, HookRecord
  <1>12. ListSnapshots => hook' = Rest("failed") \/ hook'.step # "contents"
    BY <1>0 DEF ListSnapshots, GiveUp, HookRecord
  <1>13. CASE \/ PodsTerminate \/ HelmRelease \/ UNCHANGED vars
              \/ \E v \in PVs : ProtectPV(v) \/ UnprotectPV(v) \/ SomebodyRestores(v)
    BY <1>4, <1>13, Zenon DEF PodsTerminate, HelmRelease, ProtectPV, UnprotectPV,
                              SomebodyRestores, vars
  <1>14. Finish \/ Interrupted => hook' \in {Rest("failed"), Rest("ok")}
    BY DEF Finish, Interrupted, GiveUp
  <1> QED
    BY <1>0, <1>1, <1>2, <1>3, <1>5, <1>6, <1>7, <1>8, <1>9, <1>10, <1>11, <1>12, <1>13,
       <1>14, ClassGoesOn DEF Next, HookStep, GiveUp

\* A volume or a snapshot content names the new Secret only when the connection whose
\* controller makes that Secret exists, for any volumes, owners of snapshot classes and
\* faults, bound volumes or not, and whoever restores backups.
THEOREM SecretsHaveConnections == Spec => []SecretWillExist
  <1>1. Init => SecretInv
    <2> SUFFICES ASSUME Init PROVE SecretInv
      OBVIOUS
    <2>1. TypeOK /\ StepShape
      BY TypeInitially DEF Init, Rest, StepShape, AtPV, AtDriver
    <2>2. /\ \A v \in PVs : /\ pv[v].secret = "old" /\ backup[v].data.secret = "old"
                             /\ hook.listed[v].secret = "old"
          /\ \A k \in Contents : content[k].secret = "old"
          /\ hook.step = "rest"
      BY DEF Init, PVBefore, NoBackup, Rest, NoPV, SnapshotBefore
    <2> QED
      BY <2>1, <2>2 DEF SecretInv, LoopShape, CopyShape, OwnedBy, ConnShape, ContentShape,
                        AtDriver, AtClass, WithPV
  <1>2. SecretInv /\ [Next]_vars => SecretInv'
    BY TypeStep, LoopStep, CopyStep, ConnStep, ContentStep DEF SecretInv
  <1>3. SecretInv => SecretWillExist
    BY DEF SecretInv, CopyShape, OwnedBy, ContentShape, SecretWillExist
  <1> QED
    BY <1>1, <1>2, <1>3, PTL DEF Spec

-----------------------------------------------------------------------------
\* How a volume is deleted.  The policy that counts is the one on the server when the
\* volume goes, and three writers may put another one there: the hook's patch, its repair
\* of the policy of a volume that came back, and whoever restores a backup.

BackupLive == \A v \in PVs : backup[v].data.phase # "terminating"

\* A volume on its way out keeps its data; one that was on its way out already when the
\* run listed it was listed with the policy Retain.
TerminatingShape ==
    \A v \in PVs : pv[v].phase = "terminating" =>
        /\ pv[v].policy = "Retain"
        /\ hook.listed[v].policy = "Retain" \/ (v = hook.at /\ hook.step \in Removing)

\* The volume the run is at: its backup has the listed policy, and at its deletion it has
\* Retain, be it the one patched or one restored meanwhile.
PolicyShape ==
    /\ hook.step \in {"delete", "create", "created"} => pv[hook.at].phase # "terminating"
    /\ hook.step \in {"backedUp", "patch"} =>
           backup[hook.at].data.policy = hook.listed[hook.at].policy
    /\ hook.step = "delete" =>
           IF Exists(hook.at) THEN pv[hook.at].policy = "Retain"
                              ELSE backup[hook.at].data.policy = "Retain"

\* The run is at a driver only after the CSI pods have gone.
PodShape ==
    hook.step \in AtDriver \/ (hook.step = "drivers" /\ hook.drivers # {}) => csi = "off"

SafeShapes == BackupLive /\ TerminatingShape /\ PolicyShape
SafetyInv == TypeOK /\ StepShape /\ BackupLive /\ TerminatingShape /\ PolicyShape /\ PodShape

\* What the hook writes to the volume it is at: a live copy, and no less live after its
\* finalizers are gone.
LEMMA LiveCopies ==
    ASSUME hook \in HookRecord, NEW v \in PVs
    PROVE  /\ newPV(v).phase = "live"
           /\ \A object \in PVObject : object.phase = "live" =>
                 LET kept == [object EXCEPT !.policy = "Retain"] IN
                 /\ Unguarded(object).phase = "live"
                 /\ Unguarded(kept).phase = "live" /\ Unguarded(kept).policy = "Retain"
  <1>1. hook.listed[v] \in PVObject
    BY newPVType
  <1>2. newPV(v).phase = "live"
    BY <1>1, ZenonT(40) DEF newPV, PVObject
  <1>3. \A object \in PVObject : object.phase = "live" =>
            Unguarded(object).phase = "live" /\ Unguarded(object).policy = object.policy
    BY DEF Unguarded, PVObject
  <1>4. \A object \in PVObject : object.phase = "live" =>
            LET kept == [object EXCEPT !.policy = "Retain"] IN
            kept \in PVObject /\ kept.phase = "live" /\ kept.policy = "Retain"
    BY DEF PVObject, Policies
  <1> QED
    BY <1>2, <1>3, <1>4

\* A run that is over leaves the shapes.
LEMMA SafeRest ==
    ASSUME SafetyInv, hook' \in {Rest("failed"), Rest("ok")}, UNCHANGED <<pv, backup>>
    PROVE  SafeShapes'
  <1>1. hook'.step = "rest" /\ \A v \in PVs : hook'.listed[v].policy = "Retain"
    BY DEF Rest, NoPV
  <1> QED
    BY <1>1 DEF SafetyInv, SafeShapes, BackupLive, TerminatingShape, PolicyShape

\* The steps that change no volume and no backup, and begin and end outside the
\* recreation of a volume.
LEMMA SafeStepLoops ==
    ASSUME SafetyInv, [Next]_vars,
           \/ Run \/ ListDrivers \/ DisableCSIComponents \/ WaitForPods
           \/ \E d \in Drivers : StartDriver(d)
           \/ \E c \in Classes : CreateClass(c)
           \/ \E v \in PVs : SkipPV(v) \/ UpdatePV(v)
           \/ CreateConnection \/ EndClass \/ LabelDriver
           \/ \E s \in VSClasses : MigrateVSClass(s)
           \/ \E k \in Contents : MigrateVSContent(k)
           \/ ListSnapshots \/ EndVSClass \/ Finish \/ Interrupted
    PROVE  SafeShapes'
  <1> USE DEF cluster, snapshots, resources, around
  <1>0. TypeOK /\ hook \in HookRecord
    BY DEF SafetyInv, TypeOK
  <1>1. pv' = pv /\ backup' = backup
    BY Zenon DEF Run, ListDrivers, DisableCSIComponents, WaitForPods, StartDriver, CreateClass,
           SkipPV, UpdatePV, CreateConnection, EndClass, LabelDriver, MigrateVSClass,
           MigrateVSContent, ListSnapshots, EndVSClass, Finish, Interrupted
  <1>2. CASE hook' \in {Rest("failed"), Rest("ok")}
    BY <1>1, <1>2, SafeRest
  <1>3. CASE hook.step \notin Removing /\ hook'.step \notin WithPV
    <2>1. \A v \in PVs : \/ hook'.listed[v] = hook.listed[v]
                          \/ hook'.listed[v].policy = "Retain"
                          \/ hook'.listed[v] = pv[v]
      BY <1>0, ListMoves DEF NoPV
    <2> QED
      BY <1>1, <1>3, <2>1 DEF SafetyInv, SafeShapes, BackupLive, TerminatingShape, PolicyShape,
                              WithPV, AtClass, Removing
  <1>4. CASE Run \/ ListDrivers \/ DisableCSIComponents \/ WaitForPods \/ LabelDriver
    <2>1. hook.step \notin Removing
      BY <1>4 DEF Run, ListDrivers, DisableCSIComponents, WaitForPods, LabelDriver, Removing
    <2> QED
      BY <1>0, <1>3, <1>4, <2>1, OutsideDrivers DEF AtDriver, WithPV, AtClass
  <1>5. CASE \/ \E s \in VSClasses : MigrateVSClass(s)
             \/ \E k \in Contents : MigrateVSContent(k)
             \/ ListSnapshots \/ EndVSClass
    <2>1. hook.step \notin Removing
      BY <1>5, Zenon DEF MigrateVSClass, MigrateVSContent, ListSnapshots, EndVSClass, Removing
    <2> QED
      BY <1>0, <1>3, <1>5, <2>1, OutsideDrivers DEF AtDriver, WithPV, AtClass
  <1>6. CASE \/ \E d \in Drivers : StartDriver(d)
             \/ \E c \in Classes : CreateClass(c) /\ ~GiveUp
             \/ CreateConnection \/ EndClass
    BY <1>0, <1>3, <1>6, LoopMoves DEF Removing, WithPV, AtClass
  <1>7. ASSUME NEW v \in PVs, SkipPV(v) \/ UpdatePV(v)
        PROVE  SafeShapes'
    <2>1. hook.step = "pvs" /\ (hook' = [hook EXCEPT !.todo = @ \ {v}] \/ hook' = Rest("failed"))
      BY <1>7, Zenon DEF SkipPV, UpdatePV, GiveUp
    <2> QED
      BY <1>0, <1>2, <1>3, <2>1 DEF Removing, WithPV, AtClass, HookRecord
  <1>8. Finish \/ Interrupted => hook' \in {Rest("failed"), Rest("ok")}
    BY DEF Finish, Interrupted, GiveUp
  <1> QED
    BY <1>2, <1>4, <1>5, <1>6, <1>7, <1>8 DEF GiveUp

\* The backups: restored, made, labelled.
LEMMA SafeStepBackups ==
    ASSUME SafetyInv,
           \/ \E v \in PVs : RestorePV(v) \/ BackupResource(v)
           \/ LabelRestored \/ LabelBackup \/ LabelCreated
    PROVE  SafeShapes'
  <1> USE DEF cluster, snapshots, resources, around
  <1>0. /\ hook \in HookRecord /\ pv \in [PVs -> PVObject] /\ backup \in [PVs -> BackupObject]
        /\ hook.step \in AtPV => hook.at \in PVs
    BY DEF SafetyInv, TypeOK, StepShape
  <1>1. ASSUME NEW v \in PVs, RestorePV(v)
        PROVE  SafeShapes'
    <2>1. /\ hook'.step = "restored" /\ hook'.listed = hook.listed
          /\ hook.step = "restore" /\ backup' = backup
      BY <1>0, <1>1 DEF RestorePV, HookRecord
    <2>2. /\ pv'[v] = pv[v] \/ pv'[v].phase # "terminating"
          /\ \A w \in PVs \ {v} : pv'[w] = pv[w]
      BY <1>0, <1>1 DEF RestorePV, SafetyInv, BackupLive
    <2> QED
      BY <2>1, <2>2 DEF SafetyInv, SafeShapes, BackupLive, TerminatingShape, PolicyShape, Removing
  <1>2. CASE LabelRestored \/ LabelCreated
    <2>1. /\ hook'.step \in {"restore", "pvs"} /\ hook'.listed = hook.listed
          /\ hook.step \in {"restored", "created"} /\ pv' = pv
      BY <1>0, <1>2 DEF LabelRestored, LabelCreated, HookRecord
    <2>2. \A w \in PVs : backup'[w].data = backup[w].data
      BY <1>0, <1>2 DEF LabelRestored, LabelCreated, BackupObject
    <2> QED
      BY <2>1, <2>2 DEF SafetyInv, SafeShapes, BackupLive, TerminatingShape, PolicyShape, Removing
  <1>3. ASSUME NEW v \in PVs, BackupResource(v)
        PROVE  SafeShapes'
    <2>1. /\ hook'.step = "backedUp" /\ hook'.at = v /\ hook'.listed = hook.listed
          /\ hook.step = "pvs" /\ pv' = pv
      BY <1>0, <1>3 DEF BackupResource, HookRecord
    <2>2. /\ backup'[v].data.phase = "live"
          /\ backup'[v].data.policy = hook.listed[v].policy
          /\ \A w \in PVs \ {v} : backup'[w] = backup[w]
      <3>1. hook.listed[v] \in PVObject
        BY <1>0, newPVType
      <3>2. /\ sanitizeObject(hook.listed[v]).phase = "live"
            /\ sanitizeObject(hook.listed[v]).policy = hook.listed[v].policy
        BY <3>1 DEF sanitizeObject, PVObject
      <3> QED
        BY <1>0, <1>3, <3>2 DEF BackupResource
    <2> QED
      BY <2>1, <2>2 DEF SafetyInv, SafeShapes, BackupLive, TerminatingShape, PolicyShape, Removing
  <1>4. CASE LabelBackup
    <2>1. /\ \/ /\ hook'.step = "patch" /\ hook'.at = hook.at /\ hook'.listed = hook.listed
             \/ /\ hook'.step = "rest" /\ \A v \in PVs : hook'.listed[v].policy = "Retain"
          /\ hook.step = "backedUp" /\ pv' = pv
      BY <1>0, <1>4 DEF LabelBackup, Goto, GiveUp, Rest, NoPV, HookRecord
    <2>2. \A w \in PVs : backup'[w].data = backup[w].data
      BY <1>0, <1>4 DEF LabelBackup, BackupObject
    <2> QED
      BY <1>0, <2>1, <2>2 DEF SafetyInv, SafeShapes, BackupLive, TerminatingShape, PolicyShape,
                              Removing, AtPV
  <1> QED
    BY <1>1, <1>2, <1>3, <1>4

\* The recreation of a volume, call by call.
LEMMA SafeStepPVs ==
    ASSUME SafetyInv, RetainPV \/ DeletePV \/ PollPV \/ CreatePV
    PROVE  SafeShapes'
  <1> USE DEF cluster, snapshots, resources, around
  <1>0. /\ hook \in HookRecord /\ pv \in [PVs -> PVObject] /\ backup \in [PVs -> BackupObject]
        /\ hook.at \in PVs /\ pv[hook.at] \in PVObject
    BY DEF SafetyInv, TypeOK, StepShape, AtPV, RetainPV, DeletePV, PollPV, CreatePV
  <1>a. backup' = backup /\ \A w \in PVs : w # hook.at => pv'[w] = pv[w]
    BY <1>0 DEF RetainPV, DeletePV, PollPV, CreatePV
  <1>1. CASE hook' = Rest("failed") /\ pv' = pv
    BY <1>a, <1>1, SafeRest
  <1>2. CASE RetainPV /\ Exists(hook.at)
    <2>1. /\ hook'.step = "delete" /\ hook'.at = hook.at /\ hook'.listed = hook.listed
          /\ hook.step = "patch"
      BY <1>0, <1>2 DEF RetainPV, Goto, HookRecord
    <2>2. CASE pv[hook.at].phase = "terminating"
      <3>1. pv'[hook.at] = NoPV
        BY <1>0, <1>2, <2>2 DEF RetainPV, Unguarded, PVObject
      <3>2. backup[hook.at].data.policy = "Retain"
        BY <1>0, <2>1, <2>2 DEF SafetyInv, TerminatingShape, PolicyShape, Removing
      <3> QED
        BY <1>0, <1>a, <2>1, <3>1, <3>2
        DEF SafetyInv, SafeShapes, BackupLive, TerminatingShape, PolicyShape, Removing, Exists, NoPV
    <2>3. CASE pv[hook.at].phase = "live"
      <3>1. pv'[hook.at].phase = "live" /\ pv'[hook.at].policy = "Retain"
        <4>1. pv'[hook.at] = Unguarded([pv[hook.at] EXCEPT !.policy = "Retain"])
          BY <1>0, <1>2 DEF RetainPV
        <4> QED
          BY <1>0, <2>3, <4>1, LiveCopies
      <3> QED
        BY <1>0, <1>a, <2>1, <3>1
        DEF SafetyInv, SafeShapes, BackupLive, TerminatingShape, PolicyShape, Removing, Exists
    <2> QED
      BY <1>0, <1>2, <2>2, <2>3 DEF Exists, PVObject
  <1>3. CASE DeletePV /\ Exists(hook.at)
    <2>1. /\ hook'.step = "poll" /\ hook'.at = hook.at /\ hook'.listed = hook.listed
          /\ hook.step = "delete"
      BY <1>0, <1>3 DEF DeletePV, Goto, HookRecord
    <2>2. pv'[hook.at].policy = "Retain"
      BY <1>0, <1>3, <2>1 DEF DeletePV, SafetyInv, PolicyShape, PVObject, NoPV
    <2> QED
      BY <1>0, <1>a, <2>1, <2>2
      DEF SafetyInv, SafeShapes, BackupLive, TerminatingShape, PolicyShape, Removing, Exists
  <1>4. CASE PollPV /\ ~(hook' = Rest("failed") /\ pv' = pv)
    <2>1. /\ hook'.step \in {"poll", "create"} /\ hook'.at = hook.at
          /\ hook'.listed = hook.listed /\ hook.step = "poll"
          /\ hook'.step = "create" => ~Exists(hook.at) /\ pv' = pv
      BY <1>0, <1>4 DEF PollPV, Goto, GiveUp, HookRecord
    <2>2. pv'[hook.at].phase # "terminating"  \/ pv'[hook.at] = pv[hook.at]
      BY <1>0, <1>4 DEF PollPV, Unguarded, PVObject, NoPV
    <2> QED
      BY <1>0, <1>a, <2>1, <2>2
      DEF SafetyInv, SafeShapes, BackupLive, TerminatingShape, PolicyShape, Removing, Exists
  <1>5. CASE CreatePV
    <2>1. /\ hook'.step = "pvs" \/ (hook'.step = "created" /\ hook'.at = hook.at)
          /\ hook'.listed = hook.listed /\ hook.step = "create"
      <3>1. \/ hook' = [hook EXCEPT !.step = "pvs", !.todo = {}, !.at = Nothing]
            \/ hook' = [hook EXCEPT !.step = "created"]
        BY <1>5, Zenon DEF CreatePV, Goto
      <3> QED
        BY <1>0, <1>5, <3>1 DEF CreatePV, HookRecord
    <2>2. pv'[hook.at].phase # "terminating"
      <3>1. pv[hook.at].phase # "terminating"
        BY <2>1 DEF SafetyInv, PolicyShape
      <3>2. newPV(hook.at).phase = "live"
        BY <1>0, LiveCopies
      <3>3. pv'[hook.at].phase = pv[hook.at].phase \/ pv'[hook.at] = newPV(hook.at)
        BY <1>0, <1>5 DEF CreatePV, PVObject
      <3> QED
        BY <3>1, <3>2, <3>3
    <2> QED
      BY <1>0, <1>a, <2>1, <2>2
      DEF SafetyInv, SafeShapes, BackupLive, TerminatingShape, PolicyShape, Removing, Exists
  <1> QED
    BY <1>1, <1>2, <1>3, <1>4, <1>5 DEF RetainPV, DeletePV, GiveUp

\* What happens around the hook: a restored backup is no volume on its way out.
LEMMA SafeStepAround ==
    ASSUME SafetyInv,
           \/ PodsTerminate \/ HelmRelease \/ UNCHANGED vars
           \/ \E v \in PVs : ProtectPV(v) \/ UnprotectPV(v) \/ SomebodyRestores(v)
    PROVE  SafeShapes'
  <1> USE DEF cluster, snapshots, resources, around
  <1>0. /\ pv \in [PVs -> PVObject] /\ \A v \in PVs : pv[v] \in PVObject
        /\ hook.step \in AtPV => hook.at \in PVs
    BY DEF SafetyInv, TypeOK, StepShape
  <1>1. hook' = hook /\ backup' = backup
    BY Zenon DEF PodsTerminate, HelmRelease, ProtectPV, UnprotectPV, SomebodyRestores, vars
  <1>2. \A w \in PVs :
           \/ pv'[w].phase = pv[w].phase /\ pv'[w].policy = pv[w].policy
           \/ pv[w].phase = "terminating" /\ pv'[w] = NoPV
           \/ pv[w].phase = "absent" /\ pv'[w] = backup[w].data
    <2>1. CASE PodsTerminate \/ HelmRelease \/ UNCHANGED vars
      BY <2>1 DEF PodsTerminate, HelmRelease, vars
    <2>2. CASE \E v \in PVs : ProtectPV(v)
      BY <1>0, <2>2 DEF ProtectPV, PVObject
    <2>3. CASE \E v \in PVs : UnprotectPV(v) \/ SomebodyRestores(v)
      BY <1>0, <2>3 DEF UnprotectPV, SomebodyRestores, Exists
    <2> QED
      BY <2>1, <2>2, <2>3
  <1>3. \A w \in PVs : pv'[w].phase = "terminating" =>
           pv[w].phase = "terminating" /\ pv'[w].policy = pv[w].policy
    BY <1>2 DEF SafetyInv, BackupLive, NoPV
  <1>4. TerminatingShape' /\ BackupLive'
    BY <1>1, <1>3 DEF SafetyInv, TerminatingShape, BackupLive
  <1>5. PolicyShape'
    BY <1>0, <1>1, <1>2, <1>3 DEF SafetyInv, PolicyShape, Exists, AtPV, NoPV
  <1> QED
    BY <1>4, <1>5 DEF SafeShapes

\* The CSI pods come back with a release only, and no release comes during a run.
LEMMA PodStep == SafetyInv /\ [Next]_vars => PodShape'
  <1> USE DEF cluster, snapshots, resources, around
  <1> SUFFICES ASSUME SafetyInv, [Next]_vars PROVE PodShape'
    OBVIOUS
  <1>0. TypeOK /\ hook \in HookRecord /\ PodShape
    BY DEF SafetyInv, TypeOK
  <1>1. CASE csi' = "off"
    BY <1>1 DEF PodShape
  <1>2. CASE hook'.step \notin AtDriver /\ hook'.step # "drivers"
    BY <1>2 DEF PodShape
  <1>3. CASE DisableCSIComponents
    BY <1>0, <1>2, <1>3 DEF DisableCSIComponents, Goto, HookRecord, AtDriver
  <1>4. CASE HelmRelease
    BY <1>2, <1>4 DEF HelmRelease, AtDriver
  <1>5. CASE PodsTerminate
    BY <1>1, <1>5 DEF PodsTerminate
  <1>6. CASE \E v \in PVs : ProtectPV(v) \/ UnprotectPV(v) \/ SomebodyRestores(v)
    BY <1>0, <1>6, Zenon DEF ProtectPV, UnprotectPV, SomebodyRestores, PodShape
  <1>7. CASE UNCHANGED vars
    BY <1>0, <1>7 DEF vars, PodShape
  <1>8. CASE ListDrivers
    <2>1. \/ hook' = [hook EXCEPT !.drivers = Drivers \ migrated, !.step = "disable"]
          \/ Drivers = migrated /\ hook' = [hook EXCEPT !.drivers = {}, !.step = "drivers"]
      BY <1>8 DEF ListDrivers
    <2> QED
      BY <1>0, <2>1, ZenonT(40) DEF PodShape, HookRecord, AtDriver
  <1>9. ASSUME \/ Run \/ WaitForPods \/ LabelDriver
               \/ \E v \in PVs : RestorePV(v) \/ SkipPV(v) \/ UpdatePV(v) \/ BackupResource(v)
               \/ \E d \in Drivers : StartDriver(d)
               \/ \E c \in Classes : CreateClass(c)
               \/ CreateConnection \/ EndClass \/ LabelRestored
               \/ LabelBackup \/ RetainPV \/ DeletePV \/ PollPV \/ CreatePV \/ LabelCreated
               \/ \E s \in VSClasses : MigrateVSClass(s)
               \/ \E k \in Contents : MigrateVSContent(k)
               \/ ListSnapshots \/ EndVSClass \/ Finish \/ Interrupted
        PROVE  csi' = csi
    BY <1>9, Zenon DEF Run, WaitForPods, LabelDriver, RestorePV, SkipPV, UpdatePV,
       BackupResource, StartDriver, CreateClass, CreateConnection, EndClass, LabelRestored,
       LabelBackup, RetainPV, DeletePV, PollPV, CreatePV, LabelCreated, MigrateVSClass,
       MigrateVSContent, ListSnapshots, EndVSClass, Finish, Interrupted
  <1>10. CASE hook.step \in AtDriver /\ csi' = csi
    BY <1>0, <1>1, <1>10 DEF PodShape
  <1>11. CASE SameClass /\ csi' = csi
    BY <1>10, <1>11 DEF SameClass, AtClass, AtDriver
  <1>12. CASE hook' \in {Rest("failed"), Rest("ok")}
    BY <1>2, <1>12 DEF Rest, AtDriver
  <1>13. CASE WaitForPods
    BY <1>1, <1>13 DEF WaitForPods
  <1>14. ASSUME NEW d \in Drivers, StartDriver(d)
         PROVE  PodShape'
    BY <1>0, <1>1, <1>9, <1>14, LoopMoves DEF PodShape
  <1>15. CASE CreateConnection \/ EndClass \/ LabelDriver \/ \E c \in Classes : CreateClass(c)
    <2>1. hook.step \in AtDriver
      BY <1>15 DEF CreateConnection, EndClass, LabelDriver, CreateClass, AtDriver
    <2> QED
      BY <1>9, <1>10, <1>15, <2>1
  <1>16. CASE \/ Run \/ LabelRestored \/ EndVSClass \/ ListSnapshots
              \/ \E v \in PVs : RestorePV(v)
              \/ \E s \in VSClasses : MigrateVSClass(s)
              \/ \E k \in Contents : MigrateVSContent(k)
    <2>1. hook'.step # "drivers"
      <3>1. CASE Run \/ LabelRestored \/ EndVSClass \/ \E v \in PVs : RestorePV(v)
        BY <1>0, <3>1 DEF Run, Rest, LabelRestored, EndVSClass, RestorePV, HookRecord
      <3>2. CASE \E s \in VSClasses : MigrateVSClass(s)
        BY <1>0, <3>2 DEF MigrateVSClass, HookRecord
      <3>3. CASE \E k \in Contents : MigrateVSContent(k)
        BY <1>0, <3>3 DEF MigrateVSContent, HookRecord
      <3>4. CASE ListSnapshots
        <4>1. CASE hook' = Rest("failed")
          BY <4>1 DEF Rest
        <4>2. CASE hook' # Rest("failed")
          BY <1>0, <3>4, <4>2 DEF ListSnapshots, GiveUp, HookRecord
        <4> QED
          BY <4>1, <4>2
      <3> QED
        BY <1>16, <3>1, <3>2, <3>3, <3>4
    <2> QED
      BY <1>0, <1>2, <1>16, <2>1, OutsideDrivers
  <1>17. Finish \/ Interrupted => hook' \in {Rest("failed"), Rest("ok")}
    BY DEF Finish, Interrupted, GiveUp
  <1>18. ASSUME \/ \E v \in PVs : SkipPV(v) \/ UpdatePV(v) \/ BackupResource(v)
                \/ LabelBackup \/ RetainPV \/ DeletePV \/ PollPV \/ CreatePV \/ LabelCreated
         PROVE  PodShape'
    BY <1>0, <1>9, <1>11, <1>12, <1>18, ClassGoesOn
  <1> QED
    BY <1>3, <1>4, <1>5, <1>6, <1>7, <1>8, <1>12, <1>13, <1>14, <1>15, <1>16, <1>17, <1>18
    DEF Next, HookStep

\* A step deletes a volume only where the shapes allow it.
LEMMA DeletionStep ==
    ASSUME SafetyInv, [Next]_vars, NEW v \in PVs,
           pv[v].phase = "live", pv'[v].phase # "live"
    PROVE  pv[v].policy = "Retain" /\ csi = "off"
  <1> USE DEF cluster, snapshots, resources, around
  <1>0. /\ hook \in HookRecord /\ pv \in [PVs -> PVObject] /\ pv[v] \in PVObject
        /\ hook.step \in AtPV => hook.at \in PVs
    BY DEF SafetyInv, TypeOK, StepShape
  <1>1. CASE DeletePV
    <2>1. hook.step = "delete" /\ v = hook.at
      BY <1>0, <1>1 DEF DeletePV
    <2> QED
      BY <2>1 DEF SafetyInv, PolicyShape, PodShape, Exists, AtDriver
  <1>2. ~RetainPV
    <2>1. RetainPV => \/ pv'[v] = pv[v]
                      \/ pv'[v] = Unguarded([pv[v] EXCEPT !.policy = "Retain"])
      BY <1>0 DEF RetainPV
    <2> QED
      BY <1>0, <2>1, LiveCopies
  <1>3. ~PollPV
    BY <1>0 DEF PollPV, Unguarded, PVObject
  <1>4. ~CreatePV
    <2>1. SUFFICES ASSUME CreatePV PROVE FALSE
      OBVIOUS
    <2>2. hook.at \in PVs
      BY <1>0, <2>1 DEF CreatePV, AtPV
    <2>3. newPV(hook.at).phase = "live"
      BY <1>0, <2>2, LiveCopies
    <2> QED
      BY <1>0, <2>1, <2>3 DEF CreatePV, PVObject
  <1>5. \A w \in PVs : ~RestorePV(w) /\ ~ProtectPV(w) /\ ~UnprotectPV(w) /\ ~SomebodyRestores(w)
    BY <1>0 DEF RestorePV, ProtectPV, UnprotectPV, SomebodyRestores, Exists, PVObject
  <1>6. ASSUME \/ \E w \in PVs : SkipPV(w) \/ UpdatePV(w) \/ BackupResource(w)
               \/ LabelRestored \/ ListDrivers \/ DisableCSIComponents \/ WaitForPods
               \/ \E d \in Drivers : StartDriver(d)
               \/ \E c \in Classes : CreateClass(c)
               \/ CreateConnection \/ EndClass \/ LabelDriver \/ LabelBackup \/ LabelCreated
        PROVE  pv' = pv
    BY <1>6, Zenon DEF SkipPV, UpdatePV, BackupResource, LabelRestored, ListDrivers,
       DisableCSIComponents, WaitForPods, StartDriver, CreateClass, CreateConnection,
       EndClass, LabelDriver, LabelBackup, LabelCreated
  <1>7. ASSUME \/ \E s \in VSClasses : MigrateVSClass(s)
               \/ \E k \in Contents : MigrateVSContent(k)
               \/ ListSnapshots \/ EndVSClass \/ Finish
               \/ Run \/ Interrupted \/ PodsTerminate \/ HelmRelease \/ UNCHANGED vars
        PROVE  pv' = pv
    BY <1>7, Zenon DEF MigrateVSClass, MigrateVSContent, ListSnapshots, EndVSClass, Finish,
       Run, Interrupted, PodsTerminate, HelmRelease, vars
  <1> QED
    BY <1>1, <1>2, <1>3, <1>4, <1>5, <1>6, <1>7 DEF Next, HookStep

\* A volume is deleted only with the policy Retain and while no CSI component runs, for
\* any volumes, bound or not, over any faults, although others may restore it from its
\* backup at any moment of its recreation.
THEOREM DeletionsAreSafe == Spec => DeletedSafely
  <1>1. Init => SafetyInv
    <2> SUFFICES ASSUME Init PROVE SafetyInv
      OBVIOUS
    <2>1. TypeOK /\ StepShape
      BY TypeInitially DEF Init, Rest, StepShape, AtPV, AtDriver
    <2>2. /\ \A v \in PVs : pv[v].phase = "live" /\ backup[v].data.phase = "absent"
          /\ hook.step = "rest"
      BY DEF Init, PVBefore, NoBackup, Rest, NoPV
    <2> QED
      BY <2>1, <2>2 DEF SafetyInv, BackupLive, TerminatingShape, PolicyShape, PodShape, AtDriver
  <1>2. SafetyInv /\ [Next]_vars => SafetyInv'
    <2> SUFFICES ASSUME SafetyInv, [Next]_vars PROVE SafetyInv'
      OBVIOUS
    <2>1. TypeOK' /\ StepShape'
      BY TypeStep DEF SafetyInv
    <2>2. SafeShapes'
      BY SafeStepLoops, SafeStepBackups, SafeStepPVs, SafeStepAround DEF Next, HookStep
    <2> QED
      BY <2>1, <2>2, PodStep DEF SafetyInv, SafeShapes
  <1>3. SafetyInv /\ [Next]_vars =>
            [\A v \in PVs : pv[v].phase = "live" /\ pv'[v].phase # "live" =>
                pv[v].policy = "Retain" /\ csi = "off"]_vars
    BY DeletionStep
  <1> QED
    BY <1>1, <1>2, <1>3, PTL DEF Spec, DeletedSafely

-----------------------------------------------------------------------------
\* What the label of a driver is worth.  A run labels a driver when its loops over the
\* classes and volumes are through, and the loops skip what the list says is done: the
\* list must have every volume, and be right about it while the run works on another.

Done(v) == RefsOf[v] = "none" \/ (Exists(v) /\ pv[v].secret = "new")

\* The driver a run is at is still to be labelled.
DriverShape ==
    /\ hook.drivers \cap migrated = {}
    /\ hook.step \in AtDriver => hook.driver \in hook.drivers

\* The volumes of the classes behind the run are done, those of its class done or left.
DoneShape ==
    /\ hook.step \in AtDriver \ {"connection"} =>
           \A v \in PVs : /\ DriverOf[ClassOf[v]] = hook.driver
                          /\ ClassOf[v] \notin hook.classes
                          => Done(v)
    /\ hook.step \in AtClass =>
           /\ hook.class \in hook.classes
           /\ \A v \in PVs : ClassOf[v] = hook.class => v \in hook.todo \/ Done(v)

\* Once the restore loop is through every volume exists, and is on the list if there are
\* drivers to migrate; what the list has with the new Secret has it.
PresentShape ==
    /\ hook.step \in {"restore", "restored"} => \A v \in PVs : Exists(v) \/ v \in hook.todo
    /\ hook.step \in {"disable", "wait"} => \A v \in PVs : Exists(v)
    /\ hook.step \in Listed /\ hook.drivers # {} =>
           \A v \in PVs : hook.listed[v].phase # "absent"
    /\ \A v \in PVs : hook.listed[v].secret = "new" => Exists(v) /\ pv[v].secret = "new"

\* The volume the run is at is being recreated.
RecreateShape ==
    /\ hook.step \in WithPV => needRecreate(hook.at)
    /\ hook.step = "create" => ~Exists(hook.at)
    /\ hook.step = "created" => Done(hook.at)

LabelShapes == DriverShape /\ DoneShape /\ PresentShape /\ RecreateShape
LabelInv == LossInv /\ LoopShape /\ LabelShapes /\ LabelledMeansMigrated

Rewriting == {"patch", "delete", "poll", "create"}

\* Nobody but the run, at the volume it recreates, makes a volume go or changes its Secret.
LEMMA OthersKept ==
    ASSUME LabelInv, InUse = PVs, [Next]_vars, NEW v \in PVs, Exists(v),
           hook.step \in Rewriting => v # hook.at
    PROVE  Exists(v)' /\ pv'[v].secret = pv[v].secret
  <1> USE DEF cluster, snapshots, resources, around
  <1>0. /\ hook \in HookRecord /\ pv \in [PVs -> PVObject] /\ pv[v] \in PVObject
    BY DEF LabelInv, LossInv, TypeOK
  <1>1. CASE pv'[v] = pv[v]
    BY <1>1 DEF Exists
  <1>2. RetainPV \/ DeletePV \/ PollPV \/ CreatePV => pv'[v] = pv[v]
    BY <1>0 DEF RetainPV, DeletePV, PollPV, CreatePV, Rewriting
  <1>3. ASSUME NEW w \in PVs, RestorePV(w) \/ SomebodyRestores(w) \/ UnprotectPV(w)
        PROVE  pv'[v] = pv[v]
    BY <1>0, <1>3 DEF RestorePV, SomebodyRestores, UnprotectPV
  <1>4. ASSUME NEW w \in PVs, ProtectPV(w)
        PROVE  Exists(v)' /\ pv'[v].secret = pv[v].secret
    BY <1>0, <1>4 DEF ProtectPV, Exists, PVObject
  <1>5. ASSUME \/ \E w \in PVs : SkipPV(w) \/ UpdatePV(w) \/ BackupResource(w)
               \/ LabelRestored \/ ListDrivers \/ DisableCSIComponents \/ WaitForPods
               \/ \E d \in Drivers : StartDriver(d)
               \/ \E c \in Classes : CreateClass(c)
               \/ CreateConnection \/ EndClass \/ LabelDriver \/ LabelBackup \/ LabelCreated
        PROVE  pv' = pv
    BY <1>5, Zenon DEF SkipPV, UpdatePV, BackupResource, LabelRestored, ListDrivers,
       DisableCSIComponents, WaitForPods, StartDriver, CreateClass, CreateConnection,
       EndClass, LabelDriver, LabelBackup, LabelCreated
  <1>6. ASSUME \/ \E s \in VSClasses : MigrateVSClass(s)
               \/ \E k \in Contents : MigrateVSContent(k)
               \/ ListSnapshots \/ EndVSClass \/ Finish
               \/ Run \/ Interrupted \/ PodsTerminate \/ HelmRelease \/ UNCHANGED vars
        PROVE  pv' = pv
    BY <1>6, Zenon DEF MigrateVSClass, MigrateVSContent, ListSnapshots, EndVSClass, Finish,
       Run, Interrupted, PodsTerminate, HelmRelease, vars
  <1> QED
    BY <1>1, <1>2, <1>3, <1>4, <1>5, <1>6 DEF Next, HookStep

\* So what is done stays done.
LEMMA DoneStays ==
    ASSUME LabelInv, InUse = PVs, [Next]_vars, NEW v \in PVs, Done(v),
           hook.step \in Rewriting => v # hook.at
    PROVE  Done(v)'
  BY OthersKept DEF Done

\* A run labels one driver, the one it is at.
LEMMA LabelMoves ==
    [Next]_vars => migrated' = migrated \/ LabelDriver
  <1> USE DEF cluster, snapshots, resources, around
  <1>1. ASSUME \/ \E v \in PVs : RestorePV(v) \/ SkipPV(v) \/ UpdatePV(v) \/ BackupResource(v)
               \/ LabelRestored \/ ListDrivers \/ DisableCSIComponents \/ WaitForPods
               \/ \E d \in Drivers : StartDriver(d)
               \/ \E c \in Classes : CreateClass(c)
               \/ CreateConnection \/ EndClass
               \/ LabelBackup \/ RetainPV \/ DeletePV \/ PollPV \/ CreatePV \/ LabelCreated
        PROVE  migrated' = migrated
    BY <1>1, Zenon DEF RestorePV, SkipPV, UpdatePV, BackupResource, LabelRestored, ListDrivers,
       DisableCSIComponents, WaitForPods, StartDriver, CreateClass, CreateConnection, EndClass,
       LabelBackup, RetainPV, DeletePV, PollPV, CreatePV, LabelCreated
  <1>2. ASSUME \/ \E s \in VSClasses : MigrateVSClass(s)
               \/ \E k \in Contents : MigrateVSContent(k)
               \/ ListSnapshots \/ EndVSClass \/ Finish
               \/ Run \/ Interrupted \/ PodsTerminate \/ HelmRelease
               \/ \E v \in PVs : ProtectPV(v) \/ UnprotectPV(v) \/ SomebodyRestores(v)
               \/ UNCHANGED vars
        PROVE  migrated' = migrated
    BY <1>2, Zenon DEF MigrateVSClass, MigrateVSContent, ListSnapshots, EndVSClass, Finish,
       Run, Interrupted, PodsTerminate, HelmRelease, ProtectPV, UnprotectPV,
       SomebodyRestores, vars
  <1> QED
    BY <1>1, <1>2 DEF Next, HookStep

\* What a run sees as its drivers: the same as before, none, one less when it labels one,
\* or all that have no label.
LEMMA DriverMoves ==
    ASSUME TypeOK, [Next]_vars
    PROVE  \/ hook'.drivers \in {hook.drivers, {}}
           \/ LabelDriver /\ hook'.drivers = hook.drivers \ {hook.driver}
           \/ /\ hook.step = "restore" /\ hook.todo = {}
              /\ hook'.step = "disable" /\ hook'.drivers = Drivers \ migrated
  <1> USE DEF cluster, snapshots, resources, around
  <1>0. hook \in HookRecord
    BY DEF TypeOK
  <1>1. CASE hook' = Rest("failed") \/ hook' = Rest("ok")
    BY <1>1 DEF Rest
  <1>2. CASE SameClass \/ hook' = hook
    BY <1>2 DEF SameClass
  <1>3. CASE Run
    BY <1>0, <1>3 DEF Run, Rest
  <1>4. CASE LabelDriver
    BY <1>0, <1>4 DEF LabelDriver, HookRecord
  <1>5. CASE ListDrivers
    <2>1. \/ hook' = [hook EXCEPT !.drivers = Drivers \ migrated, !.step = "disable"]
          \/ Drivers = migrated /\ hook' = [hook EXCEPT !.drivers = {}, !.step = "drivers"]
      BY <1>5 DEF ListDrivers
    <2>2. hook.step = "restore" /\ hook.todo = {}
      BY <1>5 DEF ListDrivers
    <2> QED
      BY <1>0, <2>1, <2>2, ZenonT(40) DEF HookRecord
  <1>6. CASE \/ \E d \in Drivers : StartDriver(d)
             \/ \E c \in Classes : CreateClass(c) /\ ~GiveUp
             \/ CreateConnection \/ EndClass
    BY <1>6, LoopMoves
  <1>7. CASE \/ \E v \in PVs : RestorePV(v)
             \/ LabelRestored \/ DisableCSIComponents \/ WaitForPods
             \/ \E k \in Contents : MigrateVSContent(k)
             \/ EndVSClass
    BY <1>0, <1>7 DEF RestorePV, LabelRestored, DisableCSIComponents, Goto, WaitForPods,
                      MigrateVSContent, EndVSClass, HookRecord
  <1>8. CASE \E s \in VSClasses : MigrateVSClass(s)
    BY <1>0, <1>8 DEF MigrateVSClass, HookRecord
  <1>9. CASE ListSnapshots /\ hook' # Rest("failed")
    BY <1>0, <1>9 DEF ListSnapshots, GiveUp, HookRecord
  <1>10. CASE \/ PodsTerminate \/ HelmRelease \/ UNCHANGED vars
              \/ \E v \in PVs : ProtectPV(v) \/ UnprotectPV(v) \/ SomebodyRestores(v)
    BY <1>2, <1>10, Zenon DEF PodsTerminate, HelmRelease, ProtectPV, UnprotectPV,
                              SomebodyRestores, vars
  <1>11. Finish \/ Interrupted => hook' = Rest("failed") \/ hook' = Rest("ok")
    BY DEF Finish, Interrupted, GiveUp
  <1> QED
    BY <1>1, <1>2, <1>3, <1>4, <1>5, <1>6, <1>7, <1>8, <1>9, <1>10, <1>11, ClassGoesOn
    DEF Next, HookStep, GiveUp

\* The driver at hand stays among those to be labelled, and nobody labels those.
LEMMA DriverStep ==
    ASSUME LabelInv, [Next]_vars
    PROVE  DriverShape'
  <1>0. TypeOK /\ DriverShape /\ hook \in HookRecord
    BY DEF LabelInv, LabelShapes, LossInv, TypeOK
  <1>1. hook'.drivers \cap migrated' = {}
    <2>1. LabelDriver => /\ migrated' = migrated \cup {hook.driver}
                         /\ hook'.drivers = hook.drivers \ {hook.driver}
      BY <1>0 DEF LabelDriver, HookRecord
    <2>2. ~LabelDriver => migrated' = migrated
      BY LabelMoves
    <2> QED
      BY <1>0, <2>1, <2>2, DriverMoves DEF DriverShape
  <1>2. hook'.step \in AtDriver => hook'.driver \in hook'.drivers
    <2>1. SameClass => hook.step \in AtDriver
      BY DEF SameClass, AtClass, AtDriver
    <2>2. SameClass => hook'.driver \in hook'.drivers
      BY <1>0, <2>1 DEF SameClass, DriverShape
    <2>3. ASSUME \/ \E d \in Drivers : StartDriver(d)
                 \/ \E c \in Classes : CreateClass(c) /\ ~GiveUp
                 \/ CreateConnection \/ EndClass
          PROVE  hook'.driver \in hook'.drivers
      BY <1>0, <2>3, LoopMoves DEF DriverShape, AtDriver
    <2>4. hook' = hook => (hook'.step \in AtDriver => hook'.driver \in hook'.drivers)
      BY <1>0 DEF DriverShape
    <2>5. hook' = Rest("failed") => hook'.step \notin AtDriver
      BY DEF Rest, AtDriver
    <2>6. ASSUME \/ PodsTerminate \/ HelmRelease \/ UNCHANGED vars
                 \/ \E v \in PVs : ProtectPV(v) \/ UnprotectPV(v) \/ SomebodyRestores(v)
          PROVE  hook' = hook
      BY <2>6, Zenon DEF PodsTerminate, HelmRelease, ProtectPV, UnprotectPV, SomebodyRestores, vars
    <2> QED
      BY <1>0, <2>2, <2>3, <2>4, <2>5, <2>6, ClassGoesOn, OutsideDrivers DEF Next, HookStep, GiveUp
  <1> QED
    BY <1>1, <1>2 DEF DriverShape

\* A label is put on a driver whose volumes are done, and later runs touch none of them.
LEMMA LabelStep ==
    ASSUME LabelInv, InUse = PVs, [Next]_vars
    PROVE  LabelledMeansMigrated'
  <1>0. /\ TypeOK /\ StepShape /\ LoopShape /\ DriverShape /\ DoneShape
        /\ LabelledMeansMigrated /\ hook \in HookRecord
    BY DEF LabelInv, LabelShapes, LossInv, TypeOK
  <1> SUFFICES ASSUME NEW v \in PVs, DriverOf[ClassOf[v]] \in migrated'
               PROVE  Done(v)'
    BY DEF LabelledMeansMigrated, Done
  <1>1. CASE DriverOf[ClassOf[v]] \in migrated
    <2>1. Done(v)
      BY <1>0, <1>1 DEF LabelledMeansMigrated, Done
    <2>2. hook.step \in Rewriting => v # hook.at
      BY <1>0, <1>1 DEF LoopShape, DriverShape, AtClass, WithPV, AtDriver, Rewriting
    <2> QED
      BY <2>1, <2>2, DoneStays
  <1>2. CASE DriverOf[ClassOf[v]] \notin migrated
    <2>1. LabelDriver
      BY <1>2, LabelMoves
    <2>2. /\ hook.step = "classes" /\ hook.classes = {} /\ DriverOf[ClassOf[v]] = hook.driver
      BY <1>2, <2>1 DEF LabelDriver
    <2>3. Done(v)
      BY <1>0, <2>2 DEF DoneShape, AtDriver
    <2> QED
      BY <2>2, <2>3, DoneStays DEF Rewriting
  <1> QED
    BY <1>1, <1>2

\* A volume leaves what is left of its class when it is done.
LEMMA LeavesDone ==
    ASSUME LabelInv, NEW v \in hook.todo, v \notin hook'.todo, SameClass,
           \/ \E w \in PVs : SkipPV(w) \/ UpdatePV(w) \/ BackupResource(w)
           \/ LabelBackup \/ RetainPV \/ DeletePV \/ PollPV \/ CreatePV \/ LabelCreated
    PROVE  Done(v)'
  <1> USE DEF cluster, snapshots, resources, around
  <1>0. /\ hook \in HookRecord /\ LoopShape /\ PresentShape /\ RecreateShape /\ v \in PVs
        /\ hook'.step = "pvs" /\ hook.listed[v] \in PVObject
    BY DEF LabelInv, LabelShapes, LossInv, TypeOK, HookRecord, SameClass, AtClass, WithPV
  <1>1. ASSUME NEW w \in PVs, SkipPV(w) \/ UpdatePV(w)
        PROVE  Done(v)'
    <2>1. /\ ~needRecreate(w) /\ pv' = pv
          /\ hook' = [hook EXCEPT !.todo = @ \ {w}] \/ hook' = Rest("failed")
      BY <1>1, Zenon DEF SkipPV, UpdatePV, GiveUp
    <2>2. v = w
      BY <1>0, <2>1 DEF Rest, HookRecord
    <2>3. RefsOf[v] = "none" \/ hook.listed[v].secret = "new"
      BY <1>0, <2>1, <2>2 DEF needRecreate, PVObject, Secrets
    <2> QED
      BY <1>0, <2>1, <2>3 DEF PresentShape, Done, Exists
  <1>2. CASE LabelCreated
    <2>1. hook.step = "created" /\ pv' = pv /\ hook'.todo = hook.todo \ {hook.at}
      BY <1>0, <1>2 DEF LabelCreated, HookRecord
    <2> QED
      BY <1>0, <2>1 DEF RecreateShape, Done, Exists
  <1>3. ~CreatePV
    <2> SUFFICES ASSUME CreatePV PROVE FALSE
      OBVIOUS
    <2>1. hook.step = "create" /\ ~Exists(hook.at)
      BY <1>0 DEF CreatePV, RecreateShape
    <2>2. hook' = [hook EXCEPT !.step = "created"]
      BY <2>1, Zenon DEF CreatePV, Goto
    <2> QED
      BY <1>0, <2>2 DEF HookRecord
  <1>4. \A w \in PVs : ~BackupResource(w)
    BY <1>0 DEF BackupResource, HookRecord
  <1>5. ~LabelBackup /\ ~RetainPV /\ ~DeletePV /\ ~PollPV
    BY <1>0 DEF LabelBackup, RetainPV, DeletePV, PollPV, Goto, GiveUp, Rest, HookRecord
  <1> QED
    BY <1>1, <1>2, <1>3, <1>4, <1>5

\* What is behind the run is done, and stays so.
LEMMA DoneStep ==
    ASSUME LabelInv, InUse = PVs, [Next]_vars
    PROVE  DoneShape'
  <1>0. /\ TypeOK /\ LoopShape /\ DriverShape /\ DoneShape /\ PresentShape
        /\ hook \in HookRecord
    BY DEF LabelInv, LabelShapes, LossInv, TypeOK
  <1>a. ASSUME NEW v \in PVs, Done(v), hook.step \in WithPV => v \notin hook.todo
        PROVE  Done(v)'
    BY <1>0, <1>a, DoneStays DEF LoopShape, Rewriting, WithPV, AtClass
  <1>b. ASSUME NEW v \in PVs, Done(v), hook.step \in AtDriver, ClassOf[v] \notin hook.classes
        PROVE  Done(v)'
    BY <1>0, <1>a, <1>b DEF LoopShape, DoneShape, WithPV, AtClass
  <1>1. CASE hook'.step \notin AtDriver
    BY <1>1 DEF DoneShape, AtDriver, AtClass
  <1>2. ASSUME SameClass,
               \/ \E w \in PVs : SkipPV(w) \/ UpdatePV(w) \/ BackupResource(w)
               \/ LabelBackup \/ RetainPV \/ DeletePV \/ PollPV \/ CreatePV \/ LabelCreated
        PROVE  DoneShape'
    <2>0. /\ hook.step \in AtDriver \ {"connection"} /\ hook.step \in AtClass
          /\ hook'.driver = hook.driver /\ hook'.classes = hook.classes
          /\ hook'.class = hook.class
      BY <1>2 DEF SameClass, AtClass, AtDriver
    <2>1. ASSUME NEW v \in PVs, DriverOf[ClassOf[v]] = hook.driver, ClassOf[v] \notin hook.classes
          PROVE  Done(v)'
      BY <1>0, <1>b, <2>0, <2>1 DEF DoneShape
    <2>2. ASSUME NEW v \in PVs, ClassOf[v] = hook.class, v \notin hook'.todo
          PROVE  Done(v)'
      <3>1. CASE v \in hook.todo
        BY <1>2, <2>2, <3>1, LeavesDone
      <3>2. CASE v \notin hook.todo
        BY <1>0, <1>a, <2>0, <2>2, <3>2 DEF DoneShape
      <3> QED
        BY <3>1, <3>2
    <2> QED
      BY <1>0, <2>0, <2>1, <2>2 DEF DoneShape
  <1>3. CASE \E d \in Drivers : StartDriver(d)
    <2>1. hook'.step = "connection"
      BY <1>0, <1>3, LoopMoves
    <2> QED
      BY <2>1 DEF DoneShape, AtClass
  <1>4. CASE CreateConnection
    <2>1. /\ hook'.step = "classes" /\ hook'.driver = hook.driver
          /\ hook'.classes = {c \in Classes : DriverOf[c] = hook.driver}
      BY <1>0, <1>4, LoopMoves
    <2> QED
      BY <2>1, PVsAssumption DEF DoneShape, AtClass
  <1>5. ASSUME NEW c \in Classes, CreateClass(c), ~GiveUp
        PROVE  DoneShape'
    <2>1. /\ hook.step = "classes" /\ c \in hook.classes
          /\ hook'.step = "pvs" /\ hook'.class = c /\ hook'.driver = hook.driver
          /\ hook'.classes = hook.classes
          /\ hook'.todo = {v \in PVs : ClassOf[v] = c /\ hook.listed[v].phase # "absent"}
      BY <1>0, <1>5, LoopMoves
    <2>2. \A v \in PVs : hook.listed[v].phase # "absent"
      BY <1>0, <2>1 DEF PresentShape, DriverShape, AtDriver, Listed
    <2>3. ASSUME NEW v \in PVs, DriverOf[ClassOf[v]] = hook.driver, ClassOf[v] \notin hook.classes
          PROVE  Done(v)'
      BY <1>0, <1>b, <2>1, <2>3 DEF DoneShape, AtDriver
    <2> QED
      BY <2>1, <2>2, <2>3 DEF DoneShape
  <1>6. CASE EndClass
    <2>1. /\ hook.step = "pvs" /\ hook.todo = {} /\ hook'.step = "classes"
          /\ hook'.driver = hook.driver /\ hook'.classes = hook.classes \ {hook.class}
      BY <1>0, <1>6, LoopMoves
    <2>2. ASSUME NEW v \in PVs, DriverOf[ClassOf[v]] = hook.driver,
                 ClassOf[v] \notin hook.classes \ {hook.class}
          PROVE  Done(v)'
      <3>1. Done(v)
        BY <1>0, <2>1, <2>2 DEF DoneShape, AtDriver, AtClass
      <3> QED
        BY <1>a, <2>1, <3>1 DEF WithPV
    <2> QED
      BY <2>1, <2>2 DEF DoneShape, AtClass
  <1>7. ASSUME hook' = hook
        PROVE  DoneShape'
    <2>1. ASSUME NEW v \in PVs, hook.step \in AtDriver \ {"connection"},
                 DriverOf[ClassOf[v]] = hook.driver, ClassOf[v] \notin hook.classes
          PROVE  Done(v)'
      BY <1>0, <1>b, <2>1 DEF DoneShape
    <2>2. ASSUME NEW v \in PVs, hook.step \in AtClass, ClassOf[v] = hook.class,
                 v \notin hook.todo
          PROVE  Done(v)'
      BY <1>0, <1>a, <2>2 DEF DoneShape
    <2> QED
      BY <1>0, <1>7, <2>1, <2>2 DEF DoneShape
  <1>8. ASSUME \/ PodsTerminate \/ HelmRelease \/ UNCHANGED vars
               \/ \E v \in PVs : ProtectPV(v) \/ UnprotectPV(v) \/ SomebodyRestores(v)
        PROVE  hook' = hook
    BY <1>8, Zenon DEF PodsTerminate, HelmRelease, ProtectPV, UnprotectPV, SomebodyRestores, vars
  <1>9. hook' = Rest("failed") => hook'.step \notin AtDriver
    BY DEF Rest, AtDriver
  <1> QED
    BY <1>0, <1>1, <1>2, <1>3, <1>4, <1>5, <1>6, <1>7, <1>8, <1>9, ClassGoesOn, OutsideDrivers
    DEF Next, HookStep, GiveUp

\* A run comes to work from its list through ListDrivers, when there is nothing to do, and
\* through WaitForPods.
LEMMA ListedMoves ==
    ASSUME TypeOK, [Next]_vars, hook'.step \in Listed
    PROVE  hook.step \in Listed \/ hook'.drivers = {} \/ WaitForPods
  <1> USE DEF cluster, snapshots, resources, around
  <1>0. hook \in HookRecord
    BY DEF TypeOK
  <1>1. CASE SameClass \/ hook' = hook
    BY <1>1 DEF SameClass, AtClass, Listed
  <1>2. CASE hook' \in {Rest("failed"), Rest("ok")}
    BY <1>2 DEF Rest
  <1>3. CASE \/ \E d \in Drivers : StartDriver(d)
             \/ \E c \in Classes : CreateClass(c) /\ ~GiveUp
             \/ CreateConnection \/ EndClass
    BY <1>3, LoopMoves DEF Listed
  <1>4. CASE LabelDriver
    BY <1>4 DEF LabelDriver, Listed
  <1>5. CASE ListDrivers
    <2>1. \/ hook' = [hook EXCEPT !.drivers = Drivers \ migrated, !.step = "disable"]
          \/ Drivers = migrated /\ hook' = [hook EXCEPT !.drivers = {}, !.step = "drivers"]
      BY <1>5 DEF ListDrivers
    <2> QED
      BY <1>0, <2>1, ZenonT(40) DEF HookRecord, Listed
  <1>6. CASE \/ Run \/ DisableCSIComponents \/ LabelRestored \/ EndVSClass
             \/ \E v \in PVs : RestorePV(v)
    <2>1. CASE Run
      BY <2>1 DEF Run, Rest, Listed
    <2>2. CASE DisableCSIComponents
      BY <1>0, <2>2 DEF DisableCSIComponents, Goto, HookRecord, Listed
    <2>3. CASE LabelRestored \/ EndVSClass
      BY <1>0, <2>3 DEF LabelRestored, EndVSClass, HookRecord, Listed
    <2>4. CASE \E v \in PVs : RestorePV(v)
      BY <1>0, <2>4 DEF RestorePV, HookRecord, Listed
    <2> QED
      BY <1>6, <2>1, <2>2, <2>3, <2>4
  <1>7. CASE \E s \in VSClasses : MigrateVSClass(s)
    BY <1>0, <1>7 DEF MigrateVSClass, HookRecord, Listed
  <1>8. CASE \E k \in Contents : MigrateVSContent(k)
    BY <1>0, <1>8 DEF MigrateVSContent, HookRecord, Listed
  <1>9. CASE ListSnapshots
    BY <1>9 DEF ListSnapshots, Listed
  <1>10. CASE \/ PodsTerminate \/ HelmRelease \/ UNCHANGED vars
              \/ \E v \in PVs : ProtectPV(v) \/ UnprotectPV(v) \/ SomebodyRestores(v)
    BY <1>1, <1>10, Zenon DEF PodsTerminate, HelmRelease, ProtectPV, UnprotectPV,
                              SomebodyRestores, vars
  <1>11. Finish \/ Interrupted => hook' \in {Rest("failed"), Rest("ok")}
    BY DEF Finish, Interrupted, GiveUp
  <1> QED
    BY <1>1, <1>2, <1>3, <1>4, <1>5, <1>6, <1>7, <1>8, <1>9, <1>10, <1>11, ClassGoesOn
    DEF Next, HookStep, GiveUp

\* What the restore loop leaves behind is there.
LEMMA RestoreStep ==
    ASSUME LabelInv, InUse = PVs, [Next]_vars
    PROVE  /\ hook'.step \in {"restore", "restored"} =>
                  \A v \in PVs : Exists(v)' \/ v \in hook'.todo
           /\ hook'.step \in {"disable", "wait"} => \A v \in PVs : Exists(v)'
  <1> USE DEF cluster, snapshots, resources, around
  <1> DEFINE Goal == /\ hook'.step \in {"restore", "restored"} =>
                            \A v \in PVs : Exists(v)' \/ v \in hook'.todo
                     /\ hook'.step \in {"disable", "wait"} => \A v \in PVs : Exists(v)'
  <1>0. /\ TypeOK /\ hook \in HookRecord /\ PresentShape /\ NothingLost /\ AtShape
        /\ pv \in [PVs -> PVObject]
    BY DEF LabelInv, LabelShapes, LossInv, TypeOK
  <1>1. CASE hook'.step \notin {"restore", "restored", "disable", "wait"}
    BY <1>1
  <1>2. CASE Run
    <2>1. pv' = pv /\ hook' = [Rest(hook.last) EXCEPT !.step = "restore",
                                  !.todo = {v \in PVs : backup[v].label = "false"}]
      BY <1>2, Zenon DEF Run
    <2>2. hook'.step = "restore" /\ hook'.todo = {v \in PVs : backup[v].label = "false"}
      BY <2>1 DEF Rest
    <2> QED
      BY <1>0, <2>1, <2>2 DEF NothingLost, Exists
  <1>3. ASSUME NEW w \in PVs, RestorePV(w)
        PROVE  Goal
    <2>1. hook.step = "restore" /\ hook'.step = "restored" /\ hook'.todo = hook.todo
      BY <1>0, <1>3 DEF RestorePV, HookRecord
    <2>2. \A v \in PVs : Exists(v) => Exists(v)'
      BY <2>1, OthersKept DEF Rewriting
    <2> QED
      BY <1>0, <2>1, <2>2 DEF PresentShape
  <1>4. CASE LabelRestored
    <2>1. /\ hook.step = "restored" /\ hook'.step = "restore" /\ pv' = pv
          /\ hook'.todo = hook.todo \ {hook.at}
      BY <1>0, <1>4 DEF LabelRestored, HookRecord
    <2> QED
      BY <1>0, <2>1 DEF PresentShape, AtShape, Exists
  <1>5. CASE ListDrivers
    <2>1. hook.step = "restore" /\ hook.todo = {} /\ pv' = pv
      BY <1>5 DEF ListDrivers
    <2>2. hook'.step \in {"drivers", "disable"}
      BY <1>0, <1>5, ZenonT(40) DEF ListDrivers, HookRecord
    <2> QED
      BY <1>0, <2>1, <2>2 DEF PresentShape, Exists
  <1>6. CASE DisableCSIComponents
    <2>1. hook.step = "disable" /\ hook'.step = "wait" /\ pv' = pv
      BY <1>0, <1>6 DEF DisableCSIComponents, Goto, HookRecord
    <2> QED
      BY <1>0, <2>1 DEF PresentShape, Exists
  <1>7. CASE hook' = hook
    <2>1. hook.step \notin Rewriting => \A v \in PVs : Exists(v) => Exists(v)'
      BY OthersKept
    <2> QED
      BY <1>0, <1>7, <2>1 DEF PresentShape, Rewriting
  <1>8. CASE SameClass
    BY <1>1, <1>8 DEF SameClass, AtClass
  <1>9. CASE hook' \in {Rest("failed"), Rest("ok")}
    BY <1>1, <1>9 DEF Rest
  <1>10. CASE \/ \E d \in Drivers : StartDriver(d)
              \/ \E c \in Classes : CreateClass(c) /\ ~GiveUp
              \/ CreateConnection \/ EndClass
    BY <1>0, <1>1, <1>10, LoopMoves
  <1>11. CASE WaitForPods \/ LabelDriver \/ EndVSClass
    BY <1>0, <1>1, <1>11 DEF WaitForPods, LabelDriver, EndVSClass, HookRecord
  <1>12. CASE \E s \in VSClasses : MigrateVSClass(s)
    <2>1. hook'.step \in {"contents", "vsclasses"}
      BY <1>0, <1>12 DEF MigrateVSClass, HookRecord
    <2> QED
      BY <1>1, <2>1
  <1>13. CASE \E k \in Contents : MigrateVSContent(k)
    BY <1>0, <1>1, <1>13 DEF MigrateVSContent, HookRecord
  <1>14. CASE ListSnapshots /\ hook' # Rest("failed")
    <2>1. hook'.step = "vsclasses"
      BY <1>0, <1>14 DEF ListSnapshots, GiveUp, HookRecord
    <2> QED
      BY <1>1, <2>1
  <1>15. CASE \/ PodsTerminate \/ HelmRelease \/ UNCHANGED vars
              \/ \E v \in PVs : ProtectPV(v) \/ UnprotectPV(v) \/ SomebodyRestores(v)
    BY <1>7, <1>15, Zenon DEF PodsTerminate, HelmRelease, ProtectPV, UnprotectPV,
                              SomebodyRestores, vars
  <1>16. Finish \/ Interrupted => hook' \in {Rest("failed"), Rest("ok")}
    BY DEF Finish, Interrupted, GiveUp
  <1> QED
    BY <1>0, <1>2, <1>3, <1>4, <1>5, <1>6, <1>8, <1>9, <1>10, <1>11, <1>12, <1>13, <1>14,
       <1>15, <1>16, ClassGoesOn DEF Next, HookStep, GiveUp

\* The list stays complete, and right about what is done.
LEMMA PresentStep ==
    ASSUME LabelInv, InUse = PVs, [Next]_vars
    PROVE  PresentShape'
  <1>0. /\ TypeOK /\ PresentShape /\ RecreateShape /\ ListShape
    BY DEF LabelInv, LabelShapes, LossInv
  <1>1. hook'.step \in Listed /\ hook'.drivers # {} =>
            \A v \in PVs : hook'.listed[v].phase # "absent"
    <2> SUFFICES ASSUME hook'.step \in Listed, hook'.drivers # {}
                 PROVE  \A v \in PVs : hook'.listed[v].phase # "absent"
      OBVIOUS
    <2>1. CASE WaitForPods
      <3>1. hook.step = "wait" /\ hook'.listed = pv
        BY <1>0, <2>1 DEF WaitForPods, TypeOK, HookRecord
      <3> QED
        BY <1>0, <3>1 DEF PresentShape, Exists
    <2>2. CASE hook.step \in Listed
      <3>1. hook.drivers # {}
        BY <1>0, <2>2, DriverMoves DEF Listed
      <3>2. hook'.listed = hook.listed
        BY <1>0, <2>2, ListMoves DEF Listed
      <3> QED
        BY <1>0, <2>2, <3>1, <3>2 DEF PresentShape
    <2> QED
      BY <1>0, <2>1, <2>2, ListedMoves
  <1>2. ASSUME NEW v \in PVs, hook'.listed[v].secret = "new"
        PROVE  Exists(v)' /\ pv'[v].secret = "new"
    <2>1. CASE hook'.listed = hook.listed
      <3>1. Exists(v) /\ pv[v].secret = "new"
        BY <1>0, <1>2, <2>1 DEF PresentShape
      <3>2. hook.step \in Rewriting => v # hook.at
        BY <1>0, <1>2, <2>1 DEF RecreateShape, needRecreate, Rewriting, WithPV, AtClass
      <3> QED
        BY <3>1, <3>2, OthersKept
    <2>2. CASE hook'.listed = [w \in PVs |-> NoPV]
      BY <1>2, <2>2 DEF NoPV
    <2>3. CASE hook.step = "wait" /\ hook'.listed = pv /\ pv' = pv
      BY <1>0, <1>2, <2>3 DEF PresentShape, Exists
    <2> QED
      BY <1>0, <2>1, <2>2, <2>3, ListMoves
  <1> QED
    BY <1>1, <1>2, RestoreStep DEF PresentShape

\* The volume at hand is being recreated, and comes to be with the new Secret.
LEMMA RecreateStep ==
    ASSUME LabelInv, InUse = PVs, Restorer = FALSE, [Next]_vars
    PROVE  RecreateShape'
  <1> USE DEF cluster, snapshots, resources, around
  <1>0. /\ TypeOK /\ RecreateShape /\ hook \in HookRecord /\ pv \in [PVs -> PVObject]
        /\ \A v \in PVs : pv[v] \in PVObject
        /\ hook.step \in AtPV => hook.at \in PVs
    BY DEF LabelInv, LabelShapes, LossInv, TypeOK, StepShape
  <1>1. CASE hook'.step \notin WithPV
    BY <1>1 DEF RecreateShape, WithPV, AtClass
  <1>2. ASSUME NEW v \in PVs, BackupResource(v)
        PROVE  RecreateShape'
    <2>1. /\ hook'.step = "backedUp" /\ hook'.at = v /\ hook'.listed = hook.listed
          /\ needRecreate(v)
      BY <1>0, <1>2 DEF BackupResource, HookRecord
    <2> QED
      BY <2>1 DEF RecreateShape, needRecreate
  <1>3. CASE LabelBackup \/ RetainPV \/ DeletePV
    <2>1. \/ /\ hook.step \in WithPV /\ hook'.step \in {"patch", "delete", "poll"}
             /\ hook'.at = hook.at /\ hook'.listed = hook.listed
          \/ hook'.step = "rest"
      BY <1>0, <1>3 DEF LabelBackup, RetainPV, DeletePV, Goto, GiveUp, Rest, HookRecord,
                        WithPV, AtClass
    <2> QED
      BY <1>0, <2>1 DEF RecreateShape, needRecreate, WithPV, AtClass
  <1>4. CASE PollPV
    <2>1. \/ /\ hook.step \in WithPV /\ hook'.step \in {"poll", "create"}
             /\ hook'.at = hook.at /\ hook'.listed = hook.listed
             /\ hook'.step = "create" => ~Exists(hook.at) /\ pv' = pv
          \/ hook'.step = "rest"
      BY <1>0, <1>4 DEF PollPV, Goto, GiveUp, Rest, HookRecord, WithPV, AtClass
    <2> QED
      BY <1>0, <2>1 DEF RecreateShape, needRecreate, WithPV, AtClass, Exists
  <1>5. CASE CreatePV
    <2>0. hook.step = "create" /\ hook.at \in PVs /\ ~Exists(hook.at)
      BY <1>0, <1>5 DEF CreatePV, AtPV, RecreateShape
    <2>1. /\ hook'.step = "created" /\ hook'.at = hook.at /\ hook'.listed = hook.listed
          /\ pv'[hook.at] = newPV(hook.at)
      BY <1>0, <1>5, <2>0 DEF CreatePV, Goto, HookRecord
    <2>2. newPV(hook.at).phase = "live" /\ newPV(hook.at).secret = "new"
      <3>1. hook.listed[hook.at] \in PVObject
        BY <1>0, <2>0, newPVType
      <3>2. newPV(hook.at).secret = "new"
        BY <3>1 DEF newPV, PVObject
      <3> QED
        BY <1>0, <2>0, <3>2, LiveCopies
    <2> QED
      BY <1>0, <2>0, <2>1, <2>2 DEF RecreateShape, needRecreate, WithPV, AtClass, Done, Exists
  <1>6. ASSUME hook' = hook, hook.step = "create" => pv'[hook.at].phase = pv[hook.at].phase
        PROVE  RecreateShape'
    <2>1. ASSUME NEW v \in PVs, v = hook.at, hook.step = "created"
          PROVE  Done(v)'
      <3>1. Done(v) /\ hook.step \notin Rewriting
        BY <1>0, <2>1 DEF RecreateShape, Rewriting
      <3> QED
        BY <3>1, DoneStays
    <2> QED
      BY <1>0, <1>6, <2>1 DEF RecreateShape, needRecreate, Exists, Done, AtPV
  <1>7. CASE PodsTerminate \/ HelmRelease \/ UNCHANGED vars
    <2>1. hook' = hook /\ pv' = pv
      BY <1>7, Zenon DEF PodsTerminate, HelmRelease, vars
    <2> QED
      BY <1>6, <2>1
  <1>8. ASSUME NEW v \in PVs, ProtectPV(v) \/ UnprotectPV(v) \/ SomebodyRestores(v)
        PROVE  RecreateShape'
    <2>1. ProtectPV(v)
      BY <1>8 DEF UnprotectPV, SomebodyRestores
    <2>2. hook' = hook /\ \A w \in PVs : pv'[w].phase = pv[w].phase
      BY <1>0, <2>1 DEF ProtectPV, PVObject
    <2> QED
      BY <1>0, <1>6, <2>2 DEF AtPV
  <1>9. CASE LabelCreated \/ \E v \in PVs : SkipPV(v) \/ UpdatePV(v)
    <2>1. hook'.step \in {"pvs", "rest"}
      <3>1. LabelCreated => hook'.step = "pvs"
        BY <1>0 DEF LabelCreated, HookRecord
      <3>2. ASSUME NEW v \in PVs, SkipPV(v) \/ UpdatePV(v)
            PROVE  hook'.step \in {"pvs", "rest"}
        <4>1. /\ hook.step = "pvs"
              /\ hook' = [hook EXCEPT !.todo = @ \ {v}] \/ hook' = Rest("failed")
          BY <3>2, Zenon DEF SkipPV, UpdatePV, GiveUp
        <4> QED
          BY <1>0, <4>1 DEF Rest, HookRecord
      <3> QED
        BY <1>9, <3>1, <3>2
    <2> QED
      BY <1>1, <2>1 DEF WithPV, AtClass
  <1>10. CASE \/ \E d \in Drivers : StartDriver(d)
              \/ \E c \in Classes : CreateClass(c) /\ ~GiveUp
              \/ CreateConnection \/ EndClass
    BY <1>0, <1>1, <1>10, LoopMoves DEF WithPV, AtClass
  <1>11. hook'.step \notin AtDriver => hook'.step \notin WithPV
    BY DEF AtDriver, WithPV, AtClass
  <1>12. GiveUp => hook'.step = "rest"
    BY DEF GiveUp, Rest
  <1>13. GiveUp => RecreateShape'
    BY <1>1, <1>12 DEF WithPV, AtClass
  <1> QED
    BY <1>0, <1>1, <1>2, <1>3, <1>4, <1>5, <1>7, <1>8, <1>9, <1>10, <1>11, <1>13,
       OutsideDrivers
    DEF Next, HookStep

\* A driver labelled as migrated has no volume left that names the old Secret, for any
\* drivers, classes, volumes and faults, if the volumes stay bound to their claims and
\* nobody else restores them.  The run MCMigration_skipped shows what the label is worth
\* when somebody does.
THEOREM LabelsAreTrue ==
    ASSUME InUse = PVs, Restorer = FALSE
    PROVE  Spec => []LabelledMeansMigrated
  <1>1. Init => LabelInv
    <2> SUFFICES ASSUME Init PROVE LabelInv
      OBVIOUS
    <2>1. LossInv
      BY LossInitially
    <2>2. /\ migrated = {} /\ hook.step = "rest"
          /\ \A v \in PVs : hook.listed[v].secret = "old"
      BY DEF Init, Rest, NoPV
    <2> QED
      BY <2>1, <2>2 DEF LabelInv, LoopShape, LabelShapes, DriverShape, DoneShape, PresentShape,
                        RecreateShape, LabelledMeansMigrated, AtDriver, AtClass, WithPV, Listed
  <1>2. LabelInv /\ [Next]_vars => LabelInv'
    BY LossStep, LoopStep, DriverStep, DoneStep, PresentStep, RecreateStep, LabelStep
    DEF LabelInv, LabelShapes, LossInv
  <1>3. LabelInv => LabelledMeansMigrated
    BY DEF LabelInv
  <1> QED
    BY <1>1, <1>2, <1>3, PTL DEF Spec
-----------------------------------------------------------------------------
\* A migration that nothing disturbs.  Every volume is there, with its policy, but for
\* the one that is being recreated; and what that one is recreated from was listed with
\* its policy.

CleanPVs ==
    /\ \A v \in PVs : hook.listed[v].phase = "absent" \/ hook.listed[v].policy = PolicyOf[v]
    /\ hook.step \in AtClass => \A v \in hook.todo : hook.listed[v].phase # "absent"
    /\ \A v \in PVs : \/ pv[v].phase = "live" /\ pv[v].policy = PolicyOf[v]
                      \/ v = hook.at /\ hook.step \in {"delete", "poll", "create"}
    /\ hook.step = "delete" => pv[hook.at].phase = "live"
    /\ hook.step = "poll" => pv[hook.at].phase # "live"
    /\ hook.step = "create" => ~Exists(hook.at)

\* What a labelled class has not moved of its contents is what the run is at.
CleanContents ==
    \A k \in Contents :
        /\ content[k].label = "true" => content[k].secret = "new"
        /\ vsclass[VSClassOf[k]].label = "true" =>
               content[k].secret = "new" \/ (hook.step = "contents" /\ k \in hook.contents)

CleanInv ==
    TypeOK /\ StepShape /\ LoopShape /\ (faults = 0 => CleanPVs /\ CleanContents)

\* Where a run is at a volume of a class, the volume was listed.
LEMMA CleanListed ==
    ASSUME CleanInv, faults = 0, [Next]_vars
    PROVE  /\ \A v \in PVs : \/ hook'.listed[v].phase = "absent"
                             \/ hook'.listed[v].policy = PolicyOf[v]
           /\ hook'.step \in AtClass => \A v \in hook'.todo : hook'.listed[v].phase # "absent"
  <1>0. TypeOK /\ hook \in HookRecord /\ CleanPVs
    BY DEF CleanInv, TypeOK
  <1>1. \A v \in PVs : \/ hook'.listed[v].phase = "absent"
                       \/ hook'.listed[v].policy = PolicyOf[v]
    BY <1>0, ListMoves DEF CleanPVs, NoPV
  <1>2. ASSUME hook'.step \in AtClass
        PROVE  \A v \in hook'.todo : hook'.listed[v].phase # "absent"
    <2>1. CASE SameClass \/ hook' = hook
      BY <1>0, <1>2, <2>1 DEF SameClass, CleanPVs
    <2>2. CASE \E c \in Classes : CreateClass(c) /\ ~GiveUp
      BY <1>0, <2>2, LoopMoves
    <2>3. ~(\/ \E d \in Drivers : StartDriver(d)
            \/ CreateConnection \/ EndClass)
      BY <1>0, <1>2, LoopMoves DEF AtClass
    <2>4. hook' # Rest("failed")
      BY <1>2 DEF Rest, AtClass
    <2>5. CASE \/ PodsTerminate \/ HelmRelease \/ UNCHANGED vars
               \/ \E v \in PVs : ProtectPV(v) \/ UnprotectPV(v) \/ SomebodyRestores(v)
      BY <2>1, <2>5, Zenon DEF PodsTerminate, HelmRelease, ProtectPV, UnprotectPV,
                               SomebodyRestores, vars
    <2> QED
      BY <1>0, <1>2, <2>1, <2>2, <2>3, <2>4, <2>5, ClassGoesOn, OutsideDrivers
      DEF Next, HookStep, GiveUp, AtClass, AtDriver
  <1> QED
    BY <1>1, <1>2

\* The steps before which every volume is there, and after which it is as it was.
LEMMA CleanStepLoops ==
    ASSUME CleanInv, faults = 0,
           \/ \E v \in PVs : SkipPV(v) \/ UpdatePV(v) \/ BackupResource(v) \/ RestorePV(v)
           \/ LabelRestored \/ ListDrivers \/ DisableCSIComponents \/ WaitForPods
           \/ \E d \in Drivers : StartDriver(d)
           \/ \E c \in Classes : CreateClass(c)
           \/ CreateConnection \/ EndClass \/ LabelDriver \/ LabelBackup \/ LabelCreated
           \/ \E s \in VSClasses : MigrateVSClass(s)
           \/ \E k \in Contents : MigrateVSContent(k)
           \/ ListSnapshots \/ EndVSClass \/ Finish \/ Run
    PROVE  /\ pv' = pv /\ hook'.step \notin {"delete", "poll", "create"}
           /\ \A v \in PVs : pv[v].phase = "live" /\ pv[v].policy = PolicyOf[v]
  <1> USE DEF cluster, snapshots, resources, around
  <1>0. TypeOK /\ hook \in HookRecord /\ CleanPVs
    BY DEF CleanInv, TypeOK
  <1>1. hook.step \notin {"delete", "poll", "create"}
    <2>1. CASE \/ \E v \in PVs : SkipPV(v) \/ UpdatePV(v) \/ BackupResource(v) \/ RestorePV(v)
               \/ LabelRestored \/ ListDrivers \/ DisableCSIComponents \/ WaitForPods
               \/ LabelBackup \/ LabelCreated \/ Run
      BY <2>1, Zenon DEF SkipPV, UpdatePV, BackupResource, RestorePV, LabelRestored,
         ListDrivers, DisableCSIComponents, WaitForPods, LabelBackup, LabelCreated, Run
    <2>2. CASE \/ \E d \in Drivers : StartDriver(d)
               \/ CreateConnection \/ EndClass \/ LabelDriver
      BY <1>0, <2>2, LoopMoves DEF LabelDriver
    <2>4. CASE \E c \in Classes : CreateClass(c)
      BY <2>4, Zenon DEF CreateClass
    <2>3. CASE \/ \E s \in VSClasses : MigrateVSClass(s)
               \/ \E k \in Contents : MigrateVSContent(k)
               \/ ListSnapshots \/ EndVSClass \/ Finish
      BY <2>3, Zenon DEF MigrateVSClass, MigrateVSContent, ListSnapshots, EndVSClass, Finish
    <2> QED
      BY <2>1, <2>2, <2>3, <2>4
  <1>2. \A v \in PVs : pv[v].phase = "live" /\ pv[v].policy = PolicyOf[v]
    BY <1>0, <1>1 DEF CleanPVs
  <1>3. pv' = pv
    <2>1. CASE \E v \in PVs : RestorePV(v)
      BY <1>2, <2>1, Zenon DEF RestorePV, Exists
    <2> QED
      BY <2>1, Zenon DEF SkipPV, UpdatePV, BackupResource, LabelRestored, ListDrivers,
         DisableCSIComponents, WaitForPods, StartDriver, CreateClass, CreateConnection,
         EndClass, LabelDriver, LabelBackup, LabelCreated, MigrateVSClass,
         MigrateVSContent, ListSnapshots, EndVSClass, Finish, Run
  <1>4. hook'.step \notin {"delete", "poll", "create"}
    <2>1. CASE \E v \in PVs : SkipPV(v) \/ UpdatePV(v)
      BY <1>0, <1>1, <2>1 DEF SkipPV, UpdatePV, GiveUp, Rest, HookRecord
    <2>2. ASSUME NEW v \in PVs, BackupResource(v)
          PROVE  hook'.step = "backedUp"
      <3>1. hook' = [hook EXCEPT !.step = "backedUp", !.at = v]
        BY <2>2, Zenon DEF BackupResource
      <3> QED
        BY <1>0, <3>1 DEF HookRecord
    <2>3. CASE LabelBackup
      BY <1>0, <2>3 DEF LabelBackup, Goto, GiveUp, Rest, HookRecord
    <2>4. CASE LabelCreated
      BY <1>0, <2>4 DEF LabelCreated, HookRecord
    <2>5. CASE \/ \E d \in Drivers : StartDriver(d)
               \/ \E c \in Classes : CreateClass(c) /\ ~GiveUp
               \/ CreateConnection \/ EndClass
      BY <1>0, <2>5, LoopMoves
    <2>6. GiveUp => hook'.step = "rest"
      BY DEF GiveUp, Rest
    <2> QED
      BY <1>0, <2>1, <2>2, <2>3, <2>4, <2>5, <2>6, OutsideDrivers DEF AtDriver
  <1> QED
    BY <1>2, <1>3, <1>4

\* The recreation of a volume, call by call: nobody puts another one in its place.
LEMMA CleanStepPVs ==
    ASSUME CleanInv, faults = 0, RetainPV \/ DeletePV \/ PollPV \/ CreatePV
    PROVE  /\ \A v \in PVs : \/ pv'[v].phase = "live" /\ pv'[v].policy = PolicyOf[v]
                             \/ v = hook'.at /\ hook'.step \in {"delete", "poll", "create"}
           /\ hook'.step = "delete" => pv'[hook'.at].phase = "live"
           /\ hook'.step = "poll" => pv'[hook'.at].phase # "live"
           /\ hook'.step = "create" => pv'[hook'.at].phase = "absent"
  <1> USE DEF cluster, snapshots, resources, around
  <1>0. /\ hook \in HookRecord /\ pv \in [PVs -> PVObject] /\ CleanPVs
        /\ hook.at \in PVs /\ pv[hook.at] \in PVObject
    BY DEF CleanInv, TypeOK, StepShape, AtPV, RetainPV, DeletePV, PollPV, CreatePV
  <1>1. \A w \in PVs : w # hook.at =>
            pv'[w] = pv[w] /\ pv[w].phase = "live" /\ pv[w].policy = PolicyOf[w]
    BY <1>0 DEF RetainPV, DeletePV, PollPV, CreatePV, CleanPVs
  <1>2. CASE RetainPV
    <2>1. pv[hook.at].phase = "live" /\ hook.step = "patch"
      BY <1>0, <1>2 DEF RetainPV, CleanPVs
    <2>2. /\ pv'[hook.at] = Unguarded([pv[hook.at] EXCEPT !.policy = "Retain"])
          /\ hook' = [hook EXCEPT !.step = "delete"]
      BY <1>0, <1>2, <2>1 DEF RetainPV, Exists, Goto
    <2>3. hook'.step = "delete" /\ hook'.at = hook.at
      BY <1>0, <2>2 DEF HookRecord
    <2>4. pv'[hook.at].phase = "live"
      BY <1>0, <2>1, <2>2, LiveCopies
    <2> QED
      BY <1>1, <2>3, <2>4
  <1>3. CASE DeletePV
    <2>1. pv[hook.at].phase = "live" /\ hook.step = "delete"
      BY <1>0, <1>3 DEF DeletePV, CleanPVs
    <2>2. hook'.step = "poll" /\ hook'.at = hook.at
      BY <1>0, <1>3, <2>1 DEF DeletePV, Exists, Goto, HookRecord
    <2>3. pv'[hook.at].phase # "live"
      BY <1>0, <1>3, <2>1 DEF DeletePV, Exists, NoPV, PVObject
    <2> QED
      BY <1>1, <2>2, <2>3
  <1>4. CASE PollPV
    <2>1. pv[hook.at].phase # "live" /\ hook.step = "poll"
      BY <1>0, <1>4 DEF PollPV, CleanPVs
    <2>2. \/ hook'.step = "create" /\ hook'.at = hook.at /\ pv'[hook.at].phase = "absent"
          \/ hook' = hook /\ pv'[hook.at].phase # "live"
      <3>1. CASE ~Exists(hook.at) /\ Goto("create") /\ UNCHANGED pv
        BY <1>0, <3>1 DEF Goto, Exists, HookRecord
      <3>2. CASE pv' = [pv EXCEPT ![hook.at] = Unguarded(@)] /\ UNCHANGED hook
        BY <1>0, <2>1, <3>2 DEF Unguarded, NoPV, PVObject
      <3> QED
        BY <1>4, <2>1, <3>1, <3>2 DEF PollPV
    <2> QED
      BY <1>1, <2>1, <2>2
  <1>5. CASE CreatePV
    <2>1. ~Exists(hook.at) /\ hook.step = "create"
      BY <1>0, <1>5 DEF CreatePV, CleanPVs
    <2>2. pv'[hook.at] = newPV(hook.at) /\ hook'.step = "created"
      BY <1>0, <1>5, <2>1 DEF CreatePV, Goto, HookRecord
    <2>3. hook.listed[hook.at].policy = PolicyOf[hook.at]
      BY <1>0, <2>1 DEF CleanInv, CleanPVs, LoopShape, WithPV, AtClass
    <2>4. newPV(hook.at).phase = "live" /\ newPV(hook.at).policy = PolicyOf[hook.at]
      <3>1. hook.listed[hook.at] \in PVObject
        BY <1>0, newPVType
      <3> QED
        BY <2>3, <3>1, ZenonT(40) DEF newPV, PVObject
    <2> QED
      BY <1>1, <2>2, <2>4
  <1> QED
    BY <1>2, <1>3, <1>4, <1>5

\* What happens around the hook takes at most a volume that is on its way out.
LEMMA CleanStepAround ==
    ASSUME CleanInv, faults = 0,
           \/ PodsTerminate \/ HelmRelease \/ UNCHANGED vars
           \/ \E v \in PVs : ProtectPV(v) \/ UnprotectPV(v)
    PROVE  /\ \A v \in PVs : \/ pv'[v].phase = "live" /\ pv'[v].policy = PolicyOf[v]
                             \/ v = hook'.at /\ hook'.step \in {"delete", "poll", "create"}
           /\ hook'.step = "delete" => pv'[hook'.at].phase = "live"
           /\ hook'.step = "poll" => pv'[hook'.at].phase # "live"
           /\ hook'.step = "create" => pv'[hook'.at].phase = "absent"
  <1> USE DEF resources, snapshots, cluster, around
  <1>0. /\ pv \in [PVs -> PVObject] /\ \A v \in PVs : pv[v] \in PVObject
        /\ CleanPVs
        /\ hook.step \in AtPV => hook.at \in PVs
    BY DEF CleanInv, TypeOK, StepShape
  <1>1. hook' = hook
    BY Zenon DEF PodsTerminate, HelmRelease, ProtectPV, UnprotectPV, vars
  <1>2. \A w \in PVs : \/ pv'[w].phase = pv[w].phase /\ pv'[w].policy = pv[w].policy
                       \/ pv[w].phase = "terminating" /\ pv'[w].phase = "absent"
    <2>1. CASE PodsTerminate \/ HelmRelease \/ UNCHANGED vars
      BY <2>1 DEF PodsTerminate, HelmRelease, vars
    <2>2. CASE \E v \in PVs : ProtectPV(v)
      BY <1>0, <2>2 DEF ProtectPV, PVObject
    <2>3. CASE \E v \in PVs : UnprotectPV(v)
      BY <1>0, <2>3 DEF UnprotectPV, NoPV
    <2> QED
      BY <2>1, <2>2, <2>3
  <1>3. \A v \in PVs : \/ pv'[v].phase = "live" /\ pv'[v].policy = PolicyOf[v]
                       \/ v = hook.at /\ hook.step \in {"delete", "poll", "create"}
    BY <1>0, <1>2 DEF CleanPVs
  <1>4. CASE hook.step \in {"delete", "poll", "create"}
    <2>1. hook.at \in PVs
      BY <1>0, <1>4 DEF AtPV
    <2>2. /\ hook.step = "delete" => pv'[hook.at].phase = "live"
          /\ hook.step = "poll" => pv'[hook.at].phase # "live"
          /\ hook.step = "create" => pv'[hook.at].phase = "absent"
      BY <1>0, <1>2, <2>1 DEF CleanPVs, Exists
    <2> QED
      BY <1>1, <1>3, <2>2
  <1> QED
    BY <1>1, <1>3, <1>4

\* No step but a fault disturbs the volumes.
LEMMA CleanPVsStep ==
    ASSUME CleanInv, [Next]_vars, faults = 0, faults' = 0
    PROVE  CleanPVs'
  <1>1. ~Interrupted /\ \A v \in PVs : ~SomebodyRestores(v)
    BY DEF Interrupted, SomebodyRestores
  <1>2. /\ \A v \in PVs : \/ pv'[v].phase = "live" /\ pv'[v].policy = PolicyOf[v]
                          \/ v = hook'.at /\ hook'.step \in {"delete", "poll", "create"}
        /\ hook'.step = "delete" => pv'[hook'.at].phase = "live"
        /\ hook'.step = "poll" => pv'[hook'.at].phase # "live"
        /\ hook'.step = "create" => pv'[hook'.at].phase = "absent"
    BY <1>1, CleanStepLoops, CleanStepPVs, CleanStepAround DEF Next, HookStep
  <1> QED
    BY <1>2, CleanListed DEF CleanPVs, Exists

\* Nor the contents.
LEMMA CleanContentsStep ==
    ASSUME CleanInv, [Next]_vars, faults = 0, faults' = 0
    PROVE  CleanContents'
  <1> USE DEF cluster, snapshots, resources, around
  <1>0. /\ hook \in HookRecord /\ CleanContents
        /\ content \in [Contents -> SnapshotObject] /\ vsclass \in [VSClasses -> SnapshotObject]
        /\ \A k \in Contents : VSClassOf[k] \in VSClasses
    BY SnapshotsAssumption DEF CleanInv, TypeOK
  <1>1. ASSUME NEW s \in VSClasses, MigrateVSClass(s)
        PROVE  CleanContents'
    <2>1. CASE OwnerOf[s] \notin conn
      <3>1. /\ content' = content /\ hook.step = "vsclasses"
            /\ vsclass' = [vsclass EXCEPT ![s].label = "false"]
        BY <1>1, <2>1 DEF MigrateVSClass
      <3>2. \A t \in VSClasses : vsclass'[t].label = "true" => vsclass[t].label = "true"
        BY <1>0, <3>1 DEF SnapshotObject
      <3> QED
        BY <1>0, <3>1, <3>2 DEF CleanContents
    <2>2. CASE OwnerOf[s] \in conn
      <3> DEFINE left == {k \in Contents : VSClassOf[k] = s /\ content[k].label # "true"}
      <3>1. /\ content' = content /\ hook.step = "vsclasses"
            /\ vsclass' = [vsclass EXCEPT ![s] = [secret |-> "new", label |-> "true"]]
            /\ hook' = [hook EXCEPT !.step = "contents", !.vsclass = s, !.contents = left]
        BY <1>1, <2>2, Zenon DEF MigrateVSClass
      <3>2. \A k \in Contents : VSClassOf[k] = s => k \in left \/ content[k].label = "true"
        OBVIOUS
      <3>3. left \subseteq Contents
        OBVIOUS
      <3> HIDE DEF left
      <3>4. hook'.step = "contents" /\ hook'.contents = left
        BY <1>0, <3>1, <3>3 DEF HookRecord
      <3>5. \A t \in VSClasses : t # s => vsclass'[t] = vsclass[t]
        BY <1>0, <3>1
      <3> QED
        BY <1>0, <3>1, <3>2, <3>4, <3>5 DEF CleanContents
    <2> QED
      BY <2>1, <2>2
  <1>2. ASSUME NEW k \in Contents, MigrateVSContent(k)
        PROVE  CleanContents'
    <2>1. /\ hook.step = "contents" /\ hook'.step = "contents"
          /\ hook'.contents = hook.contents \ {k} /\ vsclass' = vsclass
      BY <1>0, <1>2 DEF MigrateVSContent, HookRecord
    <2>2. /\ content'[k].secret = "new"
          /\ \A j \in Contents : j # k => content'[j] = content[j]
      BY <1>0, <1>2 DEF MigrateVSContent
    <2> QED
      BY <1>0, <2>1, <2>2 DEF CleanContents
  <1>3. CASE EndVSClass
    BY <1>0, <1>3 DEF EndVSClass, CleanContents
  <1>4. CASE UNCHANGED <<content, vsclass>> /\ hook.step # "contents"
    BY <1>0, <1>4 DEF CleanContents
  <1>5. CASE UNCHANGED <<content, vsclass, hook>>
    BY <1>0, <1>5 DEF CleanContents
  <1>6. ASSUME \/ \E v \in PVs : RestorePV(v) \/ SkipPV(v) \/ UpdatePV(v) \/ BackupResource(v)
               \/ LabelRestored \/ ListDrivers \/ DisableCSIComponents \/ WaitForPods
               \/ \E d \in Drivers : StartDriver(d)
               \/ \E c \in Classes : CreateClass(c)
               \/ CreateConnection \/ EndClass \/ LabelDriver \/ LabelBackup \/ RetainPV
               \/ DeletePV \/ PollPV \/ CreatePV \/ LabelCreated
               \/ ListSnapshots \/ Finish \/ Run
        PROVE  UNCHANGED <<content, vsclass>> /\ hook.step # "contents"
    <2>1. UNCHANGED <<content, vsclass>>
      BY <1>6, Zenon DEF RestorePV, SkipPV, UpdatePV, BackupResource, LabelRestored,
         ListDrivers, DisableCSIComponents, WaitForPods, StartDriver, CreateClass,
         CreateConnection, EndClass, LabelDriver, LabelBackup, RetainPV, DeletePV, PollPV,
         CreatePV, LabelCreated, ListSnapshots, Finish, Run
    <2>2. hook.step # "contents"
      BY <1>6, Zenon DEF RestorePV, SkipPV, UpdatePV, BackupResource, LabelRestored,
         ListDrivers, DisableCSIComponents, WaitForPods, StartDriver, CreateClass,
         CreateConnection, EndClass, LabelDriver, LabelBackup, RetainPV, DeletePV, PollPV,
         CreatePV, LabelCreated, ListSnapshots, Finish, Run
    <2> QED
      BY <2>1, <2>2
  <1>7. CASE \/ PodsTerminate \/ HelmRelease \/ UNCHANGED vars
             \/ \E v \in PVs : ProtectPV(v) \/ UnprotectPV(v)
    BY <1>5, <1>7, Zenon DEF PodsTerminate, HelmRelease, ProtectPV, UnprotectPV, vars
  <1>8. ~Interrupted /\ \A v \in PVs : ~SomebodyRestores(v)
    BY DEF Interrupted, SomebodyRestores
  <1> QED
    BY <1>1, <1>2, <1>3, <1>4, <1>6, <1>7, <1>8 DEF Next, HookStep

\* A migration in which no call fails, no process dies and nobody restores a volume ends
\* with the reclaim policy of every volume as it was and the contents of migrated
\* VolumeSnapshotClasses on the new Secret, for any volumes, bound or not, references,
\* classes and snapshots, in however many runs.
THEOREM MigrationIsClean == Spec => []CleanMigration
  <1>1. Init => CleanInv
    <2> SUFFICES ASSUME Init PROVE CleanInv
      OBVIOUS
    <2>1. TypeOK /\ StepShape /\ LoopShape
      BY TypeInitially DEF Init, Rest, StepShape, AtPV, AtDriver, LoopShape, AtClass, WithPV
    <2>2. /\ hook.step = "rest" /\ \A v \in PVs : hook.listed[v].phase = "absent"
          /\ \A v \in PVs : pv[v].phase = "live" /\ pv[v].policy = PolicyOf[v]
      BY DEF Init, Rest, NoPV, PVBefore
    <2>3. /\ \A k \in Contents : content[k].label = "none"
          /\ \A k \in Contents : vsclass[VSClassOf[k]].label = "none"
      BY SnapshotsAssumption DEF Init, SnapshotBefore
    <2> QED
      BY <2>1, <2>2, <2>3 DEF CleanInv, CleanPVs, CleanContents, AtClass
  <1>2. CleanInv /\ [Next]_vars => CleanInv'
    <2> SUFFICES ASSUME CleanInv, [Next]_vars PROVE CleanInv'
      OBVIOUS
    <2>1. TypeOK' /\ StepShape' /\ LoopShape'
      BY TypeStep, LoopStep DEF CleanInv
    <2>2. faults' = 0 => faults = 0
      <3>1. \/ Interrupted \/ Finish \/ \E d \in Drivers : StartDriver(d)
            \/ \E v \in PVs : SomebodyRestores(v)
            => faults' = faults \/ faults' = faults + 1
        BY Zenon DEF Interrupted, Finish, StartDriver, SomebodyRestores
      <3>2. \/ Interrupted \/ Finish \/ \E d \in Drivers : StartDriver(d)
            \/ \E v \in PVs : SomebodyRestores(v)
            \/ faults' = faults
        BY Zenon DEF Next, HookStep, Run, WaitForPods, LabelDriver, RestorePV, SkipPV, UpdatePV,
           BackupResource, CreateClass, CreateConnection, EndClass, LabelRestored,
           ListDrivers, DisableCSIComponents, LabelBackup, RetainPV, DeletePV, PollPV, CreatePV,
           LabelCreated, MigrateVSClass, MigrateVSContent, ListSnapshots, EndVSClass,
           PodsTerminate, HelmRelease, ProtectPV, UnprotectPV, around, vars
      <3> QED
        BY <3>1, <3>2 DEF CleanInv, TypeOK
    <2> QED
      BY <2>1, <2>2, CleanPVsStep, CleanContentsStep DEF CleanInv
  <1>3. CleanInv => CleanMigration
    BY DEF CleanInv, CleanPVs, CleanContents, CleanMigration, PolicyKept, ContentsFollow, Finished
  <1> QED
    BY <1>1, <1>2, <1>3, PTL DEF Spec
=============================================================================
