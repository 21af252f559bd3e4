----------------------------- MODULE ModuleProofs -----------------------------
(***************************************************************************)
(* Theorems about ModuleLifecycle, from those about its two controllers.   *)
(***************************************************************************)
EXTENDS ModuleLifecycle, TLAPS

CP == INSTANCE ConnectionVerdictProofs WITH
    pass <- cpass, ValidSpecs <- ConnSpecs, InvalidSpecs <- {},
    StaleReads <- FALSE, Tampering <- {}

SP == INSTANCE StorageClassVerdictProofs WITH
    pass <- spass, ValidSpecs <- ClassSpecs, InvalidSpecs <- {},
    Types <- {"RBD"}, TypeOf <- [s \in ClassSpecs |-> "RBD"],
    MapperFails <- FALSE,
    StaleReads <- FALSE, Meddling <- {}, MaxLives <- MaxClassLives, MaxEdits <- 0

-----------------------------------------------------------------------------
\* The provers take C and CP, and S and SP, for different instances: here their actions are
\* found to be the same, definition by definition.

\* The connection controller's.
LEMMA ConnectionActions ==
    /\ C!Init = CP!Init /\ C!TypeOK = CP!TypeOK /\ C!NoOrphans = CP!NoOrphans
    /\ \A c \in Conns : C!InPlace(c) = CP!InPlace(c)
    /\ C!Work = CP!Work /\ C!Sync = CP!Sync /\ C!CrashRestart = CP!CrashRestart
    /\ \A c \in Conns : /\ C!StartReconcile(c) = CP!StartReconcile(c)
                        /\ C!CreateConnection(c) = CP!CreateConnection(c)
                        /\ C!EditConnection(c) = CP!EditConnection(c)
                        /\ C!DeleteConnection(c) = CP!DeleteConnection(c)
  BY
   DEF C!InPlace, CP!InPlace, C!Init, CP!Init, C!TypeOK, CP!TypeOK, C!NoOrphans, CP!NoOrphans, C!Work, CP!Work,
       C!StartReconcile, CP!StartReconcile, C!Sync, CP!Sync, C!CrashRestart,
       CP!CrashRestart, C!CreateConnection, CP!CreateConnection, C!EditConnection,
       CP!EditConnection, C!DeleteConnection, CP!DeleteConnection, C!Gone, CP!Gone,
       C!NoStatus, CP!NoStatus, C!EmptyConfigMap, CP!EmptyConfigMap, C!NoSecret,
       CP!NoSecret, C!NoPass, CP!NoPass, C!ConnObject, CP!ConnObject, C!StatusObject,
       CP!StatusObject, C!ConfigMapObject, CP!ConfigMapObject, C!SecretObject,
       CP!SecretObject, C!PassRecord, CP!PassRecord, C!EntryOwners, CP!EntryOwners,
       C!Outcomes, CP!Outcomes, C!addFinalizerIfNotExists, CP!addFinalizerIfNotExists,
       C!reconcileConfigMap, CP!reconcileConfigMap, C!reconcileSecret, CP!reconcileSecret,
       C!deleteSecret, CP!deleteSecret, C!removeFinalizerIfExists,
       CP!removeFinalizerIfExists, C!updateCephClusterConnectionStatus,
       CP!updateCephClusterConnectionStatus, C!Fresh, CP!Fresh, C!valid, CP!valid,
       C!server, CP!server, C!informer, CP!informer, C!SyncConfigMap, CP!SyncConfigMap,
       C!SyncConnection, CP!SyncConnection, C!SyncSecret, CP!SyncSecret, C!Fault, CP!Fault,
       C!EnsureConfigMapExists, CP!EnsureConfigMapExists, C!Specs, CP!Specs,
       C!UserWritesConn, CP!UserWritesConn, C!NoSpec, CP!NoSpec, C!NoConfigMap,
       CP!NoConfigMap, C!Entry, CP!Entry, C!PassSteps, CP!PassSteps, C!Goto, CP!Goto,
       C!Spend, CP!Spend, C!WriteConn, CP!WriteConn, C!Fail, CP!Fail, C!updatedConfigMap,
       CP!updatedConfigMap, C!Proceed, CP!Proceed, C!NoWriteConfigMap, CP!NoWriteConfigMap,
       C!WriteConfigMap, CP!WriteConfigMap, C!generateNewConfigMap,
       CP!generateNewConfigMap, C!reconcileLiveSecret, CP!reconcileLiveSecret,
       C!removeSecretFinalizer, CP!removeSecretFinalizer, C!WriteSecret, CP!WriteSecret,
       C!shouldPublishStatus, CP!shouldPublishStatus, C!enqueued, CP!enqueued, C!NoEntries,
       CP!NoEntries, C!NoOwner, CP!NoOwner, C!updateClusterConfigs,
       CP!updateClusterConfigs, C!generateClusterConfig, CP!generateClusterConfig,
       C!generateNewSecret, CP!generateNewSecret, C!NoWriteSecret, CP!NoWriteSecret,
       C!NoEntry, CP!NoEntry, C!clusterIDOf, CP!clusterIDOf

\* The class controller's.
LEMMA ClassActions ==
    /\ S!NoOrphans = SP!NoOrphans /\ S!InPlace = SP!InPlace
    /\ S!Work = SP!Work /\ S!Start = SP!Start /\ S!CrashRestart = SP!CrashRestart
    /\ S!CreateClass = SP!CreateClass /\ S!DeleteClass = SP!DeleteClass
    /\ \A part \in S!Parts : part \in SP!Parts /\ S!Sync(part) = SP!Sync(part)
  BY
   DEF S!InPlace, SP!InPlace, S!NoOrphans, SP!NoOrphans, S!Work, SP!Work, S!Start, SP!Start,
       S!CrashRestart, SP!CrashRestart, S!CreateClass, SP!CreateClass, S!DeleteClass,
       SP!DeleteClass, S!Sync, SP!Sync, S!Spend, SP!Spend, S!Gone, SP!Gone, S!NoSC, SP!NoSC,
       S!NoVSC, SP!NoVSC, S!NoCid, SP!NoCid, S!server, SP!server, S!NoPass, SP!NoPass,
       S!Parts, SP!Parts, S!owned, SP!owned, S!Outcomes, SP!Outcomes,
       S!addFinalizerIfNotExists, SP!addFinalizerIfNotExists, S!getClusterID,
       SP!getClusterID, S!reconcileStorageClass, SP!reconcileStorageClass,
       S!recreateStorageClass, SP!recreateStorageClass, S!reconcileVolumeSnapshotClass,
       SP!reconcileVolumeSnapshotClass, S!reconcileStorageClassDelete,
       SP!reconcileStorageClassDelete, S!deleteStorageClass, SP!deleteStorageClass,
       S!reconcileVolumeSnapshotClassDelete, SP!reconcileVolumeSnapshotClassDelete,
       S!deleteVolumeSnapshotClass, SP!deleteVolumeSnapshotClass, S!removeFinalizerIfExists,
       SP!removeFinalizerIfExists, S!updateCephStorageClassStatus,
       SP!updateCephStorageClassStatus, S!StartReconcile, SP!StartReconcile, S!Fault,
       SP!Fault, S!NewConfig, SP!NewConfig, S!Specs, SP!Specs, S!UserWritesClass,
       SP!UserWritesClass, S!enqueued, SP!enqueued, S!NoSpec, SP!NoSpec, S!NoOption,
       SP!NoOption, S!obj, SP!obj, S!Goto, SP!Goto, S!WriteClass, SP!WriteClass, S!Fail,
       SP!Fail, S!Fresh, SP!Fresh, S!oldSC, SP!oldSC, S!provisionerDiffers,
       SP!provisionerDiffers, S!GetSCDiff, SP!GetSCDiff, S!updateStorageClass,
       SP!updateStorageClass, S!shouldRetryFailedStorageClass,
       SP!shouldRetryFailedStorageClass, S!CreateStorageClass, SP!CreateStorageClass,
       S!ConfigureStorageClass, SP!ConfigureStorageClass, S!unfinalizeSC, SP!unfinalizeSC,
       S!ConfigureVSClass, SP!ConfigureVSClass, S!oldVSClass, SP!oldVSClass,
       S!CompareVSClasses, SP!CompareVSClasses, S!WriteVSC, SP!WriteVSC, S!Proceed,
       SP!Proceed, S!WriteSC, SP!WriteSC, S!afterDelete, SP!afterDelete, S!afterUnfinalize,
       SP!afterUnfinalize, S!shouldPublishStatus, SP!shouldPublishStatus, S!verdict,
       SP!verdict, S!VolumeSnapshotClassCRDExists, SP!VolumeSnapshotClassCRDExists,
       S!firstStep, SP!firstStep, S!Outdates, SP!Outdates

\* So are their types.
LEMMA ClassTypes == SP!TypeOK => S!TypeOK
  BY DEF S!TypeOK, SP!TypeOK, S!ClassObject, SP!ClassObject, S!SCObject, SP!SCObject,
     S!VSCObject, SP!VSCObject, S!ServerRecord, SP!ServerRecord, S!PassRecord, SP!PassRecord,
     S!PassSteps, SP!PassSteps, S!Parts, SP!Parts, S!Specs, SP!Specs, S!NoSpec, SP!NoSpec,
     S!NoOption, SP!NoOption, S!NoCid, SP!NoCid

\* And their starts.
LEMMA ClassInitially == S!Init => SP!Init
  <1> SUFFICES ASSUME S!Init PROVE SP!Init
    OBVIOUS
  <1>1. /\ S!server = SP!server /\ S!NoPass = SP!NoPass /\ S!Gone(0) = SP!Gone(0)
        /\ S!NoSC = SP!NoSC /\ S!NoVSC = SP!NoVSC /\ S!NoCid = SP!NoCid
    BY DEF S!Gone, SP!Gone, S!NoSC, SP!NoSC, S!NoVSC, SP!NoVSC, S!NoSpec, SP!NoSpec,
       S!NoCid, SP!NoCid, S!NoOption, SP!NoOption, S!server, SP!server, S!NoPass, SP!NoPass
  <1> QED
    BY <1>1 DEF S!Init, SP!Init

\* What the controllers assume of their constants follows from what the module assumes.
LEMMA ConnectionAssumptions ==
    /\ CP!ConnsAssumption /\ CP!CidOfAssumption /\ CP!SpecsAssumption /\ CP!NamesAssumption
    /\ CP!SwitchesAssumption /\ CP!BoundsAssumption
  BY ConnsAssumption, NamesAssumption, BoundsAssumption
  DEF CP!ConnsAssumption, CP!CidOfAssumption, CP!SpecsAssumption, CP!NamesAssumption,
      CP!SwitchesAssumption, CP!BoundsAssumption

\* The same for the class controller.
LEMMA ClassAssumptions ==
    /\ SP!SpecsAssumption /\ SP!TypesAssumption /\ SP!ClusterIDsAssumption
    /\ SP!OptionsAssumption /\ SP!SwitchesAssumption /\ SP!BoundsAssumption
  BY NamesAssumption, SwitchesAssumption, BoundsAssumption
  DEF SP!SpecsAssumption, SP!TypesAssumption, SP!ClusterIDsAssumption,
      SP!OptionsAssumption, SP!SwitchesAssumption, SP!BoundsAssumption, SP!Specs, SP!NoSpec,
      SP!NoCid, SP!NoOption

\* A connection that is there names one of the clusters.
LEMMA ClusterIDType == CP!TypeOK => cid \in ClusterIDs \cup {SP!NoCid}
  <1> SUFFICES ASSUME CP!TypeOK PROVE cid \in ClusterIDs \cup {SP!NoCid}
    OBVIOUS
  <1>1. conn[ClassConn] \in CP!ConnObject
    BY ConnsAssumption DEF CP!TypeOK
  <1>2. conn[ClassConn].life \in 0..MaxLives
    BY <1>1 DEF CP!ConnObject
  <1> QED
    BY <1>2, ConnsAssumption DEF cid, SP!NoCid

-----------------------------------------------------------------------------
\* Type correctness.

Typed ==
    /\ CP!TypeOK /\ SP!TypeOK
    /\ module \in {"installed", "removing", "removed"} /\ hook \in HookRecord

\* TypeOK, in terms of the instances the facts are about.
LEMMA TypedIs == Typed => TypeOK
  BY ConnectionActions, ClassTypes DEF TypeOK, Typed

\* What the class controller sees of a step of the connection's keeps its types.
LEMMA ClassSeesType ==
    ASSUME Typed, ClassSees, CP!TypeOK'
    PROVE  SP!TypeOK'
  <1>1. spass' \in SP!PassRecord /\ lag' \subseteq SP!Parts
    BY DEF Typed, SP!TypeOK, ClassSees, SP!PassRecord, SP!Parts
  <1>2. (cid \in ClusterIDs \cup {SP!NoCid})'
    BY ClusterIDType, PTL
  <1>3. faults' \in 0..MaxFaults
    BY DEF CP!TypeOK
  <1> QED
    BY <1>1, <1>2, <1>3 DEF Typed, SP!TypeOK, ClassSees

\* A step of the class controller, to the connection's.
LEMMA ClassStepType ==
    ASSUME Typed, SP!TypeOK', UNCHANGED connVars
    PROVE  CP!TypeOK'
  BY DEF Typed, CP!TypeOK, SP!TypeOK, connVars

\* The module starts with every variable of its type.
LEMMA TypeInitially == Init => Typed
  <1> SUFFICES ASSUME Init PROVE Typed
    OBVIOUS
  <1>1. CP!TypeOK
    BY CP!TypeInitially, ConnectionAssumptions, ConnectionActions DEF Init
  <1>2. SP!TypeOK
    BY SP!TypeInitially, ClassAssumptions, ClassInitially DEF Init
  <1>3. hook \in HookRecord
    BY DEF Init, NoHook, HookRecord, Kinds
  <1> QED
    BY <1>1, <1>2, <1>3 DEF Typed, Init

\* The controllers' own steps and those of users keep the types.
LEMMA TypeStepControllers ==
    ASSUME Typed, Controllers \/ UserOfConnections \/ UserOfClasses
    PROVE  Typed'
  <1>0. CP!TypeOK /\ SP!TypeOK
    BY DEF Typed
  <1>1. UNCHANGED <<module, hook>>
    BY DEF Controllers, UserOfConnections, UserOfClasses, ConnectionSync, ConnectionStart,
       ConnectionWork, ClassSync, ClassStart, ClassWork, CrashRestart, ConnectionStep, ClassStep
  <1>2. CASE ConnectionSync \/ ConnectionStart \/ ConnectionWork
    <2>1. ClassSees /\ (CP!Sync \/ CP!Work \/ \E c \in Conns : CP!StartReconcile(c))
      BY <1>2, ConnectionActions DEF ConnectionSync, ConnectionStart, ConnectionWork, ConnectionStep
    <2>2. CP!TypeOK'
      BY <1>0, <2>1, CP!TypeStepSync, CP!TypeStepWork, CP!TypeStepStart, ConnectionAssumptions
    <2> QED
      BY <1>1, <2>1, <2>2, ClassSeesType DEF Typed
  <1>3. CASE UserOfConnections
    <2>1. ClassSees /\ CP!User
      BY <1>3, ConnectionActions DEF UserOfConnections, CP!User
    <2>2. CP!TypeOK'
      BY <1>0, <2>1, CP!TypeStepUser, ConnectionAssumptions
    <2> QED
      BY <1>1, <2>1, <2>2, ClassSeesType DEF Typed
  <1>4. CASE ClassSync \/ ClassStart \/ ClassWork
    <2>1. UNCHANGED connVars /\ (SP!Start \/ SP!Work \/ \E part \in SP!Parts : SP!Sync(part))
      BY <1>4, ClassActions DEF ClassSync, ClassStart, ClassWork, ClassStep
    <2>2. SP!TypeOK'
      BY <1>0, <2>1, SP!TypeStepSync, SP!TypeStepWork, SP!TypeStepStart, ClassAssumptions
    <2> QED
      BY <1>1, <2>1, <2>2, ClassStepType DEF Typed
  <1>5. CASE UserOfClasses
    <2>1. UNCHANGED connVars /\ SP!User
      BY <1>5, ClassActions DEF UserOfClasses, SP!User
    <2>2. SP!TypeOK'
      BY <1>0, <2>1, SP!TypeStepUser, ClassAssumptions
    <2> QED
      BY <1>1, <2>1, <2>2, ClassStepType DEF Typed
  <1>6. CASE CrashRestart
    <2>1. CP!CrashRestart /\ SP!CrashRestart
      BY <1>6, ConnectionActions, ClassActions DEF CrashRestart, Restart
    <2>2. CP!TypeOK'
      BY <1>0, <2>1, CP!TypeStepReplicas, ConnectionAssumptions
    <2>3. SP!TypeOK'
      BY <1>0, <2>1, SP!TypeStep, ClassAssumptions DEF SP!Next
    <2> QED
      BY <1>1, <2>2, <2>3 DEF Typed
  <1> QED
    BY <1>2, <1>3, <1>4, <1>5, <1>6 DEF Controllers

\* Objects without finalizers, terminating, or gone, have their types.
LEMMA ReleasedTypes ==
    /\ \A x \in CP!SecretObject : /\ [x EXCEPT !.managed = FALSE] \in CP!SecretObject
                                  /\ [x EXCEPT !.phase = "terminating"] \in CP!SecretObject
    /\ \A x \in CP!ConfigMapObject : /\ [x EXCEPT !.managed = FALSE] \in CP!ConfigMapObject
                                     /\ [x EXCEPT !.phase = "terminating"] \in CP!ConfigMapObject
    /\ \A x \in CP!ConnObject : /\ [x EXCEPT !.finalizer = FALSE] \in CP!ConnObject
                                /\ C!Gone(x.life) \in CP!ConnObject
    /\ \A x \in SP!ClassObject : /\ [x EXCEPT !.finalizer = FALSE] \in SP!ClassObject
                                 /\ S!Gone(x.life) \in SP!ClassObject
    /\ C!NoSecret \in CP!SecretObject /\ C!NoConfigMap \in CP!ConfigMapObject
    /\ C!NoStatus \in CP!StatusObject
    /\ \A x \in SP!SCObject : /\ S!afterDelete(x, S!NoSC) \in SP!SCObject
                              /\ S!afterUnfinalize(x, S!NoSC) \in SP!SCObject
  <1>1. \A x \in CP!SecretObject : /\ [x EXCEPT !.managed = FALSE] \in CP!SecretObject
                                   /\ [x EXCEPT !.phase = "terminating"] \in CP!SecretObject
    BY DEF CP!SecretObject
  <1>2. \A x \in CP!ConfigMapObject :
            /\ [x EXCEPT !.managed = FALSE] \in CP!ConfigMapObject
            /\ [x EXCEPT !.phase = "terminating"] \in CP!ConfigMapObject
    BY DEF CP!ConfigMapObject
  <1>3. \A x \in CP!ConnObject : /\ [x EXCEPT !.finalizer = FALSE] \in CP!ConnObject
                                 /\ x.life \in 0..MaxLives
    BY DEF CP!ConnObject
  <1>4. \A x \in SP!ClassObject : /\ [x EXCEPT !.finalizer = FALSE] \in SP!ClassObject
                                  /\ x.life \in 0..MaxClassLives
    BY DEF SP!ClassObject
  <1>5. /\ \A n : C!Gone(n) = CP!Gone(n)
        /\ \A n : S!Gone(n) = SP!Gone(n)
        /\ C!NoSecret = CP!NoSecret /\ C!NoConfigMap = CP!NoConfigMap /\ C!NoStatus = CP!NoStatus
    BY DEF C!Gone, CP!Gone, S!Gone, SP!Gone, C!NoSpec, CP!NoSpec, S!NoSpec, SP!NoSpec,
       C!NoSecret, CP!NoSecret, C!NoStatus, CP!NoStatus, C!NoConfigMap, CP!NoConfigMap,
       C!NoEntries, CP!NoEntries, C!NoEntry, CP!NoEntry, C!NoOwner, CP!NoOwner
  <1>6. \A x : /\ S!afterDelete(x, S!NoSC) = SP!afterDelete(x, SP!NoSC)
               /\ S!afterUnfinalize(x, S!NoSC) = SP!afterUnfinalize(x, SP!NoSC)
    BY DEF S!afterDelete, SP!afterDelete, S!afterUnfinalize, SP!afterUnfinalize, S!NoSC, SP!NoSC,
       S!NoSpec, SP!NoSpec, S!NoCid, SP!NoCid, S!NoOption, SP!NoOption
  <1>7. /\ \A n \in 0..MaxLives : CP!Gone(n) \in CP!ConnObject
        /\ \A n \in 0..MaxClassLives : SP!Gone(n) \in SP!ClassObject
    BY CP!GoneType, SP!GoneType, ConnectionAssumptions, ClassAssumptions
  <1>8. /\ CP!NoSecret \in CP!SecretObject /\ CP!NoConfigMap \in CP!ConfigMapObject
        /\ CP!NoStatus \in CP!StatusObject
    BY CP!NoSecretType, CP!NoConfigMapType, CP!NoStatusType, ConnectionAssumptions
  <1>9. \A x \in SP!SCObject : /\ SP!afterDelete(x, SP!NoSC) \in SP!SCObject
                               /\ SP!afterUnfinalize(x, SP!NoSC) \in SP!SCObject
    BY SP!AfterTypes, ClassAssumptions
  <1> QED
    BY <1>1, <1>2, <1>3, <1>4, <1>5, <1>6, <1>7, <1>8, <1>9

\* The hook's records: none, and one that begins.
LEMMA HookTypes ==
    /\ Len(Kinds) = 5
    /\ NoHook \in HookRecord /\ HookStart \in HookRecord
    /\ NoHook.kind = 0 /\ HookStart.kind = 1 /\ HookStart.listed = FALSE
    /\ HookStart.failed = FALSE
  <1>1. Len(Kinds) = 5
    BY DEF Kinds
  <1>3. 0 \in 0..Len(Kinds) /\ 1 \in 0..Len(Kinds)
    BY <1>1
  <1>4. NoHook \in HookRecord
    BY <1>3 DEF NoHook, HookRecord
  <1>5. HookStart \in HookRecord
    BY <1>3, <1>4 DEF HookRecord, HookStart
  <1>6. HookStart.kind = 1 /\ HookStart.listed = FALSE /\ HookStart.failed = FALSE
    BY <1>4 DEF HookRecord, HookStart, NoHook
  <1> QED
    BY <1>1, <1>4, <1>5, <1>6 DEF NoHook

\* The end of an installation, its namespace and its StorageClass keep the types.
LEMMA TypeStepHelm ==
    ASSUME Typed, UninstallHelm \/ DeleteNamespaced \/ DeleteStorageClass
    PROVE  Typed'
  <1>0. CP!TypeOK /\ SP!TypeOK
    BY DEF Typed
  <1>1. CASE UninstallHelm
    <2>1. C!NoPass \in CP!PassRecord /\ S!NoPass \in SP!PassRecord
      <3>1. C!NoPass = CP!NoPass /\ S!NoPass = SP!NoPass
        BY DEF C!NoPass, CP!NoPass, S!NoPass, SP!NoPass, C!Gone, CP!Gone, S!Gone, SP!Gone,
           C!NoSpec, CP!NoSpec, S!NoSpec, SP!NoSpec, S!NoSC, SP!NoSC, S!NoVSC, SP!NoVSC,
           S!NoCid, SP!NoCid, S!NoOption, SP!NoOption
      <3> QED
        BY <3>1, CP!NoPassType, SP!NoPassType, ConnectionAssumptions, ClassAssumptions
    <2>2. S!NoPass.copies \in SP!ServerRecord
      BY <2>1 DEF SP!PassRecord
    <2>3. C!Gone(0) \in CP!ConnObject
      <3>1. C!NoPass.obj \in CP!ConnObject
        BY <2>1 DEF CP!PassRecord
      <3> QED
        BY <3>1 DEF C!NoPass
    <2>4. CP!TypeOK'
      BY <1>0, <1>1, <2>1, <2>3, ReleasedTypes DEF UninstallHelm, CP!TypeOK
    <2>5. SP!TypeOK'
      BY <1>0, <1>1, <2>1, <2>2 DEF UninstallHelm, SP!TypeOK, cid
    <2>6. hook' \in HookRecord
      BY <1>1, HookTypes DEF UninstallHelm
    <2> QED
      BY <1>1, <2>4, <2>5, <2>6 DEF Typed, UninstallHelm
  <1>2. CASE DeleteNamespaced
    <2>1. cm \in CP!ConfigMapObject /\ secret \in [Conns -> CP!SecretObject]
      BY <1>0 DEF CP!TypeOK
    <2>2. cm' \in CP!ConfigMapObject
      BY <1>2, <2>1, ReleasedTypes DEF DeleteNamespaced
    <2>3. secret' \in [Conns -> CP!SecretObject]
      <3>1. CASE UNCHANGED secret
        BY <2>1, <3>1
      <3>2. ASSUME NEW c \in Conns,
                   secret' = [secret EXCEPT ![c] =
                       IF @.managed THEN [@ EXCEPT !.phase = "terminating"] ELSE C!NoSecret]
            PROVE  secret' \in [Conns -> CP!SecretObject]
        <4>1. secret[c] \in CP!SecretObject
          BY <2>1
        <4>2. secret'[c] \in CP!SecretObject
          BY <2>1, <3>2, <4>1, ReleasedTypes
        <4> QED
          BY <2>1, <3>2, <4>2
      <3> QED
        BY <1>2, <3>1, <3>2 DEF DeleteNamespaced
    <2> QED
      BY <1>0, <1>2, <2>2, <2>3 DEF DeleteNamespaced, Typed, CP!TypeOK, SP!TypeOK, classVars, cid
  <1>3. CASE DeleteStorageClass
    <2>1. sc' \in SP!SCObject
      BY <1>0, <1>3, ReleasedTypes DEF DeleteStorageClass, SP!TypeOK
    <2> QED
      BY <1>0, <1>3, <2>1 DEF DeleteStorageClass, Typed, CP!TypeOK, SP!TypeOK, connVars, cid
  <1> QED
    BY <1>1, <1>2, <1>3

\* The patch of one object keeps the types.
LEMMA PatchTypes ==
    ASSUME Typed, NEW kind, NEW n, removeFinalizersFromObject(kind, n)
    PROVE  /\ secret' \in [Conns -> CP!SecretObject] /\ cm' \in CP!ConfigMapObject
           /\ sc' \in SP!SCObject /\ conn' \in [Conns -> CP!ConnObject]
           /\ status' \in [Conns -> CP!StatusObject] /\ class' \in SP!ClassObject
  <1>0. /\ secret \in [Conns -> CP!SecretObject] /\ cm \in CP!ConfigMapObject
        /\ sc \in SP!SCObject /\ conn \in [Conns -> CP!ConnObject]
        /\ status \in [Conns -> CP!StatusObject] /\ class \in SP!ClassObject
    BY DEF Typed, CP!TypeOK, SP!TypeOK
  <1>1. secret' \in [Conns -> CP!SecretObject]
    BY <1>0, ReleasedTypes DEF removeFinalizersFromObject
  <1>2. conn' \in [Conns -> CP!ConnObject]
    BY <1>0, ReleasedTypes DEF removeFinalizersFromObject
  <1>3. cm' \in CP!ConfigMapObject /\ sc' \in SP!SCObject
    BY <1>0, ReleasedTypes DEF removeFinalizersFromObject
  <1>4. status' \in [Conns -> CP!StatusObject] /\ class' \in SP!ClassObject
    BY <1>0, ReleasedTypes DEF removeFinalizersFromObject
  <1> QED
    BY <1>1, <1>2, <1>3, <1>4

\* The hook keeps the types.
LEMMA TypeStepHook ==
    ASSUME Typed, HookWork
    PROVE  Typed'
  <1>0. CP!TypeOK /\ SP!TypeOK /\ hook \in HookRecord
    BY DEF Typed
  <1>1. CASE HookNext
    <2>1. hook.kind < Len(Kinds) =>
              [hook EXCEPT !.kind = @ + 1, !.listed = FALSE] \in HookRecord
      <3> SUFFICES ASSUME hook.kind < Len(Kinds)
                   PROVE  [hook EXCEPT !.kind = @ + 1, !.listed = FALSE] \in HookRecord
        OBVIOUS
      <3>1. hook.kind + 1 \in 0..Len(Kinds)
        BY <1>0, HookTypes DEF HookRecord
      <3> QED
        BY <1>0, <3>1 DEF HookRecord
    <2>2. hook' \in HookRecord /\ module' \in {"installed", "removing", "removed"}
      <3>1. CASE hook.kind < Len(Kinds)
        BY <1>1, <2>1, <3>1 DEF HookNext, Typed
      <3>2. CASE ~(hook.kind < Len(Kinds))
        <4>1. hook' \in {NoHook, HookStart} /\ module' \in {module, "removed"}
          BY <1>1, <3>2 DEF HookNext
        <4> QED
          BY <4>1, HookTypes DEF Typed
      <3> QED
        BY <3>1, <3>2
    <2> QED
      BY <1>0, <1>1, <2>2 DEF HookNext, Typed, CP!TypeOK, SP!TypeOK, connVars, classVars, cid
  <1>2. ASSUME NEW o \in C!Outcomes, HookList(o)
        PROVE  Typed'
    <2>1. faults' \in 0..MaxFaults
      BY <1>0, <1>2, BoundsAssumption DEF HookList, C!Spend, C!Fault, CP!TypeOK
    <2>2. hook.kind \in 1..5
      BY <1>0, <1>2 DEF HookList, HookRecord, Kinds
    <2>3. listed(Kinds[hook.kind]) \subseteq Names
      BY <2>2 DEF listed, present, Kinds, Names
    <2>4. hook' \in HookRecord
      BY <1>0, <1>2, <2>3 DEF HookList, HookRecord
    <2> QED
      BY <1>0, <1>2, <2>1, <2>4 DEF HookList, Typed, CP!TypeOK, SP!TypeOK, connVars, classVars, cid
  <1>3. ASSUME NEW n \in Names, NEW o \in C!Outcomes, HookPatch(n, o)
        PROVE  Typed'
    <2>1. faults' \in 0..MaxFaults
      BY <1>0, <1>3, BoundsAssumption DEF HookPatch, C!Spend, C!Fault, CP!TypeOK
    <2>2. hook' \in HookRecord
      BY <1>0, <1>3 DEF HookPatch, HookRecord, joined
    <2>3. /\ secret' \in [Conns -> CP!SecretObject] /\ cm' \in CP!ConfigMapObject
          /\ sc' \in SP!SCObject /\ conn' \in [Conns -> CP!ConnObject]
          /\ status' \in [Conns -> CP!StatusObject] /\ class' \in SP!ClassObject
      BY <1>0, <1>3, PatchTypes DEF HookPatch, CP!TypeOK, SP!TypeOK
    <2>4. CP!TypeOK'
      BY <1>0, <1>3, <2>1, <2>3 DEF HookPatch, CP!TypeOK
    <2>5. (cid \in ClusterIDs \cup {SP!NoCid})'
      BY <2>4, ClusterIDType, PTL
    <2> QED
      BY <1>0, <1>3, <2>1, <2>2, <2>3, <2>4, <2>5 DEF HookPatch, Typed, SP!TypeOK
  <1> QED
    BY <1>1, <1>2, <1>3 DEF HookWork

\* Every step keeps the types.
LEMMA TypeStep == Typed /\ [Next]_vars => Typed'
  <1> SUFFICES ASSUME Typed, [Next]_vars PROVE Typed'
    OBVIOUS
  <1>1. CASE UNCHANGED vars
    BY <1>1 DEF vars, connVars, classVars, Typed, CP!TypeOK, SP!TypeOK, cid
  <1>2. CASE Reinstall
    <2>1. CP!CrashRestart /\ SP!CrashRestart
      BY <1>2, ConnectionActions, ClassActions DEF Reinstall, Restart
    <2>2. CP!TypeOK'
      BY <2>1, CP!TypeStepReplicas, ConnectionAssumptions DEF Typed
    <2>3. SP!TypeOK'
      BY <2>1, SP!TypeStep, ClassAssumptions DEF SP!Next, Typed
    <2> QED
      BY <1>2, <2>2, <2>3 DEF Reinstall, Typed
  <1> QED
    BY <1>1, <1>2, TypeStepControllers, TypeStepHelm, TypeStepHook DEF Next, User

\* Every variable of the module and of its two controllers keeps its type, whatever the
\* module is on the way to.
THEOREM TypeCorrect == Spec => []TypeOK
  BY TypeInitially, TypeStep, TypedIs, PTL DEF Spec

-----------------------------------------------------------------------------
\* Teardown, over the absence of the module.

\* Where the hook is, and that it never reaches a CephStorageClass.
HookShape ==
    /\ module # "removing" => hook = NoHook
    /\ module = "removing" => hook.kind \in 1..5
    /\ hook.kind = 5 => hook.todo = {}

\* What holds of the objects whether the module is there or not, and the invariants of
\* the controllers while it is.
ModuleShapes ==
    /\ CP!ConnShape /\ SP!ObjectShape /\ SP!Held
    /\ module = "installed" => CP!TeardownShapes /\ SP!TeardownShapes

OrphansInv == Typed /\ HookShape /\ ModuleShapes

\* What carries no finalizer when it is gone.
AbsentShape ==
    /\ \A c \in Conns : secret[c].phase = "absent" => ~secret[c].managed
    /\ cm.phase = "absent" => ~cm.managed

\* The objects of a kind that are held by a finalizer the hook takes off.
Unreleased(kind) ==
    CASE kind = "Secret" -> {c \in Conns : secret[c].managed}
      [] kind = "ConfigMap" -> {n \in {"ceph-csi-config"} : cm.managed}
      [] kind = "StorageClass" -> {n \in {"class"} : sc.finalizer}
      [] kind = "CephClusterConnection" -> {c \in Conns : conn[c].finalizer}
      [] kind = "CephStorageClass" -> {}

\* What a hook without an error has done by the kind it is at.
Release ==
    /\ module = "removing" /\ ~hook.failed =>
          \A k \in 1..5 :
              /\ k < hook.kind => Unreleased(Kinds[k]) = {}
              /\ k = hook.kind /\ hook.listed => Unreleased(Kinds[k]) \subseteq hook.todo
    /\ module = "removed" => \A k \in 1..5 : Unreleased(Kinds[k]) = {}

ReleaseInv == OrphansInv /\ AbsentShape /\ Release

\* The module starts in these shapes.
LEMMA ShapesInitially == Init => HookShape /\ ModuleShapes /\ AbsentShape /\ Release
  <1> SUFFICES ASSUME Init PROVE HookShape /\ ModuleShapes /\ AbsentShape /\ Release
    OBVIOUS
  <1>1. CP!TeardownShapes
    BY CP!TeardownInitially, ConnectionAssumptions, ConnectionActions DEF Init
  <1>2. SP!TeardownShapes
    BY SP!TeardownInitially, ClassAssumptions, ClassInitially DEF Init
  <1>3. HookShape
    BY DEF Init, HookShape, NoHook
  <1>4. ModuleShapes
    BY <1>1, <1>2 DEF ModuleShapes, CP!TeardownShapes, SP!TeardownShapes
  <1>5. AbsentShape
    BY DEF AbsentShape, Init, C!Init, C!NoSecret, C!EmptyConfigMap, C!NoConfigMap
  <1> QED
    BY <1>3, <1>4, <1>5 DEF Init, Release

\* What the class controller sees of a step of the connection's keeps its shapes.
LEMMA ClassSeesShapes ==
    ASSUME Typed, SP!TeardownShapes, ClassSees
    PROVE  SP!TeardownShapes'
  <1>1. CASE cid' = cid
    BY <1>1 DEF ClassSees, SP!TeardownShapes, SP!ObjectShape, SP!CacheShape, SP!PassShape,
       SP!Overlooked, SP!TeardownShape, SP!Held, SP!OwnsSC, SP!OwnsVSC, SP!Deleting, SP!obj,
       SP!oldSC, SP!oldVSClass, SP!mineVSC
  <1>2. CASE cid' # cid
    <2>1. SP!Outdates("cid") /\ UNCHANGED <<class, sc, vsc, crd, seen>>
      BY <1>2 DEF ClassSees, SP!Outdates
    <2>2. /\ SP!OwnsSC' = SP!OwnsSC /\ SP!OwnsVSC' = SP!OwnsVSC
          /\ sc'.finalizer => sc.finalizer /\ SP!OwnsSC
          /\ vsc'.finalizer => vsc.finalizer /\ SP!OwnsVSC
      BY <2>1 DEF SP!OwnsSC, SP!OwnsVSC, SP!TeardownShapes, SP!ObjectShape
    <2> QED
      BY <2>1, <2>2, SP!TeardownMeddle, ClassAssumptions DEF Typed
  <1> QED
    BY <1>1, <1>2

\* The shapes of the connection controller are about its variables alone.
LEMMA ConnectionFrame ==
    ASSUME CP!TeardownShapes, UNCHANGED connVars
    PROVE  CP!TeardownShapes'
  BY DEF connVars, CP!TeardownShapes, CP!ConnShape, CP!CMShape, CP!CacheShape, CP!PassShape,
     CP!TeardownShape, CP!Owned, CP!Deleting

\* The pass of the connection controller keeps its shapes.
LEMMA ConnectionWorkShapes ==
    ASSUME CP!TypeOK, CP!TeardownShapes, CP!Work
    PROVE  CP!TeardownShapes'
  BY CP!TeardownStepFinalizer, CP!TeardownStepConfigMap, CP!TeardownStepSecret,
     CP!TeardownStepDeleteSecret, CP!TeardownStepRelease, CP!TeardownStepStatus,
     ConnectionAssumptions
  DEF CP!Work

\* The pass of the class controller keeps its shapes.
LEMMA ClassWorkShapes ==
    ASSUME SP!TypeOK, SP!TeardownShapes, SP!Work
    PROVE  SP!TeardownShapes'
  <1>1. SP!TeardownInv /\ SP!Next
    BY DEF SP!TeardownInv, SP!Next
  <1>2. SP!TeardownInv'
    BY <1>1, SP!TeardownStep, ClassAssumptions
  <1> QED
    BY <1>2 DEF SP!TeardownInv

\* The steps of an installed module's controllers keep the shapes.
LEMMA ShapesStepControllers ==
    ASSUME OrphansInv, Controllers
    PROVE  HookShape' /\ ModuleShapes'
  <1>0. /\ CP!TypeOK /\ SP!TypeOK /\ Typed
        /\ module = "installed" /\ UNCHANGED <<module, hook>>
        /\ CP!TeardownShapes /\ SP!TeardownShapes
    BY DEF OrphansInv, Typed, ModuleShapes, Controllers, ConnectionSync, ConnectionStart,
       ConnectionWork, ClassSync, ClassStart, ClassWork, CrashRestart, ConnectionStep, ClassStep
  <1>1. CP!TeardownShapes' /\ SP!TeardownShapes'
    <2>1. CASE ConnectionSync \/ ConnectionStart \/ ConnectionWork
      <3>1. ClassSees /\ (CP!Sync \/ CP!Work \/ \E c \in Conns : CP!StartReconcile(c))
        BY <2>1, ConnectionActions DEF ConnectionSync, ConnectionStart, ConnectionWork, ConnectionStep
      <3>2. CP!TeardownShapes'
        BY <1>0, <3>1, CP!TeardownStepSync, CP!TeardownStepStart, ConnectionWorkShapes,
           ConnectionAssumptions
      <3> QED
        BY <1>0, <3>1, <3>2, ClassSeesShapes
    <2>2. CASE ClassSync \/ ClassStart \/ ClassWork
      <3>1. UNCHANGED connVars /\ (SP!Start \/ SP!Work \/ \E part \in SP!Parts : SP!Sync(part))
        BY <2>2, ClassActions DEF ClassSync, ClassStart, ClassWork, ClassStep
      <3>2. SP!TeardownShapes'
        BY <1>0, <3>1, SP!TeardownStepSync, SP!TeardownStepStart, ClassWorkShapes,
           ClassAssumptions
      <3> QED
        BY <1>0, <3>1, <3>2, ConnectionFrame
    <2>3. CASE CrashRestart
      <3>1. CP!CrashRestart /\ SP!CrashRestart
        BY <2>3, ConnectionActions, ClassActions DEF CrashRestart, Restart
      <3> QED
        BY <1>0, <3>1, CP!TeardownStepReplicas, SP!TeardownStepRestart, ConnectionAssumptions,
           ClassAssumptions
    <2> QED
      BY <2>1, <2>2, <2>3 DEF Controllers
  <1> QED
    BY <1>0, <1>1 DEF OrphansInv, HookShape, ModuleShapes, CP!TeardownShapes, SP!TeardownShapes

\* Users keep the shapes, whether the module is there or not.
LEMMA ShapesStepUser ==
    ASSUME OrphansInv, UserOfConnections \/ UserOfClasses
    PROVE  HookShape' /\ ModuleShapes'
  <1>0. /\ CP!TypeOK /\ SP!TypeOK /\ Typed
        /\ UNCHANGED <<module, hook>>
        /\ CP!ConnShape /\ SP!ObjectShape /\ SP!Held
    BY DEF OrphansInv, Typed, ModuleShapes, UserOfConnections, UserOfClasses
  <1>1. CASE UserOfConnections
    <2>1. ClassSees /\ CP!User
      BY <1>1, ConnectionActions DEF UserOfConnections, CP!User
    <2>2. CP!ConnShape'
      <3>0. conn \in [Conns -> CP!ConnObject]
        BY <1>0 DEF CP!TypeOK
      <3>1. PICK c \in Conns : \E new :
                /\ conn' = [conn EXCEPT ![c] = new]
                /\ new.phase = "absent" => ~new.finalizer
                /\ new.phase = "deleting" => new.finalizer
        <4>1. PICK c \in Conns : C!CreateConnection(c) \/ C!EditConnection(c) \/ C!DeleteConnection(c)
          BY <1>1 DEF UserOfConnections
        <4>2. conn[c] \in CP!ConnObject
          BY <3>0
        <4>3. CASE C!CreateConnection(c)
          <5>1. PICK s : conn' = [conn EXCEPT ![c] =
                            [phase |-> "live", life |-> conn[c].life + 1, gen |-> 1,
                             spec |-> s, finalizer |-> FALSE]]
            BY <4>3 DEF C!CreateConnection, C!UserWritesConn
          <5> DEFINE new == [phase |-> "live", life |-> conn[c].life + 1, gen |-> 1,
                             spec |-> s, finalizer |-> FALSE]
          <5>2. new.phase = "live"
            OBVIOUS
          <5> QED
            BY <5>1, <5>2
        <4>4. CASE C!EditConnection(c)
          <5>1. PICK s : conn' = [conn EXCEPT ![c] = [conn[c] EXCEPT !.gen = @ + 1, !.spec = s]]
            BY <4>4 DEF C!EditConnection, C!UserWritesConn
          <5> DEFINE new == [conn[c] EXCEPT !.gen = @ + 1, !.spec = s]
          <5>2. new.phase = "live"
            BY <4>2, <4>4 DEF C!EditConnection, CP!ConnObject
          <5> QED
            BY <5>1, <5>2
        <4>5. CASE C!DeleteConnection(c)
          <5>1. CASE conn[c].finalizer
            <6> DEFINE new == [conn[c] EXCEPT !.phase = "deleting"]
            <6>1. new.phase = "deleting" /\ new.finalizer
              BY <4>2, <5>1 DEF CP!ConnObject
            <6>2. conn' = [conn EXCEPT ![c] = new]
              BY <4>5, <5>1 DEF C!DeleteConnection, C!UserWritesConn
            <6> QED
              BY <6>1, <6>2
          <5>2. CASE ~conn[c].finalizer
            <6>1. ~C!Gone(conn[c].life).finalizer /\ C!Gone(conn[c].life).phase = "absent"
              BY DEF C!Gone
            <6> QED
              BY <4>5, <5>2, <6>1 DEF C!DeleteConnection, C!UserWritesConn
          <5> QED
            BY <5>1, <5>2
        <4> QED
          BY <4>1, <4>3, <4>4, <4>5
      <3> QED
        BY <1>0, <3>0, <3>1 DEF CP!ConnShape
    <2>3. SP!ObjectShape' /\ SP!Held'
      BY <1>0, <2>1 DEF ClassSees, SP!ObjectShape, SP!Held, SP!OwnsSC, SP!OwnsVSC
    <2>4. CASE module = "installed"
      <3>1. CP!TeardownShapes /\ SP!TeardownShapes
        BY <2>4 DEF OrphansInv, ModuleShapes
      <3>2. CP!TeardownShapes'
        BY <1>0, <2>1, <3>1, CP!TeardownStepUser, ConnectionAssumptions
      <3>3. SP!TeardownShapes'
        BY <1>0, <2>1, <3>1, ClassSeesShapes
      <3> QED
        BY <1>0, <2>2, <2>3, <3>2, <3>3 DEF OrphansInv, HookShape, ModuleShapes
    <2> QED
      BY <1>0, <2>2, <2>3, <2>4 DEF OrphansInv, HookShape, ModuleShapes
  <1>2. CASE UserOfClasses
    <2>1. UNCHANGED connVars /\ SP!User
      BY <1>2, ClassActions DEF UserOfClasses, SP!User
    <2>2. CP!ConnShape'
      BY <1>0, <2>1 DEF connVars, CP!ConnShape
    <2>3. SP!ObjectShape' /\ SP!Held'
      <3>1. /\ class'.finalizer = class.finalizer \/ (class.phase = "live" /\ ~class.finalizer /\ ~class'.finalizer)
            /\ class'.phase = "absent" => ~class'.finalizer
            /\ class'.phase = "deleting" => class'.finalizer
        <4>0. class \in SP!ClassObject
          BY <1>0 DEF SP!TypeOK
        <4>1. CASE S!CreateClass
          <5>1. PICK s : class' = [S!Gone(class.life + 1) EXCEPT !.phase = "live", !.gen = 1, !.spec = s]
            BY <4>1 DEF S!CreateClass, S!UserWritesClass
          <5>2. class'.phase = "live" /\ class'.finalizer = FALSE
            BY <5>1 DEF S!Gone
          <5>3. class.finalizer = FALSE
            BY <1>0, <4>0, <4>1 DEF S!CreateClass, SP!ObjectShape, SP!ClassObject
          <5> QED
            BY <5>2, <5>3
        <4>2. CASE S!DeleteClass
          BY <4>0, <4>2 DEF S!DeleteClass, S!UserWritesClass, S!Gone, SP!ClassObject
        <4> QED
          BY <1>2, <4>1, <4>2 DEF UserOfClasses
      <3>2. UNCHANGED <<sc, vsc, crd>>
        BY <1>2 DEF UserOfClasses, S!CreateClass, S!DeleteClass, S!UserWritesClass
      <3> QED
        BY <1>0, <3>1, <3>2 DEF SP!ObjectShape, SP!Held, SP!OwnsSC, SP!OwnsVSC
    <2>4. CASE module = "installed"
      <3>1. CP!TeardownShapes /\ SP!TeardownShapes
        BY <2>4 DEF OrphansInv, ModuleShapes
      <3>2. SP!TeardownShapes'
        BY <1>0, <2>1, <3>1, SP!TeardownStepUser, ClassAssumptions
      <3>3. CP!TeardownShapes'
        BY <2>1, <3>1, ConnectionFrame
      <3> QED
        BY <1>0, <2>2, <2>3, <3>2, <3>3 DEF OrphansInv, HookShape, ModuleShapes
    <2> QED
      BY <1>0, <2>2, <2>3, <2>4 DEF OrphansInv, HookShape, ModuleShapes
  <1> QED
    BY <1>1, <1>2

\* The end of an installation keeps what holds without one.
LEMMA ShapesStepHelm ==
    ASSUME OrphansInv, UninstallHelm \/ DeleteNamespaced \/ DeleteStorageClass
    PROVE  HookShape' /\ ModuleShapes'
  <1>0. CP!ConnShape /\ SP!ObjectShape /\ SP!Held /\ HookShape /\ sc \in SP!SCObject
    BY DEF OrphansInv, ModuleShapes, Typed, SP!TypeOK
  <1>1. module' # "installed" /\ UNCHANGED <<conn, class, vsc, crd>>
    BY DEF UninstallHelm, DeleteNamespaced, DeleteStorageClass, connVars, classVars
  <1>2. HookShape'
    BY <1>0, HookTypes DEF HookShape, UninstallHelm, DeleteNamespaced, DeleteStorageClass
  <1>3. UNCHANGED sc \/ (sc.phase = "live" /\ sc' = S!afterDelete(sc, S!NoSC))
    BY DEF UninstallHelm, DeleteNamespaced, DeleteStorageClass, classVars
  <1>4. /\ SP!OwnsSC' => SP!OwnsSC
        /\ sc'.finalizer => SP!OwnsSC'
    BY <1>0, <1>3 DEF S!afterDelete, S!NoSC, SP!OwnsSC, SP!ObjectShape, SP!SCObject
  <1> QED
    BY <1>0, <1>1, <1>2, <1>4 DEF ModuleShapes, CP!ConnShape, SP!ObjectShape, SP!Held, SP!OwnsVSC

\* The hook keeps the shapes: it takes no CephStorageClass on.
LEMMA ShapesStepHook ==
    ASSUME OrphansInv, HookWork
    PROVE  HookShape' /\ ModuleShapes'
  <1>0. /\ CP!ConnShape /\ SP!ObjectShape /\ SP!Held /\ HookShape /\ sc \in SP!SCObject
        /\ hook \in HookRecord /\ conn \in [Conns -> CP!ConnObject]
    BY DEF OrphansInv, ModuleShapes, Typed, SP!TypeOK, CP!TypeOK
  <1>1. CASE HookNext
    <2>1. module = "removing" /\ hook.kind \in 1..5
      BY <1>0, <1>1 DEF HookNext, HookShape, NoHook
    <2>2. /\ UNCHANGED <<conn, class, sc, vsc, crd>>
          /\ \/ hook' = [hook EXCEPT !.kind = @ + 1, !.listed = FALSE] /\ module' = module
                /\ hook.kind < 5 /\ hook.todo = {}
             \/ hook' = HookStart /\ module' = module
             \/ hook' = NoHook /\ module' = "removed"
      BY <1>1, HookTypes DEF HookNext, connVars, classVars
    <2>3. HookShape'
      <3>1. CASE hook' = [hook EXCEPT !.kind = @ + 1, !.listed = FALSE] /\ module' = module
                 /\ hook.kind < 5 /\ hook.todo = {}
        <4>1. hook'.kind = hook.kind + 1 /\ hook'.todo = {}
          BY <1>0, <3>1 DEF HookRecord
        <4>2. hook'.kind \in 1..5
          BY <2>1, <3>1, <4>1
        <4> QED
          BY <2>1, <3>1, <4>1, <4>2 DEF HookShape
      <3>2. CASE hook' = HookStart /\ module' = module
        BY <2>1, <3>2, HookTypes DEF HookShape
      <3>3. CASE hook' = NoHook /\ module' = "removed"
        BY <3>3, HookTypes DEF HookShape
      <3> QED
        BY <2>2, <3>1, <3>2, <3>3
    <2> QED
      BY <1>0, <2>1, <2>2, <2>3 DEF ModuleShapes, CP!ConnShape, SP!ObjectShape, SP!Held,
         SP!OwnsSC, SP!OwnsVSC
  <1>2. ASSUME NEW o \in C!Outcomes, HookList(o)
        PROVE  HookShape' /\ ModuleShapes'
    <2>1. module = "removing" /\ hook.kind \in 1..5
      BY <1>0, <1>2 DEF HookList, HookShape, NoHook
    <2>2. UNCHANGED <<conn, class, sc, vsc, crd, module>>
      BY <1>2 DEF HookList, connVars, classVars
    <2>3. hook'.kind = hook.kind /\ (hook.kind = 5 => hook'.todo = {})
      <3>1. hook.kind = 5 => Kinds[hook.kind] = "CephStorageClass"
        BY DEF Kinds
      <3> QED
        BY <1>0, <1>2, <3>1 DEF HookList, HookRecord, isCustom, CRGVKsForFinalizerRemoval
    <2> QED
      BY <1>0, <2>1, <2>2, <2>3 DEF HookShape, ModuleShapes, CP!ConnShape, SP!ObjectShape, SP!Held,
         SP!OwnsSC, SP!OwnsVSC
  <1>3. ASSUME NEW n \in Names, NEW o \in C!Outcomes, HookPatch(n, o)
        PROVE  HookShape' /\ ModuleShapes'
    <2>1. module = "removing" /\ hook.kind \in 1..4 /\ n \in hook.todo
      BY <1>0, <1>3 DEF HookPatch, HookShape, NoHook
    <2>2. UNCHANGED <<vsc, crd, module>> /\ hook'.kind = hook.kind
      BY <1>0, <1>3 DEF HookPatch, HookRecord
    <2>3. \/ UNCHANGED <<conn, class, sc>>
          \/ removeFinalizersFromObject(Kinds[hook.kind], n)
      BY <1>3 DEF HookPatch
    <2>4. class' = class
      <3>1. Kinds[hook.kind] # "CephStorageClass"
        BY <2>1 DEF Kinds
      <3> QED
        BY <2>3, <3>1 DEF removeFinalizersFromObject
    <2>5. /\ SP!OwnsSC' => SP!OwnsSC
          /\ sc'.finalizer => SP!OwnsSC'
      BY <1>0, <2>3 DEF removeFinalizersFromObject, S!afterUnfinalize, S!NoSC, SP!OwnsSC,
         SP!ObjectShape, SP!SCObject
    <2>6. CP!ConnShape'
      BY <1>0, <2>3 DEF removeFinalizersFromObject, C!Gone, CP!ConnShape, CP!ConnObject
    <2>7. HookShape'
      BY <2>1, <2>2 DEF HookShape
    <2> QED
      BY <1>0, <2>1, <2>2, <2>4, <2>5, <2>6, <2>7
      DEF ModuleShapes, SP!ObjectShape, SP!Held, SP!OwnsVSC
  <1> QED
    BY <1>1, <1>2, <1>3 DEF HookWork

\* The controllers of a module that comes back start from the shapes: what they made
\* for a connection is gone with the namespace.
LEMMA ShapesStepReinstall ==
    ASSUME OrphansInv, Reinstall
    PROVE  HookShape' /\ ModuleShapes'
  <1>0. CP!ConnShape /\ SP!ObjectShape /\ SP!Held /\ HookShape /\ module = "removed"
    BY DEF OrphansInv, ModuleShapes, Reinstall
  <1>1. /\ CP!CrashRestart /\ SP!CrashRestart /\ module' = "installed" /\ hook' = hook
        /\ cm.phase = "absent" /\ \A c \in Conns : secret[c].phase = "absent"
    BY ConnectionActions, ClassActions DEF Reinstall, Restart
  <1>2. HookShape'
    BY <1>0, <1>1, HookTypes DEF HookShape
  <1>3. CP!TeardownShapes'
    <2>1. cm'.phase = "live" /\ \A k \in ClusterIDs : cm'.entries[k].owner = CP!NoOwner
      BY <1>1 DEF CP!CrashRestart, CP!EnsureConfigMapExists, CP!EmptyConfigMap, CP!NoConfigMap,
         CP!NoEntries, CP!NoEntry
    <2>2. CP!ConnShape'
      BY <1>0, <1>1 DEF CP!ConnShape, CP!CrashRestart
    <2>3. CP!CMShape'
      BY <2>1, NamesAssumption DEF CP!CMShape, CP!NoOwner
    <2>4. CP!Owned'
      <3>1. \A c \in Conns : c # CP!NoOwner
        BY NamesAssumption DEF CP!NoOwner
      <3>2. UNCHANGED secret
        BY <1>1 DEF CP!CrashRestart
      <3> QED
        BY <1>1, <2>1, <3>1, <3>2 DEF CP!Owned
    <2>5. CP!CacheShape'
      BY <1>1 DEF CP!CacheShape, CP!CrashRestart
    <2>6. CP!PassShape' /\ CP!TeardownShape'
      <3>1. cpass'.step = "idle"
        BY <1>1 DEF CP!CrashRestart, CP!NoPass
      <3> QED
        BY <3>1 DEF CP!PassShape, CP!TeardownShape, CP!Past
    <2> QED
      BY <2>2, <2>3, <2>4, <2>5, <2>6 DEF CP!TeardownShapes
  <1>4. SP!TeardownShapes'
    <2>1. UNCHANGED <<class, sc, vsc, crd>> /\ seen' = SP!server
      BY <1>1 DEF SP!CrashRestart
    <2>2. SP!ObjectShape' /\ SP!Held'
      BY <1>0, <2>1 DEF SP!ObjectShape, SP!Held, SP!OwnsSC, SP!OwnsVSC
    <2>3. SP!CacheShape'
      BY <2>1 DEF SP!CacheShape, SP!server
    <2>4. SP!PassShape' /\ SP!Overlooked' /\ SP!TeardownShape'
      <3>1. spass'.step = "idle" /\ spass'.mapped = FALSE
        BY <1>1 DEF SP!CrashRestart, SP!NoPass
      <3> QED
        BY <3>1 DEF SP!PassShape, SP!Overlooked, SP!TeardownShape, SP!Past, SP!Teardown, SP!Live
    <2> QED
      BY <2>2, <2>3, <2>4 DEF SP!TeardownShapes
  <1> QED
    BY <1>1, <1>2, <1>3, <1>4 DEF ModuleShapes, CP!TeardownShapes, SP!TeardownShapes

\* Every step keeps the shapes.
LEMMA OrphansStep == OrphansInv /\ [Next]_vars => OrphansInv'
  <1> SUFFICES ASSUME OrphansInv, [Next]_vars PROVE OrphansInv'
    OBVIOUS
  <1>1. Typed'
    BY TypeStep DEF OrphansInv
  <1>2. CASE UNCHANGED vars
    <2>1. HookShape'
      BY <1>2 DEF OrphansInv, HookShape, vars
    <2>2. CP!ConnShape' /\ SP!ObjectShape' /\ SP!Held'
      BY <1>2 DEF OrphansInv, ModuleShapes, vars, connVars, classVars, CP!ConnShape,
         SP!ObjectShape, SP!Held, SP!OwnsSC, SP!OwnsVSC
    <2>3. module = "installed" => CP!TeardownShapes' /\ SP!TeardownShapes'
      BY <1>2, ConnectionFrame, ClassSeesShapes
      DEF OrphansInv, ModuleShapes, vars, classVars, connVars, ClassSees, cid
    <2> QED
      BY <1>1, <1>2, <2>1, <2>2, <2>3 DEF OrphansInv, ModuleShapes, vars
  <1>3. CASE Next
    <2>1. HookShape' /\ ModuleShapes'
      BY <1>3, ShapesStepControllers, ShapesStepUser, ShapesStepHelm, ShapesStepHook,
         ShapesStepReinstall
      DEF Next, User
    <2> QED
      BY <1>1, <2>1 DEF OrphansInv
  <1> QED
    BY <1>2, <1>3

\* Nothing a controller made is left without the resource it was made for when the module
\* is installed, or installed again after resources were deleted while it was away, for any
\* number of connections.
THEOREM NothingLeftBehind == Spec => []NoOrphans
  <1>1. Init => OrphansInv
    BY TypeInitially, ShapesInitially DEF OrphansInv
  <1>2. OrphansInv => NoOrphans
    <2> SUFFICES ASSUME OrphansInv, module = "installed" PROVE C!NoOrphans /\ S!NoOrphans
      BY DEF NoOrphans
    <2>1. CP!TeardownShapes /\ SP!TeardownShapes
      BY DEF OrphansInv, ModuleShapes
    <2>2. CP!NoOrphans
      BY <2>1, CP!NothingOwned, ConnectionAssumptions DEF OrphansInv, Typed, CP!TeardownInv
    <2>3. SP!NoOrphans
      BY <2>1 DEF SP!TeardownShapes, SP!Held, SP!NoOrphans, SP!owned, SP!OwnsSC, SP!OwnsVSC
    <2> QED
      BY <2>2, <2>3, ConnectionActions, ClassActions
  <1> QED
    BY <1>1, <1>2, OrphansStep, PTL DEF Spec

\* Nobody puts a finalizer on what has none while the module is away, and what is gone
\* carries none.
LEMMA AwayStep ==
    ASSUME OrphansInv, AbsentShape, module # "installed",
           UserOfConnections \/ UserOfClasses \/ DeleteNamespaced \/ DeleteStorageClass
    PROVE  /\ AbsentShape'
           /\ \A k \in 1..5 : Unreleased(Kinds[k])' \subseteq Unreleased(Kinds[k])
  <1>0. /\ conn \in [Conns -> CP!ConnObject] /\ secret \in [Conns -> CP!SecretObject]
        /\ cm \in CP!ConfigMapObject /\ sc \in SP!SCObject /\ SP!ObjectShape /\ CP!ConnShape
    BY DEF OrphansInv, ModuleShapes, Typed, CP!TypeOK, SP!TypeOK
  <1>1. \A c \in Conns : conn'[c].finalizer => conn[c].finalizer
    <2>1. CASE UNCHANGED conn
      BY <2>1
    <2>2. ASSUME NEW d \in Conns, C!CreateConnection(d)
          PROVE  \A c \in Conns : conn'[c].finalizer => conn[c].finalizer
      BY <1>0, <2>2 DEF C!CreateConnection, C!UserWritesConn
    <2>3. ASSUME NEW d \in Conns, C!EditConnection(d)
          PROVE  \A c \in Conns : conn'[c].finalizer => conn[c].finalizer
      BY <1>0, <2>3 DEF C!EditConnection, C!UserWritesConn, CP!ConnObject
    <2>4. ASSUME NEW d \in Conns, C!DeleteConnection(d)
          PROVE  \A c \in Conns : conn'[c].finalizer => conn[c].finalizer
      BY <1>0, <2>4 DEF C!DeleteConnection, C!UserWritesConn, CP!ConnObject, C!Gone
    <2> QED
      BY <2>1, <2>2, <2>3, <2>4
      DEF UserOfConnections, UserOfClasses, DeleteNamespaced, DeleteStorageClass, connVars
  <1>2. /\ \A c \in Conns : secret'[c].managed => secret[c].managed
        /\ \A c \in Conns : secret'[c].phase = "absent" => ~secret'[c].managed
    <2>1. CASE UNCHANGED secret
      BY <2>1 DEF AbsentShape
    <2>2. CASE ~UNCHANGED secret
      <3>1. PICK d \in Conns : secret' = [secret EXCEPT ![d] =
                IF @.managed THEN [@ EXCEPT !.phase = "terminating"] ELSE C!NoSecret]
        BY <2>2 DEF UserOfConnections, UserOfClasses, DeleteNamespaced, DeleteStorageClass, connVars,
           C!CreateConnection, C!EditConnection, C!DeleteConnection, C!UserWritesConn
      <3>2. \A c \in Conns : c # d => secret'[c] = secret[c]
        BY <1>0, <3>1
      <3>3. CASE secret[d].managed
        BY <1>0, <3>1, <3>2, <3>3 DEF AbsentShape, CP!SecretObject
      <3>4. CASE ~secret[d].managed
        <4>1. secret'[d] = C!NoSecret
          BY <1>0, <3>1, <3>4
        <4> QED
          BY <3>2, <4>1 DEF AbsentShape, C!NoSecret
      <3> QED
        BY <3>3, <3>4
    <2> QED
      BY <2>1, <2>2
  <1>3. (cm'.managed => cm.managed) /\ (cm'.phase = "absent" => ~cm'.managed)
    <2>1. \/ UNCHANGED cm
          \/ cm' = IF cm.managed THEN [cm EXCEPT !.phase = "terminating"] ELSE C!NoConfigMap
      BY DEF UserOfConnections, UserOfClasses, DeleteNamespaced, DeleteStorageClass, connVars,
         C!CreateConnection, C!EditConnection, C!DeleteConnection, C!UserWritesConn
    <2> QED
      BY <1>0, <2>1 DEF AbsentShape, C!NoConfigMap, CP!ConfigMapObject
  <1>4. sc'.finalizer => sc.finalizer
    <2>1. UNCHANGED sc \/ sc' = S!afterDelete(sc, S!NoSC)
      BY DEF UserOfConnections, UserOfClasses, DeleteNamespaced, DeleteStorageClass, classVars,
         ClassSees, S!CreateClass, S!DeleteClass, S!UserWritesClass
    <2> QED
      BY <1>0, <2>1 DEF S!afterDelete, S!NoSC, SP!SCObject
  <1> QED
    BY <1>1, <1>2, <1>3, <1>4 DEF AbsentShape, Unreleased, Kinds

\* The patch of one object takes its finalizer off and puts none on.
LEMMA PatchReleases ==
    ASSUME OrphansInv, AbsentShape, NEW k \in 1..5, NEW n,
           removeFinalizersFromObject(Kinds[k], n)
    PROVE  /\ AbsentShape'
           /\ \A j \in 1..5 : Unreleased(Kinds[j])' \subseteq Unreleased(Kinds[j])
           /\ n \notin Unreleased(Kinds[k])'
  <1> DEFINE kind == Kinds[k]
  <1>0. /\ conn \in [Conns -> CP!ConnObject] /\ secret \in [Conns -> CP!SecretObject]
        /\ cm \in CP!ConfigMapObject /\ sc \in SP!SCObject /\ SP!ObjectShape
    BY DEF OrphansInv, ModuleShapes, Typed, CP!TypeOK, SP!TypeOK
  <1>1. kind \in {"Secret", "ConfigMap", "StorageClass", "CephClusterConnection",
                  "CephStorageClass"}
    BY DEF Kinds
  <1>2. /\ \A c \in Conns : secret'[c].managed => secret[c].managed /\ (kind = "Secret" => c # n)
        /\ \A c \in Conns : secret'[c].phase = "absent" => ~secret'[c].managed
    <2>1. CASE kind # "Secret"
      BY <2>1 DEF removeFinalizersFromObject, AbsentShape
    <2>2. CASE kind = "Secret"
      <3>1. \A c \in Conns : c # n => secret'[c] = secret[c]
        BY <1>0, <2>2 DEF removeFinalizersFromObject
      <3>2. n \in Conns => ~secret'[n].managed
        <4>1. n \in Conns => secret'[n] = C!NoSecret \/ secret'[n] = [secret[n] EXCEPT !.managed = FALSE]
          BY <1>0, <2>2 DEF removeFinalizersFromObject
        <4> QED
          BY <1>0, <4>1 DEF C!NoSecret, CP!SecretObject
      <3> QED
        BY <2>2, <3>1, <3>2 DEF AbsentShape
    <2> QED
      BY <2>1, <2>2
  <1>3. /\ cm'.managed => cm.managed /\ kind # "ConfigMap"
        /\ cm'.phase = "absent" => ~cm'.managed
    <2>1. IF kind # "ConfigMap" THEN cm' = cm
          ELSE cm' = C!NoConfigMap \/ cm' = [cm EXCEPT !.managed = FALSE]
      BY DEF removeFinalizersFromObject
    <2> QED
      BY <1>0, <2>1 DEF C!NoConfigMap, CP!ConfigMapObject, AbsentShape
  <1>4. sc'.finalizer => sc.finalizer /\ kind # "StorageClass"
    <2>1. IF kind # "StorageClass" THEN sc' = sc
          ELSE sc' = S!NoSC \/ sc' = [sc EXCEPT !.finalizer = FALSE]
      BY DEF removeFinalizersFromObject, S!afterUnfinalize
    <2> QED
      BY <1>0, <2>1 DEF S!NoSC, SP!SCObject
  <1>5. \A c \in Conns : conn'[c].finalizer =>
            conn[c].finalizer /\ (kind = "CephClusterConnection" => c # n)
    <2>1. CASE kind # "CephClusterConnection"
      BY <2>1 DEF removeFinalizersFromObject
    <2>2. CASE kind = "CephClusterConnection"
      <3>1. \A c \in Conns : c # n => conn'[c] = conn[c]
        BY <1>0, <2>2 DEF removeFinalizersFromObject
      <3>2. n \in Conns => ~conn'[n].finalizer
        <4>1. n \in Conns => \/ conn'[n] = C!Gone(conn[n].life)
                             \/ conn'[n] = [conn[n] EXCEPT !.finalizer = FALSE]
          BY <1>0, <2>2 DEF removeFinalizersFromObject
        <4> QED
          BY <1>0, <4>1 DEF C!Gone, CP!ConnObject
      <3> QED
        BY <2>2, <3>1, <3>2
    <2> QED
      BY <2>1, <2>2
  <1>6. AbsentShape'
    BY <1>2, <1>3 DEF AbsentShape
  <1>7. \A j \in 1..5 : Unreleased(Kinds[j])' \subseteq Unreleased(Kinds[j])
    BY <1>2, <1>3, <1>4, <1>5 DEF Unreleased, Kinds
  <1>8. n \notin Unreleased(kind)'
    BY <1>1, <1>2, <1>3, <1>4, <1>5 DEF Unreleased
  <1> QED
    BY <1>6, <1>7, <1>8

\* Controllers and users leave what is gone without finalizers.
LEMMA AbsentStep ==
    ASSUME OrphansInv, AbsentShape,
           Controllers \/ UserOfConnections \/ UserOfClasses \/ UninstallHelm \/ Reinstall
    PROVE  AbsentShape'
  <1>0. /\ CP!TypeOK /\ secret \in [Conns -> CP!SecretObject]
        /\ seenSecret \in [Conns -> CP!SecretObject] /\ cm \in CP!ConfigMapObject
        /\ seenCM \in CP!ConfigMapObject /\ cpass.c \in Conns
    BY DEF OrphansInv, Typed, CP!TypeOK, CP!PassRecord
  <1>1. CASE UNCHANGED <<cm, secret>>
    BY <1>1 DEF AbsentShape
  <1>2. CASE CP!Work
    <2>1. \/ UNCHANGED secret
          \/ \E new : /\ secret' = [secret EXCEPT ![cpass.c] = new]
                      /\ new.phase = "absent" => ~new.managed
      <3> DEFINE c == cpass.c
      <3>0. CP!NoSecret.managed = FALSE
        BY DEF CP!NoSecret
      <3>1. ASSUME NEW o \in CP!Outcomes, CP!reconcileLiveSecret(o)
            PROVE  \/ UNCHANGED secret
                   \/ \E new : /\ secret' = [secret EXCEPT ![c] = new]
                               /\ new.phase = "absent" => ~new.managed
        <4> DEFINE wanted == CP!generateNewSecret(cpass.obj)
                   kept == [seenSecret[c] EXCEPT !.managed = TRUE, !.spec = cpass.obj.spec]
        <4>1. wanted.phase = "live"
          BY DEF CP!generateNewSecret
        <4>2. kept.phase = seenSecret[c].phase
          <5>1. seenSecret[c] \in CP!SecretObject
            BY <1>0
          <5> QED
            BY <5>1 DEF CP!SecretObject
        <4>3. \/ UNCHANGED secret
              \/ secret' = [secret EXCEPT ![c] = wanted]
              \/ seenSecret[c].phase # "absent" /\ secret' = [secret EXCEPT ![c] = kept]
          BY <3>1 DEF CP!reconcileLiveSecret, CP!WriteSecret, CP!NoWriteSecret
        <4> HIDE DEF wanted, kept
        <4> QED
          BY <4>1, <4>2, <4>3
      <3>2. ASSUME NEW o \in CP!Outcomes, CP!removeSecretFinalizer(o)
            PROVE  \/ UNCHANGED secret
                   \/ \E new : /\ secret' = [secret EXCEPT ![c] = new]
                               /\ new.phase = "absent" => ~new.managed
        <4> DEFINE kept == [seenSecret[c] EXCEPT !.managed = FALSE]
        <4>1. ~kept.managed
          <5>1. seenSecret[c] \in CP!SecretObject
            BY <1>0
          <5> QED
            BY <5>1 DEF CP!SecretObject
        <4>2. \/ UNCHANGED secret
              \/ secret' = [secret EXCEPT ![c] = CP!NoSecret]
              \/ secret' = [secret EXCEPT ![c] = kept]
          BY <3>2 DEF CP!removeSecretFinalizer, CP!WriteSecret, CP!NoWriteSecret
        <4> HIDE DEF kept
        <4> QED
          BY <3>0, <4>1, <4>2
      <3>3. ASSUME NEW o \in CP!Outcomes, CP!deleteSecret(o)
            PROVE  \/ UNCHANGED secret
                   \/ \E new : /\ secret' = [secret EXCEPT ![c] = new]
                               /\ new.phase = "absent" => ~new.managed
        <4> DEFINE kept == [secret[c] EXCEPT !.phase = "terminating"]
        <4>1. kept.phase = "terminating"
          <5>1. secret[c] \in CP!SecretObject
            BY <1>0
          <5> QED
            BY <5>1 DEF CP!SecretObject
        <4>2. \/ UNCHANGED secret
              \/ secret' = [secret EXCEPT ![c] = CP!NoSecret]
              \/ secret' = [secret EXCEPT ![c] = kept]
          BY <3>3 DEF CP!deleteSecret, CP!WriteSecret
        <4> HIDE DEF kept
        <4> QED
          BY <3>0, <4>1, <4>2
      <3>4. \/ UNCHANGED secret
            \/ \E o \in CP!Outcomes : \/ CP!reconcileLiveSecret(o)
                                      \/ CP!removeSecretFinalizer(o)
                                      \/ CP!deleteSecret(o)
        BY <1>2 DEF CP!Work, CP!addFinalizerIfNotExists, CP!reconcileConfigMap,
           CP!reconcileSecret, CP!removeFinalizerIfExists,
           CP!updateCephClusterConnectionStatus
      <3> QED
        BY <3>1, <3>2, <3>3, <3>4
    <2>2. \/ UNCHANGED cm
          \/ cm'.phase = "absent" => ~cm'.managed
      <3>1. CP!generateNewConfigMap(cpass.c, cpass.obj).phase = "live"
        BY DEF CP!generateNewConfigMap
      <3>2. CP!updatedConfigMap(cpass.c, cpass.obj).phase = seenCM.phase
        BY <1>0 DEF CP!updatedConfigMap, CP!ConfigMapObject
      <3>3. ~CP!NoConfigMap.managed
        BY DEF CP!NoConfigMap
      <3>4. \/ UNCHANGED cm
            \/ cm' = CP!generateNewConfigMap(cpass.c, cpass.obj)
            \/ cm' = CP!NoConfigMap
            \/ seenCM.phase = "live" /\ cm' = CP!updatedConfigMap(cpass.c, cpass.obj)
        BY <1>2 DEF CP!Work, CP!addFinalizerIfNotExists, CP!reconcileConfigMap,
           CP!reconcileSecret, CP!removeFinalizerIfExists, CP!deleteSecret,
           CP!updateCephClusterConnectionStatus, CP!WriteConfigMap, CP!NoWriteConfigMap
      <3> QED
        BY <3>1, <3>2, <3>3, <3>4
    <2> QED
      BY <1>0, <2>1, <2>2 DEF AbsentShape
  <1>3. CASE CP!CrashRestart
    BY <1>3 DEF AbsentShape, CP!CrashRestart, CP!EnsureConfigMapExists, CP!EmptyConfigMap,
       CP!NoConfigMap
  <1>4. \/ UNCHANGED <<cm, secret>> \/ CP!Work \/ CP!CrashRestart
    <2>1. CASE ConnectionWork \/ CrashRestart \/ Reinstall
      BY <2>1, ConnectionActions DEF ConnectionWork, ConnectionStep, CrashRestart, Reinstall, Restart
    <2>2. CASE ConnectionSync \/ ConnectionStart
      BY <2>2 DEF ConnectionSync, ConnectionStart, ConnectionStep, C!Sync, C!SyncConfigMap,
         C!SyncConnection, C!SyncSecret, C!StartReconcile, C!server
    <2>3. CASE UserOfConnections
      BY <2>3 DEF UserOfConnections, C!CreateConnection, C!EditConnection, C!DeleteConnection,
         C!UserWritesConn
    <2>4. CASE ClassSync \/ ClassStart \/ ClassWork \/ UserOfClasses \/ UninstallHelm
      BY <2>4 DEF ClassSync, ClassStart, ClassWork, UserOfClasses, UninstallHelm, ClassStep,
         connVars
    <2> QED
      BY <2>1, <2>2, <2>3, <2>4 DEF Controllers
  <1> QED
    BY <1>1, <1>2, <1>3, <1>4

\* What the hook lists of a kind it takes on is all that is held back.
LEMMA ListsAll ==
    ASSUME OrphansInv, AbsentShape
    PROVE  /\ \A k \in 1..4 : Unreleased(Kinds[k]) \subseteq listed(Kinds[k])
           /\ Unreleased(Kinds[5]) = {}
  <1>1. SP!ObjectShape
    BY DEF OrphansInv, ModuleShapes
  <1> QED
    BY <1>1 DEF AbsentShape, Unreleased, listed, present, Kinds, SP!ObjectShape, SP!OwnsSC

\* The hook releases kind after kind, unless it fails.
LEMMA ReleaseStepHook ==
    ASSUME ListFails = FALSE, ReleaseInv, HookWork
    PROVE  AbsentShape' /\ Release'
  <1>0. /\ OrphansInv /\ AbsentShape /\ Release /\ HookShape /\ hook \in HookRecord
    BY DEF ReleaseInv, OrphansInv, Typed
  <1>1. CASE HookNext
    <2>1. module = "removing" /\ hook.kind \in 1..5 /\ hook.listed /\ hook.todo = {}
      BY <1>0, <1>1 DEF HookNext, HookShape, NoHook
    <2>2. AbsentShape' /\ \A k \in 1..5 : Unreleased(Kinds[k])' = Unreleased(Kinds[k])
      BY <1>0, <1>1 DEF HookNext, connVars, classVars, AbsentShape, Unreleased
    <2>3. ~hook.failed => \A k \in 1..5 : k <= hook.kind => Unreleased(Kinds[k]) = {}
      BY <1>0, <2>1 DEF Release
    <2>4. CASE hook.kind < 5
      <3>1. /\ hook' = [hook EXCEPT !.kind = @ + 1, !.listed = FALSE] /\ module' = module
        BY <1>1, <2>4, HookTypes DEF HookNext
      <3>2. hook'.kind = hook.kind + 1 /\ ~hook'.listed /\ hook'.failed = hook.failed
        BY <1>0, <3>1 DEF HookRecord
      <3>3. ~hook'.failed => \A k \in 1..5 : k < hook'.kind => Unreleased(Kinds[k])' = {}
        BY <2>1, <2>2, <2>3, <3>2
      <3> QED
        BY <2>1, <2>2, <3>1, <3>2, <3>3 DEF Release
    <2>5. CASE hook.kind = 5 /\ hook.failed
      <3>1. hook' = HookStart /\ module' = module
        BY <1>1, <2>5, HookTypes DEF HookNext
      <3>2. \A k \in 1..5 : ~(k < HookStart.kind)
        BY HookTypes
      <3> QED
        BY <2>1, <2>2, <3>1, <3>2, HookTypes DEF Release
    <2>6. CASE hook.kind = 5 /\ ~hook.failed
      <3>1. module' = "removed"
        BY <1>1, <2>6, HookTypes DEF HookNext
      <3>2. \A k \in 1..5 : Unreleased(Kinds[k])' = {}
        BY <2>2, <2>3, <2>6
      <3> QED
        BY <2>2, <3>1, <3>2 DEF Release
    <2> QED
      BY <1>0, <2>1, <2>4, <2>5, <2>6 DEF HookRecord
  <1>2. ASSUME NEW o \in C!Outcomes, o # "lost", HookList(o)
        PROVE  AbsentShape' /\ Release'
    <2>1. module = "removing" /\ hook.kind \in 1..5
      BY <1>0, <1>2 DEF HookList, HookShape, NoHook
    <2>2. /\ AbsentShape' /\ module' = module
          /\ \A k \in 1..5 : Unreleased(Kinds[k])' = Unreleased(Kinds[k])
      BY <1>0, <1>2 DEF HookList, connVars, classVars, AbsentShape, Unreleased
    <2>3. hook'.kind = hook.kind /\ (hook.failed => hook'.failed)
      BY <1>0, <1>2 DEF HookList, HookRecord
    <2>4. ASSUME NEW k \in 1..5, k = hook.kind, ~hook'.failed
          PROVE  Unreleased(Kinds[k]) \subseteq hook'.todo
      <3>1. CASE k = 5
        BY <1>0, <3>1, ListsAll
      <3>2. CASE k \in 1..4
        <4>1. ~(isCustom(Kinds[k]) /\ Kinds[k] \notin CRGVKsForFinalizerRemoval)
          BY <3>2 DEF isCustom, CRGVKsForFinalizerRemoval, Kinds
        <4>2. o \in {"ok", "rejected"}
          BY <1>2 DEF C!Outcomes
        <4>3. CASE o = "rejected"
          BY <1>0, <1>2, <2>4, <4>1, <4>3 DEF HookList, HookRecord
        <4>4. CASE o = "ok"
          <5>1. hook'.todo = listed(Kinds[k])
            BY <1>0, <1>2, <2>4, <4>1, <4>4 DEF HookList, HookRecord
          <5> QED
            BY <1>0, <3>2, <5>1, ListsAll
        <4> QED
          BY <4>2, <4>3, <4>4
      <3> QED
        BY <3>1, <3>2
    <2>5. ASSUME NEW k \in 1..5, ~hook'.failed
          PROVE  /\ k < hook'.kind => Unreleased(Kinds[k])' = {}
                 /\ k = hook'.kind => Unreleased(Kinds[k])' \subseteq hook'.todo
      BY <1>0, <2>1, <2>2, <2>3, <2>4, <2>5 DEF Release
    <2> QED
      BY <2>1, <2>2, <2>5 DEF Release
  <1>3. ASSUME NEW n \in Names, NEW o \in C!Outcomes, HookPatch(n, o)
        PROVE  AbsentShape' /\ Release'
    <2>1. module = "removing" /\ hook.kind \in 1..5 /\ module' = module
      BY <1>0, <1>3 DEF HookPatch, HookShape, NoHook
    <2>2. /\ hook'.kind = hook.kind /\ hook'.listed = hook.listed
          /\ hook'.todo = hook.todo \ {n}
          /\ hook.failed => hook'.failed
          /\ ~hook'.failed => n \in present(Kinds[hook.kind]) /\ o = "ok"
      BY <1>0, <1>3 DEF HookPatch, HookRecord, joined
    <2>3. \/ removeFinalizersFromObject(Kinds[hook.kind], n)
          \/ hook'.failed /\ UNCHANGED <<secret, cm, sc, conn, status, class>>
      BY <1>3, <2>2 DEF HookPatch
    <2>4. CASE hook'.failed /\ UNCHANGED <<secret, cm, sc, conn, status, class>>
      BY <1>0, <2>1, <2>4 DEF AbsentShape, Release
    <2>5. CASE removeFinalizersFromObject(Kinds[hook.kind], n)
      <3>1. PICK k \in 1..5 : k = hook.kind
        BY <2>1
      <3>2. /\ AbsentShape'
            /\ \A j \in 1..5 : Unreleased(Kinds[j])' \subseteq Unreleased(Kinds[j])
            /\ n \notin Unreleased(Kinds[k])'
        BY <1>0, <2>5, <3>1, PatchReleases
      <3>3. ASSUME NEW j \in 1..5, ~hook'.failed
            PROVE  /\ j < hook'.kind => Unreleased(Kinds[j])' = {}
                   /\ j = hook'.kind /\ hook'.listed => Unreleased(Kinds[j])' \subseteq hook'.todo
        BY <1>0, <2>1, <2>2, <3>1, <3>2, <3>3 DEF Release
      <3> QED
        BY <2>1, <3>2, <3>3 DEF Release
    <2> QED
      BY <2>3, <2>4, <2>5
  <1> QED
    BY <1>1, <1>2, <1>3 DEF HookWork

\* Every step keeps what the hook has achieved.
LEMMA ReleaseStep ==
    ASSUME ListFails = FALSE, ReleaseInv, [Next]_vars
    PROVE  ReleaseInv'
  <1>0. OrphansInv /\ AbsentShape /\ Release /\ HookShape
    BY DEF ReleaseInv, OrphansInv
  <1>1. OrphansInv'
    BY <1>0, OrphansStep
  <1>2. CASE UNCHANGED vars
    BY <1>0, <1>1, <1>2 DEF ReleaseInv, AbsentShape, Release, Unreleased, vars, connVars, classVars
  <1>3. CASE HookWork
    BY <1>1, <1>3, ReleaseStepHook DEF ReleaseInv
  <1>4. CASE Controllers \/ UninstallHelm \/ Reinstall \/ ((UserOfConnections \/ UserOfClasses) /\ module = "installed")
    <2>1. AbsentShape'
      BY <1>0, <1>4, AbsentStep
    <2>2. \/ module' = "installed"
          \/ module' = "removing" /\ hook' = HookStart
      BY <1>4 DEF Controllers, ConnectionSync, ConnectionStart, ConnectionWork, ClassSync,
         ClassStart, ClassWork, CrashRestart, ConnectionStep, ClassStep, UninstallHelm, Reinstall,
         UserOfConnections, UserOfClasses
    <2>3. \A k \in 1..5 : ~(k < HookStart.kind)
      BY HookTypes
    <2>4. Release'
      BY <2>2, <2>3, HookTypes DEF Release
    <2> QED
      BY <1>1, <2>1, <2>4 DEF ReleaseInv
  <1>5. CASE /\ UserOfConnections \/ UserOfClasses \/ DeleteNamespaced \/ DeleteStorageClass
             /\ module # "installed"
    <2>1. /\ AbsentShape'
          /\ \A k \in 1..5 : Unreleased(Kinds[k])' \subseteq Unreleased(Kinds[k])
      BY <1>0, <1>5, AwayStep
    <2>2. UNCHANGED <<module, hook>>
      BY <1>5 DEF UserOfConnections, UserOfClasses, DeleteNamespaced, DeleteStorageClass
    <2>3. Release'
      BY <1>0, <2>1, <2>2 DEF Release, HookShape
    <2> QED
      BY <1>1, <2>1, <2>3 DEF ReleaseInv
  <1> QED
    BY <1>2, <1>3, <1>4, <1>5 DEF Next, User, DeleteNamespaced, DeleteStorageClass

\* A hook that has reported success has taken every finalizer off, whatever calls of it
\* failed and were tried again: unless a list of custom resources failed, which counts as
\* a kind that is not there.
THEOREM RemovalIsComplete ==
    ASSUME ListFails = FALSE
    PROVE  Spec => []RemovalReleases
  <1>1. Init => ReleaseInv
    BY TypeInitially, ShapesInitially DEF ReleaseInv, OrphansInv
  <1>2. ReleaseInv /\ [Next]_vars => ReleaseInv'
    BY ReleaseStep
  <1>3. ReleaseInv => RemovalReleases
    <2> SUFFICES ASSUME ReleaseInv, module = "removed"
                 PROVE  /\ \A c \in Conns : ~conn[c].finalizer /\ ~secret[c].managed
                        /\ ~cm.managed /\ ~sc.finalizer
      BY DEF RemovalReleases
    <2>1. \A k \in 1..5 : Unreleased(Kinds[k]) = {}
      BY DEF ReleaseInv, Release
    <2>2. /\ Unreleased("Secret") = {} /\ Unreleased("ConfigMap") = {}
          /\ Unreleased("StorageClass") = {} /\ Unreleased("CephClusterConnection") = {}
      BY <2>1 DEF Kinds
    <2> QED
      BY <2>2 DEF Unreleased
  <1> QED
    BY <1>1, <1>2, <1>3, PTL DEF Spec

-----------------------------------------------------------------------------
\* The verdicts of both controllers together, over the absence of the module.

\* What holds of the snapshot CRDs and of the VolumeSnapshotClass whether the module is
\* there or not: the hook has no right to either.
SnapshotsHeld ==
    /\ crd = (SnapshotCRD = "installed")
    /\ vsc.foreign => vsc.spec = SP!NoSpec
    /\ SP!OwnsVSC /\ class.phase = "live" => vsc.finalizer

\* The connection is looked at again.
Pending(c) == c \in queue \/ (cpass.step # "idle" /\ cpass.c = c)

\* What is said of a connection is true, or the connection is looked at again: a verdict
\* given before a removal may be neither, until the module is back.
Served == \A c \in Conns : CP!Truthful(c) \/ Pending(c)

UsableShapes ==
    /\ CP!StatusShape /\ SnapshotsHeld
    /\ module = "installed" => CP!VerdictShapes /\ SP!VerdictShapes /\ Served

UsableInv == OrphansInv /\ UsableShapes

\* The verdict shapes of the connection controller, and what is true of a connection, are
\* about its variables alone.
LEMMA ConnectionVerdictFrame ==
    ASSUME UNCHANGED connVars
    PROVE  /\ CP!StatusShape => CP!StatusShape'
           /\ CP!VerdictShapes => CP!VerdictShapes'
           /\ Served => Served'
  <1>1. CP!VerdictShapes => CP!VerdictShapes'
    BY DEF connVars, CP!VerdictShapes, CP!PassShapes, CP!ListShape, CP!RequeueShape,
       CP!LifeShape, CP!ProgressShape, CP!SilentShape, CP!Earning, CP!VersionShapes, CP!GenShape,
       CP!StatusShape, CP!BehindShape, CP!SameLife
  <1>2. CP!StatusShape => CP!StatusShape'
    BY DEF connVars, CP!StatusShape
  <1>3. Served => Served'
    BY DEF connVars, Served, Pending, CP!Truthful, CP!InPlace
  <1> QED
    BY <1>1, <1>2, <1>3

\* What the class controller sees of a step of the connection's keeps its verdict shapes.
LEMMA ClassSeesVerdict ==
    ASSUME Typed, SP!VerdictShapes, ClassSees
    PROVE  SP!VerdictShapes'
  <1>1. /\ UNCHANGED <<class, sc, vsc, crd, option, seen, queued>>
        /\ spass'.step = spass.step /\ spass'.copies = spass.copies
        /\ spass'.mapped = spass.mapped /\ spass'.cid = spass.cid
        /\ spass'.failed = spass.failed /\ spass'.requeue = spass.requeue
        /\ "class" \in lag => "class" \in lag'
    BY DEF ClassSees, Typed, SP!TypeOK, SP!PassRecord
  <1>2. SP!obj' = SP!obj /\ SP!oldSC' = SP!oldSC /\ SP!oldVSClass' = SP!oldVSClass
    BY <1>1 DEF SP!obj, SP!oldSC, SP!oldVSClass
  <1>3. SP!Notified => SP!Notified'
    BY <1>1 DEF SP!Notified, SP!enqueued
  <1>4. SP!VersionShapes'
    BY <1>1, <1>2, <1>3 DEF SP!VerdictShapes, SP!VersionShapes, SP!SeenShape, SP!FollowShape,
       SP!LifeShape, SP!Follows, SP!Earning
  <1>5. SP!SnapshotShape' /\ SP!RequeueShape' /\ SP!CopyShape'
    BY <1>1, <1>2 DEF SP!VerdictShapes, SP!WorkShapes, SP!SnapshotShape, SP!RequeueShape,
       SP!CopyShape, SP!OwnsVSC, SP!SnapshotsFit
  <1>6. SP!ProgressShape'
    BY <1>1, <1>2 DEF SP!VerdictShapes, SP!WorkShapes, SP!ProgressShape, SP!Earning, SP!OwnsVSC,
       SP!SnapshotsFit, SP!Fits
  <1>7. SP!RestShape'
    BY <1>1, <1>3 DEF SP!VerdictShapes, SP!RestShape, SP!InPlace, SP!updateStorageClass,
       SP!ConfigureStorageClass
  <1> QED
    BY <1>4, <1>5, <1>6, <1>7 DEF SP!VerdictShapes, SP!WorkShapes

\* While the module is installed its class controller knows what is held of snapshots.
LEMMA SnapshotsAreHeld == SP!VerdictShapes => SnapshotsHeld
  BY DEF SP!VerdictShapes, SP!WorkShapes, SP!SnapshotShape, SnapshotsHeld

\* While the module is installed its connection controller knows how verdicts compare.
LEMMA StatusIsShaped == CP!VerdictShapes => CP!StatusShape
  BY DEF CP!VerdictShapes, CP!VersionShapes

\* The module starts with both controllers' shapes.
LEMMA UsableInitially == Init => UsableShapes
  <1> SUFFICES ASSUME Init PROVE UsableShapes
    OBVIOUS
  <1>1. CP!VerdictShapes /\ CP!ReadyMeansInPlace
    BY CP!VerdictInitially, ConnectionAssumptions, ConnectionActions DEF Init
  <1>2. SP!VerdictShapes
    BY SP!VerdictInitially, ClassAssumptions, ClassInitially DEF Init
  <1>3. Served
    BY <1>1 DEF Served, CP!ReadyMeansInPlace, CP!Truthful
  <1> QED
    BY <1>1, <1>2, <1>3, SnapshotsAreHeld, StatusIsShaped DEF UsableShapes

\* A step that leaves the queue and the connection the pass is over alone leaves every
\* connection served.
LEMMA ServedWhilePassing ==
    ASSUME Served, CP!TruthKept, queue \subseteq queue',
           cpass.step # "idle" => cpass'.step # "idle" /\ cpass'.c = cpass.c
    PROVE  Served'
  BY DEF Served, Pending, CP!TruthKept

\* The cache and a crash of the connection controller leave every connection served.
LEMMA ServedStepCache ==
    ASSUME CP!TypeOK, CP!VerdictShapes, Served, CP!Sync \/ CP!CrashRestart
    PROVE  CP!VerdictShapes' /\ Served'
  <1>1. CP!VerdictShapes' /\ CP!TruthKept
    BY CP!VerdictStepFrame, ConnectionAssumptions
  <1>2. CASE CP!Sync
    <2>1. queue \subseteq queue' /\ cpass' = cpass
      BY <1>2 DEF CP!Sync, CP!SyncConfigMap, CP!SyncConnection, CP!SyncSecret
    <2> QED
      BY <1>1, <2>1, ServedWhilePassing
  <1>3. CASE CP!CrashRestart
    <2>1. \A c \in Conns : conn'[c].phase = "absent" \/ c \in queue'
      BY <1>3 DEF CP!CrashRestart
    <2> QED
      BY <1>1, <2>1 DEF Served, Pending, CP!Truthful
  <1> QED
    BY <1>2, <1>3

\* A key that leaves the queue goes into a pass, or its connection is gone.
LEMMA ServedStepStart ==
    ASSUME CP!WorkInv, Served, NEW c \in Conns, CP!StartReconcile(c)
    PROVE  CP!VerdictShapes' /\ Served'
  <1>1. CP!VerdictShapes' /\ CP!TruthKept
    BY CP!VerdictStepStart, ConnectionAssumptions
  <1>2. /\ cpass.step = "idle" /\ queue' = queue \ {c} /\ conn' = conn
        /\ seenConn[c] = conn[c]
        /\ \/ seenConn[c].phase = "absent" /\ cpass' = cpass
           \/ cpass'.step # "idle" /\ cpass'.c = c
    BY DEF CP!StartReconcile, CP!server, CP!Fresh, CP!WorkInv, CP!TeardownInv,
       CP!TeardownShapes, CP!CacheShape
  <1>3. ASSUME NEW d \in Conns
        PROVE  CP!Truthful(d)' \/ Pending(d)'
    <2>1. CASE d # c
      BY <1>1, <1>2, <2>1 DEF Served, Pending, CP!TruthKept
    <2>2. CASE d = c
      BY <1>2, <2>2 DEF Pending, CP!Truthful
    <2> QED
      BY <2>1, <2>2
  <1> QED
    BY <1>1, <1>3 DEF Served

\* A pass that ends has said what is true, or leaves its key in the queue.
LEMMA ServedStepWork ==
    ASSUME CP!OwnClusterIDs,
           CP!WorkInv, Served, CP!Work
    PROVE  CP!VerdictShapes' /\ Served'
  <1>0. cpass \in CP!PassRecord
    BY DEF CP!WorkInv, CP!TeardownInv, CP!TypeOK
  <1>1. PICK o \in CP!Outcomes :
            \/ CP!addFinalizerIfNotExists(o) \/ CP!reconcileConfigMap(o)
            \/ CP!reconcileSecret(o) \/ CP!deleteSecret(o)
            \/ CP!removeFinalizerIfExists(o) \/ CP!updateCephClusterConnectionStatus(o)
    BY DEF CP!Work
  <1>2. CASE CP!updateCephClusterConnectionStatus(o)
    <2>1. /\ CP!VerdictShapes' /\ CP!TruthKept
          /\ \A c \in Conns : c = cpass.c => CP!Truthful(c)' \/ c \in queue'
      BY <1>2, CP!VerdictStepStatus, ConnectionAssumptions
    <2>2. queue \subseteq queue'
      BY <1>2 DEF CP!updateCephClusterConnectionStatus
    <2> QED
      BY <2>1, <2>2 DEF Served, Pending, CP!TruthKept
  <1>3. CASE \/ CP!addFinalizerIfNotExists(o) \/ CP!reconcileConfigMap(o)
             \/ CP!reconcileSecret(o) \/ CP!deleteSecret(o)
             \/ CP!removeFinalizerIfExists(o)
    <2>1. CP!VerdictShapes' /\ CP!TruthKept
      BY <1>3, CP!VerdictStepFinalizer, CP!VerdictStepConfigMap, CP!VerdictStepSecret,
         CP!VerdictStepDeleteSecret, CP!VerdictStepRelease, ConnectionAssumptions
    <2>2. queue' = queue
      BY <1>3 DEF CP!addFinalizerIfNotExists, CP!reconcileConfigMap, CP!reconcileSecret,
         CP!deleteSecret, CP!removeFinalizerIfExists
    <2>3. cpass'.c = cpass.c /\ cpass'.step # "idle"
      <3>2. CASE CP!addFinalizerIfNotExists(o)
        BY <1>0, <3>2 DEF CP!addFinalizerIfNotExists, CP!Goto, CP!Fail, CP!PassRecord
      <3>3. CASE CP!reconcileConfigMap(o)
        BY <1>0, <3>3 DEF CP!reconcileConfigMap, CP!Proceed, CP!Goto, CP!Fail, CP!PassRecord
      <3>4. CASE CP!reconcileSecret(o)
        BY <1>0, <3>4 DEF CP!reconcileSecret, CP!reconcileLiveSecret, CP!removeSecretFinalizer,
           CP!Proceed, CP!Goto, CP!Fail, CP!PassRecord
      <3>5. CASE CP!deleteSecret(o)
        BY <1>0, <3>5 DEF CP!deleteSecret, CP!Proceed, CP!Goto, CP!Fail, CP!PassRecord
      <3>6. CASE CP!removeFinalizerIfExists(o)
        BY <1>0, <3>6 DEF CP!removeFinalizerIfExists, CP!Proceed, CP!Goto, CP!Fail, CP!PassRecord
      <3> QED
        BY <1>3, <3>2, <3>3, <3>4, <3>5, <3>6
    <2> QED
      BY <2>1, <2>2, <2>3, ServedWhilePassing
  <1> QED
    BY <1>1, <1>2, <1>3

\* Users leave every connection served: an edit takes the truth of no verdict away.
LEMMA ServedStepUser ==
    ASSUME CP!WorkInv, Served, CP!User
    PROVE  CP!VerdictShapes' /\ Served'
  <1>1. CP!VerdictShapes' /\ CP!TruthKept
    BY CP!VerdictStepUser, ConnectionAssumptions
  <1>2. \E c \in Conns : \E new : CP!UserWritesConn(c, new)
    BY DEF CP!User, CP!DeleteConfigMap, CP!CorruptConfigMap, CP!DeleteSecret,
       CP!CreateConnection, CP!EditConnection, CP!DeleteConnection
  <1>3. queue' = queue /\ cpass'.c = cpass.c /\ cpass'.step = cpass.step
    BY <1>2 DEF CP!UserWritesConn, CP!WorkInv, CP!TeardownInv, CP!TypeOK, CP!PassRecord
  <1> QED
    BY <1>1, <1>3, ServedWhilePassing

\* The class controller's steps keep its verdict shapes.
LEMMA ClassVerdictStep ==
    ASSUME SP!TeardownInv, SP!VerdictShapes, SP!Next
    PROVE  SP!VerdictShapes'
  <1>1. SnapshotCRD # "late"
    BY SwitchesAssumption
  <1>2. SP!VerdictInv
    BY DEF SP!VerdictInv
  <1>3. SP!VerdictInv'
    BY <1>1, <1>2, SP!VerdictStep, ClassAssumptions
  <1> QED
    BY <1>3 DEF SP!VerdictInv

\* What the controllers' invariants say while the module is installed.
LEMMA UsableInstalled ==
    ASSUME UsableInv, module = "installed"
    PROVE  CP!WorkInv /\ SP!TeardownInv /\ SP!VerdictShapes /\ Served
  BY DEF UsableInv, OrphansInv, UsableShapes, ModuleShapes, Typed, CP!WorkInv, CP!TeardownInv,
     SP!TeardownInv

\* And what is enough for them.
LEMMA UsableThen ==
    ASSUME CP!VerdictShapes', SP!VerdictShapes', Served'
    PROVE  UsableShapes'
  <1>1. SnapshotsHeld' /\ CP!StatusShape'
    BY SnapshotsAreHeld, StatusIsShaped, PTL
  <1> QED
    BY <1>1 DEF UsableShapes

\* The steps of an installed module, and its users', keep the shapes.
LEMMA UsableStepInstalled ==
    ASSUME CP!OwnClusterIDs,
           UsableInv, module = "installed",
           Controllers \/ UserOfConnections \/ UserOfClasses
    PROVE  UsableShapes'
  <1>0. /\ CP!WorkInv /\ SP!TeardownInv /\ SP!VerdictShapes /\ Served /\ Typed
        /\ CP!TypeOK /\ CP!VerdictShapes
    BY UsableInstalled DEF UsableInv, OrphansInv, Typed, CP!WorkInv
  <1>1. CASE ConnectionSync \/ ConnectionStart \/ ConnectionWork \/ UserOfConnections
    <2>1. /\ ClassSees
          /\ CP!Sync \/ CP!Work \/ CP!User \/ \E c \in Conns : CP!StartReconcile(c)
      BY <1>1, ConnectionActions DEF ConnectionSync, ConnectionStart, ConnectionWork,
         ConnectionStep, UserOfConnections, CP!User
    <2>2. CP!VerdictShapes' /\ Served'
      BY <1>0, <2>1, ServedStepCache, ServedStepStart, ServedStepWork, ServedStepUser
    <2>3. SP!VerdictShapes'
      BY <1>0, <2>1, ClassSeesVerdict
    <2> QED
      BY <2>2, <2>3, UsableThen
  <1>2. CASE ClassSync \/ ClassStart \/ ClassWork \/ UserOfClasses
    <2>1. UNCHANGED connVars /\ SP!Next
      BY <1>2, ClassActions DEF ClassSync, ClassStart, ClassWork, ClassStep, UserOfClasses,
         SP!User, SP!Next
    <2>2. SP!VerdictShapes'
      BY <1>0, <2>1, ClassVerdictStep
    <2>3. CP!VerdictShapes' /\ Served'
      BY <1>0, <2>1, ConnectionVerdictFrame
    <2> QED
      BY <2>2, <2>3, UsableThen
  <1>3. CASE CrashRestart
    <2>1. CP!CrashRestart /\ SP!CrashRestart
      BY <1>3, ConnectionActions, ClassActions DEF CrashRestart, Restart
    <2>2. CP!VerdictShapes' /\ Served'
      BY <1>0, <2>1, ServedStepCache
    <2>3. SP!VerdictShapes'
      BY <1>0, <2>1, ClassVerdictStep DEF SP!Next
    <2> QED
      BY <2>2, <2>3, UsableThen
  <1> QED
    BY <1>1, <1>2, <1>3 DEF Controllers

\* While the module is away users leave what is held of verdicts and snapshots.
LEMMA UsableStepAway ==
    ASSUME UsableInv, module # "installed", UserOfConnections \/ UserOfClasses
    PROVE  UsableShapes'
  <1>0. /\ CP!StatusShape /\ SnapshotsHeld /\ CP!TypeOK /\ SP!Held
        /\ module' # "installed"
    BY DEF UsableInv, UsableShapes, OrphansInv, ModuleShapes, Typed, UserOfConnections,
       UserOfClasses
  <1>1. CASE UserOfConnections
    <2>1. ClassSees /\ CP!User
      BY <1>1, ConnectionActions DEF UserOfConnections, CP!User
    <2>2. CP!StatusShape'
      BY <1>0, <2>1, CP!StatusStepUser, ConnectionAssumptions
    <2>3. SnapshotsHeld'
      BY <1>0, <2>1 DEF ClassSees, SnapshotsHeld, SP!OwnsVSC
    <2> QED
      BY <1>0, <2>2, <2>3 DEF UsableShapes
  <1>2. CASE UserOfClasses
    <2>1. CP!StatusShape'
      BY <1>0, <1>2, ConnectionVerdictFrame DEF UserOfClasses
    <2>2. UNCHANGED <<vsc, crd>>
      BY <1>2 DEF UserOfClasses, S!CreateClass, S!DeleteClass, S!UserWritesClass
    <2>3. class'.phase = "live" => ~class.finalizer
      <3>0. class \in SP!ClassObject /\ SP!ObjectShape
        BY DEF UsableInv, OrphansInv, ModuleShapes, Typed, SP!TypeOK
      <3>1. CASE S!CreateClass
        BY <3>0, <3>1 DEF S!CreateClass, SP!ObjectShape
      <3>2. CASE S!DeleteClass
        BY <3>0, <3>2 DEF S!DeleteClass, S!UserWritesClass, S!Gone, SP!ClassObject
      <3> QED
        BY <1>2, <3>1, <3>2 DEF UserOfClasses
    <2>4. SnapshotsHeld'
      BY <1>0, <2>2, <2>3 DEF SnapshotsHeld, SP!OwnsVSC, SP!Held
    <2> QED
      BY <1>0, <2>1, <2>4 DEF UsableShapes
  <1> QED
    BY <1>1, <1>2

\* So do the end of an installation and the deletion hook.
LEMMA UsableStepRemoval ==
    ASSUME UsableInv,
           UninstallHelm \/ DeleteNamespaced \/ DeleteStorageClass \/ HookWork
    PROVE  UsableShapes'
  <1>0. /\ CP!StatusShape /\ SnapshotsHeld /\ HookShape
        /\ conn \in [Conns -> CP!ConnObject] /\ status \in [Conns -> CP!StatusObject]
        /\ hook \in HookRecord
    BY DEF UsableInv, UsableShapes, OrphansInv, Typed, CP!TypeOK
  <1>1. module' # "installed"
    <2>1. CASE UninstallHelm \/ DeleteNamespaced \/ DeleteStorageClass
      BY <2>1 DEF UninstallHelm, DeleteNamespaced, DeleteStorageClass
    <2>2. CASE HookWork
      <3>1. module = "removing" \/ hook = NoHook
        BY <1>0 DEF HookShape, UsableInv, OrphansInv, Typed
      <3>2. hook # NoHook
        <4>1. hook.kind > 0 \/ hook.listed \/ hook.todo # {}
          BY <2>2 DEF HookWork, HookNext, HookList, HookPatch
        <4>2. NoHook.kind = 0 /\ NoHook.listed = FALSE /\ NoHook.todo = {}
          BY DEF NoHook
        <4> QED
          BY <4>1, <4>2
      <3> QED
        BY <2>2, <3>1, <3>2 DEF HookWork, HookNext, HookList, HookPatch
    <2> QED
      BY <2>1, <2>2
  <1>2. UNCHANGED <<vsc, crd>> /\ (class' = class)
    <2>1. CASE UninstallHelm \/ DeleteNamespaced \/ DeleteStorageClass
      BY <2>1 DEF UninstallHelm, DeleteNamespaced, DeleteStorageClass, classVars
    <2>2. CASE HookNext \/ \E o \in C!Outcomes : HookList(o)
      BY <2>2 DEF HookNext, HookList, classVars
    <2>3. ASSUME NEW n \in Names, NEW o \in C!Outcomes, HookPatch(n, o)
          PROVE  UNCHANGED <<vsc, crd, class>>
      <3>1. hook.kind # 5
        BY <1>0, <2>3 DEF HookPatch, HookShape
      <3>2. hook.kind \in 1..5
        BY <1>0, <2>3 DEF HookPatch, HookShape, NoHook, UsableInv, OrphansInv, Typed
      <3>3. Kinds[hook.kind] # "CephStorageClass"
        BY <3>1, <3>2 DEF Kinds
      <3> QED
        BY <2>3, <3>3 DEF HookPatch, removeFinalizersFromObject
    <2> QED
      BY <2>1, <2>2, <2>3 DEF HookWork
  <1>3. SnapshotsHeld'
    BY <1>0, <1>2 DEF SnapshotsHeld, SP!OwnsVSC
  <1>4. CP!StatusShape'
    <2>1. CASE UNCHANGED <<conn, status>>
      BY <1>0, <2>1 DEF CP!StatusShape
    <2>2. ASSUME NEW kind, NEW n, removeFinalizersFromObject(kind, n)
          PROVE  CP!StatusShape'
      <3>1. \A c \in Conns : \/ conn'[c].phase = "absent" /\ conn'[c].gen = 0
                             \/ /\ conn'[c].phase = conn[c].phase
                                /\ conn'[c].gen = conn[c].gen
        BY <1>0, <2>2 DEF removeFinalizersFromObject, C!Gone, CP!ConnObject
      <3>2. \A c \in Conns : status'[c] = IF conn'[c].phase = "absent" THEN C!NoStatus
                                          ELSE status[c]
        BY <2>2 DEF removeFinalizersFromObject
      <3>3. C!NoStatus.ready = "none"
        BY DEF C!NoStatus
      <3> QED
        BY <1>0, <3>1, <3>2, <3>3 DEF CP!StatusShape
    <2> QED
      BY <2>1, <2>2 DEF UninstallHelm, DeleteNamespaced, DeleteStorageClass, connVars, HookWork,
         HookNext, HookList, HookPatch
  <1> QED
    BY <1>1, <1>3, <1>4 DEF UsableShapes

\* The controllers of a module that comes back have every object in their queues: what was
\* said before the removal is looked at again.
LEMMA UsableStepReinstall ==
    ASSUME UsableInv, Reinstall
    PROVE  UsableShapes'
  <1>0. /\ CP!StatusShape /\ SnapshotsHeld
        /\ class \in SP!ClassObject
    BY DEF UsableInv, UsableShapes, OrphansInv, Typed, SP!TypeOK
  <1>1. CP!CrashRestart /\ SP!CrashRestart /\ cm.phase = "absent"
    BY ConnectionActions, ClassActions DEF Reinstall, Restart
  <1>2. CP!VerdictShapes' /\ Served'
    <2>1. /\ UNCHANGED <<conn, status, secret>> /\ cm'.phase = "live"
          /\ cpass'.step = "idle" /\ cpass'.requeue = FALSE
          /\ queue' = {c \in Conns : conn[c].phase # "absent"}
      BY <1>1 DEF CP!CrashRestart, CP!EnsureConfigMapExists, CP!EmptyConfigMap,
         CP!NoConfigMap, CP!NoPass
    <2>2. CP!PassShapes'
      BY <2>1 DEF CP!PassShapes, CP!ListShape, CP!RequeueShape, CP!LifeShape,
         CP!ProgressShape, CP!SilentShape, CP!Earning, CP!Past
    <2>3. CP!VersionShapes'
      BY <1>0, <2>1 DEF CP!VersionShapes, CP!GenShape, CP!StatusShape, CP!BehindShape,
         CP!SameLife
    <2>4. Served'
      BY <2>1 DEF Served, Pending, CP!Truthful
    <2> QED
      BY <2>2, <2>3, <2>4 DEF CP!VerdictShapes
  <1>3. SP!VerdictShapes'
    <2>1. /\ UNCHANGED <<class, sc, vsc, crd>> /\ seen'.class = class
          /\ queued' = (class.phase # "absent")
          /\ spass'.step = "idle" /\ spass'.requeue = FALSE
      BY <1>1 DEF SP!CrashRestart, SP!server, SP!NoPass
    <2>2. class.life \in Nat /\ class.gen \in Nat /\ class.labels \in Nat
      BY <1>0 DEF SP!ClassObject
    <2>3. SP!VersionShapes'
      BY <2>1, <2>2 DEF SP!VersionShapes, SP!SeenShape, SP!FollowShape, SP!LifeShape,
         SP!Working, SP!Earning
    <2>4. SP!WorkShapes'
      BY <1>0, <2>1 DEF SP!WorkShapes, SnapshotsHeld, SP!SnapshotShape, SP!RequeueShape,
         SP!CopyShape, SP!ProgressShape, SP!Working, SP!Earning, SP!OwnsVSC
    <2>5. SP!RestShape'
      BY <2>1 DEF SP!RestShape, SP!Notified
    <2> QED
      BY <2>3, <2>4, <2>5 DEF SP!VerdictShapes
  <1> QED
    BY <1>2, <1>3, UsableThen

\* Every step keeps the invariant.
LEMMA UsableStep ==
    ASSUME CP!OwnClusterIDs,
           UsableInv, [Next]_vars
    PROVE  UsableInv'
  <1>1. OrphansInv'
    BY OrphansStep DEF UsableInv
  <1>2. CASE UNCHANGED vars
    <2>1. UNCHANGED connVars /\ ClassSees /\ UNCHANGED <<class, vsc, crd, module>>
      BY <1>2 DEF vars, classVars, ClassSees, cid, connVars
    <2>2. CP!StatusShape' /\ (module = "installed" => CP!VerdictShapes' /\ Served')
      BY <2>1, ConnectionVerdictFrame DEF UsableInv, UsableShapes
    <2>3. module = "installed" => SP!VerdictShapes'
      BY <2>1, ClassSeesVerdict DEF UsableInv, UsableShapes, OrphansInv
    <2>4. SnapshotsHeld'
      BY <2>1 DEF UsableInv, UsableShapes, SnapshotsHeld, SP!OwnsVSC
    <2> QED
      BY <1>1, <2>1, <2>2, <2>3, <2>4 DEF UsableInv, UsableShapes
  <1>3. CASE Next
    <2>1. Controllers => module = "installed"
      BY DEF Controllers, ConnectionSync, ConnectionStart, ConnectionWork, ClassSync,
         ClassStart, ClassWork, CrashRestart, ConnectionStep, ClassStep
    <2>2. UsableShapes'
      BY <1>3, <2>1, UsableStepInstalled, UsableStepAway, UsableStepRemoval,
         UsableStepReinstall
      DEF Next, User
    <2> QED
      BY <1>1, <2>2 DEF UsableInv
  <1> QED
    BY <1>2, <1>3

\* However often the module is removed and installed again, and whatever was deleted, torn
\* down or, in the name of a connection, made for another cluster while it was away: when
\* the controllers are at rest, every class that is Ready about its present generation has
\* both its objects, and every connection that is has its entry, under the clusterID of its
\* present life, and its Secret.  No two connections may ever share a clusterID: under
\* MCConnection_oneclusterid.cfg each takes the entry from the other, and both stay Ready.
\* That a class and its connection are of one cluster does not follow, and is false:
\* SameCluster, under MCModule_newcluster.cfg.
THEOREM VerdictsSurviveRemovals ==
    ASSUME \A a, b \in Conns, i, j \in 0..MaxLives : CidOf[a][i] = CidOf[b][j] => a = b
    PROVE  Spec => []ReadyMeansInPlace
  <1>0. CP!OwnClusterIDs
    BY DEF CP!OwnClusterIDs
  <1>1. Init => UsableInv
    BY TypeInitially, ShapesInitially, UsableInitially DEF UsableInv, OrphansInv
  <1>2. UsableInv /\ [Next]_vars => UsableInv'
    BY <1>0, UsableStep
  <1>3. UsableInv => ReadyMeansInPlace
    <2> SUFFICES ASSUME UsableInv, AtRest PROVE S!ReadyMeansInPlace /\ C!ReadyMeansInPlace
      BY DEF ReadyMeansInPlace
    <2>1. SP!VerdictShapes /\ Served
      BY UsableInstalled DEF AtRest
    <2>2. S!ReadyMeansInPlace
      <3>1. ~SP!Notified /\ spass.step = "idle"
        BY DEF AtRest, S!AtRest, SP!Notified
      <3> QED
        BY <2>1, <3>1, ClassActions DEF SP!VerdictShapes, SP!RestShape, S!ReadyMeansInPlace
    <2>3. C!ReadyMeansInPlace
      <3>1. \A c \in Conns : ~Pending(c)
        BY DEF AtRest, Pending
      <3> QED
        BY <2>1, <3>1, ConnectionActions DEF Served, CP!Truthful, C!ReadyMeansInPlace
    <2> QED
      BY <2>2, <2>3
  <1> QED
    BY <1>1, <1>2, <1>3, PTL DEF Spec
=============================================================================
