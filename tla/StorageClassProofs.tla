------------------------- MODULE StorageClassProofs -------------------------
(***************************************************************************)
(* Theorems about StorageClassController, for every set of specs, settings *)
(* and clusterIDs and every bound.                                         *)
(***************************************************************************)
EXTENDS StorageClassController, TLAPS

-----------------------------------------------------------------------------
\* Type correctness.

Cids == ClusterIDs \cup {NoCid}

\* A class that is gone is a class.
LEMMA GoneType == \A n \in 0..MaxLives : Gone(n) \in ClassObject
  BY BoundsAssumption DEF Gone, ClassObject

\* The missing objects and those of other drivers are objects.
LEMMA ObjectTypes ==
    /\ NoSC \in SCObject /\ ForeignSC \in SCObject
    /\ NoVSC \in VSCObject /\ ForeignVSC \in VSCObject
  <1>1. NoSC \in SCObject /\ NoVSC \in VSCObject
    BY BoundsAssumption DEF NoSC, NoVSC, SCObject, VSCObject
  <1> QED
    BY <1>1 DEF ForeignSC, ForeignVSC, SCObject, VSCObject

\* The idle worker's pass is a pass.
LEMMA NoPassType == NoPass \in PassRecord
  <1>1. Gone(0) \in ClassObject
    BY GoneType, BoundsAssumption
  <1>2. NoPass.copies \in ServerRecord
    BY <1>1, ObjectTypes DEF NoPass, ServerRecord
  <1> QED
    BY <1>2 DEF NoPass, PassRecord, PassSteps

\* The API server's objects have their types together.
LEMMA ServerType == TypeOK => server \in ServerRecord
  BY DEF TypeOK, server, ServerRecord

\* What a pass works on has its type.
LEMMA CopyTypes ==
    ASSUME TypeOK
    PROVE  /\ pass \in PassRecord /\ pass.cid \in Cids
           /\ obj \in ClassObject /\ oldSC \in SCObject /\ oldVSClass \in VSCObject
  BY DEF TypeOK, PassRecord, ServerRecord, Cids, obj, oldSC, oldVSClass

\* The objects the controller makes have their types.
LEMMA ConfigureTypes ==
    ASSUME TypeOK, NEW c \in ClassObject, NEW k \in Cids, NEW old \in SCObject
    PROVE  /\ ConfigureStorageClass(c, k) \in SCObject
           /\ updateStorageClass(c, old, k) \in SCObject
           /\ ConfigureVSClass(c, k) \in VSCObject
  <1>1. ConfigureStorageClass(c, k) \in SCObject /\ ConfigureVSClass(c, k) \in VSCObject
    BY DEF TypeOK, Cids, ConfigureStorageClass, ConfigureVSClass, ClassObject, SCObject, VSCObject
  <1>2. old.marked \in BOOLEAN
    BY DEF SCObject
  <1> QED
    BY <1>1, <1>2 DEF updateStorageClass, SCObject

\* Deleting an object, or taking its finalizer off, leaves an object.
LEMMA AfterTypes ==
    /\ \A x \in SCObject : afterDelete(x, NoSC) \in SCObject /\ afterUnfinalize(x, NoSC) \in SCObject
    /\ \A x \in VSCObject : afterDelete(x, NoVSC) \in VSCObject /\ afterUnfinalize(x, NoVSC) \in VSCObject
  <1>1. ASSUME NEW x \in SCObject
        PROVE  [x EXCEPT !.phase = "terminating"] \in SCObject /\ [x EXCEPT !.finalizer = FALSE] \in SCObject
    BY DEF SCObject
  <1>2. ASSUME NEW x \in VSCObject
        PROVE  [x EXCEPT !.phase = "terminating"] \in VSCObject /\ [x EXCEPT !.finalizer = FALSE] \in VSCObject
    BY DEF VSCObject
  <1> QED
    BY <1>1, <1>2, ObjectTypes DEF afterDelete, afterUnfinalize

\* Faults stay within their bound.
LEMMA SpendType ==
    ASSUME faults \in 0..MaxFaults, NEW o, Fault \/ Spend(o)
    PROVE  faults' \in 0..MaxFaults
  BY BoundsAssumption DEF Spend, Fault

\* A pass that fails or goes on stays a pass.
LEMMA PassMoves ==
    ASSUME pass \in PassRecord, NEW o, NEW legal, NEW step \in PassSteps,
           \/ Fail \/ Goto(step) \/ Proceed(o, legal, step)
    PROVE  pass' \in PassRecord
  <1>1. \A st \in PassSteps : [pass EXCEPT !.step = st] \in PassRecord
    BY DEF PassRecord
  <1>2. [pass EXCEPT !.step = "publish", !.failed = TRUE, !.requeue = TRUE] \in PassRecord
    BY DEF PassRecord, PassSteps
  <1> QED
    BY <1>1, <1>2 DEF Fail, Goto, Proceed

\* A write leaves an object, whether it is accepted or not.
LEMMA WriteTypes ==
    ASSUME TypeOK, NEW o, NEW legal
    PROVE  /\ \A new \in ClassObject : WriteClass(o, legal, new) =>
                 class' \in ClassObject /\ lag' \subseteq Parts
           /\ \A new \in SCObject : WriteSC(o, legal, new) =>
                 sc' \in SCObject /\ lag' \subseteq Parts
           /\ \A new \in VSCObject : WriteVSC(o, legal, new) =>
                 vsc' \in VSCObject /\ lag' \subseteq Parts
  BY DEF TypeOK, WriteClass, WriteSC, WriteVSC, Parts

\* A user's write leaves a pass and a set of parts.
LEMMA OutdatesType ==
    ASSUME TypeOK, NEW part \in Parts, Outdates(part)
    PROVE  pass' \in PassRecord /\ lag' \subseteq Parts
  BY DEF TypeOK, Outdates, PassRecord

\* The controller starts with every variable of its type.
THEOREM TypeInitially == Init => TypeOK
  <1> SUFFICES ASSUME Init PROVE TypeOK
    OBVIOUS
  <1>1. class \in ClassObject
    BY GoneType, BoundsAssumption DEF Init
  <1>2. sc \in SCObject /\ vsc \in VSCObject /\ cid \in Cids
    BY ObjectTypes DEF Init, Cids
  <1>3. seen \in ServerRecord
    BY <1>1, <1>2 DEF Init, server, ServerRecord, Cids
  <1>4. faults \in 0..MaxFaults
    BY BoundsAssumption DEF Init
  <1> QED
    BY <1>1, <1>2, <1>3, <1>4, NoPassType DEF Init, TypeOK, Cids

\* What users may ask of the StorageClass are StorageClasses.
LEMMA RequestTypes ==
    ASSUME TypeOK, NEW r \in userRequests
    PROVE  r.new \in SCObject
  <1>0. sc \in SCObject
    BY DEF TypeOK
  <1>1. CASE sc.phase = "absent"
    <2>1. r.new = ForeignSC \/ \E s \in ValidSpecs : r.new = OwnSC(s)
      BY <1>1 DEF userRequests
    <2>2. \A s \in ValidSpecs : OwnSC(s) \in SCObject
      BY ObjectTypes DEF OwnSC, SCObject, Specs
    <2> QED
      BY <2>1, <2>2, ObjectTypes
  <1>2. CASE sc.phase # "absent"
    <2>1. \/ r.new = afterDelete(sc, NoSC)
          \/ r.new \in {[sc EXCEPT !.marked = TRUE], [sc EXCEPT !.finalizer = FALSE]}
          \/ \E l \in 0..MaxEdits : r.new = [sc EXCEPT !.labels = l]
      BY <1>2 DEF userRequests
    <2>2. /\ [sc EXCEPT !.marked = TRUE] \in SCObject
          /\ [sc EXCEPT !.finalizer = FALSE] \in SCObject
          /\ \A l \in 0..MaxEdits : [sc EXCEPT !.labels = l] \in SCObject
      BY <1>0 DEF SCObject
    <2> QED
      BY <1>0, <2>1, <2>2, AfterTypes
  <1> QED
    BY <1>1, <1>2

\* A user's write to the class leaves the types.
LEMMA UserWritesClassType ==
    ASSUME TypeOK, NEW new \in ClassObject, UserWritesClass(new), marked' \in BOOLEAN
    PROVE  TypeOK'
  <1>1. pass' \in PassRecord /\ lag' \subseteq Parts
    BY OutdatesType DEF UserWritesClass, Parts
  <1> QED
    BY <1>1 DEF TypeOK, UserWritesClass

\* Users keep the types.
LEMMA TypeStepUser == TypeOK /\ User => TypeOK'
  <1> SUFFICES ASSUME TypeOK, User PROVE TypeOK'
    OBVIOUS
  <1>0. class \in ClassObject /\ "class" \in Parts /\ "sc" \in Parts /\ "vsc" \in Parts
        /\ "cid" \in Parts
    BY DEF TypeOK, Parts
  <1>1. CASE CreateClass
    <2>1. PICK s \in Specs : UserWritesClass([Gone(class.life + 1) EXCEPT !.phase = "live",
                                                  !.gen = 1, !.spec = s])
      BY <1>1 DEF CreateClass
    <2>2. class.life + 1 \in 0..MaxLives
      BY <1>0, <1>1, BoundsAssumption DEF CreateClass, ClassObject
    <2>3. [Gone(class.life + 1) EXCEPT !.phase = "live", !.gen = 1, !.spec = s] \in ClassObject
      <3>1. Gone(class.life + 1) \in ClassObject /\ 1 \in 0..2
        BY <2>2, GoneType
      <3>2. ASSUME NEW g \in ClassObject
            PROVE  [g EXCEPT !.phase = "live", !.gen = 1, !.spec = s] \in ClassObject
        BY <3>1, ZenonT(40) DEF ClassObject
      <3> QED
        BY <3>1, <3>2
    <2> QED
      BY <1>1, <2>1, <2>3, UserWritesClassType DEF CreateClass, TypeOK
  <1>2. CASE CompleteSpec
    <2>1. PICK s \in ValidSpecs : UserWritesClass([class EXCEPT !.spec = s, !.gen = 2])
      BY <1>2 DEF CompleteSpec
    <2>2. [class EXCEPT !.spec = s, !.gen = 2] \in ClassObject
      <3>1. s \in Specs \cup {NoSpec} /\ 2 \in 0..2
        BY DEF Specs
      <3> QED
        BY <1>0, <3>1, ZenonT(40) DEF ClassObject
    <2> QED
      BY <1>2, <2>1, <2>2, UserWritesClassType DEF CompleteSpec, TypeOK
  <1>3. CASE EditLabels
    <2>1. class.labels + 1 \in 0..MaxEdits
      BY <1>0, <1>3, BoundsAssumption DEF EditLabels, ClassObject
    <2>2. [class EXCEPT !.labels = @ + 1] \in ClassObject
      BY <1>0, <2>1 DEF ClassObject
    <2> QED
      BY <1>3, <2>2, UserWritesClassType DEF EditLabels, TypeOK
  <1>4. CASE DeleteClass
    <2>1. [class EXCEPT !.phase = "deleting"] \in ClassObject
      BY <1>0 DEF ClassObject
    <2>2. Gone(class.life) \in ClassObject
      BY <1>0, GoneType DEF ClassObject
    <2> QED
      BY <1>4, <2>1, <2>2, UserWritesClassType DEF DeleteClass
  <1>5. CASE MeddleWithSC
    <2>1. sc' \in SCObject /\ marked' \in BOOLEAN
      <3>1. PICK r \in userRequests :
               sc' = r.new /\ marked' = (marked \/ (class.phase = "live" /\ r.new.marked))
        BY <1>5 DEF MeddleWithSC
      <3>2. r.new \in SCObject
        BY RequestTypes
      <3> QED
        BY <3>1, <3>2
    <2> QED
      BY <1>0, <1>5, <2>1, OutdatesType, SpendType DEF TypeOK, MeddleWithSC
  <1>6. CASE MeddleWithVSC
    <2>1. vsc' \in VSCObject
      BY <1>6, AfterTypes, ObjectTypes DEF MeddleWithVSC, TypeOK
    <2> QED
      BY <1>0, <1>6, <2>1, OutdatesType, SpendType DEF TypeOK, MeddleWithVSC
  <1>7. CASE MeddleWithConnection
    <2>1. cid' \in Cids
      BY <1>7 DEF MeddleWithConnection, Cids
    <2> QED
      BY <1>0, <1>7, <2>1, OutdatesType, SpendType DEF TypeOK, MeddleWithConnection, Cids
  <1>8. CASE InstallSnapshotCRD
    BY <1>8 DEF TypeOK, InstallSnapshotCRD
  <1> QED
    BY <1>1, <1>2, <1>3, <1>4, <1>5, <1>6, <1>7, <1>8 DEF User

\* The informer cache keeps the types.
LEMMA TypeStepSync == TypeOK /\ (\E part \in Parts : Sync(part)) => TypeOK'
  <1> SUFFICES ASSUME TypeOK, NEW part \in Parts, Sync(part) PROVE TypeOK'
    OBVIOUS
  <1>1. seen' \in ServerRecord
    <2>1. seen \in ServerRecord /\ server \in ServerRecord
      BY ServerType DEF TypeOK
    <2>2. seen' = [seen EXCEPT ![part] = server[part]]
      BY DEF Sync
    <2>3. CASE part = "class"
      BY <2>1, <2>2, <2>3 DEF ServerRecord
    <2>4. CASE part = "sc"
      BY <2>1, <2>2, <2>4 DEF ServerRecord
    <2>5. CASE part = "vsc"
      BY <2>1, <2>2, <2>5 DEF ServerRecord
    <2>6. CASE part = "cid"
      BY <2>1, <2>2, <2>6 DEF ServerRecord
    <2> QED
      BY <2>3, <2>4, <2>5, <2>6 DEF Parts
  <1> QED
    BY <1>1 DEF TypeOK, Sync

\* The start of a pass keeps the types.
LEMMA TypeStepStart == TypeOK /\ Start => TypeOK'
  <1> SUFFICES ASSUME TypeOK, NEW mapped \in BOOLEAN, StartReconcile(mapped) PROVE TypeOK'
    BY DEF Start
  <1>0. seen \in ServerRecord
    BY DEF TypeOK
  <1>1. pass' \in PassRecord
    <2>1. CASE seen.class.phase = "absent"
      BY <2>1 DEF TypeOK, StartReconcile
    <2>2. CASE seen.class.phase # "absent"
      <3>1. firstStep(seen.class) \in PassSteps
        BY DEF firstStep, PassSteps
      <3>2. pass' = [step |-> firstStep(seen.class), copies |-> seen,
                     current |-> Parts \ lag, mapped |-> mapped, cid |-> NoCid,
                     failed |-> firstStep(seen.class) = "publish", requeue |-> FALSE]
        BY <2>2 DEF StartReconcile
      <3> QED
        BY <1>0, <3>1, <3>2 DEF PassRecord
    <2> QED
      BY <2>1, <2>2
  <1>2. faults' \in 0..MaxFaults
    BY SpendType DEF TypeOK, StartReconcile, VolumeSnapshotClassCRDExists
  <1> QED
    BY <1>1, <1>2 DEF TypeOK, StartReconcile

\* Each call of a pass keeps the types.
LEMMA TypeStepWork == TypeOK /\ Work => TypeOK'
  <1> SUFFICES ASSUME TypeOK, Work PROVE TypeOK'
    OBVIOUS
  <1>0. /\ pass \in PassRecord /\ pass.cid \in Cids
        /\ obj \in ClassObject /\ oldSC \in SCObject /\ oldVSClass \in VSCObject
        /\ faults \in 0..MaxFaults /\ class \in ClassObject
        /\ sc \in SCObject /\ vsc \in VSCObject
    BY CopyTypes DEF TypeOK
  <1>1. ASSUME NEW o \in Outcomes, addFinalizerIfNotExists(o) PROVE TypeOK'
    <2> DEFINE claimed == [obj EXCEPT !.finalizer = TRUE]
    <2>1. claimed \in ClassObject
      BY <1>0 DEF ClassObject
    <2>2. class' \in ClassObject /\ lag' \subseteq Parts
      BY <1>1, <2>1, WriteTypes DEF TypeOK, addFinalizerIfNotExists
    <2>3. pass' \in PassRecord
      <3>1. [pass EXCEPT !.step = "clusterID", !.copies.class = claimed] \in PassRecord
        <4>1. pass.copies \in ServerRecord
          BY <1>0 DEF PassRecord
        <4>2. [pass.copies EXCEPT !.class = claimed] \in ServerRecord
          BY <2>1, <4>1 DEF ServerRecord
        <4>3. [pass EXCEPT !.step = "clusterID", !.copies.class = claimed]
                = [pass EXCEPT !.step = "clusterID", !.copies = [pass.copies EXCEPT !.class = claimed]]
          BY <1>0 DEF PassRecord
        <4> QED
          BY <1>0, <4>2, <4>3 DEF PassRecord, PassSteps
      <3> QED
        BY <1>0, <1>1, <3>1, PassMoves DEF addFinalizerIfNotExists, PassSteps
    <2>4. faults' \in 0..MaxFaults
      BY <1>0, <1>1, SpendType DEF addFinalizerIfNotExists
    <2> QED
      BY <1>1, <2>2, <2>3, <2>4 DEF TypeOK, addFinalizerIfNotExists
  <1>2. ASSUME NEW o \in Outcomes, getClusterID(o) PROVE TypeOK'
    <2>1. seen.cid \in Cids
      BY DEF TypeOK, ServerRecord, Cids
    <2>2. pass' \in PassRecord
      <3>1. [pass EXCEPT !.step = "class", !.cid = seen.cid] \in PassRecord
        BY <1>0, <2>1 DEF PassRecord, PassSteps, Cids
      <3>2. Fail => pass' \in PassRecord
        BY <1>0, PassMoves DEF PassSteps
      <3> QED
        BY <1>2, <3>1, <3>2 DEF getClusterID
    <2>3. faults' \in 0..MaxFaults
      BY <1>0, <1>2, SpendType DEF getClusterID
    <2> QED
      BY <1>2, <2>2, <2>3 DEF TypeOK, getClusterID
  <1>3. ASSUME NEW o \in Outcomes,
               reconcileStorageClass(o) \/ reconcileStorageClassDelete(o)
        PROVE  TypeOK'
    <2>1. /\ ConfigureStorageClass(obj, pass.cid) \in SCObject
          /\ afterUnfinalize(oldSC, NoSC) \in SCObject
      BY <1>0, ConfigureTypes, AfterTypes
    <2>2. sc' \in SCObject /\ lag' \subseteq Parts
      BY <1>3, <2>1, WriteTypes
      DEF TypeOK, reconcileStorageClass, reconcileStorageClassDelete, CreateStorageClass, unfinalizeSC
    <2>3. pass' \in PassRecord
      BY <1>0, <1>3, PassMoves
      DEF reconcileStorageClass, reconcileStorageClassDelete, CreateStorageClass, unfinalizeSC,
          PassSteps
    <2>4. faults' \in 0..MaxFaults
      BY <1>0, <1>3, SpendType DEF reconcileStorageClass, reconcileStorageClassDelete
    <2> QED
      BY <1>3, <2>2, <2>3, <2>4 DEF TypeOK, reconcileStorageClass, reconcileStorageClassDelete
  <1>4. ASSUME NEW o \in Outcomes, deleteStorageClass(o) \/ recreateStorageClass(o)
        PROVE  TypeOK'
    <2>1. /\ updateStorageClass(obj, oldSC, pass.cid) \in SCObject
          /\ afterDelete(sc, NoSC) \in SCObject
      BY <1>0, ConfigureTypes, AfterTypes
    <2>2. sc' \in SCObject /\ lag' \subseteq Parts
      BY <1>4, <2>1, WriteTypes DEF deleteStorageClass, recreateStorageClass, CreateStorageClass
    <2>3. pass' \in PassRecord
      BY <1>0, <1>4, PassMoves
      DEF deleteStorageClass, recreateStorageClass, CreateStorageClass, PassSteps
    <2>4. faults' \in 0..MaxFaults
      BY <1>0, <1>4, SpendType DEF deleteStorageClass, recreateStorageClass
    <2> QED
      BY <1>4, <2>2, <2>3, <2>4 DEF TypeOK, deleteStorageClass, recreateStorageClass
  <1>5. ASSUME NEW o \in Outcomes,
               \/ reconcileVolumeSnapshotClass(o)
               \/ reconcileVolumeSnapshotClassDelete(o)
               \/ deleteVolumeSnapshotClass(o)
        PROVE  TypeOK'
    <2>1. /\ ConfigureVSClass(obj, pass.cid) \in VSCObject
          /\ afterDelete(vsc, NoVSC) \in VSCObject
          /\ afterUnfinalize(oldVSClass, NoVSC) \in VSCObject
      BY <1>0, ConfigureTypes, AfterTypes
    <2>2. [ConfigureVSClass(obj, pass.cid) EXCEPT !.phase = oldVSClass.phase] \in VSCObject
      BY <1>0, <2>1 DEF VSCObject
    <2>3. vsc' \in VSCObject /\ lag' \subseteq Parts
      BY <1>5, <2>1, <2>2, WriteTypes
      DEF TypeOK, reconcileVolumeSnapshotClass, reconcileVolumeSnapshotClassDelete,
          deleteVolumeSnapshotClass
    <2>4. pass' \in PassRecord
      BY <1>0, <1>5, PassMoves
      DEF reconcileVolumeSnapshotClass, reconcileVolumeSnapshotClassDelete,
          deleteVolumeSnapshotClass, PassSteps
    <2>5. faults' \in 0..MaxFaults
      BY <1>0, <1>5, SpendType
      DEF reconcileVolumeSnapshotClass, reconcileVolumeSnapshotClassDelete,
          deleteVolumeSnapshotClass
    <2> QED
      BY <1>5, <2>3, <2>4, <2>5
      DEF TypeOK, reconcileVolumeSnapshotClass, reconcileVolumeSnapshotClassDelete,
          deleteVolumeSnapshotClass
  <1>6. ASSUME NEW o \in Outcomes, removeFinalizerIfExists(o) PROVE TypeOK'
    <2>1. Gone(obj.life) \in ClassObject
      BY <1>0, GoneType DEF ClassObject
    <2>2. class' \in ClassObject /\ lag' \subseteq Parts
      BY <1>6, <2>1, WriteTypes DEF TypeOK, removeFinalizerIfExists
    <2>3. pass' \in PassRecord
      BY <1>0, <1>6, PassMoves DEF removeFinalizerIfExists, PassSteps
    <2>4. faults' \in 0..MaxFaults
      BY <1>0, <1>6, SpendType DEF removeFinalizerIfExists
    <2> QED
      BY <1>6, <2>2, <2>3, <2>4 DEF TypeOK, removeFinalizerIfExists
  <1>7. ASSUME NEW o \in Outcomes, updateCephStorageClassStatus(o) PROVE TypeOK'
    <2>1. verdict \in ClassObject
      BY <1>0 DEF verdict, ClassObject
    <2>2. class' \in ClassObject /\ lag' \subseteq Parts
      BY <1>7, <2>1, WriteTypes DEF updateCephStorageClassStatus
    <2>3. faults' \in 0..MaxFaults
      BY <1>0, <1>7, SpendType DEF updateCephStorageClassStatus
    <2>4. queued' \in BOOLEAN
      BY <1>0, <1>7 DEF TypeOK, updateCephStorageClassStatus
    <2> QED
      BY <1>7, <2>2, <2>3, <2>4, NoPassType DEF TypeOK, updateCephStorageClassStatus
  <1> QED
    BY <1>1, <1>2, <1>3, <1>4, <1>5, <1>6, <1>7 DEF Work

\* Every step keeps the types.
LEMMA TypeStep == TypeOK /\ [Next]_vars => TypeOK'
  <1> SUFFICES ASSUME TypeOK, [Next]_vars PROVE TypeOK'
    OBVIOUS
  <1>1. CASE UNCHANGED vars
    BY <1>1 DEF vars, TypeOK
  <1>2. CASE CrashRestart
    <2>1. seen' \in ServerRecord /\ queued' \in BOOLEAN
      BY <1>2, ServerType DEF CrashRestart
    <2> QED
      BY <1>2, <2>1, SpendType, NoPassType DEF TypeOK, CrashRestart, NewConfig
  <1> QED
    BY <1>1, <1>2, TypeStepUser, TypeStepSync, TypeStepStart, TypeStepWork DEF Next

\* Every variable of the model stays what its comment says, in every behaviour.
THEOREM TypeCorrect == Spec => []TypeOK
  BY TypeInitially, TypeStep, PTL DEF Spec
-----------------------------------------------------------------------------
\* Teardown.  The invariant below is what makes NoOrphans inductive when the cached
\* copies a pass starts from are current and the mapper does not fail.

Deleting == obj.phase = "deleting"
OwnsSC == sc.phase # "absent" /\ ~sc.foreign
OwnsVSC == vsc.phase # "absent" /\ ~vsc.foreign

\* The steps of a teardown, those for a live class, and all that come after the
\* finalizer.
Teardown == {"teardown", "teardownVSC", "deleteVSC", "release"}
Live == {"clusterID", "class", "recreateSC", "snapshots"}
Past == Teardown \cup Live \cup {"deleteSC"}

\* The finalizer and the phase of an object go together; what the controller did not
\* make carries none, and without the CRDs there is no VolumeSnapshotClass.
ObjectShape ==
    /\ class.phase = "absent" => ~class.finalizer
    /\ class.phase = "deleting" => class.finalizer
    /\ ~OwnsSC => ~sc.finalizer
    /\ ~OwnsVSC => ~vsc.finalizer
    /\ ~crd => vsc.phase = "absent"

\* A cached copy that does not lag is the server's.
CacheShape ==
    /\ "class" \notin lag => seen.class = class
    /\ "sc" \notin lag => seen.sc = sc
    /\ "vsc" \notin lag => seen.vsc = vsc

\* The pass holds the finalizer once it is past that step, and nobody writes to a class
\* that is being deleted but the pass itself.
PassShape ==
    /\ pass.step \in Past \cup {"finalizer"} => obj.phase # "absent"
    /\ pass.step \in Past \cup {"finalizer"} /\ "class" \in pass.current => class = obj
    /\ pass.step \in Past => obj.finalizer
    /\ pass.step \in Past \cup {"finalizer"} /\ obj.finalizer => class.finalizer
    /\ pass.step \in Past /\ Deleting => "class" \in pass.current
    /\ pass.step \in Teardown => Deleting
    /\ pass.step \in Live \cup {"finalizer"} => ~Deleting
    /\ pass.mapped => crd

\* The copies overlook nothing: what the controller owns is in them, and has a
\* finalizer only if the copy has.
mineVSC == pass.mapped /\ oldVSClass.phase # "absent" /\ ~oldVSClass.foreign
Overlooked ==
    /\ pass.step = "teardown" =>
          /\ OwnsSC => oldSC.phase # "absent" /\ ~oldSC.foreign
          /\ ~oldSC.finalizer => ~sc.finalizer
    /\ pass.step \in {"teardown", "teardownVSC"} \/ (pass.step = "deleteSC" /\ Deleting) =>
          /\ OwnsVSC => mineVSC
          /\ ~oldVSClass.finalizer => ~vsc.finalizer

\* What a teardown has done by the step it is at.
TeardownShape ==
    /\ pass.step = "deleteSC" /\ Deleting => ~sc.finalizer
    /\ pass.step \in {"teardownVSC", "deleteVSC", "release"} => ~OwnsSC
    /\ pass.step = "deleteVSC" => ~vsc.finalizer
    /\ pass.step = "release" => ~OwnsVSC

Held == ~class.finalizer => ~OwnsSC /\ ~OwnsVSC

TeardownShapes ==
    /\ ObjectShape /\ CacheShape /\ PassShape
    /\ Overlooked /\ TeardownShape /\ Held

TeardownInv == TypeOK /\ TeardownShapes

\* The shapes hold at the start.
LEMMA TeardownInitially == Init => TeardownShapes
  <1> SUFFICES ASSUME Init PROVE TeardownShapes
    OBVIOUS
  <1>1. /\ class.phase = "absent" /\ ~class.finalizer
        /\ sc.phase = "absent" /\ ~sc.finalizer /\ vsc.phase = "absent" /\ ~vsc.finalizer
        /\ pass.step = "idle" /\ pass.mapped = FALSE
    BY DEF Init, Gone, NoSC, NoVSC, NoPass
  <1>2. seen.class = class /\ seen.sc = sc /\ seen.vsc = vsc
    BY DEF Init, server
  <1> QED
    BY <1>1, <1>2 DEF TeardownShapes, ObjectShape, CacheShape, PassShape, Overlooked,
       TeardownShape, Held, OwnsSC, OwnsVSC, Past, Teardown, Live

\* The pass's view of itself after a user's write.
LEMMA PassOutdated ==
    ASSUME TypeOK, NEW part \in Parts, Outdates(part)
    PROVE  /\ pass'.step = pass.step /\ pass'.copies = pass.copies /\ pass'.mapped = pass.mapped
           /\ pass'.current = pass.current \ {part} /\ lag' = lag \cup {part}
           /\ obj' = obj /\ oldSC' = oldSC /\ oldVSClass' = oldVSClass
  BY DEF TypeOK, Outdates, PassRecord, obj, oldSC, oldVSClass

\* The webhook lets no user create a StorageClass of ours, or put a finalizer on one.
LEMMA UserKeepsSC ==
    ASSUME TypeOK, ObjectShape, MeddleWithSC
    PROVE  /\ OwnsSC' => OwnsSC
           /\ sc'.finalizer => sc.finalizer /\ OwnsSC'
  <1>0. sc \in SCObject
    BY DEF TypeOK
  <1>1. PICK r \in userRequests : SCValidate(r.operation, sc, r.new) /\ sc' = r.new
    BY DEF MeddleWithSC
  <1>2. CASE sc.phase = "absent"
    <2>1. r.operation = "create"
      BY <1>2 DEF userRequests
    <2>2. r.new.foreign
      BY <1>1, <2>1 DEF SCValidate
    <2>3. r.new = ForeignSC \/ \E s \in ValidSpecs : r.new = OwnSC(s)
      BY <1>2 DEF userRequests
    <2>4. \A s \in ValidSpecs : ~OwnSC(s).foreign
      BY DEF OwnSC, NoSC
    <2>5. ~ForeignSC.finalizer
      BY DEF ForeignSC, NoSC
    <2> QED
      BY <1>1, <2>2, <2>3, <2>4, <2>5 DEF OwnsSC
  <1>3. CASE sc.phase # "absent" /\ r.operation = "update"
    <2>1. ~sc.foreign /\ \/ r.new \in {[sc EXCEPT !.marked = TRUE], [sc EXCEPT !.finalizer = FALSE]}
                         \/ \E l \in 0..MaxEdits : r.new = [sc EXCEPT !.labels = l]
      BY <1>3 DEF userRequests
    <2>2. ~r.new.foreign
      BY <1>0, <2>1 DEF SCObject
    <2>3. r.new = [sc EXCEPT !.marked = r.new.marked]
      BY <1>1, <1>3, <2>2 DEF SCValidate, isStorageClassChangedExceptAnnotations
    <2> QED
      BY <1>0, <1>1, <2>3 DEF ObjectShape, OwnsSC, SCObject
  <1>4. CASE sc.phase # "absent" /\ r.operation # "update"
    <2>1. r.operation = "delete" /\ r.new = afterDelete(sc, NoSC)
      BY <1>4 DEF userRequests
    <2>2. sc.foreign
      BY <1>1, <2>1 DEF SCValidate
    <2>3. r.new = NoSC
      BY <2>1, <2>2 DEF afterDelete, ObjectShape, OwnsSC
    <2> QED
      BY <1>1, <2>3 DEF OwnsSC, NoSC
  <1> QED
    BY <1>2, <1>3, <1>4

\* A user makes no VolumeSnapshotClass of ours.
LEMMA UserKeepsVSC ==
    ASSUME TypeOK, ObjectShape, MeddleWithVSC
    PROVE  /\ OwnsVSC' => OwnsVSC
           /\ vsc'.finalizer => vsc.finalizer /\ OwnsVSC'
  <1>0. vsc \in VSCObject
    BY DEF TypeOK
  <1>1. \/ vsc' = ForeignVSC
        \/ vsc' = NoVSC
        \/ vsc.phase = "live" /\ vsc' = [vsc EXCEPT !.phase = "terminating"]
    BY DEF MeddleWithVSC, afterDelete
  <1>2. ForeignVSC.foreign /\ ~ForeignVSC.finalizer /\ NoVSC.phase = "absent" /\ ~NoVSC.finalizer
    BY DEF ForeignVSC, NoVSC
  <1> QED
    BY <1>0, <1>1, <1>2 DEF ObjectShape, OwnsVSC, VSCObject

\* A user's write to a class that keeps its finalizer as it was.
LEMMA TeardownUserWritesClass ==
    ASSUME TypeOK, TeardownShapes, NEW new \in ClassObject, UserWritesClass(new),
           class.phase # "deleting", new.finalizer = class.finalizer,
           new.phase = "absent" => ~new.finalizer,
           new.phase = "deleting" => new.finalizer
    PROVE  TeardownShapes'
  <1>1. /\ pass'.step = pass.step /\ pass'.mapped = pass.mapped
        /\ pass'.current = pass.current \ {"class"} /\ lag' = lag \cup {"class"}
        /\ obj' = obj /\ oldSC' = oldSC /\ oldVSClass' = oldVSClass
    BY PassOutdated DEF UserWritesClass, Parts
  <1>2. /\ class' = new /\ UNCHANGED <<sc, vsc, crd, seen>>
    BY DEF UserWritesClass
  <1>3. PassShape'
    BY <1>1, <1>2 DEF TeardownShapes, PassShape, Deleting, Past, Teardown, Live
  <1> QED
    BY <1>1, <1>2, <1>3 DEF TeardownShapes, ObjectShape, CacheShape, Overlooked, TeardownShape,
       Held, OwnsSC, OwnsVSC, Deleting, mineVSC

\* What users do to the other objects keeps the shapes.
LEMMA TeardownMeddle ==
    ASSUME TypeOK, TeardownShapes, NEW part \in {"sc", "vsc", "cid"}, Outdates(part),
           UNCHANGED <<class, crd, seen>>,
           part # "sc" => UNCHANGED sc, part # "vsc" => UNCHANGED vsc,
           part = "vsc" => crd,
           OwnsSC' => OwnsSC, sc'.finalizer => sc.finalizer /\ OwnsSC',
           OwnsVSC' => OwnsVSC, vsc'.finalizer => vsc.finalizer /\ OwnsVSC'
    PROVE  TeardownShapes'
  <1>1. /\ pass'.step = pass.step /\ pass'.mapped = pass.mapped
        /\ pass'.current = pass.current \ {part} /\ lag' = lag \cup {part}
        /\ obj' = obj /\ oldSC' = oldSC /\ oldVSClass' = oldVSClass
    BY PassOutdated DEF Parts
  <1>2. ObjectShape' /\ CacheShape' /\ Held'
    BY <1>1 DEF TeardownShapes, ObjectShape, CacheShape, Held
  <1>3. PassShape'
    BY <1>1 DEF TeardownShapes, PassShape, Deleting
  <1>4. Overlooked' /\ TeardownShape'
    BY <1>1 DEF TeardownShapes, Overlooked, TeardownShape, Deleting, mineVSC
  <1> QED
    BY <1>2, <1>3, <1>4 DEF TeardownShapes

\* Users keep the shapes.
LEMMA TeardownStepUser ==
    ASSUME TypeOK, TeardownShapes, User
    PROVE  TeardownShapes'
  <1>0. class \in ClassObject /\ ObjectShape
    BY DEF TypeOK, TeardownShapes
  <1>1. CASE CreateClass
    <2> DEFINE new(s) == [Gone(class.life + 1) EXCEPT !.phase = "live", !.gen = 1, !.spec = s]
    <2>1. PICK s \in Specs : UserWritesClass(new(s))
      BY <1>1 DEF CreateClass
    <2>2. class' \in ClassObject /\ class' = new(s)
      BY <2>1, <1>1, TypeStepUser DEF UserWritesClass, User, TypeOK
    <2>3. new(s).phase = "live" /\ new(s).finalizer = FALSE
      BY DEF Gone
    <2>4. class.phase = "absent" /\ class.finalizer = FALSE
      BY <1>0, <1>1 DEF CreateClass, ObjectShape, ClassObject
    <2> HIDE DEF new
    <2> QED
      BY <2>1, <2>2, <2>3, <2>4, TeardownUserWritesClass
  <1>2. CASE CompleteSpec
    <2> DEFINE new(s) == [class EXCEPT !.spec = s, !.gen = 2]
    <2>1. PICK s \in ValidSpecs : UserWritesClass(new(s))
      BY <1>2 DEF CompleteSpec
    <2>2. class' \in ClassObject /\ class' = new(s)
      BY <2>1, <1>2, TypeStepUser DEF UserWritesClass, User, TypeOK
    <2>3. class.phase = "live" /\ new(s).phase = "live" /\ new(s).finalizer = class.finalizer
      BY <1>0, <1>2 DEF CompleteSpec, ClassObject
    <2> HIDE DEF new
    <2> QED
      BY <2>1, <2>2, <2>3, TeardownUserWritesClass
  <1>3. CASE EditLabels
    <2> DEFINE new == [class EXCEPT !.labels = @ + 1]
    <2>1. UserWritesClass(new)
      BY <1>3 DEF EditLabels
    <2>2. class' \in ClassObject /\ class' = new
      BY <2>1, <1>3, TypeStepUser DEF UserWritesClass, User, TypeOK
    <2>3. class.phase = "live" /\ new.phase = "live" /\ new.finalizer = class.finalizer
      BY <1>0, <1>3 DEF EditLabels, ClassObject
    <2> HIDE DEF new
    <2> QED
      BY <2>1, <2>2, <2>3, TeardownUserWritesClass
  <1>4. CASE DeleteClass
    <2> DEFINE new == IF class.finalizer THEN [class EXCEPT !.phase = "deleting"]
                      ELSE Gone(class.life)
    <2>1. UserWritesClass(new)
      BY <1>4 DEF DeleteClass
    <2>2. class' \in ClassObject /\ class' = new
      BY <2>1, <1>4, TypeStepUser DEF UserWritesClass, User, TypeOK
    <2>3. /\ class.phase = "live" /\ new.finalizer = class.finalizer
          /\ new.phase = "absent" => ~new.finalizer
          /\ new.phase = "deleting" => new.finalizer
      BY <1>0, <1>4 DEF DeleteClass, ClassObject, Gone
    <2> HIDE DEF new
    <2> QED
      BY <2>1, <2>2, <2>3, TeardownUserWritesClass
  <1>5. CASE MeddleWithSC
    <2>1. Outdates("sc") /\ UNCHANGED <<class, vsc, crd, seen>>
      BY <1>5 DEF MeddleWithSC
    <2> QED
      BY <1>0, <1>5, <2>1, UserKeepsSC, TeardownMeddle DEF ObjectShape, OwnsVSC
  <1>6. CASE MeddleWithVSC
    <2>1. Outdates("vsc") /\ UNCHANGED <<class, sc, crd, seen>> /\ crd
      BY <1>6 DEF MeddleWithVSC
    <2> QED
      BY <1>0, <1>6, <2>1, UserKeepsVSC, TeardownMeddle DEF ObjectShape, OwnsSC
  <1>7. CASE MeddleWithConnection
    <2>1. Outdates("cid") /\ UNCHANGED <<class, sc, vsc, crd, seen>>
      BY <1>7 DEF MeddleWithConnection
    <2> QED
      BY <1>0, <2>1, TeardownMeddle DEF ObjectShape, OwnsSC, OwnsVSC
  <1>8. CASE InstallSnapshotCRD
    BY <1>8 DEF InstallSnapshotCRD, TeardownShapes, ObjectShape, CacheShape, PassShape, Overlooked,
       TeardownShape, Held, OwnsSC, OwnsVSC, Deleting, mineVSC, obj, oldSC, oldVSClass
  <1> QED
    BY <1>1, <1>2, <1>3, <1>4, <1>5, <1>6, <1>7, <1>8 DEF User

\* The informer cache keeps the shapes.
LEMMA TeardownStepSync ==
    ASSUME TypeOK, TeardownShapes, NEW part \in Parts, Sync(part)
    PROVE  TeardownShapes'
  <1>1. seen \in ServerRecord
    BY DEF TypeOK
  <1>2. /\ UNCHANGED <<class, sc, vsc, crd, pass>> /\ lag' = lag \ {part}
        /\ seen' = [seen EXCEPT ![part] = server[part]]
    BY DEF Sync
  <1>3. CacheShape'
    <2>1. CASE part = "class"
      BY <1>1, <1>2, <2>1 DEF TeardownShapes, CacheShape, server, ServerRecord
    <2>2. CASE part = "sc"
      BY <1>1, <1>2, <2>2 DEF TeardownShapes, CacheShape, server, ServerRecord
    <2>3. CASE part = "vsc"
      BY <1>1, <1>2, <2>3 DEF TeardownShapes, CacheShape, server, ServerRecord
    <2>4. CASE part = "cid"
      BY <1>1, <1>2, <2>4 DEF TeardownShapes, CacheShape, server, ServerRecord
    <2> QED
      BY <2>1, <2>2, <2>3, <2>4 DEF Parts
  <1> QED
    BY <1>2, <1>3 DEF TeardownShapes, ObjectShape, PassShape, Overlooked, TeardownShape, Held,
       OwnsSC, OwnsVSC, Deleting, mineVSC, obj, oldSC, oldVSClass

\* A restart keeps the shapes.
LEMMA TeardownStepRestart ==
    ASSUME TypeOK, TeardownShapes, CrashRestart
    PROVE  TeardownShapes'
  <1>1. pass'.step = "idle" /\ pass'.mapped = FALSE
    BY DEF CrashRestart, NoPass
  <1>2. seen'.class = class /\ seen'.sc = sc /\ seen'.vsc = vsc
    BY DEF CrashRestart, server
  <1> QED
    BY <1>1, <1>2 DEF CrashRestart, TeardownShapes, ObjectShape, CacheShape, PassShape, Overlooked,
       TeardownShape, Held, OwnsSC, OwnsVSC, Past, Teardown, Live

\* The start of a pass keeps the shapes.
LEMMA TeardownStepStart ==
    ASSUME StaleReads = FALSE, MapperFails = FALSE, TypeOK, TeardownShapes, Start
    PROVE  TeardownShapes'
  <1>1. PICK mapped \in BOOLEAN : StartReconcile(mapped)
    BY DEF Start
  <1>2. /\ seen.class = class /\ seen.sc = sc /\ seen.vsc = vsc
        /\ UNCHANGED <<class, sc, vsc, crd, seen, lag>>
        /\ "class" \notin lag
    BY <1>1 DEF StartReconcile, Fresh, TeardownShapes, CacheShape
  <1>3. CASE seen.class.phase = "absent"
    BY <1>1, <1>2, <1>3 DEF StartReconcile, TeardownShapes, ObjectShape, CacheShape, PassShape,
       Overlooked, TeardownShape, Held, OwnsSC, OwnsVSC, Deleting, mineVSC, obj, oldSC, oldVSClass
  <1>4. CASE seen.class.phase # "absent"
    <2>1. /\ pass'.step = firstStep(class) /\ pass'.mapped = crd
          /\ pass'.current = Parts \ lag
          /\ obj' = class /\ oldSC' = sc /\ oldVSClass' = vsc
      BY <1>1, <1>2, <1>4 DEF StartReconcile, VolumeSnapshotClassCRDExists, obj, oldSC, oldVSClass
    <2>2. /\ pass'.step \in {"teardown", "finalizer", "publish"}
          /\ pass'.step = "teardown" => class.phase = "deleting"
          /\ pass'.step = "finalizer" => class.phase # "deleting"
      BY <2>1 DEF firstStep
    <2>3. PassShape'
      BY <1>2, <1>4, <2>1, <2>2 DEF TeardownShapes, ObjectShape, PassShape, Deleting, Past, Teardown, Live,
         Parts
    <2>4. Overlooked' /\ TeardownShape'
      BY <1>2, <2>1, <2>2 DEF TeardownShapes, ObjectShape, Overlooked, TeardownShape, OwnsSC, OwnsVSC,
         Deleting, mineVSC
    <2> QED
      BY <1>2, <2>3, <2>4 DEF TeardownShapes, ObjectShape, CacheShape, Held, OwnsSC, OwnsVSC
  <1> QED
    BY <1>3, <1>4

\* What a call of a pass leaves of the pass.
LEMMA PassGoes ==
    ASSUME TypeOK, NEW o, NEW legal, NEW step,
           \/ Fail \/ Goto(step) \/ Proceed(o, legal, step)
    PROVE  /\ pass'.step \in {step, "publish"}
           /\ ~(legal /\ o = "ok") /\ Proceed(o, legal, step) => pass'.step = "publish"
           /\ pass'.mapped = pass.mapped /\ pass'.current = pass.current
           /\ obj' = obj /\ oldSC' = oldSC /\ oldVSClass' = oldVSClass
  BY DEF TypeOK, PassRecord, Fail, Goto, Proceed, obj, oldSC, oldVSClass

\* A call that ends the pass, and leaves the class and the CRDs alone, keeps the shapes
\* if the class is held.
LEMMA TeardownStepPublish ==
    ASSUME TypeOK, TeardownShapes, class.finalizer, pass'.step = "publish",
           pass'.mapped = pass.mapped, UNCHANGED <<class, crd, seen>>, lag \subseteq lag',
           UNCHANGED sc \/ "sc" \in lag', UNCHANGED vsc \/ ("vsc" \in lag' /\ crd),
           ~OwnsSC' => ~sc'.finalizer, ~OwnsVSC' => ~vsc'.finalizer
    PROVE  TeardownShapes'
  BY DEF TeardownShapes, ObjectShape, CacheShape, PassShape, Overlooked, TeardownShape, Held,
     Past, Teardown, Live

\* So does a call for a live class.
LEMMA TeardownStepLive ==
    ASSUME TypeOK, TeardownShapes, pass.step \in Live \cup {"deleteSC"}, ~Deleting,
           pass'.step \in Live \cup {"deleteSC", "publish"},
           obj' = obj, pass'.mapped = pass.mapped, pass'.current = pass.current,
           UNCHANGED <<class, crd, seen>>, lag \subseteq lag',
           UNCHANGED sc \/ "sc" \in lag', UNCHANGED vsc \/ ("vsc" \in lag' /\ crd),
           ~OwnsSC' => ~sc'.finalizer, ~OwnsVSC' => ~vsc'.finalizer
    PROVE  TeardownShapes'
  <1>1. class.finalizer
    BY DEF TeardownShapes, PassShape, Past
  <1>2. ObjectShape' /\ CacheShape' /\ Held'
    BY <1>1 DEF TeardownShapes, ObjectShape, CacheShape, Held
  <1>3. PassShape'
    BY DEF TeardownShapes, PassShape, Deleting, Past, Teardown, Live
  <1>4. Overlooked' /\ TeardownShape'
    BY DEF Overlooked, TeardownShape, Deleting, Live
  <1> QED
    BY <1>2, <1>3, <1>4 DEF TeardownShapes

\* What an object becomes in the controller's hands.
LEMMA ObjectsBecome ==
    ASSUME TypeOK, ObjectShape
    PROVE  /\ \A x \in SCObject : LET y == afterUnfinalize(x, NoSC)
                                      z == afterDelete(x, NoSC) IN
                 /\ ~y.finalizer
                 /\ ~x.finalizer => z = NoSC
                 /\ z.finalizer => x.finalizer /\ z.phase = "terminating" /\ z.foreign = x.foreign
           /\ \A x \in VSCObject : LET y == afterUnfinalize(x, NoVSC)
                                       z == afterDelete(x, NoVSC) IN
                 /\ ~y.finalizer
                 /\ ~x.finalizer => z = NoVSC
                 /\ z.finalizer => x.finalizer /\ z.phase = "terminating" /\ z.foreign = x.foreign
           /\ NoSC.phase = "absent" /\ ~NoSC.finalizer
           /\ NoVSC.phase = "absent" /\ ~NoVSC.finalizer
           /\ \A c, k : /\ ConfigureStorageClass(c, k).phase = "live"
                        /\ ~ConfigureStorageClass(c, k).foreign
           /\ \A c, k, old : /\ updateStorageClass(c, old, k).phase = "live"
                             /\ ~updateStorageClass(c, old, k).foreign
           /\ \A c, k : /\ ConfigureVSClass(c, k).phase = "live"
                        /\ ~ConfigureVSClass(c, k).foreign
           /\ \A c, k, p : /\ [ConfigureVSClass(c, k) EXCEPT !.phase = p].phase = p
                           /\ ~[ConfigureVSClass(c, k) EXCEPT !.phase = p].foreign
  BY DEF afterUnfinalize, afterDelete, NoSC, NoVSC, ConfigureStorageClass, updateStorageClass,
     ConfigureVSClass, SCObject, VSCObject

\* Putting the finalizer on a class keeps the shapes.
LEMMA TeardownStepFinalizer ==
    ASSUME TypeOK, TeardownShapes, NEW o, addFinalizerIfNotExists(o)
    PROVE  TeardownShapes'
  <1> DEFINE claimed == [obj EXCEPT !.finalizer = TRUE]
  <1>0. /\ pass \in PassRecord /\ obj \in ClassObject /\ pass.step = "finalizer"
        /\ obj.phase # "absent" /\ ~Deleting /\ UNCHANGED <<sc, vsc, crd, seen>>
    BY CopyTypes DEF addFinalizerIfNotExists, TeardownShapes, PassShape
  <1>1. claimed.phase = obj.phase /\ claimed.finalizer = TRUE
    BY <1>0 DEF ClassObject
  <1>2. \/ class' = class /\ lag' = lag
        \/ class' = claimed /\ lag' = lag \cup {"class"}
    BY DEF addFinalizerIfNotExists, WriteClass
  <1>3. /\ pass'.mapped = pass.mapped /\ pass'.current = pass.current
        /\ \/ pass'.step = "publish"
           \/ pass'.step = "clusterID" /\ obj' = obj /\ obj.finalizer /\ class' = class
           \/ pass'.step = "clusterID" /\ obj' = claimed /\ class' = claimed
    <2>1. CASE obj.finalizer
      BY <1>0, <2>1 DEF addFinalizerIfNotExists, Goto, PassRecord, obj
    <2>2. CASE ~obj.finalizer /\ "class" \in pass.current /\ o = "ok"
      <3>1. pass' = [pass EXCEPT !.step = "clusterID", !.copies.class = claimed] /\ class' = claimed
        BY <2>2 DEF addFinalizerIfNotExists, WriteClass
      <3>2. pass.copies \in ServerRecord
        BY <1>0 DEF PassRecord
      <3> HIDE DEF claimed
      <3> QED
        BY <1>0, <3>1, <3>2 DEF PassRecord, ServerRecord, obj
    <2>3. CASE ~obj.finalizer /\ ~("class" \in pass.current /\ o = "ok")
      BY <1>0, <2>3 DEF addFinalizerIfNotExists, Fail, PassRecord
    <2> QED
      BY <2>1, <2>2, <2>3
  <1> HIDE DEF claimed
  <1>4. ObjectShape' /\ CacheShape' /\ Held'
    BY <1>0, <1>1, <1>2
    DEF TeardownShapes, ObjectShape, CacheShape, Held, OwnsSC, OwnsVSC, Deleting
  <1>5. PassShape'
    BY <1>0, <1>1, <1>3 DEF TeardownShapes, PassShape, Deleting, Past, Teardown, Live
  <1>6. Overlooked' /\ TeardownShape'
    BY <1>3 DEF Overlooked, TeardownShape
  <1> QED
    BY <1>4, <1>5, <1>6 DEF TeardownShapes

\* The calls for a live class keep the shapes.
LEMMA TeardownStepReconcile ==
    ASSUME TypeOK, TeardownShapes, NEW o,
           \/ getClusterID(o) \/ reconcileStorageClass(o) \/ recreateStorageClass(o)
           \/ reconcileVolumeSnapshotClass(o)
           \/ deleteStorageClass(o) /\ ~Deleting
    PROVE  TeardownShapes'
  <1>0. /\ pass \in PassRecord /\ oldSC \in SCObject /\ sc \in SCObject
        /\ ObjectShape /\ ~Deleting /\ pass.step \in Live \cup {"deleteSC"}
        /\ UNCHANGED <<class, crd, seen>>
    BY CopyTypes DEF TypeOK, TeardownShapes, PassShape, Live, getClusterID, reconcileStorageClass,
       recreateStorageClass, reconcileVolumeSnapshotClass, deleteStorageClass
  <1>1. /\ pass'.step \in Live \cup {"deleteSC", "publish"}
        /\ obj' = obj /\ pass'.mapped = pass.mapped /\ pass'.current = pass.current
    <2>1. CASE getClusterID(o)
      BY <1>0, <2>1 DEF getClusterID, Fail, PassRecord, Live, obj
    <2>2. CASE reconcileStorageClass(o)
      BY <2>2, PassGoes DEF reconcileStorageClass, CreateStorageClass, unfinalizeSC, Live
    <2>3. CASE recreateStorageClass(o)
      BY <2>3, PassGoes DEF recreateStorageClass, CreateStorageClass, Live
    <2>4. CASE reconcileVolumeSnapshotClass(o)
      BY <2>4, PassGoes DEF reconcileVolumeSnapshotClass, Live
    <2>5. CASE deleteStorageClass(o) /\ ~Deleting
      BY <2>5, PassGoes DEF deleteStorageClass, Deleting, Live
    <2> QED
      BY <2>1, <2>2, <2>3, <2>4, <2>5
  <1>2. /\ lag \subseteq lag'
        /\ UNCHANGED sc \/ "sc" \in lag'
        /\ UNCHANGED vsc \/ ("vsc" \in lag' /\ crd)
    BY DEF TeardownShapes, PassShape, getClusterID, reconcileStorageClass, recreateStorageClass,
       reconcileVolumeSnapshotClass, deleteStorageClass, CreateStorageClass, unfinalizeSC,
       WriteSC, WriteVSC
  <1>3. ~OwnsSC' => ~sc'.finalizer
    <2>1. \/ UNCHANGED sc
          \/ sc' = ConfigureStorageClass(obj, pass.cid)
          \/ sc' = updateStorageClass(obj, oldSC, pass.cid)
          \/ sc' = afterUnfinalize(oldSC, NoSC)
          \/ sc' = afterDelete(sc, NoSC)
      BY DEF getClusterID, reconcileStorageClass, recreateStorageClass, reconcileVolumeSnapshotClass,
         deleteStorageClass, CreateStorageClass, unfinalizeSC, WriteSC
    <2> QED
      BY <1>0, <2>1, ObjectsBecome DEF ObjectShape, OwnsSC
  <1>4. ~OwnsVSC' => ~vsc'.finalizer
    <2>1. \/ UNCHANGED vsc
          \/ vsc' = ConfigureVSClass(obj, pass.cid)
          \/ /\ vsc' = [ConfigureVSClass(obj, pass.cid) EXCEPT !.phase = oldVSClass.phase]
             /\ oldVSClass.phase # "absent"
      BY DEF getClusterID, reconcileStorageClass, recreateStorageClass, reconcileVolumeSnapshotClass,
         deleteStorageClass, WriteVSC
    <2>2. CASE UNCHANGED vsc
      BY <1>0, <2>2 DEF ObjectShape, OwnsVSC
    <2>3. CASE vsc' = ConfigureVSClass(obj, pass.cid)
      BY <1>0, <2>3, ObjectsBecome DEF OwnsVSC
    <2>4. CASE /\ vsc' = [ConfigureVSClass(obj, pass.cid) EXCEPT !.phase = oldVSClass.phase]
               /\ oldVSClass.phase # "absent"
      BY <2>4 DEF OwnsVSC, ConfigureVSClass
    <2> QED
      BY <2>1, <2>2, <2>3, <2>4
  <1> QED
    BY <1>0, <1>1, <1>2, <1>3, <1>4, TeardownStepLive

\* The first half of a teardown keeps the shapes.
LEMMA TeardownStepClassDelete ==
    ASSUME TypeOK, TeardownShapes, NEW o,
           \/ reconcileStorageClassDelete(o)
           \/ deleteStorageClass(o) /\ Deleting
    PROVE  TeardownShapes'
  <1>0. /\ pass \in PassRecord /\ oldSC \in SCObject /\ sc \in SCObject
        /\ ObjectShape /\ Overlooked /\ TeardownShape /\ Deleting /\ class.finalizer
        /\ pass.step \in {"teardown", "deleteSC"}
        /\ UNCHANGED <<class, vsc, crd, seen>>
    BY CopyTypes DEF TypeOK, TeardownShapes, PassShape, Past, Teardown,
       reconcileStorageClassDelete, deleteStorageClass
  <1>1. /\ pass'.step \in {"deleteSC", "teardownVSC", "publish"}
        /\ obj' = obj /\ pass'.mapped = pass.mapped /\ pass'.current = pass.current
        /\ oldSC' = oldSC /\ oldVSClass' = oldVSClass
    <2>1. CASE reconcileStorageClassDelete(o)
      BY <2>1, PassGoes DEF reconcileStorageClassDelete, unfinalizeSC
    <2>2. CASE deleteStorageClass(o) /\ Deleting
      BY <2>2, PassGoes DEF deleteStorageClass, Deleting
    <2> QED
      BY <2>1, <2>2
  <1>2. lag \subseteq lag' /\ (UNCHANGED sc \/ "sc" \in lag')
    BY DEF reconcileStorageClassDelete, deleteStorageClass, unfinalizeSC, WriteSC
  <1>3. ~OwnsSC' => ~sc'.finalizer
    <2>1. \/ UNCHANGED sc
          \/ sc' = afterUnfinalize(oldSC, NoSC)
          \/ sc' = afterDelete(sc, NoSC)
      BY DEF reconcileStorageClassDelete, deleteStorageClass, unfinalizeSC, WriteSC
    <2> QED
      BY <1>0, <2>1, ObjectsBecome DEF ObjectShape, OwnsSC
  <1>4. pass'.step = "deleteSC" => ~sc'.finalizer
    <2>1. CASE reconcileStorageClassDelete(o)
      <3>1. CASE oldSC.phase # "absent" /\ ~oldSC.foreign /\ oldSC.finalizer
        <4>1. pass'.step = "deleteSC" => sc' = afterUnfinalize(oldSC, NoSC)
          BY <1>0, <2>1, <3>1, PassGoes DEF reconcileStorageClassDelete, unfinalizeSC, WriteSC
        <4> QED
          BY <1>0, <4>1, ObjectsBecome
      <3>2. CASE ~oldSC.finalizer
        BY <1>0, <2>1, <3>2 DEF reconcileStorageClassDelete, unfinalizeSC, Overlooked
      <3>3. CASE ~(oldSC.phase # "absent" /\ ~oldSC.foreign)
        BY <1>0, <2>1, <3>3, PassGoes DEF reconcileStorageClassDelete
      <3> QED
        BY <1>0, <3>1, <3>2, <3>3 DEF SCObject
    <2>2. CASE deleteStorageClass(o) /\ Deleting
      BY <2>2, PassGoes DEF deleteStorageClass, Deleting
    <2> QED
      BY <2>1, <2>2
  <1>5. pass'.step = "teardownVSC" => ~OwnsSC'
    <2>1. CASE reconcileStorageClassDelete(o)
      <3>1. pass'.step = "teardownVSC" => UNCHANGED sc /\ ~(oldSC.phase # "absent" /\ ~oldSC.foreign)
        BY <2>1, PassGoes DEF reconcileStorageClassDelete, unfinalizeSC
      <3> QED
        BY <1>0, <2>1, <3>1 DEF reconcileStorageClassDelete, Overlooked, OwnsSC
    <2>2. CASE deleteStorageClass(o) /\ Deleting
      <3>1. pass'.step = "teardownVSC" => sc' = afterDelete(sc, NoSC)
        BY <2>2, PassGoes DEF deleteStorageClass, WriteSC
      <3>2. ~sc.finalizer
        BY <1>0, <2>2 DEF TeardownShape, deleteStorageClass
      <3> QED
        BY <1>0, <3>1, <3>2, ObjectsBecome DEF OwnsSC
    <2> QED
      BY <2>1, <2>2
  <1>6. ObjectShape' /\ CacheShape' /\ Held'
    BY <1>0, <1>2, <1>3 DEF TeardownShapes, ObjectShape, CacheShape, Held, OwnsVSC
  <1>7. PassShape'
    BY <1>0, <1>1 DEF TeardownShapes, PassShape, Deleting, Past, Teardown, Live
  <1>8. Overlooked' /\ TeardownShape'
    BY <1>0, <1>1, <1>4, <1>5 DEF Overlooked, TeardownShape, Deleting, mineVSC, OwnsVSC
  <1> QED
    BY <1>6, <1>7, <1>8 DEF TeardownShapes

\* The second half of a teardown keeps the shapes.
LEMMA TeardownStepSnapshotsDelete ==
    ASSUME TypeOK, TeardownShapes, NEW o,
           reconcileVolumeSnapshotClassDelete(o) \/ deleteVolumeSnapshotClass(o)
    PROVE  TeardownShapes'
  <1>0. /\ pass \in PassRecord /\ oldVSClass \in VSCObject /\ vsc \in VSCObject
        /\ ObjectShape /\ Overlooked /\ TeardownShape /\ Deleting /\ class.finalizer
        /\ pass.step \in {"teardownVSC", "deleteVSC"} /\ ~OwnsSC
        /\ UNCHANGED <<class, sc, crd, seen>>
    BY CopyTypes DEF TypeOK, TeardownShapes, PassShape, TeardownShape, Past, Teardown,
       reconcileVolumeSnapshotClassDelete, deleteVolumeSnapshotClass
  <1>1. /\ pass'.step \in {"deleteVSC", "release", "publish"}
        /\ obj' = obj /\ pass'.mapped = pass.mapped /\ pass'.current = pass.current
        /\ oldSC' = oldSC /\ oldVSClass' = oldVSClass
    BY PassGoes DEF reconcileVolumeSnapshotClassDelete, deleteVolumeSnapshotClass
  <1>2. lag \subseteq lag' /\ (UNCHANGED vsc \/ "vsc" \in lag')
    BY DEF reconcileVolumeSnapshotClassDelete, deleteVolumeSnapshotClass, WriteVSC
  <1>3. /\ ~OwnsVSC' => ~vsc'.finalizer
        /\ ~crd => vsc'.phase = "absent"
    <2>1. \/ UNCHANGED vsc
          \/ vsc' = afterUnfinalize(oldVSClass, NoVSC) /\ pass.mapped
          \/ vsc' = afterDelete(vsc, NoVSC) /\ vsc.phase # "absent"
      BY DEF reconcileVolumeSnapshotClassDelete, deleteVolumeSnapshotClass, WriteVSC
    <2>2. pass.mapped => crd
      BY DEF TeardownShapes, PassShape
    <2> QED
      BY <1>0, <2>1, <2>2, ObjectsBecome DEF ObjectShape, OwnsVSC
  <1>4. pass'.step = "deleteVSC" => ~vsc'.finalizer
    <2>1. CASE reconcileVolumeSnapshotClassDelete(o) /\ mineVSC /\ oldVSClass.finalizer
      <3>1. pass'.step = "deleteVSC" => vsc' = afterUnfinalize(oldVSClass, NoVSC)
        BY <2>1, PassGoes DEF reconcileVolumeSnapshotClassDelete, WriteVSC, mineVSC
      <3> QED
        BY <1>0, <3>1, ObjectsBecome
    <2>2. CASE reconcileVolumeSnapshotClassDelete(o) /\ mineVSC /\ ~oldVSClass.finalizer
      <3>1. UNCHANGED vsc /\ pass.step = "teardownVSC"
        BY <2>2 DEF reconcileVolumeSnapshotClassDelete
      <3> QED
        BY <1>0, <2>2, <3>1 DEF Overlooked
    <2>3. CASE reconcileVolumeSnapshotClassDelete(o) /\ ~mineVSC
      BY <2>3, PassGoes DEF reconcileVolumeSnapshotClassDelete, mineVSC
    <2>4. CASE deleteVolumeSnapshotClass(o)
      BY <2>4, PassGoes DEF deleteVolumeSnapshotClass
    <2> QED
      BY <2>1, <2>2, <2>3, <2>4
  <1>5. pass'.step = "release" => ~OwnsVSC'
    <2>1. CASE reconcileVolumeSnapshotClassDelete(o)
      <3>1. pass'.step = "release" => UNCHANGED vsc /\ ~mineVSC
        BY <2>1, PassGoes DEF reconcileVolumeSnapshotClassDelete, mineVSC
      <3> QED
        BY <1>0, <2>1, <3>1 DEF reconcileVolumeSnapshotClassDelete, Overlooked, OwnsVSC
    <2>2. CASE deleteVolumeSnapshotClass(o)
      <3>1. pass'.step = "release" => vsc' = afterDelete(vsc, NoVSC)
        BY <2>2, PassGoes DEF deleteVolumeSnapshotClass, WriteVSC
      <3>2. ~vsc.finalizer
        BY <1>0, <2>2 DEF TeardownShape, deleteVolumeSnapshotClass
      <3> QED
        BY <1>0, <3>1, <3>2, ObjectsBecome DEF OwnsVSC
    <2> QED
      BY <2>1, <2>2
  <1>6. ObjectShape' /\ CacheShape' /\ Held'
    BY <1>0, <1>2, <1>3 DEF TeardownShapes, ObjectShape, CacheShape, Held, OwnsSC
  <1>7. PassShape'
    BY <1>0, <1>1 DEF TeardownShapes, PassShape, Deleting, Past, Teardown, Live
  <1>8. Overlooked' /\ TeardownShape'
    BY <1>0, <1>1, <1>4, <1>5 DEF Overlooked, TeardownShape, Deleting, OwnsSC
  <1> QED
    BY <1>6, <1>7, <1>8 DEF TeardownShapes

\* Taking the finalizer off a class keeps the shapes.
LEMMA TeardownStepRelease ==
    ASSUME TypeOK, TeardownShapes, NEW o, removeFinalizerIfExists(o)
    PROVE  TeardownShapes'
  <1>0. /\ pass.step = "release" /\ ~OwnsSC /\ ~OwnsVSC /\ UNCHANGED <<sc, vsc, crd, seen>>
    BY DEF removeFinalizerIfExists, TeardownShapes, TeardownShape
  <1>1. pass'.step = "publish" /\ pass'.mapped = pass.mapped
    BY PassGoes DEF removeFinalizerIfExists
  <1>2. \/ UNCHANGED <<class, lag>>
        \/ class' = Gone(obj.life) /\ lag' = lag \cup {"class"}
    BY DEF removeFinalizerIfExists, WriteClass
  <1>3. Gone(obj.life).phase = "absent" /\ ~Gone(obj.life).finalizer
    BY DEF Gone
  <1>4. ObjectShape' /\ CacheShape' /\ Held'
    BY <1>0, <1>2, <1>3 DEF TeardownShapes, ObjectShape, CacheShape, Held, OwnsSC, OwnsVSC
  <1>5. PassShape' /\ Overlooked' /\ TeardownShape'
    BY <1>0, <1>1 DEF TeardownShapes, PassShape, Overlooked, TeardownShape, Past, Teardown, Live
  <1> QED
    BY <1>4, <1>5 DEF TeardownShapes

\* The write of the status keeps the shapes.
LEMMA TeardownStepStatus ==
    ASSUME TypeOK, TeardownShapes, NEW o, updateCephStorageClassStatus(o)
    PROVE  TeardownShapes'
  <1>1. pass'.step = "idle" /\ pass'.mapped = FALSE /\ UNCHANGED <<sc, vsc, crd, seen>>
    BY DEF updateCephStorageClassStatus, NoPass
  <1>2. \/ UNCHANGED <<class, lag>>
        \/ class' = verdict /\ lag' = lag \cup {"class"}
    BY DEF updateCephStorageClassStatus, WriteClass
  <1>3. verdict.phase = class.phase /\ verdict.finalizer = class.finalizer
    BY DEF TypeOK, verdict, ClassObject
  <1>4. ObjectShape' /\ CacheShape' /\ Held'
    BY <1>1, <1>2, <1>3 DEF TeardownShapes, ObjectShape, CacheShape, Held, OwnsSC, OwnsVSC
  <1>5. PassShape' /\ Overlooked' /\ TeardownShape'
    BY <1>1 DEF PassShape, Overlooked, TeardownShape, Past, Teardown, Live
  <1> QED
    BY <1>4, <1>5 DEF TeardownShapes

\* Every step keeps the shapes.
LEMMA TeardownStep ==
    ASSUME StaleReads = FALSE, MapperFails = FALSE, TeardownInv, [Next]_vars
    PROVE  TeardownInv'
  <1>1. TypeOK /\ TeardownShapes
    BY DEF TeardownInv
  <1>2. TypeOK'
    BY <1>1, TypeStep
  <1>3. CASE UNCHANGED vars
    BY <1>1, <1>2, <1>3 DEF vars, TeardownInv, TeardownShapes, ObjectShape, CacheShape, PassShape,
       Overlooked, TeardownShape, Held, OwnsSC, OwnsVSC, Deleting, mineVSC, obj, oldSC, oldVSClass
  <1>4. CASE User \/ CrashRestart \/ Start \/ \E part \in Parts : Sync(part)
    BY <1>1, <1>2, <1>4, TeardownStepUser, TeardownStepRestart, TeardownStepStart,
       TeardownStepSync DEF TeardownInv
  <1>5. CASE Work
    BY <1>1, <1>2, <1>5, TeardownStepFinalizer, TeardownStepReconcile, TeardownStepClassDelete,
       TeardownStepSnapshotsDelete, TeardownStepRelease, TeardownStepStatus DEF Work, TeardownInv
  <1> QED
    BY <1>3, <1>4, <1>5 DEF Next

\* Provided the cached copies a pass starts from are current and the mapper answers, the
\* controller's objects never exist without its finalizer on the class: for every set of
\* specs, any number of recreations, crashes and failed calls, and whatever users do to the
\* two objects under the webhook.
THEOREM TeardownComplete ==
    ASSUME StaleReads = FALSE, MapperFails = FALSE
    PROVE  Spec => []NoOrphans
  <1>1. Init => TeardownInv
    BY TypeInitially, TeardownInitially DEF TeardownInv
  <1>2. TeardownInv /\ [Next]_vars => TeardownInv'
    BY TeardownStep
  <1>3. TeardownInv => NoOrphans
    BY DEF TeardownInv, TeardownShapes, Held, NoOrphans, owned, OwnsSC, OwnsVSC
  <1> QED
    BY <1>1, <1>2, <1>3, PTL DEF Spec
-----------------------------------------------------------------------------
\* Refinement of FinalizerGuard.

claims == [r \in {"class"} |-> class.finalizer]
holdings == [r \in {"class"} |-> owned]

\* Only two calls of the controller change whether the finalizer is there.
LEMMA FinalizerKept ==
    ASSUME TeardownInv, [Next]_vars,
           \A o \in Outcomes : ~addFinalizerIfNotExists(o) /\ ~removeFinalizerIfExists(o)
    PROVE  class'.finalizer = class.finalizer
  <1>0. class \in ClassObject /\ class.finalizer \in BOOLEAN /\ ObjectShape
    BY DEF TeardownInv, TypeOK, TeardownShapes, ClassObject
  <1>1. CASE CreateClass
    <2>1. PICK s \in Specs : class' = [Gone(class.life + 1) EXCEPT !.phase = "live",
                                           !.gen = 1, !.spec = s]
      BY <1>1 DEF CreateClass, UserWritesClass
    <2>2. class'.finalizer = FALSE
      BY <2>1 DEF Gone
    <2> QED
      BY <1>0, <1>1, <2>2 DEF CreateClass, ObjectShape
  <1>2. CASE CompleteSpec
    BY <1>0, <1>2 DEF CompleteSpec, UserWritesClass, ClassObject
  <1>3. CASE EditLabels
    BY <1>0, <1>3 DEF EditLabels, UserWritesClass, ClassObject
  <1>4. CASE DeleteClass
    <2>1. ~Gone(class.life).finalizer
      BY DEF Gone
    <2>2. [class EXCEPT !.phase = "deleting"].finalizer = class.finalizer
      BY <1>0 DEF ClassObject
    <2>3. Gone(class.life).finalizer = FALSE
      BY DEF Gone
    <2> QED
      BY <1>0, <1>4, <2>2, <2>3 DEF DeleteClass, UserWritesClass
  <1>5. CASE MeddleWithSC \/ MeddleWithVSC \/ MeddleWithConnection \/ InstallSnapshotCRD
    BY <1>5 DEF MeddleWithSC, MeddleWithVSC, MeddleWithConnection, InstallSnapshotCRD
  <1>6. CASE Start \/ CrashRestart \/ \E part \in Parts : Sync(part)
    BY <1>6 DEF Start, StartReconcile, CrashRestart, Sync
  <1>7. ASSUME NEW o \in Outcomes, updateCephStorageClassStatus(o)
        PROVE  class'.finalizer = class.finalizer
    BY <1>0, <1>7 DEF updateCephStorageClassStatus, WriteClass, verdict, ClassObject
  <1>8. CASE Work
    BY <1>7, <1>8 DEF Work, getClusterID, reconcileStorageClass, recreateStorageClass,
       reconcileVolumeSnapshotClass, reconcileStorageClassDelete, deleteStorageClass,
       reconcileVolumeSnapshotClassDelete, deleteVolumeSnapshotClass
  <1>9. CASE UNCHANGED vars
    BY <1>9 DEF vars
  <1> QED
    BY <1>1, <1>2, <1>3, <1>4, <1>5, <1>6, <1>8, <1>9 DEF Next, User

\* The actions of FinalizerGuard under the refinement mapping.
LEMMA GuardActions ==
    /\ (/\ holdings' \in [{"class"} -> SUBSET {"sc", "vsc"}]
        /\ \A r \in {"class"} : claims[r] \/ holdings'[r] \subseteq holdings[r]
        /\ UNCHANGED claims) => Guard!Next
    /\ \A r \in {"class"} : (/\ ~claims[r]
                             /\ claims' = [claims EXCEPT ![r] = TRUE]
                             /\ UNCHANGED holdings) => Guard!Next
    /\ \A r \in {"class"} : (/\ claims[r] /\ holdings[r] = {}
                             /\ claims' = [claims EXCEPT ![r] = FALSE]
                             /\ UNCHANGED holdings) => Guard!Next
  BY Zenon DEF claims, holdings, Guard!Next, Guard!Work, Guard!Claim, Guard!Release

\* Every step of the controller is a step of FinalizerGuard or a stutter.
LEMMA GuardStep ==
    ASSUME TeardownInv, NoOrphans, NoOrphans', [Next]_vars
    PROVE  [Guard!Next]_(Guard!vars)
  <1>0. /\ obj \in ClassObject /\ class.finalizer \in BOOLEAN /\ class'.finalizer \in BOOLEAN
    <2>1. TypeOK /\ TypeOK'
      BY TypeStep DEF TeardownInv
    <2> QED
      BY <2>1, CopyTypes DEF TypeOK, ClassObject
  <1>1. owned \subseteq {"sc", "vsc"} /\ owned' \subseteq {"sc", "vsc"}
    BY DEF owned
  \* A step that keeps the finalizer: an unclaimed class has nothing after it.
  <1>2. CASE class'.finalizer = class.finalizer
    <2>1. class.finalizer \/ owned' = {}
      BY <1>2 DEF NoOrphans
    <2>2. UNCHANGED claims
      BY <1>2 DEF claims
    <2>3. holdings' \in [{"class"} -> SUBSET {"sc", "vsc"}]
      BY <1>1 DEF holdings
    <2>4. \A r \in {"class"} : claims[r] \/ holdings'[r] \subseteq holdings[r]
      BY <2>1 DEF claims, holdings
    <2> QED
      BY <2>2, <2>3, <2>4, GuardActions
  <1>3. ASSUME NEW o \in Outcomes, addFinalizerIfNotExists(o), class'.finalizer # class.finalizer
        PROVE  Guard!Next
    <2>1. ~obj.finalizer /\ "class" \in pass.current /\ pass.step = "finalizer"
          /\ class' = [obj EXCEPT !.finalizer = TRUE] /\ UNCHANGED <<sc, vsc>>
      BY <1>3 DEF addFinalizerIfNotExists, WriteClass
    <2>2. class.finalizer = FALSE /\ class'.finalizer = TRUE
      BY <1>0, <1>3, <2>1 DEF ClassObject
    <2>3. ~claims["class"] /\ claims' = [claims EXCEPT !["class"] = TRUE]
      BY <2>2 DEF claims
    <2>4. UNCHANGED holdings
      BY <2>1 DEF holdings, owned
    <2> QED
      BY <2>3, <2>4, GuardActions
  <1>4. ASSUME NEW o \in Outcomes, removeFinalizerIfExists(o), class'.finalizer # class.finalizer
        PROVE  Guard!Next
    <2>1. pass.step = "release" /\ class' = Gone(obj.life) /\ UNCHANGED <<sc, vsc>>
      BY <1>4 DEF removeFinalizerIfExists, WriteClass
    <2>2. class'.finalizer = FALSE /\ class.finalizer = TRUE
      BY <1>0, <1>4, <2>1 DEF Gone
    <2>3. owned = {}
      BY <2>1 DEF TeardownInv, TeardownShapes, TeardownShape, OwnsSC, OwnsVSC, owned
    <2>4. claims["class"] /\ claims' = [claims EXCEPT !["class"] = FALSE]
      BY <2>2 DEF claims
    <2>5. holdings["class"] = {} /\ UNCHANGED holdings
      BY <2>1, <2>3 DEF holdings, owned
    <2> QED
      BY <2>4, <2>5, GuardActions
  <1> QED
    BY <1>2, <1>3, <1>4, FinalizerKept

\* The controller implements FinalizerGuard, provided the copies a pass starts from are
\* current and the mapper answers.
THEOREM ClassGuards ==
    ASSUME StaleReads = FALSE, MapperFails = FALSE
    PROVE  Spec => GuardsItsAssets
  <1>1. Init => Guard!Init
    <2> SUFFICES ASSUME Init PROVE Guard!Init
      OBVIOUS
    <2>1. class.finalizer = FALSE /\ owned = {}
      BY DEF Init, Gone, NoSC, NoVSC, owned
    <2> QED
      BY <2>1 DEF Guard!Init
  <1>2. Init => TeardownInv
    BY TypeInitially, TeardownInitially DEF TeardownInv
  <1>3. TeardownInv /\ [Next]_vars => TeardownInv'
    BY TeardownStep
  <1>4. TeardownInv => NoOrphans
    BY DEF TeardownInv, TeardownShapes, Held, NoOrphans, owned, OwnsSC, OwnsVSC
  <1>5. TeardownInv /\ NoOrphans /\ NoOrphans' /\ [Next]_vars => [Guard!Next]_(Guard!vars)
    BY GuardStep
  <1> QED
    BY <1>1, <1>2, <1>3, <1>4, <1>5, PTL DEF Spec, GuardsItsAssets, Guard!Spec
-----------------------------------------------------------------------------
\* StorageClasses of other provisioners.

\* The steps at which a pass has not touched the StorageClass yet.
Before == {"finalizer", "clusterID", "class", "teardown"}

\* No StorageClass is ever caught between its deletion and its finalizer: the controller
\* takes the finalizer off first, and the webhook lets users delete none of ours.  What a
\* pass found to be ours is ours until the pass deletes it.
OurStorageClass ==
    /\ sc.phase # "terminating"
    /\ sc.foreign => ~sc.finalizer
    /\ "sc" \notin lag => seen.sc = sc
    /\ pass.step \in Before =>
          /\ oldSC.phase # "terminating"
          /\ oldSC.phase # "absent" /\ ~oldSC.foreign => OwnsSC
          /\ ~oldSC.finalizer => ~sc.finalizer
    /\ pass.step = "deleteSC" => OwnsSC /\ ~sc.finalizer

\* What a step of a pass may do to the StorageClass: nothing, create it where there is
\* none, take the finalizer off one of ours, delete one of ours.
TouchesOurs ==
    /\ sc' = sc \/ "sc" \in lag'
    /\ \/ sc' = sc
       \/ sc.phase = "absent" /\ sc'.phase = "live" /\ ~sc'.foreign
       \/ OwnsSC /\ OwnsSC' /\ sc'.phase # "terminating" /\ ~sc'.finalizer
       \/ OwnsSC /\ sc' = NoSC

\* Users leave a StorageClass of ours where it is.
LEMMA UserLeavesSC ==
    ASSUME TypeOK, OurStorageClass, MeddleWithSC
    PROVE  /\ OwnsSC => OwnsSC'
           /\ sc'.phase # "terminating"
           /\ sc'.finalizer => sc.finalizer
           /\ sc'.foreign => ~sc'.finalizer
  <1>0. sc \in SCObject /\ sc.phase # "terminating" /\ (sc.foreign => ~sc.finalizer)
    BY DEF TypeOK, OurStorageClass
  <1>1. PICK r \in userRequests : SCValidate(r.operation, sc, r.new) /\ sc' = r.new
    BY DEF MeddleWithSC
  <1>2. CASE sc.phase = "absent"
    <2>1. r.new = ForeignSC \/ \E s \in ValidSpecs : r.new = OwnSC(s)
      BY <1>2 DEF userRequests
    <2> QED
      BY <1>1, <1>2, <2>1 DEF OwnsSC, OwnSC, ForeignSC, NoSC
  <1>3. CASE sc.phase # "absent" /\ r.operation = "update"
    <2>1. ~sc.foreign /\ \/ r.new \in {[sc EXCEPT !.marked = TRUE], [sc EXCEPT !.finalizer = FALSE]}
                         \/ \E l \in 0..MaxEdits : r.new = [sc EXCEPT !.labels = l]
      BY <1>3 DEF userRequests
    <2>2. ~r.new.foreign /\ r.new.phase = sc.phase /\ (r.new.finalizer => sc.finalizer)
      BY <1>0, <2>1 DEF SCObject
    <2> QED
      BY <1>0, <1>1, <1>3, <2>2 DEF OwnsSC
  <1>4. CASE sc.phase # "absent" /\ r.operation # "update"
    <2>1. r.operation = "delete" /\ r.new = afterDelete(sc, NoSC)
      BY <1>4 DEF userRequests
    <2>2. sc.foreign
      BY <1>1, <2>1 DEF SCValidate
    <2>3. r.new = NoSC
      BY <1>0, <2>1, <2>2 DEF afterDelete
    <2> QED
      BY <1>1, <2>2, <2>3 DEF OwnsSC, NoSC
  <1> QED
    BY <1>2, <1>3, <1>4

\* A pass touches no StorageClass but one of ours.
LEMMA PassTouchesOurs ==
    ASSUME TypeOK, OurStorageClass, Work
    PROVE  /\ TouchesOurs /\ lag \subseteq lag' /\ UNCHANGED seen
           /\ pass'.step \in Before => UNCHANGED <<sc, oldSC>> /\ pass.step \in Before
           /\ pass'.step = "deleteSC" => OwnsSC' /\ ~sc'.finalizer
  <1>0. /\ pass \in PassRecord /\ oldSC \in SCObject /\ sc \in SCObject
    BY CopyTypes DEF TypeOK
  <1>1. ASSUME NEW o \in Outcomes, addFinalizerIfNotExists(o)
        PROVE  /\ UNCHANGED <<sc, seen>> /\ lag \subseteq lag' /\ pass.step \in Before
               /\ pass'.step \in {"clusterID", "publish"} /\ oldSC' = oldSC
    <2>1. /\ UNCHANGED <<sc, seen>> /\ lag \subseteq lag' /\ pass.step \in Before
      BY <1>1 DEF addFinalizerIfNotExists, WriteClass, Before
    <2>2. CASE Goto("clusterID") \/ Fail
      BY <2>1, <2>2, PassGoes
    <2>3. CASE pass' = [pass EXCEPT !.step = "clusterID",
                                    !.copies.class = [obj EXCEPT !.finalizer = TRUE]]
      <3>1. pass.copies \in ServerRecord
        BY <1>0 DEF PassRecord
      <3> QED
        BY <1>0, <2>1, <2>3, <3>1 DEF PassRecord, ServerRecord, oldSC
    <2> QED
      BY <1>1, <2>2, <2>3 DEF addFinalizerIfNotExists
  <1>2. ASSUME NEW o \in Outcomes, getClusterID(o)
        PROVE  /\ UNCHANGED <<sc, seen>> /\ lag \subseteq lag' /\ pass.step \in Before
               /\ pass'.step \in {"class", "publish"} /\ oldSC' = oldSC
    BY <1>0, <1>2 DEF getClusterID, Fail, PassRecord, Before, oldSC
  <1>3. ASSUME NEW o \in Outcomes, CreateStorageClass(o, ConfigureStorageClass(obj, pass.cid))
                  \/ CreateStorageClass(o, updateStorageClass(obj, oldSC, pass.cid))
        PROVE  TouchesOurs /\ lag \subseteq lag' /\ pass'.step \in {"snapshots", "publish"}
    <2>1. pass'.step \in {"snapshots", "publish"}
      BY <1>3, PassGoes DEF CreateStorageClass
    <2>2. /\ ConfigureStorageClass(obj, pass.cid).phase = "live"
          /\ ~ConfigureStorageClass(obj, pass.cid).foreign
          /\ updateStorageClass(obj, oldSC, pass.cid).phase = "live"
          /\ ~updateStorageClass(obj, oldSC, pass.cid).foreign
      BY DEF updateStorageClass, ConfigureStorageClass
    <2> QED
      BY <1>3, <2>1, <2>2 DEF CreateStorageClass, WriteSC, TouchesOurs
  <1>4. ASSUME NEW o \in Outcomes, unfinalizeSC(o), pass.step \in Before,
               oldSC.phase # "absent" /\ ~oldSC.foreign
        PROVE  /\ TouchesOurs /\ lag \subseteq lag' /\ pass'.step \in {"deleteSC", "publish"}
               /\ pass'.step = "deleteSC" => OwnsSC' /\ ~sc'.finalizer
    <2>1. /\ OwnsSC /\ oldSC.phase # "terminating"
          /\ ~oldSC.finalizer => ~sc.finalizer
      BY <1>4 DEF OurStorageClass
    <2> DEFINE new == [oldSC EXCEPT !.finalizer = FALSE]
    <2>2. new.phase = oldSC.phase /\ ~new.foreign /\ ~new.finalizer
      BY <1>0, <1>4 DEF SCObject
    <2>3. afterUnfinalize(oldSC, NoSC) = new
      BY <2>1 DEF afterUnfinalize
    <2> HIDE DEF new
    <2>4. pass'.step \in {"deleteSC", "publish"}
      BY <1>4, PassGoes DEF unfinalizeSC
    <2>5. \/ sc' = new /\ lag' = lag \cup {"sc"}
          \/ UNCHANGED <<sc, lag>> /\ (pass'.step = "deleteSC" => ~oldSC.finalizer)
      BY <1>0, <1>4, <2>3, PassGoes DEF unfinalizeSC, WriteSC
    <2> QED
      BY <1>4, <2>1, <2>2, <2>4, <2>5 DEF TouchesOurs, OwnsSC
  <1>5. ASSUME NEW o \in Outcomes, deleteStorageClass(o)
        PROVE  /\ TouchesOurs /\ lag \subseteq lag' /\ UNCHANGED seen
               /\ pass'.step \in {"teardownVSC", "recreateSC", "publish"}
    <2>1. OwnsSC /\ afterDelete(sc, NoSC) = NoSC
      BY <1>5 DEF deleteStorageClass, OurStorageClass, afterDelete
    <2>2. pass'.step \in {"teardownVSC", "recreateSC", "publish"}
      BY <1>5, PassGoes DEF deleteStorageClass
    <2> QED
      BY <1>5, <2>1, <2>2 DEF deleteStorageClass, WriteSC, TouchesOurs
  <1>6. ASSUME NEW o \in Outcomes,
               \/ reconcileVolumeSnapshotClass(o) \/ reconcileVolumeSnapshotClassDelete(o)
               \/ deleteVolumeSnapshotClass(o) \/ removeFinalizerIfExists(o)
               \/ updateCephStorageClassStatus(o)
        PROVE  /\ UNCHANGED <<sc, seen>> /\ lag \subseteq lag'
               /\ pass'.step \notin Before \cup {"deleteSC"}
    <2>1. UNCHANGED <<sc, seen>> /\ lag \subseteq lag'
      BY <1>6 DEF reconcileVolumeSnapshotClass, reconcileVolumeSnapshotClassDelete,
         deleteVolumeSnapshotClass, removeFinalizerIfExists, updateCephStorageClassStatus,
         WriteVSC, WriteClass
    <2>2. pass'.step \notin Before \cup {"deleteSC"}
      BY <1>6, PassGoes DEF reconcileVolumeSnapshotClass, reconcileVolumeSnapshotClassDelete,
         deleteVolumeSnapshotClass, removeFinalizerIfExists, updateCephStorageClassStatus,
         NoPass, Before
    <2> QED
      BY <2>1, <2>2
  <1>7. ASSUME NEW o \in Outcomes, reconcileStorageClass(o)
        PROVE  /\ TouchesOurs /\ lag \subseteq lag' /\ UNCHANGED seen
               /\ pass'.step \in {"snapshots", "deleteSC", "publish"}
               /\ pass'.step = "deleteSC" => OwnsSC' /\ ~sc'.finalizer
    <2>1. pass.step \in Before /\ UNCHANGED seen
      BY <1>7 DEF reconcileStorageClass, Before
    <2>2. \/ CreateStorageClass(o, ConfigureStorageClass(obj, pass.cid))
          \/ unfinalizeSC(o) /\ oldSC.phase # "absent" /\ ~oldSC.foreign
          \/ UNCHANGED <<sc, lag>> /\ (Fail \/ Goto("snapshots"))
      BY <1>7 DEF reconcileStorageClass, provisionerDiffers
    <2>3. CASE UNCHANGED <<sc, lag>> /\ (Fail \/ Goto("snapshots"))
      BY <2>1, <2>3, PassGoes DEF TouchesOurs
    <2> QED
      BY <1>3, <1>4, <2>1, <2>2, <2>3
  <1>8. ASSUME NEW o \in Outcomes, reconcileStorageClassDelete(o)
        PROVE  /\ TouchesOurs /\ lag \subseteq lag' /\ UNCHANGED seen
               /\ pass'.step \in {"teardownVSC", "deleteSC", "publish"}
               /\ pass'.step = "deleteSC" => OwnsSC' /\ ~sc'.finalizer
    <2>1. pass.step \in Before /\ UNCHANGED seen
      BY <1>8 DEF reconcileStorageClassDelete, Before
    <2>2. \/ unfinalizeSC(o) /\ oldSC.phase # "absent" /\ ~oldSC.foreign
          \/ UNCHANGED <<sc, lag>> /\ Goto("teardownVSC")
      BY <1>8 DEF reconcileStorageClassDelete
    <2>3. CASE UNCHANGED <<sc, lag>> /\ Goto("teardownVSC")
      BY <2>1, <2>3, PassGoes DEF TouchesOurs
    <2> QED
      BY <1>4, <2>1, <2>2, <2>3
  <1>9. ASSUME NEW o \in Outcomes, recreateStorageClass(o)
        PROVE  /\ TouchesOurs /\ lag \subseteq lag' /\ UNCHANGED seen
               /\ pass'.step \in {"snapshots", "publish"}
    BY <1>3, <1>9 DEF recreateStorageClass
  <1> QED
    BY <1>1, <1>2, <1>5, <1>6, <1>7, <1>8, <1>9 DEF Work, Before, TouchesOurs

\* Every step keeps what is known of our StorageClass.
LEMMA OursStep ==
    ASSUME StaleReads = FALSE, TypeOK, OurStorageClass, [Next]_vars
    PROVE  OurStorageClass'
  <1>1. CASE Work
    <2>1. /\ TouchesOurs /\ lag \subseteq lag' /\ UNCHANGED seen
          /\ pass'.step \in Before => UNCHANGED <<sc, oldSC>> /\ pass.step \in Before
          /\ pass'.step = "deleteSC" => OwnsSC' /\ ~sc'.finalizer
      BY <1>1, PassTouchesOurs
    <2>2. NoSC.phase = "absent" /\ ~NoSC.foreign
      BY DEF NoSC
    <2> QED
      BY <2>1, <2>2 DEF OurStorageClass, TouchesOurs, OwnsSC
  <1>2. CASE MeddleWithSC
    <2>1. /\ pass'.step = pass.step /\ oldSC' = oldSC /\ lag' = lag \cup {"sc"}
      BY <1>2, PassOutdated DEF MeddleWithSC, Parts
    <2> QED
      BY <1>2, <2>1, UserLeavesSC DEF OurStorageClass
  <1>3. CASE MeddleWithVSC \/ MeddleWithConnection \/ CreateClass \/ CompleteSpec \/ EditLabels
             \/ DeleteClass
    <2>1. PICK part \in {"vsc", "cid", "class"} : Outdates(part)
      BY <1>3 DEF MeddleWithVSC, MeddleWithConnection, CreateClass, CompleteSpec, EditLabels,
         DeleteClass, UserWritesClass
    <2>2. pass'.step = pass.step /\ oldSC' = oldSC /\ lag' = lag \cup {part}
      BY <2>1, PassOutdated DEF Parts
    <2>3. UNCHANGED <<sc, seen>>
      BY <1>3 DEF MeddleWithVSC, MeddleWithConnection, CreateClass, CompleteSpec, EditLabels,
         DeleteClass, UserWritesClass
    <2> QED
      BY <2>2, <2>3 DEF OurStorageClass, OwnsSC
  <1>4. CASE InstallSnapshotCRD \/ UNCHANGED vars
    BY <1>4 DEF InstallSnapshotCRD, vars, OurStorageClass, OwnsSC, oldSC
  <1>5. ASSUME NEW part \in Parts, Sync(part) PROVE OurStorageClass'
    <2>1. seen \in ServerRecord
      BY DEF TypeOK
    <2>2. UNCHANGED <<sc, pass>> /\ lag' = lag \ {part} /\ seen' = [seen EXCEPT ![part] = server[part]]
      BY <1>5 DEF Sync
    <2>3. "sc" \notin lag' => seen'.sc = sc
      <3>1. CASE part = "sc"
        BY <2>1, <2>2, <3>1 DEF server, ServerRecord
      <3>2. CASE part = "class"
        BY <2>1, <2>2, <3>2 DEF OurStorageClass, ServerRecord
      <3>3. CASE part = "vsc"
        BY <2>1, <2>2, <3>3 DEF OurStorageClass, ServerRecord
      <3>4. CASE part = "cid"
        BY <2>1, <2>2, <3>4 DEF OurStorageClass, ServerRecord
      <3> QED
        BY <3>1, <3>2, <3>3, <3>4 DEF Parts
    <2> QED
      BY <2>2, <2>3 DEF OurStorageClass, OwnsSC, oldSC
  <1>6. CASE CrashRestart
    BY <1>6 DEF CrashRestart, OurStorageClass, NoPass, server, OwnsSC, Before
  <1>7. CASE Start
    <2>1. PICK mapped \in BOOLEAN : StartReconcile(mapped)
      BY <1>7 DEF Start
    <2>2. seen.sc = sc /\ UNCHANGED <<sc, seen, lag>>
      BY <2>1 DEF StartReconcile, Fresh, OurStorageClass
    <2>3. CASE seen.class.phase = "absent"
      BY <2>1, <2>2, <2>3 DEF StartReconcile, OurStorageClass, OwnsSC, oldSC
    <2>4. CASE seen.class.phase # "absent"
      <3>1. oldSC' = sc /\ pass'.step # "deleteSC"
        BY <2>1, <2>2, <2>4 DEF StartReconcile, firstStep, oldSC
      <3> QED
        BY <2>2, <3>1 DEF OurStorageClass, OwnsSC
    <2> QED
      BY <2>3, <2>4
  <1> QED
    BY <1>1, <1>2, <1>3, <1>4, <1>5, <1>6, <1>7 DEF Next, User

\* Provided the cached copies a pass starts from are current, the controller never touches
\* a StorageClass of another provisioner, although it deletes by name: for all specs and
\* settings, any number of crashes and lost answers, and any user under the webhook.
THEOREM ForeignUntouched ==
    ASSUME StaleReads = FALSE
    PROVE  Spec => ForeignKept
  <1>1. Init => TypeOK /\ OurStorageClass
    <2> SUFFICES ASSUME Init PROVE TypeOK /\ OurStorageClass
      OBVIOUS
    <2>1. OurStorageClass
      BY DEF Init, OurStorageClass, NoSC, NoPass, server, Before
    <2> QED
      BY <2>1, TypeInitially
  <1>2. TypeOK /\ OurStorageClass /\ [Next]_vars => TypeOK' /\ OurStorageClass'
    BY TypeStep, OursStep
  <1>3. TypeOK /\ OurStorageClass /\ [Next]_vars =>
            [(sc.phase # "absent" /\ sc.foreign /\ pass'.step # pass.step) => sc' = sc]_vars
    <2> SUFFICES ASSUME TypeOK, OurStorageClass, Next, sc.phase # "absent", sc.foreign,
                        pass'.step # pass.step
                 PROVE  sc' = sc
      OBVIOUS
    <2>1. CASE Work
      BY <2>1, PassTouchesOurs DEF TouchesOurs, OwnsSC
    <2>2. CASE User
      <3>1. UNCHANGED sc \/ MeddleWithSC
        BY <2>2 DEF User, MeddleWithVSC, MeddleWithConnection, CreateClass, CompleteSpec, EditLabels,
           DeleteClass, UserWritesClass, InstallSnapshotCRD
      <3>2. MeddleWithSC => pass'.step = pass.step
        BY PassOutdated DEF MeddleWithSC, Parts
      <3> QED
        BY <3>1, <3>2
    <2>3. CASE Start \/ CrashRestart \/ \E part \in Parts : Sync(part)
      BY <2>3 DEF Start, StartReconcile, CrashRestart, Sync
    <2> QED
      BY <2>1, <2>2, <2>3 DEF Next
  <1> QED
    BY <1>1, <1>2, <1>3, PTL DEF Spec, ForeignKept
=============================================================================
