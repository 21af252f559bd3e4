---------------------- MODULE StorageClassVerdictProofs ----------------------
(***************************************************************************)
(* Theorems about the verdict of StorageClassController: a class that is   *)
(* Ready has its StorageClass and its VolumeSnapshotClass, and a correct   *)
(* StorageClass goes only when the verdict is a failure.                   *)
(***************************************************************************)
EXTENDS StorageClassProofs

-----------------------------------------------------------------------------
\* The invariant below makes ReadyMeansInPlace inductive.  A pass that began before the
\* last edit may end with a Ready=True about the same generation: then the key is in the
\* workqueue, or an event that will put it there is on its way.

\* The pass can still end with Ready=True.
Earning == pass.step = "publish" /\ ~pass.failed /\ obj.phase = "live"

\* The key is served again.
Notified == queued \/ ("class" \in lag /\ enqueued)

\* The StorageClass is the one `c` asks for, in the cluster `k`.
Fits(c, k) ==
    /\ sc.phase # "absent" /\ ~sc.foreign /\ sc.finalizer
    /\ sc.spec = c.spec /\ sc.labels = c.labels /\ sc.cid = k /\ sc.option = option

\* So is the VolumeSnapshotClass, which carries the finalizer.
SnapshotsFit(c, k) == OwnsVSC /\ vsc.finalizer /\ vsc.spec = c.spec /\ vsc.cid = k

FieldsInPlace ==
    /\ Fits(class, sc.cid) /\ sc.cid # NoCid
    /\ crd => OwnsVSC /\ vsc.spec = class.spec /\ vsc.cid = sc.cid

\* The CRDs are there from the start or never, and every pass finds them; nobody else
\* makes a VolumeSnapshotClass for a spec of ours, and what we made goes in a teardown only.
SnapshotShape ==
    /\ crd = (SnapshotCRD = "installed")
    /\ vsc.foreign => vsc.spec = NoSpec
    /\ OwnsVSC /\ class.phase = "live" => vsc.finalizer
    /\ pass.step # "idle" => pass.mapped = crd

\* A pass that has to run again has failed.
RequeueShape == pass.requeue => pass.failed

\* The cached class is this version or an earlier one.
SeenShape ==
    /\ seen.class.life <= class.life
    /\ seen.class.life = class.life /\ class.phase # "absent" =>
          seen.class.gen <= class.gen /\ seen.class.labels <= class.labels
    /\ class.spec \in InvalidSpecs => class.gen < 2

\* The pass works on what the class is now, but for its finalizer and its status.
Follows == /\ obj.phase = "live" /\ obj.gen = class.gen
           /\ obj.spec = class.spec /\ obj.labels = class.labels

\* A pass that has been overtaken by an edit is followed by another one; one overtaken
\* by a new life of the class has said nothing of it.
FollowShape ==
    pass.step # "idle" =>
        /\ obj.life <= class.life
        /\ class.phase = "live" => IF class.life = obj.life THEN Follows \/ Notified
                                   ELSE class.ready # "true"

\* The steps of a pass that holds the class and has not come to the VolumeSnapshotClass.
Working == {"clusterID", "class", "deleteSC", "recreateSC", "snapshots", "teardown"}

\* A class that is held keeps its life.
LifeShape ==
    /\ pass.step \in Working \cup {"finalizer"} /\ obj.finalizer => class.life = obj.life
    /\ Earning => class.finalizer /\ class.life = obj.life

\* What the pass has listed and not written to is what is there, but for the marks.
CopyShape ==
    /\ pass.step \in {"finalizer", "clusterID", "class"} /\ oldSC.phase # "absent" /\ ~oldSC.foreign
          => sc = [oldSC EXCEPT !.marked = sc.marked]
    /\ pass.step \in Working \cup {"finalizer"} /\ obj.phase = "live" =>
          IF oldVSClass.foreign THEN oldVSClass.spec = NoSpec
          ELSE oldVSClass.phase # "absent" =>
                    SnapshotsFit(oldVSClass, oldVSClass.cid)

\* What a pass over a live class has done by the step it is at.
ProgressShape ==
    /\ pass.step \in Working \cup {"finalizer"} /\ obj.phase = "live" => obj.spec \in ValidSpecs
    /\ pass.step \in Working \ {"clusterID"} /\ obj.phase = "live" => pass.cid # NoCid
    /\ pass.step = "snapshots" \/ Earning => Fits(obj, pass.cid) /\ pass.cid # NoCid
    /\ Earning /\ crd => SnapshotsFit(obj, pass.cid)

\* When no pass is at work, a verdict is true or about to be looked at again.
RestShape ==
    (/\ pass.step = "idle" /\ class.phase = "live" /\ class.ready = "true"
     /\ class.observed = class.gen)
        => InPlace \/ Notified

VersionShapes == SeenShape /\ FollowShape /\ LifeShape
WorkShapes == SnapshotShape /\ RequeueShape /\ CopyShape /\ ProgressShape
VerdictShapes == VersionShapes /\ WorkShapes /\ RestShape
VerdictInv == TeardownInv /\ VerdictShapes

-----------------------------------------------------------------------------
\* Lemmas about the operators.

\* InPlace, field by field.
LEMMA InPlaceIs == TypeOK => (InPlace <=> FieldsInPlace)
  <1> SUFFICES ASSUME TypeOK PROVE InPlace <=> FieldsInPlace
    OBVIOUS
  <1>1. sc \in SCObject /\ class \in ClassObject /\ option \in Options
    BY DEF TypeOK
  <1>2. updateStorageClass(class, sc, sc.cid) \in SCObject
    BY <1>1, ConfigureTypes DEF SCObject, Cids
  <1>3. /\ updateStorageClass(class, sc, sc.cid).foreign = FALSE
        /\ updateStorageClass(class, sc, sc.cid).finalizer = TRUE
        /\ updateStorageClass(class, sc, sc.cid).spec = class.spec
        /\ updateStorageClass(class, sc, sc.cid).labels = class.labels
        /\ updateStorageClass(class, sc, sc.cid).cid = sc.cid
        /\ updateStorageClass(class, sc, sc.cid).option = option
        /\ updateStorageClass(class, sc, sc.cid).marked = sc.marked
    BY DEF updateStorageClass, ConfigureStorageClass
  <1>4. \A u \in SCObject : sc = [u EXCEPT !.phase = sc.phase] <=>
            /\ sc.foreign = u.foreign /\ sc.finalizer = u.finalizer /\ sc.spec = u.spec
            /\ sc.labels = u.labels /\ sc.cid = u.cid /\ sc.option = u.option
            /\ sc.marked = u.marked
    BY <1>1 DEF SCObject
  <1>5. sc.foreign \in BOOLEAN /\ sc.finalizer \in BOOLEAN
    BY <1>1 DEF SCObject
  <1> QED
    BY <1>2, <1>3, <1>4, <1>5 DEF InPlace, FieldsInPlace, Fits, SnapshotsFit, OwnsVSC

\* And after a step.
LEMMA InPlaceIsThen == TypeOK' => (InPlace' <=> FieldsInPlace')
  BY InPlaceIs, PTL

\* A copy that differs in nothing from what would be made needs no update.
LEMMA NoDiffFits ==
    ASSUME TypeOK, oldSC.phase # "absent", ~oldSC.foreign,
           sc = [oldSC EXCEPT !.marked = sc.marked],
           ~GetSCDiff(oldSC, updateStorageClass(obj, oldSC, pass.cid))
    PROVE  Fits(obj, pass.cid)
  <1>1. oldSC \in SCObject /\ sc \in SCObject
    BY CopyTypes DEF TypeOK
  <1>2. updateStorageClass(obj, oldSC, pass.cid) = [oldSC EXCEPT !.phase = "live"]
    BY DEF GetSCDiff
  <1>3. /\ oldSC.finalizer /\ oldSC.spec = obj.spec /\ oldSC.labels = obj.labels
        /\ oldSC.cid = pass.cid /\ oldSC.option = option
    BY <1>1, <1>2 DEF updateStorageClass, ConfigureStorageClass, SCObject
  <1> QED
    BY <1>1, <1>3 DEF Fits, SCObject

\* Of a StorageClass of ours a user may change the mark only.
LEMMA UserMarks ==
    ASSUME TypeOK, MeddleWithSC, sc.phase # "absent", ~sc.foreign
    PROVE  sc' = [sc EXCEPT !.marked = sc'.marked]
  <1>1. PICK r \in userRequests : SCValidate(r.operation, sc, r.new) /\ sc' = r.new
    BY DEF MeddleWithSC
  <1>2. \/ r.operation = "delete"
        \/ r.operation = "update" /\ r.new.foreign = sc.foreign
    <2>1. \/ r.operation = "delete"
          \/ /\ r.operation = "update"
             /\ \/ r.new \in {[sc EXCEPT !.marked = TRUE], [sc EXCEPT !.finalizer = FALSE]}
                \/ \E l \in 0..MaxEdits : r.new = [sc EXCEPT !.labels = l]
      BY DEF userRequests
    <2>2. sc \in SCObject
      BY DEF TypeOK
    <2> QED
      BY <2>1, <2>2 DEF SCObject
  <1> QED
    BY <1>1, <1>2 DEF SCValidate, isStorageClassChangedExceptAnnotations

\* How a call leaves the pass: failed, or one step on.
LEMMA CallEnds ==
    ASSUME TypeOK, NEW o, NEW legal, NEW step,
           Fail \/ Goto(step) \/ Proceed(o, legal, step)
    PROVE  /\ pass'.cid = pass.cid /\ pass'.mapped = pass.mapped
           /\ obj' = obj /\ oldSC' = oldSC /\ oldVSClass' = oldVSClass
           /\ \/ pass'.step = "publish" /\ pass'.failed
              \/ /\ pass'.step = step /\ ~Fail
                 /\ pass'.failed = pass.failed /\ pass'.requeue = pass.requeue
           /\ Fail => pass'.step = "publish" /\ pass'.failed
           /\ Proceed(o, legal, step) => (legal /\ o = "ok") \/ (pass'.step = "publish" /\ pass'.failed)
  BY DEF TypeOK, PassRecord, Fail, Goto, Proceed, obj, oldSC, oldVSClass

\* A notice stays when the class keeps its version.
LEMMA NoticeStays ==
    ASSUME Notified, queued => queued', lag \subseteq lag', seen'.class = seen.class,
           class'.phase = class.phase, class'.life = class.life, class'.gen = class.gen,
           class'.labels = class.labels
    PROVE  Notified'
  BY DEF Notified, enqueued

-----------------------------------------------------------------------------
\* The invariant is kept, one kind of step after the other.

\* The shapes hold at the start.
LEMMA VerdictInitially == Init => VerdictShapes
  <1> SUFFICES ASSUME Init PROVE VerdictShapes
    OBVIOUS
  <1>1. /\ class.phase = "absent" /\ class.life = 0 /\ class.gen = 0 /\ ~vsc.foreign
        /\ seen.class = class /\ pass.step = "idle" /\ pass.requeue = FALSE
        /\ crd = (SnapshotCRD = "installed") /\ vsc.phase = "absent"
    BY DEF Init, Gone, NoVSC, NoPass, server
  <1> QED
    BY <1>1 DEF VerdictShapes, VersionShapes, SeenShape, FollowShape, LifeShape, WorkShapes,
       SnapshotShape, RequeueShape, CopyShape, ProgressShape, RestShape, Earning, Working,
       SnapshotsFit, OwnsVSC

\* The numbers of a class are numbers.
LEMMA ClassNumbers ==
    ASSUME TypeOK
    PROVE  /\ class.life \in Nat /\ class.gen \in Nat /\ class.labels \in Nat
           /\ seen.class.life \in Nat /\ seen.class.gen \in Nat /\ seen.class.labels \in Nat
           /\ obj.life \in Nat /\ obj.gen \in Nat /\ obj.labels \in Nat
  <1>1. class \in ClassObject /\ seen.class \in ClassObject /\ obj \in ClassObject
    BY CopyTypes DEF TypeOK, ServerRecord
  <1> QED
    BY <1>1, BoundsAssumption DEF ClassObject

\* A write of users to the class that makes a new version of it, or ends its life, keeps
\* the shapes: an event about the new version is on its way.
LEMMA VerdictUserWritesClass ==
    ASSUME VerdictInv, UserWritesClass(class'), class' \in ClassObject,
           \/ /\ class'.phase = "live" /\ class.phase = "absent" /\ class'.gen = 1
              /\ class'.life = class.life + 1 /\ class'.ready = "none" /\ ~class.finalizer
           \/ /\ class'.phase = "live" /\ class.phase = "live"
              /\ class'.life = class.life /\ class'.finalizer = class.finalizer
              /\ class'.gen >= class.gen /\ class'.labels >= class.labels
              /\ class'.ready = class.ready
              /\ class'.gen > class.gen \/ class'.labels > class.labels
              /\ class'.spec \in InvalidSpecs => class'.gen < 2
           \/ /\ class'.phase = "deleting" /\ class.phase = "live" /\ class'.life = class.life
              /\ class'.finalizer = class.finalizer /\ class'.gen = class.gen
              /\ class'.labels = class.labels /\ class'.spec = class.spec
           \/ /\ class'.phase = "absent" /\ ~class.finalizer /\ class'.life = class.life
              /\ class'.gen = 0
    PROVE  VerdictShapes'
  <1> USE DEF VerdictInv, TeardownInv, TeardownShapes, VerdictShapes, VersionShapes, WorkShapes
  <1>1. /\ pass'.step = pass.step /\ pass'.copies = pass.copies /\ pass'.mapped = pass.mapped
        /\ lag' = lag \cup {"class"} /\ obj' = obj /\ oldSC' = oldSC /\ oldVSClass' = oldVSClass
        /\ pass'.cid = pass.cid /\ pass'.failed = pass.failed /\ pass'.requeue = pass.requeue
    <2>1. Outdates("class") /\ "class" \in Parts
      BY DEF UserWritesClass, Parts
    <2> QED
      BY <2>1, PassOutdated DEF Outdates, TypeOK, PassRecord
  <1>2. UNCHANGED <<sc, vsc, cid, crd, option, seen, queued>>
    BY DEF UserWritesClass
  <1>3. /\ class.life \in Nat /\ class.gen \in Nat /\ class.labels \in Nat
        /\ class'.life \in Nat /\ class'.gen \in Nat /\ class'.labels \in Nat
        /\ seen.class.life \in Nat /\ seen.class.gen \in Nat /\ seen.class.labels \in Nat
        /\ obj.life \in Nat
    BY ClassNumbers, BoundsAssumption DEF ClassObject
  <1>4. SeenShape'
    BY <1>2, <1>3 DEF SeenShape
  <1>5. class'.phase = "live" => Notified'
    BY <1>1, <1>2, <1>3 DEF SeenShape, Notified, enqueued
  <1>6. Earning' = Earning
    BY <1>1 DEF Earning
  <1>7. FollowShape'
    BY <1>1, <1>3, <1>5 DEF FollowShape
  <1>8. LifeShape'
    <2>1. pass.step \in Working \cup {"finalizer"} /\ obj.finalizer => class.finalizer
      BY DEF PassShape, Past, Live, Teardown, Working
    <2> QED
      BY <1>1, <1>6, <2>1 DEF LifeShape
  <1>9. WorkShapes'
    <2>1. SnapshotShape' /\ RequeueShape'
      BY <1>1, <1>2 DEF SnapshotShape, RequeueShape, Held, OwnsVSC
    <2>3. CopyShape'
      BY <1>1, <1>2 DEF CopyShape, SnapshotsFit, OwnsVSC
    <2>2. ProgressShape'
      BY <1>1, <1>2, <1>6 DEF ProgressShape, Fits, SnapshotsFit, OwnsVSC
    <2> QED
      BY <2>1, <2>2, <2>3
  <1>10. RestShape'
    BY <1>5 DEF RestShape
  <1> QED
    BY <1>4, <1>7, <1>8, <1>9, <1>10

\* Users keep the shapes when the CRDs are not installed late.
LEMMA VerdictStepUser ==
    ASSUME VerdictInv, TypeOK', SnapshotCRD # "late", User
    PROVE  VerdictShapes'
  <1> USE DEF VerdictInv, TeardownInv, TeardownShapes
  <1>0. /\ class \in ClassObject /\ class.life \in Nat /\ class.gen \in Nat
        /\ class.labels \in Nat /\ class' \in ClassObject
    BY ClassNumbers DEF TypeOK
  <1>1. CASE CreateClass
    <2>1. PICK s \in Specs : UserWritesClass([Gone(class.life + 1) EXCEPT !.phase = "live",
                                                  !.gen = 1, !.spec = s])
      BY <1>1 DEF CreateClass
    <2>2. /\ class'.phase = "live" /\ class'.gen = 1 /\ class'.life = class.life + 1
          /\ class'.ready = "none" /\ UserWritesClass(class')
      BY <2>1 DEF UserWritesClass, Gone
    <2>3. class.phase = "absent" /\ ~class.finalizer
      BY <1>1 DEF CreateClass, ObjectShape
    <2> QED
      BY <1>0, <2>2, <2>3, VerdictUserWritesClass
  <1>2. CASE CompleteSpec
    <2>1. PICK s \in ValidSpecs : UserWritesClass([class EXCEPT !.spec = s, !.gen = 2])
      BY <1>2 DEF CompleteSpec
    <2>2. /\ class'.phase = "live" /\ class'.life = class.life
          /\ class'.finalizer = class.finalizer /\ class'.gen = 2 /\ class'.spec = s
          /\ class'.labels = class.labels /\ class'.ready = class.ready
          /\ UserWritesClass(class')
      BY <1>0, <1>2, <2>1 DEF UserWritesClass, CompleteSpec, ClassObject
    <2>3. class.gen < 2 /\ s \notin InvalidSpecs /\ class.phase = "live"
      BY <1>2, SpecsAssumption DEF CompleteSpec, VerdictShapes, VersionShapes, SeenShape
    <2> QED
      BY <1>0, <2>2, <2>3, VerdictUserWritesClass
  <1>3. CASE EditLabels
    <2>1. /\ class'.phase = "live" /\ class'.life = class.life /\ class.phase = "live"
          /\ class'.finalizer = class.finalizer /\ class'.gen = class.gen
          /\ class'.spec = class.spec /\ class'.labels = class.labels + 1
          /\ class'.ready = class.ready /\ UserWritesClass(class')
      BY <1>0, <1>3 DEF UserWritesClass, EditLabels, ClassObject
    <2>2. class'.spec \in InvalidSpecs => class'.gen < 2
      BY <2>1 DEF VerdictShapes, VersionShapes, SeenShape
    <2> QED
      BY <1>0, <2>1, <2>2, VerdictUserWritesClass
  <1>4. CASE DeleteClass /\ class.finalizer
    <2>1. /\ class'.phase = "deleting" /\ class'.life = class.life /\ class.phase = "live"
          /\ class'.finalizer = class.finalizer /\ class'.gen = class.gen
          /\ class'.spec = class.spec /\ class'.labels = class.labels
          /\ UserWritesClass(class')
      BY <1>0, <1>4 DEF UserWritesClass, DeleteClass, ClassObject
    <2> QED
      BY <1>0, <2>1, VerdictUserWritesClass
  <1>5. CASE DeleteClass /\ ~class.finalizer
    <2>1. /\ class'.phase = "absent" /\ class'.life = class.life /\ class'.gen = 0
          /\ UserWritesClass(class')
      BY <1>5 DEF UserWritesClass, DeleteClass, Gone
    <2> QED
      BY <1>0, <1>5, <2>1, VerdictUserWritesClass
  <1>6. CASE MeddleWithSC
    <2> USE DEF VerdictShapes, VersionShapes, WorkShapes
    <2>1. /\ pass'.step = pass.step /\ pass'.copies = pass.copies /\ pass'.mapped = pass.mapped
          /\ lag' = lag \cup {"sc"} /\ obj' = obj /\ oldSC' = oldSC /\ oldVSClass' = oldVSClass
          /\ pass'.cid = pass.cid /\ pass'.failed = pass.failed /\ pass'.requeue = pass.requeue
      <3>1. Outdates("sc") /\ "sc" \in Parts
        BY <1>6 DEF MeddleWithSC, Parts
      <3> QED
        BY <3>1, PassOutdated DEF Outdates, TypeOK, PassRecord
    <2>2. UNCHANGED <<class, vsc, cid, crd, option, seen, queued>>
      BY <1>6 DEF MeddleWithSC
    <2>3. sc \in SCObject /\ oldSC \in SCObject
      BY CopyTypes DEF TypeOK
    <2>4. sc.phase # "absent" /\ ~sc.foreign =>
              /\ sc' = [sc EXCEPT !.marked = sc'.marked]
              /\ sc'.phase = sc.phase /\ sc'.foreign = sc.foreign /\ sc'.finalizer = sc.finalizer
              /\ sc'.spec = sc.spec /\ sc'.labels = sc.labels /\ sc'.cid = sc.cid
              /\ sc'.option = sc.option
      <3>1. sc.phase # "absent" /\ ~sc.foreign => sc' = [sc EXCEPT !.marked = sc'.marked]
        BY <1>6, UserMarks
      <3> QED
        BY <2>3, <3>1 DEF SCObject
    <2>5. \A c, k : Fits(c, k) => Fits(c, k)'
      BY <2>2, <2>4 DEF Fits
    <2>6. Notified' = Notified /\ Earning' = Earning
      BY <2>1, <2>2 DEF Notified, enqueued, Earning
    <2>7. VersionShapes'
      BY <2>1, <2>2, <2>6 DEF SeenShape, FollowShape, LifeShape, Follows
    <2>8. CopyShape'
      <3>1. ASSUME pass.step \in {"finalizer", "clusterID", "class"}, oldSC.phase # "absent",
                   ~oldSC.foreign
            PROVE  sc' = [oldSC EXCEPT !.marked = sc'.marked]
        <4>1. sc = [oldSC EXCEPT !.marked = sc.marked]
          BY <3>1 DEF CopyShape
        <4>2. sc.phase # "absent" /\ ~sc.foreign
          BY <2>3, <3>1, <4>1 DEF SCObject
        <4> QED
          BY <2>3, <2>4, <4>1, <4>2 DEF SCObject
      <3> QED
        BY <2>1, <2>2, <3>1 DEF CopyShape, SnapshotsFit, OwnsVSC
    <2>9. ProgressShape'
      BY <2>1, <2>2, <2>5, <2>6 DEF ProgressShape, Fits, SnapshotsFit, OwnsVSC
    <2>10. RestShape'
      <3>1. InPlace => InPlace'
        <4>1. FieldsInPlace => FieldsInPlace'
          BY <2>2, <2>4 DEF FieldsInPlace, Fits, SnapshotsFit, OwnsVSC
        <4> QED
          BY <4>1, InPlaceIs, InPlaceIsThen
      <3> QED
        BY <2>1, <2>2, <2>6, <3>1 DEF RestShape
    <2> QED
      BY <2>1, <2>2, <2>7, <2>8, <2>9, <2>10 DEF SnapshotShape, RequeueShape, OwnsVSC
  <1>7. CASE MeddleWithConnection
    <2> USE DEF VerdictShapes, VersionShapes, WorkShapes
    <2>1. /\ pass'.step = pass.step /\ pass'.copies = pass.copies /\ pass'.mapped = pass.mapped
          /\ lag' = lag \cup {"cid"} /\ obj' = obj /\ oldSC' = oldSC /\ oldVSClass' = oldVSClass
          /\ pass'.cid = pass.cid /\ pass'.failed = pass.failed /\ pass'.requeue = pass.requeue
      <3>1. Outdates("cid") /\ "cid" \in Parts
        BY <1>7 DEF MeddleWithConnection, Parts
      <3> QED
        BY <3>1, PassOutdated DEF Outdates, TypeOK, PassRecord
    <2>2. UNCHANGED <<class, sc, vsc, crd, option, seen, queued>>
      BY <1>7 DEF MeddleWithConnection
    <2>3. Notified' = Notified /\ Earning' = Earning
      BY <2>1, <2>2 DEF Notified, enqueued, Earning
    <2>4. VersionShapes'
      BY <2>1, <2>2, <2>3 DEF SeenShape, FollowShape, LifeShape, Follows
    <2>5. WorkShapes'
      BY <2>1, <2>2, <2>3
      DEF SnapshotShape, RequeueShape, CopyShape, ProgressShape, Fits, SnapshotsFit, OwnsVSC
    <2>6. RestShape'
      BY <2>1, <2>2, <2>3 DEF RestShape, InPlace, updateStorageClass, ConfigureStorageClass
    <2> QED
      BY <2>4, <2>5, <2>6
  <1>8. CASE MeddleWithVSC
    <2> USE DEF VerdictShapes, VersionShapes, WorkShapes
    <2>1. /\ pass'.step = pass.step /\ pass'.copies = pass.copies /\ pass'.mapped = pass.mapped
          /\ lag' = lag \cup {"vsc"} /\ obj' = obj /\ oldSC' = oldSC /\ oldVSClass' = oldVSClass
          /\ pass'.cid = pass.cid /\ pass'.failed = pass.failed /\ pass'.requeue = pass.requeue
      <3>1. Outdates("vsc") /\ "vsc" \in Parts
        BY <1>8 DEF MeddleWithVSC, Parts
      <3> QED
        BY <3>1, PassOutdated DEF Outdates, TypeOK, PassRecord
    <2>2. UNCHANGED <<class, sc, cid, crd, option, seen, queued>>
      BY <1>8 DEF MeddleWithVSC
    \* One with the finalizer stays, and the one a user makes is not of our driver.
    <2>3. /\ OwnsVSC /\ vsc.finalizer =>
                OwnsVSC' /\ vsc'.finalizer /\ vsc'.spec = vsc.spec /\ vsc'.cid = vsc.cid
          /\ OwnsVSC' => OwnsVSC /\ vsc.finalizer
          /\ vsc'.foreign => vsc'.spec = NoSpec
      <3>1. vsc \in VSCObject /\ (vsc.finalizer => OwnsVSC) /\ (vsc.foreign => vsc.spec = NoSpec)
        BY DEF TypeOK, ObjectShape, SnapshotShape
      <3>2. \/ vsc = NoVSC /\ vsc' = ForeignVSC
            \/ vsc.finalizer /\ vsc.phase = "live" /\ vsc' = [vsc EXCEPT !.phase = "terminating"]
            \/ ~vsc.finalizer /\ vsc' = NoVSC
        BY <1>8 DEF MeddleWithVSC, afterDelete
      <3>3. /\ NoVSC.phase = "absent" /\ ~NoVSC.foreign /\ ~NoVSC.finalizer
            /\ ForeignVSC.foreign /\ ForeignVSC.spec = NoSpec
        BY DEF NoVSC, ForeignVSC
      <3>4. CASE vsc.finalizer /\ vsc' = [vsc EXCEPT !.phase = "terminating"]
        BY <3>1, <3>4 DEF OwnsVSC, VSCObject
      <3> QED
        BY <3>1, <3>2, <3>3, <3>4 DEF OwnsVSC
    <2>4. \A c, k : SnapshotsFit(c, k) => SnapshotsFit(c, k)'
      BY <2>3 DEF SnapshotsFit
    <2>5. Notified' = Notified /\ Earning' = Earning
      BY <2>1, <2>2 DEF Notified, enqueued, Earning
    <2>6. VersionShapes'
      BY <2>1, <2>2, <2>5 DEF SeenShape, FollowShape, LifeShape, Follows
    <2>7. SnapshotShape' /\ RequeueShape'
      BY <2>1, <2>2, <2>3 DEF SnapshotShape, RequeueShape
    <2>8. CopyShape'
      BY <2>1, <2>2, <2>3 DEF CopyShape, SnapshotsFit
    <2>9. ProgressShape'
      BY <2>1, <2>2, <2>3, <2>5 DEF ProgressShape, Fits, SnapshotsFit
    <2>10. RestShape'
      <3>1. class.phase = "live" /\ InPlace => InPlace'
        <4>1. class.phase = "live" /\ FieldsInPlace => FieldsInPlace'
          BY <2>2, <2>3 DEF FieldsInPlace, Fits, SnapshotShape
        <4> QED
          BY <4>1, InPlaceIs, InPlaceIsThen
      <3> QED
        BY <2>1, <2>2, <2>5, <3>1 DEF RestShape
    <2> QED
      BY <2>6, <2>7, <2>8, <2>9, <2>10
  <1>9. ~InstallSnapshotCRD
    BY DEF InstallSnapshotCRD
  <1> QED
    BY <1>1, <1>2, <1>3, <1>4, <1>5, <1>6, <1>7, <1>8, <1>9 DEF User

\* The informer cache keeps the shapes: the event of a new version puts the key into the
\* workqueue.
LEMMA VerdictStepSync ==
    ASSUME VerdictInv, NEW part \in Parts, Sync(part)
    PROVE  VerdictShapes'
  <1> USE DEF VerdictInv, TeardownInv, TeardownShapes, VerdictShapes, VersionShapes, WorkShapes
  <1>1. /\ UNCHANGED <<class, sc, vsc, cid, crd, option, pass>> /\ lag' = lag \ {part}
        /\ queued' = (queued \/ (part = "class" /\ enqueued))
        /\ seen' = [seen EXCEPT ![part] = server[part]]
    BY DEF Sync
  <1>2. seen'.class = IF part = "class" THEN class ELSE seen.class
    <2>1. seen \in ServerRecord
      BY DEF TypeOK
    <2>2. CASE part = "class"
      BY <1>1, <2>1, <2>2 DEF server, ServerRecord
    <2>3. CASE part = "sc"
      BY <1>1, <2>1, <2>3 DEF server, ServerRecord
    <2>4. CASE part = "vsc"
      BY <1>1, <2>1, <2>4 DEF server, ServerRecord
    <2>5. CASE part = "cid"
      BY <1>1, <2>1, <2>5 DEF server, ServerRecord
    <2> QED
      BY <2>2, <2>3, <2>4, <2>5 DEF Parts
  <1>3. Notified => Notified'
    BY <1>1, <1>2 DEF Notified, enqueued
  <1>4. SeenShape'
    BY <1>1, <1>2, ClassNumbers DEF SeenShape
  <1>5. obj' = obj /\ oldSC' = oldSC /\ oldVSClass' = oldVSClass /\ Earning' = Earning
    BY <1>1 DEF obj, oldSC, oldVSClass, Earning
  <1>6. FollowShape' /\ LifeShape'
    BY <1>1, <1>3, <1>5 DEF FollowShape, LifeShape, Follows
  <1>7. SnapshotShape' /\ RequeueShape' /\ CopyShape'
    BY <1>1, <1>5 DEF SnapshotShape, RequeueShape, CopyShape, SnapshotsFit, OwnsVSC
  <1>8. ProgressShape'
    BY <1>1, <1>5 DEF ProgressShape, Fits, SnapshotsFit, OwnsVSC
  <1>9. RestShape'
    BY <1>1, <1>3 DEF RestShape, InPlace, updateStorageClass, ConfigureStorageClass
  <1> QED
    BY <1>4, <1>6, <1>7, <1>8, <1>9

\* So does a new process, which takes every class up again.
LEMMA VerdictStepRestart ==
    ASSUME VerdictInv, CrashRestart
    PROVE  VerdictShapes'
  <1>1. /\ UNCHANGED <<class, sc, vsc, cid, crd>> /\ seen'.class = class
        /\ queued' = (class.phase # "absent")
        /\ pass'.step = "idle" /\ pass'.requeue = FALSE
    BY DEF CrashRestart, server, NoPass
  <1>2. SeenShape'
    BY <1>1, ClassNumbers DEF VerdictInv, TeardownInv, VerdictShapes, VersionShapes, SeenShape
  <1>3. RestShape'
    BY <1>1 DEF RestShape, Notified
  <1>4. FollowShape' /\ LifeShape' /\ CopyShape' /\ ProgressShape' /\ RequeueShape'
    BY <1>1 DEF FollowShape, LifeShape, CopyShape, ProgressShape, RequeueShape, Earning,
       Working, SnapshotsFit, OwnsVSC
  <1>5. SnapshotShape'
    BY <1>1 DEF VerdictInv, VerdictShapes, WorkShapes, SnapshotShape, OwnsVSC
  <1> QED
    BY <1>2, <1>3, <1>4, <1>5 DEF VerdictShapes, VersionShapes, WorkShapes

\* The start of a pass keeps the shapes: what it reads is what there is.
LEMMA VerdictStepStart ==
    ASSUME StaleReads = FALSE, MapperFails = FALSE, VerdictInv, Start
    PROVE  VerdictShapes'
  <1> USE DEF VerdictInv, TeardownInv, TeardownShapes, VerdictShapes, VersionShapes, WorkShapes
  <1>1. PICK mapped \in BOOLEAN : StartReconcile(mapped)
    BY DEF Start
  <1>2. /\ UNCHANGED <<class, sc, vsc, cid, crd, option, seen, lag>> /\ pass.step = "idle"
        /\ seen.class = class /\ seen.sc = sc /\ seen.vsc = vsc
    BY <1>1 DEF StartReconcile, Fresh, CacheShape
  <1>3. SeenShape'
    BY <1>2 DEF SeenShape
  <1>4. CASE class.phase = "absent"
    <2>1. UNCHANGED pass
      BY <1>1, <1>2, <1>4 DEF StartReconcile
    <2> QED
      BY <1>2, <1>3, <1>4, <2>1
      DEF FollowShape, LifeShape, SnapshotShape, RequeueShape, CopyShape, ProgressShape, RestShape,
          Earning, Working, obj, SnapshotsFit, OwnsVSC
  <1>5. CASE class.phase # "absent"
    <2>1. /\ pass'.step = firstStep(class) /\ obj' = class /\ oldSC' = sc /\ oldVSClass' = vsc
          /\ pass'.mapped = crd /\ pass'.requeue = FALSE
          /\ pass'.failed = (firstStep(class) = "publish")
      BY <1>1, <1>2, <1>5
      DEF StartReconcile, VolumeSnapshotClassCRDExists, obj, oldSC, oldVSClass
    <2>2. /\ firstStep(class) \in {"teardown", "finalizer", "publish"}
          /\ class.phase = "deleting" => firstStep(class) = "teardown"
      BY DEF firstStep
    <2>3. class \in ClassObject /\ class.life \in Nat
      BY ClassNumbers DEF TypeOK
    <2>4. FollowShape'
      BY <1>2, <2>1, <2>2, <2>3 DEF FollowShape, Follows
    <2>5. /\ ~Earning' /\ pass'.step \in {"teardown", "finalizer", "publish"}
          /\ pass'.step = "teardown" => class.phase = "deleting"
          /\ pass'.step = "finalizer" => class.spec \in ValidSpecs
      BY <2>1, <2>2 DEF Earning, firstStep
    <2>6. LifeShape' /\ ProgressShape' /\ RestShape'
      BY <1>2, <2>1, <2>5 DEF LifeShape, ProgressShape, RestShape, Working
    <2>7. sc = [sc EXCEPT !.marked = sc.marked]
      BY DEF TypeOK, SCObject
    <2>8. SnapshotShape' /\ RequeueShape' /\ CopyShape'
      BY <1>2, <2>1, <2>5, <2>7 DEF SnapshotShape, RequeueShape, CopyShape, SnapshotsFit,
         OwnsVSC
    <2> QED
      BY <1>3, <2>4, <2>6, <2>8
  <1> QED
    BY <1>4, <1>5

\* A call of a pass that leaves the version of the class and what the pass works on alone
\* keeps how they compare.
LEMMA VersionsKept ==
    ASSUME TypeOK, VersionShapes, UNCHANGED <<seen, queued>>, lag \subseteq lag',
           pass.step # "idle", pass'.step \notin {"idle", "finalizer"},
           class'.phase = class.phase, class'.life = class.life, class'.gen = class.gen,
           class'.spec = class.spec, class'.labels = class.labels, class'.ready = class.ready,
           class.finalizer => class'.finalizer,
           obj'.phase = obj.phase, obj'.life = obj.life, obj'.gen = obj.gen,
           obj'.spec = obj.spec, obj'.labels = obj.labels,
           pass'.step \in Working \/ Earning' => class'.finalizer /\ class.life = obj.life
    PROVE  VersionShapes' /\ RestShape'
  <1>1. Notified => Notified'
    BY NoticeStays
  <1>2. SeenShape' /\ RestShape'
    BY DEF VersionShapes, SeenShape, RestShape
  <1>3. FollowShape'
    BY <1>1 DEF VersionShapes, FollowShape, Follows
  <1>4. LifeShape'
    BY DEF LifeShape
  <1> QED
    BY <1>2, <1>3, <1>4 DEF VersionShapes

\* The claim of a class keeps the shapes.
LEMMA VerdictStepFinalizer ==
    ASSUME VerdictInv, NEW o, addFinalizerIfNotExists(o)
    PROVE  VerdictShapes'
  <1> USE DEF VerdictInv, TeardownInv, TeardownShapes, VerdictShapes
  <1> DEFINE claimed == [obj EXCEPT !.finalizer = TRUE]
  <1>0. /\ pass.step = "finalizer" /\ class \in ClassObject /\ obj \in ClassObject
        /\ pass \in PassRecord /\ pass.copies \in ServerRecord
    BY CopyTypes DEF addFinalizerIfNotExists, TypeOK, PassRecord
  <1>1. UNCHANGED <<sc, vsc, cid, crd, option, seen, queued>> /\ lag \subseteq lag'
    BY DEF addFinalizerIfNotExists, WriteClass
  <1>2. /\ claimed.phase = obj.phase /\ claimed.life = obj.life /\ claimed.gen = obj.gen
        /\ claimed.spec = obj.spec /\ claimed.labels = obj.labels /\ claimed.ready = obj.ready
        /\ claimed.finalizer
    BY <1>0 DEF ClassObject
  <1>3. "class" \in pass.current => class = obj
    BY <1>0 DEF PassShape
  \* A success claims the class the pass has read.
  <1>4. \/ /\ pass'.step = "clusterID" /\ obj' = claimed /\ class' = claimed
           /\ class = obj
           /\ pass'.failed = pass.failed /\ pass'.requeue = pass.requeue
        \/ /\ pass'.step = "clusterID" /\ obj' = obj /\ class' = class /\ obj.finalizer
           /\ pass'.failed = pass.failed /\ pass'.requeue = pass.requeue
        \/ /\ pass'.step = "publish" /\ pass'.failed /\ obj' = obj
           /\ class' = class \/ (class' = claimed /\ class = obj)
    <2>1. CASE obj.finalizer
      BY <1>0, <2>1, CallEnds DEF addFinalizerIfNotExists, Goto, PassRecord, obj
    <2>2. CASE ~obj.finalizer /\ "class" \in pass.current /\ o = "ok"
      <3>1. class' = claimed /\ class = obj
        BY <1>3, <2>2 DEF addFinalizerIfNotExists, WriteClass
      <3>2. pass' = [pass EXCEPT !.step = "clusterID", !.copies.class = claimed]
        BY <2>2 DEF addFinalizerIfNotExists
      <3>3. /\ pass'.step = "clusterID" /\ obj' = claimed
            /\ pass'.failed = pass.failed /\ pass'.requeue = pass.requeue
        BY <1>0, <3>2 DEF PassRecord, ServerRecord, obj
      <3> QED
        BY <3>1, <3>3
    <2>3. CASE ~obj.finalizer /\ ~("class" \in pass.current /\ o = "ok")
      <3>1. class' = class \/ (class' = claimed /\ class = obj)
        BY <1>3, <2>3 DEF addFinalizerIfNotExists, WriteClass
      <3>2. Fail
        BY <2>3 DEF addFinalizerIfNotExists
      <3> QED
        BY <3>1, <3>2, CallEnds
    <2> QED
      BY <2>1, <2>2, <2>3
  <1>5. pass'.cid = pass.cid /\ pass'.mapped = pass.mapped /\ oldSC' = oldSC
        /\ oldVSClass' = oldVSClass
    <2>1. CASE pass' = [pass EXCEPT !.step = "clusterID", !.copies.class = claimed]
      BY <1>0, <2>1 DEF PassRecord, ServerRecord, oldSC, oldVSClass
    <2>2. CASE Goto("clusterID") \/ Fail
      BY <2>2, CallEnds
    <2> QED
      BY <2>1, <2>2 DEF addFinalizerIfNotExists
  <1> HIDE DEF claimed
  <1>6. obj.finalizer => class.finalizer /\ class.life = obj.life
    BY <1>0 DEF PassShape, VersionShapes, LifeShape
  <1>7. VersionShapes' /\ RestShape'
    <2>1. /\ class'.phase = class.phase /\ class'.life = class.life /\ class'.gen = class.gen
          /\ class'.spec = class.spec /\ class'.labels = class.labels
          /\ class'.ready = class.ready /\ (class.finalizer => class'.finalizer)
          /\ obj'.phase = obj.phase /\ obj'.life = obj.life /\ obj'.gen = obj.gen
          /\ obj'.spec = obj.spec /\ obj'.labels = obj.labels
      BY <1>2, <1>4
    <2>2. pass'.step \in Working \/ Earning' => class'.finalizer /\ class.life = obj.life
      BY <1>2, <1>4, <1>6 DEF Working, Earning
    <2>3. pass'.step \in {"clusterID", "publish"}
      BY <1>4
    <2> QED
      BY <1>0, <1>1, <2>1, <2>2, <2>3, VersionsKept
  <1>8. WorkShapes'
    <2>1. pass'.step = "clusterID" \/ (pass'.step = "publish" /\ pass'.failed)
      BY <1>4
    <2>2. pass'.requeue => pass'.failed
      BY <1>4 DEF WorkShapes, RequeueShape
    <2>6. /\ obj'.phase = obj.phase /\ obj'.spec = obj.spec /\ class'.phase = class.phase
      BY <1>2, <1>4
    <2>3. CopyShape'
      BY <1>0, <1>1, <1>5, <2>1, <2>6 DEF WorkShapes, CopyShape, Working, SnapshotsFit, OwnsVSC
    <2>4. ProgressShape'
      BY <1>0, <2>1, <2>6 DEF WorkShapes, ProgressShape, Earning, Working
    <2>5. SnapshotShape'
      BY <1>0, <1>1, <1>5, <2>6 DEF WorkShapes, SnapshotShape, OwnsVSC
    <2> QED
      BY <2>2, <2>3, <2>4, <2>5 DEF WorkShapes, RequeueShape
  <1> QED
    BY <1>7, <1>8

\* A call that leaves the class and the VolumeSnapshotClass alone keeps the shapes, if what
\* it does to the StorageClass is what the next step expects.
LEMMA VerdictStepOnSC ==
    ASSUME VerdictInv, UNCHANGED <<class, vsc, crd, option, seen, queued>>, lag \subseteq lag',
           pass.step \in Working,
           obj' = obj, oldSC' = oldSC, oldVSClass' = oldVSClass, pass'.mapped = pass.mapped,
           \/ pass'.step = "publish" /\ pass'.failed
           \/ /\ pass'.failed = pass.failed /\ pass'.requeue = pass.requeue
              /\ \/ pass'.step = "class" /\ pass.step = "clusterID" /\ pass'.cid # NoCid /\ sc' = sc
                 \/ /\ pass'.cid = pass.cid
                    /\ \/ pass'.step \in {"deleteSC", "recreateSC"} /\ pass.step # "clusterID"
                       \/ pass'.step = "teardownVSC"
                       \/ /\ pass'.step = "snapshots" /\ pass.step \in {"class", "recreateSC"}
                          /\ Fits(obj, pass.cid)'
    PROVE  VerdictShapes'
  <1> USE DEF VerdictInv, TeardownInv, TeardownShapes, VerdictShapes
  <1>1. class.finalizer /\ obj.finalizer /\ class.life = obj.life
    BY DEF PassShape, Past, Live, Teardown, Working, VersionShapes, LifeShape
  <1>2. VersionShapes' /\ RestShape'
    <2>1. pass'.step \notin {"idle", "finalizer"} /\ pass.step # "idle"
      BY DEF Working
    <2> QED
      BY <1>1, <2>1, VersionsKept DEF TypeOK
  <1>3. ~Earning'
    BY DEF Earning
  <1>4. pass'.requeue => pass'.failed
    BY DEF WorkShapes, RequeueShape
  <1>5. CopyShape'
    <2>1. pass'.step = "class" => pass.step = "clusterID" /\ sc' = sc
      OBVIOUS
    <2> QED
      BY <2>1 DEF WorkShapes, CopyShape, Working, SnapshotsFit, OwnsVSC
  <1>6. ProgressShape'
    <2>1. pass.step = "teardown" => obj.phase # "live"
      BY DEF PassShape, Teardown, Deleting
    <2>2. pass'.step \in Working \ {"clusterID"} /\ obj.phase = "live" => pass'.cid # NoCid
      BY <2>1 DEF WorkShapes, ProgressShape, Working
    <2>3. pass.step \in {"class", "recreateSC"} => obj.phase = "live"
      BY CopyTypes DEF PassShape, Past, Live, Deleting, ClassObject
    <2>4. pass'.step = "snapshots" => Fits(obj, pass.cid)' /\ pass'.cid # NoCid
      BY <2>3 DEF WorkShapes, ProgressShape, Working
    <2>5. obj.phase = "live" => obj.spec \in ValidSpecs
      BY DEF WorkShapes, ProgressShape
    <2> QED
      BY <1>3, <2>2, <2>4, <2>5 DEF ProgressShape
  <1>7. SnapshotShape'
    BY DEF WorkShapes, SnapshotShape, Working, OwnsVSC
  <1> QED
    BY <1>2, <1>4, <1>5, <1>6, <1>7 DEF WorkShapes, RequeueShape

\* The calls about the StorageClass keep the shapes: it is created as the class asks for, or
\* is so already.
LEMMA VerdictStepClass ==
    ASSUME VerdictInv, NEW o,
           \/ getClusterID(o) \/ reconcileStorageClass(o) \/ recreateStorageClass(o)
           \/ reconcileStorageClassDelete(o) \/ deleteStorageClass(o)
    PROVE  VerdictShapes'
  <1> USE DEF VerdictInv, TeardownInv, TeardownShapes
  <1>0. /\ pass \in PassRecord /\ pass.step \in Working
        /\ UNCHANGED <<class, vsc, crd, option, seen, queued>> /\ lag \subseteq lag'
    BY DEF TypeOK, Working, getClusterID, reconcileStorageClass, recreateStorageClass,
       reconcileStorageClassDelete, deleteStorageClass, CreateStorageClass, unfinalizeSC, WriteSC
  <1>1. CASE getClusterID(o)
    <2>1. CASE seen.cid # NoCid /\ o = "ok"
      <3>1. pass' = [pass EXCEPT !.step = "class", !.cid = seen.cid]
        BY <1>1, <2>1 DEF getClusterID
      <3>2. /\ pass'.step = "class" /\ pass'.cid # NoCid /\ pass'.failed = pass.failed
            /\ pass'.requeue = pass.requeue /\ pass'.mapped = pass.mapped
            /\ obj' = obj /\ oldSC' = oldSC /\ oldVSClass' = oldVSClass
        BY <1>0, <2>1, <3>1 DEF PassRecord, obj, oldSC, oldVSClass
      <3>3. pass.step = "clusterID" /\ sc' = sc
        BY <1>1 DEF getClusterID
      <3> QED
        BY <1>0, <3>2, <3>3, VerdictStepOnSC
    <2>2. CASE ~(seen.cid # NoCid /\ o = "ok")
      <3>1. Fail
        BY <1>1, <2>2 DEF getClusterID
      <3> QED
        BY <1>0, <3>1, CallEnds, VerdictStepOnSC
    <2> QED
      BY <2>1, <2>2
  <1>2. ASSUME Fail PROVE VerdictShapes'
    BY <1>0, <1>2, CallEnds, VerdictStepOnSC
  <1>3. ASSUME pass.step \in {"class", "recreateSC"},
               NEW new \in {ConfigureStorageClass(obj, pass.cid),
                            updateStorageClass(obj, oldSC, pass.cid)},
               CreateStorageClass(o, new)
        PROVE  VerdictShapes'
    <2> DEFINE legal == sc.phase = "absent"
    <2>1. WriteSC(o, legal, new) /\ Proceed(o, legal, "snapshots")
      BY <1>3 DEF CreateStorageClass
    <2> HIDE DEF legal
    <2>2. CASE legal /\ o = "ok"
      <3>1. sc' = new
        BY <2>1, <2>2 DEF WriteSC
      <3>2. Goto("snapshots")
        BY <2>1, <2>2 DEF Proceed
      <3>3. /\ pass'.step = "snapshots" /\ pass'.failed = pass.failed
            /\ pass'.requeue = pass.requeue /\ pass'.cid = pass.cid /\ pass'.mapped = pass.mapped
            /\ obj' = obj /\ oldSC' = oldSC /\ oldVSClass' = oldVSClass
        BY <1>0, <3>2 DEF Goto, PassRecord, obj, oldSC, oldVSClass
      <3>4. sc' \in {ConfigureStorageClass(obj, pass.cid), updateStorageClass(obj, oldSC, pass.cid)}
        BY <3>1
      <3>5. Fits(obj, pass.cid)'
        <4>1. /\ sc'.phase # "absent" /\ ~sc'.foreign /\ sc'.finalizer
              /\ sc'.spec = obj.spec /\ sc'.labels = obj.labels /\ sc'.cid = pass.cid
              /\ sc'.option = option'
          BY <1>0, <3>4 DEF ConfigureStorageClass, updateStorageClass
        <4> QED
          BY <3>3, <4>1 DEF Fits
      <3> QED
        BY <1>0, <1>3, <3>3, <3>5, VerdictStepOnSC
    <2>3. CASE ~(legal /\ o = "ok")
      BY <1>2, <2>1, <2>3 DEF Proceed
    <2> QED
      BY <2>2, <2>3
  <1>4. ASSUME NEW step \in {"deleteSC", "recreateSC", "teardownVSC"}, NEW legal,
               Goto(step) \/ Proceed(o, legal, step),
               step \in {"deleteSC", "recreateSC"} => pass.step # "clusterID"
        PROVE  VerdictShapes'
    <2>1. CASE Fail
      BY <1>2, <2>1
    <2>2. CASE Goto(step)
      <3>1. /\ pass'.step = step /\ pass'.failed = pass.failed
            /\ pass'.requeue = pass.requeue /\ pass'.cid = pass.cid /\ pass'.mapped = pass.mapped
            /\ obj' = obj /\ oldSC' = oldSC /\ oldVSClass' = oldVSClass
        BY <1>0, <2>2 DEF Goto, PassRecord, obj, oldSC, oldVSClass
      <3> QED
        BY <1>0, <1>4, <3>1, VerdictStepOnSC
    <2> QED
      BY <1>4, <2>1, <2>2 DEF Proceed
  <1>5. ASSUME unfinalizeSC(o), pass.step # "clusterID" PROVE VerdictShapes'
    <2>1. Goto("deleteSC") \/ Proceed(o, "sc" \in pass.current, "deleteSC")
      BY <1>5 DEF unfinalizeSC
    <2> QED
      BY <1>4, <1>5, <2>1
  <1>6. CASE reconcileStorageClass(o)
    <2>0. pass.step = "class" /\ oldSC.phase # "absent" /\ ~oldSC.foreign =>
              sc = [oldSC EXCEPT !.marked = sc.marked]
      BY DEF VerdictShapes, WorkShapes, CopyShape
    <2>1. pass.step = "class"
      BY <1>6 DEF reconcileStorageClass
    <2>2. \/ CreateStorageClass(o, ConfigureStorageClass(obj, pass.cid))
          \/ Fail
          \/ unfinalizeSC(o)
          \/ /\ oldSC.phase # "absent" /\ ~provisionerDiffers(oldSC, obj)
             /\ ~GetSCDiff(oldSC, updateStorageClass(obj, oldSC, pass.cid))
             /\ Goto("snapshots") /\ UNCHANGED <<sc, lag>>
      BY <1>6 DEF reconcileStorageClass
    <2>3. CASE /\ oldSC.phase # "absent" /\ ~provisionerDiffers(oldSC, obj)
               /\ ~GetSCDiff(oldSC, updateStorageClass(obj, oldSC, pass.cid))
               /\ Goto("snapshots") /\ UNCHANGED <<sc, lag>>
      <3>1. Fits(obj, pass.cid)
        BY <2>0, <2>1, <2>3, NoDiffFits DEF provisionerDiffers
      <3>2. /\ pass'.step = "snapshots" /\ pass'.failed = pass.failed
            /\ pass'.requeue = pass.requeue /\ pass'.cid = pass.cid /\ pass'.mapped = pass.mapped
            /\ obj' = obj /\ oldSC' = oldSC /\ oldVSClass' = oldVSClass
        BY <1>0, <2>3 DEF Goto, PassRecord, obj, oldSC, oldVSClass
      <3>3. Fits(obj, pass.cid)'
        BY <1>0, <2>3, <3>1, <3>2 DEF Fits
      <3> QED
        BY <1>0, <2>1, <3>2, <3>3, VerdictStepOnSC
    <2> QED
      BY <1>2, <1>3, <1>5, <2>1, <2>2, <2>3
  <1>7. CASE recreateStorageClass(o)
    <2>1. pass.step = "recreateSC" /\ CreateStorageClass(o, updateStorageClass(obj, oldSC, pass.cid))
      BY <1>7 DEF recreateStorageClass
    <2> QED
      BY <1>3, <2>1
  <1>8. CASE reconcileStorageClassDelete(o)
    <2>1. pass.step = "teardown" /\ (unfinalizeSC(o) \/ Goto("teardownVSC"))
      BY <1>8 DEF reconcileStorageClassDelete
    <2> QED
      BY <1>4, <1>5, <2>1
  <1>9. CASE deleteStorageClass(o)
    <2>1. pass.step = "deleteSC" /\ \E legal \in BOOLEAN, step \in {"teardownVSC", "recreateSC"} :
              Proceed(o, legal, step)
      BY <1>9 DEF deleteStorageClass
    <2> QED
      BY <1>4, <2>1
  <1> QED
    BY <1>1, <1>6, <1>7, <1>8, <1>9

\* The last call for a live class keeps the shapes: the VolumeSnapshotClass gets the
\* clusterID of the StorageClass.
LEMMA VerdictStepSnapshots ==
    ASSUME VerdictInv, NEW o, reconcileVolumeSnapshotClass(o)
    PROVE  VerdictShapes'
  <1> USE DEF VerdictInv, TeardownInv, TeardownShapes, VerdictShapes
  <1> DEFINE new == ConfigureVSClass(obj, pass.cid)
  <1>0. /\ pass \in PassRecord /\ pass.step = "snapshots" /\ oldVSClass \in VSCObject
        /\ UNCHANGED <<class, sc, crd, option, seen, queued>> /\ lag \subseteq lag'
    BY CopyTypes DEF TypeOK, reconcileVolumeSnapshotClass, WriteVSC
  <1>1. /\ pass.mapped = crd /\ obj.phase = "live" /\ obj.spec # NoSpec
        /\ oldVSClass.foreign => oldVSClass.spec = NoSpec
        /\ ~oldVSClass.foreign /\ oldVSClass.phase # "absent" =>
              SnapshotsFit(oldVSClass, oldVSClass.cid)
    <2>1. obj.phase = "live"
      BY <1>0, CopyTypes DEF PassShape, Past, Live, Deleting, ClassObject
    <2>2. obj.spec \in ValidSpecs
      BY <1>0, <2>1 DEF WorkShapes, ProgressShape, Working
    <2>3. obj.spec # NoSpec
      BY <2>2, SpecsAssumption DEF Specs
    <2>4. pass.mapped = crd
      BY <1>0 DEF WorkShapes, SnapshotShape
    <2> QED
      BY <1>0, <2>1, <2>3, <2>4 DEF WorkShapes, CopyShape, Working
  <1>2. /\ new.spec = obj.spec /\ new.cid = pass.cid /\ ~new.foreign /\ new.phase # "absent"
        /\ new.finalizer
        /\ \A p : LET x == [new EXCEPT !.phase = p] IN
               x.spec = obj.spec /\ x.cid = pass.cid /\ ~x.foreign /\ x.phase = p /\ x.finalizer
    BY DEF ConfigureVSClass
  \* What is there afterwards: what was there, or what the class asks for.
  <1>3. /\ vsc' = vsc \/ SnapshotsFit(obj, pass.cid)'
        /\ \/ Fail
           \/ Goto("publish") /\ (crd => SnapshotsFit(obj, pass.cid)')
    <2> DEFINE Made(x) == x.phase # "absent" /\ ~x.foreign /\ x.finalizer
                          /\ x.spec = obj.spec /\ x.cid = pass.cid
    <2>0. Made(vsc') => SnapshotsFit(obj, pass.cid)'
      <3>1. obj' = obj /\ pass'.cid = pass.cid
        <4>1. \/ Goto("publish")
              \/ Proceed(o, vsc.phase = "absent", "publish")
              \/ Proceed(o, "vsc" \in pass.current, "publish")
          BY DEF reconcileVolumeSnapshotClass
        <4> QED
          BY <4>1, CallEnds
      <3> QED
        BY <3>1 DEF SnapshotsFit, OwnsVSC
    <2>1. ASSUME NEW legal, NEW x, Made(x), WriteVSC(o, legal, x), Proceed(o, legal, "publish")
          PROVE  /\ vsc' = vsc \/ Made(vsc')
                 /\ Fail \/ (Goto("publish") /\ Made(vsc'))
      BY <2>1 DEF WriteVSC, Proceed
    <2>2. Made(new) /\ \A p : p # "absent" => Made([new EXCEPT !.phase = p])
      BY <1>2
    <2>3. CASE /\ WriteVSC(o, vsc.phase = "absent", new)
               /\ Proceed(o, vsc.phase = "absent", "publish")
      <3> HIDE DEF Made, new
      <3> QED
        BY <2>0, <2>1, <2>2, <2>3
    <2>4. CASE /\ WriteVSC(o, "vsc" \in pass.current, [new EXCEPT !.phase = oldVSClass.phase])
               /\ Proceed(o, "vsc" \in pass.current, "publish")
               /\ oldVSClass.phase # "absent"
      <3>1. Made([new EXCEPT !.phase = oldVSClass.phase])
        BY <2>2, <2>4
      <3> HIDE DEF Made, new
      <3> QED
        BY <2>0, <2>1, <2>4, <3>1
    <2>5. CASE /\ ~crd \/ (oldVSClass.phase # "absent" /\ ~CompareVSClasses(oldVSClass, new))
               /\ Goto("publish") /\ UNCHANGED vsc
      <3>1. crd => oldVSClass.spec = obj.spec /\ oldVSClass.cid = pass.cid
                   /\ oldVSClass.phase # "absent"
        BY <1>2, <2>5 DEF CompareVSClasses
      <3>2. crd => SnapshotsFit(oldVSClass, oldVSClass.cid)
        BY <1>1, <3>1
      <3>3. crd => Made(vsc')
        BY <2>5, <3>1, <3>2 DEF SnapshotsFit, OwnsVSC
      <3> QED
        BY <2>0, <2>5, <3>3
    <2> QED
      BY <1>1, <2>3, <2>4, <2>5 DEF reconcileVolumeSnapshotClass
  <1> HIDE DEF new
  <1>4. /\ pass'.cid = pass.cid /\ pass'.mapped = pass.mapped
        /\ obj' = obj /\ oldSC' = oldSC /\ oldVSClass' = oldVSClass /\ pass'.step = "publish"
        /\ \/ pass'.failed
           \/ /\ pass'.failed = pass.failed /\ pass'.requeue = pass.requeue
              /\ crd => SnapshotsFit(obj, pass.cid)'
    <2>1. CASE Fail
      BY <2>1, CallEnds
    <2>2. CASE Goto("publish")
      BY <1>0, <1>3, <2>1, <2>2 DEF Goto, PassRecord, obj, oldSC, oldVSClass
    <2> QED
      BY <1>3, <2>1, <2>2
  <1>5. /\ vsc'.foreign => vsc'.spec = NoSpec
        /\ OwnsVSC' /\ class'.phase = "live" => vsc'.finalizer
    <2>1. CASE vsc' = vsc
      BY <1>0, <2>1 DEF WorkShapes, SnapshotShape, OwnsVSC
    <2>2. CASE SnapshotsFit(obj, pass.cid)'
      BY <2>2 DEF SnapshotsFit, OwnsVSC
    <2> QED
      BY <1>3, <2>1, <2>2
  <1>6. class.finalizer /\ obj.finalizer /\ class.life = obj.life
    BY <1>0 DEF PassShape, Past, Live, Working, VersionShapes, LifeShape
  <1>7. VersionShapes' /\ RestShape'
    BY <1>0, <1>4, <1>6, VersionsKept DEF TypeOK
  <1>8. Fits(obj, pass.cid) /\ pass.cid # NoCid
    BY <1>0 DEF WorkShapes, ProgressShape
  <1>9. ProgressShape' /\ CopyShape'
    BY <1>0, <1>4, <1>8 DEF ProgressShape, CopyShape, Fits, SnapshotsFit, OwnsVSC, Working, Earning
  <1>10. SnapshotShape' /\ RequeueShape'
    BY <1>0, <1>1, <1>4, <1>5 DEF WorkShapes, SnapshotShape, RequeueShape, OwnsVSC
  <1> QED
    BY <1>7, <1>9, <1>10 DEF WorkShapes

\* A call that leaves the class and the StorageClass alone and comes to the end of a teardown
\* keeps the shapes.
LEMMA VerdictStepOnVSC ==
    ASSUME VerdictInv, UNCHANGED <<class, sc, crd, option, seen, queued>>, lag \subseteq lag',
           pass.step \in {"teardownVSC", "deleteVSC"}, vsc'.foreign => vsc'.spec = NoSpec,
           obj' = obj, pass'.mapped = pass.mapped,
           \/ pass'.step = "publish" /\ pass'.failed
           \/ /\ pass'.failed = pass.failed /\ pass'.requeue = pass.requeue
              /\ pass'.step \in {"deleteVSC", "release"}
    PROVE  VerdictShapes'
  <1> USE DEF VerdictInv, TeardownInv, TeardownShapes, VerdictShapes
  <1>1. ~Earning' /\ pass'.step \notin Working \cup {"idle", "finalizer", "clusterID", "class"}
    BY DEF Earning, Working
  <1>2. VersionShapes' /\ RestShape'
    BY <1>1, VersionsKept DEF TypeOK
  <1>3. CopyShape' /\ ProgressShape'
    BY <1>1 DEF CopyShape, ProgressShape, Working, SnapshotsFit, OwnsVSC
  <1>4. SnapshotShape' /\ RequeueShape'
    <2>1. class.phase # "live"
      BY DEF PassShape, Past, Teardown, Deleting
    <2> QED
      BY <2>1 DEF WorkShapes, SnapshotShape, RequeueShape, OwnsVSC
  <1> QED
    BY <1>2, <1>3, <1>4 DEF WorkShapes

\* The calls about the VolumeSnapshotClass of a teardown keep the shapes.
LEMMA VerdictStepSnapshotsDelete ==
    ASSUME VerdictInv, NEW o,
           reconcileVolumeSnapshotClassDelete(o) \/ deleteVolumeSnapshotClass(o)
    PROVE  VerdictShapes'
  <1> USE DEF VerdictInv, TeardownInv, TeardownShapes
  <1>1. /\ pass.step \in {"teardownVSC", "deleteVSC"}
        /\ UNCHANGED <<class, sc, crd, option, seen, queued>> /\ lag \subseteq lag'
    BY DEF reconcileVolumeSnapshotClassDelete, deleteVolumeSnapshotClass, WriteVSC
  <1>2. vsc'.foreign => vsc'.spec = NoSpec
    <2>1. /\ vsc.foreign => vsc.spec = NoSpec
          /\ ~NoVSC.foreign /\ vsc \in VSCObject /\ oldVSClass \in VSCObject
      BY CopyTypes DEF VerdictShapes, WorkShapes, SnapshotShape, NoVSC, TypeOK
    <2>2. CASE deleteVolumeSnapshotClass(o)
      BY <2>1, <2>2 DEF deleteVolumeSnapshotClass, WriteVSC, afterDelete, VSCObject
    <2>3. CASE reconcileVolumeSnapshotClassDelete(o)
      <3>1. vsc' = vsc \/ (~oldVSClass.foreign /\ vsc' = afterUnfinalize(oldVSClass, NoVSC))
        BY <2>3 DEF reconcileVolumeSnapshotClassDelete, WriteVSC
      <3> QED
        BY <2>1, <3>1 DEF afterUnfinalize, VSCObject
    <2> QED
      BY <2>2, <2>3
  <1>3. ASSUME NEW step \in {"deleteVSC", "release"}, NEW legal,
               Goto(step) \/ Proceed(o, legal, step)
        PROVE  VerdictShapes'
    <2>1. /\ obj' = obj /\ pass'.mapped = pass.mapped
          /\ \/ pass'.step = "publish" /\ pass'.failed
             \/ /\ pass'.failed = pass.failed /\ pass'.requeue = pass.requeue
                /\ pass'.step \in {"deleteVSC", "release"}
      BY <1>3, CallEnds
    <2> QED
      BY <1>1, <1>2, <2>1, VerdictStepOnVSC
  <1>4. CASE reconcileVolumeSnapshotClassDelete(o)
    <2>1. \/ Proceed(o, "vsc" \in pass.current, "deleteVSC")
          \/ Goto("deleteVSC")
          \/ Goto("release")
      BY <1>4 DEF reconcileVolumeSnapshotClassDelete
    <2> QED
      BY <1>3, <2>1
  <1>5. CASE deleteVolumeSnapshotClass(o)
    <2>1. Proceed(o, vsc.phase # "absent", "release")
      BY <1>5 DEF deleteVolumeSnapshotClass
    <2> QED
      BY <1>3, <2>1
  <1> QED
    BY <1>4, <1>5

\* The release of a class keeps the shapes: the class is gone, or the pass has failed.
LEMMA VerdictStepRelease ==
    ASSUME VerdictInv, TypeOK', NEW o, removeFinalizerIfExists(o)
    PROVE  VerdictShapes'
  <1> USE DEF VerdictInv, TeardownInv, TeardownShapes
  <1>1. /\ pass.step = "release" /\ obj.finalizer /\ obj.phase = "deleting" /\ class = obj
        /\ "class" \in pass.current /\ UNCHANGED <<sc, vsc, crd, option, seen, queued>>
        /\ lag \subseteq lag'
    BY DEF removeFinalizerIfExists, PassShape, Past, Teardown, Deleting, WriteClass
  <1>2. class' \in {class, Gone(obj.life)}
    BY <1>1 DEF removeFinalizerIfExists, WriteClass
  <1>3. class'.phase # "live" /\ class'.life = class.life
        /\ (class'.phase # "absent" => class' = class)
        /\ (class'.spec \in InvalidSpecs => class' = class)
    BY <1>1, <1>2, SpecsAssumption DEF Gone, Specs
  <1>4. /\ obj' = obj /\ pass'.mapped = pass.mapped /\ pass'.step = "publish"
        /\ \/ pass'.failed
           \/ pass'.failed = pass.failed /\ pass'.requeue = pass.requeue
    <2>1. Proceed(o, TRUE, "publish")
      BY <1>1 DEF removeFinalizerIfExists
    <2> QED
      BY <2>1, CallEnds
  <1>5. SeenShape'
    BY <1>1, <1>3 DEF VerdictShapes, VersionShapes, SeenShape
  <1>6. FollowShape' /\ RestShape'
    BY <1>1, <1>3, <1>4 DEF VerdictShapes, VersionShapes, FollowShape, RestShape
  <1>7. LifeShape' /\ CopyShape' /\ ProgressShape'
    BY <1>1, <1>4 DEF LifeShape, CopyShape, ProgressShape, Earning, Working, SnapshotsFit,
       OwnsVSC
  <1>8. SnapshotShape' /\ RequeueShape'
    BY <1>1, <1>3, <1>4 DEF VerdictShapes, WorkShapes, SnapshotShape, RequeueShape, OwnsVSC
  <1> QED
    BY <1>5, <1>6, <1>7, <1>8 DEF VerdictShapes, VersionShapes, WorkShapes

\* The status a pass leaves is true of what is there, or the key is served again.
LEMMA VerdictStepStatus ==
    ASSUME VerdictInv, TypeOK', NEW o, updateCephStorageClassStatus(o)
    PROVE  VerdictShapes'
  <1> USE DEF VerdictInv, TeardownInv, TeardownShapes, VerdictShapes, VersionShapes, WorkShapes
  <1>1. /\ pass.step = "publish" /\ pass'.step = "idle" /\ ~pass'.requeue
        /\ UNCHANGED <<sc, vsc, crd, option, seen>> /\ lag \subseteq lag'
        /\ queued' = (queued \/ pass.requeue \/ o # "ok")
    BY DEF updateCephStorageClassStatus, NoPass, WriteClass
  <1>2. /\ class'.phase = class.phase /\ class'.life = class.life /\ class'.gen = class.gen
        /\ class'.spec = class.spec /\ class'.labels = class.labels
        /\ class' # class => class' = verdict
    <2>1. class \in ClassObject
      BY DEF TypeOK
    <2> QED
      BY <2>1 DEF updateCephStorageClassStatus, WriteClass, verdict, ClassObject
  <1>3. Notified => Notified'
    BY <1>1, <1>2, NoticeStays
  <1>4. SeenShape'
    BY <1>1, <1>2 DEF SeenShape
  <1>5. FollowShape' /\ LifeShape' /\ CopyShape' /\ ProgressShape' /\ RequeueShape'
    BY <1>1
    DEF FollowShape, LifeShape, CopyShape, ProgressShape, RequeueShape, Earning, Working,
        SnapshotsFit, OwnsVSC
  <1>6. SnapshotShape'
    BY <1>1, <1>2 DEF SnapshotShape, OwnsVSC
  <1>7. ASSUME class'.phase = "live", class'.ready = "true", class'.observed = class'.gen,
               ~Notified'
        PROVE  FieldsInPlace'
    <2>1. ~Notified /\ o = "ok"
      BY <1>1, <1>3, <1>7 DEF Notified
    \* The pass has said so, and nothing has changed since.
    <2>2. class.life = obj.life => Follows
      BY <1>1, <1>2, <1>7, <2>1 DEF FollowShape
    <2>3. class.life # obj.life => class.ready # "true"
      BY <1>1, <1>2, <1>7 DEF FollowShape
    <2>4. pass.failed => class'.ready = "false"
      <3>1. class \in ClassObject
        BY DEF TypeOK
      <3>2. pass.failed => verdict.ready = "false" /\ (verdict = class => class.ready = "false")
        BY <3>1 DEF verdict, ClassObject
      <3>3. pass.failed => class' = verdict \/ verdict = class
        BY <1>2, <1>7, <2>1
        DEF updateCephStorageClassStatus, shouldPublishStatus, WriteClass
      <3> QED
        BY <1>2, <3>2, <3>3
    <2>5. Earning
      <3>1. obj.phase # "live" => class' = class
        BY <1>7, <2>4
        DEF updateCephStorageClassStatus, shouldPublishStatus, WriteClass, RequeueShape
      <3>2. obj.phase = "live"
        BY <1>7, <2>2, <2>3, <3>1 DEF Follows
      <3> QED
        BY <1>1, <1>7, <2>4, <3>2 DEF Earning
    <2>6. Follows
      BY <2>2, <2>5 DEF LifeShape
    <2>7. Fits(obj, pass.cid) /\ pass.cid # NoCid /\ (crd => SnapshotsFit(obj, pass.cid))
      BY <2>5 DEF ProgressShape
    <2> QED
      BY <1>1, <1>2, <2>6, <2>7 DEF FieldsInPlace, Fits, SnapshotsFit, OwnsVSC, Follows, SnapshotShape
  <1>8. RestShape'
    BY <1>7, InPlaceIsThen DEF RestShape
  <1> QED
    BY <1>4, <1>5, <1>6, <1>8

\* Every step keeps the invariant.
LEMMA VerdictStep ==
    ASSUME StaleReads = FALSE, MapperFails = FALSE, SnapshotCRD # "late",
           VerdictInv, [Next]_vars
    PROVE  VerdictInv'
  <1>1. TypeOK' /\ TeardownInv'
    BY TypeStep, TeardownStep DEF VerdictInv, TeardownInv
  <1>2. CASE User
    BY <1>1, <1>2, VerdictStepUser DEF VerdictInv
  <1>3. CASE \E part \in Parts : Sync(part)
    BY <1>1, <1>3, VerdictStepSync DEF VerdictInv
  <1>4. CASE Start
    BY <1>1, <1>4, VerdictStepStart DEF VerdictInv
  <1>5. CASE CrashRestart
    BY <1>1, <1>5, VerdictStepRestart DEF VerdictInv
  <1>6. CASE Work
    <2>1. PICK o \in Outcomes :
              \/ addFinalizerIfNotExists(o)
              \/ getClusterID(o) \/ reconcileStorageClass(o) \/ recreateStorageClass(o)
              \/ reconcileStorageClassDelete(o) \/ deleteStorageClass(o)
              \/ reconcileVolumeSnapshotClass(o)
              \/ reconcileVolumeSnapshotClassDelete(o) \/ deleteVolumeSnapshotClass(o)
              \/ removeFinalizerIfExists(o)
              \/ updateCephStorageClassStatus(o)
      BY <1>6 DEF Work
    <2>2. CASE addFinalizerIfNotExists(o)
      BY <1>1, <2>2, VerdictStepFinalizer DEF VerdictInv
    <2>3. CASE \/ getClusterID(o) \/ reconcileStorageClass(o) \/ recreateStorageClass(o)
               \/ reconcileStorageClassDelete(o) \/ deleteStorageClass(o)
      BY <1>1, <2>3, VerdictStepClass DEF VerdictInv
    <2>4. CASE reconcileVolumeSnapshotClass(o)
      BY <1>1, <2>4, VerdictStepSnapshots DEF VerdictInv
    <2>5. CASE reconcileVolumeSnapshotClassDelete(o) \/ deleteVolumeSnapshotClass(o)
      BY <1>1, <2>5, VerdictStepSnapshotsDelete DEF VerdictInv
    <2>6. CASE removeFinalizerIfExists(o)
      BY <1>1, <2>6, VerdictStepRelease DEF VerdictInv
    <2>7. CASE updateCephStorageClassStatus(o)
      BY <1>1, <2>7, VerdictStepStatus DEF VerdictInv
    <2> QED
      BY <2>1, <2>2, <2>3, <2>4, <2>5, <2>6, <2>7
  <1>7. CASE UNCHANGED vars
    <2>1. VerdictShapes' = VerdictShapes
      BY <1>7
      DEF vars, VerdictShapes, VersionShapes, WorkShapes, SeenShape, FollowShape, LifeShape,
          SnapshotShape, RequeueShape, CopyShape, ProgressShape, RestShape, Notified, enqueued,
          Follows, Earning, Fits, SnapshotsFit, OwnsVSC, InPlace, updateStorageClass,
          ConfigureStorageClass, obj, oldSC, oldVSClass
    <2> QED
      BY <1>1, <2>1 DEF VerdictInv
  <1> QED
    BY <1>2, <1>3, <1>4, <1>5, <1>6, <1>7 DEF Next

\* What the CRD says of the verdict, for every value of the constants: a class that is
\* Ready about its present generation has its StorageClass and its VolumeSnapshotClass in
\* place whenever the controller is at rest.  Recreations cut short by crashes, failed and
\* lost calls, edits during a pass, and users who meddle with the StorageClass, the
\* VolumeSnapshotClass and the connection are all covered.  Each assumption is needed: TLC
\* violates ReadyMeansInPlace when a pass may read a stale copy, when the REST mapper may
\* fail, and when the CRDs come late.
THEOREM VerdictsAreTrue ==
    ASSUME StaleReads = FALSE, MapperFails = FALSE, SnapshotCRD # "late"
    PROVE  Spec => []ReadyMeansInPlace
  <1>1. Init => VerdictInv
    BY TypeInitially, TeardownInitially, VerdictInitially DEF VerdictInv, TeardownInv
  <1>2. VerdictInv /\ [Next]_vars => VerdictInv'
    BY VerdictStep
  <1>3. VerdictInv => ReadyMeansInPlace
    BY DEF VerdictInv, VerdictShapes, RestShape, ReadyMeansInPlace, AtRest, Notified
  <1> QED
    BY <1>1, <1>2, <1>3, PTL DEF Spec
-----------------------------------------------------------------------------
\* Correct StorageClasses.  The invariant below makes CorrectClassKept a consequence of
\* what a pass has read: a class held by its finalizer keeps its life, so that what has
\* changed of it since is its labels, and a StorageClass has no label the class had not.

\* The steps of a pass that may still delete or create the StorageClass.
Building == Before \cup {"deleteSC", "recreateSC"}

\* The class is in the life the pass has read.
SameLife == class.phase # "absent" /\ class.life = obj.life

\* The connection is left alone, and passes read it.
ClusterShape == seen.cid = cid /\ (pass.step = "class" => pass.cid = cid)

\* Labels only grow in a life, and the StorageClass runs behind the class.
LabelShape ==
    /\ OwnsSC => sc.labels <= class.labels
    /\ pass.step \in Building => /\ obj.life <= class.life
                                 /\ obj.finalizer => SameLife
                                 /\ SameLife => obj.labels <= class.labels
    /\ pass.step \in Before /\ oldSC.phase # "absent" /\ ~oldSC.foreign
          => oldSC.labels <= obj.labels

\* The spec is complete and frozen, the verdict is the pass's to write, and a copy that
\* was not outdated is the StorageClass.
ReadShape ==
    /\ pass.step \in Before /\ "sc" \in pass.current => oldSC = sc
    /\ pass.step \in Before \ {"teardown"} =>
          /\ obj.spec \in ValidSpecs
          /\ SameLife => class.ready = obj.ready /\ class.spec = obj.spec

KeepShapes == ClusterShape /\ LabelShape /\ ReadShape
KeepInv == TeardownInv /\ KeepShapes

-----------------------------------------------------------------------------
\* The numbers of the objects are numbers.
LEMMA LabelNumbers ==
    ASSUME TypeOK
    PROVE  /\ class.life \in Nat /\ class.labels \in Nat /\ sc.labels \in Nat
           /\ obj.life \in Nat /\ obj.labels \in Nat /\ oldSC.labels \in Nat
  <1>1. class \in ClassObject /\ obj \in ClassObject /\ sc \in SCObject /\ oldSC \in SCObject
    BY CopyTypes DEF TypeOK
  <1> QED
    BY <1>1, BoundsAssumption DEF ClassObject, SCObject

\* The shapes hold at the start.
LEMMA KeepInitially == Init => KeepShapes
  <1> SUFFICES ASSUME Init PROVE KeepShapes
    OBVIOUS
  <1>1. seen.cid = cid /\ sc.phase = "absent" /\ pass.step = "idle"
    BY DEF Init, server, NoSC, NoPass
  <1> QED
    BY <1>1 DEF KeepShapes, ClusterShape, LabelShape, ReadShape, OwnsSC, Before, Building

\* A user's write to the class keeps the shapes: it begins a life, it keeps what the pass
\* has read, or it ends the life of a class nobody holds.
LEMMA KeepUserWritesClass ==
    ASSUME KeepInv, UserWritesClass(class'), class' \in ClassObject,
           \/ class.phase = "absent" /\ class'.life = class.life + 1
           \/ /\ class.phase # "absent" /\ class'.phase # "absent"
              /\ class'.life = class.life /\ class'.labels >= class.labels
              /\ class'.ready = class.ready
              /\ class'.spec = class.spec \/ class.spec \in InvalidSpecs
           \/ class'.phase = "absent" /\ ~class.finalizer /\ class'.life = class.life
    PROVE  KeepShapes'
  <1> USE DEF KeepInv, TeardownInv, TeardownShapes
  <1>1. /\ pass'.step = pass.step /\ pass'.current = pass.current \ {"class"}
        /\ pass'.cid = pass.cid /\ obj' = obj /\ oldSC' = oldSC
        /\ UNCHANGED <<sc, cid, seen>>
    <2>1. Outdates("class") /\ "class" \in Parts
      BY DEF UserWritesClass, Parts
    <2> QED
      BY <2>1, PassOutdated DEF UserWritesClass, Outdates, TypeOK, PassRecord
  <1>2. /\ class.life \in Nat /\ class.labels \in Nat /\ sc.labels \in Nat
        /\ obj.life \in Nat /\ obj.labels \in Nat /\ class'.labels \in Nat
    BY LabelNumbers, BoundsAssumption DEF ClassObject
  \* A class that is held, or had a StorageClass, lives on.
  <1>3. /\ OwnsSC => class.finalizer
        /\ pass.step \in Building /\ obj.finalizer => class.finalizer
        /\ class.finalizer => class.phase # "absent"
    BY DEF Held, PassShape, ObjectShape, Building, Before, Past, Live, Teardown
  <1>4. OwnsSC' = OwnsSC
    BY <1>1 DEF OwnsSC
  <1>5. ClusterShape'
    BY <1>1 DEF KeepShapes, ClusterShape
  <1>6. LabelShape'
    <2>1. pass.step \in Building => obj.life <= class'.life
      BY <1>2 DEF KeepShapes, LabelShape
    <2>2. pass.step \in Building /\ obj.finalizer => SameLife'
      BY <1>1, <1>3 DEF KeepShapes, LabelShape, SameLife
    <2>3. pass.step \in Building /\ SameLife' => obj.labels <= class'.labels
      BY <1>1, <1>2 DEF KeepShapes, LabelShape, SameLife
    <2>4. OwnsSC => sc.labels <= class'.labels
      BY <1>2, <1>3 DEF KeepShapes, LabelShape
    <2> QED
      BY <1>1, <1>4, <2>1, <2>2, <2>3, <2>4 DEF KeepShapes, LabelShape
  <1>7. ReadShape'
    <2>1. ASSUME pass.step \in Before \ {"teardown"}, SameLife'
          PROVE  class'.ready = obj.ready /\ class'.spec = obj.spec
      <3>1. SameLife /\ class'.ready = class.ready
            /\ (class'.spec = class.spec \/ class.spec \in InvalidSpecs)
        BY <1>1, <1>2, <2>1 DEF SameLife, KeepShapes, LabelShape, Building
      <3> QED
        BY <2>1, <3>1, SpecsAssumption DEF KeepShapes, ReadShape
    <2> QED
      BY <1>1, <2>1 DEF KeepShapes, ReadShape
  <1> QED
    BY <1>5, <1>6, <1>7 DEF KeepShapes

\* Users keep the shapes.
LEMMA KeepStepUser ==
    ASSUME "connection" \notin Meddling, KeepInv, TypeOK', User
    PROVE  KeepShapes'
  <1> USE DEF KeepInv, TeardownInv, TeardownShapes
  <1>0. class \in ClassObject /\ class' \in ClassObject /\ class.labels \in Nat
    BY LabelNumbers DEF TypeOK
  <1>1. CASE CreateClass
    <2>1. PICK s \in Specs : UserWritesClass([Gone(class.life + 1) EXCEPT !.phase = "live",
                                                  !.gen = 1, !.spec = s])
      BY <1>1 DEF CreateClass
    <2>2. class'.life = class.life + 1 /\ UserWritesClass(class')
      BY <2>1 DEF UserWritesClass, Gone
    <2> QED
      BY <1>0, <1>1, <2>2, KeepUserWritesClass DEF CreateClass
  <1>2. CASE CompleteSpec
    <2>1. PICK s \in ValidSpecs : UserWritesClass([class EXCEPT !.spec = s, !.gen = 2])
      BY <1>2 DEF CompleteSpec
    <2>2. /\ class'.phase = class.phase /\ class'.life = class.life
          /\ class'.labels = class.labels /\ class'.ready = class.ready /\ UserWritesClass(class')
      BY <1>0, <2>1 DEF UserWritesClass, ClassObject
    <2> QED
      BY <1>0, <1>2, <2>2, KeepUserWritesClass DEF CompleteSpec
  <1>3. CASE EditLabels
    <2>1. /\ class'.phase = class.phase /\ class'.life = class.life
          /\ class'.labels = class.labels + 1 /\ class'.ready = class.ready
          /\ class'.spec = class.spec /\ UserWritesClass(class')
      BY <1>0, <1>3 DEF EditLabels, UserWritesClass, ClassObject
    <2> QED
      BY <1>0, <1>3, <2>1, KeepUserWritesClass DEF EditLabels
  <1>4. CASE DeleteClass /\ class.finalizer
    <2>1. /\ class'.phase = "deleting" /\ class'.life = class.life
          /\ class'.labels = class.labels /\ class'.ready = class.ready
          /\ class'.spec = class.spec /\ UserWritesClass(class')
      BY <1>0, <1>4 DEF DeleteClass, UserWritesClass, ClassObject
    <2> QED
      BY <1>0, <1>4, <2>1, KeepUserWritesClass DEF DeleteClass
  <1>5. CASE DeleteClass /\ ~class.finalizer
    <2>1. class'.phase = "absent" /\ class'.life = class.life /\ UserWritesClass(class')
      BY <1>5 DEF DeleteClass, UserWritesClass, Gone
    <2> QED
      BY <1>0, <1>5, <2>1, KeepUserWritesClass
  <1>6. ASSUME NEW part \in {"sc", "vsc"}, Outdates(part), UNCHANGED <<class, cid, seen>>,
               sc' = sc \/ part = "sc", OwnsSC' => OwnsSC /\ sc'.labels = sc.labels
        PROVE  KeepShapes'
    <2>1. /\ pass'.step = pass.step /\ pass'.current = pass.current \ {part}
          /\ pass'.cid = pass.cid /\ obj' = obj /\ oldSC' = oldSC
      BY <1>6, PassOutdated DEF Outdates, TypeOK, PassRecord, Parts
    <2>2. SameLife' = SameLife
      BY <1>6, <2>1 DEF SameLife
    <2>3. ClusterShape' /\ LabelShape'
      BY <1>6, <2>1, <2>2 DEF KeepShapes, ClusterShape, LabelShape
    <2>4. ReadShape'
      BY <1>6, <2>1, <2>2 DEF KeepShapes, ReadShape
    <2> QED
      BY <2>3, <2>4 DEF KeepShapes
  <1>7. CASE MeddleWithSC
    <2>1. Outdates("sc") /\ UNCHANGED <<class, cid, seen>>
      BY <1>7 DEF MeddleWithSC
    <2>2. OwnsSC' => OwnsSC /\ sc'.labels = sc.labels
      <3>1. OwnsSC' => OwnsSC
        BY <1>7, UserKeepsSC
      <3>2. OwnsSC => sc' = [sc EXCEPT !.marked = sc'.marked]
        BY <1>7, UserMarks DEF OwnsSC
      <3> QED
        BY <3>1, <3>2 DEF TypeOK, SCObject
    <2> QED
      BY <1>6, <2>1, <2>2
  <1>8. CASE MeddleWithVSC
    <2>1. Outdates("vsc") /\ UNCHANGED <<class, sc, cid, seen>>
      BY <1>8 DEF MeddleWithVSC
    <2> QED
      BY <1>6, <2>1 DEF OwnsSC
  <1>9. CASE InstallSnapshotCRD
    BY <1>9
    DEF InstallSnapshotCRD, KeepShapes, ClusterShape, LabelShape, ReadShape, SameLife, OwnsSC,
        obj, oldSC
  <1>10. ~MeddleWithConnection
    BY DEF MeddleWithConnection
  <1> QED
    BY <1>1, <1>2, <1>3, <1>4, <1>5, <1>7, <1>8, <1>9, <1>10 DEF User

\* The informer cache keeps the shapes.
LEMMA KeepStepSync ==
    ASSUME KeepInv, NEW part \in Parts, Sync(part)
    PROVE  KeepShapes'
  <1>1. /\ UNCHANGED <<class, sc, cid, pass>>
        /\ seen' = [seen EXCEPT ![part] = server[part]]
    BY DEF Sync
  <1>2. seen'.cid = cid
    <2>1. seen \in ServerRecord /\ seen.cid = cid
      BY DEF KeepInv, TeardownInv, TypeOK, KeepShapes, ClusterShape
    <2>2. CASE part = "cid"
      BY <1>1, <2>1, <2>2 DEF server, ServerRecord
    <2>3. CASE part # "cid"
      BY <1>1, <2>1, <2>3 DEF ServerRecord, Parts
    <2> QED
      BY <2>2, <2>3
  <1> QED
    BY <1>1, <1>2
    DEF KeepInv, KeepShapes, ClusterShape, LabelShape, ReadShape, SameLife, OwnsSC, obj, oldSC

\* So does a new process.
LEMMA KeepStepRestart ==
    ASSUME KeepInv, CrashRestart
    PROVE  KeepShapes'
  <1>1. UNCHANGED <<class, sc, cid>> /\ seen'.cid = cid /\ pass'.step = "idle"
    BY DEF CrashRestart, server, NoPass
  <1> QED
    BY <1>1 DEF KeepInv, KeepShapes, ClusterShape, LabelShape, ReadShape, OwnsSC, Before, Building

\* The start of a pass keeps the shapes: what it reads is what there is.
LEMMA KeepStepStart ==
    ASSUME StaleReads = FALSE, KeepInv, Start
    PROVE  KeepShapes'
  <1> USE DEF KeepInv, TeardownInv, TeardownShapes
  <1>1. PICK mapped \in BOOLEAN : StartReconcile(mapped)
    BY DEF Start
  <1>2. /\ UNCHANGED <<class, sc, cid, seen>> /\ pass.step = "idle"
        /\ seen.class = class /\ seen.sc = sc /\ seen.cid = cid
    BY <1>1 DEF StartReconcile, Fresh, CacheShape, KeepShapes, ClusterShape
  <1>3. CASE class.phase = "absent"
    <2>1. UNCHANGED pass
      BY <1>1, <1>2, <1>3 DEF StartReconcile
    <2> QED
      BY <1>2, <2>1
      DEF KeepShapes, ClusterShape, LabelShape, ReadShape, OwnsSC, Before, Building
  <1>4. CASE class.phase # "absent"
    <2>1. pass'.step = firstStep(class) /\ obj' = class /\ oldSC' = sc
      BY <1>1, <1>2, <1>4 DEF StartReconcile, obj, oldSC
    <2>2. /\ pass'.step \in {"teardown", "finalizer", "publish"}
          /\ pass'.step = "finalizer" => class.spec \in ValidSpecs
      BY <2>1 DEF firstStep
    <2>3. class.life \in Nat /\ class.labels \in Nat /\ sc.labels \in Nat
      BY LabelNumbers
    <2>4. SameLife'
      BY <1>2, <1>4, <2>1 DEF SameLife
    <2>5. ClusterShape'
      BY <1>2, <2>2 DEF ClusterShape
    <2>6. LabelShape'
      BY <1>2, <2>1, <2>3, <2>4 DEF KeepShapes, LabelShape, OwnsSC
    <2>7. ReadShape'
      BY <1>2, <2>1, <2>2, <2>4 DEF ReadShape, Before
    <2> QED
      BY <2>5, <2>6, <2>7 DEF KeepShapes
  <1> QED
    BY <1>3, <1>4

\* The claim of a class keeps the shapes.
LEMMA KeepStepFinalizer ==
    ASSUME KeepInv, NEW o, addFinalizerIfNotExists(o)
    PROVE  KeepShapes'
  <1> USE DEF KeepInv, TeardownInv, TeardownShapes
  <1> DEFINE claimed == [obj EXCEPT !.finalizer = TRUE]
  <1>0. /\ pass.step = "finalizer" /\ obj \in ClassObject /\ obj.phase # "absent"
        /\ pass \in PassRecord /\ pass.copies \in ServerRecord
        /\ UNCHANGED <<sc, cid, seen>>
    BY CopyTypes DEF addFinalizerIfNotExists, TypeOK, PassRecord, PassShape
  <1>1. /\ claimed.phase = obj.phase /\ claimed.life = obj.life /\ claimed.spec = obj.spec
        /\ claimed.labels = obj.labels /\ claimed.ready = obj.ready
    BY <1>0 DEF ClassObject
  <1>2. "class" \in pass.current => class = obj
    BY <1>0 DEF PassShape
  <1>3. class' = class \/ (class' = claimed /\ class = obj)
    BY <1>2 DEF addFinalizerIfNotExists, WriteClass
  <1>4. \/ pass'.step = "publish"
        \/ /\ pass'.step = "clusterID" /\ oldSC' = oldSC /\ pass'.current = pass.current
           /\ \/ obj' = claimed /\ class' = claimed /\ class = obj
              \/ obj' = obj /\ class' = class
    <2>1. CASE obj.finalizer
      BY <1>0, <2>1 DEF addFinalizerIfNotExists, Goto, PassRecord, obj, oldSC
    <2>2. CASE ~obj.finalizer /\ "class" \in pass.current /\ o = "ok"
      <3>1. class' = claimed /\ class = obj
        BY <1>2, <2>2 DEF addFinalizerIfNotExists, WriteClass
      <3>2. pass' = [pass EXCEPT !.step = "clusterID", !.copies.class = claimed]
        BY <2>2 DEF addFinalizerIfNotExists
      <3>3. /\ pass'.step = "clusterID" /\ obj' = claimed /\ oldSC' = oldSC
            /\ pass'.current = pass.current
        BY <1>0, <3>2 DEF PassRecord, ServerRecord, obj, oldSC
      <3> QED
        BY <3>1, <3>3
    <2>3. CASE ~obj.finalizer /\ ~("class" \in pass.current /\ o = "ok")
      <3>1. Fail
        BY <2>3 DEF addFinalizerIfNotExists
      <3> QED
        BY <3>1, PassGoes
    <2> QED
      BY <2>1, <2>2, <2>3
  <1> HIDE DEF claimed
  <1>5. /\ class'.phase = class.phase /\ class'.life = class.life /\ class'.spec = class.spec
        /\ class'.labels = class.labels /\ class'.ready = class.ready
    BY <1>1, <1>3
  <1>6. OwnsSC' => sc'.labels <= class'.labels
    BY <1>0, <1>5 DEF KeepShapes, LabelShape, OwnsSC
  <1>7. CASE pass'.step = "publish"
    BY <1>0, <1>6, <1>7 DEF KeepShapes, ClusterShape, LabelShape, ReadShape, Before, Building
  <1>8. CASE pass'.step = "clusterID"
    <2>1. /\ oldSC' = oldSC /\ pass'.current = pass.current
          /\ obj'.phase = obj.phase /\ obj'.life = obj.life /\ obj'.spec = obj.spec
          /\ obj'.labels = obj.labels /\ obj'.ready = obj.ready
          /\ obj' = obj \/ SameLife
      BY <1>0, <1>1, <1>4, <1>8 DEF SameLife
    <2>2. SameLife' = SameLife
      BY <1>5, <2>1 DEF SameLife
    <2>3. ClusterShape'
      BY <1>0, <1>8 DEF KeepShapes, ClusterShape
    <2>4. LabelShape'
      BY <1>0, <1>5, <1>6, <2>1, <2>2 DEF KeepShapes, LabelShape, Before, Building
    <2>5. ReadShape'
      BY <1>0, <1>5, <1>8, <2>1, <2>2 DEF KeepShapes, ReadShape, Before
    <2> QED
      BY <2>3, <2>4, <2>5 DEF KeepShapes
  <1> QED
    BY <1>4, <1>7, <1>8

\* A call that leaves the class alone keeps the shapes, if the StorageClass it leaves has
\* no label the class has not.
LEMMA KeepPassGoes ==
    ASSUME KeepInv, UNCHANGED <<class, cid, seen>>, obj' = obj, oldSC' = oldSC,
           pass'.current = pass.current,
           pass'.step \in Before => /\ pass.step = "clusterID" /\ pass'.step = "class"
                                    /\ pass'.cid = cid /\ sc' = sc,
           pass'.step \in Building => pass.step \in Building,
           OwnsSC' => sc'.labels <= class.labels
    PROVE  KeepShapes'
  <1>1. SameLife' = SameLife
    BY DEF SameLife
  <1>2. ClusterShape' /\ ReadShape'
    BY <1>1 DEF KeepInv, KeepShapes, ClusterShape, ReadShape, Before
  <1>3. LabelShape'
    BY <1>1 DEF KeepInv, KeepShapes, LabelShape, Before
  <1> QED
    BY <1>2, <1>3 DEF KeepShapes

\* The calls about the StorageClass keep the shapes.
LEMMA KeepStepClass ==
    ASSUME KeepInv, NEW o,
           \/ getClusterID(o) \/ reconcileStorageClass(o) \/ recreateStorageClass(o)
           \/ reconcileStorageClassDelete(o) \/ deleteStorageClass(o)
    PROVE  KeepShapes'
  <1> USE DEF KeepInv, TeardownInv, TeardownShapes
  <1>0. /\ pass \in PassRecord /\ sc \in SCObject /\ oldSC \in SCObject
        /\ pass.step \in Building /\ UNCHANGED <<class, cid, seen>>
        /\ obj.labels <= class.labels
        /\ obj.labels \in Nat /\ oldSC.labels \in Nat /\ class.labels \in Nat
    <2>1. /\ pass.step \in {"clusterID", "class", "recreateSC", "teardown", "deleteSC"}
          /\ UNCHANGED <<class, cid, seen>>
      BY DEF getClusterID, reconcileStorageClass, recreateStorageClass,
         reconcileStorageClassDelete, deleteStorageClass
    <2>2. obj.finalizer
      BY <2>1 DEF PassShape, Past, Live, Teardown
    <2>3. pass.step \in Building
      BY <2>1 DEF Building, Before
    <2>4. obj.labels <= class.labels
      BY <2>2, <2>3 DEF KeepShapes, LabelShape
    <2> QED
      BY <2>1, <2>3, <2>4, CopyTypes, LabelNumbers DEF TypeOK
  <1>1. CASE getClusterID(o)
    <2>1. UNCHANGED sc /\ pass.step = "clusterID" /\ (OwnsSC' => sc'.labels <= class.labels)
      BY <1>1 DEF getClusterID, KeepShapes, LabelShape, OwnsSC
    <2>2. CASE pass' = [pass EXCEPT !.step = "class", !.cid = seen.cid]
      <3>1. /\ pass'.step = "class" /\ pass'.cid = cid /\ pass'.current = pass.current
            /\ obj' = obj /\ oldSC' = oldSC
        BY <1>0, <2>2 DEF PassRecord, obj, oldSC, KeepShapes, ClusterShape
      <3> QED
        BY <1>0, <2>1, <3>1, KeepPassGoes
    <2>3. CASE Fail
      <3>1. pass'.step \notin Before \cup Building
        BY <2>3, PassGoes DEF Before, Building
      <3> QED
        BY <1>0, <2>1, <2>3, <3>1, PassGoes, KeepPassGoes
    <2> QED
      BY <1>1, <2>2, <2>3 DEF getClusterID
  <1>2. CASE ~getClusterID(o)
    \* What the call may leave of the StorageClass.
    <2>1. \/ UNCHANGED sc
          \/ sc' \in {ConfigureStorageClass(obj, pass.cid), updateStorageClass(obj, oldSC, pass.cid)}
          \/ /\ sc' = afterUnfinalize(oldSC, NoSC)
             /\ pass.step \in Before /\ oldSC.phase # "absent" /\ ~oldSC.foreign
          \/ sc' = afterDelete(sc, NoSC)
      BY <1>2 DEF reconcileStorageClass, reconcileStorageClassDelete, recreateStorageClass,
         deleteStorageClass, CreateStorageClass, unfinalizeSC, WriteSC, provisionerDiffers, Before
    <2>2. OwnsSC' => sc'.labels <= class.labels
      <3>1. NoSC.phase = "absent"
        BY DEF NoSC
      <3>2. CASE UNCHANGED sc
        BY <3>2 DEF KeepShapes, LabelShape, OwnsSC
      <3>3. CASE sc' \in {ConfigureStorageClass(obj, pass.cid), updateStorageClass(obj, oldSC, pass.cid)}
        BY <1>0, <3>3 DEF ConfigureStorageClass, updateStorageClass
      <3>4. CASE /\ sc' = afterUnfinalize(oldSC, NoSC)
                 /\ pass.step \in Before /\ oldSC.phase # "absent" /\ ~oldSC.foreign
        <4>1. oldSC.labels <= obj.labels
          BY <3>4 DEF KeepShapes, LabelShape
        <4>2. sc' = NoSC \/ sc'.labels = oldSC.labels
          BY <1>0, <3>4 DEF afterUnfinalize, SCObject
        <4> QED
          BY <1>0, <3>1, <4>1, <4>2 DEF OwnsSC
      <3>5. CASE sc' = afterDelete(sc, NoSC)
        <4>1. sc' = NoSC \/ (sc'.labels = sc.labels /\ sc'.foreign = sc.foreign /\ sc.finalizer)
          BY <1>0, <3>5 DEF afterDelete, SCObject
        <4> QED
          BY <3>1, <4>1 DEF OwnsSC, ObjectShape, KeepShapes, LabelShape
      <3> QED
        BY <2>1, <3>2, <3>3, <3>4, <3>5
    <2>3. /\ pass'.current = pass.current /\ obj' = obj /\ oldSC' = oldSC
          /\ pass'.step \in {"snapshots", "deleteSC", "recreateSC", "teardownVSC", "publish"}
      <3>1. CASE reconcileStorageClass(o)
        BY <3>1, PassGoes DEF reconcileStorageClass, CreateStorageClass, unfinalizeSC
      <3>2. CASE recreateStorageClass(o)
        BY <3>2, PassGoes DEF recreateStorageClass, CreateStorageClass
      <3>3. CASE reconcileStorageClassDelete(o)
        BY <3>3, PassGoes DEF reconcileStorageClassDelete, unfinalizeSC
      <3>4. CASE deleteStorageClass(o)
        BY <3>4, PassGoes DEF deleteStorageClass
      <3> QED
        BY <1>2, <3>1, <3>2, <3>3, <3>4
    <2>4. pass'.step \notin Before
      BY <2>3 DEF Before
    <2> QED
      BY <1>0, <2>2, <2>3, <2>4, KeepPassGoes
  <1> QED
    BY <1>1, <1>2

\* The other calls come when the StorageClass is done with.
LEMMA KeepStepOthers ==
    ASSUME KeepInv, NEW o,
           \/ reconcileVolumeSnapshotClass(o) \/ reconcileVolumeSnapshotClassDelete(o)
           \/ deleteVolumeSnapshotClass(o) \/ removeFinalizerIfExists(o)
           \/ updateCephStorageClassStatus(o)
    PROVE  KeepShapes'
  <1> USE DEF KeepInv, TeardownInv, TeardownShapes
  <1>1. UNCHANGED <<sc, cid, seen>>
    BY DEF reconcileVolumeSnapshotClass, reconcileVolumeSnapshotClassDelete,
       deleteVolumeSnapshotClass, removeFinalizerIfExists, updateCephStorageClassStatus
  <1>2. pass'.step \in {"publish", "deleteVSC", "release", "idle"}
    <2>1. CASE updateCephStorageClassStatus(o)
      BY <2>1 DEF updateCephStorageClassStatus, NoPass
    <2>2. CASE reconcileVolumeSnapshotClass(o) \/ removeFinalizerIfExists(o)
      BY <2>2, PassGoes DEF reconcileVolumeSnapshotClass, removeFinalizerIfExists
    <2>3. CASE reconcileVolumeSnapshotClassDelete(o) \/ deleteVolumeSnapshotClass(o)
      BY <2>3, PassGoes DEF reconcileVolumeSnapshotClassDelete, deleteVolumeSnapshotClass
    <2> QED
      BY <2>1, <2>2, <2>3
  <1>3. OwnsSC' => sc'.labels <= class'.labels
    <2>1. CASE removeFinalizerIfExists(o)
      BY <1>1, <2>1 DEF removeFinalizerIfExists, TeardownShape, OwnsSC
    <2>2. CASE ~removeFinalizerIfExists(o)
      <3>1. class'.labels = class.labels
        BY <2>2 DEF reconcileVolumeSnapshotClass, reconcileVolumeSnapshotClassDelete,
           deleteVolumeSnapshotClass, updateCephStorageClassStatus, WriteClass, verdict, TypeOK,
           ClassObject
      <3> QED
        BY <1>1, <3>1 DEF OwnsSC, KeepShapes, LabelShape
    <2> QED
      BY <2>1, <2>2
  <1> QED
    BY <1>1, <1>2, <1>3 DEF KeepShapes, ClusterShape, LabelShape, ReadShape, Before, Building

\* Every step keeps the invariant.
LEMMA KeepStep ==
    ASSUME StaleReads = FALSE, MapperFails = FALSE, "connection" \notin Meddling,
           KeepInv, [Next]_vars
    PROVE  KeepInv'
  <1>1. TypeOK' /\ TeardownInv'
    BY TypeStep, TeardownStep DEF KeepInv, TeardownInv
  <1>2. CASE User
    BY <1>1, <1>2, KeepStepUser DEF KeepInv
  <1>3. CASE Start \/ CrashRestart \/ \E part \in Parts : Sync(part)
    BY <1>1, <1>3, KeepStepStart, KeepStepRestart, KeepStepSync DEF KeepInv
  <1>4. CASE Work
    <2>1. PICK o \in Outcomes :
              \/ addFinalizerIfNotExists(o)
              \/ getClusterID(o) \/ reconcileStorageClass(o) \/ recreateStorageClass(o)
              \/ reconcileStorageClassDelete(o) \/ deleteStorageClass(o)
              \/ reconcileVolumeSnapshotClass(o) \/ reconcileVolumeSnapshotClassDelete(o)
              \/ deleteVolumeSnapshotClass(o) \/ removeFinalizerIfExists(o)
              \/ updateCephStorageClassStatus(o)
      BY <1>4 DEF Work
    <2> QED
      BY <1>1, <2>1, KeepStepFinalizer, KeepStepClass, KeepStepOthers DEF KeepInv
  <1>5. CASE UNCHANGED vars
    <2>1. KeepShapes' = KeepShapes
      BY <1>5
      DEF vars, KeepShapes, ClusterShape, LabelShape, ReadShape, SameLife, OwnsSC, obj, oldSC
    <2> QED
      BY <1>1, <2>1 DEF KeepInv
  <1> QED
    BY <1>2, <1>3, <1>4, <1>5 DEF Next

\* A pass that finds what the class asks for, and no failure, touches nothing.
LEMMA KeepsCorrect ==
    ASSUME KeepInv, NEW o, reconcileStorageClass(o), class.ready # "false",
           class.phase = "live",
           sc = [updateStorageClass(class, sc, cid) EXCEPT !.phase = sc.phase]
    PROVE  sc' = sc
  <1> USE DEF KeepInv, TeardownInv, TeardownShapes
  <1> DEFINE new == updateStorageClass(class, sc, cid)
  <1>0. /\ pass.step = "class" /\ sc \in SCObject /\ class \in ClassObject
        /\ class.labels \in Nat /\ obj.labels \in Nat
    BY LabelNumbers DEF reconcileStorageClass, TypeOK
  <1>1. /\ sc.finalizer /\ sc.labels = class.labels
    <2>1. new \in SCObject
      BY <1>0, ConfigureTypes DEF TypeOK, Cids
    <2>2. new.finalizer = TRUE /\ new.labels = class.labels
      BY DEF updateStorageClass, ConfigureStorageClass
    <2> HIDE DEF new
    <2>3. sc = [new EXCEPT !.phase = sc.phase]
      BY DEF new
    <2> QED
      BY <2>1, <2>2, <2>3 DEF SCObject
  <1>2. OwnsSC
    BY <1>1 DEF ObjectShape
  <1>3. ASSUME sc' # sc PROVE FALSE
    <2>1. /\ "sc" \in pass.current /\ oldSC.phase # "absent" /\ ~oldSC.foreign
          /\ \/ GetSCDiff(oldSC, updateStorageClass(obj, oldSC, pass.cid))
             \/ shouldRetryFailedStorageClass(obj)
      BY <1>2, <1>3
      DEF reconcileStorageClass, CreateStorageClass, unfinalizeSC, WriteSC, provisionerDiffers,
          OwnsSC
    <2>2. oldSC = sc /\ pass.cid = cid
      BY <1>0, <2>1 DEF KeepShapes, ReadShape, ClusterShape, Before
    <2>3. SameLife /\ class.ready = obj.ready /\ class.spec = obj.spec
      BY <1>0 DEF KeepShapes, LabelShape, ReadShape, PassShape, Past, Live, Before, Building
    <2>4. obj.labels = class.labels
      <3>1. sc.labels <= obj.labels
        BY <1>0, <2>1, <2>2 DEF KeepShapes, LabelShape, Before
      <3>2. obj.labels <= class.labels
        BY <1>0, <2>3 DEF KeepShapes, LabelShape, Before, Building
      <3> QED
        BY <1>0, <1>1, <3>1, <3>2
    <2>5. updateStorageClass(obj, oldSC, pass.cid) = new
      BY <2>2, <2>3, <2>4 DEF updateStorageClass, ConfigureStorageClass
    <2>6. new = [sc EXCEPT !.phase = "live"]
      <3>1. new \in SCObject
        BY <1>0, ConfigureTypes DEF TypeOK, Cids
      <3>2. new.phase = "live"
        BY DEF updateStorageClass, ConfigureStorageClass
      <3> HIDE DEF new
      <3>3. sc = [new EXCEPT !.phase = sc.phase]
        BY DEF new
      <3> QED
        BY <1>0, <3>1, <3>2, <3>3 DEF SCObject
    <2> QED
      BY <2>1, <2>2, <2>3, <2>5, <2>6 DEF GetSCDiff, shouldRetryFailedStorageClass
  <1> QED
    BY <1>3

\* A correct StorageClass is not taken down, for all specs, settings and clusterIDs, any
\* number of lives, edits, crashes, failed and lost calls, and any user under the webhook,
\* provided the copies a pass starts from are current and nobody touches the connection:
\* TLC violates CorrectClassKept without either.  That the REST mapper does not fail is
\* what the teardown's invariant wants.
THEOREM CorrectIsKept ==
    ASSUME StaleReads = FALSE, MapperFails = FALSE, "connection" \notin Meddling
    PROVE  Spec => CorrectClassKept
  <1>1. Init => KeepInv
    BY TypeInitially, TeardownInitially, KeepInitially DEF KeepInv, TeardownInv
  <1>2. KeepInv /\ [Next]_vars => KeepInv'
    BY KeepStep
  <1>3. KeepInv /\ [Next]_vars =>
            [(/\ pass.step = "class" /\ pass'.step # pass.step
              /\ class.ready # "false" /\ class.phase = "live"
              /\ sc = [updateStorageClass(class, sc, cid) EXCEPT !.phase = sc.phase])
             => sc' = sc]_vars
    <2> SUFFICES ASSUME KeepInv, Next, pass.step = "class", pass'.step # pass.step,
                        class.ready # "false", class.phase = "live",
                        sc = [updateStorageClass(class, sc, cid) EXCEPT !.phase = sc.phase]
                 PROVE  sc' = sc
      OBVIOUS
    <2>1. CASE Work
      <3>1. PICK o \in Outcomes : reconcileStorageClass(o)
        BY <2>1 DEF Work, addFinalizerIfNotExists, getClusterID, recreateStorageClass,
           reconcileVolumeSnapshotClass, reconcileStorageClassDelete, deleteStorageClass,
           reconcileVolumeSnapshotClassDelete, deleteVolumeSnapshotClass,
           removeFinalizerIfExists, updateCephStorageClassStatus
      <3> QED
        BY <3>1, KeepsCorrect
    <2>2. CASE User
      <3>1. UNCHANGED sc \/ MeddleWithSC
        BY <2>2 DEF User, MeddleWithVSC, MeddleWithConnection, CreateClass, CompleteSpec, EditLabels,
           DeleteClass, UserWritesClass, InstallSnapshotCRD
      <3>2. MeddleWithSC => pass'.step = pass.step
        BY PassOutdated DEF MeddleWithSC, Parts, KeepInv, TeardownInv
      <3> QED
        BY <3>1, <3>2
    <2>3. CASE Start \/ CrashRestart \/ \E part \in Parts : Sync(part)
      BY <2>3 DEF Start, StartReconcile, CrashRestart, Sync
    <2> QED
      BY <2>1, <2>2, <2>3 DEF Next
  <1> QED
    BY <1>1, <1>2, <1>3, PTL DEF Spec, CorrectClassKept
=============================================================================
