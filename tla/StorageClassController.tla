------------------------ MODULE StorageClassController ------------------------
(***************************************************************************)
(* The CephStorageClass controller and the webhook that guards its         *)
(* StorageClasses.  For one CephStorageClass the controller keeps a        *)
(* StorageClass and, where the snapshot CRDs are installed, a              *)
(* VolumeSnapshotClass of the same name, both with the clusterID of the    *)
(* CephClusterConnection the class names.  A StorageClass is immutable, so *)
(* any change of it is a deletion and a creation.                          *)
(*                                                                         *)
(* One class is enough: classes share no object.  The API server is class, *)
(* sc, vsc, cid and crd, the informer cache is seen (lag names the parts   *)
(* of it that are out of date), and a pass is the one worker's.  A pass    *)
(* lists the StorageClasses and the VolumeSnapshotClasses at its start and *)
(* works on those copies to its end.  Users, the cache, crashes and lost   *)
(* answers come between any two calls.  The options of the module reach    *)
(* the process through its environment: a change of them is a restart.     *)
(*                                                                         *)
(* Abstracted: a spec is one value; the labels a class has after the       *)
(* ignored prefixes are named by how often they were edited in this life;  *)
(* annotations are one mark of the user's (the default class); msCrcData   *)
(* and the ignored prefixes are one option; a delayed requeue is a         *)
(* requeue; a Get or List that fails before the pass changes nothing, its  *)
(* key is simply served again.                                             *)
(***************************************************************************)
EXTENDS Naturals

CONSTANTS
    ValidSpecs,     \* specs that pass validation
    InvalidSpecs,   \* specs with a field empty that the CRD lets in
    Types,          \* RBD and CephFS
    TypeOf,         \* spec.type of a spec
    ClusterIDs,     \* clusterIDs the connection may have
    Options,        \* settings of the module a StorageClass is made with
    SnapshotCRD,    \* the snapshot CRDs: "absent", "installed" or "late"
    MapperFails,    \* may the REST mapper answer with an error
    StaleReads,     \* may a pass read a cached copy that is not current
    Meddling,       \* what users do beside the CephStorageClass itself
    MaxLives,       \* bound: times the name is created
    MaxEdits,       \* bound: label edits in one life
    MaxFaults       \* bound: failed calls, crashes and meddling together

Specs == ValidSpecs \cup InvalidSpecs
NoSpec == "no spec"
NoCid == "no clusterID"
NoOption == "no option"

ASSUME SpecsAssumption == ValidSpecs \cap InvalidSpecs = {} /\ NoSpec \notin Specs
ASSUME TypesAssumption == TypeOf \in [Specs -> Types]
ASSUME ClusterIDsAssumption == NoCid \notin ClusterIDs
ASSUME OptionsAssumption == NoOption \notin Options
ASSUME SwitchesAssumption ==
    /\ SnapshotCRD \in {"absent", "installed", "late"}
    /\ MapperFails \in BOOLEAN /\ StaleReads \in BOOLEAN
    /\ Meddling \subseteq {"sc", "vsc", "connection"}
ASSUME BoundsAssumption == MaxLives \in Nat /\ MaxEdits \in Nat /\ MaxFaults \in Nat

VARIABLES
    class,      \* the CephStorageClass and its status
    sc,         \* the StorageClass of that name
    vsc,        \* the VolumeSnapshotClass of that name
    cid,        \* spec.clusterID of the CephClusterConnection, if there is one
    crd,        \* are the snapshot CRDs installed
    option,     \* the setting in the environment of the controller
    seen,       \* the informer's copies of class, sc, vsc and cid
    lag,        \* which of those copies are out of date
    queued,     \* is the key in the workqueue
    pass,       \* the reconcile pass of the one worker
    faults,     \* faults so far
    marked      \* history: the user made the StorageClass the default one

vars == <<class, sc, vsc, cid, crd, option, seen, lag, queued, pass, faults, marked>>

-----------------------------------------------------------------------------
\* Objects.

\* labels counts the label edits of this life; ready and observed are the status.
ClassObject == [phase : {"absent", "live", "deleting"}, life : 0..MaxLives, gen : 0..2,
                spec : Specs \cup {NoSpec}, labels : 0..MaxEdits, finalizer : BOOLEAN,
                ready : {"none", "true", "false"}, observed : 0..2]

\* foreign: the provisioner (the driver) is none of ours.
SCObject == [phase : {"absent", "live", "terminating"}, foreign : BOOLEAN,
             finalizer : BOOLEAN, spec : Specs \cup {NoSpec}, labels : 0..MaxEdits,
             cid : ClusterIDs \cup {NoCid}, option : Options \cup {NoOption},
             marked : BOOLEAN]
VSCObject == [phase : {"absent", "live", "terminating"}, foreign : BOOLEAN,
              finalizer : BOOLEAN, spec : Specs \cup {NoSpec},
              cid : ClusterIDs \cup {NoCid}]

Gone(life) == [phase |-> "absent", life |-> life, gen |-> 0, spec |-> NoSpec,
               labels |-> 0, finalizer |-> FALSE, ready |-> "none", observed |-> 0]
NoSC == [phase |-> "absent", foreign |-> FALSE, finalizer |-> FALSE, spec |-> NoSpec,
         labels |-> 0, cid |-> NoCid, option |-> NoOption, marked |-> FALSE]
NoVSC == [phase |-> "absent", foreign |-> FALSE, finalizer |-> FALSE, spec |-> NoSpec,
          cid |-> NoCid]
ForeignSC == [NoSC EXCEPT !.phase = "live", !.foreign = TRUE]
OwnSC(s) == [NoSC EXCEPT !.phase = "live", !.spec = s]
ForeignVSC == [NoVSC EXCEPT !.phase = "live", !.foreign = TRUE]

Parts == {"class", "sc", "vsc", "cid"}
server == [class |-> class, sc |-> sc, vsc |-> vsc, cid |-> cid]
ServerRecord == [class : ClassObject, sc : SCObject, vsc : VSCObject,
                 cid : ClusterIDs \cup {NoCid}]

PassSteps == {"idle", "finalizer", "clusterID", "class", "deleteSC", "recreateSC",
              "snapshots", "teardown", "teardownVSC", "deleteVSC", "release", "publish"}

\* copies: what the pass read at its start; current: whose resourceVersion is still
\* the server's; mapped: the snapshot CRDs were found; cid: the clusterID it read.
PassRecord == [step : PassSteps, copies : ServerRecord, current : SUBSET Parts,
               mapped : BOOLEAN, cid : ClusterIDs \cup {NoCid},
               failed : BOOLEAN, requeue : BOOLEAN]

NoPass == [step |-> "idle",
           copies |-> [class |-> Gone(0), sc |-> NoSC, vsc |-> NoVSC, cid |-> NoCid],
           current |-> {}, mapped |-> FALSE, cid |-> NoCid,
           failed |-> FALSE, requeue |-> FALSE]

obj == pass.copies.class
oldSC == pass.copies.sc
oldVSClass == pass.copies.vsc

-----------------------------------------------------------------------------
\* Helpers of the source.

ConfigureStorageClass(c, k) ==
    [phase |-> "live", foreign |-> FALSE, finalizer |-> TRUE, spec |-> c.spec,
     labels |-> c.labels, cid |-> k, option |-> option, marked |-> FALSE]

\* The StorageClass that is to replace `old`: it keeps the annotations.
updateStorageClass(c, old, k) ==
    [ConfigureStorageClass(c, k) EXCEPT !.marked = old.marked]

\* Mutant: the finalizers are not compared.
GetSCDiff_noFinalizers(old, new) ==
    new # [old EXCEPT !.phase = "live", !.finalizer = TRUE]

GetSCDiff(old, new) == new # [old EXCEPT !.phase = "live"]

\* Mutant: the list of our provisioners is not consulted.
provisionerDiffers_typeOnly(old, c) == ~old.foreign /\ TypeOf[old.spec] # TypeOf[c.spec]

\* Neither an unknown provisioner nor the other one of ours is ever replaced.
provisionerDiffers(old, c) == old.foreign \/ TypeOf[old.spec] # TypeOf[c.spec]

\* Mutant: a class without a verdict is taken for a failed one.
shouldRetryFailedStorageClass_noVerdict(c) == c.ready # "true"

shouldRetryFailedStorageClass(c) == c.ready = "false"

\* Mutant: the clusterID parameter is left empty.
ConfigureVSClass_noCluster(c, k) ==
    [phase |-> "live", foreign |-> FALSE, finalizer |-> TRUE, spec |-> c.spec, cid |-> ""]

ConfigureVSClass(c, k) ==
    [phase |-> "live", foreign |-> FALSE, finalizer |-> TRUE, spec |-> c.spec, cid |-> k]

\* Mutant: the parameters are not compared.
CompareVSClasses_specOnly(old, new) == old.spec # new.spec

\* The driver, the finalizers and a deletion under way are not looked at.
CompareVSClasses(old, new) == old.spec # new.spec \/ old.cid # new.cid

\* Mutant: the metadata is not compared.
isStorageClassChangedExceptAnnotations_specOnly(old, new) == new.spec # old.spec

\* An update may change the annotations and nothing else.
isStorageClassChangedExceptAnnotations(old, new) == new # [old EXCEPT !.marked = new.marked]

\* The webhook, for users other than the controller (which it lets do anything).
\* StorageClasses of other provisioners are let through.
SCValidate(operation, old, new) ==
    LET reviewed == IF operation = "delete" THEN old ELSE new IN
    \/ reviewed.foreign
    \/ operation = "update" /\ ~isStorageClassChangedExceptAnnotations(old, new)

shouldPublishStatus == obj.phase = "live" \/ pass.failed \/ pass.requeue

-----------------------------------------------------------------------------
\* Calls.  The outcome of a call is chosen by the environment: "rejected" has
\* no effect and returns an error, "lost" has its effect and returns an error.

Outcomes == {"ok", "rejected", "lost"}

Fault == faults < MaxFaults /\ faults' = faults + 1
Spend(o) == IF o = "ok" THEN UNCHANGED faults ELSE Fault

Goto(step) == pass' = [pass EXCEPT !.step = step]

\* Mutant: an error that is reported but not tried again.
Fail_forGood == pass' = [pass EXCEPT !.step = "publish", !.failed = TRUE]

Fail == pass' = [pass EXCEPT !.step = "publish", !.failed = TRUE, !.requeue = TRUE]

\* Mutant: the pass goes on after a call that failed.
Proceed_anyway(o, legal, step) == Goto(step)

\* A call the server accepts if `legal`, and the step that follows its success.
Proceed(o, legal, step) == IF legal /\ o = "ok" THEN Goto(step) ELSE Fail

WriteClass(o, legal, new) ==
    IF legal /\ o # "rejected"
    THEN class' = new /\ lag' = lag \cup {"class"}
    ELSE UNCHANGED <<class, lag>>

WriteSC(o, legal, new) ==
    IF legal /\ o # "rejected"
    THEN sc' = new /\ lag' = lag \cup {"sc"}
    ELSE UNCHANGED <<sc, lag>>

WriteVSC(o, legal, new) ==
    IF legal /\ o # "rejected"
    THEN vsc' = new /\ lag' = lag \cup {"vsc"}
    ELSE UNCHANGED <<vsc, lag>>

\* Delete, and the Update that drops the finalizer, of an owned object x.
afterDelete(x, none) == IF x.finalizer THEN [x EXCEPT !.phase = "terminating"] ELSE none
afterUnfinalize(x, none) ==
    IF x.phase = "terminating" THEN none ELSE [x EXCEPT !.finalizer = FALSE]

Fresh(parts) == StaleReads \/ parts \cap lag = {}

-----------------------------------------------------------------------------
Init ==
    /\ class = Gone(0)
    /\ sc = NoSC
    /\ vsc = NoVSC
    /\ cid \in ClusterIDs \cup {NoCid}
    /\ crd = (SnapshotCRD = "installed")
    /\ option \in Options
    /\ seen = server
    /\ lag = {}
    /\ queued = FALSE
    /\ pass = NoPass
    /\ faults = 0
    /\ marked = FALSE

-----------------------------------------------------------------------------
\* Users.

\* A write makes the pass's copy of that object an old one.
Outdates(part) ==
    /\ lag' = lag \cup {part}
    /\ pass' = [pass EXCEPT !.current = @ \ {part}]

UserWritesClass(new) ==
    /\ class' = new
    /\ Outdates("class")
    /\ UNCHANGED <<sc, vsc, cid, crd, option, seen, queued, faults>>

CreateClass ==
    /\ class.phase = "absent"
    /\ class.life < MaxLives
    /\ \E s \in Specs :
        UserWritesClass([Gone(class.life + 1) EXCEPT !.phase = "live", !.gen = 1, !.spec = s])
    /\ UNCHANGED marked

\* The CRD freezes the fields of a spec, except that an empty one may be filled in; it
\* leaves clusterAuthenticationName open, which the controller never reads.
CompleteSpec ==
    /\ class.phase = "live"
    /\ class.spec \in InvalidSpecs
    /\ \E s \in {s \in ValidSpecs : TypeOf[s] = TypeOf[class.spec]} :
        UserWritesClass([class EXCEPT !.spec = s, !.gen = 2])
    /\ UNCHANGED marked

EditLabels ==
    /\ class.phase = "live"
    /\ class.labels < MaxEdits
    /\ UserWritesClass([class EXCEPT !.labels = @ + 1])
    /\ UNCHANGED marked

DeleteClass ==
    /\ class.phase = "live"
    /\ UserWritesClass(IF class.finalizer THEN [class EXCEPT !.phase = "deleting"]
                       ELSE Gone(class.life))
    /\ marked' = FALSE

\* What a user may ask of the StorageClass of that name: to create one, to edit the
\* annotations, the finalizers or the labels of one of ours, or to delete it.
userRequests ==
    IF sc.phase = "absent"
    THEN [operation : {"create"}, new : {ForeignSC} \cup {OwnSC(s) : s \in ValidSpecs}]
    ELSE [operation : {"delete"}, new : {afterDelete(sc, NoSC)}] \cup
         [operation : {"update"},
          new : IF sc.foreign THEN {}
                ELSE {[sc EXCEPT !.marked = TRUE], [sc EXCEPT !.finalizer = FALSE]}
                     \cup {[sc EXCEPT !.labels = l] : l \in 0..MaxEdits}]

MeddleWithSC ==
    /\ "sc" \in Meddling
    /\ \E r \in userRequests :
        /\ r.new # sc
        /\ SCValidate(r.operation, sc, r.new)
        /\ sc' = r.new
        /\ marked' = (marked \/ (class.phase = "live" /\ r.new.marked))
    /\ Outdates("sc")
    /\ Fault
    /\ UNCHANGED <<class, vsc, cid, crd, option, seen, queued>>

\* VolumeSnapshotClasses are not guarded by the webhook.
MeddleWithVSC ==
    /\ "vsc" \in Meddling /\ crd
    /\ \/ vsc = NoVSC /\ vsc' = ForeignVSC
       \/ vsc.phase = "live" /\ vsc' = afterDelete(vsc, NoVSC)
    /\ Outdates("vsc")
    /\ Fault
    /\ UNCHANGED <<class, sc, cid, crd, option, seen, queued, marked>>

\* The connection is created, or removed by its own controller: nothing keeps it
\* for the classes that name it.
MeddleWithConnection ==
    /\ "connection" \in Meddling
    /\ \E k \in ClusterIDs : cid' = IF cid = NoCid THEN k ELSE NoCid
    /\ Outdates("cid")
    /\ Fault
    /\ UNCHANGED <<class, sc, vsc, crd, option, seen, queued, marked>>

InstallSnapshotCRD ==
    /\ SnapshotCRD = "late" /\ ~crd
    /\ crd' = TRUE
    /\ UNCHANGED <<class, sc, vsc, cid, option, seen, lag, queued, pass, faults, marked>>

-----------------------------------------------------------------------------
\* The informer cache.

\* Mutant: UpdateFunc looks at the spec and the labels alone.
enqueued_notDeleting ==
    /\ class.phase # "absent"
    /\ \/ seen.class.phase = "absent"
       \/ seen.class.life # class.life
       \/ seen.class.gen # class.gen
       \/ seen.class.labels # class.labels

\* CreateFunc adds the key always, UpdateFunc when the spec or the labels differ or
\* the class is being deleted.  The versions the cache jumps over had events too:
\* one of them differed exactly when gen or labels moved.
enqueued ==
    /\ class.phase # "absent"
    /\ \/ seen.class.phase = "absent"
       \/ seen.class.life # class.life
       \/ seen.class.gen # class.gen
       \/ seen.class.labels # class.labels
       \/ class.phase = "deleting"

\* Nothing watches the objects the controller owns, the connection or the CRDs.
Sync(part) ==
    /\ part \in lag
    /\ seen' = [seen EXCEPT ![part] = server[part]]
    /\ lag' = lag \ {part}
    /\ queued' = (queued \/ (part = "class" /\ enqueued))
    /\ UNCHANGED <<class, sc, vsc, cid, crd, option, pass, faults, marked>>

-----------------------------------------------------------------------------
\* The reconcile pass.

\* Mutant: the finalizer is not added first.
firstStep_unclaimed(c) == IF c.phase = "deleting" THEN "teardown"
                          ELSE IF c.spec \in ValidSpecs THEN "clusterID" ELSE "publish"

firstStep(c) == IF c.phase = "deleting" THEN "teardown"
                ELSE IF c.spec \in ValidSpecs THEN "finalizer" ELSE "publish"

\* An error of the mapper counts as an absent CRD.
VolumeSnapshotClassCRDExists(mapped) ==
    \/ mapped = crd /\ UNCHANGED faults
    \/ MapperFails /\ crd /\ ~mapped /\ Fault

\* The Get, the Lists and the validation: an invalid spec goes straight to the
\* status, with an error and no requeue.
StartReconcile(mapped) ==
    /\ pass.step = "idle"
    /\ queued
    /\ Fresh({"class", "sc", "vsc"})
    /\ queued' = FALSE
    /\ IF seen.class.phase = "absent"
       THEN mapped = crd /\ UNCHANGED <<pass, faults>>
       ELSE /\ VolumeSnapshotClassCRDExists(mapped)
            /\ pass' = [step |-> firstStep(seen.class), copies |-> seen,
                        current |-> Parts \ lag, mapped |-> mapped, cid |-> NoCid,
                        failed |-> firstStep(seen.class) = "publish", requeue |-> FALSE]
    /\ UNCHANGED <<class, sc, vsc, cid, crd, option, seen, lag, marked>>

addFinalizerIfNotExists(o) ==
    LET held == "class" \in pass.current
        claimed == [obj EXCEPT !.finalizer = TRUE]
    IN
    /\ pass.step = "finalizer"
    /\ IF obj.finalizer
       THEN Goto("clusterID") /\ UNCHANGED <<class, lag, faults>>
       ELSE /\ Spend(o)
            /\ WriteClass(o, held, claimed)
            /\ IF held /\ o = "ok"
               THEN pass' = [pass EXCEPT !.step = "clusterID", !.copies.class = claimed]
               ELSE Fail
    /\ UNCHANGED <<sc, vsc, cid, crd, option, seen, queued, marked>>

getClusterID(o) ==
    /\ pass.step = "clusterID"
    /\ Fresh({"cid"})
    /\ o # "lost"
    /\ Spend(o)
    /\ IF seen.cid # NoCid /\ o = "ok"
       THEN pass' = [pass EXCEPT !.step = "class", !.cid = seen.cid]
       ELSE Fail
    /\ UNCHANGED <<class, sc, vsc, cid, crd, option, seen, lag, queued, marked>>

CreateStorageClass(o, new) ==
    LET legal == sc.phase = "absent" IN
    /\ WriteSC(o, legal, new)
    /\ Proceed(o, legal, "snapshots")

\* removeFinalizerIfExists of the pass's copy of the StorageClass: no call when it
\* carries none.
unfinalizeSC(o) ==
    IF oldSC.finalizer
    THEN LET legal == "sc" \in pass.current IN
         /\ WriteSC(o, legal, afterUnfinalize(oldSC, NoSC))
         /\ Proceed(o, legal, "deleteSC")
    ELSE o = "ok" /\ Goto("deleteSC") /\ UNCHANGED <<sc, lag>>

\* What IdentifyReconcileFuncForStorageClass chooses: create, refuse, recreate (which
\* begins with the old one's finalizer), or nothing.
reconcileStorageClass(o) ==
    LET exists == oldSC.phase # "absent"
        ours == exists /\ ~provisionerDiffers(oldSC, obj)
        update == \/ GetSCDiff(oldSC, updateStorageClass(obj, oldSC, pass.cid))
                  \/ shouldRetryFailedStorageClass(obj)
    IN
    /\ pass.step = "class"
    /\ Spend(o)
    /\ \/ ~exists /\ CreateStorageClass(o, ConfigureStorageClass(obj, pass.cid))
       \/ exists /\ ~ours /\ o = "ok" /\ Fail /\ UNCHANGED <<sc, lag>>
       \/ ours /\ update /\ unfinalizeSC(o)
       \/ ours /\ ~update /\ o = "ok" /\ Goto("snapshots") /\ UNCHANGED <<sc, lag>>
    /\ UNCHANGED <<class, vsc, cid, crd, option, seen, queued, marked>>

\* The first half of a teardown, which passes by what somebody else provisions.
reconcileStorageClassDelete(o) ==
    /\ pass.step = "teardown"
    /\ Spend(o)
    /\ IF oldSC.phase # "absent" /\ ~oldSC.foreign
       THEN unfinalizeSC(o)
       ELSE o = "ok" /\ Goto("teardownVSC") /\ UNCHANGED <<sc, lag>>
    /\ UNCHANGED <<class, vsc, cid, crd, option, seen, queued, marked>>

\* Delete names no version: whatever has the name goes, and nothing is an error.
deleteStorageClass(o) ==
    LET legal == sc.phase # "absent" IN
    /\ pass.step = "deleteSC"
    /\ Spend(o)
    /\ WriteSC(o, legal, afterDelete(sc, NoSC))
    /\ Proceed(o, legal, IF obj.phase = "deleting" THEN "teardownVSC" ELSE "recreateSC")
    /\ UNCHANGED <<class, vsc, cid, crd, option, seen, queued, marked>>

recreateStorageClass(o) ==
    /\ pass.step = "recreateSC"
    /\ Spend(o)
    /\ CreateStorageClass(o, updateStorageClass(obj, oldSC, pass.cid))
    /\ UNCHANGED <<class, vsc, cid, crd, option, seen, queued, marked>>

\* Create, Update or nothing; nothing either when the CRDs were not found.
reconcileVolumeSnapshotClass(o) ==
    LET new == ConfigureVSClass(obj, pass.cid)
        exists == oldVSClass.phase # "absent"
        update == exists /\ CompareVSClasses(oldVSClass, new)
    IN
    /\ pass.step = "snapshots"
    /\ Spend(o)
    /\ \/ /\ pass.mapped /\ ~exists
          /\ WriteVSC(o, vsc.phase = "absent", new)
          /\ Proceed(o, vsc.phase = "absent", "publish")
       \/ /\ pass.mapped /\ update
          /\ WriteVSC(o, "vsc" \in pass.current, [new EXCEPT !.phase = oldVSClass.phase])
          /\ Proceed(o, "vsc" \in pass.current, "publish")
       \/ /\ ~pass.mapped \/ (exists /\ ~update)
          /\ o = "ok" /\ Goto("publish")
          /\ UNCHANGED <<vsc, lag>>
    /\ UNCHANGED <<class, sc, cid, crd, option, seen, queued, marked>>

\* The second half of a teardown: the finalizer of the VolumeSnapshotClass.
reconcileVolumeSnapshotClassDelete(o) ==
    LET mine == pass.mapped /\ oldVSClass.phase # "absent" /\ ~oldVSClass.foreign
        legal == "vsc" \in pass.current
    IN
    /\ pass.step = "teardownVSC"
    /\ Spend(o)
    /\ IF mine /\ oldVSClass.finalizer
       THEN /\ WriteVSC(o, legal, afterUnfinalize(oldVSClass, NoVSC))
            /\ Proceed(o, legal, "deleteVSC")
       ELSE /\ o = "ok"
            /\ Goto(IF mine THEN "deleteVSC" ELSE "release")
            /\ UNCHANGED <<vsc, lag>>
    /\ UNCHANGED <<class, sc, cid, crd, option, seen, queued, marked>>

deleteVolumeSnapshotClass(o) ==
    LET legal == vsc.phase # "absent" IN
    /\ pass.step = "deleteVSC"
    /\ Spend(o)
    /\ WriteVSC(o, legal, afterDelete(vsc, NoVSC))
    /\ Proceed(o, legal, "release")
    /\ UNCHANGED <<class, sc, cid, crd, option, seen, queued, marked>>

\* Ours is the last finalizer: the object goes.
removeFinalizerIfExists(o) ==
    LET legal == "class" \in pass.current IN
    /\ pass.step = "release"
    /\ Spend(o)
    /\ IF obj.finalizer
       THEN WriteClass(o, legal, Gone(obj.life)) /\ Proceed(o, legal, "publish")
       ELSE o = "ok" /\ Goto("publish") /\ UNCHANGED <<class, lag>>
    /\ UNCHANGED <<sc, vsc, cid, crd, option, seen, queued, marked>>

\* The status a pass leaves, about the generation it worked on.
verdict == [class EXCEPT !.ready = IF pass.failed THEN "false" ELSE "true",
                         !.observed = obj.gen]

\* The end of the pass: the status, then the requeue.  A class that is gone is no
\* error, a failed write is; a write that changes nothing is not sent.
updateCephStorageClassStatus(o) ==
    LET writes == shouldPublishStatus /\ class.phase # "absent" IN
    /\ pass.step = "publish"
    /\ writes \/ o = "ok"
    /\ Spend(o)
    /\ WriteClass(o, writes /\ verdict # class, verdict)
    /\ queued' = (queued \/ pass.requeue \/ o # "ok")
    /\ pass' = NoPass
    /\ UNCHANGED <<sc, vsc, cid, crd, option, seen, marked>>

-----------------------------------------------------------------------------
\* The settings a process finds in its environment hold as long as it runs.
NewConfig == option' \in Options

\* The leader dies with its pass, or is replaced since an option of the module was
\* changed; the next one fills its cache and gets a create event for the class.
CrashRestart ==
    /\ Fault
    /\ NewConfig
    /\ seen' = server
    /\ lag' = {}
    /\ queued' = (class.phase # "absent")
    /\ pass' = NoPass
    /\ UNCHANGED <<class, sc, vsc, cid, crd, marked>>

-----------------------------------------------------------------------------
Work == \E o \in Outcomes :
            \/ addFinalizerIfNotExists(o)
            \/ getClusterID(o)
            \/ reconcileStorageClass(o)
            \/ recreateStorageClass(o)
            \/ reconcileVolumeSnapshotClass(o)
            \/ reconcileStorageClassDelete(o)
            \/ deleteStorageClass(o)
            \/ reconcileVolumeSnapshotClassDelete(o)
            \/ deleteVolumeSnapshotClass(o)
            \/ removeFinalizerIfExists(o)
            \/ updateCephStorageClassStatus(o)

User == \/ CreateClass
        \/ CompleteSpec
        \/ EditLabels
        \/ DeleteClass
        \/ MeddleWithSC
        \/ MeddleWithVSC
        \/ MeddleWithConnection
        \/ InstallSnapshotCRD

Start == \E mapped \in BOOLEAN : StartReconcile(mapped)

Next == \/ User
        \/ \E part \in Parts : Sync(part)
        \/ Start
        \/ Work
        \/ CrashRestart

Spec == Init /\ [][Next]_vars

\* The cache catches up, a pass goes on, and a queued key is served.
Fairness ==
    /\ WF_vars(Work)
    /\ WF_vars(Start)
    /\ \A part \in Parts : WF_vars(Sync(part))

FairSpec == Spec /\ Fairness

-----------------------------------------------------------------------------
\* Properties.

TypeOK ==
    /\ class \in ClassObject /\ sc \in SCObject /\ vsc \in VSCObject
    /\ cid \in ClusterIDs \cup {NoCid}
    /\ crd \in BOOLEAN /\ option \in Options
    /\ seen \in ServerRecord /\ lag \subseteq Parts
    /\ queued \in BOOLEAN
    /\ pass \in PassRecord
    /\ faults \in 0..MaxFaults
    /\ marked \in BOOLEAN

\* What the controller has created for the class.
owned == {a \in {"sc", "vsc"} : IF a = "sc" THEN sc.phase # "absent" /\ ~sc.foreign
                                ELSE vsc.phase # "absent" /\ ~vsc.foreign}

\* Nothing the controller created outlives the class, and nothing is created before
\* the controller holds it: addFinalizerIfNotExists is the first call of a pass and
\* removeFinalizerIfExists the last one of a teardown, over crashes, failed calls,
\* recreations and users who meddle with the VolumeSnapshotClass.
NoOrphans == ~class.finalizer => owned = {}

\* The StorageClass and the VolumeSnapshotClass say what the class says, and name
\* the same Ceph cluster.
InPlace ==
    /\ sc = [updateStorageClass(class, sc, sc.cid) EXCEPT !.phase = sc.phase]
    /\ sc.phase # "absent" /\ sc.cid # NoCid
    /\ crd => /\ vsc.phase # "absent" /\ ~vsc.foreign
              /\ vsc.spec = class.spec /\ vsc.cid = sc.cid

\* The controller has nothing left to do: no pass, no key, no event on its way.
AtRest == pass.step = "idle" /\ ~queued /\ lag = {}

\* What the CRD says of the verdict: a class that is Ready about its present
\* generation has both its objects in place whenever the controller is at rest, so
\* that a recreation cut short by a crash or an error is always taken up again.
ReadyMeansInPlace ==
    (AtRest /\ class.phase = "live" /\ class.ready = "true" /\ class.observed = class.gen)
        => InPlace

\* No step of a pass touches a StorageClass of somebody else's provisioner, even
\* when it takes the place of the one the pass is working on.
ForeignKept ==
    [][(sc.phase # "absent" /\ sc.foreign /\ pass'.step # pass.step) => sc' = sc]_vars

\* No call of a pass takes down a StorageClass that is what its class asks for, unless
\* the class's last verdict is a failure: status_conditions.go wants a recreation for a
\* reconcile that is known to have failed, and a missing verdict is none.
CorrectClassKept ==
    [][(/\ pass.step = "class" /\ pass'.step # pass.step
        /\ class.ready # "false" /\ class.phase = "live"
        /\ sc = [updateStorageClass(class, sc, cid) EXCEPT !.phase = sc.phase])
       => sc' = sc]_vars

\* The user's choice of the default StorageClass survives every recreation.
MarkKept == (marked /\ sc.phase # "absent") => sc.marked

Settled ==
    \/ class.phase = "absent" /\ owned = {}
    \/ /\ class.phase = "live" /\ class.observed = class.gen
       /\ IF class.spec \in InvalidSpecs \/ sc.foreign
          THEN class.ready = "false"
          ELSE \/ class.ready = "true" /\ InPlace
               \/ class.ready = "false" /\ cid = NoCid

\* Once users and faults leave it alone, the controller brings the class to its spec
\* and says so, or says that it cannot, or to nothing at all, and stays there: the
\* retries of a failed class end.
EventuallySettled == <>[]Settled

\* A deletion is not held for ever, whatever becomes of the owned objects, of the
\* connection and of the snapshot CRDs.
DeletionCompletes == class.phase = "deleting" ~> class.phase = "absent"

\* The comment of snapshot_crd.go: once the CRDs are installed, a class that is
\* there gets its VolumeSnapshotClass.
SnapshotsFollowCRD ==
    (crd /\ class.phase = "live" /\ class.ready = "true")
        ~> (vsc.phase # "absent" \/ class.phase # "live" \/ class.ready # "true")

Guard == INSTANCE FinalizerGuard WITH
    Resources <- {"class"},
    Assets <- {"sc", "vsc"},
    claimed <- [r \in {"class"} |-> class.finalizer],
    assets <- [r \in {"class"} |-> owned]

\* The controller implements FinalizerGuard: it claims a class before it creates
\* anything for it and releases it when nothing is left.
GuardsItsAssets == Guard!Spec
=============================================================================
