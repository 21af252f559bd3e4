# csi-ceph: specifications, model checks and proofs

TLA+ models of the control code of the csi-ceph module of Deckhouse: the two controllers
that turn custom resources into Kubernetes objects for ceph-csi, the one that deprecates
an older resource, the webhook that guards StorageClasses, the hook that migrates a
cluster from the older ceph-csi module, and the hook that lets go of everything when the
module is removed. TLC checks them on small instances, TLAPS proves the main safety
results for every value of the constants.

Paths are relative to the root of the repository; `controller/` stands for
`images/controller/pkg/controller/`.

## The system

| Part | State it keeps | Operations | Interacts with |
|---|---|---|---|
| CephClusterConnection controller (`controller/ceph_cluster_connection_watcher*.go`) | a finalizer and a Ready condition on the connection; a Secret per connection; one entry per clusterID in `config.json` of the ConfigMap `ceph-csi-config` | a reconcile pass: finalizer, ConfigMap, Secret, release of the finalizer, status | API server, informer cache, workqueue, users, a standby replica that only runs `EnsureConfigMapExists` |
| CephStorageClass controller (`controller/ceph_storage_class_watcher*.go`, `snapshot_crd.go`) | a finalizer and a Ready condition on the class; a StorageClass and a VolumeSnapshotClass of the same name | a pass: finalizer, clusterID, StorageClass (created, or deleted and created again), VolumeSnapshotClass, or the teardown of both | the same; the CephClusterConnection whose clusterID it reads; the REST mapper |
| Status conditions (`controller/status_conditions.go`) | - | which pass publishes, when a failed class is recreated | both controllers |
| CephClusterAuthentication controller (`controller/ceph_cluster_authentication_watcher.go`) | a label and a condition; the informer's object, which the event handler changes in place | marks a resource as deprecated, empties the finalizers of one being deleted, from the event handler and, after an error, from a reconcile pass | API server, informer cache, users |
| Migration hook (`hooks/go/060-migrate-from-ceph-csi-module`, `hooks/go/funcs`) | labels on what is migrated, a CephMetadataBackup per recreated volume | creates connections and classes, recreates PersistentVolumes, updates snapshot classes and contents | Deckhouse (retries), PV protection controller, Helm, the prometheus operator |
| Module deletion hook (`hooks/go/030-...`) | - | lists five kinds and empties the finalizers of what it lists, after the release is gone | everything the controllers guard; the namespace controller |
| StorageClass webhook (`images/webhooks/handlers`) | - | refuses user changes to managed StorageClasses | API server |
| Manager (`images/controller/cmd/main.go`) | the lease | starts the three controllers | controller-runtime |

What makes them correct:

* a controller claims a resource before it creates anything for it and releases it when
  nothing is left, over crashes, failed and lost calls, and users who meddle;
* Ready=True is said of what is in place, and stays true of it;
* one connection never takes another's entry out of the shared ConfigMap;
* somebody else's StorageClass is not touched, the user's choices on ours survive;
* everything settles once users and faults leave it alone, deletions end;
* an edit of a user is never undone, and what a cache says becomes true again;
* a removal of the module leaves nothing held, and an installation over what it left
  brings everything back;
* the migration loses no volume, deletes none together with its data, labels nothing as
  migrated that is not, and ends.

What is hard: every pass is a chain of API calls, any of which may fail, take effect and
still report an error, or be the last one before a crash. Reads come from a cache that
lags. Updates carry a resourceVersion, Creates and Deletes do not. StorageClasses and the
Secret references of volumes are immutable, so a change of them is a deletion and a
creation with a gap in between. `PROJECT.json` lists these points as hazards at their
lines, each with the properties about it.

## The modules

| Module | What it is |
|---|---|
| `FinalizerGuard` | Abstract specification: resources are claimed, gain and lose assets, are released with none. What both controllers promise. |
| `ConnectionController` | The connection controller, the ConfigMap, the Secrets, users, cache, faults. |
| `StorageClassController` | The class controller, both class objects, the webhook, the connection's clusterID, the snapshot CRDs, the options, users, cache, faults. |
| `AuthenticationController` | The authentication controller: event handler and worker, on an informer's object they share. |
| `ModuleLifecycle` | `ConnectionController` and `StorageClassController` (by INSTANCE) in one process, the removal of the module with its deletion hook, and an installation after it. |
| `Migration` | The hook, the objects it moves, the CSI pods, the PV protection controller, Helm. |
| `MCConnection`, `MCStorageClass`, `MCAuthentication`, `MCModule`, `MCMigration` | Instances for TLC; each `.cfg` is a run of `PROJECT.json` or one of the other instances below. |
| `ConnectionProofs`, `ConnectionVerdictProofs`, `StorageClassProofs`, `StorageClassVerdictProofs`, `AuthenticationProofs`, `MigrationProofs`, `MigrationSafetyProofs`, `ModuleProofs` | Theorems and their proofs. |

`PROJECT.json` ("map") names for each definition the lines it stands for. Definitions
marked external are the API server, the informers, users and Deckhouse, as the code
relies on them. Operators whose name ends in a second word after an underscore
(`Fail_logged`, `accepted_forced`) are mutants: plausible bugs that the properties
are known to catch. No specification uses them.

### ConnectionController

`conn`, `status`, `cm` and `secret` are the API server's objects; `seenConn`, `seenCM`,
`seenSecret` the informers' copies, `lag*` which of them are out of date; `queue` the
workqueue; `pass` the one worker's pass with its copy of the connection and the step it
is at. Each step is one API call and the code around it up to the next one:
`addFinalizerIfNotExists`, `reconcileConfigMap`, `reconcileSecret`, `deleteSecret`,
`removeFinalizerIfExists`, `updateCephClusterConnectionStatus`. A call is "ok",
"rejected" (no effect, an error) or "lost" (effect, and an error). `current` says whether
the pass's copy still has the server's resourceVersion: an Update with an older one is
refused. The predicates of the watch are `enqueued`. Crashes forget the queue and the
pass; a restart enqueues every object. A spec is one value, valid or not; generations and
lives of a name are counted. `clusterIDOf` is the clusterID, which the CRD freezes in one
life (`crds/cephclusterconnection.yaml:47`) and the next life may name anew (`CidOf`).

### StorageClassController

The same pattern for one class (classes share no object). `pass.copies` are the lists
the pass read at its start. `recreateStorageClass` is two steps, and what happens between
them is anybody's. `cid` is the connection's clusterID, which users may remove and bring
back; `crd` the snapshot CRDs, absent, installed, or installed late; `option` what the
module's settings (msCrcData, the ignored label prefixes) were when the process started:
`NewConfig` changes it with a restart, as the environment of the Deployment does.
`shouldRetryFailedStorageClass` is taken with the status of the pass's own copy.
`MapperFails` lets the REST mapper answer with an error, which the code takes for an
absent CRD.

`Meddling` says what users do to the owned objects. Of the StorageClass, "sc", they ask
anything of `userRequests`: create one of our provisioner or of another, edit its
annotations, finalizers or labels, delete it. `SCValidate` is the webhook, and only what
it lets through takes effect: annotations of ours, and anything of a StorageClass of
another provisioner. VolumeSnapshotClasses have no webhook.

### AuthenticationController

`auth` is the server's object with its resourceVersion `rv`, `store` the informer's.
controller-runtime hands the informer's own object to the event handler, and
`labelAsDeprecatedIfNeeded` writes to it (lines 122 and 133) before it sends it: so
`HandleEvent` and the steps of the handler change `store` while it is `aliased`, unless an
event has put another object in its place, in which case the old one lives on in `inbox`
or with the handler. The worker's Get returns a copy. Each of the two does up to two
calls, `UpdateObject` and `publishDeprecatedCondition`, and they interleave. `accepted` is
the check of the resourceVersion. `UpdateFails` says whether an Update of the current
version may fail without an effect; rejections of an older one, lost answers and crashes
there always are.

### ModuleLifecycle

The two controllers with the variables of both; the clusterID that the class controller
reads is that of the connection's present life (`cid`), seen through a view of its own
(`ClassSees`), and they crash together. No event of a connection starts a pass over a
class: one that is made again for another cluster leaves a Ready class with the old
clusterID (`SameCluster`, false under `MCModule_newcluster`). `UninstallHelm` ends the process and starts the hook, `Kinds` one after the
other: `HookList`, a `HookPatch` for each object listed, `HookNext`. Errors are joined and
make Deckhouse run the hook again; a failed list of custom resources is none (line 141 of
the hook). Meanwhile the namespace takes the ConfigMap and the Secrets
(`DeleteNamespaced`), and users may delete anything. `Reinstall` finds what is left; it is the
start of both controllers (`CrashRestart`), and like every crash it spends a fault.

### Migration

`hook.step` is the call the handler is at; `hook.listed` is `pvList`, the copies it works
on to its end. An error and a crash are the same to the next run (`Interrupted`):
nothing but the objects is kept. `Run` may start again after a good end too, as hooks run
before each Helm release. The backups of a volume are reduced to the last one, since
`ProcessRemovedPVs` has labelled every earlier one before a new one is made. `ProtectPV`
and `UnprotectPV` are Kubernetes' PV protection controller; `SomebodyRestores` recreates
a volume from its backup at any time. `InUse` volumes are bound, so their finalizer stays
until the hook takes it off.

## The runs

Passing runs. The bounds are on lives of a name, edits, and faults (failed calls, lost
answers, crashes and meddling together); two faults let any two steps of a pass, or of a
pass and its retry, be the ones that go wrong.

| Run | Instance | What it shows |
|---|---|---|
| `conn_crash` | 1 connection, 2 lives, the second in another cluster, 3 specs (1 invalid), 2 faults, all tampering, fair | `TypeOK`, `NoOrphans`, `GuardsItsAssets` (the controller implements `FinalizerGuard`), `DeletionCompletes` |
| `conn_stale` | 2 connections, 2 clusters, stale reads, 1 fault | `NoLostUpdate`: the resourceVersion protects the entries of others. `ReadyMeansInPlace` with interleaved passes on one ConfigMap, each of which may compute the list from an old copy |
| `conn_live` | 1 connection, 2 lives, the second in another cluster, 2 generations, an invalid spec, 1 fault, fair | `ReadyMeansInPlace` while specs change under a pass, `EventuallySettled` |
| `class_crash` | 2 lives, RBD and CephFS, late CRDs, all requests of users to the webhook, meddling with the VolumeSnapshotClass, 2 faults, fair | `TypeOK`, `NoOrphans`, `GuardsItsAssets`, `ForeignKept`, `CorrectClassKept` (a verdict decides on a deletion), `DeletionCompletes` |
| `class_live` | 2 clusterIDs of a connection that comes and goes, empty defaultFSType, requests to the webhook, 2 options, 2 faults, fair | `ReadyMeansInPlace` at rest, `EventuallySettled` |
| `auth_crash` | 1 life, 2 generations, 2 faults (lost answers, crashes, removals of the label), fair | `TypeOK`, `CacheHonest`, `EditsKept`, `EventuallyMarked`, `DeletionCompletes` |
| `removal` | 1 connection, 1 class of it, 1 life each, no snapshot CRDs, up to two removals with one installation between them, or one removal with one failed call or crash, fair | `TypeOK`, `RemovalReleases`, `NoOrphans`, `ReadyMeansInPlace` of both controllers at rest, `EventuallySettled` |
| `migration_crash` | 2 drivers, 2 storage classes, 3 bound volumes, 2 snapshot classes, 3 faults | `TypeOK`, `NothingLost`, `LabelledMeansMigrated`, `SecretWillExist`, `DeletedSafely` |
| `migration_live` | the same with unbound volumes, one without a Secret, a restorer, 2 faults, fair | `CleanMigration`, `SecretWillExist`, `DeletedSafely`, `EventuallyFinished` |

Two connections are the smallest number that can disturb each other in the ConfigMap, and
three would add no new kind of interference (the list is keyed by clusterID and rewritten
whole). Two lives let an object of a deleted resource meet its successor. Generations up
to 2 let a spec change under a pass (3, in `MCConnection_staleready`, let it change back). In
`removal` the one fault is one failed or lost call of a controller or of the hook, or one crash,
which with the removal itself makes two interruptions of the same pass, or it is the installation
after the removal: the run has no installation beside a failed call or a crash, and no second
installation. Those are left to the theorems about `ModuleLifecycle`, which hold for any
`MaxFaults`, and `EventuallySettled` is not checked for them. The snapshot CRDs add a second
object of the class that the hook does not know, covered by `class_crash`. In the
migration three volumes in two classes let a loop be left early with volumes of the same
and of another class still to come.

Runs that find a disagreement between the code and what the repository says of it. Each
is a finding of `PROJECT.json` with the sentence it contradicts.

| Run | What happens |
|---|---|
| `conn_verdict` | The ConfigMap is deleted by a user; the pass strips its finalizer, returns no error, and publishes Ready=True with no ConfigMap. |
| `migration_skipped` | One AlreadyExists ends the loop without an error; the driver is labelled with volumes left out. |
| `auth_retry` | One failed Update: the label is set in the informer's object only, the retry finds it there and skips the Update, and nothing is tried again. |

Other instances, kept to be run by hand (`tlc -config MCX_<name>.cfg MCX`). Each ends in a
counterexample, and marks the edge of what the runs and theorems above establish: it turns
on one thing that they exclude.

| Instance | Property it violates | What happens |
|---|---|---|
| `MCConnection_staleteardown` | `NoOrphans` | A teardown on a cache older than the controller's own create sees nothing to remove and releases the connection (`ceph_cluster_connection_watcher.go:173`). |
| `MCConnection_oneclusterid` | `ReadyMeansInPlace` | Two connections with one clusterID take the entry from each other, both Ready. |
| `MCConnection_staleready` | `ReadyMeansInPlace` | A spec changed and changed back within the cache's lag leaves the middle one's entry, with Ready=True. |
| `MCStorageClass_mapper` | `NoOrphans` | One mapper error during a teardown leaves the VolumeSnapshotClass for good (`snapshot_crd.go:43`). |
| `MCStorageClass_mark` | `MarkKept` | A recreation loses the user's default-class annotation. |
| `MCStorageClass_latecrd` | `SnapshotsFollowCRD` | CRDs installed later: a Ready class gets no VolumeSnapshotClass, against the comment of `snapshot_crd.go:34`. |
| `MCStorageClass_stalestatus` | `CorrectClassKept` | A cached status makes a pass recreate a correct StorageClass. |
| `MCStorageClass_staleforeign` | `ForeignKept` | A teardown repeated on a stale list deletes another provisioner's StorageClass. |
| `MCMigration_lost` | `NothingLost` | A volume still terminating counts as recreated, then goes; nothing brings it back. |
| `MCMigration_policy` | `PolicyKept` | A crash after the patch to Retain makes Retain the policy of the volume for good (`funcs.go:551`). |
| `MCMigration_contents` | `ContentsFollow` | A crash after a VolumeSnapshotClass is labelled leaves its contents with the old Secret. |
| `MCMigration_annotations` | `AnnotationsFollow` | The branch that only updates annotations writes the old ones. |
| `MCMigration_onesecret` | `EventuallyFinished` | A volume with one of two Secret references is a nil dereference in each run. |
| `MCMigration_nocrd` | `EventuallyFinished` | Without the snapshot CRDs no run of the hook ends well. |
| `MCMigration_noexpansion` | `EventuallyFinished` | An RBD class to be created whose driver leaves `allowVolumeExpansion` out is a nil dereference in each run (line 259 of the hook; line 214 guards the field for CephFS). |
| `MCAuthentication_finalizer` | `DeletionCompletes` | As `auth_retry`, with the finalizers of a resource being deleted: it stays until the next start. |
| `MCModule_resources` | `CustomResourcesReleased` | The list of custom resources names connections only (`consts.go:34`): a class deleted while the module is away stays. |
| `MCModule_lists` | `RemovalReleases` | A failed list of connections counts as none, and the hook reports success. |
| `MCModule_newcluster` | `SameCluster` | A connection is deleted and made again with another clusterID: it is Ready, its class still is, and the StorageClass names the old one, since no event of a connection starts a pass over its classes. |

(On the constants of `MCModule_newcluster`, which has two lives of the connection, the snapshot
CRDs and no installation after a removal, `ReadyMeansInPlace`, `NoOrphans` and
`RemovalReleases` hold: what fails there is `SameCluster` alone.)

The passing runs exclude these causes by a constant (`StaleReads`, `MapperFails`,
`Meddling`, `Tampering`, `Restorer`, `InUse`, `RefsOf`, `NilExpansion`, `SnapshotCRD`,
`CidOf`, `UpdateFails`, `ListFails`), or by speaking of a migration without faults
(`CleanMigration`), so the constants of a run say under which conditions its properties
hold.

Deadlock is not checked: with the bounds on lives, edits and faults spent, and nothing
queued, a system really has nothing to do.

### Fairness

* `WF(Work)`, `WF` of the informers: controller-runtime's worker goes on with the pass it
  has, and watches deliver.
* `StartReconcile`: the workqueue is first in, first out and has one worker, so a queued
  key is served; with several connections this is strong fairness per key, since a key's
  turn is not continuously enabled while other passes run. A requeue with a delay is a
  requeue.
* `WF(HookStep)`, `WF(Run)` after a failed run: the process runs, and Deckhouse repeats a
  failed hook. `WF(PollPV /\ GiveUp)`: the poll of a deleted volume lasts three minutes at
  most, so it ends on a volume that somebody recreated. `WF(PodsTerminate)`: deleted pods
  go.
* `AuthenticationController`: the informer delivers (`Sync`), the handler is called
  (`HandleEvent`), a queued key is served (`StartReconcile`), and each goroutine goes on with
  its calls (`Work`).
* `ModuleLifecycle`: the connection controller with its cache, the class controller's cache and
  its worker each go on (the class controller retries for ever while the connection is missing, so its
  cache needs fairness of its own), and so do the hook, which Deckhouse repeats, and the
  deletion of the namespace. Finer fairness would be justified; this much is enough.
* No fairness for users, faults, crashes, Helm, or the PV protection controller.

## The proofs

TLAPS checks them with SMT, Zenon and LS4; they hold for any constants that satisfy the
named assumptions of the modules (which TLC evaluates in the runs).

* `TypeCorrect` of `ConnectionProofs`, `StorageClassProofs`, `AuthenticationProofs`,
  `MigrationProofs` and `ModuleProofs`: `Spec => []TypeOK`. For the migration the invariant is strengthened with
  `StepShape`: at a step about a volume or a driver there is one.
* `ConnectionProofs!TeardownComplete`: `Spec => []NoOrphans`, assuming current reads
  (`StaleReads = FALSE`; `MCConnection_staleteardown` shows that it fails without). `NoOrphans`
  is not inductive: that the finalizer may go depends on what earlier steps of the same
  pass have done. The invariant `TeardownInv` adds that the finalizer and the phase of a
  connection agree (`ConnShape`), an entry stands under the clusterID of its owner's present
  life (`CMShape`), a cached copy that does not lag is the server's (`CacheShape`), a pass past
  its first step holds the finalizer and nobody else writes to a connection being deleted
  (`PassShape`), and a teardown past a step has left nothing of that step
  (`TeardownShape`).
* `ConnectionProofs!ConnectionGuards`: `Spec => GuardsItsAssets`, the refinement of
  `FinalizerGuard` under the mapping `claims`, `holdings`, from the same invariant: a
  step is a claim, work on a claimed connection, a release with nothing left, or a
  stutter.
* `ConnectionVerdictProofs!OthersEntriesKept`: `Spec => NoLostUpdate`, with no assumption: caches
  may lag and users tamper. All it needs is that a copy which has not been overtaken is the
  server's, and that the Update of another one is refused.
* `ConnectionVerdictProofs!VerdictsAreTrue`: `Spec => []ReadyMeansInPlace`, assuming current
  reads, no tampering and connections that in none of their lives share a clusterID
  (`MCConnection_staleready`, the run `conn_verdict` and `MCConnection_oneclusterid` show what
  happens without each). A pass may be
  overtaken by an edit and still write what its old copy asks for; `VerdictInv` extends
  `TeardownInv` by what makes that harmless: the copy is the present generation or an earlier
  one of the same life (`LifeShape`, `GenShape`), no verdict about the present generation is
  True while a pass works on an earlier one (`BehindShape`), a verdict is about this life
  (`StatusShape`), a pass that can still say True has put both objects in place
  (`ProgressShape`), and one that ends without a word has ended a deletion
  (`SilentShape`). The lemmas show more than the theorem needs, so that the composition
  can cite them: every step leaves a verdict that is true true (`TruthKept`), whatever
  the verdicts about other connections are.
* `StorageClassProofs!TeardownComplete`, `ClassGuards`: `Spec => []NoOrphans` and `Spec =>
  GuardsItsAssets` of the class controller, assuming current reads and a mapper without
  errors (`MCStorageClass_mapper` shows the need), from an invariant `TeardownInv` built like
  the one above. It has to follow two objects, one of which may be a StorageClass of
  somebody else, and the lists a teardown started from.
* `StorageClassProofs!ForeignUntouched`: `Spec => ForeignKept`, assuming current reads
  (`MCStorageClass_staleforeign` shows the need). The controller deletes by name, so what
  counts is that nobody can put another StorageClass in the place of ours between the list
  and the Delete: `OurStorageClass` says that ours goes only by the controller's own
  hand, because the webhook refuses everything else.
* `StorageClassVerdictProofs!VerdictsAreTrue`: `Spec => []ReadyMeansInPlace`, assuming current
  reads, a mapper without errors and snapshot CRDs that are there from the start or never
  (the property fails on the constants of `MCStorageClass_stalestatus`,
  `MCStorageClass_mapper` and `MCStorageClass_latecrd`). The property speaks of rest only, so its invariant has to say what a
  key in the queue and an event on its way still stand for. `VerdictInv` extends
  `TeardownInv`: while no pass is at work, either the verdict is true or the class will be
  served again (`RestShape`). A pass that an edit has overtaken is followed by another one
  (`FollowShape`), of the same life of the class (`SeenShape`, `LifeShape`); a pass over the present
  version has put in place what its step says (`ProgressShape`), starting from lists that
  are still true (`CopyShape`, `SnapshotShape`).
* `StorageClassVerdictProofs!CorrectIsKept`: `Spec => CorrectClassKept`, assuming current reads
  (`MCStorageClass_stalestatus` shows the need), a connection that nobody touches (one that
  is made anew with another clusterID, and again with the first, while a pass holds the
  clusterID between them takes a correct StorageClass down) and a mapper without errors, which
  `TeardownInv` wants. `KeepInv` extends it: a class that a pass holds is in the life it
  was read in, in which its labels only grow and no StorageClass has one the class had not
  (`LabelShape`); its spec is frozen, its verdict is the pass's own to write, and a
  StorageClass nobody wrote to is the one listed (`ReadShape`); the clusterID read is the
  connection's (`ClusterShape`).
* `AuthenticationProofs!CacheStaysHonest`: `Spec => []CacheHonest`, assuming that no Update of
  the current version fails (the run `auth_retry` shows the need). `CacheInv` says which
  object the handler is changing (`Alias`) and that the informer's object differs from the
  server's only while an event or the handler's Update is on its way (`StoreShape`).
* `AuthenticationProofs!EditsStayKept`: `Spec => EditsKept`, with no assumption: every copy
  anywhere that has the server's resourceVersion has the server's spec (`Copies`).
* `MigrationProofs!VolumesSurvive`: `Spec => []NothingLost`, assuming that all volumes stay
  bound (`InUse = PVs`; `MCMigration_lost` shows that it fails without). The invariant
  `LossInv` adds that a volume a run has listed exists unless it is the one being
  recreated (`ListShape`), that what is left to restore has a backup labelled false and
  what is left to migrate was listed (`TodoShape`), that the volume at hand is backed up
  before it is deleted and exists before its backup is labelled true (`AtShape`), and that
  such a backup holds a volume (`BackupShape`).
* `MigrationSafetyProofs!SecretsHaveConnections`: `Spec => []SecretWillExist`, with no
  assumption. `SecretInv`: the driver a loop is at has its connection (`LoopShape`,
  `ConnShape`), and the new reference comes only from it, in a volume or a backup
  (`CopyShape`) or a content (`ContentShape`).
* `MigrationSafetyProofs!DeletionsAreSafe`: `Spec => DeletedSafely`, with no assumption, bound
  volumes or not, and whoever restores. Three writers may set the policy of a volume: the
  hook's patch, its repair of a volume that came back, and the restorer. `SafetyInv`: a backup
  is of a live volume (`BackupLive`), one on its way out has the policy Retain and was
  listed with it, unless it is the one at hand (`TerminatingShape`), the one about to be
  deleted has Retain, on the server or in the backup it would come back from
  (`PolicyShape`), and the pods are down (`PodShape`).
* `MigrationSafetyProofs!LabelsAreTrue`: `Spec => []LabelledMeansMigrated`, assuming `InUse =
  PVs` and no restorer (the run `migration_skipped` shows the need). `LabelInv` extends `LossInv`:
  the run is at drivers without the label (`DriverShape`), what a driver's loop has
  behind it is migrated (`DoneShape`), what it has before it exists and was listed
  (`PresentShape`), and the volume at hand is gone before it is created and migrated after
  (`RecreateShape`).

* `MigrationSafetyProofs!MigrationIsClean`: `Spec => []CleanMigration`, with no assumption. A
  run may fail without any fault (a volume with one Secret reference, snapshot CRDs that are
  missing), so the invariant `CleanInv` holds over several runs: every volume is there with
  its policy but for the one being recreated, which was listed with it (`CleanPVs`), and
  what a labelled snapshot class has not moved of its contents is what the run is at
  (`CleanContents`).
* `ModuleProofs` is about the composition. It takes `ConnectionProofs` and
  `StorageClassProofs` as instances and cites their lemmas step by step: a step of the
  composition is a step of one controller with the other's variables unchanged, or one
  of the hook, the namespace or the installation, which the controllers know nothing of.
  * `NothingLeftBehind`: `Spec => []NoOrphans`, with no assumption. The hook takes finalizers
    away from under the controllers, so neither `TeardownInv` survives a removal.
    `OrphansInv` keeps the whole of both only while the module is installed; the
    part that no removal breaks holds always (`ConnShape`, `ObjectShape`, and `Held`: the
    hook does not reach the finalizer of a CephStorageClass), and an installation
    re-establishes the rest, since the namespace has taken the ConfigMap and the Secrets
    with it.
  * `RemovalIsComplete`: `Spec => []RemovalReleases`, assuming that no List of the hook fails
    (`ListFails = FALSE`; `MCModule_lists` shows the need: the hook logs the error and goes on
    with an empty list). `ReleaseInv` extends `OrphansInv`: a hook without an error has released
    the kinds before the one it is at, and what is not released of that one is still on its
    list (`Release`); nobody adds a finalizer meanwhile (`AbsentShape`).
  * `VerdictsSurviveRemovals`: `Spec => []ReadyMeansInPlace`, assuming that no two connections
    ever share a clusterID. A removal takes what a Ready=True speaks of and leaves the
    verdict, so neither controller's verdict invariant survives it, and a module that
    comes back meets verdicts that are false. `UsableInv` extends `OrphansInv`: while the
    module is installed, what is said of a connection is true or the connection is in the
    queue or in a pass (`Served`), beside the verdict shapes of both controllers; whether
    it is installed or not, a verdict is about a generation of this life (`StatusShape`)
    and a class that lives has the finalizer on its VolumeSnapshotClass (`SnapshotsHeld`).
    The lives of a connection may name any clusters. The theorem is about each resource and
    the objects it owns: that a class and its connection name the same cluster is false
    (`MCModule_newcluster`).

The invariants were checked by TLC on the runs' instances before they were proved.

Every safety property of the passing runs is a theorem. Only model-checked is liveness
(`EventuallySettled`, `DeletionCompletes`, `EventuallyFinished`, `EventuallyMarked`), since
the prover has neither fairness nor ENABLED. No module has a RECURSIVE operator, and
nothing proved needs an induction over data.

## Not modelled

* The prefixes that decide which labels and annotations are copied: the model knows that
  they differ and may change, not their names.
* Finalizers of others on the resources, and annotations but for the default-class mark.
* Parameters, mount options and metadata of StorageClasses one by one, monitors, user keys:
  part of a spec, which is one value.
* Label selectors, JSON and base64: values are abstract. An unparsable `config.json` is
  modelled (`corrupt`).
* The lease of the manager, retries inside client-go, the workqueue's rate limiter.
* Volumes of other drivers, claims, and what Kubernetes does to a claim whose volume is
  recreated.
* In `ModuleLifecycle`: the migration hook, tampering, label edits and stale reads, each
  covered where its component is modelled alone.
* The webhook's panic on a StorageClass without `allowVolumeExpansion`: the models' objects have
  all their fields.
* Certificates (a declaration handed to the module SDK), addresses and log levels, templates
  and CRDs (data; their validations bound the specs), the patches of the CSI driver images,
  `hack/`, generated code.

## Plan

1. Done: the three controllers, `FinalizerGuard`, the webhook, the options, the migration, the
   removal of the module, and the theorems above.
2. Proofs left: `ForeignKept` and `CorrectClassKept` for the class controller of the
   composition, where a removal takes the webhook away.
3. Models left: a `LabelFilter` of sets of keys, where the ignored prefixes are sets, checked
   as idempotent and as keeping user keys; an abstract specification of the migration, each
   volume old, saved or new, which `Migration` implements.
4. Bounds: `removal` with two faults, two lives and the snapshot CRDs, which needs a smaller
   class controller.
