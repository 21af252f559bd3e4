----------------------- MODULE ConnectionVerdictProofs -----------------------
(***************************************************************************)
(* Theorems about what ConnectionController says and writes of several     *)
(* connections on one ConfigMap: an Update takes nothing from another      *)
(* connection, and Ready=True is true.                                     *)
(***************************************************************************)
EXTENDS ConnectionProofs

-----------------------------------------------------------------------------
\* The list of clusters.  A cached copy that has not been overtaken is the
\* server's; that is all NoLostUpdate needs.

ListSeen == ~lagCM => seenCM = cm
ListInv == TypeOK /\ ListSeen

\* The list an Update writes differs from the cached one in one entry.
LEMMA OneEntry ==
    ASSUME TypeOK, NEW k \in ClusterIDs, k # clusterIDOf(pass.c, pass.obj)
    PROVE  updatedConfigMap(pass.c, pass.obj).entries[k] = seenCM.entries[k]
  BY DEF TypeOK, ConfigMapObject, updatedConfigMap, updateClusterConfigs

\* Every step leaves a copy that does not lag as the server's, and entries of
\* other clusters alone.
LEMMA ListStep ==
    ASSUME ListInv, Next
    PROVE  /\ ListSeen'
           /\ \A k \in ClusterIDs :
                 (/\ cm.phase = "live" /\ cm'.phase = "live" /\ ~cm'.corrupt
                  /\ cm'.entries[k] # cm.entries[k])
                 => pass.step = "configmap" /\ clusterIDOf(pass.c, pass.obj) = k
  <1> USE DEF ListInv, ListSeen
  <1>0. cm \in ConfigMapObject /\ seenCM \in ConfigMapObject /\ lagCM \in BOOLEAN
    BY DEF TypeOK
  <1>1. CASE \E o \in Outcomes : reconcileConfigMap(o)
    <2>1. PICK o \in Outcomes : reconcileConfigMap(o)
      BY <1>1
    <2>2. \/ UNCHANGED <<cm, lagCM>>
          \/ lagCM' /\ (cm.phase = "absent" \/ cm' = NoConfigMap)
          \/ lagCM' /\ ~lagCM /\ cm' = updatedConfigMap(pass.c, pass.obj)
      BY <2>1 DEF reconcileConfigMap, WriteConfigMap, NoWriteConfigMap
    <2>3. ListSeen'
      BY <2>1, <2>2 DEF reconcileConfigMap
    <2> QED
      BY <2>1, <2>2, <2>3, OneEntry DEF reconcileConfigMap, NoConfigMap
  <1>2. CASE User
    <2>1. CASE DeleteConfigMap
      BY <1>0, <2>1 DEF DeleteConfigMap, NoConfigMap, ConfigMapObject
    <2>2. CASE CorruptConfigMap
      BY <1>0, <2>2 DEF CorruptConfigMap, ConfigMapObject
    <2>3. CASE UNCHANGED <<cm, seenCM, lagCM>>
      BY <2>3
    <2> QED
      BY <1>2, <2>1, <2>2, <2>3 DEF User, CreateConnection, EditConnection, DeleteConnection,
         DeleteSecret, UserWritesConn
  <1>3. CASE Sync
    BY <1>3 DEF Sync, SyncConfigMap, SyncConnection, SyncSecret, server
  <1>4. CASE \E c \in Conns : StartReconcile(c)
    BY <1>4 DEF StartReconcile, server, informer
  <1>5. CASE \E o \in Outcomes : \/ addFinalizerIfNotExists(o) \/ reconcileSecret(o)
                                 \/ deleteSecret(o) \/ removeFinalizerIfExists(o)
                                 \/ updateCephClusterConnectionStatus(o)
    BY <1>5 DEF addFinalizerIfNotExists, reconcileSecret, deleteSecret, removeFinalizerIfExists,
       updateCephClusterConnectionStatus
  <1>6. CASE CrashRestart \/ StandbyStart
    BY <1>6 DEF CrashRestart, StandbyStart, EnsureConfigMapExists
  <1> QED
    BY <1>1, <1>2, <1>3, <1>4, <1>5, <1>6 DEF Next, Work

\* The resourceVersion protects the entries of others: however far the caches
\* lag, whatever fails and whatever users do, for every number of connections,
\* an entry of the list changes in a pass over a connection of that cluster only.
THEOREM OthersEntriesKept == Spec => NoLostUpdate
  <1>1. Init => ListInv
    BY TypeInitially DEF ListInv, ListSeen, Init
  <1>2. ASSUME ListInv, [Next]_vars
        PROVE  /\ ListInv'
               /\ [\A k \in ClusterIDs :
                     (/\ cm.phase = "live" /\ cm'.phase = "live" /\ ~cm'.corrupt
                      /\ cm'.entries[k] # cm.entries[k])
                     => pass.step = "configmap" /\ clusterIDOf(pass.c, pass.obj) = k]_vars
    <2>1. TypeOK'
      BY <1>2, TypeStep DEF ListInv
    <2>2. CASE UNCHANGED vars
      BY <1>2, <2>1, <2>2 DEF ListInv, ListSeen, vars
    <2>3. CASE Next
      BY <1>2, <2>1, <2>3, ListStep DEF ListInv
    <2> QED
      BY <1>2, <2>2, <2>3
  <1> QED
    BY <1>1, <1>2, PTL DEF Spec, NoLostUpdate
-----------------------------------------------------------------------------
\* The verdict.  The invariant below is what makes ReadyMeansInPlace inductive:
\* a pass may work on a copy that has been overtaken, and what it writes then
\* must not spoil what a verdict about the present generation speaks of.

\* ReadyMeansInPlace, of one connection.
Truthful(c) ==
    (conn[c].phase = "live" /\ status[c].ready = "true" /\ status[c].observed = conn[c].gen)
        => InPlace(c)

\* The pass can still end with Ready=True.
Earning == pass.step = "publish" /\ ~pass.failed /\ pass.obj.phase = "live"

\* Without users who meddle the ConfigMap is always there.
ListShape == cm.phase = "live"

\* A pass that has to run again has failed.
RequeueShape == pass.requeue => pass.failed

\* A pass that has earned Ready=True still works on the life the connection has.
LifeShape == Earning => conn[pass.c].finalizer /\ conn[pass.c].life = pass.obj.life

\* The pass works on this life of the connection.
SameLife == pass.step # "idle" /\ conn[pass.c].phase # "absent"
               /\ conn[pass.c].life = pass.obj.life

\* The copy of a pass is the present generation or an earlier one.
GenShape ==
    /\ pass.step # "idle" => pass.obj.life <= conn[pass.c].life
    /\ SameLife =>
          /\ pass.obj.gen <= conn[pass.c].gen
          /\ pass.obj.gen = conn[pass.c].gen => pass.obj.spec = conn[pass.c].spec

\* A verdict is about a generation of this life.
StatusShape ==
    \A c \in Conns : /\ conn[c].phase = "absent" => conn[c].gen = 0
                     /\ status[c].ready = "true" => status[c].observed <= conn[c].gen

\* While a pass works on an earlier generation, no verdict about the present one
\* is Ready=True: it would have to come from a pass after this one.
BehindShape ==
    SameLife /\ pass.obj.gen < conn[pass.c].gen /\ status[pass.c].ready = "true" =>
        status[pass.c].observed # conn[pass.c].gen

\* What a pass over a live object has done by the step it is at.
ProgressShape ==
    /\ (pass.step = "secret" /\ pass.obj.phase = "live") \/ Earning =>
           cm.entries[clusterIDOf(pass.c, pass.obj)] = generateClusterConfig(pass.c, pass.obj)
    /\ Earning => secret[pass.c].phase # "absent" /\ secret[pass.c].spec = pass.obj.spec

\* A pass that has nothing to say has ended a deletion, and the verdict went with it.
SilentShape ==
    pass.step = "publish" /\ ~pass.failed /\ pass.obj.phase # "live" =>
        status[pass.c].ready # "true"

PassShapes == ListShape /\ RequeueShape /\ LifeShape /\ ProgressShape /\ SilentShape
VersionShapes == GenShape /\ StatusShape /\ BehindShape
VerdictShapes == PassShapes /\ VersionShapes
WorkInv == TeardownInv /\ VerdictShapes
VerdictInv == WorkInv /\ ReadyMeansInPlace

\* A step leaves what is true of a connection true: of this a composition has need that
\* meets connections whose verdict is not.
TruthKept == \A d \in Conns : Truthful(d) => Truthful(d)'

\* The shapes hold at the start.
LEMMA VerdictInitially == Init => VerdictShapes /\ ReadyMeansInPlace
  <1> SUFFICES ASSUME Init PROVE VerdictShapes /\ ReadyMeansInPlace
    OBVIOUS
  <1>1. cm.phase = "live" /\ pass.step = "idle" /\ pass.requeue = FALSE
    BY DEF Init, EmptyConfigMap, NoConfigMap, NoPass
  <1>2. \A c \in Conns : conn[c].phase = "absent" /\ conn[c].gen = 0 /\ status[c].ready = "none"
    BY DEF Init, Gone, NoStatus
  <1>3. PassShapes
    BY <1>1 DEF PassShapes, ListShape, RequeueShape, LifeShape, ProgressShape, SilentShape,
       Earning, Past
  <1>4. VersionShapes
    BY <1>1, <1>2 DEF VersionShapes, GenShape, StatusShape, BehindShape, SameLife
  <1> QED
    BY <1>2, <1>3, <1>4 DEF VerdictShapes, ReadyMeansInPlace

\* A step that keeps the spec of every connection, every verdict, and the object
\* its pass works on, but for the finalizer, keeps how the versions compare.
LEMMA VersionsKept ==
    ASSUME VersionShapes, TypeOK, pass.step # "idle",
           pass'.c = pass.c, pass'.obj.life = pass.obj.life,
           pass'.obj.gen = pass.obj.gen, pass'.obj.spec = pass.obj.spec,
           \A c \in Conns : /\ conn'[c].phase = conn[c].phase /\ conn'[c].life = conn[c].life
                            /\ conn'[c].gen = conn[c].gen /\ conn'[c].spec = conn[c].spec,
           status' = status
    PROVE  VersionShapes'
  <1>1. pass.c \in Conns
    BY DEF TypeOK, PassRecord
  <1> QED
    BY <1>1 DEF VersionShapes, GenShape, StatusShape, BehindShape, SameLife

\* A pass that fails or goes on works on the same object.
LEMMA ProceedKeeps ==
    ASSUME TypeOK, NEW o, NEW legal, NEW step, Proceed(o, legal, step)
    PROVE  /\ pass'.c = pass.c /\ pass'.obj = pass.obj
           /\ \/ pass'.step = "publish" /\ pass'.failed
              \/ /\ legal /\ o = "ok" /\ pass'.step = step
                 /\ pass'.failed = pass.failed /\ pass'.requeue = pass.requeue
  BY DEF TypeOK, PassRecord, Proceed, Goto, Fail

\* Users who leave the owned objects alone keep the shapes.
LEMMA VerdictUserWritesConn ==
    ASSUME WorkInv, NEW c \in Conns, NEW new \in ConnObject, UserWritesConn(c, new),
           new.life >= conn[c].life,
           conn[c].finalizer => new.life = conn[c].life /\ new.finalizer,
           new.phase # "absent" /\ new.life = conn[c].life =>
               /\ new.gen >= conn[c].gen /\ conn[c].phase # "absent"
               /\ new.gen = conn[c].gen => new.spec = conn[c].spec,
           new.phase = "absent" => new.gen = 0,
           \A d \in Conns : d # c => status'[d] = status[d],
           \/ status'[c] = status[c] /\ new.gen >= conn[c].gen
           \/ status'[c].ready = "none" /\ new.phase = "absent",
           new.phase = "live" /\ new.gen = conn[c].gen => conn[c].phase = "live"
               /\ new.spec = conn[c].spec /\ new.life = conn[c].life
    PROVE  VerdictShapes' /\ TruthKept
  <1> USE DEF WorkInv, TeardownInv, TeardownShapes, VerdictShapes
  <1>0. /\ conn \in [Conns -> ConnObject] /\ status \in [Conns -> StatusObject]
        /\ pass \in PassRecord /\ pass.c \in Conns /\ pass.obj \in ConnObject
        /\ conn[c] \in ConnObject
    BY DEF TypeOK, PassRecord
  <1>1. /\ conn'[c] = new /\ \A d \in Conns : d # c => conn'[d] = conn[d]
        /\ UNCHANGED <<cm, secret>>
    BY <1>0 DEF UserWritesConn
  <1>2. /\ pass'.step = pass.step /\ pass'.c = pass.c /\ pass'.obj = pass.obj
        /\ pass'.failed = pass.failed /\ pass'.requeue = pass.requeue
    BY <1>0 DEF UserWritesConn, PassRecord
  <1>3. /\ \A d \in Conns : d # c => status'[d] = status[d]
        /\ \/ status'[c] = status[c] /\ new.gen >= conn[c].gen
           \/ status'[c].ready = "none" /\ new.phase = "absent"
    OBVIOUS
  <1>4. /\ conn[c].life \in Nat /\ conn[c].gen \in Nat /\ new.life \in Nat /\ new.gen \in Nat
        /\ pass.obj.life \in Nat /\ pass.obj.gen \in Nat /\ status[c].observed \in Nat
    <2>1. status[c] \in StatusObject
      BY <1>0
    <2> QED
      BY <1>0, <2>1, BoundsAssumption DEF ConnObject, StatusObject
  <1>5. PassShapes'
    <2>1. Earning' = Earning
      BY <1>2 DEF Earning
    <2>2. LifeShape'
      BY <1>0, <1>1, <1>2, <2>1 DEF PassShapes, LifeShape
    <2> QED
      BY <1>0, <1>1, <1>2, <1>3, <2>1, <2>2
      DEF PassShapes, ListShape, RequeueShape, ProgressShape, SilentShape, generateClusterConfig
  <1>6. GenShape'
    BY <1>0, <1>1, <1>2, <1>4 DEF VersionShapes, GenShape, SameLife
  <1>7. StatusShape'
    BY <1>1, <1>3, <1>4 DEF VersionShapes, StatusShape
  <1>8. BehindShape'
    <2>1. CASE pass.c # c
      BY <1>0, <1>1, <1>2, <1>3, <2>1 DEF VersionShapes, BehindShape, SameLife
    <2>2. CASE pass.c = c
      BY <1>1, <1>2, <1>3, <1>4, <2>2
      DEF VersionShapes, BehindShape, SameLife, StatusShape, GenShape
    <2> QED
      BY <2>1, <2>2
  <1>9. TruthKept
    BY <1>1, <1>3, <1>4
    DEF TruthKept, Truthful, VersionShapes, StatusShape, InPlace, generateClusterConfig,
        clusterIDOf
  <1> QED
    BY <1>5, <1>6, <1>7, <1>8, <1>9 DEF VersionShapes

\* Users keep the shapes.
LEMMA VerdictStepUser ==
    ASSUME Tampering = {}, WorkInv, User
    PROVE  VerdictShapes' /\ TruthKept
  <1> USE DEF WorkInv, TeardownInv, TeardownShapes
  <1>1. PICK c \in Conns : CreateConnection(c) \/ EditConnection(c) \/ DeleteConnection(c)
    BY DEF User, DeleteConfigMap, CorruptConfigMap, DeleteSecret
  <1>2. conn[c] \in ConnObject /\ conn[c].life \in Nat /\ conn[c].gen \in Nat
    <2>1. conn[c] \in ConnObject
      BY DEF TypeOK
    <2> QED
      BY <2>1, BoundsAssumption DEF ConnObject
  <1>3. conn[c].phase = "absent" => ~conn[c].finalizer
    BY DEF ConnShape
  <1>4. CASE CreateConnection(c)
    <2> DEFINE new(s) == [phase |-> "live", life |-> conn[c].life + 1, gen |-> 1,
                          spec |-> s, finalizer |-> FALSE]
    <2>1. PICK s \in Specs : UserWritesConn(c, new(s))
      BY <1>4 DEF CreateConnection
    <2>2. new(s) \in ConnObject
      <3>1. conn[c].life + 1 \in 0..MaxLives
        BY <1>2, <1>4, BoundsAssumption DEF CreateConnection, ConnObject
      <3>2. 1 \in 0..MaxGen
        BY BoundsAssumption
      <3> QED
        BY <3>1, <3>2 DEF ConnObject
    <2>3. /\ new(s).phase = "live" /\ new(s).life = conn[c].life + 1 /\ new(s).gen = 1
          /\ conn[c].phase = "absent" /\ status' = status
      BY <1>4 DEF CreateConnection
    <2>4. conn[c].gen = 0
      BY <2>3 DEF VerdictShapes, VersionShapes, StatusShape
    <2> HIDE DEF new
    <2> QED
      BY <1>2, <1>3, <2>1, <2>2, <2>3, <2>4, VerdictUserWritesConn
  <1>5. CASE EditConnection(c)
    <2> DEFINE new(s) == [conn[c] EXCEPT !.gen = @ + 1, !.spec = s]
    <2>1. PICK s \in Specs : UserWritesConn(c, new(s))
      BY <1>5 DEF EditConnection
    <2>2. conn[c].gen + 1 \in 0..MaxGen
      BY <1>2, <1>5, BoundsAssumption DEF EditConnection, ConnObject
    <2>3. new(s) \in ConnObject
      BY <1>2, <2>2 DEF ConnObject
    <2>4. /\ new(s).phase = conn[c].phase /\ new(s).life = conn[c].life
          /\ new(s).gen = conn[c].gen + 1 /\ new(s).finalizer = conn[c].finalizer
          /\ conn[c].phase = "live" /\ status' = status
      BY <1>2, <1>5 DEF EditConnection, ConnObject
    <2> HIDE DEF new
    <2> QED
      BY <1>2, <2>1, <2>3, <2>4, VerdictUserWritesConn
  <1>6. CASE DeleteConnection(c) /\ conn[c].finalizer
    <2> DEFINE new == [conn[c] EXCEPT !.phase = "deleting"]
    <2>1. /\ new \in ConnObject /\ new.phase = "deleting" /\ new.life = conn[c].life
          /\ new.gen = conn[c].gen /\ new.spec = conn[c].spec /\ new.finalizer
          /\ conn[c].phase = "live"
      BY <1>2, <1>6 DEF DeleteConnection, ConnObject
    <2>2. UserWritesConn(c, new) /\ status' = status
      BY <1>6 DEF DeleteConnection
    <2> HIDE DEF new
    <2> QED
      BY <1>2, <2>1, <2>2, VerdictUserWritesConn
  <1>7. CASE DeleteConnection(c) /\ ~conn[c].finalizer
    <2> DEFINE new == Gone(conn[c].life)
    <2>1. /\ new \in ConnObject /\ new.phase = "absent"
          /\ new.life = conn[c].life /\ new.gen = 0
      BY <1>2, GoneType DEF Gone, ConnObject
    <2>2. /\ UserWritesConn(c, new)
          /\ \A d \in Conns : d # c => status'[d] = status[d]
          /\ status'[c].ready = "none"
      <3>1. status \in [Conns -> StatusObject]
        BY DEF TypeOK
      <3> QED
        BY <1>7, <3>1 DEF DeleteConnection, NoStatus
    <2> HIDE DEF new
    <2> QED
      BY <1>2, <1>7, <2>1, <2>2, VerdictUserWritesConn
  <1> QED
    BY <1>1, <1>4, <1>5, <1>6, <1>7

\* What users do leaves every verdict about a generation of this life, whatever becomes
\* of the rest.
LEMMA StatusStepUser ==
    ASSUME Tampering = {}, TypeOK, StatusShape, User
    PROVE  StatusShape'
  <1>1. PICK c \in Conns : CreateConnection(c) \/ EditConnection(c) \/ DeleteConnection(c)
    BY DEF User, DeleteConfigMap, CorruptConfigMap, DeleteSecret
  <1>2. /\ conn[c] \in ConnObject /\ conn[c].gen \in Nat /\ status[c].observed \in Nat
        /\ conn \in [Conns -> ConnObject] /\ status \in [Conns -> StatusObject]
    <2>1. conn[c] \in ConnObject /\ status[c] \in StatusObject
      BY DEF TypeOK
    <2> QED
      BY <2>1, BoundsAssumption DEF TypeOK, ConnObject, StatusObject
  <1>3. CASE CreateConnection(c)
    BY <1>2, <1>3 DEF CreateConnection, UserWritesConn, StatusShape
  <1>4. CASE EditConnection(c)
    BY <1>2, <1>4 DEF EditConnection, UserWritesConn, StatusShape, ConnObject
  <1>5. CASE DeleteConnection(c)
    BY <1>2, <1>5 DEF DeleteConnection, UserWritesConn, StatusShape, ConnObject, Gone, NoStatus
  <1> QED
    BY <1>1, <1>3, <1>4, <1>5

\* The cache and the replicas touch nothing the shapes speak of but the pass,
\* which a crash ends.
LEMMA VerdictStepFrame ==
    ASSUME VerdictShapes, Sync \/ CrashRestart \/ StandbyStart \/ UNCHANGED vars
    PROVE  VerdictShapes' /\ TruthKept
  <1>1. UNCHANGED <<conn, status, cm, secret>>
    BY DEF Sync, SyncConfigMap, SyncConnection, SyncSecret, server, CrashRestart, StandbyStart,
       EnsureConfigMapExists, VerdictShapes, PassShapes, ListShape, vars
  <1>2. CASE UNCHANGED pass
    BY <1>1, <1>2 DEF VerdictShapes, PassShapes, ListShape, RequeueShape, LifeShape, ProgressShape,
       SilentShape, Earning, VersionShapes, GenShape, StatusShape, BehindShape, SameLife, TruthKept,
       Truthful, InPlace
  <1>3. CASE pass' = NoPass
    <2>1. pass'.step = "idle" /\ pass'.requeue = FALSE
      BY <1>3 DEF NoPass
    <2>2. PassShapes' /\ VersionShapes'
      BY <1>1, <2>1 DEF VerdictShapes, PassShapes, ListShape, RequeueShape, LifeShape,
         ProgressShape, SilentShape, Earning, Past, VersionShapes, GenShape, StatusShape, BehindShape,
         SameLife
    <2> QED
      BY <1>1, <2>2 DEF VerdictShapes, TruthKept, Truthful, InPlace
  <1> QED
    BY <1>2, <1>3 DEF Sync, SyncConfigMap, SyncConnection, SyncSecret, CrashRestart, StandbyStart,
       vars

\* A pass starts with the present copy, and with nothing to say for an invalid one.
LEMMA VerdictStepStart ==
    ASSUME StaleReads = FALSE, WorkInv, NEW c \in Conns, StartReconcile(c)
    PROVE  VerdictShapes' /\ TruthKept
  <1> USE DEF WorkInv, TeardownInv, TeardownShapes
  <1>1. UNCHANGED <<conn, status, cm, secret>>
    BY DEF StartReconcile, server
  <1>2. CASE UNCHANGED pass
    BY <1>1, <1>2 DEF VerdictShapes, PassShapes, ListShape, RequeueShape, LifeShape, ProgressShape,
       SilentShape, Earning, VersionShapes, GenShape, StatusShape, BehindShape, SameLife, TruthKept,
       Truthful, InPlace
  <1>3. CASE pass' # pass
    <2>0. conn[c] \in ConnObject /\ conn[c].life \in Nat /\ conn[c].gen \in Nat
      <3>1. conn[c] \in ConnObject
        BY DEF TypeOK
      <3> QED
        BY <3>1, BoundsAssumption DEF ConnObject
    <2>1. seenConn[c] = conn[c]
      BY DEF StartReconcile, Fresh, CacheShape
    <2>2. /\ pass'.c = c /\ pass'.obj = conn[c] /\ pass'.requeue = FALSE
          /\ \/ pass'.step = "finalizer"
             \/ pass'.step = "publish" /\ pass'.failed
      <3>1. CASE valid(conn[c])
        BY <1>3, <2>1, <3>1 DEF StartReconcile
      <3>2. CASE ~valid(conn[c])
        <4>1. PICK bad \in BOOLEAN, cur \in BOOLEAN :
                 /\ bad = ~valid(conn[c])
                 /\ pass' = [step |-> "publish", c |-> c, obj |-> conn[c], current |-> cur,
                             failed |-> bad, requeue |-> FALSE]
          BY <1>3, <2>1, <3>2, Zenon DEF StartReconcile
        <4>2. bad
          BY <3>2, <4>1
        <4> QED
          BY <4>1, <4>2
      <3> QED
        BY <3>1, <3>2
    <2>3. PassShapes'
      BY <1>1, <2>2 DEF VerdictShapes, PassShapes, ListShape, RequeueShape, LifeShape,
         ProgressShape, SilentShape, Earning
    <2>4. VersionShapes'
      BY <1>1, <2>0, <2>2 DEF VerdictShapes, VersionShapes, GenShape, StatusShape, BehindShape,
         SameLife
    <2> QED
      BY <1>1, <2>3, <2>4 DEF VerdictShapes, TruthKept, Truthful, InPlace
  <1> QED
    BY <1>2, <1>3

\* Putting the finalizer on a connection keeps the shapes.
LEMMA VerdictStepFinalizer ==
    ASSUME WorkInv, NEW o, addFinalizerIfNotExists(o)
    PROVE  VerdictShapes' /\ TruthKept
  <1> USE DEF WorkInv, TeardownInv, TeardownShapes
  <1> DEFINE c == pass.c
             claimed == [pass.obj EXCEPT !.finalizer = TRUE]
  <1>0. /\ pass \in PassRecord /\ c \in Conns /\ pass.obj \in ConnObject
        /\ conn \in [Conns -> ConnObject] /\ pass.step = "finalizer"
    BY DEF TypeOK, PassRecord, addFinalizerIfNotExists
  <1>1. /\ claimed.phase = pass.obj.phase /\ claimed.life = pass.obj.life
        /\ claimed.gen = pass.obj.gen /\ claimed.spec = pass.obj.spec /\ claimed.finalizer
    BY <1>0 DEF ConnObject
  <1> HIDE DEF claimed
  <1>2. pass.current => conn[c] = pass.obj
    BY <1>0 DEF PassShape
  <1>3. UNCHANGED <<status, cm, secret>>
    BY DEF addFinalizerIfNotExists
  <1>4. \A d \in Conns : /\ conn'[d].phase = conn[d].phase /\ conn'[d].life = conn[d].life
                         /\ conn'[d].gen = conn[d].gen /\ conn'[d].spec = conn[d].spec
    BY <1>0, <1>1, <1>2 DEF addFinalizerIfNotExists, WriteConn, claimed
  <1>5. /\ pass'.c = c
        /\ \/ pass'.step = "publish" /\ pass'.failed /\ pass'.obj = pass.obj
           \/ /\ pass'.step = "configmap" /\ pass'.requeue = pass.requeue
              /\ pass'.failed = pass.failed
              /\ \/ pass'.obj = pass.obj /\ pass.obj.finalizer
                 \/ pass'.obj = claimed /\ pass.current
    BY <1>0 DEF addFinalizerIfNotExists, Goto, Fail, PassRecord, claimed
  <1>6. PassShapes'
    BY <1>0, <1>1, <1>2, <1>3, <1>4, <1>5 DEF VerdictShapes, PassShapes, ListShape, RequeueShape,
       LifeShape, ProgressShape, SilentShape, Earning, Past
  <1>7. VersionShapes'
    BY <1>0, <1>1, <1>3, <1>4, <1>5, VersionsKept DEF VerdictShapes
  <1>8. TruthKept
    BY <1>3, <1>4 DEF TruthKept, Truthful, InPlace, generateClusterConfig, clusterIDOf
  <1> QED
    BY <1>6, <1>7, <1>8 DEF VerdictShapes

\* What a pass over a live connection writes is what a Ready=True about the
\* present generation asks for: a pass that has been overtaken finds no such
\* verdict.
LEMMA WritesAreDue ==
    ASSUME WorkInv, pass.step \in Past, conn[pass.c].phase = "live",
           status[pass.c].ready = "true", status[pass.c].observed = conn[pass.c].gen
    PROVE  ~Deleting /\ pass.obj.phase = "live" /\ pass.obj.spec = conn[pass.c].spec
  <1> USE DEF WorkInv, TeardownInv, TeardownShapes
  <1>0. pass.c \in Conns /\ pass.obj \in ConnObject /\ conn[pass.c] \in ConnObject
    BY DEF TypeOK, PassRecord
  <1>1. ~Deleting /\ pass.obj.phase # "absent"
    BY DEF PassShape, Deleting, Past
  <1>2. pass.obj.finalizer
    BY DEF PassShape
  <1>3. SameLife
    BY <1>0, <1>2 DEF PassShape, SameLife, Past
  <1>4. pass.obj.gen = conn[pass.c].gen
    <2>1. pass.obj.gen \in Nat /\ conn[pass.c].gen \in Nat
      BY <1>0, BoundsAssumption DEF ConnObject
    <2> QED
      BY <1>3, <2>1 DEF VerdictShapes, VersionShapes, GenShape, BehindShape
  <1> QED
    BY <1>0, <1>1, <1>3, <1>4
    DEF VerdictShapes, VersionShapes, GenShape, Deleting, ConnObject

\* No two connections name one cluster, in any of their lives.
OwnClusterIDs ==
    \A a, b \in Conns, i, j \in 0..MaxLives : CidOf[a][i] = CidOf[b][j] => a = b

\* Then their entries have places of their own.
LEMMA ClustersApart ==
    ASSUME OwnClusterIDs, NEW a \in Conns, NEW b \in Conns, a # b,
           NEW x \in ConnObject, NEW y \in ConnObject
    PROVE  clusterIDOf(a, x) # clusterIDOf(b, y)
  BY DEF OwnClusterIDs, clusterIDOf, ConnObject

\* The ConfigMap half of a pass keeps the shapes.
LEMMA VerdictStepConfigMap ==
    ASSUME StaleReads = FALSE, OwnClusterIDs, WorkInv, NEW o, reconcileConfigMap(o)
    PROVE  VerdictShapes' /\ TruthKept
  <1> USE DEF WorkInv, TeardownInv, TeardownShapes
  <1> DEFINE c == pass.c
             k == clusterIDOf(c, pass.obj)
  <1>0. /\ pass \in PassRecord /\ c \in Conns /\ k \in ClusterIDs /\ pass.obj \in ConnObject
        /\ cm \in ConfigMapObject /\ cm.phase = "live" /\ pass.step = "configmap"
        /\ ~lagCM /\ seenCM = cm
    BY ClusterIDByLife
    DEF TypeOK, PassRecord, reconcileConfigMap, Fresh, CacheShape, VerdictShapes, PassShapes,
        ListShape
  <1> HIDE DEF k
  <1>1. UNCHANGED <<conn, status, secret>>
    BY DEF reconcileConfigMap
  <1> DEFINE new == updatedConfigMap(c, pass.obj)
  <1>2. \/ Proceed(o, TRUE, "secret") /\ new = cm /\ cm' = cm
        \/ /\ Proceed(o, TRUE, "secret")
           /\ cm' = new \/ (cm' = cm /\ o = "rejected")
    <2>1. CASE new = seenCM
      BY <1>0, <2>1 DEF reconcileConfigMap, NoWriteConfigMap
    <2>2. CASE new # seenCM
      <3>1. WriteConfigMap(o, ~lagCM, new) /\ Proceed(o, ~lagCM, "secret")
        BY <1>0, <2>2 DEF reconcileConfigMap
      <3>2. Proceed(o, TRUE, "secret")
        BY <1>0, <3>1 DEF Proceed
      <3>3. cm' = new \/ (cm' = cm /\ o = "rejected")
        BY <1>0, <3>1 DEF WriteConfigMap
      <3> QED
        BY <3>2, <3>3
    <2> QED
      BY <2>1, <2>2
  <1>3. /\ new.phase = "live"
        /\ \A j \in ClusterIDs : j # k => new.entries[j] = cm.entries[j]
        /\ ~Deleting => new.entries[k] = generateClusterConfig(c, pass.obj)
    BY <1>0 DEF updatedConfigMap, updateClusterConfigs, ConfigMapObject, Deleting, k
  <1> HIDE DEF new
  <1>4. /\ pass'.c = c /\ pass'.obj = pass.obj
        /\ \/ pass'.step = "publish" /\ pass'.failed
           \/ /\ pass'.step = "secret" /\ o = "ok"
              /\ pass'.failed = pass.failed /\ pass'.requeue = pass.requeue
    BY <1>2, ProceedKeeps
  <1>5. /\ cm'.phase = "live"
        /\ \A j \in ClusterIDs : j # k => cm'.entries[j] = cm.entries[j]
        /\ cm' = cm \/ cm' = new
        /\ o = "ok" => cm' = new
    BY <1>0, <1>2, <1>3
  <1>6. PassShapes'
    <2>1. pass'.step = "secret" /\ pass.obj.phase = "live" =>
              cm'.entries[k] = generateClusterConfig(c, pass.obj)
      BY <1>3, <1>4, <1>5 DEF Deleting
    <2> QED
      BY <1>0, <1>1, <1>4, <1>5, <2>1 DEF VerdictShapes, PassShapes, ListShape, RequeueShape,
         LifeShape, ProgressShape, SilentShape, Earning, Past, generateClusterConfig, k
  <1>7. VersionShapes'
    BY <1>0, <1>1, <1>4, VersionsKept DEF VerdictShapes
  <1>8. ASSUME NEW d \in Conns, Truthful(d), conn[d].phase = "live", status[d].ready = "true",
               status[d].observed = conn[d].gen
        PROVE  InPlace(d)'
    <2>0. conn[d] \in ConnObject
      BY DEF TypeOK
    <2>1. InPlace(d) /\ clusterIDOf(d, conn[d]) \in ClusterIDs
      BY <1>8, <2>0, ClusterIDByLife DEF Truthful
    <2>2. CASE d # c
      <3>1. clusterIDOf(d, conn[d]) # k
        BY <1>0, <2>0, <2>2, ClustersApart DEF k
      <3> QED
        BY <1>0, <1>1, <1>5, <2>1, <3>1 DEF InPlace, generateClusterConfig
    <2>3. CASE d = c
      <3>1. ~Deleting /\ pass.obj.spec = conn[c].spec
        BY <1>0, <1>8, <2>3, WritesAreDue DEF Past
      <3>2. clusterIDOf(c, conn[c]) = k
        BY <1>0, <2>0, <2>3, ClusterIDByLife DEF PassShape, Past, k
      <3> QED
        BY <1>1, <1>3, <1>5, <2>1, <2>3, <3>1, <3>2 DEF InPlace, generateClusterConfig
    <2> QED
      BY <2>2, <2>3
  <1>9. TruthKept
    BY <1>1, <1>8 DEF TruthKept, Truthful
  <1> QED
    BY <1>6, <1>7, <1>9 DEF VerdictShapes

\* The Secret half of a pass keeps the shapes.
LEMMA VerdictStepSecret ==
    ASSUME StaleReads = FALSE, WorkInv, NEW o, reconcileSecret(o)
    PROVE  VerdictShapes' /\ TruthKept
  <1> USE DEF WorkInv, TeardownInv, TeardownShapes
  <1> DEFINE c == pass.c
  <1>0. /\ pass \in PassRecord /\ c \in Conns /\ pass.obj \in ConnObject
        /\ secret \in [Conns -> SecretObject] /\ secret[c] \in SecretObject
        /\ pass.step = "secret" /\ seenSecret[c] = secret[c] /\ c \notin lagSecret
    BY DEF TypeOK, PassRecord, reconcileSecret, Fresh, CacheShape
  <1>1. UNCHANGED <<conn, status, cm>> /\ \A d \in Conns : d # c => secret'[d] = secret[d]
    BY <1>0 DEF reconcileSecret, reconcileLiveSecret, removeSecretFinalizer, WriteSecret,
       NoWriteSecret
  \* A live object: what is written is wanted, and a success leaves it.
  <1>2. /\ ~Deleting => \/ secret'[c] = secret[c]
                        \/ secret'[c].phase # "absent" /\ secret'[c].spec = pass.obj.spec
        /\ ~Deleting => \/ Proceed(o, FALSE, "publish")
                        \/ /\ Proceed(o, TRUE, "publish")
                           /\ o = "ok" => secret'[c].phase # "absent"
                                              /\ secret'[c].spec = pass.obj.spec
    <2> DEFINE new == [secret[c] EXCEPT !.managed = TRUE, !.spec = pass.obj.spec]
    <2>1. new.phase = secret[c].phase /\ new.spec = pass.obj.spec
      BY <1>0 DEF SecretObject
    <2>2. /\ generateNewSecret(pass.obj).phase = "live"
          /\ generateNewSecret(pass.obj).spec = pass.obj.spec
      BY DEF generateNewSecret
    <2> HIDE DEF new
    <2>3. CASE Deleting
      BY <2>3
    <2>4. CASE reconcileLiveSecret(o)
      <3>1. CASE secret[c].phase = "absent"
        BY <1>0, <2>2, <2>4, <3>1 DEF reconcileLiveSecret, WriteSecret, NoWriteSecret
      <3>2. CASE secret[c].phase # "absent" /\ new = secret[c]
        BY <1>0, <2>1, <2>4, <3>2 DEF reconcileLiveSecret, WriteSecret, NoWriteSecret, new
      <3>3. CASE secret[c].phase # "absent" /\ new # secret[c]
        <4>1. WriteSecret(o, c \notin lagSecret, new) /\ Proceed(o, c \notin lagSecret, "publish")
          BY <1>0, <2>4, <3>3 DEF reconcileLiveSecret, new
        <4>2. Proceed(o, TRUE, "publish")
          BY <1>0, <4>1 DEF Proceed
        <4>3. secret'[c] = new \/ (secret'[c] = secret[c] /\ o = "rejected")
          BY <1>0, <4>1 DEF WriteSecret
        <4> QED
          BY <2>1, <3>3, <4>2, <4>3
      <3> QED
        BY <3>1, <3>2, <3>3
    <2> QED
      BY <2>3, <2>4 DEF reconcileSecret, removeSecretFinalizer, Deleting
  <1>3. /\ pass'.c = c /\ pass'.obj = pass.obj
        /\ \/ pass'.step = "publish" /\ pass'.failed
           \/ /\ pass'.failed = pass.failed /\ pass'.requeue = pass.requeue
              /\ \/ pass'.step \in {"deleteSecret", "release"} /\ Deleting
                 \/ /\ pass'.step = "publish" /\ ~Deleting
                    /\ secret'[c].phase # "absent" /\ secret'[c].spec = pass.obj.spec
    <2>1. CASE ~Deleting
      BY <1>2, <2>1, ProceedKeeps
    <2>2. CASE Deleting
      <3>1. \E legal \in BOOLEAN, st \in {"deleteSecret", "release"} : Proceed(o, legal, st)
        BY <1>0, <2>2 DEF reconcileSecret, removeSecretFinalizer, reconcileLiveSecret, Deleting
      <3> QED
        BY <2>2, <3>1, ProceedKeeps
    <2> QED
      BY <2>1, <2>2
  <1>4. /\ conn[c].finalizer /\ pass.obj.finalizer /\ conn[c].life = pass.obj.life
        /\ pass.obj.phase \in {"live", "deleting"}
    BY <1>0 DEF PassShape, Past, ConnObject
  <1>5. PassShapes'
    BY <1>0, <1>1, <1>3, <1>4 DEF VerdictShapes, PassShapes, ListShape, RequeueShape, LifeShape,
       ProgressShape, SilentShape, Earning, Deleting, Past, generateClusterConfig
  <1>6. VersionShapes'
    BY <1>0, <1>1, <1>3, VersionsKept DEF VerdictShapes
  <1>7. ASSUME NEW d \in Conns, Truthful(d), conn[d].phase = "live", status[d].ready = "true",
               status[d].observed = conn[d].gen
        PROVE  InPlace(d)'
    <2>1. InPlace(d)
      BY <1>7 DEF Truthful
    <2>2. CASE d # c
      BY <1>1, <2>1, <2>2 DEF InPlace
    <2>3. CASE d = c
      <3>1. ~Deleting /\ pass.obj.spec = conn[c].spec
        BY <1>0, <1>7, <2>3, WritesAreDue DEF Past
      <3> QED
        BY <1>1, <1>2, <2>1, <2>3, <3>1 DEF InPlace
    <2> QED
      BY <2>2, <2>3
  <1>8. TruthKept
    BY <1>1, <1>7 DEF TruthKept, Truthful
  <1> QED
    BY <1>5, <1>6, <1>8 DEF VerdictShapes

\* The deletion of the Secret keeps the shapes: nobody is told of a connection
\* that is being deleted.
LEMMA VerdictStepDeleteSecret ==
    ASSUME WorkInv, NEW o, deleteSecret(o)
    PROVE  VerdictShapes' /\ TruthKept
  <1> USE DEF WorkInv, TeardownInv, TeardownShapes
  <1> DEFINE c == pass.c
  <1>0. pass.step = "deleteSecret" /\ Deleting /\ c \in Conns
    BY DEF deleteSecret, TeardownShape, TypeOK, PassRecord
  <1>1. UNCHANGED <<conn, status, cm>> /\ \A d \in Conns : d # c => secret'[d] = secret[d]
    <2>1. secret \in [Conns -> SecretObject]
      BY DEF TypeOK
    <2> QED
      BY <2>1 DEF deleteSecret, WriteSecret
  <1>2. conn[c].phase = "deleting"
    BY <1>0 DEF PassShape, Past, Deleting
  <1>3. /\ pass'.c = c /\ pass'.obj = pass.obj
        /\ \/ pass'.step = "publish" /\ pass'.failed
           \/ /\ pass'.failed = pass.failed /\ pass'.requeue = pass.requeue
              /\ pass'.step = "release"
    <2>1. \E legal \in BOOLEAN : Proceed(o, legal, "release")
      BY DEF deleteSecret
    <2> QED
      BY <2>1, ProceedKeeps
  <1>4. PassShapes'
    BY <1>0, <1>1, <1>3 DEF VerdictShapes, PassShapes, ListShape, RequeueShape, LifeShape,
       ProgressShape, SilentShape, Earning, Deleting, Past
  <1>5. VersionShapes'
    BY <1>0, <1>1, <1>3, VersionsKept DEF VerdictShapes
  <1>6. TruthKept
    BY <1>1, <1>2 DEF TruthKept, Truthful, InPlace
  <1> QED
    BY <1>4, <1>5, <1>6 DEF VerdictShapes

\* The release of a connection keeps the shapes: its verdict goes with it.
LEMMA VerdictStepRelease ==
    ASSUME WorkInv, NEW o, removeFinalizerIfExists(o)
    PROVE  VerdictShapes' /\ TruthKept
  <1> USE DEF WorkInv, TeardownInv, TeardownShapes
  <1> DEFINE c == pass.c
             gone == Gone(pass.obj.life)
  <1>0. /\ pass.step = "release" /\ Deleting /\ c \in Conns /\ pass \in PassRecord
        /\ conn \in [Conns -> ConnObject] /\ status \in [Conns -> StatusObject]
        /\ pass.obj.life \in Nat
    <2>1. pass.obj \in ConnObject
      BY DEF TypeOK, PassRecord
    <2> QED
      BY <2>1, BoundsAssumption
      DEF removeFinalizerIfExists, TeardownShape, TypeOK, PassRecord, ConnObject
  <1>1. pass.obj.finalizer /\ pass.current /\ conn[c] = pass.obj
    BY <1>0 DEF PassShape, Past, Deleting
  <1>2. UNCHANGED <<cm, secret>>
    BY DEF removeFinalizerIfExists
  <1>3. gone.phase = "absent" /\ gone.life = pass.obj.life /\ gone.gen = 0
    BY DEF Gone
  <1> HIDE DEF gone
  <1>4. \/ UNCHANGED <<conn, status>>
        \/ /\ conn'[c] = gone /\ status'[c].ready = "none"
           /\ \A d \in Conns : d # c => conn'[d] = conn[d] /\ status'[d] = status[d]
    BY <1>0, <1>1 DEF removeFinalizerIfExists, WriteConn, NoStatus, gone
  <1>5. /\ pass'.c = c /\ pass'.obj = pass.obj /\ pass'.step = "publish"
        /\ pass'.requeue => pass'.failed
        /\ ~pass'.failed => o = "ok"
    <2>1. pass.requeue => pass.failed
      BY DEF VerdictShapes, PassShapes, RequeueShape
    <2> QED
      BY <1>0, <1>1, <2>1 DEF removeFinalizerIfExists, Proceed, Goto, Fail, PassRecord
  <1>6. PassShapes'
    <2>1. ~pass'.failed => status'[c].ready = "none"
      BY <1>0, <1>1, <1>5 DEF removeFinalizerIfExists, NoStatus
    <2> QED
      BY <1>0, <1>2, <1>5, <2>1 DEF VerdictShapes, PassShapes, ListShape, RequeueShape, LifeShape,
         ProgressShape, SilentShape, Earning, Deleting, Past
  <1>7. VersionShapes'
    <2>1. CASE UNCHANGED <<conn, status>>
      BY <1>0, <1>5, <2>1, VersionsKept DEF VerdictShapes
    <2>2. CASE conn'[c] = gone /\ status'[c].ready = "none"
               /\ \A d \in Conns : d # c => conn'[d] = conn[d] /\ status'[d] = status[d]
      BY <1>0, <1>3, <1>5, <2>2 DEF VerdictShapes, VersionShapes, GenShape, StatusShape,
         BehindShape, SameLife
    <2> QED
      BY <1>4, <2>1, <2>2
  <1>8. TruthKept
    BY <1>2, <1>3, <1>4 DEF TruthKept, Truthful, InPlace, generateClusterConfig
  <1> QED
    BY <1>6, <1>7, <1>8 DEF VerdictShapes

\* The verdict of a pass keeps the shapes: a Ready=True has been earned.  Whatever was
\* said of the connection before, it is true now or looked at again.
LEMMA VerdictStepStatus ==
    ASSUME WorkInv, NEW o, updateCephClusterConnectionStatus(o)
    PROVE  /\ VerdictShapes' /\ TruthKept
           /\ \A c \in Conns : c = pass.c => Truthful(c)' \/ c \in queue'
  <1> USE DEF WorkInv, TeardownInv, TeardownShapes
  <1>c. PICK c \in Conns : c = pass.c
    BY DEF TypeOK, PassRecord
  <1>0. /\ pass.step = "publish" /\ c = pass.c /\ status \in [Conns -> StatusObject]
        /\ pass.obj \in ConnObject /\ conn[c] \in ConnObject
    BY <1>c DEF updateCephClusterConnectionStatus, TypeOK, PassRecord
  <1>1. UNCHANGED <<conn, cm, secret>> /\ pass'.step = "idle" /\ pass'.requeue = FALSE
    BY DEF updateCephClusterConnectionStatus, NoPass
  <1>2. /\ \A d \in Conns : d # c => status'[d] = status[d]
        /\ \/ status'[c] = status[c]
           \/ /\ status'[c].ready = IF pass.failed THEN "false" ELSE "true"
              /\ status'[c].observed = pass.obj.gen
              /\ shouldPublishStatus
    BY <1>0 DEF updateCephClusterConnectionStatus
  <1>3. status'[c] = status[c] \/ status'[c].ready = "false" \/
            /\ status'[c].observed = pass.obj.gen /\ Earning
    BY <1>0, <1>2 DEF shouldPublishStatus, VerdictShapes, PassShapes, RequeueShape, Earning
  <1>4. Earning => /\ pass.obj.gen <= conn[c].gen
                   /\ pass.obj.gen = conn[c].gen => pass.obj.spec = conn[c].spec
                   /\ conn[c].phase # "absent"
    <2>1. Earning => SameLife
      BY <1>0 DEF VerdictShapes, PassShapes, LifeShape, SameLife, ConnShape
    <2> QED
      BY <1>0, <2>1 DEF VerdictShapes, VersionShapes, GenShape, SameLife
  <1>5. PassShapes'
    BY <1>1 DEF VerdictShapes, PassShapes, ListShape, RequeueShape, LifeShape, ProgressShape,
       SilentShape, Earning, Past
  <1>6. VersionShapes'
    BY <1>0, <1>1, <1>2, <1>3, <1>4 DEF VerdictShapes, VersionShapes, GenShape, StatusShape,
       BehindShape, SameLife
  <1>7. Earning /\ status'[c].observed = pass.obj.gen => Truthful(c)'
    BY <1>0, <1>1, <1>4
    DEF VerdictShapes, PassShapes, LifeShape, ProgressShape, Truthful, InPlace,
        generateClusterConfig, clusterIDOf
  <1>8. TruthKept
    <2>1. ASSUME NEW d \in Conns, status'[d] = status[d], Truthful(d)
          PROVE  Truthful(d)'
      BY <1>1, <2>1 DEF Truthful, InPlace
    <2>2. status'[c].ready = "false" => Truthful(c)'
      BY DEF Truthful
    <2> QED
      BY <1>2, <1>3, <1>7, <2>1, <2>2 DEF TruthKept
  <1>9. Truthful(c)' \/ c \in queue'
    <2>1. SUFFICES ASSUME conn[c].phase = "live", o = "ok"
                   PROVE  Truthful(c)'
      BY <1>0, <1>1 DEF updateCephClusterConnectionStatus, Truthful
    <2>2. CASE shouldPublishStatus
      <3>1. status'[c].ready = (IF pass.failed THEN "false" ELSE "true")
            /\ status'[c].observed = pass.obj.gen
        BY <1>0, <2>1, <2>2 DEF updateCephClusterConnectionStatus
      <3>2. CASE pass.failed
        BY <3>1, <3>2 DEF Truthful
      <3>3. CASE ~pass.failed
        <4>1. Earning
          BY <1>0, <2>2, <3>3 DEF shouldPublishStatus, VerdictShapes, PassShapes, RequeueShape, Earning
        <4> QED
          BY <1>7, <3>1, <4>1
      <3> QED
        BY <3>2, <3>3
    <2>3. CASE ~shouldPublishStatus
      <3>1. status'[c].ready # "true"
        BY <1>0, <1>2, <2>3 DEF shouldPublishStatus, VerdictShapes, PassShapes, SilentShape
      <3> QED
        BY <3>1 DEF Truthful
    <2> QED
      BY <2>2, <2>3
  <1> QED
    BY <1>0, <1>5, <1>6, <1>8, <1>9 DEF VerdictShapes

\* Every step keeps the shapes.
LEMMA VerdictStep ==
    ASSUME StaleReads = FALSE, Tampering = {}, OwnClusterIDs, VerdictInv, [Next]_vars
    PROVE  VerdictInv'
  <1>0. WorkInv
    BY DEF VerdictInv
  <1>1. TeardownInv'
    BY <1>0, TeardownStep DEF WorkInv
  <1> SUFFICES VerdictShapes' /\ TruthKept
    BY <1>1 DEF VerdictInv, WorkInv, TruthKept, Truthful, ReadyMeansInPlace
  <1>2. CASE User
    BY <1>0, <1>2, VerdictStepUser
  <1>3. CASE Sync \/ CrashRestart \/ StandbyStart \/ UNCHANGED vars
    BY <1>0, <1>3, VerdictStepFrame DEF WorkInv
  <1>4. CASE \E c \in Conns : StartReconcile(c)
    BY <1>0, <1>4, VerdictStepStart
  <1>5. CASE Work
    BY <1>0, <1>5, VerdictStepFinalizer, VerdictStepConfigMap, VerdictStepSecret,
       VerdictStepDeleteSecret, VerdictStepRelease, VerdictStepStatus DEF Work
  <1> QED
    BY <1>2, <1>3, <1>4, <1>5 DEF Next

\* Ready=True is true: when the connections have clusterIDs of their own, the
\* copies a pass reads are current and users leave the owned objects alone, a
\* Ready=True about the present generation means that the entry and the Secret
\* are those of the present spec, for every number of connections, over any
\* edits, deletions, recreations with another clusterID, crashes, rejected and lost
\* calls, and passes overtaken by a new spec.
THEOREM VerdictsAreTrue ==
    ASSUME StaleReads = FALSE, Tampering = {}, OwnClusterIDs
    PROVE  Spec => []ReadyMeansInPlace
  <1>1. Init => VerdictInv
    BY TypeInitially, TeardownInitially, VerdictInitially DEF VerdictInv, WorkInv, TeardownInv
  <1>2. VerdictInv /\ [Next]_vars => VerdictInv'
    BY VerdictStep
  <1>3. VerdictInv => ReadyMeansInPlace
    BY DEF VerdictInv
  <1> QED
    BY <1>1, <1>2, <1>3, PTL DEF Spec
=============================================================================
