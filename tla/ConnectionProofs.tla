-------------------------- MODULE ConnectionProofs --------------------------
(***************************************************************************)
(* Theorems about ConnectionController, for every set of connections and   *)
(* every bound.                                                            *)
(***************************************************************************)
EXTENDS ConnectionController, TLAPS

-----------------------------------------------------------------------------
\* Type correctness.

\* A connection that is gone is a connection object.
LEMMA GoneType == \A n \in 0..MaxLives : Gone(n) \in ConnObject
  BY BoundsAssumption DEF Gone, ConnObject

\* The empty list of clusters, and the missing entry, have their types.
LEMMA NoEntryType == NoEntries \in [ClusterIDs -> Entry] /\ NoEntry \in Entry
  BY DEF NoEntries, NoEntry, Entry

\* The missing and the new ConfigMap are ConfigMaps.
LEMMA NoConfigMapType == NoConfigMap \in ConfigMapObject /\ EmptyConfigMap \in ConfigMapObject
  <1>1. NoConfigMap \in ConfigMapObject
    BY NoEntryType DEF NoConfigMap, ConfigMapObject
  <1> QED
    BY <1>1 DEF EmptyConfigMap, ConfigMapObject

\* The missing Secret is a Secret.
LEMMA NoSecretType == NoSecret \in SecretObject
  BY DEF NoSecret, SecretObject

\* The missing status is a status.
LEMMA NoStatusType == NoStatus \in StatusObject
  BY BoundsAssumption DEF NoStatus, StatusObject

\* The idle worker's pass is a pass.
LEMMA NoPassType == NoPass \in PassRecord
  <1>1. Gone(0) \in ConnObject
    BY GoneType, BoundsAssumption
  <1>2. (CHOOSE c \in Conns : TRUE) \in Conns
    BY ConnsAssumption
  <1> QED
    BY <1>1, <1>2 DEF NoPass, PassRecord, PassSteps

\* A pass that fails or goes on stays a pass.
LEMMA PassMoves ==
    ASSUME pass \in PassRecord, NEW o, NEW legal, NEW step \in PassSteps,
           \/ Fail \/ Goto(step) \/ Proceed(o, legal, step)
    PROVE  pass' \in PassRecord
  BY DEF Fail, Goto, Proceed, PassRecord, PassSteps

\* Faults stay within their bound.
LEMMA SpendType ==
    ASSUME faults \in 0..MaxFaults, NEW o, Fault \/ Spend(o)
    PROVE  faults' \in 0..MaxFaults
  BY BoundsAssumption DEF Spend, Fault

\* The ConfigMaps a pass writes are ConfigMaps.
LEMMA ConfigMapWrites ==
    ASSUME TypeOK
    PROVE  /\ updatedConfigMap(pass.c, pass.obj) \in ConfigMapObject
           /\ generateNewConfigMap(pass.c, pass.obj) \in ConfigMapObject
  <1>1. generateClusterConfig(pass.c, pass.obj) \in Entry
    BY DEF TypeOK, PassRecord, ConnObject, generateClusterConfig, Entry
  <1>2. ASSUME NEW es \in [ClusterIDs -> Entry]
        PROVE  updateClusterConfigs(es, pass.c, pass.obj) \in [ClusterIDs -> Entry]
    BY <1>1, NoEntryType DEF updateClusterConfigs
  <1>3. seenCM.entries \in [ClusterIDs -> Entry]
    BY DEF TypeOK, ConfigMapObject
  <1>4. updateClusterConfigs(seenCM.entries, pass.c, pass.obj) \in [ClusterIDs -> Entry]
    BY <1>2, <1>3
  <1>5. updatedConfigMap(pass.c, pass.obj) \in ConfigMapObject
    BY <1>4 DEF TypeOK, updatedConfigMap, ConfigMapObject
  <1>6. generateNewConfigMap(pass.c, pass.obj) \in ConfigMapObject
    BY <1>1, NoEntryType DEF generateNewConfigMap, ConfigMapObject
  <1> QED
    BY <1>5, <1>6

\* A write of a ConfigMap leaves a ConfigMap, whether it is accepted or not.
LEMMA WriteConfigMapType ==
    ASSUME TypeOK, NEW o, NEW legal, NEW new \in ConfigMapObject,
           WriteConfigMap(o, legal, new) \/ NoWriteConfigMap
    PROVE  cm' \in ConfigMapObject /\ lagCM' \in BOOLEAN
  BY DEF TypeOK, WriteConfigMap, NoWriteConfigMap

\* A write of a Secret leaves a Secret for each connection.
LEMMA WriteSecretType ==
    ASSUME TypeOK, NEW o, NEW legal, NEW new \in SecretObject,
           WriteSecret(o, legal, new) \/ NoWriteSecret
    PROVE  secret' \in [Conns -> SecretObject] /\ lagSecret' \subseteq Conns
  BY DEF TypeOK, WriteSecret, NoWriteSecret, PassRecord

\* A write of the controller's to a connection leaves a connection.
LEMMA WriteConnType ==
    ASSUME TypeOK, NEW o, NEW new \in ConnObject, WriteConn(o, new)
    PROVE  conn' \in [Conns -> ConnObject] /\ lagConn' \subseteq Conns
  BY DEF TypeOK, WriteConn, PassRecord

\* A write of a user's to a connection leaves a connection.
LEMMA UserWritesConnType ==
    ASSUME TypeOK, NEW c \in Conns, NEW new \in ConnObject, UserWritesConn(c, new),
           status' \in [Conns -> StatusObject]
    PROVE  TypeOK'
  <1>1. pass' \in PassRecord
    BY DEF TypeOK, UserWritesConn, PassRecord
  <1>2. conn' \in [Conns -> ConnObject] /\ lagConn' \subseteq Conns
    BY DEF TypeOK, UserWritesConn
  <1> QED
    BY <1>1, <1>2 DEF TypeOK, UserWritesConn

\* The controller starts with every variable of its type.
THEOREM TypeInitially == Init => TypeOK
  <1> SUFFICES ASSUME Init PROVE TypeOK
    OBVIOUS
  <1>1. conn \in [Conns -> ConnObject]
    BY GoneType, BoundsAssumption DEF Init
  <1>2. status \in [Conns -> StatusObject] /\ secret \in [Conns -> SecretObject]
    BY NoStatusType, NoSecretType DEF Init
  <1>3. faults \in 0..MaxFaults
    BY BoundsAssumption DEF Init
  <1> QED
    BY <1>1, <1>2, <1>3, NoConfigMapType, NoPassType DEF Init, TypeOK

\* Users keep the types.
LEMMA TypeStepUser == TypeOK /\ User => TypeOK'
  <1> SUFFICES ASSUME TypeOK, User PROVE TypeOK'
    OBVIOUS
  <1>1. CASE DeleteConfigMap
    <2>1. cm' \in ConfigMapObject
      BY <1>1, NoConfigMapType DEF TypeOK, DeleteConfigMap, ConfigMapObject
    <2> QED
      BY <1>1, <2>1, SpendType DEF TypeOK, DeleteConfigMap
  <1>2. CASE CorruptConfigMap
    <2>1. cm' \in ConfigMapObject
      BY <1>2, NoEntryType DEF TypeOK, CorruptConfigMap, ConfigMapObject
    <2> QED
      BY <1>2, <2>1, SpendType DEF TypeOK, CorruptConfigMap
  <1>3. ASSUME NEW c \in Conns, CreateConnection(c) PROVE TypeOK'
    <2>1. PICK s \in Specs : UserWritesConn(c, [phase |-> "live", life |-> conn[c].life + 1,
                                 gen |-> 1, spec |-> s, finalizer |-> FALSE])
      BY <1>3 DEF CreateConnection
    <2>2. [phase |-> "live", life |-> conn[c].life + 1, gen |-> 1, spec |-> s,
           finalizer |-> FALSE] \in ConnObject
      <3>1. conn[c].life + 1 \in 0..MaxLives
        BY <1>3, BoundsAssumption DEF TypeOK, CreateConnection, ConnObject
      <3>2. 1 \in 0..MaxGen
        BY BoundsAssumption
      <3> QED
        BY <3>1, <3>2 DEF ConnObject
    <2> QED
      BY <1>3, <2>1, <2>2, UserWritesConnType DEF TypeOK, CreateConnection
  <1>4. ASSUME NEW c \in Conns, EditConnection(c) PROVE TypeOK'
    <2>1. PICK s \in Specs : UserWritesConn(c, [conn[c] EXCEPT !.gen = @ + 1, !.spec = s])
      BY <1>4 DEF EditConnection
    <2>2. conn[c].gen + 1 \in 0..MaxGen
      BY <1>4, BoundsAssumption DEF TypeOK, EditConnection, ConnObject
    <2>3. [conn[c] EXCEPT !.gen = @ + 1, !.spec = s] \in ConnObject
      BY <2>2, ZenonT(40) DEF TypeOK, ConnObject
    <2> QED
      BY <1>4, <2>1, <2>3, UserWritesConnType DEF TypeOK, EditConnection
  <1>5. ASSUME NEW c \in Conns, DeleteConnection(c) PROVE TypeOK'
    <2>1. CASE conn[c].finalizer
      <3>1. [conn[c] EXCEPT !.phase = "deleting"] \in ConnObject
        BY ZenonT(40) DEF TypeOK, ConnObject
      <3> QED
        BY <1>5, <2>1, <3>1, UserWritesConnType DEF TypeOK, DeleteConnection
    <2>2. CASE ~conn[c].finalizer
      <3>1. Gone(conn[c].life) \in ConnObject
        BY GoneType DEF TypeOK, ConnObject
      <3>2. status' \in [Conns -> StatusObject]
        BY <1>5, <2>2, NoStatusType DEF TypeOK, DeleteConnection
      <3> QED
        BY <1>5, <2>2, <3>1, <3>2, UserWritesConnType DEF DeleteConnection
    <2> QED
      BY <2>1, <2>2
  <1>6. ASSUME NEW c \in Conns, DeleteSecret(c) PROVE TypeOK'
    <2>1. secret' \in [Conns -> SecretObject]
      BY <1>6, NoSecretType DEF TypeOK, DeleteSecret, SecretObject
    <2> QED
      BY <1>6, <2>1, SpendType DEF TypeOK, DeleteSecret
  <1> QED
    BY <1>1, <1>2, <1>3, <1>4, <1>5, <1>6 DEF User

\* The informer cache keeps the types.
LEMMA TypeStepSync == TypeOK /\ Sync => TypeOK'
  BY DEF TypeOK, Sync, SyncConfigMap, SyncConnection, SyncSecret, server

\* The start of a pass keeps the types.
LEMMA TypeStepStart == \A c \in Conns : TypeOK /\ StartReconcile(c) => TypeOK'
  <1> SUFFICES ASSUME NEW c \in Conns, TypeOK, StartReconcile(c) PROVE TypeOK'
    OBVIOUS
  <1>0. seenConn[c] \in ConnObject
    BY DEF TypeOK
  <1>1. pass' \in PassRecord
    <2>1. CASE seenConn[c].phase = "absent"
      BY <2>1 DEF TypeOK, StartReconcile
    <2>2. CASE seenConn[c].phase # "absent"
      <3>1. \E st \in PassSteps, cur \in BOOLEAN, bad \in BOOLEAN :
               pass' = [step |-> st, c |-> c, obj |-> seenConn[c], current |-> cur,
                        failed |-> bad, requeue |-> FALSE]
        BY <2>2 DEF StartReconcile, PassSteps
      <3> QED
        BY <1>0, <3>1 DEF PassRecord
    <2> QED
      BY <2>1, <2>2
  <1> QED
    BY <1>1 DEF TypeOK, StartReconcile, server, informer

\* Each call of a pass keeps the types.
LEMMA TypeStepWork == TypeOK /\ Work => TypeOK'
  <1> SUFFICES ASSUME TypeOK, Work PROVE TypeOK'
    OBVIOUS
  <1>0. pass \in PassRecord /\ pass.c \in Conns /\ pass.obj \in ConnObject
    BY DEF TypeOK, PassRecord
  <1>1. ASSUME NEW o \in Outcomes, addFinalizerIfNotExists(o) PROVE TypeOK'
    <2> DEFINE claimed == [pass.obj EXCEPT !.finalizer = TRUE]
    <2>1. claimed \in ConnObject
      BY <1>0 DEF ConnObject
    <2>2. conn' \in [Conns -> ConnObject] /\ lagConn' \subseteq Conns
      BY <1>1, <2>1, WriteConnType DEF TypeOK, addFinalizerIfNotExists
    <2>3. pass' \in PassRecord
      BY <1>0, <1>1, <2>1 DEF addFinalizerIfNotExists, Goto, Fail, PassRecord, PassSteps
    <2>4. faults' \in 0..MaxFaults
      BY <1>1, SpendType DEF TypeOK, addFinalizerIfNotExists
    <2> QED
      BY <1>1, <2>2, <2>3, <2>4 DEF TypeOK, addFinalizerIfNotExists
  <1>2. ASSUME NEW o \in Outcomes, reconcileConfigMap(o) PROVE TypeOK'
    <2>1. cm' \in ConfigMapObject /\ lagCM' \in BOOLEAN
      BY <1>2, ConfigMapWrites, NoConfigMapType, WriteConfigMapType DEF reconcileConfigMap
    <2>2. pass' \in PassRecord
      BY <1>0, <1>2 DEF reconcileConfigMap, Proceed, Goto, Fail, PassRecord, PassSteps
    <2>3. faults' \in 0..MaxFaults
      BY <1>2, SpendType DEF TypeOK, reconcileConfigMap
    <2> QED
      BY <1>2, <2>1, <2>2, <2>3 DEF TypeOK, reconcileConfigMap
  <1>3. ASSUME NEW o \in Outcomes, reconcileSecret(o) PROVE TypeOK'
    <2>1. secret' \in [Conns -> SecretObject] /\ lagSecret' \subseteq Conns
      <3>1. generateNewSecret(pass.obj) \in SecretObject
        BY <1>0 DEF generateNewSecret, SecretObject, ConnObject
      <3>2. [seenSecret[pass.c] EXCEPT !.managed = TRUE, !.spec = pass.obj.spec] \in SecretObject
        <4>1. seenSecret[pass.c] \in SecretObject /\ pass.obj.spec \in Specs \cup {NoSpec}
          BY <1>0 DEF TypeOK, ConnObject
        <4> QED
          BY <4>1 DEF SecretObject
      <3>3. [seenSecret[pass.c] EXCEPT !.managed = FALSE] \in SecretObject
        <4>1. seenSecret[pass.c] \in SecretObject
          BY <1>0 DEF TypeOK
        <4> QED
          BY <4>1 DEF SecretObject
      <3>4. CASE reconcileLiveSecret(o)
        BY <3>1, <3>2, <3>4, WriteSecretType, NoSecretType DEF reconcileLiveSecret
      <3>5. CASE removeSecretFinalizer(o)
        BY <3>3, <3>5, WriteSecretType, NoSecretType DEF removeSecretFinalizer
      <3> QED
        BY <1>3, <3>4, <3>5 DEF reconcileSecret
    <2>2. pass' \in PassRecord
      BY <1>0, <1>3 DEF reconcileSecret, reconcileLiveSecret, removeSecretFinalizer,
         Proceed, Goto, Fail, PassRecord, PassSteps
    <2>3. faults' \in 0..MaxFaults
      BY <1>3, SpendType DEF TypeOK, reconcileSecret
    <2> QED
      BY <1>3, <2>1, <2>2, <2>3 DEF TypeOK, reconcileSecret
  <1>4. ASSUME NEW o \in Outcomes, deleteSecret(o) PROVE TypeOK'
    <2>1. [secret[pass.c] EXCEPT !.phase = "terminating"] \in SecretObject
      <3>1. secret[pass.c] \in SecretObject
        BY <1>0 DEF TypeOK
      <3> QED
        BY <3>1 DEF SecretObject
    <2>2. secret' \in [Conns -> SecretObject] /\ lagSecret' \subseteq Conns
      BY <1>4, <2>1, WriteSecretType, NoSecretType DEF deleteSecret
    <2>3. pass' \in PassRecord
      BY <1>0, <1>4 DEF deleteSecret, Proceed, Goto, Fail, PassRecord, PassSteps
    <2>4. faults' \in 0..MaxFaults
      BY <1>4, SpendType DEF TypeOK, deleteSecret
    <2> QED
      BY <1>4, <2>2, <2>3, <2>4 DEF TypeOK, deleteSecret
  <1>5. ASSUME NEW o \in Outcomes, removeFinalizerIfExists(o) PROVE TypeOK'
    <2>1. Gone(pass.obj.life) \in ConnObject
      BY <1>0, GoneType DEF ConnObject
    <2>2. conn' \in [Conns -> ConnObject] /\ lagConn' \subseteq Conns
      BY <1>5, <2>1, WriteConnType DEF TypeOK, removeFinalizerIfExists
    <2>3. status' \in [Conns -> StatusObject]
      BY <1>5, NoStatusType DEF TypeOK, removeFinalizerIfExists
    <2>4. pass' \in PassRecord
      BY <1>0, <1>5 DEF removeFinalizerIfExists, Proceed, Goto, Fail, PassRecord, PassSteps
    <2>5. faults' \in 0..MaxFaults
      BY <1>5, SpendType DEF TypeOK, removeFinalizerIfExists
    <2> QED
      BY <1>5, <2>2, <2>3, <2>4, <2>5 DEF TypeOK, removeFinalizerIfExists
  <1>6. ASSUME NEW o \in Outcomes, updateCephClusterConnectionStatus(o) PROVE TypeOK'
    <2>1. status' \in [Conns -> StatusObject]
      BY <1>0, <1>6 DEF TypeOK, updateCephClusterConnectionStatus, StatusObject, ConnObject
    <2>2. faults' \in 0..MaxFaults
      BY <1>6, SpendType DEF TypeOK, updateCephClusterConnectionStatus
    <2> QED
      BY <1>0, <1>6, <2>1, <2>2, NoPassType DEF TypeOK, updateCephClusterConnectionStatus
  <1> QED
    BY <1>1, <1>2, <1>3, <1>4, <1>5, <1>6 DEF Work

\* A restart and a standby keep the types.
LEMMA TypeStepReplicas == TypeOK /\ (CrashRestart \/ StandbyStart) => TypeOK'
  BY SpendType, NoConfigMapType, NoPassType
  DEF TypeOK, CrashRestart, StandbyStart, EnsureConfigMapExists

\* Every step keeps the types.
LEMMA TypeStep == TypeOK /\ [Next]_vars => TypeOK'
  <1> SUFFICES ASSUME TypeOK, [Next]_vars PROVE TypeOK'
    OBVIOUS
  <1>1. CASE UNCHANGED vars
    BY <1>1 DEF vars, TypeOK
  <1>2. CASE Next
    BY <1>2, TypeStepUser, TypeStepSync, TypeStepStart, TypeStepWork, TypeStepReplicas
    DEF Next
  <1> QED
    BY <1>1, <1>2

\* Every variable of the model stays what its comment says, in every behaviour.
THEOREM TypeCorrect == Spec => []TypeOK
  BY TypeInitially, TypeStep, PTL DEF Spec
-----------------------------------------------------------------------------
\* Teardown.  The invariant below is what makes NoOrphans inductive when the
\* cached copy a step reads is current.

Past == {"configmap", "secret", "deleteSecret", "release"}
Deleting == pass.obj.phase = "deleting"

\* The finalizer and the phase of a connection go together.
ConnShape ==
    \A c \in Conns : /\ conn[c].phase = "absent" => ~conn[c].finalizer
                     /\ conn[c].phase = "deleting" => conn[c].finalizer

\* The entry of a connection is in the place of the cluster its present life names; a
\* ConfigMap that does not exist has none.
CMShape ==
    /\ cm.phase = "absent" => cm.entries = NoEntries
    /\ \A c \in Conns, k \in ClusterIDs :
           cm.entries[k].owner = c => k = clusterIDOf(c, conn[c])

\* A cached copy that does not lag is the server's.
CacheShape ==
    /\ \A c \in Conns : /\ c \notin lagConn => seenConn[c] = conn[c]
                        /\ c \notin lagSecret => seenSecret[c] = secret[c]
    /\ ~lagCM => seenCM = cm

\* The pass holds the finalizer once it is past that step, a life does not end under a
\* finalizer, and nobody touches a connection that is being deleted but the pass itself.
PassShape ==
    /\ pass.step \in Past \cup {"finalizer"} => pass.obj.phase # "absent"
    /\ pass.step \in Past \cup {"finalizer"} /\ pass.current => conn[pass.c] = pass.obj
    /\ pass.step \in Past => pass.obj.finalizer
    /\ pass.step \in Past \cup {"finalizer"} /\ pass.obj.finalizer =>
           conn[pass.c].finalizer /\ conn[pass.c].life = pass.obj.life
    /\ pass.step \in Past \cup {"finalizer"} /\ Deleting => pass.current

\* What a teardown has done by the step it is at.
TeardownShape ==
    /\ pass.step \in {"deleteSecret", "release"} => Deleting
    /\ pass.step \in {"secret", "deleteSecret", "release"} /\ Deleting =>
          \A k \in ClusterIDs : cm.entries[k].owner # pass.c
    /\ pass.step = "deleteSecret" => ~secret[pass.c].managed
    /\ pass.step = "release" => secret[pass.c].phase = "absent"

\* A connection without the finalizer owns neither a Secret nor an entry.
Owned ==
    \A c \in Conns : ~conn[c].finalizer =>
        /\ secret[c].phase = "absent"
        /\ \A k \in ClusterIDs : cm.entries[k].owner # c

TeardownShapes ==
    ConnShape /\ CMShape /\ CacheShape /\ PassShape /\ TeardownShape /\ Owned

TeardownInv == TypeOK /\ TeardownShapes

\* The shapes hold at the start.
LEMMA TeardownInitially == Init => TeardownShapes
  <1> SUFFICES ASSUME Init PROVE TeardownShapes
    OBVIOUS
  <1>1. cm.entries = NoEntries /\ cm.phase = "live"
    BY DEF Init, EmptyConfigMap, NoConfigMap
  <1>2. \A k \in ClusterIDs : cm.entries[k].owner = NoOwner
    BY <1>1 DEF NoEntries, NoEntry
  <1>3. \A c \in Conns : conn[c].phase = "absent" /\ ~conn[c].finalizer
    BY DEF Init, Gone
  <1>4. \A c \in Conns : secret[c].phase = "absent"
    BY DEF Init, NoSecret
  <1>5. pass.step = "idle"
    BY DEF Init, NoPass
  <1>a. \A c \in Conns : c # NoOwner
    BY NamesAssumption DEF NoOwner
  <1>6. CMShape
    BY <1>1, <1>2, <1>a DEF CMShape
  <1>7. Owned
    BY <1>2, <1>4, <1>a DEF Owned
  <1>8. CacheShape
    BY DEF Init, CacheShape
  <1> QED
    BY <1>3, <1>5, <1>6, <1>7, <1>8 DEF TeardownShapes, ConnShape, PassShape, TeardownShape, Past

\* The clusterID of a connection changes with its life only.
LEMMA ClusterIDByLife ==
    \A c \in Conns, a \in ConnObject, b \in ConnObject :
        /\ clusterIDOf(c, a) \in ClusterIDs
        /\ a.life = b.life => clusterIDOf(c, a) = clusterIDOf(c, b)
  BY CidOfAssumption DEF clusterIDOf, ConnObject

\* A user's write to a connection leaves its finalizer as it was, and its life if it has
\* one.
LEMMA TeardownUserWritesConn ==
    ASSUME TypeOK, TeardownShapes, NEW c \in Conns, NEW new \in ConnObject,
           UserWritesConn(c, new), conn[c].phase # "deleting",
           new.finalizer = conn[c].finalizer,
           conn[c].finalizer => new.life = conn[c].life,
           new.phase = "absent" => ~new.finalizer,
           new.phase = "deleting" => new.finalizer
    PROVE  TeardownShapes'
  <1>0. conn' = [conn EXCEPT ![c] = new] /\ conn \in [Conns -> ConnObject]
    BY DEF TypeOK, UserWritesConn
  <1>a. \A d \in Conns : conn'[d].finalizer = conn[d].finalizer /\ (d # c => conn'[d] = conn[d])
    BY <1>0
  <1>b. pass \in PassRecord
    BY DEF TypeOK
  <1>c. /\ pass'.step = pass.step /\ pass'.c = pass.c /\ pass'.obj = pass.obj
        /\ pass'.current = IF pass.c = c THEN FALSE ELSE pass.current
    BY <1>b DEF UserWritesConn, PassRecord
  <1>1. ConnShape'
    BY <1>0 DEF TeardownShapes, ConnShape
  <1>2. CMShape'
    <2>1. conn'[c] = new /\ conn[c] \in ConnObject
      BY <1>0
    <2>2. cm' = cm
      BY DEF UserWritesConn
    <2>3. conn[c].finalizer => clusterIDOf(c, new) = clusterIDOf(c, conn[c])
      BY <2>1, ClusterIDByLife
    <2>4. ~conn[c].finalizer => \A k \in ClusterIDs : cm.entries[k].owner # c
      BY DEF TeardownShapes, Owned
    <2> QED
      BY <1>a, <2>1, <2>2, <2>3, <2>4 DEF TeardownShapes, CMShape
  <1>3. CacheShape'
    BY <1>a DEF TeardownShapes, CacheShape, UserWritesConn
  <1>4. PassShape'
    <2>1. pass.c \in Conns
      BY <1>b DEF PassRecord
    <2>2. pass.step \in Past \cup {"finalizer"} /\ pass.obj.phase = "deleting" => pass.c # c
      BY DEF TeardownShapes, PassShape, Deleting
    <2> QED
      BY <1>0, <1>a, <1>c, <2>1, <2>2 DEF TeardownShapes, PassShape, Past, Deleting
  <1>5. TeardownShape'
    BY <1>c DEF TeardownShapes, TeardownShape, UserWritesConn, Deleting
  <1>6. Owned'
    BY <1>a DEF TeardownShapes, Owned, UserWritesConn
  <1> QED
    BY <1>1, <1>2, <1>3, <1>4, <1>5, <1>6 DEF TeardownShapes

\* Users keep the shapes.
LEMMA TeardownStepUser ==
    ASSUME TypeOK, TeardownShapes, User
    PROVE  TeardownShapes'
  <1>1. CASE DeleteConfigMap
    <2>0. cm \in ConfigMapObject
      BY DEF TypeOK
    <2>1. \/ cm'.phase = "terminating" /\ cm'.entries = cm.entries
          \/ cm' = NoConfigMap
      BY <1>1, <2>0 DEF DeleteConfigMap, ConfigMapObject
    <2>2. \A k \in ClusterIDs : NoEntries[k].owner = NoOwner
      BY DEF NoEntries, NoEntry
    <2>3. NoConfigMap.phase = "absent" /\ NoConfigMap.entries = NoEntries
      BY DEF NoConfigMap
    <2>4. \A c \in Conns : c # NoOwner
      BY NamesAssumption DEF NoOwner
    <2>5. pass.c \in Conns
      BY DEF TypeOK, PassRecord
    <2> QED
      BY <1>1, <2>1, <2>2, <2>3, <2>4, <2>5 DEF DeleteConfigMap, TeardownShapes, ConnShape, CMShape,
         CacheShape, PassShape, TeardownShape, Owned, Deleting
  <1>2. CASE CorruptConfigMap
    <2>0. cm \in ConfigMapObject
      BY DEF TypeOK
    <2>1. cm'.phase = "live" /\ cm'.entries = NoEntries
      BY <1>2, <2>0 DEF CorruptConfigMap, ConfigMapObject
    <2>2. \A k \in ClusterIDs : NoEntries[k].owner = NoOwner
      BY DEF NoEntries, NoEntry
    <2>4. \A c \in Conns : c # NoOwner
      BY NamesAssumption DEF NoOwner
    <2>5. pass.c \in Conns
      BY DEF TypeOK, PassRecord
    <2> QED
      BY <1>2, <2>1, <2>2, <2>4, <2>5 DEF CorruptConfigMap, TeardownShapes, ConnShape, CMShape,
         CacheShape, PassShape, TeardownShape, Owned, Deleting
  <1>3. ASSUME NEW c \in Conns, CreateConnection(c) PROVE TeardownShapes'
    <2> DEFINE new(s) == [phase |-> "live", life |-> conn[c].life + 1, gen |-> 1,
                          spec |-> s, finalizer |-> FALSE]
    <2>1. PICK s \in Specs : UserWritesConn(c, new(s))
      BY <1>3 DEF CreateConnection
    <2>2. new(s) \in ConnObject
      <3>1. conn[c].life + 1 \in 0..MaxLives
        BY <1>3, BoundsAssumption DEF TypeOK, CreateConnection, ConnObject
      <3>2. 1 \in 0..MaxGen
        BY BoundsAssumption
      <3> QED
        BY <3>1, <3>2 DEF ConnObject
    <2>3. conn[c].phase = "absent" /\ conn[c].finalizer = FALSE
      <3>1. conn[c] \in ConnObject
        BY DEF TypeOK
      <3> QED
        BY <1>3, <3>1 DEF CreateConnection, TeardownShapes, ConnShape, ConnObject
    <2>4. new(s).phase = "live" /\ new(s).finalizer = FALSE
      OBVIOUS
    <2> HIDE DEF new
    <2> QED
      BY <2>1, <2>2, <2>3, <2>4, TeardownUserWritesConn
  <1>4. ASSUME NEW c \in Conns, EditConnection(c) PROVE TeardownShapes'
    <2> DEFINE new(s) == [conn[c] EXCEPT !.gen = @ + 1, !.spec = s]
    <2>1. PICK s \in Specs : UserWritesConn(c, new(s))
      BY <1>4 DEF EditConnection
    <2>2. conn[c] \in ConnObject
      BY DEF TypeOK
    <2>3. conn[c].gen + 1 \in 0..MaxGen
      BY <1>4, <2>2, BoundsAssumption DEF EditConnection, ConnObject
    <2>4. new(s) \in ConnObject
      BY <2>2, <2>3 DEF ConnObject
    <2>5. /\ conn[c].phase = "live" /\ new(s).phase = "live"
          /\ new(s).finalizer = conn[c].finalizer /\ new(s).life = conn[c].life
      BY <1>4, <2>2 DEF EditConnection, ConnObject
    <2> HIDE DEF new
    <2> QED
      BY <2>1, <2>4, <2>5, TeardownUserWritesConn
  <1>5. ASSUME NEW c \in Conns, DeleteConnection(c) PROVE TeardownShapes'
    <2>0. conn[c] \in ConnObject /\ conn[c].phase = "live"
      BY <1>5 DEF TypeOK, DeleteConnection
    <2>1. CASE conn[c].finalizer
      <3> DEFINE new == [conn[c] EXCEPT !.phase = "deleting"]
      <3>1. /\ new \in ConnObject /\ new.phase = "deleting"
            /\ new.finalizer = conn[c].finalizer /\ new.life = conn[c].life
        BY <2>0 DEF ConnObject
      <3>2. UserWritesConn(c, new)
        BY <1>5, <2>1 DEF DeleteConnection
      <3> HIDE DEF new
      <3> QED
        BY <2>0, <2>1, <3>1, <3>2, TeardownUserWritesConn
    <2>2. CASE ~conn[c].finalizer
      <3>1. /\ Gone(conn[c].life) \in ConnObject
            /\ Gone(conn[c].life).phase = "absent"
            /\ Gone(conn[c].life).finalizer = conn[c].finalizer
            /\ Gone(conn[c].life).life = conn[c].life
        BY <2>0, <2>2, GoneType DEF Gone, ConnObject
      <3>2. UserWritesConn(c, Gone(conn[c].life))
        BY <1>5, <2>2 DEF DeleteConnection
      <3> QED
        BY <2>0, <2>2, <3>1, <3>2, TeardownUserWritesConn
    <2> QED
      BY <2>1, <2>2
  <1>6. ASSUME NEW c \in Conns, DeleteSecret(c) PROVE TeardownShapes'
    <2>0. secret[c] \in SecretObject /\ secret \in [Conns -> SecretObject] /\ pass.c \in Conns
      BY DEF TypeOK, PassRecord
    <2>1. /\ secret[c].phase = "live"
          /\ \A d \in Conns : d # c => secret'[d] = secret[d]
          /\ secret[c].managed \/ secret'[c] = NoSecret
      BY <1>6, <2>0 DEF DeleteSecret
    <2>2. NoSecret.managed = FALSE /\ NoSecret.phase = "absent"
      BY DEF NoSecret
    <2> QED
      BY <1>6, <2>0, <2>1, <2>2 DEF DeleteSecret, TeardownShapes, ConnShape, CMShape,
         CacheShape, PassShape, TeardownShape, Owned, Deleting
  <1> QED
    BY <1>1, <1>2, <1>3, <1>4, <1>5, <1>6 DEF User

\* The informer cache keeps the shapes.
LEMMA TeardownStepSync ==
    ASSUME TypeOK, TeardownShapes, Sync
    PROVE  TeardownShapes'
  BY DEF TypeOK, TeardownShapes, ConnShape, CMShape, CacheShape, PassShape, TeardownShape,
     Owned, Deleting, Sync, SyncConfigMap, SyncConnection, SyncSecret, server

\* A restart and a standby keep the shapes.
LEMMA TeardownStepReplicas ==
    ASSUME TypeOK, TeardownShapes, CrashRestart \/ StandbyStart
    PROVE  TeardownShapes'
  <1>1. EmptyConfigMap.phase = "live" /\ EmptyConfigMap.entries = NoEntries
    BY DEF EmptyConfigMap, NoConfigMap
  <1>2. /\ cm'.entries = cm.entries
        /\ cm'.phase # "absent"
    BY <1>1 DEF CrashRestart, StandbyStart, EnsureConfigMapExists, TeardownShapes, CMShape
  <1>3. NoPass.step = "idle"
    BY DEF NoPass
  <1>4. ConnShape' /\ Owned'
    BY <1>2 DEF CrashRestart, StandbyStart, TeardownShapes, ConnShape, Owned
  <1>5. CMShape'
    BY <1>2 DEF CrashRestart, StandbyStart, TeardownShapes, CMShape
  <1>6. CacheShape'
    BY DEF CrashRestart, StandbyStart, TeardownShapes, CacheShape
  <1>7. PassShape' /\ TeardownShape'
    BY <1>2, <1>3 DEF CrashRestart, StandbyStart, TeardownShapes, PassShape, TeardownShape,
       Deleting, Past
  <1> QED
    BY <1>4, <1>5, <1>6, <1>7 DEF TeardownShapes

\* The start of a pass keeps the shapes.
LEMMA TeardownStepStart ==
    ASSUME StaleReads = FALSE, TypeOK, TeardownShapes, NEW c \in Conns, StartReconcile(c)
    PROVE  TeardownShapes'
  <1>1. CASE seenConn[c].phase = "absent"
    BY <1>1 DEF StartReconcile, TeardownShapes, ConnShape, CMShape, CacheShape, PassShape,
       TeardownShape, Owned, Deleting, server, informer
  <1>2. CASE seenConn[c].phase # "absent"
    <2>1. /\ pass'.step \in {"finalizer", "publish"} /\ pass'.c = c
          /\ pass'.obj = seenConn[c] /\ pass'.current = (c \notin lagConn)
      BY <1>2 DEF StartReconcile
    <2>2. c \notin lagConn /\ seenConn[c] = conn[c]
      BY DEF StartReconcile, Fresh, TeardownShapes, CacheShape
    <2>3. PassShape'
      BY <1>2, <2>1, <2>2 DEF PassShape, Past, Deleting, StartReconcile, server
    <2>4. TeardownShape'
      BY <2>1 DEF TeardownShape
    <2> QED
      BY <2>3, <2>4 DEF StartReconcile, TeardownShapes, ConnShape, CMShape, CacheShape,
         Owned, server, informer
  <1> QED
    BY <1>1, <1>2

\* The shapes are NoOrphans, and more.
LEMMA NothingOwned == TeardownInv => NoOrphans
  BY DEF TeardownInv, TeardownShapes, Owned, CMShape, NoOrphans, EntryOwners

\* Putting the finalizer on a connection keeps the shapes.
LEMMA TeardownStepFinalizer ==
    ASSUME TypeOK, TeardownShapes, NEW o, addFinalizerIfNotExists(o)
    PROVE  TeardownShapes'
  <1> DEFINE c == pass.c
  <1>0. /\ pass \in PassRecord /\ c \in Conns /\ pass.obj \in ConnObject
        /\ conn \in [Conns -> ConnObject]
    BY DEF TypeOK, PassRecord
  <1>1. CASE pass.obj.finalizer
    <2>1. pass' = [pass EXCEPT !.step = "configmap"] /\ conn' = conn /\ lagConn' = lagConn
      BY <1>1 DEF addFinalizerIfNotExists, Goto
    <2>2. pass'.step = "configmap" /\ pass'.c = c /\ pass'.obj = pass.obj
          /\ pass'.current = pass.current
      BY <1>0, <2>1 DEF PassRecord
    <2>3. conn[c].finalizer
      BY <1>1 DEF addFinalizerIfNotExists, TeardownShapes, PassShape
    <2> QED
      BY <1>1, <2>1, <2>2, <2>3 DEF addFinalizerIfNotExists, TeardownShapes, ConnShape, CMShape,
         CacheShape, PassShape, TeardownShape, Owned, Deleting, Past
  <1>2. CASE ~pass.obj.finalizer
    <2> DEFINE claimed == [pass.obj EXCEPT !.finalizer = TRUE]
    <2>1. /\ claimed \in ConnObject /\ claimed.life = pass.obj.life
          /\ claimed.phase = pass.obj.phase /\ claimed.finalizer = TRUE
          /\ pass.obj.phase # "absent"
      BY <1>0 DEF ConnObject, TeardownShapes, PassShape, addFinalizerIfNotExists
    <2>2. \/ conn' = conn /\ lagConn' = lagConn
          \/ /\ conn' = [conn EXCEPT ![c] = claimed] /\ lagConn' = lagConn \cup {c}
             /\ conn[c] = pass.obj
      BY <1>2 DEF addFinalizerIfNotExists, WriteConn, TeardownShapes, PassShape
    <2>3. \/ pass'.step = "publish"
          \/ /\ pass'.step = "configmap" /\ pass'.c = c /\ pass'.obj = claimed
             /\ pass'.current = pass.current /\ pass.current /\ conn'[c] = claimed
      BY <1>0, <1>2 DEF addFinalizerIfNotExists, Fail, WriteConn, PassRecord
    <2> HIDE DEF claimed
    <2>4. ConnShape' /\ Owned' /\ CacheShape'
      BY <1>0, <2>1, <2>2 DEF addFinalizerIfNotExists, TeardownShapes, ConnShape, Owned, CacheShape
    <2>5. PassShape' /\ TeardownShape'
      BY <2>1, <2>3 DEF PassShape, TeardownShape, Past, Deleting
    <2>6. CMShape'
      <3>1. clusterIDOf(c, claimed) = clusterIDOf(c, pass.obj)
        BY <1>0, <2>1, ClusterIDByLife
      <3> QED
        BY <1>0, <2>2, <3>1 DEF addFinalizerIfNotExists, TeardownShapes, CMShape
    <2> QED
      BY <2>4, <2>5, <2>6 DEF TeardownShapes
  <1> QED
    BY <1>1, <1>2

\* The ConfigMap half of a pass keeps the shapes.
LEMMA TeardownStepConfigMap ==
    ASSUME StaleReads = FALSE, TypeOK, TeardownShapes, NEW o, reconcileConfigMap(o)
    PROVE  TeardownShapes'
  <1> DEFINE c == pass.c
             k == clusterIDOf(c, pass.obj)
  <1>0. /\ pass \in PassRecord /\ c \in Conns /\ k \in ClusterIDs /\ cm \in ConfigMapObject
        /\ pass.step = "configmap" /\ pass.obj \in ConnObject /\ conn[c] \in ConnObject
        /\ ~lagCM /\ seenCM = cm /\ c # NoOwner
    BY ClusterIDByLife, NamesAssumption
    DEF TypeOK, PassRecord, reconcileConfigMap, Fresh, TeardownShapes, CacheShape, NoOwner
  <1>1. conn[c].finalizer /\ k = clusterIDOf(c, conn[c])
    BY <1>0, ClusterIDByLife DEF TeardownShapes, PassShape, Past
  <1> HIDE DEF k
  <1>2. \/ pass'.step = "publish"
        \/ /\ pass'.step = "secret" /\ pass'.c = c /\ pass'.obj = pass.obj
           /\ pass'.current = pass.current
    BY <1>0 DEF reconcileConfigMap, Proceed, Goto, Fail, PassRecord
  <1>3. NoEntries \in [ClusterIDs -> Entry] /\ \A j \in ClusterIDs : NoEntries[j] = NoEntry
    BY NoEntryType DEF NoEntries
  <1>4. NoEntry.owner = NoOwner /\ generateClusterConfig(c, pass.obj).owner = c
    BY DEF NoEntry, generateClusterConfig
  \* What becomes of the list: unchanged, emptied, or changed at this cluster's key.
  <1> DEFINE mine(es) == [es EXCEPT ![k] = IF Deleting THEN NoEntry
                                           ELSE generateClusterConfig(c, pass.obj)]
  <1>5. \/ UNCHANGED <<cm, lagCM>>
        \/ lagCM' /\ cm' = NoConfigMap
        \/ lagCM' /\ cm'.phase = "live" /\ cm'.entries = mine(cm.entries)
        \/ lagCM' /\ cm'.phase = "live" /\ ~Deleting /\ cm'.entries = mine(NoEntries)
    <2>1. updatedConfigMap(c, pass.obj).entries = mine(cm.entries)
          /\ (cm.phase = "live" => updatedConfigMap(c, pass.obj).phase = "live")
      BY <1>0 DEF updatedConfigMap, updateClusterConfigs, ConfigMapObject, Deleting, k
    <2>2. ~Deleting => generateNewConfigMap(c, pass.obj).entries = mine(NoEntries)
                       /\ generateNewConfigMap(c, pass.obj).phase = "live"
      BY DEF generateNewConfigMap, k
    <2> HIDE DEF mine
    <2> QED
      BY <1>0, <2>1, <2>2 DEF reconcileConfigMap, WriteConfigMap, NoWriteConfigMap, Deleting
  <1>6. \A j \in ClusterIDs :
            \/ cm'.entries[j].owner = cm.entries[j].owner
            \/ cm'.entries[j].owner = NoOwner
            \/ j = k /\ cm'.entries[j].owner = c
    <2>1. ASSUME NEW es \in [ClusterIDs -> Entry], NEW j \in ClusterIDs
          PROVE  mine(es)[j] = es[j] \/ (j = k /\ mine(es)[j].owner \in {NoOwner, c})
      BY <1>4
    <2>2. cm.entries \in [ClusterIDs -> Entry]
      BY <1>0 DEF ConfigMapObject
    <2> HIDE DEF mine
    <2> QED
      BY <1>3, <1>4, <1>5, <2>1, <2>2 DEF NoConfigMap
  <1>7. pass'.step = "secret" /\ Deleting => \A j \in ClusterIDs : cm'.entries[j].owner # c
    <2>1. pass'.step = "secret" /\ Deleting =>
            \/ cm.phase = "absent" /\ UNCHANGED cm
            \/ updatedConfigMap(c, pass.obj) = cm /\ UNCHANGED cm
            \/ cm' = updatedConfigMap(c, pass.obj)
      BY <1>0 DEF reconcileConfigMap, WriteConfigMap, NoWriteConfigMap, Deleting, Fail, Proceed,
         PassRecord
    <2>2. Deleting => updatedConfigMap(c, pass.obj).entries[k] = NoEntry
      BY <1>0 DEF updatedConfigMap, updateClusterConfigs, ConfigMapObject, Deleting, k
    <2>3. cm.phase = "absent" => cm.entries[k].owner = NoOwner
      BY <1>0, <1>3, <1>4 DEF TeardownShapes, CMShape
    <2>4. pass'.step = "secret" /\ Deleting => cm'.entries[k].owner # c
      BY <1>0, <1>4, <2>1, <2>2, <2>3
    <2>5. \A j \in ClusterIDs : cm.entries[j].owner = c => j = k
      BY <1>0, <1>1 DEF TeardownShapes, CMShape
    <2> QED
      BY <1>0, <1>6, <2>4, <2>5
  <1> HIDE DEF mine
  <1>8. CMShape'
    <2>1. cm'.phase = "absent" => cm'.entries = NoEntries
      BY <1>5 DEF TeardownShapes, CMShape, NoConfigMap
    <2>2. \A d \in Conns : d # NoOwner
      BY NamesAssumption DEF NoOwner
    <2>3. conn' = conn
      BY DEF reconcileConfigMap
    <2> QED
      BY <1>0, <1>1, <1>6, <2>1, <2>2, <2>3 DEF TeardownShapes, CMShape
  <1>9. Owned'
    <2>1. \A d \in Conns : d # NoOwner
      BY NamesAssumption DEF NoOwner
    <2> QED
      BY <1>0, <1>1, <1>6, <2>1 DEF reconcileConfigMap, TeardownShapes, Owned
  <1>10. ConnShape' /\ CacheShape'
    BY <1>5 DEF reconcileConfigMap, TeardownShapes, ConnShape, CacheShape
  <1>11. PassShape' /\ TeardownShape'
    BY <1>0, <1>2, <1>7 DEF reconcileConfigMap, TeardownShapes, PassShape, TeardownShape, Past,
       Deleting
  <1> QED
    BY <1>8, <1>9, <1>10, <1>11 DEF TeardownShapes

\* The Secret half of a pass keeps the shapes.
LEMMA TeardownStepSecret ==
    ASSUME StaleReads = FALSE, TypeOK, TeardownShapes, NEW o, reconcileSecret(o)
    PROVE  TeardownShapes'
  <1> DEFINE c == pass.c
  <1>0. /\ pass \in PassRecord /\ c \in Conns
        /\ secret \in [Conns -> SecretObject] /\ secret[c] \in SecretObject
        /\ pass.step = "secret" /\ seenSecret[c] = secret[c] /\ c \notin lagSecret
    BY DEF TypeOK, PassRecord, reconcileSecret, Fresh, TeardownShapes, CacheShape
  <1>1. conn[c].finalizer
    BY <1>0 DEF TeardownShapes, PassShape, Past
  <1>2. /\ pass'.step # "publish" =>
             /\ pass'.step \in {"deleteSecret", "release"}
             /\ pass'.c = c /\ pass'.obj = pass.obj /\ pass'.current = pass.current
             /\ Deleting
    BY <1>0 DEF reconcileSecret, reconcileLiveSecret, removeSecretFinalizer, Proceed, Goto, Fail,
       PassRecord, Deleting
  <1>3. /\ \A d \in Conns : d # c => secret'[d] = secret[d]
        /\ (UNCHANGED <<secret, lagSecret>>) \/ (lagSecret' = lagSecret \cup {c})
    BY <1>0 DEF reconcileSecret, reconcileLiveSecret, removeSecretFinalizer, WriteSecret,
       NoWriteSecret
  <1>4. pass'.step = "deleteSecret" => ~secret'[c].managed
    <2>1. NoSecret.managed = FALSE /\ [secret[c] EXCEPT !.managed = FALSE].managed = FALSE
      BY <1>0 DEF NoSecret, SecretObject
    <2> QED
      BY <1>0, <2>1 DEF reconcileSecret, reconcileLiveSecret, removeSecretFinalizer, WriteSecret,
         NoWriteSecret, Proceed, Goto, Fail, PassRecord
  <1>5. pass'.step = "release" => secret'[c].phase = "absent"
    BY <1>0 DEF reconcileSecret, reconcileLiveSecret, removeSecretFinalizer, WriteSecret,
       NoWriteSecret, Proceed, Goto, Fail, PassRecord
  <1>6. ConnShape' /\ CMShape' /\ CacheShape'
    BY <1>0, <1>3 DEF reconcileSecret, TeardownShapes, ConnShape, CMShape, CacheShape
  <1>7. Owned'
    BY <1>1, <1>3 DEF reconcileSecret, TeardownShapes, Owned
  <1>8. PassShape'
    BY <1>0, <1>2 DEF reconcileSecret, TeardownShapes, PassShape, Past, Deleting
  <1>9. TeardownShape'
    BY <1>0, <1>2, <1>4, <1>5 DEF reconcileSecret, TeardownShapes, TeardownShape, Deleting
  <1> QED
    BY <1>6, <1>7, <1>8, <1>9 DEF TeardownShapes

\* The deletion of the Secret keeps the shapes.
LEMMA TeardownStepDeleteSecret ==
    ASSUME TypeOK, TeardownShapes, NEW o, deleteSecret(o)
    PROVE  TeardownShapes'
  <1> DEFINE c == pass.c
  <1>0. /\ pass \in PassRecord /\ c \in Conns
        /\ secret \in [Conns -> SecretObject] /\ secret[c] \in SecretObject
        /\ pass.step = "deleteSecret" /\ ~secret[c].managed
    BY DEF TypeOK, PassRecord, deleteSecret, TeardownShapes, TeardownShape
  <1>1. conn[c].finalizer
    BY <1>0 DEF TeardownShapes, PassShape, Past
  <1>2. pass'.step # "publish" =>
             /\ pass'.step = "release" /\ secret'[c] = NoSecret
             /\ pass'.c = c /\ pass'.obj = pass.obj /\ pass'.current = pass.current
    BY <1>0 DEF deleteSecret, WriteSecret, Proceed, Goto, Fail, PassRecord
  <1>3. /\ \A d \in Conns : d # c => secret'[d] = secret[d]
        /\ (UNCHANGED <<secret, lagSecret>>) \/ (lagSecret' = lagSecret \cup {c})
    BY <1>0 DEF deleteSecret, WriteSecret
  <1>4. NoSecret.phase = "absent"
    BY DEF NoSecret
  <1>5. ConnShape' /\ CMShape' /\ CacheShape'
    BY <1>0, <1>3 DEF deleteSecret, TeardownShapes, ConnShape, CMShape, CacheShape
  <1>6. Owned'
    BY <1>1, <1>3 DEF deleteSecret, TeardownShapes, Owned
  <1>7. PassShape' /\ TeardownShape'
    BY <1>0, <1>2, <1>4 DEF deleteSecret, TeardownShapes, PassShape, TeardownShape, Past, Deleting
  <1> QED
    BY <1>5, <1>6, <1>7 DEF TeardownShapes

\* Taking the finalizer off a connection keeps the shapes.
LEMMA TeardownStepRelease ==
    ASSUME TypeOK, TeardownShapes, NEW o, removeFinalizerIfExists(o)
    PROVE  TeardownShapes'
  <1> DEFINE c == pass.c
  <1>0. /\ pass \in PassRecord /\ c \in Conns /\ conn \in [Conns -> ConnObject]
        /\ pass.step = "release"
    BY DEF TypeOK, PassRecord, removeFinalizerIfExists
  <1>1. /\ secret[c].phase = "absent" /\ \A k \in ClusterIDs : cm.entries[k].owner # c
    BY <1>0 DEF TeardownShapes, TeardownShape
  <1>2. pass'.step = "publish"
    BY <1>0 DEF removeFinalizerIfExists, Proceed, Goto, Fail, PassRecord
  <1>3. Gone(pass.obj.life).phase = "absent" /\ Gone(pass.obj.life).finalizer = FALSE
    BY DEF Gone
  <1>4. \/ UNCHANGED <<conn, lagConn>>
        \/ conn' = [conn EXCEPT ![c] = Gone(pass.obj.life)] /\ lagConn' = lagConn \cup {c}
    BY DEF removeFinalizerIfExists, WriteConn
  <1>5. ConnShape' /\ Owned' /\ CacheShape' /\ CMShape'
    BY <1>0, <1>1, <1>3, <1>4
    DEF removeFinalizerIfExists, TeardownShapes, ConnShape, Owned, CacheShape, CMShape
  <1>6. PassShape' /\ TeardownShape'
    BY <1>2 DEF PassShape, TeardownShape, Past
  <1> QED
    BY <1>5, <1>6 DEF TeardownShapes

\* The write of the status keeps the shapes.
LEMMA TeardownStepStatus ==
    ASSUME TypeOK, TeardownShapes, NEW o, updateCephClusterConnectionStatus(o)
    PROVE  TeardownShapes'
  <1>1. pass'.step = "idle"
    BY DEF updateCephClusterConnectionStatus, NoPass
  <1>2. lagConn \subseteq lagConn'
    BY DEF updateCephClusterConnectionStatus
  <1>3. PassShape' /\ TeardownShape'
    BY <1>1 DEF PassShape, TeardownShape, Past
  <1> QED
    BY <1>2, <1>3 DEF updateCephClusterConnectionStatus, TeardownShapes, ConnShape, CMShape,
       CacheShape, Owned

\* Every step keeps the shapes.
LEMMA TeardownStep ==
    ASSUME StaleReads = FALSE, TeardownInv, [Next]_vars
    PROVE  TeardownInv'
  <1>1. TypeOK /\ TeardownShapes
    BY DEF TeardownInv
  <1>2. TypeOK'
    BY <1>1, TypeStep
  <1>3. CASE UNCHANGED vars
    BY <1>1, <1>2, <1>3 DEF vars, TeardownInv, TeardownShapes, ConnShape, CMShape, CacheShape,
       PassShape, TeardownShape, Owned, Deleting
  <1>4. CASE User \/ Sync \/ CrashRestart \/ StandbyStart
    BY <1>1, <1>2, <1>4, TeardownStepUser, TeardownStepSync, TeardownStepReplicas DEF TeardownInv
  <1>5. CASE \E c \in Conns : StartReconcile(c)
    BY <1>1, <1>2, <1>5, TeardownStepStart DEF TeardownInv
  <1>6. CASE Work
    BY <1>1, <1>2, <1>6, TeardownStepFinalizer, TeardownStepConfigMap, TeardownStepSecret,
       TeardownStepDeleteSecret, TeardownStepRelease, TeardownStepStatus DEF Work, TeardownInv
  <1> QED
    BY <1>3, <1>4, <1>5, <1>6 DEF Next

\* Provided the cached copies a pass reads are current, nothing of a connection
\* exists without its finalizer: for every number of connections, however they
\* share clusterIDs, with any number of crashes, failed calls and acts of
\* tampering.
THEOREM TeardownComplete ==
    ASSUME StaleReads = FALSE
    PROVE  Spec => []NoOrphans
  <1>1. Init => TeardownInv
    BY TypeInitially, TeardownInitially DEF TeardownInv
  <1>2. TeardownInv /\ [Next]_vars => TeardownInv'
    BY TeardownStep
  <1>3. TeardownInv => NoOrphans
    BY NothingOwned
  <1> QED
    BY <1>1, <1>2, <1>3, PTL DEF Spec
-----------------------------------------------------------------------------
\* Refinement of FinalizerGuard.

\* Only two calls of the controller change whether a finalizer is there.
LEMMA FinalizerKept ==
    ASSUME TeardownInv, [Next]_vars,
           \A o \in Outcomes : ~addFinalizerIfNotExists(o) /\ ~removeFinalizerIfExists(o)
    PROVE  \A c \in Conns : conn'[c].finalizer = conn[c].finalizer
  <1>0. conn \in [Conns -> ConnObject] /\ ConnShape
    BY DEF TeardownInv, TypeOK, TeardownShapes
  <1>1. ASSUME NEW c \in Conns, CreateConnection(c)
        PROVE  \A d \in Conns : conn'[d].finalizer = conn[d].finalizer
    <2>1. PICK s \in Specs : UserWritesConn(c, [phase |-> "live", life |-> conn[c].life + 1,
                                 gen |-> 1, spec |-> s, finalizer |-> FALSE])
      BY <1>1 DEF CreateConnection
    <2>2. conn[c].finalizer = FALSE
      <3>1. conn[c] \in ConnObject
        BY <1>0
      <3> QED
        BY <1>0, <1>1, <3>1 DEF ConnShape, CreateConnection, ConnObject
    <2> QED
      BY <1>0, <2>1, <2>2 DEF UserWritesConn
  <1>2. ASSUME NEW c \in Conns, EditConnection(c)
        PROVE  \A d \in Conns : conn'[d].finalizer = conn[d].finalizer
    <2>1. PICK s \in Specs : UserWritesConn(c, [conn[c] EXCEPT !.gen = @ + 1, !.spec = s])
      BY <1>2 DEF EditConnection
    <2>2. [conn[c] EXCEPT !.gen = @ + 1, !.spec = s].finalizer = conn[c].finalizer
      BY <1>0 DEF ConnObject
    <2> QED
      BY <1>0, <2>1, <2>2 DEF UserWritesConn
  <1>3. ASSUME NEW c \in Conns, DeleteConnection(c)
        PROVE  \A d \in Conns : conn'[d].finalizer = conn[d].finalizer
    <2>1. conn[c] \in ConnObject
      BY <1>0
    <2>2. [conn[c] EXCEPT !.phase = "deleting"].finalizer = conn[c].finalizer
      BY <2>1 DEF ConnObject
    <2>3. ~conn[c].finalizer => Gone(conn[c].life).finalizer = conn[c].finalizer
      BY <2>1 DEF Gone, ConnObject
    <2> QED
      BY <1>0, <1>3, <2>2, <2>3 DEF DeleteConnection, UserWritesConn
  <1>4. CASE \/ DeleteConfigMap \/ CorruptConfigMap \/ \E c \in Conns : DeleteSecret(c)
    BY <1>4 DEF DeleteConfigMap, CorruptConfigMap, DeleteSecret
  <1>5. CASE Sync \/ (\E c \in Conns : StartReconcile(c)) \/ CrashRestart \/ StandbyStart
    BY <1>5 DEF Sync, SyncConfigMap, SyncConnection, SyncSecret, StartReconcile, CrashRestart,
       StandbyStart, server
  <1>6. CASE Work
    BY <1>6 DEF Work, reconcileConfigMap, reconcileSecret, deleteSecret,
       updateCephClusterConnectionStatus
  <1>7. CASE UNCHANGED vars
    BY <1>7 DEF vars
  <1> QED
    BY <1>1, <1>2, <1>3, <1>4, <1>5, <1>6, <1>7 DEF Next, User

\* The actions of FinalizerGuard under the refinement mapping.
LEMMA GuardActions ==
    /\ (/\ holdings' \in [Conns -> SUBSET {"secret", "entry"}]
        /\ \A r \in Conns : claims[r] \/ holdings'[r] \subseteq holdings[r]
        /\ UNCHANGED claims) => Guard!Next
    /\ \A r \in Conns : (/\ ~claims[r]
                         /\ claims' = [claims EXCEPT ![r] = TRUE]
                         /\ UNCHANGED holdings) => Guard!Next
    /\ \A r \in Conns : (/\ claims[r] /\ holdings[r] = {}
                         /\ claims' = [claims EXCEPT ![r] = FALSE]
                         /\ UNCHANGED holdings) => Guard!Next
  BY Zenon DEF Guard!Next, Guard!Work, Guard!Claim, Guard!Release

\* Every step of the controller is a step of FinalizerGuard or a stutter.
LEMMA GuardStep ==
    ASSUME TeardownInv, NoOrphans, NoOrphans', [Next]_vars
    PROVE  [Guard!Next]_(Guard!vars)
  <1> DEFINE c == pass.c
  <1>0. /\ pass \in PassRecord /\ c \in Conns /\ conn \in [Conns -> ConnObject]
        /\ conn' \in [Conns -> ConnObject]
    BY TypeStep DEF TeardownInv, TypeOK, PassRecord
  \* A step that keeps every finalizer: an unclaimed connection has nothing
  \* before it and, by NoOrphans, nothing after it.
  <1>1. CASE \A d \in Conns : conn'[d].finalizer = conn[d].finalizer
    <2>1. \A d \in Conns : conn[d].finalizer \/ assetsOf(d)' = {}
      BY <1>1 DEF NoOrphans, assetsOf
    <2>2. claims' = claims
      BY <1>1 DEF claims
    <2>3. holdings' \in [Conns -> SUBSET {"secret", "entry"}]
      BY DEF holdings, assetsOf
    <2>4. \A d \in Conns : claims[d] \/ holdings'[d] \subseteq holdings[d]
      BY <2>1 DEF claims, holdings
    <2> QED
      BY <2>2, <2>3, <2>4, GuardActions
  <1>2. ASSUME NEW o \in Outcomes, addFinalizerIfNotExists(o),
               ~ \A d \in Conns : conn'[d].finalizer = conn[d].finalizer
        PROVE  Guard!Next
    <2>1. ~pass.obj.finalizer /\ pass.current
          /\ conn' = [conn EXCEPT ![c] = [pass.obj EXCEPT !.finalizer = TRUE]]
      BY <1>2 DEF addFinalizerIfNotExists, WriteConn
    <2>2. conn[c] = pass.obj /\ pass.obj \in ConnObject
      BY <1>0, <1>2, <2>1 DEF addFinalizerIfNotExists, TeardownInv, TeardownShapes, PassShape,
         PassRecord
    <2>3. UNCHANGED <<secret, cm>>
      BY <1>2 DEF addFinalizerIfNotExists
    <2>4. \A d \in Conns : conn'[d].finalizer = IF d = c THEN TRUE ELSE conn[d].finalizer
      BY <1>0, <2>1, <2>2 DEF ConnObject
    <2>5. ~claims[c] /\ claims' = [claims EXCEPT ![c] = TRUE]
      BY <1>0, <2>1, <2>2, <2>4 DEF claims
    <2>6. UNCHANGED holdings
      BY <2>3 DEF holdings, assetsOf, EntryOwners
    <2> QED
      BY <1>0, <2>5, <2>6, GuardActions
  <1>3. ASSUME NEW o \in Outcomes, removeFinalizerIfExists(o),
               ~ \A d \in Conns : conn'[d].finalizer = conn[d].finalizer
        PROVE  Guard!Next
    <2>1. pass.step = "release" /\ conn' = [conn EXCEPT ![c] = Gone(pass.obj.life)]
      BY <1>3 DEF removeFinalizerIfExists, WriteConn
    <2>2. /\ conn[c].finalizer /\ secret[c].phase = "absent"
          /\ \A k \in ClusterIDs : cm.entries[k].owner # c
      BY <2>1 DEF TeardownInv, TeardownShapes, PassShape, TeardownShape, Past
    <2>3. assetsOf(c) = {}
      BY <1>0, <2>2 DEF assetsOf, EntryOwners
    <2>4. UNCHANGED <<secret, cm>>
      BY <1>3 DEF removeFinalizerIfExists
    <2>5. \A d \in Conns : conn'[d].finalizer = IF d = c THEN FALSE ELSE conn[d].finalizer
      BY <1>0, <2>1 DEF Gone
    <2>6. claims[c] /\ claims' = [claims EXCEPT ![c] = FALSE]
      BY <1>0, <2>2, <2>5 DEF claims
    <2>7. holdings[c] = {} /\ UNCHANGED holdings
      BY <1>0, <2>3, <2>4 DEF holdings, assetsOf, EntryOwners
    <2> QED
      BY <1>0, <2>6, <2>7, GuardActions
  <1> QED
    BY <1>1, <1>2, <1>3, FinalizerKept

\* The controller implements FinalizerGuard, provided the copies it reads are
\* current.
THEOREM ConnectionGuards ==
    ASSUME StaleReads = FALSE
    PROVE  Spec => GuardsItsAssets
  <1>1. Init => Guard!Init
    <2> SUFFICES ASSUME Init PROVE Guard!Init
      OBVIOUS
    <2>1. \A c \in Conns : conn[c].finalizer = FALSE /\ secret[c].phase = "absent"
      BY DEF Init, Gone, NoSecret
    <2>2. \A c \in Conns : c \notin EntryOwners
      BY NamesAssumption DEF Init, EntryOwners, EmptyConfigMap, NoConfigMap, NoEntries, NoEntry,
         NoOwner
    <2> QED
      BY <2>1, <2>2 DEF Guard!Init, claims, holdings, assetsOf
  <1>2. Init => TeardownInv
    BY TypeInitially, TeardownInitially DEF TeardownInv
  <1>3. TeardownInv /\ [Next]_vars => TeardownInv'
    BY TeardownStep
  <1>4. TeardownInv => NoOrphans
    BY NothingOwned
  <1>5. TeardownInv /\ NoOrphans /\ NoOrphans' /\ [Next]_vars => [Guard!Next]_(Guard!vars)
    BY GuardStep
  <1> QED
    BY <1>1, <1>2, <1>3, <1>4, <1>5, PTL DEF Spec, GuardsItsAssets, Guard!Spec
=============================================================================
