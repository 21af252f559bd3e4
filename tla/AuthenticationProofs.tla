------------------------ MODULE AuthenticationProofs ------------------------
(***************************************************************************)
(* Theorems about AuthenticationController, for every bound.               *)
(***************************************************************************)
EXTENDS AuthenticationController, TLAPS

-----------------------------------------------------------------------------
\* Type correctness.

\* An object that is gone is an object.
LEMMA GoneType == \A n \in 0..MaxLives, rv \in Nat : Gone(n, rv) \in Object
  BY BoundsAssumption DEF Gone, Object

\* A goroutine that does nothing is one.
LEMMA IdleType == Idle \in Proc
  <1>1. Gone(0, 0) \in Object
    BY GoneType, BoundsAssumption
  <1> QED
    BY <1>1 DEF Idle, Proc

\* The change in memory leaves an object of the same version, life and generation.
LEMMA ChangedObject ==
    ASSUME NEW x \in Object
    PROVE  /\ changed(x) \in Object
           /\ changed(x).rv = x.rv /\ changed(x).life = x.life
           /\ changed(x).gen = x.gen /\ changed(x).phase = x.phase
  BY DEF changed, Object

\* What labelAsDeprecatedIfNeeded makes of an object: nothing to do, or a first call
\* with the changed object; where the label is there already nothing is changed.
LEMMA LabelResult ==
    ASSUME NEW x \in Object
    PROVE  /\ labelAsDeprecatedIfNeeded(x) \in Proc
           /\ needed(x) = "idle" => labelAsDeprecatedIfNeeded(x) = Idle
           /\ needed(x) # "idle" =>
                labelAsDeprecatedIfNeeded(x) = [step |-> needed(x), copy |-> changed(x)]
           /\ needed(x) \in {"idle", "update", "status"}
           /\ needed(x) = "status" => changed(x) = x
  <1>1. needed(x) \in {"idle", "update", "status"}
    BY DEF needed
  <1>2. needed(x) = "status" => x.phase = "live" /\ x.labelled = TRUE
    BY DEF needed, Object
  <1>3. needed(x) = "status" => changed(x) = x
    BY <1>2 DEF changed, Object
  <1>4. [step |-> needed(x), copy |-> changed(x)] \in Proc
    BY <1>1, ChangedObject DEF Proc
  <1> QED
    BY <1>1, <1>3, <1>4, IdleType DEF labelAsDeprecatedIfNeeded

\* What the server makes of an Update is an object.
LEMMA UpdatedType ==
    ASSUME auth \in Object, NEW x \in Object
    PROVE  /\ updated(x) \in Object /\ updated(x).rv = auth.rv + 1
           /\ updated(x).life = x.life
           /\ updated(x).phase = "live" => updated(x).gen = x.gen
  <1>1. auth.rv + 1 \in Nat /\ auth.observed \in 0..MaxGen /\ x.life \in 0..MaxLives
    BY DEF Object
  <1>2. CASE x.phase = "deleting"
    BY <1>1, <1>2, GoneType DEF updated, Gone
  <1>3. CASE x.phase # "deleting"
    BY <1>1, <1>3 DEF updated, Object
  <1> QED
    BY <1>2, <1>3

\* Faults stay within their bound.
LEMMA SpendType ==
    ASSUME faults \in 0..MaxFaults, NEW o, Fault \/ Spend(o)
    PROVE  faults' \in 0..MaxFaults
  BY BoundsAssumption DEF Spend, Fault

\* The controller starts with every variable of its type.
THEOREM TypeInitially == Init => TypeOK
  <1> SUFFICES ASSUME Init PROVE TypeOK
    OBVIOUS
  <1>1. auth \in Object /\ store \in Object
    BY GoneType, BoundsAssumption DEF Init
  <1>2. proc \in [Procs -> Proc]
    BY IdleType DEF Init
  <1>3. inbox \in Seq(Object)
    BY DEF Init
  <1>4. faults \in 0..MaxFaults
    BY BoundsAssumption DEF Init
  <1> QED
    BY <1>1, <1>2, <1>3, <1>4 DEF Init, TypeOK

\* A user's write keeps the types.
LEMMA UserWritesType ==
    ASSUME TypeOK, NEW new, [new EXCEPT !.rv = auth.rv + 1] \in Object, UserWrites(new),
           faults' \in 0..MaxFaults
    PROVE  TypeOK'
  BY DEF TypeOK, UserWrites, Write

\* Users keep the types.
LEMMA TypeStepUser == TypeOK /\ User => TypeOK'
  <1> SUFFICES ASSUME TypeOK, User PROVE TypeOK'
    OBVIOUS
  <1>0. auth \in Object /\ auth.rv + 1 \in Nat /\ faults \in 0..MaxFaults
    BY DEF TypeOK, Object
  <1>1. CASE CreateAuth
    <2>1. PICK finalizer \in BOOLEAN :
            UserWrites([Gone(auth.life + 1, 0) EXCEPT !.phase = "live", !.gen = 1,
                                                      !.finalizer = finalizer])
      BY <1>1 DEF CreateAuth
    <2>2. auth.life + 1 \in 0..MaxLives /\ 1 \in 0..MaxGen
      BY <1>0, <1>1, BoundsAssumption DEF CreateAuth, Object
    <2>3. [[Gone(auth.life + 1, 0) EXCEPT !.phase = "live", !.gen = 1,
                !.finalizer = finalizer] EXCEPT !.rv = auth.rv + 1] \in Object
      <3>1. Gone(auth.life + 1, 0) \in Object
        BY <2>2, GoneType
      <3>2. \A g \in Object : [g EXCEPT !.phase = "live", !.gen = 1,
                                       !.finalizer = finalizer] \in Object
        BY <2>2 DEF Object
      <3>3. \A g \in Object : [g EXCEPT !.rv = auth.rv + 1] \in Object
        BY <1>0 DEF Object
      <3> QED
        BY <3>1, <3>2, <3>3
    <2> QED
      BY <1>0, <1>1, <2>1, <2>3, UserWritesType DEF CreateAuth
  <1>2. CASE EditAuth
    <2>1. auth.gen + 1 \in 0..MaxGen
      BY <1>0, <1>2, BoundsAssumption DEF EditAuth, Object
    <2>2. [[auth EXCEPT !.gen = @ + 1] EXCEPT !.rv = auth.rv + 1] \in Object
      BY <1>0, <2>1 DEF Object
    <2> QED
      BY <1>0, <1>2, <2>2, UserWritesType DEF EditAuth
  <1>3. CASE DeleteAuth
    <2>1. [[auth EXCEPT !.phase = "deleting"] EXCEPT !.rv = auth.rv + 1] \in Object
      BY <1>0 DEF Object
    <2>2. Gone(auth.life, 0) \in Object
      BY <1>0, GoneType DEF Object
    <2>3. [Gone(auth.life, 0) EXCEPT !.rv = auth.rv + 1] \in Object
      BY <1>0, <2>2 DEF Object
    <2> QED
      BY <1>0, <1>3, <2>1, <2>3, UserWritesType DEF DeleteAuth
  <1>4. CASE RemoveLabel
    <2>1. [[auth EXCEPT !.labelled = FALSE] EXCEPT !.rv = auth.rv + 1] \in Object
      BY <1>0 DEF Object
    <2> QED
      BY <1>0, <1>4, <2>1, UserWritesType, SpendType DEF RemoveLabel
  <1> QED
    BY <1>1, <1>2, <1>3, <1>4 DEF User

\* The informer and the goroutines keep the types.
LEMMA TypeStepInformer == TypeOK /\ (Sync \/ HandleEvent \/ StartReconcile) => TypeOK'
  <1> SUFFICES ASSUME TypeOK, Sync \/ HandleEvent \/ StartReconcile PROVE TypeOK'
    OBVIOUS
  <1>0. store \in Object /\ inbox \in Seq(Object) /\ proc \in [Procs -> Proc]
    BY DEF TypeOK
  <1>1. CASE Sync
    <2>1. inbox' \in Seq(Object)
      BY <1>0, <1>1 DEF Sync
    <2> QED
      BY <1>1, <2>1 DEF TypeOK, Sync
  <1>2. CASE HandleEvent
    <2>1. inbox # <<>> => Head(inbox) \in Object /\ Tail(inbox) \in Seq(Object)
      BY <1>0
    <2>2. proc' \in [Procs -> Proc] /\ inbox' \in Seq(Object)
      BY <1>0, <1>2, <2>1, LabelResult DEF HandleEvent
    <2>3. store' \in Object /\ pending' \in BOOLEAN /\ aliased' \in BOOLEAN
      BY <1>0, <1>2, ChangedObject DEF HandleEvent, TypeOK
    <2> QED
      BY <1>2, <2>2, <2>3 DEF TypeOK, HandleEvent
  <1>3. CASE StartReconcile
    <2>1. proc' \in [Procs -> Proc]
      BY <1>0, <1>3, LabelResult DEF StartReconcile
    <2> QED
      BY <1>3, <2>1 DEF TypeOK, StartReconcile, informer
  <1> QED
    BY <1>1, <1>2, <1>3

\* Each call keeps the types.
LEMMA TypeStepWork ==
    ASSUME TypeOK, NEW w \in Procs, Work(w)
    PROVE  TypeOK'
  <1>0. /\ auth \in Object /\ store \in Object /\ proc \in [Procs -> Proc]
        /\ proc[w].copy \in Object /\ faults \in 0..MaxFaults
    BY DEF TypeOK, Proc
  <1>1. ASSUME NEW o \in Outcomes, UpdateObject(w, o) PROVE TypeOK'
    <2> DEFINE x == proc[w].copy
               p == [step |-> "status", copy |-> updated(x)]
    <2>1. updated(x) \in Object /\ p \in Proc
      BY <1>0, UpdatedType DEF Proc
    <2>2. auth' \in Object /\ lag' \in BOOLEAN
      BY <1>0, <1>1, <2>1 DEF TypeOK, UpdateObject, Write, NoWrite
    <2>3. proc' \in [Procs -> Proc] /\ store' \in Object /\ aliased' \in BOOLEAN /\ queued' \in BOOLEAN
      <3>1. CASE Set(w, p) /\ UNCHANGED queued
        BY <1>0, <2>1, <3>1 DEF Set, TypeOK
      <3>2. ASSUME NEW failed \in BOOLEAN, Return(w, failed)
            PROVE  proc' \in [Procs -> Proc] /\ store' \in Object /\ aliased' \in BOOLEAN
                   /\ queued' \in BOOLEAN
        BY <1>0, <3>2, IdleType DEF Return, TypeOK
      <3>3. (Set(w, p) /\ UNCHANGED queued) \/ \E failed \in BOOLEAN : Return(w, failed)
        BY <1>1 DEF UpdateObject
      <3> QED
        BY <3>1, <3>2, <3>3
    <2>4. faults' \in 0..MaxFaults
      BY <1>0, <1>1, SpendType DEF UpdateObject
    <2> QED
      BY <1>1, <2>2, <2>3, <2>4 DEF TypeOK, UpdateObject
  <1>2. ASSUME NEW o \in Outcomes, publishDeprecatedCondition(w, o) PROVE TypeOK'
    <2>1. auth' \in Object /\ lag' \in BOOLEAN
      <3>1. proc[w].copy.gen \in 0..MaxGen /\ auth.rv + 1 \in Nat
        BY <1>0 DEF Object
      <3>2. [auth EXCEPT !.observed = proc[w].copy.gen, !.rv = @ + 1] \in Object
        BY <1>0, <3>1 DEF Object
      <3> QED
        BY <1>0, <1>2, <3>2 DEF TypeOK, publishDeprecatedCondition, Write, NoWrite
    <2>2. proc' \in [Procs -> Proc] /\ store' \in Object /\ aliased' \in BOOLEAN /\ queued' \in BOOLEAN
      BY <1>0, <1>2, IdleType DEF publishDeprecatedCondition, Return, TypeOK
    <2>3. faults' \in 0..MaxFaults
      BY <1>0, <1>2, SpendType DEF publishDeprecatedCondition
    <2> QED
      BY <1>2, <2>1, <2>2, <2>3 DEF TypeOK, publishDeprecatedCondition
  <1> QED
    BY <1>1, <1>2 DEF Work

\* Every step keeps the types.
LEMMA TypeStep == TypeOK /\ [Next]_vars => TypeOK'
  <1> SUFFICES ASSUME TypeOK, [Next]_vars PROVE TypeOK'
    OBVIOUS
  <1>1. CASE UNCHANGED vars
    BY <1>1 DEF vars, TypeOK
  <1>2. CASE CrashRestart
    <2>1. proc' \in [Procs -> Proc]
      BY <1>2, IdleType DEF CrashRestart
    <2>2. inbox' \in Seq(Object)
      BY <1>2 DEF CrashRestart
    <2>3. faults' \in 0..MaxFaults
      BY <1>2, BoundsAssumption DEF TypeOK, CrashRestart, Fault
    <2> QED
      BY <1>2, <2>1, <2>2, <2>3 DEF TypeOK, CrashRestart
  <1> QED
    BY <1>1, <1>2, TypeStepUser, TypeStepInformer, TypeStepWork DEF Next

\* Every variable of the model stays what its comment says, in every behaviour.
THEOREM TypeCorrect == Spec => []TypeOK
  BY TypeInitially, TypeStep, PTL DEF Spec

-----------------------------------------------------------------------------
\* The cache.

\* The handler has the informer's object only while it works on it.
Alias == aliased => proc["handler"].step # "idle" /\ proc["handler"].copy = store

\* When no event is on its way, the informer's object has the server's version, and it
\* differs from the server's object only between the handler's change and its Update.
StoreShape ==
    ~lag => /\ store.rv = auth.rv
            /\ store = auth \/ (aliased /\ proc["handler"].step = "update")

CacheInv == TypeOK /\ Alias /\ StoreShape

\* Every step keeps the cache honest, if an Update of the current version succeeds.
LEMMA CacheStep ==
    ASSUME UpdateFails = FALSE, CacheInv, [Next]_vars
    PROVE  CacheInv'
  <1>0. /\ TypeOK /\ TypeOK' /\ Alias /\ StoreShape
        /\ proc \in [Procs -> Proc] /\ store \in Object /\ auth \in Object
        /\ "handler" \in Procs /\ "worker" \in Procs
    BY TypeStep DEF CacheInv, TypeOK, Procs
  <1>1. CASE User
    <2>1. lag' = TRUE /\ UNCHANGED <<store, aliased, proc>>
      BY <1>1 DEF User, CreateAuth, EditAuth, DeleteAuth, RemoveLabel, UserWrites, Write
    <2> QED
      BY <1>0, <2>1 DEF CacheInv, Alias, StoreShape
  <1>2. CASE Sync \/ CrashRestart
    <2>1. store' = auth' /\ aliased' = FALSE
      BY <1>2 DEF Sync, CrashRestart
    <2> QED
      BY <1>0, <2>1 DEF CacheInv, Alias, StoreShape
  <1>3. CASE HandleEvent
    <2>1. ~aliased
      BY <1>0, <1>3 DEF HandleEvent, Alias
    <2>2. CASE UNCHANGED <<store, aliased>>
      BY <1>0, <1>3, <2>1, <2>2 DEF HandleEvent, CacheInv, Alias, StoreShape
    <2>3. CASE needed(store) # "idle" /\ store' = changed(store) /\ aliased'
               /\ proc' = [proc EXCEPT !["handler"] = labelAsDeprecatedIfNeeded(store)]
      <3>1. proc'["handler"] = [step |-> needed(store), copy |-> changed(store)]
        BY <1>0, <2>3, LabelResult
      <3>2. /\ needed(store) \in {"update", "status"}
            /\ needed(store) = "status" => changed(store) = store
            /\ changed(store).rv = store.rv
        BY <1>0, <2>3, LabelResult, ChangedObject
      <3>3. Alias'
        BY <2>3, <3>1, <3>2 DEF Alias
      <3>4. StoreShape'
        BY <1>0, <1>3, <2>1, <2>3, <3>1, <3>2 DEF HandleEvent, StoreShape
      <3> QED
        BY <1>0, <3>3, <3>4 DEF CacheInv
    <2>4. CASE /\ proc' = [proc EXCEPT !["handler"] = labelAsDeprecatedIfNeeded(store)]
               /\ store' = IF needed(store) = "idle" THEN store ELSE changed(store)
               /\ aliased' = (needed(store) # "idle")
      <3>1. CASE needed(store) = "idle"
        <4>1. UNCHANGED <<store, aliased>>
          BY <1>0, <2>1, <2>4, <3>1 DEF TypeOK
        <4> QED
          BY <2>2, <4>1
      <3>2. CASE needed(store) # "idle"
        BY <2>3, <2>4, <3>2
      <3> QED
        BY <3>1, <3>2
    <2> QED
      BY <1>3, <2>2, <2>4 DEF HandleEvent
  <1>4. CASE StartReconcile
    BY <1>0, <1>4 DEF StartReconcile, CacheInv, Alias, StoreShape, informer, Procs
  <1>5. ASSUME NEW o \in Outcomes, UpdateObject("handler", o) PROVE CacheInv'
    <2> DEFINE x == proc["handler"].copy
    <2>1. o # "rejected" /\ proc["handler"].step = "update"
      BY <1>5 DEF UpdateObject
    <2>2. CASE accepted(x)
      <3>1. lag' = TRUE
        BY <1>5, <2>1, <2>2 DEF UpdateObject, Write
      <3>2. Alias'
        <4>1. CASE Set("handler", [step |-> "status", copy |-> updated(x)])
          BY <1>0, <4>1 DEF Set, Alias
        <4>2. CASE \E failed \in BOOLEAN : Return("handler", failed)
          BY <1>0, <4>2 DEF Return, Alias
        <4> QED
          BY <1>5, <4>1, <4>2 DEF UpdateObject
      <3> QED
        BY <1>0, <3>1, <3>2 DEF CacheInv, StoreShape
    <2>3. CASE ~accepted(x)
      <3>1. UNCHANGED <<auth, lag, store>> /\ aliased' = FALSE
        BY <1>5, <2>3 DEF UpdateObject, NoWrite, Return
      <3>2. ~lag => store = auth
        BY <1>0, <2>3 DEF StoreShape, Alias, accepted
      <3> QED
        BY <1>0, <3>1, <3>2 DEF CacheInv, Alias, StoreShape
    <2> QED
      BY <2>2, <2>3
  <1>6. ASSUME NEW o \in Outcomes, publishDeprecatedCondition("handler", o) PROVE CacheInv'
    <2>1. UNCHANGED store /\ aliased' = FALSE /\ proc["handler"].step = "status"
          /\ (lag' \/ UNCHANGED <<auth, lag>>)
      BY <1>6 DEF publishDeprecatedCondition, Return, Write, NoWrite
    <2> QED
      BY <1>0, <2>1 DEF CacheInv, Alias, StoreShape
  <1>7. ASSUME NEW o \in Outcomes,
               UpdateObject("worker", o) \/ publishDeprecatedCondition("worker", o)
        PROVE  CacheInv'
    <2>1. lag' \/ UNCHANGED <<auth, lag>>
      BY <1>7 DEF UpdateObject, publishDeprecatedCondition, Write, NoWrite
    <2>2. ASSUME NEW p, Set("worker", p)
          PROVE  UNCHANGED <<store, aliased>> /\ proc'["handler"] = proc["handler"]
      BY <1>0, <2>2 DEF Set
    <2>3. ASSUME NEW failed, Return("worker", failed)
          PROVE  UNCHANGED store /\ proc'["handler"] = proc["handler"]
                 /\ aliased' = (aliased /\ TRUE)
      BY <1>0, <2>3 DEF Return
    <2>4. (\E p : Set("worker", p)) \/ (\E failed : Return("worker", failed))
      BY <1>7 DEF UpdateObject, publishDeprecatedCondition
    <2>5. UNCHANGED <<store, aliased>> /\ proc'["handler"] = proc["handler"]
      BY <1>0, <2>2, <2>3, <2>4 DEF TypeOK
    <2> QED
      BY <1>0, <2>1, <2>5 DEF CacheInv, Alias, StoreShape
  <1>8. CASE UNCHANGED vars
    BY <1>0, <1>8 DEF vars, CacheInv, Alias, StoreShape
  <1> QED
    BY <1>1, <1>2, <1>3, <1>4, <1>5, <1>6, <1>7, <1>8 DEF Next, Work, Procs

\* Although the handler changes the informer's object in place, the cache does not lie for
\* good: whatever is lost, restarted or edited in between, unless an Update of the current
\* version can fail (the code's defect, see the README).
THEOREM CacheStaysHonest ==
    ASSUME UpdateFails = FALSE
    PROVE  Spec => []CacheHonest
  <1>1. Init => CacheInv
    <2> SUFFICES ASSUME Init PROVE CacheInv
      OBVIOUS
    <2>1. Alias /\ StoreShape
      BY DEF Init, Alias, StoreShape
    <2> QED
      BY <2>1, TypeInitially DEF CacheInv
  <1>2. CacheInv /\ [Next]_vars => CacheInv'
    BY CacheStep
  <1>3. CacheInv => CacheHonest
    BY DEF CacheInv, Alias, StoreShape, CacheHonest
  <1> QED
    BY <1>1, <1>2, <1>3, PTL DEF Spec

-----------------------------------------------------------------------------
\* Edits.

\* x is a copy of a or of an earlier version; one of a's version has its life and
\* generation.
CopyOf(x, a) == x.rv <= a.rv /\ (x.rv = a.rv => x.life = a.life /\ x.gen = a.gen)

\* Whatever the controller has in its hands is a copy of the server's object.
Copies ==
    /\ CopyOf(Gone(0, 0), auth) /\ CopyOf(store, auth)
    /\ \A i \in 1..Len(inbox) : CopyOf(inbox[i], auth)
    /\ \A w \in Procs : CopyOf(proc[w].copy, auth)

EditInv == TypeOK /\ Copies

\* A write moves the version, so that earlier copies are of an earlier one.
LEMMA CopyAfter ==
    ASSUME NEW x \in Object, NEW a \in Object, NEW b \in Object,
           CopyOf(x, a), b = a \/ b.rv = a.rv + 1
    PROVE  CopyOf(x, b)
  BY DEF CopyOf, Object

\* An object is a copy of itself.
LEMMA CopySelf == \A a \in Object : CopyOf(a, a)
  BY DEF CopyOf, Object

\* The change in memory makes no difference to that.
LEMMA CopyChanged ==
    ASSUME NEW x \in Object, NEW a, CopyOf(x, a)
    PROVE  CopyOf(changed(x), a)
  BY ChangedObject DEF CopyOf

\* Nor does what a goroutine then takes into its hands.
LEMMA CopyLabelled ==
    ASSUME NEW x \in Object, NEW a, CopyOf(x, a), CopyOf(Gone(0, 0), a)
    PROVE  CopyOf(labelAsDeprecatedIfNeeded(x).copy, a)
  BY CopyChanged DEF labelAsDeprecatedIfNeeded, Idle

\* A step changes nothing on the server or writes the next version; an Update is made of
\* the present version, and a user raises the generation or ends a life.
LEMMA NextVersion ==
    ASSUME EditInv, [Next]_vars
    PROVE  /\ auth' = auth \/ auth'.rv = auth.rv + 1
           /\ (auth'.life = auth.life /\ auth'.phase = "live") => auth'.gen >= auth.gen
  <1>0. auth \in Object /\ auth.gen \in Nat /\ auth.life \in Nat
    BY DEF EditInv, TypeOK, Object
  <1>1. CASE UNCHANGED vars \/ Sync \/ HandleEvent \/ StartReconcile \/ CrashRestart
    BY <1>0, <1>1 DEF vars, Sync, HandleEvent, StartReconcile, CrashRestart
  <1>2. CASE CreateAuth
    <2>1. PICK finalizer \in BOOLEAN :
            UserWrites([Gone(auth.life + 1, 0) EXCEPT !.phase = "live", !.gen = 1,
                                                      !.finalizer = finalizer])
      BY <1>2 DEF CreateAuth
    <2>2. auth'.rv = auth.rv + 1 /\ auth'.life = auth.life + 1
      BY <2>1 DEF UserWrites, Write, Gone
    <2> QED
      BY <1>0, <2>2
  <1>3. CASE EditAuth \/ RemoveLabel
    <2>1. auth'.rv = auth.rv + 1 /\ auth'.gen \in {auth.gen, auth.gen + 1}
      BY <1>0, <1>3 DEF EditAuth, RemoveLabel, UserWrites, Write, Object
    <2> QED
      BY <1>0, <2>1
  <1>4. CASE DeleteAuth
    <2>1. auth'.rv = auth.rv + 1 /\ auth'.phase # "live"
      BY <1>0, <1>4 DEF DeleteAuth, UserWrites, Write, Gone, Object
    <2> QED
      BY <2>1
  <1>5. ASSUME NEW w \in Procs, NEW o \in Outcomes, UpdateObject(w, o)
        PROVE  /\ auth' = auth \/ auth'.rv = auth.rv + 1
               /\ (auth'.life = auth.life /\ auth'.phase = "live") => auth'.gen >= auth.gen
    <2> DEFINE x == proc[w].copy
    <2>1. x \in Object /\ CopyOf(x, auth)
      BY DEF EditInv, TypeOK, Copies, Proc
    <2>2. CASE auth' = auth
      BY <1>0, <2>2
    <2>3. CASE accepted(x) /\ auth' = updated(x)
      <3>1. updated(x).rv = auth.rv + 1 /\ (updated(x).phase = "live" => updated(x).gen = x.gen)
        BY <1>0, <2>1, UpdatedType
      <3>2. x.gen = auth.gen
        BY <2>1, <2>3 DEF CopyOf, accepted
      <3> QED
        BY <1>0, <2>3, <3>1, <3>2
    <2> QED
      BY <1>5, <2>2, <2>3 DEF UpdateObject, Write, NoWrite
  <1>6. ASSUME NEW w \in Procs, NEW o \in Outcomes, publishDeprecatedCondition(w, o)
        PROVE  /\ auth' = auth \/ auth'.rv = auth.rv + 1
               /\ (auth'.life = auth.life /\ auth'.phase = "live") => auth'.gen >= auth.gen
    <2>1. auth'.gen = auth.gen /\ (auth' = auth \/ auth'.rv = auth.rv + 1)
      BY <1>0, <1>6 DEF publishDeprecatedCondition, Write, NoWrite, Object
    <2> QED
      BY <1>0, <2>1
  <1> QED
    BY <1>1, <1>2, <1>3, <1>4, <1>5, <1>6 DEF Next, User, Work

\* Every copy stays one, whatever the steps exchange.
LEMMA EditStep ==
    ASSUME EditInv, [Next]_vars
    PROVE  EditInv'
  <1>0. /\ TypeOK /\ TypeOK' /\ Copies
        /\ auth \in Object /\ auth' \in Object /\ store \in Object /\ store' \in Object
        /\ inbox \in Seq(Object) /\ inbox' \in Seq(Object)
        /\ proc \in [Procs -> Proc] /\ "handler" \in Procs /\ "worker" \in Procs
        /\ \A w \in Procs : proc[w].copy \in Object
    BY TypeStep DEF EditInv, TypeOK, Procs, Proc
  <1>1. \A x \in Object : CopyOf(x, auth) => CopyOf(x, auth')
    BY <1>0, CopyAfter, NextVersion
  <1>2. CopyOf(Gone(0, 0), auth')
    BY <1>0, <1>1, GoneType, BoundsAssumption DEF Copies
  <1>3. CopyOf(store, auth') /\ \A w \in Procs : CopyOf(proc[w].copy, auth')
    BY <1>0, <1>1 DEF Copies
  <1>4. \A i \in 1..Len(inbox) : inbox[i] \in Object /\ CopyOf(inbox[i], auth) /\ CopyOf(inbox[i], auth')
    BY <1>0, <1>1 DEF Copies
  <1>5. CASE User \/ UNCHANGED vars
    <2>1. UNCHANGED <<store, inbox, proc>>
      BY <1>5 DEF User, CreateAuth, EditAuth, DeleteAuth, RemoveLabel, UserWrites, vars
    <2> QED
      BY <1>0, <1>2, <1>3, <1>4, <2>1 DEF EditInv, Copies
  <1>6. CASE Sync
    <2>1. CopyOf(store', auth')
      BY <1>0, <1>6, CopySelf DEF Sync
    <2>2. \A i \in 1..Len(inbox') : CopyOf(inbox'[i], auth')
      <3>1. CASE inbox' = inbox
        BY <1>4, <3>1
      <3>2. CASE inbox' = Append(inbox, store)
        BY <1>0, <1>3, <1>4, <3>2
      <3> QED
        BY <1>6, <3>1, <3>2 DEF Sync
    <2>3. UNCHANGED proc
      BY <1>6 DEF Sync
    <2> QED
      BY <1>0, <1>2, <1>3, <2>1, <2>2, <2>3 DEF EditInv, Copies
  <1>7. CASE HandleEvent
    <2>0. auth' = auth /\ CopyOf(store, auth) /\ CopyOf(Gone(0, 0), auth)
      BY <1>0, <1>7 DEF HandleEvent, Copies
    <2>1. CopyOf(store', auth')
      BY <1>0, <1>7, <2>0, CopyChanged DEF HandleEvent
    <2>2. \A i \in 1..Len(inbox') : CopyOf(inbox'[i], auth')
      <3>1. CASE inbox' = inbox
        BY <1>4, <3>1
      <3>2. CASE inbox # <<>> /\ inbox' = Tail(inbox)
        BY <1>0, <1>4, <3>2
      <3> QED
        BY <1>7, <3>1, <3>2 DEF HandleEvent
    <2>3. \A w \in Procs : CopyOf(proc'[w].copy, auth')
      <3>1. PICK x \in Object : /\ CopyOf(x, auth)
                                /\ proc' = [proc EXCEPT !["handler"] = labelAsDeprecatedIfNeeded(x)]
        <4>1. inbox # <<>> => Head(inbox) \in Object /\ CopyOf(Head(inbox), auth)
          BY <1>0, <1>4
        <4> QED
          BY <1>0, <1>7, <2>0, <4>1 DEF HandleEvent
      <3>2. CopyOf(labelAsDeprecatedIfNeeded(x).copy, auth')
        BY <2>0, <3>1, CopyLabelled
      <3> QED
        BY <1>0, <1>3, <3>1, <3>2
    <2> QED
      BY <1>0, <1>2, <2>1, <2>2, <2>3 DEF EditInv, Copies
  <1>8. CASE StartReconcile
    <2>1. UNCHANGED <<auth, store, inbox>> /\ CopyOf(store, auth)
      BY <1>0, <1>8 DEF StartReconcile, informer, Copies
    <2>2. CopyOf(labelAsDeprecatedIfNeeded(store).copy, auth')
      BY <1>0, <2>1, CopyLabelled DEF Copies
    <2>3. \A w \in Procs : CopyOf(proc'[w].copy, auth')
      BY <1>0, <1>3, <1>8, <2>2 DEF StartReconcile
    <2> QED
      BY <1>0, <1>2, <1>3, <1>4, <2>1, <2>3 DEF EditInv, Copies
  <1>9. ASSUME NEW w \in Procs, NEW failed, UNCHANGED inbox, Return(w, failed) PROVE EditInv'
    <2>1. \A v \in Procs : CopyOf(proc'[v].copy, auth')
      BY <1>0, <1>2, <1>3, <1>9 DEF Return, Idle
    <2> QED
      BY <1>0, <1>2, <1>3, <1>4, <1>9, <2>1 DEF EditInv, Copies, Return
  <1>10. ASSUME NEW w \in Procs, NEW o \in Outcomes, UpdateObject(w, o) PROVE EditInv'
    <2> DEFINE x == proc[w].copy
               p == [step |-> "status", copy |-> updated(x)]
    <2>1. UNCHANGED inbox
      BY <1>10 DEF UpdateObject
    <2>2. CASE Set(w, p) /\ auth' = updated(x)
      <3>1. CopyOf(p.copy, auth')
        BY <1>0, <2>2, CopySelf
      <3>2. CopyOf(store', auth')
        BY <1>3, <2>2, <3>1 DEF Set
      <3>3. \A v \in Procs : CopyOf(proc'[v].copy, auth')
        BY <1>0, <1>3, <2>2, <3>1 DEF Set
      <3> QED
        BY <1>0, <1>2, <1>4, <2>1, <3>2, <3>3 DEF EditInv, Copies
    <2>3. (Set(w, p) /\ auth' = updated(x)) \/ \E failed : Return(w, failed)
      BY <1>10 DEF UpdateObject, Write
    <2> QED
      BY <1>9, <2>1, <2>2, <2>3
  <1>11. ASSUME NEW w \in Procs, NEW o \in Outcomes, publishDeprecatedCondition(w, o)
         PROVE  EditInv'
    <2>1. UNCHANGED inbox /\ \E failed : Return(w, failed)
      BY <1>11 DEF publishDeprecatedCondition
    <2> QED
      BY <1>9, <2>1
  <1>12. CASE CrashRestart
    <2>1. CopyOf(store', auth') /\ inbox' = <<>>
      BY <1>0, <1>12, CopySelf DEF CrashRestart
    <2>2. \A v \in Procs : CopyOf(proc'[v].copy, auth')
      BY <1>2, <1>12 DEF CrashRestart, Idle
    <2> QED
      BY <1>0, <1>2, <2>1, <2>2 DEF EditInv, Copies
  <1> QED
    BY <1>5, <1>6, <1>7, <1>8, <1>10, <1>11, <1>12 DEF Next, Work

\* No user's edit is undone, although both goroutines send back whole objects read some
\* time ago: an Update names the version it was made of, and a copy of the present version
\* has the present spec, whatever was lost, restarted or changed in place.
THEOREM EditsStayKept == Spec => EditsKept
  <1>1. Init => EditInv
    <2> SUFFICES ASSUME Init PROVE EditInv
      OBVIOUS
    <2>1. CopyOf(Gone(0, 0), Gone(0, 0))
      BY CopySelf, GoneType, BoundsAssumption
    <2>2. Copies
      BY <2>1 DEF Init, Copies, Idle
    <2> QED
      BY <2>2, TypeInitially DEF EditInv
  <1>2. EditInv /\ [Next]_vars => EditInv'
    BY EditStep
  <1>3. EditInv /\ [Next]_vars =>
          [(auth'.life = auth.life /\ auth'.phase = "live") => auth'.gen >= auth.gen]_vars
    BY NextVersion
  <1> QED
    BY <1>1, <1>2, <1>3, PTL DEF Spec, EditsKept
=============================================================================
