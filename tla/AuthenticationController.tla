----------------------- MODULE AuthenticationController -----------------------
(***************************************************************************)
(* The CephClusterAuthentication controller: it puts the deprecation label *)
(* and the Deprecated condition on the resource, and takes every finalizer *)
(* off one that is being deleted.                                          *)
(*                                                                         *)
(* Two goroutines do the same work.  The event handler works on the object *)
(* of the event, which is the informer's own object: what it changes there *)
(* is what the next cached read returns.  The reconcile worker serves the  *)
(* keys the handler could not deal with, on a copy of the cached object.   *)
(* auth is the API server's object, store the informer's, lag says that an *)
(* event is on its way, inbox and pending are the events not handled yet.  *)
(*                                                                         *)
(* One name is enough: objects share nothing.  A spec is named by its      *)
(* generation; the cache jumps to the current version; a delayed requeue   *)
(* is a requeue.                                                           *)
(***************************************************************************)
EXTENDS Naturals, Sequences

CONSTANTS
    UpdateFails,    \* may an Update of the current version fail without effect
    MaxLives,       \* bound: times the name is created
    MaxGen,         \* bound: generations of one life
    MaxFaults       \* bound: failed calls, crashes and removals of the label together

ASSUME SwitchesAssumption == UpdateFails \in BOOLEAN
ASSUME BoundsAssumption ==
    MaxLives \in Nat /\ MaxGen \in Nat \ {0} /\ MaxFaults \in Nat

VARIABLES
    auth,       \* the CephClusterAuthentication on the server
    store,      \* the informer's object
    lag,        \* the server's object changed after the informer's last event
    inbox,      \* objects of events not handled yet that a later event replaced
    pending,    \* the event of the store's object is not handled yet
    aliased,    \* the handler is at work on the store's object
    proc,       \* what the handler and the worker are doing
    queued,     \* is the key in the workqueue
    faults      \* faults so far

vars == <<auth, store, lag, inbox, pending, aliased, proc, queued, faults>>
informer == <<store, lag, inbox, pending>>

-----------------------------------------------------------------------------
\* Objects.  rv is the resourceVersion: every write moves it, an Update with an
\* older one is refused.  observed is the generation the condition is about.

Object == [phase : {"absent", "live", "deleting"}, life : 0..MaxLives,
           gen : 0..MaxGen, labelled : BOOLEAN, finalizer : BOOLEAN,
           observed : 0..MaxGen, rv : Nat]
Gone(life, rv) == [phase |-> "absent", life |-> life, gen |-> 0, labelled |-> FALSE,
                   finalizer |-> FALSE, observed |-> 0, rv |-> rv]

Procs == {"handler", "worker"}
Proc == [step : {"idle", "update", "status"}, copy : Object]
Idle == [step |-> "idle", copy |-> Gone(0, 0)]

-----------------------------------------------------------------------------
\* Helpers of the source.

\* Mutants: a condition is published with the label only; finalizers are left to
\* their owners.
needed_once(x) ==
    CASE x.phase = "deleting" /\ x.finalizer -> "update"
      [] x.phase = "live" /\ ~x.labelled -> "update"
      [] OTHER -> "idle"
needed_finalizersKept(x) ==
    CASE x.phase = "live" /\ ~x.labelled -> "update"
      [] x.phase = "live" /\ x.labelled -> "status"
      [] OTHER -> "idle"

\* The first call labelAsDeprecatedIfNeeded makes for object x.
needed(x) ==
    CASE x.phase = "deleting" /\ x.finalizer -> "update"
      [] x.phase = "live" /\ ~x.labelled -> "update"
      [] x.phase = "live" /\ x.labelled -> "status"
      [] OTHER -> "idle"

\* Mutant: the condition is set in memory too, before it is published.
changed_condition(x) ==
    IF x.phase = "deleting" THEN [x EXCEPT !.finalizer = FALSE]
    ELSE [x EXCEPT !.labelled = TRUE, !.observed = x.gen]

\* Mutant: the label counts as a new generation.
changed_generation(x) ==
    IF x.phase = "deleting" THEN [x EXCEPT !.finalizer = FALSE]
    ELSE [x EXCEPT !.labelled = TRUE, !.gen = @ + 1]

\* The object in memory is changed before the call.
changed(x) == IF x.phase = "deleting" THEN [x EXCEPT !.finalizer = FALSE]
              ELSE [x EXCEPT !.labelled = TRUE]

labelAsDeprecatedIfNeeded(x) ==
    IF needed(x) = "idle" THEN Idle ELSE [step |-> needed(x), copy |-> changed(x)]

\* What the server makes of an Update with x: without finalizers a deleted object goes.
updated(x) == IF x.phase = "deleting" THEN Gone(x.life, auth.rv + 1)
              ELSE [x EXCEPT !.observed = auth.observed, !.rv = auth.rv + 1]

-----------------------------------------------------------------------------
\* Calls: "rejected" has no effect and returns an error, "lost" has its effect and
\* returns an error.

Outcomes == {"ok", "rejected", "lost"}
Fault == faults < MaxFaults /\ faults' = faults + 1
Spend(o) == IF o = "ok" THEN UNCHANGED faults ELSE Fault

Write(new) == auth' = new /\ lag' = TRUE
NoWrite == UNCHANGED <<auth, lag>>

\* The copy of w is changed in memory; the handler's may be the informer's object.
Set(w, p) ==
    /\ proc' = [proc EXCEPT ![w] = p]
    /\ store' = IF w = "handler" /\ aliased THEN p.copy ELSE store
    /\ UNCHANGED aliased

\* w is done; an error queues the key.
Return(w, failed) ==
    /\ proc' = [proc EXCEPT ![w] = Idle]
    /\ aliased' = (aliased /\ w # "handler")
    /\ queued' = (queued \/ failed)
    /\ UNCHANGED store

-----------------------------------------------------------------------------
Init ==
    /\ auth = Gone(0, 0)
    /\ store = auth
    /\ lag = FALSE /\ inbox = <<>> /\ pending = FALSE /\ aliased = FALSE
    /\ proc = [w \in Procs |-> Idle]
    /\ queued = FALSE
    /\ faults = 0

-----------------------------------------------------------------------------
\* Users.

UserWrites(new) ==
    /\ Write([new EXCEPT !.rv = auth.rv + 1])
    /\ UNCHANGED <<store, inbox, pending, aliased, proc, queued>>

\* Older versions of the module put a finalizer on the resource.
CreateAuth ==
    /\ auth.phase = "absent"
    /\ auth.life < MaxLives
    /\ \E finalizer \in BOOLEAN :
        UserWrites([Gone(auth.life + 1, 0) EXCEPT !.phase = "live", !.gen = 1,
                                                  !.finalizer = finalizer])
    /\ UNCHANGED faults

EditAuth ==
    /\ auth.phase = "live"
    /\ auth.gen < MaxGen
    /\ UserWrites([auth EXCEPT !.gen = @ + 1])
    /\ UNCHANGED faults

DeleteAuth ==
    /\ auth.phase = "live"
    /\ UserWrites(IF auth.finalizer THEN [auth EXCEPT !.phase = "deleting"]
                  ELSE Gone(auth.life, 0))
    /\ UNCHANGED faults

RemoveLabel ==
    /\ auth.phase = "live"
    /\ auth.labelled
    /\ UserWrites([auth EXCEPT !.labelled = FALSE])
    /\ Fault

-----------------------------------------------------------------------------
\* The informer puts the new object in the place of the old one, and the handler will
\* hear of it.  An object that is gone is dropped, and nothing handles that.
Sync ==
    /\ lag
    /\ lag' = FALSE
    /\ store' = auth
    /\ inbox' = IF pending THEN Append(inbox, store) ELSE inbox
    /\ pending' = (auth.phase # "absent")
    /\ aliased' = FALSE
    /\ UNCHANGED <<auth, proc, queued, faults>>

-----------------------------------------------------------------------------
\* The two goroutines.

\* CreateFunc and UpdateFunc take every event, in order and whatever it changed; the
\* latest one has the informer's object itself.
HandleEvent ==
    /\ proc["handler"].step = "idle"
    /\ \/ /\ inbox # <<>>
          /\ proc' = [proc EXCEPT !["handler"] = labelAsDeprecatedIfNeeded(Head(inbox))]
          /\ inbox' = Tail(inbox)
          /\ UNCHANGED <<store, pending, aliased>>
       \/ /\ inbox = <<>> /\ pending
          /\ proc' = [proc EXCEPT !["handler"] = labelAsDeprecatedIfNeeded(store)]
          /\ store' = IF needed(store) = "idle" THEN store ELSE changed(store)
          /\ aliased' = (needed(store) # "idle")
          /\ pending' = FALSE
          /\ UNCHANGED inbox
    /\ UNCHANGED <<auth, lag, queued, faults>>

\* The cached Get copies the object; one that is not there needs nothing.
StartReconcile ==
    /\ proc["worker"].step = "idle"
    /\ queued
    /\ queued' = FALSE
    /\ proc' = [proc EXCEPT !["worker"] = labelAsDeprecatedIfNeeded(store)]
    /\ UNCHANGED <<auth, informer, aliased, faults>>

\* Mutant: the Update names no resourceVersion.
accepted_forced(x) == auth.phase # "absent"

\* The server takes an Update of the current version.
accepted(x) == x.rv = auth.rv

\* The Update that adds the label or takes the finalizers off; the answer is written
\* into the copy.  An object that was deleted needs no condition.
UpdateObject(w, o) ==
    LET x == proc[w].copy
        done == accepted(x) /\ o = "ok"
    IN
    /\ proc[w].step = "update"
    /\ o = "rejected" => UpdateFails
    /\ Spend(o)
    /\ IF accepted(x) /\ o # "rejected" THEN Write(updated(x)) ELSE NoWrite
    /\ IF done /\ x.phase = "live"
       THEN Set(w, [step |-> "status", copy |-> updated(x)]) /\ UNCHANGED queued
       ELSE Return(w, ~done)
    /\ UNCHANGED <<inbox, pending>>

\* The condition, about the generation of the copy.  A write that changes nothing is
\* not sent.
publishDeprecatedCondition(w, o) ==
    LET generation == proc[w].copy.gen
        present == auth.phase # "absent"
    IN
    /\ proc[w].step = "status"
    /\ Spend(o)
    /\ IF present /\ o # "rejected" /\ auth.observed # generation
       THEN Write([auth EXCEPT !.observed = generation, !.rv = @ + 1])
       ELSE NoWrite
    /\ Return(w, ~present \/ o # "ok")
    /\ UNCHANGED <<inbox, pending>>

-----------------------------------------------------------------------------
\* The leader dies; the next one fills its cache and gets a create event.
CrashRestart ==
    /\ Fault
    /\ store' = auth
    /\ lag' = FALSE /\ inbox' = <<>> /\ aliased' = FALSE
    /\ pending' = (auth.phase # "absent")
    /\ proc' = [w \in Procs |-> Idle]
    /\ queued' = FALSE
    /\ UNCHANGED auth

-----------------------------------------------------------------------------
User == CreateAuth \/ EditAuth \/ DeleteAuth \/ RemoveLabel

Work(w) == \E o \in Outcomes : UpdateObject(w, o) \/ publishDeprecatedCondition(w, o)

Next == \/ User
        \/ Sync
        \/ HandleEvent
        \/ StartReconcile
        \/ \E w \in Procs : Work(w)
        \/ CrashRestart

Spec == Init /\ [][Next]_vars

\* The informer delivers, both goroutines go on, and a queued key is served.
Fairness ==
    /\ WF_vars(Sync) /\ WF_vars(HandleEvent) /\ WF_vars(StartReconcile)
    /\ \A w \in Procs : WF_vars(Work(w))

FairSpec == Spec /\ Fairness

-----------------------------------------------------------------------------
\* Properties.

TypeOK ==
    /\ auth \in Object /\ store \in Object
    /\ lag \in BOOLEAN /\ pending \in BOOLEAN /\ aliased \in BOOLEAN /\ queued \in BOOLEAN
    /\ inbox \in Seq(Object)
    /\ proc \in [Procs -> Proc]
    /\ faults \in 0..MaxFaults

\* The cache tells the truth: when no event is on its way and the handler is not in the
\* middle of a call, the informer's object, which the handler changes in place before
\* each call, is the server's.
CacheHonest == (~lag /\ proc["handler"].step = "idle") => store = auth

\* A user's edit is never undone: both goroutines send whole objects, spec included,
\* that they read some time ago and from one another's changes.
EditsKept ==
    [][(auth'.life = auth.life /\ auth'.phase = "live") => auth'.gen >= auth.gen]_vars

\* The job of the controller: once users and faults leave it alone, the resource has
\* the label, and the condition is about its present generation.
EventuallyMarked ==
    <>[](auth.phase = "live" => auth.labelled /\ auth.observed = auth.gen)

\* A finalizer of an earlier version of the module does not hold a deletion for ever.
DeletionCompletes == auth.phase = "deleting" ~> auth.phase = "absent"
=============================================================================
