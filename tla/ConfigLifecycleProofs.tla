----------------------- MODULE ConfigLifecycleProofs -----------------------
(***************************************************************************)
(* Theorems about ConfigLifecycle, for any set of nodes, objects and       *)
(* configurations and any bounds.                                          *)
(***************************************************************************)
EXTENDS ConfigLifecycle, TLAPS

USE ConfigsAssumption, ObjectsAssumption, SwitchAssumption, BoundsAssumption

(***************************************************************************)
(* Type correctness.                                                       *)
(***************************************************************************)

\* The types of what is not there,
LEMMA GoneIsObject == Gone \in Object
  BY DEF Gone, Object, Ready

\* of a call that is not under way,
LEMMA NoOpIsOp == NoOp \in Op
  BY GoneIsObject DEF NoOp, Op, Step

\* The step Reconcile branches to is a step.
LEMMA BranchType ==
  ASSUME NEW obj \in Object, NEW owned \in BOOLEAN
  PROVE  Branch(obj, owned) \in Step \ {"got"}
  BY DEF Branch, Step, Object

\* of the calls whose copy a write outdates,
LEMMA OutdatedOpsType ==
  ASSUME TypeOK, NEW c
  PROVE  OutdatedOps(c) \in [Nodes -> Op]
  BY DEF TypeOK, OutdatedOps, Op

\* Init is well typed.
LEMMA InitType == Init => TypeOK
  BY GoneIsObject, NoOpIsOp DEF Init, TypeOK

\* after a user's write,
LEMMA UserWriteType ==
  ASSUME TypeOK, NEW c \in Configs, NEW obj \in Object, UserWrite(c, obj)
  PROVE  /\ api' \in [Configs -> Object]
         /\ stale' \in [Nodes -> SUBSET Configs]
         /\ events' \in [Nodes -> SUBSET Configs]
         /\ op' \in [Nodes -> Op]
         /\ UNCHANGED <<cache, queue, gobgpd, applied, silent, faults>>
  <1>1. OutdatedOps(c) \in [Nodes -> Op]
    BY OutdatedOpsType
  <1>2. QED
    BY <1>1 DEF TypeOK, UserWrite, Outdate, Notify, daemonVars

\* and after an agent's.
LEMMA WriteType ==
  ASSUME TypeOK, NEW n \in Nodes, NEW obj \in Object, Write(n, obj),
         op[n].cfg \in Configs
  PROVE  /\ api' \in [Configs -> Object]
         /\ stale' \in [Nodes -> SUBSET Configs]
         /\ op' \in [Nodes -> Op]
  <1>1. OutdatedOps(op[n].cfg) \in [Nodes -> Op]
    BY OutdatedOpsType
  <1>2. QED
    BY <1>1, NoOpIsOp DEF TypeOK, Write, Outdate

\* What the users do keeps the types.
LEMMA UserType ==
  ASSUME TypeOK, User
  PROVE  TypeOK'
  <1>1. ASSUME NEW c \in Configs, NEW spec \in Specs, Create(c, spec)
        PROVE  TypeOK'
    <2>1. [live |-> TRUE, created |-> clock', uid |-> creates + 1,
           deleting |-> FALSE, fin |-> FALSE, spec |-> spec,
           ready |-> "unset"] \in Object
      BY <1>1 DEF Create, TypeOK, Object, Ready
    <2>2. clock' \in Nat
      BY <1>1 DEF Create, TypeOK
    <2>3. QED
      BY <1>1, <2>1, <2>2, UserWriteType DEF Create, TypeOK
  <1>2. ASSUME NEW c \in Configs, NEW spec \in Revisions, Edit(c, spec)
        PROVE  TypeOK'
    <2>0. api[c] \in Object /\ spec \in SUBSET Objects
      BY DEF TypeOK
    <2>1. [api[c] EXCEPT !.spec = spec] \in Object
      BY <2>0 DEF Object
    <2>2. QED
      BY <1>2, <2>1, UserWriteType DEF Edit, TypeOK
  <1>3. ASSUME NEW c \in Configs, Delete(c)
        PROVE  TypeOK'
    <2>1. (IF api[c].fin THEN [api[c] EXCEPT !.deleting = TRUE] ELSE Gone)
             \in Object
      BY GoneIsObject DEF TypeOK, Object
    <2>2. QED
      BY <1>3, <2>1, UserWriteType DEF Delete, TypeOK
  <1>4. QED
    BY <1>1, <1>2, <1>3 DEF User

\* What an agent does keeps the types.
LEMMA AgentType ==
  ASSUME TypeOK, CallsAreSound, NEW n \in Nodes, Agent(n)
  PROVE  TypeOK'
  <1> USE DEF apiVars, daemonVars, boundVars
  <1>0. /\ op[n] \in Op
        /\ op[n].obj \in Object
        /\ op[n].step # "idle" => op[n].cfg \in Configs
    BY DEF TypeOK, Op, CallsAreSound
  <1>a. ASSUME NEW step \in Step, Goto(n, step)
        PROVE  op' \in [Nodes -> Op]
    BY <1>a DEF TypeOK, Goto, Op
  <1>b. ASSUME Finish(n)
        PROVE  op' \in [Nodes -> Op]
    BY <1>b, NoOpIsOp DEF TypeOK, Finish
  <1>c. ASSUME Requeue(n), op[n].cfg \in Configs
        PROVE  queue' \in [Nodes -> SUBSET Configs]
    BY <1>c DEF TypeOK, Requeue
  <1>d. ASSUME Refused(n)
        PROVE  op' \in [Nodes -> Op] /\ UNCHANGED <<api, clock, stale, events>>
    BY <1>b, <1>d DEF Refused
  <1>1. CASE Deliver(n)
    BY <1>1 DEF Deliver, TypeOK
  <1>2. ASSUME NEW c \in Configs, Get(n, c)
        PROVE  TypeOK'
    <2>0. cache[n][c] \in Object /\ "got" \in Step
      BY DEF TypeOK, Step
    <2>1. [step |-> "got", cfg |-> c, obj |-> cache[n][c],
           fresh |-> c \notin stale[n]] \in Op
      BY <2>0 DEF Op
    <2>2. op' \in [Nodes -> Op]
      BY <1>2, <2>1 DEF Get, TypeOK
    <2>3. QED
      BY <1>2, <2>2 DEF Get, TypeOK
  <1>3. CASE List(n)
    <2>0. Owns(cache[n], op[n].cfg) \in BOOLEAN
      BY DEF Owns
    <2>1. Branch(op[n].obj, Owns(cache[n], op[n].cfg)) \in Step
      BY <1>0, <2>0, BranchType
    <2>2. op' \in [Nodes -> Op]
      BY <1>3, <1>a, <1>b, <2>1 DEF List
    <2>3. QED
      BY <1>3, <2>2 DEF List, TypeOK
  <1>4. CASE AddFinalizer(n)
    <2>1. [op[n].obj EXCEPT !.fin = TRUE] \in Object
      BY <1>0 DEF Object
    <2>2. op[n].cfg \in Configs
      BY <1>0, <1>4 DEF AddFinalizer
    <2>3. QED
      BY <1>4, <2>1, <2>2, <1>c, <1>d, WriteType DEF AddFinalizer, TypeOK
  <1>5. CASE ApplyAll(n)
    <2>1. op' \in [Nodes -> Op]
      BY <1>5, <1>a DEF ApplyAll, Step
    <2>2. QED
      BY <1>5, <2>1, <1>0 DEF ApplyAll, TypeOK, Object
  <1>6. ASSUME NEW outcome \in {"applied", "failed"}, ApplySome(n, outcome)
        PROVE  TypeOK'
    <2>1. op' \in [Nodes -> Op]
      BY <1>6, <1>a DEF ApplySome, Step
    <2>2. gobgpd' \in [Nodes -> SUBSET Objects]
      BY <1>6, <1>0 DEF ApplySome, TypeOK, Object
    <2>3. applied' \in [Nodes -> Nat]
      BY <1>6, <1>0 DEF ApplySome, TypeOK, Object
    <2>4. silent' \in [Nodes -> BOOLEAN]
      BY <1>6 DEF ApplySome, TypeOK
    <2>5. QED
      BY <1>6, <2>1, <2>2, <2>3, <2>4 DEF ApplySome, TypeOK
  <1>7. CASE ReportSuccess(n)
    <2>1. [op[n].obj EXCEPT !.ready = "applied"] \in Object
      BY <1>0 DEF Object, Ready
    <2>2. op[n].cfg \in Configs
      BY <1>0, <1>7 DEF ReportSuccess
    <2>3. QED
      BY <1>7, <2>1, <2>2, <1>c, <1>d, WriteType DEF ReportSuccess, TypeOK
  <1>8. CASE ReportFailure(n)
    <2>1. [op[n].obj EXCEPT !.ready = op[n].step] \in Object
      BY <1>0, <1>8 DEF Object, Ready, ReportFailure
    <2>2. op[n].cfg \in Configs
      BY <1>0, <1>8 DEF ReportFailure
    <2>3. QED
      BY <1>8, <2>1, <2>2, <1>c, <1>d, WriteType DEF ReportFailure, TypeOK
  <1>9. CASE Cleanup(n)
    <2>1. op[n].cfg \in Configs
      BY <1>0, <1>9 DEF Cleanup
    <2>2. gobgpd' \in [Nodes -> SUBSET Objects]
      BY <1>9 DEF Cleanup, TypeOK
    <2>3. op' \in [Nodes -> Op] /\ queue' \in [Nodes -> SUBSET Configs]
      BY <1>9, <2>1, <1>a, <1>b, <1>c DEF Cleanup, Step, TypeOK
    <2>4. QED
      BY <1>9, <2>2, <2>3 DEF Cleanup, TypeOK
  <1>10. CASE CleanupFails(n)
    <2>1. op[n].cfg \in Configs
      BY <1>0, <1>10 DEF CleanupFails
    <2>2. QED
      <3>1. gobgpd' \in [Nodes -> SUBSET Objects]
        BY <1>10 DEF CleanupFails, TypeOK
      <3>2. op' \in [Nodes -> Op] /\ queue' \in [Nodes -> SUBSET Configs]
        BY <1>10, <2>1, <1>b, <1>c DEF CleanupFails
      <3>3. faults' \in 0..MaxFaults
        BY <1>10 DEF CleanupFails, TypeOK
      <3>4. QED
        BY <1>10, <3>1, <3>2, <3>3 DEF CleanupFails, TypeOK
  <1>11. CASE RemoveFinalizer(n)
    <2>1. op[n].cfg \in Configs
      BY <1>0, <1>11 DEF RemoveFinalizer
    <2>2. QED
      BY <1>11, <2>1, <1>c, <1>d, GoneIsObject, WriteType
      DEF RemoveFinalizer, TypeOK, Notify
  <1>12. CASE Restart(n)
    BY <1>12, NoOpIsOp DEF Restart, TypeOK, Live
  <1>13. CASE CallFails(n)
    <2>1. op' \in [Nodes -> Op] /\ queue' \in [Nodes -> SUBSET Configs]
      BY <1>0, <1>13, <1>b, <1>c DEF CallFails
    <2>2. faults' \in 0..MaxFaults
      BY <1>13 DEF CallFails, TypeOK
    <2>3. QED
      BY <1>13, <2>1, <2>2 DEF CallFails, TypeOK
  <1>14. QED
    BY <1>1, <1>2, <1>3, <1>4, <1>5, <1>6, <1>7, <1>8, <1>9, <1>10, <1>11,
       <1>12, <1>13
    DEF Agent, Proceed, Fault, ApplyFails

(***************************************************************************)
(* Copies are current, calls are sound.                                    *)
(***************************************************************************)

\* A write to c outdates the calls for c and changes nothing else in a call.
LEMMA OutdatedOpsFacts ==
  ASSUME TypeOK, NEW c, NEW m \in Nodes
  PROVE  /\ OutdatedOps(c)[m].step = op[m].step
         /\ OutdatedOps(c)[m].cfg = op[m].cfg
         /\ OutdatedOps(c)[m].obj = op[m].obj
         /\ OutdatedOps(c)[m].fresh => op[m].fresh /\ op[m].cfg # c
  <1>1. op[m] \in Op
    BY DEF TypeOK
  <1>2. CASE op[m].cfg = c
    <2>1. OutdatedOps(c)[m] = [op[m] EXCEPT !.fresh = FALSE]
      BY <1>2 DEF OutdatedOps
    <2>2. QED
      BY <1>1, <2>1 DEF Op
  <1>3. CASE op[m].cfg # c
    BY <1>3 DEF OutdatedOps
  <1>4. QED
    BY <1>2, <1>3

\* What the users do keeps the rest of the invariant.
LEMMA UserKeeps ==
  ASSUME IInv, User
  PROVE  CopiesAreCurrent' /\ CallsAreSound'
  <1>1. PICK c, obj : c \in Configs /\ UserWrite(c, obj)
    BY DEF User, Create, Edit, Delete
  <1>2. CopiesAreCurrent'
    <2>1. ASSUME NEW m \in Nodes, NEW d \in Configs \ stale'[m]
          PROVE  cache'[m][d] = api'[d]
      BY <1>1, <2>1 DEF IInv, TypeOK, CopiesAreCurrent, UserWrite, Outdate
    <2>2. ASSUME NEW m \in Nodes, op'[m].fresh
          PROVE  op'[m].cfg \in Configs /\ op'[m].obj = api'[op'[m].cfg]
      <3>1. /\ op[m].fresh /\ op[m].cfg # c
            /\ op'[m].cfg = op[m].cfg /\ op'[m].obj = op[m].obj
        BY <1>1, <2>2, OutdatedOpsFacts DEF UserWrite, IInv
      <3>2. QED
        BY <1>1, <3>1 DEF IInv, TypeOK, CopiesAreCurrent, UserWrite
    <2>3. QED
      BY <2>1, <2>2 DEF CopiesAreCurrent
  <1>3. CallsAreSound'
    <2> SUFFICES ASSUME NEW m \in Nodes
                 PROVE  /\ op'[m].step = op[m].step
                        /\ op'[m].cfg = op[m].cfg
                        /\ op'[m].obj = op[m].obj
                        /\ gobgpd'[m] = gobgpd[m]
      BY DEF CallsAreSound, IInv
    <2> QED
      BY <1>1, OutdatedOpsFacts DEF UserWrite, IInv, daemonVars
  <1>4. QED
    BY <1>2, <1>3

\* An accepted write of agent n keeps the rest of the invariant.
LEMMA WriteKeeps ==
  ASSUME IInv, NEW n \in Nodes, NEW obj, Write(n, obj),
         UNCHANGED <<cache, gobgpd>>
  PROVE  CopiesAreCurrent' /\ CallsAreSound'
  <1> DEFINE c == op[n].cfg
  <1>0. OutdatedOps(c) \in [Nodes -> Op]
    BY OutdatedOpsType DEF IInv
  <1>1. /\ op'[n] = NoOp
        /\ \A m \in Nodes \ {n} : op'[m] = OutdatedOps(c)[m]
    BY <1>0 DEF Write
  <1>2. /\ NoOp.step = "idle"
        /\ NoOp.fresh = FALSE
    BY DEF NoOp
  <1>3. CopiesAreCurrent'
    <2>1. ASSUME NEW m \in Nodes, NEW d \in Configs \ stale'[m]
          PROVE  cache'[m][d] = api'[d]
      BY <2>1 DEF IInv, TypeOK, CopiesAreCurrent, Write, Outdate
    <2>2. ASSUME NEW m \in Nodes, op'[m].fresh
          PROVE  op'[m].cfg \in Configs /\ op'[m].obj = api'[op'[m].cfg]
      <3>0. m # n
        BY <1>1, <1>2, <2>2
      <3>1. /\ op[m].fresh /\ op[m].cfg # c
            /\ op'[m].cfg = op[m].cfg /\ op'[m].obj = op[m].obj
        BY <1>1, <2>2, <3>0, OutdatedOpsFacts DEF IInv
      <3>2. api'[op[m].cfg] = api[op[m].cfg] /\ op[m].cfg \in Configs
        BY <3>1 DEF Write, IInv, TypeOK, CopiesAreCurrent
      <3>3. QED
        BY <3>1, <3>2 DEF IInv, CopiesAreCurrent
    <2>3. QED
      BY <2>1, <2>2 DEF CopiesAreCurrent
  <1>4. CallsAreSound'
    <2>1. ASSUME NEW m \in Nodes, m # n
          PROVE  /\ op'[m].step = op[m].step
                 /\ op'[m].cfg = op[m].cfg
                 /\ op'[m].obj = op[m].obj
                 /\ gobgpd'[m] = gobgpd[m]
      BY <1>1, <2>1, OutdatedOpsFacts DEF IInv
    <2>2. QED
      BY <1>1, <1>2, <2>1 DEF CallsAreSound, IInv
  <1>5. QED
    BY <1>3, <1>4

\* A call that returns without a write keeps the rest of the invariant.
LEMMA FinishKeeps ==
  ASSUME IInv, NEW n \in Nodes, Finish(n),
         UNCHANGED <<api, cache, stale>>,
         \A m \in Nodes \ {n} : gobgpd'[m] = gobgpd[m]
  PROVE  CopiesAreCurrent' /\ CallsAreSound'
  <1>1. /\ op'[n] = NoOp
        /\ \A m \in Nodes \ {n} : op'[m] = op[m]
    BY DEF Finish, IInv, TypeOK
  <1>2. /\ NoOp.step = "idle"
        /\ NoOp.fresh = FALSE
    BY DEF NoOp
  <1>3. QED
    BY <1>1, <1>2 DEF IInv, CopiesAreCurrent, CallsAreSound

\* A call that goes to a step for which it is sound keeps the rest.
LEMMA GotoKeeps ==
  ASSUME IInv, NEW n \in Nodes, NEW step \in Step, Goto(n, step),
         UNCHANGED <<api, cache, stale>>,
         \A m \in Nodes \ {n} : gobgpd'[m] = gobgpd[m],
         op[n].cfg \in Configs,
         step \in {"apply", "applied", "failed", "cleanup", "release"}
            => op[n].obj.fin,
         step = "release" => gobgpd'[n] \cap op[n].obj.spec = {}
  PROVE  CopiesAreCurrent' /\ CallsAreSound'
  <1>0. op[n] \in Op
    BY DEF IInv, TypeOK
  <1>1. /\ op'[n] = [op[n] EXCEPT !.step = step]
        /\ \A m \in Nodes \ {n} : op'[m] = op[m]
    BY DEF Goto, IInv, TypeOK
  <1>2. /\ op'[n].step = step
        /\ op'[n].cfg = op[n].cfg
        /\ op'[n].obj = op[n].obj
        /\ op'[n].fresh = op[n].fresh
    BY <1>0, <1>1 DEF Op
  <1>3. CopiesAreCurrent'
    <2> SUFFICES ASSUME NEW m \in Nodes
                 PROVE  /\ \A c \in Configs \ stale[m] : cache[m][c] = api[c]
                        /\ op'[m].fresh => /\ op'[m].cfg \in Configs
                                           /\ op'[m].obj = api[op'[m].cfg]
      BY DEF CopiesAreCurrent
    <2>1. /\ \A c \in Configs \ stale[m] : cache[m][c] = api[c]
          /\ op[m].fresh => op[m].cfg \in Configs /\ op[m].obj = api[op[m].cfg]
      BY DEF IInv, CopiesAreCurrent
    <2>2. QED
      BY <1>1, <1>2, <2>1
  <1>4. CallsAreSound'
    BY <1>1, <1>2 DEF IInv, CallsAreSound
  <1>5. QED
    BY <1>3, <1>4

\* Reconcile programs or cleans up only objects that carry the finalizer.
LEMMA BranchNeedsFinalizer ==
  ASSUME NEW obj \in Object, NEW owned \in BOOLEAN
  PROVE  /\ Branch(obj, owned) \in {"apply", "cleanup"} => obj.fin
         /\ Branch(obj, owned) \notin {"applied", "failed", "release"}
  BY DEF Branch, Object

\* What an agent does keeps the rest of the invariant.
LEMMA AgentKeeps ==
  ASSUME IInv, NEW n \in Nodes, Agent(n)
  PROVE  CopiesAreCurrent' /\ CallsAreSound'
  <1> USE DEF apiVars, daemonVars, boundVars
  <1>0. /\ op[n] \in Op
        /\ op[n].obj \in Object
        /\ op[n].step # "idle" => op[n].cfg \in Configs
    BY DEF IInv, TypeOK, Op, CallsAreSound
  <1>d. ASSUME Refused(n), UNCHANGED <<cache, gobgpd>>
        PROVE  CopiesAreCurrent' /\ CallsAreSound'
    BY <1>d, FinishKeeps DEF Refused
  <1>1. CASE Deliver(n)
    BY <1>1 DEF Deliver, IInv, TypeOK, CopiesAreCurrent, CallsAreSound
  <1>2. ASSUME NEW c \in Configs, Get(n, c)
        PROVE  CopiesAreCurrent' /\ CallsAreSound'
    <2>1. CASE cache[n][c].live
      <3> DEFINE call == [step |-> "got", cfg |-> c, obj |-> cache[n][c],
                          fresh |-> c \notin stale[n]]
      <3>1. op'[n] = call /\ \A m \in Nodes \ {n} : op'[m] = op[m]
        BY <1>2, <2>1 DEF Get, IInv, TypeOK
      <3>2. /\ call.step = "got" /\ call.cfg = c
            /\ call.obj = cache[n][c]
            /\ call.fresh = (c \notin stale[n])
        OBVIOUS
      <3>3. UNCHANGED <<api, cache, stale, gobgpd>>
        BY <1>2 DEF Get
      <3> HIDE DEF call
      <3>4. CopiesAreCurrent'
        <4>1. call.fresh => call.obj = api[c]
          BY <3>2 DEF IInv, CopiesAreCurrent
        <4>2. ASSUME NEW m \in Nodes, op'[m].fresh
              PROVE  op'[m].cfg \in Configs /\ op'[m].obj = api'[op'[m].cfg]
          BY <3>1, <3>2, <3>3, <4>1, <4>2 DEF IInv, CopiesAreCurrent
        <4>3. ASSUME NEW m \in Nodes, NEW d \in Configs \ stale'[m]
              PROVE  cache'[m][d] = api'[d]
          BY <3>3 DEF IInv, CopiesAreCurrent
        <4>4. QED
          BY <4>2, <4>3 DEF CopiesAreCurrent
      <3>5. CallsAreSound'
        BY <3>1, <3>2, <3>3 DEF IInv, CallsAreSound
      <3>6. QED
        BY <3>4, <3>5
    <2>2. CASE ~cache[n][c].live
      BY <1>2, <2>2 DEF Get, IInv, CopiesAreCurrent, CallsAreSound
    <2>3. QED
      BY <2>1, <2>2
  <1>3. CASE List(n)
    <2> DEFINE step == Branch(op[n].obj, Owns(cache[n], op[n].cfg))
    <2>0. Owns(cache[n], op[n].cfg) \in BOOLEAN
      BY DEF Owns
    <2>1. /\ step \in Step
          /\ step \in {"apply", "cleanup"} => op[n].obj.fin
          /\ step \notin {"applied", "failed", "release"}
      BY <1>0, <2>0, BranchType, BranchNeedsFinalizer
    <2>2. /\ UNCHANGED <<api, cache, stale, gobgpd>>
          /\ op[n].cfg \in Configs
          /\ IF step = "idle" THEN Finish(n) ELSE Goto(n, step)
      BY <1>0, <1>3 DEF List
    <2> HIDE DEF step
    <2>3. QED
      BY <2>1, <2>2, FinishKeeps, GotoKeeps
  <1>4. CASE AddFinalizer(n)
    BY <1>4, <1>d, WriteKeeps DEF AddFinalizer
  <1>5. CASE ApplyAll(n)
    <2>1. /\ UNCHANGED <<api, cache, stale>>
          /\ \A m \in Nodes \ {n} : gobgpd'[m] = gobgpd[m]
          /\ op[n].cfg \in Configs /\ op[n].obj.fin
      BY <1>0, <1>5 DEF ApplyAll, IInv, TypeOK, CallsAreSound
    <2>2. Goto(n, "applied") /\ "applied" \in Step
      BY <1>5 DEF ApplyAll, Step
    <2>3. QED
      BY <2>1, <2>2, GotoKeeps
  <1>6. ASSUME NEW outcome \in {"applied", "failed"}, ApplySome(n, outcome)
        PROVE  CopiesAreCurrent' /\ CallsAreSound'
    <2>1. /\ UNCHANGED <<api, cache, stale>>
          /\ \A m \in Nodes \ {n} : gobgpd'[m] = gobgpd[m]
          /\ op[n].cfg \in Configs /\ op[n].obj.fin
      BY <1>0, <1>6 DEF ApplySome, IInv, TypeOK, CallsAreSound
    <2>2. Goto(n, outcome) /\ outcome \in Step /\ outcome # "release"
      BY <1>6 DEF ApplySome, Step
    <2>3. QED
      BY <2>1, <2>2, GotoKeeps
  <1>7. CASE ReportSuccess(n)
    BY <1>7, <1>d, WriteKeeps DEF ReportSuccess
  <1>8. CASE ReportFailure(n)
    BY <1>8, <1>d, WriteKeeps DEF ReportFailure
  <1>9. CASE Cleanup(n)
    <2>1. /\ UNCHANGED <<api, cache, stale>>
          /\ \A m \in Nodes \ {n} : gobgpd'[m] = gobgpd[m]
          /\ gobgpd'[n] \cap op[n].obj.spec = {}
          /\ op[n].cfg \in Configs /\ op[n].obj.fin
      BY <1>0, <1>9 DEF Cleanup, IInv, TypeOK, CallsAreSound
    <2>2. Goto(n, "release") \/ Finish(n)
      BY <1>9 DEF Cleanup
    <2>3. "release" \in Step
      BY DEF Step
    <2>4. QED
      BY <2>1, <2>2, <2>3, FinishKeeps, GotoKeeps
  <1>10. CASE CleanupFails(n)
    <2>1. /\ Finish(n)
          /\ UNCHANGED <<api, cache, stale>>
          /\ \A m \in Nodes \ {n} : gobgpd'[m] = gobgpd[m]
      BY <1>10 DEF CleanupFails, IInv, TypeOK
    <2>2. QED
      BY <2>1, FinishKeeps
  <1>11. CASE RemoveFinalizer(n)
    BY <1>11, <1>d, WriteKeeps DEF RemoveFinalizer
  <1>12. CASE Restart(n)
    <2>1. /\ op'[n] = NoOp
          /\ cache'[n] = api /\ stale'[n] = {}
          /\ \A m \in Nodes \ {n} :
                /\ op'[m] = op[m] /\ gobgpd'[m] = gobgpd[m]
                /\ cache'[m] = cache[m] /\ stale'[m] = stale[m]
          /\ api' = api
      BY <1>12 DEF Restart, IInv, TypeOK
    <2>2. NoOp.step = "idle" /\ NoOp.fresh = FALSE
      BY DEF NoOp
    <2>3. CopiesAreCurrent'
      <3>1. ASSUME NEW m \in Nodes, NEW d \in Configs \ stale'[m]
            PROVE  cache'[m][d] = api'[d]
        BY <2>1 DEF IInv, CopiesAreCurrent
      <3>2. ASSUME NEW m \in Nodes, op'[m].fresh
            PROVE  op'[m].cfg \in Configs /\ op'[m].obj = api'[op'[m].cfg]
        BY <2>1, <2>2, <3>2 DEF IInv, CopiesAreCurrent
      <3>3. QED
        BY <3>1, <3>2 DEF CopiesAreCurrent
    <2>4. CallsAreSound'
      BY <2>1, <2>2 DEF IInv, CallsAreSound
    <2>5. QED
      BY <2>3, <2>4
  <1>13. CASE CallFails(n)
    <2>1. /\ Finish(n)
          /\ UNCHANGED <<api, cache, stale>>
          /\ \A m \in Nodes \ {n} : gobgpd'[m] = gobgpd[m]
      BY <1>13 DEF CallFails
    <2>2. QED
      BY <2>1, FinishKeeps
  <1>14. QED
    BY <1>1, <1>2, <1>3, <1>4, <1>5, <1>6, <1>7, <1>8, <1>9, <1>10, <1>11,
       <1>12, <1>13
    DEF Agent, Proceed, Fault, ApplyFails

(***************************************************************************)
(* The theorems.                                                           *)
(***************************************************************************)

\* The inductive invariant holds in every reachable state: every copy an
\* agent believes current is the API server's, and every Reconcile call in
\* progress is sound, however users, watches, agents and faults interleave.
THEOREM Invariance == Spec => []IInv
  <1>1. Init => IInv
    <2>1. NoOp.step = "idle" /\ NoOp.fresh = FALSE
      BY DEF NoOp
    <2>2. Init => CopiesAreCurrent /\ CallsAreSound
      BY <2>1 DEF Init, CopiesAreCurrent, CallsAreSound
    <2>3. QED
      BY <2>2, InitType DEF IInv
  <1>2. IInv /\ [Next]_vars => IInv'
    <2>1. ASSUME IInv, User
          PROVE  IInv'
      BY <2>1, UserType, UserKeeps DEF IInv
    <2>2. ASSUME IInv, NEW n \in Nodes, Agent(n)
          PROVE  IInv'
      BY <2>2, AgentType, AgentKeeps DEF IInv
    <2>3. ASSUME IInv, UNCHANGED vars
          PROVE  IInv'
      BY <2>3 DEF IInv, TypeOK, CopiesAreCurrent, CallsAreSound, vars
    <2>4. QED
      BY <2>1, <2>2, <2>3 DEF Next
  <1>3. QED
    BY <1>1, <1>2, PTL DEF Spec

\* Every variable keeps its type, whatever the number of nodes and objects.
THEOREM TypeCorrect == Spec => []TypeOK
  <1>1. IInv => TypeOK
    BY DEF IInv
  <1>2. QED
    BY <1>1, Invariance, PTL

\* reconcileDelete's promise, "remove finalizer only after successful
\* cleanup", on the node that keeps it: when the API server would accept the
\* removal, that node's gobgpd holds nothing the stored specification names,
\* even if users edited the specification while the cleanup was running.
THEOREM ReleaseClean == Spec => []ReleaseIsClean
  <1>1. IInv => ReleaseIsClean
    BY DEF IInv, CopiesAreCurrent, CallsAreSound, ReleaseIsClean
  <1>2. QED
    BY <1>1, Invariance, PTL

\* gobgpd is programmed and cleaned up only from objects that carry the
\* finalizer, in the copy and, while the copy is current, in the API server.
THEOREM UnderFinalizer == Spec => []ProgramsUnderFinalizer
  <1>1. IInv => ProgramsUnderFinalizer
    BY DEF IInv, CopiesAreCurrent, CallsAreSound, ProgramsUnderFinalizer
  <1>2. QED
    BY <1>1, Invariance, PTL

\* Agents write whole objects back, yet no agent ever undoes an edit or a
\* deletion by a user: optimistic concurrency covers all their writes.
THEOREM UserWritesSurvive == Spec => AgentsKeepUserWrites
  <1> DEFINE Keeps == \A c \in Configs :
                api'[c].live => /\ api'[c].spec = api[c].spec
                                /\ api'[c].uid = api[c].uid
                                /\ api'[c].deleting = api[c].deleting
  <1>1. ASSUME IInv, NEW n \in Nodes, NEW obj \in Object, Write(n, obj),
               \/ obj = Gone
               \/ /\ obj.spec = op[n].obj.spec
                  /\ obj.uid = op[n].obj.uid
                  /\ obj.deleting = op[n].obj.deleting
        PROVE  Keeps
    <2>1. /\ op[n].cfg \in Configs
          /\ op[n].obj = api[op[n].cfg]
          /\ api' = [api EXCEPT ![op[n].cfg] = obj]
      BY <1>1 DEF IInv, CopiesAreCurrent, Write
    <2>2. api \in [Configs -> Object] /\ ~Gone.live
      BY <1>1 DEF IInv, TypeOK, Gone
    <2>3. QED
      BY <1>1, <2>1, <2>2
  <1>2. ASSUME IInv, NEW n \in Nodes, Agent(n)
        PROVE  Keeps
    <2>0. op[n].obj \in Object
      BY <1>2 DEF IInv, TypeOK, Op
    <2>1. CASE AddFinalizer(n)
      <3>1. [op[n].obj EXCEPT !.fin = TRUE] \in Object
        BY <2>0 DEF Object
      <3>2. /\ [op[n].obj EXCEPT !.fin = TRUE].spec = op[n].obj.spec
            /\ [op[n].obj EXCEPT !.fin = TRUE].uid = op[n].obj.uid
            /\ [op[n].obj EXCEPT !.fin = TRUE].deleting = op[n].obj.deleting
        BY <2>0 DEF Object
      <3>3. QED
        BY <1>1, <1>2, <2>1, <3>1, <3>2 DEF AddFinalizer, Refused, apiVars
    <2>2. ASSUME NEW ready \in Ready,
                 Write(n, [op[n].obj EXCEPT !.ready = ready])
          PROVE  Keeps
      <3>1. [op[n].obj EXCEPT !.ready = ready] \in Object
        BY <2>0 DEF Object
      <3>2. /\ [op[n].obj EXCEPT !.ready = ready].spec = op[n].obj.spec
            /\ [op[n].obj EXCEPT !.ready = ready].uid = op[n].obj.uid
            /\ [op[n].obj EXCEPT !.ready = ready].deleting
                    = op[n].obj.deleting
        BY <2>0 DEF Object
      <3>3. QED
        BY <1>1, <1>2, <2>2, <3>1, <3>2
    <2>3. CASE ReportSuccess(n)
      <3>1. "applied" \in Ready
        BY DEF Ready
      <3>2. QED
        BY <2>2, <2>3, <3>1 DEF ReportSuccess, Refused, apiVars
    <2>4. CASE ReportFailure(n)
      <3>1. op[n].step \in Ready
        BY <2>4 DEF Ready, ReportFailure
      <3>2. QED
        BY <2>2, <2>4, <3>1 DEF ReportFailure, Refused, apiVars
    <2>5. CASE RemoveFinalizer(n)
      BY <1>1, <1>2, <2>5, GoneIsObject DEF RemoveFinalizer, Refused, apiVars
    <2>6. CASE UNCHANGED api
      BY <2>6
    <2>7. QED
      BY <1>2, <2>1, <2>3, <2>4, <2>5, <2>6
      DEF Agent, Proceed, Fault, ApplyFails, ApplySome,
          ApplyAll, Cleanup, CleanupFails, CallFails, Deliver, Get, List, Restart,
          apiVars
  <1>3. ASSUME IInv, User
        PROVE  ~AgentStep
    <2>1. PICK c, obj : c \in Configs /\ UserWrite(c, obj)
      BY <1>3 DEF User, Create, Edit, Delete
    <2>2. QED
      BY <1>3, <2>1, OutdatedOpsFacts DEF UserWrite, AgentStep, IInv
  <1>4. IInv /\ [Next]_vars => [AgentStep => Keeps]_vars
    BY <1>2, <1>3 DEF Next
  <1>5. QED
    BY <1>4, Invariance, PTL DEF Spec, AgentsKeepUserWrites
=============================================================================
