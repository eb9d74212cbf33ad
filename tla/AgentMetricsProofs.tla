------------------------- MODULE AgentMetricsProofs -------------------------
(***************************************************************************)
(* Theorems about the series agents export, for any set of nodes, objects  *)
(* and configurations and any bounds.                                      *)
(***************************************************************************)
EXTENDS AgentMetrics, ConfigElectionProofs

USE ConfigsAssumption, ObjectsAssumption, SwitchAssumption, BoundsAssumption

SeriesType == series \in [Nodes -> [Configs -> Series]]

(***************************************************************************)
(* An agent with a call in progress, a work queue q and undelivered events *)
(* ev exports ser.  What it has nothing left to do for is exported as it   *)
(* is, and a pass that is about to be reported has been counted.           *)
(***************************************************************************)
Exported(call, q, ev, ser, objs) ==
    /\ \A c \in Configs :
        c \notin q \cup ev /\ call.cfg # c =>
            IF objs[c].live
            THEN ser[c].ready = "up" /\ ser[c].counts = "wholly" /\ ser[c].of = objs[c].spec
            ELSE ser[c] = NoSeries
    /\ call.step = "applied" =>
        ser[call.cfg].counts = "wholly" /\ ser[call.cfg].of = call.obj.spec

ExportsAreCurrent ==
    \A n \in Nodes : Exported(op[n], queue[n], events[n], series[n], api)

MInv == PInv /\ SeriesType /\ ExportsAreCurrent

(***************************************************************************)
(* The composition takes only steps of ConfigLifecycle.                    *)
(***************************************************************************)
LEMMA AgentNextIsAgent ==
  ASSUME NEW n \in Nodes, AgentNext(n)
  PROVE  Agent(n)
  BY DEF AgentNext, Getting, Applying, Reporting, Releasing, Failing, Restarting,
         Agent, Proceed, Fault

\* A user's step touches no series.
LEMMA UserNextIsUser ==
  ASSUME UserNext
  PROVE  User /\ UNCHANGED series
  BY DEF UserNext, User, Same

\* The agent with its metrics is the agent: what is proved of the objects
\* holds here too.
LEMMA MetricsSimulates == MetricsSpec => Spec
  <1>1. MetricsInit => Init
    BY DEF MetricsInit
  <1>2. [MetricsNext]_allVars => [Next]_vars
    BY AgentNextIsAgent, UserNextIsUser DEF MetricsNext, Next, allVars
  <1>3. QED
    BY <1>1, <1>2, PTL DEF MetricsSpec, Spec

\* An object without series has the type of one.
LEMMA NoSeriesIsSeries == NoSeries \in Series
  BY DEF NoSeries, Series

\* What a change of the series of one object does: its gauge, its counts, or
\* all of it.
LEMMA ReadyEffect ==
  ASSUME SeriesType, NEW n \in Nodes, op[n].cfg \in Configs,
         NEW value \in {"up", "down"}, SetReady(n, value)
  PROVE  /\ SeriesType'
         /\ series'[n][op[n].cfg] = [series[n][op[n].cfg] EXCEPT !.ready = value]
         /\ \A d \in Configs \ {op[n].cfg} : series'[n][d] = series[n][d]
         /\ \A m \in Nodes \ {n} : series'[m] = series[m]
  <1>1. series[n][op[n].cfg] \in Series
    BY DEF SeriesType
  <1>2. [series[n][op[n].cfg] EXCEPT !.ready = value] \in Series
    BY <1>1 DEF Series
  <1>3. QED
    BY <1>2 DEF SetReady, SeriesType

\* The counts of one object.
LEMMA CountEffect ==
  ASSUME SeriesType, NEW n \in Nodes, op[n].cfg \in Configs,
         NEW counts \in {"partly", "wholly"}, NEW spec \in SUBSET Objects,
         SetCounted(n, counts, spec)
  PROVE  /\ SeriesType'
         /\ series'[n][op[n].cfg].counts = counts /\ series'[n][op[n].cfg].of = spec
         /\ \A d \in Configs \ {op[n].cfg} : series'[n][d] = series[n][d]
         /\ \A m \in Nodes \ {n} : series'[m] = series[m]
  <1> DEFINE c == op[n].cfg
             new == [[series[n][c] EXCEPT !.counts = counts] EXCEPT !.of = spec]
  <1>1. series[n][c] \in Series
    BY DEF SeriesType
  <1>2. new \in Series /\ new.counts = counts /\ new.of = spec
    BY <1>1 DEF Series
  <1>3. series' = [series EXCEPT ![n] = [series[n] EXCEPT ![c] = new]]
    BY DEF SetCounted, SeriesType
  <1> HIDE DEF new
  <1>4. QED
    BY <1>2, <1>3 DEF SeriesType

\* All series of one object.
LEMMA DropEffect ==
  ASSUME SeriesType, NEW n \in Nodes, NEW c \in Configs, Drop(n, c)
  PROVE  /\ SeriesType'
         /\ series'[n][c] = NoSeries
         /\ \A d \in Configs \ {c} : series'[n][d] = series[n][d]
         /\ \A m \in Nodes \ {n} : series'[m] = series[m]
  BY NoSeriesIsSeries DEF Drop, SeriesType

(***************************************************************************)
(* The steps.                                                              *)
(***************************************************************************)

\* An agent announces the object it removes; what else it writes, the watch
\* predicate does not look at.
LEMMA AgentAnnounces ==
  ASSUME IInv, NEW n \in Nodes, Agent(n)
  PROVE  \A m \in Nodes : Announced(api, api', events'[m])
  <1>0. op[n].obj \in Object
    BY CallTypes
  <1>u. ASSUME UNCHANGED api
        PROVE  \A m \in Nodes : Announced(api, api', events'[m])
    BY <1>u DEF Announced, Alike
  <1>w. ASSUME NEW obj, Write(n, obj), Alike(op[n].obj, obj)
        PROVE  \A m \in Nodes : Announced(api, api', events'[m])
    BY <1>w, WriteAnnounces
  <1>1. CASE AddFinalizer(n)
    <2>1. Alike(op[n].obj, [op[n].obj EXCEPT !.fin = TRUE])
      BY <1>0 DEF Alike, Object
    <2>2. QED
      BY <1>1, <1>u, <1>w, <2>1 DEF AddFinalizer, Refused, apiVars
  <1>2. CASE ReportSuccess(n)
    <2>1. Alike(op[n].obj, [op[n].obj EXCEPT !.ready = "applied"])
      BY <1>0 DEF Alike, Object
    <2>2. QED
      BY <1>2, <1>u, <1>w, <2>1 DEF ReportSuccess, Refused, apiVars
  <1>3. CASE ReportFailure(n)
    <2>1. Alike(op[n].obj, [op[n].obj EXCEPT !.ready = op[n].step])
      BY <1>0 DEF Alike, Object
    <2>2. QED
      BY <1>3, <1>u, <1>w, <2>1 DEF ReportFailure, Refused, apiVars
  <1>4. CASE RemoveFinalizer(n)
    <2>1. CASE Write(n, Gone) /\ Notify(op[n].cfg)
      <3>1. \A m \in Nodes : op[n].cfg \in events'[m]
        BY <2>1 DEF Notify
      <3>2. QED
        BY <2>1, <3>1, WriteAnnounces
    <2>2. CASE Refused(n)
      BY <1>u, <2>2 DEF Refused, apiVars
    <2>3. QED
      BY <1>4, <2>1, <2>2 DEF RemoveFinalizer
  <1>5. CASE UNCHANGED api
    BY <1>u, <1>5
  <1>6. QED
    BY <1>1, <1>2, <1>3, <1>4, <1>5
    DEF Agent, Proceed, Fault, ApplyFails, ApplySome, ApplyAll, Cleanup, CleanupFails,
        CallFails, Deliver, Get, List, Restart, apiVars

\* An agent that takes no step exports what it did.
LEMMA ExportedIdly ==
  ASSUME NEW objs, NEW after, NEW call, NEW next, NEW q, NEW ev, NEW more, NEW ser,
         Announced(objs, after, more), ev \subseteq more,
         next.step = call.step /\ next.obj = call.obj /\ next.cfg = call.cfg,
         Exported(call, q, ev, ser, objs)
  PROVE  Exported(next, q, more, ser, after)
  BY DEF Exported, Announced, Alike

\* A call that goes on, whatever it exports of its object meanwhile.
LEMMA ExportedGoingOn ==
  ASSUME NEW objs, NEW call, NEW next, NEW q, NEW ev, NEW ser, NEW new,
         next.cfg = call.cfg,
         \A d \in Configs \ {call.cfg} : new[d] = ser[d],
         next.step = "applied" => /\ new[next.cfg].counts = "wholly"
                                  /\ new[next.cfg].of = next.obj.spec,
         Exported(call, q, ev, ser, objs)
  PROVE  Exported(next, q, ev, new, objs)
  BY DEF Exported

\* A call that returns and comes back, or whose object is announced.
LEMMA ExportedWhenBack ==
  ASSUME NEW objs, NEW after, NEW call, NEW q, NEW back, NEW ev, NEW more, NEW ser, NEW new,
         \A d \in Configs \ {call.cfg} : new[d] = ser[d],
         q \subseteq back, ev \subseteq more, call.cfg \in back \cup more,
         Announced(objs, after, more),
         Exported(call, q, ev, ser, objs)
  PROVE  Exported(NoOp, back, more, new, after)
  <1>1. NoOp.step # "applied"
    BY NoOpFields
  <1>2. QED
    BY <1>1 DEF Exported, Announced, Alike

\* A step of one agent that leaves its own exports right leaves all right.
LEMMA ExportStep ==
  ASSUME MInv, PInv', SeriesType', NEW n \in Nodes, Agent(n),
         \A m \in Nodes \ {n} : series'[m] = series[m],
         Exported(op'[n], queue'[n], events'[n], series'[n], api')
  PROVE  MInv'
  <1>0. IInv
    BY DEF MInv, PInv, EInv
  <1>1. ASSUME NEW m \in Nodes, m # n
        PROVE  Exported(op'[m], queue'[m], events'[m], series'[m], api')
    <2>1. Exported(op[m], queue[m], events[m], series[m], api)
      BY DEF MInv, ExportsAreCurrent
    <2>2. /\ op'[m].step = op[m].step /\ op'[m].cfg = op[m].cfg /\ op'[m].obj = op[m].obj
          /\ queue'[m] = queue[m] /\ series'[m] = series[m]
          /\ events[m] \subseteq events'[m] /\ Announced(api, api', events'[m])
      BY <1>0, <1>1, OthersRest, AgentAnnounces
    <2>3. QED
      BY <2>1, <2>2, ExportedIdly
  <1>2. QED
    BY <1>1 DEF MInv, ExportsAreCurrent

\* The users' steps: what they change is announced.
LEMMA UserExports ==
  ASSUME MInv, UserNext, PInv'
  PROVE  MInv'
  <1>0. IInv /\ User /\ UNCHANGED series
    BY UserNextIsUser DEF MInv, PInv, EInv
  <1>1. PICK c, obj : c \in Configs /\ UserWrite(c, obj)
    BY <1>0 DEF User, Create, Edit, Delete
  <1>2. /\ \A d \in Configs \ {c} : api'[d] = api[d]
        /\ \A m \in Nodes : /\ op'[m].step = op[m].step
                            /\ op'[m].cfg = op[m].cfg
                            /\ op'[m].obj = op[m].obj
        /\ \A m \in Nodes : events'[m] = events[m] \cup {c}
        /\ UNCHANGED queue
    BY <1>0, <1>1, UserWriteEffect
  <1>3. ASSUME NEW m \in Nodes
        PROVE  Exported(op'[m], queue'[m], events'[m], series'[m], api')
    <2>1. Exported(op[m], queue[m], events[m], series[m], api)
      BY DEF MInv, ExportsAreCurrent
    <2>2. Announced(api, api', events'[m]) /\ events[m] \subseteq events'[m]
      BY <1>2 DEF Announced, Alike
    <2>3. QED
      BY <1>0, <1>2, <2>1, <2>2, ExportedIdly
  <1>4. QED
    BY <1>0, <1>3 DEF MInv, SeriesType, ExportsAreCurrent

\* The agents' steps.
LEMMA AgentExports ==
  ASSUME MInv, NEW n \in Nodes, AgentNext(n), PInv'
  PROVE  MInv'
  <1> USE DEF apiVars, daemonVars, boundVars, Same
  <1>0. /\ IInv /\ TypeOK /\ EInv /\ SeriesType /\ Agent(n)
        /\ op[n] \in Op /\ op[n].obj \in Object
        /\ op[n].step # "idle" => op[n].cfg \in Configs
        /\ Exported(op[n], queue[n], events[n], series[n], api)
        /\ Notices(op[n], cache[n], queue[n], events[n], api)
        /\ op[n].obj.spec \in SUBSET Objects
    BY CallTypes, AgentNextIsAgent
    DEF MInv, PInv, EInv, IInv, ExportsAreCurrent, NothingIsForgotten, Attending, Object
  <1>n. NoOp.step = "idle" /\ NoOp.cfg = None /\ None \notin Configs
    BY NoOpFields DEF None
  <1>u. UNCHANGED series => SeriesType' /\ \A m \in Nodes : series'[m] = series[m]
    BY <1>0 DEF SeriesType
  <1>e. \A m \in Nodes : Announced(api, api', events'[m])
    BY <1>0, AgentAnnounces
  <1> DEFINE Touched == /\ SeriesType'
                        /\ \A d \in Configs \ {op[n].cfg} : series'[n][d] = series[n][d]
                        /\ \A m \in Nodes \ {n} : series'[m] = series[m]
  <1>c. ASSUME op[n].step # "idle",
               \/ UNCHANGED series
               \/ SetReady(n, "up") \/ SetReady(n, "down")
               \/ Drop(n, op[n].cfg)
               \/ \E counts \in {"partly", "wholly"}, spec \in SUBSET Objects :
                    SetCounted(n, counts, spec)
        PROVE  Touched
    <2>1. op[n].cfg \in Configs
      BY <1>0, <1>c
    <2>2. CASE UNCHANGED series
      BY <1>u, <2>2
    <2>3. ASSUME NEW value \in {"up", "down"}, SetReady(n, value)
          PROVE  Touched
      BY <1>0, <2>1, <2>3, ReadyEffect
    <2>4. CASE Drop(n, op[n].cfg)
      BY <1>0, <2>1, <2>4, DropEffect
    <2>5. ASSUME NEW counts \in {"partly", "wholly"}, NEW spec \in SUBSET Objects,
                 SetCounted(n, counts, spec)
          PROVE  Touched
      BY <1>0, <2>1, <2>5, CountEffect
    <2>6. QED
      BY <1>c, <2>2, <2>3, <2>4, <2>5
  <1> HIDE DEF Touched
  <1>b. ASSUME Touched, op'[n] = NoOp,
               \/ Requeue(n) /\ UNCHANGED events
               \/ Notify(op[n].cfg) /\ UNCHANGED queue
        PROVE  MInv'
    <2>1. /\ queue[n] \subseteq queue'[n] /\ events[n] \subseteq events'[n]
          /\ op[n].cfg \in queue'[n] \cup events'[n]
      BY <1>0, <1>b DEF Requeue, Notify, TypeOK
    <2>2. Exported(NoOp, queue'[n], events'[n], series'[n], api')
      BY <1>0, <1>b, <1>e, <2>1, ExportedWhenBack DEF Touched
    <2>3. QED
      BY <1>0, <1>b, <2>2, ExportStep DEF Touched
  <1>g. ASSUME Touched, NEW step, Goto(n, step), UNCHANGED <<api, queue, events>>,
               step = "applied" => /\ series'[n][op[n].cfg].counts = "wholly"
                                   /\ series'[n][op[n].cfg].of = op[n].obj.spec
        PROVE  MInv'
    <2>1. op'[n].step = step /\ op'[n].cfg = op[n].cfg /\ op'[n].obj = op[n].obj
      BY <1>0, <1>g, GotoEffect
    <2>2. \A d \in Configs \ {op[n].cfg} : series'[n][d] = series[n][d]
      BY <1>g DEF Touched
    <2>3. Exported(op'[n], queue[n], events[n], series'[n], api)
      BY <1>0, <1>g, <2>1, <2>2, ExportedGoingOn
    <2>4. QED
      BY <1>0, <1>g, <2>3, ExportStep DEF Touched
  <1>r. ASSUME Refused(n), Requeue(n), Touched
        PROVE  MInv'
    <2>1. op'[n] = NoOp /\ UNCHANGED events
      BY <1>0, <1>r, FinishEffect DEF Refused
    <2>2. QED
      BY <1>b, <1>r, <2>1
  <1>w. ASSUME NEW obj, Write(n, obj), Requeue(n), UNCHANGED events, Touched
        PROVE  MInv'
    <2>1. op'[n] = NoOp
      BY <1>0, <1>w, WriteEffect
    <2>2. QED
      BY <1>b, <1>w, <2>1
  <1>q. ASSUME UNCHANGED series, Exported(op'[n], queue'[n], events'[n], series[n], api')
        PROVE  MInv'
    BY <1>0, <1>q, <1>u, ExportStep
  <1>1. CASE Deliver(n) /\ UNCHANGED series
    <2>1. /\ UNCHANGED <<api, op>> /\ events'[n] = {}
          /\ queue'[n] = queue[n] \cup events[n]
      BY <1>0, <1>1 DEF Deliver, TypeOK
    <2>2. Exported(op[n], queue[n] \cup events[n], {}, series[n], api)
      BY <1>0 DEF Exported
    <2>3. QED
      BY <1>1, <1>q, <2>1, <2>2
  <1>2. CASE List(n) /\ UNCHANGED series
    <2> DEFINE step == Branch(op[n].obj, Owns(cache[n], op[n].cfg))
    <2>1. /\ UNCHANGED <<api, queue, events>> /\ op[n].step # "idle"
          /\ IF step = "idle" THEN Finish(n) ELSE Goto(n, step)
      BY <1>2 DEF List
    <2>2. op[n].obj.live /\ (op[n].obj.deleting => op[n].obj.fin)
      BY <1>0, <2>1 DEF EInv, ElectionIsStable, Electing, CopiesLag, Known
    <2>3. Owns(cache[n], op[n].cfg) \in BOOLEAN
      BY DEF Owns
    <2>4. step # "idle" /\ step # "applied"
      BY <1>0, <2>2, <2>3, BranchFacts
    <2> HIDE DEF step
    <2>5. Touched
      BY <1>2, <1>c, <2>1
    <2>6. QED
      BY <1>g, <2>1, <2>4, <2>5
  <1>3. CASE AddFinalizer(n) /\ UNCHANGED series
    <2>1. Touched
      BY <1>3, <1>c DEF AddFinalizer
    <2>2. QED
      BY <1>3, <1>r, <1>w, <2>1 DEF AddFinalizer
  <1>4. ASSUME NEW c \in Configs, Getting(n, c)
        PROVE  MInv'
    <2>1. /\ UNCHANGED <<api, cache, events>> /\ Get(n, c)
          /\ queue'[n] = queue[n] \ {c} /\ op[n].step = "idle" /\ op[n].cfg = None
      BY <1>0, <1>4 DEF Getting, Get, TypeOK, Notices
    <2>2. CASE cache[n][c].live
      <3> DEFINE call == [step |-> "got", cfg |-> c, obj |-> cache[n][c],
                          fresh |-> c \notin stale[n]]
      <3>1. op'[n] = call /\ UNCHANGED series
        BY <1>0, <1>4, <2>2 DEF Getting, Get, TypeOK
      <3>2. call.step = "got" /\ call.cfg = c
        OBVIOUS
      <3> HIDE DEF call
      <3>3. Exported(call, queue[n] \ {c}, events[n], series[n], api)
        BY <1>0, <1>n, <2>1, <3>2 DEF Exported
      <3>4. QED
        BY <1>q, <2>1, <3>1, <3>3
    <2>3. CASE ~cache[n][c].live
      <3>1. UNCHANGED op /\ Drop(n, c)
        BY <1>4, <2>3 DEF Getting, Get
      <3>2. /\ SeriesType' /\ series'[n][c] = NoSeries
            /\ \A d \in Configs \ {c} : series'[n][d] = series[n][d]
            /\ \A m \in Nodes \ {n} : series'[m] = series[m]
        BY <1>0, <3>1, DropEffect
      <3>3. api[c].live => c \in events[n]
        BY <1>0, <2>3 DEF Notices, Alike
      <3>4. Exported(op[n], queue[n] \ {c}, events[n], series'[n], api)
        BY <1>0, <2>1, <3>2, <3>3 DEF Exported
      <3>5. QED
        BY <1>0, <2>1, <3>1, <3>2, <3>4, ExportStep
    <2>4. QED
      BY <2>2, <2>3
  <1>5. CASE Applying(n)
    <2>1. PICK step \in {"applied", "failed"}, counts \in {"partly", "wholly"},
               spec \in SUBSET Objects :
            /\ Goto(n, step) /\ SetCounted(n, counts, spec)
            /\ step = "applied" => counts = "wholly" /\ spec = op[n].obj.spec
            /\ op[n].step = "apply" /\ UNCHANGED <<api, queue, events>>
      <3>1. CASE ApplyAll(n) /\ SetCounted(n, "wholly", op[n].obj.spec)
        BY <1>0, <3>1 DEF ApplyAll
      <3>2. ASSUME NEW ending \in {"applied", "failed"}, ApplySome(n, ending),
                   IF op'[n].step = "failed" THEN SetCounted(n, "partly", {})
                   ELSE SetCounted(n, "wholly", op[n].obj.spec)
            PROVE  \E step \in {"applied", "failed"}, counts \in {"partly", "wholly"},
                      spec \in SUBSET Objects :
                    /\ Goto(n, step) /\ SetCounted(n, counts, spec)
                    /\ step = "applied" => counts = "wholly" /\ spec = op[n].obj.spec
                    /\ op[n].step = "apply" /\ UNCHANGED <<api, queue, events>>
        <4>1. /\ Goto(n, ending) /\ ending \in {"applied", "failed"}
              /\ op[n].step = "apply" /\ UNCHANGED <<api, queue, events>>
          BY <3>2 DEF ApplySome
        <4>2. op'[n].step = ending
          BY <1>0, <4>1, GotoEffect
        <4>3. QED
          BY <1>0, <3>2, <4>1, <4>2
      <3>3. QED
        BY <1>5, <3>1, <3>2 DEF Applying, ApplyFails
    <2>2. Touched
      BY <1>c, <2>1
    <2>3. series'[n][op[n].cfg].counts = counts /\ series'[n][op[n].cfg].of = spec
      <3>1. op[n].cfg \in Configs
        BY <1>0, <2>1
      <3>2. QED
        BY <1>0, <2>1, <3>1, CountEffect
    <2>4. QED
      BY <1>g, <2>1, <2>2, <2>3
  <1>6. CASE Reporting(n)
    <2>1. Touched
      BY <1>6, <1>c DEF Reporting, ReportSuccess, ReportFailure
    <2>2. CASE ReportFailure(n)
      BY <1>r, <1>w, <2>1, <2>2 DEF ReportFailure
    <2>3. CASE ReportSuccess(n) /\ Refused(n) /\ Requeue(n)
      BY <1>r, <2>1, <2>3
    <2>4. CASE /\ ReportSuccess(n) /\ Write(n, [op[n].obj EXCEPT !.ready = "applied"])
               /\ UNCHANGED <<events, queue>>
               /\ IF op[n].fresh THEN SetReady(n, "up") ELSE UNCHANGED series
      <3> DEFINE c == op[n].cfg
                 obj == [op[n].obj EXCEPT !.ready = "applied"]
      <3>1. SetReady(n, "up") /\ op[n].step = "applied" /\ c \in Configs
        BY <1>0, <2>4 DEF Write, ReportSuccess
      <3>2. series'[n][c] = [series[n][c] EXCEPT !.ready = "up"]
        BY <1>0, <3>1, ReadyEffect
      <3>3. series[n][c] \in Series
        BY <1>0, <3>1 DEF SeriesType
      <3>4. /\ series'[n][c].ready = "up" /\ series'[n][c].counts = "wholly"
            /\ series'[n][c].of = op[n].obj.spec
        BY <1>0, <3>1, <3>2, <3>3 DEF Exported, Series
      <3>5. Alike(op[n].obj, obj)
        BY <1>0 DEF Alike, Object
      <3> HIDE DEF obj
      <3>6. /\ op[n].obj = api[c] /\ op'[n] = NoOp /\ api'[c] = obj
            /\ \A d \in Configs \ {c} : api'[d] = api[d]
        BY <1>0, <2>4, WriteEffect DEF obj
      <3>7. op[n].obj.live
        BY <1>0, <3>1 DEF EInv, ElectionIsStable, Electing, CopiesLag
      <3>8. \A d \in Configs \ {c} : series'[n][d] = series[n][d]
        BY <2>1 DEF Touched
      <3>9. Exported(NoOp, queue[n], events[n], series'[n], api')
        <4>1. api'[c].live /\ api'[c].spec = op[n].obj.spec
          BY <3>5, <3>6, <3>7 DEF Alike
        <4>2. QED
          BY <1>0, <1>n, <3>4, <3>6, <3>8, <4>1 DEF Exported
      <3>10. QED
        BY <1>0, <2>1, <2>4, <3>6, <3>9, ExportStep DEF Touched
    <2>5. QED
      BY <1>6, <2>2, <2>3, <2>4 DEF Reporting, ReportSuccess
  <1>7. CASE Releasing(n)
    <2>1. Touched
      BY <1>7, <1>c DEF Releasing, Cleanup, CleanupFails, RemoveFinalizer
    <2>2. CASE Cleanup(n)
      <3>1. UNCHANGED <<api, events>>
        BY <2>2 DEF Cleanup
      <3>2. CASE Goto(n, "release") /\ UNCHANGED queue
        BY <1>g, <2>1, <3>1, <3>2
      <3>3. CASE Finish(n) /\ Requeue(n)
        <4>1. op'[n] = NoOp
          BY <1>0, <3>3, FinishEffect
        <4>2. QED
          BY <1>b, <2>1, <3>1, <3>3, <4>1
      <3>4. QED
        BY <2>2, <3>2, <3>3 DEF Cleanup
    <2>3. CASE CleanupFails(n)
      <3>1. op'[n] = NoOp /\ Requeue(n) /\ UNCHANGED events
        BY <1>0, <2>3, FinishEffect DEF CleanupFails
      <3>2. QED
        BY <1>b, <2>1, <3>1
    <2>4. CASE RemoveFinalizer(n) /\ Refused(n) /\ Requeue(n)
      BY <1>r, <2>1, <2>4
    <2>5. CASE Write(n, Gone) /\ Notify(op[n].cfg) /\ UNCHANGED queue
      <3>1. op'[n] = NoOp
        BY <1>0, <2>5, WriteEffect
      <3>2. QED
        BY <1>b, <2>1, <2>5, <3>1
    <2>6. QED
      BY <1>7, <2>2, <2>3, <2>4, <2>5 DEF Releasing, RemoveFinalizer
  <1>8. CASE Failing(n)
    <2>1. Touched
      BY <1>8, <1>c DEF Failing, CallFails
    <2>2. op'[n] = NoOp /\ Requeue(n) /\ UNCHANGED events
      BY <1>0, <1>8, FinishEffect DEF Failing, CallFails
    <2>3. QED
      BY <1>b, <2>1, <2>2
  <1>9. CASE Restarting(n)
    <2>1. /\ op'[n] = NoOp /\ events'[n] = {} /\ queue'[n] = Live(api) /\ UNCHANGED api
          /\ series' = [series EXCEPT ![n] = [c \in Configs |-> NoSeries]]
      BY <1>0, <1>9 DEF Restarting, Restart, TypeOK
    <2>2. /\ SeriesType' /\ series'[n] = [c \in Configs |-> NoSeries]
          /\ \A m \in Nodes \ {n} : series'[m] = series[m]
      BY <1>0, <2>1, NoSeriesIsSeries DEF SeriesType
    <2>3. Exported(op'[n], queue'[n], events'[n], series'[n], api')
      <3>1. Exported(NoOp, Live(api), {}, [c \in Configs |-> NoSeries], api)
        BY <1>n DEF Exported, Live
      <3>2. QED
        BY <2>1, <2>2, <3>1
    <2>4. QED
      BY <1>0, <2>2, <2>3, ExportStep
  <1>10. QED
    BY <1>1, <1>2, <1>3, <1>4, <1>5, <1>6, <1>7, <1>8, <1>9 DEF AgentNext

(***************************************************************************)
(* The theorems.                                                           *)
(***************************************************************************)

\* What an agent exports of an object it has nothing left to do for is what a
\* completed pass over the object as it is has exported.
THEOREM ExportsCurrent == MetricsSpec => []MInv
  <1>1. MetricsInit => SeriesType /\ ExportsAreCurrent
    <2>1. NoOp.step = "idle" /\ ~Gone.live
      BY NoOpFields DEF Gone
    <2>2. QED
      BY <2>1, NoSeriesIsSeries
      DEF MetricsInit, Init, SeriesType, ExportsAreCurrent, Exported
  <1>2. ASSUME MInv, PInv', [MetricsNext]_allVars
        PROVE  MInv'
    <2>1. CASE UserNext
      BY <1>2, <2>1, UserExports
    <2>2. ASSUME NEW n \in Nodes, AgentNext(n)
          PROVE  MInv'
      BY <1>2, <2>2, AgentExports
    <2>3. CASE UNCHANGED allVars
      BY <1>2, <2>3 DEF MInv, SeriesType, ExportsAreCurrent, allVars, vars
    <2>4. QED
      BY <1>2, <2>1, <2>2, <2>3 DEF MetricsNext
  <1>3. ASSUME PInv, SeriesType, ExportsAreCurrent
        PROVE  MInv
    BY <1>3 DEF MInv
  <1>4. QED
    BY <1>1, <1>2, <1>3, MetricsSimulates, NothingForgotten, PTL DEF MetricsSpec

\* DeleteMetricsForConfig reaches every agent: one that has nothing left to do
\* for an object that no longer exists exports no gauge of it, whichever agent
\* released it and whether or not it ever carried the finalizer.
THEOREM GoneSilent == MetricsSpec => []GoneIsSilent
  <1>1. MInv => GoneIsSilent
    BY DEF MInv, ExportsAreCurrent, Exported, GoneIsSilent, Resting
  <1>2. QED
    BY <1>1, ExportsCurrent, PTL

\* An agent that exports anything but 1 for an object that exists still has
\* work to do for it: no failure, refused write or restart is the last word.
THEOREM NotReadyRetried == MetricsSpec => []NotReadyIsRetried
  <1>1. MInv => NotReadyIsRetried
    BY DEF MInv, ExportsAreCurrent, Exported, NotReadyIsRetried, Resting
  <1>2. QED
    BY <1>1, ExportsCurrent, PTL

\* configuration_ready at 1 and configured_objects speak of the object as it is
\* now, not of an earlier specification nor of a predecessor of the same name,
\* if no two objects are created in the same second.
THEOREM ReadyCurrent == MetricsSpec => [](~Ties => ReadyIsCurrent)
  <1>1. MInv => (~Ties => ReadyIsCurrent)
    <2> SUFFICES ASSUME MInv, ~Ties, NEW n \in Nodes, NEW c \in Configs,
                        Resting(n, c), series[n][c].ready = "up"
                 PROVE  /\ applied[n] = api[c].uid
                        /\ series[n][c].counts = "wholly" /\ series[n][c].of = api[c].spec
      BY DEF ReadyIsCurrent
    <2>1. api[c].live /\ series[n][c].counts = "wholly" /\ series[n][c].of = api[c].spec
      BY DEF MInv, ExportsAreCurrent, Exported, Resting, NoSeries
    <2>2. applied[n] = api[c].uid
      BY <2>1 DEF MInv, PInv, NothingIsForgotten, Attending, Remembers, Resting
    <2>3. QED
      BY <2>1, <2>2
  <1>2. QED
    BY <1>1, ExportsCurrent, PTL
=============================================================================
