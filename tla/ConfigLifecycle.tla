-------------------------- MODULE ConfigLifecycle --------------------------
(***************************************************************************)
(* The life of BGPConfiguration objects in a cluster where every node runs *)
(* an agent (a DaemonSet pod: the manager and the gobgpd it programs).     *)
(*                                                                         *)
(* The API server holds the objects.  Each agent sees them through an      *)
(* informer cache that lags, takes requests from a work queue one at a     *)
(* time (MaxConcurrentReconciles: 1), elects the one object allowed to     *)
(* program gobgpd, and writes back finalizers and status with optimistic   *)
(* concurrency: a write based on an outdated resourceVersion is refused.   *)
(*                                                                         *)
(* A resourceVersion is abstracted to one bit per copy of an object: the   *)
(* copy is still the version the API server holds, or it is not.  A        *)
(* specification is abstracted to the set of gobgpd objects it names.      *)
(***************************************************************************)
EXTENDS Naturals, FiniteSets

CONSTANTS
    Nodes,        \* the nodes that run an agent
    Configs,      \* namespace/name of the objects, as their rank in that order
    Objects,      \* what a specification can ask gobgpd for
    Specs,        \* the specifications users create objects with, sets of objects
    Revisions,    \* the specifications users change an object to
    Rejected,     \* objects that validateConfiguration refuses
    Neighbors,    \* objects a cleanup looks up first and skips when missing
    Ties,         \* may two objects be created in the same second?
    MaxCreates,   \* bound: objects created
    MaxEdits,     \* bound: specification edits
    MaxFaults     \* bound: failed passes and restarts

ASSUME ConfigsAssumption == Configs \subseteq Nat \ {0}

ASSUME ObjectsAssumption ==
    /\ Rejected \subseteq Objects /\ Neighbors \subseteq Objects
    /\ Specs \cup Revisions \subseteq SUBSET Objects

ASSUME SwitchAssumption == Ties \in BOOLEAN

ASSUME BoundsAssumption ==
    MaxCreates \in Nat /\ MaxEdits \in Nat /\ MaxFaults \in Nat

VARIABLES
    api,     \* [Configs -> Object]: what the API server stores
    clock,   \* the API server's clock, in seconds
    cache,   \* [Nodes -> [Configs -> Object]]: informer caches
    stale,   \* [Nodes -> SUBSET Configs]: cached copies that are outdated
    events,  \* [Nodes -> SUBSET Configs]: watch events not yet delivered
    queue,   \* [Nodes -> SUBSET Configs]: work queues
    op,      \* [Nodes -> Op]: the Reconcile call in progress
    gobgpd,  \* [Nodes -> SUBSET Objects]: what each daemon is programmed with
    applied, \* [Nodes -> Nat]: uid of the object last applied, 0 for none
    silent,  \* [Nodes -> BOOLEAN]: history, the last pass logged refused calls
             \* and went on to report success
    creates, edits, faults  \* how much of each bound is used

vars == <<api, clock, cache, stale, events, queue, op, gobgpd, applied,
          silent, creates, edits, faults>>

apiVars == <<api, clock, stale, events>>
daemonVars == <<gobgpd, applied, silent>>
boundVars == <<creates, edits, faults>>

None == 0

(***************************************************************************)
(* An object as the API server stores it: whether it exists, its           *)
(* creationTimestamp, uid, whether deletionTimestamp is set, whether it    *)
(* carries the finalizer, its specification and its Ready condition.       *)
(***************************************************************************)
Ready == {"unset", "applied", "failed", "invalid", "duplicate"}

Object == [live : BOOLEAN, created : Nat, uid : Nat, deleting : BOOLEAN,
           fin : BOOLEAN, spec : SUBSET Objects, ready : Ready]

Gone == [live |-> FALSE, created |-> 0, uid |-> 0, deleting |-> FALSE,
         fin |-> FALSE, spec |-> {}, ready |-> "unset"]

(***************************************************************************)
(* A Reconcile call in progress: the next step, the request, the object    *)
(* Get returned and whether that copy is still the API server's version.   *)
(***************************************************************************)
Step == {"idle", "got", "duplicate", "addFin", "invalid", "apply", "applied",
         "failed", "cleanup", "release", "releaseIgnored"}

Op == [step : Step, cfg : Configs \cup {None}, obj : Object, fresh : BOOLEAN]

NoOp == [step |-> "idle", cfg |-> None, obj |-> Gone, fresh |-> FALSE]

TypeOK ==
    /\ api \in [Configs -> Object]
    /\ clock \in Nat
    /\ cache \in [Nodes -> [Configs -> Object]]
    /\ stale \in [Nodes -> SUBSET Configs]
    /\ events \in [Nodes -> SUBSET Configs]
    /\ queue \in [Nodes -> SUBSET Configs]
    /\ op \in [Nodes -> Op]
    /\ gobgpd \in [Nodes -> SUBSET Objects]
    /\ applied \in [Nodes -> Nat]
    /\ silent \in [Nodes -> BOOLEAN]
    /\ creates \in 0..MaxCreates /\ edits \in 0..MaxEdits
    /\ faults \in 0..MaxFaults

Init ==
    /\ api = [c \in Configs |-> Gone]
    /\ clock = 0
    /\ cache = [n \in Nodes |-> [c \in Configs |-> Gone]]
    /\ stale = [n \in Nodes |-> {}]
    /\ events = [n \in Nodes |-> {}]
    /\ queue = [n \in Nodes |-> {}]
    /\ op = [n \in Nodes |-> NoOp]
    /\ gobgpd = [n \in Nodes |-> {}]
    /\ applied = [n \in Nodes |-> 0]
    /\ silent = [n \in Nodes |-> FALSE]
    /\ creates = 0 /\ edits = 0 /\ faults = 0

-----------------------------------------------------------------------------
(***************************************************************************)
(* Election.                                                               *)
(***************************************************************************)

Live(objs) == {c \in Configs : objs[c].live}

\* Mutant: the newest object wins.
NewestPrecedes(objs, a, b) ==
    \/ objs[a].created > objs[b].created
    \/ objs[a].created = objs[b].created /\ a < b

\* configPrecedes: creation time, then namespace/name.
Precedes(objs, a, b) ==
    \/ objs[a].created < objs[b].created
    \/ objs[a].created = objs[b].created /\ a < b

\* electOwningConfig: objects being deleted stay eligible.
Owner(objs) ==
    IF Live(objs) = {} THEN None
    ELSE CHOOSE c \in Live(objs) :
            \A d \in Live(objs) \ {c} : Precedes(objs, c, d)

\* Reconcile's test: no owner at all counts as owning.
Owns(objs, c) == Owner(objs) \in {None, c}

Valid(spec) == spec \cap Rejected = {}

-----------------------------------------------------------------------------
(***************************************************************************)
(* The API server.                                                         *)
(***************************************************************************)

\* Every stored copy of c is outdated by a write to c.
Outdate(c) == stale' = [n \in Nodes |-> stale[n] \cup {c}]

\* The calls in progress after a write to c.
OutdatedOps(c) ==
    [n \in Nodes |-> IF op[n].cfg = c THEN [op[n] EXCEPT !.fresh = FALSE]
                                      ELSE op[n]]

\* Creation, deletion and a change of generation pass the watch predicate.
Notify(c) == events' = [n \in Nodes |-> events[n] \cup {c}]

UserWrite(c, obj) ==
    /\ api' = [api EXCEPT ![c] = obj]
    /\ Outdate(c)
    /\ Notify(c)
    /\ op' = OutdatedOps(c)
    /\ UNCHANGED <<cache, queue, daemonVars, faults>>

Create(c, spec) ==
    /\ ~api[c].live
    /\ creates < MaxCreates
    /\ creates' = creates + 1
    /\ clock' \in (IF Ties THEN {clock, clock + 1} ELSE {clock + 1})
    /\ UserWrite(c, [live |-> TRUE, created |-> clock', uid |-> creates + 1,
                     deleting |-> FALSE, fin |-> FALSE, spec |-> spec,
                     ready |-> "unset"])
    /\ UNCHANGED edits

\* The specification of an object that is being deleted can still be edited.
Edit(c, spec) ==
    /\ api[c].live
    /\ spec # api[c].spec
    /\ edits < MaxEdits
    /\ edits' = edits + 1
    /\ UserWrite(c, [api[c] EXCEPT !.spec = spec])
    /\ UNCHANGED <<clock, creates>>

\* A finalizer turns deletion into a request.
Delete(c) ==
    /\ api[c].live
    /\ ~api[c].deleting
    /\ UserWrite(c, IF api[c].fin THEN [api[c] EXCEPT !.deleting = TRUE]
                                  ELSE Gone)
    /\ UNCHANGED <<clock, creates, edits>>

-----------------------------------------------------------------------------
(***************************************************************************)
(* The agent on node n.                                                    *)
(***************************************************************************)

\* The informer catches up and the handlers enqueue what changed.
Deliver(n) ==
    /\ stale[n] # {} \/ events[n] # {}
    /\ cache' = [cache EXCEPT ![n] = api]
    /\ stale' = [stale EXCEPT ![n] = {}]
    /\ queue' = [queue EXCEPT ![n] = @ \cup events[n]]
    /\ events' = [events EXCEPT ![n] = {}]
    /\ UNCHANGED <<api, clock, op, daemonVars, boundVars>>

Goto(n, step) == op' = [op EXCEPT ![n].step = step]

\* The call returns; with an error or a RequeueAfter, c comes back.
Finish(n) == op' = [op EXCEPT ![n] = NoOp]

Requeue(n) == queue' = [queue EXCEPT ![n] = @ \cup {op[n].cfg}]

\* Reconcile starts: Get reads the cache; NotFound ends the call.
Get(n, c) ==
    /\ op[n].step = "idle"
    /\ c \in queue[n]
    /\ queue' = [queue EXCEPT ![n] = @ \ {c}]
    /\ IF cache[n][c].live
       THEN op' = [op EXCEPT ![n] = [step |-> "got", cfg |-> c,
                                     obj |-> cache[n][c],
                                     fresh |-> c \notin stale[n]]]
       ELSE UNCHANGED op
    /\ UNCHANGED <<apiVars, cache, daemonVars, boundVars>>

\* Mutant: gobgpd is programmed without waiting for the finalizer.
BranchWithoutFinalizer(obj, owned) ==
    CASE obj.deleting /\ ~obj.fin -> "idle"
      [] obj.deleting /\ obj.fin -> IF owned THEN "cleanup"
                                             ELSE "releaseIgnored"
      [] ~obj.deleting /\ ~owned -> "duplicate"
      [] OTHER -> IF Valid(obj.spec) THEN "apply" ELSE "invalid"

\* The branch Reconcile takes for obj.
Branch(obj, owned) ==
    CASE obj.deleting /\ ~obj.fin -> "idle"
      [] obj.deleting /\ obj.fin -> IF owned THEN "cleanup"
                                             ELSE "releaseIgnored"
      [] ~obj.deleting /\ ~owned -> "duplicate"
      [] ~obj.deleting /\ owned /\ ~obj.fin -> "addFin"
      [] OTHER -> IF Valid(obj.spec) THEN "apply" ELSE "invalid"

\* List reads the cache again, possibly a newer one than Get did.
List(n) ==
    /\ op[n].step = "got"
    /\ LET step == Branch(op[n].obj, Owns(cache[n], op[n].cfg)) IN
        IF step = "idle" THEN Finish(n) ELSE Goto(n, step)
    /\ UNCHANGED <<apiVars, cache, queue, daemonVars, boundVars>>

\* Mutant: an unconditional write, with no resourceVersion.
WriteUnconditionally(n, obj) ==
    LET c == op[n].cfg IN
    /\ api' = [api EXCEPT ![c] = obj]
    /\ Outdate(c)
    /\ op' = [OutdatedOps(c) EXCEPT ![n] = NoOp]

(***************************************************************************)
(* Write(n, obj): the API server accepts agent n's copy, changed to obj.   *)
(* The whole object is written, so a copy that is not current is refused.  *)
(***************************************************************************)
Write(n, obj) ==
    LET c == op[n].cfg IN
    /\ op[n].fresh
    /\ api' = [api EXCEPT ![c] = obj]
    /\ Outdate(c)
    /\ op' = [OutdatedOps(c) EXCEPT ![n] = NoOp]

Refused(n) ==
    /\ ~op[n].fresh
    /\ Finish(n)
    /\ UNCHANGED apiVars

\* Mutant: no explicit requeue after adding the finalizer.
AddFinalizerOnly(n) ==
    /\ op[n].step = "addFin"
    /\ \/ /\ Write(n, [op[n].obj EXCEPT !.fin = TRUE])
          /\ UNCHANGED <<clock, events, queue>>
       \/ /\ Refused(n)
          /\ Requeue(n)
    /\ UNCHANGED <<cache, daemonVars, boundVars>>

\* Adding the finalizer is no event: the explicit requeue brings c back.
AddFinalizer(n) ==
    /\ op[n].step = "addFin"
    /\ \/ /\ Write(n, [op[n].obj EXCEPT !.fin = TRUE])
          /\ UNCHANGED <<clock, events>>
       \/ Refused(n)
    /\ Requeue(n)
    /\ UNCHANGED <<cache, daemonVars, boundVars>>

\* A pass that brings gobgpd to the specification.
ApplyAll(n) ==
    /\ op[n].step = "apply"
    /\ gobgpd' = [gobgpd EXCEPT ![n] = op[n].obj.spec]
    /\ applied' = [applied EXCEPT ![n] = op[n].obj.uid]
    /\ silent' = [silent EXCEPT ![n] = FALSE]
    /\ Goto(n, "applied")
    /\ UNCHANGED <<apiVars, cache, queue, boundVars>>

\* A pass that leaves some objects undeleted or not added.  The chain stops
\* with an error ("failed"), or, when single calls were refused and logged,
\* reports success all the same ("applied").  An object the specification
\* names can be lost too: a changed dynamic neighbor is deleted and added again.
ApplySome(n, ending) ==
    /\ op[n].step = "apply"
    /\ faults < MaxFaults
    /\ faults' = faults + 1
    /\ \E del \in SUBSET gobgpd[n],
          add \in SUBSET (op[n].obj.spec \ gobgpd[n]) :
        gobgpd' = [gobgpd EXCEPT ![n] = (@ \ del) \cup add]
    /\ applied' = [applied EXCEPT ![n] = op[n].obj.uid]
    /\ silent' = [silent EXCEPT ![n] = ending = "applied"]
    /\ Goto(n, ending)
    /\ UNCHANGED <<apiVars, cache, queue, creates, edits>>

ApplyFails(n) == \E ending \in {"applied", "failed"} : ApplySome(n, ending)

\* Status().Update after a success: a refused write is an error, so c comes
\* back; an accepted one ends the work, with no periodic requeue.
ReportSuccess(n) ==
    /\ op[n].step = "applied"
    /\ \/ /\ Write(n, [op[n].obj EXCEPT !.ready = "applied"])
          /\ UNCHANGED <<clock, events, queue>>
       \/ /\ Refused(n)
          /\ Requeue(n)
    /\ UNCHANGED <<cache, daemonVars, boundVars>>

\* Mutant: a failed pass is not retried.
ReportFailureOnce(n) ==
    /\ op[n].step \in {"invalid", "failed", "duplicate"}
    /\ \/ /\ Write(n, [op[n].obj EXCEPT !.ready = op[n].step])
          /\ UNCHANGED <<clock, events>>
       \/ Refused(n)
    /\ UNCHANGED <<queue, cache, daemonVars, boundVars>>

\* ConfigurationInvalid, ReconcileFailed, MultipleConfigurations: a refused
\* status write is only logged, and c comes back after 30 seconds.
ReportFailure(n) ==
    /\ op[n].step \in {"invalid", "failed", "duplicate"}
    /\ \/ /\ Write(n, [op[n].obj EXCEPT !.ready = op[n].step])
          /\ UNCHANGED <<clock, events>>
       \/ Refused(n)
    /\ Requeue(n)
    /\ UNCHANGED <<cache, daemonVars, boundVars>>

\* reconcileDelete with gobgpd answering: every object the specification names
\* is deleted.  Only neighbors are looked up first; the deletion of any other
\* object that gobgpd does not have is an error, so the finalizer stays and
\* the cleanup is tried again after 15 seconds.
Cleanup(n) ==
    /\ op[n].step = "cleanup"
    /\ gobgpd' = [gobgpd EXCEPT ![n] = @ \ op[n].obj.spec]
    /\ \/ /\ op[n].obj.spec \subseteq Neighbors \cup gobgpd[n]
          /\ Goto(n, "release")
          /\ UNCHANGED queue
       \/ /\ ~(op[n].obj.spec \subseteq Neighbors \cup gobgpd[n])
          /\ Finish(n)
          /\ Requeue(n)
    /\ UNCHANGED <<apiVars, cache, applied, silent, boundVars>>

\* Mutant: cleanup errors are logged and the finalizer removed.
CleanupFailsUnnoticed(n) ==
    /\ op[n].step = "cleanup"
    /\ faults < MaxFaults
    /\ faults' = faults + 1
    /\ \E del \in SUBSET op[n].obj.spec :
        gobgpd' = [gobgpd EXCEPT ![n] = @ \ del]
    /\ Goto(n, "release")
    /\ UNCHANGED <<apiVars, cache, queue, applied, silent, creates, edits>>

\* Mutant: a failed cleanup is not retried.
CleanupFailsForGood(n) ==
    /\ op[n].step = "cleanup"
    /\ faults < MaxFaults
    /\ faults' = faults + 1
    /\ \E del \in SUBSET op[n].obj.spec :
        gobgpd' = [gobgpd EXCEPT ![n] = @ \ del]
    /\ Finish(n)
    /\ UNCHANGED <<apiVars, cache, queue, applied, silent, creates, edits>>

\* gobgpd refuses a deletion: retried after 15 seconds, the finalizer stays.
CleanupFails(n) ==
    /\ op[n].step = "cleanup"
    /\ faults < MaxFaults
    /\ faults' = faults + 1
    /\ \E del \in SUBSET op[n].obj.spec :
        gobgpd' = [gobgpd EXCEPT ![n] = @ \ del]
    /\ Finish(n)
    /\ Requeue(n)
    /\ UNCHANGED <<apiVars, cache, applied, silent, creates, edits>>

\* gobgpd cannot be dialled, or the API server does not answer: the call ends
\* with an error or a RequeueAfter, and has written nothing.
CallFails(n) ==
    /\ op[n].step # "idle"
    /\ faults < MaxFaults
    /\ faults' = faults + 1
    /\ Finish(n)
    /\ Requeue(n)
    /\ UNCHANGED <<apiVars, cache, daemonVars, creates, edits>>

\* Removing the last finalizer of an object that is being deleted removes it.
RemoveFinalizer(n) ==
    /\ op[n].step \in {"release", "releaseIgnored"}
    /\ \/ /\ Write(n, Gone)
          /\ Notify(op[n].cfg)
          /\ UNCHANGED <<clock, queue>>
       \/ /\ Refused(n)
          /\ Requeue(n)
    /\ UNCHANGED <<cache, daemonVars, boundVars>>

\* entrypoint.sh: when gobgpd or the manager exits the container restarts,
\* both with empty memory; the informer lists and enqueues every object.
Restart(n) ==
    /\ faults < MaxFaults
    /\ faults' = faults + 1
    /\ op' = [op EXCEPT ![n] = NoOp]
    /\ cache' = [cache EXCEPT ![n] = api]
    /\ stale' = [stale EXCEPT ![n] = {}]
    /\ events' = [events EXCEPT ![n] = {}]
    /\ queue' = [queue EXCEPT ![n] = Live(api)]
    /\ gobgpd' = [gobgpd EXCEPT ![n] = {}]
    /\ applied' = [applied EXCEPT ![n] = 0]
    /\ silent' = [silent EXCEPT ![n] = FALSE]
    /\ UNCHANGED <<api, clock, creates, edits>>

-----------------------------------------------------------------------------
User ==
    \E c \in Configs :
        \/ \E spec \in Specs : Create(c, spec)
        \/ \E spec \in Revisions : Edit(c, spec)
        \/ Delete(c)

\* The steps of a Reconcile call after Get.
Proceed(n) ==
    \/ List(n) \/ AddFinalizer(n) \/ ApplyAll(n) \/ ReportSuccess(n)
    \/ ReportFailure(n) \/ Cleanup(n) \/ RemoveFinalizer(n)

Fault(n) ==
    ApplyFails(n) \/ CleanupFails(n) \/ CallFails(n) \/ Restart(n)

Agent(n) ==
    Deliver(n) \/ (\E c \in Configs : Get(n, c)) \/ Proceed(n) \/ Fault(n)

Next == User \/ \E n \in Nodes : Agent(n)

(***************************************************************************)
(* Fairness: the watch delivers, a call in progress goes on, and the work  *)
(* queue is first in first out, so a queued request is taken eventually.   *)
(***************************************************************************)
Fairness ==
    \A n \in Nodes :
        /\ WF_vars(Deliver(n))
        /\ WF_vars(Proceed(n))
        /\ \A c \in Configs : SF_vars(Get(n, c))

Spec == Init /\ [][Next]_vars

FairSpec == Spec /\ Fairness
-----------------------------------------------------------------------------
(***************************************************************************)
(* Safety.                                                                 *)
(***************************************************************************)

\* A copy that is believed current is current: the cached one, and the one a
\* Reconcile call works on.  Reconcile computes for seconds between reading
\* an object and writing it back; every write rests on this.
CopiesAreCurrent ==
    \A n \in Nodes :
        /\ \A c \in Configs \ stale[n] : cache[n][c] = api[c]
        /\ op[n].fresh => op[n].cfg \in Configs /\ op[n].obj = api[op[n].cfg]

\* "Remove finalizer only after successful cleanup": when reconcileDelete is
\* about to remove the finalizer and the API server would accept it, this
\* node's gobgpd holds nothing that the stored specification names, although
\* users may edit the specification while the cleanup runs.
ReleaseIsClean ==
    \A n \in Nodes :
        op[n].step = "release" /\ op[n].fresh
            => gobgpd[n] \cap api[op[n].cfg].spec = {}

\* An agent programs gobgpd, or cleans it up, from an object that carries the
\* finalizer, so an object in use cannot vanish while it is being applied
\* unless another agent released it.
ProgramsUnderFinalizer ==
    \A n \in Nodes :
        op[n].step \in {"apply", "applied", "failed", "cleanup", "release"}
            => /\ op[n].obj.fin
               /\ op[n].fresh => api[op[n].cfg].fin

\* The point of electing one object: the cleanup of another object never runs
\* on a node that has applied the object in effect, unless both were created
\* in the same second.
CleanupSparesOwner ==
    \A n \in Nodes :
        LET o == Owner(api) IN
        op[n].step = "cleanup" /\ o # None /\ applied[n] = api[o].uid
            => op[n].cfg = o \/ op[n].obj.created = api[o].created

\* finalizerName, "the finalizer used to ensure cleanup on deletion": as long
\* as some gobgpd is programmed, some object carries the finalizer.
NothingOrphaned ==
    (\E n \in Nodes : gobgpd[n] # {}) => \E c \in Configs : api[c].live /\ api[c].fin

\* What the shared Ready condition is worth: when the object in effect reads
\* Ready, whichever agent wrote that, every agent that has nothing left to do
\* for it has programmed what it names, or its last pass logged refused calls
\* and reported success.
ReadyMeansApplied ==
    LET o == Owner(api) IN
    o # None /\ api[o].ready = "applied" =>
        \A n \in Nodes :
            \/ gobgpd[n] = api[o].spec \/ silent[n]
            \/ o \in queue[n] \cup events[n] \/ op[n].cfg = o
            \/ api[o].deleting

\* What a Reconcile call in progress may rely on: its request is known, the
\* object it programs gobgpd from carries the finalizer, and once its cleanup
\* is done nothing the object names is left.
CallsAreSound ==
    \A n \in Nodes :
        /\ op[n].step # "idle" => op[n].cfg \in Configs
        /\ op[n].step \in {"apply", "applied", "failed", "cleanup", "release"}
                => op[n].obj.fin
        /\ op[n].step = "release" => gobgpd[n] \cap op[n].obj.spec = {}

\* The inductive invariant.
IInv == TypeOK /\ CopiesAreCurrent /\ CallsAreSound

-----------------------------------------------------------------------------
(***************************************************************************)
(* What a step may never do.                                               *)
(***************************************************************************)

AgentStep == \E n \in Nodes : op[n].step # op'[n].step

\* Agents write whole objects back (r.Update), yet never undo a user's edit
\* or deletion: the stored specification, creation time and deletion mark of
\* an object that survives an agent's step are what the user last wrote.
AgentsKeepUserWrites ==
    [][AgentStep => \A c \in Configs :
            api'[c].live => /\ api'[c].spec = api[c].spec
                            /\ api'[c].uid = api[c].uid
                            /\ api'[c].deleting = api[c].deleting]_vars

\* electOwningConfig: "ownership never moves to a config created later", up to
\* the granularity of creation timestamps: ownership moves away from an
\* existing object only to one created in the same second.
OwnershipMovesOnlyInATie ==
    [][LET o == Owner(api) IN
       o # None /\ api'[o].uid = api[o].uid /\ Owner(api') # o
            => api'[Owner(api')].created = api'[o].created]_vars

\* finalizerName, "the finalizer used to ensure cleanup on deletion": an object
\* that some agent has programmed goes away only by the release of an agent
\* that has cleaned up after it; never by a user's deletion alone and, unless
\* two objects may tie, never as an object that was ignored.
GoneOnlyAfterCleanup ==
    [][\A c \in Configs, n \in Nodes :
        api[c].live /\ applied[n] = api[c].uid /\ api'[c].uid # api[c].uid =>
            \E m \in Nodes :
                /\ op[m].cfg = c
                /\ \/ op[m].step = "release" /\ gobgpd[m] \cap api[c].spec = {}
                   \/ op[m].step = "releaseIgnored" /\ Ties]_vars

-----------------------------------------------------------------------------
(***************************************************************************)
(* What must eventually happen.                                            *)
(***************************************************************************)

\* Users and faults are bounded, so every behavior becomes quiet; then every
\* gobgpd holds exactly what the object in effect names.  This covers
\* "if the owning configuration is deleted, the next-oldest takes over".  It
\* does not promise more than the code gives: a pass that logged refused calls
\* is not repeated, an owner whose cleanup is wedged keeps the others out, and
\* a takeover by an object with another ASN (GobgpdSync) is not modelled here.
Settled ==
    LET o == Owner(api) IN
    o # None /\ ~api[o].deleting /\ Valid(api[o].spec) =>
        /\ \A n \in Nodes : gobgpd[n] = api[o].spec \/ silent[n]
        /\ api[o].ready = "applied"

Converges == <>[]Settled

\* The owner's cleanup cannot succeed on any node: each gobgpd lacks an object
\* it names whose deletion is not looked up first.
Wedged(c) ==
    /\ api[c].deleting
    /\ Owner(api) = c
    /\ \A n \in Nodes : ~(api[c].spec \subseteq Neighbors \cup gobgpd[n])

\* An object being deleted goes away, through refused deletions, conflicts and
\* restarts, unless its cleanup is wedged: the finalizer was meant to be kept
\* only while a retry can help.
DeletionCompletes ==
    \A c \in Configs : api[c].deleting ~> (~api[c].live \/ Wedged(c))
=============================================================================
