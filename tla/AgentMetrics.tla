---------------------------- MODULE AgentMetrics ----------------------------
(***************************************************************************)
(* The series an agent exports of each BGPConfiguration, composed with the *)
(* life of the objects: k8gobgp_configuration_ready, and                   *)
(* k8gobgp_configured_objects, what the object asks for on this node.      *)
(*                                                                         *)
(* They live in the memory of the manager and are set and deleted by the   *)
(* same Reconcile calls that write finalizers and status, but not by the   *)
(* same writes: nothing makes them agree with the API server except the    *)
(* order of the calls.  Counters and histograms only count and are left    *)
(* out.                                                                    *)
(***************************************************************************)
EXTENDS ConfigLifecycle

VARIABLE series  \* [Nodes -> [Configs -> Series]]

allVars == <<vars, series>>

\* The ready gauge; whether the objects of each kind are counted; and the
\* specification whose objects they are, if all of them are.
Series == [ready : {"absent", "up", "down"},
           counts : {"absent", "partly", "wholly"}, of : SUBSET Objects]

NoSeries == [ready |-> "absent", counts |-> "absent", of |-> {}]

MetricsInit == Init /\ series = [n \in Nodes |-> [c \in Configs |-> NoSeries]]

\* UpdateConfigurationReadyStatus, for the object of the call in progress.
SetReady(n, value) == series' = [series EXCEPT ![n][op[n].cfg].ready = value]

\* Mutant: the objects are counted when the configuration is first applied.
SetCountedOnce(n, counts, spec) ==
    series' = IF series[n][op[n].cfg].counts = "wholly" THEN series
              ELSE [series EXCEPT ![n][op[n].cfg].counts = counts,
                                  ![n][op[n].cfg].of = spec]

\* UpdateConfiguredObjects, when the chain has ended: a link that was not
\* reached counts no objects, and neighbors are counted as the status said.
SetCounted(n, counts, spec) ==
    series' = [series EXCEPT ![n][op[n].cfg].counts = counts,
                             ![n][op[n].cfg].of = spec]

\* DeleteMetricsForConfig.
Drop(n, c) == series' = [series EXCEPT ![n][c] = NoSeries]

Same == UNCHANGED series

-----------------------------------------------------------------------------
\* Mutant: the series of an object that is not found are left alone.
GettingKeepsSeries(n, c) == Get(n, c) /\ Same

\* "The object is gone, so drop its gauges."
Getting(n, c) ==
    /\ Get(n, c)
    /\ IF cache[n][c].live THEN Same ELSE Drop(n, c)

Applying(n) ==
    \/ ApplyAll(n) /\ SetCounted(n, "wholly", op[n].obj.spec)
    \/ /\ ApplyFails(n)
       /\ IF op'[n].step = "failed" THEN SetCounted(n, "partly", {})
          ELSE SetCounted(n, "wholly", op[n].obj.spec)

\* A refused status write after a success returns before the gauge is set;
\* after a failure it is only logged.
Reporting(n) ==
    \/ ReportSuccess(n) /\ (IF op[n].fresh THEN SetReady(n, "up") ELSE Same)
    \/ ReportFailure(n) /\ SetReady(n, "down")

\* The series go before the finalizer, whether or not its removal succeeds,
\* but only after a cleanup without errors.
Releasing(n) ==
    \/ Cleanup(n) /\ (IF op'[n].step = "release" THEN Drop(n, op[n].cfg) ELSE Same)
    \/ CleanupFails(n) /\ Same
    \/ /\ RemoveFinalizer(n)
       /\ IF op[n].step = "releaseIgnored" THEN Drop(n, op[n].cfg) ELSE Same

\* A call that fails has set the gauges that come before it.
Failing(n) ==
    /\ CallFails(n)
    /\ CASE op[n].step \in {"invalid", "failed", "duplicate"} -> SetReady(n, "down")
         [] op[n].step = "releaseIgnored" -> Drop(n, op[n].cfg)
         [] OTHER -> Same

\* The registry is in memory.
Restarting(n) ==
    /\ Restart(n)
    /\ series' = [series EXCEPT ![n] = [c \in Configs |-> NoSeries]]

AgentNext(n) ==
    \/ Deliver(n) /\ Same
    \/ List(n) /\ Same
    \/ AddFinalizer(n) /\ Same
    \/ \E c \in Configs : Getting(n, c)
    \/ Applying(n) \/ Reporting(n) \/ Releasing(n) \/ Failing(n) \/ Restarting(n)

\* Users touch no series.
UserNext ==
    \E c \in Configs :
        \/ \E spec \in Specs : Create(c, spec) /\ Same
        \/ \E spec \in Revisions : Edit(c, spec) /\ Same
        \/ Delete(c) /\ Same

MetricsNext == UserNext \/ \E n \in Nodes : AgentNext(n)

MetricsSpec == MetricsInit /\ [][MetricsNext]_allVars

-----------------------------------------------------------------------------
\* Agent n has nothing left to do for c.
Resting(n, c) == c \notin queue[n] \cup events[n] /\ op[n].cfg # c

\* DeleteMetricsForConfig, "without this a deleted CR's gauges keep their last
\* value forever": an agent at rest exports no gauge of an object that does not
\* exist, whether it cleaned up itself, another agent released the object, or
\* the object never carried the finalizer.
GoneIsSilent ==
    \A n \in Nodes, c \in Configs :
        Resting(n, c) /\ ~api[c].live => series[n][c] = NoSeries

\* configuration_ready at 0, or not there yet, is not for ever: an agent that
\* does not export 1 for an existing object has it queued, after every failure,
\* refused write and restart, and whatever the other agents write meanwhile.
NotReadyIsRetried ==
    \A n \in Nodes, c \in Configs :
        Resting(n, c) /\ api[c].live => series[n][c].ready = "up"

\* configuration_ready at 1 speaks of the object as it is: when the agent rests,
\* this object, not a predecessor of the same name, was the last one applied
\* here, and configured_objects counts what its present specification names.
ReadyIsCurrent ==
    \A n \in Nodes, c \in Configs :
        Resting(n, c) /\ series[n][c].ready = "up" =>
            /\ applied[n] = api[c].uid
            /\ series[n][c].counts = "wholly" /\ series[n][c].of = api[c].spec
=============================================================================
