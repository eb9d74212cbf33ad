------------------------- MODULE NodeStatusReporter -------------------------
(***************************************************************************)
(* BGPNodeStatusReporter: the goroutine of an agent that collects what     *)
(* gobgpd and the kernel hold and publishes it as the node's BGPNodeStatus.*)
(*                                                                         *)
(* It shares only atomics with the reconciler, which stores them one by    *)
(* one.  It reads BGPNodeStatus through the manager's cached client, so a  *)
(* copy it writes back may be outdated, and the write then refused.        *)
(*                                                                         *)
(* Time is discrete.  All clocks are relative and saturate, so nothing     *)
(* bounds how long a behavior is.  The start-up sleeps take no time, and   *)
(* watch events and the stores of UpdateConfig take less than one unit.    *)
(***************************************************************************)
EXTENDS NodeHealth, Sequences

CONSTANTS
    Worlds,            \* the worlds a behavior moves between
    Identities,        \* the router ID and ASN of a configuration share one
    Heartbeats,        \* heartbeatSeconds users may set, in units of time
    DefaultHeartbeat,  \* 60 seconds, in units of time
    CollectMax,        \* most units one collection and its write take
    EnsureAttempts,    \* attempts to create the object: 5
    MayDisable,        \* may users set nodeStatus.enabled to false?
    MayStop,           \* may the agent be stopped or crash?
    ApiFaults,         \* may a call to the API server fail?
    LostReplies,       \* may a write be accepted and its reply lost?
    RpcFaults,         \* the parts whose calls to gobgpd may fail
    Lag                \* may the reporter read an outdated cache?

ASSUME WorldsAssumption == Worlds \subseteq World /\ Worlds # {}

ASSUME HeartbeatAssumption ==
    /\ DefaultHeartbeat \in Heartbeats /\ Heartbeats \subseteq Nat \ {0}
    /\ \E h \in Heartbeats : \A g \in Heartbeats : g <= h
    /\ CollectMax \in Nat /\ EnsureAttempts \in Nat \ {0}

VARIABLES
    world,    \* what gobgpd and the kernel hold
    conf,     \* the configuration the reconciler passed last
    atoms,    \* the reporter's atomics
    storing,  \* the atomics UpdateConfig has yet to store
    pc,       \* where the Start goroutine is
    attempt,  \* failed attempts of ensureBGPNodeStatus
    first,    \* is this the collection before the loop?
    status,   \* the status being collected
    todo,     \* the parts yet to be collected
    timer,    \* the clocks: see Timer
    tick,     \* is a tick waiting in the ticker's channel?
    period,   \* the ticker's period
    lastWritten, \* lastWrittenStatus
    cr,       \* the BGPNodeStatus object
    cached,   \* the cached copy: "absent", "stale" or "current"
    stopping  \* has the context been cancelled?

vars == <<world, conf, atoms, storing, pc, attempt, first, status, todo, timer,
          tick, period, lastWritten, cr, cached, stopping>>

confVars == <<conf, atoms, storing>>
startVars == <<attempt, first>>
collectVars == <<status, todo>>
tickVars == <<tick, period>>
crVars == <<cr, cached>>

Longest == CHOOSE h \in Heartbeats : \A g \in Heartbeats : g <= h

\* Longest time from a tick to the end of the write it leads to.
Slack == CollectMax + (Longest \div 4)

\* No clock runs further than this.
Far == 2 * Longest + 2 * Slack + 1

Fields == <<"enabled", "hb", "rid", "asn">>

\* What the reconciler passes: identities are coherent.
Config == {[enabled |-> e, hb |-> h, rid |-> i, asn |-> i] :
            e \in {TRUE, ~MayDisable}, h \in Heartbeats, i \in Identities}

\* The order of collectStatus.
PartsInOrder == <<"neighbors", "import", "rib", "export", "vrfs", "bfd">>

NoStatus == [parts |-> [p \in Parts |-> Nil], rid |-> Nil, asn |-> Nil,
             healthy |-> FALSE]

\* A BGPNodeStatus whose Ready condition is AgentShutdown has shutdown set.
NoObject == [exists |-> FALSE, status |-> Nil, shutdown |-> FALSE]

PC == {"start", "startHb", "ensure", "initial", "idle", "asn", "collect",
       "compare", "sleep", "write", "shutdown", "stopped"}

Timer == [toTick : 0..Longest, busy : 0..CollectMax, sleep : 0..Longest,
          sinceWrite : 0..Far,  \* time.Since(lastWriteTime)
          age : 0..Far,         \* age of the object's lastUpdated
          quiet : 0..Far,       \* since the world or the configuration changed
          calm : 0..Far]        \* since a fault or a start

TypeOK ==
    /\ world \in Worlds
    /\ conf \in Config \cup {Nil}
    /\ DOMAIN atoms = {Fields[i] : i \in DOMAIN Fields}
    /\ \E i \in 1..5 : storing = SubSeq(Fields, i, 4)
    /\ pc \in PC /\ attempt \in 0..EnsureAttempts /\ first \in BOOLEAN
    /\ DOMAIN status.parts = Parts
    /\ \E i \in 1..7 : todo = SubSeq(PartsInOrder, i, 6)
    /\ timer \in Timer /\ tick \in BOOLEAN /\ period \in Heartbeats
    /\ cr.exists \in BOOLEAN /\ cr.shutdown \in BOOLEAN
    /\ cached \in {"absent", "stale", "current"}
    /\ stopping \in BOOLEAN

\* The zero values of the atomics.
NoAtoms == [enabled |-> FALSE, hb |-> 0, rid |-> Nil, asn |-> Nil]

ZeroTimer == [toTick |-> 0, busy |-> 0, sleep |-> 0, sinceWrite |-> 0,
              age |-> 0, quiet |-> 0, calm |-> 0]

Init ==
    /\ world \in Worlds
    /\ conf = Nil /\ atoms = NoAtoms /\ storing = <<>>
    /\ pc = "start" /\ attempt = 0 /\ first = TRUE
    /\ status = NoStatus /\ todo = <<>>
    /\ timer = ZeroTimer
    /\ tick = FALSE /\ period = DefaultHeartbeat
    /\ lastWritten = Nil
    /\ cr = NoObject /\ cached = "absent"
    /\ stopping = FALSE

-----------------------------------------------------------------------------
(***************************************************************************)
(* Around the reporter.                                                    *)
(***************************************************************************)

\* Sessions, routes and interfaces change.
WorldChanges ==
    /\ world' \in Worlds \ {world}
    /\ timer' = [timer EXCEPT !.quiet = 0]
    /\ UNCHANGED <<confVars, pc, startVars, collectVars, tickVars, lastWritten,
                   crVars, stopping>>

\* The reconciler calls UpdateConfig at the end of a successful pass.
UpdateConfig(c) ==
    /\ storing = <<>>
    /\ c # conf
    /\ pc # "stopped"
    /\ conf' = c
    /\ storing' = Fields
    /\ timer' = [timer EXCEPT !.quiet = 0]
    /\ UNCHANGED <<world, atoms, pc, startVars, collectVars, tickVars,
                   lastWritten, crVars, stopping>>

\* One Store of UpdateConfig.
Store ==
    /\ storing # <<>>
    /\ atoms' = [atoms EXCEPT ![Head(storing)] = conf[Head(storing)]]
    /\ storing' = Tail(storing)
    /\ UNCHANGED <<world, conf, pc, startVars, collectVars, timer, tickVars,
                   lastWritten, crVars, stopping>>

\* The watch delivers the current object to the cache.
CacheSync ==
    /\ cr.exists
    /\ cached # "current"
    /\ cached' = "current"
    /\ UNCHANGED <<world, confVars, pc, startVars, collectVars, timer, tickVars,
                   lastWritten, cr, stopping>>

\* The context is cancelled: SIGTERM.
Stop ==
    /\ MayStop
    /\ ~stopping /\ pc # "stopped"
    /\ stopping' = TRUE
    /\ UNCHANGED <<world, confVars, pc, startVars, collectVars, timer, tickVars,
                   lastWritten, crVars>>

\* A new pod, after a stop or a crash; it lists before it reads.
Restart ==
    /\ MayStop
    /\ conf' = Nil /\ atoms' = NoAtoms /\ storing' = <<>>
    /\ pc' = "start" /\ attempt' = 0 /\ first' = TRUE
    /\ status' = NoStatus /\ todo' = <<>>
    /\ timer' = [ZeroTimer EXCEPT !.age = timer.age]
    /\ tick' = FALSE /\ period' = DefaultHeartbeat
    /\ lastWritten' = Nil
    /\ cached' = IF cr.exists THEN "current" ELSE "absent"
    /\ stopping' = FALSE
    /\ UNCHANGED <<world, cr>>

\* What is left of the cached copy after a write.
Outdated == IF Lag THEN cached' \in {"stale", "current"} ELSE cached' = "current"

Capped(n) == IF n < Far THEN n + 1 ELSE Far

\* Mutant: the ticker is a timer that fires once.
PassOneShot ==
    /\ storing = <<>>
    /\ cr.exists => cached = "current"
    /\ \/ pc \in {"asn", "collect", "write"} /\ timer.busy < CollectMax
       \/ pc = "sleep" /\ timer.sleep > 0
       \/ pc = "idle" /\ ~tick /\ ~stopping
    /\ timer' = [toTick |-> timer.toTick - 1,
                 busy |-> IF pc \in {"asn", "collect", "write"}
                          THEN timer.busy + 1 ELSE timer.busy,
                 sleep |-> IF pc = "sleep" THEN timer.sleep - 1 ELSE timer.sleep,
                 sinceWrite |-> Capped(timer.sinceWrite),
                 age |-> Capped(timer.age),
                 quiet |-> Capped(timer.quiet),
                 calm |-> Capped(timer.calm)]
    /\ tick' = (tick \/ timer.toTick = 1)
    /\ UNCHANGED <<world, confVars, pc, startVars, collectVars, period,
                   lastWritten, crVars, stopping>>

(***************************************************************************)
(* One unit of time.  The collection has a deadline, a sleep ends when it  *)
(* is over, and a waiting tick or cancellation is taken at once.  A tick   *)
(* that finds another one waiting in the channel is dropped.               *)
(***************************************************************************)
Pass ==
    /\ storing = <<>>
    /\ cr.exists => cached = "current"
    /\ \/ pc \in {"asn", "collect", "write"} /\ timer.busy < CollectMax
       \/ pc = "sleep" /\ timer.sleep > 0
       \/ pc = "idle" /\ ~tick /\ ~stopping
    /\ timer' = [toTick |-> IF timer.toTick = 1 THEN period ELSE timer.toTick - 1,
                 busy |-> IF pc \in {"asn", "collect", "write"}
                          THEN timer.busy + 1 ELSE timer.busy,
                 sleep |-> IF pc = "sleep" THEN timer.sleep - 1 ELSE timer.sleep,
                 sinceWrite |-> Capped(timer.sinceWrite),
                 age |-> Capped(timer.age),
                 quiet |-> Capped(timer.quiet),
                 calm |-> Capped(timer.calm)]
    /\ tick' = (tick \/ timer.toTick = 1)
    /\ UNCHANGED <<world, confVars, pc, startVars, collectVars, period,
                   lastWritten, crVars, stopping>>

-----------------------------------------------------------------------------
(***************************************************************************)
(* Start, up to the loop.                                                  *)
(***************************************************************************)

\* The defaults, stored by Start whatever UpdateConfig has stored before.
SetDefaults ==
    /\ \/ /\ pc = "start"
          /\ atoms' = [atoms EXCEPT !.enabled = TRUE]
          /\ pc' = "startHb"
       \/ /\ pc = "startHb"
          /\ atoms' = [atoms EXCEPT !.hb = DefaultHeartbeat]
          /\ pc' = "ensure"
    /\ UNCHANGED <<world, conf, storing, startVars, collectVars, timer, tickVars,
                   lastWritten, crVars, stopping>>

\* An attempt failed: the last one is followed by the collection all the same.
EnsureFails ==
    /\ attempt' = attempt + 1
    /\ pc' = IF attempt + 1 = EnsureAttempts THEN "initial" ELSE "ensure"
    /\ timer' = [timer EXCEPT !.calm = 0]
    /\ UNCHANGED crVars

(***************************************************************************)
(* ensureBGPNodeStatus: a cancelled context ends Start with no shutdown    *)
(* marker; an object that the cache lacks is created, which fails if it    *)
(* exists.                                                                 *)
(***************************************************************************)
Ensure ==
    /\ pc = "ensure"
    /\ \/ /\ stopping
          /\ pc' = "stopped"
          /\ UNCHANGED <<attempt, crVars, timer>>
       \/ /\ ~stopping
          /\ cached # "absent"
          /\ pc' = "initial"
          /\ UNCHANGED <<attempt, crVars, timer>>
       \/ /\ ~stopping
          /\ cached = "absent" /\ ~cr.exists
          /\ cr' = [NoObject EXCEPT !.exists = TRUE]
          /\ cached' \in (IF Lag THEN {"absent", "current"} ELSE {"current"})
          /\ pc' = "initial"
          /\ UNCHANGED <<attempt, timer>>
       \/ /\ ~stopping
          /\ ApiFaults \/ (cached = "absent" /\ cr.exists)
          /\ EnsureFails
    /\ UNCHANGED <<world, confVars, first, collectVars, tickVars, lastWritten,
                   stopping>>

\* collectStatus starts with the identity, read from one atomic at a time.
Begin ==
    /\ status' = [NoStatus EXCEPT !.rid = atoms.rid]
    /\ todo' = PartsInOrder
    /\ pc' = "asn"

\* The ticker is created, and the first collection made, enabled or not.
Initial ==
    /\ pc = "initial"
    /\ Begin
    /\ period' = atoms.hb
    /\ timer' = [timer EXCEPT !.toTick = atoms.hb, !.busy = 0, !.calm = 0,
                              !.quiet = 0]
    /\ UNCHANGED <<world, confVars, startVars, tick, lastWritten, crVars, stopping>>

-----------------------------------------------------------------------------
(***************************************************************************)
(* The loop.                                                               *)
(***************************************************************************)

\* Mutant: a disabled reporter no longer looks at its ticker or its context.
DoneWhenEnabled ==
    /\ pc = "idle"
    /\ stopping /\ atoms.enabled
    /\ pc' = "shutdown"
    /\ UNCHANGED <<world, confVars, startVars, collectVars, timer, tickVars,
                   lastWritten, crVars, stopping>>

\* Mutant: a disabled reporter stops without a marker.
DoneUnmarked ==
    /\ pc = "idle"
    /\ stopping
    /\ pc' = IF atoms.enabled THEN "shutdown" ELSE "stopped"
    /\ UNCHANGED <<world, confVars, startVars, collectVars, timer, tickVars,
                   lastWritten, crVars, stopping>>

Done ==
    /\ pc = "idle"
    /\ stopping
    /\ pc' = "shutdown"
    /\ UNCHANGED <<world, confVars, startVars, collectVars, timer, tickVars,
                   lastWritten, crVars, stopping>>

\* A tick: skipped when reporting is disabled.
Tick ==
    /\ pc = "idle"
    /\ tick
    /\ tick' = FALSE
    /\ IF atoms.enabled
       THEN Begin /\ timer' = [timer EXCEPT !.busy = 0]
       ELSE UNCHANGED <<pc, collectVars, timer>>
    /\ UNCHANGED <<world, confVars, startVars, period, lastWritten, crVars, stopping>>

ReadASN ==
    /\ pc = "asn"
    /\ status' = [status EXCEPT !.asn = atoms.asn]
    /\ pc' = "collect"
    /\ UNCHANGED <<world, confVars, startVars, todo, timer, tickVars, lastWritten,
                   crVars, stopping>>

(***************************************************************************)
(* What failed calls leave of a part.  A stream that breaks leaves the     *)
(* imports, exports and RIB routes received so far, and a VRF short of its *)
(* counts.  An address whose prefix was not received is listed as not in   *)
(* the RIB, if its interface can be read; a route received is listed as    *)
(* not installed if the kernel's list of its family cannot be.  The RIB is *)
(* never left out; every other part is if its first call fails.            *)
(***************************************************************************)
Broken(part, w) ==
    CASE part = "import" ->
            {Nil} \cup
            UNION {Import([w EXCEPT !.inRIB = S,
                                    !.missing = (@ \cup (w.inRIB \ S)) \cap K]) :
                    S \in SUBSET w.inRIB, K \in SUBSET Addresses}
      [] part = "export" ->
            {Nil} \cup
            UNION {Export([w EXCEPT !.installed = @ \cap S \cap K,
                                    !.lost = S \cap (@ \cup (w.installed \ K))]) :
                    S, K \in SUBSET Routes}
      [] part = "rib" -> Views
      [] part = "vrfs" -> Views \cup {Nil}
      [] OTHER -> {Nil}

\* The next call of collectStatus.  Failures are only logged.
Collect ==
    /\ pc = "collect"
    /\ LET part == Head(todo)
           done == Tail(todo) = <<>>
       IN  /\ \/ /\ ~stopping
                 /\ \E v \in Collected(part, world) :
                       status' = [status EXCEPT !.parts[part] = v,
                                    !.healthy = done /\ deriveHealth(
                                        [status.parts EXCEPT ![part] = v])]
                 /\ UNCHANGED timer
              \/ /\ part \in RpcFaults \/ stopping
                 /\ \E v \in Broken(part, world) :
                       status' = [status EXCEPT !.parts[part] = v,
                                    !.healthy = done /\ deriveHealth(
                                        [status.parts EXCEPT ![part] = v])]
                 /\ timer' = [timer EXCEPT !.calm = 0]
           /\ todo' = Tail(todo)
           /\ pc' = IF done THEN "compare" ELSE "collect"
    /\ UNCHANGED <<world, confVars, startVars, tickVars, lastWritten, crVars,
                   stopping>>

(***************************************************************************)
(* collectAndWrite returns with the clocks at t.  The loop then adopts a   *)
(* new heartbeat; the first collection, made before the loop, does not.    *)
(***************************************************************************)
Return(t) ==
    /\ pc' = "idle"
    /\ first' = FALSE
    /\ status' = NoStatus
    /\ IF first \/ atoms.hb = period
       THEN timer' = t /\ UNCHANGED tickVars
       ELSE /\ period' = atoms.hb
            /\ tick' = FALSE
            /\ timer' = [t EXCEPT !.toTick = atoms.hb]

\* Mutant: the jitter is as long as the heartbeat.
WholeJitter(h) == 0..h

\* Jitter(h): a random part of a quarter of the heartbeat.
Jitter(h) == 0..(h \div 4)

\* Mutant: an unchanged status is never written again.
CompareNoHeartbeat ==
    /\ pc = "compare"
    /\ IF statusEqual(lastWritten, status)
       THEN Return(timer)
       ELSE /\ \E j \in Jitter(atoms.hb) : timer' = [timer EXCEPT !.sleep = j]
            /\ pc' = "sleep"
            /\ UNCHANGED <<first, status, tickVars>>
    /\ UNCHANGED <<world, confVars, attempt, todo, lastWritten, crVars,
                   stopping>>

\* writeStatus, up to its sleep.
Compare ==
    /\ pc = "compare"
    /\ IF statusEqual(lastWritten, status)
       THEN IF timer.sinceWrite < atoms.hb
            THEN Return(timer)
            ELSE pc' = "write" /\ UNCHANGED <<first, status, timer, tickVars>>
       ELSE /\ \E j \in Jitter(atoms.hb) : timer' = [timer EXCEPT !.sleep = j]
            /\ pc' = "sleep"
            /\ UNCHANGED <<first, status, tickVars>>
    /\ UNCHANGED <<world, confVars, attempt, todo, lastWritten, crVars,
                   stopping>>

Wake ==
    /\ pc = "sleep"
    /\ timer.sleep = 0
    /\ pc' = "write"
    /\ UNCHANGED <<world, confVars, startVars, collectVars, timer, tickVars,
                   lastWritten, crVars, stopping>>

\* The object after the API server accepts a status.
Published == [exists |-> TRUE, status |-> status, shutdown |-> FALSE]

\* Mutant: the status is remembered before the API server has accepted it.
WriteRemembersFirst ==
    /\ pc = "write"
    /\ lastWritten' = status
    /\ \/ /\ cached = "current" /\ ~stopping
          /\ cr' = Published
          /\ Outdated
          /\ Return([timer EXCEPT !.sinceWrite = 0, !.age = 0])
       \/ /\ cached # "current" \/ stopping \/ ApiFaults
          /\ Return([timer EXCEPT !.calm = 0])
          /\ UNCHANGED crVars
    /\ UNCHANGED <<world, confVars, attempt, todo, stopping>>

(***************************************************************************)
(* writeStatus, after its sleep: Get, then Status().Update of the copy.    *)
(* The write fails on a copy that is missing or outdated, under a          *)
(* cancelled context, or because the API server fails.                     *)
(***************************************************************************)
Write ==
    /\ pc = "write"
    /\ \/ /\ cached = "current" /\ ~stopping
          /\ cr' = Published
          /\ Outdated
          /\ lastWritten' = status
          /\ Return([timer EXCEPT !.sinceWrite = 0, !.age = 0])
       \/ /\ LostReplies
          /\ cached = "current" /\ ~stopping
          /\ cr' = Published
          /\ Outdated
          /\ Return([timer EXCEPT !.calm = 0, !.age = 0])
          /\ UNCHANGED lastWritten
       \/ /\ cached # "current" \/ stopping \/ ApiFaults
          /\ Return([timer EXCEPT !.calm = 0])
          /\ UNCHANGED <<lastWritten, crVars>>
    /\ UNCHANGED <<world, confVars, attempt, todo, stopping>>

\* markShutdown: one attempt, with a context of its own.
MarkShutdown ==
    /\ pc = "shutdown"
    /\ pc' = "stopped"
    /\ \/ /\ cached = "current"
          /\ cr' = [cr EXCEPT !.shutdown = TRUE,
                              !.status = IF @ = Nil THEN Nil
                                         ELSE [@ EXCEPT !.healthy = FALSE]]
          /\ Outdated
          /\ timer' = [timer EXCEPT !.age = 0]
       \/ /\ cached # "current" \/ ApiFaults
          /\ UNCHANGED <<crVars, timer>>
    /\ UNCHANGED <<world, confVars, startVars, collectVars, tickVars,
                   lastWritten, stopping>>

-----------------------------------------------------------------------------
Reporter ==
    \/ SetDefaults \/ Ensure \/ Initial \/ Done \/ Tick \/ ReadASN \/ Collect
    \/ Compare \/ Wake \/ Write \/ MarkShutdown

Environment ==
    \/ WorldChanges \/ (\E c \in Config : UpdateConfig(c)) \/ Store \/ CacheSync
    \/ Stop \/ Restart \/ Pass

Next == Reporter \/ Environment

Spec == Init /\ [][Next]_vars

(***************************************************************************)
(* Fairness: the goroutine is scheduled, the reconciler finishes storing,  *)
(* the watch delivers and time passes.                                     *)
(***************************************************************************)
FairSpec ==
    Spec /\ WF_vars(Reporter) /\ WF_vars(Store) /\ WF_vars(CacheSync) /\ WF_vars(Pass)

-----------------------------------------------------------------------------
\* The loop is running and reports.
Reporting ==
    /\ pc \in {"idle", "asn", "collect", "compare", "sleep", "write"}
    /\ ~stopping /\ storing = <<>> /\ atoms.enabled /\ cr.exists

\* "Writes status on state change": one heartbeat and two collections, with
\* their jitter, after the last change (one that misses it, and whose end may
\* reset the ticker, and the next), and another heartbeat after the last fault,
\* the object says what gobgpd holds: every part is current, its health is
\* true, and its identity is the one of one configuration although the atomics
\* behind it are stored and loaded one by one.
ChangeIsPublished ==
    Reporting /\ timer.quiet > Longest + 2 * Slack /\ timer.calm > 2 * (Longest + Slack)
        => /\ cr.status # Nil
           /\ Depicts(cr.status.parts, world)
           /\ cr.status.healthy = Well(world)
           /\ cr.status.rid = cr.status.asn /\ cr.status.rid = atoms.rid

\* "Heartbeat ensures lastUpdated advances even when stable": without faults
\* the object is never older than two heartbeats and one collection.
HeartbeatAdvances ==
    Reporting /\ timer.quiet > Longest + Slack /\ timer.calm > 2 * Longest + Slack
        => timer.age <= 2 * Longest + Slack

\* writeStatus suppresses a write by comparing with its memory, not with the
\* object: what it remembers is what the object holds, through refused
\* writes and crashes, unless the reply to an accepted write was lost.
MemoryIsPublished ==
    ~LostReplies /\ lastWritten # Nil /\ ~cr.shutdown => cr.status = lastWritten

\* markShutdown: an agent that stops once its reporter has published leaves an
\* object that says so and is not healthy, whether it was collecting, asleep
\* before a write or disabled when it was cancelled, unless the one attempt
\* fails or finds an outdated copy.
StoppedIsMarked ==
    pc = "stopped" /\ ~first /\ ~ApiFaults /\ ~Lag
        => cr.shutdown /\ (cr.status = Nil \/ ~cr.status.healthy)

\* A cancelled agent stops, whatever the reporter is doing and whether or
\* not it is enabled.
CancelStops == stopping ~> (pc = "stopped" \/ ~stopping)

=============================================================================
