----------------------------- MODULE NodeCache ------------------------------
(***************************************************************************)
(* What an agent knows of its own Node, and what it derives from it: the   *)
(* router ID, which is locked once resolved, and the labels that decide    *)
(* which peer groups and neighbors are configured here.                    *)
(*                                                                         *)
(* Three goroutines share the node cache: the reconciler, which fills it,  *)
(* the Node watch, whose predicate invalidates it, and time, which expires *)
(* it.  The cache locks each operation, but not the reconciler's read of   *)
(* the Node and the store that follows it.                                 *)
(***************************************************************************)
EXTENDS Naturals

CONSTANTS
    Labels,      \* the label sets of the node
    AddressSets, \* the addresses a Node may have
    Annotations, \* the values of the annotation a template may name
    Modes,       \* spec.global.routerID: see Mode
    Ones,        \* prefix lengths of routerIDPool
    Width,       \* of an address: 32 bits
    Hashes,      \* FNV-1a hashes of the node's name
    TTL,         \* nodeCacheTTL, in units of time
    Deadline,    \* maxStartupRetryTime, in units of time
    MayRecreate, \* may users delete the object and create it again?
    MayRestart,
    MayEvents,   \* may the Node change?
    ApiFaults,   \* may a Get of the Node fail?
    MaxChanges,  \* bound: changes of the Node
    MaxEdits,    \* bound: edits of the object, deletions and restarts
    None

\* A routerID is an address, a template (NODE_IP and NODE_IPV4 name the
\* internal address) or empty.
Mode == {"explicit", "otherExplicit", "invalid", "internal", "external",
         "annotation", "auto"}

Address == {"internal4", "external4", "other"}

Node == [labels : Labels, addresses : AddressSets, annotation : Annotations]

ASSUME ModesAssumption ==
    /\ Modes \subseteq Mode /\ Modes # {} /\ Labels # {}
    /\ AddressSets \subseteq SUBSET Address
    /\ Annotations \subseteq {"absent", "valid", "bad"}

ASSUME PoolAssumption ==
    /\ Width \in Nat /\ Ones \subseteq 0..(Width - 2) /\ Ones # {}
    /\ Hashes \subseteq 0..(2^Width - 1) /\ Hashes # {}

ASSUME TimeAssumption == TTL \in Nat /\ Deadline \in Nat

ASSUME BoundsAssumption == MaxChanges \in Nat /\ MaxEdits \in Nat

VARIABLES
    node,     \* the Node as the informer holds it
    hash,     \* of the node's name
    events,   \* label changes whose event is not handled yet
    since,    \* time since the Node changed
    spec,     \* the object's routerID and routerIDPool, None if there is none
    queued,   \* is a request queued?
    pc,       \* where the reconciler is
    need,     \* what it reads the Node for: "resolve" or one of Selected
    want,     \* the copy of spec this pass works on
    copy,     \* the Node it works on
    waited,   \* time in getNodeWithRetry
    cache,    \* nodeCache: a copy and its age, or None
    lock,     \* the entry of localRouterIDCache, or None
    speaker,  \* gobgpd's router ID, None before StartBgp
    applied,  \* the labels that selectors were last evaluated on, None before
    raced,    \* was an event handled between a read and its store?
    dropped,  \* was the entry dropped while the speaker was running?
    changes, edits

vars == <<node, hash, events, since, spec, queued, pc, need, want, copy, waited,
          cache, lock, speaker, applied, raced, dropped, changes, edits>>

nodeVars == <<node, hash, events, since, changes>>
passVars == <<need, want, copy, waited>>
history == <<raced, dropped>>
knownVars == <<cache, lock, speaker, applied, history>>

\* What has node selectors, in the order of the pass; a peer group and a
\* neighbor stand for all of them.
Selected == {"groups", "peers"}

Far == TTL + 2

Global == [mode : Modes, ones : Ones]

\* Where a router ID comes from, and its offset in the pool if it is hashed.
RouterID == [source : {"explicit", "template", "node-ipv4", "hash-from-node-name"},
             id : {"explicit", "otherExplicit", "internal4", "external4",
                   "annotation", "hash"},
             offset : 0..(2^Width)]

Old(t, bound) == IF t < bound THEN t + 1 ELSE bound

TypeOK ==
    /\ node \in Node /\ hash \in Hashes /\ events \in 0..MaxChanges /\ since \in 0..Far
    /\ spec \in Global \cup {None} /\ want \in Global \cup {None}
    /\ {queued, raced, dropped} \subseteq BOOLEAN
    /\ pc \in {"idle", "lookup", "fetch", "wait", "store", "resolve", "global"} \cup Selected
    /\ need \in {"resolve"} \cup Selected
    /\ copy \in Node \cup {None} /\ waited \in 0..(Deadline + 1)
    /\ cache = None \/ (cache.node \in Node /\ cache.age \in 0..Far)
    /\ lock \in RouterID \cup {None} /\ speaker \in RouterID \cup {None}
    /\ applied \in [Selected -> Labels \cup {None}]
    /\ changes \in 0..MaxChanges /\ edits \in 0..MaxEdits

Init ==
    /\ node \in Node /\ hash \in Hashes /\ events = 0 /\ since = 0
    /\ spec \in Global /\ queued = TRUE
    /\ pc = "idle" /\ need = "resolve" /\ want = None /\ copy = None /\ waited = 0
    /\ cache = None /\ lock = None /\ speaker = None
    /\ applied = [s \in Selected |-> None]
    /\ raced = FALSE /\ dropped = FALSE /\ changes = 0 /\ edits = 0
-----------------------------------------------------------------------------
(***************************************************************************)
(* The Node, users and time.                                               *)
(***************************************************************************)

\* The informer stores the new Node, and then calls the predicate.
Relabel ==
    /\ MayEvents /\ changes < MaxChanges
    /\ changes' = changes + 1
    /\ \E l \in Labels \ {node.labels} : node' = [node EXCEPT !.labels = l]
    /\ events' = events + 1
    /\ since' = 0
    /\ UNCHANGED <<hash, spec, queued, pc, passVars, knownVars, edits>>

\* The cloud provider populates addresses, or an annotation changes: the
\* predicate drops the event.
Populate ==
    /\ MayEvents /\ changes < MaxChanges
    /\ changes' = changes + 1
    /\ node' \in {n \in Node : n # node /\ n.labels = node.labels}
    /\ since' = 0
    /\ UNCHANGED <<hash, events, spec, queued, pc, passVars, knownVars, edits>>

\* Mutant: the predicate enqueues, but leaves the cached Node.
HandleEventNoInvalidate ==
    /\ events > 0
    /\ events' = events - 1
    /\ queued' = (queued \/ spec # None)
    /\ UNCHANGED <<node, hash, since, changes, spec, pc, passVars, knownVars, edits>>

\* nodeLabelChangePredicate invalidates, nodeToRequests enqueues.
HandleEvent ==
    /\ events > 0
    /\ events' = events - 1
    /\ cache' = None
    /\ queued' = (queued \/ spec # None)
    /\ raced' = (raced \/ (pc = "store" /\ copy.labels # node.labels))
    /\ UNCHANGED <<node, hash, since, changes, spec, pc, passVars, lock, speaker,
                   applied, dropped, edits>>

Edit ==
    /\ spec # None
    /\ edits < MaxEdits
    /\ edits' = edits + 1
    /\ spec' \in Global \ {spec}
    /\ queued' = TRUE
    /\ UNCHANGED <<nodeVars, pc, passVars, knownVars>>

\* The object goes away: this agent removed the finalizer, and with it its
\* entry of localRouterIDCache, or another agent did, and the entry stays.
Remove ==
    /\ MayRecreate
    /\ spec # None
    /\ edits < MaxEdits
    /\ edits' = edits + 1
    /\ spec' = None
    /\ \/ /\ pc = "idle"
          /\ lock' = None
          /\ dropped' = (speaker # None)
       \/ UNCHANGED <<lock, dropped>>
    /\ UNCHANGED <<nodeVars, queued, pc, passVars, cache, speaker, applied, raced>>

Recreate ==
    /\ spec = None
    /\ spec' \in Global
    /\ queued' = TRUE
    /\ UNCHANGED <<nodeVars, pc, passVars, knownVars, edits>>

\* The container restarts, and gobgpd with it.
Restart ==
    /\ MayRestart
    /\ edits < MaxEdits
    /\ edits' = edits + 1
    /\ pc' = "idle" /\ waited' = 0 /\ want' = None /\ copy' = None /\ need' = "resolve"
    /\ queued' = (spec # None)
    /\ cache' = None /\ lock' = None /\ speaker' = None
    /\ applied' = [s \in Selected |-> None]
    /\ events' = 0 /\ raced' = FALSE /\ dropped' = FALSE
    /\ UNCHANGED <<node, hash, since, changes, spec>>

\* Time passes between passes, and while the reconciler waits for the Node.
Pass ==
    /\ pc \in {"idle", "wait"}
    /\ events = 0
    /\ since' = Old(since, Far)
    /\ cache' = IF cache = None THEN None ELSE [cache EXCEPT !.age = Old(@, Far)]
    /\ pc' = IF pc = "wait" THEN "fetch" ELSE pc
    /\ waited' = IF pc = "wait" THEN waited + 1 ELSE waited
    /\ UNCHANGED <<node, hash, events, changes, spec, queued, need, want, copy, lock,
                   speaker, applied, history, edits>>
-----------------------------------------------------------------------------
(***************************************************************************)
(* The router ID.                                                          *)
(***************************************************************************)

\* Mutant: the last address of the pool is taken too, and the first.
AnyOffset(h, ones) == h % 2^(Width - ones)

(***************************************************************************)
(* GenerateRouterIDFromNodeName: the offset in the pool, in unsigned       *)
(* arithmetic.  For a pool of the whole address space 1 << Width is zero.  *)
(***************************************************************************)
Offset(h, ones) ==
    LET poolSize == 2^(Width - ones) % 2^Width
    IN  (h % ((poolSize + 2^Width - 2) % 2^Width)) + 1

Known(source, id) == [source |-> source, id |-> id, offset |-> 0]

\* resolveRouterIDTemplate: the address that a template names on a node.
Template(mode, n) ==
    CASE mode = "internal" /\ "internal4" \in n.addresses -> "internal4"
      [] mode = "external" /\ "external4" \in n.addresses -> "external4"
      [] mode = "annotation" /\ n.annotation = "valid" -> "annotation"
      [] OTHER -> None

Explicit == {"explicit", "otherExplicit"}
Templates == {"internal", "external", "annotation"}

\* autoDetectRouterID.
AutoDetect(ones, n) ==
    IF "internal4" \in n.addresses THEN Known("node-ipv4", "internal4")
    ELSE [source |-> "hash-from-node-name", id |-> "hash", offset |-> Offset(hash, ones)]

\* ResolveRouterID: the router ID, or None for an error.
ResolveRouterID(s, n) ==
    CASE s.mode \in Explicit -> Known("explicit", s.mode)
      [] s.mode = "auto" -> AutoDetect(s.ones, n)
      [] s.mode \in Templates /\ Template(s.mode, n) # None ->
            Known("template", Template(s.mode, n))
      [] OTHER -> None

\* Two router IDs that gobgpd would find different.
Differ(r, q) == <<r.id, r.offset>> # <<q.id, q.offset>>

\* The pass fails, and is tried again in 30 seconds.
Fail ==
    /\ pc' = "idle"
    /\ queued' = TRUE

-----------------------------------------------------------------------------
(***************************************************************************)
(* A pass.                                                                 *)
(***************************************************************************)

\* A pass reads the Node first if it has to resolve the router ID from it.
Begin ==
    /\ pc = "idle"
    /\ queued
    /\ queued' = FALSE
    /\ IF spec = None
       THEN UNCHANGED <<pc, need, want>>
       ELSE /\ want' = spec
            /\ need' = "resolve"
            /\ pc' = IF lock = None /\ spec.mode \in Templates \cup {"auto"}
                     THEN "lookup" ELSE "resolve"
    /\ UNCHANGED <<nodeVars, spec, copy, waited, knownVars, edits>>

\* Mutant: a cached Node never expires.
LookupForever ==
    /\ pc = "lookup"
    /\ IF cache # None
       THEN copy' = cache.node /\ pc' = need /\ UNCHANGED <<cache, waited>>
       ELSE cache' = None /\ waited' = 0 /\ pc' = "fetch" /\ UNCHANGED copy
    /\ UNCHANGED <<nodeVars, spec, queued, need, want, lock, speaker, applied, history,
                   edits>>

\* nodeCache.get: an expired copy is evicted.
Lookup ==
    /\ pc = "lookup"
    /\ IF cache # None /\ cache.age <= TTL
       THEN copy' = cache.node /\ pc' = need /\ UNCHANGED <<cache, waited>>
       ELSE cache' = None /\ waited' = 0 /\ pc' = "fetch" /\ UNCHANGED copy
    /\ UNCHANGED <<nodeVars, spec, queued, need, want, lock, speaker, applied, history,
                   edits>>

\* Mutant: a Node without addresses is waited for without a deadline.
FetchForever ==
    /\ pc = "fetch"
    /\ IF node.addresses # {}
       THEN copy' = node /\ pc' = "store"
       ELSE pc' = "wait" /\ UNCHANGED copy
    /\ UNCHANGED <<nodeVars, spec, queued, need, want, waited, knownVars, edits>>

\* Mutant: the deadline is set anew before every Get.
FetchAnew ==
    /\ pc = "fetch"
    /\ IF node.addresses # {}
       THEN copy' = node /\ pc' = "store"
       ELSE pc' = "wait" /\ UNCHANGED copy
    /\ waited' = 0
    /\ UNCHANGED <<nodeVars, spec, queued, need, want, knownVars, edits>>

(***************************************************************************)
(* getNodeWithRetry, one Get: a Node without addresses is taken after the  *)
(* deadline, and a Get that still fails then is an error of the pass.      *)
(***************************************************************************)
Fetch ==
    /\ pc = "fetch"
    /\ \/ /\ node.addresses # {} \/ waited > Deadline
          /\ copy' = node
          /\ pc' = "store"
          /\ UNCHANGED queued
       \/ /\ node.addresses = {} \/ ApiFaults
          /\ waited <= Deadline
          /\ pc' = "wait"
          /\ UNCHANGED <<copy, queued>>
       \/ /\ ApiFaults
          /\ waited > Deadline
          /\ Fail
          /\ UNCHANGED copy
    /\ UNCHANGED <<nodeVars, spec, need, want, waited, knownVars, edits>>

\* nodeCache.set.
Store ==
    /\ pc = "store"
    /\ cache' = [node |-> copy, age |-> 0]
    /\ pc' = need
    /\ UNCHANGED <<nodeVars, spec, queued, passVars, lock, speaker, applied, history,
                   edits>>

\* Mutant: the router ID is resolved again in every pass.
ResolveAgain ==
    /\ pc = "resolve"
    /\ IF copy = None /\ want.mode \notin Explicit
       THEN pc' = "global" /\ UNCHANGED <<lock, queued>>
       ELSE IF ResolveRouterID(want, copy) = None
       THEN Fail /\ UNCHANGED lock
       ELSE lock' = ResolveRouterID(want, copy) /\ pc' = "global" /\ UNCHANGED queued
    /\ UNCHANGED <<nodeVars, spec, passVars, cache, speaker, applied, history, edits>>

\* resolveEffectiveRouterID: resolve, unless there is an entry.
Resolve ==
    /\ pc = "resolve"
    /\ IF lock # None
       THEN pc' = "global" /\ UNCHANGED <<lock, queued>>
       ELSE IF ResolveRouterID(want, copy) = None
       THEN Fail /\ UNCHANGED lock
       ELSE lock' = ResolveRouterID(want, copy) /\ pc' = "global" /\ UNCHANGED queued
    /\ UNCHANGED <<nodeVars, spec, passVars, cache, speaker, applied, history, edits>>

\* reconcileGlobal: StartBgp, or stop if the speaker has another router ID.
StartBgp ==
    /\ pc = "global"
    /\ IF speaker # None /\ Differ(speaker, lock)
       THEN Fail /\ UNCHANGED <<speaker, need>>
       ELSE /\ speaker' = IF speaker = None THEN lock ELSE speaker
            /\ need' = "groups"
            /\ pc' = "lookup"
            /\ UNCHANGED queued
    /\ UNCHANGED <<nodeVars, spec, want, copy, waited, cache, lock, applied, history,
                   edits>>

\* nodeMatchesSelector, which gets the Node anew for each selector: those of
\* the peer groups and, later in the pass, of the neighbors.
Select ==
    /\ pc \in Selected
    /\ applied' = [applied EXCEPT ![pc] = copy.labels]
    /\ IF pc = "groups" THEN pc' = "lookup" /\ need' = "peers"
                        ELSE pc' = "idle" /\ UNCHANGED need
    /\ UNCHANGED <<nodeVars, spec, queued, want, copy, waited, cache, lock, speaker,
                   history, edits>>
-----------------------------------------------------------------------------
Agent == Begin \/ Lookup \/ Fetch \/ Store \/ Resolve \/ StartBgp \/ Select

Next ==
    \/ Agent \/ HandleEvent \/ Pass
    \/ Relabel \/ Populate \/ Edit \/ Remove \/ Recreate \/ Restart

Spec == Init /\ [][Next]_vars

\* The worker and the informer run, and time passes.
FairSpec == Spec /\ WF_vars(Agent) /\ WF_vars(HandleEvent) /\ WF_vars(Pass)
-----------------------------------------------------------------------------
\* The labels and addresses a pass works on were the Node's at most one
\* nodeCacheTTL ago, although only label changes invalidate the cache.
CopyIsRecent ==
    /\ \/ pc \in Selected
       \/ pc = "resolve" /\ lock = None /\ want.mode \in Templates \cup {"auto"}
    /\ copy # node
    => since <= TTL

\* "The ID doesn't change during the pod's lifetime": gobgpd cannot change the
\* router ID of a running speaker, so a pass with another one always fails.
\* Through edits of routerID, changing addresses and annotations, restarts and
\* recreated objects, only reconcileDelete, which drops the entry and leaves
\* the speaker running, can bring this about.
IdentityIsStable ==
    speaker # None /\ lock # None /\ ~dropped => ~Differ(speaker, lock)

\* "Usable range: [1, poolSize-2]": a hashed router ID is in the pool, and
\* neither its network nor its broadcast address, the whole address space
\* included, where the size of the pool overflows.
HashInPool ==
    want # None => Offset(hash, want.ones) \in 1..(2^(Width - want.ones) - 2)

\* The only worker is never stuck in getNodeWithRetry, with a Node whose
\* addresses are never populated or an API server that does not answer.
WorkerIsFreed == pc # "idle" ~> pc = "idle"

\* "Invalidate cached node so reconciler reads fresh labels": unless the API
\* server goes on failing, the last labels of the node are applied to the peer
\* groups and to the neighbors, or an event was handled between the
\* reconciler's read of the Node and its store of what it read: that is the
\* only way to lose a change.
LabelsTakeEffectUnlessRaced ==
    <>[](pc # "wait") =>
        <>[](spec # None /\ speaker # None /\ ~raced /\ ~dropped
                => \A s \in Selected : applied[s] = node.labels)
=============================================================================
