----------------------------- MODULE GobgpdSync -----------------------------
(***************************************************************************)
(* One agent bringing its gobgpd to what a BGPConfiguration asks for: the  *)
(* chain of reconcileGlobal, reconcileDefinedSets, ..., reconcileNetlink,  *)
(* and the cleanup of reconcileDelete.                                     *)
(*                                                                         *)
(* Every link of the chain lists what gobgpd holds of one kind, deletes    *)
(* what is not wanted, and adds or updates the rest.  A list call that     *)
(* fails stops the chain; a stream that breaks, or an add, update or       *)
(* delete that gobgpd refuses, is only logged, and the pass succeeds.      *)
(*                                                                         *)
(* An object is a name, and its configuration one of a few versions, which *)
(* differ in a field that the code compares.                               *)
(***************************************************************************)
EXTENDS Naturals, FiniteSets, Sequences

CONSTANTS
    Sets, Policies, Vrfs, Groups, Ranges, Peers,  \* names, by kind
    Versions,       \* the configurations of one object
    Uses,           \* the group or set that an object refers to, or None
    InRange,        \* <<p, r>>: peer address p lies in dynamic range r
    Specs,          \* the specifications users write: see Desire
    Selectable,     \* groups and peers with a nodeSelector
    None,
    Strict,         \* does gobgpd refuse to delete an object in use?
    BrokenStreams,  \* may a list stream break halfway?
    CallFaults,     \* may a single add, update or delete fail?
    MaxEdits,       \* bound: edits of the specification and of node labels
    MaxFaults       \* bound: failed calls and restarts

Names == Sets \cup Policies \cup Vrfs \cup Groups \cup Ranges \cup Peers

\* The links of the chain in Reconcile that sweep one kind of object, and the
\* link after each.
Kind == [sets |-> Sets, policies |-> Policies, vrfs |-> Vrfs, groups |-> Groups,
         ranges |-> Ranges, peers |-> Peers]

Following == [global |-> "sets", sets |-> "policies", policies |-> "vrfs",
              vrfs |-> "groups", groups |-> "ranges", ranges |-> "peers",
              peers |-> "netlink"]

\* What netlink import or export is set to.
Netlink == {"off"} \cup Versions
Directions == {"import", "export"}

(***************************************************************************)
(* A specification: the speaker's identity (its ASN; the router ID is      *)
(* locked: see NodeCache), the objects, the policy that applyPolicy names, *)
(* netlink, and the netlink block of each VRF, which may be absent.        *)
(***************************************************************************)
Desire == [identity : Versions,
           objs : UNION {[N -> Versions] : N \in SUBSET Names},
           apply : Policies \cup {None},
           netlink : [Directions -> Netlink],
           vrfNetlink : [Vrfs -> Netlink \cup {None}]]

ASSUME SpecsAssumption == Specs \subseteq Desire

ASSUME UsesAssumption ==
    /\ Uses \in [Names -> Sets \cup Groups \cup {None}]
    /\ InRange \subseteq Peers \X Ranges
    /\ Selectable \subseteq Groups \cup Peers

\* A name belongs to one kind, and ranges and peers refer to peer groups.
ASSUME KindsAssumption ==
    /\ \A j, k \in DOMAIN Kind : j # k => Kind[j] \cap Kind[k] = {}
    /\ \A x \in Ranges \cup Peers : Uses[x] \in Groups \cup {None}

ASSUME NoneAssumption == None \notin Specs /\ Ranges \cap Peers = {}

ASSUME BoundsAssumption == MaxEdits \in Nat /\ MaxFaults \in Nat

VARIABLES
    spec,     \* the specification users want
    here,     \* the selectable objects whose nodeSelector matches this node
    life,     \* of the object: "live", "deleting" or "gone"
    dirty,    \* is a request queued?
    stage,    \* "idle", a link of the chain, or "cleanup"
    want,     \* the copy of the specification this pass works on, or None
    groups,   \* desiredPeerGroups of this pass
    listed,   \* what this link's list call returned, or None before it
    silent,   \* history: has gobgpd failed a call of this pass that was only logged?
    reported, \* the Ready condition: "none", "ready" or "failed"
    identity, \* of the running speaker, None before StartBgp
    daemon,   \* the objects gobgpd holds, with their versions
    accepted, \* peers gobgpd accepted from a dynamic range
    assigned, \* the global policy assignment, or None
    netlink,  \* [Directions -> Netlink]
    vrfNetlink, \* [Vrfs -> Netlink]
    edits, faults

vars == <<spec, here, life, dirty, stage, want, groups, listed, silent, reported,
          identity, daemon, accepted, assigned, netlink, vrfNetlink, edits, faults>>

userVars == <<spec, here, life, edits>>
passVars == <<want, groups, listed, silent>>
kernelVars == <<netlink, vrfNetlink>>
daemonVars == <<identity, daemon, accepted, assigned, kernelVars>>

NoObjects == [x \in {} |-> 0]
AllOff(S) == [x \in S |-> "off"]

TypeOK ==
    /\ spec \in Specs /\ want \in Specs \cup {None}
    /\ here \subseteq Selectable
    /\ life \in {"live", "deleting", "gone"}
    /\ dirty \in BOOLEAN /\ silent \in BOOLEAN
    /\ stage \in {"idle", "cleanup", "netlink"} \cup DOMAIN Following
    /\ groups \subseteq Groups
    /\ listed = None \/ listed \subseteq Names
    /\ reported \in {"none", "ready", "failed"}
    /\ identity \in Versions \cup {None}
    /\ DOMAIN daemon \subseteq Names
    /\ \A x \in DOMAIN daemon : daemon[x] \in Versions
    /\ accepted \subseteq Peers \ DOMAIN daemon
    /\ assigned \in Policies \cup {None}
    /\ netlink \in [Directions -> Netlink] /\ vrfNetlink \in [Vrfs -> Netlink]
    /\ edits \in 0..MaxEdits /\ faults \in 0..MaxFaults

Init ==
    /\ spec \in Specs /\ want = None
    /\ here = Selectable
    /\ life = "live" /\ dirty = TRUE
    /\ stage = "idle" /\ groups = {} /\ listed = None /\ silent = FALSE
    /\ reported = "none"
    /\ identity = None /\ daemon = NoObjects /\ accepted = {} /\ assigned = None
    /\ netlink = AllOff(Directions) /\ vrfNetlink = AllOff(Vrfs)
    /\ edits = 0 /\ faults = 0

-----------------------------------------------------------------------------
(***************************************************************************)
(* Users, the node and gobgpd's peers.                                     *)
(***************************************************************************)

Edit ==
    /\ life = "live"
    /\ edits < MaxEdits
    /\ edits' = edits + 1
    /\ dirty' = TRUE
    /\ \/ /\ spec' \in Specs \ {spec}
          /\ UNCHANGED here
       \/ /\ here' \in SUBSET Selectable \ {here}
          /\ UNCHANGED spec
    /\ UNCHANGED <<life, stage, passVars, reported, daemonVars, faults>>

\* The first pass sets the finalizer; before it there is nothing to clean up.
Delete ==
    /\ life = "live" /\ want # None
    /\ life' = "deleting"
    /\ dirty' = TRUE
    /\ UNCHANGED <<spec, here, edits, stage, passVars, reported, daemonVars, faults>>

\* A peer whose address lies in a range gobgpd holds connects.
Accept(p) ==
    /\ p \notin DOMAIN daemon /\ p \notin accepted
    /\ \E r \in Ranges \cap DOMAIN daemon : <<p, r>> \in InRange
    /\ accepted' = accepted \cup {p}
    /\ UNCHANGED <<userVars, dirty, stage, passVars, reported, identity, daemon,
                   assigned, kernelVars, faults>>

Disconnect(p) ==
    /\ p \in accepted
    /\ accepted' = accepted \ {p}
    /\ UNCHANGED <<userVars, dirty, stage, passVars, reported, identity, daemon,
                   assigned, kernelVars, faults>>

\* The container restarts: gobgpd is empty, the request is queued again.
\* The routes of netlink export are withdrawn with the daemon.
Restart ==
    /\ faults < MaxFaults
    /\ faults' = faults + 1
    /\ dirty' = (life # "gone")
    /\ stage' = "idle" /\ listed' = None
    /\ identity' = None /\ daemon' = NoObjects /\ accepted' = {} /\ assigned' = None
    /\ netlink' = AllOff(Directions) /\ vrfNetlink' = AllOff(Vrfs)
    /\ UNCHANGED <<userVars, want, groups, silent, reported>>

-----------------------------------------------------------------------------
(***************************************************************************)
(* gobgpd, as the code uses it.                                            *)
(***************************************************************************)

\* Deleting an unknown object is an error, and so, if the daemon is strict,
\* is deleting one that another refers to.
Deletable(d, x) ==
    /\ x \in DOMAIN d
    /\ Strict => \A y \in DOMAIN d : Uses[y] # x

\* Adding an object that exists is an error, except for a policy, which is
\* replaced; what an object refers to must exist.
Addable(d, x) ==
    /\ x \in DOMAIN d => x \in Policies
    /\ x \notin accepted
    /\ Uses[x] # None => Uses[x] \in DOMAIN d

Without(d, S) == [x \in DOMAIN d \ S |-> d[x]]

With(d, S, objs) == [x \in DOMAIN d \cup S |-> IF x \in S THEN objs[x] ELSE d[x]]

-----------------------------------------------------------------------------
(***************************************************************************)
(* A pass.                                                                 *)
(***************************************************************************)

Begin ==
    /\ stage = "idle"
    /\ dirty
    /\ dirty' = FALSE
    /\ want' = spec
    /\ groups' = {} /\ listed' = None /\ silent' = FALSE
    /\ stage' = IF life = "deleting" THEN "cleanup" ELSE "global"
    /\ UNCHANGED <<userVars, reported, daemonVars, faults>>

\* gobgpd cannot be dialled: the condition is set but never written.
DialFails ==
    /\ stage \in {"global", "cleanup"}
    /\ faults < MaxFaults
    /\ faults' = faults + 1
    /\ dirty' = TRUE
    /\ stage' = "idle"
    /\ UNCHANGED <<userVars, passVars, reported, daemonVars>>

\* Mutant: a failed pass is not retried.
FailForGood ==
    /\ stage' = "idle"
    /\ reported' = "failed"
    /\ UNCHANGED dirty

\* The chain stops: ReconcileFailed, and again in 30 seconds.
Fail ==
    /\ stage' = "idle"
    /\ dirty' = TRUE
    /\ reported' = "failed"

\* Mutant: a running speaker is not compared with the specification.
GlobalUnchecked ==
    /\ stage = "global"
    /\ identity' = IF identity = None THEN want.identity ELSE identity
    /\ stage' = Following[stage]
    /\ UNCHANGED <<userVars, dirty, passVars, reported, daemon, accepted, assigned,
                   kernelVars, faults>>

\* reconcileGlobal: StartBgp, or stop if the speaker is another one.
Global ==
    /\ stage = "global"
    /\ IF identity \in {None, want.identity}
       THEN /\ identity' = want.identity
            /\ stage' = Following[stage]
            /\ UNCHANGED <<dirty, reported>>
       ELSE Fail /\ UNCHANGED identity
    /\ UNCHANGED <<userVars, passVars, daemon, accepted, assigned, kernelVars,
                   faults>>

\* The router ID is not resolved, or StartBgp is refused.
GlobalFails ==
    /\ stage = "global"
    /\ faults < MaxFaults
    /\ faults' = faults + 1
    /\ Fail
    /\ UNCHANGED <<userVars, passVars, daemonVars>>

\* What gobgpd holds of the kind this link sweeps.
Held ==
    Kind[stage] \cap (IF stage = "peers" THEN DOMAIN daemon \cup accepted
                                         ELSE DOMAIN daemon)

List ==
    /\ stage \in DOMAIN Kind
    /\ listed = None
    /\ listed' = Held
    /\ UNCHANGED <<userVars, dirty, stage, want, groups, silent, reported, daemonVars,
                   faults>>

\* The list call fails, or a node or password that a group or a peer needs
\* cannot be read; a stream that breaks is only logged.
ListFails ==
    /\ stage \in DOMAIN Kind
    /\ faults < MaxFaults
    /\ faults' = faults + 1
    /\ \/ /\ listed = None \/ stage \in {"groups", "peers"}
          /\ Fail
          /\ UNCHANGED <<listed, silent>>
       \/ /\ BrokenStreams
          /\ listed = None
          /\ listed' \in SUBSET Held \ {Held}
          /\ silent' = TRUE
          /\ UNCHANGED <<dirty, stage, reported>>
    /\ UNCHANGED <<userVars, want, groups, daemonVars>>

(***************************************************************************)
(* What this node wants of the kind: nodeSelectors are evaluated now, and  *)
(* a range or a peer whose group was not wanted in this pass is skipped.   *)
(***************************************************************************)
Desired ==
    {x \in DOMAIN want.objs \cap Kind[stage] :
        /\ x \in Selectable => x \in here
        /\ stage \in {"ranges", "peers"} => Uses[x] \in groups \cup {None}}

\* Mutant: peers accepted from a dynamic range are swept like any other.
NotProtected(p) == FALSE

\* isDynamicallyAcceptedPeer: the address lies in a range of the specification.
Protected(p) ==
    /\ stage = "peers"
    /\ \E r \in Ranges \cap DOMAIN want.objs : <<p, r>> \in InRange

Unwanted == {x \in listed \ Desired : ~Protected(x)}

\* peerConfigEqual and its kin: gobgpd holds x in another version, or holds an
\* accepted peer in its place.
Differs(x) == x \in DOMAIN daemon => daemon[x] # want.objs[x]

\* Mutant: an object that exists is never updated.
NoUpdates == {}

\* What is updated: a policy always, a VRF never, anything else when it differs.
Updated ==
    {x \in listed \cap Desired :
        CASE x \in Policies -> TRUE
          [] x \in Vrfs -> FALSE
          [] OTHER -> Differs(x)}

\* A VRF takes its netlink settings with it.
Dropped(d) == [v \in Vrfs |-> IF v \in DOMAIN d THEN vrfNetlink[v] ELSE "off"]

(***************************************************************************)
(* The calls of one link: the deletions, then the additions and updates.   *)
(* The calls for the objects in refused fail; a dynamic range is updated   *)
(* by deleting and adding it, so it may be lost.                           *)
(***************************************************************************)
Sweep(refused, lost) ==
    LET gone == {x \in Unwanted \ refused :
                    Deletable(daemon, x) \/ x \in accepted} \cup lost
        left == Without(daemon, gone)
        put == {x \in Desired \ (listed \cup refused) : Addable(left, x)}
                    \cup ((Updated \ refused) \cap (DOMAIN left \cup accepted))
    IN  /\ daemon' = With(left, put, want.objs)
        /\ accepted' = accepted \ (gone \cup put)
        /\ vrfNetlink' = Dropped(daemon')
        /\ silent' = (silent \/ ~(Unwanted \subseteq gone)
                             \/ ~((Desired \ listed) \cup Updated \subseteq put))

\* The link reconcilePolicies ends by assigning the policy of applyPolicy, if
\* there is one; an assignment that is no longer asked for stays.
Assigns == stage = "policies" /\ want.apply # None

NextLink ==
    /\ stage' = Following[stage]
    /\ listed' = None
    /\ groups' = IF stage = "groups" THEN Desired ELSE groups
    /\ assigned' = IF Assigns THEN want.apply ELSE assigned
    /\ UNCHANGED <<dirty, reported>>

\* gobgpd refuses to assign a policy it does not have.
Unassignable ==
    /\ Fail
    /\ UNCHANGED <<listed, groups, assigned>>

Sync ==
    /\ stage \in DOMAIN Kind
    /\ listed # None
    /\ Sweep({}, {})
    /\ IF Assigns /\ want.apply \notin DOMAIN daemon' THEN Unassignable ELSE NextLink
    /\ UNCHANGED <<userVars, want, identity, netlink, faults>>

SyncFails ==
    /\ CallFaults
    /\ stage \in DOMAIN Kind
    /\ listed # None
    /\ faults < MaxFaults
    /\ faults' = faults + 1
    /\ \E refused \in SUBSET (Unwanted \cup Desired) \ {{}} :
        \E lost \in SUBSET (refused \cap Updated \cap Ranges) : Sweep(refused, lost)
    /\ IF Assigns /\ want.apply \notin DOMAIN daemon' THEN Unassignable ELSE NextLink
    /\ UNCHANGED <<userVars, want, identity, netlink>>

\* reconcileVrfNetlink: a VRF without a netlink block is left as it is.
VrfNetlink ==
    [v \in Vrfs |->
        IF /\ v \in DOMAIN want.objs \cap DOMAIN daemon
           /\ want.vrfNetlink[v] # None
        THEN want.vrfNetlink[v] ELSE vrfNetlink[v]]

\* reconcileNetlink, and the success it leads to.
SyncNetlink ==
    /\ stage = "netlink"
    /\ netlink' = want.netlink
    /\ vrfNetlink' = VrfNetlink
    /\ stage' = "idle"
    /\ reported' = "ready"
    /\ UNCHANGED <<userVars, dirty, passVars, identity, daemon, accepted, assigned,
                   faults>>

\* A netlink call fails, which stops the chain: import, export and VRFs are
\* set in this order, and a VRF's import is switched off to be changed.
SyncNetlinkFails ==
    /\ stage = "netlink"
    /\ faults < MaxFaults
    /\ faults' = faults + 1
    /\ \E D \in {{}, {"import"}, Directions} :
        /\ netlink' = [d \in Directions |-> IF d \in D THEN want.netlink[d] ELSE netlink[d]]
        /\ vrfNetlink' \in
            IF D = Directions
            THEN {n \in [Vrfs -> Netlink] :
                    \A v \in Vrfs : n[v] \in {"off", vrfNetlink[v], VrfNetlink[v]}}
            ELSE {vrfNetlink}
    /\ Fail
    /\ UNCHANGED <<userVars, passVars, identity, daemon, accepted, assigned>>

\* Some failures of reconcileVrfNetlink are only logged: a VRF that a broken
\* stream leaves out is skipped, and so is one whose export gobgpd refuses to
\* switch off.
SyncNetlinkMisses ==
    /\ stage = "netlink"
    /\ faults < MaxFaults
    /\ faults' = faults + 1
    /\ netlink' = want.netlink
    /\ \E missed \in SUBSET Vrfs \ {{}} :
        /\ \A v \in missed : BrokenStreams \/ (CallFaults /\ want.vrfNetlink[v] = "off")
        /\ vrfNetlink' = [v \in Vrfs |-> IF v \in missed THEN vrfNetlink[v] ELSE VrfNetlink[v]]
    /\ stage' = "idle"
    /\ reported' = "ready" /\ silent' = TRUE
    /\ UNCHANGED <<userVars, dirty, want, groups, listed, identity, daemon, accepted,
                   assigned>>

-----------------------------------------------------------------------------
(***************************************************************************)
(* Cleanup.                                                                *)
(***************************************************************************)

\* What reconcileDelete deletes: of the peers, those gobgpd has, unless it
\* could not list them; everything else unconditionally.
Attempted(knows) ==
    IF knows THEN DOMAIN want.objs \ (Peers \ (DOMAIN daemon \cup accepted))
    ELSE DOMAIN want.objs

(***************************************************************************)
(* The objects whose deletion succeeds.  Peers, ranges and policies are    *)
(* deleted before the groups and sets they refer to.                       *)
(***************************************************************************)
Deleted(refused, knows) ==
    LET first == (Attempted(knows) \ (refused \cup Groups \cup Sets))
                    \cap (DOMAIN daemon \cup accepted)
    IN  first \cup {x \in (Attempted(knows) \ refused) \cap (Groups \cup Sets) :
                        Deletable(Without(daemon, first), x)}

\* Mutant: cleanup stops the speaker, and everything goes with it.
ClearAll(gone, kept) ==
    /\ daemon' = NoObjects /\ accepted' = {}
    /\ netlink' = AllOff(Directions) /\ vrfNetlink' = AllOff(Vrfs)

\* What a cleanup does to gobgpd.  Netlink is switched off where the
\* specification has it on, and an error of that call, in kept, does not count.
Clear(gone, kept) ==
    /\ daemon' = Without(daemon, gone)
    /\ accepted' = accepted \ gone
    /\ netlink' = [d \in Directions |->
                    IF want.netlink[d] = "off" \/ d \in kept THEN netlink[d] ELSE "off"]
    /\ vrfNetlink' = Dropped(daemon')

\* Mutant: errors are logged, and the finalizer removed all the same.
CleanupIgnoringErrors(refused, kept, knows) ==
    /\ stage = "cleanup"
    /\ Clear(Deleted(refused, knows), kept)
    /\ stage' = "idle"
    /\ life' = "gone" /\ dirty' = FALSE
    /\ UNCHANGED <<spec, here, edits, passVars, reported, identity, assigned>>

(***************************************************************************)
(* reconcileDelete: any failed deletion keeps the finalizer and is retried *)
(* in 15 seconds; the deletion of an object gobgpd does not have fails.    *)
(***************************************************************************)
Cleanup(refused, kept, knows) ==
    /\ stage = "cleanup"
    /\ Clear(Deleted(refused, knows), kept)
    /\ stage' = "idle"
    /\ IF Deleted(refused, knows) = Attempted(knows)
       THEN life' = "gone" /\ dirty' = FALSE
       ELSE life' = life /\ dirty' = TRUE
    /\ UNCHANGED <<spec, here, edits, passVars, reported, identity, assigned>>

CleanupWorks == Cleanup({}, {}, TRUE) /\ UNCHANGED faults

CleanupFails ==
    /\ stage = "cleanup"
    /\ faults < MaxFaults
    /\ faults' = faults + 1
    /\ \E refused \in SUBSET DOMAIN want.objs, kept \in SUBSET Directions,
          knows \in BOOLEAN : Cleanup(refused, kept, knows)

-----------------------------------------------------------------------------
Agent == Begin \/ Global \/ List \/ Sync \/ SyncNetlink \/ CleanupWorks

Fault ==
    \/ DialFails \/ GlobalFails \/ ListFails \/ SyncFails \/ SyncNetlinkFails
    \/ SyncNetlinkMisses \/ CleanupFails \/ Restart

Next ==
    \/ Edit \/ Delete \/ Agent \/ Fault
    \/ \E p \in Peers : Accept(p) \/ Disconnect(p)

Spec == Init /\ [][Next]_vars

\* The work queue hands out a queued request, and a pass goes on.
FairSpec == Spec /\ WF_vars(Agent)
-----------------------------------------------------------------------------
\* What the object asks of this node.
Selected == {x \in DOMAIN spec.objs : x \in Selectable => x \in here}

Asked ==
    {x \in Selected : x \in Ranges \cup Peers => Uses[x] \in Selected \cup {None}}

\* gobgpd holds what is asked for, and nothing else, at the right version; a
\* VRF keeps the version it was added with.  A policy assignment, or the
\* netlink block of a VRF, is in effect if there is one.
Exact ==
    /\ DOMAIN daemon = Asked
    /\ \A x \in Asked \ Vrfs : daemon[x] = spec.objs[x]
    /\ netlink = spec.netlink
    /\ spec.apply \in {None, assigned}
    /\ \A v \in Asked \cap Vrfs : spec.vrfNetlink[v] \in {None, vrfNetlink[v]}

AtRest == stage = "idle" /\ ~dirty /\ life = "live"

\* "BGP configuration applied successfully": when the agent rests after a
\* success in which no call's failure was merely logged, although users and
\* labels may have changed in the middle of the pass and after its copies were
\* taken, and whatever earlier passes left, gobgpd holds exactly what is asked.
SuccessIsExact == AtRest /\ reported = "ready" /\ ~silent => Exact

\* No pass tears down a session accepted from a range of the specification it
\* works on: "every reconcile tears down live dynamic sessions" without the
\* check in reconcileNeighbors.
DynamicSessionsSurvive ==
    [][stage = "peers" /\ stage' = "netlink" =>
        \A p \in accepted \ (accepted' \cup DOMAIN daemon') :
            \A r \in DOMAIN want.objs \cap Ranges : <<p, r>> \notin InRange]_vars

\* "Continuing would reconcile neighbors against a speaker that is not the one
\* the CR describes": the objects a pass adds or updates belong to the speaker
\* its specification describes.
RightSpeaker ==
    [][daemon' # daemon /\ stage \in DOMAIN Kind => identity = want.identity]_vars

\* "Remove finalizer only after successful cleanup": nothing the object names
\* is left in gobgpd when it is gone.
ReleasedIsEmpty ==
    [][life = "deleting" /\ life' = "gone" => DOMAIN daemon' \cap DOMAIN want.objs = {}]_vars

\* "The second pass made it worse - it also failed for the neighbor the first
\* pass had successfully deleted": once gobgpd holds all that a deleted object
\* names, refused deletions are made good by a retry and the object goes away,
\* unless gobgpd is restarted and forgets them.
DeletionCompletes ==
    life = "deleting" /\ DOMAIN spec.objs \subseteq DOMAIN daemon
        ~> life = "gone" \/ identity = None

\* Users rest at last, so gobgpd ends up with what they want, unless they
\* changed the identity of a running speaker or a failure was merely logged.
Settles ==
    <>[](life = "live" /\ identity = spec.identity =>
            reported = "ready" /\ (silent \/ Exact))

-----------------------------------------------------------------------------
(***************************************************************************)
(* The chain and the cleanup implement the contract of a pass.             *)
(***************************************************************************)

Phase == CASE stage = "idle" -> "idle"
           [] stage = "cleanup" -> "cleaning"
           [] OTHER -> "applying"

\* What the copy of this pass names.
Named == IF want = None THEN {} ELSE DOMAIN want.objs

Contract == INSTANCE PassContract WITH
    Spared <- {p \in Peers : \E r \in Ranges : <<p, r>> \in InRange},
    phase <- Phase, named <- Named, held <- DOMAIN daemon, clean <- ~silent,
    ready <- (reported = "ready"), released <- (life = "gone")

\* What ConfigLifecycle takes a pass for, of all its calls, list streams and
\* failures: gobgpd gains only what the copy names, a success leaves nothing
\* else, a cleanup takes only what the object names and releases it when that
\* is gone, and nothing is programmed after the release.
PassesKeepContract == Contract!Spec
=============================================================================
