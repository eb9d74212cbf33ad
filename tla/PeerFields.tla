----------------------------- MODULE PeerFields -----------------------------
(***************************************************************************)
(* The fields of one neighbor and of the peer group it may be in: what the *)
(* agent sends gobgpd for them, what gobgpd makes of it and reports back,  *)
(* and which differences the agent sees and answers with an update.        *)
(*                                                                         *)
(* gobgpd reports the configuration it resolved, with the group's values   *)
(* and its own defaults filled in, so the agent compares only fields on    *)
(* which the object has an opinion.  A comparison that is too strict       *)
(* rebuilds a session on every pass; one that is too lax leaves an edit    *)
(* unapplied.                                                              *)
(*                                                                         *)
(* GobgpdSync has the sweep this is part of, for all objects, with a       *)
(* version in place of the fields.  Of siblings in one block that the code *)
(* treats alike, one stands for all.                                       *)
(***************************************************************************)
EXTENDS Naturals

CONSTANTS
    Values,     \* of a field; 0 is Go's zero value
    Nil,        \* a field or block not stated; no object in gobgpd; no Secret
    SecretRef,  \* a password given by reference to a Secret
    Specs,      \* what users write: a neighbor and its peer group
    MaxEdits,   \* bound: edits of the object and of the Secret
    MaxFaults   \* bound: refused calls and restarts

\* What gobgpd, and bfdWithDefaults, use for a field left at zero.
Default == 1

\* The blocks of a Neighbor, each present or absent as a whole.
Blocks == [afiSafis        |-> {"families", "prefixLimit"},
           applyPolicy     |-> {"policies"},
           timers          |-> {"holdTime"},
           transport       |-> {"localAddress", "passiveMode"},
           gracefulRestart |-> {"restartTime", "helperOnly"},
           routeReflector  |-> {"clusterId", "client"},
           ebgpMultihop    |-> {"multihopTtl"},
           bfd             |-> {"bfdEnabled", "bfdPort"}]

\* Plain values of a NeighborConfig, which cannot be left unstated...
Plain == {"peerGroup", "peerAsn", "adminDown"}

\* ...plain values whose zero is sent as nothing at all (ptrIfSet and its
\* likes), and pointers, where a stated zero is not the same as nothing.
ZeroIsUnset == {"localAsn", "removePrivate", "sendCommunity"}
Pointers == {"description", "password", "allowOwnAsn", "replacePeerAsn",
             "sendSoftwareVersion"}

BlockFields == UNION {Blocks[b] : b \in DOMAIN Blocks}
Fields == Plain \cup ZeroIsUnset \cup Pointers \cup BlockFields

\* What a PeerGroup has of this.
GroupFields == Fields \ ({"peerGroup", "adminDown"} \cup Blocks.routeReflector
                                                     \cup Blocks.ebgpMultihop)

Message == [Fields -> Values \cup {Nil}]
Written == [Fields -> Values \cup {Nil, SecretRef}]

\* An object as the API server admits it: blocks are whole, a family list that
\* is there is not empty, a BFD block has its port defaulted.
Admitted(o) ==
    /\ o \in Written
    /\ \A f \in Fields \ {"password"} : o[f] # SecretRef
    /\ \A b \in DOMAIN Blocks : \A f, g \in Blocks[b] : o[f] = Nil => o[g] = Nil
    /\ o["families"] # 0 /\ o["bfdPort"] # 0

Neighbor(o) ==
    /\ Admitted(o)
    /\ \A f \in Plain \cup ZeroIsUnset : o[f] # Nil
    /\ o["peerGroup"] \in {0, 1}

PeerGroup(o) ==
    /\ Admitted(o)
    /\ \A f \in Fields \ GroupFields : o[f] = Nil
    /\ \A f \in GroupFields \ BlockFields : o[f] # Nil

ASSUME ValuesAssumption ==
    /\ {0, 1} \subseteq Values
    /\ Nil \notin Values \cup Message
    /\ SecretRef \notin Values \cup {Nil}

ASSUME SpecsAssumption == \A s \in Specs : Neighbor(s.peer) /\ PeerGroup(s.pg)

ASSUME BoundsAssumption == MaxEdits \in Nat /\ MaxFaults \in Nat

VARIABLES
    spec,      \* [peer, pg]: the object as users wrote it
    secret,    \* what the Secret holds, Nil if it or its key is missing
    queued,    \* is a request due?
    pc,        \* "idle", "groups" or "neighbors"
    cr,        \* the copy of the object this pass works on
    pg, peer,  \* what gobgpd was last sent and accepted, or Nil
    inherited, \* the blocks UpdateInheritedBlocks handed to the reporter
    sound,     \* history: in this pass, or since the last one, no call was
               \* refused and neither the object nor the Secret has changed
    edits, faults

vars == <<spec, secret, queued, pc, cr, pg, peer, inherited, sound, edits, faults>>

TypeOK ==
    /\ spec \in Specs /\ cr \in Specs
    /\ secret \in Values \cup {Nil}
    /\ queued \in BOOLEAN /\ sound \in BOOLEAN
    /\ pc \in {"idle", "groups", "neighbors"}
    /\ pg \in Message \cup {Nil} /\ peer \in Message \cup {Nil}
    /\ inherited \subseteq DOMAIN Blocks
    /\ edits \in 0..MaxEdits /\ faults \in 0..MaxFaults

Init ==
    /\ spec \in Specs /\ cr = spec
    /\ secret = Default
    /\ queued = TRUE /\ pc = "idle"
    /\ pg = Nil /\ peer = Nil /\ inherited = {}
    /\ sound = FALSE
    /\ edits = 0 /\ faults = 0

-----------------------------------------------------------------------------
(***************************************************************************)
(* Conversion to gobgpd's API.                                             *)
(***************************************************************************)

\* resolveAuthPassword fails if the Secret is not there.
Readable(password) == password = SecretRef => secret # Nil
\* Mutant: a reference is sent as it stands.
ReferenceAsPassword(password) == password

resolveAuthPassword(password) == IF password = SecretRef THEN secret ELSE password

crdToAPINeighbor(o) ==
    [f \in Fields |-> CASE f = "password" -> resolveAuthPassword(o[f])
                        [] f \in ZeroIsUnset /\ o[f] = 0 -> Nil
                        [] OTHER -> o[f]]

crdToAPIPeerGroup(o) ==
    [f \in Fields |-> CASE f = "password" -> resolveAuthPassword(o[f])
                        [] f = "sendCommunity" /\ o[f] = 0 -> Nil
                        [] OTHER -> o[f]]

InGroup(p) == p["peerGroup"] # 0

inheritedBlocks(p) ==
    {b \in {"afiSafis", "applyPolicy", "timers", "transport", "gracefulRestart", "bfd"} :
        InGroup(p) /\ \A f \in Blocks[b] : p[f] = Nil}

-----------------------------------------------------------------------------
(***************************************************************************)
(* gobgpd, as the comments, the tests and the CRD's documentation have it. *)
(***************************************************************************)

\* Fields whose zero or absence gobgpd replaces by a value of its own.
Defaulted == {"localAsn", "families", "holdTime", "localAddress", "restartTime",
              "clusterId", "bfdPort"}

\* Stating one of the AS path options claims them all.
PathOptions == {"allowOwnAsn", "replacePeerAsn"}
Claims(p, f) == \E g \in (IF f \in PathOptions THEN PathOptions ELSE {f}) : p[g] # Nil

\* A peer-as that the group states always wins.
Supplied(p, g, f) ==
    /\ InGroup(p)
    /\ IF f = "peerAsn" THEN g[f] # 0 ELSE f \in GroupFields /\ ~Claims(p, f)

Filled(f, v) ==
    IF v \in {Nil, 0} THEN (IF f \in Defaulted THEN Default ELSE 0) ELSE v

\* The value in effect for neighbor p with group g, which ListPeer reports
\* (of a password only whether there is one).
InEffect(p, g, f) == Filled(f, IF Supplied(p, g, f) THEN g[f] ELSE p[f])

-----------------------------------------------------------------------------
(***************************************************************************)
(* Comparison of what is wanted with what gobgpd reports.                  *)
(***************************************************************************)

\* Fields compared only if stated, or only if not zero; blocks skipped if
\* absent from a neighbor that is in a group; fields never compared.
WhenStated == {"description", "allowOwnAsn", "replacePeerAsn", "sendSoftwareVersion",
               "removePrivate", "sendCommunity", "families"}
WhenNonzero == {"localAsn", "holdTime", "localAddress", "restartTime", "clusterId"}

\* Mutant: BFD is missing from the list.
SkippedBlocksButBfd == {"applyPolicy", "transport", "gracefulRestart", "routeReflector",
                        "ebgpMultihop"}
SkippedBlocks == {"applyPolicy", "transport", "gracefulRestart", "routeReflector",
                  "ebgpMultihop", "bfd"}
SkippedFields == UNION {Blocks[b] : b \in SkippedBlocks}
Unreported == {"password", "prefixLimit"}

\* Mutant: a stated zero counts as not stated.
SkipsZero(p, f) ==
    \/ f \in Unreported
    \/ f \in WhenStated \cup WhenNonzero /\ p[f] \in {Nil, 0}
    \/ f = "peerAsn" /\ InGroup(p)
    \/ f \in SkippedFields /\ p[f] = Nil /\ InGroup(p)

\* Mutant: absent blocks are skipped without a group, too.
SkipsAbsent(p, f) ==
    \/ f \in Unreported
    \/ f \in WhenStated /\ p[f] = Nil
    \/ f \in WhenNonzero /\ p[f] \in {Nil, 0}
    \/ f = "peerAsn" /\ InGroup(p)
    \/ f \in SkippedFields /\ p[f] = Nil

Skips(p, f) ==
    \/ f \in Unreported
    \/ f \in WhenStated /\ p[f] = Nil
    \/ f \in WhenNonzero /\ p[f] \in {Nil, 0}
    \/ f = "peerAsn" /\ InGroup(p)
    \/ f \in SkippedFields /\ p[f] = Nil /\ InGroup(p)

\* An absent field reads as zero; BFD is compared with its defaults.
Read(f, v) == IF v \in {Nil, 0} THEN (IF f = "bfdPort" THEN Default ELSE 0) ELSE v

peerConfigEqual(want, p, g) ==
    \A f \in Fields : Skips(want, f) \/ Read(f, want[f]) = InEffect(p, g, f)

\* Mutant: an empty password counts as none stated.
DriftedIfGiven(want, p, g) ==
    want["password"] \notin {Nil, 0} /\ InEffect(p, g, "password") = 0

\* nil: the group's password, if any, applies.
authPasswordDrifted(want, p, g) ==
    /\ want["password"] # Nil
    /\ (want["password"] # 0) # (InEffect(p, g, "password") # 0)

\* gobgpd reports a group as it was sent, except for the local ASN.
SkipsInGroup(want, f) ==
    \/ f \in Unreported
    \/ f \in WhenNonzero /\ want[f] \in {Nil, 0}
    \/ f \in {"families", "sendCommunity"} /\ want[f] = Nil

GroupReads(f, v) == IF v \in {Nil, 0} THEN 0 ELSE v
ListPeerGroup(g, f) == IF f = "localAsn" THEN Filled(f, g[f]) ELSE GroupReads(f, g[f])

peerGroupConfigEqual(want, g) ==
    \A f \in GroupFields :
        SkipsInGroup(want, f) \/ GroupReads(f, want[f]) = ListPeerGroup(g, f)

-----------------------------------------------------------------------------
(***************************************************************************)
(* Users, the cluster and the container.                                   *)
(***************************************************************************)

Edit(s) ==
    /\ edits < MaxEdits /\ s # spec
    /\ edits' = edits + 1
    /\ spec' = s /\ queued' = TRUE /\ sound' = FALSE
    /\ UNCHANGED <<secret, pc, cr, pg, peer, inherited, faults>>

\* Secrets are not watched.
Rotate(v) ==
    /\ edits < MaxEdits /\ v # secret
    /\ edits' = edits + 1
    /\ secret' = v /\ sound' = FALSE
    /\ UNCHANGED <<spec, queued, pc, cr, pg, peer, inherited, faults>>

\* A change of the Node asks for a pass that has nothing to do.
NodeEvent ==
    /\ ~queued
    /\ queued' = TRUE
    /\ UNCHANGED <<spec, secret, pc, cr, pg, peer, inherited, sound, edits, faults>>

\* The agent and gobgpd share a container.
Restart ==
    /\ faults < MaxFaults
    /\ faults' = faults + 1
    /\ queued' = TRUE /\ pc' = "idle"
    /\ pg' = Nil /\ peer' = Nil /\ inherited' = {}
    /\ sound' = FALSE
    /\ UNCHANGED <<spec, secret, cr, edits>>

-----------------------------------------------------------------------------
(***************************************************************************)
(* A pass: reconcilePeerGroups and, later in the chain, reconcileNeighbors.*)
(***************************************************************************)

Begin ==
    /\ pc = "idle" /\ queued
    /\ pc' = "groups" /\ cr' = spec /\ queued' = FALSE
    /\ sound' = TRUE
    /\ UNCHANGED <<spec, secret, pg, peer, inherited, edits, faults>>

\* The pass ends in an error, and the request is queued again.
PasswordMissing ==
    /\ \/ pc = "groups" /\ ~Readable(cr.pg["password"])
       \/ pc = "neighbors" /\ ~Readable(cr.peer["password"])
    /\ pc' = "idle" /\ queued' = TRUE /\ sound' = FALSE
    /\ UNCHANGED <<spec, secret, cr, pg, peer, inherited, edits, faults>>

GroupUpdateNeeded ==
    pg # Nil => ~peerGroupConfigEqual(crdToAPIPeerGroup(cr.pg), pg)

PeerUpdateNeeded ==
    LET want == crdToAPINeighbor(cr.peer) IN
    peer # Nil => ~peerConfigEqual(want, peer, pg) \/ authPasswordDrifted(want, peer, pg)

\* The agent adds or updates the group if need be.
ReconcilePeerGroups ==
    /\ pc = "groups" /\ Readable(cr.pg["password"])
    /\ pg' = IF GroupUpdateNeeded THEN crdToAPIPeerGroup(cr.pg) ELSE pg
    /\ pc' = "neighbors"
    /\ UNCHANGED <<spec, secret, queued, cr, peer, inherited, sound, edits, faults>>

\* gobgpd refuses: an error is logged and counted, and the pass goes on.
GroupRefused ==
    /\ pc = "groups" /\ Readable(cr.pg["password"]) /\ GroupUpdateNeeded
    /\ faults < MaxFaults
    /\ faults' = faults + 1
    /\ pc' = "neighbors" /\ sound' = FALSE
    /\ UNCHANGED <<spec, secret, queued, cr, pg, peer, inherited, edits>>

\* The same for the neighbor, and the reporter is told what it inherits.
EndNeighbors ==
    /\ pc = "neighbors" /\ Readable(cr.peer["password"])
    /\ pc' = "idle"
    /\ inherited' = inheritedBlocks(crdToAPINeighbor(cr.peer))
    /\ UNCHANGED <<spec, secret, queued, cr, pg, edits>>

\* A neighbor cannot name a group that gobgpd does not have.
Acceptable == InGroup(cr.peer) => pg # Nil

ReconcileNeighbors ==
    /\ EndNeighbors
    /\ PeerUpdateNeeded => Acceptable
    /\ peer' = IF PeerUpdateNeeded THEN crdToAPINeighbor(cr.peer) ELSE peer
    /\ UNCHANGED <<sound, faults>>

PeerRefused ==
    /\ EndNeighbors
    /\ PeerUpdateNeeded
    /\ IF Acceptable THEN faults < MaxFaults /\ faults' = faults + 1
                     ELSE UNCHANGED faults
    /\ sound' = FALSE
    /\ UNCHANGED peer

Next ==
    \/ \E s \in Specs : Edit(s)
    \/ \E v \in Values \cup {Nil} : Rotate(v)
    \/ NodeEvent \/ Restart
    \/ Begin \/ PasswordMissing
    \/ ReconcilePeerGroups \/ GroupRefused
    \/ ReconcileNeighbors \/ PeerRefused

Spec == Init /\ [][Next]_vars

-----------------------------------------------------------------------------
(***************************************************************************)
(* What a pass that went through leaves behind.                            *)
(***************************************************************************)

AtRest == pc = "idle" /\ sound

Wanted == crdToAPINeighbor(spec.peer)
WantedGroup == crdToAPIPeerGroup(spec.pg)

\* A zero timer, address or AS number asks for gobgpd's default, as silence does.
States(o, f) == o[f] # Nil /\ (f \in WhenNonzero => o[f] # 0)

\* After a pass in which gobgpd took every call, each field that the neighbor
\* or its group states is in effect as stated, whatever was configured before;
\* a neighbor's peer-as is left to its group (peerConfigEqual,
\* peerGroupConfigEqual).
StatedTakesEffect ==
    LET want == Wanted  wantGroup == WantedGroup IN
    AtRest =>
        /\ \A f \in Fields \ Unreported :
             (States(want, f) /\ (f = "peerAsn" => ~InGroup(want)))
                => InEffect(peer, pg, f) = Filled(f, want[f])
        /\ \A f \in GroupFields \ Unreported :
             States(wantGroup, f) => Filled(f, pg[f]) = Filled(f, wantGroup[f])

\* After such a pass a neighbor without a group is rid of every setting whose
\* block was taken out of the object, unless it is one of those that gobgpd
\* defaults (the known gap in the comments of peerConfigEqual).
ClearedIsReset ==
    LET want == Wanted IN
    AtRest /\ ~InGroup(want) =>
        \A f \in Fields \ (Unreported \cup WhenStated \cup WhenNonzero) :
            want[f] = Nil => InEffect(peer, pg, f) = Filled(f, Nil)

\* After such a pass a neighbor that states a password, or states that it has
\* none, is authenticated accordingly: TCP-MD5 is never silently off
\* (authPasswordDrifted).
AuthenticatedAsStated ==
    AtRest /\ Wanted["password"] # Nil =>
        (InEffect(peer, pg, "password") # 0) = (Wanted["password"] # 0)

\* After such a pass another one has nothing to send: no session is rebuilt
\* by a reconcile that changes nothing, whatever the neighbor inherits and
\* gobgpd defaults (the comparators' purpose).
NothingToResend ==
    AtRest => ~GroupUpdateNeeded /\ ~PeerUpdateNeeded
=============================================================================
