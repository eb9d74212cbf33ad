---------------------------- MODULE NodeHealth ----------------------------
(***************************************************************************)
(* What BGPNodeStatusReporter reads from gobgpd and the kernel, the status *)
(* it makes of it, and the health it derives.                              *)
(*                                                                         *)
(* A neighbor is reduced to the state of its session, an imported address  *)
(* to whether it is in the RIB, an exported route to whether the kernel    *)
(* has it.  The RIB and VRF summaries only matter for whether they changed,*)
(* so each is one opaque value.                                            *)
(***************************************************************************)
EXTENDS Naturals, FiniteSets

CONSTANTS
    Peers,         \* neighbors, by address
    Addresses,     \* addresses on the imported interfaces
    Routes,        \* routes gobgpd exports to the kernel
    Views,         \* the values of a RIB or VRF summary
    MaxNeighbors,  \* maxNeighbors
    MaxImported,   \* maxImportedAddresses
    MaxExported,   \* maxExportedRoutes
    Nil            \* a part whose call failed: the field stays nil or empty

ASSUME CapsAssumption ==
    MaxNeighbors \in Nat /\ MaxImported \in Nat /\ MaxExported \in Nat

\* BfdUp and BfdDown are established sessions with BFD enabled.
Session == {"Established", "BfdUp", "BfdDown", "Idle"}

(***************************************************************************)
(* A world: what the calls of one collection would find.                   *)
(***************************************************************************)
World == [neighbors : UNION {[P -> Session] : P \in SUBSET Peers},
          inRIB : SUBSET Addresses, missing : SUBSET Addresses,
          installed : SUBSET Routes, lost : SUBSET Routes,
          rib : Views, vrfs : Views, listening : BOOLEAN]

\* The parts of a status, each collected by a call of its own.
Parts == {"neighbors", "import", "rib", "export", "vrfs", "bfd"}

(***************************************************************************)
(* What the calls return.  A list longer than its cap is cut; gobgpd       *)
(* promises no order, so any of its elements may be the ones that are left.*)
(***************************************************************************)

\* The sublists of S that a cap leaves.
Cut(S, cap) ==
    IF Cardinality(S) <= cap THEN {S}
    ELSE {T \in SUBSET S : Cardinality(T) = cap}

\* collectNeighborStatus: the count is taken before the cut.
Neighbors(w) ==
    {[count |-> Cardinality(DOMAIN w.neighbors),
      list |-> [p \in P |-> w.neighbors[p]]] :
        P \in Cut(DOMAIN w.neighbors, MaxNeighbors)}

\* collectNetlinkImportStatus: addresses in the RIB come first in the list.
Import(w) ==
    LET room == MaxImported - Cardinality(w.inRIB) IN
    {[total |-> Cardinality(w.inRIB) + Cardinality(w.missing),
      inRIB |-> A[1], missing |-> A[2]] :
        A \in IF Cardinality(w.inRIB) >= MaxImported
              THEN Cut(w.inRIB, MaxImported) \X {{}}
              ELSE {w.inRIB} \X Cut(w.missing, room)}

\* collectNetlinkExportStatus
Export(w) ==
    {[total |-> Cardinality(w.installed \cup w.lost),
      installed |-> R \cap w.installed, lost |-> R \cap w.lost] :
        R \in Cut(w.installed \cup w.lost, MaxExported)}

\* What the call for a part may return in world w.
Collected(part, w) ==
    CASE part = "neighbors" -> Neighbors(w)
      [] part = "import" -> Import(w)
      [] part = "rib" -> {w.rib}
      [] part = "export" -> Export(w)
      [] part = "vrfs" -> {w.vrfs}
      [] part = "bfd" -> {w.listening}

(***************************************************************************)
(* Health, from the collected parts.                                       *)
(***************************************************************************)

\* The listed sessions: an empty list when ListPeer failed.
Listed(parts) ==
    IF parts["neighbors"] = Nil THEN {}
    ELSE {parts["neighbors"].list[p] : p \in DOMAIN parts["neighbors"].list}

\* bfdDegraded: only a node that uses BFD can be degraded.
bfdDegraded(parts) ==
    /\ Listed(parts) \cap {"BfdUp", "BfdDown"} # {}
    /\ parts["bfd"] \in {Nil, FALSE} \/ "BfdDown" \in Listed(parts)

\* deriveHealth: a part that could not be collected counts as healthy.
deriveHealth(parts) ==
    /\ "Idle" \notin Listed(parts)
    /\ ~bfdDegraded(parts)
    /\ parts["import"] = Nil \/ parts["import"].missing = {}
    /\ parts["export"] = Nil \/ parts["export"].lost = {}

\* Mutant: a change of identity does not count.
statusEqualNoIdentity(a, b) ==
    /\ a # Nil /\ b # Nil
    /\ a.healthy = b.healthy
    /\ \A p \in Parts \ {"bfd"} : a.parts[p] = b.parts[p]

\* statusEqual: everything is compared but the BFD server and the heartbeat.
statusEqual(a, b) ==
    /\ a # Nil /\ b # Nil
    /\ a.rid = b.rid /\ a.asn = b.asn /\ a.healthy = b.healthy
    /\ \A p \in Parts \ {"bfd"} : a.parts[p] = b.parts[p]

(***************************************************************************)
(* What the status is meant to say of a world.                             *)
(***************************************************************************)

\* Every neighbor is Established, no import or export failed, and BFD, if
\* any neighbor uses it, works.
Well(w) ==
    LET sessions == {w.neighbors[p] : p \in DOMAIN w.neighbors} IN
    /\ sessions \cap {"Idle", "BfdDown"} = {}
    /\ "BfdUp" \in sessions => w.listening
    /\ w.missing = {} /\ w.lost = {}

\* The parts of a status that match what gobgpd and the kernel hold.
Depicts(parts, w) == \A p \in Parts \ {"bfd"} : parts[p] \in Collected(p, w)
=============================================================================
