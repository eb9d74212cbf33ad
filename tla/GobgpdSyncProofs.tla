-------------------------- MODULE GobgpdSyncProofs --------------------------
(***************************************************************************)
(* Proofs about GobgpdSync, for every set of names, every specification    *)
(* and any number of edits, failed calls and restarts: a pass keeps the    *)
(* contract ConfigLifecycle relies on, only the right speaker is           *)
(* programmed, sessions accepted from a dynamic range survive every pass,  *)
(* and an object is released only when nothing of it is left.              *)
(***************************************************************************)
EXTENDS GobgpdSync, TLAPS

Spared == {p \in Peers : \E r \in Ranges : <<p, r>> \in InRange}

\* The links of the chain that program gobgpd.
Programming == DOMAIN Kind \cup {"netlink"}

\* The names that the links before this one have swept.
Swept ==
    [sets |-> {}, policies |-> Sets, vrfs |-> Sets \cup Policies,
     groups |-> Sets \cup Policies \cup Vrfs,
     ranges |-> Sets \cup Policies \cup Vrfs \cup Groups,
     peers |-> Sets \cup Policies \cup Vrfs \cup Groups \cup Ranges,
     netlink |-> Names]

\* A pass has a copy to work on, the speaker it programs is the one the copy
\* describes, and no pass runs or is queued after the release.
PassInv ==
    /\ stage # "idle" => want # None
    /\ stage = "global" => listed = None
    /\ stage \in Programming => identity = want.identity
    /\ life = "gone" => stage = "idle" /\ dirty = FALSE

\* A list that no failure has cut short is complete as long as the link uses
\* it, and the kinds swept so far hold only what the copy names.
SweepInv ==
    stage \in Programming /\ silent = FALSE =>
        /\ stage \in DOMAIN Kind /\ listed # None
                => Kind[stage] \cap DOMAIN daemon \subseteq listed
        /\ Swept[stage] \cap DOMAIN daemon \subseteq DOMAIN want.objs \cup Spared

\* The inductive invariant.
IInv == TypeOK /\ PassInv /\ SweepInv

-----------------------------------------------------------------------------
(***************************************************************************)
(* The chain.                                                              *)
(***************************************************************************)

\* The links, the kinds they sweep and the order they run in.
LEMMA Links ==
    /\ DOMAIN Kind = {"sets", "policies", "vrfs", "groups", "ranges", "peers"}
    /\ DOMAIN Following = DOMAIN Kind \cup {"global"}
    /\ Following["global"] = "sets"
    /\ \A k \in DOMAIN Kind :
        /\ Following[k] \in Programming /\ Following[k] # "global"
        /\ Following[k] # "idle" /\ Following[k] # "cleanup"
        /\ Kind[k] \subseteq Names
        /\ Swept[Following[k]] = Swept[k] \cup Kind[k]
    /\ Kind["groups"] = Groups /\ Kind["peers"] = Peers
BY DEF Kind, Following, Swept, Programming, Names

\* What a specification is made of.
LEMMA Copies ==
    ASSUME NEW w \in Specs
    PROVE  /\ DOMAIN w.objs \subseteq Names
           /\ \A x \in DOMAIN w.objs : w.objs[x] \in Versions
           /\ w.identity \in Versions
           /\ w.apply \in Policies \cup {None}
           /\ w.netlink \in [Directions -> Netlink]
           /\ w.vrfNetlink \in [Vrfs -> Netlink \cup {None}]
           /\ w # None
<1>1. w \in Desire
  BY SpecsAssumption
<1>2. PICK N \in SUBSET Names : w.objs \in [N -> Versions]
  BY <1>1 DEF Desire
<1>. QED
  BY <1>1, <1>2, NoneAssumption DEF Desire

\* The settings of the VRFs that are left are settings.
LEMMA DroppedType ==
    ASSUME TypeOK, NEW d
    PROVE  Dropped(d) \in [Vrfs -> Netlink]
BY DEF TypeOK, Dropped, Netlink

\* What the calls of one link may do: gobgpd gains only what the copy names,
\* the sessions that go were listed and unwanted or are configured now, and if
\* nothing failed none of the unwanted objects is left.
LEMMA SweepFacts ==
    ASSUME TypeOK, want \in Specs, stage \in DOMAIN Kind, listed # None,
           NEW refused, NEW lost \in SUBSET Ranges, Sweep(refused, lost)
    PROVE  /\ DOMAIN daemon' \subseteq DOMAIN daemon \cup DOMAIN want.objs
           /\ \A x \in DOMAIN daemon' : daemon'[x] \in Versions
           /\ accepted' \subseteq Peers \ DOMAIN daemon'
           /\ accepted \ accepted' \subseteq Unwanted \cup lost \cup DOMAIN daemon'
           /\ vrfNetlink' \in [Vrfs -> Netlink]
           /\ silent' \in BOOLEAN
           /\ silent' = FALSE =>
                /\ silent = FALSE
                /\ DOMAIN daemon' \cap Unwanted \subseteq DOMAIN want.objs
<1> DEFINE gone == {x \in Unwanted \ refused :
                        Deletable(daemon, x) \/ x \in accepted} \cup lost
           left == Without(daemon, gone)
           put == {x \in Desired \ (listed \cup refused) : Addable(left, x)}
                    \cup ((Updated \ refused) \cap (DOMAIN left \cup accepted))
<1>1. /\ daemon' = With(left, put, want.objs)
      /\ accepted' = accepted \ (gone \cup put)
      /\ vrfNetlink' = Dropped(daemon')
      /\ silent' = (silent \/ ~(Unwanted \subseteq gone)
                           \/ ~((Desired \ listed) \cup Updated \subseteq put))
  BY DEF Sweep
<1>2. put \subseteq DOMAIN want.objs
  BY DEF Desired, Updated
<1>3. gone \subseteq Unwanted \cup lost
  OBVIOUS
<1> HIDE DEF gone, put
<1>4. DOMAIN left = DOMAIN daemon \ gone /\ \A x \in DOMAIN left : left[x] = daemon[x]
  BY DEF Without
<1>5. /\ DOMAIN daemon' = (DOMAIN daemon \ gone) \cup put
      /\ \A x \in DOMAIN daemon' :
            daemon'[x] = IF x \in put THEN want.objs[x] ELSE daemon[x]
  BY <1>1, <1>4 DEF With
<1>6. \A x \in DOMAIN daemon' : daemon'[x] \in Versions
  BY <1>2, <1>5, Copies DEF TypeOK
<1>7. vrfNetlink' \in [Vrfs -> Netlink]
  BY <1>1, DroppedType
<1>8. silent' \in BOOLEAN /\ (silent' = FALSE => silent = FALSE /\ Unwanted \subseteq gone)
  BY <1>1, Zenon DEF TypeOK
<1>9. accepted' \subseteq Peers \ DOMAIN daemon'
  BY <1>1, <1>5 DEF TypeOK
<1>. QED
  BY <1>1, <1>2, <1>3, <1>5, <1>6, <1>7, <1>8, <1>9

-----------------------------------------------------------------------------
(***************************************************************************)
(* Steps.                                                                  *)
(***************************************************************************)

\* TypeOK without the bounds, whose arithmetic is apart.
Typed ==
    /\ spec \in Specs /\ want \in Specs \cup {None}
    /\ here \subseteq Selectable
    /\ life \in {"live", "deleting", "gone"}
    /\ dirty \in BOOLEAN /\ silent \in BOOLEAN
    /\ stage \in {"idle", "cleanup", "netlink"} \cup DOMAIN Following
    /\ groups \subseteq Groups
    /\ listed = None \/ listed \subseteq Names
    /\ reported \in {"none", "ready", "failed"}
    /\ identity \in Versions \cup {None}
    /\ DOMAIN daemon \subseteq Names
    /\ \A x \in DOMAIN daemon : daemon[x] \in Versions
    /\ accepted \subseteq Peers \ DOMAIN daemon
    /\ assigned \in Policies \cup {None}
    /\ netlink \in [Directions -> Netlink] /\ vrfNetlink \in [Vrfs -> Netlink]

Bounded == edits \in 0..MaxEdits /\ faults \in 0..MaxFaults

\* The types are the bounds and the rest.
LEMMA TypeSplit == (TypeOK <=> Typed /\ Bounded) /\ (TypeOK' <=> Typed' /\ Bounded')
BY DEF TypeOK, Typed, Bounded

\* Edits and faults stay within their bounds.
LEMMA BoundedStep == TypeOK /\ Next => Bounded'
<1> SUFFICES ASSUME TypeOK, Next PROVE Bounded'
  OBVIOUS
<1>1. edits \in 0..MaxEdits /\ faults \in 0..MaxFaults /\ MaxEdits \in Nat /\ MaxFaults \in Nat
  BY BoundsAssumption DEF TypeOK
<1>2. CASE Edit
  BY <1>1, <1>2 DEF Edit, Bounded
<1>3. CASE Delete \/ Agent \/ \E p \in Peers : Accept(p) \/ Disconnect(p)
  <2>1. UNCHANGED <<edits, faults>>
    BY <1>3, Zenon DEF Delete, Agent, Begin, Global, List, Sync, SyncNetlink, CleanupWorks,
       Cleanup, Accept, Disconnect, userVars
  <2>. QED
    BY <1>1, <2>1 DEF Bounded
<1>4. CASE Fault
  <2>1. UNCHANGED edits /\ faults < MaxFaults /\ faults' = faults + 1
    BY <1>4, Zenon DEF Fault, DialFails, GlobalFails, ListFails, SyncFails, SyncNetlinkFails,
       SyncNetlinkMisses, CleanupFails, Cleanup, Restart, userVars
  <2>. QED
    BY <1>1, <2>1 DEF Bounded
<1>. QED
  BY <1>2, <1>3, <1>4 DEF Next

\* Everything that a step may leave alone.
LEMMA Untouched ==
    ASSUME IInv, UNCHANGED <<want, stage, listed, silent, identity, daemon>>,
           life' # "gone" \/ UNCHANGED <<life, dirty>>
    PROVE  PassInv' /\ SweepInv'
<1>1. PassInv'
  BY DEF IInv, PassInv
<1>2. SweepInv'
  BY DEF IInv, SweepInv, Programming, Kind, Swept, Spared, Names
<1>. QED
  BY <1>1, <1>2

\* Users, and gobgpd's peers.
LEMMA UserStep ==
    ASSUME IInv, Edit \/ Delete \/ \E p \in Peers : Accept(p) \/ Disconnect(p)
    PROVE  Typed' /\ PassInv' /\ SweepInv'
<1>1. UNCHANGED <<want, stage, groups, listed, silent, reported, identity, daemon,
                  assigned, netlink, vrfNetlink>>
  BY DEF Edit, Delete, Accept, Disconnect, passVars, daemonVars, kernelVars
<1>2. /\ spec' \in Specs /\ here' \subseteq Selectable
      /\ life' \in {"live", "deleting", "gone"}
      /\ dirty' \in BOOLEAN
      /\ accepted' \subseteq Peers \ DOMAIN daemon
      /\ life' # "gone" \/ UNCHANGED <<life, dirty>>
  BY DEF IInv, TypeOK, Edit, Delete, Accept, Disconnect, userVars, daemonVars
<1>3. Typed'
  BY <1>1, <1>2 DEF IInv, TypeOK, Typed
<1>. QED
  BY <1>1, <1>2, <1>3, Untouched

\* A pass begins, fails before it has programmed anything, or dies.
LEMMA OutsideStep ==
    ASSUME IInv, Begin \/ DialFails \/ GlobalFails \/ Restart
    PROVE  Typed' /\ PassInv' /\ SweepInv'
<1> USE Links DEF IInv, TypeOK, PassInv, SweepInv, Programming
<1>1. CASE Begin
  <2>1. /\ UNCHANGED <<spec, here, life, reported, identity, daemon, accepted, assigned,
                       netlink, vrfNetlink>>
        /\ want' \in Specs /\ groups' = {} /\ listed' = None
        /\ stage' \in {"cleanup", "global"} /\ life # "gone"
        /\ dirty' = FALSE /\ silent' = FALSE
    BY <1>1 DEF Begin, userVars, daemonVars, kernelVars
  <2>2. Typed'
    BY <2>1 DEF Typed
  <2>. QED
    BY <2>1, <2>2, Copies
<1>2. CASE DialFails \/ GlobalFails
  <2>1. /\ UNCHANGED <<spec, here, life, want, groups, listed, silent, identity, daemon,
                       accepted, assigned, netlink, vrfNetlink>>
        /\ reported' \in {reported, "failed"}
        /\ stage' = "idle" /\ stage # "idle" /\ dirty' = TRUE
    BY <1>2 DEF DialFails, GlobalFails, Fail, userVars, passVars, daemonVars, kernelVars
  <2>2. Typed'
    BY <2>1 DEF Typed
  <2>. QED
    BY <2>1, <2>2
<1>3. CASE Restart
  <2>1. /\ UNCHANGED <<spec, here, life, want, groups, silent, reported>>
        /\ stage' = "idle" /\ listed' = None
        /\ identity' = None /\ daemon' = NoObjects /\ accepted' = {} /\ assigned' = None
        /\ netlink' = AllOff(Directions) /\ vrfNetlink' = AllOff(Vrfs)
        /\ dirty' \in BOOLEAN /\ (life = "gone" => dirty' = FALSE)
    BY <1>3 DEF Restart, userVars
  <2>2. /\ DOMAIN daemon' = {}
        /\ netlink' \in [Directions -> Netlink] /\ vrfNetlink' \in [Vrfs -> Netlink]
    BY <2>1 DEF NoObjects, AllOff, Netlink
  <2>3. Typed'
    BY <2>1, <2>2 DEF Typed
  <2>. QED
    BY <2>1, <2>3
<1>. QED
  BY <1>1, <1>2, <1>3

\* reconcileGlobal, and the list calls.
LEMMA ListStep ==
    ASSUME IInv, Global \/ List \/ ListFails
    PROVE  Typed' /\ PassInv' /\ SweepInv'
<1> USE Links DEF IInv, TypeOK, PassInv, Programming
<1>1. CASE Global
  <2>1. /\ UNCHANGED <<spec, here, life, want, groups, listed, silent, daemon,
                       accepted, assigned, netlink, vrfNetlink>>
        /\ stage = "global" /\ want \in Specs
        /\ \/ identity' = want.identity /\ stage' = "sets" /\ UNCHANGED <<dirty, reported>>
           \/ identity' = identity /\ stage' = "idle" /\ dirty' = TRUE /\ reported' = "failed"
    BY <1>1 DEF Global, Fail, userVars, passVars, kernelVars
  <2>0. identity' \in Versions \cup {None}
    <3>1. want.identity \in Versions
      BY <2>1, Copies
    <3>. QED
      BY <2>1, <3>1
  <2>2. Typed'
    BY <2>0, <2>1 DEF Typed
  <2>3. PassInv'
    BY <2>1
  <2>4. SweepInv'
    BY <2>1 DEF SweepInv, Swept
  <2>. QED
    BY <2>2, <2>3, <2>4
<1>2. CASE List \/ ListFails
  <2>1. /\ UNCHANGED <<spec, here, life, want, groups, identity, daemon,
                       accepted, assigned, netlink, vrfNetlink>>
        /\ stage \in DOMAIN Kind
    BY <1>2 DEF List, ListFails, userVars, daemonVars, kernelVars
  <2>2. \/ stage' = "idle" /\ dirty' = TRUE /\ reported' = "failed" /\ UNCHANGED <<listed, silent>>
        \/ /\ UNCHANGED <<dirty, stage, reported>>
           /\ \/ listed' = Held /\ UNCHANGED silent
              \/ listed' \in SUBSET Held /\ silent' = TRUE
    BY <1>2 DEF List, ListFails, Fail
  <2>3. Held \subseteq Kind[stage] /\ Kind[stage] \subseteq Names
        /\ Kind[stage] \cap DOMAIN daemon \subseteq Held
    BY <2>1 DEF Held
  <2>4. Typed'
    BY <2>1, <2>2, <2>3 DEF Typed
  <2>5. PassInv'
    BY <2>1, <2>2
  <2>6. SweepInv'
    <3>1. CASE stage' = "idle"
      BY <3>1 DEF SweepInv
    <3>2. CASE stage' = stage /\ silent' = silent /\ listed' = Held
      BY <3>2, <2>1, <2>3 DEF SweepInv, Spared, Swept, Kind, Names
    <3>3. CASE silent' = TRUE
      BY <3>3 DEF SweepInv
    <3>. QED
      BY <2>2, <3>1, <3>2, <3>3
  <2>. QED
    BY <2>4, <2>5, <2>6
<1>. QED
  BY <1>1, <1>2

\* The calls of one link, and what follows them.
LEMMA CallsStep ==
    ASSUME IInv, stage \in DOMAIN Kind, listed # None,
           NEW refused, NEW lost \in SUBSET Ranges, Sweep(refused, lost),
           IF Assigns /\ want.apply \notin DOMAIN daemon' THEN Unassignable ELSE NextLink,
           UNCHANGED <<userVars, want, identity, netlink>>
    PROVE  Typed' /\ PassInv' /\ SweepInv'
<1> USE Links DEF IInv, TypeOK, PassInv, Programming
<1>1. want \in Specs /\ TypeOK
  OBVIOUS
<1>2. /\ DOMAIN want.objs \subseteq Names
      /\ want.apply \in Policies \cup {None}
  BY <1>1, Copies
<1>3. /\ DOMAIN daemon' \subseteq DOMAIN daemon \cup DOMAIN want.objs
      /\ \A x \in DOMAIN daemon' : daemon'[x] \in Versions
      /\ accepted' \subseteq Peers \ DOMAIN daemon'
      /\ vrfNetlink' \in [Vrfs -> Netlink]
      /\ silent' \in BOOLEAN
      /\ silent' = FALSE =>
            /\ silent = FALSE
            /\ DOMAIN daemon' \cap Unwanted \subseteq DOMAIN want.objs
  BY <1>1, SweepFacts
<1>4. UNCHANGED <<spec, here, life, edits, want, identity, netlink>>
  BY DEF userVars
<1>5. \/ /\ stage' = "idle" /\ dirty' = TRUE /\ reported' = "failed"
         /\ UNCHANGED <<listed, groups, assigned>>
      \/ /\ stage' = Following[stage] /\ listed' = None
         /\ UNCHANGED <<dirty, reported>>
         /\ groups' = (IF stage = "groups" THEN Desired ELSE groups)
         /\ assigned' \in {want.apply, assigned}
  BY DEF Unassignable, NextLink, Fail
<1>6. groups' \subseteq Groups
  BY <1>5 DEF Desired
<1>7. Typed'
  BY <1>2, <1>3, <1>4, <1>5, <1>6 DEF Typed
<1>8. PassInv'
  BY <1>4, <1>5
<1>9. SweepInv'
  <2>1. CASE stage' = "idle" \/ silent' = TRUE
    BY <2>1 DEF SweepInv
  <2>2. CASE stage' = Following[stage] /\ silent' = FALSE
    <3>1. /\ Kind[stage] \cap DOMAIN daemon \subseteq listed
          /\ Swept[stage] \cap DOMAIN daemon \subseteq DOMAIN want.objs \cup Spared
      BY <1>3, <2>2 DEF SweepInv
    <3>2. listed \subseteq Unwanted \cup DOMAIN want.objs \cup Spared
      <4>1. Desired \subseteq DOMAIN want.objs
        BY DEF Desired
      <4>2. ASSUME NEW x \in listed, Protected(x)
            PROVE  x \in Spared
        BY <4>2, UsesAssumption DEF Protected, Spared
      <4>. QED
        BY <4>1, <4>2 DEF Unwanted
    <3>3. /\ Swept[stage'] = Swept[stage] \cup Kind[stage]
          /\ UNCHANGED <<want, Spared, Swept, Kind>>
      BY <1>4, <2>2 DEF Spared, Swept, Kind, Names
    <3>4. Swept[stage'] \cap DOMAIN daemon' \subseteq DOMAIN want.objs \cup Spared
      BY <1>3, <2>2, <3>1, <3>2, <3>3
    <3>5. stage' # "idle" /\ listed' = None
      BY <1>5, <2>2
    <3>. QED
      BY <3>3, <3>4, <3>5 DEF SweepInv
  <2>. QED
    BY <1>3, <1>5, <2>1, <2>2
<1>. QED
  BY <1>7, <1>8, <1>9

\* A pass keeps the types and the invariants of passes and sweeps.
LEMMA SyncStep ==
    ASSUME IInv, Sync \/ SyncFails
    PROVE  Typed' /\ PassInv' /\ SweepInv'
<1>1. CASE Sync
  BY <1>1, CallsStep DEF Sync
<1>2. CASE SyncFails
  <2>1. PICK refused \in SUBSET (Unwanted \cup Desired) \ {{}},
             lost \in SUBSET Ranges : Sweep(refused, lost)
    BY <1>2 DEF SyncFails
  <2>. QED
    BY <1>2, <2>1, CallsStep DEF SyncFails
<1>. QED
  BY <1>1, <1>2

\* reconcileNetlink, which ends a pass.
LEMMA NetlinkStep ==
    ASSUME IInv, SyncNetlink \/ SyncNetlinkFails \/ SyncNetlinkMisses
    PROVE  Typed' /\ PassInv' /\ SweepInv'
<1> USE DEF IInv, TypeOK, PassInv, Programming
<1>1. stage = "netlink" /\ want \in Specs
  BY DEF SyncNetlink, SyncNetlinkFails, SyncNetlinkMisses
<1>2. /\ want.netlink \in [Directions -> Netlink]
      /\ VrfNetlink \in [Vrfs -> Netlink]
  <2>1. /\ want.netlink \in [Directions -> Netlink]
        /\ want.vrfNetlink \in [Vrfs -> Netlink \cup {None}]
    BY <1>1, Copies
  <2>. QED
    BY <2>1 DEF VrfNetlink
<1>3. /\ UNCHANGED <<spec, here, life, want, groups, listed, identity, daemon,
                     accepted, assigned>>
      /\ stage' = "idle"
      /\ dirty' \in {dirty, TRUE} /\ silent' \in {silent, TRUE}
      /\ reported' \in {"ready", "failed"}
  BY DEF SyncNetlink, SyncNetlinkFails, SyncNetlinkMisses, Fail, userVars, passVars
<1>4. netlink' \in [Directions -> Netlink]
  <2>1. CASE SyncNetlinkFails
    BY <2>1, <1>2 DEF SyncNetlinkFails
  <2>. QED
    BY <1>2, <2>1 DEF SyncNetlink, SyncNetlinkMisses
<1>5. vrfNetlink' \in [Vrfs -> Netlink]
  <2>1. CASE SyncNetlink
    BY <2>1, <1>2 DEF SyncNetlink
  <2>2. CASE SyncNetlinkFails
    <3>1. PICK D : vrfNetlink' \in
                    IF D = Directions
                    THEN {n \in [Vrfs -> Netlink] :
                            \A v \in Vrfs : n[v] \in {"off", vrfNetlink[v], VrfNetlink[v]}}
                    ELSE {vrfNetlink}
      BY <2>2 DEF SyncNetlinkFails
    <3>. QED
      BY <3>1
  <2>3. CASE SyncNetlinkMisses
    BY <2>3, <1>2 DEF SyncNetlinkMisses
  <2>. QED
    BY <2>1, <2>2, <2>3
<1>6. Typed'
  BY <1>3, <1>4, <1>5 DEF Typed
<1>7. PassInv'
  <2>1. life' = "gone" => FALSE
    BY <1>1, <1>3
  <2>. QED
    BY <1>3, <2>1, Links
<1>8. SweepInv'
  BY <1>3, Links DEF SweepInv
<1>. QED
  BY <1>6, <1>7, <1>8

\* reconcileDelete deletes only what the copy names.
LEMMA CleanupFacts ==
    ASSUME IInv, NEW refused, NEW kept, NEW knows \in BOOLEAN,
           Cleanup(refused, kept, knows)
    PROVE  /\ stage = "cleanup" /\ stage' = "idle"
           /\ want \in Specs /\ life # "gone"
           /\ DOMAIN daemon' = DOMAIN daemon \ Deleted(refused, knows)
           /\ Deleted(refused, knows) \subseteq DOMAIN want.objs
           /\ life' = "gone" => DOMAIN daemon' \cap DOMAIN want.objs = {} /\ dirty' = FALSE
           /\ life' \in {life, "gone"} /\ dirty' \in BOOLEAN
           /\ UNCHANGED <<spec, here, want, groups, listed, silent, reported, identity,
                          assigned>>
           /\ \A x \in DOMAIN daemon' : daemon'[x] = daemon[x]
           /\ accepted' \subseteq accepted
           /\ netlink' \in [Directions -> Netlink] /\ vrfNetlink' \in [Vrfs -> Netlink]
<1>1. stage = "cleanup" /\ want \in Specs /\ life # "gone" /\ TypeOK
  BY DEF Cleanup, IInv, TypeOK, PassInv
<1>2. Attempted(knows) \subseteq DOMAIN want.objs
  BY DEF Attempted
<1>3. Deleted(refused, knows) \subseteq Attempted(knows)
  BY DEF Deleted
<1>4. DOMAIN daemon \cap DOMAIN want.objs \subseteq Attempted(knows)
  BY DEF Attempted
<1>5. /\ stage' = "idle"
      /\ IF Deleted(refused, knows) = Attempted(knows)
         THEN life' = "gone" /\ dirty' = FALSE
         ELSE life' = life /\ dirty' = TRUE
      /\ UNCHANGED <<spec, here, want, groups, listed, silent, reported, identity,
                     assigned>>
      /\ daemon' = Without(daemon, Deleted(refused, knows))
      /\ accepted' = accepted \ Deleted(refused, knows)
      /\ vrfNetlink' = Dropped(daemon')
  BY Zenon DEF Cleanup, Clear, passVars
<1>6. /\ DOMAIN daemon' = DOMAIN daemon \ Deleted(refused, knows)
      /\ \A x \in DOMAIN daemon' : daemon'[x] = daemon[x]
  BY <1>5 DEF Without
<1>7. netlink' \in [Directions -> Netlink]
  BY <1>1 DEF Cleanup, Clear, TypeOK, Netlink
<1>8. vrfNetlink' \in [Vrfs -> Netlink]
  BY <1>1, <1>5, DroppedType
<1>9. life' = "gone" => DOMAIN daemon' \cap DOMAIN want.objs = {} /\ dirty' = FALSE
  BY <1>1, <1>4, <1>5, <1>6
<1>10. life' \in {life, "gone"} /\ dirty' \in BOOLEAN /\ accepted' \subseteq accepted
  BY <1>5
<1>11. Deleted(refused, knows) \subseteq DOMAIN want.objs
  BY <1>2, <1>3
<1>. QED
  BY <1>1, <1>5, <1>6, <1>7, <1>8, <1>9, <1>10, <1>11, Zenon

\* Either cleanup is one.
LEMMA CleanupCases ==
    ASSUME CleanupWorks \/ CleanupFails
    PROVE  \E refused, kept : \E knows \in BOOLEAN : Cleanup(refused, kept, knows)
BY Zenon DEF CleanupWorks, CleanupFails

\* So does a cleanup.
LEMMA CleanupStep ==
    ASSUME IInv, CleanupWorks \/ CleanupFails
    PROVE  Typed' /\ PassInv' /\ SweepInv'
<1>1. PICK refused, kept : \E knows \in BOOLEAN : Cleanup(refused, kept, knows)
  BY CleanupCases
<1>2. PICK knows \in BOOLEAN : Cleanup(refused, kept, knows)
  BY <1>1
<1>3. /\ stage' = "idle"
      /\ life # "gone"
      /\ DOMAIN daemon' \subseteq DOMAIN daemon
      /\ life' = "gone" => dirty' = FALSE
      /\ life' \in {life, "gone"} /\ dirty' \in BOOLEAN
      /\ UNCHANGED <<spec, here, want, groups, listed, silent, reported, identity, assigned>>
      /\ \A x \in DOMAIN daemon' : daemon'[x] = daemon[x]
      /\ accepted' \subseteq accepted
      /\ netlink' \in [Directions -> Netlink] /\ vrfNetlink' \in [Vrfs -> Netlink]
  BY <1>2, CleanupFacts
<1>4. Typed'
  BY <1>3 DEF IInv, TypeOK, Typed
<1>5. PassInv' /\ SweepInv'
  BY <1>3, Links DEF PassInv, SweepInv, Programming
<1>. QED
  BY <1>4, <1>5

\* The inductive invariant holds at first,
LEMMA InitIInv == Init => IInv
<1> SUFFICES ASSUME Init PROVE IInv
  OBVIOUS
<1>1. /\ DOMAIN daemon = {} /\ netlink \in [Directions -> Netlink]
      /\ vrfNetlink \in [Vrfs -> Netlink]
  BY DEF Init, NoObjects, AllOff, Netlink
<1>2. Typed
  BY <1>1 DEF Init, Typed
<1>3. Bounded
  BY BoundsAssumption DEF Init, Bounded
<1>4. PassInv /\ SweepInv
  BY Links DEF Init, PassInv, SweepInv, Programming
<1>. QED
  BY <1>2, <1>3, <1>4, TypeSplit DEF IInv

\* and every step keeps it.
LEMMA IInvStep == IInv /\ [Next]_vars => IInv'
<1> SUFFICES ASSUME IInv, [Next]_vars PROVE IInv'
  OBVIOUS
<1>1. CASE UNCHANGED vars
  <2>1. UNCHANGED <<spec, here, life, dirty, stage, want, groups, listed, silent, reported,
          identity, daemon, accepted, assigned, netlink, vrfNetlink, edits, faults>>
    BY <1>1, Zenon DEF vars
  <2>2. TypeOK'
    BY <2>1, ZenonT(60) DEF IInv, TypeOK, Following, Names, Netlink, Directions
  <2>. QED
    BY <2>1, <2>2, Untouched DEF IInv
<1>2. CASE Next
  <2>1. Typed' /\ PassInv' /\ SweepInv'
    BY <1>2, UserStep, OutsideStep, ListStep, SyncStep, NetlinkStep, CleanupStep
       DEF Next, Agent, Fault
  <2>2. Bounded'
    BY <1>2, BoundedStep DEF IInv
  <2>. QED
    BY <2>1, <2>2, TypeSplit DEF IInv
<1>. QED
  BY <1>1, <1>2

-----------------------------------------------------------------------------
(***************************************************************************)
(* Theorems.                                                               *)
(***************************************************************************)

\* The inductive invariant: in every pass of reconcileDefinedSets, ...,
\* reconcileNeighbors the speaker is the right one, a list that nothing cut
\* short is complete, and the kinds swept so far hold only what is asked.
THEOREM Invariance == Spec => []IInv
BY InitIInv, IInvStep, PTL DEF Spec

\* Every reachable state is well typed; in particular no peer is both
\* configured and accepted from a dynamic range.
THEOREM TypeCorrect == Spec => []TypeOK
<1>1. IInv => TypeOK
  BY DEF IInv
<1>. QED
  BY <1>1, Invariance, PTL

\* reconcileGlobal stops a pass for another speaker, so the objects a pass adds
\* or updates belong to the speaker its specification describes.
THEOREM RightSpeakerOnly == Spec => RightSpeaker
<1>1. IInv /\ [Next]_vars =>
        [daemon' # daemon /\ stage \in DOMAIN Kind => identity = want.identity]_vars
  BY DEF IInv, PassInv, Programming
<1>. QED
  BY <1>1, Invariance, PTL DEF Spec, RightSpeaker

\* reconcileDelete removes the finalizer only when gobgpd holds nothing the
\* object names, whatever calls failed before.
THEOREM Released == Spec => ReleasedIsEmpty
<1>1. IInv /\ [Next]_vars =>
        [life = "deleting" /\ life' = "gone" => DOMAIN daemon' \cap DOMAIN want.objs = {}]_vars
  <2> SUFFICES ASSUME IInv, Next, life = "deleting", life' = "gone"
               PROVE  DOMAIN daemon' \cap DOMAIN want.objs = {}
    OBVIOUS
  <2>1. CleanupWorks \/ CleanupFails
    BY DEF Next, Edit, Delete, Accept, Disconnect, Agent, Begin, Global, List, Sync,
       SyncNetlink, Fault, DialFails, GlobalFails, ListFails, SyncFails, SyncNetlinkFails,
       SyncNetlinkMisses, Restart, userVars
  <2>2. PICK refused, kept : \E knows \in BOOLEAN : Cleanup(refused, kept, knows)
    BY <2>1, CleanupCases
  <2>3. PICK knows \in BOOLEAN : Cleanup(refused, kept, knows)
    BY <2>2
  <2>. QED
    BY <2>3, CleanupFacts
<1>. QED
  BY <1>1, Invariance, PTL DEF Spec, ReleasedIsEmpty

\* isDynamicallyAcceptedPeer: no pass of reconcileNeighbors ends a session
\* accepted from a range of the specification it works on.
THEOREM SessionsSurvive == Spec => DynamicSessionsSurvive
<1> DEFINE Kept == stage = "peers" /\ stage' = "netlink" =>
        \A p \in accepted \ (accepted' \cup DOMAIN daemon') :
            \A r \in DOMAIN want.objs \cap Ranges : <<p, r>> \notin InRange
<1>1. IInv /\ [Next]_vars => [Kept]_vars
  <2> SUFFICES ASSUME IInv, Next, stage = "peers", stage' = "netlink",
                      NEW p \in accepted \ (accepted' \cup DOMAIN daemon'),
                      NEW r \in DOMAIN want.objs \cap Ranges, <<p, r>> \in InRange
               PROVE  FALSE
    OBVIOUS
  <2>1. Sync \/ SyncFails
    BY DEF Next, Edit, Delete, Accept, Disconnect, Agent, Begin, Global, List, Fail,
       SyncNetlink, CleanupWorks, CleanupFails, Cleanup, Fault, DialFails, GlobalFails,
       ListFails, SyncNetlinkFails, SyncNetlinkMisses, Restart
  <2>2. PICK refused, lost : lost \in SUBSET Ranges /\ Sweep(refused, lost)
    <3>1. CASE Sync
      BY <3>1 DEF Sync
    <3>2. CASE SyncFails
      BY <3>2 DEF SyncFails
    <3>. QED
      BY <2>1, <3>1, <3>2
  <2>3. listed # None /\ want \in Specs /\ stage \in DOMAIN Kind
    BY <2>1, Links DEF Sync, SyncFails, IInv, TypeOK, PassInv
  <2>4. accepted \ accepted' \subseteq Unwanted \cup lost \cup DOMAIN daemon'
    BY <2>2, <2>3, SweepFacts DEF IInv
  <2>5. p \in Peers /\ p \notin lost
    BY <2>2, NoneAssumption DEF IInv, TypeOK
  <2>6. p \in Unwanted
    BY <2>4, <2>5
  <2>. QED
    BY <2>6 DEF Unwanted, Protected
<1>. QED
  BY <1>1, Invariance, PTL DEF Spec, DynamicSessionsSurvive

-----------------------------------------------------------------------------
(***************************************************************************)
(* The chain and the cleanup implement PassContract.                       *)
(***************************************************************************)

\* The phase a stage belongs to, and what the copy of a pass names.
LEMMA Mapping ==
    ASSUME Typed
    PROVE  /\ stage = "idle" => Phase = "idle"
           /\ stage = "cleanup" => Phase = "cleaning"
           /\ stage \in DOMAIN Kind \cup {"global", "netlink"} => Phase = "applying"
           /\ want \in Specs => Named = DOMAIN want.objs
           /\ Named \subseteq Names
<1>1. \A w \in Specs : w # None /\ DOMAIN w.objs \subseteq Names
  BY Copies
<1>. QED
  BY <1>1, Links DEF Phase, Named, Typed

\* Every step is one of PassContract under the mapping, or stutters.
LEMMA MappingNext ==
    ASSUME Typed'
    PROVE  /\ stage' = "idle" => Phase' = "idle"
           /\ stage' = "cleanup" => Phase' = "cleaning"
           /\ stage' \in DOMAIN Kind \cup {"global", "netlink"} => Phase' = "applying"
           /\ want' \in Specs => Named' = DOMAIN want'.objs
           /\ Named' \subseteq Names
<1>1. \A w \in Specs : w # None /\ DOMAIN w.objs \subseteq Names
  BY Copies
<1>. QED
  BY <1>1, Links DEF Phase, Named, Typed

\* A step that leaves alone all that the contract sees.
LEMMA Unseen ==
    ASSUME UNCHANGED <<stage, want, silent, reported, daemon>>,
           (life' = "gone") = (life = "gone")
    PROVE  UNCHANGED Contract!contractVars
BY Zenon DEF Contract!contractVars, Phase, Named

\* The calls of a link keep the contract.
LEMMA CallsKeepContract ==
    ASSUME IInv, Typed', Sync \/ SyncFails
    PROVE  Contract!Next
<1>1. PICK refused, lost : lost \in SUBSET Ranges /\ Sweep(refused, lost)
  <2>1. CASE Sync
    BY <2>1 DEF Sync
  <2>2. CASE SyncFails
    BY <2>2 DEF SyncFails
  <2>. QED
    BY <2>1, <2>2
<1>2. listed # None /\ want \in Specs /\ stage \in DOMAIN Kind /\ stage # "idle"
  BY Links DEF Sync, SyncFails, IInv, TypeOK, PassInv
<1>3. /\ DOMAIN daemon' \subseteq DOMAIN daemon \cup DOMAIN want.objs
      /\ silent' = FALSE => silent = FALSE
      /\ silent' \in BOOLEAN
  BY <1>1, <1>2, SweepFacts DEF IInv
<1>4. UNCHANGED <<want, life>>
  BY DEF Sync, SyncFails, userVars
<1>5. \/ stage' = "idle" /\ reported' = "failed"
      \/ stage' = Following[stage] /\ UNCHANGED reported
  BY DEF Sync, SyncFails, Unassignable, NextLink, Fail
<1>6. Typed /\ silent \in BOOLEAN
  BY TypeSplit DEF IInv, TypeOK
<1>7. Phase = "applying" /\ Named = DOMAIN want.objs /\ Named' = Named
  BY <1>2, <1>4, <1>6, Mapping DEF Named
<1>8. (~silent)' \in {~silent, FALSE}
  BY <1>3, <1>6
<1>9. CASE stage' = "idle" /\ reported' = "failed"
  <2>1. Phase' = "idle"
    BY <1>9, MappingNext
  <2>. QED
    BY <1>3, <1>4, <1>7, <1>8, <1>9, <2>1 DEF Contract!Next, Contract!Fail, Contract!Program
<1>10. CASE stage' = Following[stage] /\ UNCHANGED reported
  <2>1. Phase' = "applying"
    BY <1>2, <1>10, MappingNext, Links DEF Programming
  <2>. QED
    BY <1>3, <1>4, <1>7, <1>8, <1>10, <2>1 DEF Contract!Next, Contract!Apply, Contract!Program
<1>. QED
  BY <1>5, <1>9, <1>10

\* The end of a pass keeps the contract: a success in which nothing was merely
\* logged has swept every kind.
LEMMA EndKeepsContract ==
    ASSUME IInv, Typed', SyncNetlink \/ SyncNetlinkFails \/ SyncNetlinkMisses
    PROVE  Contract!Next
<1>1. /\ stage = "netlink" /\ stage' = "idle" /\ want \in Specs /\ Typed
      /\ silent \in BOOLEAN /\ silent' \in BOOLEAN
  <2>1. stage = "netlink" /\ stage' = "idle"
    BY DEF SyncNetlink, SyncNetlinkFails, SyncNetlinkMisses, Fail
  <2>. QED
    BY <2>1, TypeSplit DEF IInv, TypeOK, PassInv, Typed
<1>2. UNCHANGED <<want, life, daemon>>
  BY DEF SyncNetlink, SyncNetlinkFails, SyncNetlinkMisses, userVars, passVars
<1>3. /\ Phase = "applying" /\ Phase' = "idle"
      /\ Named = DOMAIN want.objs /\ Named' = Named
  BY <1>1, <1>2, Mapping, MappingNext DEF Named
<1>4. silent = FALSE => DOMAIN daemon \subseteq DOMAIN want.objs \cup Spared
  BY <1>1 DEF IInv, TypeOK, SweepInv, Programming, Swept
<1>5. CASE reported' = "ready"
  <2>1. silent' = FALSE => silent = FALSE
    BY <1>5, <1>1 DEF SyncNetlink, SyncNetlinkFails, SyncNetlinkMisses, Fail, passVars
  <2>2. (~silent)' \in {~silent, FALSE}
    BY <1>1, <2>1
  <2>3. (~silent)' => DOMAIN daemon \subseteq Named \cup Spared
    BY <1>1, <1>3, <1>4, <2>1
  <2>. QED
    BY <1>2, <1>3, <1>5, <2>2, <2>3 DEF Contract!Next, Contract!Succeed, Spared
<1>6. CASE reported' # "ready"
  <2>1. SyncNetlinkFails /\ reported' = "failed" /\ UNCHANGED silent
    BY <1>6 DEF SyncNetlink, SyncNetlinkFails, SyncNetlinkMisses, Fail, passVars
  <2>. QED
    BY <1>2, <1>3, <2>1 DEF Contract!Next, Contract!Fail, Contract!Program
<1>. QED
  BY <1>5, <1>6

\* So does a cleanup.
LEMMA CleanupKeepsContract ==
    ASSUME IInv, Typed', CleanupWorks \/ CleanupFails
    PROVE  Contract!Next
<1>1. PICK refused, kept : \E knows \in BOOLEAN : Cleanup(refused, kept, knows)
  BY CleanupCases
<1>2. PICK knows \in BOOLEAN : Cleanup(refused, kept, knows)
  BY <1>1
<1>3. /\ stage = "cleanup" /\ stage' = "idle" /\ want \in Specs
      /\ DOMAIN daemon' = DOMAIN daemon \ Deleted(refused, knows)
      /\ Deleted(refused, knows) \subseteq DOMAIN want.objs
      /\ life' = "gone" => DOMAIN daemon' \cap DOMAIN want.objs = {}
      /\ UNCHANGED <<want, silent, reported>>
  BY <1>2, CleanupFacts
<1>4. Typed
  BY TypeSplit DEF IInv
<1>5. /\ Phase = "cleaning" /\ Phase' = "idle"
      /\ Named = DOMAIN want.objs /\ Named' = Named
  BY <1>3, <1>4, Mapping, MappingNext DEF Named
<1>. QED
  BY <1>3, <1>5 DEF Contract!Next, Contract!Clean

\* And so do the steps outside the chain.
LEMMA OthersKeepContract ==
    ASSUME IInv, Typed', Begin \/ DialFails \/ GlobalFails \/ Restart \/ Global \/ ListFails
    PROVE  Contract!Next
<1>1. Typed
  BY TypeSplit DEF IInv
<1>2. CASE Begin
  <2>1. /\ stage = "idle" /\ stage' \in {"global", "cleanup"} /\ silent' = FALSE
        /\ life # "gone" /\ UNCHANGED <<life, daemon, reported>>
    BY <1>2 DEF Begin, userVars, daemonVars, IInv, PassInv
  <2>2. Phase = "idle" /\ Phase' \in {"applying", "cleaning"} /\ Named' \subseteq Names
    BY <2>1, <1>1, Mapping, MappingNext
  <2>. QED
    BY <2>1, <2>2 DEF Contract!Next, Contract!Begin
<1>3. CASE Restart
  <2>1. stage' = "idle" /\ UNCHANGED <<want, silent, reported, life>> /\ DOMAIN daemon' = {}
    BY <1>3 DEF Restart, userVars, NoObjects
  <2>2. Phase' = "idle" /\ Named' = Named
    BY <2>1, MappingNext DEF Named
  <2>. QED
    BY <2>1, <2>2 DEF Contract!Next, Contract!Crash
<1>4. CASE (DialFails /\ stage = "cleanup") 
  <2>1. stage = "cleanup" /\ stage' = "idle" /\ UNCHANGED <<want, silent, reported, life, daemon>>
    BY <1>4 DEF DialFails, userVars, passVars, daemonVars
  <2>2. Phase = "cleaning" /\ Phase' = "idle" /\ Named' = Named /\ life # "gone"
    BY <2>1, <1>1, Mapping, MappingNext DEF Named, IInv, PassInv
  <2>. QED
    BY <2>1, <2>2 DEF Contract!Next, Contract!Clean
<1>5. CASE (DialFails /\ stage # "cleanup") \/ GlobalFails \/ Global \/ ListFails
  <2>1. /\ stage \in DOMAIN Kind \cup {"global"}
        /\ UNCHANGED <<want, life, daemon>>
        /\ silent' \in {silent, TRUE}
        /\ \/ stage' = "idle" /\ reported' \in {reported, "failed"}
           \/ stage' \in {stage, "sets"} /\ UNCHANGED reported
    BY <1>5, Links DEF DialFails, GlobalFails, Global, ListFails, Fail, userVars, passVars,
       daemonVars
  <2>2. Phase = "applying" /\ Named' = Named
    BY <2>1, <1>1, Mapping DEF Named
  <2>3. (~silent)' \in {~silent, FALSE}
    BY <2>1, <1>1 DEF Typed
  <2>4. CASE stage' = "idle" /\ reported' \in {reported, "failed"}
    <3>1. Phase' = "idle"
      BY <2>4, MappingNext
    <3>. QED
      BY <2>1, <2>2, <2>3, <2>4, <3>1 DEF Contract!Next, Contract!Fail, Contract!Program
  <2>5. CASE stage' \in {stage, "sets"} /\ UNCHANGED reported
    <3>1. Phase' = "applying"
      BY <2>1, <2>5, MappingNext, Links
    <3>. QED
      BY <2>1, <2>2, <2>3, <2>5, <3>1 DEF Contract!Next, Contract!Apply, Contract!Program
  <2>. QED
    BY <2>1, <2>4, <2>5
<1>. QED
  BY <1>2, <1>3, <1>4, <1>5

\* The calls of reconcileGlobal, of every other link and of reconcileDelete
\* implement the passes that ConfigLifecycle takes for one step.
THEOREM PassesImplementContract == Spec => PassesKeepContract
<1>1. Init => Contract!Init
  <2> SUFFICES ASSUME Init PROVE Contract!Init
    OBVIOUS
  <2>1. stage = "idle" /\ want = None /\ DOMAIN daemon = {} /\ silent = FALSE
        /\ reported = "none" /\ life = "live"
    BY DEF Init, NoObjects
  <2>. QED
    BY <2>1 DEF Contract!Init, Phase, Named
<1>2. IInv /\ IInv' /\ [Next]_vars => [Contract!Next]_(Contract!contractVars)
  <2> SUFFICES ASSUME IInv, IInv', [Next]_vars
               PROVE  Contract!Next \/ UNCHANGED Contract!contractVars
    OBVIOUS
  <2>0. Typed'
    BY TypeSplit DEF IInv
  <2>1. CASE UNCHANGED vars \/ List \/ Edit \/ Delete \/ \E p \in Peers : Accept(p) \/ Disconnect(p)
    <3>1. UNCHANGED <<stage, want, silent, reported, daemon>>
          /\ ((life' = "gone") = (life = "gone"))
      BY <2>1 DEF vars, List, Edit, Delete, Accept, Disconnect, userVars, passVars, daemonVars
    <3>. QED
      BY <3>1, Unseen
  <2>2. CASE Sync \/ SyncFails
    BY <2>0, <2>2, CallsKeepContract
  <2>3. CASE SyncNetlink \/ SyncNetlinkFails \/ SyncNetlinkMisses
    BY <2>0, <2>3, EndKeepsContract
  <2>4. CASE CleanupWorks \/ CleanupFails
    BY <2>0, <2>4, CleanupKeepsContract
  <2>5. CASE Begin \/ DialFails \/ GlobalFails \/ Restart \/ Global \/ ListFails
    BY <2>0, <2>5, OthersKeepContract
  <2>. QED
    BY <2>1, <2>2, <2>3, <2>4, <2>5 DEF Next, Agent, Fault
<1>. QED
  BY <1>1, <1>2, Invariance, PTL DEF Spec, PassesKeepContract, Contract!Spec
-----------------------------------------------------------------------------
(***************************************************************************)
(* What a success leaves.                                                  *)
(***************************************************************************)

\* The object is not being deleted, nothing has changed since the pass took its
\* copy, and no failure of it was merely logged.
Fresh == life = "live" /\ dirty = FALSE /\ silent = FALSE

\* Of the names in S gobgpd holds what is asked, at the right version, and
\* nothing else, unless it lies in a dynamic range.
Settled(S) ==
    \A x \in S :
        /\ x \in Asked => x \in DOMAIN daemon /\ (x \in Vrfs \/ daemon[x] = spec.objs[x])
        /\ x \in DOMAIN daemon => x \in Asked \cup Spared

\* The links after reconcilePolicies, and those after the peer groups.
AfterPolicies == {"vrfs", "groups", "ranges", "peers", "netlink"}
AfterGroups == {"ranges", "peers", "netlink"}

\* A list that nothing cut short is what gobgpd holds of the kind; of the
\* peers it may have sessions that have ended since.
ListInv ==
    stage \in DOMAIN Kind /\ listed # None =>
        /\ listed \subseteq Kind[stage]
        /\ stage # "peers" => listed \subseteq DOMAIN daemon

\* What the links so far have settled of a pass that is still fresh.
ProgressInv ==
    stage \in Programming \cup {"global"} /\ Fresh =>
        /\ want = spec
        /\ stage # "global" => Settled(Swept[stage])
        /\ stage \in AfterPolicies => spec.apply \in {None, assigned}
        /\ stage \in AfterGroups => groups = Selected \cap Groups

\* And what is left when it has ended.
RestInv ==
    stage = "idle" /\ Fresh /\ reported = "ready" =>
        /\ Settled(Names)
        /\ netlink = spec.netlink
        /\ spec.apply \in {None, assigned}
        /\ \A v \in Asked \cap Vrfs : spec.vrfNetlink[v] \in {None, vrfNetlink[v]}

\* Only names that users wrote reach gobgpd, and a cleanup is of a deletion.
OriginInv ==
    /\ DOMAIN daemon \subseteq UNION {DOMAIN s.objs : s \in Specs}
    /\ stage = "cleanup" => life # "live"

ExactInv == ListInv /\ ProgressInv /\ RestInv /\ OriginInv

\* No neighbor that users configure has its address in a dynamic range.
Disjoint == \A s \in Specs : DOMAIN s.objs \cap Spared = {}

\* Whose names the two halves of a link's calls concern.
LEMMA KindsApart ==
    ASSUME NEW k \in DOMAIN Kind
    PROVE  /\ Kind[k] \cap Swept[k] = {}
           /\ k \notin {"ranges", "peers"} => Kind[k] \cap (Ranges \cup Peers) = {}
           /\ k # "policies" => Kind[k] \cap Policies = {}
           /\ k # "vrfs" => Kind[k] \cap Vrfs = {}
BY KindsAssumption DEF Kind, Swept

\* What a link wants of its kind is what is asked of it.
LEMMA DesiredIsAsked ==
    ASSUME ExactInv, Fresh, NEW k \in DOMAIN Kind, stage = k
    PROVE  Desired = Asked \cap Kind[k]
<1>1. want = spec /\ (k \in {"ranges", "peers"} => groups = Selected \cap Groups)
  BY Links DEF ExactInv, ProgressInv, Programming, AfterGroups
<1>2. CASE k \in {"ranges", "peers"}
  <2>1. Kind[k] \subseteq Ranges \cup Peers
    BY <1>2 DEF Kind
  <2>2. \A x \in Kind[k] : Uses[x] \in Groups \cup {None}
    BY <2>1, KindsAssumption
  <2>3. Desired = {x \in DOMAIN spec.objs \cap Kind[k] :
                    /\ x \in Selectable => x \in here
                    /\ Uses[x] \in (Selected \cap Groups) \cup {None}}
    BY <1>1, <1>2 DEF Desired
  <2>. QED
    BY <2>1, <2>2, <2>3 DEF Asked, Selected
<1>3. CASE k \notin {"ranges", "peers"}
  <2>1. Kind[k] \cap (Ranges \cup Peers) = {}
    BY <1>3, KindsApart
  <2>2. Desired = {x \in DOMAIN spec.objs \cap Kind[k] : x \in Selectable => x \in here}
    BY <1>1, <1>3 DEF Desired
  <2>. QED
    BY <2>1, <2>2 DEF Asked, Selected
<1>. QED
  BY <1>2, <1>3

\* The calls of a link of which none failed leave of its kind what it wants,
\* at the right version, and what lies in a dynamic range; every other kind
\* they leave alone.
LEMMA SweepExact ==
    ASSUME IInv, ExactInv, Fresh, NEW k \in DOMAIN Kind, stage = k, listed # None,
           NEW refused, NEW lost \in SUBSET (refused \cap Updated \cap Ranges),
           Sweep(refused, lost), silent' = FALSE
    PROVE  /\ \A x \in Kind[k] \cap Desired :
                x \in DOMAIN daemon' /\ (x \in Vrfs \/ daemon'[x] = want.objs[x])
           /\ \A x \in Kind[k] \cap DOMAIN daemon' : x \in Desired \cup Spared
           /\ \A x : x \notin Kind[k] =>
                /\ x \in DOMAIN daemon' <=> x \in DOMAIN daemon
                /\ x \in DOMAIN daemon => daemon'[x] = daemon[x]
           /\ DOMAIN daemon' \subseteq DOMAIN daemon \cup DOMAIN want.objs
<1> DEFINE gone == {x \in Unwanted \ refused :
                        Deletable(daemon, x) \/ x \in accepted} \cup lost
           left == Without(daemon, gone)
           put == {x \in Desired \ (listed \cup refused) : Addable(left, x)}
                    \cup ((Updated \ refused) \cap (DOMAIN left \cup accepted))
<1>1. /\ daemon' = With(left, put, want.objs)
      /\ silent' = (silent \/ ~(Unwanted \subseteq gone)
                           \/ ~((Desired \ listed) \cup Updated \subseteq put))
  BY DEF Sweep
<1>2. Unwanted \subseteq gone /\ (Desired \ listed) \cup Updated \subseteq put
  BY <1>1, Zenon
<1>3. put \subseteq Desired /\ put \cap lost = {}
  BY DEF Desired, Updated
<1>4. gone \subseteq Unwanted \cup lost
  OBVIOUS
<1>5. DOMAIN left = DOMAIN daemon \ gone /\ \A x \in DOMAIN left : left[x] = daemon[x]
  BY DEF Without
<1> HIDE DEF gone, put
<1>6. lost = {}
  BY <1>2, <1>3
<1>7. /\ DOMAIN daemon' = (DOMAIN daemon \ gone) \cup put
      /\ \A x \in DOMAIN daemon' :
            daemon'[x] = IF x \in put THEN want.objs[x] ELSE daemon[x]
  BY <1>1, <1>5 DEF With
<1>8. /\ listed \subseteq Kind[k]
      /\ Kind[k] \cap DOMAIN daemon \subseteq listed
      /\ k # "peers" => listed \subseteq DOMAIN daemon
  BY DEF ExactInv, ListInv, IInv, SweepInv, Programming, Fresh
<1>9. Desired \subseteq Kind[k] /\ Desired \subseteq DOMAIN want.objs
      /\ Unwanted \subseteq listed \ Desired
  BY DEF Desired, Unwanted
<1>10. \A x \in Kind[k] \cap Desired :
            x \in DOMAIN daemon' /\ (x \in Vrfs \/ daemon'[x] = want.objs[x])
  <2> SUFFICES ASSUME NEW x \in Desired, x \notin put
               PROVE  x \in DOMAIN daemon' /\ (x \in Vrfs \/ daemon'[x] = want.objs[x])
    BY <1>7
  <2>1. x \in listed /\ x \notin Updated /\ x \notin gone
    BY <1>2, <1>4, <1>6, <1>9
  <2>2. CASE x \in Vrfs
    <3>1. k = "vrfs"
      BY <1>9, <2>2, KindsApart
    <3>. QED
      BY <1>7, <1>8, <2>1, <2>2, <3>1
  <2>3. CASE x \notin Vrfs
    <3>1. ~Differs(x)
      BY <2>1, <2>3 DEF Updated
    <3>. QED
      BY <1>7, <2>1, <3>1 DEF Differs
  <2>. QED
    BY <2>2, <2>3
<1>11. \A x \in Kind[k] \cap DOMAIN daemon' : x \in Desired \cup Spared
  <2> SUFFICES ASSUME NEW x \in Kind[k] \cap DOMAIN daemon', x \notin Desired
               PROVE  x \in Spared
    OBVIOUS
  <2>1. x \in listed /\ x \notin gone
    BY <1>3, <1>7, <1>8
  <2>2. Protected(x)
    BY <1>2, <2>1 DEF Unwanted
  <2>. QED
    BY <2>2, UsesAssumption DEF Protected, Spared
<1>12. \A x : x \notin Kind[k] => x \notin gone /\ x \notin put
  BY <1>3, <1>4, <1>6, <1>8, <1>9
<1>. QED
  BY <1>3, <1>7, <1>9, <1>10, <1>11, <1>12

\* A step that leaves alone all that the invariant is about.
LEMMA NothingMoved ==
    ASSUME ExactInv,
           UNCHANGED <<spec, here, life, dirty, stage, want, groups, listed, silent,
                       reported, daemon, assigned, netlink, vrfNetlink>>
    PROVE  ExactInv'
<1>1. UNCHANGED <<Selected, Asked, Fresh, Swept, Spared, Kind, Names>>
  BY DEF Selected, Asked, Fresh, Swept, Spared, Kind, Names
<1>2. \A S : Settled(S) => Settled(S)'
  BY <1>1 DEF Settled
<1>3. ListInv' /\ OriginInv'
  BY <1>1 DEF ExactInv, ListInv, OriginInv
<1>4. ProgressInv'
  BY <1>1, <1>2 DEF ExactInv, ProgressInv, AfterPolicies, AfterGroups, Programming
<1>5. RestInv'
  BY <1>1, <1>2 DEF ExactInv, RestInv
<1>. QED
  BY <1>3, <1>4, <1>5 DEF ExactInv

\* A pass that stops, and is queued again or has an object to release.
LEMMA PassStops ==
    ASSUME stage' = "idle", ~Fresh',
           DOMAIN daemon' \subseteq UNION {DOMAIN s.objs : s \in Specs}
    PROVE  ExactInv'
BY Links DEF ExactInv, ListInv, ProgressInv, RestInv, OriginInv, Programming

\* Users, and gobgpd's peers.
LEMMA UserExact ==
    ASSUME IInv, ExactInv, Edit \/ Delete \/ \E p \in Peers : Accept(p) \/ Disconnect(p)
    PROVE  ExactInv'
<1>1. CASE Edit \/ Delete
  <2>1. /\ UNCHANGED <<stage, listed, daemon>>
        /\ dirty' = TRUE /\ life = "live" /\ life' \in {"live", "deleting"}
    BY <1>1 DEF Edit, Delete, passVars, daemonVars
  <2>2. ~Fresh' /\ stage # "cleanup" /\ UNCHANGED Kind
    BY <2>1 DEF Fresh, ExactInv, OriginInv, Kind
  <2>. QED
    BY <2>1, <2>2 DEF ExactInv, ListInv, ProgressInv, RestInv, OriginInv
<1>2. CASE \E p \in Peers : Accept(p) \/ Disconnect(p)
  BY <1>2, NothingMoved DEF Accept, Disconnect, userVars, passVars, kernelVars
<1>. QED
  BY <1>1, <1>2

\* A pass begins, fails before it has programmed anything, or dies.
LEMMA OutsideExact ==
    ASSUME IInv, ExactInv, Begin \/ DialFails \/ GlobalFails \/ Restart
    PROVE  ExactInv'
<1>1. CASE Begin
  <2>1. /\ want' = spec' /\ listed' = None /\ UNCHANGED <<life, daemon>>
        /\ \/ stage' = "cleanup" /\ life = "deleting"
           \/ stage' = "global"
    BY <1>1 DEF Begin, userVars, daemonVars
  <2>. QED
    BY <2>1, Links DEF ExactInv, ListInv, ProgressInv, RestInv, OriginInv, Programming,
       AfterPolicies, AfterGroups
<1>2. CASE DialFails \/ GlobalFails
  <2>1. stage' = "idle" /\ dirty' = TRUE /\ UNCHANGED daemon
    BY <1>2 DEF DialFails, GlobalFails, Fail, daemonVars
  <2>. QED
    BY <2>1, PassStops DEF Fresh, ExactInv, OriginInv
<1>3. CASE Restart
  <2>1. stage' = "idle" /\ DOMAIN daemon' = {} /\ life' = life /\ dirty' = (life # "gone")
    BY <1>3 DEF Restart, NoObjects, userVars
  <2>. QED
    BY <2>1, PassStops DEF Fresh
<1>. QED
  BY <1>1, <1>2, <1>3

\* reconcileGlobal, and the list calls.
LEMMA ListExact ==
    ASSUME IInv, ExactInv, Global \/ List \/ ListFails
    PROVE  ExactInv'
<1>1. CASE stage' = "idle"
  <2>1. dirty' = TRUE /\ UNCHANGED daemon
    BY <1>1, Links DEF Global, List, ListFails, Fail, daemonVars, Following
  <2>. QED
    BY <1>1, <2>1, PassStops DEF Fresh, ExactInv, OriginInv
<1>2. CASE Global /\ stage' # "idle"
  <2>1. /\ stage = "global" /\ stage' = "sets" /\ listed = None
        /\ UNCHANGED <<spec, here, life, dirty, want, listed, silent, daemon>>
    BY <1>2, Links DEF Global, Fail, userVars, passVars, IInv, PassInv
  <2>2. UNCHANGED Fresh /\ Swept'["sets"] = {}
    BY <2>1 DEF Fresh, Swept
  <2>3. Settled({})'
    BY DEF Settled
  <2>. QED
    BY <2>1, <2>2, <2>3, Links DEF ExactInv, ListInv, ProgressInv, RestInv, OriginInv, Programming,
       AfterPolicies, AfterGroups
<1>3. CASE (List \/ ListFails) /\ stage' # "idle"
  <2>1. /\ stage \in DOMAIN Kind /\ stage' = stage /\ listed' \subseteq Held
        /\ UNCHANGED <<spec, here, life, dirty, want, groups, daemon, assigned>>
        /\ silent' \in {silent, TRUE}
    BY <1>3 DEF List, ListFails, Fail, userVars, daemonVars
  <2>2. UNCHANGED <<Selected, Asked, Swept, Spared, Kind>> /\ (Fresh' => Fresh)
    BY <2>1 DEF Selected, Asked, Fresh, Swept, Spared, Kind, Names, IInv, TypeOK
  <2>3. \A S : Settled(S) => Settled(S)'
    BY <2>1, <2>2 DEF Settled
  <2>4. Held \subseteq Kind[stage] /\ (stage # "peers" => Held \subseteq DOMAIN daemon)
    BY DEF Held
  <2>5. ListInv' /\ OriginInv'
    BY <2>1, <2>2, <2>4 DEF ExactInv, ListInv, OriginInv
  <2>6. ProgressInv'
    BY <2>1, <2>2, <2>3, Links DEF ExactInv, ProgressInv, Programming, AfterPolicies, AfterGroups
  <2>7. RestInv'
    BY <2>1, <1>3 DEF RestInv
  <2>. QED
    BY <2>5, <2>6, <2>7 DEF ExactInv
<1>. QED
  BY <1>1, <1>2, <1>3

\* The calls of one link, and what follows them.
LEMMA CallsExact ==
    ASSUME IInv, ExactInv, Sync \/ SyncFails
    PROVE  ExactInv'
<1>1. PICK refused, lost : /\ lost \in SUBSET (refused \cap Updated \cap Ranges)
                           /\ Sweep(refused, lost)
  <2>1. CASE Sync
    BY <2>1 DEF Sync
  <2>2. CASE SyncFails
    BY <2>2 DEF SyncFails
  <2>. QED
    BY <2>1, <2>2
<1>2. /\ stage \in DOMAIN Kind /\ listed # None
      /\ UNCHANGED <<spec, here, life, want>>
      /\ IF Assigns /\ want.apply \notin DOMAIN daemon' THEN Unassignable ELSE NextLink
  BY DEF Sync, SyncFails, userVars
<1>3. /\ want \in Specs /\ silent' \in BOOLEAN
      /\ silent' = FALSE => silent = FALSE
      /\ DOMAIN daemon' \subseteq DOMAIN daemon \cup DOMAIN want.objs
  <2>1. want \in Specs /\ TypeOK
    BY <1>2, Links DEF IInv, TypeOK, PassInv
  <2>2. lost \in SUBSET Ranges
    BY <1>1
  <2>. QED
    BY <1>1, <1>2, <2>1, <2>2, SweepFacts
<1>4. DOMAIN daemon' \subseteq UNION {DOMAIN s.objs : s \in Specs}
  BY <1>3 DEF ExactInv, OriginInv
<1>5. CASE Unassignable
  BY <1>4, <1>5, PassStops DEF Unassignable, Fail, Fresh
<1>6. CASE NextLink
  <2>1. /\ stage' = Following[stage] /\ listed' = None /\ UNCHANGED dirty
        /\ groups' = (IF stage = "groups" THEN Desired ELSE groups)
        /\ assigned' = (IF Assigns THEN want.apply ELSE assigned)
    BY <1>6 DEF NextLink
  <2>2. stage' \in Programming /\ stage' \notin {"idle", "cleanup", "global"}
    BY <1>2, <2>1, Links
  <2>3. ListInv' /\ RestInv' /\ OriginInv'
    BY <1>4, <2>1, <2>2 DEF ListInv, RestInv, OriginInv
  <2>4. ASSUME Fresh'
        PROVE  /\ want' = spec' /\ Settled(Swept[stage])'
               /\ stage' \in AfterPolicies => spec'.apply \in {None, assigned'}
               /\ stage' \in AfterGroups => groups' = (Selected \cap Groups)'
    <3>1. Fresh /\ silent' = FALSE
      BY <1>2, <1>3, <2>1, <2>4 DEF Fresh
    <3>2. /\ want = spec /\ Settled(Swept[stage])
          /\ stage \in AfterPolicies => spec.apply \in {None, assigned}
          /\ stage \in AfterGroups => groups = Selected \cap Groups
      BY <1>2, <3>1, Links DEF ExactInv, ProgressInv, Programming
    <3>3. UNCHANGED <<Selected, Asked, Swept, Spared, Kind>>
      BY <1>2 DEF Selected, Asked, Swept, Spared, Kind, Names
    <3>4. Desired = Asked \cap Kind[stage]
      BY <1>2, <3>1, DesiredIsAsked
    <3>5. /\ \A x \in Kind[stage] \cap Desired :
                x \in DOMAIN daemon' /\ (x \in Vrfs \/ daemon'[x] = want.objs[x])
          /\ \A x \in Kind[stage] \cap DOMAIN daemon' : x \in Desired \cup Spared
          /\ \A x : x \notin Kind[stage] =>
                /\ x \in DOMAIN daemon' <=> x \in DOMAIN daemon
                /\ x \in DOMAIN daemon => daemon'[x] = daemon[x]
      BY <1>1, <1>2, <3>1, SweepExact
    <3>6. Settled(Swept[stage])'
      <4>1. Swept[Following[stage]] = Swept[stage] \cup Kind[stage]
        BY <1>2, Links
      <4> SUFFICES ASSUME NEW x \in Swept[stage] \cup Kind[stage]
                   PROVE  /\ x \in Asked => x \in DOMAIN daemon'
                                /\ (x \in Vrfs \/ daemon'[x] = spec.objs[x])
                          /\ x \in DOMAIN daemon' => x \in Asked \cup Spared
        BY <1>2, <2>1, <3>3, <4>1 DEF Settled
      <4>2. CASE x \in Kind[stage]
        BY <3>2, <3>4, <3>5, <4>2
      <4>3. CASE x \notin Kind[stage]
        BY <3>2, <3>5, <4>3 DEF Settled
      <4>. QED
        BY <4>2, <4>3
    <3>7. stage' \in AfterPolicies => spec'.apply \in {None, assigned'}
      <4>1. CASE stage = "policies"
        BY <1>2, <2>1, <3>2, <4>1 DEF Assigns
      <4>2. CASE stage \in AfterPolicies
        BY <1>2, <2>1, <3>2, <4>2 DEF Assigns, AfterPolicies
      <4>3. CASE stage = "sets"
        BY <2>1, <4>3 DEF Following, AfterPolicies
      <4>. QED
        BY <1>2, <4>1, <4>2, <4>3, Links DEF AfterPolicies
    <3>8. stage' \in AfterGroups => groups' = (Selected \cap Groups)'
      <4>1. CASE stage = "groups"
        <5>1. Groups \cap (Ranges \cup Peers) = {}
          BY KindsApart, Links
        <5>2. Asked \cap Groups = Selected \cap Groups
          BY <5>1 DEF Asked
        <5>. QED
          BY <2>1, <3>3, <3>4, <4>1, <5>2, Links
      <4>2. CASE stage \in AfterGroups
        BY <2>1, <3>2, <3>3, <4>2 DEF AfterGroups
      <4>3. CASE stage \in {"sets", "policies", "vrfs"}
        BY <2>1, <4>3 DEF Following, AfterGroups
      <4>. QED
        BY <1>2, <4>1, <4>2, <4>3, Links DEF AfterGroups
    <3>. QED
      BY <1>2, <3>2, <3>6, <3>7, <3>8
  <2>5. ProgressInv'
    BY <2>4 DEF ProgressInv
  <2>. QED
    BY <2>3, <2>5 DEF ExactInv
<1>. QED
  BY <1>2, <1>5, <1>6

\* reconcileNetlink, which ends a pass.
LEMMA NetlinkExact ==
    ASSUME IInv, ExactInv, SyncNetlink \/ SyncNetlinkFails \/ SyncNetlinkMisses
    PROVE  ExactInv'
<1>1. stage = "netlink" /\ stage' = "idle" /\ UNCHANGED daemon
  BY DEF SyncNetlink, SyncNetlinkFails, SyncNetlinkMisses, Fail
<1>2. CASE ~Fresh'
  BY <1>1, <1>2, PassStops DEF ExactInv, OriginInv
<1>3. CASE Fresh'
  <2>1. SyncNetlink
    BY <1>3 DEF SyncNetlinkFails, SyncNetlinkMisses, Fail, Fresh
  <2>2. /\ UNCHANGED <<spec, here, life, dirty, want, silent, assigned>>
        /\ netlink' = want.netlink /\ vrfNetlink' = VrfNetlink
    BY <2>1 DEF SyncNetlink, userVars, passVars
  <2>3. UNCHANGED <<Selected, Asked, Spared, Names>> /\ Fresh
    BY <1>3, <2>2 DEF Selected, Asked, Spared, Names, Fresh
  <2>4. /\ want = spec /\ Settled(Names) /\ spec.apply \in {None, assigned}
    BY <1>1, <2>3 DEF ExactInv, ProgressInv, Programming, AfterPolicies, Swept
  <2>5. Settled(Names)'
    BY <1>1, <2>2, <2>3, <2>4 DEF Settled
  <2>6. \A v \in Asked \cap Vrfs : spec.vrfNetlink[v] \in {None, vrfNetlink'[v]}
    <3> SUFFICES ASSUME NEW v \in Asked \cap Vrfs, spec.vrfNetlink[v] # None
                 PROVE  vrfNetlink'[v] = spec.vrfNetlink[v]
      OBVIOUS
    <3>1. v \in DOMAIN spec.objs /\ v \in Names
      BY DEF Asked, Selected, Names
    <3>2. v \in DOMAIN daemon
      BY <2>4, <3>1 DEF Settled
    <3>. QED
      BY <2>2, <2>4, <3>1, <3>2 DEF VrfNetlink
  <2>7. RestInv'
    BY <2>2, <2>3, <2>4, <2>5, <2>6 DEF RestInv
  <2>8. ListInv' /\ ProgressInv' /\ OriginInv'
    BY <1>1, Links DEF ExactInv, ListInv, ProgressInv, OriginInv, Programming
  <2>. QED
    BY <2>7, <2>8 DEF ExactInv
<1>. QED
  BY <1>2, <1>3

\* A cleanup takes away, and leaves no live object.
LEMMA CleanupExact ==
    ASSUME IInv, ExactInv, CleanupWorks \/ CleanupFails
    PROVE  ExactInv'
<1>1. PICK refused, kept : \E knows \in BOOLEAN : Cleanup(refused, kept, knows)
  BY CleanupCases
<1>2. PICK knows \in BOOLEAN : Cleanup(refused, kept, knows)
  BY <1>1
<1>3. /\ stage = "cleanup" /\ stage' = "idle" /\ life' \in {life, "gone"}
      /\ DOMAIN daemon' = DOMAIN daemon \ Deleted(refused, knows)
  BY <1>2, CleanupFacts
<1>4. life # "live"
  BY <1>3 DEF ExactInv, OriginInv
<1>. QED
  BY <1>3, <1>4, PassStops DEF Fresh, ExactInv, OriginInv

\* The links settle one kind after the other: while nothing has changed since
\* the pass began and no failure was merely logged, the kinds swept so far hold
\* what the object asks of this node, and keep it to the end of the pass and
\* until the next change.
THEOREM LinksSettle == Spec => []ExactInv
<1>1. Init => ExactInv
  <2> SUFFICES ASSUME Init PROVE ExactInv
    OBVIOUS
  <2>1. stage = "idle" /\ dirty = TRUE /\ DOMAIN daemon = {}
    BY DEF Init, NoObjects
  <2>. QED
    BY <2>1, Links DEF ExactInv, ListInv, ProgressInv, RestInv, OriginInv, Fresh, Programming
<1>2. IInv /\ ExactInv /\ [Next]_vars => ExactInv'
  <2> SUFFICES ASSUME IInv, ExactInv, [Next]_vars PROVE ExactInv'
    OBVIOUS
  <2>1. CASE UNCHANGED vars
    BY <2>1, NothingMoved DEF vars
  <2>2. CASE Next
    BY <2>2, UserExact, OutsideExact, ListExact, CallsExact, NetlinkExact, CleanupExact
       DEF Next, Agent, Fault
  <2>. QED
    BY <2>1, <2>2
<1>. QED
  BY <1>1, <1>2, Invariance, PTL DEF Spec

\* "BGP configuration applied successfully": at rest after a success in which
\* no failure was merely logged, gobgpd holds exactly what is asked, for all
\* specifications, edits, failed calls and restarts, provided no configured
\* neighbor has its address in a dynamic range: such a neighbor is spared, as
\* isDynamicallyAcceptedPeer takes it for an accepted one.
THEOREM SuccessExact == Spec => [](Disjoint => SuccessIsExact)
<1>1. IInv /\ ExactInv => (Disjoint => SuccessIsExact)
  <2> SUFFICES ASSUME IInv, ExactInv, Disjoint, AtRest, reported = "ready", ~silent
               PROVE  Exact
    BY DEF SuccessIsExact
  <2>1. stage = "idle" /\ Fresh
    BY DEF AtRest, Fresh, IInv, TypeOK
  <2>2. /\ Settled(Names) /\ netlink = spec.netlink /\ spec.apply \in {None, assigned}
        /\ \A v \in Asked \cap Vrfs : spec.vrfNetlink[v] \in {None, vrfNetlink[v]}
    BY <2>1 DEF ExactInv, RestInv
  <2>3. DOMAIN daemon \subseteq Names /\ DOMAIN daemon \cap Spared = {}
    BY DEF IInv, TypeOK, ExactInv, OriginInv, Disjoint
  <2>4. Asked \subseteq Names
    BY Copies DEF Asked, Selected, IInv, TypeOK
  <2>5. DOMAIN daemon = Asked
    BY <2>2, <2>3, <2>4 DEF Settled
  <2>6. \A x \in Asked \ Vrfs : daemon[x] = spec.objs[x]
    BY <2>2, <2>4 DEF Settled
  <2>. QED
    BY <2>2, <2>5, <2>6 DEF Exact
<1>. QED
  BY <1>1, Invariance, LinksSettle, PTL

=============================================================================
