-------------------------- MODULE PeerFieldsProofs --------------------------
(***************************************************************************)
(* What a pass leaves behind, for any values, any objects and any history  *)
(* of edits.                                                               *)
(*                                                                         *)
(* The comparators skip fields by one set of rules and gobgpd fills them   *)
(* in by another.  Lemmas about the two sets of rules show that what was   *)
(* just sent is never sent again (RoundTrip), and that a field which is    *)
(* stated is one that is compared (ComparedIfStated); IInv carries through *)
(* a pass that the group, and then the neighbor, compares equal.           *)
(***************************************************************************)
EXTENDS PeerFields, TLAPS

-----------------------------------------------------------------------------
(***************************************************************************)
(* Facts about the tables of fields.                                       *)
(***************************************************************************)

USE DEF Default

\* A field that a group can supply and a silent neighbor is compared in would
\* differ for ever: there is none.
LEMMA SilenceIsSkipped ==
    GroupFields \subseteq {"peerAsn"} \cup Unreported \cup WhenStated \cup WhenNonzero
                            \cup SkippedFields
BY DEF GroupFields, Fields, Plain, ZeroIsUnset, Pointers, BlockFields, Blocks, Unreported,
       WhenStated, WhenNonzero, SkippedFields, SkippedBlocks

\* A field that gobgpd defaults is compared only if not zero, except for the
\* families, which are never zero, and BFD, which the agent defaults as well.
LEMMA DefaultsAreGuarded ==
    Defaulted \subseteq WhenNonzero \cup {"families", "bfdPort"}
BY DEF Defaulted, WhenNonzero

\* Which fields are treated in which way.
LEMMA FieldNames ==
    /\ "families" \in Fields /\ "bfdPort" \in Fields /\ "password" \in Fields
    /\ "peerAsn" \in Fields /\ "peerGroup" \in Fields
    /\ "password" \notin ZeroIsUnset /\ "families" \notin ZeroIsUnset
    /\ "bfdPort" \notin ZeroIsUnset /\ "peerGroup" \notin ZeroIsUnset
    /\ "families" \in WhenStated /\ "localAsn" \in WhenNonzero
    /\ PathOptions \subseteq WhenStated
    /\ GroupFields \subseteq Fields
    /\ "password" \in GroupFields /\ "bfdPort" \in Defaulted
    /\ "password" \in Unreported
BY DEF Fields, Plain, ZeroIsUnset, Pointers, BlockFields, Blocks, WhenStated, WhenNonzero,
       PathOptions, GroupFields, Defaulted, Unreported

-----------------------------------------------------------------------------
(***************************************************************************)
(* Facts about the comparators.                                            *)
(***************************************************************************)

\* What crdToAPINeighbor and crdToAPIPeerGroup send is a message.
LEMMA NeighborMessage ==
  ASSUME secret \in Values \cup {Nil}, NEW o, Neighbor(o), Readable(o["password"])
  PROVE  /\ crdToAPINeighbor(o) \in Message
         /\ crdToAPINeighbor(o)["families"] # 0
  BY FieldNames, ValuesAssumption
     DEF Neighbor, Admitted, Written, Readable, crdToAPINeighbor, resolveAuthPassword, Message

\* The same of a peer group.
LEMMA GroupMessage ==
  ASSUME secret \in Values \cup {Nil}, NEW o, PeerGroup(o), Readable(o["password"])
  PROVE  /\ crdToAPIPeerGroup(o) \in Message
         /\ crdToAPIPeerGroup(o)["families"] # 0
  BY FieldNames, ValuesAssumption
     DEF PeerGroup, Admitted, Written, Readable, crdToAPIPeerGroup, resolveAuthPassword, Message

\* Where a field is compared, the agent reads what it wants the way gobgpd
\* fills it in.
LEMMA ReadIsFilled ==
  ASSUME NEW p \in Message, p["families"] # 0, NEW f \in Fields,
         ~ (f \in WhenNonzero /\ p[f] \in {Nil, 0}),
         ~ (f \in WhenStated /\ p[f] = Nil)
  PROVE  Read(f, p[f]) = Filled(f, p[f])
  BY DefaultsAreGuarded, FieldNames DEF Read, Filled

\* A field in which a neighbor is compared is not supplied by its group.
LEMMA ComparedIsOwn ==
  ASSUME NEW p \in Message, NEW g \in Message, NEW f \in Fields, ~Skips(p, f)
  PROVE  ~Supplied(p, g, f)
  <1>1. CASE p[f] # Nil
    BY <1>1 DEF Supplied, Claims, Skips
  <1>2. CASE p[f] = Nil
    BY <1>2, SilenceIsSkipped DEF Supplied, Skips
  <1>3. QED
    BY <1>1, <1>2

\* What gobgpd was just sent compares equal to what it reports, whatever the
\* neighbor inherits and gobgpd fills in.
LEMMA RoundTrip ==
  ASSUME NEW p \in Message, p["families"] # 0, NEW g \in Message
  PROVE  /\ peerConfigEqual(p, p, g)
         /\ ~authPasswordDrifted(p, p, g)
  <1>1. ASSUME NEW f \in Fields, ~Skips(p, f)
        PROVE  Read(f, p[f]) = InEffect(p, g, f)
    <2>1. ~Supplied(p, g, f)
      BY <1>1, ComparedIsOwn
    <2>2. Read(f, p[f]) = Filled(f, p[f])
      BY <1>1, ReadIsFilled DEF Skips
    <2>3. QED
      BY <2>1, <2>2 DEF InEffect
  <1>2. peerConfigEqual(p, p, g)
    BY <1>1 DEF peerConfigEqual
  <1>3. ASSUME p["password"] # Nil
        PROVE  (p["password"] # 0) = (InEffect(p, g, "password") # 0)
    <2>1. ~Supplied(p, g, "password")
      BY <1>3 DEF Supplied, Claims, PathOptions
    <2>2. Filled("password", p["password"]) = p["password"]
      BY <1>3 DEF Filled, Defaulted
    <2>3. QED
      BY <2>1, <2>2 DEF InEffect
  <1>4. QED
    BY <1>2, <1>3 DEF authPasswordDrifted

\* The same for a peer group.
LEMMA GroupRoundTrip ==
  ASSUME NEW g \in Message
  PROVE  peerGroupConfigEqual(g, g)
  BY FieldNames DEF peerGroupConfigEqual, SkipsInGroup, GroupReads, ListPeerGroup, Filled

\* A field that a neighbor states is compared, but for the peer-as that its
\* group may override.
LEMMA ComparedIfStated ==
  ASSUME NEW p \in Message, NEW f \in Fields \ Unreported, States(p, f),
         f = "peerAsn" => ~InGroup(p)
  PROVE  ~Skips(p, f)
  BY DEF States, Skips

-----------------------------------------------------------------------------
(***************************************************************************)
(* The inductive invariant: what the steps of a sound pass have achieved.  *)
(***************************************************************************)

\* The group compares equal from reconcilePeerGroups on.
GroupDone == pc # "groups" /\ sound =>
    ~GroupUpdateNeeded /\ Readable(cr.pg["password"])

PeerDone == AtRest =>
    /\ ~PeerUpdateNeeded /\ Readable(cr.peer["password"])
    /\ inherited = inheritedBlocks(crdToAPINeighbor(cr.peer))

IInv == TypeOK /\ (sound => cr = spec) /\ GroupDone /\ PeerDone

USE BoundsAssumption

\* The inductive invariant holds at first.
LEMMA InitIInv == Init => IInv
  <1> SUFFICES ASSUME Init PROVE IInv
    OBVIOUS
  <1>1. edits \in 0..MaxEdits /\ faults \in 0..MaxFaults
    BY DEF Init
  <1>2. TypeOK
    BY <1>1, ValuesAssumption DEF Init, TypeOK
  <1>3. QED
    BY <1>2 DEF Init, IInv, GroupDone, PeerDone, AtRest

\* The bounds are kept.
LEMMA BoundsStep ==
  ASSUME TypeOK, [Next]_vars
  PROVE  edits' \in 0..MaxEdits /\ faults' \in 0..MaxFaults
  <1>1. edits \in 0..MaxEdits /\ faults \in 0..MaxFaults
    BY DEF TypeOK
  <1>2. \/ UNCHANGED <<edits, faults>>
        \/ edits < MaxEdits /\ edits' = edits + 1 /\ faults' = faults
        \/ faults < MaxFaults /\ faults' = faults + 1 /\ edits' = edits
    BY DEF Next, Edit, Rotate, NodeEvent, Restart, Begin, PasswordMissing, ReconcilePeerGroups,
           GroupRefused, ReconcileNeighbors, PeerRefused, EndNeighbors, vars
  <1>3. QED
    BY <1>1, <1>2

\* Every step keeps the types; only the two that store a message can harm them.
LEMMA TypeStep ==
  ASSUME TypeOK, [Next]_vars
  PROVE  TypeOK'
  <1> USE BoundsStep DEF TypeOK
  <1>1. CASE \E s \in Specs : Edit(s)
    BY <1>1 DEF Edit
  <1>2. CASE \E v \in Values \cup {Nil} : Rotate(v)
    BY <1>2 DEF Rotate
  <1>3. CASE NodeEvent
    BY <1>3 DEF NodeEvent
  <1>4. CASE Restart
    BY <1>4 DEF Restart
  <1>5. CASE Begin
    BY <1>5 DEF Begin
  <1>6. CASE PasswordMissing
    BY <1>6 DEF PasswordMissing
  <1>7. CASE ReconcilePeerGroups
    <2>1. crdToAPIPeerGroup(cr.pg) \in Message
      BY <1>7, GroupMessage, SpecsAssumption DEF ReconcilePeerGroups
    <2>2. QED
      BY <1>7, <2>1 DEF ReconcilePeerGroups
  <1>8. CASE GroupRefused
    BY <1>8 DEF GroupRefused
  <1>9. ASSUME EndNeighbors
        PROVE  inherited' \subseteq DOMAIN Blocks
    BY <1>9 DEF EndNeighbors, inheritedBlocks, Blocks
  <1>10. CASE ReconcileNeighbors
    <2>1. crdToAPINeighbor(cr.peer) \in Message
      BY <1>10, NeighborMessage, SpecsAssumption DEF ReconcileNeighbors, EndNeighbors
    <2>2. QED
      BY <1>9, <1>10, <2>1 DEF ReconcileNeighbors, EndNeighbors
  <1>11. CASE PeerRefused
    BY <1>9, <1>11 DEF PeerRefused, EndNeighbors
  <1>12. CASE UNCHANGED vars
    BY <1>12 DEF vars
  <1>13. QED
    BY <1>1, <1>2, <1>3, <1>4, <1>5, <1>6, <1>7, <1>8, <1>10, <1>11, <1>12 DEF Next

\* The comparisons depend on nothing else.
LEMMA SameComparisons ==
  ASSUME UNCHANGED <<secret, cr, pg, peer>>
  PROVE  /\ GroupUpdateNeeded' = GroupUpdateNeeded
         /\ PeerUpdateNeeded' = PeerUpdateNeeded
         /\ Readable(cr.pg["password"])' = Readable(cr.pg["password"])
         /\ Readable(cr.peer["password"])' = Readable(cr.peer["password"])
         /\ crdToAPINeighbor(cr.peer)' = crdToAPINeighbor(cr.peer)
  BY DEF GroupUpdateNeeded, PeerUpdateNeeded, Readable, crdToAPINeighbor, crdToAPIPeerGroup,
         resolveAuthPassword

\* A message is there.
LEMMA MessageIsNotNil == ASSUME NEW p \in Message PROVE p # Nil
  BY ValuesAssumption

\* A group just sent, and a neighbor just sent, need no update.
LEMMA GroupSent ==
  ASSUME TypeOK, ReconcilePeerGroups
  PROVE  ~GroupUpdateNeeded' /\ Readable(cr.pg["password"])'
  <1> DEFINE want == crdToAPIPeerGroup(cr.pg)
  <1>1. want' = want /\ Readable(cr.pg["password"])' = Readable(cr.pg["password"])
    BY DEF ReconcilePeerGroups, crdToAPIPeerGroup, resolveAuthPassword, Readable
  <1>2. want \in Message
    BY GroupMessage, SpecsAssumption DEF TypeOK, ReconcilePeerGroups
  <1>3. pg' # Nil /\ peerGroupConfigEqual(want, pg')
    <2>1. CASE GroupUpdateNeeded
      BY <1>2, <2>1, MessageIsNotNil, GroupRoundTrip DEF ReconcilePeerGroups
    <2>2. CASE ~GroupUpdateNeeded
      BY <2>2 DEF ReconcilePeerGroups, GroupUpdateNeeded
    <2>3. QED
      BY <2>1, <2>2
  <1>4. QED
    BY <1>1, <1>3 DEF GroupUpdateNeeded, ReconcilePeerGroups

\* After its step the neighbor needs no update.
LEMMA PeerSent ==
  ASSUME TypeOK, ReconcileNeighbors, ~GroupUpdateNeeded
  PROVE  /\ ~PeerUpdateNeeded' /\ Readable(cr.peer["password"])'
         /\ inherited' = inheritedBlocks(crdToAPINeighbor(cr.peer))'
  <1> DEFINE want == crdToAPINeighbor(cr.peer)
  <1>1. want' = want /\ Readable(cr.peer["password"])' = Readable(cr.peer["password"])
    BY DEF ReconcileNeighbors, EndNeighbors, crdToAPINeighbor, resolveAuthPassword, Readable
  <1>2. want \in Message /\ want["families"] # 0
    BY NeighborMessage, SpecsAssumption DEF TypeOK, ReconcileNeighbors, EndNeighbors
  <1>3. pg \in Message /\ pg' = pg
    BY DEF TypeOK, GroupUpdateNeeded, ReconcileNeighbors, EndNeighbors
  <1>4. /\ peer' # Nil
        /\ peerConfigEqual(want, peer', pg) /\ ~authPasswordDrifted(want, peer', pg)
    <2>1. CASE PeerUpdateNeeded
      <3>1. peer' = want
        BY <2>1 DEF ReconcileNeighbors
      <3>2. QED
        BY <1>2, <1>3, <3>1, MessageIsNotNil, RoundTrip
    <2>2. CASE ~PeerUpdateNeeded
      BY <2>2 DEF ReconcileNeighbors, PeerUpdateNeeded
    <2>3. QED
      BY <2>1, <2>2
  <1>5. ~PeerUpdateNeeded'
    BY <1>1, <1>3, <1>4 DEF PeerUpdateNeeded
  <1>6. inherited' = inheritedBlocks(want)
    BY DEF ReconcileNeighbors, EndNeighbors
  <1>7. QED
    BY <1>1, <1>5, <1>6 DEF ReconcileNeighbors, EndNeighbors, inheritedBlocks, InGroup

\* Every step keeps the inductive invariant.
LEMMA IInvStep ==
  ASSUME IInv, [Next]_vars
  PROVE  IInv'
  <1>1. TypeOK /\ TypeOK'
    BY TypeStep DEF IInv
  <1>2. ASSUME ~sound'
        PROVE  IInv'
    BY <1>1, <1>2 DEF IInv, GroupDone, PeerDone, AtRest
  <1>3. CASE NodeEvent \/ UNCHANGED vars
    <2>1. UNCHANGED <<spec, secret, pc, cr, pg, peer, inherited, sound>>
      BY <1>3 DEF NodeEvent, vars
    <2>2. inheritedBlocks(crdToAPINeighbor(cr.peer))' = inheritedBlocks(crdToAPINeighbor(cr.peer))
      BY <2>1 DEF inheritedBlocks, InGroup, crdToAPINeighbor, resolveAuthPassword
    <2>3. QED
      BY <1>1, <2>1, <2>2, SameComparisons DEF IInv, GroupDone, PeerDone, AtRest
  <1>4. CASE Begin
    BY <1>1, <1>4 DEF Begin, IInv, GroupDone, PeerDone, AtRest
  <1>5. CASE ReconcilePeerGroups
    <2>1. pc' = "neighbors" /\ UNCHANGED <<spec, cr, sound>>
      BY <1>5 DEF ReconcilePeerGroups
    <2>2. QED
      BY <1>1, <1>5, <2>1, GroupSent DEF IInv, GroupDone, PeerDone, AtRest
  <1>6. CASE ReconcileNeighbors /\ sound
    <2>1. /\ pc = "neighbors" /\ pc' = "idle"
          /\ UNCHANGED <<spec, secret, cr, pg, sound>>
      BY <1>6 DEF ReconcileNeighbors, EndNeighbors
    <2>2. ~GroupUpdateNeeded /\ Readable(cr.pg["password"])
      BY <1>6, <2>1 DEF IInv, GroupDone
    <2>3. ~GroupUpdateNeeded' /\ Readable(cr.pg["password"])'
      BY <2>1, <2>2 DEF GroupUpdateNeeded, Readable, crdToAPIPeerGroup, resolveAuthPassword
    <2>4. PeerDone'
      BY <1>1, <1>6, <2>2, PeerSent DEF PeerDone
    <2>5. QED
      BY <1>1, <2>1, <2>3, <2>4 DEF IInv, GroupDone
  <1>7. CASE ReconcileNeighbors /\ ~sound
    BY <1>2, <1>7 DEF ReconcileNeighbors
  <1>8. CASE \/ \E s \in Specs : Edit(s)
             \/ \E v \in Values \cup {Nil} : Rotate(v)
             \/ Restart \/ PasswordMissing \/ GroupRefused \/ PeerRefused
    BY <1>2, <1>8 DEF Edit, Rotate, Restart, PasswordMissing, GroupRefused, PeerRefused
  <1>9. QED
    BY <1>3, <1>4, <1>5, <1>6, <1>7, <1>8 DEF Next

\* The state is well typed and, between the steps of a pass in which nothing
\* was refused, what the pass has dealt with compares equal.
THEOREM Invariant == Spec => []IInv
  <1>1. Init => IInv
    BY InitIInv
  <1>2. IInv /\ [Next]_vars => IInv'
    BY IInvStep
  <1>3. QED
    BY <1>1, <1>2, PTL DEF Spec

-----------------------------------------------------------------------------
(***************************************************************************)
(* The properties.                                                         *)
(***************************************************************************)

\* What the invariant says at rest.
LEMMA Rest ==
  ASSUME IInv, AtRest
  PROVE  /\ pg \in Message /\ peer \in Message
         /\ Wanted \in Message /\ Wanted["families"] # 0
         /\ WantedGroup \in Message /\ WantedGroup["families"] # 0
         /\ peerConfigEqual(Wanted, peer, pg) /\ ~authPasswordDrifted(Wanted, peer, pg)
         /\ peerGroupConfigEqual(WantedGroup, pg)
         /\ inherited = inheritedBlocks(Wanted)
  <1>1. /\ cr = spec /\ ~GroupUpdateNeeded /\ ~PeerUpdateNeeded
        /\ Readable(spec.pg["password"]) /\ Readable(spec.peer["password"])
        /\ inherited = inheritedBlocks(Wanted)
    BY DEF IInv, AtRest, GroupDone, PeerDone, Wanted
  <1>2. pg \in Message /\ peer \in Message
    BY <1>1 DEF IInv, TypeOK, GroupUpdateNeeded, PeerUpdateNeeded
  <1>3. Neighbor(spec.peer) /\ PeerGroup(spec.pg) /\ secret \in Values \cup {Nil}
    BY SpecsAssumption DEF IInv, TypeOK
  <1>4. /\ Wanted \in Message /\ Wanted["families"] # 0
        /\ WantedGroup \in Message /\ WantedGroup["families"] # 0
    BY <1>1, <1>3, NeighborMessage, GroupMessage DEF Wanted, WantedGroup
  <1>5. QED
    BY <1>1, <1>2, <1>4 DEF GroupUpdateNeeded, PeerUpdateNeeded, Wanted, WantedGroup

\* At rest, what is stated is in effect,
LEMMA StatedAtRest == IInv => StatedTakesEffect
  <1> SUFFICES ASSUME IInv, AtRest PROVE StatedTakesEffect
    BY DEF StatedTakesEffect
  <1> DEFINE want == Wanted
             wantGroup == WantedGroup
  <1>1. ASSUME NEW f \in Fields \ Unreported, States(want, f), f = "peerAsn" => ~InGroup(want)
        PROVE  InEffect(peer, pg, f) = Filled(f, want[f])
    <2>1. ~Skips(want, f)
      BY <1>1, Rest, ComparedIfStated
    <2>2. Read(f, want[f]) = Filled(f, want[f])
      BY <1>1, <2>1, Rest, ReadIsFilled DEF Skips
    <2>3. QED
      BY <2>1, <2>2, Rest DEF peerConfigEqual
  <1>2. ASSUME NEW f \in GroupFields \ Unreported, States(wantGroup, f)
        PROVE  Filled(f, pg[f]) = Filled(f, wantGroup[f])
    <2>1. ~SkipsInGroup(wantGroup, f)
      BY <1>2 DEF SkipsInGroup, States
    <2>2. GroupReads(f, wantGroup[f]) = ListPeerGroup(pg, f)
      BY <2>1, Rest DEF peerGroupConfigEqual
    <2>3. CASE f = "localAsn"
      BY <1>2, <2>2, <2>3, Rest, FieldNames DEF States, ListPeerGroup, GroupReads, Filled
    <2>4. CASE f # "localAsn"
      BY <2>2, <2>4 DEF ListPeerGroup, GroupReads, Filled
    <2>5. QED
      BY <2>3, <2>4
  <1>3. QED
    BY <1>1, <1>2 DEF StatedTakesEffect

\* what is cleared is reset,
LEMMA ClearedAtRest == IInv => ClearedIsReset
  <1> SUFFICES ASSUME IInv, AtRest, ~InGroup(Wanted),
                      NEW f \in Fields \ (Unreported \cup WhenStated \cup WhenNonzero),
                      Wanted[f] = Nil
               PROVE  InEffect(peer, pg, f) = Filled(f, Nil)
    BY DEF ClearedIsReset
  <1>1. ~Skips(Wanted, f)
    BY DEF Skips
  <1>2. Read(f, Wanted[f]) = Filled(f, Wanted[f])
    BY Rest, ReadIsFilled
  <1>3. QED
    BY <1>1, <1>2, Rest DEF peerConfigEqual

\* The agent's state and what it sends stay well typed: no password reference
\* reaches gobgpd unresolved.
THEOREM TypeCorrect == Spec => []TypeOK
  BY Invariant, PTL DEF IInv

\* A pass in which nothing was refused leaves every stated field of the
\* neighbor and of its group in effect, whatever was configured before.
THEOREM Stated == Spec => []StatedTakesEffect
  BY Invariant, StatedAtRest, PTL

\* For a neighbor without a group it also resets what is no longer stated.
THEOREM Cleared == Spec => []ClearedIsReset
  BY Invariant, ClearedAtRest, PTL

\* It leaves the neighbor authenticated exactly if the object says so.
THEOREM Authenticated == Spec => []AuthenticatedAsStated
  <1>1. IInv => AuthenticatedAsStated
    BY Rest DEF AuthenticatedAsStated, authPasswordDrifted
  <1>2. QED
    BY <1>1, Invariant, PTL

\* The next pass sends nothing.
THEOREM Idempotent == Spec => []NothingToResend
  <1>1. IInv => NothingToResend
    BY DEF IInv, GroupDone, PeerDone, AtRest, NothingToResend
  <1>2. QED
    BY <1>1, Invariant, PTL
=============================================================================
