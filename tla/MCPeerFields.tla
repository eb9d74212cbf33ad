---------------------------- MODULE MCPeerFields ----------------------------
(***************************************************************************)
(* Objects for the runs of PeerFields: a neighbor, alone or in its group,  *)
(* and the group, one part of which is stated in every way.                *)
(***************************************************************************)
EXTENDS PeerFields

BlankPeer(member) ==
    [f \in Fields |-> CASE f = "peerGroup" -> member
                        [] f = "peerAsn" -> 1
                        [] f \in {"adminDown"} \cup ZeroIsUnset -> 0
                        [] OTHER -> Nil]

BlankGroup == [f \in Fields |-> IF f \in GroupFields \ BlockFields THEN 0 ELSE Nil]

\* The ways to state the fields of U on top of o.
Stating(o, U, V) ==
    {[f \in Fields |-> IF f \in U THEN s[f] ELSE o[f]] : s \in [U -> V]}

\* A value that is not zero and not the default; a Secret for a password.
Given(U) == IF U = {"password"} THEN SecretRef ELSE 2
Ways(U) == CASE U = PathOptions -> {Nil, 0}
             [] U = {"peerAsn"} -> {1, 2}
             [] OTHER -> {Nil, 0, Given(U)}

SpecsOf(Parts) ==
    {s \in UNION {[peer : UNION {Stating(BlankPeer(m), U, Ways(U)) : m \in {0, 1}},
                   pg : {BlankGroup} \cup Stating(BlankGroup, U, {Given(U)})] : U \in Parts} :
        Neighbor(s.peer) /\ PeerGroup(s.pg)}

\* One part for each way the fields of a neighbor are compared, and a neighbor
\* whose AS number changes.
OneOfEach == SpecsOf({{"password"}, PathOptions, Blocks.transport, Blocks.bfd})
AsnChanges == SpecsOf({{"peerAsn"}})

\* TLC evaluates the definitions above once, and these at every use.
PartSpecs == OneOfEach
AsnSpecs == AsnChanges
=============================================================================
