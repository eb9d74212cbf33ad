---------------------------- MODULE MCGobgpdSync ----------------------------
(***************************************************************************)
(* Specifications for the runs of GobgpdSync.                              *)
(***************************************************************************)
EXTENDS GobgpdSync

CONSTANTS set, policy, vrf, group, range, inGroup, alone, dynamic

UsesOf ==
    [x \in Names |-> CASE x \in Policies -> set
                       [] x \in Ranges -> group
                       [] x = inGroup -> group
                       [] OTHER -> None]

OnlyDynamic == {<<dynamic, range>>}

Off == [d \in Directions |-> "off"]
On == [d \in Directions |-> "a"]

Write(objs, version, nl, vnl) ==
    [identity |-> "a", objs |-> [x \in objs |-> version],
     apply |-> IF policy \in objs THEN policy ELSE None, netlink |-> nl,
     vrfNetlink |-> [v \in Vrfs |-> vnl]]

\* Edits that change versions, remove users of groups and sets before the
\* groups and sets, and switch netlink.
Full == Write({set, policy, vrf, group, range, inGroup}, "a", On, "a")
Changed == Write({set, policy, vrf, group, range, alone}, "b", Off, "off")
Fewer == Write({set, group, range, alone}, "a", On, None)
Careful == {Full, Changed, Fewer}

\* The same for another speaker, and an edit that removes a group together with
\* all that is in it.
OtherSpeaker == [Fewer EXCEPT !.identity = "b"]
Abrupt == Write({alone}, "a", Off, None)
Any == Careful \cup {OtherSpeaker, Abrupt}

\* Two objects that a cleanup deletes without looking them up.
NoPeers == {Write({vrf, group}, "a", Off, None)}
=============================================================================
