------------------------- MODULE MCSpeakerSettings -------------------------
(***************************************************************************)
(* An instance of SpeakerSettings for TLC.  A specification differs from   *)
(* the plain one in its global settings, its global netlink or its VRF's.  *)
(***************************************************************************)
EXTENDS SpeakerSettings, TLC

Plain == [global |-> [f \in GlobalFields |-> 0], import |-> Nil, export |-> Nil,
          vrfImport |-> Nil, vrfExport |-> Nil]

Globals ==
    {[Plain.global EXCEPT ![f] = 2] : f \in {"restartTime", "helperOnly", "listenPort"}} \cup
    {[Plain.global EXCEPT !["useMultiplePaths"] = 1, !["maximumPaths"] = n] : n \in {0, 2}} \cup
    {[Plain.global EXCEPT !["listenAddresses"] = a] : a \in {Default, Bad}}

Imports == {[enabled |-> e, vrf |-> v, interfaces |-> 2] : e \in BOOLEAN, v \in {0, 2}}

Rule(n, c, v) == [name |-> n, communities |-> c, validate |-> v]

Exports ==
    {[enabled |-> TRUE, dampening |-> d, rules |-> r] :
        d \in {0, 2},
        r \in {<<>>, <<Rule(1, 0, Nil), Rule(2, 2, FALSE)>>,
               <<Rule(2, 2, FALSE), Rule(1, 0, TRUE)>>,
               <<Rule(1, 0, Nil), Rule(1, 2, FALSE)>>}}
    \cup {[enabled |-> FALSE, dampening |-> 0, rules |-> <<>>]}

VrfImports == {[enabled |-> e, interfaces |-> i] : e \in BOOLEAN, i \in {0, 2}}

VrfExports ==
    {[enabled |-> TRUE, linuxVrf |-> l, metric |-> 0, validate |-> v] :
        l \in {0, 2}, v \in {Nil, FALSE}}
    \cup {[enabled |-> FALSE, linuxVrf |-> 0, metric |-> 2, validate |-> TRUE]}

MCSpecs ==
    {Plain}
    \cup {[Plain EXCEPT !.global = g] : g \in Globals}
    \cup {[Plain EXCEPT !.import = b] : b \in Imports}
    \cup {[Plain EXCEPT !.export = b] : b \in Exports}
    \cup {[Plain EXCEPT !.vrfImport = b] : b \in VrfImports}
    \cup {[Plain EXCEPT !.vrfExport = b] : b \in VrfExports}
=============================================================================
