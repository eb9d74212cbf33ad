------------------------ MODULE MCNodeStatusReporter ------------------------
(***************************************************************************)
(* Worlds for the runs of NodeStatusReporter.                              *)
(***************************************************************************)
EXTENDS NodeStatusReporter

CONSTANTS p1, p2, a1, r1, v1

\* Two neighbors up, one address imported, one route exported.
Fine == [neighbors |-> [p \in Peers |-> "Established"],
         inRIB |-> Addresses, missing |-> {}, installed |-> Routes, lost |-> {},
         rib |-> v1, vrfs |-> v1, listening |-> FALSE]

\* BFD is in use; the kernel has the exported route, or has lost it.
WithBfd == [Fine EXCEPT !.neighbors[p1] = "BfdUp", !.listening = TRUE]
FailedExport == [WithBfd EXCEPT !.installed = {}, !.lost = Routes]

\* One neighbor is down.
OneDown == [Fine EXCEPT !.neighbors[p1] = "Idle"]

ExportWorlds == {WithBfd, FailedExport}
DownOnly == {OneDown}
FineOnly == {Fine}
=============================================================================
