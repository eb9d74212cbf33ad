---------------------------- MODULE PassContract ----------------------------
(***************************************************************************)
(* What one agent's passes over its gobgpd promise to everything else.     *)
(*                                                                         *)
(* ConfigLifecycle takes a pass for one step: gobgpd ends up with the      *)
(* specification, or, after a failure, with something between what it had  *)
(* and the specification; a cleanup takes away only what the object names, *)
(* and the object is released when nothing of it is left.  This module     *)
(* says so of passes made of many calls, without saying which; GobgpdSync, *)
(* which has the calls, implements it.                                     *)
(***************************************************************************)
CONSTANTS
    Names,  \* what gobgpd can hold
    Spared  \* what a sweep may leave although nothing asks for it

VARIABLES
    phase,    \* "idle", "applying" or "cleaning"
    named,    \* what the specification this pass works on names
    held,     \* what gobgpd is programmed with
    clean,    \* has every failed call of this pass stopped it?
    ready,    \* does the Ready condition say that the last pass succeeded?
    released  \* has the finalizer been removed?

contractVars == <<phase, named, held, clean, ready, released>>

Init ==
    /\ phase = "idle" /\ named = {} /\ held = {}
    /\ clean = TRUE /\ ready = FALSE /\ released = FALSE

\* A pass begins, on whatever the specification is now.
Begin ==
    /\ phase = "idle"
    /\ ~released
    /\ phase' \in {"applying", "cleaning"}
    /\ named' \in SUBSET Names
    /\ clean' = TRUE
    /\ UNCHANGED <<held, ready, released>>

\* gobgpd gains nothing but what the specification names.
Program ==
    /\ phase = "applying"
    /\ held' \subseteq held \cup named
    /\ UNCHANGED <<named, released>>

\* The calls of a pass, some of which may fail without stopping it.
Apply == Program /\ clean' \in {clean, FALSE} /\ UNCHANGED <<phase, ready>>

\* A pass that reports success has left nothing else in gobgpd, unless the
\* failure of some call was merely logged.
Succeed ==
    /\ phase = "applying" /\ phase' = "idle"
    /\ ready' = TRUE
    /\ clean' \in {clean, FALSE}
    /\ clean' => held \subseteq named \cup Spared
    /\ UNCHANGED <<named, held, released>>

\* A pass that stops says so, or its last step has not touched gobgpd.
Fail ==
    /\ Program
    /\ phase' = "idle"
    /\ ready' = FALSE \/ (ready' = ready /\ held' = held)
    /\ clean' \in {clean, FALSE}

\* A cleanup takes away only what the object names, and releases the object
\* only when it has taken all of it.
Clean ==
    /\ phase = "cleaning" /\ phase' = "idle"
    /\ held' \subseteq held /\ held \ held' \subseteq named
    /\ released' = TRUE => held' \cap named = {}
    /\ released' \in BOOLEAN
    /\ UNCHANGED <<named, clean, ready>>

\* Both processes restart with empty memory.
Crash ==
    /\ phase' = "idle"
    /\ held' = {}
    /\ UNCHANGED <<named, clean, ready, released>>

Next == Begin \/ Apply \/ Succeed \/ Fail \/ Clean \/ Crash

Spec == Init /\ [][Next]_contractVars
=============================================================================
