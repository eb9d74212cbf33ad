--------------------------- MODULE SpeakerSettings ---------------------------
(***************************************************************************)
(* The settings of one speaker that are not objects of their own: the      *)
(* secondary fields of spec.global, which gobgpd takes only at StartBgp,   *)
(* and netlink import and export, globally and for a VRF, which it takes   *)
(* while it runs.                                                          *)
(*                                                                         *)
(* A global setting that differs from the running speaker's is not an      *)
(* error: the pass goes on, and the agent says in a metric which settings  *)
(* wait for a restart.  Netlink settings are compared with what gobgpd     *)
(* reports, defaults filled in, and sent again only if they differ.        *)
(*                                                                         *)
(* GobgpdSync has the chain this is part of, with a version in place of    *)
(* the fields; NodeCache has the identity.  Of settings that the code      *)
(* treats alike, one stands for all.                                       *)
(***************************************************************************)
EXTENDS Naturals, Sequences, Functions

CONSTANTS
    Values,    \* of a field; 0 is Go's zero value
    Nil,       \* a block or field not stated, a service not running
    Bad,       \* a listen address the CRD's pattern admits and ParseAddr does not
    Specs,     \* what users write
    MaxEdits,  \* bound: edits, deletions and creations of the object
    MaxFaults  \* bound: refused calls and restarts

\* What gobgpd uses for a field left at zero.
Default == 1

\* The settings that can wait for a restart: gracefulRestart stands for
\* routeSelectionOptions, confederation and bindToDevice too, maximumPaths for
\* both limits, listenPort for families.
globalDriftFields == {"useMultiplePaths", "maximumPaths", "gracefulRestart", "listenPort",
                      "listenAddresses"}

\* The fields of each; the graceful restart block has several.
PartsOf(s) == IF s = "gracefulRestart" THEN {"restartTime", "helperOnly"} ELSE {s}
GlobalFields == UNION {PartsOf(s) : s \in globalDriftFields}

\* A field that is sent and not compared.
Uncompared == {"helperOnly"}

\* Compared only if the object states them.
Guarded == {"listenPort", "listenAddresses"}

GlobalSpec == [GlobalFields -> Values \cup {Bad}]

Optional(S) == S \cup {Nil}

\* The blocks of a specification.  vrf stands in its block for the VRF that
\* imports go into, dampening for routeProtocol, communities for every field
\* of a rule that is compared as it stands, linuxVrf for linuxTableId.
NetlinkImport == [enabled : BOOLEAN, vrf : Values, interfaces : Values]
NetlinkExportRule == [name : Values, communities : Values, validate : Optional(BOOLEAN)]
NetlinkExport == [enabled : BOOLEAN, dampening : Values, rules : Seq(NetlinkExportRule)]
VrfNetlinkImport == [enabled : BOOLEAN, interfaces : Values]
VrfNetlinkExport == [enabled : BOOLEAN, linuxVrf : Values, metric : Values,
                     validate : Optional(BOOLEAN)]

Settings == [global : GlobalSpec,
             import : Optional(NetlinkImport), export : Optional(NetlinkExport),
             vrfImport : Optional(VrfNetlinkImport),
             vrfExport : Optional(VrfNetlinkExport)]

\* What gobgpd reports of each while it is on.
ImportState == [vrf : Values, interfaces : Values]
ExportState == [dampening : Values \ {0},
                rules : Seq([name : Values, communities : Values, validate : BOOLEAN])]
VrfExportState == [linuxVrf : Values \ {0}, metric : Values, validate : BOOLEAN]

ASSUME ValuesAssumption == {0, 1} \subseteq Values /\ Bad \notin Values

ASSUME NilAssumption ==
    /\ Nil \notin Settings \cup GlobalSpec \cup BOOLEAN \cup Values
    /\ Nil \notin NetlinkImport \cup NetlinkExport \cup VrfNetlinkImport \cup VrfNetlinkExport
    /\ Nil \notin ImportState \cup ExportState \cup VrfExportState

ASSUME SpecsAssumption == Specs \subseteq Settings

ASSUME BoundsAssumption == MaxEdits \in Nat /\ MaxFaults \in Nat

VARIABLES
    spec,     \* the object, Nil if there is none
    queued,   \* is a request due?
    pc,       \* "idle", or the part of the pass that is next
    cr,       \* the copy of the object this pass works on
    running,  \* the settings gobgpd was started with, Nil before StartBgp
    restart,  \* the settings whose global_restart_required is 1
    import, export, vrfImport, vrfExport,  \* gobgpd's netlink, Nil where off
    sound,    \* history: since this pass began, or since the last one, no call
              \* was refused and the object has not changed
    edits, faults

vars == <<spec, queued, pc, cr, running, restart, import, export, vrfImport, vrfExport,
          sound, edits, faults>>

globalVars == <<running, restart>>
netlinkVars == <<import, export, vrfImport, vrfExport>>
boundVars == <<edits, faults>>

TypeOK ==
    /\ spec \in Optional(Specs) /\ cr \in Optional(Specs)
    /\ queued \in BOOLEAN /\ sound \in BOOLEAN
    /\ pc \in {"idle", "global", "import", "export", "vrfImport", "vrfExport"}
    /\ running \in Optional(GlobalSpec) /\ restart \subseteq globalDriftFields
    /\ import \in Optional(ImportState) /\ export \in Optional(ExportState)
    /\ vrfImport \in Optional(Values) /\ vrfExport \in Optional(VrfExportState)
    /\ edits \in 0..MaxEdits /\ faults \in 0..MaxFaults

Init ==
    /\ spec \in Specs /\ cr = Nil
    /\ queued = TRUE /\ pc = "idle"
    /\ running = Nil /\ restart = {}
    /\ import = Nil /\ export = Nil /\ vrfImport = Nil /\ vrfExport = Nil
    /\ sound = FALSE
    /\ edits = 0 /\ faults = 0

On(block) == block # Nil /\ block.enabled

-----------------------------------------------------------------------------
(***************************************************************************)
(* gobgpd, as the code's comments and the CRD have it.                     *)
(***************************************************************************)

OrDefault(v) == IF v = 0 THEN Default ELSE v

\* StartBgp fills in what is guarded; everything is reported as it was sent.
StartBgp(g) == [f \in GlobalFields |-> IF f \in Guarded THEN OrDefault(g[f]) ELSE g[f]]

\* An absent validate_nexthop means true.
Validates(v) == IF v = Nil THEN TRUE ELSE v

\* crdToAPINetlinkExportRules, and what gobgpd makes of the rules.
Rules(rules) ==
    [i \in DOMAIN rules |-> [name |-> rules[i].name, communities |-> rules[i].communities,
                             validate |-> Validates(rules[i].validate)]]

EnableNetlinkImport(b) == [vrf |-> b.vrf, interfaces |-> b.interfaces]

EnableNetlinkExport(b) == [dampening |-> OrDefault(b.dampening), rules |-> Rules(b.rules)]

\* crdToAPIVrfNetlinkExportConfig sends the negation of validateNexthop.
EnableVrfNetlinkExport(b) ==
    LET skip == IF b.validate = Nil THEN FALSE ELSE ~b.validate
    IN  [linuxVrf |-> OrDefault(b.linuxVrf), metric |-> b.metric, validate |-> ~skip]

-----------------------------------------------------------------------------
(***************************************************************************)
(* Validation and comparison.                                              *)
(***************************************************************************)

\* validateListenAddresses and validateMultipath.
Startable(g) ==
    /\ \A f \in GlobalFields : g[f] # Bad
    /\ g["useMultiplePaths"] # 0 <=> g["maximumPaths"] # 0

\* The settings of a running speaker that differ from g.
drifted(g) ==
    {s \in globalDriftFields : \E f \in PartsOf(s) \ Uncompared :
        running[f] # g[f] /\ (f \in Guarded => g[f] # 0)}

\* Mutant: the series of a setting that no longer differs stays at 1.
SetDriftedOnly(d) == restart' = restart \cup d

\* Every series is set, to 1 or to 0.
SetGlobalRestartRequired(d) == restart' = d

\* Mutant: the VRF that GetNetlink reports is not looked at.
needsImportUpdateButVrf(b) ==
    \/ On(b) # (import # Nil)
    \/ On(b) /\ b.interfaces # import.interfaces

needsImportUpdate(b) ==
    \/ On(b) # (import # Nil)
    \/ On(b) /\ (b.interfaces # import.interfaces \/ b.vrf # import.vrf)

\* The current rules are looked up by name; of two with one name the last counts.
netlinkExportRulesMatch(current, desired) ==
    /\ Len(current) = Len(desired)
    /\ \A i \in DOMAIN desired :
        \E j \in DOMAIN current :
            /\ current[j].name = desired[i].name
            /\ \A k \in DOMAIN current : current[k].name = desired[i].name => k <= j
            /\ current[j].communities = desired[i].communities
            /\ current[j].validate = Validates(desired[i].validate)

needsExportUpdate(b) ==
    \/ On(b) # (export # Nil)
    \/ On(b) /\ b.dampening # 0 /\ b.dampening # export.dampening
    \/ On(b) /\ ~netlinkExportRulesMatch(export.rules, b.rules)

\* Mutant: an unset validateNexthop is compared as it is.
vrfNetlinkExportEqualAsWritten(desired, current) ==
    /\ desired.linuxVrf # 0 => desired.linuxVrf = current.linuxVrf
    /\ desired.metric = current.metric
    /\ current.validate = (desired.validate = TRUE)

vrfNetlinkExportEqual(desired, current) ==
    /\ desired.linuxVrf # 0 => desired.linuxVrf = current.linuxVrf
    /\ desired.metric = current.metric
    /\ current.validate = Validates(desired.validate)

\* What reconcileVrfNetlink does about a VRF's import and export; a VRF
\* without the block is left as it is.
needsVrfImportUpdate(b) ==
    /\ b # Nil
    /\ On(b) # (vrfImport # Nil) \/ (On(b) /\ b.interfaces # vrfImport)

needsVrfExportUpdate(b) ==
    \/ On(b) /\ (vrfExport = Nil \/ ~vrfNetlinkExportEqual(b, vrfExport))
    \/ b # Nil /\ ~b.enabled /\ vrfExport # Nil

-----------------------------------------------------------------------------
(***************************************************************************)
(* Users and restarts.                                                     *)
(***************************************************************************)

Edit ==
    /\ spec # Nil
    /\ edits < MaxEdits
    /\ edits' = edits + 1
    /\ spec' \in Specs \ {spec}
    /\ queued' = TRUE
    /\ sound' = FALSE
    /\ UNCHANGED <<pc, cr, globalVars, netlinkVars, faults>>

\* A deleted object can be created again.
Create ==
    /\ spec = Nil
    /\ edits < MaxEdits
    /\ edits' = edits + 1
    /\ spec' \in Specs
    /\ queued' = TRUE
    /\ sound' = FALSE
    /\ UNCHANGED <<pc, cr, globalVars, netlinkVars, faults>>

(***************************************************************************)
(* reconcileDelete: the VRF goes with its settings, netlink is switched    *)
(* off where the specification has it on, an error of which is only        *)
(* logged, the series are deleted, and the object goes.                    *)
(***************************************************************************)
Release ==
    /\ spec # Nil /\ pc = "idle"
    /\ edits < MaxEdits
    /\ edits' = edits + 1
    /\ spec' = Nil /\ queued' = FALSE
    /\ restart' = {}
    /\ vrfImport' = Nil /\ vrfExport' = Nil
    /\ \/ /\ import' = IF On(spec.import) THEN Nil ELSE import
          /\ export' = IF On(spec.export) THEN Nil ELSE export
          /\ UNCHANGED <<sound, faults>>
       \/ /\ faults < MaxFaults
          /\ faults' = faults + 1
          /\ import' \in {import, IF On(spec.import) THEN Nil ELSE import}
          /\ export' \in {export, IF On(spec.export) THEN Nil ELSE export}
          /\ sound' = FALSE
    /\ UNCHANGED <<pc, cr, running>>

\* Another agent released the object, and this one finds nothing.
NotFound ==
    /\ spec # Nil /\ pc = "idle"
    /\ edits < MaxEdits
    /\ edits' = edits + 1
    /\ spec' = Nil /\ queued' = FALSE /\ sound' = FALSE
    /\ UNCHANGED <<pc, cr, globalVars, netlinkVars, faults>>

\* The container restarts: gobgpd and the manager's series start anew.
Restart ==
    /\ faults < MaxFaults
    /\ faults' = faults + 1
    /\ queued' = (spec # Nil)
    /\ pc' = "idle" /\ sound' = FALSE
    /\ running' = Nil /\ restart' = {}
    /\ import' = Nil /\ export' = Nil /\ vrfImport' = Nil /\ vrfExport' = Nil
    /\ UNCHANGED <<spec, cr, edits>>

-----------------------------------------------------------------------------
(***************************************************************************)
(* A pass.                                                                 *)
(***************************************************************************)

Begin ==
    /\ pc = "idle" /\ queued
    /\ queued' = FALSE
    /\ cr' = spec
    /\ sound' = TRUE
    /\ pc' = "global"
    /\ UNCHANGED <<spec, globalVars, netlinkVars, boundVars>>

\* The pass fails and is tried again in 30 seconds.
Fail ==
    /\ pc' = "idle"
    /\ queued' = TRUE
    /\ sound' = FALSE

\* reconcileGlobal.
ReconcileGlobal ==
    /\ pc = "global"
    /\ IF ~Startable(cr.global)
       THEN Fail /\ UNCHANGED globalVars
       ELSE /\ IF running = Nil
               THEN running' = StartBgp(cr.global) /\ UNCHANGED restart
               ELSE SetGlobalRestartRequired(drifted(cr.global)) /\ UNCHANGED running
            /\ pc' = "import"
            /\ UNCHANGED <<queued, sound>>
    /\ UNCHANGED <<spec, cr, netlinkVars, boundVars>>

\* reconcileNetlink, up to the VRFs.
ReconcileNetlink ==
    \/ /\ pc = "import"
       /\ import' = IF ~needsImportUpdate(cr.import) THEN import
                    ELSE IF On(cr.import) THEN EnableNetlinkImport(cr.import) ELSE Nil
       /\ pc' = "export"
       /\ UNCHANGED <<spec, queued, cr, globalVars, export, vrfImport, vrfExport, sound,
                      boundVars>>
    \/ /\ pc = "export"
       /\ export' = IF ~needsExportUpdate(cr.export) THEN export
                    ELSE IF On(cr.export) THEN EnableNetlinkExport(cr.export) ELSE Nil
       /\ pc' = "vrfImport"
       /\ UNCHANGED <<spec, queued, cr, globalVars, import, vrfImport, vrfExport, sound,
                      boundVars>>

\* reconcileVrfNetlink, which ends the pass.
ReconcileVrfNetlink ==
    \/ /\ pc = "vrfImport"
       /\ vrfImport' = IF ~needsVrfImportUpdate(cr.vrfImport) THEN vrfImport
                       ELSE IF On(cr.vrfImport) THEN cr.vrfImport.interfaces ELSE Nil
       /\ pc' = "vrfExport"
       /\ UNCHANGED <<spec, queued, cr, globalVars, import, export, vrfExport, sound,
                      boundVars>>
    \/ /\ pc = "vrfExport"
       /\ vrfExport' = IF ~needsVrfExportUpdate(cr.vrfExport) THEN vrfExport
                       ELSE IF On(cr.vrfExport) THEN EnableVrfNetlinkExport(cr.vrfExport)
                       ELSE Nil
       /\ pc' = "idle"
       /\ UNCHANGED <<spec, queued, cr, globalVars, import, export, vrfImport, sound,
                      boundVars>>

\* A call fails and stops the pass; a VRF's import is switched off before it
\* is switched on with other interfaces.
CallFails ==
    /\ pc # "idle"
    /\ faults < MaxFaults
    /\ faults' = faults + 1
    /\ Fail
    /\ \/ UNCHANGED vrfImport
       \/ pc = "vrfImport" /\ needsVrfImportUpdate(cr.vrfImport) /\ vrfImport' = Nil
    /\ UNCHANGED <<spec, cr, globalVars, import, export, vrfExport, edits>>

\* A VRF's export is not read back, so it is sent again if it is on and not
\* switched off if it is not; or switching it off fails, which is only logged.
ExportNotReadBack ==
    /\ pc = "vrfExport"
    /\ faults < MaxFaults
    /\ faults' = faults + 1
    /\ vrfExport' = IF On(cr.vrfExport) THEN EnableVrfNetlinkExport(cr.vrfExport)
                    ELSE vrfExport
    /\ pc' = "idle"
    /\ sound' = FALSE
    /\ UNCHANGED <<spec, queued, cr, globalVars, import, export, vrfImport, edits>>

-----------------------------------------------------------------------------
Next ==
    \/ Edit \/ Create \/ Release \/ NotFound \/ Restart
    \/ Begin \/ ReconcileGlobal \/ ReconcileNetlink \/ ReconcileVrfNetlink
    \/ CallFails \/ ExportNotReadBack

Spec == Init /\ [][Next]_vars

-----------------------------------------------------------------------------
\* The last pass worked on the object as it is now and went through.
Applied == pc = "idle" /\ sound

\* The fields of a setting that a restart would change.
Changed(s) == {f \in PartsOf(s) : running[f] # StartBgp(spec.global)[f]}

\* global_restart_required, once the object as it is now has been passed over:
\* a restart would change something of every setting that is flagged and
\* nothing of one that is not, through edits that are undone, restarts, and
\* objects deleted and created again over a running speaker.  The metric
\* promises that for every setting; the comparison falls short of it by two
\* kinds of field, of which a setting that is not flagged may still change:
\* helperOnly, which is sent and not compared, and a guarded field that the
\* object no longer states, which a restart would give its default again.
FlagsAreTrue ==
    Applied /\ spec # Nil =>
        \A s \in globalDriftFields :
            IF s \in restart THEN Changed(s) # {}
            ELSE Changed(s) \subseteq Uncompared \cup {f \in Guarded : spec.global[f] = 0}

\* A rule's name is "a unique identifier for this export rule", which nothing
\* enforces.
UniqueNames(rules) == \A i, j \in DOMAIN rules : rules[i].name = rules[j].name => i = j

\* Each service is on or off as its block says, with each field that the block
\* states; a VRF without the block is left as it is.
ImportAsStated(b) == import = IF On(b) THEN EnableNetlinkImport(b) ELSE Nil

ExportAsStated(b) ==
    IF ~On(b) THEN export = Nil
    ELSE /\ export # Nil
         /\ b.dampening \in {0, export.dampening}
         /\ UniqueNames(b.rules) => Range(export.rules) = Range(Rules(b.rules))

VrfImportAsStated(b) ==
    b # Nil => vrfImport = IF On(b) THEN b.interfaces ELSE Nil

VrfExportAsStated(b) ==
    b # Nil => IF ~On(b) THEN vrfExport = Nil
               ELSE /\ vrfExport # Nil
                    /\ b.linuxVrf \in {0, vrfExport.linuxVrf}
                    /\ vrfExport.metric = EnableVrfNetlinkExport(b).metric
                    /\ vrfExport.validate = EnableVrfNetlinkExport(b).validate

\* After a pass, netlink is as the object has it.  After the object's deletion
\* all of it is off: "Deleting the configuration has to withdraw them".
NetlinkAsStated ==
    Applied =>
        IF spec = Nil
        THEN import = Nil /\ export = Nil /\ vrfImport = Nil /\ vrfExport = Nil
        ELSE /\ ImportAsStated(spec.import) /\ ExportAsStated(spec.export)
             /\ VrfImportAsStated(spec.vrfImport) /\ VrfExportAsStated(spec.vrfExport)

\* The comments warn of "a permanent update loop": a second pass over the same
\* object sends no netlink call, although gobgpd reports its own defaults, the
\* negation of what it was sent, and nothing of rules that were left out.
NetlinkIsQuiet ==
    Applied /\ spec # Nil =>
        /\ ~needsImportUpdate(spec.import)
        /\ (On(spec.export) => UniqueNames(spec.export.rules))
               => ~needsExportUpdate(spec.export)
        /\ ~needsVrfImportUpdate(spec.vrfImport)
        /\ ~needsVrfExportUpdate(spec.vrfExport)
=============================================================================
