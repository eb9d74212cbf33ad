------------------------ MODULE SpeakerSettingsProofs ------------------------
(***************************************************************************)
(* Proofs about SpeakerSettings, for any values and specifications: the    *)
(* flags are true, netlink is as the object states it, and a second pass   *)
(* has nothing to send.                                                    *)
(***************************************************************************)
EXTENDS SpeakerSettings, FiniteSetTheorems, SequenceTheorems, TLAPS

Quiet(b) == (On(b) => UniqueNames(b.rules)) => ~needsExportUpdate(b)

\* A pass works on an object that exists, on a copy of it as it is now while
\* the pass is sound, and a request is due only for an object that exists.
Copies ==
    /\ queued => spec # Nil
    /\ pc # "idle" => spec # Nil /\ cr # Nil
    /\ pc # "idle" /\ sound => cr = spec

\* The manager and gobgpd start together.
Fresh == running = Nil => restart = {}

\* What holds once a sound pass is past each of its parts.
Past(parts) == sound /\ spec # Nil /\ pc \in parts \cup {"idle"}

ChangedFrom(g, s) == {f \in PartsOf(s) : running[f] # StartBgp(g)[f]}
Flags(g) ==
    \A s \in globalDriftFields :
        IF s \in restart THEN ChangedFrom(g, s) # {}
        ELSE ChangedFrom(g, s) \subseteq Uncompared \cup {f \in Guarded : g[f] = 0}

GlobalDone ==
    Past({"import", "export", "vrfImport", "vrfExport"}) => Flags(spec.global)

ImportDone ==
    Past({"export", "vrfImport", "vrfExport"}) =>
        ImportAsStated(spec.import) /\ ~needsImportUpdate(spec.import)

ExportDone ==
    Past({"vrfImport", "vrfExport"}) => ExportAsStated(spec.export) /\ Quiet(spec.export)

VrfImportDone ==
    Past({"vrfExport"}) =>
        VrfImportAsStated(spec.vrfImport) /\ ~needsVrfImportUpdate(spec.vrfImport)

VrfExportDone ==
    Past({}) => VrfExportAsStated(spec.vrfExport) /\ ~needsVrfExportUpdate(spec.vrfExport)

\* An object that is gone left nothing on.
Off ==
    sound /\ spec = Nil =>
        import = Nil /\ export = Nil /\ vrfImport = Nil /\ vrfExport = Nil

IInv ==
    /\ TypeOK /\ Copies /\ Fresh /\ GlobalDone
    /\ ImportDone /\ ExportDone /\ VrfImportDone /\ VrfExportDone /\ Off

-----------------------------------------------------------------------------
(***************************************************************************)
(* The operators.                                                          *)
(***************************************************************************)

\* Zero, the defaults and Nil.
LEMMA ValueFacts ==
    /\ 0 \in Values /\ Default \in Values \ {0} /\ Nil \notin Values
    /\ \A v \in Values : OrDefault(v) \in Values \ {0}
  BY ValuesAssumption, NilAssumption DEF OrDefault, Default

\* The parts of a specification.
LEMMA SpecFacts ==
    ASSUME NEW s \in Specs
    PROVE  /\ s # Nil
           /\ s.global \in GlobalSpec
           /\ s.import \in Optional(NetlinkImport) /\ s.export \in Optional(NetlinkExport)
           /\ s.vrfImport \in Optional(VrfNetlinkImport)
           /\ s.vrfExport \in Optional(VrfNetlinkExport)
  BY SpecsAssumption, NilAssumption DEF Settings

\* What gobgpd makes of what it is sent has the type it reports:
\* the global settings,
LEMMA StartType == ASSUME NEW g \in GlobalSpec PROVE StartBgp(g) \in GlobalSpec
  BY ValueFacts DEF GlobalSpec, StartBgp, OrDefault

\* the rules of an export,
LEMMA RulesType ==
    ASSUME NEW r \in Seq(NetlinkExportRule)
    PROVE  /\ Rules(r) \in Seq([name : Values, communities : Values, validate : BOOLEAN])
           /\ DOMAIN Rules(r) = DOMAIN r /\ Len(Rules(r)) = Len(r)
<1> DEFINE Reported == [name : Values, communities : Values, validate : BOOLEAN]
<1>1. \A i \in DOMAIN r : r[i] \in NetlinkExportRule
  OBVIOUS
<1>2. \A i \in DOMAIN r :
         [name |-> r[i].name, communities |-> r[i].communities,
          validate |-> Validates(r[i].validate)] \in Reported
  <2> SUFFICES ASSUME NEW i \in DOMAIN r
               PROVE  [name |-> r[i].name, communities |-> r[i].communities,
                       validate |-> Validates(r[i].validate)] \in Reported
    OBVIOUS
  <2>1. r[i] \in [name : Values, communities : Values, validate : Optional(BOOLEAN)]
    BY <1>1 DEF NetlinkExportRule
  <2>2. Validates(r[i].validate) \in BOOLEAN
    BY <2>1, Zenon DEF Validates, Optional
  <2> QED
    BY <2>1, <2>2
<1>3. DOMAIN r = 1..Len(r) /\ Len(r) \in Nat
  OBVIOUS
<1>4. Rules(r) \in [1..Len(r) -> Reported]
  BY <1>2, <1>3, Zenon DEF Rules
<1>5. DOMAIN Rules(r) = 1..Len(r)
  BY <1>4
<1> HIDE DEF Reported
<1>6. Rules(r) \in Seq(Reported)
  BY <1>3, <1>4, SeqDef, Zenon
<1>7. Len(Rules(r)) = Len(r)
  BY <1>3, <1>5, <1>6
<1> QED
  BY <1>3, <1>5, <1>6, <1>7 DEF Reported

\* an import,
LEMMA ImportType ==
    ASSUME NEW b \in NetlinkImport
    PROVE  EnableNetlinkImport(b) \in ImportState /\ EnableNetlinkImport(b) # Nil
<1>1. EnableNetlinkImport(b) \in ImportState
  BY DEF NetlinkImport, ImportState, EnableNetlinkImport
<1> QED
  BY <1>1, NilAssumption

\* an export,
LEMMA ExportType ==
    ASSUME NEW b \in NetlinkExport
    PROVE  EnableNetlinkExport(b) \in ExportState /\ EnableNetlinkExport(b) # Nil
<1>1. b.dampening \in Values /\ b.rules \in Seq(NetlinkExportRule)
  BY DEF NetlinkExport
<1>2. EnableNetlinkExport(b) \in ExportState
  BY <1>1, ValueFacts, RulesType DEF ExportState, EnableNetlinkExport
<1> QED
  BY <1>2, NilAssumption

\* and the export of a VRF.
LEMMA VrfExportType ==
    ASSUME NEW b \in VrfNetlinkExport
    PROVE  /\ EnableVrfNetlinkExport(b) \in VrfExportState
           /\ EnableVrfNetlinkExport(b) # Nil
           /\ EnableVrfNetlinkExport(b).linuxVrf = OrDefault(b.linuxVrf)
           /\ EnableVrfNetlinkExport(b).metric = b.metric
           /\ EnableVrfNetlinkExport(b).validate = Validates(b.validate)
<1>1. b.linuxVrf \in Values /\ b.metric \in Values /\ b.validate \in Optional(BOOLEAN)
  BY DEF VrfNetlinkExport
<1> DEFINE skip == IF b.validate = Nil THEN FALSE ELSE ~b.validate
<1>2. skip \in BOOLEAN /\ (~skip) = Validates(b.validate)
  BY <1>1, NilAssumption, Zenon DEF Validates, Optional
<1>3. EnableVrfNetlinkExport(b) =
         [linuxVrf |-> OrDefault(b.linuxVrf), metric |-> b.metric, validate |-> ~skip]
  BY DEF EnableVrfNetlinkExport
<1> HIDE DEF skip
<1>4. EnableVrfNetlinkExport(b) \in VrfExportState
  BY <1>1, <1>2, <1>3, ValueFacts DEF VrfExportState
<1> QED
  BY <1>2, <1>3, <1>4, NilAssumption

-----------------------------------------------------------------------------
(***************************************************************************)
(* Each part of a pass leaves its service as stated, and needs no update.  *)
(***************************************************************************)

\* The global settings: the drift is flagged,
LEMMA GlobalSettles ==
    ASSUME NEW g \in GlobalSpec, running \in GlobalSpec, restart' = drifted(g),
           UNCHANGED running
    PROVE  Flags(g)'
<1> SUFFICES ASSUME NEW s \in globalDriftFields
             PROVE  /\ s \in drifted(g) => ChangedFrom(g, s) # {}
                    /\ s \notin drifted(g) =>
                         ChangedFrom(g, s) \subseteq Uncompared \cup {f \in Guarded : g[f] = 0}
  BY DEF Flags, ChangedFrom
<1>1. \A f \in PartsOf(s) : f \in GlobalFields
  BY DEF GlobalFields
<1>2. \A f \in GlobalFields : (f \in Guarded => g[f] # 0) => StartBgp(g)[f] = g[f]
  BY DEF StartBgp, OrDefault
<1> QED
  BY <1>1, <1>2 DEF drifted, ChangedFrom

\* and there is none after a start.
LEMMA GlobalStarts ==
    ASSUME NEW g \in GlobalSpec, restart = {}, UNCHANGED restart, running' = StartBgp(g)
    PROVE  Flags(g)'
  BY DEF Flags, ChangedFrom

\* The import.
LEMMA ImportSettles ==
    ASSUME NEW b \in Optional(NetlinkImport), import \in Optional(ImportState),
           import' = IF ~needsImportUpdate(b) THEN import
                     ELSE IF On(b) THEN EnableNetlinkImport(b) ELSE Nil
    PROVE  ImportAsStated(b)' /\ ~needsImportUpdate(b)'
<1>1. CASE ~On(b)
  BY <1>1 DEF ImportAsStated, needsImportUpdate, On
<1>2. CASE On(b) /\ needsImportUpdate(b)
  <2>1. b \in NetlinkImport
    BY <1>2 DEF On, Optional
  <2>2. import' = EnableNetlinkImport(b) /\ import' # Nil
    BY <1>2, <2>1, ImportType
  <2>3. import'.vrf = b.vrf /\ import'.interfaces = b.interfaces
    BY <2>2 DEF EnableNetlinkImport
  <2> QED
    BY <1>2, <2>2, <2>3 DEF ImportAsStated, needsImportUpdate
<1>3. CASE On(b) /\ ~needsImportUpdate(b)
  <2>1. import' = import /\ import \in ImportState
    BY <1>3 DEF needsImportUpdate, Optional
  <2>2. import = [vrf |-> b.vrf, interfaces |-> b.interfaces]
    BY <1>3, <2>1 DEF needsImportUpdate, ImportState
  <2> QED
    BY <1>3, <2>1, <2>2 DEF ImportAsStated, needsImportUpdate, EnableNetlinkImport
<1> QED
  BY <1>1, <1>2, <1>3

\* A list of rules matches what gobgpd makes of it, if the names are unique.
LEMMA OwnRulesMatch ==
    ASSUME NEW r \in Seq(NetlinkExportRule), UniqueNames(r)
    PROVE  netlinkExportRulesMatch(Rules(r), r)
<1>1. DOMAIN Rules(r) = DOMAIN r /\ Len(Rules(r)) = Len(r) /\ DOMAIN r = 1..Len(r)
      /\ Len(r) \in Nat
  BY RulesType
<1>2. \A i \in DOMAIN r : /\ Rules(r)[i].name = r[i].name
                          /\ Rules(r)[i].communities = r[i].communities
                          /\ Rules(r)[i].validate = Validates(r[i].validate)
  BY DEF Rules
<1>3. \A i, k \in DOMAIN r : Rules(r)[k].name = r[i].name => k <= i
  BY <1>1, <1>2 DEF UniqueNames
<1> QED
  BY <1>1, <1>2, <1>3 DEF netlinkExportRulesMatch

\* Lists that match hold the same rules, if the names are unique: each desired
\* rule is met by one of the current rules, different ones by different ones,
\* and there are as many of the one as of the other.
LEMMA MatchingRulesAgree ==
    ASSUME NEW c \in Seq([name : Values, communities : Values, validate : BOOLEAN]),
           NEW r \in Seq(NetlinkExportRule), UniqueNames(r),
           netlinkExportRulesMatch(c, r)
    PROVE  Range(c) = Range(Rules(r))
<1> DEFINE n == Len(r)
           Meets(i, j) == /\ c[j].name = r[i].name
                          /\ c[j].communities = r[i].communities
                          /\ c[j].validate = Validates(r[i].validate)
           f == [i \in 1..n |-> CHOOSE j \in 1..n : Meets(i, j)]
<1>1. n \in Nat /\ DOMAIN r = 1..n /\ DOMAIN c = 1..n
  BY DEF netlinkExportRulesMatch
<1>2. \A i \in 1..n : \E j \in 1..n : Meets(i, j)
  BY <1>1 DEF netlinkExportRulesMatch
<1>3. \A i \in 1..n : f[i] \in 1..n /\ Meets(i, f[i])
  BY <1>2
<1>4. DOMAIN f = 1..n /\ f \in [1..n -> 1..n]
  BY <1>3
<1> HIDE DEF f
<1>5. \A i, k \in 1..n : f[i] = f[k] => i = k
  BY <1>1, <1>3 DEF UniqueNames
<1>6. f \in Injection(1..n, 1..n)
  BY <1>4, <1>5 DEF Injection, IsInjective
<1>7. IsFiniteSet(1..n)
  BY <1>1, FS_Interval
<1>8. f \in Surjection(1..n, 1..n)
  BY <1>6, <1>7, FS_Injection
<1>9. \A j \in 1..n : \E i \in 1..n : f[i] = j
  BY <1>8 DEF Surjection
<1>10. DOMAIN Rules(r) = 1..n
  BY <1>1, RulesType
<1>11. \A j \in DOMAIN c :
          c[j] \in [name : Values, communities : Values, validate : BOOLEAN]
  BY ElementOfSeq, <1>1, Zenon DEF netlinkExportRulesMatch
<1>12. \A i \in 1..n : c[f[i]] = Rules(r)[i]
  <2> SUFFICES ASSUME NEW i \in 1..n PROVE c[f[i]] = Rules(r)[i]
    OBVIOUS
  <2>1. Meets(i, f[i]) /\ f[i] \in 1..n
    BY <1>3
  <2>2. c[f[i]] \in [name : Values, communities : Values, validate : BOOLEAN]
    BY <1>1, <1>11, <2>1
  <2>3. c[f[i]] = [name |-> c[f[i]].name, communities |-> c[f[i]].communities,
                   validate |-> c[f[i]].validate]
    BY <2>2
  <2>4. Rules(r)[i] = [name |-> r[i].name, communities |-> r[i].communities,
                       validate |-> Validates(r[i].validate)]
    BY <1>1 DEF Rules
  <2> QED
    BY <2>1, <2>3, <2>4
<1> HIDE DEF n
<1>13. \A v \in Range(c) : v \in Range(Rules(r))
  <2> SUFFICES ASSUME NEW v \in Range(c) PROVE v \in Range(Rules(r))
    OBVIOUS
  <2>1. PICK j \in 1..n : v = c[j]
    BY <1>1 DEF Range
  <2>2. PICK i \in 1..n : f[i] = j
    BY <1>9
  <2>3. v = Rules(r)[i]
    BY <1>12, <2>1, <2>2
  <2> QED
    BY <1>10, <2>3 DEF Range
<1>14. \A v \in Range(Rules(r)) : v \in Range(c)
  BY <1>1, <1>3, <1>10, <1>12 DEF Range
<1> QED
  BY <1>13, <1>14

\* The export.
LEMMA ExportSettles ==
    ASSUME NEW b \in Optional(NetlinkExport), export \in Optional(ExportState),
           export' = IF ~needsExportUpdate(b) THEN export
                     ELSE IF On(b) THEN EnableNetlinkExport(b) ELSE Nil
    PROVE  ExportAsStated(b)' /\ Quiet(b)'
<1>1. CASE ~On(b)
  BY <1>1 DEF ExportAsStated, Quiet, needsExportUpdate, On
<1>2. CASE On(b) /\ needsExportUpdate(b)
  <2>1. b \in NetlinkExport /\ b.dampening \in Values /\ b.rules \in Seq(NetlinkExportRule)
    BY <1>2 DEF On, Optional, NetlinkExport
  <2>2. export' = EnableNetlinkExport(b) /\ export' # Nil
    BY <1>2, <2>1, ExportType
  <2>3. export'.dampening = OrDefault(b.dampening) /\ export'.rules = Rules(b.rules)
    BY <2>2 DEF EnableNetlinkExport
  <2>4. b.dampening \in {0, export'.dampening}
    BY <2>3 DEF OrDefault
  <2>5. UniqueNames(b.rules) => netlinkExportRulesMatch(export'.rules, b.rules)
    BY <2>1, <2>3, OwnRulesMatch
  <2>6. Quiet(b)'
    BY <1>2, <2>2, <2>4, <2>5 DEF Quiet, needsExportUpdate
  <2>7. ExportAsStated(b)'
    BY <1>2, <2>2, <2>3, <2>4 DEF ExportAsStated
  <2> QED
    BY <2>6, <2>7
<1>3. CASE On(b) /\ ~needsExportUpdate(b)
  <2>1. export' = export /\ export # Nil /\ export \in ExportState
    BY <1>3 DEF needsExportUpdate, Optional
  <2>2. b \in NetlinkExport /\ b.rules \in Seq(NetlinkExportRule)
    BY <1>3 DEF On, Optional, NetlinkExport
  <2>3. export.rules \in Seq([name : Values, communities : Values, validate : BOOLEAN])
    BY <2>1 DEF ExportState
  <2>4. netlinkExportRulesMatch(export.rules, b.rules)
        /\ b.dampening \in {0, export.dampening}
    BY <1>3 DEF needsExportUpdate
  <2>5. UniqueNames(b.rules) => Range(export.rules) = Range(Rules(b.rules))
    BY <2>2, <2>3, <2>4, MatchingRulesAgree
  <2>6. ExportAsStated(b)'
    BY <1>3, <2>1, <2>4, <2>5 DEF ExportAsStated
  <2>7. Quiet(b)'
    BY <1>3, <2>1 DEF Quiet, needsExportUpdate
  <2> QED
    BY <2>6, <2>7
<1> QED
  BY <1>1, <1>2, <1>3

\* The import of a VRF.
LEMMA VrfImportSettles ==
    ASSUME NEW b \in Optional(VrfNetlinkImport), vrfImport \in Optional(Values),
           vrfImport' = IF ~needsVrfImportUpdate(b) THEN vrfImport
                        ELSE IF On(b) THEN b.interfaces ELSE Nil
    PROVE  VrfImportAsStated(b)' /\ ~needsVrfImportUpdate(b)'
<1>1. b # Nil => b.interfaces # Nil
  BY ValueFacts DEF Optional, VrfNetlinkImport
<1>2. CASE ~On(b)
  BY <1>2 DEF VrfImportAsStated, needsVrfImportUpdate, On
<1>3. CASE On(b)
  <2>1. b # Nil
    BY <1>3 DEF On
  <2>2. vrfImport' = b.interfaces
    BY <1>3, <2>1 DEF needsVrfImportUpdate
  <2> QED
    BY <1>1, <1>3, <2>1, <2>2 DEF VrfImportAsStated, needsVrfImportUpdate
<1> QED
  BY <1>2, <1>3

\* The export of a VRF.
LEMMA VrfExportSettles ==
    ASSUME NEW b \in Optional(VrfNetlinkExport), vrfExport \in Optional(VrfExportState),
           vrfExport' = IF ~needsVrfExportUpdate(b) THEN vrfExport
                        ELSE IF On(b) THEN EnableVrfNetlinkExport(b) ELSE Nil
    PROVE  VrfExportAsStated(b)' /\ ~needsVrfExportUpdate(b)'
<1>1. CASE ~On(b)
  BY <1>1 DEF VrfExportAsStated, needsVrfExportUpdate, On
<1>2. CASE On(b)
  <2>1. b \in VrfNetlinkExport /\ b # Nil /\ b.enabled
    BY <1>2 DEF On, Optional
  <2>2. CASE needsVrfExportUpdate(b)
    <3>1. vrfExport' = EnableVrfNetlinkExport(b)
      BY <1>2, <2>2
    <3>2. vrfExport' # Nil /\ vrfExport'.linuxVrf = OrDefault(b.linuxVrf)
          /\ vrfExport'.metric = b.metric /\ vrfExport'.validate = Validates(b.validate)
      BY <2>1, <3>1, VrfExportType
    <3>3. b.linuxVrf \in {0, vrfExport'.linuxVrf}
      BY <3>2 DEF OrDefault
    <3> QED
      BY <1>2, <2>1, <3>1, <3>2, <3>3
      DEF VrfExportAsStated, needsVrfExportUpdate, vrfNetlinkExportEqual
  <2>3. CASE ~needsVrfExportUpdate(b)
    <3>1. vrfExport' = vrfExport /\ vrfExport # Nil /\ vrfNetlinkExportEqual(b, vrfExport)
      BY <1>2, <2>3 DEF needsVrfExportUpdate
    <3>2. b.linuxVrf \in {0, vrfExport.linuxVrf} /\ vrfExport.metric = b.metric
          /\ vrfExport.validate = Validates(b.validate)
      BY <3>1 DEF vrfNetlinkExportEqual
    <3>3. VrfExportAsStated(b)'
      BY <1>2, <2>1, <3>1, <3>2, VrfExportType DEF VrfExportAsStated
    <3>4. ~needsVrfExportUpdate(b)'
      BY <2>3, <3>1 DEF needsVrfExportUpdate
    <3> QED
      BY <3>3, <3>4
  <2> QED
    BY <2>2, <2>3
<1> QED
  BY <1>1, <1>2

-----------------------------------------------------------------------------
(***************************************************************************)
(* The inductive invariant.                                                *)
(***************************************************************************)

Bounds == edits \in 0..MaxEdits /\ faults \in 0..MaxFaults

Control ==
    /\ queued \in BOOLEAN /\ sound \in BOOLEAN
    /\ pc \in {"idle", "global", "import", "export", "vrfImport", "vrfExport"}

Data ==
    /\ spec \in Optional(Specs) /\ cr \in Optional(Specs)
    /\ running \in Optional(GlobalSpec) /\ restart \subseteq globalDriftFields
    /\ import \in Optional(ImportState) /\ export \in Optional(ExportState)
    /\ vrfImport \in Optional(Values) /\ vrfExport \in Optional(VrfExportState)

\* The parts of TypeOK.
LEMMA TypeParts == TypeOK <=> Bounds /\ Control /\ Data
  BY DEF TypeOK, Bounds, Control, Data

\* A value that may be missing.
LEMMA OptionalFacts ==
    /\ \A S : Nil \in Optional(S)
    /\ \A S : \A v \in S : v \in Optional(S)
    /\ \A S : \A v \in Optional(S) : v = Nil \/ v \in S
  BY DEF Optional

\* The inductive invariant holds at first.
LEMMA InitInv == Init => IInv
<1> SUFFICES ASSUME Init PROVE IInv
  OBVIOUS
<1>1. spec \in Specs /\ spec # Nil
  BY SpecFacts DEF Init
<1>2. Bounds
  BY BoundsAssumption DEF Init, Bounds
<1>3. Control
  BY DEF Init, Control
<1>4. Data
  BY <1>1, OptionalFacts DEF Init, Data
<1>5. Copies /\ Fresh
  BY <1>1 DEF Init, Copies, Fresh
<1>6. GlobalDone /\ ImportDone /\ ExportDone /\ VrfImportDone /\ VrfExportDone /\ Off
  BY DEF Init, GlobalDone, ImportDone, ExportDone, VrfImportDone, VrfExportDone, Off, Past
<1> QED
  BY <1>2, <1>3, <1>4, <1>5, <1>6, TypeParts DEF IInv

\* What a pass works on.
LEMMA Working ==
    ASSUME IInv, pc # "idle"
    PROVE  /\ spec \in Specs /\ cr \in Specs
           /\ cr.global \in GlobalSpec
           /\ cr.import \in Optional(NetlinkImport)
           /\ cr.export \in Optional(NetlinkExport)
           /\ cr.vrfImport \in Optional(VrfNetlinkImport)
           /\ cr.vrfExport \in Optional(VrfNetlinkExport)
           /\ sound => cr = spec
<1>1. spec \in Specs /\ cr \in Specs /\ (sound => cr = spec)
  BY DEF IInv, TypeOK, Copies, Optional
<1> QED
  BY <1>1, SpecFacts

\* Every step keeps the counters in their bounds,
LEMMA BoundsKept == ASSUME Bounds, [Next]_vars PROVE Bounds'
  BY BoundsAssumption
  DEF Bounds, Next, vars, Edit, Create, Release, NotFound, Restart, Begin, ReconcileGlobal,
      ReconcileNetlink, ReconcileVrfNetlink, CallFails, ExportNotReadBack, boundVars

\* the place of a pass,
LEMMA ControlKept == ASSUME Control, [Next]_vars PROVE Control'
<1>1. CASE Restart
  <2>1. queued' \in BOOLEAN
    BY <1>1, Zenon DEF Restart
  <2> QED
    BY <1>1, <2>1 DEF Control, Restart
<1>2. CASE Edit \/ Create \/ NotFound \/ Begin \/ CallFails \/ ExportNotReadBack
           \/ UNCHANGED vars
  BY <1>2 DEF Control, Edit, Create, NotFound, Begin, CallFails, ExportNotReadBack, Fail,
     vars
<1>3. CASE Release
  <2>1. sound' \in BOOLEAN
    BY <1>3, Zenon DEF Control, Release
  <2> QED
    BY <1>3, <2>1 DEF Control, Release
<1>4. CASE ReconcileGlobal \/ ReconcileNetlink \/ ReconcileVrfNetlink
  BY <1>4 DEF Control, ReconcileGlobal, ReconcileNetlink, ReconcileVrfNetlink, Fail
<1> QED
  BY <1>1, <1>2, <1>3, <1>4 DEF Next

\* the types of what gobgpd holds,
LEMMA DataKept == ASSUME IInv, [Next]_vars PROVE Data'
<1>0. Data
  BY TypeParts DEF IInv
<1>1. CASE UNCHANGED vars
  BY <1>0, <1>1 DEF Data, vars
<1>2. CASE Edit \/ Create \/ NotFound
  <2>1. spec' \in Optional(Specs)
    BY <1>2, OptionalFacts DEF Edit, Create, NotFound
  <2> QED
    BY <1>0, <1>2, <2>1 DEF Data, Edit, Create, NotFound, globalVars, netlinkVars
<1>3. CASE Release
  <2>1. import' \in {import, Nil} /\ export' \in {export, Nil}
    BY <1>3, Zenon DEF Release
  <2> QED
    BY <1>0, <1>3, <2>1, OptionalFacts DEF Data, Release
<1>5. CASE Restart
  BY <1>0, <1>5, OptionalFacts DEF Data, Restart
<1>6. CASE Begin
  BY <1>0, <1>6 DEF Data, Begin, globalVars, netlinkVars
<1>7. CASE ReconcileGlobal
  <2>1. pc # "idle"
    BY <1>7 DEF ReconcileGlobal
  <2>2. running' \in Optional(GlobalSpec) /\ restart' \subseteq globalDriftFields
    BY <1>0, <1>7, <2>1, Working, StartType
    DEF Data, ReconcileGlobal, globalVars, SetGlobalRestartRequired, drifted, Optional
  <2> QED
    BY <1>0, <1>7, <2>2 DEF Data, ReconcileGlobal, netlinkVars
<1>8. CASE ReconcileNetlink
  <2>1. pc # "idle"
    BY <1>8 DEF ReconcileNetlink
  <2>2. cr.import \in Optional(NetlinkImport) /\ cr.export \in Optional(NetlinkExport)
    BY <2>1, Working
  <2>3. import' \in Optional(ImportState)
    BY <1>0, <1>8, <2>2, ImportType DEF Data, ReconcileNetlink, On, Optional
  <2>4. export' \in Optional(ExportState)
    BY <1>0, <1>8, <2>2, ExportType DEF Data, ReconcileNetlink, On, Optional
  <2> QED
    BY <1>0, <1>8, <2>3, <2>4 DEF Data, ReconcileNetlink, globalVars
<1>9. CASE ReconcileVrfNetlink
  <2>1. pc # "idle"
    BY <1>9 DEF ReconcileVrfNetlink
  <2>2. /\ cr.vrfImport \in Optional(VrfNetlinkImport)
        /\ cr.vrfExport \in Optional(VrfNetlinkExport)
    BY <2>1, Working
  <2>3. vrfImport' \in Optional(Values)
    BY <1>0, <1>9, <2>2 DEF Data, ReconcileVrfNetlink, On, Optional, VrfNetlinkImport
  <2>4. vrfExport' \in Optional(VrfExportState)
    BY <1>0, <1>9, <2>2, VrfExportType DEF Data, ReconcileVrfNetlink, On, Optional
  <2> QED
    BY <1>0, <1>9, <2>3, <2>4 DEF Data, ReconcileVrfNetlink, globalVars
<1>10. CASE CallFails
  BY <1>0, <1>10, OptionalFacts DEF Data, CallFails, globalVars
<1>11. CASE ExportNotReadBack
  <2>1. pc # "idle"
    BY <1>11 DEF ExportNotReadBack
  <2>2. cr.vrfExport \in Optional(VrfNetlinkExport)
    BY <2>1, Working
  <2>3. vrfExport' \in Optional(VrfExportState)
    BY <1>0, <1>11, <2>2, VrfExportType DEF Data, ExportNotReadBack, On, Optional
  <2> QED
    BY <1>0, <1>11, <2>3 DEF Data, ExportNotReadBack, globalVars
<1> QED
  BY <1>1, <1>2, <1>3, <1>5, <1>6, <1>7, <1>8, <1>9, <1>10, <1>11 DEF Next

\* that is, TypeOK,
LEMMA TypeKept == ASSUME IInv, [Next]_vars PROVE TypeOK'
  BY TypeParts, BoundsKept, ControlKept, DataKept DEF IInv, TypeOK, Bounds, Control, Data

\* copies of what was stated,
LEMMA CopiesKept == ASSUME IInv, [Next]_vars PROVE Copies' /\ Fresh'
<1>0. Copies /\ Fresh /\ TypeOK
  BY DEF IInv
<1>1. CASE UNCHANGED vars
  BY <1>0, <1>1 DEF Copies, Fresh, vars
<1>2. CASE Edit \/ Create
  <2>1. spec' # Nil
    BY <1>2, SpecFacts DEF Edit, Create
  <2> QED
    BY <1>0, <1>2, <2>1 DEF Copies, Fresh, Edit, Create, globalVars
<1>3. CASE Release \/ NotFound
  BY <1>0, <1>3 DEF Copies, Fresh, Release, NotFound, globalVars
<1>4. CASE Restart
  BY <1>0, <1>4 DEF Copies, Fresh, Restart
<1>5. CASE Begin
  BY <1>0, <1>5 DEF Copies, Fresh, Begin, globalVars
<1>6. CASE ReconcileGlobal
  <2>1. cr.global \in GlobalSpec
    BY <1>6, Working DEF ReconcileGlobal
  <2>2. Fresh'
    BY <1>0, <1>6, <2>1, StartType, NilAssumption
    DEF Fresh, ReconcileGlobal, globalVars, SetGlobalRestartRequired
  <2>3. Copies'
    BY <1>0, <1>6 DEF Copies, ReconcileGlobal, Fail
  <2> QED
    BY <2>2, <2>3
<1>7. CASE ReconcileNetlink \/ ReconcileVrfNetlink
  BY <1>0, <1>7 DEF Copies, Fresh, ReconcileNetlink, ReconcileVrfNetlink, globalVars
<1>8. CASE CallFails \/ ExportNotReadBack
  BY <1>0, <1>8 DEF Copies, Fresh, CallFails, ExportNotReadBack, Fail, globalVars
<1> QED
  BY <1>1, <1>2, <1>3, <1>4, <1>5, <1>6, <1>7, <1>8 DEF Next

\* and, one by one, what the parts of a pass have settled: the global settings,
LEMMA GlobalKept == ASSUME IInv, [Next]_vars PROVE GlobalDone'
<1>0. GlobalDone
  BY DEF IInv
<1> USE DEF GlobalDone, Past
<1>1. CASE UNCHANGED vars
  BY <1>0, <1>1 DEF vars, Flags, ChangedFrom
<1>2. CASE Edit \/ Create \/ Release \/ NotFound \/ Restart \/ Begin \/ CallFails
           \/ ExportNotReadBack
  BY <1>2 DEF Edit, Create, Release, NotFound, Restart, Begin, CallFails,
     ExportNotReadBack, Fail
<1>3. CASE ReconcileGlobal
  <2>1. cr.global \in GlobalSpec /\ (sound => cr = spec) /\ spec' = spec
    BY <1>3, Working DEF ReconcileGlobal
  <2>2. CASE ~Startable(cr.global)
    BY <1>3, <2>2 DEF ReconcileGlobal, Fail
  <2>3. CASE Startable(cr.global)
    <3>1. CASE running = Nil
      <4>1. restart = {}
        BY <3>1 DEF IInv, Fresh
      <4>2. Flags(cr.global)'
        BY <1>3, <2>1, <2>3, <3>1, <4>1, GlobalStarts DEF ReconcileGlobal, Flags, ChangedFrom
      <4> QED
        BY <1>3, <2>1, <2>3, <4>2 DEF ReconcileGlobal, Flags, ChangedFrom
    <3>2. CASE running # Nil
      <4>1. running \in GlobalSpec
        BY <3>2 DEF IInv, TypeOK, Optional
      <4>2. restart' = drifted(cr.global) /\ running' = running
        BY <1>3, <2>3, <3>2 DEF ReconcileGlobal, SetGlobalRestartRequired
      <4>3. cr' = cr
        BY <1>3 DEF ReconcileGlobal
      <4>4. \A g \in GlobalSpec : g = cr.global => Flags(g)'
        BY <4>1, <4>2, GlobalSettles
      <4> QED
        BY <1>3, <2>1, <2>3, <4>3, <4>4 DEF ReconcileGlobal, Flags, ChangedFrom
    <3> QED
      BY <3>1, <3>2
  <2> QED
    BY <2>2, <2>3
<1>4. CASE ReconcileNetlink \/ ReconcileVrfNetlink
  BY <1>0, <1>4 DEF ReconcileNetlink, ReconcileVrfNetlink, globalVars, Flags, ChangedFrom
<1> QED
  BY <1>1, <1>2, <1>3, <1>4 DEF Next

\* A part of the pass that touches no netlink, or makes the pass unsound, keeps
\* what the parts before it have settled.
LEMMA ImportKept == ASSUME IInv, [Next]_vars PROVE ImportDone'
<1>0. ImportDone /\ import \in Optional(ImportState)
  BY DEF IInv, TypeOK
<1> USE DEF ImportDone, Past
<1>1. CASE UNCHANGED vars
  BY <1>0, <1>1 DEF vars, ImportAsStated, needsImportUpdate
<1>2. CASE Edit \/ Create \/ Release \/ NotFound \/ Restart \/ Begin \/ ReconcileGlobal
           \/ CallFails \/ ExportNotReadBack
  BY <1>2 DEF Edit, Create, Release, NotFound, Restart, Begin, ReconcileGlobal, CallFails,
     ExportNotReadBack, Fail
<1>3. CASE ReconcileNetlink /\ pc = "import"
  <2>1. cr.import \in Optional(NetlinkImport) /\ (sound => cr = spec)
    BY <1>3, Working
  <2>2. import' = IF ~needsImportUpdate(cr.import) THEN import
                  ELSE IF On(cr.import) THEN EnableNetlinkImport(cr.import) ELSE Nil
    BY <1>3 DEF ReconcileNetlink
  <2>3. \A b \in Optional(NetlinkImport) :
           b = cr.import => ImportAsStated(b)' /\ ~needsImportUpdate(b)'
    BY <1>0, <2>2, ImportSettles
  <2>4. spec' = spec /\ sound' = sound
    BY <1>3 DEF ReconcileNetlink
  <2> QED
    BY <2>1, <2>3, <2>4 DEF ImportAsStated, needsImportUpdate
<1>4. CASE (ReconcileNetlink /\ pc # "import") \/ ReconcileVrfNetlink
  BY <1>0, <1>4 DEF ReconcileNetlink, ReconcileVrfNetlink, ImportAsStated,
     needsImportUpdate
<1> QED
  BY <1>1, <1>2, <1>3, <1>4 DEF Next

\* the export,
LEMMA ExportKept == ASSUME IInv, [Next]_vars PROVE ExportDone'
<1>0. ExportDone /\ export \in Optional(ExportState)
  BY DEF IInv, TypeOK
<1> USE DEF ExportDone, Past
<1>1. CASE UNCHANGED vars
  BY <1>0, <1>1 DEF vars, ExportAsStated, Quiet, needsExportUpdate
<1>2. CASE Edit \/ Create \/ Release \/ NotFound \/ Restart \/ Begin \/ ReconcileGlobal
           \/ CallFails \/ ExportNotReadBack
  BY <1>2 DEF Edit, Create, Release, NotFound, Restart, Begin, ReconcileGlobal, CallFails,
     ExportNotReadBack, Fail
<1>3. CASE ReconcileNetlink /\ pc = "export"
  <2>1. cr.export \in Optional(NetlinkExport) /\ (sound => cr = spec)
    BY <1>3, Working
  <2>2. export' = IF ~needsExportUpdate(cr.export) THEN export
                  ELSE IF On(cr.export) THEN EnableNetlinkExport(cr.export) ELSE Nil
    BY <1>3 DEF ReconcileNetlink
  <2>3. \A b \in Optional(NetlinkExport) : b = cr.export => ExportAsStated(b)' /\ Quiet(b)'
    BY <1>0, <2>2, ExportSettles
  <2>4. spec' = spec /\ sound' = sound
    BY <1>3 DEF ReconcileNetlink
  <2> QED
    BY <2>1, <2>3, <2>4 DEF ExportAsStated, Quiet, needsExportUpdate
<1>4. CASE (ReconcileNetlink /\ pc # "export") \/ ReconcileVrfNetlink
  BY <1>0, <1>4 DEF ReconcileNetlink, ReconcileVrfNetlink, ExportAsStated, Quiet,
     needsExportUpdate
<1> QED
  BY <1>1, <1>2, <1>3, <1>4 DEF Next

\* the import of a VRF,
LEMMA VrfImportKept == ASSUME IInv, [Next]_vars PROVE VrfImportDone'
<1>0. VrfImportDone /\ vrfImport \in Optional(Values)
  BY DEF IInv, TypeOK
<1> USE DEF VrfImportDone, Past
<1>1. CASE UNCHANGED vars
  BY <1>0, <1>1 DEF vars, VrfImportAsStated, needsVrfImportUpdate
<1>2. CASE Edit \/ Create \/ Release \/ NotFound \/ Restart \/ Begin \/ ReconcileGlobal
           \/ ReconcileNetlink \/ CallFails \/ ExportNotReadBack
  BY <1>2 DEF Edit, Create, Release, NotFound, Restart, Begin, ReconcileGlobal,
     ReconcileNetlink, CallFails, ExportNotReadBack, Fail
<1>3. CASE ReconcileVrfNetlink /\ pc = "vrfImport"
  <2>1. cr.vrfImport \in Optional(VrfNetlinkImport) /\ (sound => cr = spec)
    BY <1>3, Working
  <2>2. vrfImport' = IF ~needsVrfImportUpdate(cr.vrfImport) THEN vrfImport
                     ELSE IF On(cr.vrfImport) THEN cr.vrfImport.interfaces ELSE Nil
    BY <1>3 DEF ReconcileVrfNetlink
  <2>3. \A b \in Optional(VrfNetlinkImport) :
           b = cr.vrfImport => VrfImportAsStated(b)' /\ ~needsVrfImportUpdate(b)'
    BY <1>0, <2>2, VrfImportSettles
  <2>4. spec' = spec /\ sound' = sound
    BY <1>3 DEF ReconcileVrfNetlink
  <2> QED
    BY <2>1, <2>3, <2>4 DEF VrfImportAsStated, needsVrfImportUpdate
<1>4. CASE ReconcileVrfNetlink /\ pc # "vrfImport"
  BY <1>0, <1>4 DEF ReconcileVrfNetlink, VrfImportAsStated, needsVrfImportUpdate
<1> QED
  BY <1>1, <1>2, <1>3, <1>4 DEF Next

\* and its export.
LEMMA VrfExportKept == ASSUME IInv, [Next]_vars PROVE VrfExportDone'
<1>0. VrfExportDone /\ vrfExport \in Optional(VrfExportState)
  BY DEF IInv, TypeOK
<1> USE DEF VrfExportDone, Past
<1>1. CASE UNCHANGED vars
  BY <1>0, <1>1 DEF vars, VrfExportAsStated, needsVrfExportUpdate
<1>2. CASE Edit \/ Create \/ Release \/ NotFound \/ Restart \/ Begin \/ ReconcileGlobal
           \/ ReconcileNetlink \/ CallFails \/ ExportNotReadBack
  BY <1>2 DEF Edit, Create, Release, NotFound, Restart, Begin, ReconcileGlobal,
     ReconcileNetlink, CallFails, ExportNotReadBack, Fail
<1>3. CASE ReconcileVrfNetlink /\ pc = "vrfExport"
  <2>1. cr.vrfExport \in Optional(VrfNetlinkExport) /\ (sound => cr = spec)
    BY <1>3, Working
  <2>2. vrfExport' = IF ~needsVrfExportUpdate(cr.vrfExport) THEN vrfExport
                     ELSE IF On(cr.vrfExport) THEN EnableVrfNetlinkExport(cr.vrfExport)
                     ELSE Nil
    BY <1>3 DEF ReconcileVrfNetlink
  <2>3. \A b \in Optional(VrfNetlinkExport) :
           b = cr.vrfExport => VrfExportAsStated(b)' /\ ~needsVrfExportUpdate(b)'
    BY <1>0, <2>2, VrfExportSettles
  <2>4. spec' = spec /\ sound' = sound
    BY <1>3 DEF ReconcileVrfNetlink
  <2> QED
    BY <2>1, <2>3, <2>4 DEF VrfExportAsStated, needsVrfExportUpdate
<1>4. CASE ReconcileVrfNetlink /\ pc # "vrfExport"
  BY <1>4 DEF ReconcileVrfNetlink
<1> QED
  BY <1>1, <1>2, <1>3, <1>4 DEF Next

\* Only a sound pass that has ended lets a release leave nothing on.
LEMMA OffKept == ASSUME IInv, [Next]_vars PROVE Off'
<1>0. Off /\ Copies /\ ImportDone /\ ExportDone
  BY DEF IInv
<1> USE DEF Off
<1>1. CASE UNCHANGED vars
  BY <1>0, <1>1 DEF vars
<1>2. CASE Edit \/ Create \/ NotFound \/ Restart \/ Begin \/ CallFails \/ ExportNotReadBack
  BY <1>0, <1>2 DEF Edit, Create, NotFound, Restart, Begin, CallFails, ExportNotReadBack,
     Fail, Copies
<1>3. CASE Release
  <2>1. SUFFICES ASSUME sound'
                 PROVE  import' = Nil /\ export' = Nil /\ vrfImport' = Nil /\ vrfExport' = Nil
    OBVIOUS
  <2>2. sound /\ spec # Nil /\ pc = "idle"
        /\ import' = (IF On(spec.import) THEN Nil ELSE import)
        /\ export' = (IF On(spec.export) THEN Nil ELSE export)
    BY <1>3, <2>1 DEF Release
  <2>3. (~On(spec.import) => import = Nil) /\ (~On(spec.export) => export = Nil)
    BY <1>0, <2>2 DEF ImportDone, ExportDone, Past, ImportAsStated, ExportAsStated
  <2> QED
    BY <1>3, <2>2, <2>3 DEF Release
<1>4. CASE ReconcileGlobal \/ ReconcileNetlink \/ ReconcileVrfNetlink
  BY <1>0, <1>4 DEF ReconcileGlobal, ReconcileNetlink, ReconcileVrfNetlink, Copies
<1> QED
  BY <1>1, <1>2, <1>3, <1>4 DEF Next

-----------------------------------------------------------------------------
\* The inductive invariant.
THEOREM Invariance == Spec => []IInv
<1>1. IInv /\ [Next]_vars => IInv'
  BY TypeKept, CopiesKept, GlobalKept, ImportKept, ExportKept, VrfImportKept,
     VrfExportKept, OffKept DEF IInv
<1> QED
  BY InitInv, <1>1, PTL DEF Spec

\* Every reachable state is well typed: gobgpd is never told of a field that
\* no object states, whatever is left out (the converters).
THEOREM TypeCorrect == Spec => []TypeOK
<1>1. IInv => TypeOK
  BY DEF IInv
<1> QED
  BY Invariance, <1>1, PTL

\* global_restart_required names no setting that a restart would leave as it
\* is, and misses none that it would change but for helperOnly and a guarded
\* field no longer stated, whatever was edited, undone, deleted or created
\* before (reconcileGlobal, SetGlobalRestartRequired).
THEOREM TrueFlags == Spec => []FlagsAreTrue
<1>1. IInv => FlagsAreTrue
  BY DEF IInv, GlobalDone, Past, Flags, ChangedFrom, Changed, FlagsAreTrue, Applied
<1> QED
  BY Invariance, <1>1, PTL

\* After a pass netlink is as the object states it, and off after its deletion
\* (reconcileNetlink, reconcileVrfNetlink, reconcileDelete).
THEOREM Netlink == Spec => []NetlinkAsStated
<1>1. IInv => NetlinkAsStated
  BY DEF IInv, ImportDone, ExportDone, VrfImportDone, VrfExportDone, Off, Past, Applied,
     NetlinkAsStated
<1> QED
  BY Invariance, <1>1, PTL

\* A second pass over the same object sends no netlink call (needsImportUpdate,
\* needsExportUpdate, vrfNetlinkExportEqual).
THEOREM Idempotent == Spec => []NetlinkIsQuiet
<1>1. IInv => NetlinkIsQuiet
  BY DEF IInv, ImportDone, ExportDone, VrfImportDone, VrfExportDone, Past, Applied, Quiet,
     NetlinkIsQuiet
<1> QED
  BY Invariance, <1>1, PTL
=============================================================================
