---------------------- MODULE NodeStatusReporterProofs ----------------------
(***************************************************************************)
(* Proofs about NodeStatusReporter, for every world, configuration, number *)
(* of attempts, heartbeat and length of a collection: what writeStatus     *)
(* compares with is what the object holds, an agent that stops says so, the*)
(* heartbeat keeps the object young and a change is published in time.     *)
(***************************************************************************)
EXTENDS NodeStatusReporter, SequenceTheorems, FiniteSetTheorems, TLAPS

\* Before the loop.
Early == {"start", "startHb", "ensure", "initial"}

\* From the ticker on.
Running == {"initial", "idle", "asn", "collect", "compare", "sleep", "write", "shutdown"}

\* The object and the statuses are records.
Shapes ==
    /\ cr = [exists |-> cr.exists, status |-> cr.status, shutdown |-> cr.shutdown]
    /\ cr.exists \in BOOLEAN
    /\ cr.status # Nil => "healthy" \in DOMAIN cr.status
    /\ "healthy" \in DOMAIN status

\* Nothing is remembered before the first write of this process.
NothingYet == pc \in Early => lastWritten = Nil /\ first = TRUE

\* A cache that keeps up has the object as soon as it exists, and it exists
\* before the loop begins.
CacheKeepsUp ==
    ~Lag => /\ cached \in {"absent", "current"} /\ (cached = "current" <=> cr.exists = TRUE)
            /\ ~ApiFaults /\ pc \in Running => cached = "current"

\* The inductive invariant.
IInv == Shapes /\ NothingYet /\ CacheKeepsUp /\ MemoryIsPublished /\ StoppedIsMarked

\* It holds at first,
LEMMA InitIInv == Init => IInv
BY DEF Init, IInv, Shapes, NothingYet, CacheKeepsUp, MemoryIsPublished, StoppedIsMarked,
   NoObject, NoStatus, Early, Running

\* A step that leaves the object, the cache and the memory alone, and moves
\* within the loop.
LEMMA Elsewhere ==
    ASSUME IInv, UNCHANGED <<lastWritten, cr, cached>>,
           "healthy" \in DOMAIN status',
           \/ pc' = pc /\ first' = first
           \/ pc' \in Running \ {"initial"} /\ pc \in Running
           \/ pc \in Early /\ pc' \in Early \ {"initial"} /\ first' = first
    PROVE  IInv'
BY DEF IInv, Shapes, NothingYet, CacheKeepsUp, MemoryIsPublished, StoppedIsMarked,
   Early, Running

\* collectAndWrite returns to the loop.
LEMMA Returns ==
    ASSUME NEW t, Return(t)
    PROVE  pc' = "idle" /\ first' = FALSE /\ "healthy" \in DOMAIN status'
BY DEF Return, NoStatus

\* Around the reporter.
LEMMA EnvironmentStep ==
    ASSUME IInv, Environment
    PROVE  IInv'
<1>1. CASE WorldChanges \/ (\E c \in Config : UpdateConfig(c)) \/ Store \/ Stop \/ Pass
  <2>1. UNCHANGED <<pc, first, status, lastWritten, cr, cached>>
    BY <1>1, Zenon DEF WorldChanges, UpdateConfig, Store, Stop, Pass, startVars, collectVars, crVars
  <2>. QED
    BY <2>1, Elsewhere DEF IInv, Shapes
<1>2. CASE CacheSync
  BY <1>2 DEF CacheSync, IInv, Shapes, NothingYet, CacheKeepsUp, MemoryIsPublished,
     StoppedIsMarked, Early, Running, startVars, collectVars
<1>3. CASE Restart
  BY <1>3 DEF Restart, IInv, Shapes, NothingYet, CacheKeepsUp, MemoryIsPublished,
     StoppedIsMarked, Early, Running, NoStatus
<1>. QED
  BY <1>1, <1>2, <1>3 DEF Environment

\* ensureBGPNodeStatus.
LEMMA EnsureStep ==
    ASSUME IInv, Ensure
    PROVE  IInv'
<1>1. /\ pc = "ensure" /\ pc' \in {"ensure", "initial", "stopped"}
      /\ UNCHANGED <<first, status, lastWritten>>
  BY DEF Ensure, EnsureFails, collectVars
<1>2. lastWritten = Nil /\ first = TRUE
  BY <1>1 DEF IInv, NothingYet, Early
<1>3. NothingYet' /\ MemoryIsPublished' /\ StoppedIsMarked'
  BY <1>1, <1>2 DEF NothingYet, MemoryIsPublished, StoppedIsMarked
<1>4. CASE UNCHANGED crVars
  <2>1. ~Lag /\ ~ApiFaults /\ pc' = "initial" => cached = "current"
    <3>1. CASE cached # "absent"
      BY <3>1 DEF IInv, CacheKeepsUp
    <3>2. CASE cached = "absent" /\ ~cr.exists /\ cr' = [NoObject EXCEPT !.exists = TRUE]
      BY <1>4, <3>2 DEF crVars, NoObject
    <3>3. CASE ApiFaults \/ (cached = "absent" /\ cr.exists)
      BY <3>3 DEF IInv, Shapes, CacheKeepsUp
    <3>. QED
      BY <1>1, <3>1, <3>2, <3>3 DEF Ensure
  <2>. QED
    BY <1>1, <1>3, <1>4, <2>1 DEF IInv, Shapes, CacheKeepsUp, Running, crVars
<1>5. CASE /\ cr' = [NoObject EXCEPT !.exists = TRUE]
           /\ cached' \in (IF Lag THEN {"absent", "current"} ELSE {"current"})
  <2>1. cr' = [exists |-> TRUE, status |-> Nil, shutdown |-> FALSE]
    BY <1>5 DEF NoObject
  <2>. QED
    <3>1. Shapes'
      BY <1>1, <2>1 DEF IInv, Shapes
    <3>2. CacheKeepsUp'
      BY <1>5, <2>1 DEF CacheKeepsUp
    <3>. QED
      BY <1>3, <3>1, <3>2 DEF IInv
<1>. QED
  BY <1>4, <1>5 DEF Ensure, EnsureFails

\* The loop, up to the write.
LEMMA LoopStep ==
    ASSUME IInv, SetDefaults \/ Initial \/ Done \/ Tick \/ ReadASN \/ Collect \/ Compare \/ Wake
    PROVE  IInv'
<1>1. UNCHANGED <<lastWritten, cr, cached>>
  BY Zenon DEF SetDefaults, Initial, Done, Tick, ReadASN, Collect, Compare, Wake, crVars
<1>2. "healthy" \in DOMAIN status
  BY DEF IInv, Shapes
<1>3. CASE SetDefaults
  BY <1>1, <1>2, <1>3, Elsewhere DEF SetDefaults, Early, startVars, collectVars
<1>4. CASE Initial
  BY <1>1, <1>4, Elsewhere DEF Initial, Begin, NoStatus, Running, startVars
<1>5. CASE Done \/ Wake
  BY <1>1, <1>2, <1>5, Elsewhere DEF Done, Wake, Running, startVars, collectVars
<1>6. CASE Tick
  BY <1>1, <1>2, <1>6, Elsewhere DEF Tick, Begin, NoStatus, Running, startVars, collectVars
<1>7. CASE ReadASN
  BY <1>1, <1>2, <1>7, Elsewhere DEF ReadASN, Running, startVars
<1>8. CASE Collect
  <2>1. pc = "collect" /\ pc' \in {"compare", "collect"} /\ DOMAIN status' = DOMAIN status
    BY <1>8 DEF Collect
  <2>. QED
    BY <1>1, <1>2, <2>1, Elsewhere DEF Running
<1>9. CASE Compare
  <2>1. pc = "compare" /\ pc' \in {"idle", "write", "sleep"} /\ "healthy" \in DOMAIN status'
    BY <1>2, <1>9, Returns DEF Compare
  <2>. QED
    BY <1>1, <2>1, Elsewhere DEF Running
<1>. QED
  BY <1>3, <1>4, <1>5, <1>6, <1>7, <1>8, <1>9

\* writeStatus.
LEMMA WriteStep ==
    ASSUME IInv, Write
    PROVE  IInv'
<1>1. pc = "write" /\ pc' = "idle" /\ first' = FALSE /\ "healthy" \in DOMAIN status'
  BY Returns DEF Write
<1>2. CASE UNCHANGED <<lastWritten, crVars>>
  BY <1>1, <1>2, Elsewhere DEF Running, crVars
<1>3. CASE cr' = Published /\ Outdated /\ cached = "current"
           /\ (lastWritten' = status \/ LostReplies)
  BY <1>1, <1>3 DEF IInv, Shapes, NothingYet, CacheKeepsUp, MemoryIsPublished,
     StoppedIsMarked, Early, Running, Published, Outdated
<1>. QED
  BY <1>2, <1>3 DEF Write

\* markShutdown.
LEMMA ShutdownStep ==
    ASSUME IInv, MarkShutdown
    PROVE  IInv'
<1>1. pc = "shutdown" /\ pc' = "stopped" /\ UNCHANGED <<first, status, lastWritten>>
  BY DEF MarkShutdown, startVars, collectVars
<1>2. CASE /\ cached = "current" /\ Outdated
           /\ cr' = [cr EXCEPT !.shutdown = TRUE,
                               !.status = IF @ = Nil THEN Nil
                                          ELSE [@ EXCEPT !.healthy = FALSE]]
  <2>1. /\ cr'.exists = cr.exists /\ cr'.shutdown = TRUE
        /\ cr'.status = (IF cr.status = Nil THEN Nil
                         ELSE [cr.status EXCEPT !.healthy = FALSE])
        /\ cr' = [exists |-> cr'.exists, status |-> cr'.status, shutdown |-> cr'.shutdown]
    BY <1>2 DEF IInv, Shapes
  <2>2. cr.status # Nil =>
            cr'.status.healthy = FALSE /\ "healthy" \in DOMAIN cr'.status
    BY <2>1 DEF IInv, Shapes
  <2>. QED
    BY <1>1, <1>2, <2>1, <2>2 DEF IInv, Shapes, NothingYet, CacheKeepsUp, MemoryIsPublished,
       StoppedIsMarked, Early, Running, Outdated
<1>3. CASE (cached # "current" \/ ApiFaults) /\ UNCHANGED crVars
  BY <1>1, <1>3 DEF IInv, Shapes, NothingYet, CacheKeepsUp, MemoryIsPublished,
     StoppedIsMarked, Early, Running, crVars
<1>. QED
  BY <1>2, <1>3 DEF MarkShutdown

\* and every step keeps it.
LEMMA IInvStep == IInv /\ [Next]_vars => IInv'
<1> SUFFICES ASSUME IInv, [Next]_vars PROVE IInv'
  OBVIOUS
<1>1. CASE UNCHANGED vars
  <2>1. UNCHANGED <<pc, first, status, lastWritten, cr, cached>>
    BY <1>1 DEF vars
  <2>. QED
    BY <2>1, Elsewhere DEF IInv, Shapes
<1>2. CASE Reporter
  BY <1>2, EnsureStep, LoopStep, WriteStep, ShutdownStep DEF Reporter
<1>. QED
  BY <1>1, <1>2, EnvironmentStep DEF Next

\* The inductive invariant: nothing is remembered before this process has
\* written, and a cache that keeps up has the object before the loop begins.
THEOREM Invariance == Spec => []IInv
BY InitIInv, IInvStep, PTL DEF Spec

\* lastWrittenStatus, which decides whether writeStatus writes at all, is what
\* the object holds, through refused writes, crashes and restarts.
THEOREM Remembered == Spec => []MemoryIsPublished
<1>1. IInv => MemoryIsPublished
  BY DEF IInv
<1>. QED
  BY <1>1, Invariance, PTL

\* markShutdown is the last word of an agent that stops: no write of
\* writeStatus follows it.
THEOREM Marked == Spec => []StoppedIsMarked
<1>1. IInv => StoppedIsMarked
  BY DEF IInv
<1>. QED
  BY <1>1, Invariance, PTL
-----------------------------------------------------------------------------
(***************************************************************************)
(* Types.                                                                  *)
(***************************************************************************)

\* The atomics that UpdateConfig may have yet to store, and the parts that
\* collectStatus may have yet to collect.
Storings == {<<>>, <<"asn">>, <<"rid", "asn">>, <<"hb", "rid", "asn">>, Fields}

Todos == {<<>>, <<"bfd">>, <<"vrfs", "bfd">>, <<"export", "vrfs", "bfd">>,
          <<"rib", "export", "vrfs", "bfd">>,
          <<"import", "rib", "export", "vrfs", "bfd">>, PartsInOrder}

\* The collection and its write are under way, and the loop.
Busy == {"asn", "collect", "compare", "sleep", "write"}
Loop == Busy \cup {"idle"}

\* Most a writer sleeps.
Pause == Longest \div 4

\* UpdateConfig: a configuration is behind the atomics; they are coherent once
\* all of them are stored, and the heartbeat is set before the loop.
ConfInv ==
    /\ conf \in Config \cup {Nil} /\ storing \in Storings
    /\ storing # <<>> => conf \in Config /\ timer.quiet = 0
    /\ atoms = [enabled |-> atoms.enabled, hb |-> atoms.hb, rid |-> atoms.rid,
                asn |-> atoms.asn]
    /\ atoms.enabled \in BOOLEAN
    /\ pc \notin {"start", "startHb"} => atoms.hb \in Heartbeats
    /\ storing = <<>> => atoms.asn = atoms.rid
    /\ storing = <<"asn">> => atoms.rid = conf.rid

\* Where the goroutine is, and what it has at hand there.
PlaceInv ==
    /\ world \in Worlds /\ pc \in PC /\ first \in BOOLEAN /\ stopping \in BOOLEAN
    /\ attempt \in 0..EnsureAttempts
    /\ pc \in {"start", "startHb", "ensure"} => attempt < EnsureAttempts
    /\ status = [parts |-> status.parts, rid |-> status.rid, asn |-> status.asn,
                 healthy |-> status.healthy]
    /\ status.parts = [p \in Parts |-> status.parts[p]]
    /\ todo \in Todos
    /\ pc = "asn" => todo = PartsInOrder
    /\ pc = "collect" => todo # <<>>
    /\ cr = [exists |-> cr.exists, status |-> cr.status, shutdown |-> cr.shutdown]
    /\ cr.exists \in BOOLEAN /\ cr.shutdown \in BOOLEAN
    /\ cached \in {"absent", "stale", "current"}

\* The clocks: in the loop the ticker runs, and no sleep is longer than the
\* longest pause.
ClockInv ==
    /\ timer \in Timer /\ tick \in BOOLEAN /\ period \in Heartbeats
    /\ pc \in Loop => timer.toTick > 0
    /\ timer.sleep <= Pause

-----------------------------------------------------------------------------
(***************************************************************************)
(* Time.                                                                   *)
(***************************************************************************)

\* Time left, at most, before the collection under way, or the next one, is
\* written.
Left ==
    CASE pc = "idle" -> (IF tick THEN 0 ELSE timer.toTick) + CollectMax + Pause
      [] pc \in {"asn", "collect", "compare"} -> CollectMax - timer.busy + Pause
      [] pc = "sleep" -> CollectMax - timer.busy + timer.sleep
      [] OTHER -> CollectMax - timer.busy

\* The last change, or the last fault, is recent: Left from now it will be at
\* most the bound ago.
ChangedWithin(bound) == timer.quiet + Left <= bound
FailedWithin(bound) == timer.calm + Left <= bound

\* What the object holds is younger than what this process remembers, and if
\* they differ a write has failed since.
AgesInv ==
    pc \in Loop /\ lastWritten # Nil =>
        /\ timer.age <= timer.sinceWrite
        /\ cr.status # lastWritten => timer.calm <= timer.sinceWrite

\* The object is as young as it should be when the next write is over.
HeartbeatInv ==
    pc \in Loop /\ atoms.enabled =>
        \/ timer.age + Left <= 2 * Longest + Slack
        \/ ChangedWithin(Longest + Slack)
        \/ FailedWithin(2 * Longest + Slack)

\* The object holds what this process remembers.
AgreeInv ==
    pc \in Loop /\ atoms.enabled =>
        \/ lastWritten # Nil /\ cr.status = lastWritten
        \/ ChangedWithin(Longest + Slack)
        \/ FailedWithin(2 * Longest + Slack)

\* A status that says what gobgpd holds, and which configuration it runs.
Faithful(s) ==
    /\ Depicts(s.parts, world)
    /\ s.healthy = Well(world)
    /\ s.rid = atoms.rid /\ s.asn = atoms.rid

\* The same of the status being collected, as far as it is.
FaithfulSoFar ==
    /\ status.rid = atoms.rid
    /\ pc # "asn" => status.asn = atoms.rid
    /\ \A p \in Parts : (\A i \in DOMAIN todo : todo[i] # p) =>
            status.parts[p] \in Collected(p, world)
    /\ pc \in {"compare", "sleep", "write"} => Faithful(status)

StatusInv ==
    pc \in Busy => FaithfulSoFar \/ ChangedWithin(Slack) \/ FailedWithin(Slack)

\* What this process remembers is faithful.
MemoryInv ==
    pc \in Loop /\ atoms.enabled /\ lastWritten # Nil =>
        \/ Faithful(lastWritten)
        \/ ChangedWithin(Longest + 2 * Slack)
        \/ FailedWithin(2 * (Longest + Slack))

\* No list is longer than its cap.
Uncapped ==
    \A w \in Worlds :
        /\ IsFiniteSet(DOMAIN w.neighbors) /\ Cardinality(DOMAIN w.neighbors) <= MaxNeighbors
        /\ IsFiniteSet(w.inRIB) /\ IsFiniteSet(w.missing)
        /\ Cardinality(w.inRIB) + Cardinality(w.missing) <= MaxImported
        /\ Cardinality(w.installed \cup w.lost) <= MaxExported

\* The longest heartbeat, and the times made of it.
LEMMA Lengths ==
    /\ Longest \in Nat /\ Longest > 0 /\ Pause \in Nat /\ CollectMax \in Nat
    /\ \A h \in Heartbeats : h \in 1..Longest /\ h \div 4 \in 0..Pause
    /\ Slack = CollectMax + Pause /\ Slack \in Nat
    /\ Far = 2 * Longest + 2 * Slack + 1 /\ Far \in Nat /\ Pause <= Longest
    /\ DefaultHeartbeat \in Heartbeats
<1>1. Longest \in Heartbeats /\ \A g \in Heartbeats : g <= Longest
  BY HeartbeatAssumption DEF Longest
<1>2. \A h \in Heartbeats : h \in Nat /\ h > 0
  <2>1. Heartbeats \subseteq Nat \ {0}
    BY HeartbeatAssumption
  <2>. QED
    BY <2>1
<1>3. \A h \in Nat : h \div 4 \in Nat /\ h \div 4 <= h
  OBVIOUS
<1>4. \A g, h \in Nat : g <= h => g \div 4 <= h \div 4
  OBVIOUS
<1>5. Longest \in Nat /\ Longest > 0 /\ Pause \in Nat /\ Pause <= Longest
  BY <1>1, <1>2, <1>3 DEF Pause
<1>6. \A h \in Heartbeats : h \in 1..Longest /\ h \div 4 \in 0..Pause
  BY <1>1, <1>2, <1>3, <1>4, <1>5 DEF Pause
<1>7. CollectMax \in Nat /\ DefaultHeartbeat \in Heartbeats
  BY HeartbeatAssumption
<1>8. Slack = CollectMax + Pause
  BY DEF Slack, Pause
<1>. QED
  BY <1>5, <1>6, <1>7, <1>8 DEF Far

\* What is left of them when their first element is done.
LEMMA Tails ==
    /\ Tail(Fields) = <<"hb", "rid", "asn">> /\ Tail(<<"hb", "rid", "asn">>) = <<"rid", "asn">>
    /\ Tail(<<"rid", "asn">>) = <<"asn">> /\ Tail(<<"asn">>) = <<>>
    /\ Tail(PartsInOrder) = <<"import", "rib", "export", "vrfs", "bfd">>
    /\ Tail(<<"import", "rib", "export", "vrfs", "bfd">>) = <<"rib", "export", "vrfs", "bfd">>
    /\ Tail(<<"rib", "export", "vrfs", "bfd">>) = <<"export", "vrfs", "bfd">>
    /\ Tail(<<"export", "vrfs", "bfd">>) = <<"vrfs", "bfd">>
    /\ Tail(<<"vrfs", "bfd">>) = <<"bfd">> /\ Tail(<<"bfd">>) = <<>>
<1>1. Tail(Fields) = <<"hb", "rid", "asn">>
  BY DEF Fields
<1>2. Tail(<<"hb", "rid", "asn">>) = <<"rid", "asn">>
  OBVIOUS
<1>3. Tail(<<"rid", "asn">>) = <<"asn">> /\ Tail(<<"asn">>) = <<>>
  OBVIOUS
<1>4. Tail(PartsInOrder) = <<"import", "rib", "export", "vrfs", "bfd">>
  BY DEF PartsInOrder
<1>5. Tail(<<"import", "rib", "export", "vrfs", "bfd">>) = <<"rib", "export", "vrfs", "bfd">>
  OBVIOUS
<1>6. Tail(<<"rib", "export", "vrfs", "bfd">>) = <<"export", "vrfs", "bfd">>
  OBVIOUS
<1>7. Tail(<<"export", "vrfs", "bfd">>) = <<"vrfs", "bfd">>
  OBVIOUS
<1>8. Tail(<<"vrfs", "bfd">>) = <<"bfd">> /\ Tail(<<"bfd">>) = <<>>
  OBVIOUS
<1>. QED
  BY <1>1, <1>2, <1>3, <1>4, <1>5, <1>6, <1>7, <1>8

\* They are the suffixes that TypeOK names.
LEMMA Suffixes ==
    /\ \A s \in Storings : \E i \in 1..5 : s = SubSeq(Fields, i, 4)
    /\ \A s \in Todos : \E i \in 1..7 : s = SubSeq(PartsInOrder, i, 6)
<1> DEFINE Names == {"enabled", "hb", "rid", "asn"}
<1>1. /\ Fields \in Seq(Names) /\ Len(Fields) = 4
      /\ PartsInOrder \in Seq(Parts) /\ Len(PartsInOrder) = 6
  BY DEF Fields, PartsInOrder, Parts
<1> HIDE DEF Names
<1>2. SubSeq(Fields, 1, 4) = Fields
  BY <1>1, SubSeqProperties, SeqEqual
<1>3. SubSeq(PartsInOrder, 1, 6) = PartsInOrder
  BY <1>1, SubSeqProperties, SeqEqual
<1>4. \A i \in 1..4 : SubSeq(Fields, i + 1, 4) = Tail(SubSeq(Fields, i, 4))
  <2> TAKE i \in 1..4
  <2>1. i \in 1..Len(Fields) /\ 4 \in i..Len(Fields)
    BY <1>1
  <2>. QED
    BY <1>1, <2>1, HeadTailOfSubSeq, Zenon
<1>5. \A i \in 1..6 : SubSeq(PartsInOrder, i + 1, 6) = Tail(SubSeq(PartsInOrder, i, 6))
  <2> TAKE i \in 1..6
  <2>1. i \in 1..Len(PartsInOrder) /\ 6 \in i..Len(PartsInOrder)
    BY <1>1
  <2>. QED
    BY <1>1, <2>1, HeadTailOfSubSeq, Zenon
<1>6. /\ SubSeq(Fields, 2, 4) = Tail(SubSeq(Fields, 1, 4))
      /\ SubSeq(Fields, 3, 4) = Tail(SubSeq(Fields, 2, 4))
      /\ SubSeq(Fields, 4, 4) = Tail(SubSeq(Fields, 3, 4))
      /\ SubSeq(Fields, 5, 4) = Tail(SubSeq(Fields, 4, 4))
  BY <1>4
<1>7. /\ SubSeq(PartsInOrder, 2, 6) = Tail(SubSeq(PartsInOrder, 1, 6))
      /\ SubSeq(PartsInOrder, 3, 6) = Tail(SubSeq(PartsInOrder, 2, 6))
      /\ SubSeq(PartsInOrder, 4, 6) = Tail(SubSeq(PartsInOrder, 3, 6))
      /\ SubSeq(PartsInOrder, 5, 6) = Tail(SubSeq(PartsInOrder, 4, 6))
      /\ SubSeq(PartsInOrder, 6, 6) = Tail(SubSeq(PartsInOrder, 5, 6))
      /\ SubSeq(PartsInOrder, 7, 6) = Tail(SubSeq(PartsInOrder, 6, 6))
  BY <1>5
<1>8. \A s \in Storings : \E i \in 1..5 : s = SubSeq(Fields, i, 4)
  <2>1. 1 \in 1..5 /\ 2 \in 1..5 /\ 3 \in 1..5 /\ 4 \in 1..5 /\ 5 \in 1..5
    OBVIOUS
  <2>. QED
    BY <1>2, <1>6, <2>1, Tails, Zenon DEF Storings
<1>9. \A s \in Todos : \E i \in 1..7 : s = SubSeq(PartsInOrder, i, 6)
  <2>1. 1 \in 1..7 /\ 2 \in 1..7 /\ 3 \in 1..7 /\ 4 \in 1..7 /\ 5 \in 1..7 /\ 6 \in 1..7
        /\ 7 \in 1..7
    OBVIOUS
  <2>. QED
    BY <1>3, <1>7, <2>1, Tails, Zenon DEF Todos
<1>. QED
  BY <1>8, <1>9

\* One store of UpdateConfig.
LEMMA StoreCases ==
    ASSUME storing \in Storings, storing # <<>>
    PROVE  /\ Tail(storing) \in Storings
           /\ Head(storing) \in {"enabled", "hb", "rid", "asn"}
           /\ Tail(storing) = <<>> => storing = <<"asn">> /\ Head(storing) = "asn"
           /\ Tail(storing) = <<"asn">> => Head(storing) = "rid"
<1> USE Tails
<1>0. /\ Head(Fields) = "enabled" /\ Head(<<"hb", "rid", "asn">>) = "hb"
      /\ Head(<<"rid", "asn">>) = "rid" /\ Head(<<"asn">>) = "asn"
      /\ <<"asn">> # <<>> /\ <<"rid", "asn">> # <<>> /\ <<"hb", "rid", "asn">> # <<>>
      /\ <<"rid", "asn">> # <<"asn">> /\ <<"hb", "rid", "asn">> # <<"asn">>
  BY DEF Fields
<1>. QED
  BY <1>0, Zenon DEF Storings

\* One call of collectStatus.
LEMMA CollectCases ==
    ASSUME todo \in Todos, todo # <<>>
    PROVE  Tail(todo) \in Todos /\ Head(todo) \in Parts
<1> USE Tails
<1>0. /\ Head(PartsInOrder) = "neighbors"
      /\ Head(<<"import", "rib", "export", "vrfs", "bfd">>) = "import"
      /\ Head(<<"rib", "export", "vrfs", "bfd">>) = "rib"
      /\ Head(<<"export", "vrfs", "bfd">>) = "export"
      /\ Head(<<"vrfs", "bfd">>) = "vrfs" /\ Head(<<"bfd">>) = "bfd"
  BY DEF PartsInOrder
<1>. QED
  BY <1>0, Zenon DEF Todos, Parts

TypeInv == ConfInv /\ PlaceInv /\ ClockInv

\* The values of all clocks.
Clocks(t, toTick, busy, sleep, sinceWrite, age, quiet, calm) ==
    /\ t \in Timer
    /\ t.toTick = toTick /\ t.busy = busy /\ t.sleep = sleep
    /\ t.sinceWrite = sinceWrite /\ t.age = age /\ t.quiet = quiet /\ t.calm = calm

\* The clocks after a step that sets some of them.
LEMMA ClockSet ==
    ASSUME NEW t \in Timer
    PROVE  /\ Clocks([t EXCEPT !.quiet = 0], t.toTick, t.busy, t.sleep, t.sinceWrite,
                     t.age, 0, t.calm)
           /\ Clocks([t EXCEPT !.calm = 0], t.toTick, t.busy, t.sleep, t.sinceWrite,
                     t.age, t.quiet, 0)
           /\ Clocks([t EXCEPT !.calm = 0, !.age = 0], t.toTick, t.busy, t.sleep,
                     t.sinceWrite, 0, t.quiet, 0)
           /\ Clocks([t EXCEPT !.sinceWrite = 0, !.age = 0], t.toTick, t.busy, t.sleep,
                     0, 0, t.quiet, t.calm)
           /\ Clocks([t EXCEPT !.busy = 0], t.toTick, 0, t.sleep, t.sinceWrite,
                     t.age, t.quiet, t.calm)
           /\ Clocks([t EXCEPT !.age = 0], t.toTick, t.busy, t.sleep, t.sinceWrite,
                     0, t.quiet, t.calm)
           /\ \A h \in 0..Longest :
                /\ Clocks([t EXCEPT !.toTick = h], h, t.busy, t.sleep, t.sinceWrite,
                          t.age, t.quiet, t.calm)
                /\ Clocks([t EXCEPT !.sleep = h], t.toTick, t.busy, h, t.sinceWrite,
                          t.age, t.quiet, t.calm)
                /\ Clocks([t EXCEPT !.toTick = h, !.busy = 0, !.calm = 0, !.quiet = 0],
                          h, 0, t.sleep, t.sinceWrite, t.age, 0, 0)
<1>1. 0 \in 0..Longest /\ 0 \in 0..CollectMax /\ 0 \in 0..Far
  BY Lengths
<1> USE <1>1 DEF Timer, Clocks
<1>2. Clocks([t EXCEPT !.quiet = 0], t.toTick, t.busy, t.sleep, t.sinceWrite, t.age, 0, t.calm)
  OBVIOUS
<1>3. Clocks([t EXCEPT !.calm = 0], t.toTick, t.busy, t.sleep, t.sinceWrite, t.age, t.quiet, 0)
  OBVIOUS
<1>4. Clocks([t EXCEPT !.calm = 0, !.age = 0], t.toTick, t.busy, t.sleep, t.sinceWrite, 0,
             t.quiet, 0)
  OBVIOUS
<1>5. Clocks([t EXCEPT !.sinceWrite = 0, !.age = 0], t.toTick, t.busy, t.sleep, 0, 0,
             t.quiet, t.calm)
  OBVIOUS
<1>6. Clocks([t EXCEPT !.busy = 0], t.toTick, 0, t.sleep, t.sinceWrite, t.age, t.quiet, t.calm)
  OBVIOUS
<1>7. Clocks([t EXCEPT !.age = 0], t.toTick, t.busy, t.sleep, t.sinceWrite, 0, t.quiet, t.calm)
  OBVIOUS
<1>8. ASSUME NEW h \in 0..Longest
      PROVE  Clocks([t EXCEPT !.toTick = h], h, t.busy, t.sleep, t.sinceWrite, t.age,
                    t.quiet, t.calm)
  OBVIOUS
<1>9. ASSUME NEW h \in 0..Longest
      PROVE  Clocks([t EXCEPT !.sleep = h], t.toTick, t.busy, h, t.sinceWrite, t.age,
                    t.quiet, t.calm)
  OBVIOUS
<1>10. ASSUME NEW h \in 0..Longest
       PROVE  Clocks([t EXCEPT !.toTick = h, !.busy = 0, !.calm = 0, !.quiet = 0],
                     h, 0, t.sleep, t.sinceWrite, t.age, 0, 0)
  OBVIOUS
<1> HIDE <1>1 DEF Timer, Clocks
<1>. QED
  BY <1>2, <1>3, <1>4, <1>5, <1>6, <1>7, <1>8, <1>9, <1>10

\* The ticker and the sleep are not set by a step that resets another clock.
LEMMA ClockReset ==
    ASSUME NEW t \in Timer, NEW u,
           \/ u = t \/ u = [t EXCEPT !.calm = 0]
           \/ u = [t EXCEPT !.busy = 0] \/ u = [t EXCEPT !.age = 0]
    PROVE  u \in Timer /\ u.toTick = t.toTick /\ u.sleep = t.sleep
<1>1. CASE u = t
  BY <1>1
<1>2. CASE u = [t EXCEPT !.calm = 0]
  BY <1>2, ClockSet DEF Clocks
<1>3. CASE u = [t EXCEPT !.busy = 0]
  BY <1>3, ClockSet DEF Clocks
<1>4. CASE u = [t EXCEPT !.age = 0]
  BY <1>4, ClockSet DEF Clocks
<1>. QED
  BY <1>1, <1>2, <1>3, <1>4

\* One unit of time.
LEMMA PassClocks ==
    ASSUME ClockInv, pc \in Loop, Pass
    PROVE  /\ timer' \in Timer
           /\ timer'.toTick = (IF timer.toTick = 1 THEN period ELSE timer.toTick - 1)
           /\ timer'.busy = (IF pc \in {"asn", "collect", "write"}
                             THEN timer.busy + 1 ELSE timer.busy)
           /\ timer'.sleep = (IF pc = "sleep" THEN timer.sleep - 1 ELSE timer.sleep)
           /\ timer'.sinceWrite = Capped(timer.sinceWrite)
           /\ timer'.age = Capped(timer.age)
           /\ timer'.quiet = Capped(timer.quiet)
           /\ timer'.calm = Capped(timer.calm)
           /\ timer'.toTick > 0 /\ timer'.sleep <= Pause
           /\ tick' = (tick \/ timer.toTick = 1) /\ tick' \in BOOLEAN
           /\ UNCHANGED <<pc, period>>
<1> USE Lengths
<1>1. /\ timer.toTick \in 1..Longest /\ timer.busy \in 0..CollectMax
      /\ timer.sleep \in 0..Longest /\ timer.sleep <= Pause
      /\ timer.sinceWrite \in 0..Far /\ timer.age \in 0..Far
      /\ timer.quiet \in 0..Far /\ timer.calm \in 0..Far
      /\ period \in 1..Longest
  BY DEF ClockInv, Timer
<1>2. \A n \in 0..Far : Capped(n) \in 0..Far
  BY DEF Capped
<1> DEFINE t1 == IF timer.toTick = 1 THEN period ELSE timer.toTick - 1
           b1 == IF pc \in {"asn", "collect", "write"} THEN timer.busy + 1 ELSE timer.busy
           s1 == IF pc = "sleep" THEN timer.sleep - 1 ELSE timer.sleep
<1>3. t1 \in 0..Longest /\ t1 > 0
  BY <1>1
<1>4. b1 \in 0..CollectMax
  <2>1. pc \in {"asn", "collect", "write"} => timer.busy < CollectMax
    BY DEF Pass
  <2>. QED
    BY <1>1, <2>1
<1>5. s1 \in 0..Longest /\ s1 <= Pause
  <2>1. pc = "sleep" => timer.sleep > 0
    BY DEF Pass
  <2>2. CASE pc = "sleep"
    BY <1>1, <2>1, <2>2
  <2>3. CASE pc # "sleep"
    BY <1>1, <2>3
  <2>. QED
    BY <2>2, <2>3
<1>6. timer' = [toTick |-> t1, busy |-> b1, sleep |-> s1,
                sinceWrite |-> Capped(timer.sinceWrite), age |-> Capped(timer.age),
                quiet |-> Capped(timer.quiet), calm |-> Capped(timer.calm)]
  BY Zenon DEF Pass
<1>7. tick' = (tick \/ timer.toTick = 1) /\ UNCHANGED <<pc, period>>
  BY DEF Pass
<1> HIDE DEF t1, b1, s1
<1>8. timer' \in Timer
  BY <1>1, <1>2, <1>3, <1>4, <1>5, <1>6 DEF Timer
<1>9. tick' \in BOOLEAN
  BY <1>7
<1>10. /\ timer'.toTick = t1 /\ timer'.busy = b1 /\ timer'.sleep = s1
       /\ timer'.sinceWrite = Capped(timer.sinceWrite) /\ timer'.age = Capped(timer.age)
       /\ timer'.quiet = Capped(timer.quiet) /\ timer'.calm = Capped(timer.calm)
  BY <1>6
<1>. QED
  BY <1>3, <1>5, <1>7, <1>8, <1>9, <1>10 DEF t1, b1, s1

\* Time passes in the loop only.
LEMMA PassInLoop == Pass => pc \in Loop
BY DEF Pass, Loop, Busy

\* collectAndWrite returns: the clocks it may leave.
LEMMA ReturnClocks ==
    ASSUME TypeInv, pc \in Loop, NEW t \in Timer, t.toTick = timer.toTick, t.sleep = timer.sleep,
           Return(t)
    PROVE  /\ ClockInv'
           /\ \A f \in {"busy", "sleep", "sinceWrite", "age", "quiet", "calm"} : timer'[f] = t[f]
           /\ pc' = "idle" /\ status' = NoStatus
           /\ timer'.toTick \in 1..Longest
<1> USE Lengths
<1>1. atoms.hb \in Heartbeats
  BY DEF TypeInv, ConfInv, Loop, Busy
<1>2. CASE first \/ atoms.hb = period
  <2>1. timer' = t /\ UNCHANGED <<tick, period>> /\ pc' = "idle" /\ status' = NoStatus
    BY <1>2 DEF Return, tickVars
  <2>2. timer.toTick \in 1..Longest
    BY DEF TypeInv, ClockInv, Timer
  <2>. QED
    BY <2>1, <2>2 DEF TypeInv, ClockInv
<1>3. CASE ~(first \/ atoms.hb = period)
  <2>1. /\ timer' = [t EXCEPT !.toTick = atoms.hb] /\ tick' = FALSE /\ period' = atoms.hb
        /\ pc' = "idle" /\ status' = NoStatus
    BY <1>3 DEF Return
  <2>2. /\ timer' \in Timer /\ timer'.toTick = atoms.hb
        /\ \A f \in {"busy", "sleep", "sinceWrite", "age", "quiet", "calm"} : timer'[f] = t[f]
    BY <1>1, <2>1 DEF Timer
  <2>3. timer'.sleep <= Pause
    BY <2>2 DEF TypeInv, ClockInv
  <2>4. tick' \in BOOLEAN /\ period' \in Heartbeats /\ timer'.toTick \in 1..Longest
    BY <1>1, <2>1, <2>2
  <2>5. ClockInv'
    BY <2>2, <2>3, <2>4 DEF ClockInv
  <2>. QED
    BY <2>1, <2>2, <2>4, <2>5
<1>. QED
  BY <1>2, <1>3

\* How writeStatus ends.
LEMMA WriteFacts ==
    ASSUME TypeInv, Write
    PROVE  /\ pc = "write" /\ pc' = "idle" /\ status' = NoStatus
           /\ ClockInv' /\ timer'.toTick \in 1..Longest /\ timer'.quiet = timer.quiet
           /\ \/ /\ timer'.sinceWrite = 0 /\ timer'.age = 0 /\ timer'.calm = timer.calm
                 /\ cr' = Published /\ lastWritten' = status
              \/ /\ timer'.sinceWrite = timer.sinceWrite /\ timer'.age = 0 /\ timer'.calm = 0
                 /\ cr' = Published /\ lastWritten' = lastWritten
              \/ /\ timer'.sinceWrite = timer.sinceWrite /\ timer'.age = timer.age
                 /\ timer'.calm = 0 /\ cr' = cr /\ lastWritten' = lastWritten
<1>0. timer \in Timer /\ pc = "write" /\ pc \in Loop
  BY DEF TypeInv, ClockInv, Write, Loop, Busy
<1>1. CASE /\ Return([timer EXCEPT !.sinceWrite = 0, !.age = 0])
           /\ cr' = Published /\ lastWritten' = status
  <2> DEFINE t == [timer EXCEPT !.sinceWrite = 0, !.age = 0]
  <2>1. Clocks(t, timer.toTick, timer.busy, timer.sleep, 0, 0, timer.quiet, timer.calm) /\ Return(t)
    BY <1>0, <1>1, ClockSet
  <2> HIDE DEF t
  <2>. QED
    BY <1>0, <1>1, <2>1, ReturnClocks DEF Clocks
<1>2. CASE /\ Return([timer EXCEPT !.calm = 0, !.age = 0])
           /\ cr' = Published /\ lastWritten' = lastWritten
  <2> DEFINE t == [timer EXCEPT !.calm = 0, !.age = 0]
  <2>1. Clocks(t, timer.toTick, timer.busy, timer.sleep, timer.sinceWrite, 0, timer.quiet, 0)
        /\ Return(t)
    BY <1>0, <1>2, ClockSet
  <2> HIDE DEF t
  <2>. QED
    BY <1>0, <1>2, <2>1, ReturnClocks DEF Clocks
<1>3. CASE Return([timer EXCEPT !.calm = 0]) /\ cr' = cr /\ lastWritten' = lastWritten
  <2> DEFINE t == [timer EXCEPT !.calm = 0]
  <2>1. Clocks(t, timer.toTick, timer.busy, timer.sleep, timer.sinceWrite, timer.age,
               timer.quiet, 0) /\ Return(t)
    BY <1>0, <1>3, ClockSet
  <2> HIDE DEF t
  <2>. QED
    BY <1>0, <1>3, <2>1, ReturnClocks DEF Clocks
<1>. QED
  BY <1>1, <1>2, <1>3 DEF Write, crVars

\* How it begins.
LEMMA CompareFacts ==
    ASSUME TypeInv, Compare
    PROVE  /\ pc = "compare" /\ ClockInv' /\ UNCHANGED <<cr, lastWritten>>
           /\ timer'.busy = timer.busy /\ timer'.sinceWrite = timer.sinceWrite
           /\ timer'.age = timer.age /\ timer'.quiet = timer.quiet /\ timer'.calm = timer.calm
           /\ \/ /\ statusEqual(lastWritten, status) /\ timer.sinceWrite < atoms.hb
                 /\ pc' = "idle" /\ timer'.toTick \in 1..Longest /\ status' = NoStatus
              \/ pc' = "write" /\ UNCHANGED status
              \/ pc' = "sleep" /\ timer'.sleep \in 0..Pause /\ UNCHANGED status
<1>0. /\ timer \in Timer /\ pc = "compare" /\ pc \in Loop /\ ClockInv
      /\ atoms.hb \in Heartbeats
  BY DEF TypeInv, ClockInv, ConfInv, Compare, Loop, Busy
<1>00. UNCHANGED <<cr, lastWritten>>
  BY DEF Compare, crVars
<1>1. CASE Return(timer) /\ statusEqual(lastWritten, status) /\ timer.sinceWrite < atoms.hb
  BY <1>0, <1>00, <1>1, ReturnClocks
<1>2. CASE pc' = "write" /\ UNCHANGED <<first, status, timer, tickVars>>
  BY <1>0, <1>00, <1>2 DEF ClockInv, tickVars
<1>3. CASE /\ \E j \in Jitter(atoms.hb) : timer' = [timer EXCEPT !.sleep = j]
           /\ pc' = "sleep" /\ UNCHANGED <<first, status, tickVars>>
  <2>1. PICK j \in 0..(atoms.hb \div 4) : timer' = [timer EXCEPT !.sleep = j]
    BY <1>3 DEF Jitter
  <2>2. j \in 0..Pause /\ j \in 0..Longest
    BY <1>0, <2>1, Lengths
  <2>3. Clocks(timer', timer.toTick, timer.busy, j, timer.sinceWrite, timer.age,
               timer.quiet, timer.calm)
    BY <1>0, <2>1, <2>2, ClockSet
  <2>4. ClockInv'
    BY <1>0, <1>3, <2>2, <2>3 DEF ClockInv, Clocks, tickVars
  <2>. QED
    BY <1>0, <1>00, <1>3, <2>2, <2>3, <2>4 DEF Clocks
<1>. QED
  BY <1>1, <1>2, <1>3 DEF Compare

\* The clocks keep their types.
LEMMA ClockStep ==
    ASSUME TypeInv, Next
    PROVE  ClockInv'
<1> USE Lengths
<1>0. timer \in Timer /\ ClockInv
  BY DEF TypeInv, ClockInv
<1>1. CASE WorldChanges \/ (\E c \in Config : UpdateConfig(c))
  <2>1. timer' = [timer EXCEPT !.quiet = 0] /\ UNCHANGED <<pc, tick, period>>
    BY <1>1 DEF WorldChanges, UpdateConfig, tickVars
  <2>. QED
    BY <1>0, <2>1, ClockSet DEF ClockInv, Clocks
<1>2. CASE Store \/ CacheSync \/ Stop
  <2>1. UNCHANGED <<timer, pc, tick, period>>
    BY <1>2 DEF Store, CacheSync, Stop, tickVars
  <2>. QED
    BY <1>0, <2>1 DEF ClockInv
<1>3. CASE Restart
  <2>1. timer' = [ZeroTimer EXCEPT !.age = timer.age] /\ pc' = "start" /\ tick' = FALSE
        /\ period' = DefaultHeartbeat
    BY <1>3 DEF Restart
  <2>2. timer' \in Timer /\ timer'.sleep = 0
    BY <1>0, <2>1 DEF ZeroTimer, Timer
  <2>3. tick' \in BOOLEAN /\ period' \in Heartbeats
    BY <2>1
  <2>. QED
    BY <2>1, <2>2, <2>3 DEF ClockInv, Loop, Busy
<1>4. CASE Pass
  <2>1. pc \in Loop
    BY <1>4, PassInLoop
  <2>. QED
    BY <1>0, <1>4, <2>1, PassClocks DEF ClockInv
<1>5. CASE SetDefaults \/ Done \/ ReadASN \/ Wake
  <2>1. UNCHANGED <<timer, tick, period>> /\ (pc' \in Loop => pc \in Loop)
    BY <1>5 DEF SetDefaults, Done, ReadASN, Wake, tickVars, Loop, Busy
  <2>. QED
    BY <1>0, <2>1 DEF ClockInv
<1>6. CASE Ensure \/ MarkShutdown
  <2>1. /\ UNCHANGED <<tick, period>> /\ pc' \notin Loop
        /\ \/ timer' = timer \/ timer' = [timer EXCEPT !.calm = 0]
           \/ timer' = [timer EXCEPT !.age = 0]
    BY <1>6 DEF Ensure, EnsureFails, MarkShutdown, tickVars, Loop, Busy
  <2>2. timer' \in Timer /\ timer'.sleep = timer.sleep
    BY <1>0, <2>1, ClockReset
  <2>. QED
    BY <1>0, <2>1, <2>2 DEF ClockInv
<1>7. CASE Initial
  <2>1. /\ timer' = [timer EXCEPT !.toTick = atoms.hb, !.busy = 0, !.calm = 0, !.quiet = 0]
        /\ period' = atoms.hb /\ tick' = tick /\ atoms.hb \in Heartbeats
    BY <1>7 DEF Initial, TypeInv, ConfInv
  <2>2. atoms.hb \in 1..Longest
    BY <2>1
  <2>3. timer' \in Timer /\ timer'.toTick = atoms.hb /\ timer'.sleep = timer.sleep
    <3>1. atoms.hb \in 0..Longest
      BY <2>2
    <3>2. Clocks([timer EXCEPT !.toTick = atoms.hb, !.busy = 0, !.calm = 0, !.quiet = 0],
                 atoms.hb, 0, timer.sleep, timer.sinceWrite, timer.age, 0, 0)
      BY <1>0, <3>1, ClockSet, Zenon
    <3>. QED
      BY <2>1, <3>2 DEF Clocks
  <2>. QED
    BY <1>0, <2>1, <2>2, <2>3 DEF ClockInv
<1>8. CASE Tick
  <2>1. /\ pc = "idle" /\ tick' = FALSE /\ period' = period
        /\ timer' = timer \/ timer' = [timer EXCEPT !.busy = 0]
    BY <1>8 DEF Tick, Begin
  <2>2. timer' \in Timer /\ timer'.toTick = timer.toTick /\ timer'.sleep = timer.sleep
    BY <1>0, <2>1, ClockReset
  <2>3. tick' \in BOOLEAN /\ timer.toTick > 0
    BY <1>0, <2>1 DEF ClockInv, Loop
  <2>. QED
    BY <1>0, <2>1, <2>2, <2>3 DEF ClockInv
<1>9. CASE Collect
  <2>1. /\ pc = "collect" /\ UNCHANGED <<tick, period>>
        /\ timer' = timer \/ timer' = [timer EXCEPT !.calm = 0]
    BY <1>9 DEF Collect, tickVars
  <2>2. timer' \in Timer /\ timer'.toTick = timer.toTick /\ timer'.sleep = timer.sleep
    BY <1>0, <2>1, ClockReset
  <2>. QED
    BY <1>0, <2>1, <2>2 DEF ClockInv, Loop, Busy
<1>10. CASE Compare \/ Write
  BY <1>10, CompareFacts, WriteFacts
<1>. QED
  BY <1>1, <1>2, <1>3, <1>4, <1>5, <1>6, <1>7, <1>8, <1>9, <1>10
     DEF Next, Reporter, Environment

\* Only time lets the changes grow old.
LEMMA QuietStep ==
    ASSUME TypeInv, Next, ~Pass, timer.quiet = 0
    PROVE  timer'.quiet = 0
<1>0. timer \in Timer
  BY DEF TypeInv, ClockInv
<1>1. CASE Restart
  BY <1>1 DEF Restart, ZeroTimer
<1>2. CASE Compare \/ Write
  BY <1>2, CompareFacts, WriteFacts
<1>3. CASE WorldChanges \/ (\E c \in Config : UpdateConfig(c)) \/ Ensure \/ Initial \/ Tick
           \/ Collect \/ MarkShutdown
  <2>1. \/ timer' = timer \/ timer' = [timer EXCEPT !.quiet = 0]
        \/ timer' = [timer EXCEPT !.calm = 0] \/ timer' = [timer EXCEPT !.busy = 0]
        \/ timer' = [timer EXCEPT !.age = 0]
        \/ timer' = [timer EXCEPT !.toTick = atoms.hb, !.busy = 0, !.calm = 0, !.quiet = 0]
    BY <1>3 DEF WorldChanges, UpdateConfig, Ensure, EnsureFails, Initial, Tick, Collect,
       MarkShutdown
  <2>. QED
    BY <1>0, <2>1 DEF Timer
<1>4. CASE Store \/ CacheSync \/ Stop \/ SetDefaults \/ Done \/ ReadASN \/ Wake
  BY <1>4 DEF Store, CacheSync, Stop, SetDefaults, Done, ReadASN, Wake
<1>. QED
  BY <1>1, <1>2, <1>3, <1>4 DEF Next, Reporter, Environment

\* What the reconciler passes.
LEMMA Configs ==
    ASSUME NEW c \in Config
    PROVE  c.enabled \in BOOLEAN /\ c.hb \in Heartbeats /\ c.asn = c.rid
<1>1. PICK e \in {TRUE, ~MayDisable}, h \in Heartbeats, i \in Identities :
            c = [enabled |-> e, hb |-> h, rid |-> i, asn |-> i]
  BY DEF Config
<1>2. e \in BOOLEAN
  OBVIOUS
<1>. QED
  BY <1>1, <1>2

\* The atomics keep what ConfInv says of them.
LEMMA ConfStep ==
    ASSUME TypeInv, Next
    PROVE  ConfInv'
<1>0. ConfInv
  BY DEF TypeInv
<1>1. CASE \E c \in Config : UpdateConfig(c)
  <2>1. /\ conf' \in Config /\ storing' = Fields /\ UNCHANGED <<atoms, pc>>
        /\ timer' = [timer EXCEPT !.quiet = 0]
    BY <1>1 DEF UpdateConfig
  <2>2. timer'.quiet = 0
    BY <2>1, ClockSet DEF Clocks, TypeInv, ClockInv
  <2>3. Fields \in Storings /\ Fields # <<>> /\ Fields # <<"asn">>
    BY DEF Storings, Fields
  <2>. QED
    BY <1>0, <2>1, <2>2, <2>3 DEF ConfInv
<1>2. CASE Store
  <2>1. /\ storing # <<>> /\ storing' = Tail(storing)
        /\ atoms' = [atoms EXCEPT ![Head(storing)] = conf[Head(storing)]]
        /\ UNCHANGED <<conf, pc, timer>>
    BY <1>2 DEF Store
  <2>2. /\ Tail(storing) \in Storings
        /\ Head(storing) \in {"enabled", "hb", "rid", "asn"}
        /\ Tail(storing) = <<>> => storing = <<"asn">> /\ Head(storing) = "asn"
        /\ Tail(storing) = <<"asn">> => Head(storing) = "rid"
    BY <1>0, <2>1, StoreCases DEF ConfInv
  <2>3. /\ conf \in Config /\ timer.quiet = 0
        /\ conf.enabled \in BOOLEAN /\ conf.hb \in Heartbeats /\ conf.asn = conf.rid
    BY <1>0, <2>1, Configs DEF ConfInv
  <2>4. /\ atoms' = [enabled |-> atoms'.enabled, hb |-> atoms'.hb, rid |-> atoms'.rid,
                     asn |-> atoms'.asn]
        /\ atoms'.enabled = (IF Head(storing) = "enabled" THEN conf.enabled ELSE atoms.enabled)
        /\ atoms'.hb = (IF Head(storing) = "hb" THEN conf.hb ELSE atoms.hb)
        /\ atoms'.rid = (IF Head(storing) = "rid" THEN conf.rid ELSE atoms.rid)
        /\ atoms'.asn = (IF Head(storing) = "asn" THEN conf.asn ELSE atoms.asn)
    BY <1>0, <2>1, <2>2 DEF ConfInv
  <2>5. atoms'.enabled \in BOOLEAN
    BY <1>0, <2>3, <2>4 DEF ConfInv
  <2>. QED
    BY <1>0, <2>1, <2>2, <2>3, <2>4, <2>5 DEF ConfInv
<1>3. CASE Restart
  <2>1. /\ conf' = Nil /\ storing' = <<>> /\ pc' = "start"
        /\ atoms' = [enabled |-> FALSE, hb |-> 0, rid |-> Nil, asn |-> Nil]
    BY <1>3 DEF Restart, NoAtoms
  <2>2. atoms'.enabled \in BOOLEAN
    BY <2>1
  <2>3. <<>> \in Storings /\ <<>> # <<"asn">>
    BY DEF Storings
  <2>. QED
    BY <2>1, <2>2, <2>3 DEF ConfInv
<1>4. CASE SetDefaults
  <2>1. /\ UNCHANGED <<conf, storing, timer>>
        /\ \/ /\ pc = "start" /\ pc' = "startHb"
              /\ atoms' = [atoms EXCEPT !.enabled = TRUE]
           \/ /\ pc' = "ensure"
              /\ atoms' = [atoms EXCEPT !.hb = DefaultHeartbeat]
    BY <1>4 DEF SetDefaults
  <2>2. /\ atoms' = [enabled |-> atoms'.enabled, hb |-> atoms'.hb, rid |-> atoms'.rid,
                     asn |-> atoms'.asn]
        /\ atoms'.enabled \in {atoms.enabled, TRUE} /\ atoms'.rid = atoms.rid
        /\ atoms'.asn = atoms.asn
        /\ pc' = "ensure" => atoms'.hb = DefaultHeartbeat
    BY <1>0, <2>1 DEF ConfInv
  <2>3. atoms'.enabled \in BOOLEAN /\ DefaultHeartbeat \in Heartbeats
    BY <1>0, <2>2, Lengths DEF ConfInv
  <2>. QED
    BY <1>0, <2>1, <2>2, <2>3 DEF ConfInv
<1>5. CASE Pass
  <2>1. storing = <<>> /\ UNCHANGED <<conf, atoms, storing, pc>>
    BY <1>5 DEF Pass, confVars
  <2>. QED
    BY <1>0, <2>1 DEF ConfInv
<1>6. CASE ~Pass /\ (\/ WorldChanges \/ CacheSync \/ Stop \/ Ensure \/ Initial \/ Done \/ Tick
                     \/ ReadASN \/ Collect \/ Compare \/ Wake \/ Write \/ MarkShutdown)
  <2>1. UNCHANGED <<conf, atoms, storing>>
    BY <1>6, Zenon DEF WorldChanges, CacheSync, Stop, Ensure, Initial, Done, Tick, ReadASN,
       Collect, Compare, Wake, Write, MarkShutdown, confVars
  <2>2. pc' = pc \/ (pc \notin {"start", "startHb"} /\ pc' \notin {"start", "startHb"})
    BY <1>6 DEF WorldChanges, CacheSync, Stop, Ensure, EnsureFails, Initial, Begin, Done, Tick,
       ReadASN, Collect, Compare, Return, Wake, Write, MarkShutdown
  <2>3. timer.quiet = 0 => timer'.quiet = 0
    BY <1>6, QuietStep
  <2>. QED
    BY <1>0, <2>1, <2>2, <2>3 DEF ConfInv
<1>. QED
  BY <1>1, <1>2, <1>3, <1>4, <1>5, <1>6 DEF Next, Reporter, Environment

\* The goroutine stays where PlaceInv says.
LEMMA PlaceStep ==
    ASSUME TypeInv, Next
    PROVE  PlaceInv'
<1>0. PlaceInv
  BY DEF TypeInv
<1>1. CASE WorldChanges \/ (\E c \in Config : UpdateConfig(c)) \/ Store \/ Pass \/ Stop \/ CacheSync
  <2>1. /\ UNCHANGED <<pc, first, attempt, status, todo, cr>> /\ world' \in Worlds
        /\ cached' \in {cached, "current"}
    BY <1>0, <1>1, Zenon DEF WorldChanges, UpdateConfig, Store, Pass, Stop, CacheSync,
       startVars, collectVars, crVars, PlaceInv
  <2>2. stopping' \in {stopping, TRUE}
    BY <1>1 DEF WorldChanges, UpdateConfig, Store, Pass, Stop, CacheSync
  <2>3. stopping' \in BOOLEAN /\ cached' \in {"absent", "stale", "current"}
    BY <1>0, <2>1, <2>2 DEF PlaceInv
  <2>. QED
    BY <1>0, <2>1, <2>3 DEF PlaceInv
<1>2. CASE Restart
  <2>1. /\ pc' = "start" /\ attempt' = 0 /\ first' = TRUE /\ stopping' = FALSE
        /\ status' = NoStatus /\ todo' = <<>> /\ UNCHANGED <<world, cr>>
        /\ cached' \in {"absent", "current"}
    BY <1>2 DEF Restart
  <2>2. first' \in BOOLEAN /\ stopping' \in BOOLEAN
    BY <2>1
  <2>3. /\ status' = [parts |-> status'.parts, rid |-> status'.rid, asn |-> status'.asn,
                      healthy |-> status'.healthy]
        /\ status'.parts = [p \in Parts |-> status'.parts[p]]
    BY <2>1 DEF NoStatus
  <2>4. attempt' \in 0..EnsureAttempts /\ attempt' < EnsureAttempts
    BY <2>1, HeartbeatAssumption
  <2>5. <<>> \in Todos /\ "start" \in PC
    BY DEF Todos, PC
  <2>. QED
    BY <1>0, <2>1, <2>2, <2>3, <2>4, <2>5 DEF PlaceInv
<1>3. CASE SetDefaults \/ Done \/ Wake
  <2>1. /\ UNCHANGED <<world, first, attempt, status, todo, cr, cached, stopping>>
    BY <1>3 DEF SetDefaults, Done, Wake, startVars, collectVars, crVars
  <2>2. pc' \in {"startHb", "ensure", "shutdown", "write"}
        /\ (pc' \in {"start", "startHb", "ensure"} => attempt < EnsureAttempts)
    BY <1>3, <1>0 DEF SetDefaults, Done, Wake, PlaceInv
  <2>. QED
    BY <1>0, <2>1, <2>2 DEF PlaceInv, PC
<1>4. CASE Ensure
  <2>1. /\ pc = "ensure" /\ UNCHANGED <<world, first, status, todo, stopping>>
        /\ \/ pc' \in {"stopped", "initial"} /\ attempt' = attempt
           \/ /\ attempt' = attempt + 1
              /\ pc' = IF attempt + 1 = EnsureAttempts THEN "initial" ELSE "ensure"
        /\ \/ UNCHANGED <<cr, cached>>
           \/ cr' = [NoObject EXCEPT !.exists = TRUE] /\ cached' \in {"absent", "current"}
    BY <1>4 DEF Ensure, EnsureFails, collectVars, crVars
  <2>2. /\ cr'.exists \in BOOLEAN /\ cr'.shutdown \in BOOLEAN
        /\ cr' = [exists |-> cr'.exists, status |-> cr'.status, shutdown |-> cr'.shutdown]
    BY <1>0, <2>1 DEF PlaceInv, NoObject
  <2>3. /\ attempt' \in 0..EnsureAttempts /\ pc' \in {"stopped", "initial", "ensure"}
        /\ pc' = "ensure" => attempt' < EnsureAttempts
    BY <1>0, <2>1, HeartbeatAssumption DEF PlaceInv
  <2>4. cached' \in {"absent", "stale", "current"}
    BY <1>0, <2>1 DEF PlaceInv
  <2>. QED
    BY <1>0, <2>1, <2>2, <2>3, <2>4 DEF PlaceInv, PC
<1>5. CASE Initial \/ Tick
  <2>1. /\ UNCHANGED <<world, first, attempt, cr, cached, stopping>>
        /\ \/ UNCHANGED <<pc, status, todo>>
           \/ /\ pc' = "asn" /\ todo' = PartsInOrder
              /\ status' = [NoStatus EXCEPT !.rid = atoms.rid]
    BY <1>5 DEF Initial, Tick, Begin, startVars, collectVars, crVars
  <2>2. CASE UNCHANGED <<pc, status, todo>>
    BY <1>0, <2>1, <2>2 DEF PlaceInv
  <2>3. CASE /\ pc' = "asn" /\ todo' = PartsInOrder
             /\ status' = [NoStatus EXCEPT !.rid = atoms.rid]
    <3>1. /\ status' = [parts |-> status'.parts, rid |-> status'.rid, asn |-> status'.asn,
                        healthy |-> status'.healthy]
          /\ status'.parts = [p \in Parts |-> status'.parts[p]]
      BY <2>3 DEF NoStatus
    <3>2. PartsInOrder \in Todos /\ "asn" \in PC
      BY DEF Todos, PC
    <3>. QED
      BY <1>0, <2>1, <2>3, <3>1, <3>2 DEF PlaceInv
  <2>. QED
    BY <2>1, <2>2, <2>3
<1>6. CASE ReadASN
  <2>1. /\ pc = "asn" /\ pc' = "collect" /\ status' = [status EXCEPT !.asn = atoms.asn]
        /\ UNCHANGED <<world, first, attempt, todo, cr, cached, stopping>>
    BY <1>6 DEF ReadASN, startVars, crVars
  <2>2. /\ status' = [parts |-> status'.parts, rid |-> status'.rid, asn |-> status'.asn,
                      healthy |-> status'.healthy]
        /\ status'.parts = status.parts
    BY <1>0, <2>1 DEF PlaceInv
  <2>3. todo # <<>>
    <3>1. PartsInOrder # <<>>
      BY DEF PartsInOrder
    <3>. QED
      BY <1>0, <2>1, <3>1 DEF PlaceInv
  <2>. QED
    BY <1>0, <2>1, <2>2, <2>3 DEF PlaceInv, PC
<1>7. CASE Collect
  <2>1. /\ pc = "collect" /\ UNCHANGED <<world, first, attempt, cr, cached, stopping>>
        /\ todo' = Tail(todo) /\ pc' = (IF Tail(todo) = <<>> THEN "compare" ELSE "collect")
    BY <1>7 DEF Collect, startVars, crVars
  <2>2. PICK v, h : status' = [status EXCEPT !.parts[Head(todo)] = v, !.healthy = h]
    BY <1>7, Zenon DEF Collect
  <2>3. /\ status' = [parts |-> status'.parts, rid |-> status'.rid, asn |-> status'.asn,
                      healthy |-> status'.healthy]
        /\ status'.parts = [p \in Parts |-> status'.parts[p]]
    BY <1>0, <2>2 DEF PlaceInv
  <2>4. Tail(todo) \in Todos
    BY <1>0, <2>1, CollectCases DEF PlaceInv
  <2>. QED
    BY <1>0, <2>1, <2>3, <2>4 DEF PlaceInv, PC
<1>8. CASE Compare \/ Write
  <2>1. /\ UNCHANGED <<world, attempt, todo, stopping>>
        /\ pc' \in {"idle", "write", "sleep"}
        /\ status' \in {status, NoStatus} /\ first' \in {first, FALSE}
        /\ cr' \in {cr, Published} /\ cached' \in {cached, "stale", "current"}
    BY <1>8, Zenon DEF Compare, Write, Return, Outdated, crVars
  <2>2. first' \in BOOLEAN
    BY <1>0, <2>1 DEF PlaceInv
  <2>5. /\ cr'.exists \in BOOLEAN /\ cr'.shutdown \in BOOLEAN
        /\ cr' = [exists |-> cr'.exists, status |-> cr'.status, shutdown |-> cr'.shutdown]
    <3>1. CASE cr' = cr
      BY <1>0, <3>1 DEF PlaceInv
    <3>2. CASE cr' = Published
      BY <3>2 DEF Published
    <3>. QED
      BY <2>1, <3>1, <3>2
  <2>3. /\ status' = [parts |-> status'.parts, rid |-> status'.rid, asn |-> status'.asn,
                      healthy |-> status'.healthy]
        /\ status'.parts = [p \in Parts |-> status'.parts[p]]
    BY <1>0, <2>1 DEF PlaceInv, NoStatus
  <2>4. cached' \in {"absent", "stale", "current"}
    BY <1>0, <2>1 DEF PlaceInv
  <2>. QED
    BY <1>0, <2>1, <2>2, <2>3, <2>4, <2>5 DEF PlaceInv, PC
<1>9. CASE MarkShutdown
  <2>1. /\ UNCHANGED <<world, first, attempt, status, todo, stopping>> /\ pc' = "stopped"
        /\ cached' \in {cached, "stale", "current"}
        /\ \/ cr' = cr
           \/ \E s : cr' = [cr EXCEPT !.shutdown = TRUE, !.status = s]
    BY <1>9, Zenon DEF MarkShutdown, Outdated, startVars, collectVars, crVars
  <2>2. /\ cr'.exists \in BOOLEAN /\ cr'.shutdown \in BOOLEAN
        /\ cr' = [exists |-> cr'.exists, status |-> cr'.status, shutdown |-> cr'.shutdown]
    BY <1>0, <2>1 DEF PlaceInv
  <2>3. cached' \in {"absent", "stale", "current"}
    BY <1>0, <2>1 DEF PlaceInv
  <2>. QED
    BY <1>0, <2>1, <2>2, <2>3 DEF PlaceInv, PC
<1>. QED
  BY <1>1, <1>2, <1>3, <1>4, <1>5, <1>6, <1>7, <1>8, <1>9 DEF Next, Reporter, Environment

\* The places, the atomics and the clocks at first,
LEMMA InitTypeInv == Init => TypeInv
<1> SUFFICES ASSUME Init PROVE TypeInv
  OBVIOUS
<1> USE Lengths
<1>1. ConfInv
  <2>1. /\ conf = Nil /\ storing = <<>> /\ pc = "start"
        /\ atoms = [enabled |-> FALSE, hb |-> 0, rid |-> Nil, asn |-> Nil]
    BY DEF Init, NoAtoms
  <2>2. atoms.enabled \in BOOLEAN
    BY <2>1
  <2>3. <<>> \in Storings /\ <<>> # <<"asn">>
    BY DEF Storings
  <2>. QED
    BY <2>1, <2>2, <2>3 DEF ConfInv
<1>2. PlaceInv
  <2>1. /\ world \in Worlds /\ pc = "start" /\ attempt = 0 /\ first = TRUE
        /\ stopping = FALSE /\ status = NoStatus /\ todo = <<>>
        /\ cr = [exists |-> FALSE, status |-> Nil, shutdown |-> FALSE] /\ cached = "absent"
    BY DEF Init, NoObject
  <2>2. first \in BOOLEAN /\ stopping \in BOOLEAN
    BY <2>1
  <2>3. /\ status = [parts |-> status.parts, rid |-> status.rid, asn |-> status.asn,
                     healthy |-> status.healthy]
        /\ status.parts = [p \in Parts |-> status.parts[p]]
    BY <2>1 DEF NoStatus
  <2>4. attempt \in 0..EnsureAttempts /\ attempt < EnsureAttempts
    BY <2>1, HeartbeatAssumption
  <2>5. <<>> \in Todos /\ "start" \in PC
    BY DEF Todos, PC
  <2>6. /\ cr = [exists |-> cr.exists, status |-> cr.status, shutdown |-> cr.shutdown]
        /\ cr.exists \in BOOLEAN /\ cr.shutdown \in BOOLEAN
    BY <2>1
  <2>. QED
    BY <2>1, <2>2, <2>3, <2>4, <2>5, <2>6 DEF PlaceInv
<1>3. ClockInv
  <2>1. pc = "start" /\ timer = ZeroTimer /\ tick = FALSE /\ period = DefaultHeartbeat
    BY DEF Init
  <2>2. timer \in Timer /\ timer.sleep = 0
    BY <2>1 DEF ZeroTimer, Timer
  <2>3. tick \in BOOLEAN /\ period \in Heartbeats
    BY <2>1
  <2>. QED
    BY <2>1, <2>2, <2>3 DEF ClockInv, Loop, Busy
<1>. QED
  BY <1>1, <1>2, <1>3 DEF TypeInv

\* and after every step.
LEMMA TypeInvStep == TypeInv /\ [Next]_vars => TypeInv'
<1> SUFFICES ASSUME TypeInv, [Next]_vars PROVE TypeInv'
  OBVIOUS
<1>1. CASE UNCHANGED vars
  BY <1>1 DEF vars, TypeInv, ConfInv, PlaceInv, ClockInv
<1>2. CASE Next
  BY <1>2, ConfStep, PlaceStep, ClockStep DEF TypeInv
<1>. QED
  BY <1>1, <1>2

\* The places, the atomics and the clocks.
THEOREM Timed == Spec => []TypeInv
BY InitTypeInv, TypeInvStep, PTL DEF Spec

\* The types; in particular no clock runs below zero or past its bound, and
\* the ticker's period is always a heartbeat.
THEOREM TypeCorrect == Spec => []TypeOK
<1>1. TypeInv => TypeOK
  <2> SUFFICES ASSUME TypeInv PROVE TypeOK
    OBVIOUS
  <2>1. DOMAIN atoms = {Fields[i] : i \in DOMAIN Fields}
    <3>1. DOMAIN atoms = {"enabled", "hb", "rid", "asn"}
      BY DEF TypeInv, ConfInv
    <3>2. {Fields[i] : i \in DOMAIN Fields} = {"enabled", "hb", "rid", "asn"}
      <4>1. /\ DOMAIN Fields = 1..4 /\ Fields[1] = "enabled" /\ Fields[2] = "hb"
            /\ Fields[3] = "rid" /\ Fields[4] = "asn"
        BY DEF Fields
      <4>2. 1..4 = {1, 2, 3, 4}
        OBVIOUS
      <4>. QED
        BY <4>1, <4>2
    <3>. QED
      BY <3>1, <3>2
  <2>2. DOMAIN status.parts = Parts
    BY DEF TypeInv, PlaceInv
  <2>3. /\ \E i \in 1..5 : storing = SubSeq(Fields, i, 4)
        /\ \E i \in 1..7 : todo = SubSeq(PartsInOrder, i, 6)
    BY Suffixes DEF TypeInv, ConfInv, PlaceInv
  <2>. QED
    BY <2>1, <2>2, <2>3 DEF TypeInv, ConfInv, PlaceInv, ClockInv, TypeOK
<1>. QED
  BY <1>1, Timed, PTL
-----------------------------------------------------------------------------
(***************************************************************************)
(* The steps of the loop, by what they do to the clocks and to what is     *)
(* published.                                                              *)
(***************************************************************************)

\* Nothing is written.
Kept ==
    /\ UNCHANGED <<cr, lastWritten>>
    /\ timer'.sinceWrite = timer.sinceWrite /\ timer'.age = timer.age

\* A unit of time passes, and one less is left.
Elapses ==
    /\ pc \in Loop /\ Left' = Left - 1
    /\ timer'.quiet = Capped(timer.quiet) /\ timer'.calm = Capped(timer.calm)
    /\ timer'.age = Capped(timer.age) /\ timer'.sinceWrite = Capped(timer.sinceWrite)
    /\ UNCHANGED <<pc, world, atoms, cr, lastWritten>>

\* The world or the configuration changes, or the loop begins.
Disturbed ==
    /\ timer'.quiet = 0 /\ Kept
    /\ \/ pc \in Loop /\ timer'.calm = timer.calm
       \/ pc \in Early

\* The loop advances, perhaps past a fault.
Proceeds ==
    /\ pc \in Loop /\ (atoms.enabled \/ pc \in Busy => Left' <= Left)
    /\ timer'.quiet = timer.quiet /\ timer'.calm \in {timer.calm, 0} /\ Kept
    /\ UNCHANGED <<world, atoms>>

\* writeStatus leaves a status that it remembers unwritten.
Skips ==
    /\ pc = "compare" /\ pc' = "idle"
    /\ statusEqual(lastWritten, status) /\ timer.sinceWrite < Longest
    /\ timer'.quiet = timer.quiet /\ timer'.calm = timer.calm /\ Kept
    /\ UNCHANGED <<world, atoms>>

\* It writes it,
Wrote ==
    /\ pc = "write" /\ pc' = "idle"
    /\ cr'.status = status /\ lastWritten' = status
    /\ timer'.sinceWrite = 0 /\ timer'.age = 0
    /\ timer'.quiet = timer.quiet /\ timer'.calm = timer.calm
    /\ UNCHANGED <<world, atoms>>

\* or sees its write fail, whether or not it was accepted.
Failed ==
    /\ pc = "write" /\ pc' = "idle"
    /\ timer'.calm = 0 /\ timer'.age \in {0, timer.age}
    /\ timer'.sinceWrite = timer.sinceWrite /\ timer'.quiet = timer.quiet
    /\ UNCHANGED <<world, atoms, lastWritten>>

\* The clocks, and how much time may be left.
Times ==
    /\ timer.toTick \in 0..Longest /\ timer.busy \in 0..CollectMax /\ timer.sleep \in 0..Pause
    /\ timer.sinceWrite \in 0..Far /\ timer.age \in 0..Far
    /\ timer.quiet \in 0..Far /\ timer.calm \in 0..Far
    /\ pc \in Loop => Left \in 0..(Longest + Slack)
    /\ pc \in Busy => Left \in 0..Slack

\* They follow from the types of the clocks,
LEMMA TimesHold == TypeInv => Times
<1> SUFFICES ASSUME TypeInv PROVE Times
  OBVIOUS
<1> USE Lengths
<1>1. /\ timer.toTick \in 0..Longest /\ timer.busy \in 0..CollectMax /\ timer.sleep \in 0..Pause
      /\ timer.sinceWrite \in 0..Far /\ timer.age \in 0..Far
      /\ timer.quiet \in 0..Far /\ timer.calm \in 0..Far
  BY DEF TypeInv, ClockInv, Timer
<1>2. pc = "idle" => Left \in 0..(Longest + Slack)
  BY <1>1 DEF Left
<1>3. pc \in {"asn", "collect", "compare"} => Left \in 0..Slack
  BY <1>1 DEF Left
<1>4. pc = "sleep" => Left \in 0..Slack
  BY <1>1 DEF Left
<1>5. pc = "write" => Left \in 0..Slack
  BY <1>1 DEF Left
<1>6. 0..Slack \subseteq 0..(Longest + Slack)
  OBVIOUS
<1>. QED
  BY <1>1, <1>2, <1>3, <1>4, <1>5, <1>6 DEF Times, Loop, Busy

\* after a step too.
LEMMA TimesHoldNext == TypeInv' => Times'
BY TimesHold, PTL

\* One unit of time less is left when one has passed.
LEMMA PassElapses ==
    ASSUME TypeInv, Pass
    PROVE  Elapses
<1> USE Lengths
<1>1. pc \in Loop /\ ClockInv
  BY PassInLoop DEF TypeInv
<1>2. Times
  BY TimesHold
<1>3. /\ timer'.toTick = (IF timer.toTick = 1 THEN period ELSE timer.toTick - 1)
      /\ timer'.busy = (IF pc \in {"asn", "collect", "write"} THEN timer.busy + 1 ELSE timer.busy)
      /\ timer'.sleep = (IF pc = "sleep" THEN timer.sleep - 1 ELSE timer.sleep)
      /\ timer'.sinceWrite = Capped(timer.sinceWrite) /\ timer'.age = Capped(timer.age)
      /\ timer'.quiet = Capped(timer.quiet) /\ timer'.calm = Capped(timer.calm)
      /\ tick' = (tick \/ timer.toTick = 1) /\ pc' = pc
  BY <1>1, PassClocks
<1>4. UNCHANGED <<world, atoms, cr, lastWritten>>
  BY DEF Pass, confVars, crVars
<1>5. Left' = Left - 1
  <2>1. CASE pc = "idle"
    <3>1. ~tick
      BY <2>1 DEF Pass
    <3>2. Left = timer.toTick + CollectMax + Pause
      BY <2>1, <3>1 DEF Left
    <3>3. CASE timer.toTick = 1
      <4>1. tick' = TRUE
        BY <1>3, <3>3
      <4>2. Left' = 0 + CollectMax + Pause
        BY <1>3, <2>1, <4>1 DEF Left
      <4>. QED
        BY <3>2, <3>3, <4>2
    <3>4. CASE timer.toTick # 1
      <4>1. tick' = FALSE
        BY <1>3, <3>1, <3>4
      <4>2. Left' = timer'.toTick + CollectMax + Pause
        BY <1>3, <2>1, <4>1 DEF Left
      <4>. QED
        BY <1>2, <1>3, <3>2, <3>4, <4>2 DEF Times
    <3>. QED
      BY <3>3, <3>4
  <2>2. CASE pc \in {"asn", "collect"}
    BY <1>2, <1>3, <2>2 DEF Left, Times
  <2>3. CASE pc = "sleep"
    BY <1>2, <1>3, <2>3 DEF Left, Times
  <2>4. CASE pc = "write"
    BY <1>2, <1>3, <2>4 DEF Left, Times
  <2>. QED
    BY <2>1, <2>2, <2>3, <2>4 DEF Pass
<1>. QED
  BY <1>1, <1>3, <1>4, <1>5 DEF Elapses

\* Every step to a place in the loop is of one of these kinds.
LEMMA LoopSteps ==
    ASSUME TypeInv, [Next]_vars, pc' \in Loop
    PROVE  Elapses \/ Disturbed \/ Proceeds \/ Skips \/ Wrote \/ Failed
<1> USE Lengths
<1>0. timer \in Timer /\ Times
  BY TimesHold DEF TypeInv, ClockInv
<1>1. CASE UNCHANGED vars
  <2>1. UNCHANGED <<pc, timer, tick, cr, lastWritten, world, atoms>>
    BY <1>1 DEF vars
  <2>2. Left' = Left /\ pc \in Loop
    BY <2>1 DEF Left
  <2>. QED
    BY <1>0, <2>1, <2>2 DEF Proceeds, Kept, Times
<1>2. CASE Pass
  BY <1>2, PassElapses
<1>3. CASE WorldChanges \/ (\E c \in Config : UpdateConfig(c))
  <2>1. timer' = [timer EXCEPT !.quiet = 0] /\ UNCHANGED <<pc, cr, lastWritten>>
    BY <1>3 DEF WorldChanges, UpdateConfig, crVars
  <2>. QED
    BY <1>0, <2>1, ClockSet DEF Disturbed, Kept, Clocks
<1>4. CASE Store
  <2>1. UNCHANGED <<timer, pc, cr, lastWritten>> /\ timer.quiet = 0
    BY <1>4 DEF Store, crVars, TypeInv, ConfInv
  <2>. QED
    BY <2>1 DEF Disturbed, Kept
<1>5. CASE Initial
  <2>1. /\ timer' = [timer EXCEPT !.toTick = atoms.hb, !.busy = 0, !.calm = 0, !.quiet = 0]
        /\ pc = "initial" /\ UNCHANGED <<cr, lastWritten>> /\ atoms.hb \in Heartbeats
    BY <1>5 DEF Initial, crVars, TypeInv, ConfInv
  <2>2. atoms.hb \in 0..Longest
    <3>1. atoms.hb \in 1..Longest
      BY <2>1
    <3>. QED
      BY <3>1
  <2>3. Clocks(timer', atoms.hb, 0, timer.sleep, timer.sinceWrite, timer.age, 0, 0)
    BY <1>0, <2>1, <2>2, ClockSet, Zenon
  <2>. QED
    BY <2>1, <2>3 DEF Disturbed, Kept, Clocks, Early
<1>6. CASE CacheSync \/ Stop
  <2>1. UNCHANGED <<pc, timer, tick, cr, lastWritten, world, atoms>>
    BY <1>6, Zenon DEF CacheSync, Stop, confVars, crVars, tickVars
  <2>2. Left' = Left /\ pc \in Loop
    BY <2>1 DEF Left
  <2>. QED
    BY <1>0, <2>1, <2>2 DEF Proceeds, Kept, Times
<1>7. CASE ReadASN \/ Wake
  <2>1. /\ UNCHANGED <<timer, tick, cr, lastWritten, world, atoms>>
        /\ \/ pc = "asn" /\ pc' = "collect"
           \/ pc = "sleep" /\ pc' = "write" /\ timer.sleep = 0
    BY <1>7, Zenon DEF ReadASN, Wake, confVars, crVars, tickVars
  <2>2. Left' = Left /\ pc \in Loop
    BY <1>0, <2>1 DEF Left, Loop, Busy, Times
  <2>. QED
    BY <1>0, <2>1, <2>2 DEF Proceeds, Kept, Times
<1>8. CASE Tick
  <2>1. /\ pc = "idle" /\ tick /\ UNCHANGED <<cr, lastWritten, world, atoms>>
        /\ \/ atoms.enabled /\ timer' = [timer EXCEPT !.busy = 0] /\ pc' = "asn"
           \/ ~atoms.enabled /\ timer' = timer
    BY <1>8 DEF Tick, Begin, confVars, crVars
  <2>2. /\ timer'.quiet = timer.quiet /\ timer'.calm = timer.calm
        /\ timer'.age = timer.age /\ timer'.sinceWrite = timer.sinceWrite
        /\ atoms.enabled => timer'.busy = 0
    <3>1. CASE atoms.enabled /\ timer' = [timer EXCEPT !.busy = 0]
      BY <1>0, <3>1, ClockSet DEF Clocks
    <3>2. CASE ~atoms.enabled /\ timer' = timer
      BY <3>2
    <3>. QED
      BY <2>1, <3>1, <3>2
  <2>3. atoms.enabled => Left' <= Left
    BY <1>0, <2>1, <2>2 DEF Left, Times
  <2>. QED
    BY <2>1, <2>2, <2>3 DEF Proceeds, Kept, Loop, Busy
<1>9. CASE Collect
  <2>1. /\ pc = "collect" /\ pc' \in {"collect", "compare"}
        /\ UNCHANGED <<tick, cr, lastWritten, world, atoms>>
        /\ timer' = timer \/ timer' = [timer EXCEPT !.calm = 0]
    BY <1>9 DEF Collect, confVars, crVars, tickVars
  <2>2. /\ timer'.quiet = timer.quiet /\ timer'.calm \in {timer.calm, 0}
        /\ timer'.age = timer.age /\ timer'.sinceWrite = timer.sinceWrite
        /\ timer'.busy = timer.busy
    <3>1. CASE timer' = [timer EXCEPT !.calm = 0]
      BY <1>0, <3>1, ClockSet DEF Clocks
    <3>2. CASE timer' = timer
      BY <3>2
    <3>. QED
      BY <2>1, <3>1, <3>2
  <2>3. Left' <= Left
    BY <1>0, <2>1, <2>2 DEF Left, Times
  <2>. QED
    BY <2>1, <2>2, <2>3 DEF Proceeds, Kept, Loop, Busy
<1>10. CASE Compare
  <2>1. UNCHANGED <<world, atoms, cr, lastWritten>>
    BY <1>10 DEF Compare, confVars, crVars
  <2>2. /\ pc = "compare" /\ timer'.busy = timer.busy /\ timer'.sinceWrite = timer.sinceWrite
        /\ timer'.age = timer.age /\ timer'.quiet = timer.quiet /\ timer'.calm = timer.calm
        /\ \/ statusEqual(lastWritten, status) /\ timer.sinceWrite < atoms.hb /\ pc' = "idle"
           \/ pc' = "write"
           \/ pc' = "sleep" /\ timer'.sleep \in 0..Pause
    BY <1>10, CompareFacts
  <2>3. atoms.hb \in 1..Longest
    <3>1. atoms.hb \in Heartbeats
      BY <2>2 DEF TypeInv, ConfInv
    <3>. QED
      BY <3>1
  <2>4. CASE statusEqual(lastWritten, status) /\ timer.sinceWrite < atoms.hb /\ pc' = "idle"
    <3>1. timer.sinceWrite < Longest
      BY <1>0, <2>3, <2>4 DEF Times
    <3>. QED
      BY <2>1, <2>2, <2>4, <3>1 DEF Skips, Kept
  <2>5. CASE pc' = "write" \/ (pc' = "sleep" /\ timer'.sleep \in 0..Pause)
    <3>1. Left' <= Left
      BY <1>0, <2>2, <2>5 DEF Left, Times
    <3>. QED
      BY <2>1, <2>2, <3>1 DEF Proceeds, Kept, Loop, Busy
  <2>. QED
    BY <2>2, <2>4, <2>5
<1>11. CASE Write
  <2>1. UNCHANGED <<world, atoms>>
    BY <1>11 DEF Write, confVars
  <2>. QED
    BY <1>11, <2>1, WriteFacts DEF Wrote, Failed, Published
<1>12. CASE Restart \/ SetDefaults \/ Ensure \/ Done \/ MarkShutdown
  BY <1>12 DEF Restart, SetDefaults, Ensure, EnsureFails, Done, MarkShutdown, Loop, Busy
<1>. QED
  BY <1>1, <1>2, <1>3, <1>4, <1>5, <1>6, <1>7, <1>8, <1>9, <1>10, <1>11, <1>12
     DEF Next, Reporter, Environment

\* Clocks that saturate keep their order, and run one unit at most.
LEMMA Saturates ==
    ASSUME NEW m \in 0..Far, NEW n \in 0..Far
    PROVE  /\ m <= n => Capped(m) <= Capped(n)
           /\ Capped(m) <= m + 1
BY Lengths DEF Capped

\* AgesInv is kept.
LEMMA AgesStep ==
    ASSUME TypeInv, TypeInv', NothingYet, AgesInv, [Next]_vars
    PROVE  AgesInv'
<1> SUFFICES ASSUME pc' \in Loop, lastWritten' # Nil
             PROVE  /\ timer'.age <= timer'.sinceWrite
                    /\ cr'.status # lastWritten' => timer'.calm <= timer'.sinceWrite
  BY DEF AgesInv
<1>0. Times /\ Times'
  BY TimesHold, TimesHoldNext
<1>1. CASE Elapses
  <2>1. /\ timer.age <= timer.sinceWrite
        /\ cr.status # lastWritten => timer.calm <= timer.sinceWrite
        /\ timer'.calm = Capped(timer.calm) /\ timer'.age = Capped(timer.age)
        /\ timer'.sinceWrite = Capped(timer.sinceWrite) /\ UNCHANGED <<cr, lastWritten>>
    BY <1>1 DEF AgesInv, Elapses
  <2>2. Capped(timer.age) <= Capped(timer.sinceWrite)
    BY <1>0, <2>1, Saturates DEF Times
  <2>3. cr.status # lastWritten => Capped(timer.calm) <= Capped(timer.sinceWrite)
    BY <1>0, <2>1, Saturates DEF Times
  <2>. QED
    BY <2>1, <2>2, <2>3
<1>2. CASE Disturbed
  <2>1. pc \in Early => lastWritten = Nil
    BY DEF NothingYet
  <2>. QED
    BY <1>2, <2>1 DEF AgesInv, Disturbed, Kept
<1>3. CASE Proceeds
  BY <1>0, <1>3, Lengths DEF AgesInv, Proceeds, Kept, Times
<1>4. CASE Skips
  BY <1>4 DEF AgesInv, Skips, Kept, Loop, Busy
<1>5. CASE Wrote
  BY <1>5 DEF Wrote
<1>6. CASE Failed
  BY <1>0, <1>6, Lengths DEF AgesInv, Failed, Times, Loop, Busy
<1>. QED
  BY <1>1, <1>2, <1>3, <1>4, <1>5, <1>6, LoopSteps

\* What is recent stays recent while time passes and the loop proceeds.
LEMMA StaysWithin ==
    ASSUME TypeInv, TypeInv', Elapses \/ Proceeds, pc' \in Loop,
           atoms.enabled \/ pc \in Busy, NEW bound \in Nat
    PROVE  /\ ChangedWithin(bound) => ChangedWithin(bound)'
           /\ FailedWithin(bound) => FailedWithin(bound)'
           /\ timer.age + Left <= bound => timer'.age + Left' <= bound
<1>0. Times /\ Times' /\ pc \in Loop
  BY TimesHold, TimesHoldNext DEF Elapses, Proceeds
<1>1. Left \in Nat /\ timer.quiet \in 0..Far /\ timer.calm \in 0..Far /\ timer.age \in 0..Far
  BY <1>0, Lengths DEF Times
<1>2. CASE Elapses
  <2>1. /\ timer'.quiet = Capped(timer.quiet) /\ timer'.calm = Capped(timer.calm)
        /\ timer'.age = Capped(timer.age) /\ Left' = Left - 1
    BY <1>2 DEF Elapses
  <2>2. /\ timer'.quiet <= timer.quiet + 1 /\ timer'.calm <= timer.calm + 1
        /\ timer'.age <= timer.age + 1
    BY <1>1, <2>1, Saturates
  <2>3. timer'.quiet \in 0..Far /\ timer'.calm \in 0..Far /\ timer'.age \in 0..Far
    BY <1>0 DEF Times
  <2>. QED
    BY <1>1, <2>1, <2>2, <2>3, Lengths DEF ChangedWithin, FailedWithin
<1>3. CASE Proceeds
  <2>1. /\ timer'.quiet = timer.quiet /\ timer'.calm \in {timer.calm, 0}
        /\ timer'.age = timer.age /\ Left' <= Left
    BY <1>3 DEF Proceeds, Kept
  <2>2. Left' \in Nat
    <3>1. pc' \in Loop => Left' \in 0..(Longest + Slack)
      BY <1>0 DEF Times
    <3>. QED
      BY <3>1, Lengths
  <2>. QED
    BY <1>1, <2>1, <2>2, Lengths DEF ChangedWithin, FailedWithin
<1>. QED
  BY <1>2, <1>3

\* What has just happened is recent.
LEMMA JustNow ==
    ASSUME TypeInv', pc' \in Loop
    PROVE  /\ timer'.quiet = 0 => ChangedWithin(Longest + Slack)'
           /\ timer'.calm = 0 => FailedWithin(Longest + Slack)'
           /\ Left' \in 0..(Longest + Slack)
<1>1. Left' \in 0..(Longest + Slack)
  BY TimesHoldNext DEF Times
<1>. QED
  BY <1>1, Lengths DEF ChangedWithin, FailedWithin

\* HeartbeatInv is kept: a write is skipped only while the object is younger
\* than a heartbeat, so that the next tick comes in time.
LEMMA HeartbeatStep ==
    ASSUME TypeInv, TypeInv', AgesInv, HeartbeatInv, [Next]_vars
    PROVE  HeartbeatInv'
<1> SUFFICES ASSUME pc' \in Loop, atoms'.enabled
             PROVE  \/ timer'.age + Left' <= 2 * Longest + Slack
                    \/ ChangedWithin(Longest + Slack)'
                    \/ FailedWithin(2 * Longest + Slack)'
  BY DEF HeartbeatInv
<1>0. Times /\ Times' /\ Left' \in 0..(Longest + Slack)
  BY TimesHold, TimesHoldNext, JustNow
<1>1. Longest + Slack \in Nat /\ 2 * Longest + Slack \in Nat
  BY Lengths
<1>2. CASE Elapses \/ Proceeds
  <2>1. atoms.enabled /\ pc \in Loop
    BY <1>2 DEF Elapses, Proceeds
  <2>. QED
    BY <1>1, <1>2, <2>1, StaysWithin DEF HeartbeatInv
<1>3. CASE Disturbed
  BY <1>3, JustNow DEF Disturbed
<1>4. CASE Skips
  <2>1. timer'.age <= timer.sinceWrite /\ timer.sinceWrite < Longest
    BY <1>4 DEF Skips, Kept, AgesInv, statusEqual, Loop, Busy
  <2>2. timer'.age \in Nat /\ timer.sinceWrite \in Nat
    BY <1>0, Lengths DEF Times
  <2>3. timer'.age + Left' <= 2 * Longest + Slack
    BY <1>0, <2>1, <2>2, Lengths
  <2>. QED
    BY <2>3
<1>5. CASE Wrote
  <2>1. timer'.age = 0
    BY <1>5 DEF Wrote
  <2>2. Left' <= Longest + Slack /\ Left' \in Nat /\ Longest \in Nat /\ Slack \in Nat
    BY <1>0, Lengths
  <2>3. timer'.age \in Nat /\ timer'.age <= Longest
    BY <2>1, <2>2
  <2>4. timer'.age + Left' <= 2 * Longest + Slack
    BY <2>2, <2>3
  <2>. QED
    BY <2>4
<1>6. CASE Failed
  <2>1. FailedWithin(Longest + Slack)'
    BY <1>6, JustNow DEF Failed
  <2>2. timer'.calm \in Nat
    BY <1>0, Lengths DEF Times
  <2>3. FailedWithin(2 * Longest + Slack)'
    BY <1>0, <2>1, <2>2, Lengths DEF FailedWithin
  <2>. QED
    BY <2>3
<1>. QED
  BY <1>2, <1>3, <1>4, <1>5, <1>6, LoopSteps

\* The ages of the object and of the memory.
AgingInv == TypeInv /\ IInv /\ AgesInv /\ HeartbeatInv

\* The times of the heartbeat, which the next theorem rests on.
THEOREM Aging == Spec => []AgingInv
<1>1. Init => AgesInv /\ HeartbeatInv
  BY DEF Init, AgesInv, HeartbeatInv, Loop, Busy
<1>2. AgingInv /\ [Next]_vars => AgingInv'
  <2> SUFFICES ASSUME AgingInv, [Next]_vars PROVE AgingInv'
    OBVIOUS
  <2>1. TypeInv' /\ IInv'
    BY TypeInvStep, IInvStep DEF AgingInv
  <2>2. AgesInv'
    BY <2>1, AgesStep DEF AgingInv, IInv
  <2>3. HeartbeatInv'
    BY <2>1, HeartbeatStep DEF AgingInv
  <2>. QED
    BY <2>1, <2>2, <2>3 DEF AgingInv
<1>. QED
  BY <1>1, <1>2, InitTypeInv, InitIInv, PTL DEF Spec, AgingInv

\* "Heartbeat ensures lastUpdated advances even when stable": whatever the
\* heartbeats, their changes and the length of a collection, an object that
\* is reported without faults is never older than two heartbeats and one
\* collection, although writeStatus skips a status it has written already.
THEOREM HeartbeatKept == Spec => []HeartbeatAdvances
<1>1. AgingInv => HeartbeatAdvances
  <2> SUFFICES ASSUME AgingInv, Reporting, timer.quiet > Longest + Slack,
                      timer.calm > 2 * Longest + Slack
               PROVE  timer.age <= 2 * Longest + Slack
    BY DEF HeartbeatAdvances
  <2>1. pc \in Loop /\ atoms.enabled
    BY DEF Reporting, Loop, Busy
  <2>2. Times
    BY TimesHold DEF AgingInv
  <2>. QED
    BY <2>1, <2>2, Lengths DEF AgingInv, HeartbeatInv, ChangedWithin, FailedWithin, Times
<1>. QED
  BY <1>1, Aging, PTL
-----------------------------------------------------------------------------
(***************************************************************************)
(* What is published is what gobgpd holds.                                 *)
(***************************************************************************)

\* Nil is no status, no part of one, and no answer of the BFD server.
NilApart ==
    /\ \A s : "healthy" \in DOMAIN s => s # Nil
    /\ Nil \notin BOOLEAN
    /\ \A w \in Worlds : Nil \notin Neighbors(w) \cup Import(w) \cup Export(w)

\* A list that is not cut names every session, every address that is not in
\* the RIB and every route that the kernel lacks.
LEMMA WholeLists ==
    ASSUME Uncapped, NEW w \in Worlds
    PROVE  /\ \A v \in Neighbors(w) : /\ DOMAIN v.list = DOMAIN w.neighbors
                                      /\ \A p \in DOMAIN v.list : v.list[p] = w.neighbors[p]
           /\ \A v \in Import(w) : v.missing = w.missing
           /\ \A v \in Export(w) : v.lost = w.lost
<1>0. /\ IsFiniteSet(DOMAIN w.neighbors) /\ Cardinality(DOMAIN w.neighbors) <= MaxNeighbors
      /\ IsFiniteSet(w.inRIB) /\ IsFiniteSet(w.missing)
      /\ Cardinality(w.inRIB) + Cardinality(w.missing) <= MaxImported
      /\ Cardinality(w.installed \cup w.lost) <= MaxExported
  BY DEF Uncapped
<1>1. Cardinality(w.inRIB) \in Nat /\ Cardinality(w.missing) \in Nat
  BY <1>0, FS_CardinalityType
<1>2. \A v \in Neighbors(w) : /\ DOMAIN v.list = DOMAIN w.neighbors
                              /\ \A p \in DOMAIN v.list : v.list[p] = w.neighbors[p]
  <2>1. Cut(DOMAIN w.neighbors, MaxNeighbors) = {DOMAIN w.neighbors}
    BY <1>0 DEF Cut
  <2>. QED
    BY <2>1 DEF Neighbors
<1>3. \A v \in Import(w) : v.missing = w.missing
  <2>1. CASE Cardinality(w.inRIB) >= MaxImported
    <3>1. Cardinality(w.missing) = 0
      BY <1>0, <1>1, <2>1, CapsAssumption
    <3>2. w.missing = {}
      BY <1>0, <3>1, FS_EmptySet
    <3>3. \A v \in Import(w) : v.missing = {}
      BY <2>1 DEF Import
    <3>. QED
      BY <3>2, <3>3
  <2>2. CASE ~(Cardinality(w.inRIB) >= MaxImported)
    <3>1. Cardinality(w.missing) <= MaxImported - Cardinality(w.inRIB)
      BY <1>0, <1>1, CapsAssumption
    <3>2. Cut(w.missing, MaxImported - Cardinality(w.inRIB)) = {w.missing}
      BY <3>1 DEF Cut
    <3>. QED
      BY <2>2, <3>2 DEF Import
  <2>. QED
    BY <2>1, <2>2
<1>4. \A v \in Export(w) : v.lost = w.lost
  <2>1. Cut(w.installed \cup w.lost, MaxExported) = {w.installed \cup w.lost}
    BY <1>0 DEF Cut
  <2>2. (w.installed \cup w.lost) \cap w.lost = w.lost
    OBVIOUS
  <2>. QED
    BY <2>1, <2>2 DEF Export
<1>. QED
  BY <1>2, <1>3, <1>4

\* deriveHealth tells whether the world is well once all parts are collected.
LEMMA HealthIsTrue ==
    ASSUME Uncapped, NilApart, NEW w \in Worlds, NEW parts,
           \A p \in Parts : parts[p] \in Collected(p, w)
    PROVE  deriveHealth(parts) = Well(w)
<1> DEFINE sessions == {w.neighbors[p] : p \in DOMAIN w.neighbors}
<1>1. /\ parts["neighbors"] \in Neighbors(w) /\ parts["import"] \in Import(w)
      /\ parts["export"] \in Export(w) /\ parts["bfd"] = w.listening
  BY DEF Parts, Collected
<1>2. w.listening \in BOOLEAN
  BY WorldsAssumption DEF World
<1>3. /\ parts["neighbors"] # Nil /\ parts["import"] # Nil /\ parts["export"] # Nil
      /\ w.listening # Nil
  BY <1>1, <1>2, Zenon DEF NilApart
<1>4. /\ parts["import"].missing = w.missing /\ parts["export"].lost = w.lost
      /\ DOMAIN parts["neighbors"].list = DOMAIN w.neighbors
      /\ \A p \in DOMAIN parts["neighbors"].list :
            parts["neighbors"].list[p] = w.neighbors[p]
  BY <1>1, WholeLists
<1>5. Listed(parts) = sessions
  BY <1>3, <1>4 DEF Listed
<1> HIDE DEF sessions
<1>6. (parts["bfd"] \in {Nil, FALSE}) <=> ~w.listening
  BY <1>1, <1>2, <1>3
<1>7. deriveHealth(parts) <=> /\ "Idle" \notin sessions
                              /\ ~(/\ sessions \cap {"BfdUp", "BfdDown"} # {}
                                   /\ ~w.listening \/ "BfdDown" \in sessions)
                              /\ w.missing = {} /\ w.lost = {}
  BY <1>3, <1>4, <1>5, <1>6, Zenon DEF deriveHealth, bfdDegraded
<1>8. Well(w) <=> /\ sessions \cap {"Idle", "BfdDown"} = {}
                  /\ "BfdUp" \in sessions => w.listening
                  /\ w.missing = {} /\ w.lost = {}
  BY DEF Well, sessions
<1>9. deriveHealth(parts) <=> Well(w)
  BY <1>7, <1>8
<1>10. deriveHealth(parts) \in BOOLEAN /\ Well(w) \in BOOLEAN
  BY DEF deriveHealth, Well
<1>. QED
  BY <1>9, <1>10

\* A part that is neither the next one nor to be collected after it is done.
LEMMA NotPending ==
    ASSUME todo \in Todos, todo # <<>>, NEW p, p # Head(todo),
           \A i \in DOMAIN Tail(todo) : Tail(todo)[i] # p
    PROVE  \A i \in DOMAIN todo : todo[i] # p
<1>1. todo \in Seq(Parts)
  <2>1. /\ <<"bfd">> \in Seq(Parts) /\ <<"vrfs", "bfd">> \in Seq(Parts)
        /\ <<"export", "vrfs", "bfd">> \in Seq(Parts)
        /\ <<"rib", "export", "vrfs", "bfd">> \in Seq(Parts)
    BY DEF Parts
  <2>2. /\ <<"import", "rib", "export", "vrfs", "bfd">> \in Seq(Parts)
        /\ PartsInOrder \in Seq(Parts)
    BY DEF Parts, PartsInOrder
  <2>. QED
    BY <2>1, <2>2, Zenon DEF Todos
<1>2. /\ DOMAIN todo = 1..Len(todo) /\ Len(todo) \in Nat
      /\ DOMAIN Tail(todo) = 1..(Len(todo) - 1) /\ Head(todo) = todo[1]
      /\ \A i \in 1..(Len(todo) - 1) : Tail(todo)[i] = todo[i + 1]
  BY <1>1
<1> TAKE i \in DOMAIN todo
<1>3. CASE i = 1
  BY <1>2, <1>3
<1>4. CASE i # 1
  <2>1. i - 1 \in 1..(Len(todo) - 1) /\ (i - 1) + 1 = i
    BY <1>2, <1>4
  <2>. QED
    BY <1>2, <2>1
<1>. QED
  BY <1>3, <1>4

\* A call of collectStatus that succeeds, the last one in particular.
LEMMA CollectFaithful ==
    ASSUME TypeInv, Uncapped, NilApart, Collect, FaithfulSoFar, timer'.calm # 0
    PROVE  FaithfulSoFar'
<1> DEFINE part == Head(todo)
           done == Tail(todo) = <<>>
<1>0. /\ pc = "collect" /\ todo \in Todos /\ todo # <<>> /\ world \in Worlds
      /\ status = [parts |-> status.parts, rid |-> status.rid, asn |-> status.asn,
                   healthy |-> status.healthy]
      /\ status.parts = [p \in Parts |-> status.parts[p]]
      /\ timer \in Timer
  BY DEF TypeInv, PlaceInv, ClockInv, Collect
<1>1. /\ todo' = Tail(todo) /\ pc' = (IF done THEN "compare" ELSE "collect")
      /\ UNCHANGED <<world, atoms>>
  BY DEF Collect, confVars
<1>2. part \in Parts
  BY <1>0, CollectCases
<1>3. PICK v \in Collected(part, world) :
          status' = [status EXCEPT !.parts[part] = v,
                       !.healthy = done /\ deriveHealth([status.parts EXCEPT ![part] = v])]
  <2>1. timer' # [timer EXCEPT !.calm = 0]
    <3> SUFFICES ASSUME timer' = [timer EXCEPT !.calm = 0] PROVE FALSE
      OBVIOUS
    <3>1. timer'.calm = 0
      BY <1>0, ClockSet DEF Clocks
    <3>. QED
      BY <3>1
  <2>. QED
    BY <2>1, Zenon DEF Collect
<1>4. /\ status'.parts = [status.parts EXCEPT ![part] = v]
      /\ status'.rid = status.rid /\ status'.asn = status.asn
      /\ status'.healthy = (done /\ deriveHealth([status.parts EXCEPT ![part] = v]))
  BY <1>0, <1>3
<1>5. /\ status'.parts[part] = v
      /\ \A p \in Parts \ {part} : status'.parts[p] = status.parts[p]
  BY <1>0, <1>2, <1>4
<1>6. ASSUME NEW p \in Parts, \A i \in DOMAIN todo' : todo'[i] # p
      PROVE  status'.parts[p] \in Collected(p, world)
  <2>1. CASE p = part
    BY <1>5, <2>1
  <2>2. CASE p # part
    <3>1. \A i \in DOMAIN todo : todo[i] # p
      BY <1>0, <1>1, <1>6, <2>2, NotPending
    <3>. QED
      BY <1>5, <2>2, <3>1 DEF FaithfulSoFar
  <2>. QED
    BY <2>1, <2>2
<1>7. status'.rid = atoms.rid /\ status'.asn = atoms.rid
  BY <1>0, <1>4 DEF FaithfulSoFar
<1>8. ASSUME done
      PROVE  Faithful(status)'
  <2>1. \A p \in Parts : status'.parts[p] \in Collected(p, world)
    <3> TAKE p \in Parts
    <3>1. \A i \in DOMAIN todo' : todo'[i] # p
      BY <1>1, <1>8
    <3>. QED
      BY <1>6, <3>1
  <2>2. deriveHealth(status'.parts) = Well(world)
    BY <1>0, <2>1, HealthIsTrue
  <2>3. status'.healthy = Well(world)
    <3>1. status'.healthy = deriveHealth(status'.parts)
      <4>1. deriveHealth(status'.parts) \in BOOLEAN
        BY DEF deriveHealth
      <4>. QED
        BY <1>4, <1>8, <4>1
    <3>. QED
      BY <2>2, <3>1
  <2>4. Depicts(status'.parts, world)
    BY <2>1 DEF Depicts
  <2>. QED
    BY <1>1, <1>7, <2>3, <2>4 DEF Faithful
<1>. QED
  BY <1>1, <1>6, <1>7, <1>8 DEF FaithfulSoFar

\* A faithful collection stays so while nothing changes and nothing fails.
LEMMA SoFarStep ==
    ASSUME TypeInv, Uncapped, NilApart, [Next]_vars, pc \in Loop, pc' \in Busy,
           pc \in Busy => FaithfulSoFar, timer'.quiet # 0, timer'.calm # 0
    PROVE  FaithfulSoFar'
<1>0. timer \in Timer /\ pc \notin {"shutdown", "stopped"} \cup Early
  BY DEF TypeInv, ClockInv, Loop, Busy, Early
<1>1. CASE UNCHANGED vars \/ CacheSync \/ Stop \/ Pass
  <2>1. UNCHANGED <<world, atoms, pc, status, todo>>
    BY <1>1, Zenon DEF vars, CacheSync, Stop, Pass, confVars, collectVars
  <2>. QED
    BY <2>1 DEF FaithfulSoFar, Faithful
<1>2. CASE WorldChanges \/ (\E c \in Config : UpdateConfig(c)) \/ Store
  <2>1. timer' = [timer EXCEPT !.quiet = 0] \/ (timer' = timer /\ timer.quiet = 0)
    BY <1>2 DEF WorldChanges, UpdateConfig, Store, TypeInv, ConfInv
  <2>2. CASE timer' = [timer EXCEPT !.quiet = 0]
    BY <1>0, <2>2, ClockSet DEF Clocks
  <2>3. CASE timer' = timer /\ timer.quiet = 0
    BY <2>3
  <2>. QED
    BY <2>1, <2>2, <2>3
<1>3. CASE Tick
  <2>1. /\ UNCHANGED <<world, atoms>> /\ status' = [NoStatus EXCEPT !.rid = atoms.rid]
        /\ todo' = PartsInOrder /\ pc' = "asn"
    BY <1>3 DEF Tick, Begin, confVars, Busy
  <2>2. status'.rid = atoms.rid
    BY <2>1 DEF NoStatus
  <2>3. \A p \in Parts : \E i \in DOMAIN PartsInOrder : PartsInOrder[i] = p
    BY DEF Parts, PartsInOrder
  <2>. QED
    BY <2>1, <2>2, <2>3 DEF FaithfulSoFar
<1>4. CASE ReadASN
  <2>1. /\ pc = "asn" /\ pc' = "collect" /\ status' = [status EXCEPT !.asn = atoms.asn]
        /\ UNCHANGED <<world, atoms, todo>> /\ timer' = timer
    BY <1>4 DEF ReadASN, confVars
  <2>2. atoms.asn = atoms.rid
    BY <2>1 DEF TypeInv, ConfInv
  <2>3. status'.rid = status.rid /\ status'.asn = atoms.asn /\ status'.parts = status.parts
    BY <2>1 DEF TypeInv, PlaceInv
  <2>4. pc \in Busy
    BY <2>1 DEF Busy
  <2>. QED
    BY <2>1, <2>2, <2>3, <2>4 DEF FaithfulSoFar
<1>5. CASE Collect
  <2>1. pc \in Busy
    BY <1>5 DEF Collect, Busy
  <2>. QED
    BY <1>5, <2>1, CollectFaithful
<1>6. CASE Compare \/ Wake
  <2>1. /\ pc \in {"compare", "sleep"} /\ pc' \in {"write", "sleep"}
        /\ UNCHANGED <<world, atoms, todo, status>>
    <3>1. CASE Compare
      BY <3>1, CompareFacts DEF Compare, confVars, Busy
    <3>2. CASE Wake
      BY <3>2 DEF Wake, confVars, collectVars
    <3>. QED
      BY <1>6, <3>1, <3>2
  <2>2. FaithfulSoFar
    BY <2>1 DEF Busy
  <2>. QED
    BY <2>1, <2>2 DEF FaithfulSoFar, Faithful
<1>7. CASE Restart \/ SetDefaults \/ Ensure \/ Initial \/ Done \/ Write \/ MarkShutdown
  BY <1>0, <1>7, WriteFacts DEF Restart, SetDefaults, Ensure, Initial, Done, MarkShutdown,
     Early, Busy
<1>. QED
  BY <1>1, <1>2, <1>3, <1>4, <1>5, <1>6, <1>7 DEF Next, Reporter, Environment

\* StatusInv is kept.
LEMMA StatusStep ==
    ASSUME TypeInv, TypeInv', Uncapped, NilApart, StatusInv, [Next]_vars
    PROVE  StatusInv'
<1> SUFFICES ASSUME pc' \in Busy
             PROVE  FaithfulSoFar' \/ ChangedWithin(Slack)' \/ FailedWithin(Slack)'
  BY DEF StatusInv
<1>0. pc' \in Loop /\ Left' \in 0..Slack /\ Slack \in Nat
  BY TimesHoldNext, Lengths DEF Loop, Times
<1>1. timer'.quiet = 0 => ChangedWithin(Slack)'
  <2>1. timer'.quiet \in Nat /\ Left' \in Nat /\ Left' <= Slack
    BY <1>0, TimesHoldNext, Lengths DEF Times
  <2>2. timer'.quiet <= 0 => timer'.quiet + Left' <= Slack
    BY <1>0, <2>1
  <2>. QED
    BY <2>1, <2>2 DEF ChangedWithin
<1>2. timer'.calm = 0 => FailedWithin(Slack)'
  <2>1. timer'.calm \in Nat /\ Left' \in Nat /\ Left' <= Slack
    BY <1>0, TimesHoldNext, Lengths DEF Times
  <2>2. timer'.calm <= 0 => timer'.calm + Left' <= Slack
    BY <1>0, <2>1
  <2>. QED
    BY <2>1, <2>2 DEF FailedWithin
<1>3. CASE (Elapses \/ Proceeds) /\ pc \in Busy
  <2>1. /\ ChangedWithin(Slack) => ChangedWithin(Slack)'
        /\ FailedWithin(Slack) => FailedWithin(Slack)'
    BY <1>0, <1>3, StaysWithin
  <2>2. CASE FaithfulSoFar
    BY <1>0, <1>1, <1>2, <1>3, <2>2, SoFarStep DEF Loop
  <2>. QED
    BY <1>3, <2>1, <2>2 DEF StatusInv
<1>4. CASE (Elapses \/ Proceeds) /\ pc \notin Busy
  <2>1. pc \in Loop
    BY <1>4 DEF Elapses, Proceeds
  <2>. QED
    BY <1>1, <1>2, <1>4, <2>1, SoFarStep
<1>5. CASE Disturbed
  BY <1>1, <1>5 DEF Disturbed
<1>6. CASE Skips \/ Wrote \/ Failed
  BY <1>6 DEF Skips, Wrote, Failed, Busy
<1>. QED
  BY <1>0, <1>3, <1>4, <1>5, <1>6, LoopSteps

\* A bound that is met is met by a longer one.
LEMMA Longer ==
    ASSUME TypeInv', pc' \in Loop
    PROVE  /\ FailedWithin(Longest + Slack)' => FailedWithin(2 * Longest + Slack)'
           /\ FailedWithin(Longest + Slack)' => FailedWithin(2 * (Longest + Slack))'
           /\ ChangedWithin(Longest + Slack)' => ChangedWithin(Longest + 2 * Slack)'
<1>1. Left' \in Nat /\ timer'.calm \in Nat /\ timer'.quiet \in Nat
  BY TimesHoldNext, Lengths DEF Times
<1>. QED
  BY <1>1, Lengths DEF FailedWithin, ChangedWithin

\* AgreeInv is kept: a write that fails, or whose reply is lost, is no older
\* than the write that is remembered.
LEMMA AgreeStep ==
    ASSUME TypeInv, TypeInv', Shapes, NilApart, AgesInv, AgreeInv, [Next]_vars
    PROVE  AgreeInv'
<1> SUFFICES ASSUME pc' \in Loop, atoms'.enabled
             PROVE  \/ lastWritten' # Nil /\ cr'.status = lastWritten'
                    \/ ChangedWithin(Longest + Slack)'
                    \/ FailedWithin(2 * Longest + Slack)'
  BY DEF AgreeInv
<1>0. Times /\ Left' \in 0..(Longest + Slack)
  BY TimesHold, JustNow
<1>1. Longest + Slack \in Nat /\ 2 * Longest + Slack \in Nat
  BY Lengths
<1>2. CASE Elapses \/ Proceeds
  <2>1. atoms.enabled /\ pc \in Loop /\ UNCHANGED <<cr, lastWritten>>
    BY <1>2 DEF Elapses, Proceeds, Kept
  <2>. QED
    BY <1>1, <1>2, <2>1, StaysWithin DEF AgreeInv
<1>3. CASE Disturbed
  BY <1>3, JustNow DEF Disturbed
<1>4. CASE Skips
  <2>1. /\ lastWritten # Nil /\ UNCHANGED <<cr, lastWritten>> /\ timer'.calm = timer.calm
        /\ cr.status # lastWritten => timer.calm <= timer.sinceWrite
        /\ timer.sinceWrite < Longest
    BY <1>4 DEF Skips, Kept, AgesInv, statusEqual, Loop, Busy
  <2>2. CASE cr.status = lastWritten
    BY <2>1, <2>2
  <2>3. CASE cr.status # lastWritten
    <3>1. timer.calm \in Nat /\ timer.sinceWrite \in Nat /\ Left' \in Nat
          /\ Left' <= Longest + Slack
      BY <1>0, Lengths DEF Times
    <3>2. timer.calm <= Longest
      BY <2>1, <2>3, <3>1, Lengths
    <3>3. timer.calm + Left' <= 2 * Longest + Slack
      BY <3>1, <3>2, Lengths
    <3>. QED
      BY <2>1, <3>3 DEF FailedWithin
  <2>. QED
    BY <2>2, <2>3
<1>5. CASE Wrote
  <2>1. status # Nil
    BY Zenon DEF Shapes, NilApart
  <2>. QED
    BY <1>5, <2>1 DEF Wrote
<1>6. CASE Failed
  BY <1>6, JustNow, Longer DEF Failed
<1>. QED
  BY <1>2, <1>3, <1>4, <1>5, <1>6, LoopSteps

\* MemoryInv is kept: what is remembered as written, or as equal to what was
\* collected, was collected since the last change.
LEMMA MemoryStep ==
    ASSUME TypeInv, TypeInv', StatusInv, MemoryInv, [Next]_vars
    PROVE  MemoryInv'
<1> SUFFICES ASSUME pc' \in Loop, atoms'.enabled, lastWritten' # Nil
             PROVE  \/ Faithful(lastWritten)'
                    \/ ChangedWithin(Longest + 2 * Slack)'
                    \/ FailedWithin(2 * (Longest + Slack))'
  BY DEF MemoryInv
<1>0. Times /\ Times' /\ Left' \in 0..(Longest + Slack)
  BY TimesHold, TimesHoldNext, JustNow
<1>1. Longest + 2 * Slack \in Nat /\ 2 * (Longest + Slack) \in Nat
  BY Lengths
<1>2. CASE Elapses \/ Proceeds
  <2>1. atoms.enabled /\ pc \in Loop /\ UNCHANGED <<world, atoms, lastWritten>>
    BY <1>2 DEF Elapses, Proceeds, Kept
  <2>2. Faithful(lastWritten) => Faithful(lastWritten)'
    BY <2>1 DEF Faithful
  <2>. QED
    BY <1>1, <1>2, <2>1, <2>2, StaysWithin DEF MemoryInv
<1>3. CASE Disturbed
  BY <1>3, JustNow, Longer DEF Disturbed
<1>4. CASE Skips \/ Wrote
  <2>1. /\ pc \in {"compare", "write"} /\ UNCHANGED <<world, atoms>>
        /\ timer'.quiet = timer.quiet /\ timer'.calm = timer.calm
    BY <1>4 DEF Skips, Wrote
  <2>2. /\ Left \in Nat /\ Left' \in Nat /\ Left' <= Longest + Slack
        /\ timer.quiet \in Nat /\ timer.calm \in Nat
    BY <1>0, <2>1, Lengths DEF Times, Loop, Busy
  <2>3. FaithfulSoFar \/ ChangedWithin(Slack) \/ FailedWithin(Slack)
    BY <2>1 DEF StatusInv, Busy
  <2>4. CASE FaithfulSoFar
    <3>1. Faithful(status)
      BY <2>1, <2>4 DEF FaithfulSoFar
    <3>2. CASE Wrote
      BY <2>1, <3>1, <3>2 DEF Wrote, Faithful
    <3>3. CASE Skips
      <4>1. statusEqual(lastWritten, status) /\ lastWritten' = lastWritten
        BY <3>3 DEF Skips, Kept
      <4>2. Faithful(lastWritten)
        BY <3>1, <4>1 DEF Faithful, statusEqual, Depicts
      <4>. QED
        BY <2>1, <4>1, <4>2 DEF Faithful
    <3>. QED
      BY <1>4, <3>2, <3>3
  <2>5. CASE ChangedWithin(Slack)
    <3>1. timer.quiet <= Slack
      BY <2>2, <2>5, Lengths DEF ChangedWithin
    <3>2. timer.quiet + Left' <= Longest + 2 * Slack
      BY <2>2, <3>1, Lengths
    <3>. QED
      BY <2>1, <3>2 DEF ChangedWithin
  <2>6. CASE FailedWithin(Slack)
    <3>1. timer.calm <= Slack
      BY <2>2, <2>6, Lengths DEF FailedWithin
    <3>2. timer.calm + Left' <= 2 * (Longest + Slack)
      BY <2>2, <3>1, Lengths
    <3>. QED
      BY <2>1, <3>2 DEF FailedWithin
  <2>. QED
    BY <2>3, <2>4, <2>5, <2>6
<1>5. CASE Failed
  BY <1>5, JustNow, Longer DEF Failed
<1>. QED
  BY <1>2, <1>3, <1>4, <1>5, LoopSteps

\* What the object, the memory and the status being collected say.
PublishInv == AgingInv /\ AgreeInv /\ StatusInv /\ MemoryInv

\* The times of a change, which the next theorem rests on.
THEOREM Publishing == Spec => [](Uncapped /\ NilApart => PublishInv)
<1>1. Init => AgreeInv /\ StatusInv /\ MemoryInv
  BY DEF Init, AgreeInv, StatusInv, MemoryInv, Loop, Busy
<1> DEFINE Inv == AgingInv /\ (Uncapped /\ NilApart => AgreeInv /\ StatusInv /\ MemoryInv)
<1>2. Inv /\ AgingInv' /\ [Next]_vars => Inv'
  <2> SUFFICES ASSUME Inv, AgingInv', [Next]_vars, Uncapped, NilApart
               PROVE  AgreeInv' /\ StatusInv' /\ MemoryInv'
    OBVIOUS
  <2>1. TypeInv /\ TypeInv' /\ Shapes /\ AgesInv
    BY DEF AgingInv, IInv
  <2>2. AgreeInv'
    BY <2>1, AgreeStep
  <2>3. StatusInv'
    BY <2>1, StatusStep
  <2>4. MemoryInv'
    BY <2>1, MemoryStep
  <2>. QED
    BY <2>2, <2>3, <2>4
<1>3. Inv => (Uncapped /\ NilApart => PublishInv)
  BY DEF PublishInv
<1>. QED
  BY <1>1, <1>2, <1>3, Aging, PTL DEF Spec

\* "Writes status on state change": whatever the heartbeats, their changes and
\* the length of a collection, the object of a reporter without faults says
\* what gobgpd holds, its true health and a coherent identity, once two
\* collections have been made since the last change.  The lists must not be
\* longer than their caps: of one that is cut the health of the rest is lost.
THEOREM ChangePublished == Spec => [](Uncapped /\ NilApart => ChangeIsPublished)
<1>1. PublishInv => ChangeIsPublished
  <2> SUFFICES ASSUME PublishInv, Reporting, timer.quiet > Longest + 2 * Slack,
                      timer.calm > 2 * (Longest + Slack)
               PROVE  /\ cr.status # Nil
                      /\ Depicts(cr.status.parts, world)
                      /\ cr.status.healthy = Well(world)
                      /\ cr.status.rid = cr.status.asn /\ cr.status.rid = atoms.rid
    BY DEF ChangeIsPublished
  <2>1. pc \in Loop /\ atoms.enabled
    BY DEF Reporting, Loop, Busy
  <2>2. Left \in Nat /\ timer.quiet \in Nat /\ timer.calm \in Nat
    BY <2>1, TimesHold, Lengths DEF PublishInv, AgingInv, Times
  <2>3. /\ ~ChangedWithin(Longest + Slack) /\ ~FailedWithin(2 * Longest + Slack)
        /\ ~ChangedWithin(Longest + 2 * Slack) /\ ~FailedWithin(2 * (Longest + Slack))
    BY <2>2, Lengths DEF ChangedWithin, FailedWithin
  <2>4. lastWritten # Nil /\ cr.status = lastWritten
    BY <2>1, <2>3 DEF PublishInv, AgreeInv
  <2>5. Faithful(lastWritten)
    BY <2>1, <2>3, <2>4 DEF PublishInv, MemoryInv
  <2>. QED
    BY <2>4, <2>5 DEF Faithful
<1>. QED
  BY <1>1, Publishing, PTL
=============================================================================
