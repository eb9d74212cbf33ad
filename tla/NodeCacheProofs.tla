-------------------------- MODULE NodeCacheProofs ---------------------------
(***************************************************************************)
(* Proofs about NodeCache: for any Nodes, modes, TTL and deadline, and any *)
(* number of changes, edits and restarts, a pass works on a recent copy of *)
(* the Node, and the router ID of a running speaker is never contradicted  *)
(* unless reconcileDelete dropped the entry.                               *)
(*                                                                         *)
(* The arithmetic of Offset is proved for addresses of 32 bits, the width  *)
(* the code has: the provers know powers of two by their values only.      *)
(***************************************************************************)
EXTENDS NodeCache, TLAPS

\* The parts of the types that the argument needs.
Shapes ==
    /\ node \in Node
    /\ since \in 0..Far
    /\ cache = None \/ cache \in [node : Node, age : 0..Far]
    /\ need \in {"resolve"} \cup Selected
    /\ pc = "store" => copy \in Node

\* The Node has not changed since before the copy in hand, or in the cache,
\* was read; a copy is stored in the instant in which it was read.
Dated ==
    /\ cache # None /\ cache.node # node => since <= cache.age
    /\ pc = "store" /\ copy # node => since = 0

\* An entry is missing under a running speaker only if it was dropped.
Locked ==
    /\ speaker # None /\ lock = None => dropped
    /\ IdentityIsStable

IInv == Shapes /\ Dated /\ CopyIsRecent /\ Locked

-----------------------------------------------------------------------------
\* Two ages that are capped alike keep their order when time passes.
LEMMA OldKeepsOrder ==
    ASSUME NEW s \in 0..Far, NEW a \in 0..Far
    PROVE  /\ Old(s, Far) \in 0..Far /\ Old(a, Far) \in 0..Far
           /\ s <= a => Old(s, Far) <= Old(a, Far)
  BY TimeAssumption DEF Old, Far

\* The inductive invariant holds at first.
LEMMA InitInv == Init => IInv
  BY TimeAssumption DEF Init, IInv, Shapes, Dated, CopyIsRecent, Locked,
     IdentityIsStable, Far

\* Each action keeps the shapes.
LEMMA ShapesKept == ASSUME IInv, [Next]_vars PROVE Shapes'
<1> USE TimeAssumption DEF Shapes, Selected
<1>1. CASE UNCHANGED vars
  BY <1>1 DEF IInv, vars
<1>2. CASE Relabel \/ Populate
  BY <1>2 DEF IInv, Relabel, Populate, passVars, knownVars, Node, Far
<1>3. CASE HandleEvent \/ Edit \/ Remove \/ Recreate \/ Restart
  BY <1>3 DEF IInv, HandleEvent, Edit, Remove, Recreate, Restart, passVars, knownVars,
     nodeVars
<1>4. CASE Pass
  BY <1>4, OldKeepsOrder DEF IInv, Pass
<1>5. CASE Begin \/ Lookup \/ Resolve \/ StartBgp \/ Select
  BY <1>5 DEF IInv, Begin, Lookup, Resolve, StartBgp, Select, Fail, passVars, knownVars,
     nodeVars
<1>6. CASE Fetch
  BY <1>6 DEF IInv, Fetch, Fail, knownVars, nodeVars
<1>7. CASE Store
  BY <1>7 DEF IInv, Store, passVars, nodeVars, Far
<1> QED
  BY <1>1, <1>2, <1>3, <1>4, <1>5, <1>6, <1>7 DEF Next, Agent

\* Every step keeps the dates in order,
LEMMA DatedKept == ASSUME IInv, [Next]_vars PROVE Dated'
<1> USE TimeAssumption DEF Dated, Selected
<1>1. CASE UNCHANGED vars
  BY <1>1 DEF IInv, vars
<1>2. CASE Relabel \/ Populate
  BY <1>2 DEF IInv, Shapes, Relabel, Populate, passVars, knownVars
<1>3. CASE HandleEvent \/ Edit \/ Remove \/ Recreate \/ Restart
  BY <1>3 DEF IInv, HandleEvent, Edit, Remove, Recreate, Restart, passVars, knownVars,
     nodeVars
<1>4. CASE Pass
  BY <1>4, OldKeepsOrder DEF IInv, Shapes, Pass
<1>5. CASE Begin \/ Lookup \/ Resolve \/ StartBgp \/ Select
  BY <1>5 DEF IInv, Shapes, Begin, Lookup, Resolve, StartBgp, Select, Fail, passVars,
     knownVars, nodeVars
<1>6. CASE Fetch
  BY <1>6 DEF IInv, Fetch, Fail, knownVars, nodeVars
<1>7. CASE Store
  BY <1>7 DEF IInv, Shapes, Store, passVars, nodeVars
<1> QED
  BY <1>1, <1>2, <1>3, <1>4, <1>5, <1>6, <1>7 DEF Next, Agent

\* copies recent,
LEMMA RecentKept == ASSUME IInv, [Next]_vars PROVE CopyIsRecent'
<1> USE TimeAssumption DEF CopyIsRecent, Selected
<1>1. CASE UNCHANGED vars
  BY <1>1 DEF IInv, vars
<1>2. CASE Relabel \/ Populate
  BY <1>2 DEF Relabel, Populate
<1>3. CASE HandleEvent \/ Edit \/ Recreate \/ Restart
  BY <1>3 DEF IInv, HandleEvent, Edit, Recreate, Restart, passVars, knownVars,
     nodeVars
<1>4. CASE Remove
  BY <1>4 DEF IInv, Remove, passVars, nodeVars
<1>5. CASE Pass
  BY <1>5 DEF Pass
<1>6. CASE Begin
  BY <1>6 DEF Begin, knownVars
\* The only way to take a copy from the cache.
<1>7. CASE Lookup
  BY <1>7 DEF IInv, Shapes, Dated, Lookup, nodeVars, Far
<1>8. CASE Fetch
  BY <1>8 DEF Fetch, Fail
<1>9. CASE Store
  BY <1>9 DEF IInv, Shapes, Dated, Store, passVars, nodeVars
<1>10. CASE Resolve \/ StartBgp \/ Select
  BY <1>10 DEF IInv, Shapes, Resolve, StartBgp, Select, Fail, nodeVars
<1> QED
  BY <1>1, <1>2, <1>3, <1>4, <1>5, <1>6, <1>7, <1>8, <1>9, <1>10 DEF Next, Agent

\* and the lock with its holder.
LEMMA LockedKept == ASSUME IInv, [Next]_vars PROVE Locked'
<1> USE DEF Locked, IdentityIsStable
<1>1. CASE \/ UNCHANGED vars \/ Relabel \/ Populate \/ HandleEvent \/ Edit \/ Recreate
           \/ Pass \/ Begin \/ Lookup \/ Fetch \/ Store \/ Select
  BY <1>1 DEF IInv, vars, Relabel, Populate, HandleEvent, Edit, Recreate, Pass, Begin,
     Lookup, Fetch, Store, Select, knownVars, history, Differ
<1>2. CASE Remove
  <2>1. speaker' = speaker
    BY <1>2 DEF Remove
  <2>2. CASE lock' = None /\ dropped' = (speaker # None)
    BY <2>1, <2>2, Zenon
  <2>3. CASE UNCHANGED <<lock, dropped>>
    BY <2>1, <2>3 DEF IInv, Differ
  <2> QED
    BY <1>2, <2>2, <2>3 DEF Remove
<1>3. CASE Restart
  BY <1>3 DEF Restart
<1>4. CASE Resolve
  BY <1>4 DEF IInv, Resolve, history, Differ
<1>5. CASE StartBgp
  BY <1>5 DEF IInv, StartBgp, history, Differ
<1> QED
  BY <1>1, <1>2, <1>3, <1>4, <1>5 DEF Next, Agent

-----------------------------------------------------------------------------
\* The inductive invariant.
THEOREM Invariance == Spec => []IInv
<1>1. IInv /\ [Next]_vars => IInv'
  BY ShapesKept, DatedKept, RecentKept, LockedKept DEF IInv
<1> QED
  BY InitInv, <1>1, PTL DEF Spec

\* The labels and addresses that a pass works on were the Node's at most one
\* nodeCacheTTL ago, whatever the watch invalidates and when (nodeCache.get,
\* getNodeWithRetry).
THEOREM Recent == Spec => []CopyIsRecent
<1>1. IInv => CopyIsRecent
  BY DEF IInv
<1> QED
  BY Invariance, <1>1, PTL

\* The locked router ID is the running speaker's, unless reconcileDelete
\* dropped the entry (resolveEffectiveRouterID, reconcileGlobal).
THEOREM StableIdentity == Spec => []IdentityIsStable
<1>1. IInv => IdentityIsStable
  BY DEF IInv, Locked
<1> QED
  BY Invariance, <1>1, PTL

-----------------------------------------------------------------------------
(***************************************************************************)
(* The hashed router ID.                                                   *)
(***************************************************************************)

\* The sizes a pool can have, with a prefix of 0 to 30 bits.
LEMMA Powers ==
  ASSUME NEW k \in 2..32
  PROVE  2^k \in Nat /\ 4 <= 2^k /\ (k # 32 => 2^k < 2^32)
  <1> DEFINE Pow(j) == 2^j
  <1>1. /\ Pow(2) = 4 /\ Pow(3) = 8 /\ Pow(4) = 16 /\ Pow(5) = 32
        /\ Pow(6) = 64 /\ Pow(7) = 128 /\ Pow(8) = 256 /\ Pow(9) = 512
        /\ Pow(10) = 1024 /\ Pow(11) = 2048 /\ Pow(12) = 4096 /\ Pow(13) = 8192
        /\ Pow(14) = 16384 /\ Pow(15) = 32768 /\ Pow(16) = 65536 /\ Pow(17) = 131072
        /\ Pow(18) = 262144 /\ Pow(19) = 524288 /\ Pow(20) = 1048576 /\ Pow(21) = 2097152
        /\ Pow(22) = 4194304 /\ Pow(23) = 8388608 /\ Pow(24) = 16777216 /\ Pow(25) = 33554432
        /\ Pow(26) = 67108864 /\ Pow(27) = 134217728 /\ Pow(28) = 268435456 /\ Pow(29) = 536870912
        /\ Pow(30) = 1073741824 /\ Pow(31) = 2147483648 /\ Pow(32) = 4294967296
    BY Z3
  <1> HIDE DEF Pow
  <1>2. Pow(k) \in Nat /\ 4 <= Pow(k) /\ (k # 32 => Pow(k) < Pow(32))
    BY <1>1, Z3T(60)
  <1>3. QED
    BY <1>2 DEF Pow

\* GenerateRouterIDFromNodeName stays in [1, poolSize-2] whatever the hash and
\* the prefix; with a prefix of no bits the size of the pool overflows to 0,
\* and the subtraction that follows wraps to the right value.
LEMMA OffsetInPool ==
  ASSUME Width = 32, NEW ones \in 0..30, NEW h \in Nat
  PROVE  Offset(h, ones) \in 1..(2^(Width - ones) - 2)
  <1> DEFINE Pow(j) == 2^j
             P == Pow(32 - ones)
             M == Pow(32)
  <1>0. \A k \in 2..32 : Pow(k) \in Nat /\ 4 <= Pow(k) /\ (k # 32 => Pow(k) < Pow(32))
    BY Powers
  <1> HIDE DEF Pow
  <1>1. P \in Nat /\ M \in Nat /\ 4 <= P /\ 4 <= M /\ (ones # 0 => P < M) /\ (ones = 0 => P = M)
    <2>1. 32 - ones \in 2..32 /\ 32 \in 2..32
      OBVIOUS
    <2>2. QED
      BY <2>1, <1>0
  <1> HIDE DEF P, M
  <1>2. ((P % M) + M - 2) % M = P - 2
    <2>1. CASE ones = 0
      BY <1>1, <2>1
    <2>2. CASE ones # 0
      <3>1. P % M = P
        BY <1>1, <2>2
      <3>2. P - 2 \in 0..(M-1) /\ P + M - 2 = (P - 2) + M
        BY <1>1, <2>2
      <3>3. ASSUME NEW a \in 0..(M-1) PROVE (a + M) % M = a
        BY <1>1
      <3>4. QED
        BY <3>1, <3>2, <3>3
    <2>3. QED
      BY <2>1, <2>2
  <1>3. h % (P - 2) \in 0..(P - 3)
    BY <1>1
  <1>4. (h % (((P % M) + M - 2) % M)) + 1 \in 1..(P - 2)
    BY <1>1, <1>2, <1>3
  <1>5. QED
    BY <1>4 DEF Pow, P, M, Offset

\* An offset is a number below the size of the address space.
LEMMA OffsetType ==
  ASSUME Width = 32, NEW ones \in Ones, NEW h \in Hashes
  PROVE  Offset(h, ones) \in 0..(2^Width)
  <1> DEFINE Pow(j) == 2^j
  <1>0. \A k \in 2..32 : Pow(k) \in Nat /\ 4 <= Pow(k) /\ (k # 32 => Pow(k) < Pow(32))
    BY Powers
  <1>1. Offset(h, ones) \in 1..(Pow(32 - ones) - 2) /\ 32 - ones \in 2..32
    <2>0. ones \in 0..(Width - 2) /\ h \in 0..(2^Width - 1)
      BY PoolAssumption, Zenon
    <2>1. ones \in 0..30
      BY <2>0
    <2>2. Pow(32) \in Nat
      BY <1>0
    <2>3. h \in Nat
      BY <2>0
    <2>4. Offset(h, ones) \in 1..(2^(Width - ones) - 2)
      BY <2>1, <2>3, OffsetInPool
    <2>5. 32 - ones \in 2..32
      BY <2>1
    <2>6. QED
      BY <2>4, <2>5, Zenon
  <1> HIDE DEF Pow
  <1>2. Offset(h, ones) \in 0..Pow(32)
    BY <1>0, <1>1
  <1>3. QED
    BY <1>2 DEF Pow

-----------------------------------------------------------------------------
(***************************************************************************)
(* Type correctness.                                                       *)
(***************************************************************************)

\* The types, but for the router IDs; what a pass has at hand in each of its
\* steps; and the counters that bound one another.
Types ==
    /\ node \in Node /\ hash \in Hashes /\ since \in 0..Far
    /\ spec \in Global \cup {None} /\ want \in Global \cup {None}
    /\ queued \in BOOLEAN /\ raced \in BOOLEAN /\ dropped \in BOOLEAN
    /\ pc \in {"idle", "lookup", "fetch", "wait", "store", "resolve", "global"} \cup Selected
    /\ need \in {"resolve"} \cup Selected
    /\ copy \in Node \cup {None} /\ waited \in 0..(Deadline + 1)
    /\ cache = None \/ cache \in [node : Node, age : 0..Far]
    /\ applied \in [Selected -> Labels \cup {None}]
    /\ changes \in 0..MaxChanges /\ edits \in 0..MaxEdits /\ events \in 0..changes
    /\ pc \in {"store"} \cup Selected => copy \in Node
    /\ pc # "idle" => want \in Global
    /\ pc = "wait" => waited <= Deadline

RouterIDs == lock \in RouterID \cup {None} /\ speaker \in RouterID \cup {None}

TInv == Types /\ (Width = 32 => RouterIDs)

\* What users and the node do keeps the types.
LEMMA WorldTypes ==
  ASSUME Types,
         \/ Relabel \/ Populate \/ HandleEvent \/ Edit \/ Remove \/ Recreate \/ Restart
         \/ Pass
  PROVE  Types'
<1> USE TimeAssumption, BoundsAssumption DEF Types, Selected, nodeVars, passVars, knownVars, history
<1>1. CASE Relabel
  <2>1. PICK l \in Labels : node' = [node EXCEPT !.labels = l]
    BY <1>1 DEF Relabel
  <2>2. node' \in Node
    BY <2>1 DEF Node
  <2> QED
    BY <1>1, <2>2 DEF Relabel, Far
<1>2. CASE Populate
  BY <1>2 DEF Populate, Far
<1>3. CASE HandleEvent
  <2>1. queued' \in BOOLEAN /\ raced' \in BOOLEAN
    BY <1>3 DEF HandleEvent
  <2> QED
    BY <1>3, <2>1 DEF HandleEvent
<1>4. CASE Edit
  BY <1>4 DEF Edit
<1>5. CASE Remove
  <2>1. dropped' \in BOOLEAN
    BY <1>5 DEF Remove
  <2> QED
    BY <1>5, <2>1 DEF Remove
<1>6. CASE Recreate
  BY <1>6 DEF Recreate
<1>7. CASE Restart
  <2>1. queued' \in BOOLEAN /\ raced' \in BOOLEAN /\ dropped' \in BOOLEAN
    BY <1>7 DEF Restart
  <2>2. /\ pc' = "idle" /\ waited' = 0 /\ want' = None /\ copy' = None
        /\ need' = "resolve" /\ cache' = None
        /\ applied' = [s \in Selected |-> None]
        /\ events' = 0 /\ node' = node /\ hash' = hash /\ since' = since
        /\ changes' = changes /\ spec' = spec
    BY <1>7 DEF Restart
  <2>3. edits' \in 0..MaxEdits
    BY <1>7 DEF Restart
  <2>4. events' \in 0..changes' /\ waited' \in 0..(Deadline + 1)
    BY <2>2
  <2> QED
    BY <2>1, <2>2, <2>3, <2>4
<1>8. CASE Pass
  <2>1. since' \in 0..Far
    BY <1>8, OldKeepsOrder DEF Pass
  <2>2. cache' = None \/ cache' \in [node : Node, age : 0..Far]
    BY <1>8, OldKeepsOrder DEF Pass
  <2>3. waited' \in 0..(Deadline + 1)
    BY <1>8 DEF Pass
  <2>4. /\ pc' \in {"idle", "fetch"}
        /\ pc' # "idle" => want' \in Global
    BY <1>8 DEF Pass
  <2>5. /\ node' = node /\ hash' = hash /\ events' = events /\ changes' = changes
        /\ spec' = spec /\ queued' = queued /\ need' = need /\ want' = want
        /\ copy' = copy /\ applied' = applied /\ raced' = raced
        /\ dropped' = dropped /\ edits' = edits
    BY <1>8 DEF Pass
  <2> QED
    BY <2>1, <2>2, <2>3, <2>4, <2>5
<1> QED
  BY <1>1, <1>2, <1>3, <1>4, <1>5, <1>6, <1>7, <1>8

\* What a pass does keeps the types.
LEMMA AgentTypes ==
  ASSUME Types, Agent
  PROVE  Types'
<1> USE TimeAssumption, BoundsAssumption DEF Types, Selected, nodeVars, passVars, knownVars, history
<1>1. CASE Begin
  BY <1>1 DEF Begin
<1>2. CASE Lookup
  BY <1>2 DEF Lookup
<1>3. CASE Fetch
  <2>1. /\ UNCHANGED <<nodeVars, spec, need, want, waited, knownVars, edits>>
        /\ pc' \in {"store", "wait", "idle"} /\ pc = "fetch"
        /\ copy' \in {copy, node} /\ (pc' = "store" => copy' = node)
        /\ pc' = "wait" => waited <= Deadline
    BY <1>3 DEF Fetch, Fail
  <2>2. queued' \in {queued, TRUE}
    BY <1>3 DEF Fetch, Fail
  <2>3. queued' \in BOOLEAN
    BY <2>2
  <2>4. copy' \in Node \cup {None} /\ (pc' = "store" => copy' \in Node)
    BY <2>1
  <2>. QED
    BY <2>1, <2>3, <2>4
<1>4. CASE Store
  BY <1>4 DEF Store, Far
<1>5. CASE Resolve
  BY <1>5 DEF Resolve, Fail
<1>6. CASE StartBgp
  BY <1>6 DEF StartBgp, Fail
<1>7. CASE Select
  BY <1>7 DEF Select, Node
<1> QED
  BY <1>1, <1>2, <1>3, <1>4, <1>5, <1>6, <1>7 DEF Agent

\* ResolveRouterID returns a router ID or an error.
LEMMA ResolveType ==
  ASSUME Types, Width = 32, want \in Global
  PROVE  ResolveRouterID(want, copy) \in RouterID \cup {None}
<1> DEFINE Space == 0..(2^Width)
           Sources == {"explicit", "template", "node-ipv4", "hash-from-node-name"}
           Ids == {"explicit", "otherExplicit", "internal4", "external4", "annotation", "hash"}
<1>0. want.ones \in Ones /\ hash \in Hashes
  BY DEF Types, Global
<1>1. Offset(hash, want.ones) \in Space
  BY <1>0, OffsetType
<1>2. 0 \in Space
  <2> DEFINE Pow(j) == 2^j
  <2>1. Pow(32) \in Nat
    BY Powers
  <2> HIDE DEF Pow
  <2>2. 0 \in 0..Pow(32)
    BY <2>1
  <2> QED
    BY <2>2, Zenon DEF Pow
<1>3. RouterID = [source : Sources, id : Ids, offset : Space]
  BY DEF RouterID
<1> HIDE DEF Space
<1>4. \A source \in Sources, id \in Ids : Known(source, id) \in RouterID
  BY <1>2, <1>3 DEF Known
<1>5. AutoDetect(want.ones, copy) \in RouterID
  BY <1>1, <1>3, <1>4 DEF AutoDetect
<1>6. \A mode : Template(mode, copy) # None => Template(mode, copy) \in Ids
  BY DEF Template
<1> QED
  BY <1>4, <1>5, <1>6 DEF ResolveRouterID, Explicit

\* Every step keeps the types of the resolved router ID and of the speaker's.
LEMMA RouterIDsKept ==
  ASSUME TInv, [Next]_vars, Width = 32
  PROVE  RouterIDs'
<1> USE DEF RouterIDs, TInv
<1>1. CASE \/ UNCHANGED vars \/ Relabel \/ Populate \/ HandleEvent \/ Edit \/ Recreate
           \/ Pass \/ Begin \/ Lookup \/ Fetch \/ Store \/ Select \/ Remove \/ Restart
  BY <1>1 DEF vars, Relabel, Populate, HandleEvent, Edit, Recreate, Pass, Begin,
     Lookup, Fetch, Store, Select, Remove, Restart, knownVars
<1>2. CASE Resolve
  <2>1. want \in Global
    BY <1>2 DEF Resolve, Types
  <2>2. ResolveRouterID(want, copy) \in RouterID \cup {None}
    BY <2>1, ResolveType
  <2> QED
    BY <1>2, <2>2 DEF Resolve
<1>3. CASE StartBgp
  BY <1>3 DEF StartBgp
<1> QED
  BY <1>1, <1>2, <1>3 DEF Next, Agent

\* With addresses of 32 bits, which is the width the code has, every variable
\* keeps its type: a pass has the Node and the settings each of its steps uses,
\* getNodeWithRetry stops waiting after one retry past its deadline, and every
\* router ID resolved is one of the address space.
THEOREM TypeCorrect == Spec => [](Width = 32 => TypeOK)
<1>1. Init => TInv
  <2> SUFFICES ASSUME Init
               PROVE  TInv
    OBVIOUS
  <2>1. /\ events \in 0..changes /\ since \in 0..Far /\ waited \in 0..(Deadline + 1)
        /\ changes \in 0..MaxChanges /\ edits \in 0..MaxEdits
    BY TimeAssumption, BoundsAssumption DEF Init, Far
  <2>2. queued \in BOOLEAN /\ raced \in BOOLEAN /\ dropped \in BOOLEAN
    BY DEF Init
  <2>3. Types
    BY <2>1, <2>2 DEF Init, Types, Selected
  <2>4. RouterIDs
    BY DEF Init, RouterIDs
  <2> QED
    BY <2>3, <2>4 DEF TInv
<1>2. TInv /\ [Next]_vars => TInv'
  <2>1. ASSUME TInv, [Next]_vars
        PROVE  Types'
    <3>1. CASE UNCHANGED vars
      BY <2>1, <3>1 DEF TInv, Types, vars
    <3> QED
      BY <2>1, <3>1, WorldTypes, AgentTypes DEF TInv, Next
  <2> QED
    BY <2>1, RouterIDsKept DEF TInv
<1>3. TInv => (Width = 32 => TypeOK)
  BY BoundsAssumption DEF TInv, Types, RouterIDs, TypeOK
<1> QED
  BY <1>1, <1>2, <1>3, PTL DEF Spec

\* "Usable range: [1, poolSize-2]", for every node name and every prefix up to
\* 30 bits in addresses of 32: a hashed router ID is neither the network nor the
\* broadcast address of its pool, the whole address space included.
THEOREM HashedInPool == Spec => [](Width = 32 => HashInPool)
<1>1. (Width = 32 => TypeOK) => (Width = 32 => HashInPool)
  <2> SUFFICES ASSUME Width = 32, TypeOK, want # None
               PROVE  Offset(hash, want.ones) \in 1..(2^(Width - want.ones) - 2)
    BY DEF HashInPool
  <2>1. want.ones \in Ones /\ hash \in Hashes
    BY DEF TypeOK, Global
  <2>2. want.ones \in 0..(Width - 2) /\ hash \in 0..(2^Width - 1)
    BY <2>1, PoolAssumption, Zenon
  <2>3. want.ones \in 0..30 /\ hash \in Nat
    BY <2>2
  <2> QED
    BY <2>3, OffsetInPool
<1> QED
  BY <1>1, TypeCorrect, PTL
=============================================================================
