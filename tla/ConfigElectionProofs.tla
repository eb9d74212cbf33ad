------------------------ MODULE ConfigElectionProofs ------------------------
(***************************************************************************)
(* Theorems about what agents with lagging caches make of the election,    *)
(* and about what they have left to do, for any set of nodes, objects and  *)
(* configurations and any bounds.                                          *)
(***************************************************************************)
EXTENDS ConfigLifecycleProofs, WellFoundedInduction

USE ConfigsAssumption, ObjectsAssumption, SwitchAssumption, BoundsAssumption

(***************************************************************************)
(* Copies of an object lag.  Known(x, c, objs, now, made): x, a copy of    *)
(* the object c, was once stored, given that the API server stores objs    *)
(* now.  Its uid is that of no other object, and it is no younger than     *)
(* what is stored under its name.                                          *)
(***************************************************************************)
Known(x, c, objs, now, made) ==
    x.live =>
        /\ x.uid \in 1..made
        /\ x.created <= now
        /\ x.deleting => x.fin
        /\ objs[c].live => x.created <= objs[c].created
        /\ \A d \in Configs :
            /\ objs[d].live /\ objs[d].uid = x.uid =>
                /\ d = c /\ objs[d].created = x.created
                /\ x.deleting => objs[d].deleting
                /\ x.fin => objs[d].fin
            /\ ~Ties /\ objs[d].live /\ objs[d].created = x.created => d = c

\* An object missing from copies is no older than the objects in it.
Lagging(copies, objs) ==
    \A c, d \in Configs :
        objs[c].live /\ ~(copies[c].live /\ copies[c].uid = objs[c].uid) /\ copies[d].live
            => copies[d].created <= objs[c].created

\* x, a copy of the object c, is no newer than the one in copies.
Behind(x, c, copies, objs) ==
    /\ objs[c].live /\ objs[c].uid = x.uid =>
        /\ copies[c].live /\ copies[c].uid = x.uid
        /\ x.deleting => copies[c].deleting
    /\ copies[c].live => x.created <= copies[c].created

\* None of the objects is older than x.
Oldest(x, objs) ==
    \A c \in Configs : objs[c].live => x.created <= objs[c].created

\* The steps of a call whose object owns gobgpd, and of one whose does not.
Owning == {"addFin", "invalid", "apply", "applied", "failed", "cleanup", "release"}
Yielding == {"duplicate", "releaseIgnored"}

(***************************************************************************)
(* The agent of a node, with its call in progress, its cache and the uid   *)
(* it has applied, while the API server stores objs.                       *)
(***************************************************************************)

\* Its copies were once stored, and lag behind what is.
CopiesLag(call, copies, uid, objs, now, made) ==
    /\ uid <= made
    /\ \A c \in Configs : Known(copies[c], c, objs, now, made)
    /\ Lagging(copies, objs)
    /\ call.step # "idle" =>
        /\ call.obj.live
        /\ Known(call.obj, call.cfg, objs, now, made)
        /\ Behind(call.obj, call.cfg, copies, objs)

\* If it has applied an object that still exists, it knows that object, knows
\* of none that is older, and works for no other one as for the owner, but
\* for those created in the same second.
Stays(call, copies, uid, objs) ==
    \A o \in Configs :
        objs[o].live /\ objs[o].uid = uid =>
            /\ copies[o].live /\ copies[o].uid = uid
            /\ Oldest(objs[o], copies) /\ Oldest(objs[o], objs)
            /\ call.step # "idle" => objs[o].created <= call.obj.created
            /\ call.step \in Owning
                => call.cfg = o \/ call.obj.created = objs[o].created
            /\ ~Ties /\ call.step \in Yielding => call.cfg # o

\* It is about to put the finalizer on, or to apply, the oldest object there
\* is, or one that is gone.
ElectsOldest(call, copies, objs) ==
    LET c == call.cfg IN
    call.step \in {"addFin", "apply"} /\ objs[c].live /\ objs[c].uid = call.obj.uid
        => Oldest(objs[c], copies) /\ Oldest(objs[c], objs)

\* No object is older than one that carries the finalizer.
Finalized(objs) ==
    \A c \in Configs : objs[c].live /\ objs[c].fin => Oldest(objs[c], objs)

\* If it has applied an object that still exists, the finalizer guards that
\* object, and it ignores no object that carries the finalizer, but for those
\* created in the same second.
Guarded(call, copies, uid, objs) ==
    /\ Finalized(copies)
    /\ \A o \in Configs : objs[o].live /\ objs[o].uid = uid => objs[o].fin
    /\ ~Ties /\ call.step = "releaseIgnored" =>
        ~(objs[call.cfg].live /\ objs[call.cfg].uid = call.obj.uid)

Electing(call, copies, uid, objs, now, made) ==
    /\ CopiesLag(call, copies, uid, objs, now, made)
    /\ Stays(call, copies, uid, objs)
    /\ ElectsOldest(call, copies, objs)
    /\ Guarded(call, copies, uid, objs)

StoredIsKnown ==
    \A c \in Configs : /\ Known(api[c], c, api, clock, creates)
                       /\ ~api[c].live => api[c].uid = 0

ElectionIsStable ==
    \A n \in Nodes : Electing(op[n], cache[n], applied[n], api, clock, creates)

EInv == IInv /\ StoredIsKnown /\ Finalized(api) /\ ElectionIsStable

-----------------------------------------------------------------------------
(***************************************************************************)
(* What an agent has left to do.  It has a call in progress, a cache, a    *)
(* work queue q, undelivered events ev, and its gobgpd is programmed with  *)
(* prog, from the object uid; mute says that its last pass logged refused  *)
(* calls and reported success.                                             *)
(***************************************************************************)

\* Copies the watch predicate does not tell apart.
Alike(x, y) ==
    x.live = y.live /\ x.uid = y.uid /\ x.spec = y.spec /\ x.deleting = y.deleting

\* A copy that differs from what is stored will be replaced, and a call that
\* works on one will be repeated.
Notices(call, copies, q, ev, objs) ==
    /\ \A c \in Configs : ~Alike(copies[c], objs[c]) => c \in ev
    /\ call.step = "idle" => call.cfg = None
    /\ call.step # "idle" /\ ~Alike(call.obj, objs[call.cfg]) => call.cfg \in q \cup ev

\* The branches Reconcile takes for the object, and what they have done so far.
Branches(call, prog, uid, mute) ==
    /\ call.step \in {"addFin", "invalid", "apply", "applied", "failed", "duplicate"}
        => ~call.obj.deleting
    /\ call.step \in {"cleanup", "release", "releaseIgnored"} => call.obj.deleting
    /\ call.step = "applied" =>
        uid = call.obj.uid /\ (prog = call.obj.spec \/ mute)

\* An agent with nothing left to do for an object has applied it, as it is.
Remembers(call, q, ev, prog, uid, mute, objs) ==
    \A c \in Configs :
        objs[c].live /\ c \notin q \cup ev /\ call.cfg # c =>
            /\ ~objs[c].deleting
            /\ ~Ties => /\ uid = objs[c].uid
                        /\ prog = objs[c].spec \/ mute

Attending(call, copies, q, ev, prog, uid, mute, objs) ==
    /\ Notices(call, copies, q, ev, objs)
    /\ Branches(call, prog, uid, mute)
    /\ Remembers(call, q, ev, prog, uid, mute, objs)

NothingIsForgotten ==
    \A n \in Nodes :
        Attending(op[n], cache[n], queue[n], events[n], gobgpd[n], applied[n], silent[n], api)

PInv == EInv /\ NothingIsForgotten

-----------------------------------------------------------------------------
(***************************************************************************)
(* The election.                                                           *)
(***************************************************************************)

\* A set of natural numbers has a least one.
LEMMA LeastNatural ==
  ASSUME NEW T \in SUBSET Nat, T # {}
  PROVE  \E x \in T : \A y \in T : x <= y
  <1> DEFINE R == {ss \in Nat \X Nat : ss[1] < ss[2]}
  <1>1. OpToRel(<, Nat) = R
    BY DEF OpToRel
  <1>2. IsWellFoundedOn(R, Nat)
    BY <1>1, NatLessThanWellFounded, Zenon
  <1>3. \A x, y \in Nat : <<y, x>> \notin R => x <= y
    OBVIOUS
  <1> HIDE DEF R
  <1>4. PICK x \in T : \A y \in T : ~(<<y, x>> \in R)
    BY <1>2, WFMin, ZenonT(60)
  <1>5. QED
    BY <1>3, <1>4

\* configPrecedes orders the objects, so electOwningConfig finds one that
\* precedes all others whenever there is any.
LEMMA OwnerPrecedes ==
  ASSUME NEW objs \in [Configs -> Object], Live(objs) # {}
  PROVE  /\ Owner(objs) \in Live(objs)
         /\ \A d \in Live(objs) \ {Owner(objs)} : Precedes(objs, Owner(objs), d)
  <1> DEFINE Times == {objs[c].created : c \in Live(objs)}
  <1>0. \A c \in Live(objs) : c \in Configs /\ c \in Nat /\ objs[c].created \in Nat
    BY DEF Live, Object
  <1>1. PICK t \in Times : \A u \in Times : t <= u
    <2>1. Times \in SUBSET Nat /\ Times # {}
      BY <1>0
    <2>2. QED
      BY <2>1, LeastNatural
  <1> DEFINE Eldest == {c \in Live(objs) : objs[c].created = t}
  <1>2. PICK c \in Eldest : \A d \in Eldest : c <= d
    <2>1. Eldest \in SUBSET Nat /\ Eldest # {}
      BY <1>0, <1>1
    <2>2. QED
      BY <2>1, LeastNatural
  <1>3. c \in Live(objs) /\ \A d \in Live(objs) \ {c} : Precedes(objs, c, d)
    <2>1. ASSUME NEW d \in Live(objs), d # c
          PROVE  Precedes(objs, c, d)
      <3>1. objs[c].created = t /\ t <= objs[d].created
        BY <1>1, <1>2
      <3>2. objs[d].created = t => c <= d
        BY <1>2
      <3>3. QED
        BY <1>0, <1>2, <2>1, <3>1, <3>2 DEF Precedes
    <2>2. QED
      BY <1>2, <2>1
  <1>4. QED
    BY <1>3 DEF Owner

\* Reconcile's test, among objects of which some exist.
LEMMA OwnsMeansFirst ==
  ASSUME NEW objs \in [Configs -> Object], NEW c \in Configs, Live(objs) # {}
  PROVE  Owns(objs, c) <=> c = Owner(objs)
  <1>1. Owner(objs) \in Configs /\ None \notin Configs
    BY OwnerPrecedes DEF Live, None
  <1>2. QED
    BY <1>1 DEF Owns

\* The owner is one of the objects, and none of them is older.
LEMMA OwnerIsOldest ==
  ASSUME NEW objs \in [Configs -> Object], Live(objs) # {}
  PROVE  /\ Owner(objs) \in Configs /\ objs[Owner(objs)].live
         /\ Oldest(objs[Owner(objs)], objs)
  <1> DEFINE o == Owner(objs)
  <1>1. /\ o \in Live(objs)
        /\ \A d \in Live(objs) \ {o} : Precedes(objs, o, d)
    BY OwnerPrecedes
  <1>2. \A c \in Configs : objs[c].created \in Nat
    BY DEF Object
  <1> HIDE DEF o
  <1>3. o \in Configs /\ objs[o].live
    BY <1>1 DEF Live
  <1>4. ASSUME NEW d \in Configs, objs[d].live
        PROVE  objs[o].created <= objs[d].created
    <2>1. d = o \/ Precedes(objs, o, d)
      BY <1>1, <1>4 DEF Live
    <2>2. objs[o].created \in Nat /\ objs[d].created \in Nat
      BY <1>2, <1>3
    <2>3. QED
      BY <2>1, <2>2 DEF Precedes
  <1>5. QED
    BY <1>3, <1>4 DEF o, Oldest

-----------------------------------------------------------------------------
(***************************************************************************)
(* What the steps of the system do to one agent.                           *)
(***************************************************************************)

\* y is what a step leaves of the stored object x.
Survives(x, y) ==
    /\ ~y.live => y.uid = 0
    /\ y.live =>
        /\ x.live /\ y.uid = x.uid /\ y.created = x.created
        /\ x.deleting => y.deleting
        /\ x.fin => y.fin
        /\ y.deleting => y.fin

\* A step that creates no object; if it adds a finalizer, then to the oldest.
NothingNew ==
    /\ UNCHANGED <<clock, creates>>
    /\ \A c \in Configs : Survives(api[c], api'[c])
    /\ \A c \in Configs : api'[c].live /\ api'[c].fin => api[c].fin \/ Oldest(api[c], api)

\* A copy stays known when no object is created.
LEMMA KnownSurvives ==
  ASSUME NEW objs, NEW after, NEW now, NEW made, NEW x, NEW c \in Configs,
         \A d \in Configs : Survives(objs[d], after[d]),
         Known(x, c, objs, now, made)
  PROVE  Known(x, c, after, now, made)
  BY DEF Known, Survives

\* The e-th object is created: it gets a uid nobody has seen, and a creation
\* time no earlier than any.
Added(objs, after, e, now, then, made) ==
    /\ \A d \in Configs \ {e} : after[d] = objs[d]
    /\ ~objs[e].live
    /\ after[e].live /\ ~after[e].deleting /\ ~after[e].fin
    /\ after[e].uid = made + 1 /\ after[e].created = then
    /\ then \in {now, now + 1} /\ (~Ties => then = now + 1)

\* It stays known when one is created.
LEMMA KnownStays ==
  ASSUME NEW objs \in [Configs -> Object], NEW after \in [Configs -> Object],
         NEW now \in Nat, NEW then \in Nat, NEW made \in Nat,
         NEW e \in Configs, Added(objs, after, e, now, then, made),
         NEW x \in Object, NEW c \in Configs, Known(x, c, objs, now, made)
  PROVE  Known(x, c, after, then, made + 1)
  <1>0. x.uid \in Nat /\ x.created \in Nat
    BY DEF Object
  <1>1. SUFFICES ASSUME x.live
                 PROVE  Known(x, c, after, then, made + 1)
    BY DEF Known
  <1>2. /\ x.uid \in 1..made /\ x.created <= now
        /\ x.deleting => x.fin
    BY <1>1 DEF Known
  <1>3. /\ after[e].uid # x.uid /\ x.created <= after[e].created
        /\ ~Ties => after[e].created # x.created
        /\ x.uid \in 1..(made + 1) /\ x.created <= then
    BY <1>0, <1>2 DEF Added
  <1>4. \A d \in Configs \ {e} : after[d] = objs[d]
    BY DEF Added
  <1>5. QED
    BY <1>1, <1>2, <1>3, <1>4 DEF Known

\* The objects themselves are known, the new one included.
LEMMA KnownWhenAdded ==
  ASSUME NEW objs \in [Configs -> Object], NEW after \in [Configs -> Object],
         NEW now \in Nat, NEW then \in Nat, NEW made \in Nat,
         NEW e \in Configs, Added(objs, after, e, now, then, made),
         \A d \in Configs : Known(objs[d], d, objs, now, made)
  PROVE  \A d \in Configs : Known(after[d], d, after, then, made + 1)
  <1>1. ASSUME NEW d \in Configs, d # e
        PROVE  Known(after[d], d, after, then, made + 1)
    <2>1. after[d] = objs[d] /\ objs[d] \in Object
      BY <1>1 DEF Added
    <2>2. QED
      BY <2>1, KnownStays
  <1>2. Known(after[e], e, after, then, made + 1)
    <2>1. \A d \in Configs \ {e} :
            after[d].live => after[d].uid \in 1..made /\ after[d].created <= now
      BY DEF Added, Known
    <2>2. \A d \in Configs : after[d].uid \in Nat /\ after[d].created \in Nat
      BY DEF Object
    <2>3. /\ after[e].uid = made + 1 /\ after[e].created = then
          /\ ~after[e].deleting
          /\ then \in {now, now + 1} /\ (~Ties => then = now + 1)
      BY DEF Added
    <2>4. \A d \in Configs \ {e} :
            after[d].live => /\ after[d].uid # after[e].uid
                             /\ ~Ties => after[d].created # after[e].created
      BY <2>1, <2>2, <2>3
    <2>5. after[e].uid \in 1..(made + 1) /\ after[e].created <= then
      BY <2>3
    <2>6. after[e].created <= after[e].created
      BY <2>2
    <2>7. QED
      BY <2>3, <2>4, <2>5, <2>6 DEF Known
  <1>3. QED
    BY <1>1, <1>2

\* A call that goes on as it was, or from its cleanup to the removal of the
\* finalizer, or that ends.
GoesOn(call, next) ==
    \/ next.step = "idle"
    \/ /\ next.obj = call.obj /\ next.cfg = call.cfg
       /\ \/ next.step = call.step
          \/ call.step = "cleanup" /\ next.step = "release"

\* Nothing is created, and the agent takes no decision.
LEMMA ElectingQuietly ==
  ASSUME NEW objs \in [Configs -> Object], NEW after \in [Configs -> Object],
         NEW copies, NEW call, NEW next, NEW uid, NEW now, NEW made,
         call.step # "idle" => call.cfg \in Configs,
         \A d \in Configs : Survives(objs[d], after[d]),
         GoesOn(call, next),
         Electing(call, copies, uid, objs, now, made)
  PROVE  Electing(next, copies, uid, after, now, made)
  <1> USE DEF GoesOn
  <1>1. CopiesLag(next, copies, uid, after, now, made)
    <2>1. \A c \in Configs : Known(copies[c], c, after, now, made)
      BY KnownSurvives DEF Electing, CopiesLag
    <2>2. Lagging(copies, after)
      BY DEF Electing, CopiesLag, Lagging, Survives
    <2>3. ASSUME next.step # "idle"
          PROVE  /\ next.obj.live
                 /\ Known(next.obj, next.cfg, after, now, made)
                 /\ Behind(next.obj, next.cfg, copies, after)
      <3>1. /\ call.step # "idle" /\ call.cfg \in Configs
            /\ next.obj = call.obj /\ next.cfg = call.cfg
        BY <2>3
      <3>2. Known(call.obj, call.cfg, after, now, made)
        BY <3>1, KnownSurvives DEF Electing, CopiesLag
      <3>3. Behind(call.obj, call.cfg, copies, after)
        BY <3>1 DEF Electing, CopiesLag, Behind, Survives
      <3>4. QED
        BY <3>1, <3>2, <3>3 DEF Electing, CopiesLag
    <2>4. QED
      BY <2>1, <2>2, <2>3 DEF Electing, CopiesLag
  <1>2. Stays(next, copies, uid, after)
    <2> SUFFICES ASSUME NEW o \in Configs, after[o].live, after[o].uid = uid
                 PROVE  /\ copies[o].live /\ copies[o].uid = uid
                        /\ Oldest(after[o], copies) /\ Oldest(after[o], after)
                        /\ next.step # "idle" => after[o].created <= next.obj.created
                        /\ next.step \in Owning
                            => next.cfg = o \/ next.obj.created = after[o].created
                        /\ ~Ties /\ next.step \in Yielding => next.cfg # o
      BY DEF Stays
    <2>1. objs[o].live /\ objs[o].uid = uid /\ after[o].created = objs[o].created
      BY DEF Survives
    <2>2. /\ copies[o].live /\ copies[o].uid = uid
          /\ Oldest(objs[o], copies) /\ Oldest(objs[o], objs)
          /\ call.step # "idle" => objs[o].created <= call.obj.created
          /\ call.step \in Owning
                => call.cfg = o \/ call.obj.created = objs[o].created
          /\ ~Ties /\ call.step \in Yielding => call.cfg # o
      BY <2>1 DEF Electing, Stays
    <2>3. Oldest(after[o], copies) /\ Oldest(after[o], after)
      BY <2>1, <2>2 DEF Oldest, Survives
    <2>4. QED
      BY <2>1, <2>2, <2>3 DEF Owning, Yielding
  <1>3. ElectsOldest(next, copies, after)
    <2> DEFINE c == call.cfg
    <2> SUFFICES ASSUME next.step \in {"addFin", "apply"}, after[next.cfg].live,
                        after[next.cfg].uid = next.obj.uid
                 PROVE  Oldest(after[next.cfg], copies) /\ Oldest(after[next.cfg], after)
      BY DEF ElectsOldest
    <2>1. /\ next.cfg = c /\ next.obj = call.obj /\ c \in Configs
          /\ call.step \in {"addFin", "apply"}
      OBVIOUS
    <2>2. objs[c].live /\ objs[c].uid = call.obj.uid /\ after[c].created = objs[c].created
      BY <2>1 DEF Survives
    <2>3. Oldest(objs[c], copies) /\ Oldest(objs[c], objs)
      BY <2>1, <2>2 DEF Electing, ElectsOldest
    <2>4. Oldest(after[c], copies) /\ Oldest(after[c], after)
      BY <2>2, <2>3 DEF Oldest, Survives
    <2>5. QED
      BY <2>1, <2>4
  <1>4. Guarded(next, copies, uid, after)
    <2>1. \A o \in Configs : after[o].live /\ after[o].uid = uid => after[o].fin
      BY DEF Electing, Guarded, Survives
    <2>2. ASSUME ~Ties, next.step = "releaseIgnored"
          PROVE  ~(after[next.cfg].live /\ after[next.cfg].uid = next.obj.uid)
      <3>1. /\ call.step = "releaseIgnored" /\ call.cfg \in Configs
            /\ next.obj = call.obj /\ next.cfg = call.cfg
        BY <2>2
      <3>2. QED
        BY <2>2, <3>1 DEF Electing, Guarded, Survives
    <2>3. QED
      BY <2>1, <2>2 DEF Electing, Guarded
  <1>5. QED
    BY <1>1, <1>2, <1>3, <1>4 DEF Electing

\* A user creates an object.
LEMMA ElectingWhenAdded ==
  ASSUME NEW objs \in [Configs -> Object], NEW after \in [Configs -> Object],
         NEW copies \in [Configs -> Object], NEW call \in Op, NEW next,
         NEW now \in Nat, NEW then \in Nat, NEW made \in Nat, NEW uid \in Nat,
         call.step # "idle" => call.cfg \in Configs,
         NEW e \in Configs, Added(objs, after, e, now, then, made),
         \A d \in Configs : Known(objs[d], d, objs, now, made),
         next.step = call.step /\ next.obj = call.obj /\ next.cfg = call.cfg,
         Electing(call, copies, uid, objs, now, made)
  PROVE  Electing(next, copies, uid, after, then, made + 1)
  <1>0. /\ call.obj \in Object
        /\ \A d \in Configs : copies[d] \in Object
        /\ \A d \in Configs : copies[d].created \in Nat /\ objs[d].created \in Nat
    BY DEF Op, Object
  <1>1. /\ \A c \in Configs : Known(copies[c], c, after, then, made + 1)
        /\ call.step # "idle" => Known(call.obj, call.cfg, after, then, made + 1)
    BY <1>0, KnownStays DEF Electing, CopiesLag
  <1>2. \A d \in Configs \ {e} : after[d] = objs[d]
    BY DEF Added
  <1>3. after[e].uid = made + 1 /\ after[e].created = then /\ now <= then
    BY DEF Added
  <1>4. /\ \A d \in Configs : copies[d].live => copies[d].created <= then
        /\ \A d \in Configs : objs[d].live => objs[d].created <= then
    BY <1>0, <1>3 DEF Known, Electing, CopiesLag
  <1>5. uid # after[e].uid /\ uid <= made + 1
    BY <1>3 DEF Electing, CopiesLag
  <1>6. call.step # "idle" => call.obj.uid # after[e].uid
    BY <1>3 DEF Electing, CopiesLag, Known
  <1>7. Lagging(copies, after)
    BY <1>2, <1>3, <1>4 DEF Electing, CopiesLag, Lagging
  <1>8. call.step # "idle" => Behind(call.obj, call.cfg, copies, after)
    BY <1>2, <1>6 DEF Electing, CopiesLag, Behind
  <1>9. CopiesLag(next, copies, uid, after, then, made + 1)
    BY <1>1, <1>5, <1>7, <1>8 DEF Electing, CopiesLag
  <1>10. \A o \in Configs : objs[o].live /\ Oldest(objs[o], objs) => Oldest(objs[o], after)
    BY <1>2, <1>3, <1>4 DEF Oldest
  <1>11. Stays(next, copies, uid, after)
    <2>1. SUFFICES ASSUME NEW o \in Configs, after[o].live, after[o].uid = uid
                   PROVE  /\ copies[o].live /\ copies[o].uid = uid
                          /\ Oldest(after[o], copies) /\ Oldest(after[o], after)
                          /\ call.step # "idle" => after[o].created <= call.obj.created
                          /\ call.step \in Owning
                                => call.cfg = o \/ call.obj.created = after[o].created
                          /\ ~Ties /\ call.step \in Yielding => call.cfg # o
      BY DEF Stays
    <2>2. o # e /\ after[o] = objs[o]
      BY <1>2, <1>5, <2>1
    <2>3. QED
      BY <1>10, <2>1, <2>2 DEF Electing, Stays
  <1>12. ElectsOldest(next, copies, after)
    <2>1. call.step \in {"addFin", "apply"} => call.cfg \in Configs
      OBVIOUS
    <2>2. QED
      BY <1>2, <1>6, <1>10, <2>1 DEF Electing, ElectsOldest
  <1>13. Guarded(next, copies, uid, after)
    <2>1. call.step = "releaseIgnored" => call.cfg \in Configs
      OBVIOUS
    <2>2. QED
      BY <1>2, <1>5, <1>6, <2>1 DEF Electing, Guarded
  <1>14. QED
    BY <1>9, <1>11, <1>12, <1>13 DEF Electing

\* The informer catches up.
LEMMA ElectingWhenDelivered ==
  ASSUME NEW objs \in [Configs -> Object], NEW copies, NEW call,
         NEW now \in Nat, NEW made \in Nat, NEW uid \in Nat,
         call.step # "idle" => call.cfg \in Configs,
         \A d \in Configs : Known(objs[d], d, objs, now, made), Finalized(objs),
         Electing(call, copies, uid, objs, now, made)
  PROVE  Electing(call, objs, uid, objs, now, made)
  <1>1. Lagging(objs, objs)
    BY DEF Lagging
  <1>2. call.step # "idle" => Behind(call.obj, call.cfg, objs, objs)
    BY DEF Electing, CopiesLag, Known, Behind
  <1>3. CopiesLag(call, objs, uid, objs, now, made)
    BY <1>1, <1>2 DEF Electing, CopiesLag
  <1>4. QED
    BY <1>3 DEF Electing, Stays, ElectsOldest, Guarded

\* The agent restarts: it has applied nothing, and no object has uid 0.
LEMMA ElectingWhenRestarted ==
  ASSUME NEW objs \in [Configs -> Object], NEW call,
         NEW now \in Nat, NEW made \in Nat, call.step = "idle",
         \A d \in Configs : Known(objs[d], d, objs, now, made), Finalized(objs)
  PROVE  Electing(call, objs, 0, objs, now, made)
  <1>1. \A d \in Configs : objs[d].live => objs[d].uid # 0
    BY DEF Known
  <1>2. CopiesLag(call, objs, 0, objs, now, made)
    BY DEF CopiesLag, Lagging
  <1>3. QED
    BY <1>1, <1>2 DEF Electing, Stays, ElectsOldest, Guarded

\* Get returns a copy from the cache.
LEMMA ElectingWhenGot ==
  ASSUME NEW objs \in [Configs -> Object], NEW copies \in [Configs -> Object],
         NEW call, NEW next, NEW c \in Configs,
         NEW now \in Nat, NEW made \in Nat, NEW uid \in Nat,
         next.step = "got" /\ next.cfg = c /\ next.obj = copies[c],
         copies[c].live,
         Electing(call, copies, uid, objs, now, made)
  PROVE  Electing(next, copies, uid, objs, now, made)
  <1>0. copies[c].created \in Nat
    BY DEF Object
  <1>1. Behind(copies[c], c, copies, objs)
    <2>1. objs[c].live /\ objs[c].uid = copies[c].uid => copies[c].live
      OBVIOUS
    <2>2. QED
      BY <1>0 DEF Behind
  <1>2. CopiesLag(next, copies, uid, objs, now, made)
    BY <1>1 DEF Electing, CopiesLag
  <1>3. Stays(next, copies, uid, objs)
    BY DEF Electing, Stays, Oldest, Owning, Yielding
  <1>4. QED
    BY <1>2, <1>3 DEF Electing, ElectsOldest, Guarded

\* Reconcile branches on the election it holds among the cached objects.
LEMMA ElectingWhenListed ==
  ASSUME NEW objs \in [Configs -> Object], NEW copies \in [Configs -> Object],
         NEW call \in Op, NEW next,
         NEW now \in Nat, NEW made \in Nat, NEW uid \in Nat,
         call.step # "idle" /\ call.cfg \in Configs,
         next.obj = call.obj /\ next.cfg = call.cfg,
         next.step = Branch(call.obj, Owns(copies, call.cfg)),
         Electing(call, copies, uid, objs, now, made)
  PROVE  Electing(next, copies, uid, objs, now, made)
  <1> DEFINE c == call.cfg
  <1>0. /\ call.obj \in Object /\ call.obj.created \in Nat
        /\ \A d \in Configs : copies[d].created \in Nat /\ objs[d].created \in Nat
    BY DEF Op, Object
  <1>1. /\ call.obj.live /\ Known(call.obj, c, objs, now, made)
        /\ Behind(call.obj, c, copies, objs)
        /\ Lagging(copies, objs)
        /\ \A d \in Configs : Known(copies[d], d, objs, now, made)
    BY DEF Electing, CopiesLag
  <1>2. CopiesLag(next, copies, uid, objs, now, made)
    BY DEF Electing, CopiesLag
  <1>3. /\ next.step \in Owning => Owns(copies, c)
        /\ next.step \in Yielding => ~Owns(copies, c)
    BY DEF Branch, Owning, Yielding, Owns
  <1>4. \A d \in Configs : copies[d].live /\ objs[d].live /\ copies[d].uid = objs[d].uid
            => copies[d].created = objs[d].created
    BY <1>1 DEF Known
  <1>5. Stays(next, copies, uid, objs)
    <2> SUFFICES ASSUME NEW o \in Configs, objs[o].live, objs[o].uid = uid
                 PROVE  /\ copies[o].live /\ copies[o].uid = uid
                        /\ Oldest(objs[o], copies) /\ Oldest(objs[o], objs)
                        /\ next.step # "idle" => objs[o].created <= next.obj.created
                        /\ next.step \in Owning
                            => next.cfg = o \/ next.obj.created = objs[o].created
                        /\ ~Ties /\ next.step \in Yielding => next.cfg # o
      BY DEF Stays
    <2>1. /\ copies[o].live /\ copies[o].uid = uid
          /\ Oldest(objs[o], copies) /\ Oldest(objs[o], objs)
          /\ objs[o].created <= call.obj.created
      BY DEF Electing, Stays
    <2>2. copies[o].created = objs[o].created
      BY <1>4, <2>1
    <2>3. PICK w \in Configs : /\ w = Owner(copies) /\ copies[w].live
                               /\ Oldest(copies[w], copies)
      BY <2>1, OwnerIsOldest DEF Live
    <2>4. Owns(copies, c) <=> c = w
      BY <2>1, <2>3, OwnsMeansFirst DEF Live
    <2>5. copies[w].created = objs[o].created
      <3>1. copies[w].created <= copies[o].created /\ objs[o].created <= copies[w].created
        BY <2>1, <2>3 DEF Oldest
      <3>2. copies[w].created \in Nat /\ objs[o].created \in Nat
        BY <1>0
      <3>3. QED
        BY <2>2, <3>1, <3>2
    <2>6. ASSUME next.step \in Owning
          PROVE  call.obj.created = objs[o].created
      <3>1. c = w
        BY <1>3, <2>4, <2>6
      <3>2. call.obj.created <= copies[w].created
        BY <1>1, <2>3, <3>1 DEF Behind
      <3>3. QED
        BY <1>0, <2>1, <2>5, <3>2
    <2>7. ASSUME ~Ties, next.step \in Yielding
          PROVE  c # o
      <3>1. c # w
        BY <1>3, <2>4, <2>7
      <3>2. o = w
        BY <1>1, <2>3, <2>5, <2>7 DEF Known
      <3>3. QED
        BY <3>1, <3>2
    <2>8. QED
      BY <2>1, <2>6, <2>7
  <1>6. ElectsOldest(next, copies, objs)
    <2> SUFFICES ASSUME next.step \in {"addFin", "apply"}, objs[c].live,
                        objs[c].uid = call.obj.uid
                 PROVE  Oldest(objs[c], copies) /\ Oldest(objs[c], objs)
      BY DEF ElectsOldest
    <2>1. Owns(copies, c)
      BY <1>3 DEF Owning
    <2>2. copies[c].live /\ copies[c].uid = objs[c].uid
      BY <1>1 DEF Behind
    <2>3. Oldest(copies[c], copies)
      <3>1. Live(copies) # {}
        BY <2>2 DEF Live
      <3>2. c = Owner(copies)
        BY <2>1, <3>1, OwnsMeansFirst
      <3>3. QED
        BY <3>1, <3>2, OwnerIsOldest
    <2>4. copies[c].created = objs[c].created
      BY <1>4, <2>2
    <2>5. ASSUME NEW d \in Configs, objs[d].live
          PROVE  objs[c].created <= objs[d].created
      <3>1. CASE copies[d].live /\ copies[d].uid = objs[d].uid
        <4>1. copies[d].created = objs[d].created
          BY <1>4, <2>5, <3>1
        <4>2. QED
          BY <2>3, <2>4, <3>1, <4>1 DEF Oldest
      <3>2. CASE ~(copies[d].live /\ copies[d].uid = objs[d].uid)
        BY <1>1, <2>2, <2>4, <2>5, <3>2 DEF Lagging
      <3>3. QED
        BY <3>1, <3>2
    <2>6. QED
      BY <2>3, <2>4, <2>5 DEF Oldest
  <1>7. ASSUME ~Ties, next.step = "releaseIgnored", objs[c].live,
               objs[c].uid = call.obj.uid
        PROVE  FALSE
    <2>1. call.obj.deleting /\ ~Owns(copies, c)
      BY <1>0, <1>3, <1>7 DEF Branch, Object, Yielding
    <2>2. copies[c].live /\ copies[c].uid = objs[c].uid /\ copies[c].fin
      BY <1>1, <1>7, <2>1 DEF Behind, Known
    <2>3. Oldest(copies[c], copies) /\ copies[c].created = objs[c].created
      BY <1>4, <1>7, <2>2 DEF Electing, Guarded, Finalized
    <2>4. PICK w \in Configs : /\ w = Owner(copies) /\ copies[w].live
                               /\ Oldest(copies[w], copies)
      BY <2>2, OwnerIsOldest DEF Live
    <2>5. c # w
      BY <2>1, <2>2, <2>4, OwnsMeansFirst DEF Live
    <2>6. copies[w].created = objs[c].created
      <3>1. copies[w].created <= copies[c].created /\ copies[c].created <= copies[w].created
        BY <2>2, <2>3, <2>4 DEF Oldest
      <3>2. copies[w].created \in Nat /\ copies[c].created \in Nat
        BY <1>0
      <3>3. QED
        BY <2>3, <3>1, <3>2
    <2>7. QED
      BY <1>1, <1>7, <2>4, <2>5, <2>6 DEF Known
  <1>8. Guarded(next, copies, uid, objs)
    BY <1>7 DEF Electing, Guarded
  <1>9. QED
    BY <1>2, <1>5, <1>6, <1>8 DEF Electing

\* A pass programs gobgpd from the object of the call.
LEMMA ElectingWhenApplied ==
  ASSUME NEW objs \in [Configs -> Object], NEW copies \in [Configs -> Object],
         NEW call \in Op, NEW next,
         NEW now \in Nat, NEW made \in Nat, NEW uid \in Nat,
         call.step = "apply" /\ call.cfg \in Configs,
         next.obj = call.obj /\ next.cfg = call.cfg,
         next.step \in {"applied", "failed"}, call.obj.fin,
         Electing(call, copies, uid, objs, now, made)
  PROVE  Electing(next, copies, call.obj.uid, objs, now, made)
  <1>0. call.obj.uid \in Nat /\ call.obj.created \in Nat
    BY DEF Op, Object
  <1>1. /\ call.obj.live /\ Known(call.obj, call.cfg, objs, now, made)
        /\ Behind(call.obj, call.cfg, copies, objs)
    BY DEF Electing, CopiesLag
  <1>2. call.obj.uid <= made
    BY <1>0, <1>1 DEF Known
  <1>3. CopiesLag(next, copies, call.obj.uid, objs, now, made)
    BY <1>2 DEF Electing, CopiesLag
  <1>4. Stays(next, copies, call.obj.uid, objs)
    <2> SUFFICES ASSUME NEW o \in Configs, objs[o].live, objs[o].uid = call.obj.uid
                 PROVE  /\ copies[o].live /\ copies[o].uid = call.obj.uid
                        /\ Oldest(objs[o], copies) /\ Oldest(objs[o], objs)
                        /\ objs[o].created <= call.obj.created
                        /\ call.cfg = o
      BY DEF Stays, Yielding
    <2>1. o = call.cfg /\ objs[o].created = call.obj.created
      BY <1>1 DEF Known
    <2>2. Oldest(objs[o], copies) /\ Oldest(objs[o], objs)
      BY <2>1 DEF Electing, ElectsOldest
    <2>3. QED
      BY <1>0, <1>1, <2>1, <2>2 DEF Behind
  <1>5. Guarded(next, copies, call.obj.uid, objs)
    BY <1>1 DEF Electing, Guarded, Known
  <1>6. QED
    BY <1>3, <1>4, <1>5 DEF Electing, ElectsOldest

-----------------------------------------------------------------------------
(***************************************************************************)
(* The actions.                                                            *)
(***************************************************************************)

\* What is known of a call in progress.
LEMMA CallTypes ==
  ASSUME IInv, NEW m \in Nodes
  PROVE  /\ op[m] \in Op /\ op[m].obj \in Object
         /\ cache[m] \in [Configs -> Object]
         /\ applied[m] \in Nat
         /\ op[m].step # "idle" => op[m].cfg \in Configs
  BY DEF IInv, TypeOK, Op, CallsAreSound

\* The kinds of numbers the state holds.
LEMMA Numbers ==
  ASSUME TypeOK
  PROVE  clock \in Nat /\ creates \in Nat /\ api \in [Configs -> Object]
  BY DEF TypeOK

\* What a user's write does.
LEMMA UserWriteEffect ==
  ASSUME IInv, NEW c \in Configs, NEW obj, UserWrite(c, obj)
  PROVE  /\ api'[c] = obj
         /\ \A d \in Configs \ {c} : api'[d] = api[d]
         /\ \A m \in Nodes : /\ op'[m].step = op[m].step
                             /\ op'[m].cfg = op[m].cfg
                             /\ op'[m].obj = op[m].obj
         /\ \A m \in Nodes : events'[m] = events[m] \cup {c}
         /\ UNCHANGED <<cache, queue, gobgpd, applied, silent>>
  <1>1. api'[c] = obj /\ \A d \in Configs \ {c} : api'[d] = api[d]
    BY DEF UserWrite, IInv, TypeOK
  <1>2. \A m \in Nodes : /\ op'[m].step = op[m].step
                         /\ op'[m].cfg = op[m].cfg
                         /\ op'[m].obj = op[m].obj
    BY OutdatedOpsFacts DEF UserWrite, IInv
  <1>3. QED
    BY <1>1, <1>2 DEF UserWrite, Notify, daemonVars

\* What an accepted write of an agent does.
LEMMA WriteEffect ==
  ASSUME IInv, NEW n \in Nodes, NEW obj, Write(n, obj)
  PROVE  /\ op[n].cfg \in Configs /\ op[n].obj = api[op[n].cfg]
         /\ api'[op[n].cfg] = obj
         /\ \A d \in Configs \ {op[n].cfg} : api'[d] = api[d]
         /\ op'[n] = NoOp
         /\ \A m \in Nodes \ {n} : /\ op'[m].step = op[m].step
                                   /\ op'[m].cfg = op[m].cfg
                                   /\ op'[m].obj = op[m].obj
  <1>1. op[n].cfg \in Configs /\ op[n].obj = api[op[n].cfg]
    BY DEF Write, IInv, CopiesAreCurrent
  <1>2. OutdatedOps(op[n].cfg) \in [Nodes -> Op]
    BY OutdatedOpsType DEF IInv
  <1>3. op'[n] = NoOp /\ \A m \in Nodes \ {n} : op'[m] = OutdatedOps(op[n].cfg)[m]
    BY <1>2 DEF Write
  <1>4. api'[op[n].cfg] = obj /\ \A d \in Configs \ {op[n].cfg} : api'[d] = api[d]
    BY <1>1 DEF Write, IInv, TypeOK
  <1>5. QED
    BY <1>1, <1>3, <1>4, OutdatedOpsFacts DEF IInv

\* What the return of a call does.
LEMMA FinishEffect ==
  ASSUME IInv, NEW n \in Nodes, Finish(n)
  PROVE  op'[n] = NoOp /\ \A m \in Nodes \ {n} : op'[m] = op[m]
  BY DEF Finish, IInv, TypeOK

\* What a call's going to another step does.
LEMMA GotoEffect ==
  ASSUME IInv, NEW n \in Nodes, NEW step, Goto(n, step)
  PROVE  /\ op'[n].step = step /\ op'[n].cfg = op[n].cfg /\ op'[n].obj = op[n].obj
         /\ \A m \in Nodes \ {n} : op'[m] = op[m]
  <1>1. op[n] \in Op
    BY DEF IInv, TypeOK
  <1>2. /\ op'[n] = [op[n] EXCEPT !.step = step]
        /\ \A m \in Nodes \ {n} : op'[m] = op[m]
    BY DEF Goto, IInv, TypeOK
  <1>3. QED
    BY <1>1, <1>2 DEF Op

\* The fields of a call that is not there.
LEMMA NoOpFields == NoOp.step = "idle" /\ NoOp.cfg = None /\ ~NoOp.obj.live
  BY DEF NoOp, Gone

\* A step that creates nothing and decides nothing keeps the election stable.
LEMMA QuietStep ==
  ASSUME EInv, IInv', NothingNew, UNCHANGED <<cache, applied>>,
         \A m \in Nodes : GoesOn(op[m], op'[m])
  PROVE  EInv'
  <1>0. /\ api \in [Configs -> Object] /\ api' \in [Configs -> Object]
        /\ UNCHANGED <<clock, creates>>
        /\ \A d \in Configs : Survives(api[d], api'[d])
    BY DEF EInv, IInv, TypeOK, NothingNew
  <1>f. ASSUME NEW c \in Configs, api'[c].live, api'[c].fin
        PROVE  Oldest(api'[c], api')
    <2>1. api[c].live /\ api'[c].created = api[c].created
      BY <1>0, <1>f DEF Survives
    <2>2. Oldest(api[c], api)
      BY <1>f, <2>1 DEF NothingNew, EInv, Finalized
    <2>3. QED
      BY <1>0, <2>1, <2>2 DEF Oldest, Survives
  <1>1. ASSUME NEW c \in Configs
        PROVE  Known(api'[c], c, api', clock', creates')
    <2>1. Known(api[c], c, api', clock', creates')
      BY <1>0, KnownSurvives DEF EInv, StoredIsKnown
    <2>2. QED
      BY <1>0, <2>1 DEF Known, Survives
  <1>2. \A c \in Configs : ~api'[c].live => api'[c].uid = 0
    BY <1>0 DEF Survives
  <1>3. ASSUME NEW m \in Nodes
        PROVE  Electing(op'[m], cache'[m], applied'[m], api', clock', creates')
    <2>1. /\ op[m].step # "idle" => op[m].cfg \in Configs
          /\ GoesOn(op[m], op'[m])
          /\ Electing(op[m], cache[m], applied[m], api, clock, creates)
      BY CallTypes DEF EInv, ElectionIsStable
    <2>2. QED
      BY <1>0, <2>1, ElectingQuietly
  <1>4. QED
    BY <1>f, <1>1, <1>2, <1>3 DEF EInv, StoredIsKnown, Finalized, ElectionIsStable

\* A step that concerns one agent alone and keeps its election keeps that of
\* the others.
LEMMA LocalStep ==
  ASSUME EInv, IInv', UNCHANGED <<api, clock, creates>>, NEW n \in Nodes,
         \A m \in Nodes \ {n} :
            op'[m] = op[m] /\ cache'[m] = cache[m] /\ applied'[m] = applied[m],
         Electing(op'[n], cache'[n], applied'[n], api, clock, creates)
  PROVE  EInv'
  BY DEF EInv, StoredIsKnown, Finalized, ElectionIsStable

\* What a user's step does to the stored objects: it creates one, or none.
LEMMA UserStores ==
  ASSUME EInv, User
  PROVE  \/ NothingNew
         \/ /\ creates' = creates + 1
            /\ \E e \in Configs : Added(api, api', e, clock, clock', creates)
  <1>0. IInv /\ api \in [Configs -> Object]
    BY DEF EInv, IInv, TypeOK
  <1>a. ASSUME NEW c \in Configs, NEW obj, UserWrite(c, obj), Survives(api[c], obj),
               obj.live /\ obj.fin => api[c].fin, UNCHANGED <<clock, creates>>
        PROVE  NothingNew
    <2>1. api'[c] = obj /\ \A d \in Configs \ {c} : api'[d] = api[d]
      BY <1>0, <1>a, UserWriteEffect
    <2>2. \A d \in Configs : Survives(api[d], api[d])
      BY DEF Survives, EInv, StoredIsKnown, Known
    <2>3. QED
      BY <1>a, <2>1, <2>2 DEF NothingNew
  <1>1. ASSUME NEW e \in Configs, NEW spec \in Specs, Create(e, spec)
        PROVE  creates' = creates + 1 /\ Added(api, api', e, clock, clock', creates)
    <2> DEFINE obj == [live |-> TRUE, created |-> clock', uid |-> creates + 1,
                       deleting |-> FALSE, fin |-> FALSE, spec |-> spec,
                       ready |-> "unset"]
    <2>1. UserWrite(e, obj) /\ creates' = creates + 1 /\ ~api[e].live
      BY <1>1 DEF Create
    <2>2. /\ clock' \in {clock, clock + 1}
          /\ ~Ties => clock' = clock + 1
      BY <1>1 DEF Create
    <2>3. /\ obj.live /\ ~obj.deleting /\ ~obj.fin
          /\ obj.uid = creates + 1 /\ obj.created = clock'
      OBVIOUS
    <2> HIDE DEF obj
    <2>4. api'[e] = obj /\ \A d \in Configs \ {e} : api'[d] = api[d]
      BY <1>0, <2>1, UserWriteEffect
    <2>5. QED
      BY <2>1, <2>2, <2>3, <2>4 DEF Added
  <1>2. ASSUME NEW c \in Configs, NEW spec \in Revisions, Edit(c, spec)
        PROVE  NothingNew
    <2>1. api[c] \in Object /\ Known(api[c], c, api, clock, creates)
      BY <1>0 DEF EInv, StoredIsKnown
    <2>2. /\ Survives(api[c], [api[c] EXCEPT !.spec = spec])
          /\ [api[c] EXCEPT !.spec = spec].fin = api[c].fin
      BY <1>2, <2>1 DEF Survives, Object, Known, Edit
    <2>3. QED
      BY <1>2, <1>a, <2>2 DEF Edit
  <1>3. ASSUME NEW c \in Configs, Delete(c)
        PROVE  NothingNew
    <2>1. api[c] \in Object
      BY <1>0
    <2> DEFINE obj == IF api[c].fin THEN [api[c] EXCEPT !.deleting = TRUE] ELSE Gone
    <2>2. Survives(api[c], obj) /\ (obj.live /\ obj.fin => api[c].fin)
      BY <1>3, <2>1 DEF Survives, Object, Gone, Delete
    <2>3. UserWrite(c, obj) /\ UNCHANGED <<clock, creates>>
      BY <1>3 DEF Delete
    <2> HIDE DEF obj
    <2>4. QED
      BY <1>a, <2>2, <2>3
  <1>4. QED
    BY <1>1, <1>2, <1>3 DEF User

\* What the users do keeps the election stable.
LEMMA UserElects ==
  ASSUME EInv, User, IInv'
  PROVE  EInv'
  <1>0. /\ IInv /\ clock \in Nat /\ creates \in Nat /\ api \in [Configs -> Object]
        /\ clock' \in Nat /\ api' \in [Configs -> Object]
    BY Numbers DEF EInv, IInv, TypeOK
  <1>1. PICK c, obj : c \in Configs /\ UserWrite(c, obj)
    BY DEF User, Create, Edit, Delete
  <1>2. /\ \A m \in Nodes : /\ op'[m].step = op[m].step
                            /\ op'[m].cfg = op[m].cfg
                            /\ op'[m].obj = op[m].obj
        /\ UNCHANGED <<cache, applied>>
    BY <1>0, <1>1, UserWriteEffect
  <1>3. CASE NothingNew
    BY <1>2, <1>3, QuietStep DEF GoesOn
  <1>4. ASSUME NEW e \in Configs, Added(api, api', e, clock, clock', creates),
               creates' = creates + 1
        PROVE  EInv'
    <2>1. \A d \in Configs : Known(api[d], d, api, clock, creates)
      BY DEF EInv, StoredIsKnown
    <2>2. \A d \in Configs : Known(api'[d], d, api', clock', creates')
      BY <1>0, <1>4, <2>1, KnownWhenAdded
    <2>3. \A d \in Configs : ~api'[d].live => api'[d].uid = 0
      BY <1>4 DEF Added, EInv, StoredIsKnown
    <2>f. Finalized(api')
      <3> SUFFICES ASSUME NEW d \in Configs, api'[d].live, api'[d].fin,
                          NEW o \in Configs, api'[o].live
                   PROVE  api'[d].created <= api'[o].created
        BY DEF Finalized, Oldest
      <3>1. d # e /\ api'[d] = api[d] /\ api[d].created <= clock
        BY <1>4, <2>1 DEF Added, Known
      <3>2. CASE o = e
        <4>1. api'[o].created \in {clock, clock + 1} /\ api[d].created \in Nat
          BY <1>0, <1>4, <3>2 DEF Added, Object
        <4>2. QED
          BY <1>0, <3>1, <4>1
      <3>3. CASE o # e
        BY <1>4, <3>1, <3>3 DEF Added, EInv, Finalized, Oldest
      <3>4. QED
        BY <3>2, <3>3
    <2>4. ASSUME NEW m \in Nodes
          PROVE  Electing(op'[m], cache'[m], applied'[m], api', clock', creates')
      <3>1. /\ op[m] \in Op /\ cache[m] \in [Configs -> Object] /\ applied[m] \in Nat
            /\ op[m].step # "idle" => op[m].cfg \in Configs
            /\ Electing(op[m], cache[m], applied[m], api, clock, creates)
        BY <1>0, CallTypes DEF EInv, ElectionIsStable
      <3>2. QED
        BY <1>0, <1>2, <1>4, <2>1, <3>1, ElectingWhenAdded
    <2>5. QED
      BY <2>2, <2>3, <2>f, <2>4 DEF EInv, StoredIsKnown, ElectionIsStable
  <1>5. QED
    BY <1>3, <1>4, UserStores

\* What an agent writes back: the object it read with the finalizer added or
\* another status, or nothing at all.
LEMMA WriteStores ==
  ASSUME EInv, NEW n \in Nodes, NEW obj, Write(n, obj), UNCHANGED <<clock, creates>>,
         Survives(op[n].obj, obj),
         obj.live /\ obj.fin => op[n].obj.fin \/ Oldest(op[n].obj, api)
  PROVE  /\ NothingNew
         /\ \A m \in Nodes : GoesOn(op[m], op'[m])
  <1>0. IInv
    BY DEF EInv
  <1>1. /\ op[n].cfg \in Configs /\ op[n].obj = api[op[n].cfg]
        /\ api'[op[n].cfg] = obj
        /\ \A d \in Configs \ {op[n].cfg} : api'[d] = api[d]
        /\ op'[n] = NoOp
        /\ \A m \in Nodes \ {n} : /\ op'[m].step = op[m].step
                                  /\ op'[m].cfg = op[m].cfg
                                  /\ op'[m].obj = op[m].obj
    BY <1>0, WriteEffect
  <1>2. \A d \in Configs : Survives(api[d], api[d])
    BY DEF Survives, EInv, StoredIsKnown, Known
  <1>3. NothingNew
    BY <1>1, <1>2 DEF NothingNew
  <1>4. QED
    BY <1>1, <1>3, NoOpFields DEF GoesOn

\* The steps in which an agent neither looks at its cache nor at gobgpd's
\* contents store nothing new and decide nothing.
LEMMA AgentWritesQuietly ==
  ASSUME EInv, NEW n \in Nodes,
         \/ AddFinalizer(n) \/ ReportSuccess(n) \/ ReportFailure(n)
         \/ RemoveFinalizer(n) \/ Cleanup(n) \/ CleanupFails(n) \/ CallFails(n)
  PROVE  /\ NothingNew /\ UNCHANGED <<cache, applied>>
         /\ \A m \in Nodes : GoesOn(op[m], op'[m])
  <1> USE DEF apiVars, daemonVars, boundVars
  <1>0. /\ IInv /\ op[n].obj \in Object
        /\ \A d \in Configs : Survives(api[d], api[d])
    BY CallTypes DEF EInv, StoredIsKnown, Survives, Known
  <1>1. UNCHANGED <<clock, creates, cache, applied>>
    BY DEF AddFinalizer, ReportSuccess, ReportFailure, RemoveFinalizer, Cleanup,
           CleanupFails, CallFails, Refused
  <1>a. ASSUME op[n].step # "idle"
        PROVE  op[n].obj.live /\ (op[n].obj.deleting => op[n].obj.fin)
    BY <1>a DEF EInv, ElectionIsStable, Electing, CopiesLag, Known
  <1>b. ASSUME UNCHANGED api
        PROVE  NothingNew
    BY <1>0, <1>1, <1>b DEF NothingNew
  <1>c. ASSUME Finish(n)
        PROVE  \A m \in Nodes : GoesOn(op[m], op'[m])
    BY <1>0, <1>c, FinishEffect, NoOpFields DEF GoesOn
  <1>d. ASSUME Refused(n)
        PROVE  NothingNew /\ \A m \in Nodes : GoesOn(op[m], op'[m])
    BY <1>b, <1>c, <1>d DEF Refused
  <1>2. CASE AddFinalizer(n)
    <2>1. Survives(op[n].obj, [op[n].obj EXCEPT !.fin = TRUE])
      BY <1>0, <1>a, <1>2 DEF AddFinalizer, Survives, Object
    <2>2. ASSUME op[n].fresh
          PROVE  Oldest(op[n].obj, api)
      <3>1. op[n].step = "addFin" /\ op[n].obj.live
        BY <1>a, <1>2 DEF AddFinalizer
      <3>2. op[n].obj = api[op[n].cfg]
        BY <1>0, <2>2 DEF IInv, CopiesAreCurrent
      <3>3. QED
        BY <3>1, <3>2 DEF EInv, ElectionIsStable, Electing, ElectsOldest
    <2>3. QED
      BY <1>1, <1>2, <1>d, <2>1, <2>2, WriteStores DEF AddFinalizer, Write
  <1>e. ASSUME op[n].step # "idle", NEW ready \in Ready
        PROVE  /\ Survives(op[n].obj, [op[n].obj EXCEPT !.ready = ready])
               /\ [op[n].obj EXCEPT !.ready = ready].fin = op[n].obj.fin
    BY <1>0, <1>a, <1>e DEF Survives, Object
  <1>3. CASE ReportSuccess(n)
    <2>1. /\ Survives(op[n].obj, [op[n].obj EXCEPT !.ready = "applied"])
          /\ [op[n].obj EXCEPT !.ready = "applied"].fin = op[n].obj.fin
      BY <1>e, <1>3 DEF ReportSuccess, Ready
    <2>2. QED
      BY <1>1, <1>3, <1>d, <2>1, WriteStores DEF ReportSuccess
  <1>4. CASE ReportFailure(n)
    <2>1. /\ Survives(op[n].obj, [op[n].obj EXCEPT !.ready = op[n].step])
          /\ [op[n].obj EXCEPT !.ready = op[n].step].fin = op[n].obj.fin
      BY <1>e, <1>4 DEF ReportFailure, Ready
    <2>2. QED
      BY <1>1, <1>4, <1>d, <2>1, WriteStores DEF ReportFailure
  <1>5. CASE RemoveFinalizer(n)
    <2>1. Survives(op[n].obj, Gone) /\ ~Gone.live
      BY DEF Survives, Gone
    <2>2. QED
      BY <1>1, <1>5, <1>d, <2>1, WriteStores DEF RemoveFinalizer
  <1>6. CASE Cleanup(n)
    <2>1. UNCHANGED api /\ op[n].step = "cleanup" /\ (Goto(n, "release") \/ Finish(n))
      BY <1>6 DEF Cleanup
    <2>2. \A m \in Nodes : GoesOn(op[m], op'[m])
      BY <1>0, <1>c, <2>1, GotoEffect DEF GoesOn
    <2>3. QED
      BY <1>1, <1>b, <2>1, <2>2
  <1>7. CASE CleanupFails(n)
    BY <1>1, <1>7, <1>b, <1>c DEF CleanupFails
  <1>8. CASE CallFails(n)
    BY <1>1, <1>8, <1>b, <1>c DEF CallFails
  <1>9. QED
    BY <1>2, <1>3, <1>4, <1>5, <1>6, <1>7, <1>8

\* What an agent does keeps the election stable.
LEMMA AgentElects ==
  ASSUME EInv, NEW n \in Nodes, Agent(n), IInv'
  PROVE  EInv' /\ NothingNew
  <1> USE DEF apiVars, daemonVars, boundVars
  <1>0. /\ IInv /\ clock \in Nat /\ creates \in Nat /\ api \in [Configs -> Object]
        /\ op[n] \in Op /\ op[n].obj \in Object /\ cache[n] \in [Configs -> Object]
        /\ applied[n] \in Nat
        /\ op[n].step # "idle" => op[n].cfg \in Configs
        /\ Electing(op[n], cache[n], applied[n], api, clock, creates)
        /\ \A d \in Configs : Known(api[d], d, api, clock, creates)
        /\ Finalized(api)
        /\ op[n].step = "apply" => op[n].obj.fin
    BY CallTypes, Numbers
    DEF EInv, IInv, CallsAreSound, StoredIsKnown, ElectionIsStable
  <1>b. ASSUME UNCHANGED <<api, clock, creates>>
        PROVE  NothingNew
    BY <1>b DEF NothingNew, EInv, StoredIsKnown, Survives, Known
  <1>1. CASE Deliver(n)
    <2>1. /\ op' = op /\ applied' = applied /\ UNCHANGED <<api, clock, creates>>
          /\ cache'[n] = api
          /\ \A m \in Nodes \ {n} : cache'[m] = cache[m]
      BY <1>0, <1>1 DEF Deliver, IInv, TypeOK
    <2>2. Electing(op[n], api, applied[n], api, clock, creates)
      BY <1>0, ElectingWhenDelivered
    <2>3. QED
      BY <1>b, <2>1, <2>2, LocalStep
  <1>2. ASSUME NEW c \in Configs, Get(n, c)
        PROVE  EInv' /\ NothingNew
    <2>1. UNCHANGED <<api, clock, creates, cache, applied>>
      BY <1>2 DEF Get
    <2>2. CASE cache[n][c].live
      <3> DEFINE call == [step |-> "got", cfg |-> c, obj |-> cache[n][c],
                          fresh |-> c \notin stale[n]]
      <3>1. op'[n] = call /\ \A m \in Nodes \ {n} : op'[m] = op[m]
        BY <1>0, <1>2, <2>2 DEF Get, IInv, TypeOK
      <3>2. call.step = "got" /\ call.cfg = c /\ call.obj = cache[n][c]
        OBVIOUS
      <3> HIDE DEF call
      <3>3. Electing(call, cache[n], applied[n], api, clock, creates)
        BY <1>0, <2>2, <3>2, ElectingWhenGot
      <3>4. QED
        BY <1>b, <2>1, <3>1, <3>3, LocalStep
    <2>3. CASE ~cache[n][c].live
      <3>1. UNCHANGED op
        BY <1>2, <2>3 DEF Get
      <3>2. QED
        BY <1>0, <1>b, <2>1, <3>1, LocalStep
    <2>4. QED
      BY <2>2, <2>3
  <1>3. CASE List(n)
    <2> DEFINE step == Branch(op[n].obj, Owns(cache[n], op[n].cfg))
    <2>1. /\ UNCHANGED <<api, clock, creates, cache, applied>>
          /\ op[n].step # "idle"
          /\ IF step = "idle" THEN Finish(n) ELSE Goto(n, step)
      BY <1>3 DEF List
    <2>2. CASE step = "idle"
      <3>1. Finish(n)
        BY <2>1, <2>2
      <3>2. \A m \in Nodes : GoesOn(op[m], op'[m])
        BY <1>0, <3>1, FinishEffect, NoOpFields DEF GoesOn
      <3>3. QED
        BY <1>b, <2>1, <3>2, QuietStep
    <2>3. CASE step # "idle"
      <3>1. Goto(n, step)
        BY <2>1, <2>3
      <3>2. /\ op'[n].step = step /\ op'[n].cfg = op[n].cfg /\ op'[n].obj = op[n].obj
            /\ \A m \in Nodes \ {n} : op'[m] = op[m]
        BY <1>0, <3>1, GotoEffect
      <3>3. Electing(op'[n], cache[n], applied[n], api, clock, creates)
        BY <1>0, <2>1, <3>2, ElectingWhenListed
      <3>4. QED
        BY <1>b, <2>1, <3>2, <3>3, LocalStep
    <2>4. QED
      BY <2>2, <2>3
  <1>4. ASSUME op[n].step = "apply", NEW step \in {"applied", "failed"}, Goto(n, step),
               applied' = [applied EXCEPT ![n] = op[n].obj.uid],
               UNCHANGED <<api, clock, creates, cache>>
        PROVE  EInv' /\ NothingNew
    <2>1. /\ op'[n].step = step /\ op'[n].cfg = op[n].cfg /\ op'[n].obj = op[n].obj
          /\ \A m \in Nodes \ {n} : op'[m] = op[m]
      BY <1>0, <1>4, GotoEffect
    <2>2. /\ applied'[n] = op[n].obj.uid
          /\ \A m \in Nodes \ {n} : applied'[m] = applied[m]
      BY <1>0, <1>4 DEF IInv, TypeOK
    <2>3. Electing(op'[n], cache[n], op[n].obj.uid, api, clock, creates)
      BY <1>0, <1>4, <2>1, ElectingWhenApplied
    <2>4. QED
      BY <1>4, <1>b, <2>1, <2>2, <2>3, LocalStep
  <1>5. CASE ApplyAll(n)
    BY <1>4, <1>5 DEF ApplyAll
  <1>6. ASSUME NEW ending \in {"applied", "failed"}, ApplySome(n, ending)
        PROVE  EInv' /\ NothingNew
    BY <1>4, <1>6 DEF ApplySome
  <1>7. CASE Restart(n)
    <2>1. /\ op'[n] = NoOp /\ cache'[n] = api /\ applied'[n] = 0
          /\ \A m \in Nodes \ {n} :
                op'[m] = op[m] /\ cache'[m] = cache[m] /\ applied'[m] = applied[m]
          /\ UNCHANGED <<api, clock, creates>>
      BY <1>0, <1>7 DEF Restart, IInv, TypeOK
    <2>2. Electing(NoOp, api, 0, api, clock, creates)
      BY <1>0, NoOpFields, ElectingWhenRestarted
    <2>3. QED
      BY <1>b, <2>1, <2>2, LocalStep
  <1>8. CASE \/ AddFinalizer(n) \/ ReportSuccess(n) \/ ReportFailure(n)
             \/ RemoveFinalizer(n) \/ Cleanup(n) \/ CleanupFails(n) \/ CallFails(n)
    BY <1>8, AgentWritesQuietly, QuietStep
  <1>9. QED
    BY <1>1, <1>2, <1>3, <1>5, <1>6, <1>7, <1>8
    DEF Agent, Proceed, Fault, ApplyFails

(***************************************************************************)
(* The theorems about the election.                                        *)
(***************************************************************************)

\* The election of lagging agents is stable: whatever their caches show them,
\* a node that has applied an object that still exists knows of no older one
\* and neither programs nor cleans up any other, up to ties.
THEOREM StableElection == Spec => []EInv
  <1>1. ASSUME Init
        PROVE  EInv
    <2>1. NoOp.step = "idle" /\ ~Gone.live /\ Gone.uid = 0
      BY DEF NoOp, Gone
    <2>2. StoredIsKnown
      BY <1>1, <2>1 DEF Init, StoredIsKnown, Known
    <2>3. ElectionIsStable
      BY <1>1, <2>1
      DEF Init, ElectionIsStable, Electing, CopiesLag, Known, Lagging, Stays, ElectsOldest,
          Guarded, Finalized
    <2>f. Finalized(api)
      BY <1>1, <2>1 DEF Init, Finalized
    <2>4. IInv
      <3>1. NoOp.fresh = FALSE
        BY DEF NoOp
      <3>2. CopiesAreCurrent /\ CallsAreSound
        BY <1>1, <2>1, <3>1 DEF Init, CopiesAreCurrent, CallsAreSound
      <3>3. QED
        BY <1>1, <3>2, InitType DEF IInv
    <2>5. QED
      BY <2>2, <2>3, <2>f, <2>4 DEF EInv
  <1>2. ASSUME EInv, IInv', [Next]_vars
        PROVE  EInv'
    <2>1. CASE User
      BY <1>2, <2>1, UserElects
    <2>2. ASSUME NEW n \in Nodes, Agent(n)
          PROVE  EInv'
      BY <1>2, <2>2, AgentElects
    <2>3. CASE UNCHANGED vars
      BY <1>2, <2>3 DEF EInv, StoredIsKnown, Finalized, ElectionIsStable, vars
    <2>4. QED
      BY <1>2, <2>1, <2>2, <2>3 DEF Next
  <1>3. QED
    BY <1>1, <1>2, Invariance, PTL DEF Spec

\* electOwningConfig's purpose: reconcileDelete of one object never runs on a
\* node that has applied the object in effect, unless the two were created in
\* the same second, however far the caches of the agents lag.
THEOREM CleanupSpares == Spec => []CleanupSparesOwner
  <1>1. ASSUME EInv
        PROVE  CleanupSparesOwner
    <2> SUFFICES ASSUME NEW n \in Nodes, op[n].step = "cleanup", Owner(api) # None,
                        applied[n] = api[Owner(api)].uid
                 PROVE  \/ op[n].cfg = Owner(api)
                        \/ op[n].obj.created = api[Owner(api)].created
      BY DEF CleanupSparesOwner
    <2>1. api \in [Configs -> Object] /\ Live(api) # {}
      BY <1>1 DEF EInv, IInv, TypeOK, Owner
    <2>2. Owner(api) \in Configs /\ api[Owner(api)].live
      BY <2>1, OwnerIsOldest
    <2>3. Stays(op[n], cache[n], applied[n], api)
      BY <1>1 DEF EInv, ElectionIsStable, Electing
    <2>4. QED
      BY <2>2, <2>3 DEF Stays, Owning
  <1>2. QED
    BY <1>1, StableElection, PTL

\* "Ownership never moves to a config created later": while the object in
\* effect exists, no step hands ownership to another one, but for one created
\* in the same second whose name comes first.
THEOREM OwnershipIsStable == Spec => OwnershipMovesOnlyInATie
  <1> DEFINE Moves == LET o == Owner(api) IN
                      o # None /\ api'[o].uid = api[o].uid /\ Owner(api') # o
                        => api'[Owner(api')].created = api'[o].created
  <1>1. ASSUME EInv, IInv', Next
        PROVE  Moves
    <2>0. /\ api \in [Configs -> Object] /\ api' \in [Configs -> Object]
          /\ clock \in Nat /\ creates \in Nat
      BY <1>1, Numbers DEF EInv, IInv, TypeOK
    <2> SUFFICES ASSUME NEW o, o = Owner(api), o # None, api'[o].uid = api[o].uid
                 PROVE  api'[Owner(api')].created = api'[o].created
      OBVIOUS
    <2>1. o \in Configs /\ api[o].live /\ Oldest(api[o], api)
      BY <2>0, OwnerIsOldest DEF Owner
    <2>2. /\ api[o].uid \in 1..creates /\ api[o].created <= clock
          /\ \A c \in Configs : api[c].created \in Nat /\ api'[c].created \in Nat
      BY <1>1, <2>0, <2>1 DEF EInv, StoredIsKnown, Known, Object
    <2>3. NothingNew \/ \E e \in Configs : Added(api, api', e, clock, clock', creates)
      BY <1>1, UserStores, AgentElects DEF Next
    <2>4. /\ api'[o].live /\ api'[o].created = api[o].created
          /\ \A d \in Configs : api'[d].live => api[o].created <= api'[d].created
      <3>1. CASE NothingNew
        <4>1. api'[o].live /\ api'[o].created = api[o].created
          BY <2>0, <2>1, <2>2, <3>1 DEF NothingNew, Survives
        <4>2. QED
          BY <2>1, <3>1, <4>1 DEF NothingNew, Survives, Oldest
      <3>2. ASSUME NEW e \in Configs, Added(api, api', e, clock, clock', creates)
            PROVE  /\ api'[o].live /\ api'[o].created = api[o].created
                   /\ \A d \in Configs : api'[d].live => api[o].created <= api'[d].created
        <4>1. o # e /\ api'[o] = api[o]
          BY <2>1, <3>2 DEF Added
        <4>2. api'[e].created \in {clock, clock + 1}
          BY <3>2 DEF Added
        <4>3. api[o].created <= api'[e].created
          BY <2>0, <2>1, <2>2, <4>2
        <4>4. QED
          BY <2>1, <3>2, <4>1, <4>3 DEF Added, Oldest
      <3>3. QED
        BY <2>3, <3>1, <3>2
    <2>5. PICK w \in Configs : w = Owner(api') /\ api'[w].live /\ Oldest(api'[w], api')
      BY <2>0, <2>1, <2>4, OwnerIsOldest DEF Live
    <2>6. api'[w].created <= api'[o].created /\ api'[o].created <= api'[w].created
      BY <2>1, <2>4, <2>5 DEF Oldest
    <2>7. api'[w].created \in Nat /\ api'[o].created \in Nat
      BY <2>1, <2>2
    <2>8. QED
      BY <2>5, <2>6, <2>7
  <1>2. EInv /\ IInv' /\ [Next]_vars => [Moves]_vars
    BY <1>1
  <1>3. QED
    BY <1>2, StableElection, Invariance, PTL DEF Spec, OwnershipMovesOnlyInATie

\* The finalizer does what it is for, on any number of nodes: an object that
\* some agent has programmed goes away only by the release of an agent whose
\* gobgpd holds nothing of it any more.  No user's deletion takes it away at
\* once, and, unless two objects may be created in the same second, no agent
\* releases it as one that was ignored, however far its cache lags.
THEOREM GoneAfterCleanup == Spec => GoneOnlyAfterCleanup
  <1> DEFINE Leaves(c, n) ==
                api[c].live /\ applied[n] = api[c].uid /\ api'[c].uid # api[c].uid
             Released(c) ==
                \E m \in Nodes :
                    /\ op[m].cfg = c
                    /\ \/ op[m].step = "release" /\ gobgpd[m] \cap api[c].spec = {}
                       \/ op[m].step = "releaseIgnored" /\ Ties
  <1>1. ASSUME EInv, NEW c \in Configs, NEW n \in Nodes, Leaves(c, n), User
        PROVE  FALSE
    <2>0. IInv /\ api[c] \in Object /\ api[c].fin
      BY <1>1 DEF EInv, IInv, TypeOK, ElectionIsStable, Electing, Guarded
    <2>1. PICK d, obj : /\ d \in Configs /\ UserWrite(d, obj)
                        /\ \/ ~api[d].live
                           \/ \E spec : obj = [api[d] EXCEPT !.spec = spec]
                           \/ obj = IF api[d].fin THEN [api[d] EXCEPT !.deleting = TRUE]
                                                  ELSE Gone
      BY <1>1 DEF User, Create, Edit, Delete
    <2>2. api'[d] = obj /\ \A e \in Configs \ {d} : api'[e] = api[e]
      BY <2>0, <2>1, UserWriteEffect
    <2>3. QED
      BY <1>1, <2>0, <2>1, <2>2 DEF Object
  <1>2. ASSUME EInv, NEW c \in Configs, NEW n \in Nodes, Leaves(c, n),
               NEW m \in Nodes, Agent(m)
        PROVE  Released(c)
    <2>0. IInv /\ op[m].obj \in Object /\ api[c] \in Object
      BY <1>2, CallTypes DEF EInv, IInv, TypeOK
    <2>1. ASSUME NEW obj, Write(m, obj), obj.uid = op[m].obj.uid
          PROVE  FALSE
      BY <1>2, <2>0, <2>1, WriteEffect
    <2>2. \A ready : [op[m].obj EXCEPT !.ready = ready].uid = op[m].obj.uid
      BY <2>0 DEF Object
    <2>3. [op[m].obj EXCEPT !.fin = TRUE].uid = op[m].obj.uid
      BY <2>0 DEF Object
    <2>4. CASE RemoveFinalizer(m)
      <3>1. CASE Write(m, Gone)
        <4>1. op[m].cfg = c /\ op[m].obj = api[c] /\ op[m].fresh
          <5>1. api'[c] # api[c]
            BY <1>2
          <5>2. op[m].fresh
            BY <3>1 DEF Write
          <5>3. QED
            BY <2>0, <3>1, <5>1, <5>2, WriteEffect
        <4>2. CASE op[m].step = "release"
          BY <2>0, <4>1, <4>2 DEF IInv, CallsAreSound
        <4>3. CASE op[m].step = "releaseIgnored"
          <5>1. Ties
            BY <1>2, <4>1, <4>3 DEF EInv, ElectionIsStable, Electing, Guarded
          <5>2. QED
            BY <4>1, <4>3, <5>1
        <4>4. QED
          BY <2>4, <4>2, <4>3 DEF RemoveFinalizer
      <3>2. CASE UNCHANGED api
        BY <1>2, <3>2
      <3>3. QED
        BY <2>4, <3>1, <3>2 DEF RemoveFinalizer, Refused, apiVars
    <2>5. CASE UNCHANGED api
      BY <1>2, <2>5
    <2>6. CASE AddFinalizer(m) \/ ReportSuccess(m) \/ ReportFailure(m)
      BY <2>1, <2>2, <2>3, <2>5, <2>6
      DEF AddFinalizer, ReportSuccess, ReportFailure, Refused, apiVars
    <2>7. QED
      BY <1>2, <2>4, <2>5, <2>6
      DEF Agent, Proceed, Fault, ApplyFails, ApplySome, ApplyAll, Cleanup,
          CleanupFails, CallFails, Deliver, Get, List, Restart, apiVars
  <1>3. EInv /\ [Next]_vars => [\A c \in Configs, n \in Nodes : Leaves(c, n) => Released(c)]_vars
    BY <1>1, <1>2 DEF Next
  <1>4. QED
    BY <1>3, StableElection, PTL DEF Spec, GoneOnlyAfterCleanup

-----------------------------------------------------------------------------
(***************************************************************************)
(* What is left to do.                                                     *)
(***************************************************************************)

\* Stored objects change unnoticed by the watch predicate, or are announced.
Announced(objs, after, more) ==
    \A d \in Configs : Alike(objs[d], after[d]) \/ d \in more

\* An agent that takes no step keeps attending.
LEMMA AttendingIdly ==
  ASSUME NEW objs, NEW after, NEW copies, NEW call, NEW next, NEW q, NEW ev, NEW more,
         NEW prog, NEW uid, NEW mute,
         call.step # "idle" => call.cfg \in Configs,
         Announced(objs, after, more), ev \subseteq more,
         next.step = call.step /\ next.obj = call.obj /\ next.cfg = call.cfg,
         Attending(call, copies, q, ev, prog, uid, mute, objs)
  PROVE  Attending(next, copies, q, more, prog, uid, mute, after)
  <1>1. Notices(next, copies, q, more, after)
    BY DEF Attending, Notices, Announced, Alike
  <1>2. Remembers(next, q, more, prog, uid, mute, after)
    BY DEF Attending, Remembers, Announced, Alike
  <1>3. QED
    BY <1>1, <1>2 DEF Attending, Branches

\* If two objects are never created in the same second, an agent that works
\* for an object as for the owner has applied no other that still exists.
LEMMA Displaces ==
  ASSUME NEW objs, NEW copies, NEW call, NEW now, NEW made, NEW uid,
         Electing(call, copies, uid, objs, now, made),
         call.step \in Owning, ~Ties
  PROVE  \A d \in Configs \ {call.cfg} : objs[d].live => uid # objs[d].uid
  <1> SUFFICES ASSUME NEW d \in Configs, d # call.cfg, objs[d].live, uid = objs[d].uid
               PROVE  FALSE
    OBVIOUS
  <1>1. call.step # "idle"
    BY DEF Owning
  <1>2. call.obj.live /\ Known(call.obj, call.cfg, objs, now, made)
    BY <1>1 DEF Electing, CopiesLag
  <1>3. call.obj.created = objs[d].created
    BY DEF Electing, Stays
  <1>4. QED
    BY <1>2, <1>3 DEF Known

\* A call that comes back, whatever it did to gobgpd for the owner.
LEMMA AttendingWhenRequeued ==
  ASSUME NEW objs, NEW after, NEW copies, NEW call, NEW q, NEW ev,
         NEW prog, NEW uid, NEW mute,
         NEW left, NEW last, NEW hush,
         Announced(objs, after, ev),
         \/ left = prog /\ last = uid /\ hush = mute
         \/ ~Ties => \A d \in Configs \ {call.cfg} : objs[d].live => uid # objs[d].uid,
         Attending(call, copies, q, ev, prog, uid, mute, objs)
  PROVE  Attending(NoOp, copies, q \cup {call.cfg}, ev, left, last, hush, after)
  <1>1. NoOp.step = "idle" /\ NoOp.cfg = None /\ None \notin Configs
    BY NoOpFields DEF None
  <1>2. Notices(NoOp, copies, q \cup {call.cfg}, ev, after)
    BY <1>1 DEF Attending, Notices, Announced, Alike
  <1>3. Remembers(NoOp, q \cup {call.cfg}, ev, left, last, hush, after)
    BY DEF Attending, Remembers, Announced, Alike
  <1>4. QED
    BY <1>1, <1>2, <1>3 DEF Attending, Branches

\* A call goes on with its object, whatever it did to gobgpd for the owner.
LEMMA AttendingWhenGoingOn ==
  ASSUME NEW objs, NEW copies, NEW call, NEW next, NEW q, NEW ev,
         NEW prog, NEW uid, NEW mute,
         NEW left, NEW last, NEW hush,
         call.step # "idle" /\ next.step # "idle",
         next.obj = call.obj /\ next.cfg = call.cfg,
         Branches(next, left, last, hush),
         \/ left = prog /\ last = uid /\ hush = mute
         \/ ~Ties => \A d \in Configs \ {call.cfg} : objs[d].live => uid # objs[d].uid,
         Attending(call, copies, q, ev, prog, uid, mute, objs)
  PROVE  Attending(next, copies, q, ev, left, last, hush, objs)
  <1>1. Notices(next, copies, q, ev, objs)
    BY DEF Attending, Notices
  <1>2. Remembers(next, q, ev, left, last, hush, objs)
    BY DEF Attending, Remembers
  <1>3. QED
    BY <1>1, <1>2 DEF Attending

\* What a user announces, and what an agent writes without announcing it.
LEMMA PendingStep ==
  ASSUME PInv, EInv', NEW n \in Nodes,
         \A m \in Nodes \ {n} :
            /\ op'[m].step = op[m].step /\ op'[m].cfg = op[m].cfg /\ op'[m].obj = op[m].obj
            /\ cache'[m] = cache[m] /\ queue'[m] = queue[m]
            /\ gobgpd'[m] = gobgpd[m] /\ applied'[m] = applied[m]
            /\ silent'[m] = silent[m]
            /\ events[m] \subseteq events'[m] /\ Announced(api, api', events'[m]),
         Attending(op'[n], cache'[n], queue'[n], events'[n], gobgpd'[n], applied'[n], silent'[n], api')
  PROVE  PInv'
  <1>1. ASSUME NEW m \in Nodes, m # n
        PROVE  Attending(op'[m], cache'[m], queue'[m], events'[m], gobgpd'[m],
                         applied'[m], silent'[m], api')
    <2>1. /\ op[m].step # "idle" => op[m].cfg \in Configs
          /\ Attending(op[m], cache[m], queue[m], events[m], gobgpd[m], applied[m], silent[m], api)
      BY CallTypes DEF PInv, EInv, NothingIsForgotten
    <2>2. QED
      BY <1>1, <2>1, AttendingIdly
  <1>2. QED
    BY <1>1 DEF PInv, NothingIsForgotten

\* Users announce what they do.
LEMMA UserAttends ==
  ASSUME PInv, User, EInv'
  PROVE  PInv'
  <1>0. IInv
    BY DEF PInv, EInv
  <1>1. PICK c, obj : c \in Configs /\ UserWrite(c, obj)
    BY DEF User, Create, Edit, Delete
  <1>2. /\ \A d \in Configs \ {c} : api'[d] = api[d]
        /\ \A m \in Nodes : /\ op'[m].step = op[m].step
                            /\ op'[m].cfg = op[m].cfg
                            /\ op'[m].obj = op[m].obj
        /\ \A m \in Nodes : events'[m] = events[m] \cup {c}
        /\ UNCHANGED <<cache, queue, gobgpd, applied, silent>>
    BY <1>0, <1>1, UserWriteEffect
  <1>3. ASSUME NEW m \in Nodes
        PROVE  Attending(op'[m], cache'[m], queue'[m], events'[m], gobgpd'[m],
                         applied'[m], silent'[m], api')
    <2>1. /\ op[m].step # "idle" => op[m].cfg \in Configs
          /\ Attending(op[m], cache[m], queue[m], events[m], gobgpd[m], applied[m], silent[m], api)
      BY <1>0, CallTypes DEF PInv, NothingIsForgotten
    <2>2. Announced(api, api', events'[m]) /\ events[m] \subseteq events'[m]
      BY <1>2 DEF Announced, Alike
    <2>3. QED
      BY <1>2, <2>1, <2>2, AttendingIdly
  <1>4. QED
    BY <1>3 DEF PInv, NothingIsForgotten

\* An agent's step leaves the other agents alone, but for the announcement of
\* an object it removed.
LEMMA OthersRest ==
  ASSUME IInv, NEW n \in Nodes, Agent(n)
  PROVE  \A m \in Nodes \ {n} :
            /\ op'[m].step = op[m].step /\ op'[m].cfg = op[m].cfg /\ op'[m].obj = op[m].obj
            /\ cache'[m] = cache[m] /\ queue'[m] = queue[m]
            /\ gobgpd'[m] = gobgpd[m] /\ applied'[m] = applied[m]
            /\ silent'[m] = silent[m]
            /\ events[m] \subseteq events'[m]
  <1> USE DEF apiVars, daemonVars, boundVars
  <1> DEFINE Rest == \A m \in Nodes \ {n} : cache'[m] = cache[m] /\ queue'[m] = queue[m]
                        /\ gobgpd'[m] = gobgpd[m] /\ applied'[m] = applied[m]
            /\ silent'[m] = silent[m]
                        /\ events[m] \subseteq events'[m]
             Calls == \A m \in Nodes \ {n} : op'[m].step = op[m].step
                        /\ op'[m].cfg = op[m].cfg /\ op'[m].obj = op[m].obj
  <1>a. TypeOK
    BY DEF IInv
  <1>b. ASSUME NEW obj, Write(n, obj)
        PROVE  Calls
    BY <1>b, WriteEffect
  <1>c. Finish(n) => Calls
    BY FinishEffect
  <1>d. ASSUME NEW step, Goto(n, step)
        PROVE  Calls
    BY <1>d, GotoEffect
  <1>e. Refused(n) => Calls /\ UNCHANGED <<api, clock, stale, events>>
    BY <1>c DEF Refused
  <1>f. Requeue(n) => \A m \in Nodes \ {n} : queue'[m] = queue[m]
    BY <1>a DEF Requeue, TypeOK
  <1>1. CASE Deliver(n)
    BY <1>1, <1>a DEF Deliver, TypeOK
  <1>2. ASSUME NEW c \in Configs, Get(n, c)
        PROVE  Rest /\ Calls
    BY <1>2, <1>a DEF Get, TypeOK
  <1>3. CASE List(n)
    <2>1. Rest
      BY <1>3 DEF List
    <2>2. Calls
      BY <1>3, <1>c, <1>d DEF List
    <2>3. QED
      BY <2>1, <2>2
  <1>4. CASE AddFinalizer(n)
    <2> HIDE DEF Calls
    <2>1. Calls
      BY <1>4, <1>b, <1>e DEF AddFinalizer
    <2>2. UNCHANGED <<cache, gobgpd, applied, silent, events>>
      BY <1>4, <1>e DEF AddFinalizer
    <2>3. Requeue(n)
      BY <1>4 DEF AddFinalizer
    <2>4. QED
      BY <1>f, <2>1, <2>2, <2>3 DEF Calls
  <1>5. CASE ApplyAll(n)
    <2>1. Rest
      BY <1>5, <1>a DEF ApplyAll, TypeOK
    <2>2. Calls
      BY <1>5, <1>d DEF ApplyAll
    <2>3. QED
      BY <2>1, <2>2
  <1>6. ASSUME NEW ending \in {"applied", "failed"}, ApplySome(n, ending)
        PROVE  Rest /\ Calls
    <2>1. Rest
      BY <1>6, <1>a DEF ApplySome, TypeOK
    <2>2. Calls
      BY <1>6, <1>d DEF ApplySome
    <2>3. QED
      BY <2>1, <2>2
  <1>7. CASE ReportSuccess(n)
    <2> HIDE DEF Calls
    <2>1. Calls
      BY <1>7, <1>b, <1>e DEF ReportSuccess
    <2>2. UNCHANGED <<cache, gobgpd, applied, silent, events>>
      BY <1>7, <1>e DEF ReportSuccess
    <2>3. Requeue(n) \/ UNCHANGED queue
      BY <1>7 DEF ReportSuccess
    <2>4. QED
      BY <1>f, <2>1, <2>2, <2>3 DEF Calls
  <1>8. CASE ReportFailure(n)
    <2> HIDE DEF Calls
    <2>1. Calls
      BY <1>8, <1>b, <1>e DEF ReportFailure
    <2>2. UNCHANGED <<cache, gobgpd, applied, silent, events>>
      BY <1>8, <1>e DEF ReportFailure
    <2>3. Requeue(n)
      BY <1>8 DEF ReportFailure
    <2>4. QED
      BY <1>f, <2>1, <2>2, <2>3 DEF Calls
  <1>9. CASE Cleanup(n)
    <2>1. Rest
      BY <1>9, <1>a, <1>f DEF Cleanup, TypeOK
    <2>2. Calls
      BY <1>9, <1>c, <1>d DEF Cleanup
    <2>3. QED
      BY <2>1, <2>2
  <1>10. CASE CleanupFails(n)
    <2>1. \A m \in Nodes \ {n} : gobgpd'[m] = gobgpd[m]
      BY <1>10, <1>a DEF CleanupFails, TypeOK
    <2>2. QED
      BY <1>10, <1>c, <1>f, <2>1 DEF CleanupFails
  <1>11. CASE RemoveFinalizer(n)
    <2> HIDE DEF Calls
    <2>1. Calls
      BY <1>11, <1>b, <1>e DEF RemoveFinalizer
    <2>2. UNCHANGED <<cache, gobgpd, applied, silent>>
      BY <1>11 DEF RemoveFinalizer
    <2>3. Requeue(n) \/ UNCHANGED queue
      BY <1>11 DEF RemoveFinalizer
    <2>4. \A m \in Nodes \ {n} : events[m] \subseteq events'[m]
      BY <1>11, <1>e DEF RemoveFinalizer, Notify
    <2>5. QED
      BY <1>f, <2>1, <2>2, <2>3, <2>4 DEF Calls
  <1>12. CASE Restart(n)
    BY <1>12, <1>a DEF Restart, TypeOK
  <1>13. CASE CallFails(n)
    BY <1>13, <1>c, <1>f DEF CallFails
  <1>14. QED
    BY <1>1, <1>2, <1>3, <1>4, <1>5, <1>6, <1>7, <1>8, <1>9, <1>10, <1>11,
       <1>12, <1>13
    DEF Agent, Proceed, Fault, ApplyFails

\* The branch Reconcile takes for an object that exists, and is not released
\* before it is gone.
LEMMA BranchFacts ==
  ASSUME NEW obj \in Object, NEW owned \in BOOLEAN, obj.deleting => obj.fin
  PROVE  /\ Branch(obj, owned) \notin {"idle", "got", "applied", "failed", "release"}
         /\ Branch(obj, owned) \in {"cleanup", "releaseIgnored"} <=> obj.deleting
         /\ Branch(obj, owned) \in {"apply", "cleanup", "invalid", "addFin"} => owned
         /\ Branch(obj, owned) \in {"apply", "cleanup"} => obj.fin
  BY DEF Branch, Object

\* What an accepted write announces, if it says the same or is announced.
LEMMA WriteAnnounces ==
  ASSUME IInv, NEW n \in Nodes, NEW obj, Write(n, obj), NEW more,
         Alike(op[n].obj, obj) \/ op[n].cfg \in more
  PROVE  Announced(api, api', more)
  BY WriteEffect DEF Announced, Alike

\* A call that returns and comes back.
LEMMA RequeuedStep ==
  ASSUME PInv, EInv', NEW n \in Nodes, Agent(n),
         op'[n] = NoOp, Requeue(n), UNCHANGED <<cache, applied, silent, events>>,
         Announced(api, api', {}),
         UNCHANGED gobgpd \/ op[n].step \in Owning
  PROVE  PInv'
  <1>0. /\ IInv /\ TypeOK
        /\ Attending(op[n], cache[n], queue[n], events[n], gobgpd[n], applied[n], silent[n], api)
        /\ Electing(op[n], cache[n], applied[n], api, clock, creates)
    BY DEF PInv, EInv, IInv, NothingIsForgotten, ElectionIsStable
  <1>1. queue'[n] = queue[n] \cup {op[n].cfg}
    BY <1>0 DEF Requeue, TypeOK
  <1>2. \A m \in Nodes : Announced(api, api', events'[m])
    BY DEF Announced
  <1>3. \/ gobgpd'[n] = gobgpd[n] /\ applied'[n] = applied[n] /\ silent'[n] = silent[n]
        \/ ~Ties => \A d \in Configs \ {op[n].cfg} : api[d].live => applied[n] # api[d].uid
    BY <1>0, Displaces
  <1>4. Attending(op'[n], cache'[n], queue'[n], events'[n], gobgpd'[n], applied'[n], silent'[n], api')
    BY <1>0, <1>1, <1>2, <1>3, AttendingWhenRequeued
  <1>5. QED
    BY <1>0, <1>2, <1>4, OthersRest, PendingStep

\* A call that goes on, with the objects as they are.
LEMMA GoingOnStep ==
  ASSUME PInv, EInv', NEW n \in Nodes, Agent(n), NEW step, Goto(n, step),
         op[n].step # "idle", step # "idle",
         UNCHANGED <<api, cache, queue, events>>,
         Branches(op'[n], gobgpd'[n], applied'[n], silent'[n]),
         UNCHANGED <<gobgpd, applied, silent>> \/ op[n].step \in Owning
  PROVE  PInv'
  <1>0. /\ IInv
        /\ Attending(op[n], cache[n], queue[n], events[n], gobgpd[n], applied[n], silent[n], api)
        /\ Electing(op[n], cache[n], applied[n], api, clock, creates)
    BY DEF PInv, EInv, NothingIsForgotten, ElectionIsStable
  <1>1. op'[n].step = step /\ op'[n].cfg = op[n].cfg /\ op'[n].obj = op[n].obj
    BY <1>0, GotoEffect
  <1>2. \A m \in Nodes : Announced(api, api', events'[m])
    BY DEF Announced, Alike
  <1>3. \/ gobgpd'[n] = gobgpd[n] /\ applied'[n] = applied[n] /\ silent'[n] = silent[n]
        \/ ~Ties => \A d \in Configs \ {op[n].cfg} : api[d].live => applied[n] # api[d].uid
    BY <1>0, Displaces
  <1>4. Attending(op'[n], cache[n], queue[n], events[n], gobgpd'[n], applied'[n], silent'[n], api)
    BY <1>0, <1>1, <1>3, AttendingWhenGoingOn
  <1>5. QED
    BY <1>0, <1>2, <1>4, OthersRest, PendingStep

\* What an agent does leaves nothing forgotten.
LEMMA AgentAttends ==
  ASSUME PInv, NEW n \in Nodes, Agent(n), EInv'
  PROVE  PInv'
  <1> USE DEF apiVars, daemonVars, boundVars
  <1>0. /\ IInv /\ TypeOK /\ EInv /\ op[n] \in Op /\ op[n].obj \in Object
        /\ op[n].step # "idle" => op[n].cfg \in Configs
        /\ Attending(op[n], cache[n], queue[n], events[n], gobgpd[n], applied[n], silent[n], api)
    BY CallTypes DEF PInv, EInv, IInv, NothingIsForgotten
  <1>n. NoOp.step = "idle" /\ NoOp.cfg = None /\ None \notin Configs
    BY NoOpFields DEF None
  <1>s. \A x : Alike(x, x)
    BY DEF Alike
  <1>a. \A m \in Nodes : UNCHANGED api => Announced(api, api', events'[m])
    BY <1>s DEF Announced
  <1>q. ASSUME UNCHANGED api,
               Attending(op'[n], cache'[n], queue'[n], events'[n], gobgpd'[n],
                         applied'[n], silent'[n], api')
        PROVE  PInv'
    BY <1>0, <1>a, <1>q, OthersRest, PendingStep
  <1>r. ASSUME Refused(n), Requeue(n), UNCHANGED <<cache, gobgpd, applied, silent>>
        PROVE  PInv'
    <2>1. op'[n] = NoOp /\ UNCHANGED <<api, events>>
      BY <1>0, <1>r, FinishEffect DEF Refused
    <2>2. Announced(api, api', {})
      BY <1>s, <2>1 DEF Announced
    <2>3. QED
      BY <1>r, <2>1, <2>2, RequeuedStep
  <1>w. ASSUME NEW obj, Write(n, obj), Alike(op[n].obj, obj), Requeue(n),
               UNCHANGED <<cache, gobgpd, applied, silent, events>>
        PROVE  PInv'
    <2>1. op'[n] = NoOp /\ Announced(api, api', {})
      BY <1>0, <1>w, WriteEffect, WriteAnnounces
    <2>2. QED
      BY <1>w, <2>1, RequeuedStep
  <1>1. CASE Deliver(n)
    <2>1. /\ UNCHANGED <<api, op, gobgpd, applied, silent>>
          /\ cache'[n] = api /\ events'[n] = {} /\ queue'[n] = queue[n] \cup events[n]
      BY <1>0, <1>1 DEF Deliver, TypeOK
    <2>2. Attending(op[n], api, queue[n] \cup events[n], {}, gobgpd[n], applied[n], silent[n], api)
      BY <1>0, <1>s DEF Attending, Notices, Remembers
    <2>3. QED
      BY <1>q, <2>1, <2>2
  <1>2. ASSUME NEW c \in Configs, Get(n, c)
        PROVE  PInv'
    <2>1. /\ UNCHANGED <<api, cache, events, gobgpd, applied, silent>>
          /\ queue'[n] = queue[n] \ {c} /\ op[n].step = "idle" /\ op[n].cfg = None
      BY <1>0, <1>2 DEF Get, TypeOK, Attending, Notices
    <2>2. CASE cache[n][c].live
      <3> DEFINE call == [step |-> "got", cfg |-> c, obj |-> cache[n][c],
                          fresh |-> c \notin stale[n]]
      <3>1. op'[n] = call
        BY <1>0, <1>2, <2>2 DEF Get, TypeOK
      <3>2. call.step = "got" /\ call.cfg = c /\ call.obj = cache[n][c]
        OBVIOUS
      <3> HIDE DEF call
      <3>3. Notices(call, cache[n], queue[n] \ {c}, events[n], api)
        BY <1>0, <3>2 DEF Attending, Notices
      <3>4. Remembers(call, queue[n] \ {c}, events[n], gobgpd[n], applied[n], silent[n], api)
        BY <1>0, <1>n, <2>1, <3>2 DEF Attending, Remembers
      <3>5. Branches(call, gobgpd[n], applied[n], silent[n])
        BY <3>2 DEF Branches
      <3>6. Attending(op'[n], cache'[n], queue'[n], events'[n], gobgpd'[n],
                      applied'[n], silent'[n], api')
        BY <2>1, <3>1, <3>3, <3>4, <3>5 DEF Attending
      <3>7. QED
        BY <1>q, <2>1, <3>6
    <2>3. CASE ~cache[n][c].live
      <3>1. UNCHANGED op
        BY <1>2, <2>3 DEF Get
      <3>2. api[c].live => c \in events[n]
        BY <1>0, <2>3 DEF Attending, Notices, Alike
      <3>3. Notices(op[n], cache[n], queue[n] \ {c}, events[n], api)
        BY <1>0, <2>1 DEF Attending, Notices
      <3>4. Remembers(op[n], queue[n] \ {c}, events[n], gobgpd[n], applied[n], silent[n], api)
        BY <1>0, <3>2 DEF Attending, Remembers
      <3>5. Attending(op'[n], cache'[n], queue'[n], events'[n], gobgpd'[n],
                      applied'[n], silent'[n], api')
        BY <1>0, <2>1, <3>1, <3>3, <3>4 DEF Attending
      <3>6. QED
        BY <1>q, <2>1, <3>5
    <2>4. QED
      BY <2>2, <2>3
  <1>3. CASE List(n)
    <2> DEFINE step == Branch(op[n].obj, Owns(cache[n], op[n].cfg))
    <2>1. /\ UNCHANGED <<api, cache, queue, events, gobgpd, applied, silent>>
          /\ op[n].step # "idle"
          /\ IF step = "idle" THEN Finish(n) ELSE Goto(n, step)
      BY <1>3 DEF List
    <2>2. op[n].obj.live /\ (op[n].obj.deleting => op[n].obj.fin)
      BY <1>0, <2>1 DEF EInv, ElectionIsStable, Electing, CopiesLag, Known
    <2>3. Owns(cache[n], op[n].cfg) \in BOOLEAN
      BY DEF Owns
    <2>4. /\ step \notin {"idle", "got", "applied", "failed", "release"}
          /\ step \in {"cleanup", "releaseIgnored"} <=> op[n].obj.deleting
      BY <1>0, <2>2, <2>3, BranchFacts
    <2> HIDE DEF step
    <2>5. Goto(n, step) /\ step # "idle"
      BY <2>1, <2>4
    <2>6. op'[n].step = step /\ op'[n].obj = op[n].obj
      BY <1>0, <2>5, GotoEffect
    <2>7. Branches(op'[n], gobgpd'[n], applied'[n], silent'[n])
      BY <2>4, <2>6 DEF Branches
    <2>8. QED
      BY <2>1, <2>5, <2>7, GoingOnStep
  <1>4. CASE AddFinalizer(n)
    <2>1. Alike(op[n].obj, [op[n].obj EXCEPT !.fin = TRUE])
      BY <1>0 DEF Alike, Object
    <2>2. QED
      BY <1>4, <1>r, <1>w, <2>1 DEF AddFinalizer
  <1>5. ASSUME op[n].step = "apply", NEW step \in {"applied", "failed"}, Goto(n, step),
               applied' = [applied EXCEPT ![n] = op[n].obj.uid],
               step = "applied" => gobgpd'[n] = op[n].obj.spec \/ silent'[n],
               UNCHANGED <<api, cache, queue, events>>
        PROVE  PInv'
    <2>1. op'[n].step = step /\ op'[n].cfg = op[n].cfg /\ op'[n].obj = op[n].obj
      BY <1>0, <1>5, GotoEffect
    <2>2. applied'[n] = op[n].obj.uid
      BY <1>0, <1>5 DEF TypeOK
    <2>3. Branches(op'[n], gobgpd'[n], applied'[n], silent'[n])
      BY <1>0, <1>5, <2>1, <2>2 DEF Attending, Branches
    <2>4. op[n].step \in Owning /\ op[n].step # "idle" /\ step # "idle"
      BY <1>5 DEF Owning
    <2>5. QED
      BY <1>5, <2>3, <2>4, GoingOnStep
  <1>6. CASE ApplyAll(n)
    <2>1. gobgpd'[n] = op[n].obj.spec
      BY <1>0, <1>6 DEF ApplyAll, TypeOK
    <2>2. QED
      BY <1>5, <1>6, <2>1 DEF ApplyAll
  <1>7. ASSUME NEW ending \in {"applied", "failed"}, ApplySome(n, ending)
        PROVE  PInv'
    <2>1. ending = "applied" => silent'[n]
      BY <1>0, <1>7 DEF ApplySome, TypeOK
    <2>2. QED
      BY <1>5, <1>7, <2>1 DEF ApplySome
  <1>8. CASE ReportSuccess(n)
    <2>1. CASE Write(n, [op[n].obj EXCEPT !.ready = "applied"]) /\ UNCHANGED <<events, queue>>
      <3> DEFINE obj == [op[n].obj EXCEPT !.ready = "applied"]
      <3>1. Alike(op[n].obj, obj)
        BY <1>0 DEF Alike, Object
      <3>2. UNCHANGED <<cache, gobgpd, applied, silent>> /\ op[n].step = "applied"
        BY <1>8 DEF ReportSuccess
      <3> HIDE DEF obj
      <3>3. /\ op[n].obj = api[op[n].cfg] /\ op'[n] = NoOp
            /\ \A d \in Configs : Alike(api[d], api'[d])
        <4>1. Write(n, obj)
          BY <2>1 DEF obj
        <4>2. QED
          BY <1>0, <1>s, <3>1, <4>1, WriteEffect
      <3>4. Notices(NoOp, cache[n], queue[n], events[n], api')
        BY <1>0, <1>n, <3>3 DEF Attending, Notices, Alike
      <3>5. Remembers(NoOp, queue[n], events[n], gobgpd[n], applied[n], silent[n], api')
        <4>1. /\ ~op[n].obj.deleting /\ applied[n] = op[n].obj.uid
              /\ gobgpd[n] = op[n].obj.spec \/ silent[n]
          BY <1>0, <3>2 DEF Attending, Branches
        <4>2. QED
          BY <1>0, <3>3, <4>1 DEF Attending, Remembers, Alike
      <3>6. Attending(op'[n], cache'[n], queue'[n], events'[n], gobgpd'[n],
                      applied'[n], silent'[n], api')
        BY <1>n, <2>1, <3>2, <3>3, <3>4, <3>5 DEF Attending, Branches
      <3>7. \A m \in Nodes : Announced(api, api', events'[m])
        BY <3>3 DEF Announced
      <3>8. QED
        BY <1>0, <3>6, <3>7, OthersRest, PendingStep
    <2>2. CASE Refused(n) /\ Requeue(n)
      BY <1>8, <1>r, <2>2 DEF ReportSuccess
    <2>3. QED
      BY <1>8, <2>1, <2>2 DEF ReportSuccess
  <1>9. CASE ReportFailure(n)
    <2>1. Alike(op[n].obj, [op[n].obj EXCEPT !.ready = op[n].step])
      BY <1>0 DEF Alike, Object
    <2>2. QED
      BY <1>9, <1>r, <1>w, <2>1 DEF ReportFailure
  <1>10. CASE Cleanup(n)
    <2>0. /\ op[n].step = "cleanup" /\ op[n].step \in Owning
          /\ UNCHANGED <<api, cache, events, applied, silent>>
      BY <1>10 DEF Cleanup, Owning
    <2>1. CASE Goto(n, "release") /\ UNCHANGED queue
      <3>1. op'[n].step = "release" /\ op'[n].obj = op[n].obj
        BY <1>0, <2>1, GotoEffect
      <3>2. Branches(op'[n], gobgpd'[n], applied'[n], silent'[n])
        BY <1>0, <2>0, <3>1 DEF Attending, Branches
      <3>3. op[n].step # "idle" /\ "release" # "idle"
        BY <2>0
      <3>4. QED
        BY <2>0, <2>1, <3>2, <3>3, GoingOnStep
    <2>2. CASE Finish(n) /\ Requeue(n)
      <3>1. Announced(api, api', {})
        BY <1>s, <2>0 DEF Announced
      <3>2. QED
        BY <1>0, <2>0, <2>2, <3>1, FinishEffect, RequeuedStep
    <2>3. QED
      BY <1>10, <2>1, <2>2 DEF Cleanup
  <1>11. CASE CleanupFails(n)
    <2>1. /\ op[n].step \in Owning /\ Finish(n) /\ Requeue(n)
          /\ UNCHANGED <<api, cache, events, applied, silent>>
      BY <1>11 DEF CleanupFails, Owning
    <2>2. Announced(api, api', {})
      BY <1>s, <2>1 DEF Announced
    <2>3. QED
      BY <1>0, <2>1, <2>2, FinishEffect, RequeuedStep
  <1>12. CASE CallFails(n)
    <2>1. Finish(n) /\ Requeue(n) /\ UNCHANGED <<api, cache, events, gobgpd, applied, silent>>
      BY <1>12 DEF CallFails
    <2>2. Announced(api, api', {})
      BY <1>s, <2>1 DEF Announced
    <2>3. QED
      BY <1>0, <2>1, <2>2, FinishEffect, RequeuedStep
  <1>13. CASE RemoveFinalizer(n)
    <2>1. CASE Write(n, Gone) /\ Notify(op[n].cfg) /\ UNCHANGED queue
      <3>1. /\ op'[n] = NoOp /\ \A m \in Nodes : events'[m] = events[m] \cup {op[n].cfg}
            /\ UNCHANGED <<cache, gobgpd, applied, silent>>
        BY <1>0, <1>13, <2>1, WriteEffect DEF Notify, RemoveFinalizer
      <3>2. \A m \in Nodes : Announced(api, api', events'[m])
        BY <1>0, <2>1, <3>1, WriteAnnounces
      <3>3. Notices(NoOp, cache[n], queue[n], events'[n], api')
        BY <1>0, <1>n, <3>1, <3>2 DEF Attending, Notices, Announced, Alike
      <3>4. Remembers(NoOp, queue[n], events'[n], gobgpd[n], applied[n], silent[n], api')
        BY <1>0, <3>1, <3>2 DEF Attending, Remembers, Announced, Alike
      <3>5. Attending(op'[n], cache'[n], queue'[n], events'[n], gobgpd'[n],
                      applied'[n], silent'[n], api')
        BY <1>n, <2>1, <3>1, <3>3, <3>4 DEF Attending, Branches
      <3>6. QED
        BY <1>0, <3>2, <3>5, OthersRest, PendingStep
    <2>2. CASE Refused(n) /\ Requeue(n)
      BY <1>13, <1>r, <2>2 DEF RemoveFinalizer
    <2>3. QED
      BY <1>13, <2>1, <2>2 DEF RemoveFinalizer
  <1>14. CASE Restart(n)
    <2>1. /\ op'[n] = NoOp /\ cache'[n] = api /\ events'[n] = {}
          /\ queue'[n] = Live(api) /\ UNCHANGED api
      BY <1>0, <1>14 DEF Restart, TypeOK
    <2>2. Attending(op'[n], cache'[n], queue'[n], events'[n], gobgpd'[n], applied'[n], silent'[n], api')
      BY <1>n, <1>s, <2>1 DEF Attending, Notices, Branches, Remembers, Live
    <2>3. QED
      BY <1>q, <2>1, <2>2
  <1>15. QED
    BY <1>1, <1>2, <1>3, <1>4, <1>6, <1>7, <1>8, <1>9, <1>10, <1>11, <1>12,
       <1>13, <1>14
    DEF Agent, Proceed, Fault, ApplyFails

(***************************************************************************)
(* The theorems about what is left to do.                                  *)
(***************************************************************************)

\* No agent forgets an object: when neither its work queue, nor the watch, nor
\* a call in progress holds a request for it, the object is not being deleted,
\* and the agent's last pass was for it.
THEOREM NothingForgotten == Spec => []PInv
  <1>1. ASSUME Init
        PROVE  NothingIsForgotten
    <2>1. NoOp.step = "idle" /\ NoOp.cfg = None /\ ~Gone.live
      BY NoOpFields DEF Gone
    <2>2. QED
      BY <1>1, <2>1 DEF Init, NothingIsForgotten, Attending, Notices, Branches, Remembers, Alike
  <1>2. ASSUME PInv, EInv', [Next]_vars
        PROVE  PInv'
    <2>1. CASE User
      BY <1>2, <2>1, UserAttends
    <2>2. ASSUME NEW n \in Nodes, Agent(n)
          PROVE  PInv'
      BY <1>2, <2>2, AgentAttends
    <2>3. CASE UNCHANGED vars
      BY <1>2, <2>3 DEF PInv, NothingIsForgotten, vars
    <2>4. QED
      BY <1>2, <2>1, <2>2, <2>3 DEF Next
  <1>3. ASSUME EInv, NothingIsForgotten
        PROVE  PInv
    BY <1>3 DEF PInv
  <1>4. QED
    BY <1>1, <1>2, <1>3, StableElection, PTL DEF Spec

\* What Ready tells the user, on any number of nodes and whichever agent wrote
\* it: if no two objects are created in the same second, then on each node
\* that has nothing left to do for the object in effect, gobgpd holds exactly
\* what that object names, or the last pass there logged refused calls and
\* reported success.
THEOREM ReadyIsApplied == Spec => [](~Ties => ReadyMeansApplied)
  <1>1. PInv => (~Ties => ReadyMeansApplied)
    <2> SUFFICES ASSUME PInv, ~Ties, Owner(api) # None, NEW n \in Nodes,
                        Owner(api) \notin queue[n] \cup events[n], op[n].cfg # Owner(api)
                 PROVE  gobgpd[n] = api[Owner(api)].spec \/ silent[n]
      BY DEF ReadyMeansApplied
    <2>1. api \in [Configs -> Object] /\ Live(api) # {}
      BY DEF PInv, EInv, IInv, TypeOK, Owner
    <2>2. Owner(api) \in Configs /\ api[Owner(api)].live
      BY <2>1, OwnerIsOldest
    <2>3. QED
      BY <2>2 DEF PInv, NothingIsForgotten, Attending, Remembers
  <1>2. QED
    BY <1>1, NothingForgotten, PTL
=============================================================================
