---------------------------- MODULE CacheProofs ----------------------------
(***************************************************************************)
(* Proofs about cache.Cache, for any ids, clients, setups and number of    *)
(* changes and failures.                                                   *)
(*                                                                         *)
(* The properties are about a key that nobody is busy with and that is not *)
(* raced.  The invariant extends them to a key that operations are busy    *)
(* with, as long as none of these met another one in its way (Quiet): then *)
(* either the cache is right about the key (Consistent), or one operation  *)
(* alone is changing it and has what it takes to set the cache right       *)
(* (Writing).  Operations that meet know of each other (Meets), and an     *)
(* invalidation that met nobody takes away everything about its keys       *)
(* (TakesAll), whatever happened to them before.                           *)
(***************************************************************************)
EXTENDS Cache, TLAPS

Pcs == {"idle", "hit", "ids", "query", "save", "create", "update", "invalidateID",
        "invalidateHit", "commit", "drop"}
Ops == [pc : Pcs, kind : {"none", "read", "refresh", "write", "invalidate"},
        h : HitIDs, got : SUBSET (Keys \X (1..MaxVersion)), ids : SUBSET Keys,
        gone : SUBSET HitIDs, met : SUBSET Keys]

StateTypes ==
    /\ cache \in Setups
    /\ src \in [Keys -> 0..MaxVersion] /\ ents \in [Keys -> 0..MaxVersion]
    /\ hits \in [HitIDs -> {NoHit} \cup SUBSET Keys]
    /\ act \in [Actors -> Ops]
    /\ version \in 0..MaxVersion
    /\ raced \subseteq Keys

(* Where an operation can be, and what it is about. *)
PcFits(o) ==
    \/ o.kind = "none" /\ o.pc = "idle" /\ o.met = {}
    \/ o.kind = "read" /\ o.pc \in {"hit", "ids", "query", "save"}
    \/ o.kind = "refresh" /\ o.pc \in {"query", "save"}
    \/ o.kind = "write" /\ o.pc \in {"create", "update", "query", "save", "invalidateID",
                                     "commit"} /\ o.h # All
    \/ o.kind = "write" /\ o.pc = "drop"
    \/ o.kind = "invalidate" /\ o.pc = "invalidateID" /\ o.h # All
    \/ o.kind = "invalidate" /\ o.pc \in {"invalidateHit", "commit", "drop"}
OpOK(o) ==
    /\ PcFits(o)
    /\ o.h \in cache.keys \cup {All}
    /\ \A e \in o.got : e[1] \in KeysOf(o.h)
    /\ o.ids \subseteq KeysOf(o.h) /\ o.met \subseteq KeysOf(o.h)
    /\ o.kind = "write" /\ o.pc = "commit" => o.ids = KeysOf(o.h)
    /\ o.pc = "commit" => \A e \in o.got : e[1] \in o.ids
    /\ o.pc = "drop" => o.h = All

Types ==
    /\ StateTypes
    /\ \A a \in Actors : OpOK(act[a])
    /\ \A h \in HitIDs : Busy(h) => act[h].kind = "refresh" /\ act[h].h = h
    /\ \A h \in HitIDs : hits[h] = NoHit \/ hits[h] \subseteq KeysOf(h)
    /\ \A k \in Keys \ cache.keys : src[k] = 0 /\ ents[k] = 0

----------------------------------------------------------------------------
Covers(a, k) == Busy(a) /\ k \in KeysOf(act[a].h)
Changing(a) == act[a].kind \in Changes

(* Two operations about a key, of which one changes it, have met. *)
Meets == \A a, b \in Actors : \A k \in Keys :
    a # b /\ Covers(a, k) /\ Covers(b, k) /\ (Changing(a) \/ Changing(b)) => k \in act[a].met

Quiet(k) == k \notin raced /\ \A a \in Actors : k \notin act[a].met

Refers(h, k) == hits[h] # NoHit /\ k \in hits[h]
Consistent(k) ==
    /\ ents[k] = 0 \/ ents[k] = src[k]
    /\ hits[k] = {} /\ ents[k] = 0 => src[k] = 0
    /\ \A h \in HitIDs : Refers(h, k) => ents[k] # 0

(* What an operation has got from the source is what the source has. *)
Answered(a, k) ==
    act[a].pc = "save" =>
        /\ k \in act[a].ids <=> src[k] # 0
        /\ \A e \in act[a].got : e[1] = k => e[2] = src[k]
        /\ k \in act[a].ids /\ (\A e \in act[a].got : e[1] # k) => ents[k] = src[k]

(* A change of the source that is still to be made to the cache. *)
Writing(a, k) ==
    act[a].kind = "write" =>
        /\ act[a].pc = "create" => /\ src[k] # 0 /\ act[a].got = {<<k, src[k]>>}
                                   /\ ents[k] = 0 /\ \A h \in HitIDs : ~Refers(h, k)
        /\ act[a].pc = "update" => src[k] # 0 /\ act[a].got = {<<k, src[k]>>}
        /\ act[a].pc \in {"query", "save"} => src[k] # 0

InOrder(k) ==
    /\ \A a \in Actors : Covers(a, k) => Answered(a, k) /\ Writing(a, k)
    /\ (\A a \in Actors : Covers(a, k) => act[a].kind # "write") => Consistent(k)

(* All that the cache has about a key is to go. *)
TakesAll(a, k) ==
    /\ ents[k] # 0 => \E e \in act[a].got : e[1] = k
    /\ hits[k] # NoHit => k \in act[a].gone
    /\ \A h \in HitIDs : Refers(h, k) => h \in act[a].gone
Invalidations ==
    \A a \in Actors : act[a].pc = "commit" =>
        \A k \in act[a].ids \ act[a].met : TakesAll(a, k)

CacheInv == Types /\ Meets /\ Invalidations /\ \A k \in Keys : Quiet(k) => InOrder(k)

----------------------------------------------------------------------------
LEMMA SetupFacts ==
  ASSUME StateTypes
  PROVE  /\ cache.keys \subseteq Keys /\ cache.clients \subseteq Clients
         /\ \A h \in HitIDs : KeysOf(h) \subseteq Keys
         /\ \A k \in Keys : KeysOf(k) = {k} /\ k \in HitIDs /\ k # All
         /\ KeysOf(All) = cache.keys /\ All \in HitIDs
         /\ Clients \subseteq Actors /\ HitIDs \subseteq Actors
<1>1. cache \in [RefreshBehind : BOOLEAN, clients : SUBSET Clients, keys : SUBSET Keys,
                 MaxFaults : Nat]
  BY CacheAssumption DEF StateTypes
<1>2. cache.keys \subseteq Keys /\ cache.clients \subseteq Clients
  BY <1>1
<1> QED
  BY <1>2, CacheAssumption DEF KeysOf, HitIDs, Actors

LEMMA IdleFacts ==
  /\ Idle \in Ops
  /\ Idle.pc = "idle" /\ Idle.kind = "none" /\ Idle.met = {} /\ Idle.h = All
  /\ Idle.got = {} /\ Idle.ids = {} /\ Idle.gone = {}
BY DEF Idle, Ops, Pcs, HitIDs

LEMMA IdleOK == OpOK(Idle)
BY IdleFacts DEF OpOK, PcFits

LEMMA InitCacheInv == Init => CacheInv
<1> SUFFICES ASSUME Init
             PROVE  CacheInv
  OBVIOUS
<1>1. StateTypes
  <2>1. act \in [Actors -> Ops]
    BY IdleFacts DEF Init
  <2>2. /\ src \in [Keys -> 0..MaxVersion] /\ ents \in [Keys -> 0..MaxVersion]
        /\ version \in 0..MaxVersion
    BY CacheAssumption DEF Init
  <2>3. hits \in [HitIDs -> {NoHit} \cup SUBSET Keys] /\ cache \in Setups /\ raced \subseteq Keys
    BY DEF Init
  <2> QED
    BY <2>1, <2>2, <2>3 DEF StateTypes
<1>2. \A a \in Actors : act[a] = Idle /\ act[a].pc = "idle" /\ act[a].met = {}
  BY IdleFacts DEF Init
<1>3. Types
  <2>1. \A a \in Actors : OpOK(act[a])
    BY <1>2, IdleOK
  <2>2. \A h \in HitIDs : ~Busy(h)
    BY <1>2 DEF Busy, Actors
  <2>3. \A h \in HitIDs : hits[h] = NoHit
    BY DEF Init
  <2>4. \A k \in Keys : src[k] = 0 /\ ents[k] = 0
    BY DEF Init
  <2> QED
    BY <1>1, <2>1, <2>2, <2>3, <2>4 DEF Types
<1>4. Meets
  BY <1>2 DEF Meets, Covers, Busy
<1>5. Invalidations
  BY <1>2 DEF Invalidations
<1>6. ASSUME NEW k \in Keys
      PROVE  InOrder(k)
  <2>1. src[k] = 0 /\ ents[k] = 0 /\ \A h \in HitIDs : hits[h] = NoHit
    BY DEF Init
  <2>2. Consistent(k)
    BY <2>1 DEF Consistent, Refers
  <2>3. \A a \in Actors : ~Covers(a, k)
    BY <1>2 DEF Covers, Busy
  <2> QED
    BY <2>2, <2>3 DEF InOrder
<1> QED
  BY <1>3, <1>4, <1>5, <1>6 DEF CacheInv

----------------------------------------------------------------------------
(* Types, when one operation goes on or ends. *)
LEMMA MoveTypes ==
  ASSUME Types, NEW a \in Actors, NEW r \in Ops, OpOK(r),
         act' = [act EXCEPT ![a] = r], cache' = cache,
         a \in HitIDs => r.pc = "idle" \/ (r.kind = "refresh" /\ r.h = a),
         src' \in [Keys -> 0..MaxVersion], ents' \in [Keys -> 0..MaxVersion],
         hits' \in [HitIDs -> {NoHit} \cup SUBSET Keys], version' \in 0..MaxVersion,
         raced' \subseteq Keys,
         \A h \in HitIDs : hits'[h] = NoHit \/ hits'[h] \subseteq KeysOf(h),
         \A k \in Keys \ cache.keys : src'[k] = 0 /\ ents'[k] = 0
  PROVE  Types'
<1>1. StateTypes'
  BY DEF Types, StateTypes
<1>2. ASSUME NEW x \in Actors
      PROVE  OpOK(act[x])'
  <2>1. OpOK(act'[x])
    BY DEF Types, StateTypes
  <2> QED
    BY <2>1 DEF OpOK, KeysOf
<1>3. \A h \in HitIDs : Busy(h)' => act'[h].kind = "refresh" /\ act'[h].h = h
  BY DEF Types, StateTypes, Busy, Actors
<1>4. \A h \in HitIDs : (hits[h] = NoHit \/ hits[h] \subseteq KeysOf(h))'
  BY DEF KeysOf
<1> QED
  BY <1>1, <1>2, <1>3, <1>4 DEF Types

(* Of two operations about a quiet key that one of them changes, there is  *)
(* one only.                                                               *)
LEMMA Alone ==
  ASSUME CacheInv, NEW k \in Keys, Quiet(k), NEW a \in Actors, NEW b \in Actors, a # b,
         Covers(a, k), Covers(b, k)
  PROVE  ~Changing(a) /\ ~Changing(b)
BY DEF CacheInv, Meets, Quiet

(* What the cache has about a key stays, or a hit with it goes. *)
Framed(k) ==
    /\ src'[k] = src[k] /\ ents'[k] = ents[k]
    /\ hits'[k] = hits[k] \/ hits'[k] = NoHit
    /\ \A h \in HitIDs : Refers(h, k)' => Refers(h, k)

(* An operation goes on as it was; only what it met may be more, and a     *)
(* query may have got its hit.                                             *)
Kept(x) ==
    /\ Busy(x)' <=> Busy(x)
    /\ act'[x].kind = act[x].kind /\ act'[x].h = act[x].h
    /\ act[x].met \subseteq act'[x].met
    /\ act'[x].pc \in {"save", "commit"} \/ act'[x].kind = "write" =>
          /\ act'[x].pc = act[x].pc /\ act'[x].got = act[x].got
          /\ act'[x].ids = act[x].ids /\ act'[x].gone = act[x].gone

LEMMA NoHitFact == NoHit # {}
BY CacheAssumption

LEMMA FramedConsistent ==
  ASSUME NEW k, Framed(k), Consistent(k)
  PROVE  Consistent(k)'
<1>1. ents'[k] = 0 \/ ents'[k] = src'[k]
  BY DEF Framed, Consistent
<1>2. hits'[k] = {} /\ ents'[k] = 0 => src'[k] = 0
  BY NoHitFact DEF Framed, Consistent
<1>3. \A h \in HitIDs : Refers(h, k)' => ents'[k] # 0
  BY DEF Framed, Consistent
<1> QED
  BY <1>1, <1>2, <1>3 DEF Consistent

LEMMA KeptWork ==
  ASSUME NEW k, NEW x, Kept(x), Framed(k), Answered(x, k), Writing(x, k)
  PROVE  Answered(x, k)' /\ Writing(x, k)'
<1>1. Answered(x, k)'
  BY DEF Kept, Framed, Answered
<1>2. Writing(x, k)'
  BY DEF Kept, Framed, Writing
<1> QED
  BY <1>1, <1>2

LEMMA KeptTakesAll ==
  ASSUME NEW k, NEW x, Kept(x), act'[x].pc = "commit", Framed(k), TakesAll(x, k)
  PROVE  TakesAll(x, k)'
BY DEF Kept, Framed, TakesAll

----------------------------------------------------------------------------
(* An operation goes on, or ends. *)
Goes(a) ==
    /\ Busy(a)
    /\ cache' = cache /\ src' = src
    /\ \A x \in Actors \ {a} : act'[x] = act[x]
    /\ \/ ~Busy(a)' /\ act'[a].met = {}
       \/ /\ Busy(a)' /\ act'[a].kind = act[a].kind /\ act'[a].h = act[a].h
          /\ act'[a].met = act[a].met

(* It leaves the keys alone that it is not about. *)
LeavesRest(a) == \A k \in Keys : ~Covers(a, k) => Framed(k)

(* What it does for a quiet key that it is about. *)
Serves(a, k) ==
    /\ Busy(a)' => Answered(a, k)' /\ Writing(a, k)'
    /\ ~Changing(a) /\ Consistent(k) =>
          Consistent(k)' /\ (ents'[k] = ents[k] \/ ents'[k] = src[k])
    /\ act[a].kind = "invalidate" \/ (Changing(a) /\ ~Busy(a)') => Consistent(k)'
Does(a) == \A k \in Keys :
    Covers(a, k) /\ Quiet(k) /\ Quiet(k)' /\ InOrder(k) => Serves(a, k)

(* The keys that are no longer raced: they are set right in the end by an  *)
(* operation that met nobody.                                              *)
Heals(a, k) == Changing(a) /\ Covers(a, k) /\ ~Busy(a)' /\ Consistent(k)'
Races(a) == \A k \in Keys : k \notin raced' /\ k \notin act'[a].met =>
               /\ k \notin act[a].met
               /\ k \notin raced \/ Heals(a, k)

LooksUp(a) == act'[a].pc = "commit" =>
                  \A k \in act'[a].ids \ act'[a].met : TakesAll(a, k)'

LEMMA GoesKept ==
  ASSUME NEW a, Goes(a), NEW x \in Actors \ {a}
  PROVE  Kept(x)
BY DEF Goes, Kept, Busy

LEMMA GoesOrder ==
  ASSUME CacheInv, NEW a \in Actors, Goes(a), LeavesRest(a), Does(a), Races(a),
         NEW k \in Keys, Quiet(k)'
  PROVE  InOrder(k)'
<1>1. \A x \in Actors \ {a} : Covers(x, k)' <=> Covers(x, k)
  BY DEF Goes, Covers, Busy, KeysOf
<1>2. Covers(a, k)' => Covers(a, k) /\ act'[a].kind = act[a].kind
  BY DEF Goes, Covers, Busy, KeysOf
<1>3. k \notin act[a].met /\ (k \notin raced \/ Heals(a, k))
  BY DEF Races, Quiet
<1>4. \A x \in Actors \ {a} : k \notin act[x].met
  BY DEF Goes, Quiet
<1>5. src'[k] = src[k]
  BY DEF Goes
<1>6. ASSUME Changing(a), Covers(a, k), NEW x \in Actors \ {a}
      PROVE  ~Covers(x, k)
  BY <1>3, <1>6 DEF CacheInv, Meets
<1>7. CASE k \in raced
  <2>1. Heals(a, k)
    BY <1>3, <1>7
  <2>2. \A x \in Actors : ~Covers(x, k)'
    BY <1>1, <1>6, <2>1 DEF Heals, Covers
  <2> QED
    BY <2>1, <2>2 DEF InOrder, Heals
<1>8. CASE k \notin raced
  <2>1. Quiet(k)
    BY <1>3, <1>4, <1>8 DEF Quiet
  <2>2. InOrder(k)
    BY <2>1 DEF CacheInv
  <2>3. CASE ~Covers(a, k)
    <3>1. Framed(k)
      BY <2>3 DEF LeavesRest
    <3>2. ASSUME NEW x \in Actors, Covers(x, k)'
          PROVE  Answered(x, k)' /\ Writing(x, k)'
      <4>1. x # a /\ Covers(x, k)
        BY <1>1, <1>2, <2>3, <3>2
      <4> QED
        BY <2>2, <3>1, <4>1, KeptWork, GoesKept DEF InOrder
    <3>3. (\A x \in Actors : Covers(x, k)' => act'[x].kind # "write") => Consistent(k)'
      <4>1. SUFFICES ASSUME \A x \in Actors : Covers(x, k)' => act'[x].kind # "write"
                     PROVE  Consistent(k)'
        OBVIOUS
      <4>2. \A x \in Actors : Covers(x, k) => act[x].kind # "write"
        BY <1>1, <2>3, <4>1 DEF Goes
      <4> QED
        BY <2>2, <3>1, <4>2, FramedConsistent DEF InOrder
    <3> QED
      BY <3>2, <3>3 DEF InOrder
  <2>4. CASE Covers(a, k) /\ Changing(a)
    <3>1. Serves(a, k)
      BY <2>1, <2>2, <2>4 DEF Does
    <3>2. \A x \in Actors \ {a} : ~Covers(x, k)'
      BY <1>1, <1>6, <2>4
    <3>3. ASSUME NEW x \in Actors, Covers(x, k)'
          PROVE  Answered(x, k)' /\ Writing(x, k)'
      BY <3>1, <3>2, <3>3 DEF Serves, Covers
    <3>4. (\A x \in Actors : Covers(x, k)' => act'[x].kind # "write") => Consistent(k)'
      <4>1. CASE ~Busy(a)'
        BY <2>4, <3>1, <4>1 DEF Serves
      <4>2. CASE Busy(a)' /\ act[a].kind = "write"
        BY <2>4, <4>2 DEF Goes, Covers, KeysOf
      <4>3. CASE act[a].kind = "invalidate"
        BY <3>1, <4>3 DEF Serves
      <4> QED
        BY <2>4, <4>1, <4>2, <4>3 DEF Changing, Changes
    <3> QED
      BY <3>3, <3>4 DEF InOrder
  <2>5. CASE Covers(a, k) /\ ~Changing(a)
    <3>1. \A x \in Actors : Covers(x, k) => ~Changing(x)
      BY <2>1, <2>5, Alone
    <3>2. Consistent(k)
      BY <2>2, <3>1 DEF InOrder, Changing, Changes
    <3>3. Consistent(k)' /\ (ents'[k] = ents[k] \/ ents'[k] = src[k]) /\ Serves(a, k)
      BY <2>1, <2>2, <2>5, <3>2 DEF Does, Serves
    <3>4. ASSUME NEW x \in Actors \ {a}, Covers(x, k)'
          PROVE  Answered(x, k)' /\ Writing(x, k)'
      <4>1. act'[x] = act[x] /\ Covers(x, k) /\ ~Changing(x) /\ Answered(x, k)
        BY <1>1, <2>2, <3>1, <3>4 DEF Goes, InOrder
      <4>2. Writing(x, k)'
        BY <4>1 DEF Changing, Changes, Writing
      <4>3. Answered(x, k)'
        BY <1>5, <3>3, <4>1 DEF Answered
      <4> QED
        BY <4>2, <4>3
    <3>5. Covers(a, k)' => Answered(a, k)' /\ Writing(a, k)'
      BY <3>3 DEF Serves, Covers
    <3> QED
      BY <3>3, <3>4, <3>5 DEF InOrder
  <2> QED
    BY <2>3, <2>4, <2>5
<1> QED
  BY <1>7, <1>8

LEMMA GoesInv ==
  ASSUME CacheInv, Types', NEW a \in Actors, Goes(a), LeavesRest(a), Does(a), Races(a),
         LooksUp(a)
  PROVE  CacheInv'
<1>1. Meets'
  <2> SUFFICES ASSUME NEW x \in Actors, NEW y \in Actors, NEW k \in Keys, x # y,
                      Covers(x, k)', Covers(y, k)', Changing(x)' \/ Changing(y)'
               PROVE  k \in act'[x].met
    BY DEF Meets
  <2>1. ASSUME NEW z \in Actors, Covers(z, k)'
        PROVE  Covers(z, k) /\ act'[z].kind = act[z].kind /\ act'[z].met = act[z].met
    BY <2>1 DEF Goes, Covers, Busy, KeysOf
  <2>2. Covers(x, k) /\ Covers(y, k) /\ act'[x].met = act[x].met
    BY <2>1
  <2>3. Changing(x) \/ Changing(y)
    BY <2>1 DEF Changing
  <2> QED
    BY <2>2, <2>3 DEF CacheInv, Meets
<1>2. Invalidations'
  <2> SUFFICES ASSUME NEW x \in Actors, act'[x].pc = "commit",
                      NEW k \in act'[x].ids \ act'[x].met
               PROVE  TakesAll(x, k)'
    BY DEF Invalidations
  <2>1. CASE x = a
    BY <2>1 DEF LooksUp
  <2>2. CASE x # a
    <3>1. act'[x] = act[x] /\ TakesAll(x, k)
      BY <2>2 DEF Goes, CacheInv, Invalidations
    <3>2. OpOK(act[x]) /\ act[x] \in Ops
      BY DEF CacheInv, Types, StateTypes
    <3>3. Covers(x, k) /\ Changing(x) /\ k \in Keys
      BY <3>1, <3>2 DEF OpOK, PcFits, Covers, Busy, Changing, Changes, Ops
    <3>4. ~Covers(a, k)
      BY <2>2, <3>1, <3>3 DEF CacheInv, Meets
    <3> QED
      BY <2>2, <3>1, <3>3, <3>4, KeptTakesAll, GoesKept DEF LeavesRest
  <2> QED
    BY <2>1, <2>2
<1>3. \A k \in Keys : Quiet(k)' => InOrder(k)'
  BY GoesOrder
<1> QED
  BY <1>1, <1>2, <1>3 DEF CacheInv

----------------------------------------------------------------------------
(* An operation of a client, or of the job of a hit, begins. *)
Begins(b) ==
    /\ ~Busy(b) /\ Busy(b)'
    /\ cache' = cache /\ ents' = ents /\ hits' = hits /\ raced' = raced
    /\ act'[b].pc \notin {"save", "commit"}
    /\ act[b].met \subseteq act'[b].met
    /\ \A x \in Actors \ {b} : Kept(x)

(* It and the others note that they meet. *)
Notes(b) == \A x \in Actors \ {b} : \A k \in Keys :
    Covers(x, k)' /\ Covers(b, k)' /\ (Changing(x)' \/ Changing(b)') =>
        k \in act'[x].met /\ k \in act'[b].met

(* The source may change with it. *)
Announces(b) == \A k \in Keys :
    /\ (Covers(b, k)' /\ act'[b].kind = "write") \/ src'[k] = src[k]
    /\ Covers(b, k)' /\ Consistent(k) => Writing(b, k)'

LEMMA BeginsOrder ==
  ASSUME CacheInv, NEW b \in Actors, Begins(b), Notes(b), Announces(b),
         NEW k \in Keys, Quiet(k)'
  PROVE  InOrder(k)'
<1>1. Quiet(k)
  BY DEF Begins, Kept, Quiet
<1>2. InOrder(k)
  BY <1>1 DEF CacheInv
<1>3. ~Covers(b, k) /\ \A x \in Actors \ {b} : Covers(x, k)' <=> Covers(x, k)
  BY DEF Begins, Kept, Covers, KeysOf
<1>4. \A x \in Actors \ {b} : act'[x].kind = act[x].kind
  BY DEF Begins, Kept
<1>5. CASE Covers(b, k)' /\ act'[b].kind = "write"
  <2>1. \A x \in Actors \ {b} : ~Covers(x, k)'
    BY <1>5 DEF Notes, Quiet, Changing, Changes
  <2>2. \A x \in Actors : ~Covers(x, k)
    BY <1>3, <2>1
  <2>3. Consistent(k)
    BY <1>2, <2>2 DEF InOrder
  <2>4. Answered(b, k)' /\ Writing(b, k)'
    BY <1>5, <2>3 DEF Announces, Begins, Answered
  <2> QED
    BY <1>5, <2>1, <2>4 DEF InOrder
<1>6. CASE ~(Covers(b, k)' /\ act'[b].kind = "write")
  <2>1. src'[k] = src[k]
    BY <1>6 DEF Announces
  <2>2. Framed(k)
    BY <2>1 DEF Begins, Framed, Refers
  <2>3. ASSUME NEW x \in Actors \ {b}, Covers(x, k)'
        PROVE  Answered(x, k)' /\ Writing(x, k)'
    BY <1>2, <1>3, <2>2, <2>3, KeptWork DEF InOrder, Begins
  <2>4. Covers(b, k)' => Answered(b, k)' /\ Writing(b, k)'
    BY <1>6 DEF Begins, Answered, Writing
  <2>5. (\A x \in Actors : Covers(x, k)' => act'[x].kind # "write") => Consistent(k)'
    <3>1. (\A x \in Actors : Covers(x, k)' => act'[x].kind # "write")
             => \A x \in Actors : Covers(x, k) => act[x].kind # "write"
      BY <1>3, <1>4
    <3> QED
      BY <1>2, <2>2, <3>1, FramedConsistent DEF InOrder
  <2> QED
    BY <2>3, <2>4, <2>5 DEF InOrder
<1> QED
  BY <1>5, <1>6

LEMMA BeginsInv ==
  ASSUME CacheInv, Types', NEW b \in Actors, Begins(b), Notes(b), Announces(b)
  PROVE  CacheInv'
<1>1. Meets'
  <2> SUFFICES ASSUME NEW x \in Actors, NEW y \in Actors, NEW k \in Keys, x # y,
                      Covers(x, k)', Covers(y, k)', Changing(x)' \/ Changing(y)'
               PROVE  k \in act'[x].met
    BY DEF Meets
  <2>1. CASE x = b
    BY <2>1 DEF Notes
  <2>2. CASE y = b
    BY <2>2 DEF Notes
  <2>3. CASE x # b /\ y # b
    <3>1. Kept(x) /\ Kept(y)
      BY <2>3 DEF Begins
    <3>2. Covers(x, k) /\ Covers(y, k) /\ (Changing(x) \/ Changing(y))
      BY <3>1 DEF Kept, Covers, Changing, Begins, KeysOf
    <3> QED
      BY <3>1, <3>2 DEF CacheInv, Meets, Kept
  <2> QED
    BY <2>1, <2>2, <2>3
<1>2. Invalidations'
  <2> SUFFICES ASSUME NEW x \in Actors, act'[x].pc = "commit",
                      NEW k \in act'[x].ids \ act'[x].met
               PROVE  TakesAll(x, k)'
    BY DEF Invalidations
  <2>1. x # b /\ Kept(x)
    BY DEF Begins
  <2>2. act[x].pc = "commit" /\ k \in act[x].ids \ act[x].met
    BY <2>1 DEF Kept
  <2>3. TakesAll(x, k)
    BY <2>2 DEF CacheInv, Invalidations
  <2> QED
    BY <2>1, <2>3 DEF Begins, Kept, TakesAll, Refers
<1>3. \A k \in Keys : Quiet(k)' => InOrder(k)'
  BY BeginsOrder
<1> QED
  BY <1>1, <1>2, <1>3 DEF CacheInv

----------------------------------------------------------------------------
(* What Begun makes of the operations. *)
LEMMA BegunFacts ==
  ASSUME StateTypes, NEW acts \in [Actors -> Ops], NEW b \in Actors, NEW op \in Ops,
         acts[b].pc = "idle"
  PROVE  /\ Begun(acts, b, op) \in [Actors -> Ops]
         /\ \A x \in Actors \ {b} :
               /\ Begun(acts, b, op)[x].pc = acts[x].pc
               /\ Begun(acts, b, op)[x].kind = acts[x].kind
               /\ Begun(acts, b, op)[x].h = acts[x].h
               /\ Begun(acts, b, op)[x].got = acts[x].got
               /\ Begun(acts, b, op)[x].ids = acts[x].ids
               /\ Begun(acts, b, op)[x].gone = acts[x].gone
               /\ acts[x].met \subseteq Begun(acts, b, op)[x].met
               /\ Begun(acts, b, op)[x].met \subseteq acts[x].met \cup KeysOf(acts[x].h)
         /\ Begun(acts, b, op)[b].pc = op.pc /\ Begun(acts, b, op)[b].kind = op.kind
         /\ Begun(acts, b, op)[b].h = op.h /\ Begun(acts, b, op)[b].got = op.got
         /\ Begun(acts, b, op)[b].ids = op.ids /\ Begun(acts, b, op)[b].gone = op.gone
         /\ Begun(acts, b, op)[b].met \subseteq KeysOf(op.h)
         /\ \A x \in Actors \ {b} :
               acts[x].pc # "idle" /\ {op.kind, acts[x].kind} \cap Changes # {} =>
                  /\ KeysOf(acts[x].h) \cap KeysOf(op.h) \subseteq Begun(acts, b, op)[x].met
                  /\ KeysOf(acts[x].h) \cap KeysOf(op.h) \subseteq Begun(acts, b, op)[b].met
<1> DEFINE overlap(a) == IF /\ a # b /\ acts[a].pc # "idle"
                            /\ {op.kind, acts[a].kind} \cap Changes # {}
                         THEN KeysOf(acts[a].h) \cap KeysOf(op.h) ELSE {}
           B == Begun(acts, b, op)
<1>1. B = [a \in Actors |->
              IF a = b THEN [op EXCEPT !.met = UNION {overlap(x) : x \in Actors}]
                       ELSE [acts[a] EXCEPT !.met = @ \cup overlap(a)]]
  BY DEF Begun
<1>2. \A a \in Actors : overlap(a) \subseteq Keys
  BY SetupFacts DEF Ops
<1>3. \A a \in Actors : acts[a].pc = "idle" => overlap(a) = {}
  OBVIOUS
<1>4. \A x \in Actors \ {b} :
         acts[x].pc # "idle" /\ {op.kind, acts[x].kind} \cap Changes # {} =>
            overlap(x) = KeysOf(acts[x].h) \cap KeysOf(op.h)
  OBVIOUS
<1>4a. \A a \in Actors :
          overlap(a) \subseteq KeysOf(acts[a].h) /\ overlap(a) \subseteq KeysOf(op.h)
  OBVIOUS
<1> HIDE DEF overlap
<1>5. PICK M \in SUBSET Keys : M = UNION {overlap(x) : x \in Actors}
  BY <1>2
<1>5a. M \subseteq KeysOf(op.h)
  <2>1. ASSUME NEW k \in M
        PROVE  k \in KeysOf(op.h)
    <3>1. PICK x \in Actors : k \in overlap(x)
      BY <1>5
    <3> QED
      BY <1>4a, <3>1
  <2> QED
    BY <2>1
<1>6. \A x \in Actors : overlap(x) \subseteq M
  BY <1>5
<1>7. B[b] = [op EXCEPT !.met = M]
  BY <1>1, <1>5
<1>8. \A x \in Actors \ {b} : B[x] = [acts[x] EXCEPT !.met = @ \cup overlap(x)]
  BY <1>1
<1>9. /\ B[b] \in Ops /\ B[b].met = M
      /\ B[b].pc = op.pc /\ B[b].kind = op.kind /\ B[b].h = op.h
      /\ B[b].got = op.got /\ B[b].ids = op.ids /\ B[b].gone = op.gone
  BY <1>7 DEF Ops
<1>10. ASSUME NEW x \in Actors \ {b}
       PROVE  /\ B[x] \in Ops /\ B[x].met = acts[x].met \cup overlap(x)
              /\ B[x].pc = acts[x].pc /\ B[x].kind = acts[x].kind /\ B[x].h = acts[x].h
              /\ B[x].got = acts[x].got /\ B[x].ids = acts[x].ids /\ B[x].gone = acts[x].gone
  <2>1. acts[x] \in Ops
    OBVIOUS
  <2>2. overlap(x) \subseteq Keys /\ B[x] = [acts[x] EXCEPT !.met = @ \cup overlap(x)]
    BY <1>2, <1>8
  <2> QED
    BY <2>1, <2>2 DEF Ops
<1>11. B \in [Actors -> Ops]
  BY <1>1, <1>9, <1>10
<1> HIDE DEF B
<1>12. ASSUME NEW x \in Actors \ {b}
       PROVE  /\ acts[x].met \subseteq B[x].met
              /\ B[x].met \subseteq acts[x].met \cup KeysOf(acts[x].h)
              /\ acts[x].pc # "idle" /\ {op.kind, acts[x].kind} \cap Changes # {} =>
                  /\ KeysOf(acts[x].h) \cap KeysOf(op.h) \subseteq B[x].met
                  /\ KeysOf(acts[x].h) \cap KeysOf(op.h) \subseteq B[b].met
  BY <1>3, <1>4, <1>4a, <1>6, <1>9, <1>10
<1>13. /\ B \in [Actors -> Ops]
       /\ \A x \in Actors \ {b} :
               /\ B[x].pc = acts[x].pc
               /\ B[x].kind = acts[x].kind
               /\ B[x].h = acts[x].h
               /\ B[x].got = acts[x].got
               /\ B[x].ids = acts[x].ids
               /\ B[x].gone = acts[x].gone
               /\ acts[x].met \subseteq B[x].met
               /\ B[x].met \subseteq acts[x].met \cup KeysOf(acts[x].h)
       /\ B[b].pc = op.pc /\ B[b].kind = op.kind
       /\ B[b].h = op.h /\ B[b].got = op.got
       /\ B[b].ids = op.ids /\ B[b].gone = op.gone /\ B[b].met \subseteq KeysOf(op.h)
       /\ \A x \in Actors \ {b} :
               acts[x].pc # "idle" /\ {op.kind, acts[x].kind} \cap Changes # {} =>
                  /\ KeysOf(acts[x].h) \cap KeysOf(op.h) \subseteq B[x].met
                  /\ KeysOf(acts[x].h) \cap KeysOf(op.h) \subseteq B[b].met
  BY <1>5a, <1>9, <1>10, <1>11, <1>12
<1> QED
  BY <1>13 DEF B

LEMMA BegunIdle ==
  ASSUME NEW acts \in [Actors -> Ops], NEW b \in Actors, NEW op \in Ops,
         NEW x \in Actors \ {b}, acts[x].pc = "idle"
  PROVE  Begun(acts, b, op)[x].met = acts[x].met
<1>1. acts[x] \in Ops
  OBVIOUS
<1>2. Begun(acts, b, op)[x] = [acts[x] EXCEPT !.met = @ \cup {}]
  BY DEF Begun
<1> QED
  BY <1>1, <1>2 DEF Ops

----------------------------------------------------------------------------
(* The operations before another one begins, of which one may just have    *)
(* found its hit.                                                          *)
Nearly(acts) ==
    /\ acts \in [Actors -> Ops]
    /\ \A x \in Actors :
          /\ OpOK(acts[x])
          /\ acts[x].pc = "idle" <=> act[x].pc = "idle"
          /\ acts[x].kind = act[x].kind /\ acts[x].h = act[x].h /\ acts[x].met = act[x].met
          /\ acts[x].pc \in {"save", "commit"} \/ acts[x].kind = "write" =>
                /\ acts[x].pc = act[x].pc /\ acts[x].got = act[x].got
                /\ acts[x].ids = act[x].ids /\ acts[x].gone = act[x].gone

LEMMA NearlyAct ==
  ASSUME Types
  PROVE  Nearly(act)
BY DEF Types, StateTypes, Nearly

LEMMA BegunInv ==
  ASSUME CacheInv, NEW acts, Nearly(acts), NEW b \in Actors, NEW op \in Ops,
         acts[b].pc = "idle", act' = Begun(acts, b, op), OpOK(op),
         op.pc \notin {"idle", "save", "commit"},
         b \in HitIDs => op.kind = "refresh" /\ op.h = b,
         cache' = cache, ents' = ents, hits' = hits, raced' = raced,
         src' \in [Keys -> 0..MaxVersion], version' \in 0..MaxVersion,
         \A k \in Keys \ cache.keys : src'[k] = 0,
         Announces(b)
  PROVE  CacheInv'
<1>0. Types /\ StateTypes /\ acts \in [Actors -> Ops]
  BY DEF CacheInv, Types, Nearly
<1>1. act' \in [Actors -> Ops]
  BY <1>0, BegunFacts
<1>2. ASSUME NEW x \in Actors \ {b}
      PROVE  /\ act'[x].pc = acts[x].pc /\ act'[x].kind = acts[x].kind
             /\ act'[x].h = acts[x].h /\ act'[x].got = acts[x].got
             /\ act'[x].ids = acts[x].ids /\ act'[x].gone = acts[x].gone
             /\ acts[x].met \subseteq act'[x].met
             /\ acts[x].pc = "idle" => act'[x].met = acts[x].met
             /\ act'[x].met \subseteq acts[x].met \cup KeysOf(acts[x].h)
  <2>1. /\ act'[x].pc = acts[x].pc /\ act'[x].kind = acts[x].kind
        /\ act'[x].h = acts[x].h /\ act'[x].got = acts[x].got
        /\ act'[x].ids = acts[x].ids /\ act'[x].gone = acts[x].gone
    BY <1>0, BegunFacts
  <2>2. acts[x].met \subseteq act'[x].met
    BY <1>0, BegunFacts
  <2>2a. ASSUME acts[x].pc = "idle"
         PROVE  act'[x].met = acts[x].met
    BY <1>0, <2>2a, BegunIdle
  <2>3. act'[x].met \subseteq acts[x].met \cup KeysOf(acts[x].h)
    BY <1>0, BegunFacts
  <2> QED
    BY <2>1, <2>2, <2>2a, <2>3
<1>3. /\ act'[b].pc = op.pc /\ act'[b].kind = op.kind /\ act'[b].h = op.h
      /\ act'[b].got = op.got /\ act'[b].ids = op.ids /\ act'[b].gone = op.gone
      /\ act'[b].met \subseteq KeysOf(op.h)
  BY <1>0, BegunFacts
<1>4. ASSUME NEW x \in Actors \ {b}, acts[x].pc # "idle",
             {op.kind, acts[x].kind} \cap Changes # {}
      PROVE  /\ KeysOf(acts[x].h) \cap KeysOf(op.h) \subseteq act'[x].met
             /\ KeysOf(acts[x].h) \cap KeysOf(op.h) \subseteq act'[b].met
  BY <1>0, <1>4, BegunFacts
<1>5. Types'
  <2>1. StateTypes'
    BY <1>0, <1>1 DEF StateTypes
  <2>2. ASSUME NEW x \in Actors
        PROVE  OpOK(act[x])'
    <3>1. CASE x = b
      <4>1. PcFits(act'[b])
        BY <1>3 DEF OpOK, PcFits
      <4> QED
        BY <1>3, <3>1, <4>1 DEF OpOK, KeysOf
    <3>2. CASE x # b
      <4>1. OpOK(acts[x])
        BY DEF Nearly
      <4>2. PcFits(act'[x])
        BY <1>2, <3>2, <4>1 DEF OpOK, PcFits
      <4> QED
        BY <1>2, <3>2, <4>1, <4>2 DEF OpOK, KeysOf
    <3> QED
      BY <3>1, <3>2
  <2>3. ASSUME NEW h \in HitIDs, Busy(h)'
        PROVE  act'[h].kind = "refresh" /\ act'[h].h = h
    <3>1. CASE h = b
      BY <1>3, <3>1
    <3>2. CASE h # b
      <4>1. h \in Actors
        BY DEF Actors
      <4> QED
        BY <1>0, <1>2, <2>3, <3>2, <4>1 DEF Nearly, Types, Busy
    <3> QED
      BY <3>1, <3>2
  <2>4. \A h \in HitIDs : (hits[h] = NoHit \/ hits[h] \subseteq KeysOf(h))'
    BY <1>0 DEF Types, KeysOf
  <2> QED
    BY <1>0, <2>1, <2>2, <2>3, <2>4 DEF Types
<1>6. Begins(b)
  <2>1. ASSUME NEW x \in Actors \ {b}
        PROVE  Kept(x)
    BY <1>2 DEF Nearly, Kept, Busy
  <2>2. ~Busy(b) /\ Busy(b)'
    BY <1>3 DEF Busy, Nearly
  <2>3. act[b].met = {}
    BY <1>0, <2>2 DEF Types, OpOK, PcFits, Busy
  <2> QED
    BY <1>3, <2>1, <2>2, <2>3 DEF Begins
<1>7. Notes(b)
  <2> SUFFICES ASSUME NEW x \in Actors \ {b}, NEW k \in Keys, Covers(x, k)', Covers(b, k)',
                      Changing(x)' \/ Changing(b)'
               PROVE  k \in act'[x].met /\ k \in act'[b].met
    BY DEF Notes
  <2>1. acts[x].pc # "idle" /\ k \in KeysOf(acts[x].h) /\ k \in KeysOf(op.h)
    BY <1>2, <1>3 DEF Covers, Busy, KeysOf
  <2>2. {op.kind, acts[x].kind} \cap Changes # {}
    BY <1>2, <1>3 DEF Changing
  <2> QED
    BY <1>4, <2>1, <2>2
<1> QED
  BY <1>5, <1>6, <1>7, BeginsInv

LEMMA OpFacts ==
  ASSUME NEW kind \in {"none", "read", "refresh", "write", "invalidate"}, NEW h \in HitIDs,
         NEW pc \in Pcs
  PROVE  /\ Op(kind, h, pc) \in Ops
         /\ Op(kind, h, pc).pc = pc /\ Op(kind, h, pc).kind = kind /\ Op(kind, h, pc).h = h
         /\ Op(kind, h, pc).got = {} /\ Op(kind, h, pc).ids = {}
         /\ Op(kind, h, pc).gone = {} /\ Op(kind, h, pc).met = {}
BY DEF Op, Idle, Ops

(* An operation begins that does not change the source. *)
LEMMA PlainBegin ==
  ASSUME CacheInv, NEW acts, Nearly(acts), NEW b \in Actors,
         NEW kind \in {"read", "refresh", "invalidate"}, NEW h \in cache.keys \cup {All},
         NEW pc \in {"hit", "query", "invalidateID", "invalidateHit", "drop"},
         OpOK(Op(kind, h, pc)), acts[b].pc = "idle",
         act' = Begun(acts, b, Op(kind, h, pc)),
         b \in HitIDs => kind = "refresh" /\ h = b,
         UNCHANGED <<cache, src, ents, hits, version, raced>>
  PROVE  CacheInv'
<1>1. Types /\ StateTypes
  BY DEF CacheInv, Types
<1>2. h \in HitIDs /\ kind \in {"none", "read", "refresh", "write", "invalidate"} /\ pc \in Pcs
  BY <1>1, SetupFacts DEF HitIDs, Pcs
<1>3. PICK op \in Ops : op = Op(kind, h, pc)
  BY <1>2, OpFacts
<1>4. op.pc = pc /\ op.kind = kind /\ op.h = h
  BY <1>2, <1>3, OpFacts
<1>5. Announces(b)
  <2>1. acts \in [Actors -> Ops]
    BY DEF Nearly
  <2>2. act'[b].kind = kind
    BY <1>1, <1>3, <1>4, <2>1, BegunFacts
  <2> QED
    BY <2>2 DEF Announces, Writing
<1>6. \A k \in Keys \ cache.keys : src'[k] = 0
  BY <1>1 DEF Types
<1>7. src' \in [Keys -> 0..MaxVersion] /\ version' \in 0..MaxVersion
  BY <1>1 DEF StateTypes
<1>8. OpOK(op) /\ act' = Begun(acts, b, op) /\ op.pc \notin {"idle", "save", "commit"}
  BY <1>3, <1>4
<1> QED
  BY <1>3, <1>4, <1>5, <1>6, <1>7, <1>8, BegunInv

LEMMA PlainOpOK ==
  ASSUME StateTypes, NEW h \in cache.keys \cup {All},
         NEW kind \in {"read", "refresh", "invalidate"},
         NEW pc \in {"hit", "query", "invalidateID", "invalidateHit", "drop"},
         \/ kind = "read" /\ pc = "hit"
         \/ kind = "refresh" /\ pc = "query"
         \/ kind = "invalidate" /\ pc = "invalidateID" /\ h # All
         \/ kind = "invalidate" /\ pc = "invalidateHit"
         \/ kind = "invalidate" /\ pc = "drop" /\ h = All
  PROVE  OpOK(Op(kind, h, pc))
<1>1. h \in HitIDs /\ kind \in {"none", "read", "refresh", "write", "invalidate"} /\ pc \in Pcs
  BY SetupFacts DEF HitIDs, Pcs
<1>2. PICK op \in Ops : op = Op(kind, h, pc)
  BY <1>1, OpFacts
<1>3. /\ op.pc = pc /\ op.kind = kind /\ op.h = h /\ op.got = {} /\ op.ids = {}
      /\ op.met = {}
  BY <1>1, <1>2, OpFacts
<1>4. PcFits(op)
  BY <1>3 DEF PcFits
<1> QED
  BY <1>2, <1>3, <1>4 DEF OpOK

(* Reads, refreshes and invalidations begin. *)
LEMMA BeginInv ==
  ASSUME CacheInv, NEW c \in cache.clients,
         \/ \E k \in cache.keys : FindByID(c, k) \/ InvalidateByID(c, k)
         \/ \E h \in cache.keys \cup {All} : Refresh(c, h) \/ InvalidateCachedQuery(c, h)
         \/ FindAll(c) \/ DropCachedValues(c)
  PROVE  CacheInv'
<1>1. Types /\ StateTypes /\ Nearly(act)
  BY NearlyAct DEF CacheInv, Types
<1>2. c \in Actors /\ c \notin HitIDs /\ \A k \in cache.keys : k \in Keys /\ k # All
  BY <1>1, SetupFacts, CacheAssumption DEF HitIDs
<1>3. UNCHANGED <<cache, src, ents, hits, version, raced>>
  BY DEF FindByID, FindAll, Refresh, InvalidateByID, InvalidateCachedQuery, DropCachedValues
<1>4. ASSUME NEW k \in cache.keys, FindByID(c, k)
      PROVE  CacheInv'
  <2>1. act[c].pc = "idle" /\ act' = Begun(act, c, Op("read", k, "hit"))
    BY <1>4 DEF FindByID, Begin, Busy
  <2>2. OpOK(Op("read", k, "hit"))
    BY <1>1, PlainOpOK
  <2> QED
    BY <1>1, <1>2, <1>3, <2>1, <2>2, PlainBegin
<1>5. CASE FindAll(c)
  <2>1. act[c].pc = "idle" /\ act' = Begun(act, c, Op("read", All, "hit"))
    BY <1>5 DEF FindAll, Begin, Busy
  <2>2. OpOK(Op("read", All, "hit"))
    BY <1>1, PlainOpOK
  <2> QED
    BY <1>1, <1>2, <1>3, <2>1, <2>2, PlainBegin
<1>6. ASSUME NEW h \in cache.keys \cup {All}, Refresh(c, h)
      PROVE  CacheInv'
  <2>1. act[c].pc = "idle" /\ act' = Begun(act, c, Op("refresh", h, "query"))
    BY <1>6 DEF Refresh, Begin, Busy
  <2>2. OpOK(Op("refresh", h, "query"))
    BY <1>1, PlainOpOK
  <2> QED
    BY <1>1, <1>2, <1>3, <2>1, <2>2, PlainBegin
<1>7. ASSUME NEW k \in cache.keys, InvalidateByID(c, k)
      PROVE  CacheInv'
  <2>1. act[c].pc = "idle" /\ act' = Begun(act, c, Op("invalidate", k, "invalidateID"))
    BY <1>7 DEF InvalidateByID, Begin, Busy
  <2>2. OpOK(Op("invalidate", k, "invalidateID"))
    BY <1>1, <1>2, PlainOpOK
  <2> QED
    BY <1>1, <1>2, <1>3, <2>1, <2>2, PlainBegin
<1>8. ASSUME NEW h \in cache.keys \cup {All}, InvalidateCachedQuery(c, h)
      PROVE  CacheInv'
  <2>1. act[c].pc = "idle" /\ act' = Begun(act, c, Op("invalidate", h, "invalidateHit"))
    BY <1>8 DEF InvalidateCachedQuery, Begin, Busy
  <2>2. OpOK(Op("invalidate", h, "invalidateHit"))
    BY <1>1, PlainOpOK
  <2> QED
    BY <1>1, <1>2, <1>3, <2>1, <2>2, PlainBegin
<1>9. CASE DropCachedValues(c)
  <2>1. act[c].pc = "idle" /\ act' = Begun(act, c, Op("invalidate", All, "drop"))
    BY <1>9 DEF DropCachedValues, Begin, Busy
  <2>2. OpOK(Op("invalidate", All, "drop"))
    BY <1>1, PlainOpOK
  <2> QED
    BY <1>1, <1>2, <1>3, <2>1, <2>2, PlainBegin
<1> QED
  BY <1>4, <1>5, <1>6, <1>7, <1>8, <1>9

(* A step that changes nothing. *)
LEMMA StutterInv ==
  ASSUME CacheInv, UNCHANGED <<cache, src, ents, hits, act, version, raced>>
  PROVE  CacheInv'
<1>1. Types'
  BY DEF CacheInv, Types, StateTypes, OpOK, Busy, KeysOf
<1>2. Meets' /\ Invalidations'
  BY DEF CacheInv, Meets, Covers, Changing, Busy, KeysOf, Invalidations, TakesAll, Refers
<1>3. ASSUME NEW k \in Keys
      PROVE  (Quiet(k) => InOrder(k))'
  <2>1. Quiet(k) => InOrder(k)
    BY DEF CacheInv
  <2>2. (\A a \in Actors : Covers(a, k) => Answered(a, k) /\ Writing(a, k))' <=>
        (\A a \in Actors : Covers(a, k) => Answered(a, k) /\ Writing(a, k))
    BY DEF Covers, Busy, KeysOf, Answered, Writing, Refers
  <2>3. ((\A a \in Actors : Covers(a, k) => act[a].kind # "write") => Consistent(k))' <=>
        ((\A a \in Actors : Covers(a, k) => act[a].kind # "write") => Consistent(k))
    BY DEF Covers, Busy, KeysOf, Consistent, Refers
  <2> QED
    BY <2>1, <2>2, <2>3 DEF Quiet, InOrder
<1> QED
  BY <1>1, <1>2, <1>3 DEF CacheInv

(* doRefreshBehind begins a job or does nothing. *)
LEMMA BehindCases ==
  ASSUME NEW h, NEW acts
  PROVE  \/ doRefreshBehind(h, acts) = acts
         \/ /\ acts[h].pc = "idle"
            /\ doRefreshBehind(h, acts) = Begun(acts, h, Op("refresh", h, "query"))
BY DEF doRefreshBehind

LEMMA BehindInv ==
  ASSUME CacheInv, NEW acts, Nearly(acts), NEW h \in cache.keys \cup {All},
         acts[h].pc = "idle", act' = Begun(acts, h, Op("refresh", h, "query")),
         UNCHANGED <<cache, src, ents, hits, version, raced>>
  PROVE  CacheInv'
<1>1. Types /\ StateTypes
  BY DEF CacheInv, Types
<1>2. h \in HitIDs /\ h \in Actors
  BY <1>1, SetupFacts DEF HitIDs
<1>3. OpOK(Op("refresh", h, "query"))
  BY <1>1, PlainOpOK
<1> QED
  BY <1>2, <1>3, PlainBegin

LEMMA FindByIDFastInv ==
  ASSUME CacheInv, NEW c \in cache.clients, NEW k \in cache.keys, FindByIDFast(c, k)
  PROVE  CacheInv'
<1>1. UNCHANGED <<cache, src, ents, hits, version, raced>> /\ act' = doRefreshBehind(k, act)
  BY DEF FindByIDFast
<1>2. CASE act' = act
  BY <1>1, <1>2, StutterInv
<1>3. CASE act[k].pc = "idle" /\ act' = Begun(act, k, Op("refresh", k, "query"))
  <2>1. Nearly(act)
    BY NearlyAct DEF CacheInv
  <2> QED
    BY <1>1, <1>3, <2>1, BehindInv
<1> QED
  BY <1>1, <1>2, <1>3, BehindCases

(* Create, Update and Save begin with the source. *)
LEMMA WriteInv ==
  ASSUME CacheInv, NEW c \in cache.clients, NEW k \in cache.keys,
         NEW pc \in {"create", "update"}, pc = "create" => src[k] = 0, Write(c, k, pc)
  PROVE  CacheInv'
<1>1. Types /\ StateTypes /\ Nearly(act)
  BY NearlyAct DEF CacheInv, Types
<1>2. /\ c \in Actors /\ c \notin HitIDs /\ k \in Keys /\ k # All /\ k \in HitIDs
      /\ KeysOf(k) = {k}
  BY <1>1, SetupFacts, CacheAssumption DEF HitIDs
<1>3. PICK v \in 1..MaxVersion : v = version + 1
  BY <1>1, CacheAssumption DEF Write, StateTypes
<1>4. /\ version' = v /\ src' = [src EXCEPT ![k] = v]
      /\ act[c].pc = "idle"
      /\ act' = Begun(act, c, [Op("write", k, pc) EXCEPT !.got = {<<k, v>>}])
      /\ cache' = cache /\ ents' = ents /\ hits' = hits /\ raced' = raced
  BY <1>3 DEF Write, Begin, Busy
<1>5. PICK o \in Ops : o = Op("write", k, pc)
  BY <1>2, OpFacts DEF Pcs
<1>5a. o.pc = pc /\ o.kind = "write" /\ o.h = k /\ o.ids = {} /\ o.met = {}
  BY <1>2, <1>5, OpFacts DEF Pcs
<1>5b. PICK op \in Ops : op = [o EXCEPT !.got = {<<k, v>>}]
  <2>1. {<<k, v>>} \in SUBSET (Keys \X (1..MaxVersion))
    BY <1>2
  <2> QED
    BY <2>1 DEF Ops
<1>6. /\ op.pc = pc /\ op.kind = "write" /\ op.h = k /\ op.got = {<<k, v>>} /\ op.ids = {}
      /\ op.met = {}
  BY <1>5a, <1>5b DEF Ops
<1>7. OpOK(op)
  <2>1. PcFits(op)
    BY <1>2, <1>6 DEF PcFits
  <2> QED
    BY <1>2, <1>6, <2>1 DEF OpOK
<1>8. act' = Begun(act, c, op) /\ act \in [Actors -> Ops]
  BY <1>1, <1>4, <1>5, <1>5b DEF StateTypes
<1>9. act'[c].pc = pc /\ act'[c].kind = "write" /\ act'[c].h = k /\ act'[c].got = {<<k, v>>}
  <2>1. /\ act'[c].pc = op.pc /\ act'[c].kind = op.kind /\ act'[c].h = op.h
        /\ act'[c].got = op.got
    BY <1>1, <1>2, <1>4, <1>8, BegunFacts
  <2> QED
    BY <1>6, <2>1
<1>10. src' \in [Keys -> 0..MaxVersion] /\ src'[k] = v /\ \A x \in Keys \ {k} : src'[x] = src[x]
  BY <1>1, <1>2, <1>3, <1>4 DEF StateTypes
<1>11. \A x \in Keys : Covers(c, x)' <=> x = k
  BY <1>2, <1>4, <1>9 DEF Covers, Busy, KeysOf
<1>12. Consistent(k) => Writing(c, k)'
  <2>1. SUFFICES ASSUME Consistent(k)
                 PROVE  Writing(c, k)'
    OBVIOUS
  <2>2. src'[k] = v /\ v # 0 /\ act'[c].got = {<<k, src'[k]>>}
    BY <1>3, <1>9, <1>10, CacheAssumption
  <2>3. CASE pc = "create"
    <3>1. ents'[k] = 0 /\ \A h \in HitIDs : ~Refers(h, k)'
      BY <1>4, <2>1, <2>3 DEF Consistent, Refers
    <3> QED
      BY <1>9, <2>2, <2>3, <3>1 DEF Writing
  <2>4. CASE pc = "update"
    BY <1>9, <2>2, <2>4 DEF Writing
  <2> QED
    BY <2>3, <2>4
<1>13. Announces(c)
  BY <1>9, <1>10, <1>11, <1>12 DEF Announces
<1>14. \A x \in Keys \ cache.keys : src'[x] = 0
  BY <1>1, <1>10 DEF Types
<1>15. version' \in 0..MaxVersion /\ op.pc \notin {"idle", "save", "commit"}
  BY <1>3, <1>4, <1>6, CacheAssumption
<1> QED
  BY <1>1, <1>2, <1>4, <1>7, <1>8, <1>10, <1>13, <1>14, <1>15, BegunInv

(* DeleteByID and DeleteAll begin with the source. *)
LEMMA DeleteInv ==
  ASSUME CacheInv, NEW c \in cache.clients,
         (\E k \in cache.keys : DeleteByID(c, k)) \/ DeleteAll(c)
  PROVE  CacheInv'
<1>1. Types /\ StateTypes /\ Nearly(act)
  BY NearlyAct DEF CacheInv, Types
<1>2. /\ c \in Actors /\ c \notin HitIDs /\ KeysOf(All) = cache.keys /\ All \in HitIDs
      /\ \A k \in cache.keys : k \in Keys /\ k # All /\ k \in HitIDs /\ KeysOf(k) = {k}
  BY <1>1, SetupFacts, CacheAssumption DEF HitIDs
<1>3. /\ cache' = cache /\ ents' = ents /\ hits' = hits /\ raced' = raced
      /\ version' = version /\ act[c].pc = "idle" /\ act \in [Actors -> Ops]
  BY <1>1 DEF DeleteByID, DeleteAll, Begin, Busy, StateTypes
<1>4. version' \in 0..MaxVersion
  BY <1>1, <1>3 DEF StateTypes
<1>5. ASSUME NEW k \in cache.keys, DeleteByID(c, k)
      PROVE  CacheInv'
  <2>1. src' = [src EXCEPT ![k] = 0] /\ act' = Begun(act, c, Op("write", k, "invalidateID"))
    BY <1>5 DEF DeleteByID, Begin
  <2>2. PICK op \in Ops : op = Op("write", k, "invalidateID")
    BY <1>2, OpFacts DEF Pcs
  <2>3. /\ op.pc = "invalidateID" /\ op.kind = "write" /\ op.h = k /\ op.got = {}
        /\ op.ids = {} /\ op.met = {}
    BY <1>2, <2>2, OpFacts DEF Pcs
  <2>4. OpOK(op)
    <3>1. PcFits(op)
      BY <1>2, <2>3 DEF PcFits
    <3> QED
      BY <1>2, <2>3, <3>1 DEF OpOK
  <2>5. act' = Begun(act, c, op)
    BY <2>1, <2>2
  <2>6. act'[c].pc = "invalidateID" /\ act'[c].kind = "write" /\ act'[c].h = k
    BY <1>1, <1>2, <1>3, <2>3, <2>5, BegunFacts
  <2>7. /\ src' \in [Keys -> 0..MaxVersion] /\ \A x \in Keys \ {k} : src'[x] = src[x]
        /\ src'[k] = 0
    BY <1>1, <1>2, <2>1, CacheAssumption DEF StateTypes
  <2>8. Covers(c, k)' /\ \A x \in Keys : Writing(c, x)'
    BY <1>2, <1>3, <2>6 DEF Covers, Busy, KeysOf, Writing
  <2>9. Announces(c)
    BY <2>6, <2>7, <2>8 DEF Announces
  <2>10. \A x \in Keys \ cache.keys : src'[x] = 0
    BY <1>1, <2>7 DEF Types
  <2> QED
    BY <1>1, <1>2, <1>3, <1>4, <2>3, <2>4, <2>5, <2>7, <2>9, <2>10, BegunInv
<1>6. CASE DeleteAll(c)
  <2>1. src' = [x \in Keys |-> 0] /\ act' = Begun(act, c, Op("write", All, "drop"))
    BY <1>6 DEF DeleteAll, Begin
  <2>2. PICK op \in Ops : op = Op("write", All, "drop")
    BY <1>2, OpFacts DEF Pcs
  <2>3. /\ op.pc = "drop" /\ op.kind = "write" /\ op.h = All /\ op.got = {} /\ op.ids = {}
        /\ op.met = {}
    BY <1>2, <2>2, OpFacts DEF Pcs
  <2>4. OpOK(op)
    <3>1. PcFits(op)
      BY <2>3 DEF PcFits
    <3> QED
      BY <1>2, <2>3, <3>1 DEF OpOK
  <2>5. act' = Begun(act, c, op)
    BY <2>1, <2>2
  <2>6. act'[c].pc = "drop" /\ act'[c].kind = "write" /\ act'[c].h = All
    BY <1>1, <1>2, <1>3, <2>3, <2>5, BegunFacts
  <2>7. src' \in [Keys -> 0..MaxVersion] /\ \A x \in Keys : src'[x] = 0
    BY <2>1, CacheAssumption
  <2>8. \A x \in Keys : (x \in cache.keys => Covers(c, x)') /\ Writing(c, x)'
    BY <1>2, <1>3, <2>6 DEF Covers, Busy, KeysOf, Writing
  <2>9. \A x \in Keys \ cache.keys : src'[x] = src[x]
    BY <1>1, <2>7 DEF Types
  <2>10. Announces(c)
    BY <2>6, <2>8, <2>9 DEF Announces
  <2> QED
    BY <1>1, <1>2, <1>3, <1>4, <2>3, <2>4, <2>5, <2>7, <2>10, BegunInv
<1> QED
  BY <1>5, <1>6

(* A change of the source without the cache races. *)
LEMMA OutsideInv ==
  ASSUME CacheInv, NEW k \in cache.keys, Outside(k)
  PROVE  CacheInv'
<1>1. Types /\ StateTypes
  BY DEF CacheInv, Types
<1>2. k \in Keys
  BY <1>1, SetupFacts
<1>3. PICK v \in 0..MaxVersion : src' = [src EXCEPT ![k] = v]
  <2>1. version + 1 \in 0..MaxVersion /\ 0 \in 0..MaxVersion
    BY <1>1, CacheAssumption DEF Outside, StateTypes
  <2> QED
    BY <2>1 DEF Outside
<1>4. /\ src' \in [Keys -> 0..MaxVersion] /\ \A x \in Keys \ {k} : src'[x] = src[x]
      /\ version' \in 0..MaxVersion /\ raced' = raced \cup {k}
      /\ UNCHANGED <<cache, ents, hits, act>>
  BY <1>1, <1>2, <1>3, CacheAssumption DEF Outside, StateTypes
<1>5. Types'
  <2>1. StateTypes'
    BY <1>1, <1>2, <1>4 DEF StateTypes
  <2>2. \A a \in Actors : OpOK(act[a])'
    BY <1>1, <1>4 DEF Types, OpOK, KeysOf
  <2> QED
    BY <1>1, <1>4, <2>1, <2>2 DEF Types, Busy, KeysOf
<1>6. Meets' /\ Invalidations'
  BY <1>4 DEF CacheInv, Meets, Covers, Changing, Busy, KeysOf, Invalidations, TakesAll, Refers
<1>7. ASSUME NEW x \in Keys, Quiet(x)'
      PROVE  InOrder(x)'
  <2>1. x # k /\ Quiet(x)
    BY <1>4, <1>7 DEF Quiet
  <2>2. InOrder(x) /\ src'[x] = src[x]
    BY <1>4, <2>1 DEF CacheInv
  <2>3. \A a \in Actors : (Covers(a, x)' <=> Covers(a, x))
    BY <1>4 DEF Covers, Busy, KeysOf
  <2>4. \A a \in Actors : (Answered(a, x) => Answered(a, x)') /\ (Writing(a, x) => Writing(a, x)')
    BY <1>4, <2>2 DEF Answered, Writing, Refers
  <2>5. Consistent(x) => Consistent(x)'
    BY <1>4, <2>2 DEF Consistent, Refers
  <2> QED
    BY <1>4, <2>2, <2>3, <2>4, <2>5 DEF InOrder
<1> QED
  BY <1>5, <1>6, <1>7 DEF CacheInv

----------------------------------------------------------------------------
(* An operation goes on, and may save an entity. *)
LEMMA ProgressInv ==
  ASSUME CacheInv, NEW a \in Actors, Busy(a), NEW r \in Ops, OpOK(r), r.pc # "idle",
         r.kind = act[a].kind, r.h = act[a].h, r.met = act[a].met,
         act' = [act EXCEPT ![a] = r],
         UNCHANGED <<cache, src, hits, version, raced>>,
         ents' \in [Keys -> 0..MaxVersion],
         \A k \in Keys : ~Covers(a, k) => ents'[k] = ents[k],
         Does(a), LooksUp(a)
  PROVE  CacheInv'
<1>1. Types /\ StateTypes
  BY DEF CacheInv, Types
<1>2. act'[a] = r /\ \A x \in Actors \ {a} : act'[x] = act[x]
  BY <1>1 DEF StateTypes
<1>3. \A k \in Keys \ cache.keys : ~Covers(a, k)
  <2>1. OpOK(act[a])
    BY <1>1 DEF Types
  <2> QED
    BY <1>1, <2>1, SetupFacts DEF OpOK, Covers
<1>4. Types'
  <2>1. a \in HitIDs => r.kind = "refresh" /\ r.h = a
    BY <1>1 DEF Types
  <2>2. \A k \in Keys \ cache.keys : src'[k] = 0 /\ ents'[k] = 0
    BY <1>1, <1>3 DEF Types
  <2>3. /\ src' \in [Keys -> 0..MaxVersion] /\ hits' \in [HitIDs -> {NoHit} \cup SUBSET Keys]
        /\ version' \in 0..MaxVersion /\ raced' \subseteq Keys
    BY <1>1 DEF StateTypes
  <2>4. \A h \in HitIDs : hits'[h] = NoHit \/ hits'[h] \subseteq KeysOf(h)
    BY <1>1 DEF Types
  <2> QED
    BY <1>1, <2>1, <2>2, <2>3, <2>4, MoveTypes
<1>5. Goes(a)
  BY <1>2 DEF Goes, Busy
<1>6. LeavesRest(a)
  BY DEF LeavesRest, Framed, Refers
<1>7. Races(a)
  BY <1>2 DEF Races
<1> QED
  BY <1>4, <1>5, <1>6, <1>7, GoesInv

(* What an operation that ends leaves behind. *)
EndServes(a, stale) == \A k \in Keys :
    Covers(a, k) /\ Quiet(k) /\ InOrder(k) /\ k \notin stale =>
        /\ Changing(a) => Consistent(k)'
        /\ ~Changing(a) /\ Consistent(k) =>
              Consistent(k)' /\ (ents'[k] = ents[k] \/ ents'[k] = src[k])
EndHeals(a, healed) == \A k \in healed \ act[a].met :
    Changing(a) /\ Covers(a, k) /\ Consistent(k)'

LEMMA EndInv ==
  ASSUME CacheInv, NEW a \in Actors, Busy(a), NEW stale, NEW healed, End(a, stale, healed),
         stale \subseteq Keys,
         UNCHANGED <<cache, src, version>>,
         ents' \in [Keys -> 0..MaxVersion], hits' \in [HitIDs -> {NoHit} \cup SUBSET Keys],
         \A h \in HitIDs : hits'[h] = NoHit \/ hits'[h] \subseteq KeysOf(h),
         LeavesRest(a), EndServes(a, stale), EndHeals(a, healed)
  PROVE  CacheInv'
<1>1. Types /\ StateTypes
  BY DEF CacheInv, Types
<1>2. /\ act' = [act EXCEPT ![a] = Idle]
      /\ raced' = (raced \ healed) \cup act[a].met \cup stale
  BY DEF End
<1>3. act'[a] = Idle /\ \A x \in Actors \ {a} : act'[x] = act[x]
  BY <1>1, <1>2 DEF StateTypes
<1>4. ~Busy(a)' /\ act'[a].met = {} /\ act'[a].pc = "idle"
  BY <1>3, IdleFacts DEF Busy
<1>5. Types'
  <2>1. raced' \subseteq Keys
    <3>1. act[a] \in Ops
      BY <1>1 DEF StateTypes
    <3>2. act[a].met \subseteq Keys /\ raced \subseteq Keys
      BY <1>1, <3>1 DEF Ops, StateTypes
    <3> QED
      BY <1>2, <3>2
  <2>2. ASSUME NEW k \in Keys \ cache.keys
        PROVE  src'[k] = 0 /\ ents'[k] = 0
    <3>1. OpOK(act[a])
      BY <1>1 DEF Types
    <3>2. ~Covers(a, k)
      BY <1>1, <3>1, SetupFacts DEF OpOK, Covers
    <3> QED
      BY <1>1, <3>2 DEF Types, LeavesRest, Framed
  <2>3. src' \in [Keys -> 0..MaxVersion] /\ version' \in 0..MaxVersion
    BY <1>1 DEF StateTypes
  <2> QED
    BY <1>1, <1>2, <2>1, <2>2, <2>3, IdleFacts, IdleOK, MoveTypes
<1>6. Goes(a)
  BY <1>3, <1>4 DEF Goes
<1>7. Does(a)
  <2> SUFFICES ASSUME NEW k \in Keys, Covers(a, k), Quiet(k), Quiet(k)', InOrder(k)
               PROVE  Serves(a, k)
    BY DEF Does
  <2>1. k \notin stale
    BY <1>2 DEF Quiet
  <2> QED
    BY <1>4, <2>1 DEF EndServes, Serves, Changing, Changes
<1>8. Races(a)
  <2> SUFFICES ASSUME NEW k \in Keys, k \notin raced'
               PROVE  k \notin act[a].met /\ (k \notin raced \/ Heals(a, k))
    BY DEF Races
  <2>1. k \notin act[a].met /\ (k \notin raced \/ k \in healed)
    BY <1>2
  <2> QED
    BY <1>4, <2>1 DEF EndHeals, Heals
<1>9. LooksUp(a)
  BY <1>4 DEF LooksUp
<1> QED
  BY <1>5, <1>6, <1>7, <1>8, <1>9, GoesInv

(* An operation ends and, at most, hits have gone. *)
LEMMA PlainEnd ==
  ASSUME CacheInv, NEW a \in Actors, Busy(a), NEW stale, End(a, stale, {}),
         stale \subseteq Keys,
         UNCHANGED <<cache, src, ents, version>>,
         hits' \in [HitIDs -> {NoHit} \cup SUBSET Keys],
         \A h \in HitIDs : hits'[h] = hits[h] \/ hits'[h] = NoHit,
         act[a].kind = "write" => KeysOf(act[a].h) \subseteq stale
  PROVE  CacheInv'
<1>1. Types /\ StateTypes
  BY DEF CacheInv, Types
<1>2. ents' \in [Keys -> 0..MaxVersion]
  BY <1>1 DEF StateTypes
<1>3. \A h \in HitIDs : hits'[h] = NoHit \/ hits'[h] \subseteq KeysOf(h)
  BY <1>1 DEF Types
<1>4. \A k \in Keys : Framed(k)
  BY <1>1, SetupFacts DEF Framed, Refers
<1>5. LeavesRest(a)
  BY <1>4 DEF LeavesRest
<1>6. EndServes(a, stale)
  <2> SUFFICES ASSUME NEW k \in Keys, Covers(a, k), Quiet(k), InOrder(k), k \notin stale
               PROVE  /\ Changing(a) => Consistent(k)'
                      /\ ~Changing(a) /\ Consistent(k) =>
                            Consistent(k)' /\ (ents'[k] = ents[k] \/ ents'[k] = src[k])
    BY DEF EndServes
  <2>1. Consistent(k) => Consistent(k)'
    BY <1>4, FramedConsistent
  <2>2. Changing(a) => Consistent(k)
    <3>1. act[a].kind # "write"
      BY DEF Covers
    <3>2. Changing(a) => \A x \in Actors \ {a} : ~Covers(x, k)
      BY Alone
    <3> QED
      BY <3>1, <3>2 DEF InOrder
  <2> QED
    BY <2>1, <2>2
<1>7. EndHeals(a, {})
  BY DEF EndHeals
<1> QED
  BY <1>2, <1>3, <1>5, <1>6, <1>7, EndInv

----------------------------------------------------------------------------
(* CachedQueryMany looks its hit up. *)
LEMMA CachedQueryManyInv ==
  ASSUME CacheInv, NEW c \in Actors, CachedQueryMany(c)
  PROVE  CacheInv'
<1>1. Types /\ StateTypes /\ act[c] \in Ops /\ OpOK(act[c])
  BY DEF CacheInv, Types, StateTypes
<1>2. /\ act[c].pc = "hit" /\ act[c].kind = "read" /\ Busy(c)
      /\ UNCHANGED <<cache, src, ents, hits, version>>
      /\ act[c].h \in HitIDs /\ act[c].h \in cache.keys \cup {All}
  BY <1>1 DEF CachedQueryMany, OpOK, PcFits, Busy, Ops
<1>3. PICK h \in HitIDs : h = act[c].h
  BY <1>2
<1>4. CASE Goto(c, "query")
  <2>1. PICK r \in Ops : r = [act[c] EXCEPT !.pc = "query"]
    BY <1>1 DEF Ops, Pcs
  <2>2. /\ r.pc = "query" /\ r.kind = act[c].kind /\ r.h = act[c].h /\ r.met = act[c].met
        /\ r.got = act[c].got /\ r.ids = act[c].ids /\ r.gone = act[c].gone
    BY <1>1, <2>1 DEF Ops
  <2>3. OpOK(r)
    BY <1>1, <1>2, <2>2 DEF OpOK, PcFits
  <2>4. act' = [act EXCEPT ![c] = r] /\ raced' = raced
    BY <1>4, <2>1 DEF Goto
  <2>5. act'[c] = r
    BY <1>1, <2>4 DEF StateTypes
  <2>6. Does(c)
    <3>1. ASSUME NEW k \in Keys
          PROVE  Serves(c, k)
      <4>1. Answered(c, k)' /\ Writing(c, k)'
        BY <1>2, <2>2, <2>5 DEF Answered, Writing
      <4>2. Consistent(k) => Consistent(k)'
        BY <1>2 DEF Consistent, Refers
      <4> QED
        BY <1>2, <4>1, <4>2 DEF Serves, Changing, Changes
    <3> QED
      BY <3>1 DEF Does
  <2>7. LooksUp(c) /\ ents' \in [Keys -> 0..MaxVersion]
    BY <1>1, <1>2, <2>2, <2>5 DEF LooksUp, StateTypes
  <2> QED
    BY <1>2, <2>2, <2>3, <2>4, <2>6, <2>7, ProgressInv
<1>5. CASE End(c, {}, {})
  <2>1. /\ hits' \in [HitIDs -> {NoHit} \cup SUBSET Keys]
        /\ \A x \in HitIDs : hits'[x] = hits[x] \/ hits'[x] = NoHit
    BY <1>1, <1>2 DEF StateTypes
  <2> QED
    BY <1>2, <1>5, <2>1, PlainEnd
<1>6. CASE /\ hits[h] # NoHit
           /\ act' = doRefreshBehind(h, [act EXCEPT ![c].pc = "ids", ![c].ids = hits[h]])
           /\ raced' = raced
  <2>1. hits[h] \in SUBSET Keys /\ hits[h] \subseteq KeysOf(h)
    BY <1>1, <1>6 DEF Types, StateTypes
  <2>2. PICK r \in Ops : r = [act[c] EXCEPT !.pc = "ids", !.ids = hits[h]]
    BY <1>1, <2>1 DEF Ops, Pcs
  <2>3. /\ r.pc = "ids" /\ r.kind = act[c].kind /\ r.h = act[c].h /\ r.met = act[c].met
        /\ r.got = act[c].got /\ r.ids = hits[h] /\ r.gone = act[c].gone
    BY <1>1, <2>2 DEF Ops
  <2>4. OpOK(r)
    BY <1>1, <1>2, <1>3, <2>1, <2>3 DEF OpOK, PcFits
  <2>5. PICK acts : acts = [act EXCEPT ![c] = r]
    OBVIOUS
  <2>6. act' = doRefreshBehind(h, acts)
    BY <1>6, <2>2, <2>5
  <2>7. acts \in [Actors -> Ops] /\ acts[c] = r /\ \A x \in Actors \ {c} : acts[x] = act[x]
    BY <1>1, <2>5 DEF StateTypes
  <2>8. CASE act' = acts
    <3>1. Does(c)
      <4>1. ASSUME NEW k \in Keys
            PROVE  Serves(c, k)
        <5>1. Answered(c, k)' /\ Writing(c, k)'
          BY <1>2, <2>3, <2>7, <2>8 DEF Answered, Writing
        <5>2. Consistent(k) => Consistent(k)'
          BY <1>2 DEF Consistent, Refers
        <5> QED
          BY <1>2, <5>1, <5>2 DEF Serves, Changing, Changes
      <4> QED
        BY <4>1 DEF Does
    <3>2. LooksUp(c) /\ ents' \in [Keys -> 0..MaxVersion]
      BY <1>1, <1>2, <2>3, <2>7, <2>8 DEF LooksUp, StateTypes
    <3> QED
      BY <1>2, <1>6, <2>3, <2>4, <2>5, <2>8, <3>1, <3>2, ProgressInv
  <2>9. CASE acts[h].pc = "idle" /\ act' = Begun(acts, h, Op("refresh", h, "query"))
    <3>1. Nearly(acts)
      BY <1>1, <1>2, <2>3, <2>4, <2>7 DEF Nearly, Types
    <3>2. h \in cache.keys \cup {All}
      BY <1>2, <1>3
    <3> QED
      BY <1>2, <1>6, <2>9, <3>1, <3>2, BehindInv
  <2> QED
    BY <2>6, <2>8, <2>9, BehindCases
<1> QED
  BY <1>2, <1>3, <1>4, <1>5, <1>6 DEF CachedQueryMany

LEMMA FindByIDsInv ==
  ASSUME CacheInv, NEW c \in Actors, FindByIDs(c)
  PROVE  CacheInv'
<1>1. Types /\ StateTypes /\ act[c] \in Ops /\ OpOK(act[c])
  BY DEF CacheInv, Types, StateTypes
<1>2. /\ act[c].kind = "read" /\ Busy(c) /\ act[c].h \in HitIDs
      /\ UNCHANGED <<cache, src, ents, version>> /\ End(c, {}, {})
  BY <1>1 DEF FindByIDs, OpOK, PcFits, Busy, Ops
<1>3. hits' = hits \/ hits' = [hits EXCEPT ![act[c].h] = NoHit]
  BY DEF FindByIDs
<1>4. /\ hits' \in [HitIDs -> {NoHit} \cup SUBSET Keys]
      /\ \A x \in HitIDs : hits'[x] = hits[x] \/ hits'[x] = NoHit
  BY <1>1, <1>2, <1>3 DEF StateTypes
<1> QED
  BY <1>2, <1>4, PlainEnd

(* The source answers with what it has. *)
LEMMA QueryInv ==
  ASSUME CacheInv, NEW a \in Actors, Query(a)
  PROVE  CacheInv'
<1>1. Types /\ StateTypes /\ act[a] \in Ops /\ OpOK(act[a])
  BY DEF CacheInv, Types, StateTypes
<1>2. /\ act[a].pc = "query" /\ Busy(a) /\ act[a].kind \in {"read", "refresh", "write"}
      /\ UNCHANGED <<cache, src, ents, hits, version, raced>>
  BY <1>1 DEF Query, OpOK, PcFits, Busy
<1>3. PICK h \in HitIDs : h = act[a].h
  BY <1>1 DEF Ops
<1>4. PICK found \in SUBSET Keys : found = {k \in KeysOf(h) : src[k] # 0}
  BY <1>1, SetupFacts
<1>5. PICK got \in SUBSET (Keys \X (1..MaxVersion)) : got = {<<k, src[k]>> : k \in found}
  <2>1. ASSUME NEW k \in found
        PROVE  <<k, src[k]>> \in Keys \X (1..MaxVersion)
    <3>1. k \in Keys /\ src[k] \in 0..MaxVersion /\ src[k] # 0
      BY <1>1, <1>4 DEF StateTypes
    <3>2. src[k] \in 1..MaxVersion
      BY <3>1, CacheAssumption
    <3> QED
      BY <3>1, <3>2
  <2> QED
    BY <2>1
<1>6. PICK r \in Ops : r = [act[a] EXCEPT !.pc = "save", !.ids = found, !.got = got]
  BY <1>1 DEF Ops, Pcs
<1>7. /\ r.pc = "save" /\ r.kind = act[a].kind /\ r.h = h /\ r.met = act[a].met
      /\ r.got = got /\ r.ids = found
  BY <1>1, <1>3, <1>6 DEF Ops
<1>8. act' = [act EXCEPT ![a] = r] /\ act'[a] = r
  BY <1>1, <1>3, <1>4, <1>5, <1>6 DEF Query, StateTypes
<1>9. OpOK(r)
  <2>1. PcFits(r)
    BY <1>1, <1>2, <1>3, <1>7 DEF OpOK, PcFits
  <2>2. \A e \in got : e[1] \in KeysOf(h)
    BY <1>4, <1>5
  <2> QED
    BY <1>1, <1>3, <1>4, <1>7, <2>1, <2>2 DEF OpOK
<1>10. Does(a)
  <2> SUFFICES ASSUME NEW k \in Keys, Covers(a, k), InOrder(k)
               PROVE  Serves(a, k)
    BY DEF Does
  <2>1. k \in found <=> src[k] # 0
    BY <1>3, <1>4 DEF Covers
  <2>2. \A e \in got : e[1] = k => e[2] = src[k]
    BY <1>5
  <2>3. ASSUME k \in found
        PROVE  \E e \in got : e[1] = k
    <3>1. <<k, src[k]>> \in got
      BY <1>5, <2>3
    <3>2. <<k, src[k]>>[1] = k
      OBVIOUS
    <3> QED
      BY <3>1, <3>2
  <2>4. Answered(a, k)'
    BY <1>2, <1>7, <1>8, <2>1, <2>2, <2>3 DEF Answered
  <2>5. Writing(a, k)'
    BY <1>2, <1>7, <1>8 DEF InOrder, Writing
  <2>6. Consistent(k) => Consistent(k)'
    BY <1>2 DEF Consistent, Refers
  <2>7. Busy(a)'
    BY <1>7, <1>8 DEF Busy
  <2> QED
    BY <1>2, <2>4, <2>5, <2>6, <2>7 DEF Serves
<1>11. LooksUp(a) /\ ents' \in [Keys -> 0..MaxVersion]
  BY <1>1, <1>2, <1>7, <1>8 DEF LooksUp, StateTypes
<1> QED
  BY <1>2, <1>3, <1>7, <1>8, <1>9, <1>10, <1>11, ProgressInv

(* An entity is saved: the one the source has, unless the key was raced or *)
(* another operation met.                                                  *)
LEMMA SaveEntityInv ==
  ASSUME CacheInv, NEW a \in Actors, SaveEntity(a)
  PROVE  CacheInv'
<1>1. Types /\ StateTypes /\ act[a] \in Ops /\ OpOK(act[a])
  BY DEF CacheInv, Types, StateTypes
<1>2. /\ act[a].pc = "save" /\ Busy(a) /\ act[a].kind \in {"read", "refresh", "write"}
      /\ UNCHANGED <<cache, src, hits, version, raced>>
  BY <1>1 DEF SaveEntity, OpOK, PcFits, Busy
<1>3. PICK e \in act[a].got : /\ ents' = [ents EXCEPT ![e[1]] = e[2]]
                              /\ act' = [act EXCEPT ![a].got = @ \ {e}]
  BY DEF SaveEntity
<1>4. /\ e[1] \in Keys /\ e[2] \in 1..MaxVersion /\ e[1] \in KeysOf(act[a].h)
      /\ act[a].got \subseteq Keys \X (1..MaxVersion)
  <2>1. act[a].got \subseteq Keys \X (1..MaxVersion)
    BY <1>1 DEF Ops
  <2>2. e \in Keys \X (1..MaxVersion)
    BY <2>1
  <2> QED
    BY <1>1, <2>1, <2>2 DEF OpOK
<1>5. PICK r \in Ops : r = [act[a] EXCEPT !.got = @ \ {e}]
  BY <1>1, <1>4 DEF Ops
<1>6. /\ r.pc = "save" /\ r.kind = act[a].kind /\ r.h = act[a].h /\ r.met = act[a].met
      /\ r.got = act[a].got \ {e} /\ r.ids = act[a].ids
  BY <1>1, <1>2, <1>5 DEF Ops
<1>7. act' = [act EXCEPT ![a] = r] /\ act'[a] = r
  BY <1>1, <1>3, <1>5 DEF StateTypes
<1>8. OpOK(r)
  BY <1>1, <1>2, <1>6 DEF OpOK, PcFits
<1>9. PICK x \in Keys, v \in 1..MaxVersion : x = e[1] /\ v = e[2]
  BY <1>4
<1>10. /\ ents' \in [Keys -> 0..MaxVersion]
       /\ ents'[x] = v /\ \A k \in Keys \ {x} : ents'[k] = ents[k]
  BY <1>1, <1>3, <1>9, CacheAssumption DEF StateTypes
<1>11. \A k \in Keys : ~Covers(a, k) => ents'[k] = ents[k]
  BY <1>2, <1>4, <1>9, <1>10 DEF Covers
<1>12. Does(a)
  <2> SUFFICES ASSUME NEW k \in Keys, Covers(a, k), InOrder(k)
               PROVE  Serves(a, k)
    BY DEF Does
  <2>1. Answered(a, k) /\ Writing(a, k)
    BY DEF InOrder
  <2>2. Writing(a, k)' /\ Busy(a)'
    BY <1>2, <1>6, <1>7, <2>1 DEF Writing, Busy
  <2>3. CASE k = x
    <3>1. ents'[k] = src[k] /\ v = src[k]
      BY <1>2, <1>9, <1>10, <2>1, <2>3 DEF Answered
    <3>2. Answered(a, k)'
      BY <1>2, <1>6, <1>7, <2>1, <3>1 DEF Answered
    <3>3. src[k] # 0
      BY <1>9, <3>1, CacheAssumption
    <3>4. Consistent(k) => Consistent(k)'
      BY <1>2, <3>1, <3>3 DEF Consistent, Refers
    <3> QED
      BY <1>2, <2>2, <3>1, <3>2, <3>4 DEF Serves, Changing, Changes
  <2>4. CASE k # x
    <3>1. ents'[k] = ents[k]
      BY <1>10, <2>4
    <3>2. (\A d \in r.got : d[1] # k) => (\A d \in act[a].got : d[1] # k)
      BY <1>6, <1>9, <2>4
    <3>3. Answered(a, k)'
      BY <1>2, <1>6, <1>7, <2>1, <3>1, <3>2 DEF Answered
    <3>4. Consistent(k) => Consistent(k)'
      BY <1>2, <3>1 DEF Consistent, Refers
    <3> QED
      BY <1>2, <2>2, <3>1, <3>3, <3>4 DEF Serves, Changing, Changes
  <2> QED
    BY <2>3, <2>4
<1>13. LooksUp(a)
  BY <1>6, <1>7 DEF LooksUp
<1> QED
  BY <1>2, <1>6, <1>7, <1>8, <1>10, <1>11, <1>12, <1>13, ProgressInv

(* The hit is saved after its entities. *)
LEMMA SaveHitInv ==
  ASSUME CacheInv, NEW a \in Actors, SaveHit(a)
  PROVE  CacheInv'
<1>1. Types /\ StateTypes /\ act[a] \in Ops /\ OpOK(act[a])
  BY DEF CacheInv, Types, StateTypes
<1>2. /\ act[a].pc = "save" /\ Busy(a) /\ act[a].kind \in {"read", "refresh", "write"}
      /\ act[a].got = {} /\ End(a, {}, {})
      /\ UNCHANGED <<cache, src, ents, version>>
  BY <1>1 DEF SaveHit, OpOK, PcFits, Busy
<1>3. PICK g \in HitIDs, ids \in SUBSET Keys : g = act[a].h /\ ids = act[a].ids
  BY <1>1 DEF Ops
<1>4. hits' = [hits EXCEPT ![g] = ids] /\ ids \subseteq KeysOf(g)
  BY <1>1, <1>3 DEF SaveHit, OpOK
<1>5. /\ hits' \in [HitIDs -> {NoHit} \cup SUBSET Keys]
      /\ hits'[g] = ids /\ \A h \in HitIDs \ {g} : hits'[h] = hits[h]
  BY <1>1, <1>4 DEF StateTypes
<1>6. \A h \in HitIDs : hits'[h] = NoHit \/ hits'[h] \subseteq KeysOf(h)
  BY <1>1, <1>4, <1>5 DEF Types
<1>7. ents' \in [Keys -> 0..MaxVersion]
  BY <1>1, <1>2 DEF StateTypes
<1>8. LeavesRest(a)
  <2> SUFFICES ASSUME NEW k \in Keys, ~Covers(a, k)
               PROVE  Framed(k)
    BY DEF LeavesRest
  <2>1. k \notin KeysOf(g)
    BY <1>2, <1>3 DEF Covers
  <2>2. k # g /\ k \notin ids /\ k \in HitIDs
    BY <1>1, <1>4, <2>1, SetupFacts
  <2> QED
    BY <1>2, <1>5, <2>2 DEF Framed, Refers
<1>9. EndServes(a, {})
  <2> SUFFICES ASSUME NEW k \in Keys, Covers(a, k), InOrder(k)
               PROVE  /\ Changing(a) => Consistent(k)'
                      /\ ~Changing(a) /\ Consistent(k) => Consistent(k)'
    BY <1>2 DEF EndServes
  <2>1. Answered(a, k) /\ Writing(a, k)
    BY DEF InOrder
  <2>2. k \in ids <=> src[k] # 0
    BY <1>2, <1>3, <2>1 DEF Answered
  <2>3. k \in ids => ents[k] = src[k]
    BY <1>2, <1>3, <2>1 DEF Answered
  <2>4. k \in KeysOf(g) /\ k \in HitIDs
    BY <1>1, <1>3, SetupFacts DEF Covers
  <2>5. CASE Changing(a)
    <3>1. src[k] # 0 /\ ents[k] = src[k]
      BY <1>2, <2>1, <2>2, <2>3, <2>5 DEF Writing, Changing, Changes
    <3> QED
      BY <1>2, <2>5, <3>1 DEF Consistent
  <2>6. CASE ~Changing(a) /\ Consistent(k)
    <3>1. ents'[k] = 0 \/ ents'[k] = src'[k]
      BY <1>2, <2>6 DEF Consistent
    <3>2. hits'[k] = {} /\ ents'[k] = 0 => src'[k] = 0
      <4>1. CASE k = g
        BY <1>2, <1>5, <2>2, <4>1
      <4>2. CASE k # g
        BY <1>2, <1>5, <2>4, <2>6, <4>2 DEF Consistent
      <4> QED
        BY <4>1, <4>2
    <3>3. ASSUME NEW h \in HitIDs, Refers(h, k)'
          PROVE  ents'[k] # 0
      <4>1. CASE h = g
        BY <1>2, <1>5, <2>2, <2>3, <3>3, <4>1 DEF Refers
      <4>2. CASE h # g
        BY <1>2, <1>5, <2>6, <3>3, <4>2 DEF Refers, Consistent
      <4> QED
        BY <4>1, <4>2
    <3> QED
      BY <2>6, <3>1, <3>2, <3>3 DEF Consistent
  <2> QED
    BY <2>5, <2>6
<1>10. EndHeals(a, {})
  BY DEF EndHeals
<1> QED
  BY <1>2, <1>5, <1>6, <1>7, <1>8, <1>9, <1>10, EndInv

(* A write could not save its entity and tries something else. *)
LEMMA GotoInv ==
  ASSUME CacheInv, NEW a \in Actors, NEW pc, Goto(a, pc), act[a].kind = "write",
         act[a].h # All,
         \/ act[a].pc = "save" /\ pc = "invalidateID"
         \/ act[a].pc = "update" /\ pc = "query",
         UNCHANGED <<cache, src, ents, hits, version>>
  PROVE  CacheInv'
<1>1. Types /\ StateTypes /\ act[a] \in Ops /\ OpOK(act[a]) /\ Busy(a)
  BY DEF CacheInv, Types, StateTypes, Busy
<1>2. PICK r \in Ops : r = [act[a] EXCEPT !.pc = pc]
  BY <1>1 DEF Ops, Pcs
<1>3. /\ r.pc = pc /\ r.kind = act[a].kind /\ r.h = act[a].h /\ r.met = act[a].met
      /\ r.got = act[a].got /\ r.ids = act[a].ids /\ r.gone = act[a].gone
  BY <1>1, <1>2 DEF Ops
<1>4. OpOK(r)
  BY <1>1, <1>3 DEF OpOK, PcFits
<1>5. act' = [act EXCEPT ![a] = r] /\ raced' = raced
  BY <1>2 DEF Goto
<1>6. act'[a] = r
  BY <1>1, <1>5 DEF StateTypes
<1>7. Does(a)
  <2>1. ASSUME NEW k \in Keys, Covers(a, k), InOrder(k)
        PROVE  Serves(a, k)
    <3>1. Writing(a, k)
      BY <2>1 DEF InOrder
    <3>2. Answered(a, k)' /\ Writing(a, k)'
      BY <1>3, <1>6, <3>1 DEF Answered, Writing
    <3>3. Busy(a)' /\ Changing(a)
      BY <1>3, <1>6 DEF Busy, Changing, Changes
    <3> QED
      BY <3>2, <3>3 DEF Serves
  <2> QED
    BY <2>1 DEF Does
<1>8. LooksUp(a) /\ ents' \in [Keys -> 0..MaxVersion]
  BY <1>1, <1>3, <1>6 DEF LooksUp, StateTypes
<1> QED
  BY <1>1, <1>3, <1>4, <1>5, <1>7, <1>8, ProgressInv

LEMMA SaveFailsInv ==
  ASSUME CacheInv, NEW a \in Actors, SaveFails(a)
  PROVE  CacheInv'
<1>1. Types /\ StateTypes /\ act[a] \in Ops /\ OpOK(act[a])
  BY DEF CacheInv, Types, StateTypes
<1>2. act[a].pc = "save" /\ Busy(a) /\ UNCHANGED <<cache, src, ents, hits, version>>
  BY DEF SaveFails, Busy
<1>3. CASE act[a].kind = "write"
  <2>1. act[a].h # All
    BY <1>1, <1>2, <1>3 DEF OpOK, PcFits
  <2>2. Goto(a, "invalidateID")
    BY <1>3 DEF SaveFails
  <2> QED
    BY <1>2, <1>3, <2>1, <2>2, GotoInv
<1>4. CASE act[a].kind # "write"
  <2>1. End(a, {}, {})
    BY <1>4 DEF SaveFails
  <2>2. /\ hits' \in [HitIDs -> {NoHit} \cup SUBSET Keys]
        /\ \A x \in HitIDs : hits'[x] = hits[x] \/ hits'[x] = NoHit
    BY <1>1, <1>2 DEF StateTypes
  <2> QED
    BY <1>2, <1>4, <2>1, <2>2, PlainEnd
<1> QED
  BY <1>3, <1>4

(* A write ends with an entity in the cache, which is the one the source   *)
(* has, unless the key was raced or another operation met.                 *)
LEMMA SavedInv ==
  ASSUME CacheInv, NEW c \in Actors, act[c].pc \in {"create", "update"},
         NEW e \in act[c].got,
         ents' = [ents EXCEPT ![e[1]] =
                     IF @ = 0 \/ act[c].pc = "update" THEN e[2] ELSE @],
         End(c, {}, {}), UNCHANGED <<cache, src, hits, version>>
  PROVE  CacheInv'
<1>1. Types /\ StateTypes /\ act[c] \in Ops /\ OpOK(act[c]) /\ Busy(c)
  BY DEF CacheInv, Types, StateTypes, Busy
<1>2. act[c].kind = "write" /\ Changing(c)
  BY <1>1 DEF OpOK, PcFits, Changing, Changes
<1>3. e[1] \in Keys /\ e[2] \in 1..MaxVersion /\ e[1] \in KeysOf(act[c].h)
  <2>1. act[c].got \subseteq Keys \X (1..MaxVersion)
    BY <1>1 DEF Ops
  <2>2. e \in Keys \X (1..MaxVersion)
    BY <2>1
  <2> QED
    BY <1>1, <2>2 DEF OpOK
<1>4. PICK x \in Keys, v \in 1..MaxVersion : x = e[1] /\ v = e[2]
  BY <1>3
<1>5. /\ ents' \in [Keys -> 0..MaxVersion]
      /\ ents'[x] = IF ents[x] = 0 \/ act[c].pc = "update" THEN v ELSE ents[x]
      /\ \A k \in Keys \ {x} : ents'[k] = ents[k]
  BY <1>1, <1>4, CacheAssumption DEF StateTypes
<1>6. LeavesRest(c)
  <2>1. Covers(c, x)
    BY <1>1, <1>3, <1>4 DEF Covers
  <2> QED
    BY <1>5, <2>1 DEF LeavesRest, Framed, Refers
<1>7. EndServes(c, {})
  <2>1. ASSUME NEW k \in Keys, Covers(c, k), InOrder(k)
        PROVE  Consistent(k)'
    <3>1. Writing(c, k)
      BY <2>1 DEF InOrder
    <3>2. src[k] # 0 /\ act[c].got = {<<k, src[k]>>} /\ (act[c].pc = "create" => ents[k] = 0)
      BY <1>2, <3>1 DEF Writing
    <3>3. x = k /\ v = src[k]
      BY <1>4, <3>2
    <3>4. ents'[k] = src[k]
      BY <1>5, <3>2, <3>3
    <3> QED
      BY <3>2, <3>4 DEF Consistent
  <2> QED
    BY <1>2, <2>1 DEF EndServes
<1>8. EndHeals(c, {})
  BY DEF EndHeals
<1>9. /\ hits' \in [HitIDs -> {NoHit} \cup SUBSET Keys]
      /\ \A h \in HitIDs : hits'[h] = NoHit \/ hits'[h] \subseteq KeysOf(h)
  BY <1>1 DEF Types, StateTypes
<1> QED
  BY <1>1, <1>5, <1>6, <1>7, <1>8, <1>9, EndInv

(* A write whose change could not be made to the cache leaves it stale. *)
LEMMA StaleInv ==
  ASSUME CacheInv, NEW c \in Actors, act[c].pc \in {"create", "update"},
         End(c, {act[c].h}, {}), UNCHANGED <<cache, src, ents, hits, version>>
  PROVE  CacheInv'
<1>1. Types /\ StateTypes /\ act[c] \in Ops /\ OpOK(act[c]) /\ Busy(c)
  BY DEF CacheInv, Types, StateTypes, Busy
<1>2. act[c].h \in cache.keys /\ act[c].h # All
  BY <1>1 DEF OpOK, PcFits
<1>3. {act[c].h} \subseteq Keys /\ KeysOf(act[c].h) = {act[c].h}
  BY <1>1, <1>2, SetupFacts
<1>4. /\ hits' \in [HitIDs -> {NoHit} \cup SUBSET Keys]
      /\ \A x \in HitIDs : hits'[x] = hits[x] \/ hits'[x] = NoHit
  BY <1>1 DEF StateTypes
<1> QED
  BY <1>1, <1>3, <1>4, PlainEnd

LEMMA CreateCachedInv ==
  ASSUME CacheInv, NEW c \in Actors, CreateCached(c)
  PROVE  CacheInv'
<1>1. act[c].pc = "create" /\ UNCHANGED <<cache, src, hits, version>>
  BY DEF CreateCached
<1>2. CASE /\ \E e \in act[c].got :
                 ents' = [ents EXCEPT ![e[1]] = IF @ = 0 THEN e[2] ELSE @]
           /\ End(c, {}, {})
  <2>1. PICK e \in act[c].got : ents' = [ents EXCEPT ![e[1]] = IF @ = 0 THEN e[2] ELSE @]
    BY <1>2
  <2>2. ents' = [ents EXCEPT ![e[1]] = IF @ = 0 \/ act[c].pc = "update" THEN e[2] ELSE @]
    BY <1>1, <2>1
  <2> QED
    BY <1>1, <1>2, <2>2, SavedInv
<1>3. CASE End(c, {act[c].h}, {}) /\ UNCHANGED ents
  BY <1>1, <1>3, StaleInv
<1> QED
  BY <1>2, <1>3 DEF CreateCached

LEMMA UpdateCachedInv ==
  ASSUME CacheInv, NEW c \in Actors, UpdateCached(c)
  PROVE  CacheInv'
<1>1. act[c].pc = "update" /\ UNCHANGED <<cache, src, hits, version>>
  BY DEF UpdateCached
<1>2. CASE (\E e \in act[c].got : ents' = [ents EXCEPT ![e[1]] = e[2]]) /\ End(c, {}, {})
  <2>1. PICK e \in act[c].got : ents' = [ents EXCEPT ![e[1]] = e[2]]
    BY <1>2
  <2>2. ents' = [ents EXCEPT ![e[1]] = IF @ = 0 \/ act[c].pc = "update" THEN e[2] ELSE @]
    BY <1>1, <2>1
  <2> QED
    BY <1>1, <1>2, <2>2, SavedInv
<1>3. CASE Goto(c, "query") /\ UNCHANGED ents
  <2>1. OpOK(act[c])
    BY DEF CacheInv, Types
  <2>2. act[c].kind = "write" /\ act[c].h # All
    BY <1>1, <2>1 DEF OpOK, PcFits
  <2> QED
    BY <1>1, <1>3, <2>2, GotoInv
<1>4. CASE End(c, {act[c].h}, {}) /\ UNCHANGED ents
  BY <1>1, <1>4, StaleInv
<1> QED
  BY <1>2, <1>3, <1>4 DEF UpdateCached

(* What is to go is looked up: all about the ids. *)
LEMMA InvalidateInv ==
  ASSUME CacheInv, NEW a \in Actors, Invalidate(a)
  PROVE  CacheInv'
<1>1. Types /\ StateTypes /\ act[a] \in Ops /\ OpOK(act[a])
  BY DEF CacheInv, Types, StateTypes
<1>2. /\ act[a].pc \in {"invalidateID", "invalidateHit"} /\ Busy(a) /\ Changing(a)
      /\ UNCHANGED <<cache, src, ents, hits, version, raced>>
  BY <1>1 DEF Invalidate, OpOK, PcFits, Busy, Changing, Changes
<1>3. PICK h \in HitIDs : h = act[a].h
  BY <1>1 DEF Ops
<1>4. PICK ids : ids = IF act[a].pc = "invalidateID" THEN {h}
                       ELSE IF hits[h] = NoHit THEN {} ELSE hits[h]
  OBVIOUS
<1>5. ids \subseteq Keys /\ ids \subseteq KeysOf(h)
  <2>1. CASE act[a].pc = "invalidateID"
    <3>1. h \in cache.keys
      BY <1>1, <1>3, <2>1 DEF OpOK, PcFits
    <3> QED
      BY <1>1, <1>4, <2>1, <3>1, SetupFacts
  <2>2. CASE act[a].pc # "invalidateID"
    BY <1>1, <1>4, <2>2, SetupFacts DEF Types
  <2> QED
    BY <2>1, <2>2
<1>6. act[a].kind = "write" => ids = KeysOf(h)
  <2>1. SUFFICES ASSUME act[a].kind = "write"
                 PROVE  ids = KeysOf(h)
    OBVIOUS
  <2>2. act[a].pc = "invalidateID" /\ h \in cache.keys
    BY <1>1, <1>2, <1>3, <2>1 DEF OpOK, PcFits
  <2> QED
    BY <1>1, <1>4, <2>2, SetupFacts
<1>7. PICK got : got = Cached(ids)
  OBVIOUS
<1>8. /\ got \subseteq Keys \X (1..MaxVersion)
      /\ \A e \in got : e[1] \in ids
      /\ \A k \in ids : ents[k] # 0 => \E e \in got : e[1] = k
  <2>1. ASSUME NEW k \in ids, ents[k] # 0
        PROVE  <<k, ents[k]>> \in Keys \X (1..MaxVersion) /\ <<k, ents[k]>> \in got
    <3>1. k \in Keys /\ ents[k] \in 0..MaxVersion
      BY <1>1, <1>5 DEF StateTypes
    <3>2. ents[k] \in 1..MaxVersion
      BY <2>1, <3>1, CacheAssumption
    <3> QED
      BY <1>7, <2>1, <3>1, <3>2 DEF Cached
  <2>2. ASSUME NEW e \in got
        PROVE  \E k \in ids : ents[k] # 0 /\ e = <<k, ents[k]>>
    BY <1>7 DEF Cached
  <2>3. got \subseteq Keys \X (1..MaxVersion)
    BY <2>1, <2>2
  <2>4. \A e \in got : e[1] \in ids
    BY <2>2
  <2>5. ASSUME NEW k \in ids, ents[k] # 0
        PROVE  \E e \in got : e[1] = k
    <3>1. <<k, ents[k]>> \in got /\ <<k, ents[k]>>[1] = k
      BY <2>1, <2>5
    <3> QED
      BY <3>1
  <2> QED
    BY <2>3, <2>4, <2>5
<1>9. PICK gone : gone = Held({h} \cup ids \cup Referencing(ids))
  OBVIOUS
<1>10. gone \subseteq HitIDs
  <2>1. Referencing(ids) \subseteq HitIDs /\ ids \subseteq HitIDs
    BY <1>5 DEF Referencing, Held, HitIDs
  <2> QED
    BY <1>9, <2>1 DEF Held
<1>11. PICK r \in Ops : r = [act[a] EXCEPT !.pc = "commit", !.ids = ids, !.got = got,
                                           !.gone = gone]
  BY <1>1, <1>5, <1>8, <1>10 DEF Ops, Pcs
<1>12. /\ r.pc = "commit" /\ r.kind = act[a].kind /\ r.h = h /\ r.met = act[a].met
       /\ r.ids = ids /\ r.got = got /\ r.gone = gone
  BY <1>1, <1>3, <1>11 DEF Ops
<1>13. act' = [act EXCEPT ![a] = r]
  BY <1>3, <1>4, <1>7, <1>9, <1>11 DEF Invalidate
<1>14. act'[a] = r
  BY <1>1, <1>13 DEF StateTypes
<1>15. OpOK(r)
  <2>1. PcFits(r)
    BY <1>1, <1>2, <1>3, <1>12 DEF OpOK, PcFits
  <2> QED
    BY <1>1, <1>3, <1>5, <1>6, <1>8, <1>12, <2>1 DEF OpOK
<1>16. Does(a)
  <2>1. ASSUME NEW k \in Keys, Covers(a, k), Quiet(k), InOrder(k)
        PROVE  Serves(a, k)
    <3>1. Answered(a, k)' /\ Writing(a, k)'
      BY <1>12, <1>14 DEF Answered, Writing
    <3>2. \A x \in Actors \ {a} : ~Covers(x, k)
      BY <1>2, <2>1, Alone
    <3>3. act[a].kind = "invalidate" => Consistent(k)
      BY <2>1, <3>2 DEF InOrder
    <3>4. Consistent(k) => Consistent(k)'
      BY <1>2 DEF Consistent, Refers
    <3>5. Busy(a)'
      BY <1>12, <1>14 DEF Busy
    <3> QED
      BY <1>2, <3>1, <3>3, <3>4, <3>5 DEF Serves
  <2> QED
    BY <2>1 DEF Does
<1>17. LooksUp(a)
  <2>1. ASSUME NEW k \in ids
        PROVE  TakesAll(a, k)'
    <3>1. ents[k] # 0 => \E e \in got : e[1] = k
      BY <1>8
    <3>2. hits[k] # NoHit => k \in gone
      BY <1>9 DEF Held
    <3>3. ASSUME NEW g \in HitIDs, Refers(g, k)
          PROVE  g \in gone
      <4>1. g \in Referencing(ids)
        BY <3>3 DEF Refers, Referencing, Held
      <4> QED
        BY <1>9, <3>3, <4>1 DEF Held, Refers
    <3> QED
      BY <1>2, <1>12, <1>14, <3>1, <3>2, <3>3 DEF TakesAll, Refers
  <2> QED
    BY <1>12, <1>14, <2>1 DEF LooksUp
<1>18. ents' \in [Keys -> 0..MaxVersion]
  BY <1>1, <1>2 DEF StateTypes
<1> QED
  BY <1>2, <1>3, <1>12, <1>13, <1>15, <1>16, <1>17, <1>18, ProgressInv

(* The transaction of an invalidation commits, or fails. *)
LEMMA CommitInv ==
  ASSUME CacheInv, NEW a \in Actors, Commit(a)
  PROVE  CacheInv'
<1>1. Types /\ StateTypes /\ act[a] \in Ops /\ OpOK(act[a])
  BY DEF CacheInv, Types, StateTypes
<1>2. /\ act[a].pc = "commit" /\ Busy(a) /\ Changing(a)
      /\ UNCHANGED <<cache, src, version>>
  BY <1>1 DEF Commit, OpOK, PcFits, Busy, Changing, Changes
<1>3. CASE /\ ents' = [k \in Keys |-> IF \E e \in act[a].got : e[1] = k THEN 0 ELSE ents[k]]
           /\ hits' = [h \in HitIDs |-> IF h \in act[a].gone THEN NoHit ELSE hits[h]]
           /\ End(a, {}, act[a].ids)
  <2>1. /\ ents' \in [Keys -> 0..MaxVersion]
        /\ hits' \in [HitIDs -> {NoHit} \cup SUBSET Keys]
    BY <1>1, <1>3, CacheAssumption DEF StateTypes
  <2>2. \A h \in HitIDs : hits'[h] = NoHit \/ (hits'[h] = hits[h] /\ h \notin act[a].gone)
    BY <1>3
  <2>3. \A h \in HitIDs : hits'[h] = NoHit \/ hits'[h] \subseteq KeysOf(h)
    BY <1>1, <2>2 DEF Types
  <2>4. \A k \in Keys : ents'[k] = 0 \/ (ents'[k] = ents[k] /\ \A e \in act[a].got : e[1] # k)
    BY <1>3
  <2>5. \A k \in Keys \ act[a].ids : Framed(k)
    <3>1. ASSUME NEW k \in Keys \ act[a].ids
          PROVE  Framed(k)
      <4>1. \A e \in act[a].got : e[1] # k
        BY <1>1, <1>2 DEF OpOK
      <4>2. ents'[k] = ents[k]
        BY <1>3, <4>1
      <4>3. k \in HitIDs
        BY DEF HitIDs
      <4> QED
        BY <1>2, <2>2, <4>2, <4>3 DEF Framed, Refers
    <3> QED
      BY <3>1
  <2>6. LeavesRest(a)
    BY <1>1, <1>2, <2>5 DEF LeavesRest, OpOK, Covers
  <2>7. ASSUME NEW k \in act[a].ids \ act[a].met
        PROVE  k \in Keys /\ Consistent(k)'
    <3>1. TakesAll(a, k)
      BY <1>2 DEF CacheInv, Invalidations
    <3>2. k \in Keys /\ k \in HitIDs
      BY <1>1 DEF Ops, HitIDs
    <3>3. ents'[k] = 0
      BY <1>3, <2>4, <3>1, <3>2 DEF TakesAll
    <3>4. hits'[k] = NoHit
      BY <2>2, <3>1, <3>2 DEF TakesAll
    <3>5. \A h \in HitIDs : ~Refers(h, k)'
      BY <2>2, <3>1 DEF TakesAll, Refers
    <3> QED
      BY <3>2, <3>3, <3>4, <3>5, NoHitFact DEF Consistent
  <2>8. EndServes(a, {})
    <3>1. ASSUME NEW k \in Keys, Covers(a, k), Quiet(k), InOrder(k)
          PROVE  Consistent(k)'
      <4>1. CASE k \in act[a].ids
        BY <2>7, <3>1, <4>1 DEF Quiet
      <4>2. CASE k \notin act[a].ids
        <5>1. act[a].kind # "write"
          BY <1>1, <1>2, <3>1, <4>2 DEF OpOK, Covers
        <5>2. \A x \in Actors \ {a} : ~Covers(x, k)
          BY <1>2, <3>1, Alone
        <5>3. Consistent(k)
          BY <3>1, <5>1, <5>2 DEF InOrder
        <5> QED
          BY <2>5, <4>2, <5>3, FramedConsistent
      <4> QED
        BY <4>1, <4>2
    <3> QED
      BY <1>2, <3>1 DEF EndServes
  <2>9. EndHeals(a, act[a].ids)
    BY <1>1, <1>2, <2>7 DEF EndHeals, OpOK, Covers
  <2> QED
    BY <1>2, <1>3, <2>1, <2>3, <2>6, <2>8, <2>9, EndInv
<1>4. CASE /\ End(a, IF act[a].kind = "write" THEN KeysOf(act[a].h) ELSE {}, {})
           /\ UNCHANGED <<ents, hits>>
  <2>1. PICK stale : stale = IF act[a].kind = "write" THEN KeysOf(act[a].h) ELSE {}
    OBVIOUS
  <2>2. stale \subseteq Keys /\ End(a, stale, {})
    BY <1>1, <1>4, <2>1, SetupFacts DEF Ops
  <2>3. /\ hits' \in [HitIDs -> {NoHit} \cup SUBSET Keys]
        /\ \A x \in HitIDs : hits'[x] = hits[x] \/ hits'[x] = NoHit
    BY <1>1, <1>4 DEF StateTypes
  <2> QED
    BY <1>2, <1>4, <2>1, <2>2, <2>3, PlainEnd
<1> QED
  BY <1>3, <1>4 DEF Commit

(* Everything is dropped, or nothing. *)
LEMMA DropInv ==
  ASSUME CacheInv, NEW a \in Actors, Drop(a)
  PROVE  CacheInv'
<1>1. Types /\ StateTypes /\ act[a] \in Ops /\ OpOK(act[a])
  BY DEF CacheInv, Types, StateTypes
<1>2. /\ act[a].pc = "drop" /\ Busy(a) /\ Changing(a) /\ act[a].h = All
      /\ UNCHANGED <<cache, src, version>>
  BY <1>1 DEF Drop, OpOK, PcFits, Busy, Changing, Changes
<1>3. /\ cache.keys \subseteq Keys /\ KeysOf(act[a].h) = cache.keys
      /\ \A k \in Keys : k \in HitIDs
  BY <1>1, <1>2, SetupFacts
<1>4. CASE /\ ents' = [k \in Keys |-> 0] /\ hits' = [h \in HitIDs |-> NoHit]
           /\ End(a, {}, cache.keys)
  <2>1. /\ ents' \in [Keys -> 0..MaxVersion]
        /\ hits' \in [HitIDs -> {NoHit} \cup SUBSET Keys]
        /\ \A h \in HitIDs : hits'[h] = NoHit
        /\ \A k \in Keys : ents'[k] = 0
    BY <1>4, CacheAssumption
  <2>2. ASSUME NEW k \in Keys
        PROVE  Consistent(k)'
    BY <1>3, <2>1, NoHitFact DEF Consistent, Refers
  <2>3. LeavesRest(a)
    <3>1. ASSUME NEW k \in Keys \ cache.keys
          PROVE  Framed(k)
      <4>1. ents[k] = 0
        BY <1>1 DEF Types
      <4> QED
        BY <1>2, <1>3, <2>1, <4>1 DEF Framed, Refers
    <3> QED
      BY <1>2, <1>3, <3>1 DEF LeavesRest, Covers
  <2>4. EndServes(a, {})
    BY <1>2, <2>2 DEF EndServes
  <2>5. EndHeals(a, cache.keys)
    BY <1>2, <1>3, <2>2 DEF EndHeals, Covers
  <2> QED
    BY <1>2, <1>4, <2>1, <2>3, <2>4, <2>5, EndInv
<1>5. CASE /\ End(a, IF act[a].kind = "write" THEN cache.keys ELSE {}, {})
           /\ UNCHANGED <<ents, hits>>
  <2>1. PICK stale : stale = IF act[a].kind = "write" THEN cache.keys ELSE {}
    OBVIOUS
  <2>2. stale \subseteq Keys /\ End(a, stale, {})
    BY <1>3, <1>5, <2>1
  <2>3. /\ hits' \in [HitIDs -> {NoHit} \cup SUBSET Keys]
        /\ \A x \in HitIDs : hits'[x] = hits[x] \/ hits'[x] = NoHit
    BY <1>1, <1>5 DEF StateTypes
  <2> QED
    BY <1>2, <1>3, <1>5, <2>1, <2>2, <2>3, PlainEnd
<1> QED
  BY <1>4, <1>5 DEF Drop

----------------------------------------------------------------------------
LEMMA NextCacheInv == CacheInv /\ [Next]_vars => CacheInv'
<1> SUFFICES ASSUME CacheInv, [Next]_vars
             PROVE  CacheInv'
  OBVIOUS
<1>1. ASSUME NEW c \in cache.clients, NEW k \in cache.keys,
             \/ FindByIDFast(c, k) \/ FindByID(c, k)
             \/ Create(c, k) \/ Update(c, k) \/ Save(c, k)
             \/ DeleteByID(c, k) \/ InvalidateByID(c, k)
      PROVE  CacheInv'
  <2>1. CASE FindByIDFast(c, k)
    BY <2>1, FindByIDFastInv
  <2>2. CASE FindByID(c, k) \/ InvalidateByID(c, k)
    BY <2>2, BeginInv
  <2>3. CASE Create(c, k) \/ Update(c, k) \/ Save(c, k)
    BY <2>3, WriteInv DEF Create, Update, Save
  <2>4. CASE DeleteByID(c, k)
    BY <2>4, DeleteInv
  <2> QED
    BY <1>1, <2>1, <2>2, <2>3, <2>4
<1>2. ASSUME NEW c \in cache.clients,
             \/ \E h \in cache.keys \cup {All} : Refresh(c, h) \/ InvalidateCachedQuery(c, h)
             \/ FindAll(c) \/ DeleteAll(c) \/ DropCachedValues(c)
      PROVE  CacheInv'
  BY <1>2, BeginInv, DeleteInv
<1>3. ASSUME NEW a \in Actors, Step(a)
      PROVE  CacheInv'
  BY <1>3, CachedQueryManyInv, FindByIDsInv, QueryInv, SaveEntityInv, SaveHitInv,
     SaveFailsInv, CreateCachedInv, UpdateCachedInv, InvalidateInv, CommitInv, DropInv
     DEF Step
<1>4. ASSUME NEW k \in cache.keys, Outside(k)
      PROVE  CacheInv'
  BY <1>4, OutsideInv
<1>5. CASE UNCHANGED vars
  BY <1>5, StutterInv DEF vars
<1> QED
  BY <1>1, <1>2, <1>3, <1>4, <1>5 DEF Next

LEMMA AlwaysCacheInv == Spec => []CacheInv
<1> QED
  BY InitCacheInv, NextCacheInv, PTL DEF Spec

LEMMA SettledConsistent ==
  ASSUME CacheInv, NEW k \in Keys, Settled(k)
  PROVE  Consistent(k)
<1>1. \A a \in Actors : ~Covers(a, k)
  BY DEF Settled, Covers
<1>2. CASE \A a \in Actors : k \notin act[a].met
  <2>1. Quiet(k)
    BY <1>2 DEF Settled, Quiet
  <2>2. InOrder(k)
    BY <2>1 DEF CacheInv
  <2> QED
    BY <1>1, <2>2 DEF InOrder
<1>3. CASE \E a \in Actors : k \in act[a].met
  <2>1. PICK a \in Actors : k \in act[a].met
    BY <1>3
  <2>2. OpOK(act[a]) /\ Busy(a)
    BY <2>1 DEF CacheInv, Types, OpOK, PcFits, Busy
  <2> QED
    BY <1>1, <2>1, <2>2 DEF OpOK, Covers
<1> QED
  BY <1>2, <1>3

(* FindByID answers what the source has, for any number of ids, clients,   *)
(* changes and failures, as long as nobody is busy with the key and no     *)
(* race or fault was left behind; and an invalidation that met nobody sets *)
(* a key right again (CachedQueryMany, shouldUpdateRefreshByPtr,           *)
(* InvalidateByID).                                                        *)
THEOREM CacheAnswersAsSource == Spec => []FindByIDFresh
<1>1. ASSUME CacheInv, NEW k \in Keys, Settled(k)
      PROVE  Lookup(k) = src[k]
  <2>1. Consistent(k)
    BY <1>1, SettledConsistent
  <2> QED
    BY <2>1 DEF Consistent, Lookup
<1>2. CacheInv => FindByIDFresh
  BY <1>1 DEF FindByIDFresh
<1> QED
  BY <1>2, AlwaysCacheInv, PTL

(* A cached query refers to entities of its own that are cached: cacheQuery *)
(* saves the hit after the entities, and an invalidation takes every hit    *)
(* of an entity with it.  Every variable has its type.                      *)
THEOREM HitsStayBacked == Spec => []HitsBacked
<1>1. ASSUME CacheInv, NEW k \in Keys, Settled(k), NEW h \in HitIDs,
             hits[h] # NoHit /\ k \in hits[h]
      PROVE  ents[k] # 0
  <2>1. Consistent(k)
    BY <1>1, SettledConsistent
  <2> QED
    BY <1>1, <2>1 DEF Consistent, Refers
<1>2. CacheInv => TypeOK
  BY DEF CacheInv, Types, StateTypes, TypeOK
<1>3. CacheInv => HitsBacked
  BY <1>1, <1>2 DEF HitsBacked
<1> QED
  BY <1>3, AlwaysCacheInv, PTL
=============================================================================
