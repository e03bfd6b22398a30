------------------------------- MODULE Cache --------------------------------
(***************************************************************************)
(* cache.Cache (pkg/cache): read and write-through caching.  The cache     *)
(* keeps entities, and hits: the ids a query has found.  Nothing is locked *)
(* and a change of the source and of the cache are two steps, so that      *)
(* reads that fill the cache, writes, invalidations and the refreshes in   *)
(* the background (RefreshBehind) get in each other's way.                 *)
(*                                                                         *)
(* An entity is its version, 0 if there is none.  The queries are the ones *)
(* by id and FindAll; a query is answered by the source at once.  A read   *)
(* that only asks the source, because the cache is broken, changes nothing *)
(* and is left out.  Invalidators are left out.                            *)
(***************************************************************************)
EXTENDS Naturals, FiniteSets

CONSTANTS Keys, All,        \* ids, which also stand for the hits by id; FindAll's hit
          Clients, NoHit,
          Setups,           \* caches: RefreshBehind, the clients and ids in use, and the
                            \* failures of the cache's repository or cancelled contexts
          MaxVersion        \* writes to the source

ASSUME CacheAssumption == /\ All \notin Keys
                          /\ \A ids \in SUBSET Keys : ids # NoHit
                          /\ Clients \cap (Keys \cup {All}) = {}
                          /\ Setups \subseteq [RefreshBehind : BOOLEAN,
                                           clients : SUBSET Clients, keys : SUBSET Keys,
                                           MaxFaults : Nat]
                          /\ MaxVersion \in Nat

VARIABLES cache,     \* the setup, which does not change
          src,       \* Source
          ents,      \* Repository.Entities
          hits,      \* Repository.Hits
          act,       \* what clients, and the job of each hit, are doing
          version, faults,
          raced      \* history: keys that may be stale after a race or a fault

vars == <<cache, src, ents, hits, act, version, faults, raced>>

HitIDs == Keys \cup {All}
Actors == Clients \cup HitIDs    \* doRefreshBehind: one job at most for a hit
KeysOf(h) == IF h = All THEN cache.keys ELSE {h}

(* got: entities to be saved, or deleted; ids, gone: ids and hits found by *)
(* a step for the next one; met: keys another operation was about at the same time,   *)
(* where one of the two changes or invalidates something.                  *)
Idle == [pc |-> "idle", kind |-> "none", h |-> All, got |-> {}, ids |-> {}, gone |-> {},
         met |-> {}]
Busy(a) == act[a].pc # "idle"

----------------------------------------------------------------------------
Init == /\ cache \in Setups
        /\ src = [k \in Keys |-> 0]
        /\ ents = [k \in Keys |-> 0]
        /\ hits = [h \in HitIDs |-> NoHit]
        /\ act = [a \in Actors |-> Idle]
        /\ version = 0
        /\ faults = 0
        /\ raced = {}

Fault == faults < cache.MaxFaults /\ faults' = faults + 1

(* An operation of a kind begins; it and the others note that they meet. *)
Changes == {"write", "invalidate"}
Begun(acts, b, op) ==
    LET overlap(a) == IF /\ a # b /\ acts[a].pc # "idle"
                         /\ {op.kind, acts[a].kind} \cap Changes # {}
                      THEN KeysOf(acts[a].h) \cap KeysOf(op.h) ELSE {}
    IN  [a \in Actors |->
            IF a = b THEN [op EXCEPT !.met = UNION {overlap(x) : x \in Actors}]
                     ELSE [acts[a] EXCEPT !.met = @ \cup overlap(a)]]
Begin(a, op) == /\ ~Busy(a)
                /\ act' = Begun(act, a, op)
Op(kind, h, pc) == [Idle EXCEPT !.kind = kind, !.h = h, !.pc = pc]

(* An operation ends: keys it may have left stale, and keys it has set right. *)
End(a, stale, healed) ==
    /\ act' = [act EXCEPT ![a] = Idle]
    /\ raced' = (raced \ healed) \cup act[a].met \cup stale
Goto(a, pc) == act' = [act EXCEPT ![a].pc = pc] /\ UNCHANGED raced

(* A bug: nothing is refreshed. *)
doRefreshBehindNot(h, acts) == acts

(* doRefreshBehind: a job in the background, unless one has the lock of    *)
(* the hit (tasker.WithNoOverlap).                                         *)
doRefreshBehind(h, acts) ==
    IF cache.RefreshBehind /\ acts[h].pc = "idle"
    THEN Begun(acts, h, Op("refresh", h, "query"))
    ELSE acts

----------------------------------------------------------------------------
(* FindByID: the fast path, an entity that is cached. *)
FindByIDFast(c, k) == /\ ~Busy(c)
                      /\ ents[k] # 0
                      /\ act' = doRefreshBehind(k, act)
                      /\ UNCHANGED <<cache, src, ents, hits, version, faults, raced>>

(* FindByID: the slow path; FindAll; both are CachedQueryMany. *)
FindByID(c, k) == /\ ents[k] = 0
                  /\ Begin(c, Op("read", k, "hit"))
                  /\ UNCHANGED <<cache, src, ents, hits, version, faults, raced>>
FindAll(c) == /\ Begin(c, Op("read", All, "hit"))
              /\ UNCHANGED <<cache, src, ents, hits, version, faults, raced>>

(* CachedQueryMany: the hit is looked up.  Nothing found is an answer too. *)
CachedQueryMany(c) ==
    LET h == act[c].h
    IN  /\ act[c].pc = "hit"
        /\ IF hits[h] = NoHit THEN Goto(c, "query")
           ELSE IF hits[h] = {} THEN End(c, {}, {})
           ELSE /\ act' = doRefreshBehind(h, [act EXCEPT ![c].pc = "ids",
                                                         ![c].ids = hits[h]])
                /\ UNCHANGED raced
        /\ UNCHANGED <<cache, src, ents, hits, version, faults>>

(* CachedQueryMany: the entities of the hit, all of them read; the hit is  *)
(* deleted if one is missing.                                              *)
FindByIDs(c) ==
    /\ act[c].pc = "ids"
    /\ hits' = IF \E k \in act[c].ids : ents[k] = 0
               THEN [hits EXCEPT ![act[c].h] = NoHit] ELSE hits
    /\ End(c, {}, {})
    /\ UNCHANGED <<cache, src, ents, version, faults>>

(* Refresh, RefreshByID, RefreshQueryMany, RefreshQueryOne. *)
Refresh(c, h) == /\ Begin(c, Op("refresh", h, "query"))
                 /\ UNCHANGED <<cache, src, ents, hits, version, faults, raced>>

(* cacheQuery: the source answers, *)
Query(a) ==
    LET found == {k \in KeysOf(act[a].h) : src[k] # 0}
    IN  /\ act[a].pc = "query"
        /\ act' = [act EXCEPT ![a].pc = "save", ![a].ids = found,
                              ![a].got = {<<k, src[k]>> : k \in found}]
        /\ UNCHANGED <<cache, src, ents, hits, version, faults, raced>>

(* its entities are saved one by one, *)
SaveEntity(a) ==
    /\ act[a].pc = "save"
    /\ \E e \in act[a].got : /\ ents' = [ents EXCEPT ![e[1]] = e[2]]
                             /\ act' = [act EXCEPT ![a].got = @ \ {e}]
    /\ UNCHANGED <<cache, src, hits, version, faults, raced>>

(* and then the hit. *)
SaveHit(a) ==
    /\ act[a].pc = "save"
    /\ act[a].got = {}
    /\ hits' = [hits EXCEPT ![act[a].h] = act[a].ids]
    /\ End(a, {}, {})
    /\ UNCHANGED <<cache, src, ents, version, faults>>

(* A Save fails: the caller asks the source, or reports the error; a write *)
(* goes on to InvalidateByID (shouldUpdateRefreshByPtr).                   *)
SaveFails(a) ==
    /\ act[a].pc = "save"
    /\ Fault
    /\ IF act[a].kind = "write" THEN Goto(a, "invalidateID") ELSE End(a, {}, {})
    /\ UNCHANGED <<cache, src, ents, hits, version>>

----------------------------------------------------------------------------
(* Create, Update, Save: the source first. *)
Write(c, k, pc) ==
    LET v == version + 1
    IN  /\ version < MaxVersion
        /\ version' = v
        /\ src' = [src EXCEPT ![k] = v]
        /\ Begin(c, [Op("write", k, pc) EXCEPT !.got = {<<k, v>>}])
        /\ UNCHANGED <<cache, ents, hits, faults, raced>>
Create(c, k) == src[k] = 0 /\ Write(c, k, "create")
Update(c, k) == src[k] # 0 /\ Write(c, k, "update")
Save(c, k) == Write(c, k, "update")

(* Create, in the cache: an entity that is there stays; an error is logged. *)
CreateCached(c) ==
    /\ act[c].pc = "create"
    /\ \/ /\ \E e \in act[c].got :
                ents' = [ents EXCEPT ![e[1]] = IF @ = 0 THEN e[2] ELSE @]
          /\ End(c, {}, {})
          /\ UNCHANGED faults
       \/ Fault /\ End(c, {act[c].h}, {}) /\ UNCHANGED ents
    /\ UNCHANGED <<cache, src, hits, version>>

(* A bug: an updated entity is only refreshed when it is asked for. *)
UpdateCachedNot(c) == /\ act[c].pc = "update"
                      /\ End(c, {}, {})
                      /\ UNCHANGED <<cache, src, ents, hits, version, faults>>

(* shouldUpdateRefreshByPtr: the entity is saved.  If that fails it is     *)
(* refreshed; if the context is cancelled by then, nothing is done.        *)
UpdateCached(c) ==
    /\ act[c].pc = "update"
    /\ \/ /\ \E e \in act[c].got : ents' = [ents EXCEPT ![e[1]] = e[2]]
          /\ End(c, {}, {})
          /\ UNCHANGED faults
       \/ /\ Fault
          /\ Goto(c, "query") \/ End(c, {act[c].h}, {})
          /\ UNCHANGED ents
    /\ UNCHANGED <<cache, src, hits, version>>

(* DeleteByID, DeleteAll: the source first. *)
DeleteByID(c, k) == /\ src[k] # 0
                    /\ src' = [src EXCEPT ![k] = 0]
                    /\ Begin(c, Op("write", k, "invalidateID"))
                    /\ UNCHANGED <<cache, ents, hits, version, faults, raced>>
DeleteAll(c) == /\ src' = [k \in Keys |-> 0]
                /\ Begin(c, Op("write", All, "drop"))
                /\ UNCHANGED <<cache, ents, hits, version, faults, raced>>

----------------------------------------------------------------------------
InvalidateByID(c, k) == /\ Begin(c, Op("invalidate", k, "invalidateID"))
                        /\ UNCHANGED <<cache, src, ents, hits, version, faults, raced>>
InvalidateCachedQuery(c, h) == /\ Begin(c, Op("invalidate", h, "invalidateHit"))
                               /\ UNCHANGED <<cache, src, ents, hits, version, faults, raced>>
DropCachedValues(c) == /\ Begin(c, Op("invalidate", All, "drop"))
                       /\ UNCHANGED <<cache, src, ents, hits, version, faults, raced>>

(* What is there: entities, hits, and hits with one of the ids. *)
Cached(ids) == {<<k, ents[k]>> : k \in {k \in ids : ents[k] # 0}}
Held(hs) == {h \in hs : hits[h] # NoHit}
Referencing(ids) == {h \in Held(HitIDs) : hits[h] \cap ids # {}}

(* A bug: the hits of other queries stay. *)
InvalidateOwnHit(a) ==
    LET h == act[a].h
        byID == act[a].pc = "invalidateID"
        ids == IF byID THEN {h} ELSE IF hits[h] = NoHit THEN {} ELSE hits[h]
    IN  /\ act[a].pc \in {"invalidateID", "invalidateHit"}
        /\ act' = [act EXCEPT ![a].pc = "commit", ![a].ids = ids, ![a].got = Cached(ids),
                              ![a].gone = Held({h} \cup ids)]
        /\ UNCHANGED <<cache, src, ents, hits, version, faults, raced>>

(* InvalidateByID: the entity, the hit of its id, and all hits with it.    *)
(* InvalidateCachedQuery: the hit, and its entities by id.  What is to go  *)
(* is looked up in a transaction,                                          *)
Invalidate(a) ==
    LET h == act[a].h
        byID == act[a].pc = "invalidateID"
        ids == IF byID THEN {h} ELSE IF hits[h] = NoHit THEN {} ELSE hits[h]
    IN  /\ act[a].pc \in {"invalidateID", "invalidateHit"}
        /\ act' = [act EXCEPT ![a].pc = "commit", ![a].ids = ids, ![a].got = Cached(ids),
                              ![a].gone = Held({h} \cup ids \cup Referencing(ids))]
        /\ UNCHANGED <<cache, src, ents, hits, version, faults, raced>>

(* which then commits, or fails. *)
Commit(a) ==
    /\ act[a].pc = "commit"
    /\ \/ /\ ents' = [k \in Keys |-> IF \E e \in act[a].got : e[1] = k THEN 0 ELSE ents[k]]
          /\ hits' = [h \in HitIDs |-> IF h \in act[a].gone THEN NoHit ELSE hits[h]]
          /\ End(a, {}, act[a].ids)
          /\ UNCHANGED faults
       \/ /\ Fault
          /\ End(a, IF act[a].kind = "write" THEN KeysOf(act[a].h) ELSE {}, {})
          /\ UNCHANGED <<ents, hits>>
    /\ UNCHANGED <<cache, src, version>>

(* DropCachedValues: the transaction that deletes everything. *)
Drop(a) ==
    /\ act[a].pc = "drop"
    /\ \/ /\ ents' = [k \in Keys |-> 0]
          /\ hits' = [h \in HitIDs |-> NoHit]
          /\ End(a, {}, cache.keys)
          /\ UNCHANGED faults
       \/ /\ Fault
          /\ End(a, IF act[a].kind = "write" THEN cache.keys ELSE {}, {})
          /\ UNCHANGED <<ents, hits>>
    /\ UNCHANGED <<cache, src, version>>

(* Somebody changes the source without the cache. *)
Outside(k) == /\ version < MaxVersion
              /\ version' = version + 1
              /\ \E v \in {0, version + 1} : src' = [src EXCEPT ![k] = v]
              /\ raced' = raced \cup {k}
              /\ UNCHANGED <<cache, ents, hits, act, faults>>

Step(a) == \/ CachedQueryMany(a) \/ FindByIDs(a)
           \/ Query(a) \/ SaveEntity(a) \/ SaveHit(a) \/ SaveFails(a)
           \/ CreateCached(a) \/ UpdateCached(a)
           \/ Invalidate(a) \/ Commit(a) \/ Drop(a)

Next == \/ \E c \in cache.clients :
              \/ \E k \in cache.keys : \/ FindByIDFast(c, k) \/ FindByID(c, k)
                                      \/ Create(c, k) \/ Update(c, k) \/ Save(c, k)
                                      \/ DeleteByID(c, k) \/ InvalidateByID(c, k)
              \/ \E h \in cache.keys \cup {All} : Refresh(c, h) \/ InvalidateCachedQuery(c, h)
              \/ FindAll(c) \/ DeleteAll(c) \/ DropCachedValues(c)
        \/ \E a \in Actors : Step(a)
        \/ \E k \in cache.keys : Outside(k)

Spec == Init /\ [][Next]_vars

(* Operations and jobs go on, and somebody keeps asking for every id. *)
Fairness == /\ \A a \in Actors : WF_vars(Step(a))
            /\ \A k \in Keys : SF_vars(\E c \in cache.clients : FindByIDFast(c, k))

FairSpec == Spec /\ Fairness

----------------------------------------------------------------------------
(* The state has its type, and the hit of an id is about that id only. *)
TypeOK ==
    /\ src \in [Keys -> 0..MaxVersion] /\ ents \in [Keys -> 0..MaxVersion]
    /\ \A h \in HitIDs : hits[h] = NoHit \/ hits[h] \subseteq KeysOf(h)
    /\ raced \subseteq Keys
    /\ \A h \in HitIDs : Busy(h) => act[h].kind = "refresh" /\ act[h].h = h

(* Nobody is busy with the key, and there was no race or fault about it    *)
(* since it was last invalidated.                                          *)
Settled(k) == k \notin raced /\ \A a \in Actors : Busy(a) => k \notin KeysOf(act[a].h)

(* What FindByID answers. *)
Lookup(k) == IF ents[k] # 0 THEN ents[k] ELSE IF hits[k] = {} THEN 0 ELSE src[k]

(* FindByID answers what the source has, whatever was cached, changed and  *)
(* invalidated before through the cache; an invalidation on its own sets a *)
(* key right again, whatever happened to it (InvalidateByID,               *)
(* DropCachedValues, shouldUpdateRefreshByPtr).                            *)
FindByIDFresh == \A k \in Keys : Settled(k) => Lookup(k) = src[k]

(* An entity that a hit refers to is cached, so that a cached query loses  *)
(* none and has none that was deleted (invalidation takes every hit of an  *)
(* entity with it, and cacheQuery saves the hit last).  Every variable has *)
(* its type: a hit has the entities of its query only.                     *)
HitsBacked ==
    /\ TypeOK
    /\ \A k \in Keys : Settled(k) =>
          \A h \in HitIDs : hits[h] # NoHit /\ k \in hits[h] => ents[k] # 0

(* RefreshBehind brings a cached entity up to date, if it is asked for,    *)
(* even after races and changes outside of the cache ("ensures eventual    *)
(* consistency"), as long as the entity still exists.                      *)
Refreshed == cache.RefreshBehind =>
                \A k \in Keys : <>[](ents[k] # 0 /\ src[k] # 0 => ents[k] = src[k])
=============================================================================
