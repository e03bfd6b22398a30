--------------------------- MODULE MemoryTxProofs --------------------------
(***************************************************************************)
(* Proofs about the in-memory store, for any clients, keys and depth of    *)
(* nested transactions.                                                    *)
(*                                                                         *)
(* Nothing of a transaction is in the table before its outermost commit,   *)
(* because what overlays hold has the tag of the current chain (OwnTags)   *)
(* and tags grow: those of ended chains lie behind (Past).  Whether a tag  *)
(* is that of a chain shows in its parity (Chains).                        *)
(*                                                                         *)
(* A transaction reads its own writes because every step of a commit moves *)
(* a key one level down without a change of what the lookup finds          *)
(* (OwnReads); the end of the outermost commit then finds all of them in   *)
(* the table.                                                              *)
(***************************************************************************)
EXTENDS MemoryTx, WellFoundedInduction, TLAPS

Chained(c) ==
    /\ InTx(c) => \E j \in Nat : n[c] = 2 * j + 1
    /\ ~InTx(c) => \E j \in Nat : n[c] = 2 * j
    /\ ~InTx(c) => \A k \in Keys : mine[c][k] = Untouched
    /\ pc[c] \in {"commit", "save", "saveCreate", "saveUpdate"} => InTx(c)
    /\ pc[c] = "set" => ~InTx(c)
    /\ pc[c] \in {"set", "save", "saveCreate", "saveUpdate"} => key[c] \in Keys

Chains == \A c \in Clients : Chained(c)

OwnTags == \A c \in Clients, k \in Keys :
    /\ \A d \in 1 .. MaxNesting : values[c][d][k] \in {None, Tag(c)}
    /\ mine[c][k] \in {None, Untouched, Tag(c)}

Past == /\ \A v \in rolledBack : v[2] < n[v[1]]
        /\ \A k \in Keys : table[k] # None => table[k][2] <= n[table[k][1]]

(* OnlyCommitted without the types. *)
Clean == \A k \in Keys : table[k] # None =>
    /\ table[k] \notin rolledBack
    /\ \A c \in Clients : InTx(c) /\ table[k] = Tag(c)
                            => depth[c] = 1 /\ pc[c] = "commit"

StoreInv == MemoryTypeOK /\ Clean /\ Chains /\ OwnTags /\ Past

----------------------------------------------------------------------------
LEMMA InitStoreInv == MemoryInit => StoreInv
<1> SUFFICES ASSUME MemoryInit
             PROVE  StoreInv
  OBVIOUS
<1>1. MemoryTypeOK
  BY ChainsAssumption DEF MemoryInit, MemoryTypeOK, NoChanges
<1> QED
  BY <1>1 DEF MemoryInit, StoreInv, Clean, Chains, Chained, OwnTags, Past, InTx, NoChanges

(* The bounds in numbers. *)
LEMMA Numbers ==
  ASSUME MemoryTypeOK
  PROVE  /\ MaxNesting \in Nat \ {0} /\ MaxChains \in Nat
         /\ \A c \in Clients : /\ depth[c] \in Nat /\ depth[c] <= MaxNesting
                               /\ n[c] \in Nat /\ n[c] <= 2 * MaxChains
                               /\ Tag(c) \in Values /\ Tag(c) # None /\ Tag(c) # Untouched
BY ChainsAssumption, ValuesAssumption DEF MemoryTypeOK, Tag, Values

(* What leaves table, tags and depths alone and ends no commit keeps       *)
(* uncommitted values out of the table.                                    *)
LEMMA QuietStep ==
  ASSUME StoreInv, UNCHANGED <<table, depth, n, rolledBack>>, MemoryTypeOK', Chains', OwnTags',
         \A e \in Clients : pc[e] = "commit" => pc'[e] = "commit"
  PROVE  StoreInv'
BY DEF StoreInv, Clean, Past, InTx, Tag

(* Updates of functions of functions: their types and their values. *)
LEMMA Update2 ==
  ASSUME NEW A, NEW B, NEW V, NEW f \in [A -> [B -> V]], NEW a \in A, NEW b \in B,
         NEW v \in V
  PROVE  LET g == [f EXCEPT ![a][b] = v] IN
         /\ g \in [A -> [B -> V]]
         /\ g[a][b] = v
         /\ \A x \in A, y \in B : x # a \/ y # b => g[x][y] = f[x][y]
<1> DEFINE g == [f EXCEPT ![a][b] = v]
<1>1. g \in [A -> [B -> V]]
  OBVIOUS
<1>2. g[a][b] = v
  OBVIOUS
<1>3. ASSUME NEW x \in A, NEW y \in B, x # a \/ y # b
      PROVE  g[x][y] = f[x][y]
  <2>1. CASE x # a
    BY <2>1
  <2>2. CASE x = a /\ y # b
    BY <2>2
  <2> QED
    BY <1>3, <2>1, <2>2
<1> QED
  BY <1>1, <1>2, <1>3

LEMMA Update3 ==
  ASSUME NEW A, NEW B, NEW C, NEW V, NEW f \in [A -> [B -> [C -> V]]], NEW a \in A,
         NEW b \in B, NEW c \in C, NEW v \in V
  PROVE  LET g == [f EXCEPT ![a][b][c] = v] IN
         /\ g \in [A -> [B -> [C -> V]]]
         /\ g[a][b][c] = v
         /\ \A x \in A, y \in B : x # a \/ y # b => g[x][y] = f[x][y]
         /\ \A z \in C : z # c => g[a][b][z] = f[a][b][z]
<1> DEFINE g == [f EXCEPT ![a][b][c] = v]
           h == [f[a][b] EXCEPT ![c] = v]
<1>0. f[a][b] \in [C -> V]
  OBVIOUS
<1>1. h \in [C -> V] /\ h[c] = v /\ \A z \in C : z # c => h[z] = f[a][b][z]
  BY <1>0
<1>2. g = [f EXCEPT ![a][b] = h]
  OBVIOUS
<1> HIDE DEF g, h
<1> QED
  BY <1>1, <1>2, Update2 DEF g

(* The same for the overlays of the clients. *)
Overlays == [Clients -> [1 .. MaxNesting -> [Keys -> Values \cup {None}]]]
Put(f, c, d, k, v) == [f EXCEPT ![c][d][k] = v]

LEMMA PutValue ==
  ASSUME NEW f \in Overlays, NEW c \in Clients, NEW d \in 1 .. MaxNesting, NEW k \in Keys,
         NEW v \in Values \cup {None}
  PROVE  /\ Put(f, c, d, k, v) \in Overlays
         /\ Put(f, c, d, k, v)[c][d][k] = v
         /\ \A x \in Clients, y \in 1 .. MaxNesting :
               x # c \/ y # d => Put(f, c, d, k, v)[x][y] = f[x][y]
         /\ \A z \in Keys : z # k => Put(f, c, d, k, v)[c][d][z] = f[c][d][z]
<1> DEFINE D == 1 .. MaxNesting
           V == Values \cup {None}
<1>1. f \in [Clients -> [D -> [Keys -> V]]] /\ d \in D /\ v \in V
  BY DEF Overlays
<1> HIDE DEF D, V
<1>2. /\ Put(f, c, d, k, v) \in [Clients -> [D -> [Keys -> V]]]
      /\ Put(f, c, d, k, v)[c][d][k] = v
      /\ \A x \in Clients, y \in D : x # c \/ y # d => Put(f, c, d, k, v)[x][y] = f[x][y]
      /\ \A z \in Keys : z # k => Put(f, c, d, k, v)[c][d][z] = f[c][d][z]
  BY <1>1, Update3 DEF Put
<1> QED
  BY <1>2 DEF D, V, Overlays

(* What is on a level of a client. *)
LEMMA LevelTypes ==
  ASSUME MemoryTypeOK, NEW c \in Clients, NEW d \in 1 .. MaxNesting
  PROVE  values[c][d] \in [Keys -> Values \cup {None}] /\ deleted[c][d] \in SUBSET Keys
<1> DEFINE D == 1 .. MaxNesting
           V == Values \cup {None}
<1>1. /\ values \in [Clients -> [D -> [Keys -> V]]] /\ d \in D
      /\ deleted \in [Clients -> [D -> SUBSET Keys]]
  BY DEF MemoryTypeOK
<1> HIDE DEF D, V
<1>2. values[c] \in [D -> [Keys -> V]] /\ deleted[c] \in [D -> SUBSET Keys]
  BY <1>1
<1>3. values[c][d] \in [Keys -> V] /\ deleted[c][d] \in SUBSET Keys
  BY <1>1, <1>2
<1> QED
  BY <1>3 DEF V

(* A write into an overlay. *)
LEMMA OverlayTypes ==
  ASSUME MemoryTypeOK, NEW c \in Clients, NEW d \in 1 .. MaxNesting, NEW k \in Keys,
         NEW v \in Values \cup {None}, NEW w \in Values \cup {None, Untouched}
  PROVE  /\ [values EXCEPT ![c][d][k] = v]
              \in [Clients -> [1 .. MaxNesting -> [Keys -> Values \cup {None}]]]
         /\ [mine EXCEPT ![c][k] = w] \in [Clients -> [Keys -> Values \cup {None, Untouched}]]
         /\ [deleted EXCEPT ![c][d] = @ \cup {k}]
              \in [Clients -> [1 .. MaxNesting -> SUBSET Keys]]
         /\ [deleted EXCEPT ![c][d] = @ \ {k}]
              \in [Clients -> [1 .. MaxNesting -> SUBSET Keys]]
<1>1. /\ values \in [Clients -> [1 .. MaxNesting -> [Keys -> Values \cup {None}]]]
      /\ deleted \in [Clients -> [1 .. MaxNesting -> SUBSET Keys]]
      /\ mine \in [Clients -> [Keys -> Values \cup {None, Untouched}]]
  BY DEF MemoryTypeOK
<1>2. deleted[c][d] \cup {k} \in SUBSET Keys /\ deleted[c][d] \ {k} \in SUBSET Keys
  <2>1. deleted[c] \in [1 .. MaxNesting -> SUBSET Keys]
    BY <1>1
  <2>2. deleted[c][d] \in SUBSET Keys
    BY <2>1
  <2> QED
    BY <2>2
<1>3. [values EXCEPT ![c][d][k] = v]
        \in [Clients -> [1 .. MaxNesting -> [Keys -> Values \cup {None}]]]
  <2> DEFINE D == 1 .. MaxNesting
             V == Values \cup {None}
  <2>1. values \in [Clients -> [D -> [Keys -> V]]] /\ d \in D /\ v \in V
    BY <1>1
  <2> HIDE DEF D, V
  <2>2. [values EXCEPT ![c][d][k] = v] \in [Clients -> [D -> [Keys -> V]]]
    BY <2>1
  <2> QED
    BY <2>2 DEF D, V
<1>4. [mine EXCEPT ![c][k] = w] \in [Clients -> [Keys -> Values \cup {None, Untouched}]]
  BY <1>1, Update2
<1>5. /\ [deleted EXCEPT ![c][d] = @ \cup {k}] \in [Clients -> [1 .. MaxNesting -> SUBSET Keys]]
      /\ [deleted EXCEPT ![c][d] = @ \ {k}] \in [Clients -> [1 .. MaxNesting -> SUBSET Keys]]
  BY <1>1, <1>2, Update2
<1> QED
  BY <1>3, <1>4, <1>5

(* MemoryTx.set. *)
LEMMA SetTxKeeps ==
  ASSUME StoreInv, NEW c \in Clients, NEW k \in Keys, InTx(c), setTx(c, k),
         UNCHANGED <<table, depth, deleted, todo, n, rolledBack, disturbed>>,
         pc' \in [Clients -> {"ready", "set", "deleting", "commit", "save", "saveCreate",
                              "saveUpdate"}],
         key' \in [Clients -> Keys \cup {None}]
  PROVE  MemoryTypeOK' /\ OwnTags'
<1>1. MemoryTypeOK
  BY DEF StoreInv
<1>2. /\ values' = [values EXCEPT ![c][depth[c]][k] = Tag(c)]
      /\ mine' = [mine EXCEPT ![c][k] = Tag(c)]
  BY DEF setTx
<1>3. depth[c] \in 1 .. MaxNesting /\ Tag(c) \in Values
  BY <1>1, Numbers DEF InTx
<1>4. /\ values' \in [Clients -> [1 .. MaxNesting -> [Keys -> Values \cup {None}]]]
      /\ mine' \in [Clients -> [Keys -> Values \cup {None, Untouched}]]
  BY <1>1, <1>2, <1>3, OverlayTypes
<1>5. \A e \in Clients, d \in 1 .. MaxNesting : d > depth[e] => values'[e][d] = values[e][d]
  BY <1>1, <1>2, <1>3 DEF MemoryTypeOK
<1>6. MemoryTypeOK'
  BY <1>1, <1>4, <1>5 DEF MemoryTypeOK
<1>7. OwnTags'
  BY <1>1, <1>2, <1>3 DEF StoreInv, OwnTags, Tag, MemoryTypeOK
<1> QED
  BY <1>6, <1>7

(* MemoryTx.del. *)
LEMMA DelTxKeeps ==
  ASSUME StoreInv, NEW c \in Clients, NEW k \in Keys, InTx(c), delTx(c, k),
         UNCHANGED <<table, depth, n, key, rolledBack, disturbed>>,
         pc' \in [Clients -> {"ready", "set", "deleting", "commit", "save", "saveCreate",
                              "saveUpdate"}],
         todo' \in [Clients -> SUBSET Keys]
  PROVE  MemoryTypeOK' /\ OwnTags'
<1>1. MemoryTypeOK
  BY DEF StoreInv
<1>2. /\ values' = [values EXCEPT ![c][depth[c]][k] = None]
      /\ deleted' = [deleted EXCEPT ![c][depth[c]] = @ \cup {k}]
      /\ mine' = [mine EXCEPT ![c][k] = None]
  BY DEF delTx
<1>3. depth[c] \in 1 .. MaxNesting
  BY <1>1, Numbers DEF InTx
<1>4. /\ values' \in [Clients -> [1 .. MaxNesting -> [Keys -> Values \cup {None}]]]
      /\ mine' \in [Clients -> [Keys -> Values \cup {None, Untouched}]]
      /\ deleted' \in [Clients -> [1 .. MaxNesting -> SUBSET Keys]]
  BY <1>1, <1>2, <1>3, OverlayTypes
<1>5. \A e \in Clients, d \in 1 .. MaxNesting : d > depth[e] =>
        values'[e][d] = values[e][d] /\ deleted'[e][d] = deleted[e][d]
  BY <1>1, <1>2, <1>3 DEF MemoryTypeOK
<1>6. MemoryTypeOK'
  BY <1>1, <1>4, <1>5 DEF MemoryTypeOK
<1>7. OwnTags'
  BY <1>1, <1>2, <1>3 DEF StoreInv, OwnTags, Tag, MemoryTypeOK
<1> QED
  BY <1>6, <1>7

(* Memory.set and Memory.del. *)
LEMMA SetTableKeeps ==
  ASSUME StoreInv, NEW c \in Clients, NEW k \in Keys, NEW v \in {None, Tag(c)},
         setTable(c, k, v), UNCHANGED <<depth, n, rolledBack>>,
         v = Tag(c) /\ InTx(c) => depth[c] = 1 /\ pc[c] = "commit",
         \A e \in Clients : pc[e] = "commit" => pc'[e] = "commit"
  PROVE  /\ Clean' /\ Past'
         /\ table' \in [Keys -> Values \cup {None}]
         /\ disturbed' \in [Clients -> SUBSET Keys]
<1>1. MemoryTypeOK
  BY DEF StoreInv
<1>2. table' = [table EXCEPT ![k] = v]
  BY DEF setTable
<1>3. Tag(c) \in Values /\ n[c] \in Nat
  BY <1>1, Numbers
<1>4. table' \in [Keys -> Values \cup {None}] /\ disturbed' \in [Clients -> SUBSET Keys]
  BY <1>1, <1>3 DEF MemoryTypeOK, setTable
<1>5. Tag(c) \notin rolledBack
  BY <1>3 DEF StoreInv, Past, Tag
<1>6. \A e \in Clients : Tag(e)' = Tag(e) /\ (Tag(e) = Tag(c) => e = c)
  BY DEF Tag
<1>7. Clean'
  BY <1>1, <1>2, <1>5, <1>6 DEF StoreInv, Clean, MemoryTypeOK, InTx
<1>8. Past'
  BY <1>1, <1>2, <1>3 DEF StoreInv, Past, MemoryTypeOK, Tag
<1> QED
  BY <1>4, <1>7, <1>8

LEMMA WriteStep ==
  ASSUME StoreInv, NEW c \in Clients, NEW k \in Keys, WriteKey(c, k)
  PROVE  StoreInv'
<1>1. /\ pc[c] = "ready"
      /\ UNCHANGED <<table, depth, deleted, todo, n, rolledBack, disturbed>>
  BY DEF WriteKey
<1>2. MemoryTypeOK
  BY DEF StoreInv
<1>3. CASE InTx(c)
  <2>1. setTx(c, k) /\ UNCHANGED <<pc, key>>
    BY <1>3 DEF WriteKey
  <2>2. MemoryTypeOK' /\ OwnTags'
    BY <1>1, <1>2, <1>3, <2>1, SetTxKeeps DEF MemoryTypeOK
  <2>3. Chains'
    BY <1>1, <1>2, <1>3, <2>1 DEF StoreInv, Chains, Chained, InTx, MemoryTypeOK, setTx
  <2> QED
    BY <1>1, <2>1, <2>2, <2>3, QuietStep
<1>4. CASE ~InTx(c)
  <2>1. /\ pc' = [pc EXCEPT ![c] = "set"] /\ key' = [key EXCEPT ![c] = k]
        /\ UNCHANGED <<values, mine>>
    BY <1>4 DEF WriteKey
  <2>2. MemoryTypeOK'
    BY <1>1, <1>2, <2>1 DEF MemoryTypeOK
  <2>3. Chains' /\ OwnTags'
    BY <1>1, <1>2, <1>4, <2>1 DEF StoreInv, Chains, Chained, OwnTags, Tag, InTx, MemoryTypeOK
  <2> QED
    BY <1>1, <1>2, <2>1, <2>2, <2>3, QuietStep DEF MemoryTypeOK
<1> QED
  BY <1>3, <1>4

LEMMA SetStep ==
  ASSUME StoreInv, NEW c \in Clients, Set(c)
  PROVE  StoreInv'
<1>1. /\ pc[c] = "set" /\ setTable(c, key[c], Tag(c))
      /\ pc' = [pc EXCEPT ![c] = "ready"] /\ key' = [key EXCEPT ![c] = None]
      /\ UNCHANGED <<depth, values, deleted, todo, n, rolledBack, mine>>
  BY DEF Set, txVars
<1>2. MemoryTypeOK /\ key[c] \in Keys /\ ~InTx(c)
  BY <1>1 DEF StoreInv, Chains, Chained
<1>3. \A e \in Clients : pc[e] = "commit" => pc'[e] = "commit"
  BY <1>1, <1>2 DEF MemoryTypeOK
<1>4. /\ Clean' /\ Past' /\ table' \in [Keys -> Values \cup {None}]
      /\ disturbed' \in [Clients -> SUBSET Keys]
  BY <1>1, <1>2, <1>3, SetTableKeeps
<1>5. MemoryTypeOK'
  BY <1>1, <1>2, <1>4 DEF MemoryTypeOK
<1>6. Chains' /\ OwnTags'
  BY <1>1, <1>2 DEF StoreInv, Chains, Chained, OwnTags, Tag, InTx, MemoryTypeOK
<1> QED
  BY <1>4, <1>5, <1>6 DEF StoreInv

(* Memory.Del, of DeleteByID and of each step of DeleteAll. *)
LEMMA DelStep ==
  ASSUME StoreInv, NEW c \in Clients, NEW k \in Keys, del(c, k),
         UNCHANGED <<depth, key, n, rolledBack>>, pc[c] \in {"ready", "deleting"},
         NEW p \in {"ready", "deleting"}, pc' = [pc EXCEPT ![c] = p],
         todo' \in [Clients -> SUBSET Keys]
  PROVE  StoreInv'
<1>1. MemoryTypeOK
  BY DEF StoreInv
<1>2. pc' \in [Clients -> {"ready", "set", "deleting", "commit", "save", "saveCreate",
                           "saveUpdate"}]
  BY <1>1 DEF MemoryTypeOK
<1>3. \A e \in Clients : pc[e] = "commit" => pc'[e] = "commit"
  BY <1>1 DEF MemoryTypeOK
<1>4. CASE InTx(c)
  <2>1. delTx(c, k) /\ UNCHANGED <<table, disturbed>>
    BY <1>4 DEF del
  <2>2. MemoryTypeOK' /\ OwnTags'
    BY <1>2, <1>4, <2>1, DelTxKeeps
  <2>3. Chains'
    BY <1>1, <1>4, <2>1 DEF StoreInv, Chains, Chained, InTx, MemoryTypeOK, delTx
  <2> QED
    BY <1>3, <2>1, <2>2, <2>3, QuietStep
<1>5. CASE ~InTx(c)
  <2>1. setTable(c, k, None) /\ UNCHANGED <<values, deleted, mine>>
    BY <1>5 DEF del
  <2>2. Tag(c) # None
    BY <1>1, Numbers
  <2>3. /\ Clean' /\ Past' /\ table' \in [Keys -> Values \cup {None}]
        /\ disturbed' \in [Clients -> SUBSET Keys]
    BY <1>3, <2>1, <2>2, SetTableKeeps
  <2>4. MemoryTypeOK'
    BY <1>1, <1>2, <2>1, <2>3 DEF MemoryTypeOK
  <2>5. Chains' /\ OwnTags'
    BY <1>1, <2>1 DEF StoreInv, Chains, Chained, OwnTags, Tag, InTx, MemoryTypeOK
  <2> QED
    BY <2>3, <2>4, <2>5 DEF StoreInv
<1> QED
  BY <1>4, <1>5

LEMMA DeleteStep ==
  ASSUME StoreInv, NEW c \in Clients, NEW k \in Keys, DeleteByID(c, k) \/ DeleteNext(c, k)
  PROVE  StoreInv'
<1>1. MemoryTypeOK
  BY DEF StoreInv
<1>2. CASE DeleteByID(c, k)
  <2>1. pc' = [pc EXCEPT ![c] = "ready"]
    BY <1>1, <1>2 DEF MemoryTypeOK, DeleteByID
  <2> QED
    BY <1>1, <1>2, <2>1, DelStep DEF MemoryTypeOK, DeleteByID
<1>3. CASE DeleteNext(c, k)
  <2> DEFINE p == IF todo[c] = {k} THEN "ready" ELSE "deleting"
  <2>1. /\ pc[c] = "deleting" /\ pc' = [pc EXCEPT ![c] = p] /\ p \in {"ready", "deleting"}
        /\ UNCHANGED <<depth, key, n, rolledBack>>
    BY <1>3 DEF DeleteNext
  <2>2. todo' \in [Clients -> SUBSET Keys]
    BY <1>1, <1>3 DEF MemoryTypeOK, DeleteNext
  <2> HIDE DEF p
  <2>3. CASE del(c, k)
    BY <2>1, <2>2, <2>3, DelStep
  <2>4. CASE UNCHANGED <<table, values, deleted, mine, disturbed>>
    <3>1. MemoryTypeOK'
      BY <1>1, <2>1, <2>2, <2>4 DEF MemoryTypeOK
    <3>2. Chains' /\ OwnTags'
      BY <1>1, <2>1, <2>4 DEF StoreInv, Chains, Chained, OwnTags, Tag, InTx, MemoryTypeOK
    <3> QED
      BY <1>1, <2>1, <2>4, <3>1, <3>2, QuietStep DEF MemoryTypeOK
  <2> QED
    BY <1>3, <2>3, <2>4 DEF DeleteNext
<1> QED
  BY <1>2, <1>3

(* Steps that only move the client on. *)
LEMMA MoveStep ==
  ASSUME StoreInv, NEW c \in Clients, DeleteAll(c) \/ SaveFind(c) \/ MemoryCommitTx(c)
  PROVE  StoreInv'
<1>1. /\ MemoryTypeOK /\ UNCHANGED <<table, depth, values, deleted, key, n, rolledBack, mine,
                                     disturbed>>
  BY DEF StoreInv, DeleteAll, SaveFind, MemoryCommitTx, txVars, ghosts
<1>2. todo' \in [Clients -> SUBSET Keys]
  BY <1>1 DEF MemoryTypeOK, DeleteAll, SaveFind, MemoryCommitTx
<1>3. PICK p \in {"deleting", "saveCreate", "saveUpdate", "commit"} :
         /\ pc' = [pc EXCEPT ![c] = p]
         /\ p \in {"saveCreate", "saveUpdate"} => pc[c] = "save"
         /\ p = "commit" => InTx(c)
         /\ pc[c] # "commit"
  BY DEF DeleteAll, SaveFind, MemoryCommitTx
<1>4. MemoryTypeOK'
  BY <1>1, <1>2, <1>3 DEF MemoryTypeOK
<1>5. Chains' /\ OwnTags'
  BY <1>1, <1>3 DEF StoreInv, Chains, Chained, OwnTags, Tag, InTx, MemoryTypeOK
<1> QED
  BY <1>1, <1>3, <1>4, <1>5, QuietStep DEF MemoryTypeOK

LEMMA PurgeStep ==
  ASSUME StoreInv, NEW c \in Clients, PurgeNamespace(c)
  PROVE  StoreInv'
<1>1. /\ MemoryTypeOK /\ table' = NoChanges
      /\ UNCHANGED <<depth, values, deleted, pc, key, todo, n, rolledBack, mine>>
  BY DEF StoreInv, PurgeNamespace, txVars
<1>2. MemoryTypeOK'
  BY <1>1 DEF MemoryTypeOK, PurgeNamespace, NoChanges
<1>3. Clean' /\ Past'
  BY <1>1 DEF StoreInv, Clean, Past, NoChanges
<1>4. Chains' /\ OwnTags'
  BY <1>1 DEF StoreInv, Chains, Chained, OwnTags, Tag, InTx
<1> QED
  BY <1>2, <1>3, <1>4 DEF StoreInv

(* Memory.BeginTx: the new chain has a tag that no value has. *)
LEMMA BeginStep ==
  ASSUME StoreInv, NEW c \in Clients, pc[c] = "ready", Begin(c),
         NEW p \in {"ready", "save"}, pc' = [pc EXCEPT ![c] = p],
         NEW k \in Keys \cup {None}, key' = [key EXCEPT ![c] = k], p = "save" => k \in Keys
  PROVE  StoreInv'
<1>1. /\ MemoryTypeOK /\ depth[c] < Nesting[c] /\ depth' = [depth EXCEPT ![c] = @ + 1]
      /\ UNCHANGED <<table, values, deleted, todo, rolledBack, mine, disturbed>>
  BY DEF StoreInv, Begin
<1>2. /\ n \in [Clients -> 0 .. 2 * MaxChains] /\ depth[c] \in Nat /\ n[c] \in Nat
      /\ MaxChains \in Nat /\ MaxNesting \in Nat
      /\ Nesting[c] \in Nat /\ Nesting[c] <= MaxNesting
  <2>1. Nesting[c] \in 1 .. MaxNesting
    BY NestingAssumption
  <2>2. n \in [Clients -> 0 .. 2 * MaxChains]
    BY <1>1 DEF MemoryTypeOK
  <2> QED
    BY <1>1, <2>1, <2>2, Numbers
<1>3. /\ n' \in [Clients -> 0 .. 2 * MaxChains]
      /\ \A e \in Clients : e # c => n'[e] = n[e]
      /\ InTx(c) => n'[c] = n[c]
      /\ ~InTx(c) => n'[c] = n[c] + 1
  BY <1>2 DEF Begin
<1>4. depth' \in [Clients -> 0 .. MaxNesting]
  BY <1>1, <1>2 DEF MemoryTypeOK
<1>5. MemoryTypeOK'
  BY <1>1, <1>2, <1>3, <1>4 DEF MemoryTypeOK
<1>6. Chains'
  BY <1>1, <1>2, <1>3 DEF StoreInv, Chains, Chained, MemoryTypeOK, InTx
<1>7. OwnTags'
  <2>1. ASSUME NEW e \in Clients, NEW j \in Keys, NEW d \in 1 .. MaxNesting
        PROVE  values'[e][d][j] \in {None, Tag(e)'} /\ mine'[e][j] \in {None, Untouched, Tag(e)'}
    <3>1. CASE e = c /\ ~InTx(c)
      <4>1. d > depth[c]
        BY <1>2, <3>1, ChainsAssumption DEF InTx
      <4>2. values[c][d] = NoChanges
        BY <1>1, <4>1 DEF MemoryTypeOK
      <4>3. values[c][d][j] = None /\ mine[c][j] = Untouched
        BY <3>1, <4>2 DEF StoreInv, Chains, Chained, NoChanges
      <4> QED
        BY <1>1, <3>1, <4>3
    <3>2. CASE ~(e = c /\ ~InTx(c))
      BY <1>1, <1>3, <3>2 DEF StoreInv, OwnTags, Tag
    <3> QED
      BY <3>1, <3>2
  <2> QED
    BY <1>2, <2>1, ChainsAssumption DEF OwnTags
<1>8. Past'
  <2>1. \A e \in Clients : n'[e] \in Nat /\ n[e] \in Nat /\ n'[e] >= n[e]
    BY <1>2, <1>3
  <2>2. \A v \in Values : v[1] \in Clients /\ v[2] \in Nat
    BY ChainsAssumption DEF Values
  <2> QED
    BY <1>1, <2>1, <2>2 DEF StoreInv, Past, MemoryTypeOK
<1>9. Clean'
  <2>1. ASSUME NEW j \in Keys, table[j] # None, NEW e \in Clients, InTx(e)',
               table[j] = Tag(e)'
        PROVE  depth'[e] = 1 /\ pc'[e] = "commit"
    <3>1. CASE e # c
      BY <1>1, <1>3, <2>1, <3>1 DEF StoreInv, Clean, MemoryTypeOK, InTx, Tag
    <3>2. CASE e = c /\ InTx(c)
      BY <1>1, <1>3, <2>1, <3>2 DEF StoreInv, Clean, InTx, Tag
    <3>3. CASE e = c /\ ~InTx(c)
      <4>1. table[j][1] = c /\ table[j][2] = n[c] + 1
        BY <1>3, <2>1, <3>3 DEF Tag
      <4>2. table[j][2] <= n[table[j][1]]
        BY <2>1 DEF StoreInv, Past
      <4> QED
        BY <1>2, <4>1, <4>2
    <3> QED
      BY <3>1, <3>2, <3>3
  <2> QED
    BY <1>1, <2>1 DEF StoreInv, Clean
<1> QED
  BY <1>5, <1>6, <1>7, <1>8, <1>9 DEF StoreInv

(* The end of a chain whose overlays are empty. *)
LEMMA EndChainStep ==
  ASSUME StoreInv, NEW c \in Clients, InTx(c), EndChain(c), UNCHANGED <<table, todo>>,
         pc' = [pc EXCEPT ![c] = "ready"],
         key' \in [Clients -> Keys \cup {None}],
         \A e \in Clients : e # c => key'[e] = key[e],
         values' = [values EXCEPT ![c] = [d \in 1 .. MaxNesting |-> NoChanges]],
         deleted' = [deleted EXCEPT ![c] = [d \in 1 .. MaxNesting |-> {}]],
         \/ UNCHANGED rolledBack
         \/ pc[c] # "commit" /\ rolledBack' = rolledBack \cup {Tag(c)}
  PROVE  StoreInv'
<1>1. /\ MemoryTypeOK /\ depth' = [depth EXCEPT ![c] = 0] /\ n' = [n EXCEPT ![c] = @ + 1]
      /\ mine' = [mine EXCEPT ![c] = [k \in Keys |-> Untouched]]
      /\ disturbed' = [disturbed EXCEPT ![c] = {}]
  BY DEF StoreInv, EndChain
<1>2. /\ n \in [Clients -> 0 .. 2 * MaxChains] /\ n[c] \in Nat /\ MaxChains \in Nat
      /\ MaxNesting \in Nat /\ Tag(c) \in Values
  BY <1>1, Numbers DEF MemoryTypeOK
<1>3. PICK j \in Nat : n[c] = 2 * j + 1
  BY DEF StoreInv, Chains, Chained
<1>4. n[c] + 1 \in 0 .. 2 * MaxChains /\ n[c] + 1 = 2 * (j + 1)
  BY <1>2, <1>3
<1>5. MemoryTypeOK'
  <2>1. /\ n' \in [Clients -> 0 .. 2 * MaxChains] /\ depth' \in [Clients -> 0 .. MaxNesting]
        /\ rolledBack' \subseteq Values
    BY <1>1, <1>2, <1>4 DEF MemoryTypeOK
  <2>2. /\ mine' \in [Clients -> [Keys -> Values \cup {None, Untouched}]]
        /\ disturbed' \in [Clients -> SUBSET Keys]
    BY <1>1 DEF MemoryTypeOK
  <2>3. /\ values' \in [Clients -> [1 .. MaxNesting -> [Keys -> Values \cup {None}]]]
        /\ deleted' \in [Clients -> [1 .. MaxNesting -> SUBSET Keys]]
    BY <1>1 DEF MemoryTypeOK, NoChanges
  <2>4. \A e \in Clients, d \in 1 .. MaxNesting : d > depth'[e] =>
            values'[e][d] = NoChanges /\ deleted'[e][d] = {}
    BY <1>1 DEF MemoryTypeOK
  <2>5. NoChanges' = NoChanges
    BY DEF NoChanges
  <2> QED
    BY <1>1, <2>1, <2>2, <2>3, <2>4, <2>5 DEF MemoryTypeOK
<1>6. Chains'
  <2>1. ASSUME NEW e \in Clients, e # c
        PROVE  /\ InTx(e)' <=> InTx(e)
               /\ n'[e] = n[e] /\ mine'[e] = mine[e] /\ pc'[e] = pc[e] /\ key'[e] = key[e]
    BY <1>1, <2>1 DEF MemoryTypeOK, InTx
  <2>2. ~InTx(c)' /\ n'[c] = 2 * (j + 1) /\ pc'[c] = "ready"
        /\ \A k \in Keys : mine'[c][k] = Untouched
    BY <1>1, <1>4 DEF MemoryTypeOK, InTx
  <2>3. j + 1 \in Nat
    BY <1>3
  <2>4. ASSUME NEW e \in Clients, e # c
        PROVE  Chained(e)'
    BY <2>1, <2>4 DEF StoreInv, Chains, Chained
  <2>5. Chained(c)'
    BY <2>2, <2>3 DEF Chained
  <2> QED
    BY <2>4, <2>5 DEF Chains
<1>7. OwnTags'
  <2>1. ASSUME NEW e \in Clients, NEW k \in Keys
        PROVE  /\ \A d \in 1 .. MaxNesting : values'[e][d][k] \in {None, Tag(e)'}
               /\ mine'[e][k] \in {None, Untouched, Tag(e)'}
    <3>1. CASE e = c
      BY <1>1, <3>1 DEF MemoryTypeOK, NoChanges
    <3>2. CASE e # c
      BY <1>1, <3>2 DEF StoreInv, OwnTags, MemoryTypeOK, Tag
    <3> QED
      BY <3>1, <3>2
  <2> QED
    BY <2>1 DEF OwnTags
<1>8. Past'
  <2>1. \A e \in Clients : n'[e] \in Nat /\ n[e] \in Nat /\ n'[e] >= n[e]
    BY <1>1, <1>2 DEF MemoryTypeOK
  <2>2. n'[c] > n[c]
    BY <1>1, <1>2 DEF MemoryTypeOK
  <2>3. \A v \in Values : v[1] \in Clients /\ v[2] \in Nat
    BY ChainsAssumption DEF Values
  <2>4. Tag(c)[2] < n'[Tag(c)[1]]
    BY <2>2 DEF Tag
  <2>5. \A v \in rolledBack' : v[2] < n'[v[1]]
    BY <1>1, <1>5, <2>1, <2>3, <2>4 DEF StoreInv, Past, MemoryTypeOK
  <2> QED
    BY <1>1, <2>1, <2>3, <2>5 DEF StoreInv, Past, MemoryTypeOK
<1>9. Clean'
  <2>1. ASSUME NEW k \in Keys, table[k] # None
        PROVE  table[k] \notin rolledBack'
    BY <2>1 DEF StoreInv, Clean
  <2>2. ASSUME NEW k \in Keys, table[k] # None, NEW e \in Clients, InTx(e)',
               table[k] = Tag(e)'
        PROVE  depth'[e] = 1 /\ pc'[e] = "commit"
    <3>1. e # c
      BY <1>1, <2>2 DEF InTx, MemoryTypeOK
    <3> QED
      BY <1>1, <2>2, <3>1 DEF StoreInv, Clean, MemoryTypeOK, InTx, Tag
  <2> QED
    BY <2>1, <2>2 DEF Clean
<1> QED
  BY <1>5, <1>6, <1>7, <1>8, <1>9 DEF StoreInv

LEMMA RollbackStep ==
  ASSUME StoreInv, NEW c \in Clients, MemoryRollbackTx(c)
  PROVE  StoreInv'
<1>1. /\ MemoryTypeOK /\ pc[c] = "ready" /\ InTx(c) /\ Rollback(c)
      /\ UNCHANGED <<table, pc, key, todo>>
  BY DEF StoreInv, MemoryRollbackTx
<1>2. pc' = [pc EXCEPT ![c] = "ready"] /\ key' \in [Clients -> Keys \cup {None}]
  BY <1>1 DEF MemoryTypeOK
<1> QED
  BY <1>1, <1>2, EndChainStep DEF Rollback

LEMMA SaveWriteStep ==
  ASSUME StoreInv, NEW c \in Clients, SaveWrite(c)
  PROVE  StoreInv'
<1>1. /\ MemoryTypeOK /\ pc[c] \in {"saveCreate", "saveUpdate"} /\ key' = [key EXCEPT ![c] = None]
      /\ UNCHANGED <<table, todo>>
  BY DEF StoreInv, SaveWrite
<1>2. /\ InTx(c) /\ key[c] \in Keys /\ key' \in [Clients -> Keys \cup {None}]
      /\ \A e \in Clients : e # c => key'[e] = key[e]
  BY <1>1 DEF StoreInv, Chains, Chained, MemoryTypeOK
<1>3. CASE setTx(c, key[c]) /\ pc' = [pc EXCEPT ![c] = "commit"]
           /\ UNCHANGED <<depth, deleted, n, rolledBack, disturbed>>
  <2>1. pc' \in [Clients -> {"ready", "set", "deleting", "commit", "save", "saveCreate",
                             "saveUpdate"}]
    BY <1>1, <1>3 DEF MemoryTypeOK
  <2>2. MemoryTypeOK' /\ OwnTags'
    BY <1>1, <1>2, <1>3, <2>1, SetTxKeeps
  <2>3. Chains'
    BY <1>1, <1>2, <1>3 DEF StoreInv, Chains, Chained, InTx, MemoryTypeOK, setTx
  <2> QED
    BY <1>1, <1>3, <2>2, <2>3, QuietStep DEF MemoryTypeOK
<1>4. CASE Rollback(c) /\ pc' = [pc EXCEPT ![c] = "ready"]
  BY <1>1, <1>2, <1>4, EndChainStep DEF Rollback
<1> QED
  BY <1>3, <1>4 DEF SaveWrite

LEMMA CommittedStep ==
  ASSUME StoreInv, NEW c \in Clients, Committed(c)
  PROVE  StoreInv'
<1>1. /\ MemoryTypeOK /\ pc[c] = "commit" /\ pc' = [pc EXCEPT ![c] = "ready"]
      /\ deleted[c][depth[c]] = {} /\ values[c][depth[c]] = NoChanges
      /\ UNCHANGED <<table, values, deleted, key, todo, rolledBack>>
  BY DEF StoreInv, Committed
<1>2. InTx(c) /\ depth[c] \in 1 .. MaxNesting
  BY <1>1, Numbers DEF StoreInv, Chains, Chained, InTx
<1>3. CASE depth[c] = 1
  <2>1. \A d \in 1 .. MaxNesting : values[c][d] = NoChanges /\ deleted[c][d] = {}
    <3>1. ASSUME NEW d \in 1 .. MaxNesting
          PROVE  d = depth[c] \/ d > depth[c]
      BY <1>3, ChainsAssumption
    <3> QED
      BY <1>1, <3>1 DEF MemoryTypeOK
  <2>2. /\ values[c] = [d \in 1 .. MaxNesting |-> NoChanges]
        /\ deleted[c] = [d \in 1 .. MaxNesting |-> {}]
    BY <1>1, <2>1 DEF MemoryTypeOK
  <2>3. /\ values' = [values EXCEPT ![c] = [d \in 1 .. MaxNesting |-> NoChanges]]
        /\ deleted' = [deleted EXCEPT ![c] = [d \in 1 .. MaxNesting |-> {}]]
    BY <1>1, <2>2 DEF MemoryTypeOK
  <2>4. EndChain(c)
    BY <1>3 DEF Committed
  <2> QED
    BY <1>1, <1>2, <2>3, <2>4, EndChainStep DEF MemoryTypeOK
<1>4. CASE depth[c] # 1
  <2>1. depth' = [depth EXCEPT ![c] = @ - 1] /\ UNCHANGED <<n, mine, disturbed>>
    BY <1>4 DEF Committed
  <2>2. depth[c] - 1 \in 0 .. MaxNesting /\ depth[c] - 1 > 0
    BY <1>2, <1>4, ChainsAssumption
  <2>3. ASSUME NEW e \in Clients, NEW d \in 1 .. MaxNesting, d > depth'[e]
        PROVE  values[e][d] = NoChanges /\ deleted[e][d] = {}
    <3>1. CASE e = c
      <4>1. d = depth[c] \/ d > depth[c]
        BY <1>1, <1>2, <2>1, <2>3, <3>1, ChainsAssumption DEF MemoryTypeOK
      <4> QED
        BY <1>1, <3>1, <4>1 DEF MemoryTypeOK
    <3>2. CASE e # c
      BY <1>1, <2>1, <2>3, <3>2 DEF MemoryTypeOK
    <3> QED
      BY <3>1, <3>2
  <2>4. MemoryTypeOK'
    BY <1>1, <2>1, <2>2, <2>3 DEF MemoryTypeOK
  <2>5. \A e \in Clients : InTx(e)' <=> InTx(e)
    BY <1>1, <1>2, <2>1, <2>2 DEF MemoryTypeOK, InTx
  <2>6. Chains' /\ OwnTags'
    BY <1>1, <2>1, <2>5 DEF StoreInv, Chains, Chained, OwnTags, MemoryTypeOK, Tag
  <2>7. Clean' /\ Past'
    BY <1>1, <1>4, <2>1, <2>5 DEF StoreInv, Clean, Past, MemoryTypeOK, Tag
  <2> QED
    BY <2>4, <2>6, <2>7 DEF StoreInv
<1> QED
  BY <1>3, <1>4

(* The levels a commit works on. *)
LEMMA CommitLevel ==
  ASSUME StoreInv, NEW c \in Clients, pc[c] = "commit"
  PROVE  /\ InTx(c) /\ depth[c] \in 1 .. MaxNesting
         /\ depth[c] # 1 => depth[c] - 1 \in 1 .. MaxNesting
<1>1. MemoryTypeOK /\ InTx(c)
  BY DEF StoreInv, Chains, Chained
<1> QED
  BY <1>1, Numbers DEF InTx

(* A step of a commit into the table. *)
LEMMA CommitTopStep ==
  ASSUME StoreInv, NEW c \in Clients, pc[c] = "commit", depth[c] = 1, NEW k \in Keys,
         NEW v \in {None, Tag(c)}, setTable(c, k, v),
         \/ UNCHANGED values /\ deleted' = [deleted EXCEPT ![c][1] = @ \ {k}]
         \/ values' = [values EXCEPT ![c][1][k] = None] /\ UNCHANGED deleted,
         UNCHANGED <<depth, pc, key, todo, n, rolledBack, mine>>
  PROVE  StoreInv'
<1>1. MemoryTypeOK /\ 1 \in 1 .. MaxNesting
  BY CommitLevel DEF StoreInv
<1>2. /\ Clean' /\ Past' /\ table' \in [Keys -> Values \cup {None}]
      /\ disturbed' \in [Clients -> SUBSET Keys]
  BY SetTableKeeps
<1>3. /\ values' \in [Clients -> [1 .. MaxNesting -> [Keys -> Values \cup {None}]]]
      /\ deleted' \in [Clients -> [1 .. MaxNesting -> SUBSET Keys]]
      /\ \A e \in Clients, d \in 1 .. MaxNesting : d # 1 \/ e # c =>
            values'[e][d] = values[e][d] /\ deleted'[e][d] = deleted[e][d]
      /\ \A j \in Keys : values'[c][1][j] \in {None, values[c][1][j]}
  <2>0. values \in Overlays
    BY <1>1 DEF MemoryTypeOK, Overlays
  <2>1. /\ values \in [Clients -> [1 .. MaxNesting -> [Keys -> Values \cup {None}]]]
        /\ deleted \in [Clients -> [1 .. MaxNesting -> SUBSET Keys]]
    BY <1>1 DEF MemoryTypeOK
  <2>2. CASE UNCHANGED values /\ deleted' = [deleted EXCEPT ![c][1] = @ \ {k}]
    <3>1. deleted[c][1] \ {k} \in SUBSET Keys
      BY <1>1, LevelTypes
    <3> QED
      BY <1>1, <2>1, <2>2, <3>1, Update2
  <2>3. CASE values' = [values EXCEPT ![c][1][k] = None] /\ UNCHANGED deleted
    <3>1. values' = Put(values, c, 1, k, None)
      BY <2>3 DEF Put
    <3>2. values' \in Overlays
      BY <1>1, <2>0, <3>1, PutValue
    <3>3. \A j \in Keys : values'[c][1][j] \in {None, values[c][1][j]}
      BY <1>1, <2>0, <3>1, PutValue
    <3>4. \A e \in Clients, d \in 1 .. MaxNesting : d # 1 \/ e # c =>
             values'[e][d] = values[e][d]
      BY <1>1, <2>0, <3>1, PutValue
    <3> QED
      BY <2>1, <2>3, <3>2, <3>3, <3>4 DEF Overlays
  <2> QED
    BY <2>2, <2>3
<1>4. ASSUME NEW e \in Clients, NEW d \in 1 .. MaxNesting, d > depth[e]
      PROVE  values'[e][d] = values[e][d] /\ deleted'[e][d] = deleted[e][d]
  <2>1. d # 1 \/ e # c
    BY <1>4
  <2> QED
    BY <1>3, <2>1
<1>5. MemoryTypeOK'
  BY <1>1, <1>2, <1>3, <1>4 DEF MemoryTypeOK
<1>6. Chains'
  BY DEF StoreInv, Chains, Chained, InTx
<1>7. ASSUME NEW e \in Clients, NEW j \in Keys
      PROVE  /\ \A d \in 1 .. MaxNesting : values'[e][d][j] \in {None, Tag(e)}
             /\ mine'[e][j] \in {None, Untouched, Tag(e)}
  BY <1>3 DEF StoreInv, OwnTags
<1>8. OwnTags'
  BY <1>7 DEF OwnTags, Tag
<1> QED
  BY <1>2, <1>5, <1>6, <1>8 DEF StoreInv

(* A step of a commit into the transaction around it. *)
LEMMA CommitNestedStep ==
  ASSUME StoreInv, NEW c \in Clients, pc[c] = "commit",
         values' \in [Clients -> [1 .. MaxNesting -> [Keys -> Values \cup {None}]]],
         deleted' \in [Clients -> [1 .. MaxNesting -> SUBSET Keys]],
         \A e \in Clients, d \in 1 .. MaxNesting : d > depth[e] =>
             values'[e][d] = values[e][d] /\ deleted'[e][d] = deleted[e][d],
         \A e \in Clients, d \in 1 .. MaxNesting, k \in Keys :
             values'[e][d][k] \in {None, Tag(e)},
         UNCHANGED <<table, disturbed, depth, pc, key, todo, n, rolledBack, mine>>
  PROVE  StoreInv'
<1>1. MemoryTypeOK
  BY DEF StoreInv
<1>2. MemoryTypeOK'
  BY <1>1 DEF MemoryTypeOK
<1>3. Chains' /\ OwnTags'
  BY DEF StoreInv, Chains, Chained, OwnTags, InTx, Tag
<1> QED
  BY <1>2, <1>3, QuietStep

LEMMA CommitDelStep ==
  ASSUME StoreInv, NEW c \in Clients, NEW k \in Keys, CommitDel(c, k)
  PROVE  StoreInv'
<1>1. PICK d : d = depth[c]
  OBVIOUS
<1>2. /\ MemoryTypeOK /\ pc[c] = "commit" /\ d \in 1 .. MaxNesting
      /\ d # 1 => d - 1 \in 1 .. MaxNesting
      /\ UNCHANGED <<depth, pc, key, todo, n, rolledBack, mine>>
  BY <1>1, CommitLevel DEF StoreInv, CommitDel
<1>3. CASE d = 1
  <2>1. /\ setTable(c, k, None) /\ deleted' = [deleted EXCEPT ![c][1] = @ \ {k}]
        /\ UNCHANGED values
    BY <1>1, <1>3 DEF CommitDel
  <2> QED
    BY <1>1, <1>2, <1>3, <2>1, CommitTopStep
<1>4. CASE d # 1
  <2>1. /\ UNCHANGED <<table, disturbed>>
        /\ \/ /\ deleted' = [deleted EXCEPT ![c][d] = @ \ {k}]
              /\ UNCHANGED values
           \/ /\ deleted' = [deleted EXCEPT ![c][d] = @ \ {k}, ![c][d - 1] = @ \cup {k}]
              /\ values' = [values EXCEPT ![c][d - 1][k] = None]
    BY <1>1, <1>4 DEF CommitDel
  <2>2. /\ values \in [Clients -> [1 .. MaxNesting -> [Keys -> Values \cup {None}]]]
        /\ deleted \in [Clients -> [1 .. MaxNesting -> SUBSET Keys]]
    BY <1>2 DEF MemoryTypeOK
  <2>3. /\ values' \in [Clients -> [1 .. MaxNesting -> [Keys -> Values \cup {None}]]]
        /\ \A e \in Clients, l \in 1 .. MaxNesting : l # d - 1 \/ e # c =>
              values'[e][l] = values[e][l]
        /\ \A j \in Keys : values'[c][d - 1][j] \in {None, values[c][d - 1][j]}
    <3>1. CASE UNCHANGED values
      BY <2>2, <3>1
    <3>2. CASE values' = [values EXCEPT ![c][d - 1][k] = None]
      <4>1. d - 1 \in 1 .. MaxNesting
        BY <1>2, <1>4
      <4>2. values' = Put(values, c, d - 1, k, None) /\ values \in Overlays
        BY <2>2, <3>2 DEF Put, Overlays
      <4>3. values' \in Overlays
        BY <4>1, <4>2, PutValue
      <4>4. \A j \in Keys : values'[c][d - 1][j] \in {None, values[c][d - 1][j]}
        BY <4>1, <4>2, PutValue
      <4>5. \A e \in Clients, l \in 1 .. MaxNesting : l # d - 1 \/ e # c =>
               values'[e][l] = values[e][l]
        BY <4>1, <4>2, PutValue
      <4> QED
        BY <4>3, <4>4, <4>5 DEF Overlays
    <3> QED
      BY <2>1, <3>1, <3>2
  <2>4. /\ deleted' \in [Clients -> [1 .. MaxNesting -> SUBSET Keys]]
        /\ \A e \in Clients, l \in 1 .. MaxNesting : (l # d /\ l # d - 1) \/ e # c =>
              deleted'[e][l] = deleted[e][l]
    <3> DEFINE less == [deleted EXCEPT ![c][d] = @ \ {k}]
    <3>1. deleted[c][d] \ {k} \in SUBSET Keys
      BY <1>2, LevelTypes
    <3>2. /\ less \in [Clients -> [1 .. MaxNesting -> SUBSET Keys]]
          /\ \A e \in Clients, l \in 1 .. MaxNesting : l # d \/ e # c =>
                less[e][l] = deleted[e][l]
      BY <1>2, <2>2, <3>1, Update2
    <3>3. CASE deleted' = less
      BY <3>2, <3>3
    <3>4. CASE deleted' = [less EXCEPT ![c][d - 1] = @ \cup {k}]
      <4> HIDE DEF less
      <4>1. less[c] \in [1 .. MaxNesting -> SUBSET Keys]
        BY <3>2
      <4>2. less[c][d - 1] \in SUBSET Keys
        BY <1>2, <1>4, <4>1
      <4>3. less[c][d - 1] \cup {k} \in SUBSET Keys /\ d - 1 \in 1 .. MaxNesting
        BY <1>2, <1>4, <4>2
      <4> QED
        BY <3>2, <3>4, <4>3, Update2
    <3> QED
      BY <2>1, <3>3, <3>4
  <2>5. ASSUME NEW e \in Clients, NEW l \in 1 .. MaxNesting, l > depth[e]
        PROVE  values'[e][l] = values[e][l] /\ deleted'[e][l] = deleted[e][l]
    <3>1. (l # d /\ l # d - 1) \/ e # c
      BY <1>1, <1>2, <2>5
    <3> QED
      BY <2>3, <2>4, <3>1
  <2>6. ASSUME NEW e \in Clients, NEW l \in 1 .. MaxNesting, NEW j \in Keys
        PROVE  values'[e][l][j] \in {None, Tag(e)}
    BY <2>3 DEF StoreInv, OwnTags
  <2> QED
    BY <1>2, <2>1, <2>3, <2>4, <2>5, <2>6, CommitNestedStep
<1> QED
  BY <1>3, <1>4

LEMMA CommitSetStep ==
  ASSUME StoreInv, NEW c \in Clients, NEW k \in Keys, CommitSet(c, k)
  PROVE  StoreInv'
<1>1. PICK d : d = depth[c]
  OBVIOUS
<1>2. /\ MemoryTypeOK /\ pc[c] = "commit" /\ d \in 1 .. MaxNesting
      /\ d # 1 => d - 1 \in 1 .. MaxNesting
      /\ UNCHANGED <<depth, deleted, pc, key, todo, n, rolledBack, mine>>
  BY <1>1, CommitLevel DEF StoreInv, CommitSet
<1>3. values[c][d][k] = Tag(c)
  BY <1>1, <1>2 DEF StoreInv, OwnTags, CommitSet
<1>4. CASE d = 1
  <2>1. setTable(c, k, Tag(c)) /\ values' = [values EXCEPT ![c][1][k] = None]
    BY <1>1, <1>3, <1>4 DEF CommitSet
  <2> QED
    BY <1>1, <1>2, <1>4, <2>1, CommitTopStep
<1>5. CASE d # 1
  <2>1. /\ UNCHANGED <<table, disturbed>>
        /\ values' = [values EXCEPT ![c][d][k] = None, ![c][d - 1][k] = Tag(c)]
    BY <1>1, <1>3, <1>5 DEF CommitSet
  <2>2. /\ values \in [Clients -> [1 .. MaxNesting -> [Keys -> Values \cup {None}]]]
        /\ deleted \in [Clients -> [1 .. MaxNesting -> SUBSET Keys]] /\ Tag(c) \in Values
    BY <1>2, Numbers DEF MemoryTypeOK
  <2>3. /\ values' \in [Clients -> [1 .. MaxNesting -> [Keys -> Values \cup {None}]]]
        /\ \A e \in Clients, l \in 1 .. MaxNesting : (l # d /\ l # d - 1) \/ e # c =>
              values'[e][l] = values[e][l]
        /\ \A j \in Keys : /\ values'[c][d][j] \in {None, values[c][d][j]}
                           /\ values'[c][d - 1][j] \in {Tag(c), values[c][d - 1][j]}
    <3>1. /\ None \in Values \cup {None} /\ Tag(c) \in Values \cup {None}
          /\ d - 1 \in 1 .. MaxNesting /\ d # d - 1 /\ values \in Overlays
      BY <1>2, <1>5, <2>2 DEF Overlays
    <3>2. PICK less : less = Put(values, c, d, k, None)
      OBVIOUS
    <3>3. /\ less \in Overlays /\ less[c][d][k] = None
          /\ \A e \in Clients, l \in 1 .. MaxNesting : l # d \/ e # c =>
                less[e][l] = values[e][l]
          /\ \A j \in Keys : j # k => less[c][d][j] = values[c][d][j]
      BY <1>2, <3>1, <3>2, PutValue
    <3>4. values' = Put(less, c, d - 1, k, Tag(c))
      BY <2>1, <3>2 DEF Put
    <3>5. /\ values' \in Overlays /\ values'[c][d - 1][k] = Tag(c)
          /\ \A e \in Clients, l \in 1 .. MaxNesting : l # d - 1 \/ e # c =>
                values'[e][l] = less[e][l]
          /\ \A j \in Keys : j # k => values'[c][d - 1][j] = less[c][d - 1][j]
      BY <3>1, <3>3, <3>4, PutValue
    <3>6. \A j \in Keys : /\ values'[c][d][j] \in {None, values[c][d][j]}
                          /\ values'[c][d - 1][j] \in {Tag(c), values[c][d - 1][j]}
      BY <1>2, <3>1, <3>3, <3>5
    <3>7. \A e \in Clients, l \in 1 .. MaxNesting : (l # d /\ l # d - 1) \/ e # c =>
              values'[e][l] = values[e][l]
      BY <3>3, <3>5
    <3> QED
      BY <3>5, <3>6, <3>7 DEF Overlays
  <2>4. ASSUME NEW e \in Clients, NEW l \in 1 .. MaxNesting, l > depth[e]
        PROVE  values'[e][l] = values[e][l]
    <3>1. (l # d /\ l # d - 1) \/ e # c
      BY <1>1, <1>2, <2>4
    <3> QED
      BY <2>3, <3>1
  <2>5. ASSUME NEW e \in Clients, NEW l \in 1 .. MaxNesting, NEW j \in Keys
        PROVE  values'[e][l][j] \in {None, Tag(e)}
    BY <2>3 DEF StoreInv, OwnTags
  <2> QED
    BY <1>2, <2>1, <2>2, <2>3, <2>4, <2>5, CommitNestedStep
<1> QED
  BY <1>4, <1>5

LEMMA AlwaysStoreInv == MemorySpec => []StoreInv
<1>1. StoreInv /\ [MemoryNext]_memoryVars => StoreInv'
  <2> SUFFICES ASSUME StoreInv, [MemoryNext]_memoryVars
               PROVE  StoreInv'
    OBVIOUS
  <2>1. ASSUME NEW c \in Clients, MemoryBeginTx(c)
        PROVE  StoreInv'
    <3>1. /\ pc[c] = "ready" /\ Begin(c) /\ pc' = [pc EXCEPT ![c] = "ready"]
          /\ key[c] \in Keys \cup {None} /\ key' = [key EXCEPT ![c] = key[c]]
      BY <2>1 DEF MemoryBeginTx, StoreInv, MemoryTypeOK
    <3> QED
      BY <3>1, BeginStep
  <2>2. ASSUME NEW c \in Clients, NEW k \in Keys, Save(c, k)
        PROVE  StoreInv'
    BY <2>2, BeginStep DEF Save
  <2>3. ASSUME NEW c \in Clients, NEW k \in Keys, Create(c, k) \/ Update(c, k)
        PROVE  StoreInv'
    BY <2>3, WriteStep DEF Create, Update
  <2>4. CASE UNCHANGED memoryVars
    BY <2>4 DEF memoryVars, StoreInv, MemoryTypeOK, Clean, Chains, Chained, OwnTags, Past, InTx, Tag
  <2> QED
    BY <2>1, <2>2, <2>3, <2>4, MoveStep, RollbackStep, SetStep, PurgeStep, SaveWriteStep,
       CommittedStep, DeleteStep, CommitDelStep, CommitSetStep
    DEF MemoryNext
<1> QED
  BY <1>1, InitStoreInv, PTL DEF MemorySpec

(* No dirty reads and full rollback, for any number of clients, keys and   *)
(* levels: the table has no value of a transaction that is open or was     *)
(* rolled back, and nothing is left of one that ended.                     *)
THEOREM NothingUncommitted == MemorySpec => []OnlyCommitted
<1>1. StoreInv => OnlyCommitted
  BY DEF StoreInv, Clean, OnlyCommitted
<1> QED
  BY <1>1, AlwaysStoreInv, PTL

----------------------------------------------------------------------------
(* What a transaction reads.  The lookup, as a function of the state it    *)
(* depends on: a table, and the overlays of a client.                      *)
Knows(vs, ds, e, k) == vs[e][k] # None \/ k \in ds[e]

LookupIn(t, vs, ds, d, k) ==
    LET know == {e \in 1 .. d : Knows(vs, ds, e, k)}
        top == CHOOSE e \in know : \A f \in know : f <= e
    IN  IF know = {} THEN t[k] ELSE vs[top][k]

LEMMA LookupDef ==
  /\ \A c, d, k : lookup(c, d, k) = LookupIn(table, values[c], deleted[c], d, k)
  /\ \A c, k : View(c, k)' = LookupIn(table', values'[c], deleted'[c], depth'[c], k)
BY DEF View, lookup, LookupIn, Touched, Knows

(* A non-empty set of natural numbers has a least element. *)
LEMMA LeastNatural ==
  ASSUME NEW T \in SUBSET Nat, T # {}
  PROVE  \E x \in T : \A y \in T : x <= y
<1> DEFINE R == OpToRel(<, Nat)
<1>1. IsWellFoundedOn(R, Nat)
  BY NatLessThanWellFounded
<1>2. \A x, y \in Nat : x < y => <<x, y>> \in R
  BY DEF OpToRel
<1> HIDE DEF R
<1>3. PICK x \in T : \A y \in T : ~(<<y, x>> \in R)
  BY <1>1, WFMin
<1>4. ASSUME NEW y \in T, y < x
      PROVE  FALSE
  <2>1. x \in Nat /\ y \in Nat
    OBVIOUS
  <2>2. <<y, x>> \in R
    BY <1>2, <1>4, <2>1
  <2> QED
    BY <1>3, <2>2
<1> QED
  BY <1>4

(* The innermost level that knows the key decides... *)
LEMMA LookupTop ==
  ASSUME NEW t, NEW vs, NEW ds, NEW d \in Nat, NEW k, NEW e \in 1 .. d,
         Knows(vs, ds, e, k), \A f \in 1 .. d : Knows(vs, ds, f, k) => f <= e
  PROVE  LookupIn(t, vs, ds, d, k) = vs[e][k]
<1> DEFINE know == {f \in 1 .. d : Knows(vs, ds, f, k)}
           top == CHOOSE f \in know : \A g \in know : g <= f
<1>1. e \in know /\ \A g \in know : g <= e
  OBVIOUS
<1>2. top \in know /\ \A g \in know : g <= top
  BY <1>1
<1>3. top = e
  <2>1. top <= e /\ e <= top
    BY <1>1, <1>2
  <2>2. top \in Nat /\ e \in Nat
    BY <1>2
  <2> HIDE DEF top
  <2> QED
    BY <2>1, <2>2
<1> QED
  BY <1>1, <1>3 DEF LookupIn

(* ... and the table if no level does. *)
LEMMA LookupTable ==
  ASSUME NEW t, NEW vs, NEW ds, NEW d, NEW k, \A e \in 1 .. d : ~Knows(vs, ds, e, k)
  PROVE  LookupIn(t, vs, ds, d, k) = t[k]
BY DEF LookupIn

(* One of the two is the case. *)
LEMMA LookupCases ==
  ASSUME NEW vs, NEW ds, NEW d \in Nat, NEW k
  PROVE  \/ \A e \in 1 .. d : ~Knows(vs, ds, e, k)
         \/ \E e \in 1 .. d : /\ Knows(vs, ds, e, k)
                              /\ \A f \in 1 .. d : Knows(vs, ds, f, k) => f <= e
<1> SUFFICES ASSUME NEW g \in 1 .. d, Knows(vs, ds, g, k)
             PROVE  \E e \in 1 .. d : /\ Knows(vs, ds, e, k)
                                      /\ \A f \in 1 .. d : Knows(vs, ds, f, k) => f <= e
  OBVIOUS
<1> DEFINE T == {x \in 0 .. d : d - x \in 1 .. d /\ Knows(vs, ds, d - x, k)}
<1>1. d - g \in T
  <2>1. d - (d - g) = g /\ d - g \in 0 .. d
    OBVIOUS
  <2> QED
    BY <2>1
<1>2. PICK x \in T : \A y \in T : x <= y
  <2>1. T \subseteq 0 .. d /\ 0 .. d \subseteq Nat
    OBVIOUS
  <2>2. T \in SUBSET Nat /\ T # {}
    BY <1>1, <2>1
  <2> HIDE DEF T
  <2> QED
    BY <2>2, LeastNatural
<1>3. ASSUME NEW f \in 1 .. d, Knows(vs, ds, f, k)
      PROVE  f <= d - x
  <2>1. d - (d - f) = f /\ d - f \in 0 .. d
    OBVIOUS
  <2>2. d - f \in T
    BY <1>3, <2>1
  <2>3. x <= d - f /\ x \in 0 .. d
    BY <1>2, <2>2
  <2> QED
    BY <2>3
<1> QED
  BY <1>3

(* The lookup depends on nothing else. *)
SameFor(t, vs, ds, t2, vs2, ds2, d, k) ==
    /\ d \in Nat /\ t2[k] = t[k]
    /\ \A e \in 1 .. d : vs2[e][k] = vs[e][k] /\ (k \in ds2[e] <=> k \in ds[e])

LEMMA LookupSame ==
  ASSUME NEW t, NEW vs, NEW ds, NEW t2, NEW vs2, NEW ds2, NEW d, NEW k,
         SameFor(t, vs, ds, t2, vs2, ds2, d, k)
  PROVE  LookupIn(t2, vs2, ds2, d, k) = LookupIn(t, vs, ds, d, k)
<1>1. \A e \in 1 .. d : Knows(vs2, ds2, e, k) <=> Knows(vs, ds, e, k)
  BY DEF Knows, SameFor
<1> USE DEF SameFor
<1>2. CASE \A e \in 1 .. d : ~Knows(vs, ds, e, k)
  BY <1>1, <1>2, LookupTable
<1>3. CASE \E e \in 1 .. d : /\ Knows(vs, ds, e, k)
                             /\ \A f \in 1 .. d : Knows(vs, ds, f, k) => f <= e
  <2>1. PICK e \in 1 .. d : /\ Knows(vs, ds, e, k)
                            /\ \A f \in 1 .. d : Knows(vs, ds, f, k) => f <= e
    BY <1>3
  <2>2. LookupIn(t, vs, ds, d, k) = vs[e][k]
    BY <2>1, LookupTop
  <2>3. LookupIn(t2, vs2, ds2, d, k) = vs2[e][k]
    BY <1>1, <2>1, LookupTop
  <2> QED
    BY <2>2, <2>3
<1> QED
  BY <1>2, <1>3, LookupCases

(* A level that does not know the key is as if it were not there. *)
LEMMA LookupBelow ==
  ASSUME NEW t, NEW vs, NEW ds, NEW d \in Nat \ {0}, NEW k, ~Knows(vs, ds, d, k)
  PROVE  LookupIn(t, vs, ds, d, k) = LookupIn(t, vs, ds, d - 1, k)
<1>1. /\ d - 1 \in Nat
      /\ \A e \in 1 .. d : e = d \/ e \in 1 .. d - 1
      /\ \A e \in 1 .. d - 1 : e \in 1 .. d
  OBVIOUS
<1>2. CASE \A e \in 1 .. d - 1 : ~Knows(vs, ds, e, k)
  BY <1>1, <1>2, LookupTable
<1>3. CASE \E e \in 1 .. d - 1 : /\ Knows(vs, ds, e, k)
                                 /\ \A f \in 1 .. d - 1 : Knows(vs, ds, f, k) => f <= e
  <2>1. PICK e \in 1 .. d - 1 : /\ Knows(vs, ds, e, k)
                                /\ \A f \in 1 .. d - 1 : Knows(vs, ds, f, k) => f <= e
    BY <1>3
  <2>2. LookupIn(t, vs, ds, d - 1, k) = vs[e][k]
    BY <1>1, <2>1, LookupTop
  <2>3. LookupIn(t, vs, ds, d, k) = vs[e][k]
    BY <1>1, <2>1, LookupTop
  <2> QED
    BY <2>2, <2>3
<1> QED
  BY <1>1, <1>2, <1>3, LookupCases

(* The innermost level, if it knows the key, has the answer. *)
LEMMA LookupHere ==
  ASSUME NEW t, NEW vs, NEW ds, NEW d \in Nat \ {0}, NEW k, Knows(vs, ds, d, k)
  PROVE  LookupIn(t, vs, ds, d, k) = vs[d][k]
<1>1. d \in 1 .. d /\ \A f \in 1 .. d : f <= d
  OBVIOUS
<1> QED
  BY <1>1, LookupTop

(* ReadsOwnWrites, as it holds between the steps of a commit too: only the *)
(* outermost commit, which moves values to where others overwrite them,    *)
(* takes from what a transaction sees of its own.                          *)
Reads(c, k) ==
    /\ InTx(c)
    /\ mine[c][k] # Untouched
    /\ \/ k \notin disturbed[c]
       \/ mine[c][k] # None /\ ~(pc[c] = "commit" /\ depth[c] = 1)
    => View(c, k) = mine[c][k]

OwnReads == \A c \in Clients, k \in Keys : Reads(c, k)

(* What others write to the table. *)
LEMMA OthersRead ==
  ASSUME StoreInv, NEW e \in Clients, NEW k \in Keys, Reads(e, k),
         /\ values'[e] = values[e] /\ deleted'[e] = deleted[e] /\ mine'[e] = mine[e]
         /\ depth'[e] = depth[e] /\ pc'[e] = pc[e],
         disturbed[e] \subseteq disturbed'[e],
         table'[k] = table[k] \/ (InTx(e) => k \in disturbed'[e])
  PROVE  Reads(e, k)'
<1> SUFFICES ASSUME InTx(e), mine[e][k] # Untouched,
                    \/ k \notin disturbed'[e]
                    \/ mine[e][k] # None /\ ~(pc[e] = "commit" /\ depth[e] = 1)
             PROVE  View(e, k)' = mine[e][k]
  BY DEF Reads, InTx
<1> DEFINE vs == values[e]
           ds == deleted[e]
           d == depth[e]
<1>1. /\ View(e, k)' = LookupIn(table', vs, ds, d, k)
      /\ View(e, k) = LookupIn(table, vs, ds, d, k)
  BY LookupDef DEF View
<1>2. View(e, k) = mine[e][k]
  BY DEF Reads
<1>3. d \in Nat
  BY Numbers DEF StoreInv
<1> HIDE DEF vs, ds, d
<1>4. CASE table'[k] = table[k]
  <2>1. LookupIn(table', vs, ds, d, k) = LookupIn(table, vs, ds, d, k)
    <3>1. SameFor(table, vs, ds, table', vs, ds, d, k)
      BY <1>3, <1>4 DEF SameFor
    <3> QED
      BY <3>1, LookupSame
  <2> QED
    BY <1>1, <1>2, <2>1
<1>5. CASE k \in disturbed'[e]
  <2>1. mine[e][k] = Tag(e) /\ Tag(e) # None
    BY <1>5, Numbers DEF StoreInv, OwnTags
  <2>2. CASE \A f \in 1 .. d : ~Knows(vs, ds, f, k)
    <3>1. LookupIn(table, vs, ds, d, k) = table[k]
      BY <2>2, LookupTable
    <3>2. table[k] = Tag(e)
      BY <1>1, <1>2, <2>1, <3>1
    <3> QED
      BY <1>5, <2>1, <3>2 DEF StoreInv, Clean
  <2>3. CASE \E f \in 1 .. d : /\ Knows(vs, ds, f, k)
                               /\ \A g \in 1 .. d : Knows(vs, ds, g, k) => g <= f
    <3>1. PICK f \in 1 .. d : /\ Knows(vs, ds, f, k)
                              /\ \A g \in 1 .. d : Knows(vs, ds, g, k) => g <= f
      BY <2>3
    <3>2. LookupIn(table', vs, ds, d, k) = vs[f][k] /\ LookupIn(table, vs, ds, d, k) = vs[f][k]
      BY <1>3, <3>1, LookupTop
    <3> QED
      BY <1>1, <1>2, <3>2
  <2> QED
    BY <1>3, <2>2, <2>3, LookupCases
<1> QED
  BY <1>4, <1>5

(* Nothing that the lookup of the key depends on changes. *)
LEMMA SameRead ==
  ASSUME StoreInv, NEW c \in Clients, NEW k \in Keys, Reads(c, k),
         mine'[c][k] = mine[c][k], disturbed'[c] = disturbed[c], depth'[c] = depth[c],
         pc'[c] = "commit" \/ pc[c] # "commit", table'[k] = table[k],
         \A d \in 1 .. MaxNesting : /\ values'[c][d][k] = values[c][d][k]
                                    /\ k \in deleted'[c][d] <=> k \in deleted[c][d]
  PROVE  Reads(c, k)'
<1>1. /\ depth[c] \in Nat /\ depth[c] <= MaxNesting /\ MaxNesting \in Nat
  BY Numbers DEF StoreInv
<1>2. \A d \in 1 .. depth[c] : d \in 1 .. MaxNesting
  BY <1>1
<1>3. LookupIn(table', values'[c], deleted'[c], depth[c], k)
        = LookupIn(table, values[c], deleted[c], depth[c], k)
  <2> DEFINE vs == values[c]
             ds == deleted[c]
             d == depth[c]
             vs2 == values'[c]
             ds2 == deleted'[c]
  <2>1. SameFor(table, vs, ds, table', vs2, ds2, d, k)
    BY <1>1, <1>2 DEF SameFor
  <2> HIDE DEF vs, ds, d, vs2, ds2
  <2>2. LookupIn(table', vs2, ds2, d, k) = LookupIn(table, vs, ds, d, k)
    BY <2>1, LookupSame
  <2> QED
    BY <2>2 DEF vs, ds, d, vs2, ds2
<1>4. View(c, k)' = View(c, k)
  BY <1>3, LookupDef DEF View
<1> QED
  BY <1>4 DEF Reads, InTx

(* A step of one client changes the state of no other, and tells it which  *)
(* keys of the table it writes.                                            *)
Apart(c) == \A e \in Clients \ {c} :
    /\ values'[e] = values[e] /\ deleted'[e] = deleted[e] /\ mine'[e] = mine[e]
    /\ depth'[e] = depth[e] /\ pc'[e] = pc[e]
    /\ disturbed[e] \subseteq disturbed'[e]
    /\ \A k \in Keys : table'[k] = table[k] \/ (InTx(e) => k \in disturbed'[e])

LEMMA ApartReads ==
  ASSUME StoreInv, OwnReads, NEW c \in Clients, Apart(c), \A k \in Keys : Reads(c, k)'
  PROVE  OwnReads'
<1>1. ASSUME NEW e \in Clients, NEW k \in Keys, e # c
      PROVE  Reads(e, k)'
  <2>1. /\ values'[e] = values[e] /\ deleted'[e] = deleted[e] /\ mine'[e] = mine[e]
        /\ depth'[e] = depth[e] /\ pc'[e] = pc[e]
        /\ disturbed[e] \subseteq disturbed'[e]
        /\ table'[k] = table[k] \/ (InTx(e) => k \in disturbed'[e])
    BY <1>1 DEF Apart
  <2> QED
    BY <2>1, OthersRead DEF OwnReads
<1> QED
  BY <1>1 DEF OwnReads

LEMMA SetTableApart ==
  ASSUME MemoryTypeOK, NEW c \in Clients, NEW k \in Keys, NEW v, setTable(c, k, v),
         NEW e \in Clients, e # c
  PROVE  /\ disturbed[e] \subseteq disturbed'[e]
         /\ \A j \in Keys : table'[j] = table[j] \/ (InTx(e) => j \in disturbed'[e])
<1>1. /\ table \in [Keys -> Values \cup {None}] /\ disturbed \in [Clients -> SUBSET Keys]
  BY DEF MemoryTypeOK
<1>2. disturbed'[e] = IF InTx(e) THEN disturbed[e] \cup {k} ELSE disturbed[e]
  BY DEF setTable
<1>3. \A j \in Keys : j # k => table'[j] = table[j]
  BY <1>1 DEF setTable
<1> QED
  BY <1>2, <1>3

(* No transaction, nothing to read. *)
LEMMA OutsideReads ==
  ASSUME NEW c \in Clients, ~InTx(c)'
  PROVE  \A k \in Keys : Reads(c, k)'
BY DEF Reads

(* A write of the innermost transaction is what is read next. *)
LEMMA HereReads ==
  ASSUME NEW c \in Clients, NEW k \in Keys, depth'[c] \in Nat \ {0},
         Knows(values'[c], deleted'[c], depth'[c], k),
         values'[c][depth'[c]][k] = mine'[c][k]
  PROVE  Reads(c, k)'
<1> DEFINE vs == values'[c]
           ds == deleted'[c]
           d == depth'[c]
<1>1. View(c, k)' = LookupIn(table', vs, ds, d, k)
  BY LookupDef
<1>2. Knows(vs, ds, d, k) /\ d \in Nat \ {0}
  OBVIOUS
<1>3. LookupIn(table', vs, ds, d, k) = vs[d][k]
  <2> HIDE DEF vs, ds, d
  <2> QED
    BY <1>2, LookupHere
<1> QED
  BY <1>1, <1>3 DEF Reads

LEMMA SetTxReads ==
  ASSUME StoreInv, OwnReads, NEW c \in Clients, NEW k \in Keys, InTx(c), setTx(c, k),
         UNCHANGED <<table, depth, deleted, disturbed>>,
         pc'[c] = "commit" \/ pc[c] # "commit",
         \A e \in Clients : e # c => pc'[e] = pc[e]
  PROVE  OwnReads'
<1>1. MemoryTypeOK /\ depth[c] \in 1 .. MaxNesting /\ Tag(c) \in Values \cup {None} /\ Tag(c) # None
      /\ depth[c] \in Nat \ {0}
  BY Numbers DEF StoreInv, InTx
<1>2. PICK d : d = depth[c]
  OBVIOUS
<1>3. values \in Overlays /\ values' = Put(values, c, d, k, Tag(c))
  BY <1>1, <1>2 DEF setTx, Put, Overlays, MemoryTypeOK
<1>4. /\ values'[c][d][k] = Tag(c)
      /\ \A x \in Clients, y \in 1 .. MaxNesting : x # c \/ y # d => values'[x][y] = values[x][y]
      /\ \A z \in Keys : z # k => values'[c][d][z] = values[c][d][z]
      /\ values' \in Overlays
  BY <1>1, <1>2, <1>3, PutValue
<1>5. mine' = [mine EXCEPT ![c][k] = Tag(c)]
      /\ mine \in [Clients -> [Keys -> Values \cup {None, Untouched}]]
  BY <1>1 DEF setTx, MemoryTypeOK
<1>6. Reads(c, k)'
  <2>1. mine'[c][k] = Tag(c)
    BY <1>5
  <2> QED
    BY <1>1, <1>2, <1>4, <2>1, HereReads DEF Knows
<1>7. ASSUME NEW j \in Keys, j # k
      PROVE  Reads(c, j)'
  <2>1. mine'[c][j] = mine[c][j]
    BY <1>5, <1>7
  <2>2. ASSUME NEW l \in 1 .. MaxNesting
        PROVE  values'[c][l][j] = values[c][l][j]
    BY <1>4, <1>7
  <2> QED
    BY <2>1, <2>2, SameRead DEF OwnReads
<1>8. Apart(c)
  <2>1. \A e \in Clients : e # c => values'[e] = values[e]
    BY <1>3 DEF Put, Overlays
  <2>2. \A e \in Clients : e # c => mine'[e] = mine[e]
    BY <1>5
  <2> QED
    BY <2>1, <2>2 DEF Apart
<1> QED
  BY <1>6, <1>7, <1>8, ApartReads

LEMMA DelTxReads ==
  ASSUME StoreInv, OwnReads, NEW c \in Clients, NEW k \in Keys, InTx(c), delTx(c, k),
         UNCHANGED <<table, depth, disturbed>>, pc[c] # "commit",
         \A e \in Clients : e # c => pc'[e] = pc[e]
  PROVE  OwnReads'
<1>1. MemoryTypeOK /\ depth[c] \in 1 .. MaxNesting /\ depth[c] \in Nat \ {0}
  BY Numbers DEF StoreInv, InTx
<1>2. PICK d : d = depth[c]
  OBVIOUS
<1>3. values \in Overlays /\ values' = Put(values, c, d, k, None)
  BY <1>1, <1>2 DEF delTx, Put, Overlays, MemoryTypeOK
<1>4. /\ values'[c][d][k] = None
      /\ \A x \in Clients, y \in 1 .. MaxNesting : x # c \/ y # d => values'[x][y] = values[x][y]
      /\ \A z \in Keys : z # k => values'[c][d][z] = values[c][d][z]
      /\ values' \in Overlays
  BY <1>1, <1>2, <1>3, PutValue
<1>5. mine' = [mine EXCEPT ![c][k] = None]
      /\ mine \in [Clients -> [Keys -> Values \cup {None, Untouched}]]
  BY <1>1 DEF delTx, MemoryTypeOK
<1>6. /\ deleted \in [Clients -> [1 .. MaxNesting -> SUBSET Keys]]
      /\ deleted' = [deleted EXCEPT ![c][d] = @ \cup {k}]
  BY <1>1, <1>2 DEF delTx, MemoryTypeOK
<1>7. /\ deleted'[c][d] = deleted[c][d] \cup {k}
      /\ \A l \in 1 .. MaxNesting : l # d => deleted'[c][l] = deleted[c][l]
      /\ \A e \in Clients : e # c => deleted'[e] = deleted[e]
  BY <1>1, <1>2, <1>6
<1>8. Reads(c, k)'
  <2>1. mine'[c][k] = None
    BY <1>5
  <2> QED
    BY <1>1, <1>2, <1>4, <1>7, <2>1, HereReads DEF Knows
<1>9. ASSUME NEW j \in Keys, j # k
      PROVE  Reads(c, j)'
  <2>1. mine'[c][j] = mine[c][j]
    BY <1>5, <1>9
  <2>2. ASSUME NEW l \in 1 .. MaxNesting
        PROVE  /\ values'[c][l][j] = values[c][l][j]
               /\ j \in deleted'[c][l] <=> j \in deleted[c][l]
    BY <1>4, <1>7, <1>9
  <2> QED
    BY <2>1, <2>2, SameRead DEF OwnReads
<1>10. Apart(c)
  <2>1. \A e \in Clients : e # c => values'[e] = values[e]
    BY <1>3 DEF Put, Overlays
  <2>2. \A e \in Clients : e # c => mine'[e] = mine[e]
    BY <1>5
  <2> QED
    BY <1>7, <2>1, <2>2 DEF Apart
<1> QED
  BY <1>8, <1>9, <1>10, ApartReads

(* Memory.BeginTx: the new level knows no key. *)
LEMMA BeginReads ==
  ASSUME StoreInv, OwnReads, NEW c \in Clients, pc[c] = "ready", Begin(c),
         \A e \in Clients : e # c => pc'[e] = pc[e]
  PROVE  OwnReads'
<1>1. /\ MemoryTypeOK /\ depth[c] < Nesting[c] /\ depth' = [depth EXCEPT ![c] = @ + 1]
      /\ UNCHANGED <<table, values, deleted, mine, disturbed>>
  BY DEF StoreInv, Begin
<1>2. /\ depth[c] \in Nat /\ MaxNesting \in Nat /\ Nesting[c] \in 1 .. MaxNesting
      /\ depth'[c] = depth[c] + 1
  BY <1>1, Numbers, NestingAssumption DEF MemoryTypeOK
<1>3. /\ depth'[c] \in 1 .. MaxNesting /\ depth'[c] > depth[c]
      /\ depth'[c] \in Nat \ {0} /\ depth'[c] - 1 = depth[c]
  BY <1>1, <1>2
<1>4. Apart(c)
  BY <1>1 DEF Apart, MemoryTypeOK
<1>5. ASSUME NEW k \in Keys
      PROVE  Reads(c, k)'
  <2>1. CASE ~InTx(c)
    <3>1. mine'[c][k] = Untouched
      BY <1>1, <2>1 DEF StoreInv, Chains, Chained
    <3> QED
      BY <3>1 DEF Reads
  <2>2. CASE InTx(c)
    <3> DEFINE vs == values[c]
               ds == deleted[c]
               d == depth'[c]
    <3>1. ~Knows(vs, ds, d, k)
      BY <1>1, <1>3 DEF MemoryTypeOK, Knows, NoChanges
    <3>2. d \in Nat \ {0} /\ d - 1 = depth[c]
      BY <1>3
    <3>3. /\ View(c, k)' = LookupIn(table, vs, ds, d, k)
          /\ View(c, k) = LookupIn(table, vs, ds, depth[c], k)
      BY <1>1, LookupDef DEF View
    <3> HIDE DEF vs, ds, d
    <3>4. LookupIn(table, vs, ds, d, k) = LookupIn(table, vs, ds, d - 1, k)
      BY <3>1, <3>2, LookupBelow
    <3>5. View(c, k)' = View(c, k)
      BY <3>2, <3>3, <3>4
    <3> QED
      BY <1>1, <2>2, <3>5 DEF OwnReads, Reads
  <2> QED
    BY <2>1, <2>2
<1> QED
  BY <1>4, <1>5, ApartReads

(* A write to the table outside of a transaction. *)
LEMMA TableReads ==
  ASSUME StoreInv, OwnReads, NEW c \in Clients, ~InTx(c), NEW k \in Keys, NEW v,
         setTable(c, k, v), UNCHANGED <<depth, values, deleted, mine>>,
         \A e \in Clients : e # c => pc'[e] = pc[e]
  PROVE  OwnReads'
<1>1. MemoryTypeOK
  BY DEF StoreInv
<1>2. ASSUME NEW e \in Clients, e # c
      PROVE  /\ disturbed[e] \subseteq disturbed'[e]
             /\ \A j \in Keys : table'[j] = table[j] \/ (InTx(e) => j \in disturbed'[e])
  BY <1>1, <1>2, SetTableApart
<1>3. Apart(c)
  BY <1>2 DEF Apart
<1>4. ~InTx(c)'
  BY DEF InTx
<1> QED
  BY <1>3, <1>4, OutsideReads, ApartReads

(* A step that touches neither the table nor the overlays. *)
LEMMA QuietReads ==
  ASSUME StoreInv, OwnReads, NEW c \in Clients,
         UNCHANGED <<table, depth, values, deleted, mine, disturbed>>,
         pc'[c] = "commit" \/ pc[c] # "commit",
         \A e \in Clients : e # c => pc'[e] = pc[e]
  PROVE  OwnReads'
<1>1. Apart(c)
  BY DEF Apart
<1>2. \A k \in Keys : Reads(c, k)'
  BY SameRead DEF OwnReads
<1> QED
  BY <1>1, <1>2, ApartReads

LEMMA DelReads ==
  ASSUME StoreInv, OwnReads, NEW c \in Clients, NEW k \in Keys, del(c, k),
         UNCHANGED depth, pc[c] \in {"ready", "deleting"},
         \A e \in Clients : e # c => pc'[e] = pc[e]
  PROVE  OwnReads'
<1>1. CASE InTx(c)
  BY <1>1, DelTxReads DEF del
<1>2. CASE ~InTx(c)
  BY <1>2, TableReads DEF del
<1> QED
  BY <1>1, <1>2

(* The end of a chain. *)
LEMMA EndReads ==
  ASSUME StoreInv, NEW c \in Clients, OwnReads, EndChain(c), UNCHANGED table,
         \A e \in Clients : e # c => /\ pc'[e] = pc[e] /\ values'[e] = values[e]
                                     /\ deleted'[e] = deleted[e]
  PROVE  OwnReads'
<1>1. MemoryTypeOK
  BY DEF StoreInv
<1>2. Apart(c)
  BY <1>1 DEF Apart, EndChain, MemoryTypeOK
<1>3. ~InTx(c)'
  BY <1>1 DEF InTx, EndChain, MemoryTypeOK
<1> QED
  BY <1>2, <1>3, OutsideReads, ApartReads

(* All but the commit. *)
LEMMA ClientReads ==
  ASSUME StoreInv, OwnReads, NEW c \in Clients,
         \/ MemoryBeginTx(c) \/ MemoryCommitTx(c) \/ MemoryRollbackTx(c)
         \/ Set(c) \/ DeleteAll(c) \/ PurgeNamespace(c)
         \/ SaveFind(c) \/ SaveWrite(c)
         \/ \E k \in Keys : \/ Create(c, k) \/ Update(c, k) \/ DeleteByID(c, k)
                            \/ DeleteNext(c, k) \/ Save(c, k)
  PROVE  OwnReads'
<1>1. MemoryTypeOK /\ pc \in [Clients -> {"ready", "set", "deleting", "commit", "save", "saveCreate",
                                          "saveUpdate"}]
  BY DEF StoreInv, MemoryTypeOK
<1>2. CASE MemoryBeginTx(c) \/ \E k \in Keys : Save(c, k)
  BY <1>1, <1>2, BeginReads DEF MemoryBeginTx, Save
<1>3. CASE MemoryCommitTx(c) \/ DeleteAll(c) \/ SaveFind(c)
  BY <1>1, <1>3, QuietReads DEF MemoryCommitTx, DeleteAll, SaveFind, txVars, ghosts
<1>4. CASE MemoryRollbackTx(c)
  <2>1. \A e \in Clients : e # c => values'[e] = values[e] /\ deleted'[e] = deleted[e]
    BY <1>1, <1>4 DEF MemoryRollbackTx, Rollback, MemoryTypeOK
  <2> QED
    BY <1>4, <2>1, EndReads DEF MemoryRollbackTx, Rollback
<1>5. CASE Set(c)
  <2>1. key[c] \in Keys /\ ~InTx(c)
    BY <1>5 DEF Set, StoreInv, Chains, Chained
  <2>2. \A e \in Clients : e # c => pc'[e] = pc[e]
    BY <1>1, <1>5 DEF Set
  <2> QED
    BY <1>5, <2>1, <2>2, TableReads DEF Set, txVars
<1>6. CASE PurgeNamespace(c)
  <2>1. Apart(c)
    <3>1. ASSUME NEW e \in Clients, e # c
          PROVE  /\ disturbed[e] \subseteq disturbed'[e]
                 /\ \A k \in Keys : InTx(e) => k \in disturbed'[e]
      <4>1. disturbed'[e] = IF InTx(e) THEN Keys ELSE disturbed[e]
        BY <1>6, <3>1 DEF PurgeNamespace
      <4>2. disturbed[e] \subseteq Keys
        BY <1>1 DEF MemoryTypeOK
      <4> QED
        BY <4>1, <4>2
    <3> QED
      BY <1>6, <3>1 DEF Apart, PurgeNamespace, txVars
  <2>2. ~InTx(c)'
    BY <1>6 DEF PurgeNamespace, InTx, txVars
  <2> QED
    BY <2>1, <2>2, OutsideReads, ApartReads
<1>7. CASE SaveWrite(c)
  <2>1. InTx(c) /\ key[c] \in Keys /\ UNCHANGED table
    BY <1>7 DEF SaveWrite, StoreInv, Chains, Chained
  <2>2. CASE setTx(c, key[c]) /\ pc' = [pc EXCEPT ![c] = "commit"]
             /\ UNCHANGED <<depth, deleted, n, rolledBack, disturbed>>
    BY <1>1, <2>1, <2>2, SetTxReads
  <2>3. CASE Rollback(c) /\ pc' = [pc EXCEPT ![c] = "ready"]
    <3>1. \A e \in Clients : e # c => values'[e] = values[e] /\ deleted'[e] = deleted[e]
      BY <1>1, <2>3 DEF Rollback, MemoryTypeOK
    <3>2. \A e \in Clients : e # c => pc'[e] = pc[e]
      BY <1>1, <2>3
    <3> QED
      BY <2>1, <2>3, <3>1, <3>2, EndReads DEF Rollback
  <2> QED
    BY <1>7, <2>2, <2>3 DEF SaveWrite
<1>8. ASSUME NEW k \in Keys, Create(c, k) \/ Update(c, k)
      PROVE  OwnReads'
  <2>1. WriteKey(c, k)
    BY <1>8 DEF Create, Update
  <2>2. pc[c] = "ready" /\ \A e \in Clients : e # c => pc'[e] = pc[e]
    BY <1>1, <2>1 DEF WriteKey
  <2>3. CASE InTx(c)
    BY <2>1, <2>2, <2>3, SetTxReads DEF WriteKey
  <2>4. CASE ~InTx(c)
    BY <2>1, <2>2, <2>4, QuietReads DEF WriteKey
  <2> QED
    BY <2>3, <2>4
<1>9. ASSUME NEW k \in Keys, DeleteByID(c, k)
      PROVE  OwnReads'
  BY <1>9, DelReads DEF DeleteByID
<1>10. ASSUME NEW k \in Keys, DeleteNext(c, k)
       PROVE  OwnReads'
  <2>1. /\ pc[c] = "deleting" /\ UNCHANGED depth
        /\ \A e \in Clients : e # c => pc'[e] = pc[e]
    BY <1>1, <1>10 DEF DeleteNext
  <2>2. CASE del(c, k)
    BY <2>1, <2>2, DelReads
  <2>3. CASE UNCHANGED <<table, values, deleted, mine, disturbed>>
    BY <2>1, <2>3, QuietReads
  <2> QED
    BY <1>10, <2>2, <2>3 DEF DeleteNext
<1> QED
  BY <1>2, <1>3, <1>4, <1>5, <1>6, <1>7, <1>8, <1>9, <1>10

(* A step of a commit moves what is known of one key a level down, without *)
(* a change of what the client sees.                                       *)
LEMMA MovedReads ==
  ASSUME StoreInv, OwnReads, NEW c \in Clients, NEW k \in Keys, Apart(c),
         mine'[c] = mine[c], disturbed'[c] = disturbed[c], depth'[c] = depth[c],
         pc'[c] = pc[c],
         \A j \in Keys : j # k => /\ table'[j] = table[j]
                                  /\ \A l \in 1 .. MaxNesting :
                                        /\ values'[c][l][j] = values[c][l][j]
                                        /\ j \in deleted'[c][l] <=> j \in deleted[c][l],
         View(c, k)' = View(c, k)
  PROVE  OwnReads'
<1>1. Reads(c, k)'
  BY DEF OwnReads, Reads, InTx
<1>2. ASSUME NEW j \in Keys, j # k
      PROVE  Reads(c, j)'
  BY <1>2, SameRead DEF OwnReads
<1> QED
  BY <1>1, <1>2, ApartReads

(* A key goes from the outermost transaction to the table. *)
LEMMA MoveToTable ==
  ASSUME NEW t, NEW vs, NEW ds, NEW t2, NEW vs2, NEW ds2, NEW k,
         Knows(vs, ds, 1, k),
         \/ Knows(vs2, ds2, 1, k) /\ vs2[1][k] = vs[1][k]
         \/ ~Knows(vs2, ds2, 1, k) /\ t2[k] = vs[1][k]
  PROVE  LookupIn(t2, vs2, ds2, 1, k) = LookupIn(t, vs, ds, 1, k)
<1>1. 1 \in Nat \ {0}
  OBVIOUS
<1>2. LookupIn(t, vs, ds, 1, k) = vs[1][k]
  BY <1>1, LookupHere
<1>3. CASE Knows(vs2, ds2, 1, k) /\ vs2[1][k] = vs[1][k]
  <2>1. LookupIn(t2, vs2, ds2, 1, k) = vs2[1][k]
    BY <1>1, <1>3, LookupHere
  <2> QED
    BY <1>2, <1>3, <2>1
<1>4. CASE ~Knows(vs2, ds2, 1, k) /\ t2[k] = vs[1][k]
  <2>1. \A e \in 1 .. 1 : ~Knows(vs2, ds2, e, k)
    <3>1. \A e \in 1 .. 1 : e = 1
      OBVIOUS
    <3> QED
      BY <1>4, <3>1
  <2>2. LookupIn(t2, vs2, ds2, 1, k) = t2[k]
    BY <2>1, LookupTable
  <2> QED
    BY <1>2, <1>4, <2>2
<1> QED
  BY <1>3, <1>4

(* A key goes from a nested transaction to the one around it. *)
LEMMA MoveBelow ==
  ASSUME NEW t, NEW vs, NEW ds, NEW vs2, NEW ds2, NEW d \in Nat \ {0, 1}, NEW k,
         Knows(vs, ds, d, k),
         \/ Knows(vs2, ds2, d, k) /\ vs2[d][k] = vs[d][k]
         \/ /\ ~Knows(vs2, ds2, d, k)
            /\ \/ Knows(vs2, ds2, d - 1, k) /\ vs2[d - 1][k] = vs[d][k]
               \/ LookupIn(t, vs2, ds2, d - 1, k) = vs[d][k]
  PROVE  LookupIn(t, vs2, ds2, d, k) = LookupIn(t, vs, ds, d, k)
<1>1. d \in Nat \ {0} /\ d - 1 \in Nat \ {0}
  OBVIOUS
<1>2. LookupIn(t, vs, ds, d, k) = vs[d][k]
  BY <1>1, LookupHere
<1>3. CASE Knows(vs2, ds2, d, k) /\ vs2[d][k] = vs[d][k]
  <2>1. LookupIn(t, vs2, ds2, d, k) = vs2[d][k]
    BY <1>1, <1>3, LookupHere
  <2> QED
    BY <1>2, <1>3, <2>1
<1>4. CASE ~Knows(vs2, ds2, d, k)
  <2>1. LookupIn(t, vs2, ds2, d, k) = LookupIn(t, vs2, ds2, d - 1, k)
    BY <1>1, <1>4, LookupBelow
  <2>2. CASE Knows(vs2, ds2, d - 1, k) /\ vs2[d - 1][k] = vs[d][k]
    <3>1. LookupIn(t, vs2, ds2, d - 1, k) = vs2[d - 1][k]
      BY <1>1, <2>2, LookupHere
    <3> QED
      BY <1>2, <2>1, <2>2, <3>1
  <2>3. CASE LookupIn(t, vs2, ds2, d - 1, k) = vs[d][k]
    BY <1>2, <2>1, <2>3
  <2> QED
    BY <1>4, <2>2, <2>3
<1> QED
  BY <1>3, <1>4

LEMMA CommittedReads ==
  ASSUME StoreInv, OwnReads, NEW c \in Clients, Committed(c)
  PROVE  OwnReads'
<1>1. /\ MemoryTypeOK /\ pc[c] = "commit" /\ pc' = [pc EXCEPT ![c] = "ready"]
      /\ deleted[c][depth[c]] = {} /\ values[c][depth[c]] = NoChanges
      /\ UNCHANGED <<table, values, deleted, rolledBack>>
  BY DEF StoreInv, Committed
<1>2. InTx(c) /\ depth[c] \in 1 .. MaxNesting /\ \A e \in Clients : e # c => pc'[e] = pc[e]
  BY <1>1, CommitLevel DEF MemoryTypeOK
<1>3. CASE depth[c] = 1
  BY <1>1, <1>2, <1>3, EndReads DEF Committed
<1>4. CASE depth[c] # 1
  <2>1. depth' = [depth EXCEPT ![c] = @ - 1] /\ UNCHANGED <<n, mine, disturbed>>
    BY <1>4 DEF Committed
  <2>2. depth'[c] = depth[c] - 1 /\ \A e \in Clients : e # c => depth'[e] = depth[e]
    BY <1>1, <2>1 DEF MemoryTypeOK
  <2>3. Apart(c)
    BY <1>1, <1>2, <2>1, <2>2 DEF Apart
  <2>4. ASSUME NEW k \in Keys
        PROVE  View(c, k)' = View(c, k)
    <3> DEFINE vs == values[c]
               ds == deleted[c]
               d == depth[c]
    <3>1. ~Knows(vs, ds, d, k)
      BY <1>1 DEF Knows, NoChanges
    <3>2. d \in Nat \ {0} /\ depth'[c] = d - 1
      BY <1>2, <2>2, ChainsAssumption
    <3>3. /\ View(c, k)' = LookupIn(table, vs, ds, d - 1, k)
          /\ View(c, k) = LookupIn(table, vs, ds, d, k)
      BY <1>1, <3>2, LookupDef DEF View
    <3> HIDE DEF vs, ds, d
    <3>4. LookupIn(table, vs, ds, d, k) = LookupIn(table, vs, ds, d - 1, k)
      BY <3>1, <3>2, LookupBelow
    <3> QED
      BY <3>3, <3>4
  <2>5. \A k \in Keys : Reads(c, k)'
    BY <1>2, <1>4, <2>1, <2>4 DEF OwnReads, Reads
  <2> QED
    BY <2>3, <2>5, ApartReads
<1> QED
  BY <1>3, <1>4

LEMMA CommitDelReads ==
  ASSUME StoreInv, OwnReads, NEW c \in Clients, NEW k \in Keys, CommitDel(c, k)
  PROVE  OwnReads'
<1>1. PICK d : d = depth[c]
  OBVIOUS
<1>2. /\ MemoryTypeOK /\ pc[c] = "commit" /\ d \in 1 .. MaxNesting /\ d \in Nat \ {0}
      /\ d # 1 => d - 1 \in 1 .. MaxNesting /\ d # d - 1 /\ d \in Nat \ {0, 1}
      /\ UNCHANGED <<depth, pc, key, todo, n, rolledBack, mine>>
      /\ k \in deleted[c][d]
  BY <1>1, CommitLevel, ChainsAssumption DEF StoreInv, CommitDel
<1>3. /\ values \in Overlays
      /\ deleted \in [Clients -> [1 .. MaxNesting -> SUBSET Keys]]
      /\ table \in [Keys -> Values \cup {None}]
  BY <1>2 DEF MemoryTypeOK, Overlays
<1>4. deleted[c][d] \ {k} \in SUBSET Keys
  BY <1>2, LevelTypes
<1>5. PICK vs, ds, vs2, ds2 : /\ vs = values[c] /\ ds = deleted[c]
                              /\ vs2 = values'[c] /\ ds2 = deleted'[c]
  OBVIOUS
<1>6. /\ View(c, k)' = LookupIn(table', vs2, ds2, d, k)
      /\ View(c, k) = LookupIn(table, vs, ds, d, k)
      /\ Knows(vs, ds, d, k)
  BY <1>1, <1>2, <1>5, LookupDef DEF View, Knows
<1>7. CASE d = 1
  <2>1. /\ setTable(c, k, None) /\ deleted' = [deleted EXCEPT ![c][1] = @ \ {k}]
        /\ UNCHANGED values
    BY <1>1, <1>7 DEF CommitDel
  <2>2. /\ deleted'[c][1] = deleted[c][1] \ {k}
        /\ \A e \in Clients : e # c => deleted'[e] = deleted[e]
        /\ \A l \in 1 .. MaxNesting : l # 1 => deleted'[c][l] = deleted[c][l]
    BY <1>2, <1>3, <1>7, <2>1
  <2>3. Apart(c)
    <3>1. ASSUME NEW e \in Clients, e # c
          PROVE  /\ disturbed[e] \subseteq disturbed'[e]
                 /\ \A j \in Keys : table'[j] = table[j] \/ (InTx(e) => j \in disturbed'[e])
      BY <1>2, <2>1, <3>1, SetTableApart
    <3> QED
      BY <1>2, <2>1, <2>2, <3>1 DEF Apart
  <2>4. /\ table'[k] = None /\ \A j \in Keys : j # k => table'[j] = table[j]
        /\ disturbed'[c] = disturbed[c]
    BY <1>3, <2>1 DEF setTable
  <2>5. View(c, k)' = View(c, k)
    <3>1. vs2 = vs /\ k \notin ds2[1] /\ Knows(vs, ds, 1, k)
      BY <1>5, <1>6, <1>7, <2>1, <2>2
    <3>2. CASE vs[1][k] # None
      <4>1. Knows(vs2, ds2, 1, k) /\ vs2[1][k] = vs[1][k]
        BY <3>1, <3>2 DEF Knows
      <4>2. LookupIn(table', vs2, ds2, 1, k) = LookupIn(table, vs, ds, 1, k)
        BY <3>1, <4>1, MoveToTable
      <4> QED
        BY <1>6, <1>7, <4>2
    <3>3. CASE vs[1][k] = None
      <4>1. ~Knows(vs2, ds2, 1, k) /\ table'[k] = vs[1][k]
        BY <2>4, <3>1, <3>3 DEF Knows
      <4>2. LookupIn(table', vs2, ds2, 1, k) = LookupIn(table, vs, ds, 1, k)
        BY <3>1, <4>1, MoveToTable
      <4> QED
        BY <1>6, <1>7, <4>2
    <3> QED
      BY <3>2, <3>3
  <2>6. ASSUME NEW j \in Keys, j # k, NEW l \in 1 .. MaxNesting
        PROVE  j \in deleted'[c][l] <=> j \in deleted[c][l]
    BY <2>2, <2>6
  <2> QED
    BY <1>2, <2>1, <2>3, <2>4, <2>5, <2>6, MovedReads
<1>8. CASE d # 1
  <2>1. UNCHANGED <<table, disturbed>>
    BY <1>1, <1>8 DEF CommitDel
  <2>2. PICK less : less = [deleted EXCEPT ![c][d] = @ \ {k}]
    OBVIOUS
  <2>3. /\ less \in [Clients -> [1 .. MaxNesting -> SUBSET Keys]]
        /\ less[c][d] = deleted[c][d] \ {k}
        /\ \A e \in Clients : e # c => less[e] = deleted[e]
        /\ \A l \in 1 .. MaxNesting : l # d => less[c][l] = deleted[c][l]
    <3>1. \A e \in Clients : e # c => less[e] = deleted[e]
      BY <1>3, <2>2
    <3>2. less[c][d] = deleted[c][d] \ {k}
      BY <1>2, <1>3, <2>2
    <3>3. \A l \in 1 .. MaxNesting : l # d => less[c][l] = deleted[c][l]
      BY <1>2, <1>3, <2>2
    <3>4. less \in [Clients -> [1 .. MaxNesting -> SUBSET Keys]]
      BY <1>2, <1>3, <1>4, <2>2, Update2
    <3> QED
      BY <3>1, <3>2, <3>3, <3>4
  <2>4. CASE deleted' = less /\ UNCHANGED values /\ lookup(c, d - 1, k) = None
    <3>1. Apart(c)
      BY <1>2, <2>1, <2>3, <2>4 DEF Apart
    <3>2. View(c, k)' = View(c, k)
      <4>1. /\ vs2 = vs /\ k \notin ds2[d]
            /\ \A l \in 1 .. MaxNesting : l # d => ds2[l] = ds[l]
        BY <1>5, <2>3, <2>4
      <4>2. LookupIn(table, vs2, ds2, d - 1, k) = None
        <5>1. \A l \in 1 .. d - 1 : l \in 1 .. MaxNesting /\ l # d
          BY <1>2, ChainsAssumption
        <5>2. SameFor(table, vs, ds, table, vs2, ds2, d - 1, k)
          BY <1>2, <1>8, <4>1, <5>1 DEF SameFor
        <5>3. LookupIn(table, vs2, ds2, d - 1, k) = LookupIn(table, vs, ds, d - 1, k)
          BY <5>2, LookupSame
        <5> QED
          BY <1>5, <2>4, <5>3, LookupDef
      <4>3. CASE vs[d][k] # None
        <5>1. Knows(vs2, ds2, d, k) /\ vs2[d][k] = vs[d][k]
          BY <4>1, <4>3 DEF Knows
        <5>2. d \in Nat \ {0, 1}
          BY <1>2, <1>8
        <5>3. LookupIn(table, vs2, ds2, d, k) = LookupIn(table, vs, ds, d, k)
          BY <1>6, <5>1, <5>2, MoveBelow
        <5> QED
          BY <1>6, <2>1, <5>3
      <4>4. CASE vs[d][k] = None
        <5>1. ~Knows(vs2, ds2, d, k)
          BY <4>1, <4>4 DEF Knows
        <5>2. LookupIn(table, vs2, ds2, d, k) = LookupIn(table, vs, ds, d, k)
          BY <1>2, <1>6, <1>8, <4>2, <4>4, <5>1, MoveBelow
        <5> QED
          BY <1>6, <2>1, <5>2
      <4> QED
        BY <4>3, <4>4
    <3>3. ASSUME NEW j \in Keys, j # k, NEW l \in 1 .. MaxNesting
          PROVE  j \in deleted'[c][l] <=> j \in deleted[c][l]
      BY <2>3, <2>4, <3>3
    <3> QED
      BY <1>2, <2>1, <2>4, <3>1, <3>2, <3>3, MovedReads
  <2>5. CASE /\ deleted' = [less EXCEPT ![c][d - 1] = @ \cup {k}]
             /\ values' = [values EXCEPT ![c][d - 1][k] = None]
    <3>0. d - 1 \in 1 .. MaxNesting /\ d # d - 1
      BY <1>2, <1>8
    <3>1. /\ deleted'[c][d - 1] = less[c][d - 1] \cup {k}
          /\ \A e \in Clients : e # c => deleted'[e] = less[e]
          /\ \A l \in 1 .. MaxNesting : l # d - 1 => deleted'[c][l] = less[c][l]
      BY <2>3, <2>5, <3>0
    <3>2. values' = Put(values, c, d - 1, k, None)
      BY <2>5 DEF Put
    <3>3. /\ values'[c][d - 1][k] = None
          /\ \A l \in 1 .. MaxNesting : l # d - 1 => values'[c][l] = values[c][l]
          /\ \A j \in Keys : j # k => values'[c][d - 1][j] = values[c][d - 1][j]
      BY <1>3, <3>0, <3>2, PutValue
    <3>4. \A e \in Clients : e # c => values'[e] = values[e]
      BY <1>3, <2>5 DEF Overlays
    <3>5. Apart(c)
      BY <1>2, <2>1, <2>3, <3>1, <3>4 DEF Apart
    <3>6. View(c, k)' = View(c, k)
      <4>1. /\ vs2[d] = vs[d] /\ vs2[d - 1][k] = None
            /\ k \notin ds2[d] /\ k \in ds2[d - 1]
        BY <1>2, <1>5, <2>3, <3>0, <3>1, <3>3
      <4>2. \/ Knows(vs2, ds2, d, k) /\ vs2[d][k] = vs[d][k]
            \/ /\ ~Knows(vs2, ds2, d, k)
               /\ Knows(vs2, ds2, d - 1, k) /\ vs2[d - 1][k] = vs[d][k]
        BY <4>1 DEF Knows
      <4>3. LookupIn(table, vs2, ds2, d, k) = LookupIn(table, vs, ds, d, k)
        BY <1>2, <1>6, <1>8, <4>2, MoveBelow
      <4> QED
        BY <1>6, <2>1, <4>3
    <3>7. ASSUME NEW j \in Keys, j # k, NEW l \in 1 .. MaxNesting
          PROVE  /\ j \in deleted'[c][l] <=> j \in deleted[c][l]
                 /\ values'[c][l][j] = values[c][l][j]
      BY <2>3, <3>1, <3>3, <3>7
    <3> QED
      BY <1>2, <2>1, <3>5, <3>6, <3>7, MovedReads
  <2>6. \/ /\ lookup(c, d - 1, k) = None
           /\ deleted' = [deleted EXCEPT ![c][d] = @ \ {k}]
           /\ UNCHANGED values
        \/ /\ deleted' = [deleted EXCEPT ![c][d] = @ \ {k}, ![c][d - 1] = @ \cup {k}]
           /\ values' = [values EXCEPT ![c][d - 1][k] = None]
    BY <1>1, <1>8 DEF CommitDel
  <2>7. [less EXCEPT ![c][d - 1] = @ \cup {k}]
          = [deleted EXCEPT ![c][d] = @ \ {k}, ![c][d - 1] = @ \cup {k}]
    BY <2>2
  <2> QED
    BY <2>2, <2>4, <2>5, <2>6, <2>7
<1> QED
  BY <1>7, <1>8

LEMMA CommitSetReads ==
  ASSUME StoreInv, OwnReads, NEW c \in Clients, NEW k \in Keys, CommitSet(c, k)
  PROVE  OwnReads'
<1>1. PICK d : d = depth[c]
  OBVIOUS
<1>2. /\ MemoryTypeOK /\ pc[c] = "commit" /\ d \in 1 .. MaxNesting /\ d \in Nat \ {0}
      /\ d # 1 => d - 1 \in 1 .. MaxNesting /\ d # d - 1 /\ d \in Nat \ {0, 1}
      /\ UNCHANGED <<depth, deleted, pc, key, todo, n, rolledBack, mine>>
      /\ deleted[c][d] = {} /\ values[c][d][k] # None
  BY <1>1, CommitLevel, ChainsAssumption DEF StoreInv, CommitSet
<1>3. /\ values \in Overlays /\ table \in [Keys -> Values \cup {None}]
      /\ values[c][d][k] \in Values \cup {None}
  <2>1. values[c][d] \in [Keys -> Values \cup {None}]
    BY <1>2, LevelTypes
  <2> QED
    BY <1>2, <2>1 DEF MemoryTypeOK, Overlays
<1>4. PICK vs, ds, vs2 : vs = values[c] /\ ds = deleted[c] /\ vs2 = values'[c]
  OBVIOUS
<1>5. /\ View(c, k)' = LookupIn(table', vs2, ds, d, k)
      /\ View(c, k) = LookupIn(table, vs, ds, d, k)
      /\ Knows(vs, ds, d, k)
  BY <1>1, <1>2, <1>4, LookupDef DEF View, Knows
<1>6. PICK less : less = Put(values, c, d, k, None)
  OBVIOUS
<1>7. /\ less \in Overlays /\ less[c][d][k] = None
      /\ \A l \in 1 .. MaxNesting : l # d => less[c][l] = values[c][l]
      /\ \A j \in Keys : j # k => less[c][d][j] = values[c][d][j]
  BY <1>2, <1>3, <1>6, PutValue
<1>8. \A e \in Clients : e # c => less[e] = values[e]
  BY <1>3, <1>6 DEF Put, Overlays
<1>9. CASE d = 1
  <2>1. setTable(c, k, values[c][1][k]) /\ values' = less
    BY <1>1, <1>6, <1>9 DEF CommitSet, Put
  <2>2. Apart(c)
    <3>1. ASSUME NEW e \in Clients, e # c
          PROVE  /\ disturbed[e] \subseteq disturbed'[e]
                 /\ \A j \in Keys : table'[j] = table[j] \/ (InTx(e) => j \in disturbed'[e])
      BY <1>2, <2>1, <3>1, SetTableApart
    <3> QED
      BY <1>2, <1>8, <2>1, <3>1 DEF Apart
  <2>3. /\ table'[k] = values[c][1][k] /\ \A j \in Keys : j # k => table'[j] = table[j]
        /\ disturbed'[c] = disturbed[c]
    BY <1>3, <2>1 DEF setTable
  <2>4. View(c, k)' = View(c, k)
    <3>1. ~Knows(vs2, ds, 1, k) /\ table'[k] = vs[1][k] /\ Knows(vs, ds, 1, k)
      BY <1>2, <1>4, <1>5, <1>7, <1>9, <2>1, <2>3 DEF Knows
    <3>2. LookupIn(table', vs2, ds, 1, k) = LookupIn(table, vs, ds, 1, k)
      BY <3>1, MoveToTable
    <3> QED
      BY <1>5, <1>9, <3>2
  <2>5. ASSUME NEW j \in Keys, j # k, NEW l \in 1 .. MaxNesting
        PROVE  values'[c][l][j] = values[c][l][j]
    BY <1>7, <2>1, <2>5
  <2> QED
    BY <1>2, <2>2, <2>3, <2>4, <2>5, MovedReads
<1>10. CASE d # 1
  <2>1. PICK v : v = values[c][d][k]
    OBVIOUS
  <2>2. UNCHANGED <<table, disturbed>> /\ values' = Put(less, c, d - 1, k, v)
    BY <1>1, <1>6, <1>10, <2>1 DEF CommitSet, Put
  <2>3. d - 1 \in 1 .. MaxNesting /\ d # d - 1 /\ d \in Nat \ {0, 1}
    BY <1>2, <1>10
  <2>4. /\ values'[c][d - 1][k] = v
        /\ \A l \in 1 .. MaxNesting : l # d - 1 => values'[c][l] = less[c][l]
        /\ \A j \in Keys : j # k => values'[c][d - 1][j] = less[c][d - 1][j]
    BY <1>3, <1>7, <2>1, <2>2, <2>3, PutValue
  <2>5. \A e \in Clients : e # c => values'[e] = values[e]
    BY <1>7, <1>8, <2>2 DEF Put, Overlays
  <2>6. Apart(c)
    BY <1>2, <2>2, <2>5 DEF Apart
  <2>7. View(c, k)' = View(c, k)
    <3>1. vs2[d][k] = None /\ vs2[d - 1][k] = vs[d][k] /\ vs[d][k] # None /\ k \notin ds[d]
      BY <1>2, <1>4, <1>7, <2>1, <2>3, <2>4
    <3>2. ~Knows(vs2, ds, d, k) /\ Knows(vs2, ds, d - 1, k) /\ vs2[d - 1][k] = vs[d][k]
      BY <3>1 DEF Knows
    <3>3. LookupIn(table, vs2, ds, d, k) = LookupIn(table, vs, ds, d, k)
      BY <1>5, <2>3, <3>2, MoveBelow
    <3> QED
      BY <1>5, <2>2, <3>3
  <2>8. ASSUME NEW j \in Keys, j # k, NEW l \in 1 .. MaxNesting
        PROVE  values'[c][l][j] = values[c][l][j]
    BY <1>7, <2>4, <2>8
  <2> QED
    BY <1>2, <2>2, <2>6, <2>7, <2>8, MovedReads
<1> QED
  BY <1>9, <1>10

LEMMA AlwaysOwnReads == MemorySpec => [](StoreInv /\ OwnReads)
<1>1. MemoryInit => OwnReads
  <2>1. ASSUME MemoryInit, NEW c \in Clients
        PROVE  ~InTx(c)
    BY <2>1 DEF MemoryInit, InTx
  <2> QED
    BY <2>1 DEF OwnReads, Reads
<1>2. StoreInv /\ OwnReads /\ [MemoryNext]_memoryVars => OwnReads'
  <2> SUFFICES ASSUME StoreInv, OwnReads, [MemoryNext]_memoryVars
               PROVE  OwnReads'
    OBVIOUS
  <2>1. CASE UNCHANGED memoryVars
    <3>1. ASSUME NEW c \in Clients, NEW k \in Keys
          PROVE  View(c, k)' = View(c, k)
      BY <2>1, LookupDef DEF memoryVars, View
    <3> QED
      BY <2>1, <3>1 DEF memoryVars, OwnReads, Reads, InTx
  <2> QED
    BY <2>1, ClientReads, CommittedReads, CommitDelReads, CommitSetReads DEF MemoryNext
<1> QED
  BY <1>1, <1>2, AlwaysStoreInv, PTL DEF MemorySpec

(* A transaction sees what it wrote itself, through any nesting of         *)
(* transactions committed or open, whatever other clients do to the table: *)
(* MemoryTx.lookup, set, del and commit agree.                             *)
THEOREM OwnWritesSeen == MemorySpec => []ReadsOwnWrites
<1>1. OwnReads => ReadsOwnWrites
  BY DEF OwnReads, Reads, ReadsOwnWrites
<1> QED
  BY <1>1, AlwaysOwnReads, PTL

(* What the whole chain of transactions made of a key is in the table when *)
(* the outermost commit is over, unless another client wrote the key.      *)
THEOREM CommitsArePublished == MemorySpec => CommitPublishes
<1> DEFINE Published == \A c \in Clients : Committed(c) /\ depth[c] = 1 =>
                          \A k \in Keys \ disturbed[c] :
                              mine[c][k] # Untouched => table[k] = mine[c][k]
<1>1. StoreInv /\ OwnReads => Published
  <2> SUFFICES ASSUME StoreInv, OwnReads, NEW c \in Clients, Committed(c), depth[c] = 1,
                      NEW k \in Keys \ disturbed[c], mine[c][k] # Untouched
               PROVE  table[k] = mine[c][k]
    OBVIOUS
  <2>1. View(c, k) = mine[c][k]
    BY DEF OwnReads, Reads, InTx
  <2>2. PICK vs, ds : vs = values[c] /\ ds = deleted[c]
    OBVIOUS
  <2>3. \A e \in 1 .. 1 : ~Knows(vs, ds, e, k)
    <3>1. \A e \in 1 .. 1 : e = 1
      OBVIOUS
    <3>2. ~Knows(vs, ds, 1, k)
      BY <2>2 DEF Committed, Knows, NoChanges
    <3> QED
      BY <3>1, <3>2
  <2>4. LookupIn(table, vs, ds, 1, k) = table[k]
    BY <2>3, LookupTable
  <2>5. View(c, k) = LookupIn(table, vs, ds, 1, k)
    BY <2>2, LookupDef DEF View
  <2> QED
    BY <2>1, <2>4, <2>5
<1>2. StoreInv /\ OwnReads => [Published]_memoryVars
  BY <1>1
<1> QED
  BY <1>2, AlwaysOwnReads, PTL DEF CommitPublishes
=============================================================================
