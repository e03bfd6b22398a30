------------------------------ MODULE MemoryTx -----------------------------
(***************************************************************************)
(* The in-memory store of adapter/memory/Repository.go: Memory, its        *)
(* transactions (MemoryTx) and the Repository on top of them, for one      *)
(* namespace.                                                              *)
(*                                                                         *)
(* A transaction is an overlay of set values and deleted keys over its     *)
(* super: the transaction it was begun in, or the Memory.  A client is a   *)
(* goroutine with the chain of transactions in its context.  Operations    *)
(* inside of a transaction change only the client's own overlay and are    *)
(* one step; outside, and in a commit, every access to the table locks and *)
(* unlocks Memory.m, and other clients act in between.                     *)
(***************************************************************************)
EXTENDS Naturals, FiniteSets

CONSTANTS Clients, Keys,
          None,        \* no value, no key
          Untouched,   \* a key the client's transaction has not written
          MaxNesting,  \* bound on nested transactions...
          Nesting,     \* ... and on those of each client
          MaxChains    \* bound on top-level transactions of a client

ASSUME ChainsAssumption == MaxNesting \in Nat \ {0} /\ MaxChains \in Nat
ASSUME NestingAssumption == Nesting \in [Clients -> 1 .. MaxNesting]
ASSUME NoneAssumption == None # Untouched /\ None \notin Keys

VARIABLES table,      \* Memory.tables[namespace]
          depth,      \* how many transactions a client is in
          values,     \* memoryTxChanges.Values, by client and depth
          deleted,    \* memoryTxChanges.Deleted, by client and depth
          pc, key,    \* what a client is doing, and with which key
          todo,       \* keys DeleteAll has yet to delete
          n,          \* tags what a client writes: odd inside of a transaction
          rolledBack, \* history: the tags of transactions rolled back
          mine,       \* history: what the client's transaction made of a key
          disturbed   \* history: keys others wrote since the transaction began

memoryVars == <<table, depth, values, deleted, pc, key, todo, n, rolledBack, mine,
                disturbed>>
txVars == <<depth, values, deleted>>
ghosts == <<n, rolledBack, mine, disturbed>>

Tag(c) == <<c, n[c]>>
Values == Clients \X (0 .. 2 * MaxChains)
ASSUME ValuesAssumption == None \notin Values /\ Untouched \notin Values
NoChanges == [k \in Keys |-> None]
InTx(c) == depth[c] > 0

Touched(c, d, k) == values[c][d][k] # None \/ k \in deleted[c][d]

(* MemoryTx.lookup and Memory.lookup: the innermost transaction, of the    *)
(* first d, that knows the key; a value wins over a deletion.              *)
lookup(c, d, k) ==
    LET know == {e \in 1 .. d : Touched(c, e, k)}
        top == CHOOSE e \in know : \A f \in know : f <= e
    IN  IF know = {} THEN table[k] ELSE values[c][top][k]

View(c, k) == lookup(c, depth[c], k)

----------------------------------------------------------------------------
MemoryInit == /\ table = [k \in Keys |-> None]
              /\ depth = [c \in Clients |-> 0]
              /\ values = [c \in Clients |-> [d \in 1 .. MaxNesting |-> NoChanges]]
              /\ deleted = [c \in Clients |-> [d \in 1 .. MaxNesting |-> {}]]
              /\ pc = [c \in Clients |-> "ready"]
              /\ key = [c \in Clients |-> None]
              /\ todo = [c \in Clients |-> {}]
              /\ n = [c \in Clients |-> 0]
              /\ rolledBack = {}
              /\ mine = [c \in Clients |-> [k \in Keys |-> Untouched]]
              /\ disturbed = [c \in Clients |-> {}]

(* Memory.set and Memory.del, under Memory.m. *)
setTable(c, k, v) ==
    /\ table' = [table EXCEPT ![k] = v]
    /\ disturbed' = [e \in Clients |-> IF e # c /\ InTx(e) THEN disturbed[e] \cup {k}
                                       ELSE disturbed[e]]

(* MemoryTx.set of the innermost transaction. *)
setTx(c, k) ==
    /\ values' = [values EXCEPT ![c][depth[c]][k] = Tag(c)]
    /\ mine' = [mine EXCEPT ![c][k] = Tag(c)]

(* A bug: the value set earlier in the transaction stays. *)
delTxKeepsValue(c, k) ==
    /\ deleted' = [deleted EXCEPT ![c][depth[c]] = @ \cup {k}]
    /\ mine' = [mine EXCEPT ![c][k] = None]
    /\ UNCHANGED values

(* MemoryTx.del of a key that was found. *)
delTx(c, k) ==
    /\ values' = [values EXCEPT ![c][depth[c]][k] = None]
    /\ deleted' = [deleted EXCEPT ![c][depth[c]] = @ \cup {k}]
    /\ mine' = [mine EXCEPT ![c][k] = None]

----------------------------------------------------------------------------
(* Memory.BeginTx; the first transaction of a chain gets a new tag. *)
Begin(c) ==
    /\ depth[c] < Nesting[c]
    /\ depth' = [depth EXCEPT ![c] = @ + 1]
    /\ IF InTx(c) THEN UNCHANGED n
                  ELSE n[c] < 2 * MaxChains /\ n' = [n EXCEPT ![c] = @ + 1]
    /\ UNCHANGED <<table, values, deleted, todo, rolledBack, mine, disturbed>>

MemoryBeginTx(c) == /\ pc[c] = "ready"
                    /\ Begin(c)
                    /\ UNCHANGED <<pc, key>>

(* Repository.Create of a missing id and Repository.Update of one that is  *)
(* found.  Without a transaction the lookup and the Set are two accesses.  *)
WriteKey(c, k) ==
    /\ pc[c] = "ready"
    /\ IF InTx(c)
         THEN setTx(c, k) /\ UNCHANGED <<pc, key>>
         ELSE /\ pc' = [pc EXCEPT ![c] = "set"]
              /\ key' = [key EXCEPT ![c] = k]
              /\ UNCHANGED <<values, mine>>
    /\ UNCHANGED <<table, depth, deleted, todo, n, rolledBack, disturbed>>

Create(c, k) == View(c, k) = None /\ WriteKey(c, k)
Update(c, k) == View(c, k) # None /\ WriteKey(c, k)

Set(c) ==
    /\ pc[c] = "set"
    /\ setTable(c, key[c], Tag(c))
    /\ pc' = [pc EXCEPT ![c] = "ready"]
    /\ key' = [key EXCEPT ![c] = None]
    /\ UNCHANGED <<txVars, todo, n, rolledBack, mine>>

(* Memory.Del of a key that is there. *)
del(c, k) ==
    /\ View(c, k) # None
    /\ IF InTx(c) THEN delTx(c, k) /\ UNCHANGED <<table, disturbed>>
                  ELSE setTable(c, k, None) /\ UNCHANGED <<values, deleted, mine>>

DeleteByID(c, k) ==
    /\ pc[c] = "ready"
    /\ del(c, k)
    /\ UNCHANGED <<depth, pc, key, todo, n, rolledBack>>

(* DeleteAll, and PurgeNamespace inside of a transaction: the keys of the  *)
(* moment, deleted one by one.                                             *)
DeleteAll(c) ==
    /\ pc[c] = "ready"
    /\ todo' = [todo EXCEPT ![c] = {k \in Keys : View(c, k) # None}]
    /\ todo'[c] # {}
    /\ pc' = [pc EXCEPT ![c] = "deleting"]
    /\ UNCHANGED <<table, txVars, key, ghosts>>

DeleteNext(c, k) ==
    /\ pc[c] = "deleting" /\ k \in todo[c]
    /\ \/ del(c, k)
       \/ View(c, k) = None /\ UNCHANGED <<table, values, deleted, mine, disturbed>>
    /\ todo' = [todo EXCEPT ![c] = @ \ {k}]
    /\ pc' = [pc EXCEPT ![c] = IF todo[c] = {k} THEN "ready" ELSE "deleting"]
    /\ UNCHANGED <<depth, key, n, rolledBack>>

(* PurgeNamespace without a transaction. *)
PurgeNamespace(c) ==
    /\ pc[c] = "ready" /\ ~InTx(c)
    /\ table' = NoChanges
    /\ disturbed' = [e \in Clients |-> IF e # c /\ InTx(e) THEN Keys ELSE disturbed[e]]
    /\ UNCHANGED <<txVars, pc, key, todo, n, rolledBack, mine>>

----------------------------------------------------------------------------
(* The chain is over: its overlays and its history with it. *)
EndChain(c) ==
    /\ depth' = [depth EXCEPT ![c] = 0]
    /\ n' = [n EXCEPT ![c] = @ + 1]
    /\ mine' = [mine EXCEPT ![c] = [k \in Keys |-> Untouched]]
    /\ disturbed' = [disturbed EXCEPT ![c] = {}]

(* A bug: the changes of the outer transactions survive. *)
RollbackInner(c) ==
    /\ rolledBack' = rolledBack \cup {Tag(c)}
    /\ values' = [values EXCEPT ![c][depth[c]] = NoChanges]
    /\ deleted' = [deleted EXCEPT ![c][depth[c]] = {}]
    /\ IF depth[c] = 1 THEN EndChain(c)
       ELSE depth' = [depth EXCEPT ![c] = @ - 1] /\ UNCHANGED <<n, mine, disturbed>>

(* MemoryTx.rollback, of the transaction and of all it is nested in. *)
Rollback(c) ==
    /\ rolledBack' = rolledBack \cup {Tag(c)}
    /\ values' = [values EXCEPT ![c] = [d \in 1 .. MaxNesting |-> NoChanges]]
    /\ deleted' = [deleted EXCEPT ![c] = [d \in 1 .. MaxNesting |-> {}]]
    /\ EndChain(c)

MemoryRollbackTx(c) == /\ pc[c] = "ready" /\ InTx(c)
                       /\ Rollback(c)
                       /\ UNCHANGED <<table, pc, key, todo>>

(* MemoryTx.commit: first the deleted keys, then the set ones, each with   *)
(* an access of its own to the super.  What was applied leaves the overlay.*)
MemoryCommitTx(c) ==
    /\ pc[c] = "ready" /\ InTx(c)
    /\ pc' = [pc EXCEPT ![c] = "commit"]
    /\ UNCHANGED <<table, txVars, key, todo, ghosts>>

CommitDel(c, k) ==
    LET d == depth[c] IN
    /\ pc[c] = "commit" /\ k \in deleted[c][d]
    /\ IF d = 1
         THEN /\ setTable(c, k, None)
              /\ deleted' = [deleted EXCEPT ![c][1] = @ \ {k}]
              /\ UNCHANGED values
         ELSE /\ IF lookup(c, d - 1, k) = None
                   THEN /\ deleted' = [deleted EXCEPT ![c][d] = @ \ {k}]
                        /\ UNCHANGED values
                   ELSE /\ deleted' = [deleted EXCEPT ![c][d] = @ \ {k},
                                                      ![c][d - 1] = @ \cup {k}]
                        /\ values' = [values EXCEPT ![c][d - 1][k] = None]
              /\ UNCHANGED <<table, disturbed>>
    /\ UNCHANGED <<depth, pc, key, todo, n, rolledBack, mine>>

(* A bug: the set values are applied before the deletions. *)
CommitSetEarly(c, k) ==
    LET d == depth[c] IN
    /\ pc[c] = "commit" /\ values[c][d][k] # None
    /\ IF d = 1
         THEN /\ setTable(c, k, values[c][1][k])
              /\ values' = [values EXCEPT ![c][1][k] = None]
         ELSE /\ values' = [values EXCEPT ![c][d][k] = None,
                                          ![c][d - 1][k] = values[c][d][k]]
              /\ UNCHANGED <<table, disturbed>>
    /\ UNCHANGED <<depth, deleted, pc, key, todo, n, rolledBack, mine>>

CommitSet(c, k) ==
    LET d == depth[c] IN
    /\ pc[c] = "commit" /\ deleted[c][d] = {} /\ values[c][d][k] # None
    /\ IF d = 1
         THEN /\ setTable(c, k, values[c][1][k])
              /\ values' = [values EXCEPT ![c][1][k] = None]
         ELSE /\ values' = [values EXCEPT ![c][d][k] = None,
                                          ![c][d - 1][k] = values[c][d][k]]
              /\ UNCHANGED <<table, disturbed>>
    /\ UNCHANGED <<depth, deleted, pc, key, todo, n, rolledBack, mine>>

Committed(c) ==
    /\ pc[c] = "commit"
    /\ deleted[c][depth[c]] = {} /\ values[c][depth[c]] = NoChanges
    /\ pc' = [pc EXCEPT ![c] = "ready"]
    /\ IF depth[c] = 1 THEN EndChain(c)
       ELSE depth' = [depth EXCEPT ![c] = @ - 1] /\ UNCHANGED <<n, mine, disturbed>>
    /\ UNCHANGED <<table, values, deleted, key, todo, rolledBack>>

----------------------------------------------------------------------------
(* Repository.Save: a transaction of its own around a lookup that chooses  *)
(* between Update and Create, each of which looks again...                 *)
Save(c, k) ==
    /\ pc[c] = "ready"
    /\ Begin(c)
    /\ key' = [key EXCEPT ![c] = k]
    /\ pc' = [pc EXCEPT ![c] = "save"]

SaveFind(c) ==
    /\ pc[c] = "save"
    /\ pc' = [pc EXCEPT ![c] = IF View(c, key[c]) = None THEN "saveCreate" ELSE "saveUpdate"]
    /\ UNCHANGED <<table, txVars, key, todo, ghosts>>

(* ... and whose failure rolls back, the transactions around it included. *)
SaveWrite(c) ==
    /\ pc[c] \in {"saveCreate", "saveUpdate"}
    /\ key' = [key EXCEPT ![c] = None]
    /\ IF (pc[c] = "saveCreate") = (View(c, key[c]) = None)
         THEN /\ setTx(c, key[c])
              /\ pc' = [pc EXCEPT ![c] = "commit"]
              /\ UNCHANGED <<depth, deleted, n, rolledBack, disturbed>>
         ELSE /\ Rollback(c)
              /\ pc' = [pc EXCEPT ![c] = "ready"]
    /\ UNCHANGED <<table, todo>>

MemoryNext == \E c \in Clients :
    \/ MemoryBeginTx(c) \/ MemoryCommitTx(c) \/ MemoryRollbackTx(c)
    \/ Set(c) \/ DeleteAll(c) \/ PurgeNamespace(c)
    \/ SaveFind(c) \/ SaveWrite(c) \/ Committed(c)
    \/ \E k \in Keys : \/ Create(c, k) \/ Update(c, k) \/ DeleteByID(c, k)
                       \/ DeleteNext(c, k) \/ Save(c, k)
                       \/ CommitDel(c, k) \/ CommitSet(c, k)

MemorySpec == MemoryInit /\ [][MemoryNext]_memoryVars

----------------------------------------------------------------------------
(* Types; and a depth that is not in use has no changes. *)
MemoryTypeOK ==
    /\ table \in [Keys -> Values \cup {None}]
    /\ depth \in [Clients -> 0 .. MaxNesting]
    /\ values \in [Clients -> [1 .. MaxNesting -> [Keys -> Values \cup {None}]]]
    /\ deleted \in [Clients -> [1 .. MaxNesting -> SUBSET Keys]]
    /\ pc \in [Clients -> {"ready", "set", "deleting", "commit", "save", "saveCreate",
                           "saveUpdate"}]
    /\ key \in [Clients -> Keys \cup {None}]
    /\ todo \in [Clients -> SUBSET Keys]
    /\ n \in [Clients -> 0 .. 2 * MaxChains]
    /\ rolledBack \subseteq Values
    /\ mine \in [Clients -> [Keys -> Values \cup {None, Untouched}]]
    /\ disturbed \in [Clients -> SUBSET Keys]
    /\ \A c \in Clients, d \in 1 .. MaxNesting : d > depth[c] =>
          values[c][d] = NoChanges /\ deleted[c][d] = {}

(* "causes all the updates made by the transaction to be discarded", and   *)
(* no dirty reads: a value in the table was never written by a transaction *)
(* that was rolled back, on its own, from within or by a failed Save, nor  *)
(* by one whose outermost commit has not begun.  Every variable has its    *)
(* type, and nothing is left of the transactions that ended.               *)
OnlyCommitted ==
    /\ MemoryTypeOK
    /\ \A k \in Keys : table[k] # None =>
          /\ table[k] \notin rolledBack
          /\ \A c \in Clients : InTx(c) /\ table[k] = Tag(c)
                                  => depth[c] = 1 /\ pc[c] = "commit"

(* "All statements that receive this context should be executed within the *)
(* given transaction": a transaction sees its own last write or deletion   *)
(* of a key, through the nested transactions committed or still open, as   *)
(* long as no other client touched a key it deleted.                       *)
ReadsOwnWrites == \A c \in Clients, k \in Keys :
    /\ InTx(c) /\ pc[c] # "commit"
    /\ mine[c][k] # Untouched
    /\ mine[c][k] # None \/ k \notin disturbed[c]
    => View(c, k) = mine[c][k]

(* "All changes made by the transaction become visible to others": when    *)
(* the outermost commit is over, the table has the last state of every key *)
(* that the whole chain of transactions changed and nobody else did.       *)
CommitPublishes ==
    [][\A c \in Clients : Committed(c) /\ depth[c] = 1 =>
          \A k \in Keys \ disturbed[c] :
              mine[c][k] # Untouched => table[k] = mine[c][k]]_memoryVars
=============================================================================
