--------------------------- MODULE SynckitProofs ---------------------------
(***************************************************************************)
(* Proofs about four components of synckit.                                *)
(*                                                                         *)
(* The Limiter, for any finite set of goroutines and any set of limits:    *)
(* TypeOK is inductive.  HeldCounted and NoLostWakeup are inductive        *)
(* together with it: Unlock moves one unit from held to Woken, Recheck     *)
(* moves it back or parks only when there is no room, and SetLimit empties *)
(* Parked whenever it makes room.                                          *)
(*                                                                         *)
(* Fan and Broadcast, for any publishers, consumers and closers: below,    *)
(* from InRound on; their specification is ExchangeSpec.                   *)
(*                                                                         *)
(* The Group, for any members, waiters and receivers: from Active on;      *)
(* its specification is GroupSpec.                                         *)
(*                                                                         *)
(* The RWLockerFactory, for any goroutines and keys: at the end, from      *)
(* FactoryAssumptions on; its specification is FactorySpec.                *)
(***************************************************************************)
EXTENDS Limiter, Exchange, Group, RWLockerFactory, FiniteSetTheorems,
        WellFoundedInduction, TLAPS

(* Each step of a Limiter keeps its state well typed: held never becomes   *)
(* negative, whatever the interleaving of Unlock with Unlock.              *)
THEOREM TypeCorrect == Spec => []TypeOK
<1>1. Init => TypeOK
  BY DEF Init, TypeOK, PCs
<1>2. TypeOK /\ [Next]_vars => TypeOK'
  <2> SUFFICES ASSUME TypeOK, [Next]_vars PROVE TypeOK'
    OBVIOUS
  <2>1. ASSUME NEW g \in Goroutines, Lock(g) \/ Recheck(g) PROVE TypeOK'
    BY <2>1 DEF TypeOK, PCs, Lock, Recheck, LoopBody
  <2>2. ASSUME NEW g \in Goroutines, TryLock(g) PROVE TypeOK'
    BY <2>2 DEF TypeOK, PCs, TryLock
  <2>3. ASSUME NEW g \in Goroutines, Unlock(g) PROVE TypeOK'
    BY <2>3 DEF TypeOK, PCs, Unlock, Parked
  <2>4. ASSUME NEW g \in Goroutines, UnlockPanic(g) PROVE TypeOK'
    BY <2>4 DEF TypeOK, PCs, UnlockPanic
  <2>5. ASSUME NEW g \in Goroutines, NEW n \in Limits,
               NEW next \in {"idle", "locking", "trying"},
               SetLimitFastCheck(g, n, next)
        PROVE  TypeOK'
    BY <2>5 DEF TypeOK, PCs, SetLimitFastCheck
  <2>6. ASSUME NEW g \in Goroutines, SetLimit(g) PROVE TypeOK'
    BY <2>6, LimitsAssumption DEF TypeOK, PCs, SetLimit, Parked
  <2>7. CASE UNCHANGED vars
    BY <2>7 DEF TypeOK, vars
  <2> QED
    BY <2>1, <2>2, <2>3, <2>4, <2>5, <2>6, <2>7, CeilingAssumption
    DEF Next, Step, CallSetLimit, CeilingLock, CeilingTryLock
<1> QED
  BY <1>1, <1>2, PTL DEF Spec

----------------------------------------------------------------------------
(* The sets a goroutine moves between are finite, and their cardinalities  *)
(* natural numbers.                                                        *)
LEMMA FiniteSets ==
  /\ IsFiniteSet(Parked) /\ Cardinality(Parked) \in Nat
  /\ IsFiniteSet(Woken) /\ Cardinality(Woken) \in Nat
  /\ IsFiniteSet(Holders) /\ Cardinality(Holders) \in Nat
<1>1. /\ Parked \in SUBSET Goroutines /\ Woken \in SUBSET Goroutines
      /\ Holders \in SUBSET Goroutines
  BY DEF Parked, Woken, Holders
<1> QED
  BY <1>1, GoroutinesAssumption, FS_Subset, FS_CardinalityType

IInv == TypeOK /\ HeldCounted /\ NoLostWakeup

LEMMA InitIInv == Init => IInv
<1> SUFFICES ASSUME Init PROVE IInv
  OBVIOUS
<1>1. Parked = {} /\ Holders = {}
  BY DEF Init, Parked, Holders
<1>2. TypeOK
  BY DEF Init, TypeOK, PCs
<1> QED
  BY <1>1, <1>2, FS_EmptySet DEF IInv, HeldCounted, NoLostWakeup, Init

(* One lemma per way in which an action moves goroutines: taking a slot.   *)
LEMMA TakesSlot ==
  ASSUME IInv, NEW g \in Goroutines,
         pc[g] \in {"idle", "locking", "trying", "woken"},
         hasRoom(limit, held), held' = held + 1, limit' = limit,
         pc' = [pc EXCEPT ![g] = "holding"]
  PROVE  HeldCounted' /\ NoLostWakeup'
<1>1. Holders' = Holders \cup {g} /\ g \notin Holders
  BY DEF IInv, TypeOK, Holders
<1>2. Woken' = Woken \ {g} /\ Parked' = Parked
  BY DEF IInv, TypeOK, Woken, Parked
<1>3. Cardinality(Holders') = Cardinality(Holders) + 1
  BY <1>1, FiniteSets, FS_AddElement
<1>4. Cardinality(Woken') >= Cardinality(Woken) - 1 /\ Cardinality(Woken') \in Int
  BY <1>2, FiniteSets, FS_RemoveElement
<1>5. HeldCounted'
  BY <1>3 DEF IInv, HeldCounted
<1>6. held \in Nat /\ limit \in Int /\ Cardinality(Woken) \in Nat
  BY LimitsAssumption, FiniteSets DEF IInv, TypeOK
<1>7. NoLostWakeup'
  BY <1>2, <1>4, <1>6 DEF IInv, NoLostWakeup
<1> QED
  BY <1>5, <1>7

(* Going to sleep, which Lock does only when there is no room. *)
LEMMA Parks ==
  ASSUME IInv, NEW g \in Goroutines, pc[g] \in {"idle", "locking", "woken"},
         ~hasRoom(limit, held), held' = held, limit' = limit,
         pc' = [pc EXCEPT ![g] = "parked"]
  PROVE  HeldCounted' /\ NoLostWakeup'
<1>1. Holders' = Holders
  BY DEF IInv, TypeOK, Holders
<1>2. Woken' = Woken \ {g}
  BY DEF IInv, TypeOK, Woken
<1>3. Cardinality(Woken') \in Nat
  BY <1>2, FiniteSets, FS_RemoveElement, FS_CardinalityType
<1>4. limit < 0 \/ (limit > 0 /\ held >= limit)
  BY LimitsAssumption DEF hasRoom, IInv, TypeOK
<1>5. held \in Nat /\ limit \in Int
  BY LimitsAssumption DEF IInv, TypeOK
<1> QED
  BY <1>1, <1>3, <1>4, <1>5 DEF IInv, HeldCounted, NoLostWakeup

(* Giving a slot back: the unit that leaves held joins Woken. *)
LEMMA GivesBack ==
  ASSUME IInv, NEW g \in Goroutines, Unlock(g)
  PROVE  HeldCounted' /\ NoLostWakeup'
<1>1. Holders' = Holders \ {g} /\ g \in Holders
  BY DEF IInv, TypeOK, Unlock, Holders, Parked
<1>2. Cardinality(Holders') = Cardinality(Holders) - 1
  BY <1>1, FiniteSets, FS_RemoveElement
<1>3. HeldCounted'
  BY <1>2 DEF IInv, HeldCounted, Unlock
<1>4. held \in Nat /\ limit \in Int /\ Cardinality(Woken) \in Nat
  BY LimitsAssumption, FiniteSets DEF IInv, TypeOK
<1>5. CASE Parked = {}
  <2>1. Parked' = {}
    BY <1>5 DEF IInv, TypeOK, Unlock, Parked
  <2> QED
    BY <1>3, <2>1 DEF NoLostWakeup
<1>6. CASE Parked # {}
  <2>1. PICK w \in Parked : pc' = [pc EXCEPT ![g] = "idle", ![w] = "woken"]
    BY <1>6 DEF Unlock
  <2>2. Woken' = Woken \cup {w} /\ w \notin Woken
    BY <2>1, <1>1 DEF IInv, TypeOK, Woken, Parked, Holders
  <2>3. Cardinality(Woken') = Cardinality(Woken) + 1
    BY <2>2, FiniteSets, FS_AddElement
  <2>4. limit' = limit /\ held' = held - 1
    BY DEF Unlock
  <2>5. NoLostWakeup'
    BY <1>4, <1>6, <2>3, <2>4 DEF IInv, NoLostWakeup
  <2> QED
    BY <1>3, <2>5
<1> QED
  BY <1>5, <1>6

(* Moving the limit: with room afterwards nobody stays parked. *)
LEMMA MovesLimit ==
  ASSUME IInv, NEW g \in Goroutines, SetLimit(g)
  PROVE  HeldCounted' /\ NoLostWakeup'
<1>0. g \notin Holders /\ after[g] \in {"idle", "locking", "trying"}
  BY DEF IInv, TypeOK, SetLimit, Holders
<1>1. Holders' = Holders
  BY <1>0 DEF IInv, TypeOK, SetLimit, Holders, Parked
<1>2. held' = held /\ limit' = arg[g] /\ held \in Nat /\ arg[g] \in Int
  BY LimitsAssumption DEF IInv, TypeOK, SetLimit
<1>3. Cardinality(Woken') \in Nat
  <2>1. Woken' \in SUBSET Goroutines
    BY DEF Woken
  <2> QED
    BY <2>1, GoroutinesAssumption, FS_Subset, FS_CardinalityType
<1>4. CASE ~hasRoom(arg[g], held)
  <2>1. arg[g] < 0 \/ (arg[g] > 0 /\ held >= arg[g])
    BY <1>2, <1>4 DEF hasRoom
  <2> QED
    BY <1>1, <1>2, <1>3, <2>1 DEF IInv, HeldCounted, NoLostWakeup
<1>5. CASE limit = arg[g]
  <2>1. Parked' = Parked /\ Woken' = Woken
    BY <1>0, <1>5 DEF IInv, TypeOK, SetLimit, Parked, Woken
  <2> QED
    BY <1>1, <1>2, <1>5, <2>1 DEF IInv, HeldCounted, NoLostWakeup
<1>6. CASE hasRoom(arg[g], held) /\ limit # arg[g]
  <2>1. Parked' = {}
    BY <1>0, <1>6 DEF IInv, TypeOK, SetLimit, Parked
  <2> QED
    BY <1>1, <1>2, <2>1 DEF IInv, HeldCounted, NoLostWakeup
<1> QED
  BY <1>4, <1>5, <1>6

(* Everything else leaves the counters and the three sets alone. *)
LEMMA KeepsSets ==
  ASSUME IInv, held' = held, limit' = limit,
         Parked' = Parked, Woken' = Woken, Holders' = Holders
  PROVE  HeldCounted' /\ NoLostWakeup'
BY DEF IInv, HeldCounted, NoLostWakeup

(* The induction step, one case per action. *)
LEMMA NextIInv == IInv /\ TypeOK' /\ [Next]_vars => HeldCounted' /\ NoLostWakeup'
<1> SUFFICES ASSUME IInv, TypeOK', [Next]_vars
             PROVE  HeldCounted' /\ NoLostWakeup'
  OBVIOUS
<1>1. ASSUME NEW g \in Goroutines, Lock(g) \/ Recheck(g)
      PROVE  HeldCounted' /\ NoLostWakeup'
  BY <1>1, TakesSlot, Parks DEF Lock, Recheck, LoopBody
<1>2. ASSUME NEW g \in Goroutines, TryLock(g)
      PROVE  HeldCounted' /\ NoLostWakeup'
  <2>1. CASE hasRoom(limit, held)
    BY <1>2, <2>1, TakesSlot DEF TryLock
  <2>2. CASE ~hasRoom(limit, held)
    <3>1. Parked' = Parked /\ Woken' = Woken /\ Holders' = Holders
      BY <1>2, <2>2 DEF IInv, TypeOK, TryLock, Parked, Woken, Holders
    <3> QED
      BY <1>2, <2>2, <3>1, KeepsSets DEF TryLock
  <2> QED
    BY <2>1, <2>2
<1>3. ASSUME NEW g \in Goroutines, Unlock(g)
      PROVE  HeldCounted' /\ NoLostWakeup'
  BY <1>3, GivesBack
<1>4. ASSUME NEW g \in Goroutines, UnlockPanic(g)
      PROVE  HeldCounted' /\ NoLostWakeup'
  <2>1. Holders = {}
    BY <1>4, FiniteSets, FS_EmptySet DEF IInv, HeldCounted, UnlockPanic
  <2>2. Parked' = Parked /\ Woken' = Woken /\ Holders' = Holders
    BY <1>4, <2>1 DEF IInv, TypeOK, UnlockPanic, Parked, Woken, Holders
  <2> QED
    BY <1>4, <2>2, KeepsSets DEF UnlockPanic
<1>5. ASSUME NEW g \in Goroutines, NEW n \in Limits,
             NEW next \in {"idle", "locking", "trying"},
             SetLimitFastCheck(g, n, next)
      PROVE  HeldCounted' /\ NoLostWakeup'
  <2>1. Parked' = Parked /\ Woken' = Woken /\ Holders' = Holders
    BY <1>5 DEF IInv, TypeOK, SetLimitFastCheck, Parked, Woken, Holders
  <2> QED
    BY <1>5, <2>1, KeepsSets DEF SetLimitFastCheck
<1>6. ASSUME NEW g \in Goroutines, SetLimit(g)
      PROVE  HeldCounted' /\ NoLostWakeup'
  BY <1>6, MovesLimit
<1>7. CASE UNCHANGED vars
  BY <1>7, KeepsSets DEF vars, Parked, Woken, Holders
<1> QED
  BY <1>1, <1>2, <1>3, <1>4, <1>5, <1>6, <1>7, CeilingAssumption
  DEF Next, Step, CallSetLimit, CeilingLock, CeilingTryLock

(* The strengthened invariant holds in every reachable state. *)
LEMMA AlwaysIInv == Spec => []IInv
<1>1. IInv /\ TypeOK' /\ [Next]_vars => IInv'
  BY NextIInv DEF IInv
<1> QED
  BY <1>1, InitIInv, TypeCorrect, PTL DEF Spec

(* In no interleaving of Lock, Unlock, TryLock and SetLimit is a goroutine *)
(* left parked in c.Wait while there is a slot that nobody was woken for.  *)
THEOREM WakeupsNeverLost == Spec => []NoLostWakeup
<1>1. IInv => NoLostWakeup
  BY DEF IInv
<1> QED
  BY <1>1, AlwaysIInv, PTL

(* held is the number of goroutines that have a slot, so a goroutine that  *)
(* did lock never runs into the panic of Unlock.                           *)
THEOREM HeldIsCounted == Spec => []HeldCounted
<1>1. IInv => HeldCounted
  BY DEF IInv
<1> QED
  BY <1>1, AlwaysIInv, PTL

----------------------------------------------------------------------------
(* The semaphore counts with the Cardinality of its own instance. *)
LEMMA SameCardinality == Sem!Cardinality(Holders) = Cardinality(Holders)
BY Zenon DEF Cardinality, Sem!Cardinality

(* Refinement.  A step that takes a slot is a Grant of the semaphore. *)
LEMMA TakesSlotIsGrant ==
  ASSUME IInv, NEW g \in Goroutines,
         pc[g] \in {"idle", "locking", "trying", "woken"},
         hasRoom(limit, held), limit' = limit,
         pc' = [pc EXCEPT ![g] = "holding"]
  PROVE  Sem!Grant(g)
<1>1. Holders' = Holders \cup {g} /\ g \notin Holders
  BY DEF IInv, TypeOK, Holders
<1>2. Sem!Room
  BY SameCardinality DEF IInv, HeldCounted, hasRoom, Sem!Room
<1> QED
  BY <1>1, <1>2 DEF Sem!Grant

(* Every step of the Limiter is a step of the semaphore or changes nothing *)
(* the semaphore shows.                                                    *)
LEMMA StepSimulation == IInv /\ [Next]_vars => [Sem!Next]_(Sem!vars)
<1> SUFFICES ASSUME IInv, [Next]_vars PROVE [Sem!Next]_(Sem!vars)
  OBVIOUS
<1>1. ASSUME limit' = limit, Holders' = Holders PROVE UNCHANGED Sem!vars
  BY <1>1 DEF Sem!vars
<1>2. ASSUME NEW g \in Goroutines, Lock(g) \/ Recheck(g)
      PROVE  [Sem!Next]_(Sem!vars)
  <2>1. CASE hasRoom(limit, held)
    BY <1>2, <2>1, TakesSlotIsGrant DEF Lock, Recheck, LoopBody, Sem!Next
  <2>2. CASE ~hasRoom(limit, held)
    <3>1. Holders' = Holders /\ limit' = limit
      BY <1>2, <2>2 DEF IInv, TypeOK, Lock, Recheck, LoopBody, Holders
    <3> QED
      BY <1>1, <3>1
  <2> QED
    BY <2>1, <2>2
<1>3. ASSUME NEW g \in Goroutines, TryLock(g)
      PROVE  [Sem!Next]_(Sem!vars)
  <2>1. CASE hasRoom(limit, held)
    BY <1>3, <2>1, TakesSlotIsGrant DEF TryLock, Sem!Next
  <2>2. CASE ~hasRoom(limit, held)
    <3>1. Holders' = Holders /\ limit' = limit
      BY <1>3, <2>2 DEF IInv, TypeOK, TryLock, Holders
    <3> QED
      BY <1>1, <3>1
  <2> QED
    BY <2>1, <2>2
<1>4. ASSUME NEW g \in Goroutines, Unlock(g)
      PROVE  [Sem!Next]_(Sem!vars)
  <2>1. Holders' = Holders \ {g} /\ g \in Holders /\ limit' = limit
    BY <1>4 DEF IInv, TypeOK, Unlock, Holders, Parked
  <2> QED
    BY <2>1 DEF Sem!Next, Sem!Return
<1>5. ASSUME NEW g \in Goroutines, UnlockPanic(g)
      PROVE  [Sem!Next]_(Sem!vars)
  <2>1. Holders = {}
    BY <1>5, FiniteSets, FS_EmptySet DEF IInv, HeldCounted, UnlockPanic
  <2>2. Holders' = Holders /\ limit' = limit
    BY <1>5, <2>1 DEF IInv, TypeOK, UnlockPanic, Holders
  <2> QED
    BY <1>1, <2>2
<1>6. ASSUME NEW g \in Goroutines, NEW n \in Limits,
             NEW next \in {"idle", "locking", "trying"},
             SetLimitFastCheck(g, n, next)
      PROVE  [Sem!Next]_(Sem!vars)
  <2>1. Holders' = Holders /\ limit' = limit
    BY <1>6 DEF IInv, TypeOK, SetLimitFastCheck, Holders
  <2> QED
    BY <1>1, <2>1
<1>7. ASSUME NEW g \in Goroutines, SetLimit(g)
      PROVE  [Sem!Next]_(Sem!vars)
  <2>1. Holders' = Holders
    BY <1>7 DEF IInv, TypeOK, SetLimit, Holders, Parked
  <2>2. arg[g] \in Limits /\ limit' = arg[g]
    BY <1>7 DEF IInv, TypeOK, SetLimit
  <2> QED
    BY <2>1, <2>2 DEF Sem!Next, Sem!Move
<1>8. CASE UNCHANGED vars
  BY <1>1, <1>8 DEF vars, Holders
<1> QED
  BY <1>2, <1>3, <1>4, <1>5, <1>6, <1>7, <1>8, CeilingAssumption
  DEF Next, Step, CallSetLimit, CeilingLock, CeilingTryLock

(* The Limiter implements the counting semaphore with a movable ceiling:   *)
(* parking, waking, re-parking and the two-phase SetLimit are invisible.   *)
THEOREM ImplementsSemaphore == Spec => IsSemaphore
<1>1. Init => Sem!Init
  BY DEF Init, Sem!Init, Holders
<1> QED
  BY <1>1, StepSimulation, AlwaysIInv, PTL DEF Spec, IsSemaphore, Sem!Spec

----------------------------------------------------------------------------
(* Fan and Broadcast.  The copies of a message are counted: those in hand  *)
(* and those in the buffer add up to those handed over and not settled     *)
(* (CopiesCounted).  For this a consumer in a round must have a message    *)
(* (HasMessage).                                                           *)
InRound(c) == cpc[c] \in {"enter", "yield", "requeue"}

HasMessage == \A c \in Consumers : InRound(c) => msg[c] \in Publishers

BufferedAt(p) == {i \in DOMAIN buffer : buffer[i] = p}

CopiesCounted ==
    \A p \in Publishers : open[p] = Cardinality(InHand(p)) + Cardinality(BufferedAt(p))

CopyInv == ExchangeTypeOK /\ HasMessage /\ CopiesCounted

----------------------------------------------------------------------------
(* The sets that are counted are finite. *)
LEMMA CopiesFinite ==
  ASSUME ExchangeTypeOK, NEW p
  PROVE  /\ IsFiniteSet(InHand(p)) /\ Cardinality(InHand(p)) \in Nat
         /\ IsFiniteSet(BufferedAt(p)) /\ Cardinality(BufferedAt(p)) \in Nat
<1>1. InHand(p) \in SUBSET Consumers
  BY DEF InHand
<1>2. IsFiniteSet(InHand(p))
  BY <1>1, FiniteAssumption, FS_Subset
<1>3. DOMAIN buffer = 1 .. Len(buffer) /\ Len(buffer) \in Int
  BY DEF ExchangeTypeOK
<1>4. IsFiniteSet(DOMAIN buffer)
  <2>1. 1 \in Int
    OBVIOUS
  <2>2. IsFiniteSet(1 .. Len(buffer))
    BY <1>3, <2>1, FS_Interval
  <2> QED
    BY <1>3, <2>2
<1>5. BufferedAt(p) \in SUBSET (DOMAIN buffer)
  BY DEF BufferedAt
<1>6. IsFiniteSet(BufferedAt(p))
  BY <1>4, <1>5, FS_Subset
<1> QED
  BY <1>2, <1>6, FS_CardinalityType

LEMMA InitCopyInv == ExchangeInit => CopyInv
<1> SUFFICES ASSUME ExchangeInit
             PROVE  CopyInv
  OBVIOUS
<1>1. ExchangeTypeOK
  <2>1. buffer \in Seq(Publishers)
    BY DEF ExchangeInit
  <2>2. s \subseteq Consumers /\ cancels \subseteq Consumers /\ msgDone \subseteq cancels
    BY DEF ExchangeInit
  <2>3. ctxDone \subseteq Publishers \cup Consumers /\ closed \in BOOLEAN /\ kind \in Kinds
    BY DEF ExchangeInit
  <2>4. /\ ppc \in [Publishers -> {"idle", "next", "send", "returned"}]
        /\ todo \in [Publishers -> SUBSET (Consumers \cup {Shared})]
        /\ to \in [Publishers -> Consumers \cup {Shared}]
        /\ open \in [Publishers -> Nat]
    BY DEF ExchangeInit
  <2>5. /\ cpc \in [Consumers -> {"out", "enrol", "loop", "upgrading", "select", "enter",
                                  "yield", "requeue", "exit", "leave", "resign"}]
        /\ msg \in [Consumers -> Publishers \cup {Shared}]
        /\ on \in [Consumers -> BOOLEAN]
    BY DEF ExchangeInit
  <2>6. kpc \in [Closers -> {"idle", "close", "cancel", "cancelling", "done", "panicked"}]
    BY DEF ExchangeInit
  <2> QED
    BY <2>1, <2>2, <2>3, <2>4, <2>5, <2>6 DEF ExchangeTypeOK
<1>2. HasMessage
  BY DEF ExchangeInit, HasMessage, InRound
<1>3. ASSUME NEW p \in Publishers
      PROVE  open[p] = Cardinality(InHand(p)) + Cardinality(BufferedAt(p))
  <2>1. InHand(p) = {} /\ BufferedAt(p) = {}
    BY DEF ExchangeInit, InHand, BufferedAt
  <2>2. Cardinality({}) = 0 /\ open[p] = 0
    BY FS_EmptySet DEF ExchangeInit
  <2> QED
    BY <2>1, <2>2
<1> QED
  BY <1>1, <1>2, <1>3 DEF CopyInv, CopiesCounted

(* A step that hands no message over and settles none. *)
LEMMA NoCopyStep ==
  ASSUME CopyInv, ExchangeTypeOK', UNCHANGED <<buffer, open>>,
         \A c \in Consumers : InRound(c)' <=> InRound(c),
         \A c \in Consumers : InRound(c) => msg'[c] = msg[c]
  PROVE  CopyInv'
<1>1. HasMessage'
  BY DEF CopyInv, HasMessage
<1>2. ASSUME NEW p \in Publishers
      PROVE  InHand(p)' = InHand(p) /\ BufferedAt(p)' = BufferedAt(p)
  BY DEF InHand, InRound, BufferedAt
<1>3. CopiesCounted'
  BY <1>2 DEF CopyInv, CopiesCounted
<1> QED
  BY <1>1, <1>3 DEF CopyInv

LEMMA PublisherCopies ==
  ASSUME CopyInv, NEW p \in Publishers, Publish(p) \/ Offer(p) \/ Published(p)
  PROVE  CopyInv'
<1>1. UNCHANGED <<kind, cpc, msg, on, s, buffer, cancels, ctxDone, msgDone, closed, kpc, open>>
  BY DEF Publish, Offer, Published, conVars, lockVars, ctxVars, closeVars
<1>2. ExchangeTypeOK'
  <2>1. ExchangeTypeOK
    BY DEF CopyInv
  <2>2. CASE Publish(p)
    BY <1>1, <2>1, <2>2 DEF ExchangeTypeOK, Publish
  <2>3. CASE Offer(p)
    BY <1>1, <2>1, <2>3 DEF ExchangeTypeOK, Offer
  <2>4. CASE Published(p)
    BY <1>1, <2>1, <2>4 DEF ExchangeTypeOK, Published
  <2> QED
    BY <2>2, <2>3, <2>4
<1> QED
  BY <1>1, <1>2, NoCopyStep DEF InRound

LEMMA OtherCopies ==
  ASSUME CopyInv,
         \/ \E x \in Cancellable : CancelCtx(x)
         \/ \E k \in Closers : \/ Close(k, "close") \/ Close(k, "cancel")
                               \/ CloseChannel(k) \/ CancelHandlers(k)
  PROVE  CopyInv'
<1>1. UNCHANGED <<kind, ppc, todo, to, cpc, msg, on, s, buffer, cancels, open>>
  BY DEF CancelCtx, Close, CloseChannel, CancelHandlers, pubVars, conVars, lockVars
<1>2. ExchangeTypeOK
  BY DEF CopyInv
<1>3. ExchangeTypeOK'
  <2>1. ASSUME NEW x \in Cancellable, CancelCtx(x)
        PROVE  ExchangeTypeOK'
    BY <1>1, <1>2, <2>1, SubsetAssumption DEF ExchangeTypeOK, CancelCtx, closeVars
  <2>2. ASSUME NEW k \in Closers, Close(k, "close") \/ Close(k, "cancel")
        PROVE  ExchangeTypeOK'
    BY <1>1, <1>2, <2>2 DEF ExchangeTypeOK, Close, ctxVars
  <2>3. ASSUME NEW k \in Closers, CloseChannel(k)
        PROVE  ExchangeTypeOK'
    BY <1>1, <1>2, <2>3 DEF ExchangeTypeOK, CloseChannel, ctxVars
  <2>4. ASSUME NEW k \in Closers, CancelHandlers(k)
        PROVE  ExchangeTypeOK'
    BY <1>1, <1>2, <2>4 DEF ExchangeTypeOK, CancelHandlers
  <2> QED
    BY <2>1, <2>2, <2>3, <2>4
<1> QED
  BY <1>1, <1>3, NoCopyStep DEF InRound

(* Steps of a consumer that leave its message alone. *)
LEMMA ConsumerNoCopies ==
  ASSUME CopyInv, NEW c \in Consumers,
         \/ Subscribe(c) \/ Enrol(c) \/ Peek(c) \/ Handle(c) \/ EndRound(c)
         \/ GiveUp(c) \/ Leave(c) \/ Resign(c) \/ \E more \in BOOLEAN : NackBuffer(c, more)
  PROVE  CopyInv'
<1>1. ExchangeTypeOK
  BY DEF CopyInv
<1>2. UNCHANGED <<kind, ppc, todo, to, buffer, ctxDone, closed, kpc, open>>
  BY DEF Subscribe, Enrol, Peek, Handle, EndRound, GiveUp, Leave, Resign, NackBuffer,
         pubVars, lockVars, ctxVars, closeVars
<1>3. ExchangeTypeOK'
  <2>1. CASE Handle(c)
    BY <1>1, <1>2, <2>1 DEF ExchangeTypeOK, Handle
  <2>2. CASE EndRound(c)
    BY <1>1, <1>2, <2>2 DEF ExchangeTypeOK, EndRound
  <2>3. CASE Enrol(c) \/ Resign(c)
    BY <1>1, <1>2, <2>3 DEF ExchangeTypeOK, Enrol, Resign, lockVars, ctxVars
  <2>4. CASE Subscribe(c) \/ Peek(c) \/ GiveUp(c) \/ Leave(c)
    BY <1>1, <1>2, <2>4
       DEF ExchangeTypeOK, Subscribe, Peek, GiveUp, Leave, lockVars, ctxVars
  <2>5. CASE \E more \in BOOLEAN : NackBuffer(c, more)
    BY <1>1, <1>2, <2>5 DEF ExchangeTypeOK, NackBuffer, lockVars, ctxVars
  <2> QED
    BY <2>1, <2>2, <2>3, <2>4, <2>5
<1>4. /\ \A d \in Consumers : InRound(d)' <=> InRound(d)
      /\ \A d \in Consumers : InRound(d) => msg'[d] = msg[d]
  BY <1>1 DEF ExchangeTypeOK, InRound, Subscribe, Enrol, Peek, Handle, EndRound, GiveUp, Leave,
              Resign, NackBuffer
<1> QED
  BY <1>2, <1>3, <1>4, NoCopyStep
----------------------------------------------------------------------------
(* Publish hands a copy over: one more in hand, one more open. *)
LEMMA ReceiveCopies ==
  ASSUME CopyInv, NEW c \in Consumers, NEW p \in Publishers, Receive(c, p)
  PROVE  CopyInv'
<1> USE DEF CopyInv
<1>1. /\ c \in Consumers /\ cpc[c] = "select"
      /\ cpc' = [cpc EXCEPT ![c] = "enter"] /\ msg' = [msg EXCEPT ![c] = p]
      /\ open' = [open EXCEPT ![p] = @ + 1]
      /\ ppc' = [ppc EXCEPT ![p] = "next"] /\ to' = [to EXCEPT ![p] = Shared]
      /\ UNCHANGED <<kind, on, todo, s, buffer, cancels, ctxDone, msgDone, closed, kpc>>
  BY DEF Receive, Receiving, lockVars, ctxVars, closeVars
<1>2. ExchangeTypeOK'
  BY <1>1 DEF ExchangeTypeOK
<1>3. HasMessage'
  BY <1>1 DEF ExchangeTypeOK, HasMessage, InRound
<1>4. \A q : BufferedAt(q)' = BufferedAt(q)
  BY <1>1 DEF BufferedAt
<1>5. c \notin InHand(p)
  BY <1>1 DEF InHand
<1>6. InHand(p)' = InHand(p) \cup {c}
  BY <1>1 DEF ExchangeTypeOK, InHand
<1>7. \A q \in Publishers \ {p} : InHand(q)' = InHand(q)
  BY <1>1 DEF ExchangeTypeOK, InHand
<1>8. Cardinality(InHand(p)') = Cardinality(InHand(p)) + 1
  BY <1>5, <1>6, CopiesFinite, FS_AddElement
<1>9. open'[p] = open[p] + 1 /\ \A q \in Publishers \ {p} : open'[q] = open[q]
  BY <1>1 DEF ExchangeTypeOK
<1>10. open'[p] = Cardinality(InHand(p)') + Cardinality(BufferedAt(p)')
  <2>1. open[p] = Cardinality(InHand(p)) + Cardinality(BufferedAt(p))
    BY DEF CopiesCounted
  <2>2. Cardinality(InHand(p)) \in Nat /\ Cardinality(BufferedAt(p)) \in Nat
    BY CopiesFinite
  <2> QED
    BY <1>4, <1>8, <1>9, <2>1, <2>2
<1>11. CopiesCounted'
  BY <1>4, <1>7, <1>9, <1>10 DEF CopiesCounted
<1> QED
  BY <1>2, <1>3, <1>11

(* An ACK, or the NACK of a message whose context is cancelled, settles a  *)
(* copy: one less in hand, one less open, and there was one.               *)
LEMMA SettleCopies ==
  ASSUME CopyInv, NEW c \in Consumers, NEW more \in BOOLEAN,
         Ack(c, more) \/ NackDrop(c, more)
  PROVE  CopyInv'
<1> USE DEF CopyInv
<1>1. /\ cpc[c] = "yield" /\ cpc' = [cpc EXCEPT ![c] = "exit"]
      /\ on' = [on EXCEPT ![c] = more]
      /\ open' = [open EXCEPT ![msg[c]] = @ - 1]
      /\ UNCHANGED <<kind, msg, s, ppc, todo, to, buffer, cancels, ctxDone, msgDone,
                     closed, kpc>>
  BY DEF Ack, NackDrop, pubVars, lockVars, ctxVars, closeVars
<1>2. PICK p \in Publishers : p = msg[c]
  BY <1>1 DEF HasMessage, InRound
<1>3. \A q : BufferedAt(q)' = BufferedAt(q)
  BY <1>1 DEF BufferedAt
<1>4. c \in InHand(p)
  BY <1>1, <1>2 DEF InHand
<1>5. InHand(p)' = InHand(p) \ {c}
  BY <1>1, <1>2 DEF ExchangeTypeOK, InHand
<1>6. \A q \in Publishers \ {p} : InHand(q)' = InHand(q)
  BY <1>1, <1>2 DEF ExchangeTypeOK, InHand
<1>7. /\ Cardinality(InHand(p)') = Cardinality(InHand(p)) - 1
      /\ Cardinality(InHand(p)') \in Nat
  <2>1. IsFiniteSet(InHand(p))
    BY CopiesFinite
  <2>2. Cardinality(InHand(p) \ {c}) = Cardinality(InHand(p)) - 1
    BY <1>4, <2>1, FS_RemoveElement
  <2>3. IsFiniteSet(InHand(p) \ {c})
    BY <2>1, FS_RemoveElement
  <2> QED
    BY <1>5, <2>2, <2>3, FS_CardinalityType
<1>8. open'[p] = open[p] - 1 /\ \A q \in Publishers \ {p} : open'[q] = open[q]
  BY <1>1, <1>2 DEF ExchangeTypeOK
<1>9. open'[p] = Cardinality(InHand(p)') + Cardinality(BufferedAt(p)') /\ open'[p] \in Nat
  <2>1. open[p] = Cardinality(InHand(p)) + Cardinality(BufferedAt(p))
    BY DEF CopiesCounted
  <2>2. Cardinality(InHand(p)) \in Nat /\ Cardinality(BufferedAt(p)) \in Nat
    BY CopiesFinite
  <2> QED
    BY <1>3, <1>7, <1>8, <2>1, <2>2
<1>10. ExchangeTypeOK'
  <2>1. open' \in [Publishers -> Nat]
    BY <1>1, <1>2, <1>8, <1>9 DEF ExchangeTypeOK
  <2> QED
    BY <1>1, <2>1 DEF ExchangeTypeOK
<1>11. HasMessage'
  BY <1>1 DEF ExchangeTypeOK, HasMessage, InRound
<1>12. CopiesCounted'
  BY <1>3, <1>6, <1>8, <1>9 DEF CopiesCounted
<1> QED
  BY <1>10, <1>11, <1>12

(* A copy that goes from one consumer to another stays one copy. *)
LEMMA HandOverCopies ==
  ASSUME CopyInv, NEW c \in Consumers, NEW d \in Consumers, NEW more \in BOOLEAN,
         NackHandOver(c, d, more)
  PROVE  CopyInv'
<1> USE DEF CopyInv
<1>1. /\ cpc[c] = "yield" /\ cpc[d] = "select"
      /\ cpc' = [cpc EXCEPT ![c] = "exit", ![d] = "enter"]
      /\ msg' = [msg EXCEPT ![d] = msg[c]]
      /\ on' = [on EXCEPT ![c] = more]
      /\ UNCHANGED <<kind, s, ppc, todo, to, buffer, cancels, ctxDone, msgDone, closed,
                     kpc, open>>
  BY DEF NackHandOver, Receiving, pubVars, lockVars, ctxVars, closeVars
<1>2. PICK p \in Publishers : p = msg[c]
  BY <1>1 DEF HasMessage, InRound
<1>3. ExchangeTypeOK'
  BY <1>1, <1>2 DEF ExchangeTypeOK
<1>4. HasMessage'
  BY <1>1, <1>2 DEF ExchangeTypeOK, HasMessage, InRound
<1>5. \A q : BufferedAt(q)' = BufferedAt(q)
  BY <1>1 DEF BufferedAt
<1>6. c \in InHand(p) /\ d \notin InHand(p) /\ c # d
  BY <1>1, <1>2 DEF InHand
<1>7. InHand(p)' = (InHand(p) \ {c}) \cup {d}
  BY <1>1, <1>2, <1>6 DEF ExchangeTypeOK, InHand
<1>8. \A q \in Publishers \ {p} : InHand(q)' = InHand(q)
  BY <1>1, <1>2 DEF ExchangeTypeOK, InHand
<1>9. Cardinality(InHand(p)') = Cardinality(InHand(p))
  <2>1. IsFiniteSet(InHand(p)) /\ Cardinality(InHand(p)) \in Nat
    BY CopiesFinite
  <2>2. /\ Cardinality(InHand(p) \ {c}) = Cardinality(InHand(p)) - 1
        /\ IsFiniteSet(InHand(p) \ {c})
    BY <1>6, <2>1, FS_RemoveElement
  <2>3. d \notin InHand(p) \ {c}
    BY <1>6
  <2>4. Cardinality((InHand(p) \ {c}) \cup {d}) = Cardinality(InHand(p) \ {c}) + 1
    BY <2>2, <2>3, FS_AddElement
  <2> QED
    BY <1>7, <2>1, <2>2, <2>4
<1>10. CopiesCounted'
  BY <1>1, <1>5, <1>8, <1>9 DEF CopiesCounted
<1> QED
  BY <1>3, <1>4, <1>10

(* A copy that goes to the buffer stays one copy. *)
LEMMA RequeueCopies ==
  ASSUME CopyInv, NEW c \in Consumers, Requeue(c)
  PROVE  CopyInv'
<1> USE DEF CopyInv
<1>1. /\ cpc[c] = "requeue" /\ cpc' = [cpc EXCEPT ![c] = "exit"]
      /\ buffer' = Append(buffer, msg[c])
      /\ UNCHANGED <<kind, msg, on, s, ppc, todo, to, cancels, ctxDone, msgDone, closed,
                     kpc, open>>
  BY DEF Requeue, pubVars, ctxVars, closeVars
<1>2. PICK p \in Publishers : p = msg[c]
  BY <1>1 DEF HasMessage, InRound
<1>3. ExchangeTypeOK'
  <2>1. buffer' \in Seq(Publishers)
    BY <1>1, <1>2 DEF ExchangeTypeOK
  <2> QED
    BY <1>1, <2>1 DEF ExchangeTypeOK
<1>4. HasMessage'
  BY <1>1 DEF ExchangeTypeOK, HasMessage, InRound
<1>5. PICK n \in Nat : n = Len(buffer)
  BY DEF ExchangeTypeOK
<1>6. /\ DOMAIN buffer = 1 .. n /\ DOMAIN buffer' = 1 .. (n + 1)
      /\ buffer'[n + 1] = p /\ \A i \in 1 .. n : buffer'[i] = buffer[i]
  BY <1>1, <1>2, <1>5 DEF ExchangeTypeOK
<1>7. n + 1 \notin BufferedAt(p)
  BY <1>5, <1>6 DEF BufferedAt
<1>8. BufferedAt(p)' = BufferedAt(p) \cup {n + 1}
  BY <1>5, <1>6 DEF BufferedAt
<1>9. \A q \in Publishers \ {p} : BufferedAt(q)' = BufferedAt(q)
  BY <1>5, <1>6 DEF BufferedAt
<1>10. c \in InHand(p)
  BY <1>1, <1>2 DEF InHand
<1>11. InHand(p)' = InHand(p) \ {c}
  BY <1>1, <1>2 DEF ExchangeTypeOK, InHand
<1>12. \A q \in Publishers \ {p} : InHand(q)' = InHand(q)
  BY <1>1, <1>2 DEF ExchangeTypeOK, InHand
<1>13. open[p] = Cardinality(InHand(p)') + Cardinality(BufferedAt(p)')
  <2>1. open[p] = Cardinality(InHand(p)) + Cardinality(BufferedAt(p))
    BY DEF CopiesCounted
  <2>2. /\ IsFiniteSet(InHand(p)) /\ Cardinality(InHand(p)) \in Nat
        /\ IsFiniteSet(BufferedAt(p)) /\ Cardinality(BufferedAt(p)) \in Nat
    BY CopiesFinite
  <2>3. Cardinality(InHand(p) \ {c}) = Cardinality(InHand(p)) - 1
    BY <1>10, <2>2, FS_RemoveElement
  <2>4. Cardinality(BufferedAt(p) \cup {n + 1}) = Cardinality(BufferedAt(p)) + 1
    BY <1>7, <2>2, FS_AddElement
  <2> QED
    BY <1>8, <1>11, <2>1, <2>2, <2>3, <2>4
<1>14. CopiesCounted'
  BY <1>1, <1>9, <1>12, <1>13 DEF CopiesCounted
<1> QED
  BY <1>3, <1>4, <1>14

LEMMA NextCopyInv == CopyInv /\ [ExchangeNext]_exchangeVars => CopyInv'
<1> SUFFICES ASSUME CopyInv, [ExchangeNext]_exchangeVars
             PROVE  CopyInv'
  OBVIOUS
<1>1. ASSUME NEW p \in Publishers, Publish(p) \/ PublisherStep(p)
      PROVE  CopyInv'
  BY <1>1, PublisherCopies DEF PublisherStep
<1>2. ASSUME NEW c \in Consumers, Subscribe(c) \/ ConsumerStep(c)
      PROVE  CopyInv'
  <2>1. CASE \/ Subscribe(c) \/ Enrol(c) \/ Peek(c) \/ Handle(c) \/ EndRound(c)
             \/ GiveUp(c) \/ Leave(c) \/ Resign(c)
             \/ \E more \in BOOLEAN : NackBuffer(c, more)
    BY <2>1, ConsumerNoCopies
  <2>2. CASE \E p \in Publishers : Receive(c, p)
    BY <2>2, ReceiveCopies
  <2>3. CASE \E more \in BOOLEAN : Ack(c, more) \/ NackDrop(c, more)
    BY <2>3, SettleCopies
  <2>4. CASE \E more \in BOOLEAN, d \in Consumers : NackHandOver(c, d, more)
    BY <2>4, HandOverCopies
  <2>5. CASE Requeue(c)
    BY <2>5, RequeueCopies
  <2> QED
    BY <1>2, <2>1, <2>2, <2>3, <2>4, <2>5 DEF ConsumerStep, Nack
<1>3. CASE \/ \E x \in Cancellable : CancelCtx(x)
           \/ \E k \in Closers : \/ Close(k, "close") \/ Close(k, "cancel")
                                 \/ CloseChannel(k) \/ CancelHandlers(k)
  BY <1>3, OtherCopies
<1>4. CASE UNCHANGED exchangeVars
  <2>1. UNCHANGED <<kind, ppc, todo, to, cpc, msg, on, s, buffer, cancels, ctxDone,
                    msgDone, closed, kpc, open>>
    BY <1>4 DEF exchangeVars, pubVars, conVars, lockVars, ctxVars, closeVars
  <2>2. ExchangeTypeOK'
    BY <2>1 DEF CopyInv, ExchangeTypeOK
  <2> QED
    BY <2>1, <2>2, NoCopyStep DEF InRound
<1> QED
  BY <1>1, <1>2, <1>3, <1>4 DEF ExchangeNext

LEMMA AlwaysCopyInv == ExchangeSpec => []CopyInv
<1> QED
  BY InitCopyInv, NextCopyInv, PTL DEF ExchangeSpec

(* No message of a Fan or a Broadcast is lost or doubled by being put      *)
(* back, whoever nacks it, for any number of publishers and consumers: the *)
(* copies with a consumer and in the buffer are those that Publish handed  *)
(* over and nobody settled (regMessage's NACK and bufferPush).             *)
THEOREM NoCopyLost == ExchangeSpec => []Conserved
<1>1. CopyInv => Conserved
  BY DEF CopyInv, Conserved, CopiesCounted, Buffered, BufferedAt
<1> QED
  BY <1>1, AlwaysCopyInv, PTL

----------------------------------------------------------------------------
(* The read lock of Broadcast.m keeps the channels that a Publish is about *)
(* to send to.                                                             *)
LEMMA NextChannelsOpen ==
  ASSUME ExchangeTypeOK, ChannelsOpen, ExchangeNext
  PROVE  ChannelsOpen'
<1> SUFFICES ASSUME kind' = "broadcast", NEW q \in Publishers, ppc'[q] \in {"next", "send"}
             PROVE  todo'[q] \subseteq s' /\ (ppc'[q] = "send" => to'[q] \in s')
  BY DEF ChannelsOpen, MReaders
<1>1. ASSUME NEW p \in Publishers, Publish(p) \/ PublisherStep(p)
      PROVE  todo'[q] \subseteq s' /\ (ppc'[q] = "send" => to'[q] \in s')
  <2>1. CASE Publish(p)
    BY <2>1 DEF ExchangeTypeOK, ChannelsOpen, MReaders, Publish
  <2>2. CASE Offer(p)
    BY <2>2 DEF ExchangeTypeOK, ChannelsOpen, MReaders, Offer
  <2>3. CASE Published(p)
    BY <2>3 DEF ExchangeTypeOK, ChannelsOpen, MReaders, Published
  <2> QED
    BY <1>1, <2>1, <2>2, <2>3 DEF PublisherStep
<1>2. ASSUME NEW c \in Consumers, Subscribe(c) \/ ConsumerStep(c)
      PROVE  todo'[q] \subseteq s' /\ (ppc'[q] = "send" => to'[q] \in s')
  <2>1. CASE Enrol(c) \/ Resign(c)
    BY <2>1 DEF MReaders, Enrol, Resign, pubVars
  <2>2. CASE \E p \in Publishers : Receive(c, p)
    BY <2>2 DEF ExchangeTypeOK, ChannelsOpen, MReaders, Receive
  <2>3. CASE UNCHANGED <<kind, pubVars, s>>
    BY <2>3 DEF ChannelsOpen, MReaders, pubVars
  <2> QED
    BY <1>2, <2>1, <2>2, <2>3
       DEF ConsumerStep, Subscribe, Peek, Handle, Ack, Nack, NackDrop, NackBuffer,
           NackHandOver, Requeue, EndRound, GiveUp, Leave
<1>3. CASE UNCHANGED <<kind, pubVars, s>>
  BY <1>3 DEF ChannelsOpen, MReaders, pubVars
<1> QED
  BY <1>1, <1>2, <1>3 DEF ExchangeNext, CancelCtx, Close, CloseChannel, CancelHandlers

(* Publish of a Broadcast never sends on a closed channel, however many    *)
(* subscribers come and go meanwhile: register's release closes a channel  *)
(* under the write lock, and Publish has the read lock.                    *)
THEOREM NoSendOnClosed == ExchangeSpec => []ChannelsOpen
<1>1. ExchangeInit => ChannelsOpen
  BY DEF ExchangeInit, ChannelsOpen, MReaders
<1>2. ExchangeTypeOK /\ ChannelsOpen /\ [ExchangeNext]_exchangeVars => ChannelsOpen'
  <2>1. ASSUME ChannelsOpen, UNCHANGED exchangeVars
        PROVE  ChannelsOpen'
    BY <2>1 DEF ChannelsOpen, MReaders, exchangeVars, pubVars
  <2> QED
    BY <2>1, NextChannelsOpen
<1>3. CopyInv => ExchangeTypeOK
  BY DEF CopyInv
<1> QED
  BY <1>1, <1>2, <1>3, AlwaysCopyInv, PTL DEF ExchangeSpec

----------------------------------------------------------------------------
(***************************************************************************)
(* The Group, for any members, waiters and receivers and every setting of  *)
(* its flags.                                                              *)
(*                                                                         *)
(* That an id is free whenever a member starts takes an invariant of its   *)
(* own: an id belongs to the member whose cancel function it holds, and    *)
(* that member is not past its epilogue (Owned).  What Group.Cancel        *)
(* reaches: a member that runs with a live context has its id, unless the  *)
(* epilogue of another one deleted it; until the group is cancelled for    *)
(* the first time every member that is not past its epilogue has its id,   *)
(* so that no epilogue deletes another one's (Reached).                    *)
(***************************************************************************)
Active == {"running", "returned", "removing"}

Owned == \A i \in Ids : cancelFns[i] # None =>
            id[cancelFns[i]] = i /\ st[cancelFns[i]] \in Active

GroupInv == ErrorsConserved /\ Owned

Reached ==
    /\ \A t \in Running \ (cancelled \cup lost) : cancelFns[id[t]] = t
    /\ ~wasCancelled => /\ lost = {}
                        /\ \A t \in Tasks : st[t] \in Active => cancelFns[id[t]] = t

(* A set of natural numbers that is not empty has a least element. *)
LEMMA LeastNatural ==
  ASSUME NEW T \in SUBSET Nat, T # {}
  PROVE  \E x \in T : \A y \in T : x <= y
<1> DEFINE R == OpToRel(<, Nat)
<1>1. IsWellFoundedOn(R, Nat)
  BY NatLessThanWellFounded
<1>2. \A x, y \in Nat : x < y => <<x, y>> \in R
  BY DEF OpToRel
<1> HIDE DEF R
<1>3. PICK x \in T : \A y \in T : ~(<<y, x>> \in R)
  BY <1>1, WFMin
<1>4. ASSUME NEW y \in T, y < x
      PROVE  FALSE
  <2>1. x \in Nat /\ y \in Nat
    OBVIOUS
  <2>2. <<y, x>> \in R
    BY <1>2, <1>4, <2>1
  <2> QED
    BY <1>3, <2>2
<1> QED
  BY <1>4

(* A member that starts finds a free id, as there are as many ids as       *)
(* members and no two ids belong to one member.                            *)
LEMMA FreeID ==
  ASSUME GroupInv, NEW t \in Tasks, st[t] = "new"
  PROVE  nextID \in Ids /\ cancelFns[nextID] = None
<1>1. /\ cancelFns \in [Ids -> Tasks \cup {None}]
      /\ Owned
  BY DEF GroupInv, ErrorsConserved, GroupTypeOK
<1>2. Cardinality(Tasks) \in Nat
  BY TasksAssumption, FS_CardinalityType
<1>3. \E i \in Ids : cancelFns[i] = None
  <2> SUFFICES ASSUME \A i \in Ids : cancelFns[i] # None
               PROVE  FALSE
    OBVIOUS
  <2>1. cancelFns \in [Ids -> Tasks \ {t}]
    BY <1>1 DEF Owned, Active
  <2>2. IsFiniteSet(Tasks \ {t}) /\ Cardinality(Tasks \ {t}) = Cardinality(Tasks) - 1
    BY TasksAssumption, FS_RemoveElement
  <2>3. IsFiniteSet(Ids) /\ Cardinality(Ids) = Cardinality(Tasks)
    <3>1. Cardinality(Tasks) # 0
      BY TasksAssumption, FS_EmptySet
    <3>2. Cardinality(Tasks) - 1 \in Int /\ 0 <= Cardinality(Tasks) - 1
      BY <1>2, <3>1
    <3> QED
      BY <1>2, <3>2, FS_Interval DEF Ids
  <2>4. Cardinality(Tasks \ {t}) < Cardinality(Ids)
    BY <1>2, <2>2, <2>3
  <2>5. PICK i, j \in Ids : i # j /\ cancelFns[i] = cancelFns[j]
    BY <2>1, <2>2, <2>3, <2>4, FS_PigeonHole
  <2> QED
    BY <1>1, <2>5 DEF Owned
<1>4. \E i \in Ids : /\ cancelFns[i] = None
                     /\ \A j \in Ids : j < i => cancelFns[j] # None
  <2> DEFINE T == {i \in Ids : cancelFns[i] = None}
  <2>1. T \in SUBSET Nat /\ T # {}
    BY <1>2, <1>3 DEF Ids
  <2>2. PICK i \in T : \A j \in T : i <= j
    BY <2>1, LeastNatural
  <2>3. \A j \in Ids : j < i => cancelFns[j] # None
    BY <1>2, <2>2 DEF Ids
  <2> QED
    BY <2>2, <2>3
<1> QED
  BY <1>4 DEF nextID

----------------------------------------------------------------------------
LEMMA InitGroupInv == GroupInit => GroupInv /\ Reached
<1> SUFFICES ASSUME GroupInit
             PROVE  GroupInv /\ Reached
  OBVIOUS
<1>1. \A t \in Tasks : 0 \in Ids
  <2>1. Cardinality(Tasks) \in Nat /\ (Cardinality(Tasks) = 0 => Tasks = {})
    BY TasksAssumption, FS_CardinalityType, FS_EmptySet
  <2> QED
    BY <2>1 DEF Ids
<1>2. GroupTypeOK
  BY <1>1 DEF GroupInit, GroupTypeOK, Outcomes
<1> QED
  BY <1>2 DEF GroupInit, GroupInv, ErrorsConserved, Owned, Reached, Active, Running

(* Go: the id that was free is the new member's. *)
LEMMA GoStep ==
  ASSUME GroupInv, NEW t \in Tasks, Go(t)
  PROVE  GroupInv'
<1>1. nextID \in Ids /\ cancelFns[nextID] = None
  BY FreeID DEF Go
<1> DEFINE i == nextID
<1>2. /\ st[t] = "new" /\ st' = [st EXCEPT ![t] = "running"]
      /\ id' = [id EXCEPT ![t] = i]
      /\ cancelFns' = [cancelFns EXCEPT ![i] = t]
      /\ UNCHANGED <<out, cancelled, dpc, wasCancelled, lost, errs, panicked, reported,
                     wpc>>
  BY DEF Go, waitVars
<1> HIDE DEF i
<1>3. i \in Ids
  BY <1>1 DEF i
<1>4. ErrorsConserved'
  BY <1>2, <1>3 DEF GroupInv, ErrorsConserved, GroupTypeOK, Outcomes
<1>5. Owned'
  BY <1>2, <1>3, NoTaskAssumption DEF GroupInv, ErrorsConserved, GroupTypeOK, Owned, Active
<1> QED
  BY <1>4, <1>5 DEF GroupInv

(* A member on its way: only Remove adds to errs, and it gives the id up. *)
LEMMA TaskStepKeeps ==
  ASSUME GroupInv, NEW t \in Tasks, TaskStep(t)
  PROVE  GroupInv'
<1> USE DEF GroupInv
<1>1. ASSUME NEW o \in Outcomes, Return(t, o)
      PROVE  GroupInv'
  <2>1. ErrorsConserved'
    BY <1>1 DEF Return, ErrorsConserved, GroupTypeOK, waitVars
  <2>2. Owned'
    BY <1>1, NoTaskAssumption DEF Return, ErrorsConserved, GroupTypeOK, Owned, Active
  <2> QED
    BY <2>1, <2>2
<1>2. CASE Fail(t)
  <2>1. GroupTypeOK'
    <3>1. CASE out[t] = "err" /\ ~Isolation
      <4>1. {cancelFns[i] : i \in Ids} \ {None} \subseteq Tasks
        BY DEF ErrorsConserved, GroupTypeOK
      <4> QED
        BY <1>2, <3>1, <4>1
        DEF Fail, CancelAll, ErrorsConserved, GroupTypeOK, waitVars, taskVars
    <3>2. CASE ~(out[t] = "err" /\ ~Isolation)
      BY <1>2, <3>2 DEF Fail, ErrorsConserved, GroupTypeOK, waitVars, taskVars
    <3> QED
      BY <3>1, <3>2
  <2>2. ErrorsConserved'
    BY <1>2, <2>1 DEF Fail, ErrorsConserved, GroupTypeOK, waitVars, taskVars
  <2>3. Owned'
    BY <1>2, NoTaskAssumption
    DEF Fail, CancelAll, ErrorsConserved, GroupTypeOK, Owned, Active, taskVars
  <2> QED
    BY <2>2, <2>3
<1>3. CASE Remove(t)
  <2>1. /\ st[t] = "removing" /\ st' = [st EXCEPT ![t] = "removed"]
        /\ UNCHANGED <<out, reported, id>>
        /\ cancelFns' = [cancelFns EXCEPT ![id[t]] = None]
    BY <1>3 DEF Remove, taskVars
  <2>2. GroupTypeOK'
    BY <1>3 DEF Remove, ErrorsConserved, GroupTypeOK, taskVars
  <2>3. t \notin errs \cup reported
    BY <2>1 DEF ErrorsConserved
  <2>4. (errs \cap reported = {})'
    BY <1>3, <2>1, <2>3 DEF Remove, ErrorsConserved
  <2>5. ErrorsConserved'
    BY <1>3, <2>1, <2>2, <2>4 DEF Remove, ErrorsConserved, GroupTypeOK
  <2>6. Owned'
    BY <2>1, NoTaskAssumption DEF ErrorsConserved, GroupTypeOK, Owned, Active
  <2> QED
    BY <2>5, <2>6
<1>4. CASE WgDone(t) \/ SigDone(t)
  <2>1. ErrorsConserved'
    BY <1>4 DEF WgDone, SigDone, ErrorsConserved, GroupTypeOK, waitVars, taskVars
  <2>2. Owned'
    BY <1>4, NoTaskAssumption
    DEF WgDone, SigDone, ErrorsConserved, GroupTypeOK, Owned, Active, taskVars
  <2> QED
    BY <2>1, <2>2
<1> QED
  BY <1>1, <1>2, <1>3, <1>4 DEF TaskStep

(* Cancel, Job.Cancel and everybody who waits. *)
LEMMA OtherSteps ==
  ASSUME GroupInv,
         \/ \E t \in Tasks : JobCancel(t)
         \/ Cancel
         \/ \E w \in Waiters : Wait(w) \/ WaitStep(w)
         \/ \E d \in Receivers : Done(d) \/ ReceiveDone(d)
         \/ UNCHANGED groupVars
  PROVE  GroupInv'
<1> USE DEF GroupInv
<1>1. ASSUME NEW t \in Tasks, JobCancel(t)
      PROVE  GroupInv'
  BY <1>1 DEF JobCancel, ErrorsConserved, GroupTypeOK, Owned, waitVars, taskVars
<1>2. CASE Cancel
  BY <1>2, NoTaskAssumption
  DEF Cancel, CancelAll, ErrorsConserved, GroupTypeOK, Owned, waitVars, taskVars
<1>3. ASSUME NEW w \in Waiters, Wait(w) \/ WaitOver(w) \/ WaitFast(w)
      PROVE  GroupInv'
  BY <1>3 DEF Wait, WaitOver, WaitFast, ErrorsConserved, GroupTypeOK, Owned, taskVars
<1>4. ASSUME NEW w \in Waiters, WaitSlow(w)
      PROVE  GroupInv'
  BY <1>4 DEF WaitSlow, ErrorsConserved, GroupTypeOK, Owned, taskVars
<1>5. ASSUME NEW d \in Receivers, Done(d) \/ ReceiveDone(d)
      PROVE  GroupInv'
  BY <1>5 DEF Done, ReceiveDone, ErrorsConserved, GroupTypeOK, Owned, taskVars, waitVars
<1>6. CASE UNCHANGED groupVars
  BY <1>6 DEF groupVars, ErrorsConserved, GroupTypeOK, Owned
<1> QED
  BY <1>1, <1>2, <1>3, <1>4, <1>5, <1>6 DEF WaitStep

LEMMA AlwaysGroupInv == GroupSpec => []GroupInv
<1>1. GroupInv /\ [GroupNext]_groupVars => GroupInv'
  BY GoStep, TaskStepKeeps, OtherSteps DEF GroupNext
<1> QED
  BY <1>1, InitGroupInv, PTL DEF GroupSpec

(* No error is lost or reported twice, in a group of any size with any     *)
(* number of goroutines in Wait, whatever panics come between.             *)
THEOREM ErrorsNeverLost == GroupSpec => []ErrorsConserved
<1>1. GroupInv => ErrorsConserved
  BY DEF GroupInv
<1> QED
  BY <1>1, AlwaysGroupInv, PTL

----------------------------------------------------------------------------
(* No step takes the id of a running member away from it but a Cancel,     *)
(* which cancels it, and the epilogue of another member, which loses it.   *)
LEMMA ReachedStep ==
  ASSUME GroupInv, Reached, [GroupNext]_groupVars
  PROVE  Reached'
<1> USE DEF GroupInv, ErrorsConserved, GroupTypeOK
<1>1. ASSUME NEW t \in Tasks, Go(t)
      PROVE  Reached'
  <2>1. nextID \in Ids /\ cancelFns[nextID] = None
    BY <1>1, FreeID DEF Go
  <2> DEFINE i == nextID
  <2>2. /\ st[t] = "new" /\ st' = [st EXCEPT ![t] = "running"]
        /\ id' = [id EXCEPT ![t] = i]
        /\ cancelFns' = [cancelFns EXCEPT ![i] = t]
        /\ UNCHANGED <<wasCancelled, lost, cancelled>>
    BY <1>1 DEF Go
  <2> HIDE DEF i
  <2>3. i \in Ids /\ cancelFns[i] = None
    BY <2>1 DEF i
  <2> QED
    BY <2>2, <2>3, NoTaskAssumption DEF Reached, Active, Running
<1>2. ASSUME NEW t \in Tasks, NEW o \in Outcomes, Return(t, o)
      PROVE  Reached'
  BY <1>2 DEF Return, Reached, Active, Running
<1>3. ASSUME CancelAll, UNCHANGED <<lost, id>>, Running' \subseteq Running
      PROVE  Reached'
  <2>1. cancelled' = cancelled \cup ({cancelFns[i] : i \in Ids} \ {None})
    BY <1>3 DEF CancelAll
  <2>2. Running \subseteq cancelled' \cup lost'
    BY <1>3, <2>1, NoTaskAssumption DEF Reached, Running
  <2>3. wasCancelled'
    BY <1>3 DEF CancelAll
  <2> QED
    BY <1>3, <2>2, <2>3 DEF Reached
<1>4. ASSUME NEW t \in Tasks, Fail(t)
      PROVE  Reached'
  <2>1. st' = [st EXCEPT ![t] = "removing"] /\ st[t] = "returned" /\ UNCHANGED <<lost, id>>
    BY <1>4 DEF Fail, taskVars
  <2>2. CASE out[t] = "err" /\ ~Isolation
    BY <1>3, <1>4, <2>1, <2>2 DEF Fail, Running
  <2>3. CASE ~(out[t] = "err" /\ ~Isolation)
    BY <1>4, <2>1, <2>3 DEF Fail, Reached, Running, Active
  <2> QED
    BY <2>2, <2>3
<1>5. ASSUME NEW t \in Tasks, Remove(t)
      PROVE  Reached'
  <2>1. /\ st[t] = "removing" /\ st' = [st EXCEPT ![t] = "removed"]
        /\ cancelFns' = [cancelFns EXCEPT ![id[t]] = None]
        /\ lost' = lost \cup ({cancelFns[id[t]]} \ {None, t})
        /\ UNCHANGED <<id, cancelled, wasCancelled>>
    BY <1>5 DEF Remove, taskVars
  <2>2. \A u \in Running' \ (cancelled' \cup lost') : cancelFns'[id'[u]] = u
    BY <2>1, NoTaskAssumption DEF Reached, Running
  <2>3. ASSUME ~wasCancelled
        PROVE  /\ lost' = {}
               /\ \A u \in Tasks : st'[u] \in Active => cancelFns'[id'[u]] = u
    BY <2>1, <2>3, NoTaskAssumption DEF Reached, Active
  <2> QED
    BY <2>1, <2>2, <2>3 DEF Reached
<1>6. ASSUME NEW t \in Tasks, WgDone(t) \/ SigDone(t) \/ JobCancel(t)
      PROVE  Reached'
  BY <1>6 DEF WgDone, SigDone, JobCancel, Reached, Running, Active, taskVars
<1>7. CASE Cancel
  BY <1>3, <1>7 DEF Cancel, Running, taskVars
<1>8. ASSUME NEW w \in Waiters, Wait(w) \/ WaitStep(w)
      PROVE  Reached'
  BY <1>8
  DEF Wait, WaitStep, WaitOver, WaitFast, WaitSlow, Reached, Running, taskVars
<1>9. ASSUME NEW d \in Receivers, Done(d) \/ ReceiveDone(d)
      PROVE  Reached'
  BY <1>9 DEF Done, ReceiveDone, Reached, Running, taskVars
<1>10. CASE UNCHANGED groupVars
  BY <1>10 DEF groupVars, Reached, Running
<1> QED
  BY <1>1, <1>2, <1>4, <1>5, <1>6, <1>7, <1>8, <1>9, <1>10 DEF GroupNext, TaskStep

LEMMA AlwaysReached == GroupSpec => [](GroupInv /\ Reached)
<1>1. GroupInv /\ Reached /\ [GroupNext]_groupVars => Reached'
  BY ReachedStep
<1> QED
  BY <1>1, InitGroupInv, AlwaysGroupInv, PTL DEF GroupSpec

(* Group.Cancel reaches every member that runs with a live context, in a   *)
(* group that is used again after Cancel too, except for those whose entry *)
(* another member's epilogue has deleted; without a Cancel there is none.  *)
THEOREM CancelReaches == GroupSpec => []CancelReachable
<1>1. GroupInv /\ Reached => CancelReachable
  BY DEF GroupInv, ErrorsConserved, GroupTypeOK, Reached, CancelReachable, Running, Active
<1> QED
  BY <1>1, AlwaysReached, PTL

(* Without Isolation, every real error that goes through filterErr cancels *)
(* all members that run at that moment and are not lost to Cancel, however *)
(* often the group was cancelled before.                                   *)
THEOREM FirstErrorStops == GroupSpec => FailFast
<1> DEFINE StopsAll == \A t \in Tasks :
             /\ ~Isolation /\ out[t] = "err"
             /\ st[t] = "returned" /\ st'[t] = "removing"
             => Running \ {t} \subseteq cancelled' \cup lost
<1>1. ASSUME GroupInv, Reached, [GroupNext]_groupVars
      PROVE  [StopsAll]_groupVars
  <2> USE DEF GroupInv, ErrorsConserved, GroupTypeOK
  <2> SUFFICES ASSUME NEW t \in Tasks, ~Isolation, out[t] = "err",
                      st[t] = "returned", st'[t] = "removing"
               PROVE  Running \ {t} \subseteq cancelled' \cup lost
    OBVIOUS
  <2>1. Fail(t)
    <3>1. ASSUME NEW u \in Tasks, Go(u) PROVE FALSE
      BY <3>1 DEF Go
    <3>2. ASSUME NEW u \in Tasks, NEW o \in Outcomes, Return(u, o) PROVE FALSE
      BY <3>2 DEF Return
    <3>3. ASSUME NEW u \in Tasks, Fail(u) PROVE u = t
      BY <3>3 DEF Fail
    <3>4. ASSUME NEW u \in Tasks, Remove(u) \/ WgDone(u) \/ SigDone(u) \/ JobCancel(u)
          PROVE  FALSE
      <4>1. \/ \E p \in {"removed", "signalling", "finished"} : st' = [st EXCEPT ![u] = p]
            \/ st' = st
        BY <3>4 DEF Remove, WgDone, SigDone, JobCancel
      <4> QED
        BY <1>1, <4>1
    <3>5. \/ Cancel
          \/ \E w \in Waiters : Wait(w) \/ WaitStep(w)
          \/ \E d \in Receivers : Done(d) \/ ReceiveDone(d)
          \/ UNCHANGED groupVars
          => FALSE
      BY DEF Cancel, Wait, WaitStep, WaitOver, WaitFast, WaitSlow, Done, ReceiveDone,
             groupVars
    <3> QED
      BY <1>1, <3>1, <3>2, <3>3, <3>4, <3>5 DEF GroupNext, TaskStep
  <2>2. cancelled' = cancelled \cup ({cancelFns[i] : i \in Ids} \ {None})
    BY <2>1 DEF Fail, CancelAll
  <2> QED
    BY <1>1, <2>2, NoTaskAssumption DEF Reached, Running
<1>2. GroupSpec => [][StopsAll]_groupVars
  BY <1>1, AlwaysReached, PTL DEF GroupSpec
<1> QED
  BY <1>2 DEF FailFast

----------------------------------------------------------------------------
(* The table of RWLockerFactory.  TableExact is not inductive: which       *)
(* goroutines have a lock at all must be known from where they are         *)
(* (Phases), and a goroutine that is on its way to remove an entry must    *)
(* not be one of another key, although it is no longer counted as a user   *)
(* (OwnKey).                                                               *)
LEMMA FactoryAssumptions ==
    /\ NoLock \notin Locks \cup Keys
    /\ IsFiniteSet(Callers) /\ IsFiniteSet(Keys) /\ IsFiniteSet(Locks)
    /\ Cardinality(Locks) >= Cardinality(Callers) + Cardinality(Keys)
BY NoLockAssumption, TablesAssumption, LocksAssumption

Phases == \A g \in Callers :
    /\ at[g] \in {"idle", "creating"} => lk[g] = NoLock
    /\ at[g] \in {"acquiring", "announced", "leaving", "sweeping"} => lk[g] \in Locks
    /\ at[g] # "idle" => key[g] \in Keys

OwnKey == \A g \in Callers, k \in Keys :
    locks[k] # NoLock /\ lk[g] = locks[k] => key[g] = k

LocksCounted == \A l \in Locks : users[l] = Cardinality(Users(l))

TableInv == FactoryTypeOK /\ Phases /\ OwnKey /\ NoLeak /\ LocksCounted

LEMMA TableInvSuffices ==
  TableInv => TableExact
BY FactoryAssumptions
DEF TableInv, TableExact, FactoryTypeOK, LocksCounted, OwnKey, UsersCounted,
    Users

(* No lock is the entry of two keys. *)
LEMMA EntriesDiffer ==
  ASSUME TableInv, NEW j \in Keys, NEW k \in Keys, locks[j] # NoLock, locks[j] = locks[k]
  PROVE  j = k
BY DEF TableInv, NoLeak, OwnKey

(* The users of a lock are finitely many. *)
LEMMA UsersFinite ==
  ASSUME NEW l
  PROVE  /\ IsFiniteSet(Users(l)) /\ Cardinality(Users(l)) \in Nat
         /\ Cardinality(Users(l)) = 0 <=> Users(l) = {}
<1>1. Users(l) \in SUBSET Callers
  BY DEF Users
<1>2. IsFiniteSet(Users(l))
  BY <1>1, FactoryAssumptions, FS_Subset
<1> QED
  BY <1>2, FS_CardinalityType, FS_EmptySet

(* A goroutine that creates an entry gets a lock that nobody has. *)
LEMMA Allocatable ==
  ASSUME TableInv, NEW g \in Callers, at[g] = "creating"
  PROVE  Unreachable # {}
<1> SUFFICES ASSUME Unreachable = {}
             PROVE  FALSE
  OBVIOUS
<1> DEFINE A == {locks[k] : k \in Keys}
           B == {lk[h] : h \in Callers}
<1>1. /\ locks \in [Keys -> Locks \cup {NoLock}] /\ lk \in [Callers -> Locks \cup {NoLock}]
      /\ lk[g] = NoLock
  BY DEF TableInv, FactoryTypeOK, Phases
<1>2. Locks \subseteq (A \cup B) \ {NoLock} /\ NoLock \in A \cup B
  BY FactoryAssumptions, <1>1 DEF Unreachable
<1>3. IsFiniteSet(A) /\ Cardinality(A) <= Cardinality(Keys)
  <2>1. locks \in Surjection(Keys, A)
    BY <1>1 DEF Surjection
  <2> QED
    BY FactoryAssumptions, <2>1, FS_Surjection
<1>4. IsFiniteSet(B) /\ Cardinality(B) <= Cardinality(Callers)
  <2>1. lk \in Surjection(Callers, B)
    BY <1>1 DEF Surjection
  <2> QED
    BY FactoryAssumptions, <2>1, FS_Surjection
<1> HIDE DEF A, B
<1>5. /\ IsFiniteSet(A \cup B)
      /\ Cardinality(A \cup B) <= Cardinality(A) + Cardinality(B)
  <2>1. IsFiniteSet(A \cap B)
    BY <1>3, FS_Intersection
  <2>2. /\ Cardinality(A) \in Nat /\ Cardinality(B) \in Nat
        /\ Cardinality(A \cap B) \in Nat
    BY <1>3, <1>4, <2>1, FS_CardinalityType
  <2>3. /\ IsFiniteSet(A \cup B)
        /\ Cardinality(A \cup B) = Cardinality(A) + Cardinality(B) - Cardinality(A \cap B)
    BY <1>3, <1>4, FS_Union
  <2> QED
    BY <2>2, <2>3
<1>6. /\ IsFiniteSet((A \cup B) \ {NoLock})
      /\ Cardinality((A \cup B) \ {NoLock}) = Cardinality(A \cup B) - 1
  BY <1>2, <1>5, FS_RemoveElement
<1>7. Cardinality(Locks) <= Cardinality((A \cup B) \ {NoLock})
  BY <1>2, <1>6, FS_Subset
<1>8. /\ Cardinality(Locks) \in Nat /\ Cardinality(A) \in Nat /\ Cardinality(B) \in Nat
      /\ Cardinality(A \cup B) \in Nat
      /\ Cardinality(Keys) \in Nat /\ Cardinality(Callers) \in Nat
  BY FactoryAssumptions, <1>3, <1>4, <1>5, FS_CardinalityType
<1> QED
  BY FactoryAssumptions, <1>3, <1>4, <1>5, <1>6, <1>7, <1>8

----------------------------------------------------------------------------
LEMMA InitTableInv == FactoryInit => TableInv
<1> SUFFICES ASSUME FactoryInit
             PROVE  TableInv
  OBVIOUS
<1>1. FactoryTypeOK
  BY DEF FactoryInit, FactoryTypeOK, FactoryPCs
<1>2. \A l \in Locks : Users(l) = {}
  BY DEF FactoryInit, Users
<1>3. LocksCounted
  BY <1>2, UsersFinite DEF FactoryInit, LocksCounted
<1> QED
  BY <1>1, <1>3 DEF FactoryInit, TableInv, Phases, OwnKey, NoLeak

(* The first part of incUserCount: the goroutine joins the users of l. *)
LEMMA Joins ==
  ASSUME TableInv, NEW g \in Callers,
         NEW l \in Locks, at[g] \in {"idle", "creating"},
         lk' = [lk EXCEPT ![g] = l], at' = [at EXCEPT ![g] = "acquiring"]
  PROVE  /\ Cardinality(Users(l)') = Cardinality(Users(l)) + 1
         /\ \A m \in Locks : m # l => Users(m)' = Users(m)
<1>1. g \notin Users(l)
  BY DEF Users
<1>2. Users(l)' = Users(l) \cup {g}
  BY DEF TableInv, FactoryTypeOK, Users
<1>3. ASSUME NEW m \in Locks, m # l
      PROVE  Users(m)' = Users(m)
  BY FactoryAssumptions, <1>3 DEF TableInv, FactoryTypeOK, Users, Phases
<1>4. Cardinality(Users(l) \cup {g}) = Cardinality(Users(l)) + 1
  BY <1>1, UsersFinite, FS_AddElement
<1> QED
  BY <1>2, <1>3, <1>4

(* An entry that is found, by either lookup, gets one more user. *)
LEMMA UseStep ==
  ASSUME TableInv, NEW g \in Callers,
         NEW k \in Keys, at[g] \in {"idle", "creating"},
         locks[k] # NoLock, Use(g, locks[k]), key'[g] = k,
         key' \in [Callers -> Keys \cup {NoLock}],
         \A h \in Callers : h # g => key'[h] = key[h],
         mode' \in [Callers -> {"read", "write"}],
         queued' \subseteq Callers, UNCHANGED <<ReadOptimised, locks>>
  PROVE  TableInv'
<1> DEFINE l == locks[k]
<1>1. l \in Locks
  BY DEF TableInv, FactoryTypeOK
<1>2. /\ users' = [users EXCEPT ![l] = @ + 1] /\ lk' = [lk EXCEPT ![g] = l]
      /\ at' = [at EXCEPT ![g] = "acquiring"]
  BY DEF Use
<1>3. FactoryTypeOK'
  BY <1>1, <1>2 DEF TableInv, FactoryTypeOK, FactoryPCs
<1>4. Phases'
  BY FactoryAssumptions, <1>1, <1>2 DEF TableInv, FactoryTypeOK, Phases
<1>5. lk[g] = NoLock
  BY DEF TableInv, Phases
<1>6. OwnKey'
  BY <1>2, <1>5, EntriesDiffer DEF TableInv, FactoryTypeOK, OwnKey
<1>7. NoLeak'
  BY <1>2, <1>5 DEF TableInv, FactoryTypeOK, NoLeak
<1>8. LocksCounted'
  <2>1. /\ Cardinality(Users(l)') = Cardinality(Users(l)) + 1
        /\ \A m \in Locks : m # l => Users(m)' = Users(m)
    BY <1>1, <1>2, Joins
  <2> QED
    BY <1>1, <1>2, <2>1 DEF TableInv, FactoryTypeOK, LocksCounted
<1> QED
  BY <1>3, <1>4, <1>6, <1>7, <1>8 DEF TableInv

LEMMA CallStep ==
  ASSUME TableInv, NEW g \in Callers,
         NEW k \in Keys, NEW md \in {"read", "write"},
         Call(g, k, md)
  PROVE  TableInv'
<1>1. /\ at[g] = "idle" /\ key' = [key EXCEPT ![g] = k] /\ mode' = [mode EXCEPT ![g] = md]
      /\ UNCHANGED <<ReadOptimised, locks, queued>>
  BY DEF Call
<1>2. lk[g] = NoLock
  BY <1>1 DEF TableInv, Phases
<1>3. CASE locks[k] # NoLock /\ Use(g, locks[k])
  BY <1>1, <1>3, UseStep DEF TableInv, FactoryTypeOK
<1>4. ASSUME locks[k] = NoLock, UNCHANGED <<users, lk>>,
             NEW p \in {"in", "creating"}, at' = [at EXCEPT ![g] = p]
      PROVE  TableInv'
  <2>1. FactoryTypeOK'
    BY <1>1, <1>4 DEF TableInv, FactoryTypeOK, FactoryPCs
  <2>2. Phases'
    BY <1>1, <1>2, <1>4 DEF TableInv, FactoryTypeOK, Phases
  <2>3. OwnKey' /\ NoLeak'
    BY <1>1, <1>2, <1>4 DEF TableInv, FactoryTypeOK, OwnKey, NoLeak
  <2>4. \A l \in Locks : Users(l)' = Users(l)
    BY FactoryAssumptions, <1>1, <1>2, <1>4 DEF TableInv, FactoryTypeOK, Users
  <2>5. LocksCounted'
    BY <1>4, <2>4 DEF TableInv, LocksCounted
  <2> QED
    BY <2>1, <2>2, <2>3, <2>5 DEF TableInv
<1> QED
  BY <1>3, <1>4 DEF Call

LEMMA CreateStep ==
  ASSUME TableInv, NEW g \in Callers, Create(g)
  PROVE  TableInv'
<1> DEFINE k == key[g]
<1>1. /\ at[g] = "creating" /\ queued' = queued \ {g}
      /\ UNCHANGED <<ReadOptimised, key, mode>>
  BY DEF Create
<1>2. lk[g] = NoLock /\ k \in Keys
  BY <1>1 DEF TableInv, Phases
<1>3. CASE locks[k] # NoLock /\ Use(g, locks[k]) /\ UNCHANGED locks
  BY <1>1, <1>2, <1>3, UseStep DEF TableInv, FactoryTypeOK
<1>4. ASSUME locks[k] = NoLock, NEW l \in Unreachable,
             locks' = [locks EXCEPT ![k] = l], users' = [users EXCEPT ![l] = 1],
             lk' = [lk EXCEPT ![g] = l], at' = [at EXCEPT ![g] = "acquiring"]
      PROVE  TableInv'
  <2>1. /\ l \in Locks /\ l # NoLock
        /\ \A j \in Keys : locks[j] # l
        /\ \A h \in Callers : lk[h] # l
    BY FactoryAssumptions, <1>4 DEF Unreachable
  <2>2. FactoryTypeOK'
    BY <1>1, <1>4, <2>1 DEF TableInv, FactoryTypeOK, FactoryPCs
  <2>3. Phases'
    BY <1>1, <1>2, <1>4, <2>1 DEF TableInv, FactoryTypeOK, Phases
  <2>4. OwnKey'
    BY <1>1, <1>2, <1>4, <2>1 DEF TableInv, FactoryTypeOK, OwnKey
  <2>5. NoLeak'
    BY <1>1, <1>2, <1>4, <2>1 DEF TableInv, FactoryTypeOK, NoLeak
  <2>6. Users(l) = {}
    BY <2>1 DEF Users
  <2>7. /\ Cardinality(Users(l)') = Cardinality(Users(l)) + 1
        /\ \A m \in Locks : m # l => Users(m)' = Users(m)
    BY <1>1, <1>4, <2>1, Joins
  <2>8. Cardinality(Users(l)) = 0
    BY <2>6, UsersFinite
  <2>9. LocksCounted'
    BY <1>4, <2>1, <2>7, <2>8 DEF TableInv, FactoryTypeOK, LocksCounted
  <2> QED
    BY <2>2, <2>3, <2>4, <2>5, <2>9 DEF TableInv
<1>5. CASE locks[k] = NoLock
  <2>1. (CHOOSE l \in Unreachable : TRUE) \in Unreachable
    BY <1>1, Allocatable
  <2> QED
    BY <1>4, <1>5, <2>1 DEF Create
<1>6. CASE locks[k] # NoLock
  BY <1>3, <1>6 DEF Create
<1> QED
  BY <1>5, <1>6

(* Waiting for a mutex and getting it moves no user. *)
LEMMA MutexStep ==
  ASSUME TableInv, NEW g \in Callers, Queue(g) \/ Acquire(g) \/ Enter(g)
  PROVE  TableInv'
<1>1. UNCHANGED <<ReadOptimised, locks, users, key, mode, lk>>
  BY DEF Queue, Acquire, Enter
<1>2. FactoryTypeOK' /\ Phases'
  BY <1>1 DEF TableInv, FactoryTypeOK, Phases, FactoryPCs, Queue, Acquire, Enter
<1>3. \A l : Users(l)' = Users(l)
  BY <1>1 DEF TableInv, FactoryTypeOK, Users, Queue, Acquire, Enter
<1> QED
  BY <1>1, <1>2, <1>3 DEF TableInv, OwnKey, NoLeak, LocksCounted

LEMMA UnlockStep ==
  ASSUME TableInv, NEW g \in Callers, UnlockKey(g)
  PROVE  TableInv'
<1>1. at[g] = "in" /\ UNCHANGED <<ReadOptimised, locks, users, queued>>
  BY DEF UnlockKey
<1>2. CASE lk[g] = NoLock
  <2>1. /\ at' = [at EXCEPT ![g] = "idle"] /\ lk' = [lk EXCEPT ![g] = NoLock]
        /\ key' = [key EXCEPT ![g] = NoLock] /\ mode' = [mode EXCEPT ![g] = "write"]
    BY <1>2 DEF UnlockKey, Forget
  <2>2. FactoryTypeOK' /\ Phases'
    BY <1>1, <2>1 DEF TableInv, FactoryTypeOK, Phases, FactoryPCs
  <2>3. OwnKey' /\ NoLeak'
    BY <1>1, <1>2, <2>1 DEF TableInv, FactoryTypeOK, OwnKey, NoLeak
  <2>4. \A l \in Locks : Users(l)' = Users(l)
    BY FactoryAssumptions, <1>2, <2>1 DEF TableInv, FactoryTypeOK, Users
  <2> QED
    BY <1>1, <2>2, <2>3, <2>4 DEF TableInv, LocksCounted
<1>3. CASE lk[g] # NoLock
  <2>1. at' = [at EXCEPT ![g] = "leaving"] /\ UNCHANGED <<lk, key, mode>>
    BY <1>3 DEF UnlockKey
  <2>2. FactoryTypeOK' /\ Phases'
    BY <1>1, <1>3, <2>1 DEF TableInv, FactoryTypeOK, Phases, FactoryPCs
  <2>3. OwnKey' /\ NoLeak'
    BY <1>1, <2>1 DEF TableInv, OwnKey, NoLeak
  <2>4. \A l \in Locks : Users(l)' = Users(l)
    BY <1>1, <2>1 DEF TableInv, FactoryTypeOK, Users
  <2> QED
    BY <1>1, <2>2, <2>3, <2>4 DEF TableInv, LocksCounted
<1> QED
  BY <1>2, <1>3

(* decUserCount: if others are left, one of them keeps the entry. *)
LEMMA ReleaseStep ==
  ASSUME TableInv, NEW g \in Callers, Release(g)
  PROVE  TableInv'
<1>0. PICK l : l = lk[g]
  OBVIOUS
<1>1. /\ at[g] = "leaving" /\ users' = [users EXCEPT ![l] = @ - 1]
      /\ UNCHANGED <<ReadOptimised, locks, queued>>
  BY <1>0 DEF Release
<1>2. l \in Locks /\ l # NoLock /\ g \in Users(l) /\ key[g] \in Keys
  BY FactoryAssumptions, <1>0, <1>1 DEF TableInv, Phases, Users
<1>3. users[l] = Cardinality(Users(l)) /\ users[l] \in Nat \ {0}
  BY <1>2, UsersFinite DEF TableInv, FactoryTypeOK, LocksCounted
<1>4. ASSUME Users(l)' = Users(l) \ {g},
             \A m \in Locks : m # l => Users(m)' = Users(m)
      PROVE  LocksCounted'
  <2>1. Cardinality(Users(l) \ {g}) = Cardinality(Users(l)) - 1
    BY <1>2, UsersFinite, FS_RemoveElement
  <2> QED
    BY <1>1, <1>2, <1>4, <2>1 DEF TableInv, FactoryTypeOK, LocksCounted
<1>5. CASE users[l] = 1
  <2>1. at' = [at EXCEPT ![g] = "sweeping"] /\ UNCHANGED <<lk, key, mode>>
    BY <1>0, <1>5 DEF Release
  <2>2. FactoryTypeOK' /\ Phases'
    BY <1>1, <1>2, <1>3, <2>1 DEF TableInv, FactoryTypeOK, Phases, FactoryPCs
  <2>3. OwnKey' /\ NoLeak'
    BY <1>1, <2>1 DEF TableInv, OwnKey, NoLeak
  <2>4. /\ Users(l)' = Users(l) \ {g}
        /\ \A m \in Locks : m # l => Users(m)' = Users(m)
    BY <1>0, <1>2, <2>1 DEF TableInv, FactoryTypeOK, Users
  <2> QED
    BY <1>4, <2>2, <2>3, <2>4 DEF TableInv
<1>6. CASE users[l] # 1
  <2>1. /\ at' = [at EXCEPT ![g] = "idle"] /\ lk' = [lk EXCEPT ![g] = NoLock]
        /\ key' = [key EXCEPT ![g] = NoLock] /\ mode' = [mode EXCEPT ![g] = "write"]
    BY <1>0, <1>6 DEF Release, Forget
  <2>2. FactoryTypeOK' /\ Phases'
    BY <1>1, <1>2, <1>3, <2>1 DEF TableInv, FactoryTypeOK, Phases, FactoryPCs
  <2>3. OwnKey'
    BY <1>1, <2>1 DEF TableInv, FactoryTypeOK, OwnKey
  <2>4. PICK h \in Users(l) : h # g
    <3>1. Users(l) # {g}
      BY <1>3, <1>6, FS_Singleton
    <3> QED
      BY <1>2, <3>1
  <2>5. h \in Callers /\ lk'[h] = l /\ key'[h] = key[h]
    BY <2>1, <2>4 DEF TableInv, FactoryTypeOK, Users
  <2>6. NoLeak'
    BY <1>0, <1>1, <1>2, <2>1, <2>5 DEF TableInv, FactoryTypeOK, NoLeak, OwnKey
  <2>7. /\ Users(l)' = Users(l) \ {g}
        /\ \A m \in Locks : m # l => Users(m)' = Users(m)
    BY FactoryAssumptions, <1>0, <1>2, <2>1 DEF TableInv, FactoryTypeOK, Users
  <2> QED
    BY <1>4, <2>2, <2>3, <2>6, <2>7 DEF TableInv
<1> QED
  BY <1>5, <1>6

(* release under m: an entry that stays has another goroutine. *)
LEMMA SweepStep ==
  ASSUME TableInv, NEW g \in Callers, Sweep(g)
  PROVE  TableInv'
<1> DEFINE l == lk[g]
           k == key[g]
<1>1. /\ at[g] = "sweeping" /\ queued' = queued \ {g} /\ UNCHANGED <<ReadOptimised, users>>
      /\ locks' = [locks EXCEPT ![k] = IF users[l] = 0 THEN NoLock ELSE @]
      /\ at' = [at EXCEPT ![g] = "idle"] /\ lk' = [lk EXCEPT ![g] = NoLock]
      /\ key' = [key EXCEPT ![g] = NoLock] /\ mode' = [mode EXCEPT ![g] = "write"]
  BY DEF Sweep, Forget
<1>2. l \in Locks /\ l # NoLock /\ g \notin Users(l) /\ k \in Keys
  BY FactoryAssumptions, <1>1 DEF TableInv, Phases, Users
<1>3. FactoryTypeOK' /\ Phases'
  BY <1>1, <1>2 DEF TableInv, FactoryTypeOK, Phases, FactoryPCs
<1>4. OwnKey'
  BY <1>1, <1>2 DEF TableInv, FactoryTypeOK, OwnKey
<1>5. NoLeak'
  <2> SUFFICES ASSUME NEW j \in Keys, locks'[j] # NoLock
               PROVE  \E h \in Callers : lk'[h] = locks'[j] /\ key'[h] = j
    BY DEF NoLeak
  <2>1. locks'[j] = locks[j]
    BY <1>1, <1>2 DEF TableInv, FactoryTypeOK
  <2>2. PICK h \in Callers : lk[h] = locks[j] /\ key[h] = j
    BY <2>1 DEF TableInv, NoLeak
  <2>3. CASE h # g
    BY <1>1, <2>1, <2>2, <2>3 DEF TableInv, FactoryTypeOK
  <2>4. CASE h = g
    <3>1. users[l] # 0
      BY <1>1, <1>2, <2>2, <2>4 DEF TableInv, FactoryTypeOK
    <3>2. PICK i \in Users(l) : TRUE
      BY <1>2, <3>1, UsersFinite DEF TableInv, LocksCounted
    <3>3. i \in Callers /\ i # g /\ lk[i] = locks[j]
      BY <1>2, <2>2, <2>4, <3>2 DEF Users
    <3>4. key[i] = j
      BY <2>1, <3>3 DEF TableInv, OwnKey
    <3> QED
      BY <1>1, <2>1, <3>3, <3>4 DEF TableInv, FactoryTypeOK
  <2> QED
    BY <2>3, <2>4
<1>6. \A m \in Locks : Users(m)' = Users(m)
  BY FactoryAssumptions, <1>1 DEF TableInv, FactoryTypeOK, Users
<1> QED
  BY <1>1, <1>3, <1>4, <1>5, <1>6 DEF TableInv, LocksCounted

LEMMA AlwaysTableInv == FactorySpec => []TableInv
<1>1. TableInv /\ [FactoryNext]_factoryVars => TableInv'
  <2>1. ASSUME TableInv, UNCHANGED factoryVars
        PROVE  TableInv'
    BY <2>1
    DEF factoryVars, TableInv, FactoryTypeOK, Phases, OwnKey, NoLeak, LocksCounted, Users
  <2> QED
    BY <2>1, CallStep, CreateStep, MutexStep, UnlockStep, ReleaseStep, SweepStep
    DEF FactoryNext, FactoryStep
<1> QED
  BY <1>1, InitTableInv, PTL DEF FactorySpec

(* However Lock, Unlock and release overlap, the table of locks keeps no   *)
(* entry without a goroutine that has its lock, and every lock counts      *)
(* exactly the goroutines that use it, all of them for its key.            *)
THEOREM TableStaysExact == FactorySpec => []TableExact
BY TableInvSuffices, AlwaysTableInv, PTL
=============================================================================
