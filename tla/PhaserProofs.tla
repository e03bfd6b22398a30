---------------------------- MODULE PhaserProofs ---------------------------
(***************************************************************************)
(* Proofs about the Phaser, for any finite set of goroutines and any       *)
(* lockers.  The invariant says that a goroutine between its second look   *)
(* at done and its sleep has m (MHeld), which is why Finish, which takes m *)
(* to set done, never runs in that window; and that len is the number of   *)
(* sleepers (LenCounts), without which len could not be shown to stay      *)
(* above zero.  That a goroutine has the first pos of its lockers, and     *)
(* none at all when pos is 0 (LockersInv), is why Wait returns them.       *)
(***************************************************************************)
EXTENDS Phaser, FiniteSetTheorems, TLAPS

MHeld == \A g \in Parties : place[g] \in {"locked", "listed"} => m = g

LenCounts == len = Cardinality(Asleep)

IInv == PhaserTypeOK /\ MHeld /\ LenCounts /\ NoneStranded

LEMMA ParkedFinite == IsFiniteSet(Asleep) /\ Cardinality(Asleep) \in Nat
<1>1. Asleep \in SUBSET Parties
  BY DEF Asleep
<1> QED
  BY <1>1, PartiesAssumption, FS_Subset, FS_CardinalityType

LEMMA InitIInv == PhaserInit => IInv
<1> SUFFICES ASSUME PhaserInit PROVE IInv
  OBVIOUS
<1>1. Asleep = {}
  BY DEF PhaserInit, Asleep
<1>2. PhaserTypeOK
  BY DEF PhaserInit, PhaserTypeOK, PhaserPCs
<1>3. MHeld /\ NoneStranded
  BY DEF PhaserInit, MHeld, NoneStranded
<1>4. LenCounts
  BY <1>1, FS_EmptySet DEF PhaserInit, LenCounts
<1> QED
  BY <1>2, <1>3, <1>4 DEF IInv

(* A step that puts nobody to sleep and wakes nobody leaves len right. *)
LEMMA KeepsLen ==
  ASSUME LenCounts, len' = len, Asleep' = Asleep
  PROVE  LenCounts'
BY DEF LenCounts

(* Going to sleep counts the goroutine and gives m up. *)
LEMMA ParkStep ==
  ASSUME IInv, NEW g \in Parties, Park(g)
  PROVE  IInv'
<1>1. Asleep' = Asleep \cup {g} /\ g \notin Asleep
  BY DEF IInv, PhaserTypeOK, Park, Asleep
<1>2. Cardinality(Asleep') = Cardinality(Asleep) + 1
  BY <1>1, ParkedFinite, FS_AddElement
<1>3. LenCounts'
  BY <1>2 DEF IInv, LenCounts, Park
<1>4. PhaserTypeOK'
  BY DEF IInv, PhaserTypeOK, PhaserPCs, Park
<1>5. m = g /\ \A h \in Parties : h # g => place[h] \notin {"locked", "listed"}
  BY DEF IInv, MHeld, Park
<1>6. \A h \in Parties : place'[h] \notin {"locked", "listed"}
  BY <1>5 DEF IInv, PhaserTypeOK, Park
<1>7. MHeld' /\ NoneStranded'
  BY <1>6 DEF IInv, MHeld, NoneStranded, Park
<1> QED
  BY <1>3, <1>4, <1>7 DEF IInv

(* Waking takes the goroutine out of the count. *)
LEMMA WakeStep ==
  ASSUME IInv, NEW g \in Parties, Wake(g)
  PROVE  IInv'
<1>1. Asleep' = Asleep \ {g} /\ g \in Asleep
  BY DEF IInv, PhaserTypeOK, Wake, Asleep
<1>2. Cardinality(Asleep') = Cardinality(Asleep) - 1 /\ Cardinality(Asleep') \in Nat
  BY <1>1, ParkedFinite, FS_RemoveElement, FS_CardinalityType
<1>3. LenCounts' /\ len' \in Nat
  BY <1>2 DEF IInv, LenCounts, Wake
<1>4. PhaserTypeOK'
  BY <1>3 DEF IInv, PhaserTypeOK, PhaserPCs, Wake
<1>5. MHeld' /\ NoneStranded'
  BY DEF IInv, PhaserTypeOK, MHeld, NoneStranded, Wake
<1> QED
  BY <1>3, <1>4, <1>5 DEF IInv

(* The steps of a goroutine other than falling asleep and waking. *)
LEMMA WalkStep ==
  ASSUME IInv, NEW g \in Parties,
         \/ Start(g) \/ PhaserWait(g) \/ LockPhaser(g) \/ Enlist(g)
         \/ PhaserReturn(g) \/ Leave(g)
  PROVE  IInv'
<1>1. len' = len /\ Asleep' = Asleep
  BY DEF IInv, PhaserTypeOK, Asleep, Start, PhaserWait, LockPhaser, Enlist, PhaserReturn,
         Leave
<1>2. LenCounts'
  BY <1>1, KeepsLen DEF IInv
<1>3. CASE Start(g) \/ PhaserWait(g) \/ PhaserReturn(g) \/ Leave(g)
  <2>1. PhaserTypeOK'
    BY <1>3 DEF IInv, PhaserTypeOK, PhaserPCs, Start, PhaserWait, PhaserReturn, Leave
  <2>2. MHeld' /\ NoneStranded'
    BY <1>3
    DEF IInv, PhaserTypeOK, MHeld, NoneStranded, Start, PhaserWait, PhaserReturn, Leave
  <2> QED
    BY <1>2, <2>1, <2>2 DEF IInv
<1>4. CASE LockPhaser(g)
  <2>1. PhaserTypeOK'
    BY <1>4 DEF IInv, PhaserTypeOK, PhaserPCs, LockPhaser
  <2>2. \A h \in Parties : place[h] \notin {"locked", "listed"}
    BY <1>4, NobodyAssumption DEF IInv, MHeld, LockPhaser
  <2>3. MHeld' /\ NoneStranded'
    BY <1>4, <2>2 DEF IInv, PhaserTypeOK, MHeld, NoneStranded, LockPhaser
  <2> QED
    BY <1>2, <2>1, <2>3 DEF IInv
<1>5. CASE Enlist(g)
  <2>1. PhaserTypeOK'
    BY <1>5 DEF IInv, PhaserTypeOK, PhaserPCs, Enlist
  <2>2. ~done
    BY <1>5 DEF IInv, NoneStranded, Enlist
  <2>3. MHeld' /\ NoneStranded'
    BY <1>5, <2>2 DEF IInv, PhaserTypeOK, MHeld, NoneStranded, Enlist
  <2> QED
    BY <1>2, <2>1, <2>3 DEF IInv
<1> QED
  BY <1>3, <1>4, <1>5

(* Taking one locker touches neither m nor the list. *)
LEMMA TakeLockerStep ==
  ASSUME IInv, NEW g \in Parties, TakeLocker(g)
  PROVE  IInv'
<1>1. /\ UNCHANGED <<m, done, len, notify, place>>
      /\ pos' \in [Parties -> Nat]
  BY DEF IInv, PhaserTypeOK, TakeLocker
<1>2. owner' \in [Lockers -> Parties \cup {Nobody}]
  <2>1. PICK l : owner' = [owner EXCEPT ![l] = g]
    BY DEF TakeLocker
  <2> QED
    BY <2>1 DEF IInv, PhaserTypeOK
<1>3. PhaserTypeOK'
  BY <1>1, <1>2 DEF IInv, PhaserTypeOK
<1>4. MHeld' /\ NoneStranded' /\ LenCounts'
  BY <1>1 DEF IInv, MHeld, NoneStranded, LenCounts, Asleep
<1> QED
  BY <1>3, <1>4 DEF IInv

(* Signal, Broadcast and Finish only take goroutines off the list; Finish  *)
(* finds m free, so nobody is on the way to it.                            *)
LEMMA NotifyStep ==
  ASSUME IInv, Signal \/ Broadcast \/ Finish
  PROVE  IInv'
<1>1. UNCHANGED <<m, len, owner, pos, place>> /\ notify' \subseteq notify
  BY DEF Signal, Broadcast, Finish
<1>2. PhaserTypeOK'
  BY <1>1 DEF IInv, PhaserTypeOK, Signal, Broadcast, Finish
<1>3. MHeld' /\ LenCounts'
  BY <1>1 DEF IInv, MHeld, LenCounts, Asleep
<1>4. CASE Finish
  <2>1. \A h \in Parties : place[h] \notin {"locked", "listed"}
    BY <1>4, NobodyAssumption DEF IInv, MHeld, Finish
  <2> QED
    BY <1>2, <1>3, <1>4, <2>1 DEF IInv, NoneStranded, Finish
<1>5. CASE Signal \/ Broadcast
  <2>1. done' = done
    BY <1>5 DEF Signal, Broadcast
  <2> QED
    BY <1>1, <1>2, <1>3, <2>1 DEF IInv, NoneStranded
<1> QED
  BY <1>4, <1>5

LEMMA NextIInv == IInv /\ [PhaserNext]_phaserVars => IInv'
<1> SUFFICES ASSUME IInv, [PhaserNext]_phaserVars PROVE IInv'
  OBVIOUS
<1>1. CASE UNCHANGED phaserVars
  BY <1>1 DEF phaserVars, IInv, PhaserTypeOK, MHeld, LenCounts, NoneStranded, Asleep
<1> QED
  BY <1>1, ParkStep, WakeStep, WalkStep, TakeLockerStep, NotifyStep
  DEF PhaserNext, PhaserStep

LEMMA AlwaysIInv == PhaserSpec => []IInv
BY InitIInv, NextIInv, PTL DEF PhaserSpec

(* Finish strands nobody: no goroutine is, or can get, on the notify list  *)
(* of a finished phaser, in any interleaving of any number of goroutines.  *)
THEOREM FinishStrandsNobody == PhaserSpec => []NoneStranded
<1>1. IInv => NoneStranded
  BY DEF IInv
<1> QED
  BY <1>1, AlwaysIInv, PTL

(* The phaser's state stays well typed; len never goes below zero. *)
THEOREM TypeCorrect == PhaserSpec => []PhaserTypeOK
<1>1. IInv => PhaserTypeOK
  BY DEF IInv
<1> QED
  BY <1>1, AlwaysIInv, PTL

(* Every goroutine that Len counts is on the notify list or released. *)
THEOREM LenCountsListeners == PhaserSpec => []LenListens
<1>1. IInv => LenListens
  <2> SUFFICES ASSUME IInv PROVE LenListens
    OBVIOUS
  <2>1. /\ notify \cup Asleep \in SUBSET Parties
        /\ Asleep \in SUBSET (notify \cup Asleep)
    BY DEF IInv, PhaserTypeOK, Asleep
  <2>2. IsFiniteSet(notify \cup Asleep)
    BY <2>1, PartiesAssumption, FS_Subset
  <2>3. Cardinality(Asleep) <= Cardinality(notify \cup Asleep)
    BY <2>1, <2>2, FS_Subset
  <2> QED
    BY <2>3 DEF IInv, LenCounts, LenListens
<1> QED
  BY <1>1, AlwaysIInv, PTL

----------------------------------------------------------------------------
(* The lockers of a goroutine: it has the first pos of them, and no locker *)
(* at all when pos is 0.                                                   *)
LockersOfOne(g) ==
    /\ pos[g] <= Len(LockersOf[g])
    /\ \A i \in 1 .. pos[g] : owner[LockersOf[g][i]] = g
    /\ \A l \in Lockers : owner[l] = g => pos[g] # 0
    /\ place[g] \in {"entering", "locked", "listed", "back"} => pos[g] = Len(LockersOf[g])
    /\ place[g] \in {"out", "parked"} => pos[g] = 0

LockersInv == \A g \in Parties : LockersOfOne(g)

LEMMA LockerTypes ==
  ASSUME PhaserTypeOK, NEW g \in Parties
  PROVE  /\ Len(LockersOf[g]) \in Nat /\ pos[g] \in Nat
         /\ \A i \in 1 .. Len(LockersOf[g]) : LockersOf[g][i] \in Lockers
<1>1. LockersOf[g] \in Seq(Lockers)
  BY LockersOfAssumption
<1> QED
  BY <1>1 DEF PhaserTypeOK

(* Park and Leave: the lockers go back. *)
LEMMA ReleaseLockers ==
  ASSUME PhaserTypeOK, LockersInv, NEW g \in Parties,
         owner' = [l \in Lockers |-> IF owner[l] = g THEN Nobody ELSE owner[l]],
         pos' = [pos EXCEPT ![g] = 0], NEW p \in {"out", "parked"},
         place' = [place EXCEPT ![g] = p]
  PROVE  LockersInv'
<1>1. ASSUME NEW h \in Parties, h # g
      PROVE  LockersOfOne(h)'
  <2>1. pos'[h] = pos[h] /\ place'[h] = place[h] /\ LockersOfOne(h)
    BY <1>1 DEF PhaserTypeOK, LockersInv
  <2>2. \A i \in 1 .. pos[h] : i \in 1 .. Len(LockersOf[h])
    BY <2>1, LockerTypes DEF LockersOfOne
  <2>3. \A i \in 1 .. pos[h] : owner'[LockersOf[h][i]] = h
    BY <1>1, <2>1, <2>2, LockerTypes DEF LockersOfOne
  <2>4. \A l \in Lockers : owner'[l] = h => owner[l] = h
    BY NobodyAssumption
  <2> QED
    BY <2>1, <2>3, <2>4 DEF LockersOfOne
<1>2. LockersOfOne(g)'
  <2>1. pos'[g] = 0 /\ place'[g] = p
    BY DEF PhaserTypeOK
  <2>2. \A l \in Lockers : owner'[l] # g
    BY NobodyAssumption
  <2>3. Len(LockersOf[g]) \in Nat /\ \A i \in 1 .. 0 : FALSE
    BY LockerTypes
  <2> QED
    BY <2>1, <2>2, <2>3 DEF LockersOfOne
<1> QED
  BY <1>1, <1>2 DEF LockersInv

(* A locker is taken from nobody. *)
LEMMA TakeLockers ==
  ASSUME PhaserTypeOK, LockersInv, NEW g \in Parties, TakeLocker(g)
  PROVE  LockersInv'
<1>1. /\ place[g] \in {"calling", "waking"} /\ pos[g] < Len(LockersOf[g])
      /\ pos' = [pos EXCEPT ![g] = @ + 1] /\ UNCHANGED place
  BY DEF TakeLocker
<1>2. PICK l : /\ l = LockersOf[g][pos[g] + 1] /\ owner[l] = Nobody
               /\ owner' = [owner EXCEPT ![l] = g]
  BY DEF TakeLocker
<1>3. /\ Len(LockersOf[g]) \in Nat /\ pos[g] \in Nat /\ pos'[g] = pos[g] + 1
      /\ pos[g] + 1 \in 1 .. Len(LockersOf[g])
  BY <1>1, LockerTypes DEF PhaserTypeOK
<1>4. l \in Lockers /\ owner'[l] = g /\ \A k \in Lockers : k # l => owner'[k] = owner[k]
  BY <1>2, <1>3, LockerTypes DEF PhaserTypeOK
<1>5. ASSUME NEW h \in Parties, h # g
      PROVE  LockersOfOne(h)'
  <2>1. pos'[h] = pos[h] /\ place'[h] = place[h] /\ LockersOfOne(h) /\ h # Nobody
    BY <1>1, <1>5, NobodyAssumption DEF PhaserTypeOK, LockersInv
  <2>2. \A i \in 1 .. pos[h] : i \in 1 .. Len(LockersOf[h])
    BY <2>1, LockerTypes DEF LockersOfOne
  <2>3. \A i \in 1 .. pos[h] : owner'[LockersOf[h][i]] = h
    BY <1>2, <1>4, <2>1, <2>2, LockerTypes DEF LockersOfOne
  <2>4. \A k \in Lockers : owner'[k] = h => owner[k] = h
    BY <1>4, <1>5
  <2> QED
    BY <2>1, <2>3, <2>4 DEF LockersOfOne
<1>6. LockersOfOne(g)'
  <2>1. LockersOfOne(g)
    BY DEF LockersInv
  <2>2. ASSUME NEW i \in 1 .. pos'[g]
        PROVE  owner'[LockersOf[g][i]] = g
    <3>1. i \in 1 .. pos[g] \/ i = pos[g] + 1
      BY <1>3
    <3>2. CASE i = pos[g] + 1
      BY <1>2, <1>4, <3>2
    <3>3. CASE i \in 1 .. pos[g]
      <4>1. LockersOf[g][i] \in Lockers /\ owner[LockersOf[g][i]] = g
        BY <1>3, <2>1, <3>3, LockerTypes DEF LockersOfOne
      <4> QED
        BY <1>4, <4>1
    <3> QED
      BY <3>1, <3>2, <3>3
  <2>3. pos'[g] <= Len(LockersOf[g]) /\ pos'[g] # 0
    BY <1>3
  <2> QED
    BY <1>1, <2>2, <2>3 DEF LockersOfOne
<1> QED
  BY <1>5, <1>6 DEF LockersInv

(* The other steps leave the lockers alone. *)
LEMMA SameLockers ==
  ASSUME PhaserTypeOK, LockersInv, NEW g \in Parties,
         Start(g) \/ PhaserWait(g) \/ LockPhaser(g) \/ Enlist(g) \/ Wake(g) \/ PhaserReturn(g)
  PROVE  LockersInv'
<1>1. /\ UNCHANGED <<owner, pos>>
      /\ \A h \in Parties : h # g => place'[h] = place[h]
      /\ place'[g] \in {"entering", "locked", "listed", "back"} =>
            \/ pos[g] = Len(LockersOf[g])
            \/ place[g] \in {"entering", "locked", "listed", "back"}
      /\ place'[g] \notin {"out", "parked"}
  BY DEF PhaserTypeOK, Start, PhaserWait, LockPhaser, Enlist, Wake, PhaserReturn
<1>2. \A h \in Parties : LockersOfOne(h) => LockersOfOne(h)'
  BY <1>1 DEF LockersOfOne
<1> QED
  BY <1>2 DEF LockersInv

LEMMA AlwaysLockersInv == PhaserSpec => [](IInv /\ LockersInv)
<1>1. PhaserInit => LockersInv
  <2> SUFFICES ASSUME PhaserInit, NEW g \in Parties
               PROVE  LockersOfOne(g)
    BY DEF LockersInv
  <2>1. PhaserTypeOK
    BY InitIInv DEF IInv
  <2>2. pos[g] = 0 /\ place[g] = "out" /\ \A l \in Lockers : owner[l] # g
    BY NobodyAssumption DEF PhaserInit
  <2>3. Len(LockersOf[g]) \in Nat /\ \A i \in 1 .. 0 : FALSE
    BY <2>1, LockerTypes
  <2> QED
    BY <2>2, <2>3 DEF LockersOfOne
<1>2. IInv /\ LockersInv /\ [PhaserNext]_phaserVars => LockersInv'
  <2> SUFFICES ASSUME IInv, LockersInv, [PhaserNext]_phaserVars
               PROVE  LockersInv'
    OBVIOUS
  <2>1. PhaserTypeOK
    BY DEF IInv
  <2>2. ASSUME NEW g \in Parties, Park(g) \/ Leave(g)
        PROVE  LockersInv'
    BY <2>1, <2>2, ReleaseLockers DEF Park, Leave
  <2>3. CASE Signal \/ Broadcast \/ Finish \/ UNCHANGED phaserVars
    <3>1. UNCHANGED <<owner, pos, place>>
      BY <2>3 DEF Signal, Broadcast, Finish, phaserVars
    <3> QED
      BY <3>1 DEF LockersInv, LockersOfOne
  <2> QED
    BY <2>1, <2>2, <2>3, TakeLockers, SameLockers DEF PhaserNext, PhaserStep
<1> QED
  BY <1>1, <1>2, AlwaysIInv, PTL DEF PhaserSpec

(* Wait gives the caller its lockers back, whether a Signal, a Broadcast   *)
(* or Finish let it go or done was set when it came, and sleeps with none  *)
(* of them, for any lockers of any number of goroutines.                   *)
THEOREM LockersComeBack == PhaserSpec => []LockersBack
<1>1. IInv /\ LockersInv => LockersBack
  <2> SUFFICES ASSUME IInv, LockersInv, NEW g \in Parties
               PROVE  /\ place[g] = "back" =>
                            \A i \in DOMAIN LockersOf[g] : owner[LockersOf[g][i]] = g
                      /\ place[g] = "parked" =>
                            \A i \in DOMAIN LockersOf[g] : owner[LockersOf[g][i]] # g
    BY DEF LockersBack
  <2>1. LockersOfOne(g) /\ PhaserTypeOK
    BY DEF LockersInv, IInv
  <2>2. DOMAIN LockersOf[g] = 1 .. Len(LockersOf[g])
    BY LockersOfAssumption
  <2> QED
    BY <2>1, <2>2, LockerTypes DEF LockersOfOne
<1> QED
  BY <1>1, AlwaysLockersInv, PTL
=============================================================================
