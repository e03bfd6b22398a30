---------------------------- MODULE QueueProofs ----------------------------
(***************************************************************************)
(* Proofs about memory.Queue, for any messages, subscriptions and          *)
(* configurations: the mark of a message and the round of a subscription   *)
(* agree.  By itself that is not inductive: when a round ends, the message *)
(* it had must be known, and when one begins, the last one must have been  *)
(* dropped (HoldsInRound); and take must find a message of the queue       *)
(* (RoundTypes).                                                           *)
(*                                                                         *)
(* That nothing is lost or published twice rests on a ledger: in the queue *)
(* are, once each, the messages published and not settled; a publisher's   *)
(* state tells whether its message was published; and the reply of a round *)
(* was not, as long as the round may end with a NACK (QueueInv).           *)
(***************************************************************************)
EXTENDS Queue, FiniteSetTheorems, SequenceTheorems, TLAPS

InRound(s) == spc[s] \in {"yield", "broken", "commit", "acking"}

SubPCs == {"out", "next", "walk", "yield", "broken", "commit", "acking", "over"}

RoundTypes == /\ msgs \in Seq(Messages)
              /\ takenBy \in [Messages -> Subs \cup {None}]
              /\ spc \in [Subs -> SubPCs]
              /\ held \in [Subs -> Messages \cup {None}]
              /\ buf \in [Subs -> SUBSET Replies]

HoldsInRound == \A s \in Subs : /\ InRound(s) => held[s] # None
                                /\ spc[s] \in {"out", "next", "walk"} => held[s] = None

RoundInv == RoundTypes /\ HoldsInRound /\ TakenByItsHolder

(* The queue stays a sequence of messages when one goes, *)
LEMMA RemovedType ==
  ASSUME msgs \in Seq(Messages), NEW m
  PROVE  Removed(m) \in Seq(Messages)
<1>1. CASE m \notin InQueue
  BY <1>1 DEF Removed
<1>2. CASE m \in InQueue
  <2> DEFINE i == CHOOSE j \in DOMAIN msgs : msgs[j] = m
  <2>1. i \in DOMAIN msgs
    BY <1>2 DEF InQueue, ToSet
  <2>2. i \in 1 .. Len(msgs)
    BY <2>1
  <2> HIDE DEF i
  <2>3. SubSeq(msgs, 1, i - 1) \in Seq(Messages)
    BY <2>2
  <2>4. SubSeq(msgs, i + 1, Len(msgs)) \in Seq(Messages)
    BY <2>2
  <2>5. RemoveAt(msgs, i) \in Seq(Messages)
    BY <2>3, <2>4 DEF RemoveAt
  <2>6. Removed(m) = RemoveAt(msgs, i)
    BY <1>2 DEF Removed, i
  <2> QED
    BY <2>5, <2>6
<1> QED
  BY <1>1, <1>2

(* and when it is sorted. *)
LEMMA SortedType ==
  ASSUME msgs \in Seq(Messages), NEW p \in Bijection(DOMAIN msgs, DOMAIN msgs)
  PROVE  [i \in DOMAIN msgs |-> msgs[p[i]]] \in Seq(Messages)
<1>1. p \in [DOMAIN msgs -> DOMAIN msgs]
  BY DEF Bijection, Injection
<1> QED
  BY <1>1

(* What publishers, Purge and a handler's Publish do touches no round. *)
LEMMA OtherStep ==
  ASSUME RoundInv, msgs' \in Seq(Messages), UNCHANGED <<takenBy, held>>,
         buf' \in [Subs -> SUBSET Replies],
         spc' \in [Subs -> SubPCs],
         \A s \in Subs : /\ InRound(s)' <=> InRound(s)
                         /\ spc'[s] = "over" <=> spc[s] = "over"
  PROVE  RoundInv'
BY DEF RoundInv, RoundTypes, SubPCs, HoldsInRound, TakenByItsHolder, InRound

(* A round begins with a message nobody has. *)
LEMMA TakeStep ==
  ASSUME RoundInv, NEW s \in Subs, take(s)
  PROVE  RoundInv'
<1>1. PICK i \in DOMAIN msgs : /\ takenBy[msgs[i]] = None
                               /\ takenBy' = [takenBy EXCEPT ![msgs[i]] = s]
                               /\ held' = [held EXCEPT ![s] = msgs[i]]
  BY DEF take, Free
<1>2. /\ spc[s] = "walk" /\ spc' = [spc EXCEPT ![s] = "yield"]
      /\ UNCHANGED <<msgs, buf>>
  BY DEF take
<1>3. msgs[i] \in Messages /\ msgs[i] # None /\ s # None
  BY <1>1, MessagesAssumption DEF RoundInv, RoundTypes, SubPCs, Messages
<1> DEFINE x == msgs[i]
<1> HIDE DEF x
<1>4. RoundTypes'
  BY <1>1, <1>2, <1>3 DEF RoundInv, RoundTypes, SubPCs, x
<1>5. HoldsInRound'
  BY <1>1, <1>2, <1>3 DEF RoundInv, RoundTypes, SubPCs, HoldsInRound, InRound, x
<1>6. held[s] = None
  BY <1>2 DEF RoundInv, HoldsInRound, InRound
<1>7. \A t \in Subs : held[t] = x => ~InRound(t)
  BY <1>1, <1>3, MessagesAssumption
  DEF RoundInv, HoldsInRound, TakenByItsHolder, InRound, x
<1>8. TakenByItsHolder'
  <2> SUFFICES ASSUME NEW n \in Messages, NEW t \in Subs
               PROVE  takenBy'[n] = t <=> held'[t] = n /\ InRound(t)'
    BY DEF TakenByItsHolder, InRound
  <2>1. x \in Messages /\ takenBy' = [takenBy EXCEPT ![x] = s]
        /\ held' = [held EXCEPT ![s] = x]
    BY <1>1, <1>3 DEF x
  <2>2. takenBy[n] = t <=> held[t] = n /\ InRound(t)
    BY DEF RoundInv, TakenByItsHolder, InRound
  <2>3. CASE t = s
    BY <2>1, <2>2, <2>3, <1>2, <1>6, <1>3, MessagesAssumption
    DEF RoundInv, RoundTypes, SubPCs, InRound, Messages
  <2>4. CASE t # s
    BY <2>1, <2>2, <2>4, <1>2, <1>7 DEF RoundInv, RoundTypes, SubPCs, InRound
  <2> QED
    BY <2>3, <2>4
<1> QED
  BY <1>4, <1>5, <1>8 DEF RoundInv

(* A round ends, or what is left of it is dropped: the message is released *)
(* if the subscription has it, and stays with another one that has it.     *)
LEMMA ReleaseStep ==
  ASSUME RoundInv, NEW s \in Subs, msgs' \in Seq(Messages), release(s),
         NEW v \in {"over", "next", "out"}, spc' = [spc EXCEPT ![s] = v],
         held' = IF v = "over" THEN held ELSE [held EXCEPT ![s] = None],
         buf' \in [Subs -> SUBSET Replies]
  PROVE  RoundInv'
<1>1. /\ takenBy \in [Messages -> Subs \cup {None}] /\ spc \in [Subs -> SubPCs]
      /\ held \in [Subs -> Messages \cup {None}]
      /\ takenBy' = [m \in Messages |-> IF m = held[s] /\ takenBy[m] = s THEN None
                                       ELSE takenBy[m]]
  BY DEF RoundInv, RoundTypes, release
<1>2. spc'[s] = v /\ \A t \in Subs : t # s => spc'[t] = spc[t] /\ held'[t] = held[t]
  BY <1>1
<1>3. takenBy' \in [Messages -> Subs \cup {None}]
  BY <1>1
<1>4. spc' \in [Subs -> SubPCs] /\ held' \in [Subs -> Messages \cup {None}]
  BY <1>1 DEF SubPCs
<1>5. RoundTypes'
  BY <1>3, <1>4 DEF RoundTypes
<1>6. v # "over" => held'[s] = None
  BY <1>1
<1>7. HoldsInRound'
  <2> SUFFICES ASSUME NEW t \in Subs
               PROVE  /\ InRound(t)' => held'[t] # None
                      /\ spc'[t] \in {"out", "next", "walk"} => held'[t] = None
    BY DEF HoldsInRound
  <2>1. CASE t = s
    BY <1>2, <1>6, <2>1 DEF InRound
  <2>2. CASE t # s
    <3>1. spc'[t] = spc[t] /\ held'[t] = held[t] /\ (InRound(t)' <=> InRound(t))
      BY <1>2, <2>2 DEF InRound
    <3>2. /\ InRound(t) => held[t] # None
          /\ spc[t] \in {"out", "next", "walk"} => held[t] = None
      BY DEF RoundInv, HoldsInRound
    <3> QED
      BY <3>1, <3>2
  <2> QED
    BY <2>1, <2>2
<1>8. TakenByItsHolder'
  <2> SUFFICES ASSUME NEW n \in Messages, NEW t \in Subs
               PROVE  takenBy'[n] = t <=> held'[t] = n /\ InRound(t)'
    BY DEF TakenByItsHolder, InRound
  <2>1. /\ takenBy[n] = t <=> held[t] = n /\ InRound(t)
        /\ takenBy[n] = s => held[s] = n
    BY DEF RoundInv, TakenByItsHolder, InRound
  <2>2. t # None
    BY MessagesAssumption
  <2>3. takenBy'[n] = IF n = held[s] /\ takenBy[n] = s THEN None ELSE takenBy[n]
    BY <1>1
  <2>4. CASE t = s
    BY <1>2, <2>1, <2>2, <2>3, <2>4 DEF InRound
  <2>5. CASE t # s
    BY <1>2, <2>1, <2>2, <2>3, <2>5 DEF InRound
  <2> QED
    BY <2>4, <2>5
<1> QED
  BY <1>5, <1>7, <1>8 DEF RoundInv

LEMMA InitRoundInv == Init => RoundInv
<1> SUFFICES ASSUME Init PROVE RoundInv
  OBVIOUS
<1>1. RoundTypes
  BY DEF Init, RoundTypes, SubPCs
<1>2. HoldsInRound
  BY DEF Init, HoldsInRound, InRound
<1>3. TakenByItsHolder
  BY MessagesAssumption DEF Init, TakenByItsHolder
<1> QED
  BY <1>1, <1>2, <1>3 DEF RoundInv

LEMMA PublisherStep ==
  ASSUME RoundInv, NEW r \in Roots,
         \/ Publish(r) \/ PublishBlocking(r) \/ dbPublish(r) \/ PublishTx(r)
         \/ CommitTx(r) \/ RollbackTx(r) \/ BlockingWait(r) \/ PublishCancelled(r)
  PROVE  RoundInv'
<1>1. UNCHANGED <<takenBy, held, buf, spc>>
  BY DEF Publish, PublishBlocking, dbPublish, PublishTx, CommitTx, RollbackTx,
         BlockingWait, PublishCancelled, subVars
<1>2. msgs' = msgs \/ msgs' = Append(msgs, r)
  BY DEF Publish, PublishBlocking, dbPublish, PublishTx, CommitTx, RollbackTx,
         BlockingWait, PublishCancelled, put
<1>3. msgs' \in Seq(Messages)
  BY <1>2 DEF RoundInv, RoundTypes, SubPCs, Messages
<1> QED
  BY <1>1, <1>3, OtherStep DEF RoundInv, RoundTypes, SubPCs, InRound

LEMMA SubscriptionStep ==
  ASSUME RoundInv, NEW s \in Subs,
         \/ Subscribe(s) \/ SubStep(s) \/ CancelCtx(s) \/ RollbackInside(s)
         \/ \E m \in Replies : Reply(s, m)
  PROVE  RoundInv'
<1>1. CASE Subscribe(s) \/ WalkAgain(s) \/ RollbackInside(s)
  <2>1. /\ UNCHANGED <<takenBy, held, msgs>> /\ buf' \in [Subs -> SUBSET Replies]
        /\ \/ spc[s] \in {"out", "walk"} /\ spc' = [spc EXCEPT ![s] = "next"]
           \/ spc[s] = "yield" /\ spc' = [spc EXCEPT ![s] = "broken"]
    BY <1>1 DEF Subscribe, WalkAgain, RollbackInside, RoundInv, RoundTypes
  <2>2. \A t \in Subs : (InRound(t)' <=> InRound(t)) /\ (spc'[t] = "over" <=> spc[t] = "over")
    BY <2>1 DEF RoundInv, RoundTypes, SubPCs, InRound
  <2> QED
    BY <2>1, <2>2, OtherStep DEF RoundInv, RoundTypes, SubPCs
<1>2. CASE take(s)
  BY <1>2, TakeStep
<1>3. CASE Ack(s)
  <2>1. /\ UNCHANGED <<takenBy, held, buf, msgs>>
        /\ spc[s] = "yield"
        /\ \E v \in {"acking", "commit"} : spc' = [spc EXCEPT ![s] = v]
    BY <1>3 DEF Ack
  <2>2. \A t \in Subs : (InRound(t)' <=> InRound(t)) /\ (spc'[t] = "over" <=> spc[t] = "over")
    BY <2>1 DEF RoundInv, RoundTypes, SubPCs, InRound
  <2> QED
    BY <2>1, <2>2, OtherStep DEF RoundInv, RoundTypes, SubPCs
<1>4. CASE AckCommit(s)
  <2>1. /\ UNCHANGED <<takenBy, held>>
        /\ buf' = [buf EXCEPT ![s] = {}]
        /\ spc[s] = "commit" /\ spc' = [spc EXCEPT ![s] = "acking"]
    BY <1>4 DEF AckCommit
  <2>2. \A t \in Subs : (InRound(t)' <=> InRound(t)) /\ (spc'[t] = "over" <=> spc[t] = "over")
    BY <2>1 DEF RoundInv, RoundTypes, SubPCs, InRound
  <2>3. PICK m \in buf[s] : msgs' = Append(msgs, m)
    BY <1>4 DEF AckCommit, put
  <2>4. m \in Messages
    BY DEF RoundInv, RoundTypes, SubPCs, Messages
  <2>5. msgs' \in Seq(Messages)
    BY <2>3, <2>4 DEF RoundInv, RoundTypes, SubPCs
  <2> QED
    BY <2>1, <2>2, <2>5, OtherStep DEF RoundInv, RoundTypes, SubPCs
<1>5. CASE AckRemove(s)
  <2>1. msgs' \in Seq(Messages)
    BY <1>5, RemovedType DEF AckRemove, RoundInv, RoundTypes, SubPCs
  <2> QED
    BY <1>5, <2>1, ReleaseStep DEF AckRemove, RoundInv, RoundTypes
<1>6. CASE Nack(s) \/ AckFails(s) \/ NextRound(s) \/ Close(s)
  <2>1. /\ msgs' \in Seq(Messages) /\ buf' \in [Subs -> SUBSET Replies] /\ release(s)
    BY <1>6 DEF Nack, AckFails, NextRound, Close, drop, RoundInv, RoundTypes
  <2>2. PICK v \in {"over", "next", "out"} :
           /\ spc' = [spc EXCEPT ![s] = v]
           /\ held' = IF v = "over" THEN held ELSE [held EXCEPT ![s] = None]
    BY <1>6 DEF Nack, AckFails, NextRound, Close, drop
  <2> QED
    BY <2>1, <2>2, ReleaseStep
<1>7. CASE CancelCtx(s)
  BY <1>7, OtherStep DEF CancelCtx, RoundInv, RoundTypes, SubPCs, InRound
<1>8. CASE \E m \in Replies : Reply(s, m)
  <2>1. PICK m \in Replies : Reply(s, m)
    BY <1>8
  <2> QED
    BY <2>1, OtherStep DEF Reply, RoundInv, RoundTypes, SubPCs, InRound
<1>9. CASE rIter(s)
  <2>1. /\ UNCHANGED <<takenBy, held, buf>>
        /\ spc[s] = "next" /\ spc' = [spc EXCEPT ![s] = "walk"]
    BY <1>9 DEF rIter
  <2>2. \A t \in Subs : (InRound(t)' <=> InRound(t)) /\ (spc'[t] = "over" <=> spc[t] = "over")
    BY <2>1 DEF RoundInv, RoundTypes, SubPCs, InRound
  <2>3. PICK p \in Bijection(DOMAIN msgs, DOMAIN msgs) :
           msgs' = [i \in DOMAIN msgs |-> msgs[p[i]]]
    BY <1>9 DEF rIter
  <2>4. msgs' \in Seq(Messages)
    BY <2>3, SortedType DEF RoundInv, RoundTypes, SubPCs
  <2> QED
    BY <2>1, <2>2, <2>4, OtherStep DEF RoundInv, RoundTypes, SubPCs
<1> QED
  BY <1>1, <1>2, <1>3, <1>4, <1>5, <1>6, <1>7, <1>8, <1>9 DEF SubStep

LEMMA AlwaysRoundInv == Spec => []RoundInv
<1>1. RoundInv /\ [Next]_vars => RoundInv'
  <2> SUFFICES ASSUME RoundInv, [Next]_vars PROVE RoundInv'
    OBVIOUS
  <2>1. CASE UNCHANGED vars
    BY <2>1, OtherStep DEF vars, RoundInv, RoundTypes, SubPCs, InRound
  <2>2. CASE Purge
    <3>1. msgs' \in Seq(Messages)
      BY <2>2 DEF Purge
    <3> QED
      BY <2>2, <3>1, OtherStep DEF Purge, subVars, RoundInv, RoundTypes, SubPCs, InRound
  <2> QED
    BY <2>1, <2>2, PublisherStep, SubscriptionStep DEF Next
<1> QED
  BY <1>1, InitRoundInv, PTL DEF Spec

(* For any number of publishers and subscriptions: a message is marked as  *)
(* taken exactly while one subscription is between take and the end of its *)
(* ACK or NACK.                                                            *)
THEOREM OneSubscriptionPerMessage == Spec => []TakenByItsHolder
<1>1. RoundInv => TakenByItsHolder
  BY DEF RoundInv
<1> QED
  BY <1>1, AlwaysRoundInv, PTL

----------------------------------------------------------------------------
(* Sequences without repetition. *)
Distinct(s) == \A i, j \in DOMAIN s : s[i] = s[j] => i = j

LEMMA AppendElems ==
  ASSUME NEW S, NEW s \in Seq(S), NEW x \in S
  PROVE  /\ Append(s, x) \in Seq(S)
         /\ ToSet(Append(s, x)) = ToSet(s) \cup {x}
         /\ Distinct(s) /\ x \notin ToSet(s) => Distinct(Append(s, x))
<1> DEFINE r == Append(s, x)
<1>1. /\ r \in Seq(S) /\ DOMAIN s = 1 .. Len(s) /\ DOMAIN r = 1 .. Len(s) + 1
      /\ Len(s) \in Nat /\ r[Len(s) + 1] = x /\ \A i \in 1 .. Len(s) : r[i] = s[i]
  OBVIOUS
<1> HIDE DEF r
<1>2. \A i \in 1 .. Len(s) + 1 : i \in 1 .. Len(s) \/ i = Len(s) + 1
  BY <1>1
<1>3. \A i \in 1 .. Len(s) : i \in 1 .. Len(s) + 1
  BY <1>1
<1>4. Len(s) + 1 \in 1 .. Len(s) + 1
  BY <1>1
<1>5. ToSet(r) = ToSet(s) \cup {x}
  <2>1. ASSUME NEW y \in ToSet(r)
        PROVE  y \in ToSet(s) \cup {x}
    BY <1>1, <1>2, <2>1 DEF ToSet
  <2>2. ASSUME NEW y \in ToSet(s)
        PROVE  y \in ToSet(r)
    BY <1>1, <1>3, <2>2 DEF ToSet
  <2>3. x \in ToSet(r)
    BY <1>1, <1>4 DEF ToSet
  <2> QED
    BY <2>1, <2>2, <2>3
<1>6. ASSUME Distinct(s), x \notin ToSet(s), NEW i \in DOMAIN r, NEW j \in DOMAIN r,
             r[i] = r[j]
      PROVE  i = j
  BY <1>1, <1>2, <1>6 DEF Distinct, ToSet
<1> QED
  BY <1>1, <1>5, <1>6 DEF r, Distinct

LEMMA RemoveElems ==
  ASSUME NEW S, NEW s \in Seq(S), NEW i \in 1 .. Len(s), Distinct(s)
  PROVE  /\ RemoveAt(s, i) \in Seq(S)
         /\ Distinct(RemoveAt(s, i))
         /\ ToSet(RemoveAt(s, i)) = ToSet(s) \ {s[i]}
<1> DEFINE a == SubSeq(s, 1, i - 1)
           b == SubSeq(s, i + 1, Len(s))
           r == RemoveAt(s, i)
           n == Len(s)
<1>1. /\ a \in Seq(S) /\ Len(a) = i - 1 /\ \A j \in 1 .. i - 1 : a[j] = s[j]
      /\ n \in Nat /\ i \in Nat /\ i >= 1 /\ i <= n
  OBVIOUS
<1>2. /\ b \in Seq(S) /\ Len(b) = n - i /\ \A j \in 1 .. n - i : b[j] = s[i + j]
  OBVIOUS
<1>3. r = a \o b
  BY DEF RemoveAt
<1> HIDE DEF a, b, r
<1>4. /\ r \in Seq(S) /\ Len(r) = n - 1 /\ DOMAIN r = 1 .. n - 1 /\ DOMAIN s = 1 .. n
      /\ \A j \in 1 .. n - 1 : r[j] = IF j <= i - 1 THEN a[j] ELSE b[j - (i - 1)]
  <2>1. /\ r \in Seq(S) /\ Len(r) = Len(a) + Len(b)
        /\ \A j \in 1 .. Len(a) + Len(b) :
              r[j] = IF j <= Len(a) THEN a[j] ELSE b[j - Len(a)]
    BY <1>1, <1>2, <1>3, ConcatProperties
  <2>2. Len(a) + Len(b) = n - 1
    BY <1>1, <1>2
  <2>3. DOMAIN r = 1 .. Len(r) /\ DOMAIN s = 1 .. n
    BY <2>1
  <2> QED
    BY <1>1, <2>1, <2>2, <2>3
<1> HIDE DEF n
<1>5. ASSUME NEW j \in 1 .. n - 1
      PROVE  r[j] = IF j < i THEN s[j] ELSE s[j + 1]
  <2>1. CASE j < i
    <3>1. j \in 1 .. i - 1 /\ j <= i - 1
      BY <1>1, <2>1
    <3> QED
      BY <1>1, <1>4, <2>1, <3>1
  <2>2. CASE ~(j < i)
    <3>1. ~(j <= i - 1) /\ j - (i - 1) \in 1 .. n - i /\ i + (j - (i - 1)) = j + 1
      BY <1>1, <2>2
    <3> QED
      BY <1>2, <1>4, <2>2, <3>1
  <2> QED
    BY <2>1, <2>2
<1>6. ASSUME NEW j \in 1 .. n - 1
      PROVE  j \in 1 .. n /\ j + 1 \in 1 .. n
  BY <1>1
<1>7. Distinct(r)
  <2>1. ASSUME NEW j \in 1 .. n - 1, NEW k \in 1 .. n - 1, r[j] = r[k]
        PROVE  j = k
    <3>1. PICK x \in 1 .. n, y \in 1 .. n : /\ x = IF j < i THEN j ELSE j + 1
                                            /\ y = IF k < i THEN k ELSE k + 1
      BY <1>6
    <3>2. s[x] = s[y]
      BY <1>5, <2>1, <3>1
    <3>3. x = y
      BY <1>4, <3>2 DEF Distinct
    <3> QED
      BY <1>1, <3>1, <3>3
  <2> QED
    BY <1>4, <2>1 DEF Distinct
<1>8. ASSUME NEW y \in ToSet(r)
      PROVE  y \in ToSet(s) /\ y # s[i]
  <2>1. PICK j \in 1 .. n - 1 : y = r[j]
    BY <1>4, <1>8 DEF ToSet
  <2>2. PICK x \in 1 .. n : x = IF j < i THEN j ELSE j + 1
    BY <1>6
  <2>3. y = s[x] /\ x # i
    BY <1>1, <1>5, <2>1, <2>2
  <2>4. i \in 1 .. n
    BY <1>1
  <2> QED
    BY <1>4, <2>3, <2>4 DEF ToSet, Distinct
<1>9. ASSUME NEW y \in ToSet(s), y # s[i]
      PROVE  y \in ToSet(r)
  <2>1. PICK x \in 1 .. n : y = s[x] /\ x # i
    BY <1>4, <1>9 DEF ToSet
  <2>2. CASE x < i
    <3>1. x \in 1 .. n - 1
      BY <1>1, <2>2
    <3>2. r[x] = s[x]
      BY <1>5, <2>2, <3>1
    <3> QED
      BY <1>4, <2>1, <3>1, <3>2 DEF ToSet
  <2>3. CASE ~(x < i)
    <3>1. x - 1 \in 1 .. n - 1 /\ ~(x - 1 < i) /\ (x - 1) + 1 = x
      BY <1>1, <2>1, <2>3
    <3>2. r[x - 1] = s[x]
      BY <1>5, <3>1
    <3> QED
      BY <1>4, <2>1, <3>1, <3>2 DEF ToSet
  <2> QED
    BY <2>2, <2>3
<1> QED
  BY <1>4, <1>7, <1>8, <1>9 DEF r

LEMMA PermuteElems ==
  ASSUME NEW S, NEW s \in Seq(S), NEW p \in Bijection(DOMAIN s, DOMAIN s), Distinct(s),
         NEW r, r = [i \in DOMAIN s |-> s[p[i]]]
  PROVE  r \in Seq(S) /\ Distinct(r) /\ ToSet(r) = ToSet(s)
<1>1. /\ p \in [DOMAIN s -> DOMAIN s]
      /\ \A i, j \in DOMAIN s : p[i] = p[j] => i = j
      /\ \A j \in DOMAIN s : \E i \in DOMAIN s : p[i] = j
  BY DEF Bijection, Injection, Surjection, IsInjective
<1>2. r \in Seq(S)
  <2>1. DOMAIN s = 1 .. Len(s) /\ Len(s) \in Nat
    OBVIOUS
  <2>2. \A i \in 1 .. Len(s) : s[p[i]] \in S
    BY <1>1, <2>1
  <2>3. [i \in 1 .. Len(s) |-> s[p[i]]] \in Seq(S)
    BY <2>1, <2>2
  <2> QED
    BY <2>1, <2>3
<1>3. DOMAIN r = DOMAIN s /\ \A i \in DOMAIN s : r[i] = s[p[i]] /\ p[i] \in DOMAIN s
  BY <1>1
<1>4. Distinct(r)
  BY <1>1, <1>3 DEF Distinct
<1>5. ToSet(r) = ToSet(s)
  <2>1. ASSUME NEW y \in ToSet(r)
        PROVE  y \in ToSet(s)
    BY <1>3 DEF ToSet
  <2>2. ASSUME NEW y \in ToSet(s)
        PROVE  y \in ToSet(r)
    BY <1>1, <1>3 DEF ToSet
  <2> QED
    BY <2>1, <2>2
<1> QED
  BY <1>2, <1>4, <1>5

LEMMA DistinctLen ==
  ASSUME NEW S, NEW s \in Seq(S), Distinct(s)
  PROVE  Len(s) = Cardinality(ToSet(s))
<1>1. DOMAIN s = 1 .. Len(s) /\ Len(s) \in Nat /\ s \in [1 .. Len(s) -> S]
  OBVIOUS
<1>2. s \in [1 .. Len(s) -> ToSet(s)]
  BY <1>1 DEF ToSet
<1>3. s \in Surjection(1 .. Len(s), ToSet(s)) /\ s \in Injection(1 .. Len(s), ToSet(s))
  BY <1>1, <1>2 DEF Surjection, Injection, IsInjective, Distinct, ToSet
<1>4. IsFiniteSet(1 .. Len(s)) /\ Cardinality(1 .. Len(s)) = Len(s)
  <2>1. /\ IsFiniteSet(1 .. Len(s))
        /\ Cardinality(1 .. Len(s)) = IF 1 > Len(s) THEN 0 ELSE Len(s) - 1 + 1
    BY <1>1, FS_Interval
  <2> QED
    BY <1>1, <2>1
<1> QED
  BY <1>3, <1>4, FS_Surjection

----------------------------------------------------------------------------
(* Where a message is.  In the queue are, once each, the messages that     *)
(* were published and not settled...                                       *)
LedgerTypes ==
    /\ q \in Configs
    /\ msgs \in Seq(Messages) /\ Distinct(msgs)
    /\ stamped \in Seq(Messages)
    /\ ppc \in [Roots -> {"idle", "buffered", "stamped", "waiting", "returned", "failed"}]
    /\ blind \in [Subs -> SUBSET Messages]
    /\ cancelled \subseteq Subs
    /\ settled \subseteq Messages
    /\ published \in [Messages -> Nat]

Ledger == \A m \in Messages :
    /\ m \in InQueue => m \in ToSet(stamped)
    /\ m \in InQueue => m \notin settled
    /\ published[m] > 0 <=> m \in InQueue \/ m \in settled

(* ... a publisher knows whether its message was published... *)
Publishers == \A r \in Roots :
    /\ published[r] > 0 => ppc[r] \in {"waiting", "returned", "failed"}
    /\ ppc[r] = "stamped" => r \in ToSet(stamped)
    /\ ppc[r] = "waiting" => published[r] > 0
    /\ q.blocking => ppc[r] \notin {"buffered", "stamped"}

(* ... and the buffer of a round has the reply to its message, which was   *)
(* not published as long as the message can still be given back.           *)
Rounds == \A s \in Subs :
    /\ buf[s] # {} => spc[s] \in {"yield", "commit"}
    /\ \A m \in buf[s] : ReplyTo[m] = held[s]
    /\ held[s] # None => published[held[s]] > 0
    /\ spc[s] = "commit" => buf[s] \subseteq ToSet(stamped)
    /\ spc[s] \in {"yield", "commit"} =>
          \A m \in Replies : ReplyTo[m] = held[s] => published[m] = 0

QueueInv == LedgerTypes /\ Ledger /\ Publishers /\ Rounds /\ RepliesWithAck /\ BlockingHandled

(* A new stamp. *)
LEMMA StampStep ==
  ASSUME LedgerTypes, NEW m \in Messages, stamp(m)
  PROVE  stamped' \in Seq(Messages) /\ ToSet(stamped') = ToSet(stamped) \cup {m}
BY AppendElems DEF LedgerTypes, stamp

(* A message is appended for the first time. *)
LEMMA PutStep ==
  ASSUME LedgerTypes, Ledger, NEW m \in Messages, put(m), published[m] = 0,
         UNCHANGED settled, ToSet(stamped) \subseteq ToSet(stamped'), m \in ToSet(stamped')
  PROVE  /\ msgs' \in Seq(Messages) /\ Distinct(msgs')
         /\ published' \in [Messages -> Nat] /\ published'[m] = 1
         /\ \A x \in Messages : x # m => published'[x] = published[x]
         /\ Ledger'
<1>1. msgs' = Append(msgs, m) /\ published' = [published EXCEPT ![m] = @ + 1]
  BY DEF put
<1>2. /\ published' \in [Messages -> Nat] /\ published'[m] = 1
      /\ \A x \in Messages : x # m => published'[x] = published[x]
  BY <1>1 DEF LedgerTypes
<1>3. m \notin InQueue /\ m \notin settled
  BY DEF Ledger
<1>4. msgs' \in Seq(Messages) /\ Distinct(msgs') /\ InQueue' = InQueue \cup {m}
  BY <1>1, <1>3, AppendElems DEF LedgerTypes, InQueue
<1>5. Ledger'
  BY <1>2, <1>3, <1>4 DEF Ledger
<1> QED
  BY <1>2, <1>4, <1>5

(* A publisher's step that appends nothing. *)
LEMMA QuietPublisher ==
  ASSUME QueueInv, NEW r \in Roots,
         UNCHANGED <<q, msgs, settled, published, subVars>>,
         stamp(r) \/ UNCHANGED stamped,
         NEW p \in {"buffered", "stamped", "returned", "failed"},
         ppc' = [ppc EXCEPT ![r] = p],
         p \in {"buffered", "stamped"} => ~q.blocking /\ published[r] = 0,
         p = "stamped" => stamp(r), p = "returned" => r \in settled
  PROVE  QueueInv'
<1>1. LedgerTypes /\ r \in Messages
  BY DEF QueueInv, Messages
<1>2. /\ stamped' \in Seq(Messages) /\ ToSet(stamped) \subseteq ToSet(stamped')
      /\ p = "stamped" => r \in ToSet(stamped')
  BY <1>1, StampStep DEF LedgerTypes
<1>3. LedgerTypes'
  BY <1>1, <1>2 DEF LedgerTypes, subVars
<1>4. Ledger' /\ Rounds' /\ RepliesWithAck'
  BY <1>2 DEF QueueInv, Ledger, Rounds, RepliesWithAck, InQueue, subVars
<1>5. Publishers' /\ BlockingHandled'
  BY <1>1, <1>2 DEF QueueInv, LedgerTypes, Publishers, BlockingHandled
<1> QED
  BY <1>3, <1>4, <1>5 DEF QueueInv

(* A publisher's step that appends its message. *)
LEMMA PuttingPublisher ==
  ASSUME RoundInv, QueueInv, NEW r \in Roots, UNCHANGED <<q, settled, subVars>>, put(r),
         published[r] = 0, stamp(r) \/ (UNCHANGED stamped /\ r \in ToSet(stamped)),
         NEW p \in {"waiting", "returned"}, ppc' = [ppc EXCEPT ![r] = p],
         p = "returned" => ~q.blocking
  PROVE  QueueInv'
<1>1. LedgerTypes /\ Ledger /\ r \in Messages /\ r \notin Replies
  BY MessagesAssumption DEF QueueInv, Messages
<1>2. /\ stamped' \in Seq(Messages) /\ ToSet(stamped) \subseteq ToSet(stamped')
      /\ r \in ToSet(stamped')
  BY <1>1, StampStep DEF LedgerTypes
<1>3. /\ msgs' \in Seq(Messages) /\ Distinct(msgs')
      /\ published' \in [Messages -> Nat] /\ published'[r] = 1
      /\ \A x \in Messages : x # r => published'[x] = published[x]
      /\ Ledger'
  BY <1>1, <1>2, PutStep
<1>4. LedgerTypes'
  BY <1>1, <1>2, <1>3 DEF LedgerTypes, subVars
<1>5. \A x \in Replies : published'[x] = published[x]
  BY <1>1, <1>3 DEF Messages
<1>6. Rounds' /\ RepliesWithAck'
  <2>1. \A x \in Messages : published[x] > 0 => published'[x] > 0
    BY <1>3
  <2>2. \A t \in Subs : held[t] \in Messages \cup {None}
    BY DEF RoundInv, RoundTypes
  <2> QED
    BY <1>2, <1>5, <2>1, <2>2 DEF QueueInv, Rounds, RepliesWithAck, subVars
<1>7. Publishers' /\ BlockingHandled'
  BY <1>1, <1>2, <1>3 DEF QueueInv, LedgerTypes, Publishers, BlockingHandled, Messages
<1> QED
  BY <1>3, <1>4, <1>6, <1>7 DEF QueueInv

LEMMA PublisherQueue ==
  ASSUME RoundInv, QueueInv, NEW r \in Roots,
         \/ Publish(r) \/ PublishBlocking(r) \/ dbPublish(r) \/ PublishTx(r)
         \/ CommitTx(r) \/ RollbackTx(r) \/ BlockingWait(r) \/ PublishCancelled(r)
  PROVE  QueueInv'
<1>1. r \in Messages /\ published[r] \in Nat
  BY DEF Messages, QueueInv, LedgerTypes
<1>2. ppc[r] \notin {"waiting", "returned", "failed"} => published[r] = 0
  BY <1>1 DEF QueueInv, Publishers
<1>3. CASE Publish(r) \/ PublishTx(r)
  BY <1>2, <1>3, QuietPublisher DEF Publish, PublishTx
<1>4. CASE CommitTx(r) \/ RollbackTx(r) \/ PublishCancelled(r)
  <2>1. ppc[r] = "buffered" => ~q.blocking
    BY DEF QueueInv, Publishers
  <2> QED
    BY <1>2, <1>4, <2>1, QuietPublisher DEF CommitTx, RollbackTx, PublishCancelled
<1>5. CASE BlockingWait(r)
  <2>1. r \in settled
    BY <1>1, <1>5 DEF BlockingWait, QueueInv, Publishers, Ledger
  <2> QED
    BY <1>5, <2>1, QuietPublisher DEF BlockingWait
<1>6. CASE PublishBlocking(r)
  BY <1>2, <1>6, PuttingPublisher DEF PublishBlocking
<1>7. CASE dbPublish(r)
  <2>1. ppc[r] = "stamped" /\ r \in ToSet(stamped) /\ ~q.blocking
    BY <1>7 DEF dbPublish, QueueInv, Publishers
  <2> QED
    BY <1>2, <1>7, <2>1, PuttingPublisher DEF dbPublish
<1> QED
  BY <1>3, <1>4, <1>5, <1>6, <1>7

LEMMA PurgeQueue ==
  ASSUME QueueInv, Purge
  PROVE  QueueInv'
<1>1. /\ msgs' = << >> /\ settled' = settled \cup InQueue
      /\ UNCHANGED <<q, stamped, ppc, published, spc, held, buf, blind, cancelled>>
  BY DEF Purge, subVars
<1>2. InQueue \subseteq Messages
  BY DEF QueueInv, LedgerTypes, InQueue, ToSet
<1>3. InQueue' = {} /\ Distinct(msgs') /\ msgs' \in Seq(Messages)
  BY <1>1 DEF InQueue, ToSet, Distinct
<1>4. LedgerTypes'
  BY <1>1, <1>2, <1>3 DEF QueueInv, LedgerTypes
<1>5. Ledger'
  BY <1>1, <1>3 DEF QueueInv, Ledger
<1>6. Publishers' /\ Rounds' /\ RepliesWithAck' /\ BlockingHandled'
  BY <1>1 DEF QueueInv, Publishers, Rounds, RepliesWithAck, BlockingHandled
<1> QED
  BY <1>4, <1>5, <1>6 DEF QueueInv

(* A step of a subscription that neither appends nor settles. *)
LEMMA RoundFrame ==
  ASSUME QueueInv, msgs' \in Seq(Messages), Distinct(msgs'), InQueue' = InQueue,
         UNCHANGED <<q, ppc, settled, published>>,
         stamped' \in Seq(Messages), ToSet(stamped) \subseteq ToSet(stamped'),
         blind' \in [Subs -> SUBSET Messages], cancelled' \subseteq Subs,
         Rounds', RepliesWithAck'
  PROVE  QueueInv'
<1>1. LedgerTypes'
  BY DEF QueueInv, LedgerTypes
<1>2. Ledger' /\ Publishers' /\ BlockingHandled'
  BY DEF QueueInv, Ledger, Publishers, BlockingHandled
<1> QED
  BY <1>1, <1>2 DEF QueueInv

(* Between two rounds. *)
LEMMA BetweenRounds ==
  ASSUME RoundInv, QueueInv, NEW s \in Subs,
         Subscribe(s) \/ WalkAgain(s) \/ rIter(s)
  PROVE  QueueInv'
<1>1. /\ UNCHANGED <<q, stamped, ppc, held, buf, settled, published>>
      /\ spc[s] \in {"out", "over", "next", "walk"}
      /\ \E v \in {"next", "out", "walk"} : spc' = [spc EXCEPT ![s] = v]
  BY DEF Subscribe, WalkAgain, rIter
<1>2. LedgerTypes /\ spc \in [Subs -> SubPCs]
  BY DEF QueueInv, RoundInv, RoundTypes
<1>3. blind' \in [Subs -> SUBSET Messages] /\ cancelled' \subseteq Subs
  <2>1. ToSet(stamped) \subseteq Messages
    BY <1>2 DEF LedgerTypes, ToSet
  <2> QED
    BY <1>2, <2>1 DEF LedgerTypes, Subscribe, WalkAgain, rIter
<1>4. Rounds' /\ RepliesWithAck'
  BY <1>1, <1>2 DEF QueueInv, Rounds, RepliesWithAck, SubPCs
<1>5. msgs' \in Seq(Messages) /\ Distinct(msgs') /\ InQueue' = InQueue
  <2>1. CASE UNCHANGED msgs
    BY <1>2, <2>1 DEF LedgerTypes, InQueue
  <2>2. CASE rIter(s)
    <3>1. PICK p \in Bijection(DOMAIN msgs, DOMAIN msgs) :
             msgs' = [i \in DOMAIN msgs |-> msgs[p[i]]]
      BY <2>2 DEF rIter
    <3>2. PICK x, y : x = msgs /\ y = msgs'
      OBVIOUS
    <3>3. x \in Seq(Messages) /\ Distinct(x)
      BY <1>2, <3>2 DEF LedgerTypes
    <3>4. p \in Bijection(DOMAIN x, DOMAIN x) /\ y = [i \in DOMAIN x |-> x[p[i]]]
      BY <3>1, <3>2
    <3>5. y \in Seq(Messages) /\ Distinct(y) /\ ToSet(y) = ToSet(x)
      BY <3>3, <3>4, PermuteElems
    <3> QED
      BY <3>2, <3>5 DEF InQueue
  <2> QED
    BY <2>1, <2>2 DEF Subscribe, WalkAgain
<1> QED
  BY <1>1, <1>2, <1>3, <1>4, <1>5, RoundFrame DEF LedgerTypes

(* A message that is taken is neither settled nor being acknowledged, so   *)
(* its reply was not published yet.                                        *)
LEMMA TakeQueue ==
  ASSUME RoundInv, QueueInv, NEW s \in Subs, take(s)
  PROVE  QueueInv'
<1>1. PICK i \in DOMAIN msgs : /\ takenBy[msgs[i]] = None
                               /\ held' = [held EXCEPT ![s] = msgs[i]]
  BY DEF take, Free
<1>2. PICK x : x = msgs[i]
  OBVIOUS
<1>3. /\ spc[s] = "walk" /\ spc' = [spc EXCEPT ![s] = "yield"]
      /\ UNCHANGED <<q, msgs, stamped, ppc, buf, blind, cancelled, settled, published>>
  BY DEF take
<1>4. x \in InQueue /\ x \in Messages
  BY <1>1, <1>2 DEF QueueInv, LedgerTypes, InQueue, ToSet
<1>5. published[x] > 0 /\ x \notin settled
  BY <1>4 DEF QueueInv, Ledger
<1>6. ASSUME NEW t \in Subs
      PROVE  ~(held[t] = x /\ spc[t] = "acking")
  BY <1>1, <1>2, <1>4, MessagesAssumption DEF RoundInv, TakenByItsHolder
<1>7. ASSUME NEW m \in Replies, ReplyTo[m] = x
      PROVE  published[m] = 0
  <2>1. published[m] \in Nat
    BY DEF QueueInv, LedgerTypes, Messages
  <2> QED
    BY <1>5, <1>6, <1>7, <2>1 DEF QueueInv, RepliesWithAck
<1>8. buf[s] = {} /\ held \in [Subs -> Messages \cup {None}] /\ spc \in [Subs -> SubPCs]
  BY <1>3 DEF QueueInv, Rounds, RoundInv, RoundTypes
<1>9. held'[s] = x /\ spc'[s] = "yield"
      /\ \A t \in Subs : t # s => held'[t] = held[t] /\ spc'[t] = spc[t]
  BY <1>1, <1>2, <1>3, <1>8
<1>10. Rounds'
  <2>1. ASSUME NEW t \in Subs
        PROVE  /\ buf[t] # {} => spc'[t] \in {"yield", "commit"}
               /\ \A m \in buf[t] : ReplyTo[m] = held'[t]
               /\ held'[t] # None => published[held'[t]] > 0
               /\ spc'[t] = "commit" => buf[t] \subseteq ToSet(stamped)
               /\ spc'[t] \in {"yield", "commit"} =>
                     \A m \in Replies : ReplyTo[m] = held'[t] => published[m] = 0
    <3>1. CASE t = s
      BY <1>5, <1>7, <1>8, <1>9, <3>1
    <3>2. CASE t # s
      BY <1>9, <3>2 DEF QueueInv, Rounds
    <3> QED
      BY <3>1, <3>2
  <2> QED
    BY <1>3, <2>1 DEF Rounds
<1>11. RepliesWithAck'
  <2>1. \A t \in Subs : spc[t] = "acking" => held'[t] = held[t] /\ spc'[t] = spc[t]
    BY <1>3, <1>9
  <2> QED
    BY <1>3, <2>1 DEF QueueInv, RepliesWithAck
<1> QED
  BY <1>3, <1>10, <1>11, RoundFrame DEF QueueInv, LedgerTypes, InQueue

(* A handler publishes or rolls back, a round is given back or dropped, a  *)
(* context is cancelled.                                                   *)
LEMMA ReplyNackQueue ==
  ASSUME RoundInv, QueueInv, NEW s \in Subs,
         \/ Nack(s) \/ AckFails(s) \/ NextRound(s) \/ Close(s) \/ RollbackInside(s)
         \/ CancelCtx(s) \/ \E m \in Replies : Reply(s, m)
  PROVE  QueueInv'
<1>1. /\ UNCHANGED <<q, msgs, stamped, ppc, blind, settled, published>>
      /\ cancelled' \subseteq Subs
  BY DEF Nack, AckFails, NextRound, Close, RollbackInside, drop, CancelCtx, Reply, QueueInv,
         LedgerTypes
<1>2. /\ spc \in [Subs -> SubPCs] /\ held \in [Subs -> Messages \cup {None}]
      /\ buf \in [Subs -> SUBSET Replies]
  BY DEF RoundInv, RoundTypes
<1>3. CASE CancelCtx(s)
  <2>1. Rounds' /\ RepliesWithAck'
    BY <1>1, <1>3 DEF CancelCtx, QueueInv, Rounds, RepliesWithAck
  <2> QED
    BY <1>1, <2>1, RoundFrame DEF QueueInv, LedgerTypes, InQueue
<1>4. CASE Nack(s) \/ AckFails(s) \/ NextRound(s) \/ Close(s) \/ RollbackInside(s)
  <2>1. PICK v \in {"over", "next", "out", "broken"} : spc' = [spc EXCEPT ![s] = v]
    BY <1>4 DEF Nack, AckFails, NextRound, Close, RollbackInside
  <2>2. spc[s] \in {"yield", "broken", "over"} \/ spc[s] = "next"
    BY <1>4 DEF Nack, AckFails, NextRound, Close, RollbackInside
  <2>3. buf'[s] = {} /\ (held'[s] = held[s] \/ held'[s] = None)
    BY <1>2, <1>4, <2>2 DEF Nack, AckFails, NextRound, Close, RollbackInside, drop, QueueInv, Rounds
  <2>4. \A t \in Subs : t # s => spc'[t] = spc[t] /\ held'[t] = held[t] /\ buf'[t] = buf[t]
    BY <1>2, <1>4, <2>1 DEF Nack, AckFails, NextRound, Close, RollbackInside, drop
  <2>5. spc'[s] = v
    BY <1>2, <2>1
  <2>6. Rounds'
    BY <1>1, <2>3, <2>4, <2>5 DEF QueueInv, Rounds
  <2>7. RepliesWithAck'
    <3>1. \A t \in Subs : spc[t] = "acking" => held'[t] = held[t] /\ spc'[t] = spc[t]
      BY <2>2, <2>4
    <3> QED
      BY <1>1, <3>1 DEF QueueInv, RepliesWithAck
  <2> QED
    BY <1>1, <2>6, <2>7, RoundFrame DEF QueueInv, LedgerTypes, InQueue
<1>5. CASE \E m \in Replies : Reply(s, m)
  <2>1. Rounds' /\ RepliesWithAck'
    BY <1>1, <1>2, <1>5 DEF Reply, QueueInv, Rounds, RepliesWithAck
  <2> QED
    BY <1>1, <2>1, RoundFrame DEF QueueInv, LedgerTypes, InQueue
<1> QED
  BY <1>3, <1>4, <1>5

(* ACK stamps the reply, if there is one: a round has at most one... *)
LEMMA AckQueue ==
  ASSUME RoundInv, QueueInv, NEW s \in Subs, Ack(s)
  PROVE  QueueInv'
<1>1. /\ spc[s] = "yield" /\ LedgerTypes
      /\ UNCHANGED <<q, msgs, ppc, held, buf, blind, cancelled, settled, published>>
  BY DEF Ack, QueueInv
<1>2. /\ spc \in [Subs -> SubPCs] /\ held \in [Subs -> Messages \cup {None}]
      /\ buf \in [Subs -> SUBSET Replies]
  BY DEF RoundInv, RoundTypes
<1>3. CASE buf[s] = {}
  <2>1. spc' = [spc EXCEPT ![s] = "acking"] /\ UNCHANGED stamped
    BY <1>3 DEF Ack
  <2>2. Rounds' /\ RepliesWithAck'
    BY <1>1, <1>2, <1>3, <2>1 DEF QueueInv, Rounds, RepliesWithAck
  <2> QED
    BY <1>1, <2>1, <2>2, RoundFrame DEF LedgerTypes, InQueue
<1>4. CASE buf[s] # {}
  <2>1. PICK m \in buf[s] : spc' = [spc EXCEPT ![s] = "commit"] /\ stamp(m)
    BY <1>4 DEF Ack
  <2>2. m \in Replies /\ m \in Messages
    BY <1>2 DEF Messages
  <2>3. stamped' \in Seq(Messages) /\ ToSet(stamped') = ToSet(stamped) \cup {m}
    BY <1>1, <2>1, <2>2, StampStep
  <2>4. buf[s] \subseteq {m}
    BY <1>2, <2>2, ReplyToAssumption DEF QueueInv, Rounds
  <2>5. Rounds' /\ RepliesWithAck'
    BY <1>1, <1>2, <2>1, <2>3, <2>4 DEF QueueInv, Rounds, RepliesWithAck
  <2> QED
    BY <1>1, <2>3, <2>5, RoundFrame DEF LedgerTypes, InQueue
<1> QED
  BY <1>3, <1>4

(* ... appends it... *)
LEMMA AckCommitQueue ==
  ASSUME RoundInv, QueueInv, NEW s \in Subs, AckCommit(s)
  PROVE  QueueInv'
<1>1. /\ spc[s] = "commit" /\ LedgerTypes /\ Ledger
      /\ buf' = [buf EXCEPT ![s] = {}] /\ spc' = [spc EXCEPT ![s] = "acking"]
      /\ UNCHANGED <<q, stamped, ppc, held, blind, cancelled, settled>>
  BY DEF AckCommit, QueueInv
<1>2. /\ spc \in [Subs -> SubPCs] /\ held \in [Subs -> Messages \cup {None}]
      /\ buf \in [Subs -> SUBSET Replies]
  BY DEF RoundInv, RoundTypes
<1>3. PICK m \in buf[s] : put(m)
  BY DEF AckCommit
<1>4. /\ m \in Replies /\ m \in Messages /\ m \notin Roots
      /\ ReplyTo[m] = held[s] /\ published[m] = 0 /\ m \in ToSet(stamped)
  BY <1>1, <1>2, MessagesAssumption DEF QueueInv, Rounds, Messages
<1>5. /\ msgs' \in Seq(Messages) /\ Distinct(msgs')
      /\ published' \in [Messages -> Nat] /\ published'[m] = 1
      /\ \A x \in Messages : x # m => published'[x] = published[x]
      /\ Ledger'
  BY <1>1, <1>3, <1>4, PutStep
<1>6. LedgerTypes'
  BY <1>1, <1>5 DEF LedgerTypes
<1>7. Publishers' /\ BlockingHandled'
  BY <1>1, <1>4, <1>5 DEF QueueInv, Publishers, BlockingHandled, Messages
<1>8. held[s] \in Messages
  <2>1. InRound(s)
    BY <1>1 DEF InRound
  <2>2. held[s] # None
    BY <2>1 DEF RoundInv, HoldsInRound
  <2> QED
    BY <1>2, <2>2
<1>9. ASSUME NEW t \in Subs, t # s, spc[t] \in {"yield", "commit"}
      PROVE  held[t] # held[s]
  BY <1>1, <1>8, <1>9 DEF RoundInv, TakenByItsHolder
<1>10. Rounds'
  <2>1. ASSUME NEW t \in Subs
        PROVE  /\ buf'[t] # {} => spc'[t] \in {"yield", "commit"}
               /\ \A x \in buf'[t] : ReplyTo[x] = held[t]
               /\ held[t] # None => published'[held[t]] > 0
               /\ spc'[t] = "commit" => buf'[t] \subseteq ToSet(stamped)
               /\ spc'[t] \in {"yield", "commit"} =>
                     \A x \in Replies : ReplyTo[x] = held[t] => published'[x] = 0
    <3>1. held[t] # None => published'[held[t]] > 0
      BY <1>2, <1>5 DEF QueueInv, Rounds
    <3>2. CASE t = s
      BY <1>1, <1>2, <3>1, <3>2
    <3>3. CASE t # s
      <4>1. spc'[t] = spc[t] /\ buf'[t] = buf[t]
        BY <1>1, <1>2, <3>3
      <4>2. ASSUME spc[t] \in {"yield", "commit"}, NEW x \in Replies, ReplyTo[x] = held[t]
            PROVE  published'[x] = 0
        <5>1. x # m /\ x \in Messages
          BY <1>4, <1>9, <3>3, <4>2 DEF Messages
        <5> QED
          BY <1>5, <4>2, <5>1 DEF QueueInv, Rounds
      <4> QED
        BY <3>1, <4>1, <4>2 DEF QueueInv, Rounds
    <3> QED
      BY <3>2, <3>3
  <2> QED
    BY <1>1, <2>1 DEF Rounds
<1>11. RepliesWithAck'
  <2>1. ASSUME NEW x \in Replies, published'[x] > 0
        PROVE  /\ published'[x] = 1
               /\ \/ ReplyTo[x] \in settled
                  \/ \E t \in Subs : held[t] = ReplyTo[x] /\ spc'[t] = "acking"
    <3>1. CASE x = m
      BY <1>1, <1>2, <1>4, <1>5, <3>1
    <3>2. CASE x # m
      <4>1. published'[x] = published[x]
        BY <1>5, <3>2 DEF Messages
      <4>2. \A t \in Subs : spc[t] = "acking" => spc'[t] = "acking"
        BY <1>1, <1>2
      <4> QED
        BY <2>1, <4>1, <4>2 DEF QueueInv, RepliesWithAck
    <3> QED
      BY <3>1, <3>2
  <2> QED
    BY <1>1, <2>1 DEF RepliesWithAck
<1> QED
  BY <1>5, <1>6, <1>7, <1>10, <1>11 DEF QueueInv

(* The queue without a message. *)
LEMMA RemovedElems ==
  ASSUME msgs \in Seq(Messages), Distinct(msgs), NEW m
  PROVE  /\ Removed(m) \in Seq(Messages) /\ Distinct(Removed(m))
         /\ ToSet(Removed(m)) = InQueue \ {m}
<1>1. CASE m \notin InQueue
  BY <1>1 DEF Removed, InQueue
<1>2. CASE m \in InQueue
  <2> DEFINE i == CHOOSE j \in DOMAIN msgs : msgs[j] = m
  <2>1. i \in DOMAIN msgs /\ msgs[i] = m
    BY <1>2 DEF InQueue, ToSet
  <2>2. i \in 1 .. Len(msgs)
    BY <2>1
  <2>3. Removed(m) = RemoveAt(msgs, i)
    BY <1>2 DEF Removed
  <2> HIDE DEF i
  <2> QED
    BY <2>1, <2>2, <2>3, RemoveElems DEF InQueue
<1> QED
  BY <1>1, <1>2

(* ... and settles the message. *)
LEMMA AckRemoveQueue ==
  ASSUME RoundInv, QueueInv, NEW s \in Subs, AckRemove(s)
  PROVE  QueueInv'
<1>1. PICK h : h = held[s]
  OBVIOUS
<1>2. /\ spc[s] = "acking" /\ LedgerTypes /\ msgs' = Removed(h)
      /\ settled' = settled \cup {h}
      /\ spc' = [spc EXCEPT ![s] = "over"]
      /\ UNCHANGED <<q, stamped, ppc, held, buf, blind, cancelled, published>>
  BY <1>1 DEF AckRemove, QueueInv
<1>3. /\ spc \in [Subs -> SubPCs] /\ held \in [Subs -> Messages \cup {None}]
  BY DEF RoundInv, RoundTypes
<1>4. h \in Messages /\ h # None
  <2>1. InRound(s)
    BY <1>2 DEF InRound
  <2>2. held[s] # None
    BY <2>1 DEF RoundInv, HoldsInRound
  <2> QED
    BY <1>1, <1>3, <2>2
<1>5. published[h] > 0
  BY <1>1, <1>4 DEF QueueInv, Rounds
<1>6. msgs' \in Seq(Messages) /\ Distinct(msgs') /\ InQueue' = InQueue \ {h}
  BY <1>2, RemovedElems DEF LedgerTypes, InQueue
<1>7. LedgerTypes'
  BY <1>2, <1>4, <1>6 DEF LedgerTypes
<1>8. Ledger'
  BY <1>2, <1>5, <1>6 DEF QueueInv, Ledger
<1>9. Publishers' /\ BlockingHandled'
  BY <1>2 DEF QueueInv, Publishers, BlockingHandled
<1>10. Rounds'
  BY <1>2, <1>3 DEF QueueInv, Rounds
<1>11. RepliesWithAck'
  BY <1>1, <1>2, <1>3 DEF QueueInv, RepliesWithAck
<1> QED
  BY <1>7, <1>8, <1>9, <1>10, <1>11 DEF QueueInv

LEMMA InitQueueInv == Init => QueueInv
<1> SUFFICES ASSUME Init PROVE QueueInv
  OBVIOUS
<1>1. LedgerTypes
  BY DEF Init, LedgerTypes, Distinct
<1>2. InQueue = {}
  BY DEF Init, InQueue, ToSet
<1>3. \A m \in Messages : published[m] = 0
  BY DEF Init
<1>4. Ledger
  BY <1>2, <1>3 DEF Init, Ledger
<1>5. Publishers /\ Rounds /\ RepliesWithAck /\ BlockingHandled
  BY <1>3 DEF Init, Publishers, Rounds, RepliesWithAck, BlockingHandled, Messages
<1> QED
  BY <1>1, <1>4, <1>5 DEF QueueInv

LEMMA AlwaysQueueInv == Spec => [](RoundInv /\ QueueInv)
<1>1. RoundInv /\ QueueInv /\ [Next]_vars => QueueInv'
  <2> SUFFICES ASSUME RoundInv, QueueInv, [Next]_vars PROVE QueueInv'
    OBVIOUS
  <2>1. CASE UNCHANGED vars
    BY <2>1 DEF vars, QueueInv, LedgerTypes, Ledger, Publishers, Rounds, RepliesWithAck,
                BlockingHandled, InQueue
  <2>2. ASSUME NEW s \in Subs, SubStep(s)
        PROVE  QueueInv'
    BY <2>2, BetweenRounds, TakeQueue, ReplyNackQueue, AckQueue, AckCommitQueue,
       AckRemoveQueue DEF SubStep
  <2>3. ASSUME NEW s \in Subs,
               \/ Subscribe(s) \/ CancelCtx(s) \/ RollbackInside(s)
               \/ \E m \in Replies : Reply(s, m)
        PROVE  QueueInv'
    BY <2>3, BetweenRounds, ReplyNackQueue
  <2> QED
    BY <2>1, <2>2, <2>3, PublisherQueue, PurgeQueue DEF Next
<1> QED
  BY <1>1, InitQueueInv, AlwaysRoundInv, PTL DEF Spec

(* No message is lost or doubled: what was put into the queue is there     *)
(* once, or was acknowledged or purged, for any number of publishers and   *)
(* subscriptions, whatever is given back, cancelled or sorted in between.  *)
THEOREM NothingLost == Spec => []NotLost
<1>1. RoundInv /\ QueueInv => NotLost
  <2> SUFFICES ASSUME RoundInv, QueueInv PROVE NotLost
    OBVIOUS
  <2>1. LedgerTypes /\ Ledger /\ RoundTypes
    BY DEF RoundInv, QueueInv
  <2>2. InQueue \subseteq Messages
    BY <2>1 DEF LedgerTypes, InQueue, ToSet
  <2>3. InQueue \subseteq ToSet(stamped)
    BY <2>1, <2>2 DEF Ledger
  <2>4. Len(msgs) = Cardinality(InQueue)
    BY <2>1, DistinctLen DEF LedgerTypes, InQueue
  <2>5. TypeOK
    BY <2>1, <2>2, <2>3, <2>4 DEF LedgerTypes, RoundTypes, SubPCs, TypeOK
  <2> QED
    BY <2>1, <2>5 DEF Ledger, NotLost
<1> QED
  BY <1>1, AlwaysQueueInv, PTL

(* A reply is published once, and not before the message it answers is     *)
(* beyond being given back: NACK and the end of a subscription publish     *)
(* nothing of a round that is repeated later.                              *)
THEOREM RepliesComeWithAck == Spec => []RepliesWithAck
<1>1. QueueInv => RepliesWithAck
  BY DEF QueueInv
<1> QED
  BY <1>1, AlwaysQueueInv, PTL

(* A blocking Publish that returns without an error leaves a message that  *)
(* was acknowledged or purged.                                             *)
THEOREM BlockingPublishHandled == Spec => []BlockingHandled
<1>1. QueueInv => BlockingHandled
  BY DEF QueueInv
<1> QED
  BY <1>1, AlwaysQueueInv, PTL
=============================================================================
