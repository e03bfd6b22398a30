------------------------ MODULE TransactionsProofs -------------------------
(***************************************************************************)
(* Proofs about the transactions of txkit and the programs built on them,  *)
(* for any number of changes, transactions, calls within calls, queues,    *)
(* migration steps and faults.                                             *)
(*                                                                         *)
(* Shape is common to all: what a call may have in each place of its       *)
(* program, that the calls on the stack have transactions in the order in  *)
(* which they were begun, and that contexts are chained.  On top of it,    *)
(* Steps says that an undo buffer has the changes that are still there,    *)
(* and what the outermost use case knows of them when its transaction is   *)
(* over; Fan, which queues have the message of a Publish at each of its    *)
(* deferred commits; and Mig, what the two transactions of a migration add *)
(* to what is recorded and to what is in effect.                           *)
(***************************************************************************)
EXTENDS Transactions, FiniteSetTheorems, WellFoundedInduction, TLAPS

(* The types of the variables. *)
Changes == [d : Data, n : {1, -1}]
Txs == [mgr : Managers, chain : SUBSET Nat, done : BOOLEAN, buf : Seq(Changes),
        acts : SUBSET Data]
Progs == {"none", "usecase", "fanout", "up", "down"}
PCs == {"none", "begin", "body", "finish", "undo"}
Calls == [prog : Progs, pc : PCs, ctx : Nat, mgr : Managers \cup {"none"}, txs : Seq(Nat),
          tx : Nat, n : Int, arg : Nat, was : SUBSET Data, alone : BOOLEAN, err : BOOLEAN]

Types ==
    /\ store \in [Managers -> [Data -> Int]]
    /\ txs \in Seq(Txs)
    /\ stack \in Seq(Calls)
    /\ ret \in Calls
    /\ made \in 0..MaxData /\ faults \in 0..MaxFaults
    /\ called \subseteq Progs

(* How many transactions a call has yet to begin. *)
Left(f) == CASE f.prog = "usecase" -> 1
             [] f.prog = "fanout" -> Len(Queues) + 1 - f.n
             [] OTHER -> 2 - Len(f.txs)

(* No transaction is begun beyond MaxTx, a cancelled context is one of     *)
(* them, and a transaction that is done is cancelled.                      *)
Sizes ==
    /\ Len(txs) <= MaxTx
    /\ cancelled \subseteq 0..MaxTx
    /\ Calling => cancelled \subseteq 0..Len(txs)
    /\ Calling /\ Top.pc = "begin" => Len(txs) + Left(Top) <= MaxTx
    /\ \A t \in DOMAIN txs : txs[t].done => t \in cancelled

(* The contexts that a context was made from come before it, one from the *)
(* other.                                                                  *)
Chained ==
    \A t \in DOMAIN txs :
        /\ {0, t} \subseteq txs[t].chain /\ txs[t].chain \subseteq 0..t
        /\ \A u \in txs[t].chain \ {0} : /\ txs[u].chain \subseteq txs[t].chain
                                        /\ txs[t].chain \cap (0..u) \subseteq txs[u].chain

(* A use case, and its transaction from its beginning to its Finish. *)
UseOK(f) ==
    /\ f.mgr \in {"steps"} \cup ToSet(Queues)
    /\ f.pc \in {"begin", "body", "finish", "undo"}
    /\ f.txs \in {<< >>, <<f.tx>>}
    /\ f.pc = "begin" => f.txs = << >> /\ f.tx = 0 /\ ~f.err
    /\ f.pc = "body" => f.txs # << >>
    /\ f.pc = "undo" => /\ f.txs = << >> /\ f.mgr = "steps" /\ f.err
                        /\ f.tx \in DOMAIN txs /\ txs[f.tx].mgr = "steps"
    /\ f.txs # << >> => /\ f.tx \in DOMAIN txs /\ txs[f.tx].mgr = f.mgr
                        /\ txs[f.tx].chain = Chain(f.ctx) \cup {f.tx} /\ f.ctx < f.tx

(* A Publish, and the transactions it has begun with the first queues. *)
FanShape(f) ==
    /\ f.mgr = Queues[1] /\ f.arg \in 1..made /\ f.pc \in {"begin", "finish"}
    /\ Len(f.txs) <= Len(Queues)
    /\ f.pc = "begin" => f.n = Len(f.txs) + 1 /\ f.n <= Len(Queues) /\ ~f.err
    /\ \A i \in 1..Len(f.txs) : /\ f.txs[i] \in DOMAIN txs
                                /\ txs[f.txs[i]].mgr = Queues[i]
                                /\ txs[f.txs[i]].chain = Chain(f.ctx) \cup {f.txs[i]}
    /\ \A i, j \in 1..Len(f.txs) : i < j => f.txs[i] < f.txs[j]

(* A migration has no caller, and begins the first two transactions. *)
MigShape(f) ==
    /\ f.mgr = "state" /\ f.ctx = 0 /\ f.pc \in {"begin", "body", "finish"}
    /\ f.arg \in 0..Versions
    /\ f.n \in IF f.prog = "up" THEN 1..(Versions + 1) ELSE f.arg..Versions
    /\ Len(f.txs) <= 2 /\ Len(f.txs) <= Len(txs)
    /\ \A i \in 1..Len(f.txs) : /\ f.txs[i] = i /\ txs[i].chain = {0, i}
                                /\ txs[i].mgr = IF i = 1 THEN "state" ELSE "resource"
    /\ f.pc = "begin" => Len(f.txs) < 2 /\ Len(txs) = Len(f.txs) /\ ~f.err
    /\ f.pc = "body" => Len(f.txs) = 2 /\ ~f.err

(* A call is of one of the three kinds. *)
OpOK(f) == /\ f.prog = "usecase" => UseOK(f)
           /\ f.prog = "fanout" => FanShape(f)
           /\ f.prog \in Migrations => MigShape(f)

(* A use case is as UseOK says, now and in the next state. *)
LEMMA UseOp ==
  ASSUME NEW f, f.prog = "usecase"
  PROVE  (OpOK(f) <=> UseOK(f)) /\ (OpOK(f)' <=> UseOK(f)')
BY DEF OpOK, Migrations

(* A call, and the calls it was made from: use cases in their body. *)
CallOK(i, f) ==
    /\ i < Len(stack) => f.prog = "usecase" /\ f.pc = "body"
    /\ f.prog # "none"
    /\ f.ctx = IF i = 1 THEN 0 ELSE stack[i - 1].tx
    /\ f.ctx \in 0..Len(txs)
    /\ f.alone <=> Levels(f.mgr, f.ctx) = {}
    /\ \A j \in 1..(i - 1) : stack[j].tx \in Chain(f.ctx)
    /\ f.prog \in Migrations => i = 1 /\ ret = NoCall
    /\ OpOK(f)

(* No caller of a call that found no transaction of its type has one. *)
RetApart == ret.alone /\ ret.prog \in {"usecase", "fanout"} =>
                \A i \in DOMAIN stack : Type(stack[i].mgr) # Type(ret.mgr)

(* The calls on the stack are well formed. *)
Stacked == /\ \A i \in DOMAIN stack, f \in Calls : f = stack[i] => CallOK(i, f)
           /\ RetApart

(* The steps to undo of a transaction are those that are there, in order; *)
(* the others are undone, the last one first.                              *)
Held(b, d) == \E i \in DOMAIN b : b[i].d = d
StepsOK(t) ==
    LET b == txs[t].buf
    IN  IF txs[t].mgr # "steps" THEN txs[t].acts = {}
        ELSE /\ \A i \in DOMAIN b : /\ b[i].n = 1 /\ b[i].d \in txs[t].acts
                                    /\ store["steps"][b[i].d] = 1
             /\ \A i, j \in DOMAIN b : i < j => b[i].d < b[j].d
             /\ \A d \in txs[t].acts :
                   /\ d <= made
                   /\ ~Held(b, d) => /\ store["steps"][d] = 0
                                     /\ \A i \in DOMAIN b : b[i].d < d
             /\ ~txs[t].done => \A d \in txs[t].acts : Held(b, d)

(* A change is registered with one transaction only. *)
Apart == \A t, u \in DOMAIN txs : t # u => txs[t].acts \cap txs[u].acts = {}

(* A transaction of steps that is over: all undone, or all there. *)
Settled(t, err) ==
    /\ t \in DOMAIN txs /\ txs[t].mgr = "steps"
    /\ IF err THEN txs[t].buf = << >> ELSE \A d \in txs[t].acts : Held(txs[t].buf, d)

(* A use case of the steps outside of any transaction of steps. *)
Outer(f) == f.prog = "usecase" /\ f.mgr = "steps" /\ f.alone

(* An outer use case: when its transaction is done it is empty, or being   *)
(* undone right now; and when the use case is over it is settled.          *)
OuterOK(f) ==
    Outer(f) =>
       /\ f.txs # << >> /\ txs[f.tx].done =>
             txs[f.tx].buf = << >> \/ (Top.pc = "undo" /\ Top.tx = f.tx)
       /\ f.pc = "finish" /\ f.txs = << >> /\ f.tx # 0 => Settled(f.tx, f.err)

(* The invariant of the undo steps. *)
Steps ==
    /\ \A t \in DOMAIN txs : StepsOK(t)
    /\ Apart
    /\ Calling /\ Top.pc = "undo" => Top.tx \in DOMAIN txs /\ txs[Top.tx].done
    /\ \A i \in DOMAIN stack, f \in Calls : f = stack[i] => OuterOK(f)
    /\ \A f \in Calls : f = ret /\ Outer(f) /\ f.tx # 0 => Settled(f.tx, f.err)

(* The invariant of the shape of the state. *)
Shape == Types /\ Sizes /\ Chained /\ Stacked

(* What Append and SubSeq do to a sequence. *)
LEMMA AppendFacts ==
  ASSUME NEW S, NEW s \in Seq(S), NEW e \in S
  PROVE  /\ Append(s, e) \in Seq(S)
         /\ Len(Append(s, e)) = Len(s) + 1
         /\ DOMAIN Append(s, e) = 1..(Len(s) + 1)
         /\ Append(s, e)[Len(s) + 1] = e
         /\ \A i \in 1..Len(s) : Append(s, e)[i] = s[i]
OBVIOUS

(* A function on 1..n is a sequence of length n. *)
LEMMA FunSeq ==
  ASSUME NEW S, NEW n \in Nat, NEW f \in [1..n -> S]
  PROVE  f \in Seq(S) /\ Len(f) = n /\ DOMAIN f = 1..n
OBVIOUS

(* A sequence without its last element. *)
LEMMA FrontFacts ==
  ASSUME NEW S, NEW s \in Seq(S), Len(s) > 0
  PROVE  /\ Front(s) \in Seq(S)
         /\ Len(Front(s)) = Len(s) - 1
         /\ DOMAIN Front(s) = 1..(Len(s) - 1)
         /\ \A i \in 1..(Len(s) - 1) : Front(s)[i] = s[i]
<1>1. Len(s) \in Nat /\ Len(s) - 1 \in 0..Len(s)
  OBVIOUS
<1>2. ASSUME NEW n \in 0..Len(s)
      PROVE  /\ SubSeq(s, 1, n) \in Seq(S) /\ Len(SubSeq(s, 1, n)) = n
             /\ DOMAIN SubSeq(s, 1, n) = 1..n
             /\ \A i \in 1..n : SubSeq(s, 1, n)[i] = s[i]
  OBVIOUS
<1> QED
  BY <1>1, <1>2 DEF Front

----------------------------------------------------------------------------
(* The call on top. *)
LEMMA TopFacts ==
  ASSUME Types, Calling
  PROVE  /\ Len(stack) \in Nat /\ Len(stack) > 0 /\ DOMAIN stack = 1..Len(stack)
         /\ Top = stack[Len(stack)] /\ Top \in Calls
         /\ Len(stack) \in DOMAIN stack
BY DEF Types, Calling, Top, Last

(* What becomes of the stack when only the call on top goes on. *)
Moved(g) == /\ stack' \in Seq(Calls) /\ Len(stack') = Len(stack)
            /\ \A i \in 1..(Len(stack) - 1) : stack'[i] = stack[i]
            /\ stack'[Len(stack)] = g /\ g \in Calls
            /\ Calling' /\ Top' = g

(* SetTop replaces the call on top and no other. *)
LEMMA SetTopMoves ==
  ASSUME Types, Calling, NEW g \in Calls, SetTop(g)
  PROVE  Moved(g)
<1>1. stack \in Seq(Calls) /\ Len(stack) \in Nat /\ Len(stack) > 0
  BY DEF Types, Calling
<1>2. stack' = Append(Front(stack), g)
  BY DEF SetTop
<1>3. /\ Front(stack) \in Seq(Calls) /\ Len(Front(stack)) = Len(stack) - 1
      /\ \A i \in 1..(Len(stack) - 1) : Front(stack)[i] = stack[i]
  BY <1>1, FrontFacts
<1>4. /\ stack' \in Seq(Calls) /\ Len(stack') = Len(stack) /\ stack'[Len(stack)] = g
      /\ \A i \in 1..(Len(stack) - 1) : stack'[i] = Front(stack)[i]
  BY <1>1, <1>2, <1>3, AppendFacts
<1>5. \A i \in 1..(Len(stack) - 1) : stack'[i] = stack[i]
  BY <1>3, <1>4
<1> QED
  BY <1>1, <1>4, <1>5 DEF Moved, Calling, Top, Last

(* What a call is does not change. *)
Kin(g) == /\ g.prog = Top.prog /\ g.ctx = Top.ctx /\ g.mgr = Top.mgr /\ g.alone = Top.alone
          /\ g.arg = Top.arg /\ g.was = Top.was

(* Transactions keep their type and the contexts they come from. *)
Kept == /\ txs' \in Seq(Txs) /\ Len(txs) <= Len(txs')
        /\ \A t \in 1..Len(txs) : /\ txs'[t].mgr = txs[t].mgr
                                  /\ txs'[t].chain = txs[t].chain

(* Transactions that are kept have the levels they had. *)
LEMMA KeptLevels ==
  ASSUME Types, Chained, Kept, NEW c \in 0..Len(txs)
  PROVE  /\ Chain(c)' = Chain(c) /\ \A m : Levels(m, c)' = Levels(m, c)
         /\ Chain(c) \subseteq 0..Len(txs) /\ 0 \in Chain(c) /\ c \in Chain(c)
<1>1. Len(txs) \in Nat /\ DOMAIN txs = 1..Len(txs)
  BY DEF Types
<1>2. c # 0 => c \in DOMAIN txs
  BY <1>1
<1>3. Chain(c)' = Chain(c)
  BY <1>1, <1>2 DEF Chain, Kept
<1>4. Chain(c) \subseteq 0..Len(txs) /\ 0 \in Chain(c) /\ c \in Chain(c)
  BY <1>1, <1>2 DEF Chain, Chained
<1>5. \A t \in Chain(c) \ {0} : txs'[t].mgr = txs[t].mgr
  BY <1>1, <1>4 DEF Kept
<1>6. \A m : Levels(m, c)' = Levels(m, c)
  BY <1>3, <1>5 DEF Levels, Type
<1> QED
  BY <1>3, <1>4, <1>6

(* A set of positions has a first one. *)
LEMMA MinFacts ==
  ASSUME NEW S \in SUBSET Nat, S # {}
  PROVE  Min(S) \in S /\ \A y \in S : Min(S) <= y
<1>1. PICK m \in S : \A y \in S : ~(<<y, m>> \in OpToRel(<, Nat))
  BY WFMin, NatLessThanWellFounded
<1>2. \A y \in S : m <= y
  <2> SUFFICES ASSUME NEW y \in S PROVE m <= y
    OBVIOUS
  <2>1. y \in Nat /\ m \in Nat
    OBVIOUS
  <2>2. ~(y < m)
    BY <1>1, <2>1 DEF OpToRel
  <2> QED
    BY <2>1, <2>2
<1> QED
  BY <1>2 DEF Min

(* Types of transactions. *)
LEMMA TypeFacts ==
  ASSUME NEW m \in Managers
  PROVE  /\ Type(m) = "steps" <=> m = "steps"
         /\ Type(m) = "queue" <=> m \in ToSet(Queues)
         /\ Type("steps") = "steps" /\ Type("state") = "state"
         /\ Type("resource") = "resource"
         /\ m \notin ToSet(Queues) => Type(m) = m
         /\ "steps" \in Managers /\ "state" \in Managers /\ "resource" \in Managers
         /\ ToSet(Queues) \subseteq Managers
         /\ \A i \in DOMAIN Queues : Queues[i] \in ToSet(Queues)
BY BoundsAssumption DEF Type, Managers, Drivers, ToSet
----------------------------------------------------------------------------
(* What a call is stays, whatever becomes of its transaction's changes. *)
LEMMA UseKeeps ==
  ASSUME Types, Chained, Kept, NEW f \in Calls, f.ctx \in 0..Len(txs), UseOK(f)
  PROVE  UseOK(f)'
<1>1. Chain(f.ctx)' = Chain(f.ctx)
  BY KeptLevels
<1>2. DOMAIN txs = 1..Len(txs) /\ DOMAIN txs' = 1..Len(txs') /\ DOMAIN txs \subseteq DOMAIN txs'
  BY DEF Types, Kept
<1>3. \A t \in DOMAIN txs : txs'[t].mgr = txs[t].mgr /\ txs'[t].chain = txs[t].chain
  BY <1>2 DEF Kept
<1>4. f.txs # << >> => /\ f.tx \in DOMAIN txs' /\ txs'[f.tx].mgr = f.mgr
                       /\ txs'[f.tx].chain = Chain(f.ctx)' \cup {f.tx}
  BY <1>1, <1>2, <1>3 DEF UseOK
<1>5. f.pc = "undo" => f.tx \in DOMAIN txs' /\ txs'[f.tx].mgr = "steps"
  BY <1>2, <1>3 DEF UseOK
<1> QED
  BY <1>4, <1>5 DEF UseOK

(* A call stays well formed while its transactions are kept. *)
LEMMA OpKeeps ==
  ASSUME Types, Chained, Kept, NEW f \in Calls, f.ctx \in 0..Len(txs), OpOK(f),
         made <= made', made' \in Int, f.prog \in Migrations => Len(txs') = Len(txs)
  PROVE  OpOK(f)'
<1>1. Chain(f.ctx)' = Chain(f.ctx)
  BY KeptLevels
<1>2. DOMAIN txs = 1..Len(txs) /\ DOMAIN txs' = 1..Len(txs') /\ DOMAIN txs \subseteq DOMAIN txs'
  BY DEF Types, Kept
<1>3. \A t \in DOMAIN txs : txs'[t].mgr = txs[t].mgr /\ txs'[t].chain = txs[t].chain
  BY <1>2 DEF Kept
<1>4. f.prog = "usecase" => UseOK(f)'
  BY UseKeeps DEF OpOK
<1>5. ASSUME FanShape(f) PROVE FanShape(f)'
  <2>1. \A i \in 1..Len(f.txs) : /\ f.txs[i] \in DOMAIN txs'
                                 /\ txs'[f.txs[i]].mgr = Queues[i]
                                 /\ txs'[f.txs[i]].chain = Chain(f.ctx)' \cup {f.txs[i]}
    BY <1>1, <1>2, <1>3, <1>5 DEF FanShape
  <2>2. f.arg \in 1..made'
    BY <1>5 DEF FanShape, Types
  <2> QED
    BY <1>5, <2>1, <2>2 DEF FanShape
<1>6. ASSUME MigShape(f), Len(txs') = Len(txs) PROVE MigShape(f)'
  <2>1. f.txs \in Seq(Nat) /\ Len(f.txs) \in Nat /\ Len(txs) \in Nat
    BY DEF Calls, Types
  <2>2. \A i \in 1..Len(f.txs) : txs'[i].mgr = txs[i].mgr /\ txs'[i].chain = txs[i].chain
    BY <1>2, <1>3, <1>6, <2>1 DEF MigShape
  <2> QED
    BY <1>6, <2>2 DEF MigShape
<1> QED
  BY <1>4, <1>5, <1>6 DEF OpOK

(* A step that leaves the stack alone moves its top to itself. *)
LEMMA UnchangedMoves ==
  ASSUME Types, Calling, stack' = stack
  PROVE  Moved(Top)
BY TopFacts DEF Moved, Types, Calling, Top, Last

(* A step of the call on top keeps the stack well formed. *)
LEMMA MoveStacked ==
  ASSUME Types, Chained, Stacked, Calling, Kept, NEW g, Moved(g), ret' = ret,
         Kin(g),
         OpOK(g)'
  PROVE  Stacked'
<1> DEFINE n == Len(stack)
<1>1. n \in Nat /\ n > 0 /\ DOMAIN stack = 1..n /\ DOMAIN stack' = 1..n /\ Len(stack') = n
  BY TopFacts DEF Moved
<1>2. Top = stack[n] /\ stack'[n] = g /\ \A i \in 1..(n - 1) : stack'[i] = stack[i]
  BY TopFacts DEF Moved
<1>3. Len(txs) \in Nat /\ Len(txs') \in Nat /\ Len(txs) <= Len(txs')
  BY DEF Types, Kept
<1>4. \A i \in 1..n : stack[i] \in Calls
  BY <1>1 DEF Types
<1> HIDE DEF n
<1>5. ASSUME NEW i \in 1..n, NEW f \in Calls, f = stack'[i]
      PROVE  CallOK(i, f)'
  <2>1. PICK e \in Calls : e = stack[i]
    BY <1>4
  <2>2. CallOK(i, e)
    BY <1>1, <2>1 DEF Stacked
  <2>3. e.ctx \in 0..Len(txs) /\ f.ctx = e.ctx /\ f.mgr = e.mgr /\ f.prog = e.prog
    BY <1>1, <1>2, <1>5, <2>1, <2>2 DEF CallOK, Kin
  <2>4. /\ Chain(f.ctx)' = Chain(e.ctx)
        /\ Levels(f.mgr, f.ctx)' = Levels(e.mgr, e.ctx)
    BY <2>3, KeptLevels
  <2>5. f.alone = e.alone
    BY <1>1, <1>2, <1>5, <2>1 DEF Kin
  <2>6. OpOK(f)'
    <3>1. CASE i = n
      BY <1>2, <1>5, <3>1
    <3>2. CASE i # n
      <4>1. f = e /\ i < Len(stack)
        BY <1>1, <1>2, <1>5, <2>1, <3>2
      <4>2. f.prog = "usecase" /\ UseOK(f)
        BY <2>2, <4>1 DEF CallOK, OpOK
      <4> QED
        BY <2>3, <4>2, UseKeeps DEF OpOK, Migrations
    <3> QED
      BY <3>1, <3>2
  <2>7. i < n => f = e
    BY <1>1, <1>2, <1>5, <2>1
  <2>8. \A j \in 1..(i - 1) : stack'[j] = stack[j]
    BY <1>1, <1>2
  <2>9. i # 1 => i - 1 \in 1..(i - 1)
    BY <1>1
  <2>10. f.ctx = IF i = 1 THEN 0 ELSE stack'[i - 1].tx
    BY <2>2, <2>3, <2>8, <2>9 DEF CallOK
  <2>11. f.ctx \in 0..Len(txs')
    BY <1>3, <2>3
  <2>12. \A j \in 1..(i - 1) : stack'[j].tx \in Chain(f.ctx)'
    BY <2>2, <2>4, <2>8 DEF CallOK
  <2>13. i < Len(stack') => f.prog = "usecase" /\ f.pc = "body"
    BY <1>1, <2>2, <2>7 DEF CallOK, n
  <2> QED
    BY <2>2, <2>3, <2>4, <2>5, <2>6, <2>10, <2>11, <2>12, <2>13 DEF CallOK
<1>6. RetApart'
  <2>1. \A i \in 1..n : Type(stack'[i].mgr) = Type(stack[i].mgr)
    <3>1. \A i \in 1..n : stack'[i].mgr = stack[i].mgr
      BY <1>1, <1>2 DEF Kin
    <3> QED
      BY <3>1 DEF Type
  <2> QED
    BY <1>1, <2>1 DEF Stacked, RetApart, Type
<1> QED
  BY <1>1, <1>5, <1>6 DEF Stacked
----------------------------------------------------------------------------
(* A transaction that begins comes after the others. *)
LEMMA BegunFacts ==
  ASSUME Types, NEW m \in Managers, NEW c \in 0..Len(txs)
  PROVE  /\ Begun(m, c) \in Seq(Txs) /\ Len(Begun(m, c)) = Len(txs) + 1 /\ Len(txs) \in Nat
         /\ \A t \in 1..Len(txs) : Begun(m, c)[t] = txs[t]
         /\ Begun(m, c)[Len(txs) + 1] = [mgr |-> m, chain |-> Chain(c) \cup {Len(txs) + 1},
                                         done |-> FALSE, buf |-> << >>, acts |-> {}]
<1> DEFINE t == Len(txs) + 1
           e == [mgr |-> m, chain |-> Chain(c) \cup {t}, done |-> FALSE, buf |-> << >>,
                 acts |-> {}]
<1>1. txs \in Seq(Txs) /\ Len(txs) \in Nat /\ DOMAIN txs = 1..Len(txs)
  BY DEF Types
<1>2. Chain(c) \subseteq Nat
  <2>1. c # 0 => txs[c] \in Txs
    BY <1>1
  <2>2. c # 0 => txs[c].chain \in SUBSET Nat
    BY <2>1 DEF Txs
  <2> QED
    BY <2>2 DEF Chain
<1>3. e \in Txs
  <2>1. << >> \in Seq(Changes) /\ {} \in SUBSET Data
    OBVIOUS
  <2>2. Chain(c) \cup {t} \in SUBSET Nat
    BY <1>1, <1>2
  <2> QED
    BY <2>1, <2>2 DEF Txs
<1>4. Begun(m, c) = Append(txs, e)
  BY DEF Begun
<1> HIDE DEF e
<1>5. /\ Begun(m, c) \in Seq(Txs) /\ Len(Begun(m, c)) = t /\ Begun(m, c)[t] = e
      /\ \A u \in 1..Len(txs) : Begun(m, c)[u] = txs[u]
  BY <1>1, <1>3, <1>4, AppendFacts
<1> QED
  BY <1>1, <1>5 DEF e

(* BeginTx adds one transaction to those there are. *)
LEMMA Begins ==
  ASSUME Types, NEW m \in Managers, NEW c \in 0..Len(txs), txs' = Begun(m, c)
  PROVE  /\ txs' \in Seq(Txs) /\ Len(txs') = Len(txs) + 1 /\ Kept /\ Len(txs) \in Nat
         /\ \A t \in 1..Len(txs) : txs'[t] = txs[t]
         /\ txs'[Len(txs) + 1] = [mgr |-> m, chain |-> Chain(c) \cup {Len(txs) + 1},
                                  done |-> FALSE, buf |-> << >>, acts |-> {}]
<1>1. /\ txs' \in Seq(Txs) /\ Len(txs') = Len(txs) + 1 /\ Len(txs) \in Nat
      /\ \A t \in 1..Len(txs) : txs'[t] = txs[t]
      /\ txs'[Len(txs) + 1] = [mgr |-> m, chain |-> Chain(c) \cup {Len(txs) + 1},
                               done |-> FALSE, buf |-> << >>, acts |-> {}]
  BY BegunFacts
<1> QED
  BY <1>1 DEF Kept

(* The context of a new transaction is made from one that exists. *)
LEMMA GrowsChained ==
  ASSUME Types, Chained, Kept, NEW c \in 0..Len(txs), Len(txs') = Len(txs) + 1,
         txs'[Len(txs) + 1].chain = Chain(c) \cup {Len(txs) + 1}
  PROVE  Chained'
<1> DEFINE n == Len(txs)
<1>1. n \in Nat /\ DOMAIN txs = 1..n /\ DOMAIN txs' = 1..(n + 1)
  BY DEF Types, Kept
<1>2. \A t \in 1..n : txs'[t].chain = txs[t].chain
  BY DEF Kept
<1>3. \A t \in 1..n : /\ {0, t} \subseteq txs[t].chain /\ txs[t].chain \subseteq 0..t
                      /\ \A u \in txs[t].chain \ {0} :
                            /\ txs[u].chain \subseteq txs[t].chain
                            /\ txs[t].chain \cap (0..u) \subseteq txs[u].chain
  BY <1>1 DEF Chained
<1>4. /\ Chain(c) \subseteq 0..n /\ 0 \in Chain(c)
      /\ \A u \in Chain(c) \ {0} : /\ txs[u].chain \subseteq Chain(c)
                                 /\ Chain(c) \cap (0..u) \subseteq txs[u].chain
  <2>1. CASE c = 0
    BY <1>1, <2>1 DEF Chain
  <2>2. CASE c # 0
    <3>1. c \in 1..n /\ Chain(c) = txs[c].chain
      BY <1>1, <2>2 DEF Chain
    <3> QED
      BY <1>1, <1>3, <3>1
  <2> QED
    BY <2>1, <2>2
<1> DEFINE k == txs'[n + 1].chain
<1>5. k = Chain(c) \cup {n + 1}
  OBVIOUS
<1> HIDE DEF n, k
<1>6. ASSUME NEW t \in 1..n
      PROVE  /\ {0, t} \subseteq txs'[t].chain /\ txs'[t].chain \subseteq 0..t
             /\ \A u \in txs'[t].chain \ {0} :
                   /\ txs'[u].chain \subseteq txs'[t].chain
                   /\ txs'[t].chain \cap (0..u) \subseteq txs'[u].chain
  <2>1. txs[t].chain \ {0} \subseteq 1..n
    BY <1>1, <1>3
  <2> QED
    BY <1>2, <1>3, <2>1
<1>7. /\ {0, n + 1} \subseteq k /\ k \subseteq 0..(n + 1)
      /\ \A u \in k \ {0} : /\ txs'[u].chain \subseteq k
                           /\ k \cap (0..u) \subseteq txs'[u].chain
  <2>1. {0, n + 1} \subseteq k /\ k \subseteq 0..(n + 1)
    BY <1>1, <1>4, <1>5
  <2>2. ASSUME NEW u \in k \ {0}
        PROVE  txs'[u].chain \subseteq k /\ k \cap (0..u) \subseteq txs'[u].chain
    <3>1. CASE u = n + 1
      BY <3>1 DEF k
    <3>2. CASE u # n + 1
      <4>1. u \in Chain(c) \ {0} /\ u \in 1..n
        BY <1>1, <1>4, <1>5, <3>2
      <4>2. txs'[u].chain = txs[u].chain /\ txs[u].chain \subseteq Chain(c)
        BY <1>2, <1>4, <4>1
      <4>3. k \cap (0..u) \subseteq Chain(c) \cap (0..u)
        BY <1>1, <1>5, <4>1
      <4> QED
        BY <1>4, <1>5, <4>1, <4>2, <4>3
    <3> QED
      BY <3>1, <3>2
  <2> QED
    BY <2>1, <2>2
<1>8. \A t \in 1..(n + 1) : t \in 1..n \/ t = n + 1
  BY <1>1
<1> QED
  BY <1>1, <1>6, <1>7, <1>8 DEF Chained, k

(* Contexts that keep their chains stay chained. *)
LEMMA SameChained ==
  ASSUME Types, Chained, Kept, Len(txs') = Len(txs)
  PROVE  Chained'
<1>1. Len(txs) \in Nat /\ DOMAIN txs = 1..Len(txs) /\ DOMAIN txs' = 1..Len(txs)
  BY DEF Types, Kept
<1>2. \A t \in 1..Len(txs) : txs'[t].chain = txs[t].chain
  BY DEF Kept
<1>3. \A t \in 1..Len(txs) : txs[t].chain \ {0} \subseteq 1..Len(txs)
  BY <1>1 DEF Chained
<1> QED
  BY <1>1, <1>2, <1>3 DEF Chained

(* Of a call that goes on: what keeps the sizes and the shape of the state. *)
LEMMA MoveShape ==
  ASSUME Shape, Calling, Kept, Chained', NEW g, Moved(g), ret' = ret,
         Kin(g),
         OpOK(g)',
         store' \in [Managers -> [Data -> Int]], made' \in 0..MaxData,
         faults' \in 0..MaxFaults, called' = called,
         cancelled' \subseteq cancelled \cup (0..Len(txs')),
         \A t \in DOMAIN txs' : txs'[t].done => t \in cancelled',
         Len(txs') <= MaxTx, g.pc = "begin" => Len(txs') + Left(g) <= MaxTx
  PROVE  Shape'
<1>1. Types'
  BY DEF Shape, Types, Moved, Kept
<1>2. Stacked'
  BY MoveStacked DEF Shape
<1>3. Sizes'
  <2>1. MaxTx \in Nat /\ Len(txs) \in Nat /\ Len(txs') \in Nat /\ Len(txs) <= Len(txs')
    BY BoundsAssumption DEF Shape, Types, Kept
  <2>2. cancelled \subseteq 0..Len(txs)
    BY DEF Shape, Sizes
  <2>3. cancelled' \subseteq 0..Len(txs')
    <3>1. \A c \in 0..Len(txs) : c \in 0..Len(txs')
      BY <2>1
    <3> QED
      BY <2>2, <3>1
  <2>4. cancelled' \subseteq 0..MaxTx
    BY <2>1, <2>3
  <2>5. Calling' /\ Top' = g
    BY DEF Moved
  <2>6. g.pc = "begin" => Len(txs') + Left(Top)' <= MaxTx
    BY <2>5 DEF Left
  <2> QED
    BY <2>3, <2>4, <2>5, <2>6 DEF Sizes
<1> QED
  BY <1>1, <1>2, <1>3 DEF Shape
----------------------------------------------------------------------------
(* The call on top, and the transactions it has begun. *)
LEMMA TopOK ==
  ASSUME Shape, Calling
  PROVE  /\ Top \in Calls /\ Top.prog # "none" /\ Top.ctx \in 0..Len(txs)
         /\ OpOK(Top) /\ (Top.prog = "usecase" => UseOK(Top))
         /\ Top.alone <=> Levels(Top.mgr, Top.ctx) = {}
BY TopFacts DEF Shape, Stacked, CallOK, OpOK

(* The outermost level of a transaction that a context has. *)
LEMMA RootFacts ==
  ASSUME Types, Chained, NEW m, NEW c \in 0..Len(txs), Levels(m, c) # {}
  PROVE  /\ lookupRootTx(m, c) \in Levels(m, c)
         /\ \A t \in Levels(m, c) : lookupRootTx(m, c) <= t
         /\ Levels(m, c) \subseteq DOMAIN txs
         /\ Levels(m, c) \subseteq Chain(c)
         /\ \A t \in Levels(m, c) : Type(txs[t].mgr) = Type(m)
<1>1. DOMAIN txs = 1..Len(txs) /\ Len(txs) \in Nat
  BY DEF Types
<1>2. c # 0 => c \in DOMAIN txs
  BY <1>1
<1>3. Chain(c) \subseteq 0..Len(txs)
  BY <1>1, <1>2 DEF Chain, Chained
<1>4. Levels(m, c) \subseteq DOMAIN txs /\ Levels(m, c) \in SUBSET Nat
  BY <1>1, <1>3 DEF Levels
<1>5. lookupRootTx(m, c) \in Levels(m, c) /\ \A t \in Levels(m, c) : lookupRootTx(m, c) <= t
  BY <1>4, MinFacts DEF lookupRootTx
<1> QED
  BY <1>4, <1>5 DEF Levels

(* A level is one of its own transaction. *)
LEMMA OwnLevel ==
  ASSUME Types, Chained, NEW t \in DOMAIN txs
  PROVE  /\ t \in 1..Len(txs) /\ txs[t] \in Txs /\ txs[t].mgr \in Managers
         /\ t \in Levels(txs[t].mgr, t) /\ Levels(txs[t].mgr, t) # {}
<1>1. t \in 1..Len(txs) /\ txs[t] \in Txs /\ t # 0
  BY DEF Types
<1>2. t \in Chain(t)
  BY <1>1 DEF Chain, Chained
<1>3. t \in Levels(txs[t].mgr, t)
  BY <1>1, <1>2 DEF Levels
<1> QED
  BY <1>1, <1>3 DEF Txs

(* The call goes on with other changes in its transactions. *)
LEMMA EditShape ==
  ASSUME Shape, Calling, Kept, Len(txs') = Len(txs), NEW g, Moved(g), ret' = ret,
         Kin(g),
         OpOK(g),
         store' \in [Managers -> [Data -> Int]], made <= made', made' \in 0..MaxData,
         faults' \in 0..MaxFaults, called' = called,
         cancelled' \subseteq cancelled \cup (0..Len(txs)), cancelled \subseteq cancelled',
         \A t \in DOMAIN txs : txs'[t].done => txs[t].done \/ t \in cancelled',
         g.pc = "begin" => Top.pc = "begin" /\ Left(g) = Left(Top)
  PROVE  Shape'
<1>1. Chained'
  BY SameChained DEF Shape
<1>2. g \in Calls
  BY DEF Moved
<1>3. Top.ctx \in 0..Len(txs)
  BY TopOK
<1>4. OpOK(g)'
  <2>1. made' \in Int
    BY BoundsAssumption
  <2> QED
    BY <1>2, <1>3, <2>1, OpKeeps DEF Shape, Kin
<1>5. DOMAIN txs' = DOMAIN txs
  BY DEF Shape, Types, Kept
<1>6. \A t \in DOMAIN txs' : txs'[t].done => t \in cancelled'
  BY <1>5 DEF Shape, Sizes
<1>7. Len(txs') <= MaxTx /\ (g.pc = "begin" => Len(txs') + Left(g) <= MaxTx)
  BY DEF Shape, Sizes
<1> QED
  BY <1>1, <1>4, <1>6, <1>7, MoveShape

(* A call that fails, or goes on with nothing else changed. *)
LEMMA PassShape ==
  ASSUME Shape, Calling, txs' = txs, store' = store, cancelled' = cancelled, made' = made,
         called' = called, ret' = ret, faults' \in 0..MaxFaults, NEW g, Moved(g),
         Kin(g), OpOK(g),
         g.pc = "begin" => Top.pc = "begin" /\ Left(g) = Left(Top)
  PROVE  Shape'
<1>1. Kept /\ made \in Nat
  BY BoundsAssumption DEF Kept, Shape, Types
<1> QED
  BY <1>1, EditShape DEF Shape, Types

(* The effect of Fails. *)
Failed == /\ UNCHANGED <<txs, store, cancelled, made, called, ret>>
          /\ \E g \in Calls : /\ Moved(g) /\ Kin(g) /\ g.pc = "finish" /\ g.err
                               /\ g.txs = Top.txs /\ g.tx = Top.tx /\ g.n = Top.n

(* A call that fails goes to its deferred calls of Finish. *)
LEMMA FailsShape ==
  ASSUME Shape, Calling, UNCHANGED <<txs, store, cancelled, made, called, ret>>,
         faults' \in 0..MaxFaults, Fails, Top.pc \in {"begin", "body"}
  PROVE  Shape' /\ Failed
<1>1. Top \in Calls
  BY TopOK
<1>2. PICK g \in Calls : g = [Top EXCEPT !.pc = "finish", !.err = TRUE]
  BY <1>1 DEF Calls, PCs
<1>3. Moved(g)
  BY <1>2, SetTopMoves DEF Fails, Shape
<1>4. /\ Kin(g) /\ g.err /\ g.n = Top.n
      /\ g.pc = "finish" /\ g.txs = Top.txs /\ g.tx = Top.tx
  BY <1>1, <1>2 DEF Calls, Kin
<1>5. OpOK(g)
  <2>1. OpOK(Top)
    BY TopOK
  <2>2. g.prog = "usecase" => UseOK(g)
    BY <1>4, <2>1 DEF OpOK, UseOK, Kin
  <2>3. g.prog = "fanout" => FanShape(g)
    BY <1>4, <2>1 DEF OpOK, FanShape, Kin
  <2>4. g.prog \in Migrations => MigShape(g)
    BY <1>4, <2>1 DEF OpOK, MigShape, Kin
  <2> QED
    BY <2>2, <2>3, <2>4 DEF OpOK
<1>6. Shape'
  BY <1>3, <1>4, <1>5, PassShape
<1> QED
  BY <1>3, <1>4, <1>6 DEF Failed

(* Faults stay within their bound. *)
LEMMA FaultType == ASSUME Types, Fault \/ UNCHANGED faults PROVE faults' \in 0..MaxFaults
BY BoundsAssumption DEF Types, Fault
----------------------------------------------------------------------------
(* A use case begins its transaction: it keeps the shape. *)
LEMMA UseBeginShape ==
  ASSUME Shape, UseBegin
  PROVE  /\ Shape' /\ Kept
         /\ \/ Failed
            \/ /\ txs' = Begun(Top.mgr, Top.ctx)
               /\ \E g \in Calls : /\ Moved(g) /\ Kin(g) /\ g.pc = "body" /\ ~g.err
                                    /\ g.tx = Len(txs) + 1 /\ g.txs = <<g.tx>>
<1>1. /\ Calling /\ Top.prog = "usecase" /\ Top.pc = "begin"
      /\ UNCHANGED <<store, cancelled, made, called, ret>>
  BY DEF UseBegin
<1>2. /\ Top \in Calls /\ Top.ctx \in 0..Len(txs) /\ UseOK(Top)
  BY <1>1, TopOK
<1>3. CASE /\ BeginTx(Top.mgr, Top.ctx, [Top EXCEPT !.pc = "body", !.tx = Len(txs) + 1])
           /\ UNCHANGED faults
  <2> DEFINE t == Len(txs) + 1
  <2>1. Top.txs = << >> /\ Top.mgr \in Managers
    BY <1>1, <1>2 DEF UseOK, Managers
  <2>2. txs' = Begun(Top.mgr, Top.ctx)
    BY <1>3 DEF BeginTx
  <2>3. /\ txs' \in Seq(Txs) /\ Len(txs') = t /\ Kept /\ Len(txs) \in Nat
        /\ \A u \in 1..Len(txs) : txs'[u] = txs[u]
        /\ txs'[t] = [mgr |-> Top.mgr, chain |-> Chain(Top.ctx) \cup {t},
                      done |-> FALSE, buf |-> << >>, acts |-> {}]
    BY <1>2, <2>1, <2>2, Begins DEF Shape
  <2>4. t \in Nat /\ <<t>> \in Seq(Nat) /\ Append(<< >>, t) = <<t>>
    BY <2>3
  <2>5. PICK g \in Calls : g = [Top EXCEPT !.pc = "body", !.tx = t, !.txs = <<t>>]
    BY <1>2, <2>4 DEF Calls, PCs
  <2>6. [[Top EXCEPT !.pc = "body", !.tx = t] EXCEPT !.txs = Append(@, t)] = g
    <3>1. [Top EXCEPT !.pc = "body", !.tx = t].txs = << >>
      BY <1>2, <2>1 DEF Calls
    <3> QED
      BY <1>2, <2>4, <2>5, <3>1 DEF Calls
  <2>7. Moved(g)
    BY <1>1, <1>3, <2>6, SetTopMoves DEF Shape, BeginTx
  <2>8. /\ Kin(g) /\ ~g.err /\ g.ctx = Top.ctx /\ g.mgr = Top.mgr
        /\ g.prog = "usecase" /\ g.pc = "body" /\ g.tx = t /\ g.txs = <<t>>
    BY <1>1, <1>2, <2>5 DEF Calls, Kin, UseOK
  <2>9. Chained'
    BY <1>2, <2>3, GrowsChained DEF Shape
  <2>11. UseOK(g)'
    <3>1. t \in DOMAIN txs'
      BY <2>3
    <3>2. Chain(g.ctx)' = Chain(g.ctx)
      BY <1>2, <2>3, <2>8, KeptLevels DEF Shape
    <3>3. txs'[g.tx].mgr = g.mgr /\ txs'[g.tx].chain = Chain(g.ctx) \cup {g.tx}
      BY <2>3, <2>8
    <3> QED
      BY <1>2, <2>8, <3>1, <3>2, <3>3 DEF UseOK
  <2>12. \A u \in DOMAIN txs' : txs'[u].done => u \in cancelled'
    <3>1. \A u \in DOMAIN txs' : u = t \/ u \in 1..Len(txs)
      BY <2>3
    <3>2. DOMAIN txs = 1..Len(txs)
      BY DEF Shape, Types
    <3>3. \A u \in 1..Len(txs) : txs[u].done => u \in cancelled
      BY <3>2 DEF Shape, Sizes
    <3> QED
      BY <1>1, <2>3, <3>1, <3>3
  <2>13. Len(txs') <= MaxTx
    BY <1>1, <2>3 DEF Shape, Sizes, Left
  <2>14. Shape'
    BY UseOp, <1>1, <1>3, <2>3, <2>7, <2>8, <2>9, <2>11, <2>12, <2>13, MoveShape DEF Shape, Types
  <2> QED
    BY <2>2, <2>3, <2>7, <2>8, <2>14
<1>4. CASE BeginFails(Top.mgr, Top.ctx)
  <2>1. Fails /\ txs' = txs /\ (Fault \/ UNCHANGED faults)
    BY <1>4 DEF BeginFails
  <2>2. faults' \in 0..MaxFaults
    BY <2>1, FaultType DEF Shape
  <2> QED
    BY <1>1, <2>1, <2>2, FailsShape DEF Shape, Types, Kept
<1> QED
  BY <1>3, <1>4 DEF UseBegin
----------------------------------------------------------------------------
(* A use case in its body has a transaction, whose outermost level is of   *)
(* the same type.                                                          *)
LEMMA BodyFacts ==
  ASSUME Shape, Calling, Top.prog = "usecase", Top.pc = "body"
  PROVE  /\ Top.mgr \in Managers /\ Top.txs = <<Top.tx>> /\ Top.txs # << >>
         /\ Top.tx \in DOMAIN txs /\ txs[Top.tx].mgr = Top.mgr
         /\ Levels(Top.mgr, Top.tx) # {}
         /\ \E r \in DOMAIN txs : /\ r = lookupRootTx(Top.mgr, Top.tx)
                                  /\ r \in Levels(Top.mgr, Top.tx)
                                  /\ Top.mgr = "steps" => txs[r].mgr = "steps"
                                  /\ Top.mgr # "steps" => txs[r].mgr \in ToSet(Queues)
<1>1. UseOK(Top) /\ Types /\ Chained
  BY TopOK DEF Shape
<1>2. /\ Top.mgr \in {"steps"} \cup ToSet(Queues) /\ Top.txs = <<Top.tx>>
      /\ Top.txs # << >> /\ Top.tx \in DOMAIN txs /\ txs[Top.tx].mgr = Top.mgr
  BY <1>1 DEF UseOK
<1>3. /\ Top.tx \in 1..Len(txs) /\ Top.mgr \in Managers /\ Levels(Top.mgr, Top.tx) # {}
  BY <1>1, <1>2, OwnLevel
<1>4. PICK r \in DOMAIN txs : /\ r = lookupRootTx(Top.mgr, Top.tx)
                              /\ r \in Levels(Top.mgr, Top.tx)
                              /\ Type(txs[r].mgr) = Type(Top.mgr)
  <2>1. Top.tx \in 0..Len(txs)
    BY <1>3
  <2> QED
    BY <1>1, <1>3, <2>1, RootFacts
<1>5. txs[r].mgr \in Managers
  BY <1>1, OwnLevel
<1>6. /\ Top.mgr = "steps" => txs[r].mgr = "steps"
      /\ Top.mgr # "steps" => txs[r].mgr \in ToSet(Queues)
  BY <1>2, <1>3, <1>4, <1>5, TypeFacts DEF Type
<1> QED
  BY <1>2, <1>3, <1>4, <1>6

(* A transaction is edited: its changes, or whether it is done. *)
LEMMA EditFacts ==
  ASSUME Types, NEW r \in DOMAIN txs, NEW e \in Txs,
         e.mgr = txs[r].mgr, e.chain = txs[r].chain,
         txs' = [txs EXCEPT ![r] = e]
  PROVE  /\ Kept /\ Len(txs') = Len(txs) /\ DOMAIN txs' = DOMAIN txs /\ txs'[r] = e
         /\ \A t \in DOMAIN txs : t # r => txs'[t] = txs[t]
<1>1. txs \in Seq(Txs) /\ DOMAIN txs = 1..Len(txs) /\ Len(txs) \in Nat
  BY DEF Types
<1>2. /\ txs' \in Seq(Txs) /\ Len(txs') = Len(txs) /\ DOMAIN txs' = DOMAIN txs /\ txs'[r] = e
      /\ \A t \in DOMAIN txs : t # r => txs'[t] = txs[t]
  BY <1>1
<1> QED
  BY <1>1, <1>2 DEF Kept

(* A call on top that keeps its transactions. *)
Onwards(pcs) == \E g \in Calls : /\ Moved(g) /\ Kin(g) /\ g.pc \in pcs
                                 /\ g.txs = Top.txs /\ g.tx = Top.tx
                                 /\ g.pc = Top.pc => g = Top
                                 /\ g.pc = "finish" => g.err

(* A use case registers a change: it keeps the shape. *)
LEMMA ActShape ==
  ASSUME Shape, Act
  PROVE  /\ Shape' /\ Kept /\ Len(txs') = Len(txs) /\ Onwards({"body", "finish"})
         /\ made + 1 \in Data /\ store["steps"] \in [Data -> Int]
         /\ store' = [store EXCEPT !["steps"] = [@ EXCEPT ![made + 1] = 1]]
         /\ \/ txs' = txs
            \/ \E r \in DOMAIN txs :
                  /\ txs[r].mgr = "steps" /\ ~txs[r].done
                  /\ txs' = [txs EXCEPT ![r] =
                        [txs[r] EXCEPT !.buf = Append(@, [d |-> made + 1, n |-> 1]),
                                       !.acts = @ \cup {made + 1}]]
<1> DEFINE d == made + 1
<1>1. /\ Calling /\ Top.prog = "usecase" /\ Top.pc = "body" /\ Top.mgr = "steps"
      /\ made < MaxData /\ made' = d /\ UNCHANGED <<cancelled, faults, called, ret>>
      /\ store' = [store EXCEPT !["steps"][d] = 1]
  BY DEF Act
<1>2. PICK r \in DOMAIN txs : r = lookupRootTx("steps", Top.tx) /\ txs[r].mgr = "steps"
  BY <1>1, BodyFacts
<1>3. /\ made \in Nat /\ d \in Data /\ made' \in 0..MaxData /\ made <= made'
      /\ faults' \in 0..MaxFaults
  BY <1>1, BoundsAssumption DEF Shape, Types, Data
<1>4. /\ store' \in [Managers -> [Data -> Int]] /\ store["steps"] \in [Data -> Int]
      /\ store' = [store EXCEPT !["steps"] = [@ EXCEPT ![d] = 1]]
  <2>1. store \in [Managers -> [Data -> Int]] /\ "steps" \in Managers
    BY DEF Shape, Types, Managers
  <2> QED
    BY <1>1, <1>3, <2>1
<1>5. Top \in Calls /\ UseOK(Top)
  BY <1>1, TopOK
<1>6. CASE stack' = stack
  <2>1. Moved(Top) /\ Kin(Top)
    BY <1>1, <1>6, UnchangedMoves DEF Shape, Kin
  <2> QED
    <3>1. PICK g \in Calls : g = Top
      BY <1>5
    <3>2. Moved(g) /\ Kin(g) /\ OpOK(g)
      BY <1>1, <2>1, <3>1, TopOK DEF Kin
    <3>3. Onwards({"body", "finish"})
      BY <1>1, <3>1, <3>2 DEF Onwards
    <3>4. CASE txs' = txs
      <4>1. Kept
        BY <3>4 DEF Kept, Shape, Types
      <4>2. Shape'
        BY <1>1, <1>3, <1>4, <3>1, <3>2, <3>4, <4>1, EditShape
      <4> QED
        BY <1>3, <1>4, <3>3, <3>4, <4>1, <4>2
    <3>5. CASE /\ ~txs[r].done
               /\ txs' = [txs EXCEPT ![r].buf = Append(@, [d |-> d, n |-> 1]),
                                     ![r].acts = @ \cup {d}]
      <4> DEFINE e == [txs[r] EXCEPT !.buf = Append(@, [d |-> d, n |-> 1]),
                                     !.acts = @ \cup {d}]
      <4>1. txs[r] \in Txs /\ txs \in Seq(Txs)
        BY DEF Shape, Types
      <4>2. [d |-> d, n |-> 1] \in Changes
        BY <1>3 DEF Changes
      <4>3. Append(txs[r].buf, [d |-> d, n |-> 1]) \in Seq(Changes)
        BY <4>1, <4>2 DEF Txs
      <4>4. e \in Txs /\ e.mgr = txs[r].mgr /\ e.chain = txs[r].chain /\ e.done = txs[r].done
        BY <1>3, <4>1, <4>3 DEF Txs
      <4>5. txs' = [txs EXCEPT ![r] = e]
        BY <3>5, <4>1 DEF Txs
      <4> HIDE DEF e
      <4>6. /\ Kept /\ Len(txs') = Len(txs) /\ DOMAIN txs' = DOMAIN txs /\ txs'[r] = e
            /\ \A t \in DOMAIN txs : t # r => txs'[t] = txs[t]
        BY <4>4, <4>5, EditFacts DEF Shape
      <4>7. \A t \in DOMAIN txs : txs'[t].done => txs[t].done
        BY <4>4, <4>6
      <4>8. Shape'
        BY <1>1, <1>3, <1>4, <3>1, <3>2, <4>6, <4>7, EditShape
      <4> QED
        BY <1>2, <1>3, <1>4, <3>3, <3>5, <4>5, <4>6, <4>8 DEF e
    <3> QED
      BY <1>1, <1>2, <1>6, <3>4, <3>5 DEF Act
<1>7. CASE Fails /\ txs' = txs
  <2>1. PICK g \in Calls : g = [Top EXCEPT !.pc = "finish", !.err = TRUE]
    BY <1>5 DEF Calls, PCs
  <2>2. Moved(g)
    BY <1>1, <1>7, <2>1, SetTopMoves DEF Fails, Shape
  <2>3. /\ Kin(g) /\ g.err /\ g.pc = "finish" /\ g.txs = Top.txs /\ g.tx = Top.tx
    BY <1>5, <2>1 DEF Calls, Kin
  <2>4. OpOK(g)
    <3>1. UseOK(g)
      BY <1>5, <2>3 DEF UseOK, Kin
    <3> QED
      BY <1>1, <2>3, <3>1, UseOp DEF Kin
  <2>5. Kept
    BY <1>7 DEF Kept, Shape, Types
  <2>6. Shape'
    BY <1>1, <1>3, <1>4, <1>7, <2>2, <2>3, <2>4, <2>5, EditShape
  <2> QED
    BY <1>1, <1>3, <1>4, <1>7, <2>2, <2>3, <2>5, <2>6 DEF Onwards
<1> QED
  BY <1>1, <1>2, <1>6, <1>7 DEF Act
----------------------------------------------------------------------------
(* A change of a transaction of a queue. *)
Written(s, r, d) == [s EXCEPT ![r].buf = Append(@, [d |-> d, n |-> 1])]

(* A write keeps the types of the transactions. *)
LEMMA SeqWrite ==
  ASSUME NEW s \in Seq(Txs), NEW r \in DOMAIN s, NEW d \in Data, NEW z, z = Written(s, r, d)
  PROVE  /\ z \in Seq(Txs) /\ Len(z) = Len(s) /\ DOMAIN z = DOMAIN s /\ z[r] \in Txs
         /\ z[r].buf = Append(s[r].buf, [d |-> d, n |-> 1])
         /\ \A t \in DOMAIN s : t # r => z[t] = s[t]
         /\ \A t \in DOMAIN s : /\ z[t].done = s[t].done /\ z[t].acts = s[t].acts
                               /\ z[t].mgr = s[t].mgr /\ z[t].chain = s[t].chain
<1> DEFINE e == [s[r] EXCEPT !.buf = Append(@, [d |-> d, n |-> 1])]
<1>1. s[r] \in Txs
  OBVIOUS
<1>2. [d |-> d, n |-> 1] \in Changes
  BY DEF Changes
<1>3. Append(s[r].buf, [d |-> d, n |-> 1]) \in Seq(Changes)
  BY <1>1, <1>2 DEF Txs
<1>4. /\ e \in Txs /\ e.mgr = s[r].mgr /\ e.chain = s[r].chain
      /\ e.done = s[r].done /\ e.acts = s[r].acts
      /\ e.buf = Append(s[r].buf, [d |-> d, n |-> 1])
  BY <1>1, <1>3 DEF Txs
<1>5. z = [s EXCEPT ![r] = e]
  BY <1>1 DEF Txs, Written
<1> HIDE DEF e
<1>6. /\ z \in Seq(Txs) /\ Len(z) = Len(s) /\ DOMAIN z = DOMAIN s /\ z[r] = e
      /\ \A t \in DOMAIN s : t # r => z[t] = s[t]
  <2>1. DOMAIN s = 1..Len(s) /\ Len(s) \in Nat
    OBVIOUS
  <2>2. e \in Txs
    BY <1>4
  <2>3. s \in [1..Len(s) -> Txs]
    OBVIOUS
  <2>4. z \in [1..Len(s) -> Txs] /\ z[r] = e /\ \A t \in DOMAIN s : t # r => z[t] = s[t]
    BY <1>5, <2>1, <2>2, <2>3
  <2>5. z \in Seq(Txs) /\ Len(z) = Len(s)
    BY <2>1, <2>4
  <2> QED
    BY <2>1, <2>4, <2>5
<1>7. \A t \in DOMAIN s : /\ z[t].done = s[t].done /\ z[t].acts = s[t].acts
                         /\ z[t].mgr = s[t].mgr /\ z[t].chain = s[t].chain
  BY <1>4, <1>6
<1> QED
  BY <1>4, <1>6, <1>7 DEF e

(* Write changes the buffer of one transaction. *)
LEMMA WriteFacts ==
  ASSUME Types, NEW r \in DOMAIN txs, NEW d \in Data,
         txs' = [txs EXCEPT ![r].buf = Append(@, [d |-> d, n |-> 1])]
  PROVE  /\ Kept /\ Len(txs') = Len(txs) /\ DOMAIN txs' = DOMAIN txs
         /\ txs'[r].buf = Append(txs[r].buf, [d |-> d, n |-> 1])
         /\ \A t \in DOMAIN txs : t # r => txs'[t] = txs[t]
         /\ \A t \in DOMAIN txs : txs'[t].done = txs[t].done /\ txs'[t].acts = txs[t].acts
<1>1. txs \in Seq(Txs) /\ Len(txs) \in Nat /\ DOMAIN txs = 1..Len(txs)
  BY DEF Types
<1>2. PICK z : z = txs'
  OBVIOUS
<1>5. z = Written(txs, r, d)
  BY <1>2 DEF Written
<1>3. /\ z \in Seq(Txs) /\ Len(z) = Len(txs) /\ DOMAIN z = DOMAIN txs
      /\ z[r].buf = Append(txs[r].buf, [d |-> d, n |-> 1])
      /\ \A t \in DOMAIN txs : t # r => z[t] = txs[t]
      /\ \A t \in DOMAIN txs : /\ z[t].done = txs[t].done /\ z[t].acts = txs[t].acts
                              /\ z[t].mgr = txs[t].mgr /\ z[t].chain = txs[t].chain
  BY <1>1, <1>5, SeqWrite
<1>4. Kept
  BY <1>1, <1>2, <1>3 DEF Kept
<1> QED
  BY <1>2, <1>3, <1>4

(* A use case publishes: it keeps the shape. *)
LEMMA QueuePublishShape ==
  ASSUME Shape, QueuePublish
  PROVE  /\ Shape' /\ Kept /\ Len(txs') = Len(txs) /\ Onwards({"body", "finish"})
         /\ UNCHANGED <<store, cancelled, faults, called, ret>>
         /\ \/ txs' = txs /\ made' = made
            \/ /\ made' = made + 1 /\ made + 1 \in Data
               /\ \E r \in DOMAIN txs :
                     /\ txs[r].mgr \in ToSet(Queues)
                     /\ txs' = [txs EXCEPT ![r].buf = Append(@, [d |-> made + 1, n |-> 1])]
<1>1. /\ Calling /\ Top.prog = "usecase" /\ Top.pc = "body" /\ Top.mgr # "steps"
      /\ made < MaxData /\ UNCHANGED <<store, cancelled, faults, called, ret>>
  BY DEF QueuePublish
<1>2. PICK r \in DOMAIN txs : /\ r = lookupRootTx(Top.mgr, Top.tx)
                              /\ txs[r].mgr \in ToSet(Queues)
  BY <1>1, BodyFacts
<1>3. made \in Nat /\ made + 1 \in Data /\ made + 1 \in 0..MaxData
  BY <1>1, BoundsAssumption DEF Shape, Types, Data
<1>4. Top \in Calls /\ UseOK(Top)
  BY <1>1, TopOK
<1>5. CASE Err(Top.tx)
  <2>1. Fails /\ txs' = txs /\ made' = made
    BY <1>5 DEF QueuePublish
  <2>2. Shape' /\ Failed
    BY <1>1, <2>1, FailsShape DEF Shape, Types
  <2>3. Kept
    BY <2>1 DEF Kept, Shape, Types
  <2>4. Onwards({"body", "finish"})
    BY <1>1, <2>2 DEF Failed, Onwards
  <2> QED
    BY <1>1, <2>1, <2>2, <2>3, <2>4
<1>6. CASE ~Err(Top.tx)
  <2>1. /\ made' = made + 1 /\ stack' = stack
        /\ txs' = [txs EXCEPT ![r].buf = Append(@, [d |-> made + 1, n |-> 1])]
    BY <1>2, <1>6 DEF QueuePublish, Write, lookupRootTx
  <2>2. PICK g \in Calls : g = Top
    BY <1>4
  <2>3. Moved(g) /\ Kin(g) /\ OpOK(g)
    BY <1>1, <2>1, <2>2, TopOK, UnchangedMoves DEF Shape, Kin
  <2>4. Onwards({"body", "finish"})
    BY <1>1, <2>2, <2>3 DEF Onwards
  <2>5. /\ Kept /\ Len(txs') = Len(txs) /\ \A t \in DOMAIN txs : txs'[t].done = txs[t].done
    BY <1>3, <2>1, WriteFacts DEF Shape
  <2>6. Shape'
    <3>1. /\ made <= made' /\ made' \in 0..MaxData /\ faults' \in 0..MaxFaults
          /\ store' \in [Managers -> [Data -> Int]]
      BY <1>1, <1>3, <2>1 DEF Shape, Types
    <3> QED
      BY <1>1, <2>2, <2>3, <2>5, <3>1, EditShape
  <2> QED
    BY <1>1, <1>2, <1>3, <2>1, <2>4, <2>5, <2>6
<1> QED
  BY <1>5, <1>6

(* The body of a use case returns: it keeps the shape. *)
LEMMA UseReturnShape ==
  ASSUME Shape, UseReturn
  PROVE  /\ Shape' /\ UNCHANGED <<store, txs, cancelled, made, faults, called, ret>>
         /\ \E g \in Calls : /\ Moved(g) /\ Kin(g) /\ g.pc = "finish"
                             /\ g.txs = Top.txs /\ g.tx = Top.tx
<1>1. /\ Calling /\ Top.prog = "usecase" /\ Top.pc = "body"
      /\ UNCHANGED <<store, txs, cancelled, made, faults, called, ret>>
  BY DEF UseReturn
<1>2. PICK err \in BOOLEAN : SetTop([Top EXCEPT !.pc = "finish", !.err = err])
  BY DEF UseReturn
<1>3. Top \in Calls /\ UseOK(Top)
  BY <1>1, TopOK
<1>4. PICK g \in Calls : g = [Top EXCEPT !.pc = "finish", !.err = err]
  BY <1>3 DEF Calls, PCs
<1>5. Moved(g)
  BY <1>1, <1>2, <1>4, SetTopMoves DEF Shape
<1>6. Kin(g) /\ g.pc = "finish" /\ g.txs = Top.txs /\ g.tx = Top.tx
  BY <1>3, <1>4 DEF Calls, Kin
<1>7. OpOK(g)
  <2>1. UseOK(g)
    BY <1>1, <1>3, <1>6 DEF UseOK, Kin
  <2> QED
    BY <1>1, <1>6, <2>1, UseOp DEF Kin
<1>8. Shape'
  BY <1>1, <1>5, <1>6, <1>7, PassShape DEF Shape, Types
<1> QED
  BY <1>1, <1>5, <1>6, <1>8
----------------------------------------------------------------------------
(* The call on top has begun a transaction. *)
Grown(m, c) == /\ Kept /\ Len(txs') = Len(txs) + 1
               /\ txs'[Len(txs) + 1].mgr = m /\ ~txs'[Len(txs) + 1].done
               /\ txs'[Len(txs) + 1].chain = Chain(c) \cup {Len(txs) + 1}
               /\ \A t \in 1..Len(txs) : txs'[t].done = txs[t].done

(* A step that begins a transaction and goes on. *)
LEMMA GrowShape ==
  ASSUME Shape, Calling, NEW m, Grown(m, Top.ctx), NEW g, Moved(g), Kin(g), OpOK(g)',
         UNCHANGED <<store, cancelled, made, called, ret>>, faults' \in 0..MaxFaults,
         Len(txs) + 1 <= MaxTx, g.pc = "begin" => Len(txs) + 1 + Left(g) <= MaxTx
  PROVE  Shape'
<1>1. Top.ctx \in 0..Len(txs)
  BY TopOK
<1>2. Chained'
  BY <1>1, GrowsChained DEF Shape, Grown
<1>3. Len(txs) \in Nat /\ DOMAIN txs = 1..Len(txs) /\ DOMAIN txs' = 1..(Len(txs) + 1)
  BY DEF Shape, Types, Grown, Kept
<1>4. \A u \in DOMAIN txs' : txs'[u].done => u \in cancelled'
  <2>1. \A u \in DOMAIN txs' : u = Len(txs) + 1 \/ u \in 1..Len(txs)
    BY <1>3
  <2> QED
    BY <1>3, <2>1 DEF Grown, Shape, Sizes
<1>5. Kept /\ Len(txs') = Len(txs) + 1
  BY DEF Grown
<1> QED
  BY <1>2, <1>4, <1>5, MoveShape DEF Shape, Types

(* A round of eachQueue begins the transaction of the next queue. *)
LEMMA FanGrows ==
  ASSUME Shape, Calling, Top.prog = "fanout", Top.pc = "begin",
         NEW t, t = Len(txs) + 1, Grown(Queues[Top.n], Top.ctx),
         NEW g \in Calls, Kin(g), g.txs = Append(Top.txs, t), made' = made,
         \/ g.pc = "finish"
         \/ g.pc = "begin" /\ g.n = Top.n + 1 /\ g.n <= Len(Queues) /\ ~g.err
  PROVE  OpOK(g)'
<1>1. /\ Top \in Calls /\ Top.ctx \in 0..Len(txs) /\ FanShape(Top) /\ Len(txs) \in Nat
      /\ Top.txs \in Seq(Nat) /\ Len(Top.txs) \in Nat
  <2>1. Top \in Calls /\ Top.ctx \in 0..Len(txs) /\ FanShape(Top)
    BY TopOK DEF OpOK
  <2>2. Len(txs) \in Nat
    BY DEF Shape, Types
  <2>3. Top.txs \in Seq(Nat)
    BY <2>1 DEF Calls
  <2> QED
    BY <2>1, <2>2, <2>3
<1>2. PICK k \in Nat : k = Len(Top.txs)
  BY <1>1
<1>3. Top.n = k + 1 /\ k + 1 <= Len(Queues) /\ Len(Queues) \in Nat
  BY <1>1, <1>2, BoundsAssumption DEF FanShape
<1>4. /\ Len(g.txs) = k + 1 /\ g.txs[k + 1] = t
      /\ \A i \in 1..k : g.txs[i] = Top.txs[i]
  BY <1>1, <1>2, AppendFacts
<1>5. Kept /\ Len(txs') = t /\ DOMAIN txs' = 1..t /\ DOMAIN txs = 1..Len(txs)
  BY <1>1 DEF Grown, Kept, Shape, Types
<1>6. Chain(g.ctx)' = Chain(g.ctx) /\ Chain(g.ctx) = Chain(Top.ctx)
  <2>1. g.ctx \in 0..Len(txs)
    BY <1>1 DEF Kin
  <2> QED
    BY <1>5, <2>1, KeptLevels DEF Shape, Kin
<1>7. \A i \in 1..k : /\ Top.txs[i] \in 1..Len(txs) /\ txs[Top.txs[i]].mgr = Queues[i]
                      /\ txs[Top.txs[i]].chain = Chain(Top.ctx) \cup {Top.txs[i]}
  BY <1>1, <1>2, <1>5 DEF FanShape
<1>8. \A i \in 1..k : /\ g.txs[i] \in DOMAIN txs' /\ txs'[g.txs[i]].mgr = Queues[i]
                      /\ txs'[g.txs[i]].chain = Chain(g.ctx)' \cup {g.txs[i]}
  <2> TAKE i \in 1..k
  <2>1. g.txs[i] = Top.txs[i] /\ Top.txs[i] \in 1..Len(txs) /\ Top.txs[i] \in 1..t
    BY <1>1, <1>4, <1>7
  <2>2. /\ txs'[Top.txs[i]].mgr = txs[Top.txs[i]].mgr
        /\ txs'[Top.txs[i]].chain = txs[Top.txs[i]].chain
    BY <1>5, <2>1 DEF Kept
  <2> QED
    BY <1>5, <1>6, <1>7, <2>1, <2>2
<1>9. /\ t \in DOMAIN txs' /\ txs'[t].mgr = Queues[k + 1]
      /\ txs'[t].chain = Chain(g.ctx)' \cup {t}
  BY <1>1, <1>3, <1>5, <1>6 DEF Grown
<1>10. \A i \in 1..(k + 1) : i \in 1..k \/ i = k + 1
  BY <1>2
<1>11. \A i \in 1..Len(g.txs) : /\ g.txs[i] \in DOMAIN txs' /\ txs'[g.txs[i]].mgr = Queues[i]
                                /\ txs'[g.txs[i]].chain = Chain(g.ctx)' \cup {g.txs[i]}
  BY <1>4, <1>8, <1>9, <1>10
<1>12. \A i, j \in 1..Len(g.txs) : i < j => g.txs[i] < g.txs[j]
  <2> SUFFICES ASSUME NEW i \in 1..(k + 1), NEW j \in 1..(k + 1), i < j
               PROVE  g.txs[i] < g.txs[j]
    BY <1>4
  <2>1. i \in 1..k
    BY <1>2
  <2>2. CASE j = k + 1
    BY <1>1, <1>4, <1>7, <2>1, <2>2
  <2>3. CASE j # k + 1
    <3>1. j \in 1..k
      BY <1>10, <2>3
    <3> QED
      BY <1>1, <1>2, <1>4, <2>1, <3>1 DEF FanShape
  <2> QED
    BY <2>2, <2>3
<1>13. /\ g.mgr = Queues[1] /\ g.arg \in 1..made' /\ g.pc \in {"begin", "finish"}
       /\ g.prog = "fanout"
  BY <1>1 DEF FanShape, Kin
<1>14. g.pc = "begin" => g.n = Len(g.txs) + 1 /\ g.n <= Len(Queues) /\ ~g.err
  BY <1>3, <1>4
<1>15. FanShape(g)'
  BY <1>3, <1>4, <1>11, <1>12, <1>13, <1>14 DEF FanShape
<1> QED
  BY <1>13, <1>15 DEF OpOK, Migrations
----------------------------------------------------------------------------
(* Transactions of steps are as they were, and the others have no steps. *)
QuietTxs == /\ \A u \in DOMAIN txs : /\ txs'[u].acts = txs[u].acts
                                     /\ txs[u].mgr = "steps" => /\ txs'[u].buf = txs[u].buf
                                                                /\ txs'[u].done = txs[u].done
            /\ \A u \in DOMAIN txs' : u \notin DOMAIN txs =>
                    /\ txs'[u].acts = {}
                    /\ txs'[u].mgr = "steps" => txs'[u].buf = << >>

(* BeginTx adds one transaction. *)
LEMMA BegunGrown ==
  ASSUME Types, Chained, NEW m \in Managers, NEW c \in 0..Len(txs), txs' = Begun(m, c)
  PROVE  Grown(m, c) /\ QuietTxs
<1>1. /\ txs' \in Seq(Txs) /\ Len(txs') = Len(txs) + 1 /\ Kept /\ Len(txs) \in Nat
      /\ \A t \in 1..Len(txs) : txs'[t] = txs[t]
      /\ txs'[Len(txs) + 1] = [mgr |-> m, chain |-> Chain(c) \cup {Len(txs) + 1},
                               done |-> FALSE, buf |-> << >>, acts |-> {}]
  BY Begins
<1>2. DOMAIN txs = 1..Len(txs) /\ DOMAIN txs' = 1..(Len(txs) + 1)
  BY <1>1 DEF Types
<1>3. Grown(m, c)
  BY <1>1 DEF Grown
<1>4. \A u \in DOMAIN txs' : u \notin DOMAIN txs => u = Len(txs) + 1
  BY <1>1, <1>2
<1>5. QuietTxs
  BY <1>1, <1>2, <1>4 DEF QuietTxs
<1> QED
  BY <1>3, <1>5

(* So does BeginTx with a change written in it. *)
LEMMA WrittenGrown ==
  ASSUME Types, Chained, NEW m \in ToSet(Queues), NEW c \in 0..Len(txs), NEW d \in Data,
         NEW r \in Levels(m, c) \cup {Len(txs) + 1}, txs' = Written(Begun(m, c), r, d)
  PROVE  /\ Grown(m, c) /\ QuietTxs
         /\ \A u \in DOMAIN txs : u # r => txs'[u] = txs[u]
         /\ txs'[r].buf = Append(Begun(m, c)[r].buf, [d |-> d, n |-> 1])
         /\ r # Len(txs) + 1 => txs'[Len(txs) + 1].buf = << >>
         /\ r # Len(txs) + 1 => Levels(m, c) # {} /\ r \in DOMAIN txs
<1> DEFINE n == Len(txs)
<1>1. m \in Managers /\ DOMAIN txs = 1..n /\ n \in Nat /\ txs \in Seq(Txs)
  BY TypeFacts DEF Types, Managers
<1>2. PICK s : s = Begun(m, c)
  OBVIOUS
<1>3. /\ s \in Seq(Txs) /\ Len(s) = n + 1 /\ DOMAIN s = 1..(n + 1)
      /\ \A t \in 1..n : s[t] = txs[t]
      /\ s[n + 1] = [mgr |-> m, chain |-> Chain(c) \cup {n + 1},
                     done |-> FALSE, buf |-> << >>, acts |-> {}]
  BY <1>1, <1>2, BegunFacts
<1>4. r # n + 1 => r \in 1..n /\ txs[r].mgr \in ToSet(Queues) /\ Levels(m, c) # {}
  <2> SUFFICES ASSUME r # n + 1 PROVE r \in 1..n /\ txs[r].mgr \in ToSet(Queues)
    BY <1>1
  <2>1. r \in Levels(m, c) /\ Type(txs[r].mgr) = Type(m) /\ r \in 1..n
    BY <1>1, RootFacts
  <2>2. txs[r].mgr \in Managers
    <3>1. txs[r] \in Txs
      BY <1>1, <2>1
    <3> QED
      BY <3>1 DEF Txs
  <2> QED
    BY <1>1, <2>1, <2>2, TypeFacts
<1>5. r \in DOMAIN s
  BY <1>1, <1>3, <1>4
<1>6. PICK z : z = txs' /\ z = Written(s, r, d)
  BY <1>2
<1>7. /\ z \in Seq(Txs) /\ Len(z) = n + 1 /\ DOMAIN z = 1..(n + 1)
      /\ z[r].buf = Append(s[r].buf, [d |-> d, n |-> 1])
      /\ \A t \in 1..(n + 1) : t # r => z[t] = s[t]
      /\ \A t \in 1..(n + 1) : /\ z[t].done = s[t].done /\ z[t].acts = s[t].acts
                               /\ z[t].mgr = s[t].mgr /\ z[t].chain = s[t].chain
  <2>1. /\ z \in Seq(Txs) /\ Len(z) = Len(s) /\ DOMAIN z = DOMAIN s
        /\ z[r].buf = Append(s[r].buf, [d |-> d, n |-> 1])
        /\ \A t \in DOMAIN s : t # r => z[t] = s[t]
        /\ \A t \in DOMAIN s : /\ z[t].done = s[t].done /\ z[t].acts = s[t].acts
                              /\ z[t].mgr = s[t].mgr /\ z[t].chain = s[t].chain
    <3>1. s \in Seq(Txs)
      BY <1>3
    <3> QED
      BY <1>5, <1>6, <3>1, SeqWrite
  <2> QED
    BY <1>3, <2>1
<1>8. n + 1 \in 1..(n + 1) /\ \A t \in 1..n : t \in 1..(n + 1) /\ t # n + 1
  BY <1>1
<1>9. Grown(m, c)
  BY <1>1, <1>3, <1>6, <1>7, <1>8 DEF Grown, Kept
<1>10. "steps" \notin ToSet(Queues)
  BY BoundsAssumption
<1>11. QuietTxs
  <2>1. \A u \in DOMAIN txs : txs'[u].acts = txs[u].acts
    BY <1>1, <1>3, <1>6, <1>7, <1>8
  <2>2. \A u \in DOMAIN txs : txs[u].mgr = "steps" => txs'[u] = txs[u]
    BY <1>1, <1>3, <1>4, <1>6, <1>7, <1>8, <1>10
  <2>3. \A u \in DOMAIN txs' : u \notin DOMAIN txs => u = n + 1
    BY <1>1, <1>6, <1>7
  <2>4. txs'[n + 1].acts = {} /\ txs'[n + 1].mgr # "steps"
    BY <1>3, <1>6, <1>7, <1>8, <1>10
  <2> QED
    BY <2>1, <2>2, <2>3, <2>4 DEF QuietTxs
<1> QED
  BY <1>1, <1>2, <1>3, <1>4, <1>6, <1>7, <1>8, <1>9, <1>11

(* A round of the fan-out: it keeps the shape. *)
LEMMA eachQueueShape ==
  ASSUME Shape, eachQueue
  PROVE  /\ Shape' /\ Kept /\ QuietTxs /\ UNCHANGED <<store, cancelled, made, called, ret>>
         /\ Top.n \in DOMAIN Queues /\ Top.arg \in Data /\ FanShape(Top)
         /\ \/ Failed
            \/ /\ Grown(Queues[Top.n], Top.ctx) /\ ~Err(Top.ctx)
               /\ \E g \in Calls :
                     /\ Moved(g) /\ Kin(g) /\ g.txs = Append(Top.txs, Len(txs) + 1)
                     /\ \/ /\ g.pc = "finish" /\ g.err
                           /\ txs' = Begun(Queues[Top.n], Top.ctx)
                        \/ /\ ~g.err /\ g.n = Top.n + 1 /\ UNCHANGED faults
                           /\ g.pc = IF Top.n = Len(Queues) THEN "finish" ELSE "begin"
                           /\ \E r \in Levels(Queues[Top.n], Top.ctx) \cup {Len(txs) + 1} :
                                 txs' = Written(Begun(Queues[Top.n], Top.ctx), r, Top.arg)
<1>1. /\ Calling /\ Top.prog = "fanout" /\ Top.pc = "begin"
      /\ UNCHANGED <<store, cancelled, made, called, ret>>
  BY DEF eachQueue
<1>2. Top \in Calls /\ Top.ctx \in 0..Len(txs) /\ FanShape(Top) /\ Types /\ Chained
  BY <1>1, TopOK DEF OpOK, Shape
<1>3. /\ Top.txs \in Seq(Nat) /\ Top.n = Len(Top.txs) + 1 /\ Top.n <= Len(Queues) /\ ~Top.err
  BY <1>1, <1>2 DEF FanShape, Calls
<1>4. Top.n \in DOMAIN Queues /\ Top.n \in Nat /\ Len(Queues) \in Nat
  BY <1>3, BoundsAssumption
<1>5. Top.arg \in Data
  BY <1>2, BoundsAssumption DEF FanShape, Types, Data
<1>6. PICK m \in ToSet(Queues) : m = Queues[Top.n]
  BY <1>4 DEF ToSet
<1>7. m \in Managers
  BY DEF Managers
<1>8. Len(txs) \in Nat /\ \E t \in Nat : t = Len(txs) + 1
  BY <1>2 DEF Types
<1>15. PICK t \in Nat : t = Len(txs) + 1
  BY <1>8
<1>9. PICK c \in 0..Len(txs) : c = Top.ctx
  BY <1>2
<1>10. Len(txs) + 1 <= MaxTx /\ Len(txs) + (Len(Queues) + 1 - Top.n) <= MaxTx
  BY SMTT(30), <1>1, <1>2, <1>4, BoundsAssumption DEF Shape, Sizes, Left, Types
<1>11. Append(Top.txs, t) \in Seq(Nat)
  BY <1>3
<1>12. CASE /\ ~Err(c) /\ Write(Begun(m, c), Levels(m, c) \cup {t}, Top.arg)
            /\ SetTop([Top EXCEPT !.txs = Append(@, t), !.n = @ + 1,
                                  !.pc = IF Top.n = Len(Queues) THEN "finish" ELSE @])
            /\ UNCHANGED faults
  <2>1. PICK g \in Calls :
           g = [Top EXCEPT !.txs = Append(@, t), !.n = @ + 1,
                           !.pc = IF Top.n = Len(Queues) THEN "finish" ELSE @]
    <3>1. PICK pc \in PCs : pc = IF Top.n = Len(Queues) THEN "finish" ELSE Top.pc
      BY <1>1 DEF PCs
    <3>2. Top.n + 1 \in Int
      BY <1>4
    <3>3. [Top EXCEPT !.txs = Append(@, t), !.n = @ + 1, !.pc = pc] \in Calls
      BY <1>2, <1>11, <3>2 DEF Calls
    <3> QED
      BY <3>1, <3>3
  <2>2. /\ Kin(g) /\ g.txs = Append(Top.txs, t) /\ g.n = Top.n + 1 /\ ~g.err
        /\ g.prog = "fanout"
        /\ g.pc = IF Top.n = Len(Queues) THEN "finish" ELSE "begin"
    BY <1>1, <1>2, <1>3, <2>1 DEF Calls, Kin
  <2>3. Moved(g)
    BY <1>1, <1>12, <2>1, SetTopMoves DEF Shape
  <2>4. PICK r : r = Min(Levels(m, c) \cup {t})
    OBVIOUS
  <2>5. r \in Levels(m, c) \cup {t}
    <3>1. Levels(m, c) \subseteq Nat
      BY <1>2, RootFacts DEF Types
    <3> QED
      BY <2>4, <3>1, MinFacts
  <2>6. txs' = Written(Begun(m, c), r, Top.arg)
    BY <1>12, <2>4 DEF Write, Written
  <2>7. Grown(m, c) /\ QuietTxs
    BY <1>2, <1>5, <1>15, <2>5, <2>6, WrittenGrown
  <2>8. g.pc = "begin" => g.n <= Len(Queues)
    BY <1>3, <1>4, <2>2
  <2>9. OpOK(g)'
    BY <1>1, <1>6, <1>15, <1>9, <2>2, <2>7, <2>8, FanGrows
  <2>10. g.pc = "begin" => Len(txs) + 1 + Left(g) <= MaxTx
    <3>1. Left(g) = Len(Queues) - Top.n
      BY <1>4, <2>2 DEF Left
    <3> QED
      BY SMTT(30), <1>4, <1>8, <1>10, <3>1, BoundsAssumption
  <2>11. Shape'
    BY <1>1, <1>9, <1>10, <1>12, <2>2, <2>3, <2>7, <2>9, <2>10, GrowShape DEF Shape, Types
  <2> QED
    BY <1>1, <1>2, <1>4, <1>5, <1>6, <1>15, <1>9, <1>12, <2>2, <2>3, <2>5, <2>6, <2>7, <2>11
       DEF Grown
<1>13. CASE /\ BeginTx(m, c, [Top EXCEPT !.pc = "finish", !.err = TRUE])
            /\ UNCHANGED faults
  <2>1. PICK g \in Calls : g = [Top EXCEPT !.pc = "finish", !.err = TRUE,
                                           !.txs = Append(@, t)]
    BY <1>2, <1>11 DEF Calls, PCs
  <2>2. [[Top EXCEPT !.pc = "finish", !.err = TRUE] EXCEPT !.txs = Append(@, t)] = g
    BY <1>2, <2>1 DEF Calls
  <2>3. Moved(g) /\ ~Err(c) /\ txs' = Begun(m, c)
    BY <1>1, <1>15, <1>13, <2>2, SetTopMoves DEF Shape, BeginTx
  <2>4. Kin(g) /\ g.txs = Append(Top.txs, t) /\ g.err /\ g.pc = "finish"
    BY <1>2, <2>1 DEF Calls, Kin
  <2>5. Grown(m, c) /\ QuietTxs
    BY <1>2, <1>7, <2>3, BegunGrown
  <2>6. OpOK(g)'
    BY <1>1, <1>6, <1>15, <1>9, <2>4, <2>5, FanGrows
  <2>7. Shape'
    BY <1>1, <1>9, <1>10, <1>13, <2>3, <2>4, <2>5, <2>6, GrowShape DEF Shape, Types
  <2> QED
    BY <1>1, <1>2, <1>4, <1>5, <1>6, <1>15, <1>9, <2>3, <2>4, <2>5, <2>7 DEF Grown
<1>14. CASE BeginFails(m, c)
  <2>1. Fails /\ txs' = txs /\ (Fault \/ UNCHANGED faults)
    BY <1>14 DEF BeginFails
  <2>2. faults' \in 0..MaxFaults
    BY <1>2, <2>1, FaultType
  <2>3. Shape' /\ Failed
    BY <1>1, <2>1, <2>2, FailsShape
  <2>4. Kept /\ QuietTxs
    BY <1>2, <2>1 DEF Types, Kept, QuietTxs
  <2> QED
    BY <1>1, <1>2, <1>4, <1>5, <2>3, <2>4
<1> QED
  BY <1>6, <1>15, <1>9, <1>12, <1>13, <1>14 DEF eachQueue
----------------------------------------------------------------------------
(* A migration begins its transactions: it keeps the shape. *)
LEMMA MigrateBeginShape ==
  ASSUME Shape, MigrateBegin
  PROVE  /\ Shape' /\ Kept /\ QuietTxs /\ UNCHANGED <<store, cancelled, made, called, ret>>
         /\ MigShape(Top) /\ Top.pc = "begin"
         /\ \/ Failed
            \/ \E m \in Managers, g \in Calls :
                  /\ m = (IF Top.txs = << >> THEN "state" ELSE "resource")
                  /\ validate /\ ~Err(0) /\ UNCHANGED faults /\ Grown(m, Top.ctx)
                  /\ txs' = Begun(m, Top.ctx)
                  /\ Moved(g) /\ Kin(g) /\ g.txs = Append(Top.txs, Len(txs) + 1)
                  /\ g.n = Top.n /\ ~g.err
                  /\ g.pc = IF m = "resource" THEN "body" ELSE "begin"
<1>1. /\ Calling /\ Top.prog \in Migrations /\ Top.pc = "begin"
      /\ UNCHANGED <<store, cancelled, made, called, ret>>
  BY DEF MigrateBegin
<1>2. Top \in Calls /\ MigShape(Top) /\ Types /\ Chained
  BY <1>1, TopOK DEF OpOK, Shape
<1>3. /\ Top.txs \in Seq(Nat) /\ Len(Top.txs) \in {0, 1} /\ Len(txs) = Len(Top.txs)
      /\ ~Top.err /\ Top.ctx = 0 /\ Len(txs) \in Nat
  <2>1. Top.txs \in Seq(Nat) /\ Len(Top.txs) \in Nat
    BY <1>2 DEF Calls
  <2>2. Len(Top.txs) < 2 /\ Len(txs) = Len(Top.txs) /\ ~Top.err /\ Top.ctx = 0
    BY <1>1, <1>2 DEF MigShape
  <2>3. PICK l \in Nat : l = Len(Top.txs)
    BY <2>1
  <2>5. l < 2
    BY <2>2, <2>3
  <2>4. l \in {0, 1}
    BY <2>5
  <2> QED
    BY <2>1, <2>2, <2>3, <2>4
<1>4. PICK m \in Managers : m = (IF Top.txs = << >> THEN "state" ELSE "resource")
  BY DEF Managers, Drivers
<1>5. CASE Fails /\ UNCHANGED txs /\ (Fault \/ UNCHANGED faults)
  <2>1. faults' \in 0..MaxFaults
    BY <1>2, <1>5, FaultType
  <2>2. Shape' /\ Failed
    BY <1>1, <1>5, <2>1, FailsShape
  <2>3. Kept /\ QuietTxs
    BY <1>2, <1>5 DEF Types, Kept, QuietTxs
  <2> QED
    BY <1>1, <1>2, <2>2, <2>3
<1>6. CASE /\ BeginTx(m, Top.ctx, [Top EXCEPT !.pc = IF m = "resource" THEN "body" ELSE @])
           /\ UNCHANGED faults /\ validate
  <2>1. PICK t \in Nat : t = Len(txs) + 1
    BY <1>3
  <2>2. Append(Top.txs, t) \in Seq(Nat)
    BY <1>3
  <2>3. PICK pc \in PCs : pc = IF m = "resource" THEN "body" ELSE "begin"
    BY DEF PCs
  <2>4. PICK g \in Calls : g = [Top EXCEPT !.pc = pc, !.txs = Append(@, t)]
    BY <1>2, <2>2 DEF Calls
  <2>5. [[Top EXCEPT !.pc = IF m = "resource" THEN "body" ELSE @]
            EXCEPT !.txs = Append(@, t)] = g
    BY <1>1, <1>2, <2>3, <2>4 DEF Calls
  <2>6. Moved(g) /\ ~Err(Top.ctx) /\ txs' = Begun(m, Top.ctx)
    BY <1>1, <1>6, <2>1, <2>5, SetTopMoves DEF Shape, BeginTx
  <2>7. Kin(g) /\ g.txs = Append(Top.txs, t) /\ ~g.err /\ g.n = Top.n /\ g.pc = pc
    BY <1>2, <1>3, <2>4 DEF Calls, Kin
  <2>8. Top.ctx \in 0..Len(txs)
    BY <1>3
  <2>9. Grown(m, Top.ctx) /\ QuietTxs
    BY <1>2, <2>6, <2>8, BegunGrown
  <2>10. /\ Len(g.txs) = t /\ g.txs[t] = t /\ \A i \in 1..(t - 1) : g.txs[i] = i
    <3>1. \A i \in 1..Len(Top.txs) : g.txs[i] = Top.txs[i] /\ Top.txs[i] = i
      BY <1>2, <1>3, <2>7, AppendFacts DEF MigShape
    <3> QED
      BY <1>3, <2>1, <2>7, <3>1, AppendFacts
  <2>11. t \in {1, 2} /\ (t = 1 <=> m = "state") /\ (t = 2 <=> m = "resource")
    <3>1. Top.txs = << >> <=> Len(Top.txs) = 0
      BY <1>3
    <3>2. Len(Top.txs) = 0 => t = 1 /\ m = "state"
      BY <1>3, <1>4, <2>1, <3>1
    <3>3. Len(Top.txs) = 1 => t = 2 /\ m = "resource"
      BY <1>3, <1>4, <2>1, <3>1
    <3> QED
      BY <1>3, <3>2, <3>3
  <2>12. \A i \in 1..Len(g.txs) : /\ g.txs[i] = i /\ txs'[i].chain = {0, i}
                                  /\ txs'[i].mgr = IF i = 1 THEN "state" ELSE "resource"
    <3>1. txs'[t].chain = {0, t} /\ txs'[t].mgr = m
      BY <1>3, <2>1, <2>9 DEF Grown, Chain
    <3>2. \A i \in 1..(t - 1) : txs'[i].chain = {0, i} /\ txs'[i].mgr = "state"
      BY <1>2, <1>3, <2>1, <2>9 DEF Grown, Kept, MigShape
    <3>3. \A i \in 1..t : i = t \/ i \in 1..(t - 1)
      BY <2>1
    <3>4. \A i \in 1..(t - 1) : i = 1
      BY <2>11
    <3> QED
      BY <2>10, <2>11, <3>1, <3>2, <3>3, <3>4
  <2>13. MigShape(g)'
    <3>1. Len(txs') = t
      BY <2>1, <2>9 DEF Grown
    <3>2. /\ g.mgr = "state" /\ g.ctx = 0 /\ g.arg \in 0..Versions
          /\ g.n \in IF g.prog = "up" THEN 1..(Versions + 1) ELSE g.arg..Versions
      BY <1>2, <2>7 DEF MigShape, Kin
    <3>3. g.pc \in {"begin", "body"} /\ (g.pc = "begin" <=> t = 1)
      BY <2>3, <2>7, <2>11
    <3> QED
      BY <2>7, <2>10, <2>11, <2>12, <3>1, <3>2, <3>3 DEF MigShape
  <2>14. OpOK(g)'
    BY <1>1, <2>7, <2>13 DEF OpOK, Kin, Migrations
  <2>15. Len(txs) + 1 <= MaxTx /\ (g.pc = "begin" => Len(txs) + 1 + Left(g) <= MaxTx)
    <3>1. Left(Top) = 2 - Len(Top.txs)
      BY <1>1 DEF Left, Migrations
    <3>2. Left(g) = 2 - t
      BY <1>1, <2>7, <2>10 DEF Left, Kin, Migrations
    <3>3. Len(txs) + Left(Top) <= MaxTx
      BY <1>1 DEF Shape, Sizes
    <3> QED
      BY <1>3, <2>1, <2>11, <3>1, <3>2, <3>3, BoundsAssumption
  <2>16. faults' \in 0..MaxFaults
    BY <1>2, <1>6 DEF Types
  <2>17. Shape'
    BY <1>1, <2>6, <2>7, <2>9, <2>14, <2>15, <2>16, GrowShape
  <2>18. ~Err(0)
    BY <1>3, <2>6
  <2> QED
    BY <1>1, <1>2, <1>4, <1>6, <2>1, <2>3, <2>6, <2>7, <2>9, <2>17, <2>18 DEF Grown
<1>7. CASE BeginFails(m, Top.ctx)
  BY <1>5, <1>7 DEF BeginFails
<1>8. CASE ~validate
  BY <1>5, <1>8 DEF MigrateBegin
<1> QED
  BY <1>4, <1>6, <1>7, <1>8 DEF MigrateBegin

(* The changes of the two transactions of a round. *)
BothWritten(s, c) == [s EXCEPT ![2].buf = Append(@, c), ![1].buf = Append(@, c)]

(* A round of a migration writes to both of its transactions. *)
LEMMA RoundFacts ==
  ASSUME Types, 1 \in DOMAIN txs, 2 \in DOMAIN txs, NEW c \in Changes,
         txs' = BothWritten(txs, c)
  PROVE  /\ Kept /\ Len(txs') = Len(txs) /\ DOMAIN txs' = DOMAIN txs
         /\ txs'[1].buf = Append(txs[1].buf, c) /\ txs'[2].buf = Append(txs[2].buf, c)
         /\ \A t \in DOMAIN txs : t \notin {1, 2} => txs'[t] = txs[t]
         /\ \A t \in DOMAIN txs : txs'[t].done = txs[t].done /\ txs'[t].acts = txs[t].acts
<1> DEFINE e(i) == [txs[i] EXCEPT !.buf = Append(@, c)]
<1>1. /\ txs \in Seq(Txs) /\ Len(txs) \in Nat /\ DOMAIN txs = 1..Len(txs)
      /\ txs[1] \in Txs /\ txs[2] \in Txs
  BY DEF Types
<1>2. Append(txs[1].buf, c) \in Seq(Changes) /\ Append(txs[2].buf, c) \in Seq(Changes)
  BY <1>1 DEF Txs
<1>3. ASSUME NEW i \in {1, 2}
      PROVE  /\ e(i) \in Txs /\ e(i).mgr = txs[i].mgr /\ e(i).chain = txs[i].chain
             /\ e(i).done = txs[i].done /\ e(i).acts = txs[i].acts
             /\ e(i).buf = Append(txs[i].buf, c)
  BY <1>1, <1>2 DEF Txs
<1>4. txs' = [txs EXCEPT ![2] = e(2), ![1] = e(1)]
  BY <1>1 DEF Txs, BothWritten
<1> HIDE DEF e
<1>5. /\ txs' \in Seq(Txs) /\ Len(txs') = Len(txs) /\ DOMAIN txs' = DOMAIN txs
      /\ txs'[1] = e(1) /\ txs'[2] = e(2)
      /\ \A t \in DOMAIN txs : t \notin {1, 2} => txs'[t] = txs[t]
  <2>1. e(1) \in Txs /\ e(2) \in Txs
    BY <1>3
  <2>2. txs \in [1..Len(txs) -> Txs]
    BY <1>1
  <2>3. /\ txs' \in [1..Len(txs) -> Txs] /\ txs'[1] = e(1) /\ txs'[2] = e(2)
        /\ \A t \in DOMAIN txs : t \notin {1, 2} => txs'[t] = txs[t]
    BY <1>1, <1>4, <2>1, <2>2
  <2>4. txs' \in Seq(Txs) /\ Len(txs') = Len(txs)
    BY <1>1, <2>3, FunSeq
  <2> QED
    BY <1>1, <2>3, <2>4
<1>6. \A t \in DOMAIN txs : /\ txs'[t].done = txs[t].done /\ txs'[t].acts = txs[t].acts
                            /\ txs'[t].mgr = txs[t].mgr /\ txs'[t].chain = txs[t].chain
  BY <1>3, <1>5
<1>7. Kept
  <2>1. txs' \in Seq(Txs) /\ Len(txs) <= Len(txs')
    BY <1>1, <1>5
  <2> QED
    BY <1>1, <1>6, <2>1 DEF Kept
<1> QED
  BY <1>3, <1>5, <1>6, <1>7

(* A round of a migration: it keeps the shape. *)
LEMMA stageShape ==
  ASSUME Shape, stage
  PROVE  /\ Shape' /\ Kept /\ QuietTxs /\ DOMAIN txs' = DOMAIN txs
         /\ UNCHANGED <<store, cancelled, made, faults, called, ret>>
         /\ \A t \in DOMAIN txs : txs'[t].done = txs[t].done
         /\ MigShape(Top) /\ Top.pc = "body" /\ {1, 2} \subseteq DOMAIN txs
         /\ txs[1].mgr = "state" /\ txs[2].mgr = "resource"
         /\ \A t \in DOMAIN txs : t \notin {1, 2} => txs'[t] = txs[t]
         /\ \/ Failed
            \/ \E sign \in {1, -1}, g \in Calls :
                  /\ sign = IF Top.prog = "up" THEN 1 ELSE -1
                  /\ Moved(g) /\ Kin(g) /\ g.txs = Top.txs /\ ~g.err
                  /\ \/ /\ Top.n \notin 1..Versions \/ (Top.prog = "down" /\ Top.n <= Top.arg)
                        /\ g.pc = "finish" /\ g.n = Top.n /\ UNCHANGED txs
                     \/ /\ Top.n \in 1..Versions /\ ~(Top.prog = "down" /\ Top.n <= Top.arg)
                        /\ g.pc = "body" /\ g.n = Top.n + sign
                        /\ \/ /\ (Top.prog = "up") = (store["state"][Top.n] > 0)
                              /\ UNCHANGED txs
                           \/ /\ (Top.prog = "up") # (store["state"][Top.n] > 0)
                              /\ \A i \in {1, 2} : txs'[i].buf =
                                    Append(txs[i].buf, [d |-> Top.n, n |-> sign])
<1>1. /\ Calling /\ Top.prog \in Migrations /\ Top.pc = "body"
      /\ UNCHANGED <<store, cancelled, made, faults, called, ret>>
  BY DEF stage
<1>2. Top \in Calls /\ MigShape(Top) /\ Types /\ Chained
  BY <1>1, TopOK DEF OpOK, Shape
<1>3. /\ Top.txs \in Seq(Nat) /\ Len(Top.txs) = 2 /\ 2 <= Len(txs) /\ Len(txs) \in Nat
      /\ ~Top.err /\ DOMAIN txs = 1..Len(txs)
  <2>1. Top.txs \in Seq(Nat) /\ Len(txs) \in Nat /\ DOMAIN txs = 1..Len(txs)
    BY <1>2 DEF Calls, Types
  <2>2. Len(Top.txs) = 2 /\ Len(Top.txs) <= Len(txs) /\ ~Top.err
    BY <1>1, <1>2 DEF MigShape
  <2> QED
    BY <2>1, <2>2
<1>4. /\ Top.txs[1] = 1 /\ Top.txs[2] = 2 /\ txs[1].mgr = "state" /\ txs[2].mgr = "resource"
      /\ {1, 2} \subseteq DOMAIN txs
  BY <1>2, <1>3 DEF MigShape
<1>5. TxOf("state") = 1 /\ TxOf("resource") = 2
  <2>1. ToSet(Top.txs) = {1, 2}
    BY <1>3, <1>4 DEF ToSet
  <2> QED
    BY <1>4, <2>1 DEF TxOf
<1>6. PICK sign \in {1, -1} : sign = IF Top.prog = "up" THEN 1 ELSE -1
  OBVIOUS
<1>7. PICK v \in Int : v = Top.n
  BY <1>2 DEF Calls
<1>8. Versions \in Nat /\ Top.arg \in Nat
  BY <1>2, BoundsAssumption DEF Calls
<1>9. CASE Fails /\ UNCHANGED txs
  <2>1. Shape' /\ Failed
    BY <1>1, <1>2, <1>9, FailsShape DEF Types
  <2>2. Kept /\ QuietTxs
    BY <1>2, <1>9 DEF Types, Kept, QuietTxs
  <2> QED
    BY <1>1, <1>2, <1>4, <1>9, <2>1, <2>2
<1>10. CASE /\ v \notin 1..Versions \/ (Top.prog = "down" /\ v <= Top.arg)
            /\ SetTop([Top EXCEPT !.pc = "finish"]) /\ UNCHANGED txs
  <2>1. PICK g \in Calls : g = [Top EXCEPT !.pc = "finish"]
    BY <1>2 DEF Calls, PCs
  <2>2. Moved(g)
    BY <1>1, <1>10, <2>1, SetTopMoves DEF Shape
  <2>3. Kin(g) /\ g.txs = Top.txs /\ ~g.err /\ g.n = Top.n /\ g.pc = "finish"
    BY <1>2, <1>3, <2>1 DEF Calls, Kin
  <2>4. OpOK(g)
    BY <1>1, <1>2, <2>3 DEF OpOK, MigShape, Kin, Migrations
  <2>5. Shape'
    BY <1>1, <1>2, <1>10, <2>2, <2>3, <2>4, PassShape DEF Types
  <2>6. Kept /\ QuietTxs
    BY <1>2, <1>10 DEF Types, Kept, QuietTxs
  <2> QED
    BY <1>1, <1>2, <1>4, <1>6, <1>7, <1>10, <2>2, <2>3, <2>5, <2>6
<1>11. ASSUME v \in 1..Versions, ~(Top.prog = "down" /\ v <= Top.arg),
              SetTop([Top EXCEPT !.n = @ + sign])
       PROVE  \E g \in Calls : /\ Moved(g) /\ Kin(g) /\ g.txs = Top.txs /\ ~g.err /\ OpOK(g)
                               /\ g.n = Top.n + sign /\ g.pc = "body"
  <2>1. Top.n + sign \in Int
    BY <1>7
  <2>2. PICK g \in Calls : g = [Top EXCEPT !.n = @ + sign]
    BY <1>2, <2>1 DEF Calls
  <2>3. Moved(g)
    BY <1>1, <1>11, <2>2, SetTopMoves DEF Shape
  <2>4. Kin(g) /\ g.txs = Top.txs /\ ~g.err /\ g.n = Top.n + sign /\ g.pc = "body"
    BY <1>1, <1>2, <1>3, <2>2 DEF Calls, Kin
  <2>5. g.n \in IF g.prog = "up" THEN 1..(Versions + 1) ELSE g.arg..Versions
    BY <1>1, <1>6, <1>7, <1>8, <1>11, <2>4 DEF Kin, Migrations
  <2>6. OpOK(g)
    BY <1>1, <1>2, <2>4, <2>5 DEF OpOK, MigShape, Kin, Migrations
  <2> QED
    BY <2>3, <2>4, <2>6
<1>12. CASE /\ v \in 1..Versions /\ ~(Top.prog = "down" /\ v <= Top.arg)
            /\ (Top.prog = "up") = (store["state"][v] > 0)
            /\ SetTop([Top EXCEPT !.n = @ + sign]) /\ UNCHANGED txs
  <2>1. PICK g \in Calls : /\ Moved(g) /\ Kin(g) /\ g.txs = Top.txs /\ ~g.err /\ OpOK(g)
                           /\ g.n = Top.n + sign /\ g.pc = "body"
    BY <1>11, <1>12
  <2>2. Shape'
    BY <1>1, <1>2, <1>12, <2>1, PassShape DEF Types
  <2>3. Kept /\ QuietTxs
    BY <1>2, <1>12 DEF Types, Kept, QuietTxs
  <2> QED
    BY <1>1, <1>2, <1>4, <1>6, <1>7, <1>12, <2>1, <2>2, <2>3
<1>13. CASE /\ v \in 1..Versions /\ ~(Top.prog = "down" /\ v <= Top.arg)
            /\ (Top.prog = "up") # (store["state"][v] > 0)
            /\ SetTop([Top EXCEPT !.n = @ + sign])
            /\ txs' = [txs EXCEPT ![2].buf = Append(@, [d |-> v, n |-> sign]),
                                  ![1].buf = Append(@, [d |-> v, n |-> sign])]
  <2>1. PICK g \in Calls : /\ Moved(g) /\ Kin(g) /\ g.txs = Top.txs /\ ~g.err /\ OpOK(g)
                           /\ g.n = Top.n + sign /\ g.pc = "body"
    BY <1>11, <1>13
  <2>2. PICK c \in Changes : c = [d |-> v, n |-> sign]
    BY <1>6, <1>8, <1>13, BoundsAssumption DEF Changes, Data
  <2>3. /\ Kept /\ Len(txs') = Len(txs) /\ DOMAIN txs' = DOMAIN txs
        /\ txs'[1].buf = Append(txs[1].buf, c) /\ txs'[2].buf = Append(txs[2].buf, c)
        /\ \A t \in DOMAIN txs : t \notin {1, 2} => txs'[t] = txs[t]
        /\ \A t \in DOMAIN txs : txs'[t].done = txs[t].done /\ txs'[t].acts = txs[t].acts
    <3>1. txs' = BothWritten(txs, c)
      BY <1>13, <2>2 DEF BothWritten
    <3> QED
      BY <1>2, <1>4, <3>1, RoundFacts
  <2>4. Shape'
    <3>1. /\ made <= made' /\ made' \in 0..MaxData /\ faults' \in 0..MaxFaults
          /\ store' \in [Managers -> [Data -> Int]]
      BY <1>1, <1>2, BoundsAssumption DEF Types
    <3> QED
      BY <1>1, <2>1, <2>3, <3>1, EditShape
  <2>5. QuietTxs
    BY <1>4, <2>3 DEF QuietTxs
  <2> QED
    BY ZenonT(40), <1>1, <1>2, <1>4, <1>6, <1>7, <1>13, <2>1, <2>2, <2>3, <2>4, <2>5
<1> QED
  BY <1>5, <1>6, <1>7, <1>9, <1>10, <1>12, <1>13 DEF stage
----------------------------------------------------------------------------
(* The Finish that is due, of a transaction that the call has begun. *)
LEMMA DueFacts ==
  ASSUME Shape, Calling, Top.pc = "finish", Top.txs # << >>
  PROVE  /\ Top \in Calls /\ Top.txs \in Seq(Nat) /\ Len(Top.txs) \in Nat /\ Len(Top.txs) > 0
         /\ Due = Top.txs[Len(Top.txs)] /\ Due \in DOMAIN txs /\ Due \in 0..Len(txs)
         /\ txs[Due] \in Txs /\ DueManager \in Managers /\ DueManager = txs[Due].mgr
         /\ Due \in Levels(DueManager, Due) /\ Levels(DueManager, Due) \subseteq DOMAIN txs
         /\ DueRoot \in Levels(DueManager, Due) /\ DueRoot \in DOMAIN txs /\ DueRoot \in Nat
         /\ \A t \in Levels(DueManager, Due) : DueRoot <= t
         /\ DueManager = "steps" => txs[DueRoot].mgr = "steps" /\ Top.prog = "usecase"
         /\ DueManager # "steps" => txs[DueRoot].mgr # "steps"
<1>1. Top \in Calls /\ OpOK(Top) /\ Top.prog # "none" /\ Types /\ Chained
  BY TopOK DEF Shape
<1>2. Top.txs \in Seq(Nat) /\ Len(Top.txs) \in Nat /\ Len(Top.txs) > 0
  BY <1>1 DEF Calls
<1>3. Due = Top.txs[Len(Top.txs)]
  BY <1>2 DEF Due, Last
<1>4. Top.prog = "usecase" => Due \in DOMAIN txs
  BY <1>1, <1>3 DEF OpOK, UseOK
<1>5. Top.prog = "fanout" => Due \in DOMAIN txs /\ txs[Due].mgr \in ToSet(Queues)
  <2> HAVE Top.prog = "fanout"
  <2>1. Len(Top.txs) \in 1..Len(Top.txs) /\ Len(Queues) \in Nat
    BY <1>2, BoundsAssumption
  <2>2. Due \in DOMAIN txs /\ txs[Due].mgr = Queues[Len(Top.txs)] /\ Len(Top.txs) <= Len(Queues)
    BY <1>1, <1>3, <2>1 DEF OpOK, FanShape
  <2> QED
    BY <1>2, <2>1, <2>2, BoundsAssumption DEF ToSet
<1>6. Top.prog \in Migrations => Due \in DOMAIN txs /\ txs[Due].mgr \in Drivers
  <2> HAVE Top.prog \in Migrations
  <2>1. Len(Top.txs) \in 1..Len(Top.txs) /\ DOMAIN txs = 1..Len(txs) /\ Len(txs) \in Nat
    BY <1>1, <1>2 DEF Types
  <2>2. /\ Due = Len(Top.txs) /\ Len(Top.txs) <= Len(txs)
        /\ txs[Due].mgr = IF Due = 1 THEN "state" ELSE "resource"
    BY <1>1, <1>3, <2>1 DEF OpOK, MigShape
  <2> QED
    BY <1>2, <2>1, <2>2 DEF Drivers
<1>7. Due \in DOMAIN txs
  BY <1>1, <1>4, <1>5, <1>6 DEF Calls, Progs, Migrations
<1>8. /\ txs[Due] \in Txs /\ DueManager \in Managers /\ DueManager = txs[Due].mgr
      /\ Due \in Levels(DueManager, Due) /\ Due \in 0..Len(txs)
  BY <1>1, <1>7, OwnLevel DEF DueManager
<1>9. /\ DueRoot \in Levels(DueManager, Due) /\ Levels(DueManager, Due) \subseteq DOMAIN txs
      /\ \A t \in Levels(DueManager, Due) : DueRoot <= t
      /\ Type(txs[DueRoot].mgr) = Type(DueManager)
  BY <1>1, <1>8, RootFacts DEF DueRoot
<1>10. txs[DueRoot].mgr \in Managers /\ DueRoot \in Nat
  BY <1>1, <1>9, OwnLevel DEF Types
<1>11. /\ DueManager = "steps" => txs[DueRoot].mgr = "steps"
       /\ DueManager # "steps" => txs[DueRoot].mgr # "steps"
  BY <1>8, <1>9, <1>10, TypeFacts
<1>12. DueManager = "steps" => Top.prog = "usecase"
  BY <1>1, <1>5, <1>6, <1>8, BoundsAssumption DEF Calls, Progs, Migrations, Drivers
<1> QED
  BY <1>1, <1>2, <1>3, <1>7, <1>8, <1>9, <1>10, <1>11, <1>12

(* A call of Finish takes one transaction from the call on top. *)
LEMMA FinishMoves ==
  ASSUME Shape, Calling, Top.pc = "finish", Top.txs # << >>, NEW err \in BOOLEAN,
         NEW pc \in {"finish", "undo"}, pc = "undo" => DueManager = "steps" /\ err,
         SetTop(Finished(err, pc))
  PROVE  \E g \in Calls : /\ Moved(g) /\ Kin(g) /\ OpOK(g) /\ g.txs = Front(Top.txs)
                          /\ g.err = err /\ g.pc = pc /\ g.tx = DueRoot /\ g.n = Top.n
<1>1. /\ Top \in Calls /\ Top.txs \in Seq(Nat) /\ Len(Top.txs) \in Nat /\ Len(Top.txs) > 0
      /\ DueRoot \in Nat /\ DueRoot \in DOMAIN txs
      /\ DueManager = "steps" => txs[DueRoot].mgr = "steps" /\ Top.prog = "usecase"
  BY DueFacts
<1>2. /\ Front(Top.txs) \in Seq(Nat) /\ Len(Front(Top.txs)) = Len(Top.txs) - 1
      /\ \A i \in 1..(Len(Top.txs) - 1) : Front(Top.txs)[i] = Top.txs[i]
  BY <1>1, FrontFacts
<1>3. PICK g \in Calls : g = Finished(err, pc)
  BY <1>1, <1>2 DEF Finished, Calls, PCs
<1>4. Moved(g)
  BY <1>3, SetTopMoves DEF Shape
<1>5. /\ Kin(g) /\ g.txs = Front(Top.txs) /\ g.err = err /\ g.pc = pc /\ g.tx = DueRoot
      /\ g.n = Top.n
  BY <1>1, <1>2, <1>3 DEF Finished, Calls, Kin
<1>6. OpOK(Top)
  BY TopOK
<1>7. g.prog = "usecase" => UseOK(g)
  <2> HAVE g.prog = "usecase"
  <2>1. UseOK(Top)
    BY <1>5, <1>6 DEF OpOK, Kin
  <2>2. Top.txs = <<Top.tx>>
    BY <2>1 DEF UseOK
  <2>3. g.txs = << >>
    BY <1>2, <1>5, <2>2
  <2>4. pc = "undo" => g.mgr = "steps"
    <3>1. DueManager = Top.mgr
      BY <2>1, <2>2, DueFacts DEF UseOK
    <3> QED
      BY <1>5, <3>1 DEF Kin
  <2> QED
    BY <1>1, <1>5, <2>1, <2>3, <2>4 DEF UseOK, Kin
<1>8. g.prog = "fanout" => FanShape(g)
  <2> HAVE g.prog = "fanout"
  <2>1. FanShape(Top) /\ g.pc = "finish"
    BY <1>1, <1>5, <1>6 DEF OpOK, Kin
  <2>2. Len(Queues) \in Nat
    BY BoundsAssumption
  <2>3. \A i \in 1..Len(g.txs) : g.txs[i] = Top.txs[i] /\ i \in 1..Len(Top.txs)
    BY <1>1, <1>2, <1>5
  <2>4. Len(g.txs) <= Len(Queues)
    BY <1>1, <1>2, <1>5, <2>1, <2>2 DEF FanShape
  <2> QED
    BY <1>5, <2>1, <2>3, <2>4 DEF FanShape, Kin
<1>9. g.prog \in Migrations => MigShape(g)
  <2> HAVE g.prog \in Migrations
  <2>1. MigShape(Top) /\ g.pc = "finish"
    BY <1>1, <1>5, <1>6 DEF OpOK, Kin, Migrations
  <2>2. \A i \in 1..Len(g.txs) : g.txs[i] = Top.txs[i] /\ i \in 1..Len(Top.txs)
    BY <1>1, <1>2, <1>5
  <2>3. Len(txs) \in Nat /\ Len(g.txs) <= 2 /\ Len(g.txs) <= Len(txs)
    BY <1>1, <1>2, <1>5, <2>1 DEF MigShape, Shape, Types
  <2> QED
    BY <1>5, <2>1, <2>2, <2>3 DEF MigShape, Kin
<1>10. OpOK(g)
  BY <1>7, <1>8, <1>9 DEF OpOK
<1> QED
  BY <1>4, <1>5, <1>10
----------------------------------------------------------------------------
(* What a Finish does: to the levels of a transaction that is rolled back, *)
(* or to the level that is due.                                            *)
RolledBack ==
    LET levels == Levels(DueManager, Due)
    IN  /\ cancelled' = cancelled \cup levels /\ DOMAIN txs' = DOMAIN txs
        /\ \A t \in DOMAIN txs :
              /\ txs'[t].mgr = txs[t].mgr /\ txs'[t].chain = txs[t].chain
              /\ txs'[t].acts = txs[t].acts /\ txs'[t].done = (txs[t].done \/ t \in levels)
              /\ txs'[t].buf = IF t = DueRoot /\ DueManager # "steps" THEN << >> ELSE txs[t].buf

(* A commit marks its level as done and changes no buffer. *)
Marked == /\ cancelled' = cancelled \cup {Due} /\ DOMAIN txs' = DOMAIN txs
          /\ \A t \in DOMAIN txs : t # Due => txs'[t] = txs[t]
          /\ txs'[Due].mgr = txs[Due].mgr /\ txs'[Due].chain = txs[Due].chain
          /\ txs'[Due].acts = txs[Due].acts /\ txs'[Due].buf = txs[Due].buf
          /\ txs'[Due].done

(* The ways in which Finish ends: the level was done before, it is rolled  *)
(* back, it is an inner one, it commits, or its commit fails.              *)
FinishKind(err, pc) ==
    \/ /\ txs[Due].done /\ err /\ pc = "finish" /\ UNCHANGED <<store, txs, cancelled, faults>>
    \/ /\ ~txs[Due].done /\ err /\ (Top.err \/ (Due = DueRoot /\ Err(Due)))
       /\ pc = IF DueManager = "steps" THEN "undo" ELSE "finish"
       /\ RolledBack /\ UNCHANGED <<store, faults>>
    \/ /\ ~txs[Due].done /\ ~Top.err /\ pc = "finish" /\ Marked
       /\ Due # DueRoot /\ err = Err(Due) /\ UNCHANGED <<store, faults>>
    \/ /\ ~txs[Due].done /\ ~Top.err /\ pc = "finish" /\ Marked
       /\ Due = DueRoot /\ ~Err(Due) /\ ~err /\ UNCHANGED faults
       /\ store' = IF DueManager = "steps" THEN store ELSE Applied(DueManager, txs[Due].buf)
    \/ /\ ~txs[Due].done /\ ~Top.err /\ pc = "finish" /\ Marked
       /\ Due = DueRoot /\ ~Err(Due) /\ err /\ DueManager \in Drivers
       /\ Fault /\ UNCHANGED store

(* The changes of a datum are finitely many. *)
LEMMA DeltaType ==
  ASSUME NEW cs \in Seq(Changes), NEW d
  PROVE  Delta(cs, d) \in Int
<1> DEFINE by(n) == {i \in DOMAIN cs : cs[i] = [d |-> d, n |-> n]}
<1>1. DOMAIN cs = 1..Len(cs) /\ Len(cs) \in Nat
  OBVIOUS
<1>2. ASSUME NEW n PROVE Cardinality(by(n)) \in Nat
  <2>1. IsFiniteSet(1..Len(cs))
    BY <1>1, FS_Interval
  <2>2. by(n) \in SUBSET (1..Len(cs))
    BY <1>1
  <2> HIDE DEF by
  <2> QED
    BY <2>1, <2>2, FS_Subset, FS_CardinalityType
<1>3. Delta(cs, d) = Cardinality(by(1)) - Cardinality(by(-1))
  BY DEF Delta
<1> HIDE DEF by
<1> QED
  BY <1>2, <1>3

(* A commit keeps the type of the store. *)
LEMMA AppliedType ==
  ASSUME Types, NEW m \in Managers, NEW cs \in Seq(Changes)
  PROVE  /\ Applied(m, cs) \in [Managers -> [Data -> Int]]
         /\ \A k \in Managers : k # m => Applied(m, cs)[k] = store[k]
         /\ \A d \in Data : Applied(m, cs)[m][d] = store[m][d] + Delta(cs, d)
<1>1. store \in [Managers -> [Data -> Int]]
  BY DEF Types
<1>2. \A d \in Data : store[m][d] + Delta(cs, d) \in Int
  BY <1>1, DeltaType
<1> QED
  BY <1>1, <1>2 DEF Applied

(* RollbackTx: the levels are done, and the root is emptied or not. *)
Emptied(root, levels, empty) ==
    [t \in DOMAIN txs |-> [txs[t] EXCEPT !.done = @ \/ t \in levels,
                                        !.buf = IF t = root /\ empty THEN << >> ELSE @]]

(* What a rollback changes, and what it does not. *)
LEMMA RollsBack ==
  ASSUME Types, NEW root, NEW levels, NEW empty \in BOOLEAN,
         txs' = Emptied(root, levels, empty)
  PROVE  /\ Kept /\ Len(txs') = Len(txs) /\ DOMAIN txs' = DOMAIN txs
         /\ \A t \in DOMAIN txs :
               /\ txs'[t].mgr = txs[t].mgr /\ txs'[t].chain = txs[t].chain
               /\ txs'[t].acts = txs[t].acts /\ txs'[t].done = (txs[t].done \/ t \in levels)
               /\ txs'[t].buf = IF t = root /\ empty THEN << >> ELSE txs[t].buf
<1> DEFINE e(t) == [txs[t] EXCEPT !.done = @ \/ t \in levels,
                                  !.buf = IF t = root /\ empty THEN << >> ELSE @]
<1>1. txs \in Seq(Txs) /\ Len(txs) \in Nat /\ DOMAIN txs = 1..Len(txs)
  BY DEF Types
<1>2. ASSUME NEW t \in DOMAIN txs
      PROVE  /\ e(t) \in Txs /\ e(t).mgr = txs[t].mgr /\ e(t).chain = txs[t].chain
             /\ e(t).acts = txs[t].acts /\ e(t).done = (txs[t].done \/ t \in levels)
             /\ e(t).buf = IF t = root /\ empty THEN << >> ELSE txs[t].buf
  <2>1. txs[t] \in Txs
    BY <1>1
  <2>2. (IF t = root /\ empty THEN << >> ELSE txs[t].buf) \in Seq(Changes)
    BY <2>1 DEF Txs
  <2>3. (txs[t].done \/ t \in levels) \in BOOLEAN
    OBVIOUS
  <2> QED
    BY <2>1, <2>2, <2>3 DEF Txs
<1>3. txs' = [t \in 1..Len(txs) |-> e(t)]
  BY <1>1 DEF Emptied
<1> HIDE DEF e
<1>4. txs' \in [1..Len(txs) -> Txs] /\ \A t \in DOMAIN txs : txs'[t] = e(t)
  BY <1>1, <1>2, <1>3
<1>5. txs' \in Seq(Txs) /\ Len(txs') = Len(txs) /\ DOMAIN txs' = DOMAIN txs
  BY <1>1, <1>4, FunSeq
<1> QED
  BY <1>1, <1>2, <1>4, <1>5 DEF Kept

(* The deferred Finish: it keeps the shape. *)
LEMMA FinishTxShape ==
  ASSUME Shape, FinishTx
  PROVE  /\ Shape' /\ Kept /\ UNCHANGED <<made, called, ret>> /\ Calling
         /\ Top.pc = "finish" /\ Top.txs # << >>
         /\ \E g \in Calls : /\ Moved(g) /\ Kin(g) /\ g.txs = Front(Top.txs)
                             /\ g.tx = DueRoot /\ g.n = Top.n /\ FinishKind(g.err, g.pc)
<1>1. Calling /\ Top.pc = "finish" /\ Top.txs # << >> /\ UNCHANGED <<made, called, ret>>
  BY DEF FinishTx
<1>2. /\ Top \in Calls /\ Due \in DOMAIN txs /\ Due \in 0..Len(txs) /\ txs[Due] \in Txs
      /\ DueManager \in Managers /\ Levels(DueManager, Due) \subseteq DOMAIN txs /\ Types
      /\ DOMAIN txs = 1..Len(txs) /\ Len(txs) \in Nat
      /\ DueManager = "steps" => Top.prog = "usecase"
  BY <1>1, DueFacts DEF Shape, Types
<1>3. ASSUME NEW err \in BOOLEAN, NEW pc \in {"finish", "undo"},
             pc = "undo" => DueManager = "steps" /\ err, SetTop(Finished(err, pc)),
             Kept, DOMAIN txs' = DOMAIN txs, faults' \in 0..MaxFaults,
             store' \in [Managers -> [Data -> Int]],
             cancelled' \subseteq cancelled \cup (0..Len(txs)), cancelled \subseteq cancelled',
             \A t \in DOMAIN txs : txs'[t].done => txs[t].done \/ t \in cancelled',
             FinishKind(err, pc)
      PROVE  /\ Shape' /\ Kept
             /\ \E g \in Calls : /\ Moved(g) /\ Kin(g) /\ g.txs = Front(Top.txs)
                                 /\ g.tx = DueRoot /\ g.n = Top.n /\ FinishKind(g.err, g.pc)
  <2>1. PICK g \in Calls : /\ Moved(g) /\ Kin(g) /\ OpOK(g) /\ g.txs = Front(Top.txs)
                           /\ g.err = err /\ g.pc = pc /\ g.tx = DueRoot /\ g.n = Top.n
    BY <1>1, <1>3, FinishMoves
  <2>2. Len(txs') = Len(txs) /\ made \in 0..MaxData /\ made \in Nat
    BY <1>2, <1>3, BoundsAssumption DEF Kept, Types
  <2>3. Shape'
    BY <1>1, <1>3, <2>1, <2>2, EditShape
  <2> QED
    BY <1>3, <2>1, <2>3
<1>4. CASE txs[Due].done
  <2>1. SetTop(Finished(TRUE, "finish")) /\ UNCHANGED <<store, txs, cancelled, faults>>
    BY <1>4 DEF FinishTx
  <2>2. FinishKind(TRUE, "finish")
    BY <1>4, <2>1 DEF FinishKind
  <2>3. Kept /\ faults' \in 0..MaxFaults /\ store' \in [Managers -> [Data -> Int]]
    BY <1>2, <2>1 DEF Types, Kept
  <2> QED
    BY <1>1, <1>3, <2>1, <2>2, <2>3
<1>5. ASSUME RollbackTx, ~txs[Due].done, Top.err \/ (Due = DueRoot /\ Err(Due))
      PROVE  /\ Shape' /\ Kept
             /\ \E g \in Calls : /\ Moved(g) /\ Kin(g) /\ g.txs = Front(Top.txs)
                                 /\ g.tx = DueRoot /\ g.n = Top.n /\ FinishKind(g.err, g.pc)
  <2>1. PICK pc \in {"finish", "undo"} : pc = IF DueManager = "steps" THEN "undo" ELSE "finish"
    OBVIOUS
  <2>2. PICK empty \in BOOLEAN : empty = (DueManager # "steps")
    OBVIOUS
  <2> DEFINE root == DueRoot
             levels == Levels(DueManager, Due)
  <2>3. /\ SetTop(Finished(TRUE, pc)) /\ UNCHANGED <<store, faults>>
        /\ cancelled' = cancelled \cup levels
    BY <1>5, <2>1, <2>2 DEF RollbackTx
  <2>4. txs' = Emptied(root, levels, empty)
    BY <1>5, <2>2 DEF RollbackTx, Emptied
  <2> HIDE DEF root, levels
  <2>5. /\ Kept /\ Len(txs') = Len(txs) /\ DOMAIN txs' = DOMAIN txs
        /\ \A t \in DOMAIN txs :
               /\ txs'[t].mgr = txs[t].mgr /\ txs'[t].chain = txs[t].chain
               /\ txs'[t].acts = txs[t].acts /\ txs'[t].done = (txs[t].done \/ t \in levels)
               /\ txs'[t].buf = IF t = root /\ empty THEN << >> ELSE txs[t].buf
    BY <1>2, <2>4, RollsBack
  <2>6. RolledBack
    BY <2>2, <2>3, <2>5 DEF RolledBack, root, levels
  <2>7. FinishKind(TRUE, pc)
    BY <1>5, <2>1, <2>3, <2>6 DEF FinishKind
  <2>8. /\ cancelled' \subseteq cancelled \cup (0..Len(txs)) /\ cancelled \subseteq cancelled'
        /\ \A t \in DOMAIN txs : txs'[t].done => txs[t].done \/ t \in cancelled'
    <3>1. levels \subseteq 0..Len(txs)
      BY <1>2 DEF levels
    <3> QED
      BY <2>3, <2>5, <3>1
  <2>9. faults' \in 0..MaxFaults /\ store' \in [Managers -> [Data -> Int]]
    BY <1>2, <2>3 DEF Types
  <2> QED
    BY <1>3, <2>1, <2>3, <2>5, <2>7, <2>8, <2>9
<1>6. ASSUME CommitTx, ~txs[Due].done, ~Top.err, ~(Due = DueRoot /\ Err(Due))
      PROVE  /\ Shape' /\ Kept
             /\ \E g \in Calls : /\ Moved(g) /\ Kin(g) /\ g.txs = Front(Top.txs)
                                 /\ g.tx = DueRoot /\ g.n = Top.n /\ FinishKind(g.err, g.pc)
  <2>1. txs' = [txs EXCEPT ![Due].done = TRUE] /\ cancelled' = cancelled \cup {Due}
    BY <1>6 DEF CommitTx
  <2>2. PICK t \in DOMAIN txs : t = Due
    BY <1>2
  <2>3. [txs[t] EXCEPT !.done = TRUE] \in Txs
    BY <1>2, <2>2 DEF Txs
  <2>4. PICK e \in Txs : e = [txs[t] EXCEPT !.done = TRUE]
    BY <2>3
  <2>5. /\ e.mgr = txs[t].mgr /\ e.chain = txs[t].chain /\ e.acts = txs[t].acts
        /\ e.buf = txs[t].buf /\ e.done
    BY <1>2, <2>2, <2>4 DEF Txs
  <2>6. txs' = [txs EXCEPT ![t] = e]
    BY <2>1, <2>2, <2>4
  <2>7. /\ Kept /\ DOMAIN txs' = DOMAIN txs /\ txs'[t] = e
        /\ \A u \in DOMAIN txs : u # t => txs'[u] = txs[u]
    BY <1>2, <2>5, <2>6, EditFacts
  <2>8. Marked
    BY <2>1, <2>2, <2>5, <2>7 DEF Marked
  <2>9. /\ cancelled' \subseteq cancelled \cup (0..Len(txs)) /\ cancelled \subseteq cancelled'
        /\ \A u \in DOMAIN txs : txs'[u].done => txs[u].done \/ u \in cancelled'
    BY <1>2, <2>1, <2>2, <2>7
  <2>10. CASE Due # DueRoot
    <3>1. SetTop(Finished(Err(Due), "finish")) /\ UNCHANGED <<store, faults>>
      BY <1>6, <2>10 DEF CommitTx
    <3>2. PICK err \in BOOLEAN : err = Err(Due)
      BY DEF Err
    <3>3. FinishKind(err, "finish")
      BY <1>6, <2>8, <2>10, <3>1, <3>2 DEF FinishKind
    <3>4. faults' \in 0..MaxFaults /\ store' \in [Managers -> [Data -> Int]]
      BY <1>2, <3>1 DEF Types
    <3> QED
      BY <1>3, <2>7, <2>9, <3>1, <3>2, <3>3, <3>4
  <2>11. CASE /\ Due = DueRoot /\ SetTop(Finished(FALSE, "finish")) /\ UNCHANGED faults
              /\ store' = IF DueManager = "steps" THEN store
                          ELSE Applied(DueManager, txs[Due].buf)
    <3>1. FinishKind(FALSE, "finish")
      BY <1>6, <2>8, <2>11 DEF FinishKind
    <3>2. txs[Due].buf \in Seq(Changes)
      BY <1>2 DEF Txs
    <3>3. store' \in [Managers -> [Data -> Int]]
      BY <1>2, <2>11, <3>2, AppliedType DEF Types
    <3>4. faults' \in 0..MaxFaults
      BY <1>2, <2>11 DEF Types
    <3> QED
      BY <1>3, <2>7, <2>9, <2>11, <3>1, <3>3, <3>4
  <2>12. CASE /\ Due = DueRoot /\ DueManager \in Drivers /\ Fault
              /\ SetTop(Finished(TRUE, "finish")) /\ UNCHANGED store
    <3>1. FinishKind(TRUE, "finish")
      BY <1>6, <2>8, <2>12 DEF FinishKind
    <3>2. faults' \in 0..MaxFaults /\ store' \in [Managers -> [Data -> Int]]
      BY <1>2, <2>12, FaultType DEF Types
    <3> QED
      BY <1>3, <2>7, <2>9, <2>12, <3>1, <3>2
  <2> QED
    BY <1>6, <2>10, <2>11, <2>12 DEF CommitTx
<1>7. CASE ~txs[Due].done /\ Top.err
  BY <1>1, <1>5, <1>7 DEF FinishTx
<1>8. CASE ~txs[Due].done /\ ~Top.err
  <2>1. CommitTx
    BY <1>8 DEF FinishTx
  <2>2. CASE Due = DueRoot /\ Err(Due)
    BY <1>1, <1>5, <1>8, <2>1, <2>2 DEF CommitTx
  <2>3. CASE ~(Due = DueRoot /\ Err(Due))
    BY <1>1, <1>6, <1>8, <2>1, <2>3
  <2> QED
    BY <2>2, <2>3
<1> QED
  BY <1>4, <1>7, <1>8
----------------------------------------------------------------------------
(* One step of Teardown: it keeps the shape. *)
LEMMA UndoShape ==
  ASSUME Shape, Undo
  PROVE  /\ Shape' /\ Kept /\ DOMAIN txs' = DOMAIN txs
         /\ UNCHANGED <<cancelled, made, called, ret>>
         /\ Calling /\ Top.pc = "undo" /\ Top.prog = "usecase" /\ UseOK(Top)
         /\ \E r \in DOMAIN txs :
               /\ r = Top.tx /\ txs[r].mgr = "steps"
               /\ \/ /\ txs[r].buf = << >> /\ UNCHANGED <<store, txs, faults>>
                     /\ \E g \in Calls : /\ Moved(g) /\ Kin(g) /\ g.pc = "finish" /\ g.err
                                         /\ g.txs = << >> /\ g.tx = r
                  \/ \E s \in Changes :
                       /\ Len(txs[r].buf) > 0 /\ s = txs[r].buf[Len(txs[r].buf)]
                       /\ stack' = stack /\ Moved(Top)
                       /\ \A t \in DOMAIN txs : t # r => txs'[t] = txs[t]
                       /\ txs'[r].buf = Front(txs[r].buf) /\ txs'[r].done = txs[r].done
                       /\ txs'[r].mgr = txs[r].mgr /\ txs'[r].chain = txs[r].chain
                       /\ \/ /\ txs'[r].acts = txs[r].acts
                             /\ store' = [store EXCEPT !["steps"][s.d] = @ - s.n]
                          \/ txs'[r].acts = txs[r].acts \ {s.d} /\ store' = store
<1>1. Calling /\ Top.pc = "undo" /\ UNCHANGED <<cancelled, made, called, ret>>
  BY DEF Undo
<1>2. /\ Top \in Calls /\ Types /\ Chained /\ txs \in Seq(Txs) /\ OpOK(Top)
  BY <1>1, TopOK DEF Shape, Types
<1>3. Top.prog = "usecase" /\ UseOK(Top)
  BY <1>1, <1>2, TopOK DEF OpOK, FanShape, MigShape, Migrations, Calls, Progs
<1>4. PICK r \in DOMAIN txs : r = Top.tx /\ txs[r].mgr = "steps"
  BY <1>1, <1>3 DEF UseOK
<1>5. Top.txs = << >> /\ Top.mgr = "steps" /\ Top.err
  BY <1>1, <1>3 DEF UseOK
<1>6. txs[r] \in Txs /\ txs[r].buf \in Seq(Changes) /\ Len(txs[r].buf) \in Nat
  <2>1. txs[r] \in Txs
    BY <1>2
  <2> QED
    BY <2>1 DEF Txs
<1>7. made \in Nat /\ made \in 0..MaxData /\ faults \in 0..MaxFaults
      /\ store \in [Managers -> [Data -> Int]]
  BY <1>2, BoundsAssumption DEF Types
<1>8. CASE txs[r].buf = << >>
  <2>1. SetTop([Top EXCEPT !.pc = "finish"]) /\ UNCHANGED <<store, txs, faults>>
    BY <1>4, <1>8 DEF Undo
  <2>2. PICK g \in Calls : g = [Top EXCEPT !.pc = "finish"]
    BY <1>2 DEF Calls, PCs
  <2>3. Moved(g)
    BY <1>1, <2>1, <2>2, SetTopMoves DEF Shape
  <2>4. /\ Kin(g) /\ g.pc = "finish" /\ g.err /\ g.txs = << >> /\ g.tx = r
        /\ g.prog = "usecase"
    BY <1>2, <1>3, <1>4, <1>5, <2>2 DEF Calls, Kin
  <2>5. OpOK(g)
    <3>1. UseOK(g)
      BY <1>3, <2>4 DEF UseOK, Kin
    <3> QED
      BY <2>4, <3>1, UseOp
  <2>6. Shape'
    BY <1>1, <1>7, <2>1, <2>3, <2>4, <2>5, PassShape
  <2>7. Kept
    BY <1>2, <2>1 DEF Kept, Types
  <2> QED
    BY <1>1, <1>3, <1>4, <1>8, <2>1, <2>3, <2>4, <2>6, <2>7
<1>9. CASE txs[r].buf # << >>
  <2>1. Len(txs[r].buf) > 0
    BY <1>6, <1>9
  <2>2. PICK s \in Changes : s = txs[r].buf[Len(txs[r].buf)] /\ s = Last(txs[r].buf)
    BY <1>6, <2>1 DEF Last
  <2>3. Front(txs[r].buf) \in Seq(Changes)
    BY <1>6, <2>1, FrontFacts
  <2>4. PICK g \in Calls : g = Top
    BY <1>2
  <2>5. stack' = stack
    BY <1>4, <1>9 DEF Undo
  <2>6. Moved(g) /\ Kin(g) /\ OpOK(g) /\ Moved(Top) /\ g.pc = "undo"
    BY <1>1, <1>2, <2>4, <2>5, UnchangedMoves DEF Kin
  <2>7. s.d \in Data /\ s.n \in Int
    BY DEF Changes
  <2>8. ASSUME NEW e \in Txs, e.mgr = txs[r].mgr, e.chain = txs[r].chain,
               e.done = txs[r].done, txs' = [txs EXCEPT ![r] = e],
               store' \in [Managers -> [Data -> Int]], faults' \in 0..MaxFaults
        PROVE  /\ Shape' /\ Kept /\ DOMAIN txs' = DOMAIN txs /\ txs'[r] = e
               /\ \A t \in DOMAIN txs : t # r => txs'[t] = txs[t]
    <3>1. /\ Kept /\ Len(txs') = Len(txs) /\ DOMAIN txs' = DOMAIN txs /\ txs'[r] = e
          /\ \A t \in DOMAIN txs : t # r => txs'[t] = txs[t]
      BY <1>2, <2>8, EditFacts
    <3>2. \A t \in DOMAIN txs : txs'[t].done = txs[t].done
      BY <2>8, <3>1
    <3>3. Shape'
      BY <1>1, <1>7, <2>6, <2>8, <3>1, <3>2, EditShape
    <3> QED
      BY <3>1, <3>3
  <2>9. CASE /\ store' = [store EXCEPT !["steps"][s.d] = @ - s.n]
             /\ txs' = [txs EXCEPT ![r].buf = Front(@)] /\ UNCHANGED faults
    <3>1. PICK e \in Txs : e = [txs[r] EXCEPT !.buf = Front(@)]
      BY <1>6, <2>3 DEF Txs
    <3>2. /\ e.mgr = txs[r].mgr /\ e.chain = txs[r].chain /\ e.done = txs[r].done
          /\ e.acts = txs[r].acts /\ e.buf = Front(txs[r].buf)
      BY <1>6, <3>1 DEF Txs
    <3>3. txs' = [txs EXCEPT ![r] = e]
      BY <2>9, <3>1
    <3>4. store' \in [Managers -> [Data -> Int]]
      BY <1>7, <2>7, <2>9 DEF Managers
    <3>6. /\ Shape' /\ Kept /\ DOMAIN txs' = DOMAIN txs /\ txs'[r] = e
          /\ \A t \in DOMAIN txs : t # r => txs'[t] = txs[t]
      BY <1>7, <2>8, <2>9, <3>2, <3>3, <3>4
    <3> QED
      BY <1>1, <1>3, <1>4, <2>1, <2>2, <2>5, <2>6, <2>9, <3>2, <3>6
  <2>10. CASE /\ Fault /\ UNCHANGED store
              /\ txs' = [txs EXCEPT ![r].buf = Front(@), ![r].acts = @ \ {s.d}]
    <3>1. PICK e \in Txs : e = [txs[r] EXCEPT !.buf = Front(@), !.acts = @ \ {s.d}]
      BY <1>6, <2>3 DEF Txs
    <3>2. /\ e.mgr = txs[r].mgr /\ e.chain = txs[r].chain /\ e.done = txs[r].done
          /\ e.acts = txs[r].acts \ {s.d} /\ e.buf = Front(txs[r].buf)
      BY <1>6, <3>1 DEF Txs
    <3>3. txs' = [txs EXCEPT ![r] = e]
      BY <1>6, <2>10, <3>1 DEF Txs
    <3>4. faults' \in 0..MaxFaults /\ store' \in [Managers -> [Data -> Int]]
      BY <1>2, <1>7, <2>10, FaultType
    <3>5. /\ Shape' /\ Kept /\ DOMAIN txs' = DOMAIN txs /\ txs'[r] = e
          /\ \A t \in DOMAIN txs : t # r => txs'[t] = txs[t]
      BY <2>8, <3>2, <3>3, <3>4
    <3> QED
      BY ZenonT(40), <1>1, <1>3, <1>4, <2>1, <2>2, <2>5, <2>6, <2>10, <3>2, <3>5
  <2> QED
    BY <1>4, <1>9, <2>2, <2>9, <2>10 DEF Undo
<1> QED
  BY <1>8, <1>9
----------------------------------------------------------------------------
(* A context is cancelled: it keeps the shape. *)
LEMMA CancelShape ==
  ASSUME Shape, NEW c \in 0..Len(txs), Cancel(c)
  PROVE  /\ Shape' /\ UNCHANGED <<store, txs, stack, made, called, ret>> /\ Calling
         /\ Moved(Top) /\ faults < MaxFaults /\ faults' = faults + 1
         /\ cancelled' = cancelled \cup {c}
<1>1. /\ Calling /\ Fault /\ cancelled' = cancelled \cup {c}
      /\ UNCHANGED <<store, txs, stack, made, called, ret>>
  BY DEF Cancel
<1>2. Top \in Calls /\ OpOK(Top) /\ Types
  BY <1>1, TopOK DEF Shape
<1>3. PICK g \in Calls : g = Top
  BY <1>2
<1>4. Moved(g) /\ Kin(g) /\ OpOK(g) /\ Moved(Top)
  BY <1>1, <1>2, <1>3, UnchangedMoves DEF Kin
<1>5. Kept /\ Len(txs') = Len(txs)
  BY <1>1, <1>2 DEF Kept, Types
<1>6. /\ made <= made' /\ made' \in 0..MaxData /\ store' \in [Managers -> [Data -> Int]]
      /\ faults' \in 0..MaxFaults
  BY <1>1, <1>2, FaultType, BoundsAssumption DEF Types
<1>7. Shape'
  BY <1>1, <1>3, <1>4, <1>5, <1>6, EditShape
<1> QED
  BY <1>1, <1>4, <1>7 DEF Fault

(* A migration dies: it keeps the shape. *)
LEMMA CrashShape ==
  ASSUME Shape, Crash
  PROVE  /\ Shape' /\ UNCHANGED <<store, cancelled, made, called, ret>> /\ Calling
         /\ Top.prog \in Migrations /\ stack' = << >> /\ txs' = << >>
         /\ faults < MaxFaults /\ faults' = faults + 1
<1>1. /\ Calling /\ Fault /\ Top.prog \in Migrations /\ stack' = << >> /\ txs' = << >>
      /\ UNCHANGED <<store, cancelled, made, called, ret>>
  BY DEF Crash
<1>2. << >> \in Seq(Calls) /\ << >> \in Seq(Txs)
  OBVIOUS
<1>3. Types'
  BY <1>1, <1>2, FaultType DEF Shape, Types
<1>4. Sizes'
  <2>1. Len(txs') = 0 /\ DOMAIN txs' = {} /\ ~Calling'
    BY <1>1 DEF Calling
  <2> QED
    BY <1>1, <2>1, BoundsAssumption DEF Shape, Sizes
<1>5. Chained'
  BY <1>1 DEF Chained
<1>6. Stacked'
  BY <1>1 DEF Stacked, RetApart
<1> QED
  BY <1>1, <1>3, <1>4, <1>5, <1>6 DEF Shape, Fault

(* The caller of a call that returns. *)
LEMMA ReturnShape ==
  ASSUME Shape, Return
  PROVE  /\ Shape' /\ UNCHANGED <<store, txs, cancelled, made, faults, called>> /\ Calling
         /\ Top.pc = "finish" /\ Top.txs = << >> /\ ret' = Top
         /\ Len(stack') = Len(stack) - 1 /\ DOMAIN stack' = 1..(Len(stack) - 1)
         /\ \A i \in 1..(Len(stack) - 1), e, g \in Calls :
               e = stack[i] /\ g = stack'[i] =>
                  \/ g = e
                  \/ /\ g.pc = "finish" /\ g.err /\ g.txs = e.txs /\ g.tx = e.tx
                     /\ g.prog = e.prog /\ g.mgr = e.mgr /\ g.alone = e.alone
         /\ \A i \in DOMAIN stack' : stack[i] \in Calls /\ stack'[i] \in Calls
                                     /\ stack[i].prog = "usecase" /\ stack[i].pc = "body"
<1>1. /\ Calling /\ Top.pc = "finish" /\ Top.txs = << >> /\ ret' = Top
      /\ UNCHANGED <<store, txs, cancelled, made, faults, called>>
      /\ Types /\ Chained /\ Stacked
  BY DEF Return, Shape
<1>2. /\ Top \in Calls /\ Top.ctx \in 0..Len(txs) /\ Top = stack[Len(stack)]
      /\ Len(stack) \in Nat /\ Len(stack) > 0 /\ stack \in Seq(Calls)
      /\ Top.alone <=> Levels(Top.mgr, Top.ctx) = {}
  BY <1>1, TopOK, TopFacts DEF Types
<1>3. PICK n \in Nat : n = Len(stack) - 1 /\ Len(stack) = n + 1
  BY <1>2
<1>4. PICK callers \in Seq(Calls) : /\ callers = Front(stack) /\ Len(callers) = n
                                    /\ \A i \in 1..n : callers[i] = stack[i]
  BY <1>2, <1>3, FrontFacts
<1>5. ASSUME NEW i \in 1..n
      PROVE  /\ stack[i] \in Calls /\ stack[i].prog = "usecase" /\ stack[i].pc = "body"
             /\ CallOK(i, stack[i]) /\ UseOK(stack[i])
             /\ stack[i].tx \in Chain(Top.ctx) /\ stack[i].tx \in DOMAIN txs
             /\ txs[stack[i].tx].mgr = stack[i].mgr
  <2>1. i \in DOMAIN stack /\ i < Len(stack) /\ i \in 1..(Len(stack) - 1)
    BY <1>2, <1>3
  <2>2. stack[i] \in Calls
    BY <1>2, <2>1
  <2>3. CallOK(i, stack[i]) /\ CallOK(Len(stack), Top)
    BY <1>1, <1>2, <2>1, <2>2 DEF Stacked
  <2>4. stack[i].prog = "usecase" /\ stack[i].pc = "body" /\ stack[i].tx \in Chain(Top.ctx)
    BY <2>1, <2>3 DEF CallOK
  <2>5. UseOK(stack[i])
    BY <2>3, <2>4 DEF CallOK, OpOK
  <2> QED
    BY <2>2, <2>3, <2>4, <2>5 DEF UseOK
<1>6. /\ stack' \in Seq(Calls) /\ Len(stack') = n /\ DOMAIN stack' = 1..n
      /\ \A i \in 1..n : i # n => stack'[i] = stack[i]
      /\ n > 0 => \/ stack'[n] = stack[n]
                  \/ stack'[n] = [stack[n] EXCEPT !.pc = "finish", !.err = TRUE]
  <2>1. CASE stack' = callers
    BY <1>4, <2>1
  <2>2. CASE /\ callers # << >>
             /\ stack' = Append(Front(callers),
                                [Last(callers) EXCEPT !.pc = "finish", !.err = TRUE])
    <3>1. n > 0 /\ Last(callers) = stack[n] /\ n \in 1..n
      BY <1>3, <1>4, <2>2 DEF Last
    <3>2. [stack[n] EXCEPT !.pc = "finish", !.err = TRUE] \in Calls
      BY <1>5, <3>1 DEF Calls, PCs
    <3>3. /\ Front(callers) \in Seq(Calls) /\ Len(Front(callers)) = n - 1
          /\ \A i \in 1..(n - 1) : Front(callers)[i] = callers[i]
      BY <1>4, <3>1, FrontFacts
    <3>4. PICK f \in Calls : f = [stack[n] EXCEPT !.pc = "finish", !.err = TRUE]
      BY <3>2
    <3>5. stack' = Append(Front(callers), f)
      BY <2>2, <3>1, <3>4
    <3>6. /\ stack' \in Seq(Calls) /\ Len(stack') = n /\ stack'[n] = f
          /\ \A i \in 1..(n - 1) : stack'[i] = Front(callers)[i]
      BY <1>3, <3>3, <3>5, AppendFacts
    <3>7. \A i \in 1..n : i # n => stack'[i] = stack[i]
      BY <1>3, <1>4, <3>3, <3>6
    <3> QED
      BY <3>4, <3>6, <3>7
  <2> QED
    BY <1>4, <2>1, <2>2 DEF Return
<1>7. ASSUME NEW i \in 1..n, NEW e \in Calls, NEW g \in Calls, e = stack[i], g = stack'[i]
      PROVE  /\ g.prog = e.prog /\ g.ctx = e.ctx /\ g.mgr = e.mgr /\ g.alone = e.alone
             /\ g.txs = e.txs /\ g.tx = e.tx /\ (i # n => g = e)
             /\ g = e \/ (g.pc = "finish" /\ g.err)
  <2>1. CASE g = e
    BY <2>1
  <2>2. CASE g # e
    <3>1. i = n /\ g = [e EXCEPT !.pc = "finish", !.err = TRUE]
      <4>1. i = n /\ n > 0
        BY <1>3, <1>6, <1>7, <2>2
      <4> QED
        BY <1>6, <1>7, <2>2, <4>1
    <3> QED
      BY <3>1 DEF Calls
  <2> QED
    BY <2>1, <2>2
<1>8. ASSUME NEW i \in 1..n PROVE stack'[i].tx = stack[i].tx /\ stack'[i].mgr = stack[i].mgr
  <2>1. stack[i] \in Calls /\ stack'[i] \in Calls
    BY <1>5, <1>6
  <2> QED
    BY <1>7, <2>1
<1>9. ASSUME NEW i \in 1..n, NEW g \in Calls, g = stack'[i]
      PROVE  CallOK(i, g)'
  <2>1. PICK e \in Calls : e = stack[i]
    BY <1>5
  <2>2. CallOK(i, e) /\ UseOK(e) /\ e.prog = "usecase" /\ e.pc = "body"
    BY <1>5, <2>1
  <2>3. /\ g.prog = e.prog /\ g.ctx = e.ctx /\ g.mgr = e.mgr /\ g.alone = e.alone
        /\ g.txs = e.txs /\ g.tx = e.tx /\ (i # n => g = e)
        /\ g = e \/ (g.pc = "finish" /\ g.err)
    BY <1>7, <1>9, <2>1
  <2>4. e.ctx \in 0..Len(txs) /\ Kept
    BY <1>1, <2>2 DEF CallOK, Kept, Types
  <2>5. Chain(g.ctx)' = Chain(e.ctx) /\ Levels(g.mgr, g.ctx)' = Levels(e.mgr, e.ctx)
    BY <1>1, <2>3, <2>4, KeptLevels
  <2>6. OpOK(g)'
    <3>1. UseOK(g)
      BY <2>2, <2>3 DEF UseOK
    <3>2. UseOK(g)'
      BY <1>1, <2>3, <2>4, <3>1, UseKeeps
    <3> QED
      BY <2>2, <2>3, <3>2, UseOp
  <2>7. \A j \in 1..(i - 1) : j \in 1..n
    BY <1>3
  <2>8. g.ctx = IF i = 1 THEN 0 ELSE stack'[i - 1].tx
    <3>1. i # 1 => i - 1 \in 1..(i - 1)
      BY <1>3
    <3> QED
      BY <1>8, <2>2, <2>3, <2>7, <3>1 DEF CallOK
  <2>9. \A j \in 1..(i - 1) : stack'[j].tx \in Chain(g.ctx)'
    BY <1>8, <2>2, <2>5, <2>7 DEF CallOK
  <2>10. i < Len(stack') => g.pc = "body"
    BY <1>3, <1>6, <2>2, <2>3
  <2> QED
    BY <1>1, <2>2, <2>3, <2>4, <2>5, <2>6, <2>8, <2>9, <2>10 DEF CallOK, Migrations
<1>10. RetApart'
  <2> SUFFICES ASSUME Top.alone, NEW i \in 1..n
               PROVE  Type(stack'[i].mgr) # Type(Top.mgr)
    BY <1>1, <1>6 DEF RetApart, Type
  <2>1. Levels(Top.mgr, Top.ctx) = {}
    BY <1>2
  <2>2. /\ stack[i].tx \in Chain(Top.ctx) /\ stack[i].tx # 0
        /\ txs[stack[i].tx].mgr = stack[i].mgr
    <3>1. stack[i].tx \in DOMAIN txs
      BY <1>5
    <3>2. stack[i].tx # 0
      BY <1>1, <3>1 DEF Types
    <3> QED
      BY <1>5, <3>2
  <2>3. Type(stack[i].mgr) # Type(Top.mgr)
    BY <2>1, <2>2 DEF Levels
  <2> QED
    BY <1>8, <2>3 DEF Type
<1>11. Stacked'
  BY <1>6, <1>9, <1>10 DEF Stacked
<1>12. Types'
  BY <1>1, <1>2, <1>6 DEF Types
<1>13. Chained'
  BY <1>1 DEF Chained
<1>14. Sizes'
  <2>1. Calling' => Top'.pc # "begin"
    <3> HAVE Calling'
    <3>1. n > 0
      BY <1>3, <1>6 DEF Calling
    <3>2. Top' = stack'[n] /\ n \in 1..n
      BY <1>3, <1>6, <3>1 DEF Top, Last
    <3>3. stack[n] \in Calls /\ stack'[n] \in Calls /\ stack[n].pc = "body"
      BY <1>5, <1>6, <3>2
    <3> QED
      BY <1>7, <3>2, <3>3
  <2> QED
    BY <1>1, <2>1 DEF Shape, Sizes
<1>15. Shape'
  BY <1>11, <1>12, <1>13, <1>14 DEF Shape
<1>16. \A i \in 1..n : stack[i] \in Calls /\ stack'[i] \in Calls
                       /\ stack[i].prog = "usecase" /\ stack[i].pc = "body"
  BY <1>5, <1>6
<1> QED
  BY <1>1, <1>3, <1>6, <1>7, <1>15, <1>16
----------------------------------------------------------------------------
(* A call that begins, from a use case in its body or from nowhere. *)
CallKind(prog, m, n, arg) ==
    /\ prog \in {"usecase", "fanout"} \cup Migrations /\ m \in Managers
    /\ n \in Int /\ arg \in Nat
    /\ prog = "usecase" => m \in {"steps"} \cup ToSet(Queues)
    /\ prog = "fanout" => m = Queues[1] /\ n = 1 /\ arg = made + 1
    /\ prog \in Migrations =>
          /\ ~Calling /\ m = "state" /\ arg \in 0..Versions
          /\ n = IF prog = "up" THEN 1 ELSE Versions

(* The call that a program starts with. *)
Called(f, prog, m, n, arg) ==
    /\ f.prog = prog /\ f.mgr = m /\ f.n = n /\ f.arg = arg /\ f.pc = "begin"
    /\ f.txs = << >> /\ f.tx = 0 /\ ~f.err
    /\ f.was = {v \in Data : store["state"][v] > 0}

(* A call begins: it keeps the shape. *)
LEMMA CallShape ==
  ASSUME Shape, NEW prog, NEW m, NEW n, NEW arg, CallKind(prog, m, n, arg),
         Call(prog, m, n, arg)
  PROVE  /\ Shape' /\ UNCHANGED <<store, faults>> /\ ret' = NoCall
         /\ called' = called \cup {prog}
         /\ prog = "fanout" => made < MaxData
         /\ made' = IF prog = "fanout" THEN made + 1 ELSE made
         /\ txs' = IF Calling THEN txs ELSE << >>
         /\ cancelled' = IF Calling THEN cancelled ELSE {}
         /\ \E f \in Calls : /\ stack' = Append(stack, f) /\ Called(f, prog, m, n, arg)
                             /\ Calling' /\ Top' = f
         /\ stack \in Seq(Calls)
<1> DEFINE was == {v \in Data : store["state"][v] > 0}
           ctx == IF Calling THEN Last(Top.txs) ELSE 0
<1>1. /\ Calling => Top.prog = "usecase" /\ Top.pc = "body"
      /\ prog = "fanout" => made < MaxData
      /\ made' = (IF prog = "fanout" THEN made + 1 ELSE made)
      /\ txs' = (IF Calling THEN txs ELSE << >>)
      /\ cancelled' = (IF Calling THEN cancelled ELSE {})
      /\ called' = called \cup {prog} /\ ret' = NoCall /\ UNCHANGED <<store, faults>>
  BY DEF Call
<1>2. /\ Types /\ Chained /\ Stacked /\ Sizes /\ stack \in Seq(Calls) /\ Len(stack) \in Nat
      /\ Len(txs) \in Nat /\ DOMAIN txs = 1..Len(txs) /\ DOMAIN stack = 1..Len(stack)
      /\ Calling <=> Len(stack) > 0
  BY DEF Shape, Types, Calling
<1>3. Calling => /\ Top \in Calls /\ Top.txs = <<Top.tx>> /\ ctx = Top.tx
                 /\ Top.tx \in DOMAIN txs /\ Top = stack[Len(stack)] /\ UseOK(Top)
                 /\ CallOK(Len(stack), Top) /\ Chain(Top.tx) = Chain(Top.ctx) \cup {Top.tx}
  <2> HAVE Calling
  <2>1. /\ Top \in Calls /\ UseOK(Top) /\ Top = stack[Len(stack)]
        /\ Len(stack) \in DOMAIN stack
    BY <1>1, <1>2, TopOK, TopFacts
  <2>2. Top.txs = <<Top.tx>> /\ Top.tx \in DOMAIN txs
    BY <1>1, <2>1 DEF UseOK
  <2>3. ctx = Top.tx
    BY <2>2 DEF Last
  <2>4. CallOK(Len(stack), Top)
    BY <1>2, <2>1 DEF Stacked
  <2>5. Chain(Top.tx) = Chain(Top.ctx) \cup {Top.tx}
    BY <1>1, <1>2, <2>1, <2>2 DEF UseOK, Chain
  <2> QED
    BY <2>1, <2>2, <2>3, <2>4, <2>5
<1>4. PICK c \in 0..Len(txs) : c = ctx /\ (Calling => c = Top.tx) /\ (~Calling => c = 0)
  BY <1>2, <1>3
<1>5. PICK alone \in BOOLEAN : alone = (Levels(m, c) = {})
  OBVIOUS
<1>6. PICK f \in Calls :
         f = [NoCall EXCEPT !.prog = prog, !.pc = "begin", !.ctx = c, !.mgr = m, !.n = n,
                            !.arg = arg, !.was = was, !.alone = alone]
  <2>1. was \in SUBSET Data /\ << >> \in Seq(Nat) /\ c \in Nat
    BY <1>2
  <2>2. prog \in Progs /\ m \in Managers \cup {"none"} /\ n \in Int /\ arg \in Nat
    BY DEF CallKind, Progs, Migrations
  <2> HIDE DEF was
  <2> QED
    BY <2>1, <2>2 DEF NoCall, Calls, PCs
<1>7. stack' = Append(stack, f)
  BY <1>4, <1>5, <1>6 DEF Call
<1>8. /\ Called(f, prog, m, n, arg) /\ f.ctx = c /\ f.alone = alone
  BY <1>6 DEF Called, NoCall
<1>9. /\ stack' \in Seq(Calls) /\ Len(stack') = Len(stack) + 1 /\ stack'[Len(stack) + 1] = f
      /\ DOMAIN stack' = 1..(Len(stack) + 1)
      /\ \A i \in 1..Len(stack) : stack'[i] = stack[i]
  BY <1>2, <1>7, AppendFacts
<1>10. Calling' /\ Top' = f
  BY <1>2, <1>9 DEF Calling, Top, Last
<1> HIDE DEF was, ctx
<1>11. NoCall \in Calls
  <2>1. << >> \in Seq(Nat)
    OBVIOUS
  <2> QED
    BY <2>1 DEF NoCall, Calls, PCs, Progs
<1>12. txs' \in Seq(Txs) /\ (Calling => txs' = txs) /\ (~Calling => txs' = << >>)
  BY <1>1, <1>2 DEF Types
<1>13. made' \in 0..MaxData /\ made \in 0..MaxData /\ made \in Nat /\ made <= made'
  BY <1>1, <1>2, BoundsAssumption DEF Types
<1>14. Types'
  <2>1. called' \subseteq Progs
    BY <1>1, <1>2 DEF Types, CallKind, Progs, Migrations
  <2> QED
    BY <1>1, <1>2, <1>9, <1>11, <1>12, <1>13, <2>1 DEF Types
<1>15. Chained'
  <2>1. CASE Calling
    BY <1>2, <1>12, <2>1 DEF Chained
  <2>2. CASE ~Calling
    BY <1>12, <2>2 DEF Chained
  <2> QED
    BY <2>1, <2>2
<1>16. Sizes'
  <2>1. Left(f) = CASE prog = "usecase" -> 1 [] prog = "fanout" -> Len(Queues) [] OTHER -> 2
    <3>1. Len(f.txs) = 0 /\ f.prog = prog /\ Len(Queues) \in Nat
      BY <1>8, BoundsAssumption DEF Called
    <3>2. prog = "fanout" => f.n = 1
      BY <1>8 DEF Called, CallKind
    <3> QED
      BY <3>1, <3>2 DEF Left
  <2>2. (IF Calling THEN Len(txs) ELSE 0) + Left(f) <= MaxTx
    BY <2>1 DEF Call
  <2>3. Len(txs') = IF Calling THEN Len(txs) ELSE 0
    BY <1>12
  <2>4. Len(txs') + Left(Top)' <= MaxTx
    BY <1>10, <2>2, <2>3 DEF Left
  <2>5. Len(txs') <= MaxTx
    BY <1>2, <2>3, BoundsAssumption DEF Sizes
  <2>6. cancelled' \subseteq 0..MaxTx /\ cancelled' \subseteq 0..Len(txs')
    BY <1>1, <1>2, <2>3 DEF Sizes
  <2>7. \A t \in DOMAIN txs' : txs'[t].done => t \in cancelled'
    <3>1. CASE Calling
      BY <1>1, <1>2, <1>12, <3>1 DEF Sizes
    <3>2. CASE ~Calling
      BY <1>12, <3>2
    <3> QED
      BY <3>1, <3>2
  <2> QED
    BY <2>4, <2>5, <2>6, <2>7 DEF Sizes
<1>17. OpOK(f)'
  <2>1. prog = "usecase" => UseOK(f)'
    BY <1>8 DEF UseOK, Called, CallKind
  <2>2. prog = "fanout" => FanShape(f)'
    <3> HAVE prog = "fanout"
    <3>1. made' = made + 1 /\ f.mgr = Queues[1] /\ f.n = 1 /\ f.arg = made + 1 /\ Len(f.txs) = 0
      BY <1>1, <1>8 DEF Called, CallKind
    <3> QED
      BY <1>8, <1>13, <3>1, BoundsAssumption DEF FanShape, Called
  <2>3. prog \in Migrations => MigShape(f)'
    <3> HAVE prog \in Migrations
    <3>1. /\ ~Calling /\ f.mgr = "state" /\ f.ctx = 0 /\ f.arg \in 0..Versions /\ f.prog = prog
          /\ f.n = IF prog = "up" THEN 1 ELSE Versions
      BY <1>4, <1>8 DEF Called, CallKind
    <3>2. Len(f.txs) = 0 /\ Len(txs') = 0
      BY <1>8, <1>12, <3>1 DEF Called
    <3>3. f.n \in IF f.prog = "up" THEN 1..(Versions + 1) ELSE f.arg..Versions
      BY <3>1, BoundsAssumption
    <3> QED
      BY <1>8, <3>1, <3>2, <3>3 DEF MigShape, Called
  <2> QED
    BY <1>8, <2>1, <2>2, <2>3 DEF OpOK, Called
<1>18. CASE ~Calling
  <2>1. Len(stack) = 0 /\ DOMAIN stack' = 1..1 /\ stack'[1] = f /\ Len(stack') = 1
    BY <1>2, <1>9, <1>18
  <2>2. c = 0 /\ Levels(m, 0) = {} /\ Levels(m, 0)' = {}
    BY <1>4, <1>18 DEF Levels, Chain
  <2>3. Len(txs') = 0
    BY <1>12, <1>18
  <2>4. CallOK(1, f)'
    <3>1. f.mgr = m /\ f.ctx = 0 /\ f.prog = prog /\ prog # "none" /\ f.alone
      BY <1>5, <1>8, <2>2 DEF Called, CallKind, Migrations
    <3>2. (f.alone <=> Levels(f.mgr, f.ctx) = {})'
      BY <2>2, <3>1
    <3>3. \A j \in 1..(1 - 1) : FALSE
      OBVIOUS
    <3> QED
      BY <1>1, <1>17, <2>1, <2>3, <3>1, <3>2, <3>3 DEF CallOK
  <2>5. Stacked'
    BY <1>1, <2>1, <2>4 DEF Stacked, RetApart, NoCall
  <2> QED
    BY <1>1, <1>2, <1>7, <1>8, <1>10, <1>14, <1>15, <1>16, <2>5 DEF Shape
<1>20. PICK k \in Nat : k = Len(stack)
  BY <1>2
<1>19. CASE Calling
  <2>1. Kept /\ c = Top.tx /\ txs' = txs
    BY <1>2, <1>4, <1>12, <1>19 DEF Kept, Types
  <2>2. /\ Chain(c)' = Chain(c) /\ Levels(m, c)' = Levels(m, c)
    BY <1>2, <2>1, KeptLevels
  <2>3. CallOK(k + 1, f)'
    <3>1. f.ctx = stack'[k].tx /\ k # 0
      BY <1>2, <1>3, <1>4, <1>8, <1>9, <1>20, <1>19
    <3>2. \A j \in 1..k : stack'[j].tx \in Chain(c)
      <4>1. \A j \in 1..(k - 1) : stack[j].tx \in Chain(Top.ctx)
        BY <1>20, <1>3, <1>19 DEF CallOK
      <4>2. \A j \in 1..k : j = k \/ j \in 1..(k - 1)
        OBVIOUS
      <4> QED
        BY <1>2, <1>3, <1>9, <1>20, <1>19, <2>1, <4>1, <4>2
    <3>3. c \in 0..Len(txs')
      BY <2>1
    <3>4. prog \notin Migrations /\ prog # "none"
      BY <1>19 DEF CallKind, Migrations
    <3>5. f.mgr = m /\ f.ctx = c /\ f.prog = prog
      BY <1>8 DEF Called
    <3>6. (f.alone <=> Levels(f.mgr, f.ctx) = {})'
      BY <1>5, <1>8, <2>2, <3>5
    <3>7. \A j \in 1..(k + 1 - 1) : stack'[j].tx \in Chain(f.ctx)'
      BY <1>2, <2>2, <3>2, <3>5
    <3>8. f.ctx = IF k + 1 = 1 THEN 0 ELSE stack'[k + 1 - 1].tx
      BY <1>2, <1>20, <3>1
    <3> QED
      BY <1>2, <1>9, <1>20, <1>17, <3>3, <3>4, <3>5, <3>6, <3>7, <3>8 DEF CallOK
  <2>4. ASSUME NEW i \in 1..k, NEW e \in Calls, e = stack'[i]
        PROVE  CallOK(i, e)'
    <3>1. e = stack[i] /\ CallOK(i, e)
      BY <1>2, <1>9, <1>20, <2>4 DEF Stacked
    <3>2. e.prog = "usecase" /\ e.pc = "body" /\ UseOK(e)
      <4>1. CASE i = k
        BY <1>1, <1>3, <1>19, <1>20, <3>1, <4>1
      <4>2. CASE i # k
        <5>1. i < Len(stack)
          BY <1>20, <4>2
        <5> QED
          BY <3>1, <5>1 DEF CallOK, OpOK
      <4> QED
        BY <4>1, <4>2
    <3>3. e.ctx \in 0..Len(txs)
      BY <3>1 DEF CallOK
    <3>4. /\ Chain(e.ctx)' = Chain(e.ctx) /\ Levels(e.mgr, e.ctx)' = Levels(e.mgr, e.ctx)
      BY <1>2, <2>1, <3>3, KeptLevels
    <3>5. OpOK(e)'
      BY <1>2, <2>1, <3>2, <3>3, UseKeeps, UseOp
    <3>6. \A j \in 1..(i - 1) : stack'[j] = stack[j]
      BY <1>2, <1>9, <1>20
    <3>7. e.ctx = IF i = 1 THEN 0 ELSE stack'[i - 1].tx
      <4>1. i # 1 => i - 1 \in 1..(i - 1)
        BY <1>2
      <4> QED
        BY <3>1, <3>6, <4>1 DEF CallOK
    <3>8. \A j \in 1..(i - 1) : stack'[j].tx \in Chain(e.ctx)'
      BY <3>1, <3>4, <3>6 DEF CallOK
    <3>9. (e.alone <=> Levels(e.mgr, e.ctx) = {})'
      BY <3>1, <3>4 DEF CallOK
    <3>10. e.ctx \in 0..Len(txs')
      BY <2>1, <3>3
    <3> QED
      BY <3>2, <3>5, <3>7, <3>8, <3>9, <3>10 DEF CallOK, Migrations
  <2>5. Stacked'
    <3>1. \A i \in DOMAIN stack' : i \in 1..k \/ i = k + 1
      BY <1>2, <1>9, <1>20
    <3>2. \A i \in DOMAIN stack', e \in Calls : e = stack'[i] => CallOK(i, e)'
      BY <1>9, <1>20, <2>3, <2>4, <3>1
    <3>3. RetApart'
      BY <1>1 DEF RetApart, NoCall
    <3> QED
      BY <3>2, <3>3 DEF Stacked
  <2> QED
    BY <1>1, <1>2, <1>7, <1>8, <1>10, <1>14, <1>15, <1>16, <2>5 DEF Shape
<1> QED
  BY <1>18, <1>19
----------------------------------------------------------------------------
(* PART A.  Transactions of steps. *)

(* What a transaction of steps is, it stays. *)
LEMMA QuietTxsSteps ==
  ASSUME Shape, Steps, Kept, QuietTxs, store'["steps"] = store["steps"],
         made <= made', made' \in Int
  PROVE  (\A t \in DOMAIN txs' : StepsOK(t)') /\ Apart'
<1>1. /\ DOMAIN txs = 1..Len(txs) /\ DOMAIN txs' = 1..Len(txs') /\ made \in Int
      /\ \A t \in DOMAIN txs : txs'[t].mgr = txs[t].mgr /\ txs[t] \in Txs
  BY DEF Shape, Types, Kept
<1>2. ASSUME NEW t \in DOMAIN txs' PROVE StepsOK(t)'
  <2>1. CASE t \notin DOMAIN txs
    BY <2>1 DEF QuietTxs, StepsOK
  <2>2. CASE t \in DOMAIN txs /\ txs[t].mgr # "steps"
    BY <1>1, <2>2 DEF QuietTxs, Steps, StepsOK
  <2>3. CASE t \in DOMAIN txs /\ txs[t].mgr = "steps"
    <3>1. /\ txs'[t].acts = txs[t].acts /\ txs'[t].buf = txs[t].buf
          /\ txs'[t].done = txs[t].done /\ txs'[t].mgr = "steps"
      BY <1>1, <2>3 DEF QuietTxs
    <3>2. \A d \in txs[t].acts : d \in Int
      BY <1>1, <2>3, BoundsAssumption DEF Txs, Data
    <3>3. \A d \in txs[t].acts : d <= made => d <= made'
      BY <1>1, <3>2
    <3>4. \A d : Held(txs[t].buf, d)' <=> Held(txs[t].buf, d)
      BY <3>1 DEF Held
    <3>5. StepsOK(t)
      BY <2>3 DEF Steps
    <3> QED
      BY <2>3, <3>1, <3>3, <3>4, <3>5 DEF StepsOK
  <2> QED
    BY <2>1, <2>2, <2>3
<1>3. Apart'
  <2>1. \A t \in DOMAIN txs' : txs'[t].acts = IF t \in DOMAIN txs THEN txs[t].acts ELSE {}
    BY DEF QuietTxs
  <2> QED
    BY <2>1 DEF Steps, Apart
<1> QED
  BY <1>2, <1>3

(* A transaction of steps that is over stays over. *)
LEMMA SettledStays ==
  ASSUME Shape, Kept, QuietTxs, NEW t, NEW err, Settled(t, err)
  PROVE  Settled(t, err)'
<1>1. /\ DOMAIN txs \subseteq DOMAIN txs' /\ t \in DOMAIN txs /\ txs[t].mgr = "steps"
      /\ txs'[t].mgr = txs[t].mgr
  BY DEF Shape, Types, Kept, Settled
<1>2. txs'[t].acts = txs[t].acts /\ txs'[t].buf = txs[t].buf
  BY <1>1 DEF QuietTxs
<1>3. \A b, d : Held(b, d)' <=> Held(b, d)
  BY DEF Held
<1> QED
  BY <1>1, <1>2, <1>3 DEF Settled, Held

(* A step that leaves the transactions of steps alone. *)
LEMMA QuietSteps ==
  ASSUME Shape, Steps, Calling, Kept, QuietTxs, store'["steps"] = store["steps"],
         made <= made', made' \in Int, ret' = ret, Top.pc # "undo",
         NEW g \in Calls, Moved(g), g.pc # "undo", OuterOK(g)'
  PROVE  Steps'
<1>1. (\A t \in DOMAIN txs' : StepsOK(t)') /\ Apart'
  BY QuietTxsSteps
<1>2. PICK n \in Nat : /\ n = Len(stack) /\ n > 0 /\ DOMAIN stack = 1..n /\ DOMAIN stack' = 1..n
                       /\ stack'[n] = g /\ \A i \in 1..(n - 1) : stack'[i] = stack[i]
  BY TopFacts DEF Shape, Moved
<1>3. Calling' /\ Top' = g
  BY DEF Moved
<1>4. ASSUME NEW i \in 1..n, NEW f \in Calls, f = stack'[i]
      PROVE  OuterOK(f)'
  <2>1. CASE i = n
    BY <1>2, <1>4, <2>1
  <2>2. CASE i # n
    <3>1. i \in DOMAIN stack /\ i < Len(stack) /\ f = stack[i]
      BY <1>2, <1>4, <2>2
    <3>2. OuterOK(f) /\ CallOK(i, f)
      BY <3>1 DEF Steps, Shape, Stacked
    <3>3. f.prog = "usecase" /\ f.pc = "body" /\ UseOK(f)
      BY <3>1, <3>2 DEF CallOK, OpOK
    <3>4. f.tx \in DOMAIN txs /\ txs[f.tx].mgr = f.mgr
      BY <3>3 DEF UseOK
    <3>5. f.mgr = "steps" => txs'[f.tx].buf = txs[f.tx].buf /\ txs'[f.tx].done = txs[f.tx].done
      BY <3>4 DEF QuietTxs
    <3> QED
      BY <3>2, <3>3, <3>5 DEF OuterOK, Outer
  <2> QED
    BY <2>1, <2>2
<1>5. \A f \in Calls : f = ret' /\ Outer(f)' /\ f.tx # 0 => Settled(f.tx, f.err)'
  <2> SUFFICES ASSUME NEW f \in Calls, f = ret', Outer(f), f.tx # 0
               PROVE  Settled(f.tx, f.err)'
    BY DEF Outer
  <2>1. Settled(f.tx, f.err)
    BY DEF Steps
  <2> QED
    BY <2>1, SettledStays
<1> QED
  BY <1>1, <1>2, <1>3, <1>4, <1>5 DEF Steps

(* The call on top satisfies what is known of outer use cases. *)
LEMMA TopSteps ==
  ASSUME Shape, Steps, Calling
  PROVE  OuterOK(Top)
BY TopFacts DEF Shape, Steps

(* Calls that are no use case of steps. *)
LEMMA OtherSteps == ASSUME NEW g, g.prog # "usecase" \/ g.mgr # "steps" PROVE OuterOK(g)'
BY DEF OuterOK, Outer

(* A call that keeps its transaction of steps, which stays as it is. *)
LEMMA KeepsSteps ==
  ASSUME Shape, Steps, Calling, Kept, QuietTxs, Top.pc \in {"begin", "body"},
         NEW g \in Calls, Kin(g), g.txs = Top.txs, g.tx = Top.tx
  PROVE  OuterOK(g)'
<1>1. CASE g.prog = "usecase" /\ g.mgr = "steps"
  <2>1. UseOK(Top) /\ OuterOK(Top)
    BY <1>1, TopOK, TopSteps DEF Kin
  <2>2. g.txs # << >> => /\ txs'[g.tx].buf = txs[g.tx].buf
                         /\ txs'[g.tx].done = txs[g.tx].done
    BY <1>1, <2>1 DEF UseOK, QuietTxs, Kin
  <2>3. g.txs = << >> => g.tx = 0
    BY <2>1 DEF UseOK
  <2> QED
    BY <2>1, <2>2, <2>3 DEF OuterOK, Outer, Kin
<1>2. CASE g.prog # "usecase" \/ g.mgr # "steps"
  BY <1>2, OtherSteps
<1> QED
  BY <1>1, <1>2

(* A call that fails touches no undo buffer. *)
LEMMA FailedSteps ==
  ASSUME Shape, Steps, Calling, Failed, Top.pc \in {"begin", "body"}
  PROVE  Steps'
<1>1. Kept /\ QuietTxs /\ made <= made' /\ made' \in Int
  BY BoundsAssumption DEF Failed, Kept, QuietTxs, Shape, Types
<1>2. PICK g \in Calls : /\ Moved(g) /\ Kin(g) /\ g.pc = "finish"
                         /\ g.txs = Top.txs /\ g.tx = Top.tx
  BY DEF Failed
<1>3. OuterOK(g)'
  BY <1>1, <1>2, KeepsSteps
<1> QED
  BY <1>1, <1>2, <1>3, QuietSteps DEF Failed
----------------------------------------------------------------------------
(* A use case begins its transaction: it keeps the undo steps right. *)
LEMMA UseBeginSteps == ASSUME Shape, Steps, UseBegin PROVE Steps'
<1>1. /\ Calling /\ Top.prog = "usecase" /\ Top.pc = "begin" /\ Kept
      /\ UNCHANGED <<store, made, ret>>
  BY UseBeginShape DEF UseBegin
<1>2. CASE Failed
  BY <1>1, <1>2, FailedSteps
<1>3. CASE /\ txs' = Begun(Top.mgr, Top.ctx)
           /\ \E g \in Calls : /\ Moved(g) /\ Kin(g) /\ g.pc = "body" /\ ~g.err
                               /\ g.tx = Len(txs) + 1 /\ g.txs = <<g.tx>>
  <2>1. PICK g \in Calls : /\ Moved(g) /\ Kin(g) /\ g.pc = "body"
                           /\ g.tx = Len(txs) + 1 /\ g.txs = <<g.tx>>
    BY <1>3
  <2>2. Top.mgr \in Managers /\ Top.ctx \in 0..Len(txs)
    BY <1>1, TopOK DEF UseOK, Managers
  <2>3. Grown(Top.mgr, Top.ctx) /\ QuietTxs
    BY <1>3, <2>2, BegunGrown DEF Shape
  <2>4. OuterOK(g)'
    BY <2>1, <2>3 DEF OuterOK, Grown
  <2>5. made <= made' /\ made' \in Int
    BY <1>1, BoundsAssumption DEF Shape, Types
  <2> QED
    BY <1>1, <2>1, <2>3, <2>4, <2>5, QuietSteps
<1> QED
  BY <1>2, <1>3, UseBeginShape

(* A use case publishes: it keeps the undo steps right. *)
LEMMA QueuePublishSteps == ASSUME Shape, Steps, QueuePublish PROVE Steps'
<1>1. /\ Calling /\ Top.prog = "usecase" /\ Top.pc = "body" /\ Kept
      /\ Onwards({"body", "finish"}) /\ UNCHANGED <<store, ret>>
  BY QueuePublishShape DEF QueuePublish
<1>2. PICK g \in Calls : /\ Moved(g) /\ Kin(g) /\ g.pc \in {"body", "finish"}
                         /\ g.txs = Top.txs /\ g.tx = Top.tx
  BY <1>1 DEF Onwards
<1>3. QuietTxs /\ made <= made' /\ made' \in Int
  <2>1. made \in Nat /\ Types
    BY BoundsAssumption DEF Shape, Types
  <2>2. CASE txs' = txs /\ made' = made
    BY <2>1, <2>2 DEF QuietTxs
  <2>3. CASE /\ made' = made + 1 /\ made + 1 \in Data
             /\ \E r \in DOMAIN txs :
                   /\ txs[r].mgr \in ToSet(Queues)
                   /\ txs' = [txs EXCEPT ![r].buf = Append(@, [d |-> made + 1, n |-> 1])]
    <3>1. PICK r \in DOMAIN txs :
             /\ txs[r].mgr \in ToSet(Queues)
             /\ txs' = [txs EXCEPT ![r].buf = Append(@, [d |-> made + 1, n |-> 1])]
      BY <2>3
    <3>2. txs[r].mgr # "steps"
      BY <3>1, BoundsAssumption
    <3>3. /\ DOMAIN txs' = DOMAIN txs
          /\ \A t \in DOMAIN txs : t # r => txs'[t] = txs[t]
          /\ \A t \in DOMAIN txs : txs'[t].done = txs[t].done /\ txs'[t].acts = txs[t].acts
      BY <2>1, <2>3, <3>1, WriteFacts
    <3>4. QuietTxs
      BY <3>2, <3>3 DEF QuietTxs
    <3> QED
      BY <2>1, <2>3, <3>4
  <2> QED
    BY <2>2, <2>3, QueuePublishShape
<1>4. OuterOK(g)'
  BY <1>1, <1>2, <1>3, KeepsSteps
<1> QED
  BY <1>1, <1>2, <1>3, <1>4, QuietSteps

(* The body of a use case returns: it keeps the undo steps right. *)
LEMMA UseReturnSteps == ASSUME Shape, Steps, UseReturn PROVE Steps'
<1>1. /\ Calling /\ Top.prog = "usecase" /\ Top.pc = "body"
      /\ UNCHANGED <<store, txs, made, ret>>
  BY DEF UseReturn
<1>2. PICK g \in Calls : /\ Moved(g) /\ Kin(g) /\ g.pc = "finish"
                         /\ g.txs = Top.txs /\ g.tx = Top.tx
  BY UseReturnShape
<1>3. Kept /\ QuietTxs /\ made <= made' /\ made' \in Int
  BY <1>1, BoundsAssumption DEF Kept, QuietTxs, Shape, Types
<1>4. OuterOK(g)'
  BY <1>1, <1>2, <1>3, KeepsSteps
<1> QED
  BY <1>1, <1>2, <1>3, <1>4, QuietSteps

(* A round of the fan-out: it keeps the undo steps right. *)
LEMMA eachQueueSteps == ASSUME Shape, Steps, eachQueue PROVE Steps'
<1>1. /\ Calling /\ Top.prog = "fanout" /\ Top.pc = "begin" /\ Kept /\ QuietTxs
      /\ UNCHANGED <<store, made, ret>>
  BY eachQueueShape DEF eachQueue
<1>2. CASE Failed
  BY <1>1, <1>2, FailedSteps
<1>3. ASSUME NEW g \in Calls, Moved(g), Kin(g), g.pc \in {"begin", "finish"} PROVE Steps'
  <2>1. OuterOK(g)'
    BY <1>1, <1>3, OtherSteps DEF Kin
  <2>2. made <= made' /\ made' \in Int
    BY <1>1, BoundsAssumption DEF Shape, Types
  <2> QED
    BY <1>1, <1>3, <2>1, <2>2, QuietSteps
<1> QED
  BY <1>2, <1>3, eachQueueShape

(* A migration begins its transactions: it keeps the undo steps right. *)
LEMMA MigrateBeginSteps == ASSUME Shape, Steps, MigrateBegin PROVE Steps'
<1>1. /\ Calling /\ Top.prog \in Migrations /\ Top.pc = "begin" /\ Kept /\ QuietTxs
      /\ UNCHANGED <<store, made, ret>>
  BY MigrateBeginShape DEF MigrateBegin
<1>2. CASE Failed
  BY <1>1, <1>2, FailedSteps
<1>3. ASSUME NEW g \in Calls, Moved(g), Kin(g), g.pc \in {"body", "begin"} PROVE Steps'
  <2>1. OuterOK(g)'
    BY <1>1, <1>3, OtherSteps DEF Kin, Migrations
  <2>2. made <= made' /\ made' \in Int
    BY <1>1, BoundsAssumption DEF Shape, Types
  <2> QED
    BY <1>1, <1>3, <2>1, <2>2, QuietSteps
<1> QED
  BY <1>2, <1>3, MigrateBeginShape

(* A round of a migration: it keeps the undo steps right. *)
LEMMA stageSteps == ASSUME Shape, Steps, stage PROVE Steps'
<1>1. /\ Calling /\ Top.prog \in Migrations /\ Top.pc = "body" /\ Kept /\ QuietTxs
      /\ UNCHANGED <<store, made, ret>>
  BY stageShape DEF stage
<1>2. CASE Failed
  BY <1>1, <1>2, FailedSteps
<1>3. ASSUME NEW g \in Calls, Moved(g), Kin(g), g.pc \in {"body", "finish"} PROVE Steps'
  <2>1. OuterOK(g)'
    BY <1>1, <1>3, OtherSteps DEF Kin, Migrations
  <2>2. made <= made' /\ made' \in Int
    BY <1>1, BoundsAssumption DEF Shape, Types
  <2> QED
    BY <1>1, <1>3, <2>1, <2>2, QuietSteps
<1> QED
  BY <1>2, <1>3, stageShape

(* Nothing happens to the transactions, and the calls stay. *)
LEMMA CancelSteps == ASSUME Shape, Steps, NEW c \in 0..Len(txs), Cancel(c) PROVE Steps'
<1>1. UNCHANGED <<store, txs, stack, made, ret>>
  BY CancelShape
<1>2. \A t \in DOMAIN txs : StepsOK(t)' <=> StepsOK(t)
  BY <1>1 DEF StepsOK, Held
<1>3. \A t, err : Settled(t, err)' <=> Settled(t, err)
  BY <1>1 DEF Settled, Held
<1>4. \A f : OuterOK(f)' <=> OuterOK(f)
  BY <1>1, <1>3 DEF OuterOK, Outer, Top
<1>5. \A f : Outer(f)' <=> Outer(f)
  BY DEF Outer
<1> QED
  BY <1>1, <1>2, <1>3, <1>4, <1>5 DEF Steps, Apart, Calling, Top

(* A migration dies: it keeps the undo steps right. *)
LEMMA CrashSteps == ASSUME Shape, Steps, Crash PROVE Steps'
<1>1. /\ Calling /\ Top.prog \in Migrations /\ stack' = << >> /\ txs' = << >> /\ ret' = ret
  BY CrashShape
<1>2. ret = NoCall
  BY <1>1, TopFacts DEF Shape, Stacked, CallOK
<1> QED
  BY <1>1, <1>2 DEF Steps, Apart, Calling, Outer, NoCall

(* The caller goes on, and the call has settled what it began. *)
LEMMA ReturnSteps == ASSUME Shape, Steps, Return PROVE Steps'
<1>1. /\ UNCHANGED <<store, txs, made>> /\ Calling /\ Top.pc = "finish" /\ Top.txs = << >>
      /\ ret' = Top
  BY ReturnShape
<1>2. PICK n \in Nat : n = Len(stack) - 1 /\ DOMAIN stack' = 1..n /\ Len(stack') = n
  <2>1. Len(stack) \in Nat /\ Len(stack) > 0
    BY <1>1, TopFacts DEF Shape
  <2>2. Len(stack') = Len(stack) - 1 /\ DOMAIN stack' = 1..(Len(stack) - 1)
    BY ReturnShape
  <2>3. Len(stack) - 1 \in Nat
    BY <2>1
  <2> QED
    BY <2>2, <2>3
<1>3. ASSUME NEW i \in 1..n, NEW g \in Calls, g = stack'[i]
      PROVE  g.pc \in {"body", "finish"} /\ OuterOK(g)'
  <2>1. PICK e \in Calls : e = stack[i] /\ e.prog = "usecase" /\ e.pc = "body"
    BY <1>2, ReturnShape
  <2>2. i \in DOMAIN stack /\ i < Len(stack)
    BY <1>1, <1>2, TopFacts DEF Shape
  <2>3. OuterOK(e) /\ CallOK(i, e)
    BY <2>1, <2>2 DEF Steps, Shape, Stacked
  <2>4. UseOK(e)
    BY <2>1, <2>3 DEF CallOK, OpOK
  <2>5. \/ g = e
        \/ /\ g.pc = "finish" /\ g.err /\ g.txs = e.txs /\ g.tx = e.tx
           /\ g.prog = e.prog /\ g.mgr = e.mgr /\ g.alone = e.alone
    BY <1>2, <1>3, <2>1, ReturnShape
  <2>6. Outer(e) /\ txs[e.tx].done => txs[e.tx].buf = << >>
    BY <1>1, <2>1, <2>3, <2>4 DEF OuterOK, UseOK
  <2> QED
    BY <1>1, <2>1, <2>4, <2>5, <2>6 DEF OuterOK, Outer, UseOK
<1>4. Calling' => Top'.pc # "undo"
  <2> HAVE Calling'
  <2>1. stack' \in Seq(Calls) /\ stack' # << >>
    BY ReturnShape DEF Shape, Types, Calling
  <2>2. n > 0 /\ stack'[n] \in Calls /\ Top' = stack'[n]
    BY <1>2, <2>1 DEF Top, Last
  <2> QED
    BY <1>3, <2>2
<1>5. \A t \in DOMAIN txs : StepsOK(t)' <=> StepsOK(t)
  BY <1>1 DEF StepsOK, Held
<1>6. \A t, err : Settled(t, err)' <=> Settled(t, err)
  BY <1>1 DEF Settled, Held
<1>7. \A f \in Calls : f = ret' /\ Outer(f)' /\ f.tx # 0 => Settled(f.tx, f.err)'
  BY <1>1, <1>6, TopSteps DEF OuterOK, Outer
<1> QED
  BY <1>1, <1>2, <1>3, <1>4, <1>5, <1>7 DEF Steps, Apart

(* A call begins with no transaction of its own. *)
LEMMA CallSteps ==
  ASSUME Shape, Steps, NEW prog, NEW m, NEW n, NEW arg, CallKind(prog, m, n, arg),
         Call(prog, m, n, arg)
  PROVE  Steps'
<1>1. PICK f \in Calls : /\ stack' = Append(stack, f) /\ Called(f, prog, m, n, arg)
                         /\ Calling' /\ Top' = f
  BY CallShape
<1>2. /\ store' = store /\ ret' = NoCall /\ stack \in Seq(Calls)
      /\ txs' = (IF Calling THEN txs ELSE << >>)
      /\ Calling => Top.prog = "usecase" /\ Top.pc = "body"
  BY CallShape DEF Call
<1>3. made \in Nat /\ made <= made' /\ made' \in Nat
  <2>1. made \in Nat
    BY BoundsAssumption DEF Shape, Types
  <2>2. made' = IF prog = "fanout" THEN made + 1 ELSE made
    BY DEF Call
  <2> QED
    BY <2>1, <2>2
<1>4. PICK k \in Nat : /\ k = Len(stack) /\ DOMAIN stack = 1..k /\ DOMAIN stack' = 1..(k + 1)
                       /\ stack'[k + 1] = f /\ \A i \in 1..k : stack'[i] = stack[i]
  BY <1>1, <1>2
<1>5. f.pc = "begin" /\ f.txs = << >> /\ f.tx = 0
  BY <1>1 DEF Called
<1>6. (\A t \in DOMAIN txs' : StepsOK(t)') /\ Apart'
  <2>1. CASE Calling
    <3>1. txs' = txs /\ txs \in Seq(Txs)
      BY <1>2, <2>1 DEF Shape, Types
    <3>2. Kept /\ QuietTxs
      BY <3>1 DEF Kept, QuietTxs
    <3> QED
      BY <1>2, <1>3, <3>2, QuietTxsSteps
  <2>2. CASE ~Calling
    BY <1>2, <2>2 DEF Apart
  <2> QED
    BY <2>1, <2>2
<1>7. ASSUME NEW i \in 1..(k + 1), NEW g \in Calls, g = stack'[i]
      PROVE  OuterOK(g)'
  <2>1. CASE i = k + 1
    BY <1>4, <1>5, <1>7, <2>1 DEF OuterOK
  <2>2. CASE i # k + 1
    <3>1. i \in DOMAIN stack /\ g = stack[i] /\ Calling
      BY <1>4, <1>7, <2>2 DEF Calling
    <3>2. OuterOK(g) /\ CallOK(i, g)
      BY <3>1 DEF Steps, Shape, Stacked
    <3>4. txs' = txs /\ Top.pc # "undo" /\ Top.pc = "body"
      BY <1>2, <3>1
    <3>3. g.pc = "body"
      <4>1. CASE i < Len(stack)
        BY <3>2, <4>1 DEF CallOK
      <4>2. CASE i = Len(stack)
        BY <3>1, <3>4, <4>2, TopFacts DEF Shape
      <4> QED
        BY <1>4, <2>2, <4>1, <4>2
    <3> QED
      BY <3>2, <3>3, <3>4 DEF OuterOK, Outer
  <2> QED
    BY <2>1, <2>2
<1>8. \A g \in Calls : g = ret' /\ Outer(g)' /\ g.tx # 0 => Settled(g.tx, g.err)'
  BY <1>2 DEF NoCall
<1> QED
  BY <1>1, <1>4, <1>5, <1>6, <1>7, <1>8 DEF Steps
----------------------------------------------------------------------------
(* While a use case of steps goes on, no other one returned before it. *)
LEMMA NoneReturned ==
  ASSUME Shape, Calling, NEW f \in Calls, NEW i \in DOMAIN stack, f = stack[i],
         f.mgr = "steps"
  PROVE  ~Outer(ret)
BY DEF Shape, Stacked, RetApart, Outer

(* The calls below the one on top. *)
LEMMA CallerFacts ==
  ASSUME Shape, NEW i \in DOMAIN stack, i # Len(stack), NEW f \in Calls, f = stack[i]
  PROVE  /\ f.prog = "usecase" /\ f.pc = "body" /\ UseOK(f) /\ CallOK(i, f)
         /\ f.tx \in DOMAIN txs /\ txs[f.tx].mgr = f.mgr /\ f.txs # << >>
         /\ i < Len(stack)
<1>1. i < Len(stack)
  BY DEF Shape, Types
<1>2. CallOK(i, f)
  BY DEF Shape, Stacked
<1>3. f.prog = "usecase" /\ f.pc = "body" /\ UseOK(f)
  BY <1>1, <1>2 DEF CallOK, OpOK
<1> QED
  BY <1>1, <1>2, <1>3 DEF UseOK

(* One step of Teardown: it keeps the undo steps right. *)
LEMMA UndoSteps == ASSUME Shape, Steps, Undo PROVE Steps'
<1>1. /\ Calling /\ Top.pc = "undo" /\ Top.prog = "usecase" /\ UseOK(Top) /\ Kept
      /\ DOMAIN txs' = DOMAIN txs /\ made' = made /\ ret' = ret /\ made \in Int
  BY UndoShape, BoundsAssumption DEF Shape, Types
<1>2. PICK r \in DOMAIN txs :
         /\ r = Top.tx /\ txs[r].mgr = "steps"
         /\ \/ /\ txs[r].buf = << >> /\ UNCHANGED <<store, txs, faults>>
               /\ \E g \in Calls : /\ Moved(g) /\ Kin(g) /\ g.pc = "finish" /\ g.err
                                   /\ g.txs = << >> /\ g.tx = r
            \/ \E s \in Changes :
                 /\ Len(txs[r].buf) > 0 /\ s = txs[r].buf[Len(txs[r].buf)]
                 /\ stack' = stack /\ Moved(Top)
                 /\ \A t \in DOMAIN txs : t # r => txs'[t] = txs[t]
                 /\ txs'[r].buf = Front(txs[r].buf) /\ txs'[r].done = txs[r].done
                 /\ txs'[r].mgr = txs[r].mgr /\ txs'[r].chain = txs[r].chain
                 /\ \/ /\ txs'[r].acts = txs[r].acts
                       /\ store' = [store EXCEPT !["steps"][s.d] = @ - s.n]
                    \/ txs'[r].acts = txs[r].acts \ {s.d} /\ store' = store
  BY UndoShape
<1>3. /\ Top \in Calls /\ Top.mgr = "steps" /\ Top = stack[Len(stack)]
      /\ Len(stack) \in DOMAIN stack /\ Len(stack) \in Nat /\ DOMAIN stack = 1..Len(stack)
  BY <1>1, TopOK, TopFacts DEF UseOK, Shape
<1>4. ~Outer(ret)
  BY <1>1, <1>3, NoneReturned
<1>5. txs[r].done /\ StepsOK(r) /\ txs[r] \in Txs
  BY <1>1, <1>2 DEF Steps, Shape, Types
<1>6. CASE txs[r].buf = << >> /\ UNCHANGED <<store, txs, faults>>
           /\ \E g \in Calls : /\ Moved(g) /\ Kin(g) /\ g.pc = "finish" /\ g.err
                               /\ g.txs = << >> /\ g.tx = r
  <2>1. PICK g \in Calls : /\ Moved(g) /\ Kin(g) /\ g.pc = "finish" /\ g.err
                           /\ g.txs = << >> /\ g.tx = r
    BY <1>6
  <2>2. /\ DOMAIN stack' = DOMAIN stack /\ stack'[Len(stack)] = g /\ Top' = g
        /\ \A i \in 1..(Len(stack) - 1) : stack'[i] = stack[i]
    BY <1>3, <2>1 DEF Moved
  <2>3. Settled(r, TRUE)'
    BY <1>2, <1>6 DEF Settled
  <2>4. ASSUME NEW i \in DOMAIN stack, NEW f \in Calls, f = stack'[i]
        PROVE  OuterOK(f)'
    <3>1. CASE i = Len(stack)
      BY <2>1, <2>2, <2>3, <2>4, <3>1 DEF OuterOK, Outer
    <3>2. CASE i # Len(stack)
      <4>1. i \in 1..(Len(stack) - 1)
        BY <1>3, <3>2
      <4>2. f = stack[i]
        BY <2>2, <2>4, <4>1
      <4>3. OuterOK(f) /\ f.pc = "body"
        BY <3>2, <4>2, CallerFacts DEF Steps
      <4> QED
        BY <1>2, <1>6, <4>3 DEF OuterOK, Outer
    <3> QED
      BY <3>1, <3>2
  <2>5. \A t \in DOMAIN txs : StepsOK(t)'
    BY <1>1, <1>6 DEF Steps, StepsOK, Held
  <2>6. \A f \in Calls : f = ret' /\ Outer(f)' /\ f.tx # 0 => Settled(f.tx, f.err)'
    BY <1>1, <1>4 DEF Outer
  <2> QED
    BY <1>6, <2>1, <2>2, <2>4, <2>5, <2>6 DEF Steps, Apart
<1>7. CASE \E s \in Changes :
             /\ Len(txs[r].buf) > 0 /\ s = txs[r].buf[Len(txs[r].buf)]
             /\ stack' = stack /\ Moved(Top)
             /\ \A t \in DOMAIN txs : t # r => txs'[t] = txs[t]
             /\ txs'[r].buf = Front(txs[r].buf) /\ txs'[r].done = txs[r].done
             /\ txs'[r].mgr = txs[r].mgr /\ txs'[r].chain = txs[r].chain
             /\ \/ /\ txs'[r].acts = txs[r].acts
                   /\ store' = [store EXCEPT !["steps"][s.d] = @ - s.n]
                \/ txs'[r].acts = txs[r].acts \ {s.d} /\ store' = store
  <2>1. PICK s \in Changes :
             /\ Len(txs[r].buf) > 0 /\ s = txs[r].buf[Len(txs[r].buf)]
             /\ stack' = stack /\ Moved(Top)
             /\ \A t \in DOMAIN txs : t # r => txs'[t] = txs[t]
             /\ txs'[r].buf = Front(txs[r].buf) /\ txs'[r].done = txs[r].done
             /\ txs'[r].mgr = txs[r].mgr /\ txs'[r].chain = txs[r].chain
             /\ \/ /\ txs'[r].acts = txs[r].acts
                   /\ store' = [store EXCEPT !["steps"][s.d] = @ - s.n]
                \/ txs'[r].acts = txs[r].acts \ {s.d} /\ store' = store
    BY <1>7
  <2>2. PICK b \in Seq(Changes) : b = txs[r].buf
    BY <1>5 DEF Txs
  <2>3. PICK n \in Nat : n = Len(b) /\ n > 0 /\ DOMAIN b = 1..n
    BY <2>1, <2>2
  <2>4. s = b[n] /\ n \in DOMAIN b
    BY <2>1, <2>2, <2>3
  <2>5. PICK c \in Seq(Changes) : /\ c = Front(b) /\ DOMAIN c = 1..(n - 1)
                                  /\ \A i \in 1..(n - 1) : c[i] = b[i]
    BY <2>3, FrontFacts
  <2>6. txs'[r].buf = c
    BY <2>1, <2>2, <2>5
  <2>7. /\ \A i \in 1..n : /\ b[i].n = 1 /\ b[i].d \in txs[r].acts
                           /\ store["steps"][b[i].d] = 1
        /\ \A i, j \in 1..n : i < j => b[i].d < b[j].d
        /\ \A d \in txs[r].acts : /\ d <= made
                                  /\ ~Held(b, d) => /\ store["steps"][d] = 0
                                                    /\ \A i \in 1..n : b[i].d < d
    BY <1>2, <1>5, <2>2, <2>3 DEF StepsOK
  <2>8. s.n = 1 /\ s.d \in txs[r].acts /\ store["steps"][s.d] = 1
    BY <2>3, <2>4, <2>7
  <2>9. \A i \in 1..(n - 1) : i \in 1..n /\ b[i].d < s.d /\ b[i].d # s.d
    <3> TAKE i \in 1..(n - 1)
    <3>1. i \in 1..n /\ i < n
      OBVIOUS
    <3>2. b[i].d < b[n].d
      BY <2>3, <2>7, <3>1
    <3>3. b[i] \in Changes /\ b[n] \in Changes
      BY <2>3, <2>4, <3>1
    <3>4. b[i].d \in Int /\ b[n].d \in Int
      BY SMTT(30), <3>3, BoundsAssumption DEF Changes, Data
    <3> QED
      BY <2>4, <3>1, <3>2, <3>4
  <2>10. /\ \A d : d # s.d => store'["steps"][d] = store["steps"][d]
         /\ s.d \in txs'[r].acts => store'["steps"][s.d] = 0
         /\ txs'[r].acts \subseteq txs[r].acts
         /\ \A d : d # s.d /\ d \in txs[r].acts => d \in txs'[r].acts
    <3>1. store \in [Managers -> [Data -> Int]] /\ "steps" \in Managers /\ s.d \in Data
      BY DEF Shape, Types, Managers, Changes
    <3>2. CASE txs'[r].acts = txs[r].acts /\ store' = [store EXCEPT !["steps"][s.d] = @ - s.n]
      <4>1. store["steps"] \in [Data -> Int]
        BY <3>1
      <4>2. store'["steps"] = [store["steps"] EXCEPT ![s.d] = @ - s.n]
        BY <3>1, <3>2
      <4> QED
        BY <2>8, <3>1, <3>2, <4>1, <4>2
    <3>3. CASE txs'[r].acts = txs[r].acts \ {s.d} /\ store' = store
      BY <3>3
    <3> QED
      BY <2>1, <3>2, <3>3
  <2>11. ASSUME NEW d, Held(b, d), ~Held(c, d) PROVE d = s.d
    <3>1. PICK i \in 1..n : b[i].d = d
      BY <2>3, <2>11 DEF Held
    <3>2. i \notin 1..(n - 1)
      BY <2>5, <2>11, <3>1 DEF Held
    <3> QED
      BY <2>3, <2>4, <3>1, <3>2
  <2>12. StepsOK(r)'
    <3>1. \A i \in 1..(n - 1) : /\ c[i].n = 1 /\ c[i].d \in txs'[r].acts
                                /\ store'["steps"][c[i].d] = 1
      BY SMTT(30), <2>5, <2>7, <2>9, <2>10
    <3>2. \A i, j \in 1..(n - 1) : i < j => c[i].d < c[j].d
      BY <2>5, <2>7, <2>9
    <3>3. ASSUME NEW d \in txs'[r].acts
          PROVE  /\ d <= made
                 /\ ~Held(c, d) => /\ store'["steps"][d] = 0
                                   /\ \A i \in 1..(n - 1) : c[i].d < d
      <4>1. d \in txs[r].acts /\ d <= made
        BY <2>7, <2>10, <3>3
      <4>2. CASE Held(c, d)
        BY <4>1, <4>2
      <4>3. CASE ~Held(c, d) /\ d = s.d
        BY <2>5, <2>9, <2>10, <3>3, <4>1, <4>3
      <4>4. CASE ~Held(c, d) /\ d # s.d
        <5>1. ~Held(b, d)
          BY <2>11, <4>4
        <5>2. store["steps"][d] = 0 /\ \A i \in 1..n : b[i].d < d
          BY <2>7, <4>1, <5>1
        <5> QED
          BY <2>5, <2>9, <2>10, <4>1, <4>4, <5>2
      <4> QED
        BY <4>2, <4>3, <4>4
    <3>4. txs'[r].mgr = "steps" /\ txs'[r].done
      BY <1>2, <1>5, <2>1
    <3>5. \A e, d : Held(e, d)' <=> Held(e, d)
      BY DEF Held
    <3> QED
      BY <1>1, <2>5, <2>6, <3>1, <3>2, <3>3, <3>4 DEF StepsOK, Held
  <2>13. ASSUME NEW t \in DOMAIN txs, t # r PROVE StepsOK(t)'
    <3>1. txs'[t] = txs[t] /\ StepsOK(t) /\ s.d \notin txs[t].acts
      BY <2>1, <2>8, <2>13 DEF Steps, Apart
    <3>2. \A d \in txs[t].acts : store'["steps"][d] = store["steps"][d]
      BY <2>10, <3>1
    <3> QED
      BY <1>1, <3>1, <3>2 DEF StepsOK, Held
  <2>14. Apart'
    <3>1. \A t \in DOMAIN txs : txs'[t].acts \subseteq txs[t].acts
      BY <2>1, <2>10
    <3> QED
      BY <1>1, <3>1 DEF Steps, Apart
  <2>15. ASSUME NEW i \in DOMAIN stack, NEW f \in Calls, f = stack[i]
         PROVE  OuterOK(f)'
    <3>1. f.pc # "finish"
      BY <1>1, <1>3, <2>15, CallerFacts
    <3>2. OuterOK(f)
      BY <2>15 DEF Steps
    <3>3. Top' = Top
      BY <2>1 DEF Moved
    <3>4. f.prog = "usecase" /\ f.txs # << >> => f.tx \in DOMAIN txs
      <4>1. OpOK(f)
        BY <2>15 DEF Shape, Stacked, CallOK
      <4> QED
        BY <4>1 DEF OpOK, UseOK
    <3> QED
      BY <1>1, <1>2, <2>1, <3>1, <3>2, <3>3, <3>4 DEF OuterOK, Outer
  <2>16. \A f \in Calls : f = ret' /\ Outer(f)' /\ f.tx # 0 => Settled(f.tx, f.err)'
    BY <1>1, <1>4 DEF Outer
  <2>17. \A t \in DOMAIN txs : StepsOK(t)'
    BY <2>12, <2>13
  <2>18. Top' = Top /\ txs'[r].done
    BY <1>5, <2>1 DEF Moved
  <2> QED
    BY <1>1, <1>2, <2>1, <2>14, <2>15, <2>16, <2>17, <2>18 DEF Steps
<1> QED
  BY <1>2, <1>6, <1>7
----------------------------------------------------------------------------
(* A use case registers a change: it keeps the undo steps right. *)
LEMMA ActSteps == ASSUME Shape, Steps, Act PROVE Steps'
<1> DEFINE d == made + 1
<1>1. /\ Calling /\ Top.prog = "usecase" /\ Top.pc = "body" /\ Top.mgr = "steps"
      /\ made' = d /\ ret' = ret /\ made \in Nat /\ d \in Nat /\ made < d
  BY BoundsAssumption DEF Act, Shape, Types
<1>2. /\ Kept /\ Len(txs') = Len(txs) /\ Onwards({"body", "finish"}) /\ d \in Data
      /\ store["steps"] \in [Data -> Int]
      /\ store' = [store EXCEPT !["steps"] = [@ EXCEPT ![d] = 1]]
  BY ActShape
<1>3. /\ Top = stack[Len(stack)] /\ Len(stack) \in DOMAIN stack /\ Len(stack) \in Nat
      /\ DOMAIN stack = 1..Len(stack) /\ UseOK(Top) /\ Top \in Calls
      /\ DOMAIN txs' = DOMAIN txs
  BY <1>1, <1>2, TopOK, TopFacts DEF Kept, Shape, Types
<1>4. ~Outer(ret)
  BY <1>1, <1>3, NoneReturned
<1>5. store'["steps"][d] = 1 /\ \A x : x # d => store'["steps"][x] = store["steps"][x]
  <2>1. store \in [Managers -> [Data -> Int]] /\ "steps" \in Managers
    BY DEF Shape, Types, Managers
  <2>2. store'["steps"] = [store["steps"] EXCEPT ![d] = 1]
    BY <1>2, <2>1
  <2> QED
    BY <1>2, <2>2
<1>6. ASSUME NEW t \in DOMAIN txs, NEW x \in txs[t].acts
      PROVE  x \in Nat /\ x <= made /\ x # d /\ x < d
  <2>1. txs[t] \in Txs /\ StepsOK(t)
    BY DEF Shape, Types, Steps
  <2>2. x \in Nat
    BY <2>1, BoundsAssumption DEF Txs, Data
  <2>3. txs[t].mgr = "steps" /\ x <= made
    BY <2>1 DEF StepsOK
  <2> QED
    BY <1>1, <2>2, <2>3
<1>7. ASSUME NEW t \in DOMAIN txs, txs'[t] = txs[t]
      PROVE  StepsOK(t)'
  <2>1. StepsOK(t) /\ \A x \in txs[t].acts : /\ store'["steps"][x] = store["steps"][x]
                                             /\ x <= made'
    BY <1>1, <1>5, <1>6 DEF Steps
  <2> QED
    BY <1>1, <1>7, <2>1 DEF StepsOK, Held
<1>8. PICK g \in Calls : /\ Moved(g) /\ Kin(g) /\ g.pc \in {"body", "finish"}
                         /\ g.txs = Top.txs /\ g.tx = Top.tx
  BY <1>2 DEF Onwards
<1>9. /\ DOMAIN stack' = DOMAIN stack /\ stack'[Len(stack)] = g /\ Top' = g
      /\ \A i \in 1..(Len(stack) - 1) : stack'[i] = stack[i]
  BY <1>3, <1>8 DEF Moved
<1>10. ASSUME \A t \in DOMAIN txs : StepsOK(t)', Apart',
              \A t \in DOMAIN txs : txs[t].done \/ txs'[t].done => txs'[t] = txs[t]
       PROVE  Steps'
  <2>1. ASSUME NEW i \in DOMAIN stack, NEW f \in Calls, f = stack'[i]
        PROVE  OuterOK(f)'
    <3>1. PICK e \in Calls : e = stack[i]
      BY DEF Shape, Types
    <3>2. /\ e.prog = "usecase" /\ e.pc = "body" /\ UseOK(e) /\ f.txs = e.txs /\ f.tx = e.tx
          /\ f.mgr = e.mgr /\ f.alone = e.alone /\ f.prog = e.prog
      <4>1. CASE i = Len(stack)
        BY <1>1, <1>3, <1>8, <1>9, <2>1, <3>1, <4>1 DEF Kin
      <4>2. CASE i # Len(stack)
        <5>1. i \in 1..(Len(stack) - 1)
          BY <1>3, <4>2
        <5>2. f = e
          BY <1>9, <2>1, <3>1, <5>1
        <5> QED
          BY <3>1, <4>2, <5>2, CallerFacts
      <4> QED
        BY <4>1, <4>2
    <3>3. OuterOK(e) /\ e.txs # << >> /\ e.tx \in DOMAIN txs
      BY <3>1, <3>2 DEF Steps, UseOK
    <3> QED
      BY <1>1, <1>10, <3>2, <3>3 DEF OuterOK, Outer
  <2>2. \A f \in Calls : f = ret' /\ Outer(f)' /\ f.tx # 0 => Settled(f.tx, f.err)'
    BY <1>1, <1>4 DEF Outer
  <2> QED
    BY <1>3, <1>8, <1>9, <1>10, <2>1, <2>2 DEF Steps
<1>11. CASE txs' = txs
  BY <1>7, <1>10, <1>11 DEF Steps, Apart
<1>12. CASE \E r \in DOMAIN txs :
              /\ txs[r].mgr = "steps" /\ ~txs[r].done
              /\ txs' = [txs EXCEPT ![r] =
                    [txs[r] EXCEPT !.buf = Append(@, [d |-> made + 1, n |-> 1]),
                                   !.acts = @ \cup {made + 1}]]
  <2>1. PICK r \in DOMAIN txs :
              /\ txs[r].mgr = "steps" /\ ~txs[r].done
              /\ txs' = [txs EXCEPT ![r] =
                    [txs[r] EXCEPT !.buf = Append(@, [d |-> made + 1, n |-> 1]),
                                   !.acts = @ \cup {made + 1}]]
    BY <1>12
  <2>2. txs[r] \in Txs /\ StepsOK(r)
    BY DEF Shape, Types, Steps
  <2>3. PICK b \in Seq(Changes) : b = txs[r].buf
    BY <2>2 DEF Txs
  <2>4. PICK n \in Nat : n = Len(b) /\ DOMAIN b = 1..n
    BY <2>3
  <2>5. [d |-> d, n |-> 1] \in Changes
    BY <1>2 DEF Changes
  <2>6. PICK c \in Seq(Changes) : /\ c = Append(b, [d |-> d, n |-> 1]) /\ DOMAIN c = 1..(n + 1)
                                  /\ c[n + 1] = [d |-> d, n |-> 1]
                                  /\ \A i \in 1..n : c[i] = b[i]
    <3>1. PICK e \in Changes : e = [d |-> d, n |-> 1]
      BY <2>5
    <3>2. PICK c \in Seq(Changes) : c = Append(b, e)
      BY AppendFacts
    <3>3. DOMAIN c = 1..(n + 1) /\ c[n + 1] = e /\ \A i \in 1..n : c[i] = b[i]
      BY <2>4, <3>2
    <3> QED
      BY <3>1, <3>2, <3>3
  <2>7. /\ txs'[r].buf = c /\ txs'[r].acts = txs[r].acts \cup {d} /\ ~txs'[r].done
        /\ txs'[r].mgr = "steps" /\ \A t \in DOMAIN txs : t # r => txs'[t] = txs[t]
    <3>1. txs'[r] = [txs[r] EXCEPT !.buf = Append(@, [d |-> d, n |-> 1]),
                                   !.acts = @ \cup {d}]
      BY <2>1
    <3>2. \A t \in DOMAIN txs : t # r => txs'[t] = txs[t]
      BY <2>1
    <3> QED
      BY <2>1, <2>2, <2>3, <2>6, <3>1, <3>2 DEF Txs
  <2>8. /\ \A i \in 1..n : /\ b[i].n = 1 /\ b[i].d \in txs[r].acts
                           /\ store["steps"][b[i].d] = 1
        /\ \A i, j \in 1..n : i < j => b[i].d < b[j].d
        /\ \A x \in txs[r].acts : Held(b, x)
    BY <2>1, <2>2, <2>3, <2>4 DEF StepsOK
  <2>9. ASSUME NEW x \in txs'[r].acts PROVE x <= made' /\ Held(c, x)
    <3>1. CASE x = d
      <4>1. n + 1 \in DOMAIN c /\ c[n + 1].d = x
        BY <2>4, <2>6, <3>1
      <4> QED
        BY <1>1, <3>1, <4>1 DEF Held
    <3>2. CASE x \in txs[r].acts
      <4>1. PICK i \in 1..n : b[i].d = x
        BY <2>4, <2>8, <3>2 DEF Held
      <4>2. i \in DOMAIN c /\ c[i].d = x
        BY <2>4, <2>6, <4>1
      <4> QED
        BY <1>1, <1>6, <3>2, <4>2 DEF Held
    <3> QED
      BY <2>7, <3>1, <3>2
  <2>10. \A i \in 1..(n + 1) : /\ c[i].n = 1 /\ c[i].d \in txs'[r].acts
                               /\ store'["steps"][c[i].d] = 1
    <3> TAKE i \in 1..(n + 1)
    <3>1. CASE i = n + 1
      BY <1>5, <2>6, <2>7, <3>1
    <3>2. CASE i \in 1..n
      <4>1. c[i].n = 1 /\ c[i].d \in txs[r].acts /\ store["steps"][c[i].d] = 1
        BY <2>6, <2>8, <3>2
      <4> QED
        BY <1>5, <1>6, <2>7, <4>1
    <3> QED
      BY <2>4, <3>1, <3>2
  <2>11. \A i, j \in 1..(n + 1) : i < j => c[i].d < c[j].d
    <3> TAKE i, j \in 1..(n + 1)
    <3> HAVE i < j
    <3>1. i \in 1..n /\ c[i].d \in txs[r].acts /\ c[i] = b[i]
      BY <2>4, <2>6, <2>8
    <3>2. CASE j = n + 1
      BY <1>6, <2>6, <3>1, <3>2
    <3>3. CASE j \in 1..n
      BY <2>6, <2>8, <3>1, <3>3
    <3> QED
      BY <2>4, <3>2, <3>3
  <2>12. StepsOK(r)'
    BY <2>6, <2>7, <2>9, <2>10, <2>11 DEF StepsOK, Held
  <2>13. Apart'
    <3>1. \A t \in DOMAIN txs : d \notin txs[t].acts
      BY <1>6
    <3> QED
      BY <1>3, <2>7, <3>1 DEF Steps, Apart
  <2> QED
    BY <1>7, <1>10, <2>1, <2>7, <2>12, <2>13
<1> QED
  BY <1>11, <1>12, ActShape
----------------------------------------------------------------------------
(* The transactions of steps of the calls below have nothing to undo when *)
(* they are done, but for the one whose steps are being undone.            *)
LEMMA FinishedSteps ==
  ASSUME Shape, Steps, Calling, Top.pc = "finish", Kept, DOMAIN txs' = DOMAIN txs,
         store'["steps"] = store["steps"], made' = made, ret' = ret,
         \A t \in DOMAIN txs : txs'[t].acts = txs[t].acts,
         \A t \in DOMAIN txs : txs[t].mgr = "steps" =>
            txs'[t].buf = txs[t].buf /\ (txs[t].done => txs'[t].done),
         NEW g \in Calls, Moved(g), OuterOK(g)',
         g.pc = "undo" => g.tx \in DOMAIN txs /\ txs'[g.tx].done,
         \A f \in Calls : \A i \in DOMAIN stack : i # Len(stack) /\ f = stack[i] /\ Outer(f) =>
            (txs'[f.tx].done => txs[f.tx].done \/ (g.pc = "undo" /\ g.tx = f.tx))
  PROVE  Steps'
<1>1. /\ Len(stack) \in DOMAIN stack /\ Len(stack) \in Nat /\ DOMAIN stack = 1..Len(stack)
      /\ DOMAIN stack' = DOMAIN stack /\ stack'[Len(stack)] = g /\ Top' = g
      /\ \A i \in 1..(Len(stack) - 1) : stack'[i] = stack[i]
  BY TopFacts DEF Moved, Shape
<1>2. \A t \in DOMAIN txs : txs'[t].mgr = txs[t].mgr
  BY DEF Kept, Shape, Types
<1>3. ASSUME NEW t \in DOMAIN txs PROVE StepsOK(t)'
  <2>1. StepsOK(t)
    BY DEF Steps
  <2>2. CASE txs[t].mgr # "steps"
    BY <1>2, <2>1, <2>2 DEF StepsOK
  <2>3. CASE txs[t].mgr = "steps"
    <3>1. /\ txs'[t].acts = txs[t].acts /\ txs'[t].buf = txs[t].buf /\ txs'[t].mgr = "steps"
          /\ txs[t].done => txs'[t].done
      BY <1>2, <2>3
    <3> QED
      BY <2>1, <2>3, <3>1 DEF StepsOK, Held
  <2> QED
    BY <2>2, <2>3
<1>4. ASSUME NEW i \in DOMAIN stack, NEW f \in Calls, f = stack'[i]
      PROVE  OuterOK(f)'
  <2>1. CASE i = Len(stack)
    BY <1>1, <1>4, <2>1
  <2>2. CASE i # Len(stack)
    <3>1. f = stack[i]
      BY <1>1, <1>4, <2>2
    <3>2. OuterOK(f) /\ f.pc = "body" /\ f.tx \in DOMAIN txs /\ txs[f.tx].mgr = f.mgr
      BY <2>2, <3>1, CallerFacts DEF Steps
    <3>3. Outer(f) =>
            (txs'[f.tx].done => txs[f.tx].done \/ (g.pc = "undo" /\ g.tx = f.tx))
      BY <2>2, <3>1
    <3>4. Outer(f) => txs'[f.tx].buf = txs[f.tx].buf
      BY <3>2 DEF Outer
    <3> QED
      BY <1>1, <3>2, <3>3, <3>4 DEF OuterOK, Outer
  <2> QED
    BY <2>1, <2>2
<1>5. \A f \in Calls : f = ret' /\ Outer(f)' /\ f.tx # 0 => Settled(f.tx, f.err)'
  <2> SUFFICES ASSUME NEW f \in Calls, f = ret', Outer(f), f.tx # 0
               PROVE  Settled(f.tx, f.err)'
    BY DEF Outer
  <2>1. Settled(f.tx, f.err)
    BY DEF Steps
  <2> QED
    BY <1>2, <2>1 DEF Settled, Held
<1>6. Apart'
  BY DEF Steps, Apart
<1> QED
  BY <1>1, <1>3, <1>4, <1>5, <1>6 DEF Steps

(* A use case whose transaction of steps is the outermost one. *)
LEMMA AloneFacts ==
  ASSUME Shape, NEW i \in DOMAIN stack, NEW f \in Calls, f = stack[i], Outer(f),
         f.txs # << >>
  PROVE  /\ f.txs = <<f.tx>> /\ f.tx \in DOMAIN txs /\ txs[f.tx].mgr = "steps"
         /\ Levels("steps", f.tx) = {f.tx} /\ lookupRootTx("steps", f.tx) = f.tx
         /\ \A t \in DOMAIN txs : f.tx \in Levels("steps", t) =>
               lookupRootTx("steps", t) = f.tx
<1>1. CallOK(i, f) /\ f.prog = "usecase" /\ f.mgr = "steps" /\ f.alone /\ Types /\ Chained
  BY DEF Shape, Stacked, Outer
<1>2. /\ UseOK(f) /\ Levels("steps", f.ctx) = {} /\ f.ctx \in 0..Len(txs) /\ f.tx \in Nat
      /\ f.ctx \in Nat
  BY <1>1 DEF CallOK, OpOK, Calls
<1>3. /\ f.txs = <<f.tx>> /\ f.tx \in DOMAIN txs /\ txs[f.tx].mgr = "steps"
      /\ txs[f.tx].chain = Chain(f.ctx) \cup {f.tx} /\ f.ctx < f.tx
  BY <1>1, <1>2 DEF UseOK
<1>4. f.tx # 0 /\ Chain(f.tx) = Chain(f.ctx) \cup {f.tx} /\ DOMAIN txs = 1..Len(txs)
  BY <1>1, <1>2, <1>3 DEF Chain, Types
<1>5. Levels("steps", f.tx) = {f.tx}
  BY <1>2, <1>3, <1>4 DEF Levels
<1>6. ASSUME NEW t \in DOMAIN txs, f.tx \in Levels("steps", t)
      PROVE  lookupRootTx("steps", t) = f.tx
  <2>1. PICK r : r = lookupRootTx("steps", t)
    OBVIOUS
  <2>2. t \in Nat /\ t # 0 /\ Chain(t) = txs[t].chain /\ txs[t].chain \subseteq 0..t
    BY <1>1, <1>4 DEF Chain, Types, Chained
  <2>3. Levels("steps", t) \in SUBSET Nat
    BY <2>2 DEF Levels
  <2>4. r \in Levels("steps", t) /\ r <= f.tx /\ r \in Nat
    BY <1>6, <2>1, <2>3, MinFacts DEF lookupRootTx
  <2>5. f.tx \in txs[t].chain \ {0} /\ r \in txs[t].chain /\ r # 0
    BY <1>6, <2>2, <2>4 DEF Levels
  <2>6. txs[t].chain \cap (0..f.tx) \subseteq txs[f.tx].chain
    BY <1>1, <2>5 DEF Chained
  <2>7. r \in Chain(f.tx)
    BY <1>2, <1>3, <1>4, <2>4, <2>5, <2>6
  <2>8. r \in Levels("steps", f.tx)
    BY <2>4, <2>7 DEF Levels
  <2> QED
    BY <1>5, <2>1, <2>8
<1>7. lookupRootTx("steps", f.tx) = f.tx
  BY <1>3, <1>5, <1>6
<1> QED
  BY <1>3, <1>5, <1>6, <1>7

(* The deferred Finish: it keeps the undo steps right. *)
LEMMA FinishTxSteps == ASSUME Shape, Steps, FinishTx PROVE Steps'
<1>1. /\ Kept /\ UNCHANGED <<made, called, ret>> /\ Calling
      /\ Top.pc = "finish" /\ Top.txs # << >>
  BY FinishTxShape
<1>2. PICK g \in Calls : /\ Moved(g) /\ Kin(g) /\ g.txs = Front(Top.txs)
                         /\ g.tx = DueRoot /\ FinishKind(g.err, g.pc)
  BY FinishTxShape
<1>3. /\ Top \in Calls /\ Due \in DOMAIN txs /\ txs[Due] \in Txs /\ Due = Top.txs[Len(Top.txs)]
      /\ DueManager \in Managers /\ DueManager = txs[Due].mgr /\ DueRoot \in DOMAIN txs
      /\ DueRoot \in Levels(DueManager, Due)
      /\ DueManager = "steps" => txs[DueRoot].mgr = "steps" /\ Top.prog = "usecase"
      /\ DueManager # "steps" => txs[DueRoot].mgr # "steps"
  BY <1>1, DueFacts
<1>4. /\ Top = stack[Len(stack)] /\ Len(stack) \in DOMAIN stack /\ OuterOK(Top)
      /\ Len(stack) \in Nat
  BY <1>1, TopFacts, TopSteps DEF Shape
<1>5. Outer(g) => /\ Outer(Top) /\ Top.txs = <<Top.tx>> /\ Due = Top.tx /\ DueRoot = Due
                  /\ DueManager = "steps" /\ g.txs = << >>
  <2> HAVE Outer(g)
  <2>1. Outer(Top)
    BY <1>2 DEF Kin, Outer
  <2>2. /\ Top.txs = <<Top.tx>> /\ txs[Top.tx].mgr = "steps"
        /\ lookupRootTx("steps", Top.tx) = Top.tx
    BY <1>1, <1>3, <1>4, <2>1, AloneFacts
  <2>3. Due = Top.tx /\ g.txs = << >>
    BY <1>2, <2>2 DEF Due, Last, Front
  <2> QED
    BY <1>3, <2>1, <2>2, <2>3 DEF DueRoot
<1>6. ASSUME NEW f \in Calls, NEW i \in DOMAIN stack, i # Len(stack), f = stack[i], Outer(f)
      PROVE  /\ f.tx \in DOMAIN txs /\ txs[f.tx].mgr = "steps" /\ f.tx # Due
             /\ f.tx \in Levels(DueManager, Due) => DueManager = "steps" /\ DueRoot = f.tx
  <2>1. f.tx \in DOMAIN txs /\ txs[f.tx].mgr = "steps" /\ f.txs # << >> /\ i < Len(stack)
    BY <1>6, CallerFacts DEF Outer
  <2>2. f.tx \in Levels(DueManager, Due) => DueManager = "steps" /\ DueRoot = f.tx
    <3> HAVE f.tx \in Levels(DueManager, Due)
    <3>1. Type(DueManager) = Type("steps")
      BY <2>1 DEF Levels
    <3>2. DueManager = "steps"
      BY <1>3, <3>1, TypeFacts
    <3> QED
      BY <1>3, <1>6, <2>1, <3>2, AloneFacts DEF DueRoot
  <2>3. f.tx # Due
    <3> SUFFICES ASSUME f.tx = Due PROVE FALSE
      OBVIOUS
    <3>1. Top.prog = "usecase" /\ CallOK(Len(stack), Top) /\ Types /\ Chained
      BY <1>3, <1>4, <2>1 DEF Shape, Stacked
    <3>2. UseOK(Top) /\ Top.ctx \in 0..Len(txs) /\ i \in 1..(Len(stack) - 1) /\ Top.ctx \in Nat
      <4>1. UseOK(Top) /\ Top.ctx \in 0..Len(txs) /\ Top.ctx \in Nat
        BY <1>3, <3>1 DEF CallOK, OpOK, Calls
      <4>2. DOMAIN stack = 1..Len(stack)
        BY <3>1 DEF Types
      <4> QED
        BY <1>4, <2>1, <4>1, <4>2
    <3>3. f.tx \in Chain(Top.ctx)
      BY <1>6, <3>1, <3>2 DEF CallOK
    <3>4. Top.txs = <<Top.tx>> /\ Top.ctx < Top.tx
      BY <1>1, <3>2 DEF UseOK
    <3>5. Due = Top.tx
      BY <3>4 DEF Due, Last
    <3>6. Chain(Top.ctx) \subseteq 0..Top.ctx
      BY <3>1, <3>2 DEF Chain, Chained, Types
    <3>7. Top.tx \in Nat
      BY <1>3 DEF Calls
    <3> QED
      BY <3>2, <3>3, <3>4, <3>5, <3>6, <3>7
  <2> QED
    BY <2>1, <2>2, <2>3
<1>7. CASE /\ txs[Due].done /\ g.err /\ g.pc = "finish"
           /\ UNCHANGED <<store, txs, cancelled, faults>>
  <2>1. OuterOK(g)'
    BY <1>1, <1>2, <1>3, <1>4, <1>5, <1>7 DEF OuterOK, Outer, Settled
  <2> QED
    BY <1>1, <1>2, <1>7, <2>1, FinishedSteps
<1>8. CASE /\ g.pc = (IF DueManager = "steps" THEN "undo" ELSE "finish")
           /\ RolledBack /\ UNCHANGED <<store, faults>>
  <2>1. OuterOK(g)'
    BY <1>5, <1>8 DEF OuterOK, Outer
  <2>2. /\ DOMAIN txs' = DOMAIN txs
        /\ \A t \in DOMAIN txs :
              /\ txs'[t].acts = txs[t].acts
              /\ txs'[t].done = (txs[t].done \/ t \in Levels(DueManager, Due))
              /\ txs'[t].buf = IF t = DueRoot /\ DueManager # "steps" THEN << >>
                               ELSE txs[t].buf
    BY <1>8 DEF RolledBack
  <2>3. \A t \in DOMAIN txs : txs[t].mgr = "steps" =>
           txs'[t].buf = txs[t].buf /\ (txs[t].done => txs'[t].done)
    BY <1>3, <2>2
  <2>4. g.pc = "undo" => g.tx \in DOMAIN txs /\ txs'[g.tx].done
    BY <1>2, <1>3, <2>2
  <2>5. \A f \in Calls : \A i \in DOMAIN stack : i # Len(stack) /\ f = stack[i] /\ Outer(f) =>
            (txs'[f.tx].done => txs[f.tx].done \/ (g.pc = "undo" /\ g.tx = f.tx))
    BY <1>2, <1>6, <1>8, <2>2
  <2> QED
    BY <1>1, <1>2, <1>8, <2>1, <2>2, <2>3, <2>4, <2>5, FinishedSteps
<1>9. ASSUME Marked, store'["steps"] = store["steps"], g.pc = "finish",
             ~txs[Due].done, DueManager = "steps" => Due # DueRoot \/ ~g.err
      PROVE  Steps'
  <2>1. /\ DOMAIN txs' = DOMAIN txs /\ \A t \in DOMAIN txs : t # Due => txs'[t] = txs[t]
        /\ txs'[Due].mgr = txs[Due].mgr /\ txs'[Due].acts = txs[Due].acts
        /\ txs'[Due].buf = txs[Due].buf /\ txs'[Due].done
    BY <1>9 DEF Marked
  <2>2. OuterOK(g)'
    <3> SUFFICES ASSUME Outer(g) PROVE Settled(g.tx, g.err)'
      BY <1>5 DEF OuterOK, Outer
    <3>1. g.tx = Due /\ ~g.err /\ txs[Due].mgr = "steps"
      BY <1>2, <1>3, <1>5, <1>9
    <3>2. \A d \in txs[Due].acts : Held(txs[Due].buf, d)
      BY <1>3, <1>9, <3>1 DEF Steps, StepsOK
    <3> QED
      BY <1>3, <2>1, <3>1, <3>2 DEF Settled, Held
  <2>3. \A t \in DOMAIN txs : /\ txs'[t].acts = txs[t].acts
                              /\ txs'[t].buf = txs[t].buf /\ (txs[t].done => txs'[t].done)
    BY <2>1
  <2>4. \A f \in Calls : \A i \in DOMAIN stack : i # Len(stack) /\ f = stack[i] /\ Outer(f) =>
            (txs'[f.tx].done => txs[f.tx].done \/ (g.pc = "undo" /\ g.tx = f.tx))
    BY <1>6, <2>1
  <2> QED
    BY <1>1, <1>2, <1>9, <2>1, <2>2, <2>3, <2>4, FinishedSteps
<1>10. ASSUME store' = IF DueManager = "steps" THEN store ELSE Applied(DueManager, txs[Due].buf)
       PROVE  store'["steps"] = store["steps"]
  <2>1. txs[Due].buf \in Seq(Changes) /\ "steps" \in Managers
    BY <1>3 DEF Txs, Managers
  <2>2. CASE DueManager # "steps"
    <3>1. \A k \in Managers : k # DueManager =>
             Applied(DueManager, txs[Due].buf)[k] = store[k]
      BY <1>3, <2>1, AppliedType DEF Shape
    <3> QED
      BY <1>10, <2>1, <2>2, <3>1
  <2> QED
    BY <1>10, <2>2
<1>11. "steps" \notin Drivers
  BY DEF Drivers
<1> QED
  BY <1>2, <1>7, <1>8, <1>9, <1>10, <1>11 DEF FinishKind
----------------------------------------------------------------------------
(* The calls that Next makes. *)
LEMMA CallKinds ==
  ASSUME Shape, UseCase \/ Publish \/ Migrate \/ MigrateDown
  PROVE  \E prog, m, n, arg : CallKind(prog, m, n, arg) /\ Call(prog, m, n, arg)
<1>1. Queues[1] \in ToSet(Queues) /\ Versions \in Nat /\ made + 1 \in Nat
      /\ ToSet(Queues) \subseteq Managers /\ "steps" \in Managers /\ "state" \in Managers
  BY BoundsAssumption DEF ToSet, Managers, Drivers, Shape, Types
<1>2. CASE UseCase
  <2>1. PICK m \in {"steps", Queues[1]} : Call("usecase", m, 0, 0)
    BY <1>2 DEF UseCase
  <2>2. CallKind("usecase", m, 0, 0)
    BY <1>1 DEF CallKind, Migrations
  <2> QED
    BY <2>1, <2>2
<1>3. CASE Publish
  <2>1. Call("fanout", Queues[1], 1, made + 1) /\ CallKind("fanout", Queues[1], 1, made + 1)
    BY <1>1, <1>3 DEF Publish, CallKind, Migrations
  <2> QED
    BY <2>1
<1>4. CASE Migrate
  <2>1. Call("up", "state", 1, 0) /\ CallKind("up", "state", 1, 0)
    BY <1>1, <1>4 DEF Migrate, CallKind, Migrations
  <2> QED
    BY <2>1
<1>5. CASE MigrateDown
  <2>1. PICK target \in 0..Versions : ~Calling /\ Call("down", "state", Versions, target)
    BY <1>5 DEF MigrateDown
  <2>2. CallKind("down", "state", Versions, target)
    BY <1>1, <2>1 DEF CallKind, Migrations
  <2> QED
    BY <2>1, <2>2
<1> QED
  BY <1>2, <1>3, <1>4, <1>5

(* The initial states have the shape. *)
LEMMA InitShape == ASSUME Init PROVE Shape
<1>1. Types
  <2>1. NoCall \in Calls
    BY DEF NoCall, Calls, Progs, PCs
  <2>2. store \in [Managers -> [Data -> Int]]
    BY DEF Init
  <2>3. << >> \in Seq(Txs) /\ << >> \in Seq(Calls)
    OBVIOUS
  <2> QED
    BY <2>1, <2>2, <2>3, BoundsAssumption DEF Init, Types
<1>2. Sizes
  BY BoundsAssumption DEF Init, Sizes, Calling
<1>3. Chained /\ Stacked
  BY DEF Init, Chained, Stacked, RetApart
<1> QED
  BY <1>1, <1>2, <1>3 DEF Shape

(* The initial states have nothing to undo. *)
LEMMA InitSteps == ASSUME Init PROVE Steps
BY DEF Init, Steps, Apart, Outer, NoCall, Calling

(* A step that changes nothing keeps the shape. *)
LEMMA StutterShape == ASSUME Shape, UNCHANGED vars PROVE Shape'
<1>1. UNCHANGED <<store, txs, cancelled, stack, made, faults, called, ret>>
  BY DEF vars
<1>2. Types' /\ Chained'
  BY <1>1 DEF Shape, Types, Chained
<1>3. Sizes'
  BY <1>1 DEF Shape, Sizes, Calling, Top, Left
<1>4. \A c : Chain(c)' = Chain(c) /\ \A m : Levels(m, c)' = Levels(m, c)
  BY <1>1 DEF Chain, Levels
<1>5. \A f : OpOK(f)' <=> OpOK(f)
  BY <1>1, <1>4 DEF OpOK, UseOK, FanShape, MigShape
<1>6. \A i, f : CallOK(i, f)' <=> CallOK(i, f)
  BY <1>1, <1>4, <1>5 DEF CallOK
<1>7. Stacked'
  BY <1>1, <1>6 DEF Shape, Stacked, RetApart
<1> QED
  BY <1>2, <1>3, <1>7 DEF Shape

(* A step that changes nothing keeps the undo steps right. *)
LEMMA StutterSteps == ASSUME Steps, UNCHANGED vars PROVE Steps'
<1>1. UNCHANGED <<store, txs, stack, made, ret>>
  BY DEF vars
<1>2. \A t \in DOMAIN txs : StepsOK(t)' <=> StepsOK(t)
  BY <1>1 DEF StepsOK, Held
<1>3. \A t, err : Settled(t, err)' <=> Settled(t, err)
  BY <1>1 DEF Settled, Held
<1>4. \A f : OuterOK(f)' <=> OuterOK(f)
  BY <1>1, <1>3 DEF OuterOK, Outer, Top
<1>5. \A f : Outer(f)' <=> Outer(f)
  BY DEF Outer
<1> QED
  BY <1>1, <1>2, <1>3, <1>4, <1>5 DEF Steps, Apart, Calling, Top

(* Every step keeps the shape. *)
LEMMA NextShape == ASSUME Shape, [Next]_vars PROVE Shape'
<1>1. CASE UseCase \/ Publish \/ Migrate \/ MigrateDown
  BY <1>1, CallKinds, CallShape
<1>2. CASE \E c \in 0..Len(txs) : Cancel(c)
  BY <1>2, CancelShape
<1>3. CASE Crash \/ UseBegin \/ Act \/ QueuePublish \/ UseReturn
  BY <1>3, CrashShape, UseBeginShape, ActShape, QueuePublishShape, UseReturnShape
<1>4. CASE eachQueue \/ MigrateBegin \/ stage
  BY <1>4, eachQueueShape, MigrateBeginShape, stageShape
<1>5. CASE FinishTx \/ Undo \/ Return
  BY <1>5, FinishTxShape, UndoShape, ReturnShape
<1>6. CASE UNCHANGED vars
  BY <1>6, StutterShape
<1> QED
  BY <1>1, <1>2, <1>3, <1>4, <1>5, <1>6 DEF Next

(* Every step keeps the undo steps right. *)
LEMMA NextSteps == ASSUME Shape, Steps, [Next]_vars PROVE Steps'
<1>1. CASE UseCase \/ Publish \/ Migrate \/ MigrateDown
  BY <1>1, CallKinds, CallSteps
<1>2. CASE \E c \in 0..Len(txs) : Cancel(c)
  BY <1>2, CancelSteps
<1>3. CASE Crash \/ UseBegin \/ Act \/ QueuePublish \/ UseReturn
  BY <1>3, CrashSteps, UseBeginSteps, ActSteps, QueuePublishSteps, UseReturnSteps
<1>4. CASE eachQueue \/ MigrateBegin \/ stage
  BY <1>4, eachQueueSteps, MigrateBeginSteps, stageSteps
<1>5. CASE FinishTx \/ Undo \/ Return
  BY <1>5, FinishTxSteps, UndoSteps, ReturnSteps
<1>6. CASE UNCHANGED vars
  BY <1>6, StutterSteps
<1> QED
  BY <1>1, <1>2, <1>3, <1>4, <1>5, <1>6 DEF Next

(* Shape is an invariant. *)
LEMMA ShapeInvariant == Spec => []Shape
<1>1. Init => Shape
  BY InitShape
<1>2. Shape /\ [Next]_vars => Shape'
  BY NextShape
<1> QED
  BY <1>1, <1>2, PTL DEF Spec

(* So is Steps, with it. *)
LEMMA StepsInvariant == Spec => []Steps
<1>1. Init => Steps
  BY InitSteps
<1>2. Shape /\ Steps /\ [Next]_vars => Steps'
  BY NextSteps
<1> QED
  BY <1>1, <1>2, ShapeInvariant, PTL DEF Spec

(* A use case that returned no error kept everything that it and the calls *)
(* within it registered with OnRollback, and one that returned an error    *)
(* kept nothing of it, apart from the changes whose own undo failed.       *)
THEOREM UseCasesAreAllOrNothing == Spec => []AllOrNothing
<1>1. ASSUME Shape, Steps PROVE AllOrNothing
  <2>1. TypeOK
    <3>1. \A t \in DOMAIN txs : txs[t] \in Txs
      BY <1>1 DEF Shape, Types
    <3>2. \A t \in DOMAIN txs : txs[t].mgr \in Managers
      BY <3>1 DEF Txs
    <3> QED
      BY <1>1, <3>2 DEF Shape, Types, Sizes, TypeOK
  <2>2. ASSUME ret.prog = "usecase", ret.mgr = "steps", ret.alone, ret.tx # 0,
               NEW d \in txs[ret.tx].acts
        PROVE  store["steps"][d] = IF ret.err THEN 0 ELSE 1
    <3>1. ret \in Calls /\ Settled(ret.tx, ret.err)
      BY <1>1, <2>2 DEF Shape, Types, Steps, Outer
    <3>2. StepsOK(ret.tx) /\ txs[ret.tx].mgr = "steps"
      BY <1>1, <3>1 DEF Steps, Settled
    <3> QED
      BY <2>2, <3>1, <3>2 DEF Settled, StepsOK, Held
  <2> QED
    BY <2>1, <2>2 DEF AllOrNothing
<1> QED
  BY <1>1, ShapeInvariant, StepsInvariant, PTL

(* While a change of a transaction of steps is there, so are those made    *)
(* before it: Teardown.Finish undoes the last one first.                   *)
THEOREM UndoneLastInFirstOut == Spec => []LastInFirstOut
<1>1. ASSUME Shape, Steps PROVE LastInFirstOut
  <2> SUFFICES ASSUME NEW t \in DOMAIN txs, NEW i \in txs[t].acts, NEW j \in txs[t].acts,
                      i < j, store["steps"][j] = 1
               PROVE  store["steps"][i] = 1
    BY DEF LastInFirstOut
  <2>2. txs[t].mgr = "steps" /\ StepsOK(t) /\ txs[t] \in Txs
    BY <1>1 DEF Steps, StepsOK, Shape, Types
  <2>1. PICK b \in Seq(Changes) : b = txs[t].buf
    BY <2>2 DEF Txs
  <2>3. i \in Nat /\ j \in Nat
    BY <2>2, BoundsAssumption DEF Txs, Data
  <2>4. PICK k \in DOMAIN b : b[k].d = j
    BY <2>1, <2>2 DEF StepsOK, Held
  <2>5. Held(b, i)
    BY <2>1, <2>2, <2>3, <2>4 DEF StepsOK
  <2> QED
    BY <2>1, <2>2, <2>5 DEF StepsOK, Held
<1> QED
  BY <1>1, ShapeInvariant, StepsInvariant, PTL
----------------------------------------------------------------------------
(* PART B.  Publish to the queues of a FanOutExchange.                     *)

(* No queue is behind the exchange twice. *)
QueuesDiffer == \A i, j \in DOMAIN Queues : Queues[i] = Queues[j] => i = j

(* How often a queue has the message of a Publish. *)
Times(f, i) == store[Queues[i]][f.arg]

(* A Publish outside of a transaction of a queue: its transactions are the *)
(* outermost ones, and hold the message until they commit, last one first. *)
FanRest(f) ==
    LET k == Len(f.txs)
    IN  f.alone =>
          /\ \A i \in 1..k :
                /\ ~txs[f.txs[i]].done /\ Times(f, i) = 0
                /\ ~f.err => txs[f.txs[i]].buf = <<[d |-> f.arg, n |-> 1]>>
                /\ faults = 0 /\ ~f.err => txs[f.txs[i]].chain \cap cancelled = {}
          /\ \A i \in DOMAIN Queues :
                /\ Times(f, i) \in 0..1
                /\ f.pc = "begin" => Times(f, i) = 0
                /\ f.pc = "finish" /\ ~f.err /\ i > k => Times(f, i) = 1
                /\ f.err /\ faults = 0 => Times(f, i) = 0
                /\ \A j \in 1..(i - 1) : Times(f, j) <= Times(f, i)
          /\ f.err => Times(f, 1) = 0

(* What is in the queues, and in their transactions, was made before. *)
Unmade == \A q \in ToSet(Queues), d \in Data : d > made => store[q][d] = 0

(* What is written to a queue is a message that was made. *)
Bufs == \A t \in DOMAIN txs : txs[t].mgr \in ToSet(Queues) =>
           \A i \in DOMAIN txs[t].buf : txs[t].buf[i].d <= made

(* A Publish that returned is of a queue. *)
RetQueue == ret.prog = "fanout" => ret.mgr \in ToSet(Queues)

(* The invariant of the fan-out. *)
Fan == /\ Unmade /\ Bufs /\ FanOutCommits /\ RetQueue
       /\ \A f \in Calls : Calling /\ f = Top /\ f.prog = "fanout" => FanRest(f)

(* A step that leaves the queues and the transactions of queues alone. *)
QuietQueues ==
    /\ \A q \in ToSet(Queues) : store'[q] = store[q]
    /\ \A t \in DOMAIN txs' : txs'[t].mgr \in ToSet(Queues) =>
          \/ txs'[t].buf = << >>
          \/ t \in DOMAIN txs /\ txs'[t].mgr = txs[t].mgr /\ txs'[t].buf = txs[t].buf

(* No step takes a fault back. *)
LEMMA FaultsGrow ==
  ASSUME Shape, Next
  PROVE  faults \in Nat /\ faults' \in Nat /\ faults <= faults'
<1>1. faults \in Nat
  BY BoundsAssumption DEF Shape, Types
<1>2. CASE faults' = faults
  BY <1>1, <1>2
<1>3. CASE Fault
  BY <1>1, <1>3 DEF Fault
<1> QED
  BY <1>1, <1>2, <1>3
     DEF Next, UseCase, Publish, Migrate, MigrateDown, Call, Cancel, Crash, UseBegin, Act,
         QueuePublish, UseReturn, eachQueue, MigrateBegin, stage, FinishTx, Undo, Return,
         BeginFails, RollbackTx, CommitTx

(* A step that leaves the queues alone leaves what was written to them. *)
LEMMA QuietBufs ==
  ASSUME Shape, Fan, QuietQueues, made <= made', made' \in Nat
  PROVE  Bufs'
<1>1. made \in Nat /\ Data \subseteq Nat
  BY BoundsAssumption DEF Shape, Types, Data
<1> SUFFICES ASSUME NEW t \in DOMAIN txs', txs'[t].mgr \in ToSet(Queues),
                    NEW i \in DOMAIN txs'[t].buf
             PROVE  txs'[t].buf[i].d <= made'
  BY DEF Bufs
<1>2. /\ t \in DOMAIN txs /\ txs[t].mgr \in ToSet(Queues) /\ txs'[t].buf = txs[t].buf
  BY DEF QuietQueues
<1>3. txs[t].buf[i].d <= made
  BY <1>2 DEF Fan, Bufs
<1>4. txs[t] \in Txs
  BY <1>2 DEF Shape, Types
<1>5. txs[t].buf[i] \in Changes
  BY <1>2, <1>4 DEF Txs
<1>6. txs[t].buf[i].d \in Nat
  BY <1>1, <1>5 DEF Changes
<1> QED
  BY <1>1, <1>2, <1>3, <1>6

(* A step that leaves what the queues hold alone. *)
LEMMA StoreFan ==
  ASSUME Shape, Fan, Bufs', \A q \in ToSet(Queues) : store'[q] = store[q],
         made <= made', made' \in Nat, faults \in Nat,
         faults' \in Nat, faults <= faults', ret' = ret \/ (FanOutCommits' /\ RetQueue'),
         NEW g, Calling' => Top' = g,
         Calling' /\ g.prog = "fanout" => FanRest(g)'
  PROVE  Fan'
<1>1. made \in Nat /\ Data \subseteq Nat
  BY BoundsAssumption DEF Shape, Types, Data
<1>2. Unmade'
  <2> SUFFICES ASSUME NEW q \in ToSet(Queues), NEW d \in Data, d > made'
               PROVE  store'[q][d] = 0
    BY DEF Unmade
  <2>1. d > made
    BY <1>1
  <2> QED
    BY <2>1 DEF Unmade, Fan
<1>3. FanOutCommits'
  <2>1. CASE ret' = ret
    <3>1. \A i \in DOMAIN Queues : Queues[i] \in ToSet(Queues)
      BY DEF ToSet
    <3>2. \A i \in DOMAIN Queues : store'[Queues[i]] = store[Queues[i]]
      BY <3>1
    <3>3. 1 \in DOMAIN Queues /\ DOMAIN Queues = 1..Len(Queues) /\ Len(Queues) \in Nat
      BY BoundsAssumption
    <3>4. \A i \in DOMAIN Queues : \A j \in 1..(i - 1) : j \in DOMAIN Queues
      BY <3>3
    <3>5. faults' = 0 => faults = 0
      OBVIOUS
    <3> QED
      BY <2>1, <3>2, <3>3, <3>4, <3>5 DEF Fan, FanOutCommits
  <2> QED
    BY <2>1
<1>4. RetQueue'
  BY DEF Fan, RetQueue
<1> QED
  BY <1>2, <1>3, <1>4 DEF Fan

(* A step that leaves the queues and their transactions alone. *)
LEMMA QuietFan ==
  ASSUME Shape, Fan, QuietQueues, made <= made', made' \in Nat, faults \in Nat,
         faults' \in Nat, faults <= faults', ret' = ret \/ (FanOutCommits' /\ RetQueue'),
         NEW g, Calling' => Top' = g,
         Calling' /\ g.prog = "fanout" => FanRest(g)'
  PROVE  Fan'
<1>1. Bufs' /\ \A q \in ToSet(Queues) : store'[q] = store[q]
  BY QuietBufs DEF QuietQueues
<1> QED
  BY <1>1, StoreFan

(* Counters stay numbers. *)
LEMMA NextNumbers ==
  ASSUME Shape, Next
  PROVE  /\ faults \in Nat /\ faults' \in Nat /\ faults <= faults' /\ made \in Nat
         /\ Calling => Top \in Calls
  BY FaultsGrow, TopFacts, BoundsAssumption DEF Shape, Types

(* A new transaction leaves the others alone. *)
LEMMA BegunQuiet ==
  ASSUME Types, NEW m \in Managers, NEW c \in 0..Len(txs), txs' = Begun(m, c), store' = store
  PROVE  QuietQueues
<1>1. /\ Len(txs) \in Nat /\ DOMAIN txs = 1..Len(txs) /\ txs' \in Seq(Txs)
      /\ Len(txs') = Len(txs) + 1 /\ \A t \in 1..Len(txs) : txs'[t] = txs[t]
      /\ txs'[Len(txs) + 1].buf = << >>
  <2>1. Len(txs) \in Nat /\ DOMAIN txs = 1..Len(txs)
    BY DEF Types
  <2>2. PICK b : b = Begun(m, c)
    OBVIOUS
  <2>3. /\ b \in Seq(Txs) /\ Len(b) = Len(txs) + 1 /\ \A t \in 1..Len(txs) : b[t] = txs[t]
        /\ b[Len(txs) + 1] = [mgr |-> m, chain |-> Chain(c) \cup {Len(txs) + 1},
                               done |-> FALSE, buf |-> << >>, acts |-> {}]
    BY <2>2, BegunFacts
  <2> QED
    BY <2>1, <2>2, <2>3
<1>2. \A t \in DOMAIN txs' : t \in 1..Len(txs) \/ t = Len(txs) + 1
  BY <1>1
<1> QED
  BY <1>1, <1>2 DEF QuietQueues

(* A step that changes neither the store nor a transaction is quiet. *)
LEMMA SameQuiet == ASSUME store' = store, txs' = txs PROVE QuietQueues
BY DEF QuietQueues

(* The begin and the end of a use case leave the queues alone. *)
LEMMA UseFan ==
  ASSUME Shape, Fan, Next, UseBegin \/ UseReturn
  PROVE  Fan'
<1>1. /\ Calling /\ Top.prog = "usecase" /\ UNCHANGED <<store, made, ret>>
  BY DEF UseBegin, UseReturn
<1>2. QuietQueues
  <2>1. CASE UseBegin
    <3>1. Top.mgr \in Managers /\ Top.ctx \in 0..Len(txs)
      BY <1>1, TopOK DEF UseOK, Managers
    <3> QED
      BY <1>1, <2>1, <3>1, UseBeginShape, BegunQuiet, SameQuiet DEF Failed, Shape
  <2>2. CASE UseReturn
    BY <1>1, <2>2, SameQuiet DEF UseReturn
  <2> QED
    BY <2>1, <2>2
<1>3. PICK g \in Calls : Moved(g) /\ Kin(g)
  <2>1. CASE UseBegin
    BY <2>1, UseBeginShape DEF Failed
  <2>2. CASE UseReturn
    BY <2>2, UseReturnShape
  <2> QED
    BY <2>1, <2>2
<1>4. Top' = g /\ g.prog # "fanout"
  BY <1>1, <1>3 DEF Moved, Kin
<1> QED
  BY <1>1, <1>2, <1>4, NextNumbers, QuietFan

(* A use case registers a change: it keeps what is known of the fan-out. *)
LEMMA ActFan == ASSUME Shape, Fan, Next, Act PROVE Fan'
<1>1. /\ Calling /\ Top.prog = "usecase" /\ made' = made + 1 /\ ret' = ret
  BY DEF Act
<1>2. PICK g \in Calls : Moved(g) /\ Kin(g)
  BY ActShape DEF Onwards
<1>3. Top' = g /\ g.prog # "fanout"
  BY <1>1, <1>2 DEF Moved, Kin
<1>4. "steps" \notin ToSet(Queues)
  BY BoundsAssumption
<1>5. QuietQueues
  <2>1. \A q \in ToSet(Queues) : store'[q] = store[q]
    <3>1. store \in [Managers -> [Data -> Int]] /\ ToSet(Queues) \subseteq Managers
      BY DEF Shape, Types, Managers
    <3> QED
      BY <1>4, <3>1, ActShape
  <2>2. CASE txs' = txs
    BY <2>1, <2>2 DEF QuietQueues
  <2>3. CASE \E r \in DOMAIN txs :
                  /\ txs[r].mgr = "steps" /\ ~txs[r].done
                  /\ txs' = [txs EXCEPT ![r] =
                        [txs[r] EXCEPT !.buf = Append(@, [d |-> made + 1, n |-> 1]),
                                       !.acts = @ \cup {made + 1}]]
    <3>1. PICK r \in DOMAIN txs :
                  /\ txs[r].mgr = "steps"
                  /\ txs' = [txs EXCEPT ![r] =
                        [txs[r] EXCEPT !.buf = Append(@, [d |-> made + 1, n |-> 1]),
                                       !.acts = @ \cup {made + 1}]]
      BY <2>3
    <3>2. DOMAIN txs' = DOMAIN txs /\ \A t \in DOMAIN txs : t # r => txs'[t] = txs[t]
      BY <3>1
    <3>3. txs'[r].mgr = "steps"
      <4>1. r \in 1..Len(txs)
        BY DEF Shape, Types
      <4> QED
        BY <3>1, <4>1, ActShape DEF Kept
    <3> QED
      BY <1>4, <2>1, <3>2, <3>3 DEF QuietQueues
  <2> QED
    BY <2>2, <2>3, ActShape
<1> QED
  BY <1>1, <1>3, <1>5, NextNumbers, QuietFan

(* One step of Teardown: it keeps what is known of the fan-out. *)
LEMMA UndoFan == ASSUME Shape, Fan, Next, Undo PROVE Fan'
<1>1. /\ Calling /\ Top.prog = "usecase" /\ made' = made /\ ret' = ret
      /\ DOMAIN txs' = DOMAIN txs /\ Kept
  BY UndoShape
<1>2. "steps" \notin ToSet(Queues)
  BY BoundsAssumption
<1>3. PICK g \in Calls : Moved(g) /\ g.prog = "usecase"
  BY <1>1, UndoShape, TopFacts DEF Kin, Shape
<1>4. QuietQueues
  <2>1. PICK r \in DOMAIN txs :
           /\ txs[r].mgr = "steps" /\ \A t \in DOMAIN txs : t # r => txs'[t] = txs[t]
           /\ \/ store' = store
              \/ \E s \in Changes : store' = [store EXCEPT !["steps"][s.d] = @ - s.n]
    BY UndoShape
  <2>2. txs'[r].mgr = "steps"
    <3>1. r \in 1..Len(txs)
      BY DEF Shape, Types
    <3> QED
      BY <1>1, <2>1, <3>1 DEF Kept
  <2>3. \A q \in ToSet(Queues) : store'[q] = store[q]
    <3>1. store \in [Managers -> [Data -> Int]] /\ ToSet(Queues) \subseteq Managers
      BY DEF Shape, Types, Managers
    <3> QED
      BY <1>2, <2>1, <3>1
  <2> QED
    BY <1>1, <1>2, <2>1, <2>2, <2>3 DEF QuietQueues
<1>5. Top' = g
  BY <1>3 DEF Moved
<1> QED
  BY <1>1, <1>3, <1>4, <1>5, NextNumbers, QuietFan

(* So do the steps of a migration before its commits. *)
LEMMA MigrationFan ==
  ASSUME Shape, Fan, Next, MigrateBegin \/ stage
  PROVE  Fan'
<1>1. /\ Calling /\ Top.prog \in Migrations /\ UNCHANGED <<store, made, ret>>
  BY DEF MigrateBegin, stage
<1>2. PICK g \in Calls : Moved(g) /\ Kin(g)
  <2>1. CASE MigrateBegin
    BY <2>1, MigrateBeginShape DEF Failed
  <2>2. CASE stage
    BY <2>2, stageShape DEF Failed
  <2> QED
    BY <2>1, <2>2
<1>3. Top' = g /\ g.prog # "fanout"
  BY <1>1, <1>2 DEF Moved, Kin, Migrations
<1>4. QuietQueues
  <2>1. CASE MigrateBegin
    <3>1. CASE Failed
      BY <3>1, SameQuiet DEF Failed
    <3>2. CASE \E m \in Managers : txs' = Begun(m, Top.ctx)
      <4>1. PICK m \in Managers : txs' = Begun(m, Top.ctx)
        BY <3>2
      <4>2. Top.ctx \in 0..Len(txs)
        BY <1>1, TopOK
      <4> QED
        BY <1>1, <4>1, <4>2, BegunQuiet DEF Shape
    <3> QED
      BY <2>1, <3>1, <3>2, MigrateBeginShape
  <2>2. CASE stage
    <3>1. /\ Kept /\ DOMAIN txs' = DOMAIN txs /\ {1, 2} \subseteq DOMAIN txs
          /\ txs[1].mgr = "state" /\ txs[2].mgr = "resource"
          /\ \A t \in DOMAIN txs : t \notin {1, 2} => txs'[t] = txs[t]
      BY <2>2, stageShape
    <3>2. "state" \notin ToSet(Queues) /\ "resource" \notin ToSet(Queues)
      BY BoundsAssumption
    <3>3. txs'[1].mgr = "state" /\ txs'[2].mgr = "resource"
      <4>1. 1 \in 1..Len(txs) /\ 2 \in 1..Len(txs)
        BY <3>1 DEF Shape, Types
      <4> QED
        BY <3>1, <4>1 DEF Kept
    <3> QED
      BY <1>1, <3>1, <3>2, <3>3 DEF QuietQueues
  <2> QED
    BY <2>1, <2>2
<1> QED
  BY <1>1, <1>3, <1>4, NextNumbers, QuietFan

(* A migration dies: it keeps what is known of the fan-out. *)
LEMMA CrashFan == ASSUME Shape, Fan, Next, Crash PROVE Fan'
<1>1. UNCHANGED <<store, made, ret>> /\ txs' = << >> /\ ~Calling'
  BY CrashShape DEF Calling
<1>2. QuietQueues
  BY <1>1 DEF QuietQueues
<1> QED
  BY <1>1, <1>2, NextNumbers, QuietFan

(* A context is cancelled: it keeps what is known of the fan-out. *)
LEMMA CancelFan == ASSUME Shape, Fan, Next, NEW c \in 0..Len(txs), Cancel(c) PROVE Fan'
<1>1. UNCHANGED <<store, txs, stack, made, ret>> /\ faults' = faults + 1 /\ Calling
  BY CancelShape
<1>2. PICK g \in Calls : g = Top
  BY <1>1, NextNumbers
<1>3. Top' = g
  BY <1>1, <1>2 DEF Top
<1>4. g.prog = "fanout" => FanRest(g)'
  <2> HAVE g.prog = "fanout"
  <2>1. FanRest(g)
    BY <1>1, <1>2 DEF Fan
  <2>2. faults' # 0
    BY <1>1, NextNumbers
  <2> QED
    BY <1>1, <2>1, <2>2 DEF FanRest, Times
<1> QED
  BY <1>1, <1>3, <1>4, SameQuiet, NextNumbers, QuietFan

(* A call begins: it keeps what is known of the fan-out. *)
LEMMA CallFan ==
  ASSUME Shape, Fan, Next, NEW prog, NEW m, NEW n, NEW arg, CallKind(prog, m, n, arg),
         Call(prog, m, n, arg)
  PROVE  Fan'
<1>1. PICK f \in Calls : Called(f, prog, m, n, arg) /\ Calling' /\ Top' = f
  BY CallShape
<1>2. /\ store' = store /\ txs' = (IF Calling THEN txs ELSE << >>) /\ ret' = NoCall
      /\ made' = IF prog = "fanout" THEN made + 1 ELSE made
  BY CallShape
<1>3. made <= made' /\ made' \in Nat /\ made \in Nat
  BY <1>2, NextNumbers
<1>4. QuietQueues
  BY <1>2 DEF QuietQueues
<1>5. FanOutCommits' /\ RetQueue'
  BY <1>2 DEF FanOutCommits, RetQueue, NoCall
<1>6. f.prog = "fanout" => FanRest(f)'
  <2> HAVE f.prog = "fanout"
  <2>1. prog = "fanout" /\ f.arg = made + 1 /\ f.pc = "begin" /\ f.txs = << >> /\ ~f.err
    BY <1>1 DEF Called, CallKind
  <2>2. made < MaxData
    BY <2>1 DEF Call
  <2>3. made + 1 \in Data
    BY <1>3, <2>2, BoundsAssumption DEF Data
  <2>4. \A i \in DOMAIN Queues : store[Queues[i]][made + 1] = 0
    <3>1. \A q \in ToSet(Queues) : store[q][made + 1] = 0
      BY <1>3, <2>3 DEF Fan, Unmade
    <3> QED
      BY <3>1 DEF ToSet
  <2>5. \A i \in DOMAIN Queues : Times(f, i)' = 0
    BY <1>2, <2>1, <2>4 DEF Times
  <2>6. DOMAIN Queues = 1..Len(Queues) /\ Len(Queues) \in Nat
    BY BoundsAssumption
  <2>7. \A i \in DOMAIN Queues : \A j \in 1..(i - 1) : j \in DOMAIN Queues
    BY <2>6
  <2> QED
    BY <2>1, <2>5, <2>7 DEF FanRest
<1> QED
  BY <1>1, <1>3, <1>4, <1>5, <1>6, NextNumbers, QuietFan

(* A call returns: it keeps what is known of the fan-out. *)
LEMMA ReturnFan == ASSUME Shape, Fan, Next, Return PROVE Fan'
<1>1. /\ UNCHANGED <<store, txs, made, faults>> /\ Calling /\ Top.pc = "finish"
      /\ Top.txs = << >> /\ ret' = Top /\ Len(stack') = Len(stack) - 1
      /\ DOMAIN stack' = 1..(Len(stack) - 1)
  BY ReturnShape
<1>2. PICK n \in Nat : n = Len(stack) - 1
  BY <1>1, TopFacts DEF Shape
<1>3. PICK g : g = Top'
  OBVIOUS
<1>4. Calling' => g.prog # "fanout"
  <2> HAVE Calling'
  <2>1. stack' \in Seq(Calls) /\ stack' # << >>
    BY ReturnShape DEF Shape, Types, Calling
  <2>2. n > 0 /\ n \in DOMAIN stack' /\ g = stack'[n]
    BY <1>1, <1>2, <1>3, <2>1 DEF Top, Last
  <2>3. stack[n] \in Calls /\ stack'[n] \in Calls /\ stack[n].prog = "usecase"
    BY <2>2, ReturnShape
  <2>4. n \in 1..(Len(stack) - 1)
    BY <1>1, <2>2
  <2>5. stack'[n].prog = stack[n].prog
    BY <2>3, <2>4, ReturnShape
  <2> QED
    BY <2>2, <2>3, <2>5
<1>5. FanOutCommits'
  <2> SUFFICES ASSUME Top.prog = "fanout", Top.alone PROVE FanOutCommits'
    BY <1>1 DEF FanOutCommits
  <2>1. FanRest(Top)
    BY <1>1, NextNumbers DEF Fan
  <2>2. /\ \A i \in DOMAIN Queues :
              /\ Times(Top, i) \in 0..1
              /\ ~Top.err => Times(Top, i) = 1
              /\ Top.err /\ faults = 0 => Times(Top, i) = 0
              /\ \A j \in 1..(i - 1) : Times(Top, j) <= Times(Top, i)
        /\ Top.err => Times(Top, 1) = 0
    BY <1>1, <2>1, BoundsAssumption DEF FanRest
  <2> QED
    BY <1>1, <2>2 DEF FanOutCommits, Times
<1>6. RetQueue'
  <2> SUFFICES ASSUME Top.prog = "fanout" PROVE Top.mgr \in ToSet(Queues)
    BY <1>1 DEF RetQueue
  <2>1. Top.mgr = Queues[1] /\ 1 \in DOMAIN Queues
    BY <1>1, TopOK, BoundsAssumption DEF OpOK, FanShape
  <2> QED
    BY <2>1 DEF ToSet
<1> QED
  BY <1>1, <1>3, <1>4, <1>5, <1>6, SameQuiet, NextNumbers, QuietFan

(* A use case publishes: it keeps what is known of the fan-out. *)
LEMMA QueuePublishFan == ASSUME Shape, Fan, Next, QueuePublish PROVE Fan'
<1>1. /\ Calling /\ Top.prog = "usecase" /\ UNCHANGED <<store, faults, ret>>
  BY QueuePublishShape DEF QueuePublish
<1>2. PICK g \in Calls : Moved(g) /\ Kin(g)
  BY QueuePublishShape DEF Onwards
<1>3. Top' = g /\ g.prog # "fanout"
  BY <1>1, <1>2 DEF Moved, Kin
<1>4. CASE txs' = txs /\ made' = made
  BY <1>1, <1>3, <1>4, SameQuiet, NextNumbers, QuietFan
<1>5. CASE /\ made' = made + 1 /\ made + 1 \in Data
           /\ \E r \in DOMAIN txs :
                 /\ txs[r].mgr \in ToSet(Queues)
                 /\ txs' = [txs EXCEPT ![r].buf = Append(@, [d |-> made + 1, n |-> 1])]
  <2>1. PICK r \in DOMAIN txs :
           txs' = [txs EXCEPT ![r].buf = Append(@, [d |-> made + 1, n |-> 1])]
    BY <1>5
  <2>2. /\ DOMAIN txs' = DOMAIN txs /\ Kept
        /\ txs'[r].buf = Append(txs[r].buf, [d |-> made + 1, n |-> 1])
        /\ \A t \in DOMAIN txs : t # r => txs'[t] = txs[t]
    BY <1>5, <2>1, WriteFacts DEF Shape
  <2>3. made \in Nat /\ made <= made' /\ made' \in Nat
    BY <1>5, NextNumbers
  <2>4. ASSUME NEW t \in DOMAIN txs', txs'[t].mgr \in ToSet(Queues),
               NEW i \in DOMAIN txs'[t].buf
        PROVE  txs'[t].buf[i].d <= made'
    <3>1. txs[t] \in Txs /\ txs[t].mgr = txs'[t].mgr
      <4>1. t \in 1..Len(txs)
        BY <2>2 DEF Shape, Types
      <4> QED
        BY <2>2, <4>1 DEF Kept, Shape, Types
    <3>2. PICK b \in Seq(Changes) : b = txs[t].buf
      BY <3>1 DEF Txs
    <3>3. \A j \in DOMAIN b : b[j].d <= made /\ b[j].d \in Nat
      <4>1. \A j \in DOMAIN b : b[j] \in Changes
        OBVIOUS
      <4>2. \A j \in DOMAIN b : b[j].d \in Nat
        BY <4>1, BoundsAssumption DEF Changes, Data
      <4> QED
        BY <2>2, <2>4, <3>1, <3>2, <4>2 DEF Fan, Bufs
    <3>4. CASE t # r
      BY <1>5, <2>2, <2>3, <2>4, <3>2, <3>3, <3>4
    <3>5. CASE t = r
      <4>1. PICK e \in Changes : e = [d |-> made + 1, n |-> 1]
        BY <1>5 DEF Changes
      <4>2. txs'[t].buf = Append(b, e) /\ e.d = made'
        BY <1>5, <2>2, <3>2, <3>5, <4>1
      <4>3. PICK n \in Nat : n = Len(b) /\ DOMAIN b = 1..n
        OBVIOUS
      <4>4. /\ DOMAIN Append(b, e) = 1..(n + 1) /\ Append(b, e)[n + 1] = e
            /\ \A j \in 1..n : Append(b, e)[j] = b[j]
        BY <4>3, AppendFacts
      <4>5. CASE i = n + 1
        BY <2>3, <4>2, <4>4, <4>5
      <4>6. CASE i # n + 1
        <5>1. i \in 1..n
          BY <2>4, <4>2, <4>3, <4>4, <4>6
        <5>2. txs'[t].buf[i] = b[i] /\ b[i].d <= made /\ b[i].d \in Nat
          BY <3>3, <4>2, <4>3, <4>4, <5>1
        <5> QED
          BY <2>3, <5>2
      <4> QED
        BY <4>5, <4>6
    <3> QED
      BY <3>4, <3>5
  <2>5. Bufs'
    BY <2>4 DEF Bufs
  <2> QED
    BY <1>1, <1>3, <2>3, <2>5, NextNumbers, StoreFan
<1> QED
  BY <1>4, <1>5, QueuePublishShape
----------------------------------------------------------------------------
(* A round of the fan-out: it keeps what is known of the fan-out. *)
LEMMA eachQueueFan == ASSUME Shape, Fan, Next, eachQueue PROVE Fan'
<1>1. /\ Calling /\ Top.prog = "fanout" /\ Top.pc = "begin" /\ FanShape(Top)
      /\ UNCHANGED <<store, cancelled, made, ret>> /\ Top.n \in DOMAIN Queues /\ Top.arg \in Data
  BY eachQueueShape DEF eachQueue
<1>2. /\ Top \in Calls /\ Top.ctx \in 0..Len(txs) /\ FanRest(Top)
      /\ Top.alone <=> Levels(Top.mgr, Top.ctx) = {}
  BY <1>1, TopOK DEF Fan
<1>3. PICK k \in Nat : k = Len(Top.txs) /\ Top.n = k + 1 /\ Top.txs \in Seq(Nat)
  BY <1>1, <1>2 DEF FanShape, Calls
<1>4. PICK t \in Nat : t = Len(txs) + 1 /\ DOMAIN txs = 1..(t - 1) /\ t \notin DOMAIN txs
  BY DEF Shape, Types
<1>5. DOMAIN Queues = 1..Len(Queues) /\ Len(Queues) \in Nat /\ Len(Queues) > 0
      /\ \A i \in DOMAIN Queues : \A j \in 1..(i - 1) : j \in DOMAIN Queues
  BY BoundsAssumption
<1>6. Top.alone => \A i \in DOMAIN Queues : Times(Top, i) = 0
  BY <1>1, <1>2 DEF FanRest
<1>7. ASSUME NEW g \in Calls, Kin(g) PROVE \A i : Times(g, i)' = Times(Top, i)
  BY <1>1, <1>7 DEF Times, Kin
<1>8. CASE Failed
  <2>1. PICK g \in Calls : /\ Moved(g) /\ Kin(g) /\ g.pc = "finish" /\ g.err
                           /\ g.txs = Top.txs
    BY <1>8 DEF Failed
  <2>2. txs' = txs
    BY <1>8 DEF Failed
  <2>3. \A i : Times(g, i)' = Times(Top, i)
    BY <1>7, <2>1
  <2>4. FanRest(g)'
    BY <1>2, <1>5, <1>6, <2>1, <2>2, <2>3 DEF FanRest, Kin
  <2>5. Top' = g
    BY <2>1 DEF Moved
  <2> QED
    BY <1>1, <2>2, <2>4, <2>5, SameQuiet, NextNumbers, QuietFan
<1>9. ASSUME Grown(Queues[Top.n], Top.ctx), Kept, ~Err(Top.ctx),
             \A u \in DOMAIN txs : Top.alone => txs'[u] = txs[u],
             NEW g \in Calls, Moved(g), Kin(g), g.txs = Append(Top.txs, t),
             ~g.err /\ Top.alone => txs'[t].buf = <<[d |-> Top.arg, n |-> 1]>>,
             g.pc \in {"begin", "finish"}, ~g.err /\ g.pc = "finish" => Top.n = Len(Queues),
             g.err => g.pc = "finish"
      PROVE  FanRest(g)'
  <2> SUFFICES ASSUME g.alone PROVE FanRest(g)'
    BY DEF FanRest
  <2>1. Top.alone /\ g.arg = Top.arg /\ \A i : Times(g, i)' = Times(Top, i)
    BY <1>7, <1>9 DEF Kin
  <2>2. /\ Len(g.txs) = k + 1 /\ g.txs[k + 1] = t /\ \A i \in 1..k : g.txs[i] = Top.txs[i]
    BY <1>3, <1>9
  <2>3. /\ ~txs'[t].done /\ txs'[t].chain = Chain(Top.ctx) \cup {t}
    BY <1>4, <1>9 DEF Grown
  <2>4. txs'[t].chain \cap cancelled' = {}
    <3>1. Chain(Top.ctx) \cap cancelled = {}
      BY <1>9 DEF Err
    <3>2. t \notin cancelled
      BY <1>1, <1>4 DEF Shape, Sizes
    <3> QED
      BY <1>1, <2>3, <3>1, <3>2
  <2>5. \A i \in 1..k : Top.txs[i] \in DOMAIN txs /\ txs'[Top.txs[i]] = txs[Top.txs[i]]
    BY <1>1, <1>3, <1>9, <2>1 DEF FanShape
  <2>6. \A i \in 1..k : /\ ~txs[Top.txs[i]].done
                        /\ txs[Top.txs[i]].buf = <<[d |-> Top.arg, n |-> 1]>>
                        /\ faults = 0 => txs[Top.txs[i]].chain \cap cancelled = {}
    <3>1. ~Top.err
      BY <1>1 DEF FanShape
    <3> QED
      BY <1>2, <1>3, <2>1, <3>1 DEF FanRest
  <2>7. faults' = 0 => faults = 0
    BY NextNumbers
  <2>8. \A i \in 1..(k + 1) : /\ ~txs'[g.txs[i]].done /\ Times(g, i)' = 0
                              /\ ~g.err => txs'[g.txs[i]].buf = <<[d |-> g.arg, n |-> 1]>>
                              /\ faults' = 0 /\ ~g.err =>
                                    txs'[g.txs[i]].chain \cap cancelled' = {}
    <3> TAKE i \in 1..(k + 1)
    <3>1. i \in 1..k \/ i = k + 1
      BY <1>3
    <3>2. k + 1 \in DOMAIN Queues /\ i \in DOMAIN Queues
      BY <1>1, <1>3, <1>5
    <3>3. Times(g, i)' = 0
      BY <1>6, <2>1, <3>2
    <3>4. CASE i = k + 1
      BY <1>9, <2>1, <2>2, <2>3, <2>4, <3>3, <3>4
    <3>5. CASE i \in 1..k
      BY <1>1, <2>1, <2>2, <2>5, <2>6, <2>7, <3>3, <3>5
    <3> QED
      BY <3>1, <3>4, <3>5
  <2>9. \A i \in DOMAIN Queues : /\ Times(g, i)' = 0
                                 /\ g.pc = "finish" /\ ~g.err => ~(i > k + 1)
    <3>1. \A i \in DOMAIN Queues : Times(g, i)' = 0
      BY <1>6, <2>1
    <3>2. g.pc = "finish" /\ ~g.err => k + 1 = Len(Queues)
      BY <1>3, <1>9
    <3>3. ASSUME NEW i \in DOMAIN Queues, k + 1 = Len(Queues) PROVE ~(i > k + 1)
      <4>1. i \in 1..(k + 1)
        BY <1>5, <3>3
      <4> QED
        BY <4>1
    <3> QED
      BY <3>1, <3>2, <3>3
  <2>10. Times(g, 1)' = 0 /\ \A i \in DOMAIN Queues : \A j \in 1..(i - 1) :
            Times(g, j)' <= Times(g, i)'
    BY <1>5, <2>9
  <2>11. \A i \in DOMAIN Queues :
                /\ Times(g, i)' \in 0..1
                /\ g.pc = "begin" => Times(g, i)' = 0
                /\ g.pc = "finish" /\ ~g.err /\ i > k + 1 => Times(g, i)' = 1
                /\ g.err /\ faults' = 0 => Times(g, i)' = 0
                /\ \A j \in 1..(i - 1) : Times(g, j)' <= Times(g, i)'
    BY <2>9, <2>10
  <2> QED
    BY <2>2, <2>8, <2>10, <2>11 DEF FanRest
<1>10. Queues[Top.n] \in Managers /\ Queues[Top.n] \in ToSet(Queues)
  BY <1>1 DEF Managers, ToSet
<1>11. Top.alone => Levels(Queues[Top.n], Top.ctx) = {}
  <2>1. Type(Top.mgr) = Type(Queues[Top.n])
    <3>1. Top.mgr \in ToSet(Queues)
      BY <1>1, <1>5 DEF FanShape, ToSet
    <3> QED
      BY <1>10, <3>1 DEF Type
  <2> QED
    BY <1>2, <2>1 DEF Levels
<1>12. Types /\ Chained /\ Kept /\ Queues[Top.n] \in ToSet(Queues)
  BY <1>10, eachQueueShape DEF Shape
<1>13. CASE /\ Grown(Queues[Top.n], Top.ctx) /\ ~Err(Top.ctx)
            /\ txs' = Begun(Queues[Top.n], Top.ctx)
            /\ \E g \in Calls :
                  /\ Moved(g) /\ Kin(g) /\ g.txs = Append(Top.txs, t)
                  /\ g.pc = "finish" /\ g.err
  <2>1. PICK g \in Calls : /\ Moved(g) /\ Kin(g) /\ g.txs = Append(Top.txs, t)
                           /\ g.pc = "finish" /\ g.err
    BY <1>13
  <2>2. \A u \in DOMAIN txs : txs'[u] = txs[u]
    <3>1. PICK b : b = Begun(Queues[Top.n], Top.ctx)
      OBVIOUS
    <3>2. \A u \in 1..Len(txs) : b[u] = txs[u]
      BY <1>2, <1>10, <1>12, <3>1, BegunFacts
    <3> QED
      BY <1>12, <1>13, <3>1, <3>2 DEF Types
  <2>3. FanRest(g)'
    BY <1>9, <1>12, <1>13, <2>1, <2>2
  <2>4. QuietQueues
    BY <1>1, <1>2, <1>10, <1>12, <1>13, BegunQuiet
  <2>5. Top' = g
    BY <2>1 DEF Moved
  <2> QED
    BY <1>1, <2>3, <2>4, <2>5, NextNumbers, QuietFan
<1>14. CASE /\ Grown(Queues[Top.n], Top.ctx) /\ ~Err(Top.ctx)
            /\ \E g \in Calls :
                  /\ Moved(g) /\ Kin(g) /\ g.txs = Append(Top.txs, t) /\ ~g.err
                  /\ g.pc = IF Top.n = Len(Queues) THEN "finish" ELSE "begin"
            /\ \E r \in Levels(Queues[Top.n], Top.ctx) \cup {t} :
                  txs' = Written(Begun(Queues[Top.n], Top.ctx), r, Top.arg)
  <2>1. PICK g \in Calls : /\ Moved(g) /\ Kin(g) /\ g.txs = Append(Top.txs, t) /\ ~g.err
                           /\ g.pc = IF Top.n = Len(Queues) THEN "finish" ELSE "begin"
    BY <1>14
  <2>2. PICK r \in Levels(Queues[Top.n], Top.ctx) \cup {t} :
           txs' = Written(Begun(Queues[Top.n], Top.ctx), r, Top.arg)
    BY <1>14
  <2>3. PICK b : /\ b = Begun(Queues[Top.n], Top.ctx) /\ b \in Seq(Txs) /\ Len(b) = t
                 /\ \A u \in 1..Len(txs) : b[u] = txs[u]
                 /\ b[t] = [mgr |-> Queues[Top.n], chain |-> Chain(Top.ctx) \cup {t},
                            done |-> FALSE, buf |-> << >>, acts |-> {}]
    BY <1>2, <1>4, <1>10, <1>12, BegunFacts
  <2>4. b[t].buf = << >> /\ DOMAIN txs = 1..Len(txs) /\ \A u \in DOMAIN txs : b[u] = txs[u]
    BY <1>12, <2>3 DEF Types
  <2>5. /\ \A u \in DOMAIN txs : u # r => txs'[u] = txs[u]
        /\ txs'[r].buf = Append(b[r].buf, [d |-> Top.arg, n |-> 1])
        /\ r # t => txs'[t].buf = << >>
        /\ r # t => Levels(Queues[Top.n], Top.ctx) # {} /\ r \in DOMAIN txs
    BY SMTT(30), <1>1, <1>2, <1>4, <1>12, <2>2, <2>3, WrittenGrown
  <2>6. Top.alone => r = t /\ txs'[t].buf = <<[d |-> Top.arg, n |-> 1]>>
    BY <1>11, <2>4, <2>5
  <2>7. \A u \in DOMAIN txs : Top.alone => txs'[u] = txs[u]
    BY <1>4, <2>5, <2>6
  <2>8. FanRest(g)'
    BY <1>9, <1>12, <1>14, <2>1, <2>6, <2>7
  <2>9. Bufs'
    <3> SUFFICES ASSUME NEW u \in DOMAIN txs', txs'[u].mgr \in ToSet(Queues),
                        NEW i \in DOMAIN txs'[u].buf
                 PROVE  txs'[u].buf[i].d <= made'
      BY DEF Bufs
    <3>1. u \in DOMAIN txs \/ u = t
      BY <1>4, <1>12, <1>14 DEF Grown, Kept
    <3>2. Top.arg <= made /\ made \in Nat /\ Top.arg \in Nat
      BY <1>1, NextNumbers DEF FanShape
    <3>3. u \in DOMAIN txs => txs[u].mgr = txs'[u].mgr /\ txs[u] \in Txs
      BY <1>12 DEF Kept, Types
    <3>4. CASE u # r
      <4>1. u # t
        BY <2>5, <3>4
      <4>2. u \in DOMAIN txs /\ txs'[u] = txs[u]
        BY <2>5, <3>1, <3>4, <4>1
      <4> QED
        BY <1>1, <3>3, <4>2 DEF Fan, Bufs
    <3>5. CASE u = r
      <4>1. PICK c \in Seq(Changes) : c = b[r].buf
        <5>1. << >> \in Seq(Changes)
          OBVIOUS
        <5>2. r # t => b[r].buf \in Seq(Changes)
          BY <2>4, <2>5, <3>3, <3>5 DEF Txs
        <5>3. r = t => b[r].buf = << >>
          BY <2>4
        <5> QED
          BY <5>1, <5>2, <5>3
      <4>2. PICK n \in Nat : n = Len(c) /\ DOMAIN c = 1..n
        BY <4>1
      <4>3. \A j \in 1..n : c[j].d <= made
        <5>1. CASE r = t
          BY <2>4, <4>1, <4>2, <5>1
        <5>2. CASE r # t
          BY <2>4, <2>5, <3>3, <3>5, <4>1, <4>2, <5>2 DEF Fan, Bufs
        <5> QED
          BY <5>1, <5>2
      <4>4. PICK e \in Changes : e = [d |-> Top.arg, n |-> 1]
        BY <1>1 DEF Changes
      <4>5. /\ DOMAIN Append(c, e) = 1..(n + 1) /\ Append(c, e)[n + 1] = e
            /\ \A j \in 1..n : Append(c, e)[j] = c[j]
        BY <4>2, AppendFacts
      <4>6. txs'[u].buf = Append(c, e)
        BY <2>5, <3>5, <4>1, <4>4
      <4>7. CASE i = n + 1
        BY <1>1, <3>2, <4>4, <4>5, <4>6, <4>7
      <4>8. CASE i # n + 1
        <5>1. i \in 1..n
          BY <4>2, <4>5, <4>6, <4>8
        <5> QED
          BY <1>1, <4>3, <4>5, <4>6, <5>1
      <4> QED
        BY <4>7, <4>8
    <3> QED
      BY <3>4, <3>5
  <2>10. Top' = g
    BY <2>1 DEF Moved
  <2> QED
    BY <1>1, <2>8, <2>9, <2>10, NextNumbers, StoreFan
<1> QED
  BY <1>4, <1>8, <1>13, <1>14, eachQueueShape
----------------------------------------------------------------------------
(* Changes that are not of a datum leave it alone. *)
LEMMA DeltaNone ==
  ASSUME NEW cs \in Seq(Changes), NEW d, \A i \in DOMAIN cs : cs[i].d # d
  PROVE  Delta(cs, d) = 0
<1>1. PICK plus : plus = {i \in DOMAIN cs : cs[i] = [d |-> d, n |-> 1]}
  OBVIOUS
<1>2. PICK minus : minus = {i \in DOMAIN cs : cs[i] = [d |-> d, n |-> -1]}
  OBVIOUS
<1>3. plus = {} /\ minus = {}
  BY <1>1, <1>2
<1>4. Delta(cs, d) = Cardinality(plus) - Cardinality(minus)
  BY <1>1, <1>2 DEF Delta
<1>5. Cardinality({}) = 0
  BY FS_EmptySet
<1> QED
  BY <1>3, <1>4, <1>5

(* A single change counts once. *)
LEMMA DeltaOne == ASSUME NEW d PROVE Delta(<<[d |-> d, n |-> 1]>>, d) = 1
<1>1. PICK e : e = [d |-> d, n |-> 1]
  OBVIOUS
<1>2. PICK plus : plus = {i \in DOMAIN <<e>> : <<e>>[i] = [d |-> d, n |-> 1]}
  OBVIOUS
<1>3. PICK minus : minus = {i \in DOMAIN <<e>> : <<e>>[i] = [d |-> d, n |-> -1]}
  OBVIOUS
<1>4. DOMAIN <<e>> = {1} /\ <<e>>[1] = e /\ e # [d |-> d, n |-> -1]
  BY <1>1
<1>5. plus = {1} /\ minus = {}
  BY <1>1, <1>2, <1>3, <1>4
<1>6. Delta(<<e>>, d) = Cardinality(plus) - Cardinality(minus)
  BY <1>2, <1>3 DEF Delta
<1>7. Cardinality({}) = 0 /\ Cardinality({1}) = 1
  BY FS_EmptySet, FS_Singleton
<1> QED
  BY <1>1, <1>5, <1>6, <1>7

(* A Publish outside of a transaction of a queue is the outermost level of *)
(* the transactions it begins.                                             *)
LEMMA FanDue ==
  ASSUME Shape, Calling, Top.pc = "finish", Top.txs # << >>, Top.prog = "fanout"
  PROVE  /\ DueManager = Queues[Len(Top.txs)] /\ Len(Top.txs) \in DOMAIN Queues
         /\ txs[Due].chain = Chain(Top.ctx) \cup {Due} /\ Chain(Due) = txs[Due].chain
         /\ Top.alone => Levels(DueManager, Due) = {Due} /\ DueRoot = Due
                         /\ Due \notin Chain(Top.ctx)
<1>1. /\ Top \in Calls /\ Top.txs \in Seq(Nat) /\ Len(Top.txs) \in Nat /\ Len(Top.txs) > 0
      /\ Due = Top.txs[Len(Top.txs)] /\ Due \in DOMAIN txs /\ DueManager = txs[Due].mgr
      /\ Due \in Levels(DueManager, Due) /\ DueRoot \in Levels(DueManager, Due)
  BY DueFacts
<1>2. FanShape(Top) /\ (Top.alone <=> Levels(Top.mgr, Top.ctx) = {})
  BY TopOK DEF OpOK
<1>3. Len(Queues) \in Nat /\ Len(Queues) > 0 /\ DOMAIN Queues = 1..Len(Queues)
  BY BoundsAssumption
<1>4. /\ DueManager = Queues[Len(Top.txs)] /\ Len(Top.txs) \in DOMAIN Queues
      /\ txs[Due].chain = Chain(Top.ctx) \cup {Due} /\ Top.mgr = Queues[1]
  BY <1>1, <1>2, <1>3 DEF FanShape
<1>5. Due # 0 /\ Chain(Due) = txs[Due].chain
  BY <1>1 DEF Shape, Types, Chain
<1>6. Type(DueManager) = Type(Top.mgr)
  <2>1. DueManager \in ToSet(Queues) /\ Top.mgr \in ToSet(Queues)
    BY <1>3, <1>4 DEF ToSet
  <2> QED
    BY <2>1 DEF Type
<1>7. ASSUME Top.alone
      PROVE  Levels(DueManager, Due) = {Due} /\ DueRoot = Due /\ Due \notin Chain(Top.ctx)
  <2>1. Levels(DueManager, Top.ctx) = {}
    BY <1>2, <1>6, <1>7 DEF Levels
  <2>2. \A t \in Chain(Top.ctx) \ {0} : Type(txs[t].mgr) # Type(DueManager)
    BY <2>1 DEF Levels
  <2>3. Levels(DueManager, Due) = {Due}
    BY <1>1, <1>4, <1>5, <2>2 DEF Levels
  <2> QED
    BY <1>1, <1>5, <2>2, <2>3
<1> QED
  BY <1>4, <1>5, <1>7

(* The deferred Finish: it keeps what is known of the fan-out. *)
LEMMA FinishTxFan == ASSUME QueuesDiffer, Shape, Fan, Next, FinishTx PROVE Fan'
<1>1. /\ Kept /\ UNCHANGED <<made, called, ret>> /\ Calling /\ Top.pc = "finish"
      /\ Top.txs # << >>
  BY FinishTxShape
<1>2. PICK g \in Calls : /\ Moved(g) /\ Kin(g) /\ g.txs = Front(Top.txs)
                         /\ FinishKind(g.err, g.pc)
  BY FinishTxShape
<1>3. /\ Top \in Calls /\ Top.txs \in Seq(Nat) /\ Len(Top.txs) \in Nat /\ Len(Top.txs) > 0
      /\ Due = Top.txs[Len(Top.txs)] /\ Due \in DOMAIN txs /\ txs[Due] \in Txs
      /\ DueManager \in Managers /\ DueManager = txs[Due].mgr
  BY <1>1, DueFacts
<1>4. \A t \in DOMAIN txs : txs'[t].mgr = txs[t].mgr
  BY <1>1 DEF Kept, Shape, Types
<1>5. Top' = g
  BY <1>2 DEF Moved
<1>6. PICK n \in Nat : n = Len(Top.txs) - 1 /\ n + 1 = Len(Top.txs)
  <2>1. Len(Top.txs) \in Nat /\ Len(Top.txs) > 0
    BY <1>3
  <2>2. Len(Top.txs) - 1 \in Nat /\ (Len(Top.txs) - 1) + 1 = Len(Top.txs)
    BY <2>1
  <2> QED
    BY <2>2
<1>7. Len(g.txs) = n /\ \A i \in 1..n : g.txs[i] = Top.txs[i] /\ i \in 1..Len(Top.txs)
  <2>1. /\ Len(Front(Top.txs)) = Len(Top.txs) - 1
        /\ \A i \in 1..(Len(Top.txs) - 1) : Front(Top.txs)[i] = Top.txs[i]
    BY <1>3, FrontFacts
  <2>2. \A i \in 1..n : i \in 1..Len(Top.txs) /\ i \in 1..(Len(Top.txs) - 1)
    BY <1>6
  <2> QED
    BY <1>2, <1>6, <2>1, <2>2
<1>8. DOMAIN Queues = 1..Len(Queues) /\ Len(Queues) \in Nat /\ Len(Queues) > 0
      /\ \A i \in DOMAIN Queues : \A j \in 1..(i - 1) : j \in DOMAIN Queues /\ j # i
  BY BoundsAssumption
<1>9. made \in Nat /\ made' \in Nat /\ made <= made'
  BY <1>1, NextNumbers

(* The parts of a Publish. *)
<1>10. ASSUME g.prog = "fanout", g.alone
       PROVE  /\ Top.prog = "fanout" /\ Top.alone /\ g.arg = Top.arg /\ FanShape(Top)
              /\ Levels(DueManager, Due) = {Due} /\ DueRoot = Due /\ Due \notin Chain(Top.ctx)
              /\ DueManager = Queues[n + 1] /\ n + 1 \in DOMAIN Queues
              /\ Chain(Due) = Chain(Top.ctx) \cup {Due} /\ FanRest(Top) /\ ~txs[Due].done
              /\ \A i \in 1..n : /\ Top.txs[i] \in DOMAIN txs /\ Top.txs[i] # Due
                                 /\ Due \notin txs[Top.txs[i]].chain
  <2>1. Top.prog = "fanout" /\ Top.alone /\ g.arg = Top.arg
    BY <1>2, <1>10 DEF Kin
  <2>2. FanShape(Top) /\ FanRest(Top)
    BY <1>1, <1>3, <2>1, TopOK DEF OpOK, Fan
  <2>3. /\ Levels(DueManager, Due) = {Due} /\ DueRoot = Due /\ Due \notin Chain(Top.ctx)
        /\ DueManager = Queues[n + 1] /\ n + 1 \in DOMAIN Queues
        /\ Chain(Due) = Chain(Top.ctx) \cup {Due}
    BY <1>1, <1>6, <2>1, FanDue
  <2>4. ~txs[Due].done
    BY <1>3, <1>6, <2>1, <2>2 DEF FanRest
  <2>5. \A i \in 1..n : /\ Top.txs[i] \in DOMAIN txs /\ Top.txs[i] < Due /\ Top.txs[i] \in Nat
                        /\ txs[Top.txs[i]].chain = Chain(Top.ctx) \cup {Top.txs[i]}
    BY <1>3, <1>6, <2>2 DEF FanShape
  <2>6. \A i \in 1..n : Top.txs[i] # Due
    BY <1>3, <2>5
  <2> QED
    BY <2>1, <2>2, <2>3, <2>4, <2>5, <2>6
<1>11. ASSUME QuietQueues, g.prog = "fanout" => FanRest(g)' PROVE Fan'
  BY <1>1, <1>5, <1>9, <1>11, NextNumbers, QuietFan
<1>12. CASE txs[Due].done /\ UNCHANGED <<store, txs, faults>>
  <2>1. g.prog = "fanout" => FanRest(g)'
    <3>1. g.prog = "fanout" => ~g.alone
      BY <1>10, <1>12
    <3> QED
      BY <3>1 DEF FanRest
  <2> QED
    BY <1>11, <1>12, <2>1, SameQuiet
<1>13. CASE /\ RolledBack /\ UNCHANGED <<store, faults>> /\ g.err
            /\ g.pc = (IF DueManager = "steps" THEN "undo" ELSE "finish")
            /\ Top.err \/ (Due = DueRoot /\ Err(Due))
  <2>1. /\ DOMAIN txs' = DOMAIN txs
        /\ \A t \in DOMAIN txs :
              /\ txs'[t].chain = txs[t].chain
              /\ txs'[t].done = (txs[t].done \/ t \in Levels(DueManager, Due))
              /\ txs'[t].buf = IF t = DueRoot /\ DueManager # "steps" THEN << >>
                               ELSE txs[t].buf
    BY <1>13 DEF RolledBack
  <2>2. QuietQueues
    BY <1>4, <1>13, <2>1 DEF QuietQueues
  <2>3. ASSUME g.prog = "fanout", g.alone PROVE FanRest(g)'
    <3>1. Top.err \/ faults = 0 => Top.err
      <4> SUFFICES ASSUME ~Top.err, faults = 0 PROVE FALSE
        OBVIOUS
      <4>1. Err(Due)
        BY <1>13
      <4>2. txs[Due].chain \cap cancelled = {}
        BY <1>3, <1>6, <1>10, <2>3 DEF FanRest
      <4>3. Chain(Due) = txs[Due].chain
        BY <1>1, <1>10, <2>3, FanDue
      <4> QED
        BY <4>1, <4>2, <4>3 DEF Err
    <3>2. \A i : Times(g, i)' = Times(Top, i)
      BY <1>10, <1>13, <2>3 DEF Times
    <3>3. \A i \in 1..n : ~txs'[g.txs[i]].done /\ Times(g, i)' = 0
      <4> TAKE i \in 1..n
      <4>1. i \in 1..Len(Top.txs) /\ g.txs[i] = Top.txs[i]
        BY <1>7
      <4>2. ~txs[Top.txs[i]].done /\ Times(Top, i) = 0
        BY <1>10, <2>3, <4>1 DEF FanRest
      <4> QED
        BY <1>10, <2>1, <2>3, <3>2, <4>1, <4>2
    <3>4. Times(Top, 1) = 0
      BY <1>3, <1>6, <1>10, <2>3 DEF FanRest
    <3>5. \A i \in DOMAIN Queues :
                /\ Times(Top, i) \in 0..1
                /\ faults = 0 => Times(Top, i) = 0
                /\ \A j \in 1..(i - 1) : Times(Top, j) <= Times(Top, i)
      BY <1>10, <2>3, <3>1 DEF FanRest
    <3>6. g.pc # "begin"
      BY <1>13
    <3> QED
      BY <1>7, <1>13, <3>2, <3>3, <3>4, <3>5, <3>6 DEF FanRest
  <2>4. g.prog = "fanout" => FanRest(g)'
    BY <2>3 DEF FanRest
  <2> QED
    BY <1>11, <2>2, <2>4
<1>14. ASSUME Marked
       PROVE  /\ DOMAIN txs' = DOMAIN txs /\ \A t \in DOMAIN txs : t # Due => txs'[t] = txs[t]
              /\ \A t \in DOMAIN txs : txs'[t].buf = txs[t].buf
              /\ cancelled' = cancelled \cup {Due} /\ txs'[Due].chain = txs[Due].chain
  BY <1>14 DEF Marked
<1>15. CASE /\ Marked /\ UNCHANGED store
            /\ Due # DueRoot \/ DueManager \in Drivers
  <2>1. QuietQueues
    BY <1>4, <1>14, <1>15 DEF QuietQueues
  <2>2. g.prog = "fanout" => ~g.alone
    <3>1. DueManager \notin Drivers \/ ~(g.prog = "fanout" /\ g.alone)
      <4>1. ToSet(Queues) \cap Drivers = {}
        BY BoundsAssumption DEF Drivers
      <4> QED
        BY <1>10, <4>1 DEF ToSet
    <3> QED
      BY <1>10, <1>15, <3>1
  <2> QED
    BY <1>11, <2>1, <2>2 DEF FanRest
<1>16. CASE /\ Marked /\ Due = DueRoot /\ ~Err(Due) /\ ~g.err /\ ~Top.err /\ UNCHANGED faults
            /\ g.pc = "finish"
            /\ store' = IF DueManager = "steps" THEN store
                        ELSE Applied(DueManager, txs[Due].buf)
  <2>1. CASE DueManager \notin ToSet(Queues)
    <3>1. \A q \in ToSet(Queues) : store'[q] = store[q]
      <4>1. txs[Due].buf \in Seq(Changes) /\ ToSet(Queues) \subseteq Managers
        BY <1>3 DEF Txs, Managers
      <4>2. \A q \in Managers : q # DueManager =>
               Applied(DueManager, txs[Due].buf)[q] = store[q]
        BY <1>3, <4>1, AppliedType DEF Shape
      <4> QED
        BY <1>16, <2>1, <4>1, <4>2
    <3>2. QuietQueues
      BY <1>4, <1>14, <1>16, <3>1 DEF QuietQueues
    <3>3. g.prog = "fanout" => ~g.alone
      BY <1>10, <2>1 DEF ToSet
    <3> QED
      BY <1>11, <3>2, <3>3 DEF FanRest
  <2>2. CASE DueManager \in ToSet(Queues)
    <3>1. PICK b \in Seq(Changes) : b = txs[Due].buf
      BY <1>3 DEF Txs
    <3>2. /\ store' = Applied(DueManager, b) /\ DueManager # "steps"
          /\ \A q \in Managers : q # DueManager => store'[q] = store[q]
          /\ \A d \in Data : store'[DueManager][d] = store[DueManager][d] + Delta(b, d)
          /\ ToSet(Queues) \subseteq Managers
      <4>1. "steps" \notin ToSet(Queues) /\ ToSet(Queues) \subseteq Managers
        BY BoundsAssumption DEF Managers
      <4>2. store' = Applied(DueManager, b)
        BY <1>16, <2>2, <3>1, <4>1
      <4> QED
        BY <1>3, <2>2, <4>1, <4>2, AppliedType DEF Shape
    <3>3. Unmade'
      <4> SUFFICES ASSUME NEW q \in ToSet(Queues), NEW d \in Data, d > made'
                   PROVE  store'[q][d] = 0
        BY DEF Unmade
      <4>1. d > made /\ store[q][d] = 0 /\ d \in Nat
        BY <1>1, BoundsAssumption DEF Fan, Unmade, Data
      <4>2. CASE q = DueManager
        <5>1. \A i \in DOMAIN b : b[i].d <= made /\ b[i] \in Changes
          BY <1>3, <2>2, <3>1 DEF Fan, Bufs
        <5>2. \A i \in DOMAIN b : b[i].d \in Nat
          BY <5>1, BoundsAssumption DEF Changes, Data
        <5>3. \A i \in DOMAIN b : b[i].d # d
          BY <1>9, <4>1, <5>1, <5>2
        <5>4. Delta(b, d) = 0
          BY <5>3, DeltaNone
        <5> QED
          BY <3>2, <4>1, <4>2, <5>4
      <4>3. CASE q # DueManager
        BY <3>2, <4>1, <4>3
      <4> QED
        BY <4>2, <4>3
    <3>4. Bufs'
      BY <1>1, <1>4, <1>14, <1>16 DEF Fan, Bufs
    <3>5. ~(ret.prog = "fanout" /\ ret.alone)
      <4> SUFFICES ASSUME ret.prog = "fanout", ret.alone PROVE FALSE
        OBVIOUS
      <4>1. ret.mgr \in ToSet(Queues)
        BY DEF Fan, RetQueue
      <4>2. Len(stack) \in DOMAIN stack /\ Top = stack[Len(stack)]
        BY <1>1, TopFacts DEF Shape
      <4>3. Type(Top.mgr) # Type(ret.mgr)
        BY <4>2 DEF Shape, Stacked, RetApart
      <4>4. Top.mgr \in ToSet(Queues)
        <5>1. OpOK(Top) /\ Top.prog # "none"
          BY <1>1, TopOK
        <5>2. CASE Top.prog = "usecase"
          <6>1. Top.txs = <<Top.tx>> /\ txs[Top.tx].mgr = Top.mgr
            BY <1>1, <5>1, <5>2 DEF OpOK, UseOK
          <6>2. Due = Top.tx
            BY <6>1 DEF Due, Last
          <6> QED
            BY <1>3, <2>2, <6>1, <6>2
        <5>3. CASE Top.prog = "fanout"
          BY <1>8, <5>1, <5>3 DEF OpOK, FanShape, ToSet
        <5>4. CASE Top.prog \in Migrations
          <6>1. MigShape(Top) /\ Len(Top.txs) \in 1..Len(Top.txs)
            BY <1>3, <5>1, <5>4 DEF OpOK
          <6>2. txs[Top.txs[Len(Top.txs)]].mgr \in {"state", "resource"}
            BY <6>1 DEF MigShape
          <6> QED
            BY <1>3, <2>2, <6>2, BoundsAssumption
        <5> QED
          BY <1>3, <5>1, <5>2, <5>3, <5>4 DEF Calls, Progs, Migrations
      <4> QED
        BY <4>1, <4>3, <4>4 DEF Type
    <3>6. FanOutCommits' /\ RetQueue'
      BY <1>1, <3>5 DEF FanOutCommits, Fan, RetQueue
    <3>7. ASSUME g.prog = "fanout", g.alone PROVE FanRest(g)'
      <4>1. PICK m \in DOMAIN Queues : m = n + 1 /\ DueManager = Queues[m]
        BY <1>10, <3>7
      <4>2. b = <<[d |-> Top.arg, n |-> 1]>> /\ Times(Top, m) = 0
        <5>1. m \in 1..Len(Top.txs) /\ Due = Top.txs[m]
          BY <1>3, <1>6, <4>1
        <5>2. FanRest(Top) /\ Top.alone /\ ~Top.err
          BY <1>10, <1>16, <3>7
        <5>3. txs[Top.txs[m]].buf = <<[d |-> Top.arg, n |-> 1]>> /\ Times(Top, m) = 0
          BY <5>1, <5>2 DEF FanRest
        <5> QED
          BY <3>1, <5>1, <5>3
      <4>3. Top.arg \in Data
        <5>1. Top.arg \in 1..made
          BY <1>10, <3>7 DEF FanShape
        <5> QED
          BY <5>1, BoundsAssumption DEF Shape, Types, Data
      <4>4. Times(g, m)' = 1
        <5>1. store'[Queues[m]][Top.arg] = store[Queues[m]][Top.arg] + 1
          BY <3>2, <4>1, <4>2, <4>3, DeltaOne
        <5> QED
          BY <1>10, <3>7, <4>2, <5>1 DEF Times
      <4>5. \A i \in DOMAIN Queues : i # m => Times(g, i)' = Times(Top, i)
        <5> TAKE i \in DOMAIN Queues
        <5> HAVE i # m
        <5>1. Queues[i] # DueManager /\ Queues[i] \in Managers
          BY <3>2, <4>1 DEF QueuesDiffer, ToSet
        <5> QED
          BY <1>10, <3>2, <3>7, <5>1 DEF Times
      <4>6. \A i \in 1..n : i \in DOMAIN Queues /\ i # m /\ i \in 1..Len(Top.txs)
        BY <1>7, <1>8, <4>1
      <4>7. \A i \in 1..n : /\ ~txs'[g.txs[i]].done /\ Times(g, i)' = 0
                            /\ txs'[g.txs[i]].buf = <<[d |-> g.arg, n |-> 1]>>
                            /\ faults' = 0 => txs'[g.txs[i]].chain \cap cancelled' = {}
        <5> TAKE i \in 1..n
        <5>1. i \in 1..Len(Top.txs) /\ g.txs[i] = Top.txs[i]
          BY <1>7
        <5>2. /\ ~txs[Top.txs[i]].done /\ Times(Top, i) = 0
              /\ txs[Top.txs[i]].buf = <<[d |-> Top.arg, n |-> 1]>>
              /\ faults = 0 => txs[Top.txs[i]].chain \cap cancelled = {}
          BY <1>10, <1>16, <3>7, <5>1 DEF FanRest
        <5>3. /\ txs'[Top.txs[i]] = txs[Top.txs[i]] /\ Due \notin txs[Top.txs[i]].chain
              /\ cancelled' = cancelled \cup {Due}
          BY <1>10, <1>14, <1>16, <3>7
        <5> QED
          BY <1>10, <1>16, <3>7, <4>5, <4>6, <5>1, <5>2, <5>3
      <4>8. \A i \in DOMAIN Queues :
                /\ i \in 1..n \/ i = m \/ i > m
                /\ i > m => Times(g, i)' = 1
        <5> TAKE i \in DOMAIN Queues
        <5>1. i \in 1..n \/ i = m \/ i > m
          BY <1>8, <4>1
        <5>2. i > m => Times(Top, i) = 1
          BY <1>1, <1>6, <1>10, <1>16, <3>7, <4>1 DEF FanRest
        <5>3. i > m => i # m
          BY <1>8, <4>1
        <5> QED
          BY <4>5, <5>1, <5>2, <5>3
      <4>9. \A i \in DOMAIN Queues :
                /\ Times(g, i)' \in 0..1
                /\ i > n => Times(g, i)' = 1
                /\ \A j \in 1..(i - 1) : Times(g, j)' <= Times(g, i)'
        <5>1. \A i \in DOMAIN Queues : Times(g, i)' \in 0..1
          BY <4>4, <4>7, <4>8
        <5>2. \A i \in DOMAIN Queues : i > n => Times(g, i)' = 1
          BY <4>1, <4>4, <4>8
        <5>3. ASSUME NEW i \in DOMAIN Queues, NEW j \in 1..(i - 1)
              PROVE  Times(g, j)' <= Times(g, i)'
          <6>1. j \in DOMAIN Queues /\ j < i /\ i \in Nat /\ j \in Nat
            BY <1>8
          <6>2. CASE j \in 1..n
            BY <4>7, <5>1, <6>2
          <6>3. CASE j \notin 1..n
            <7>1. i > n /\ j > n
              BY <1>8, <6>1, <6>3
            <7> QED
              BY <5>2, <6>1, <7>1
          <6> QED
            BY <6>2, <6>3
        <5> QED
          BY <5>1, <5>2, <5>3
      <4> QED
        BY <1>7, <1>16, <4>7, <4>9 DEF FanRest
    <3>8. \A f \in Calls : Calling' /\ f = Top' /\ f.prog = "fanout" => FanRest(f)'
      BY <1>5, <3>7 DEF FanRest
    <3> QED
      BY <3>3, <3>4, <3>6, <3>8 DEF Fan
  <2> QED
    BY <2>1, <2>2
<1> QED
  BY <1>2, <1>12, <1>13, <1>15, <1>16 DEF FinishKind

(* The initial states have published nothing. *)
LEMMA InitFan == ASSUME Init PROVE Fan
<1>1. \A q \in ToSet(Queues) : q \in Managers
  BY DEF Managers
<1>2. Unmade /\ Bufs
  BY <1>1 DEF Init, Unmade, Bufs
<1> QED
  BY <1>2 DEF Init, Fan, FanOutCommits, RetQueue, NoCall, Calling

(* A step that changes nothing keeps what is known of the fan-out. *)
LEMMA StutterFan == ASSUME Fan, UNCHANGED vars PROVE Fan'
<1>1. UNCHANGED <<store, txs, cancelled, stack, made, faults, called, ret>>
  BY DEF vars
<1>2. Unmade' /\ Bufs' /\ FanOutCommits' /\ RetQueue'
  BY <1>1 DEF Fan, Unmade, Bufs, FanOutCommits, RetQueue
<1>3. \A f : FanRest(f)' <=> FanRest(f)
  BY <1>1 DEF FanRest, Times
<1> QED
  BY <1>1, <1>2, <1>3 DEF Fan, Calling, Top

(* Every step keeps what is known of the fan-out. *)
LEMMA NextFan == ASSUME QueuesDiffer, Shape, Fan, [Next]_vars PROVE Fan'
<1>1. CASE Next /\ (UseCase \/ Publish \/ Migrate \/ MigrateDown)
  BY <1>1, CallKinds, CallFan
<1>2. CASE Next /\ \E c \in 0..Len(txs) : Cancel(c)
  BY <1>2, CancelFan
<1>3. CASE Next /\ (Crash \/ UseBegin \/ Act \/ QueuePublish \/ UseReturn)
  BY <1>3, CrashFan, UseFan, ActFan, QueuePublishFan
<1>4. CASE Next /\ (eachQueue \/ MigrateBegin \/ stage)
  BY <1>4, eachQueueFan, MigrationFan
<1>5. CASE Next /\ (FinishTx \/ Undo \/ Return)
  BY <1>5, FinishTxFan, UndoFan, ReturnFan
<1>6. CASE UNCHANGED vars
  BY <1>6, StutterFan
<1> QED
  BY <1>1, <1>2, <1>3, <1>4, <1>5, <1>6 DEF Next

(* A FanOutExchange.Publish outside of a transaction of a queue: what it   *)
(* returned nil for is in every queue once; what failed without a fault is *)
(* in none; and else it may be in the last queues only, which commit       *)
(* first. No queue must be behind the exchange twice, as it would get the  *)
(* message twice.                                                          *)
THEOREM PublishReachesAllQueues == ASSUME QueuesDiffer PROVE Spec => []FanOutCommits
<1>1. Init => Fan
  BY InitFan
<1>2. Shape /\ Fan /\ [Next]_vars => Fan'
  BY NextFan
<1>3. Fan => FanOutCommits
  BY DEF Fan
<1> QED
  BY <1>1, <1>2, <1>3, ShapeInvariant, PTL DEF Spec
----------------------------------------------------------------------------
(* PART C.  Migrations.                                                    *)

(* What is recorded, and what is in effect. *)
State == store["state"]
Resource == store["resource"]
Recorded == {v \in Data : State[v] > 0}

(* What a migration has made of a step so far, and has yet to commit. *)
Aim(f, d) == IF f.prog = "up" THEN (IF d < f.n /\ d <= Versions /\ State[d] = 0 THEN 1 ELSE 0)
             ELSE (IF d > f.n /\ State[d] = 1 THEN -1 ELSE 0)

(* The resource has what the state will have when its transaction commits. *)
Ahead(f) == \A d \in 1..Versions :
               /\ "down" \notin called => State[d] + Aim(f, d) <= Resource[d]
               /\ faults = 0 => State[d] + Aim(f, d) = Resource[d]

(* The transactions of a migration hold what it aims at. *)
Aimed(f) == \A i \in 1..Len(f.txs) : \A d \in Data : Delta(txs[i].buf, d) = Aim(f, d)

(* A migration that goes on: its transactions hold what it aims at, and    *)
(* the one of the resource commits first.                                  *)
MigRest(f) ==
    LET k == Len(f.txs)
    IN  /\ f.prog \in called
        /\ \A i \in 1..k : ~txs[i].done
        /\ f.pc = "begin" => /\ f.n = IF f.prog = "up" THEN 1 ELSE Versions
                             /\ k > 0 => txs[1].buf = << >>
        /\ f.pc # "finish" \/ k > 0 \/ f.err => f.was = Recorded
        /\ f.pc = "body" \/ (f.pc = "finish" /\ ~f.err) => Aimed(f)
        /\ f.pc = "finish" /\ ~f.err /\ k > 0 =>
              f.n = IF f.prog = "up" THEN Versions + 1 ELSE f.arg
        /\ f.pc = "finish" /\ ~f.err /\ k = 1 => Ahead(f)
        /\ f.pc = "finish" /\ ~f.err /\ k = 0 =>
              Recorded = IF f.prog = "up" THEN 1..Versions ELSE f.was \cap (1..f.arg)
        /\ faults = 0 /\ ~f.err => \A c \in 0..k : c \notin cancelled

(* The resource has committed, and the state has not. *)
Halfway(f) == f.prog \in Migrations /\ f.pc = "finish" /\ ~f.err /\ Len(f.txs) = 1

(* A version is recorded once or not at all. *)
Bits == \A d \in Data : State[d] \in {0, 1} /\ (d > Versions => State[d] = 0)

(* What is recorded has its effect, unless somebody migrated down. *)
Behind == "down" \notin called => \A d \in 1..Versions : State[d] <= Resource[d]

(* What is recorded is what is in effect. *)
Level == \A d \in 1..Versions : State[d] = Resource[d]

(* The invariant of migrations. *)
Mig ==
    /\ Bits /\ Behind
    /\ faults = 0 /\ ~(Calling /\ Halfway(Top)) => Level
    /\ \A f \in Calls : Calling /\ f = Top /\ f.prog \in Migrations => MigRest(f)
    /\ MigrateResult
    /\ ret.prog \in Migrations => ~Calling

(* The versions are data. *)
LEMMA DataFacts ==
  Versions \in Nat /\ Data \subseteq Nat \ {0} /\ 1..Versions \subseteq Data
BY BoundsAssumption DEF Data

(* One change more. *)
LEMMA DeltaAppend ==
  ASSUME NEW cs \in Seq(Changes), NEW d \in Data, NEW n \in {1, -1}, NEW x \in Data
  PROVE  Delta(Append(cs, [d |-> d, n |-> n]), x) = Delta(cs, x) + (IF x = d THEN n ELSE 0)
<1>1. PICK e \in Changes : e = [d |-> d, n |-> n]
  BY DEF Changes
<1>2. PICK l \in Nat : l = Len(cs) /\ DOMAIN cs = 1..l
  OBVIOUS
<1>3. PICK s \in Seq(Changes) : s = Append(cs, e)
  BY AppendFacts
<1>4. DOMAIN s = 1..(l + 1) /\ s[l + 1] = e /\ \A i \in 1..l : s[i] = cs[i]
  BY <1>2, <1>3, AppendFacts
<1>5. ASSUME NEW k \in {1, -1}
      PROVE  \E b \in SUBSET (1..l), c \in SUBSET (1..(l + 1)) :
                /\ b = {i \in DOMAIN cs : cs[i] = [d |-> x, n |-> k]}
                /\ c = {i \in DOMAIN s : s[i] = [d |-> x, n |-> k]}
                /\ Cardinality(b) \in Nat
                /\ Cardinality(c) = Cardinality(b) + (IF x = d /\ n = k THEN 1 ELSE 0)
  <2>1. PICK b \in SUBSET (1..l) : b = {i \in DOMAIN cs : cs[i] = [d |-> x, n |-> k]}
    BY <1>2
  <2>2. PICK c \in SUBSET (1..(l + 1)) : c = {i \in DOMAIN s : s[i] = [d |-> x, n |-> k]}
    BY <1>4
  <2>3. e = [d |-> x, n |-> k] <=> x = d /\ n = k
    BY <1>1
  <2>4. \A i \in 1..(l + 1) : i = l + 1 \/ i \in 1..l
    BY <1>2
  <2>5. l + 1 \notin b /\ l + 1 \in 1..(l + 1) /\ 1..l \subseteq 1..(l + 1)
    BY <1>2
  <2>6. c = IF x = d /\ n = k THEN b \cup {l + 1} ELSE b
    BY <1>2, <1>4, <2>1, <2>2, <2>3, <2>4, <2>5
  <2>7. IsFiniteSet(b)
    <3>1. IsFiniteSet(1..l)
      BY <1>2, FS_Interval
    <3> QED
      BY <3>1, FS_Subset
  <2>8. Cardinality(b) \in Nat /\ Cardinality(b \cup {l + 1}) = Cardinality(b) + 1
    BY <2>5, <2>7, FS_CardinalityType, FS_AddElement
  <2>9. Cardinality(c) = Cardinality(b) + (IF x = d /\ n = k THEN 1 ELSE 0)
    <3>1. CASE x = d /\ n = k
      BY <2>6, <2>8, <3>1
    <3>2. CASE ~(x = d /\ n = k)
      <4>1. Cardinality(b) = Cardinality(b) + 0
        BY <2>8
      <4> QED
        BY <2>6, <3>2, <4>1
    <3> QED
      BY <3>1, <3>2
  <2> QED
    BY Zenon, <2>1, <2>2, <2>8, <2>9
<1>6. PICK b \in SUBSET (1..l), c \in SUBSET (1..(l + 1)) :
         /\ b = {i \in DOMAIN cs : cs[i] = [d |-> x, n |-> 1]}
         /\ c = {i \in DOMAIN s : s[i] = [d |-> x, n |-> 1]}
         /\ Cardinality(b) \in Nat
         /\ Cardinality(c) = Cardinality(b) + (IF x = d /\ n = 1 THEN 1 ELSE 0)
  BY <1>5
<1>7. PICK bm \in SUBSET (1..l), cm \in SUBSET (1..(l + 1)) :
         /\ bm = {i \in DOMAIN cs : cs[i] = [d |-> x, n |-> -1]}
         /\ cm = {i \in DOMAIN s : s[i] = [d |-> x, n |-> -1]}
         /\ Cardinality(bm) \in Nat
         /\ Cardinality(cm) = Cardinality(bm) + (IF x = d /\ n = -1 THEN 1 ELSE 0)
  BY <1>5
<1>8. Delta(cs, x) = Cardinality(b) - Cardinality(bm)
  BY <1>6, <1>7 DEF Delta
<1>9. Delta(s, x) = Cardinality(c) - Cardinality(cm)
  BY <1>6, <1>7 DEF Delta
<1>10. Delta(s, x) = Delta(cs, x) + (IF x = d THEN n ELSE 0)
  BY <1>6, <1>7, <1>8, <1>9
<1> QED
  BY <1>1, <1>3, <1>10

(* No changes, no difference. *)
LEMMA DeltaEmpty == ASSUME NEW d PROVE Delta(<< >>, d) = 0
<1>1. << >> \in Seq(Changes) /\ DOMAIN << >> = {}
  OBVIOUS
<1> QED
  BY <1>1, DeltaNone

(* A step of another call leaves what migrations look at alone. *)
LEMMA OtherMig ==
  ASSUME Shape, Mig, Next, store'["state"] = store["state"],
         store'["resource"] = store["resource"], called' = called,
         ret'.prog \notin Migrations, Top.prog \notin Migrations,
         NEW g, Calling' => Top' = g, g.prog \notin Migrations
  PROVE  Mig'
<1>1. faults \in Nat /\ faults' \in Nat /\ faults <= faults'
  BY NextNumbers
<1>2. State' = State /\ Resource' = Resource
  BY DEF State, Resource
<1>3. Bits' /\ Behind' /\ (Level => Level')
  BY <1>2 DEF Mig, Bits, Behind, Level
<1>4. faults' = 0 => faults = 0
  BY <1>1
<1>5. ~Halfway(Top) /\ (Calling' => Top'.prog \notin Migrations)
  BY DEF Halfway
<1>6. faults' = 0 => Level'
  BY <1>3, <1>4, <1>5 DEF Mig
<1>7. MigrateResult'
  BY DEF MigrateResult
<1> QED
  BY <1>3, <1>5, <1>6, <1>7 DEF Mig

(* The other programs are no migrations. *)
LEMMA NotMigrations == "usecase" \notin Migrations /\ "fanout" \notin Migrations
                       /\ "none" \notin Migrations
BY DEF Migrations

(* A step of a use case or a Publish records no version. *)
LEMMA UseMig ==
  ASSUME Shape, Mig, Next, UseBegin \/ Act \/ QueuePublish \/ UseReturn \/ eachQueue \/ Undo
  PROVE  Mig'
<1>1. Calling /\ UNCHANGED <<called, ret>>
  BY DEF UseBegin, Act, QueuePublish, UseReturn, eachQueue, Undo
<1>2. Top.prog \in {"usecase", "fanout"}
  BY UndoShape DEF UseBegin, Act, QueuePublish, UseReturn, eachQueue
<1>3. ret'.prog \notin Migrations /\ Top.prog \notin Migrations
  BY <1>1, <1>2, NotMigrations DEF Mig
<1>4. PICK g \in Calls : Moved(g) /\ g.prog = Top.prog
  <2>1. CASE UseBegin
    BY <2>1, UseBeginShape DEF Failed, Kin
  <2>2. CASE Act
    BY <2>2, ActShape DEF Onwards, Kin
  <2>3. CASE QueuePublish
    BY <2>3, QueuePublishShape DEF Onwards, Kin
  <2>4. CASE UseReturn
    BY <2>4, UseReturnShape DEF Kin
  <2>5. CASE eachQueue
    BY <2>5, eachQueueShape DEF Failed, Kin
  <2>6. CASE Undo
    BY <2>6, UndoShape, TopFacts DEF Kin, Shape
  <2> QED
    BY <2>1, <2>2, <2>3, <2>4, <2>5, <2>6
<1>5. store'["state"] = store["state"] /\ store'["resource"] = store["resource"]
  <2>1. CASE store' = store
    BY <2>1
  <2>2. CASE Act
    BY <2>2, ActShape DEF Shape, Types, Managers, Drivers
  <2>3. CASE Undo
    BY <2>1, <2>3, UndoShape DEF Shape, Types, Managers, Drivers
  <2> QED
    BY <2>1, <2>2, <2>3 DEF UseBegin, QueuePublish, UseReturn, eachQueue
<1>6. Top' = g
  BY <1>4 DEF Moved
<1> QED
  BY <1>1, <1>3, <1>4, <1>5, <1>6, OtherMig

(* A migration that failed changes no more, and has nothing to show. *)
LEMMA FailedMig ==
  ASSUME Shape, Mig, Next, Failed, Calling, Top.prog \in Migrations, Top.pc # "finish"
  PROVE  Mig'
<1>1. PICK f \in Calls : f = Top
  BY NextNumbers
<1>2. PICK g \in Calls : /\ Moved(g) /\ Kin(g) /\ g.pc = "finish" /\ g.err
                         /\ g.txs = Top.txs
  BY DEF Failed
<1>3. UNCHANGED <<txs, store, cancelled, called, ret>> /\ Top' = g
  BY <1>2 DEF Failed, Moved
<1>4. faults \in Nat /\ faults' \in Nat /\ faults <= faults' /\ (faults' = 0 => faults = 0)
  BY NextNumbers
<1>5. State' = State /\ Resource' = Resource /\ Recorded' = Recorded
  BY <1>3 DEF State, Resource, Recorded
<1>6. Bits' /\ Behind' /\ MigrateResult' /\ (Level => Level')
  BY <1>3, <1>5 DEF Mig, Bits, Behind, Level, MigrateResult
<1>7. ret'.prog \notin Migrations
  BY <1>3 DEF Mig
<1>8. ~Halfway(Top)
  BY DEF Halfway
<1>9. MigRest(f)
  BY <1>1 DEF Mig
<1>10. MigRest(g)'
  BY <1>1, <1>2, <1>3, <1>5, <1>9 DEF MigRest, Kin
<1> QED
  BY <1>3, <1>4, <1>6, <1>7, <1>8, <1>10 DEF Mig

(* A context is cancelled: it keeps what is known of migrations. *)
LEMMA CancelMig == ASSUME Shape, Mig, Next, NEW c \in 0..Len(txs), Cancel(c) PROVE Mig'
<1>1. UNCHANGED <<store, txs, stack, called, ret>> /\ faults' = faults + 1 /\ Calling
  BY CancelShape
<1>2. faults' # 0 /\ Top' = Top /\ Calling'
  BY <1>1, NextNumbers DEF Top, Calling
<1>3. \A f : Aim(f, c)' = Aim(f, c) /\ (MigRest(f) => MigRest(f)')
  BY <1>1, <1>2 DEF MigRest, Aimed, Ahead, Aim, Recorded, State, Resource
<1>4. Bits' /\ Behind' /\ MigrateResult'
  BY <1>1 DEF Mig, Bits, Behind, State, Resource, MigrateResult
<1> QED
  BY <1>1, <1>2, <1>3, <1>4 DEF Mig

(* A migration dies: it keeps what is known of migrations. *)
LEMMA CrashMig == ASSUME Shape, Mig, Next, Crash PROVE Mig'
<1>1. UNCHANGED <<store, called, ret>> /\ faults' = faults + 1 /\ Calling /\ stack' = << >>
  BY CrashShape
<1>2. faults' # 0 /\ ~Calling'
  BY <1>1, NextNumbers DEF Calling
<1>3. Bits' /\ Behind' /\ MigrateResult'
  BY <1>1 DEF Mig, Bits, Behind, State, Resource, MigrateResult
<1> QED
  BY <1>1, <1>2, <1>3 DEF Mig

(* A call begins: it keeps what is known of migrations. *)
LEMMA CallMig ==
  ASSUME Shape, Mig, Next, NEW prog, NEW m, NEW n, NEW arg, CallKind(prog, m, n, arg),
         Call(prog, m, n, arg)
  PROVE  Mig'
<1>1. PICK f \in Calls : /\ stack' = Append(stack, f) /\ Called(f, prog, m, n, arg)
                         /\ Calling' /\ Top' = f
  BY CallShape
<1>2. /\ store' = store /\ faults' = faults /\ ret' = NoCall
      /\ called' = called \cup {prog}
      /\ cancelled' = IF Calling THEN cancelled ELSE {}
  BY CallShape
<1>3. Calling => Top.prog = "usecase"
  BY DEF Call
<1>4. State' = State /\ Resource' = Resource /\ Recorded' = Recorded
  BY <1>2 DEF State, Resource, Recorded
<1>5. Bits' /\ Behind' /\ (Level => Level')
  BY <1>2, <1>4 DEF Mig, Bits, Behind, Level
<1>6. ret'.prog = "none" /\ f.pc = "begin" /\ f.prog = prog
  BY <1>1, <1>2 DEF NoCall, Called
<1>7. MigrateResult' /\ ret'.prog \notin Migrations
  BY <1>6, NotMigrations DEF MigrateResult
<1>8. ~(Calling /\ Halfway(Top)) /\ ~Halfway(f)
  BY <1>3, <1>6, NotMigrations DEF Halfway
<1>9. ASSUME prog \in Migrations PROVE MigRest(f)'
  <2>1. /\ f.txs = << >> /\ ~f.err /\ f.n = IF prog = "up" THEN 1 ELSE Versions
    BY <1>1, <1>9 DEF Called, CallKind
  <2>2. cancelled' = {}
    BY <1>2, <1>9 DEF CallKind
  <2>3. f.was = Recorded'
    BY <1>1, <1>4 DEF Called, Recorded, State
  <2>4. Len(f.txs) = 0
    BY <2>1
  <2> QED
    BY <1>2, <1>6, <2>1, <2>2, <2>3, <2>4 DEF MigRest
<1>10. faults' = 0 => Level'
  BY <1>2, <1>5, <1>8 DEF Mig
<1> QED
  BY <1>1, <1>5, <1>6, <1>7, <1>9, <1>10 DEF Mig

(* What is changed so far is nothing, when a migration begins. *)
LEMMA AimsAtNothing ==
  ASSUME Mig, NEW f, f.n = IF f.prog = "up" THEN 1 ELSE Versions, NEW d \in Data
  PROVE  Aim(f, d) = 0
<1>1. d \in Nat /\ d > 0 /\ Versions \in Nat
  BY DataFacts
<1>2. d > Versions => State[d] = 0
  BY DEF Mig, Bits
<1> QED
  BY <1>1, <1>2 DEF Aim

(* A migration begins its transactions: it keeps what is known of          *)
(* migrations.                                                             *)
LEMMA MigrateBeginMig == ASSUME Shape, Mig, Next, MigrateBegin PROVE Mig'
<1>1. /\ Calling /\ Top.prog \in Migrations /\ Top.pc = "begin" /\ MigShape(Top)
      /\ UNCHANGED <<store, cancelled, called, ret>> /\ Kept
  BY MigrateBeginShape DEF MigrateBegin
<1>2. CASE Failed
  BY <1>1, <1>2, FailedMig
<1>3. CASE \E m \in Managers, g \in Calls :
                  /\ UNCHANGED faults /\ Grown(m, Top.ctx) /\ txs' = Begun(m, Top.ctx)
                  /\ Moved(g) /\ Kin(g) /\ g.txs = Append(Top.txs, Len(txs) + 1)
                  /\ g.n = Top.n /\ ~g.err
                  /\ g.pc = IF m = "resource" THEN "body" ELSE "begin"
                  /\ m = (IF Top.txs = << >> THEN "state" ELSE "resource")
  <2>1. PICK m \in Managers, g \in Calls :
                  /\ UNCHANGED faults /\ Grown(m, Top.ctx) /\ txs' = Begun(m, Top.ctx)
                  /\ Moved(g) /\ Kin(g) /\ g.txs = Append(Top.txs, Len(txs) + 1)
                  /\ g.n = Top.n /\ ~g.err
                  /\ g.pc = IF m = "resource" THEN "body" ELSE "begin"
                  /\ m = (IF Top.txs = << >> THEN "state" ELSE "resource")
    BY <1>3
  <2>2. PICK f \in Calls : f = Top
    BY <1>1, NextNumbers
  <2>3. MigRest(f) /\ f.pc = "begin" /\ ~f.err /\ Len(f.txs) = Len(txs) /\ Len(txs) < 2
    BY <1>1, <2>2 DEF Mig, MigShape
  <2>4. PICK k \in {0, 1} : k = Len(txs)
    <3>1. PICK j \in Nat : j = Len(txs)
      BY DEF Shape, Types
    <3>2. j < 2
      BY <2>3, <3>1
    <3>3. j \in {0, 1}
      BY <3>2
    <3> QED
      BY <3>1, <3>3
  <2>5. f.txs \in Seq(Nat) /\ k + 1 \in Nat
    BY DEF Calls
  <2>6. Len(g.txs) = k + 1
    BY <2>1, <2>2, <2>3, <2>4, <2>5, AppendFacts
  <2>7. /\ txs'[k + 1].buf = << >> /\ ~txs'[k + 1].done
        /\ k = 1 => txs'[1] = txs[1]
    <3>1. PICK c \in 0..Len(txs) : c = Top.ctx
      BY <1>1, TopOK
    <3>2. txs' = Begun(m, c)
      BY <2>1, <3>1
    <3>3. PICK e : e = [mgr |-> m, chain |-> Chain(c) \cup {k + 1},
                        done |-> FALSE, buf |-> << >>, acts |-> {}]
      OBVIOUS
    <3>4. txs'[k + 1] = e /\ \A t \in 1..k : txs'[t] = txs[t]
      BY <2>4, <3>2, <3>3, Begins DEF Shape
    <3> QED
      BY <3>3, <3>4
  <2>8. \A i \in 1..(k + 1) : /\ i = k + 1 \/ (k = 1 /\ i = 1)
                              /\ ~txs'[i].done /\ txs'[i].buf = << >>
    BY <2>3, <2>4, <2>7 DEF MigRest
  <2>9. State' = State /\ Resource' = Resource /\ Recorded' = Recorded
    BY <1>1 DEF State, Resource, Recorded
  <2>10. /\ g.n = IF g.prog = "up" THEN 1 ELSE Versions
         /\ g.prog = f.prog /\ g.was = f.was /\ Top' = g
    BY <2>1, <2>2, <2>3 DEF MigRest, Kin, Moved
  <2>11. Aimed(g)'
    <3>1. \A d \in Data : Aim(g, d)' = 0
      <4>1. \A d \in Data : Aim(g, d) = 0
        BY <2>10, AimsAtNothing
      <4> QED
        BY <2>9, <4>1 DEF Aim
    <3>2. \A i \in 1..Len(g.txs), d \in Data : Delta(txs'[i].buf, d) = 0
      BY <2>6, <2>8, DeltaEmpty
    <3>3. \A b, d : Delta(b, d)' = Delta(b, d)
      BY DEF Delta
    <3> QED
      BY <3>1, <3>2, <3>3 DEF Aimed
  <2>12. faults = 0 => \A c \in 0..(k + 1) : c \notin cancelled
    <3>1. cancelled \subseteq 0..Len(txs)
      BY <1>1 DEF Shape, Sizes
    <3>2. \A c \in 0..(k + 1) : c = k + 1 \/ c \in 0..k
      BY <2>4
    <3>3. k + 1 \notin 0..Len(txs)
      BY <2>4
    <3> QED
      BY <2>3, <2>4, <3>1, <3>2, <3>3 DEF MigRest
  <2>13. MigRest(g)'
    <3>1. g.pc \in {"begin", "body"} /\ k + 1 > 0
      BY <2>1, <2>4
    <3>2. txs'[1].buf = << >>
      BY <2>4, <2>8
    <3> QED
      BY <1>1, <2>1, <2>3, <2>6, <2>8, <2>9, <2>10, <2>11, <2>12, <3>1, <3>2 DEF MigRest
  <2>14. ~Halfway(Top) /\ ret'.prog \notin Migrations
    BY <1>1 DEF Mig, Halfway
  <2>15. Bits' /\ Behind' /\ (Level => Level') /\ MigrateResult'
    BY <1>1, <2>9, <2>14 DEF Mig, Bits, Behind, Level, MigrateResult
  <2> QED
    BY <1>1, <2>1, <2>10, <2>13, <2>14, <2>15 DEF Mig
<1> QED
  BY <1>2, <1>3, MigrateBeginShape

(* A step that is run is recorded with what it did, and only then. *)
LEMMA AimRound ==
  ASSUME Mig, NEW f \in Calls, NEW g \in Calls, f.prog \in Migrations, g.prog = f.prog,
         f.n \in 1..Versions, NEW sign \in {1, -1}, NEW d \in Data,
         sign = IF f.prog = "up" THEN 1 ELSE -1, g.n = f.n + sign
  PROVE  Aim(g, d) = IF d = f.n /\ (f.prog = "up") # (State[d] > 0) THEN sign ELSE Aim(f, d)
<1>1. PICK v \in Nat : v = f.n /\ v > 0 /\ v <= Versions
  BY DataFacts
<1>2. d \in Nat /\ d > 0 /\ Versions \in Nat
  BY DataFacts
<1>3. State[d] \in {0, 1}
  BY DEF Mig, Bits
<1>4. CASE f.prog = "up"
  <2>1. g.n = v + 1 /\ sign = 1 /\ g.prog = "up"
    BY <1>1, <1>4
  <2>2. d < v + 1 <=> d < v \/ d = v
    BY <1>1, <1>2
  <2> QED
    BY <1>1, <1>2, <1>3, <1>4, <2>1, <2>2 DEF Aim
<1>5. CASE f.prog = "down"
  <2>1. g.n = v - 1 /\ sign = -1 /\ g.prog = "down"
    BY <1>1, <1>5
  <2>2. d > v - 1 <=> d > v \/ d = v
    BY <1>1, <1>2
  <2> QED
    BY <1>1, <1>2, <1>3, <1>5, <2>1, <2>2 DEF Aim
<1> QED
  BY <1>4, <1>5 DEF Migrations

(* A round of a migration: it keeps what is known of migrations. *)
LEMMA stageMig == ASSUME Shape, Mig, Next, stage PROVE Mig'
<1>1. /\ Calling /\ Top.prog \in Migrations /\ Top.pc = "body" /\ MigShape(Top)
      /\ UNCHANGED <<store, cancelled, faults, called, ret>>
      /\ DOMAIN txs' = DOMAIN txs /\ {1, 2} \subseteq DOMAIN txs
      /\ \A t \in DOMAIN txs : txs'[t].done = txs[t].done
  BY stageShape DEF stage
<1>2. CASE Failed
  BY <1>1, <1>2, FailedMig
<1>3. PICK f \in Calls : f = Top
  BY <1>1, NextNumbers
<1>4. /\ f.pc = "body" /\ f.prog \in Migrations /\ ~f.err /\ Len(f.txs) = 2 /\ f.arg \in 0..Versions
      /\ f.n \in IF f.prog = "up" THEN 1..(Versions + 1) ELSE f.arg..Versions
  BY <1>1, <1>3 DEF MigShape
<1>5. /\ MigRest(f) /\ Aimed(f) /\ f.was = Recorded
  <2>1. MigRest(f)
    BY <1>1, <1>3 DEF Mig
  <2> QED
    BY <1>4, <2>1 DEF MigRest
<1>6. State' = State /\ Resource' = Resource /\ Recorded' = Recorded
  BY <1>1 DEF State, Resource, Recorded
<1>7. \A b, d : Delta(b, d)' = Delta(b, d)
  BY DEF Delta
<1>8. \A g, d : Aim(g, d)' = Aim(g, d)
  BY <1>6 DEF Aim
<1>9. \A i \in 1..2 : i \in DOMAIN txs /\ ~txs[i].done /\ ~txs'[i].done
  BY <1>1, <1>4, <1>5 DEF MigRest
<1>10. Versions \in Nat
  BY DataFacts
<1>11. ASSUME NEW g \in Calls, Moved(g), Kin(g), g.txs = f.txs, ~g.err, Aimed(g)',
              g.pc = "body" \/
              (g.pc = "finish" /\ g.n = IF g.prog = "up" THEN Versions + 1 ELSE g.arg)
       PROVE  Mig'
  <2>1. /\ g.prog = f.prog /\ g.was = f.was /\ Top' = g /\ Len(g.txs) = 2
        /\ g.pc = "body" \/ g.pc = "finish"
    BY <1>3, <1>4, <1>11 DEF Kin, Moved
  <2>2. MigRest(g)'
    <3>1. f.prog \in called /\ (faults = 0 => \A c \in 0..2 : c \notin cancelled)
      BY <1>4, <1>5 DEF MigRest
    <3>2. g.prog \in called' /\ (faults' = 0 => \A c \in 0..2 : c \notin cancelled')
      BY <1>1, <2>1, <3>1
    <3>3. \A i \in 1..2 : ~txs'[i].done
      BY <1>9
    <3>4. g.was = Recorded' /\ g.pc # "begin"
      BY <1>5, <1>6, <2>1
    <3> QED
      BY <1>11, <2>1, <3>2, <3>3, <3>4 DEF MigRest
  <2>3. ~Halfway(Top) /\ ret'.prog \notin Migrations
    BY <1>1 DEF Mig, Halfway
  <2>4. Bits' /\ Behind' /\ (Level => Level') /\ MigrateResult'
    BY <1>1, <1>6, <2>3 DEF Mig, Bits, Behind, Level, MigrateResult
  <2> QED
    BY <1>1, <2>1, <2>2, <2>3, <2>4 DEF Mig
<1>12. PICK sign \in {1, -1} : sign = IF f.prog = "up" THEN 1 ELSE -1
  OBVIOUS
<1>13. CASE \E g \in Calls :
               /\ Moved(g) /\ Kin(g) /\ g.txs = Top.txs /\ ~g.err
               /\ Top.n \notin 1..Versions \/ (Top.prog = "down" /\ Top.n <= Top.arg)
               /\ g.pc = "finish" /\ g.n = Top.n /\ UNCHANGED txs
  <2>1. PICK g \in Calls :
               /\ Moved(g) /\ Kin(g) /\ g.txs = Top.txs /\ ~g.err
               /\ Top.n \notin 1..Versions \/ (Top.prog = "down" /\ Top.n <= Top.arg)
               /\ g.pc = "finish" /\ g.n = Top.n /\ UNCHANGED txs
    BY <1>13
  <2>2. /\ g.prog = f.prog /\ g.arg = f.arg /\ g.n = f.n /\ g.txs = f.txs
        /\ f.n \notin 1..Versions \/ (f.prog = "down" /\ f.n <= f.arg)
    BY <1>3, <2>1 DEF Kin
  <2>3. g.n = IF g.prog = "up" THEN Versions + 1 ELSE g.arg
    <3>1. CASE f.prog = "up"
      BY <1>4, <1>10, <2>2, <3>1
    <3>2. CASE f.prog # "up"
      <4>1. f.n \in f.arg..Versions /\ f.arg \in Nat
        BY <1>4, <1>10, <3>2
      <4> QED
        BY <1>4, <1>10, <2>2, <3>2, <4>1
    <3> QED
      BY <3>1, <3>2
  <2>4. Aimed(g)'
    <3>1. \A d \in Data : Aim(g, d) = Aim(f, d)
      BY <2>2 DEF Aim
    <3> QED
      BY <1>5, <1>7, <1>8, <2>1, <2>2, <3>1 DEF Aimed
  <2> QED
    BY <1>11, <2>1, <2>2, <2>3, <2>4
<1>14. CASE \E g \in Calls :
               /\ Moved(g) /\ Kin(g) /\ g.txs = Top.txs /\ ~g.err
               /\ Top.n \in 1..Versions /\ g.pc = "body" /\ g.n = Top.n + sign
               /\ \/ /\ (Top.prog = "up") = (store["state"][Top.n] > 0)
                     /\ UNCHANGED txs
                  \/ /\ (Top.prog = "up") # (store["state"][Top.n] > 0)
                     /\ \A i \in {1, 2} : txs'[i].buf =
                           Append(txs[i].buf, [d |-> Top.n, n |-> sign])
  <2>1. PICK g \in Calls :
               /\ Moved(g) /\ Kin(g) /\ g.txs = Top.txs /\ ~g.err
               /\ Top.n \in 1..Versions /\ g.pc = "body" /\ g.n = Top.n + sign
               /\ \/ /\ (Top.prog = "up") = (store["state"][Top.n] > 0)
                     /\ UNCHANGED txs
                  \/ /\ (Top.prog = "up") # (store["state"][Top.n] > 0)
                     /\ \A i \in {1, 2} : txs'[i].buf =
                           Append(txs[i].buf, [d |-> Top.n, n |-> sign])
    BY <1>14
  <2>2. PICK v \in Data : v = f.n
    BY <1>3, <2>1, DataFacts
  <2>3. g.prog = f.prog /\ g.n = v + sign /\ v \in 1..Versions /\ g.txs = f.txs
    BY <1>3, <2>1, <2>2 DEF Kin
  <2>4. \A d \in Data :
           Aim(g, d) = IF d = v /\ (f.prog = "up") # (State[d] > 0) THEN sign ELSE Aim(f, d)
    BY <1>4, <1>12, <2>2, <2>3, AimRound
  <2>5. CASE (f.prog = "up") = (State[v] > 0) /\ UNCHANGED txs
    <3>1. \A d \in Data : Aim(g, d) = Aim(f, d)
      BY <2>4, <2>5
    <3>2. Aimed(g)'
      BY <1>5, <1>7, <1>8, <2>3, <2>5, <3>1 DEF Aimed
    <3> QED
      BY <1>3, <1>11, <2>1, <3>2
  <2>6. CASE /\ (f.prog = "up") # (State[v] > 0)
             /\ \A i \in {1, 2} : txs'[i].buf = Append(txs[i].buf, [d |-> v, n |-> sign])
    <3>1. Aim(f, v) = 0
      <4>1. State[v] \in {0, 1} /\ v \in Nat
        BY DataFacts DEF Mig, Bits
      <4> QED
        BY <1>4, <2>2, <2>6, <4>1 DEF Aim, Migrations
    <3>2. ASSUME NEW i \in {1, 2}, NEW d \in Data
          PROVE  Delta(txs'[i].buf, d) = Aim(g, d)
      <4>0. i \in 1..2 /\ i \in DOMAIN txs /\ txs[i] \in Txs
        BY <1>1 DEF Shape, Types
      <4>1. PICK b \in Seq(Changes) : b = txs[i].buf
        BY <4>0 DEF Txs
      <4>2. Delta(b, d) = Aim(f, d)
        BY <1>4, <1>5, <4>0, <4>1 DEF Aimed
      <4>3. Delta(txs'[i].buf, d) = Delta(b, d) + (IF d = v THEN sign ELSE 0)
        <5>1. txs'[i].buf = Append(b, [d |-> v, n |-> sign])
          BY <2>6, <4>1
        <5>2. sign \in {1, -1} /\ v \in Data /\ d \in Data
          BY <1>12, <2>2
        <5>3. Delta(Append(b, [d |-> v, n |-> sign]), d) = Delta(b, d) + (IF d = v THEN sign ELSE 0)
          BY ZenonT(40), <4>1, <5>2, DeltaAppend
        <5> QED
          BY <5>1, <5>3
      <4>4. Aim(f, d) \in Int
        BY DEF Aim
      <4> QED
        BY <2>4, <2>6, <3>1, <4>2, <4>3, <4>4
    <3>3. Aimed(g)'
      <4>1. \A i \in 1..Len(g.txs) : i \in {1, 2}
        <5>1. Len(g.txs) = 2
          BY <1>4, <2>3
        <5>2. \A i \in 1..2 : i \in {1, 2}
          OBVIOUS
        <5> QED
          BY <5>1, <5>2
      <4> QED
        BY <1>7, <1>8, <3>2, <4>1 DEF Aimed
    <3> QED
      BY <1>3, <1>11, <2>1, <3>3
  <2> QED
    BY <1>3, <2>1, <2>2, <2>5, <2>6 DEF State
<1> QED
  BY <1>2, <1>3, <1>12, <1>13, <1>14, stageShape

(* The Finish that is due of a migration is the one of its last transaction, *)
(* which is the outermost level of its type.                                *)
LEMMA MigDue ==
  ASSUME Shape, Mig, Calling, Top.pc = "finish", Top.txs # << >>, Top.prog \in Migrations
  PROVE  \E k \in {1, 2} :
            /\ k = Len(Top.txs) /\ Due = k /\ DueRoot = k /\ Levels(DueManager, Due) = {k}
            /\ DueManager = (IF k = 1 THEN "state" ELSE "resource")
            /\ ~txs[k].done /\ Err(k) = ({0, k} \cap cancelled # {})
            /\ Len(Front(Top.txs)) = k - 1 /\ txs[k] \in Txs /\ 1..k \subseteq DOMAIN txs
<1>1. PICK f \in Calls : f = Top
  BY NextNumbers, TopOK
<1>2. MigShape(f) /\ MigRest(f)
  BY <1>1, TopOK DEF OpOK, Mig
<1>3. /\ f.txs \in Seq(Nat) /\ Len(f.txs) \in Nat /\ Len(f.txs) > 0
      /\ Due = f.txs[Len(f.txs)] /\ Due \in DOMAIN txs /\ txs[Due] \in Txs
      /\ DueManager = txs[Due].mgr /\ DueRoot \in Levels(DueManager, Due)
      /\ Due \in Levels(DueManager, Due)
  BY <1>1, DueFacts
<1>4. PICK k \in {1, 2} : k = Len(f.txs)
  <2>1. PICK j \in Nat : j = Len(f.txs)
    BY <1>3
  <2>2. j > 0 /\ j <= 2
    BY <1>2, <1>3, <2>1 DEF MigShape
  <2>3. j \in {1, 2}
    BY <2>2
  <2> QED
    BY <2>1, <2>3
<1>5. k \in Nat /\ k >= 1 /\ k \in 1..k
  <2>1. CASE k = 1
    BY <2>1
  <2>2. CASE k = 2
    BY <2>2
  <2> QED
    BY <1>4, <2>1, <2>2
<1>6. /\ Due = k /\ txs[k].chain = {0, k} /\ ~txs[k].done
      /\ DueManager = IF k = 1 THEN "state" ELSE "resource"
  <2>1. k \in 1..Len(f.txs) /\ Due = f.txs[k]
    BY <1>3, <1>4, <1>5
  <2>2. f.txs[k] = k /\ txs[k].chain = {0, k} /\ txs[k].mgr = IF k = 1 THEN "state" ELSE "resource"
    BY <1>2, <2>1 DEF MigShape
  <2>3. ~txs[k].done
    BY <1>2, <2>1 DEF MigRest
  <2> QED
    BY <1>3, <2>1, <2>2, <2>3
<1>7. Chain(k) = {0, k}
  BY <1>4, <1>6 DEF Chain
<1>8. Levels(DueManager, Due) = {k}
  BY <1>3, <1>6, <1>7 DEF Levels
<1>9. Len(Front(f.txs)) = k - 1
  BY <1>3, <1>4, FrontFacts
<1>10. 1..k \subseteq DOMAIN txs
  <2>1. PICK l \in Nat : l = Len(txs) /\ DOMAIN txs = 1..l
    BY DEF Shape, Types
  <2>2. k <= l
    BY <1>2, <1>4, <2>1 DEF MigShape
  <2> QED
    BY <1>4, <2>1, <2>2
<1> QED
  BY <1>1, <1>3, <1>4, <1>6, <1>7, <1>8, <1>9, <1>10 DEF Err

(* A Finish of another call commits nothing to the state or the resource. *)
LEMMA OtherFinish ==
  ASSUME Shape, Mig, Next, FinishTx, Top.prog \notin Migrations
  PROVE  Mig'
<1>1. Calling /\ Top.pc = "finish" /\ Top.txs # << >> /\ UNCHANGED <<called, ret>>
  BY FinishTxShape
<1>2. PICK g \in Calls : Moved(g) /\ Kin(g) /\ FinishKind(g.err, g.pc)
  BY FinishTxShape
<1>3. /\ Top \in Calls /\ txs[Due] \in Txs /\ DueManager \in Managers /\ Types
      /\ Top.prog # "none" /\ OpOK(Top)
  BY <1>1, DueFacts, TopOK DEF Shape
<1>4. DueManager \notin Drivers
  <2>1. CASE Top.prog = "usecase"
    <3>1. UseOK(Top) /\ Top.txs = <<Top.tx>>
      BY <1>1, <1>3, <2>1 DEF OpOK, UseOK
    <3>2. Due = Top.tx
      BY <3>1 DEF Due, Last
    <3>3. DueManager \in {"steps"} \cup ToSet(Queues)
      BY <1>1, <3>1, <3>2 DEF UseOK, DueManager
    <3> QED
      BY <3>3, BoundsAssumption DEF Drivers
  <2>2. CASE Top.prog = "fanout"
    <3>1. DueManager \in ToSet(Queues)
      BY <1>1, <2>2, FanDue DEF ToSet
    <3> QED
      BY <3>1, BoundsAssumption DEF Drivers
  <2> QED
    BY <1>3, <2>1, <2>2 DEF Calls, Progs, Migrations
<1>5. \A k \in Drivers : store'[k] = store[k]
  <2>1. CASE store' = store
    BY <2>1
  <2>2. CASE store' = Applied(DueManager, txs[Due].buf)
    <3>1. txs[Due].buf \in Seq(Changes)
      BY <1>3 DEF Txs
    <3>2. \A k \in Managers : k # DueManager => store'[k] = store[k]
      BY <1>3, <2>2, <3>1, AppliedType
    <3> QED
      BY <1>4, <3>2 DEF Managers
  <2> QED
    BY <1>2, <2>1, <2>2 DEF FinishKind
<1>6. store'["state"] = store["state"] /\ store'["resource"] = store["resource"]
  BY <1>5 DEF Drivers
<1>7. Top' = g /\ g.prog \notin Migrations /\ ret'.prog \notin Migrations
  BY <1>1, <1>2 DEF Moved, Kin, Mig
<1> QED
  BY <1>1, <1>6, <1>7, OtherMig

(* A commit of a migration: of the resource, and then of the state. *)
LEMMA CommitMig ==
  ASSUME Shape, Mig, Next, FinishTx, NEW f \in Calls, f = Top, f.prog \in Migrations,
         NEW k \in {1, 2}, k = Len(f.txs), txs[k] \in Txs, 1..k \subseteq DOMAIN txs,
         \A i \in 1..(k - 1) : txs'[i] = txs[i],
         NEW g \in Calls, Calling', Top' = g, Kin(g), g.n = f.n, g.pc = "finish", ~g.err, ~f.err,
         Len(g.txs) = k - 1, cancelled' = cancelled \cup {k}, UNCHANGED faults,
         store' = Applied(IF k = 1 THEN "state" ELSE "resource", txs[k].buf)
  PROVE  Mig'
<1>1. Calling /\ Top.pc = "finish" /\ UNCHANGED <<called, ret>>
  BY FinishTxShape
<1>2. MigRest(f) /\ f.pc = "finish" /\ ret'.prog \notin Migrations
  BY <1>1 DEF Mig
<1>3. g.prog = f.prog /\ g.arg = f.arg /\ g.was = f.was
  BY DEF Kin
<1>4. k \in Nat /\ k > 0 /\ k \in 1..k
  <2>1. k = 1 \/ k = 2
    OBVIOUS
  <2> QED
    BY <2>1
<1>5. /\ f.prog \in called /\ f.was = Recorded /\ Aimed(f)
      /\ f.n = IF f.prog = "up" THEN Versions + 1 ELSE f.arg
      /\ k = 1 => Ahead(f)
      /\ \A i \in 1..k : ~txs[i].done
      /\ faults = 0 => \A c \in 0..k : c \notin cancelled
  BY <1>2, <1>4 DEF MigRest
<1>6. /\ \A d \in Data : Delta(txs[k].buf, d) = Aim(f, d)
      /\ \A d \in Data : Aim(f, d) \in {-1, 0, 1}
  BY <1>4, <1>5 DEF Aimed, Aim
<1>7. Types /\ "state" \in Managers /\ "resource" \in Managers /\ txs[k].buf \in Seq(Changes)
  BY DEF Shape, Managers, Drivers, Txs
<1>8. /\ k = 1 => /\ \A d \in Data : State'[d] = State[d] + Aim(f, d)
                  /\ Resource' = Resource
      /\ k = 2 => /\ \A d \in Data : Resource'[d] = Resource[d] + Aim(f, d)
                  /\ State' = State
  <2>1. CASE k = 1
    <3>1. store' = Applied("state", txs[k].buf)
      BY <2>1
    <3>2. /\ \A m \in Managers : m # "state" => store'[m] = store[m]
          /\ \A d \in Data : store'["state"][d] = store["state"][d] + Delta(txs[k].buf, d)
      BY <1>7, <3>1, AppliedType
    <3> QED
      BY <1>6, <1>7, <2>1, <3>2 DEF State, Resource
  <2>2. CASE k = 2
    <3>1. store' = Applied("resource", txs[k].buf)
      BY <2>2
    <3>2. /\ \A m \in Managers : m # "resource" => store'[m] = store[m]
          /\ \A d \in Data :
                store'["resource"][d] = store["resource"][d] + Delta(txs[k].buf, d)
      BY <1>7, <3>1, AppliedType
    <3> QED
      BY <1>6, <1>7, <2>2, <3>2 DEF State, Resource
  <2> QED
    BY <2>1, <2>2
<1>9. /\ \A d \in Data : State[d] \in {0, 1} /\ Resource[d] \in Int
      /\ \A d \in Data : d \in Nat /\ d > 0
      /\ Versions \in Nat /\ 1..Versions \subseteq Data
  BY <1>7, DataFacts DEF Mig, Bits, Types, State, Resource
<1>10. Bits'
  <2>1. CASE k = 1
    <3>1. \A d \in Data : State[d] + Aim(f, d) \in {0, 1}
      BY <1>9 DEF Aim
    <3>2. \A d \in Data : d > Versions => State[d] + Aim(f, d) = 0
      <4> SUFFICES ASSUME NEW d \in Data, d > Versions PROVE State[d] + Aim(f, d) = 0
        OBVIOUS
      <4>1. State[d] = 0 /\ d \in Nat
        BY <1>9 DEF Mig, Bits
      <4> QED
        BY <1>9, <4>1 DEF Aim
    <3> QED
      BY <1>8, <2>1, <3>1, <3>2 DEF Bits
  <2>2. CASE k = 2
    BY <1>8, <2>2 DEF Mig, Bits
  <2> QED
    BY <2>1, <2>2
<1>11. \A d \in 1..Versions :
          /\ k = 1 /\ "down" \notin called => State[d] + Aim(f, d) <= Resource[d]
          /\ k = 1 /\ faults = 0 => State[d] + Aim(f, d) = Resource[d]
          /\ k = 2 /\ "down" \notin called => State[d] <= Resource[d]
          /\ k = 2 /\ faults = 0 => State[d] = Resource[d]
  <2>1. k = 2 => ~Halfway(Top)
    BY DEF Halfway
  <2> QED
    BY <1>5, <2>1 DEF Mig, Ahead, Behind, Level
<1>12. "down" \notin called => \A d \in Data : Aim(f, d) >= 0
  BY <1>5, <1>6 DEF Aim, Migrations
<1>13. Behind' /\ (faults' = 0 /\ ~Halfway(g) => Level')
  <2>1. CASE k = 1
    BY <1>1, <1>8, <1>9, <1>11, <2>1 DEF Behind, Level
  <2>2. CASE k = 2
    <3>1. Halfway(g)
      BY <1>3, <2>2 DEF Halfway
    <3>2. "down" \notin called => \A d \in 1..Versions : State[d] <= Resource[d] + Aim(f, d)
      BY <1>6, <1>9, <1>11, <1>12, <2>2
    <3> QED
      BY <1>1, <1>8, <1>9, <2>2, <3>1, <3>2 DEF Behind
  <2> QED
    BY <2>1, <2>2
<1>14. ASSUME k = 2 PROVE Aimed(g)' /\ Ahead(g)' /\ g.was = Recorded'
  <2>1. State' = State /\ \A d : Aim(g, d)' = Aim(f, d)
    BY <1>3, <1>8, <1>14 DEF Aim
  <2>2. \A i \in 1..(k - 1) : i \in 1..Len(f.txs) /\ txs'[i] = txs[i]
    BY <1>4
  <2>3. \A b, d : Delta(b, d)' = Delta(b, d)
    BY DEF Delta
  <2>4. Aimed(g)'
    BY <1>5, <2>1, <2>2, <2>3 DEF Aimed
  <2>5. \A d \in 1..Versions :
           /\ "down" \notin called => State[d] + Aim(f, d) <= Resource[d] + Aim(f, d)
           /\ faults = 0 => State[d] + Aim(f, d) = Resource[d] + Aim(f, d)
    BY <1>6, <1>9, <1>11, <1>14
  <2>6. Ahead(g)'
    BY <1>1, <1>8, <1>9, <1>14, <2>1, <2>5 DEF Ahead
  <2> QED
    BY <1>3, <1>5, <2>1, <2>4, <2>6 DEF Recorded
<1>15. ASSUME k = 1
       PROVE  /\ Aimed(g)'
              /\ Recorded' = IF g.prog = "up" THEN 1..Versions ELSE g.was \cap (1..g.arg)
  <2>1. Aimed(g)'
    <3>1. 1..Len(g.txs) = {}
      BY <1>15
    <3> QED
      BY <3>1 DEF Aimed
  <2>2. Recorded' = {d \in Data : State[d] + Aim(f, d) > 0}
    BY <1>8, <1>15 DEF Recorded
  <2>3. CASE f.prog = "up"
    <3>1. \A d \in Data : State[d] + Aim(f, d) > 0 <=> d <= Versions
      <4> SUFFICES ASSUME NEW d \in Data PROVE State[d] + Aim(f, d) > 0 <=> d <= Versions
        OBVIOUS
      <4>1. State[d] \in {0, 1} /\ d \in Nat /\ (d > Versions => State[d] = 0)
        BY <1>9 DEF Mig, Bits
      <4>2. d <= Versions => d < f.n
        BY <1>5, <1>9, <2>3, <4>1
      <4> QED
        BY <1>9, <2>3, <4>1, <4>2 DEF Aim
    <3>2. \A d \in Data : d <= Versions <=> d \in 1..Versions
      BY <1>9
    <3>3. Recorded' = {d \in Data : d \in 1..Versions}
      BY <2>2, <3>1, <3>2
    <3>4. Recorded' = 1..Versions
      BY <1>9, <3>3
    <3> QED
      BY <1>3, <2>1, <2>3, <3>4
  <2>4. CASE f.prog = "down"
    <3>1. f.arg \in Nat
      BY DEF Calls
    <3>2. \A d \in Data : State[d] + Aim(f, d) > 0 <=> State[d] > 0 /\ d <= f.arg
      <4> SUFFICES ASSUME NEW d \in Data
                   PROVE  State[d] + Aim(f, d) > 0 <=> State[d] > 0 /\ d <= f.arg
        OBVIOUS
      <4>1. State[d] \in {0, 1} /\ d \in Nat /\ f.n = f.arg
        BY <1>5, <1>9, <2>4
      <4> QED
        BY <2>4, <3>1, <4>1 DEF Aim
    <3>3. \A d \in Data : d <= f.arg <=> d \in 1..f.arg
      BY <1>9, <3>1
    <3>4. Recorded' = {d \in Data : State[d] > 0 /\ d \in 1..f.arg}
      BY <2>2, <3>2, <3>3
    <3>5. Recorded' = Recorded \cap (1..f.arg)
      BY <3>4 DEF Recorded
    <3> QED
      BY <1>3, <1>5, <2>1, <2>4, <3>5
  <2> QED
    BY <2>1, <2>3, <2>4 DEF Migrations
<1>16. MigRest(g)'
  <2>1. \A i \in 1..(k - 1) : ~txs'[i].done
    BY <1>4, <1>5
  <2>2. faults' = 0 => \A c \in 0..(k - 1) : c \notin cancelled'
    BY <1>4, <1>5
  <2>3. g.prog \in called' /\ g.n = IF g.prog = "up" THEN Versions + 1 ELSE g.arg
    BY <1>1, <1>3, <1>5
  <2>4. CASE k = 1
    BY <1>15, <2>1, <2>2, <2>3, <2>4 DEF MigRest
  <2>5. CASE k = 2
    BY <1>14, <2>1, <2>2, <2>3, <2>5 DEF MigRest
  <2> QED
    BY <2>4, <2>5
<1>17. MigrateResult'
  BY <1>2 DEF MigrateResult
<1> QED
  BY <1>2, <1>10, <1>13, <1>16, <1>17 DEF Mig

(* A Finish of a migration that fails or rolls back: without faults the    *)
(* resource has not been committed before.                                 *)
LEMMA FinishFailsMig ==
  ASSUME Shape, Mig, Next, FinishTx, NEW f \in Calls, f = Top, f.prog \in Migrations,
         NEW k \in {1, 2}, k = Len(f.txs),
         \A i \in 1..(k - 1) : txs'[i].done = txs[i].done,
         NEW g \in Calls, Calling', Top' = g, Kin(g), g.n = f.n, g.pc = "finish", g.err,
         Len(g.txs) = k - 1, UNCHANGED store, faults' = 0 => f.err \/ k = 2
  PROVE  Mig'
<1>1. Calling /\ Top.pc = "finish" /\ UNCHANGED <<called, ret>>
  BY FinishTxShape
<1>2. MigRest(f) /\ f.pc = "finish" /\ ret'.prog \notin Migrations
  BY <1>1 DEF Mig
<1>3. g.prog = f.prog /\ g.arg = f.arg /\ g.was = f.was
  BY DEF Kin
<1>4. k \in Nat /\ k > 0 /\ \A i \in 1..(k - 1) : i \in 1..k
  <2>1. k = 1 \/ k = 2
    OBVIOUS
  <2> QED
    BY <2>1
<1>5. /\ f.prog \in called /\ f.was = Recorded
      /\ \A i \in 1..k : ~txs[i].done
  BY <1>2, <1>4 DEF MigRest
<1>6. State' = State /\ Resource' = Resource /\ Recorded' = Recorded
  BY DEF State, Resource, Recorded
<1>7. Bits' /\ Behind' /\ (Level => Level') /\ MigrateResult'
  BY <1>1, <1>2, <1>6 DEF Mig, Bits, Behind, Level, MigrateResult
<1>8. faults' = 0 => Level'
  <2> HAVE faults' = 0
  <2>1. faults = 0
    BY NextNumbers
  <2>2. f.err \/ Len(f.txs) = 2
    OBVIOUS
  <2>3. ~Halfway(f)
    <3>1. Len(f.txs) = 2 => Len(f.txs) # 1
      OBVIOUS
    <3> QED
      BY <2>2, <3>1, Zenon DEF Halfway
  <2> QED
    BY <1>7, <2>1, <2>3 DEF Mig
<1>9. MigRest(g)'
  <2>1. \A i \in 1..(k - 1) : ~txs'[i].done
    BY <1>4, <1>5
  <2> QED
    BY <1>1, <1>3, <1>5, <1>6, <2>1 DEF MigRest
<1> QED
  BY <1>2, <1>7, <1>8, <1>9 DEF Mig

(* The deferred Finish: it keeps what is known of migrations. *)
LEMMA FinishTxMig == ASSUME Shape, Mig, Next, FinishTx PROVE Mig'
<1>1. CASE Top.prog \notin Migrations
  BY <1>1, OtherFinish
<1>2. CASE Top.prog \in Migrations
  <2>1. Calling /\ Top.pc = "finish" /\ Top.txs # << >>
    BY FinishTxShape
  <2>2. PICK g \in Calls : /\ Moved(g) /\ Kin(g) /\ g.txs = Front(Top.txs)
                           /\ g.n = Top.n /\ FinishKind(g.err, g.pc)
    BY FinishTxShape
  <2>3. PICK k \in {1, 2} :
            /\ k = Len(Top.txs) /\ Due = k /\ DueRoot = k /\ Levels(DueManager, Due) = {k}
            /\ DueManager = (IF k = 1 THEN "state" ELSE "resource")
            /\ ~txs[k].done /\ Err(k) = ({0, k} \cap cancelled # {})
            /\ Len(Front(Top.txs)) = k - 1 /\ txs[k] \in Txs /\ 1..k \subseteq DOMAIN txs
    BY <1>2, <2>1, MigDue
  <2>4. PICK f \in Calls : f = Top
    BY <2>1, NextNumbers
  <2>5. Calling' /\ Top' = g /\ Len(g.txs) = k - 1
    BY <2>2, <2>3 DEF Moved
  <2>6. k \in Nat /\ k > 0 /\ \A i \in 1..(k - 1) : i \in 1..k /\ i # k
    <3>1. k = 1 \/ k = 2
      BY <2>3
    <3> QED
      BY <3>1
  <2>7. DueManager # "steps" /\ \A i \in 1..(k - 1) : i \in DOMAIN txs /\ i # Due
    BY <2>3, <2>6
  <2>8. MigRest(f)
    BY <1>2, <2>1, <2>4 DEF Mig
  <2>9. CASE /\ g.err
             /\ Top.err \/ (Due = DueRoot /\ Err(Due))
             /\ g.pc = "finish" /\ RolledBack /\ UNCHANGED <<store, faults>>
    <3>1. \A i \in 1..(k - 1) : txs'[i].done = txs[i].done
      <4> SUFFICES ASSUME NEW i \in 1..(k - 1) PROVE txs'[i].done = txs[i].done
        OBVIOUS
      <4>1. i \in DOMAIN txs /\ i \notin Levels(DueManager, Due)
        BY <2>3, <2>6, <2>7
      <4>2. txs[i].done \in BOOLEAN
        <5>1. txs[i] \in Txs
          BY <4>1 DEF Shape, Types
        <5> QED
          BY <5>1 DEF Txs
      <4> QED
        BY <2>9, <4>1, <4>2 DEF RolledBack
    <3>2. faults' = 0 => f.err
      <4> SUFFICES ASSUME faults = 0, ~f.err PROVE FALSE
        BY <2>9
      <4>1. \A c \in 0..k : c \notin cancelled
        BY <2>3, <2>4, <2>8 DEF MigRest
      <4>2. {0, k} \cap cancelled # {}
        BY <2>3, <2>4, <2>9
      <4> QED
        BY <2>6, <4>1, <4>2
    <3> QED
      BY <1>2, <2>2, <2>3, <2>4, <2>5, <2>9, <3>1, <3>2, FinishFailsMig
  <2>10. CASE g.pc = "finish" /\ Marked /\ g.err /\ Fault /\ UNCHANGED store
    <3>1. \A i \in 1..(k - 1) : txs'[i].done = txs[i].done
      BY <2>7, <2>10 DEF Marked
    <3>2. faults' # 0
      BY <2>10, NextNumbers DEF Fault
    <3> QED
      BY <1>2, <2>2, <2>3, <2>4, <2>5, <2>10, <3>1, <3>2, FinishFailsMig
  <2>11. CASE /\ ~Top.err /\ g.pc = "finish" /\ Marked /\ ~g.err /\ UNCHANGED faults
              /\ store' = Applied(DueManager, txs[Due].buf)
    <3>1. cancelled' = cancelled \cup {k} /\ \A i \in 1..(k - 1) : txs'[i] = txs[i]
      BY <2>3, <2>7, <2>11 DEF Marked
    <3>2. store' = Applied(IF k = 1 THEN "state" ELSE "resource", txs[k].buf)
      BY <2>3, <2>11
    <3> QED
      BY <1>2, <2>2, <2>3, <2>4, <2>5, <2>11, <3>1, <3>2, CommitMig
  <2>12. ~txs[Due].done /\ Due = DueRoot
    BY <2>3
  <2> QED
    BY <2>2, <2>7, <2>9, <2>10, <2>11, <2>12 DEF FinishKind
<1> QED
  BY <1>1, <1>2

(* A call returns: it keeps what is known of migrations. *)
LEMMA ReturnMig == ASSUME Shape, Mig, Next, Return PROVE Mig'
<1>1. /\ UNCHANGED <<store, called, faults>> /\ Calling /\ ret' = Top
      /\ Top.pc = "finish" /\ Top.txs = << >> /\ Len(stack') = Len(stack) - 1
      /\ DOMAIN stack' = 1..(Len(stack) - 1)
  BY ReturnShape
<1>2. /\ Top \in Calls /\ CallOK(Len(stack), Top) /\ Len(stack) \in Nat /\ Len(stack) > 0
      /\ stack' \in Seq(Calls)
  <2>1. /\ Top \in Calls /\ Top = stack[Len(stack)] /\ Len(stack) \in DOMAIN stack
        /\ Len(stack) \in Nat /\ Len(stack) > 0
    BY <1>1, TopFacts DEF Shape
  <2>2. stack' \in Seq(Calls)
    BY ReturnShape DEF Shape, Types
  <2> QED
    BY <2>1, <2>2 DEF Shape, Stacked
<1>3. ASSUME Calling'
      PROVE  \E g \in Calls : g = Top' /\ g.prog \notin Migrations
  <2>1. PICK n \in Nat : n = Len(stack') /\ DOMAIN stack' = 1..n
    BY <1>2
  <2>2. n # 0
    BY <1>2, <1>3, <2>1 DEF Calling
  <2>3. n \in DOMAIN stack'
    BY <2>1, <2>2
  <2>4. stack[n] \in Calls /\ stack'[n] \in Calls /\ stack[n].prog = "usecase"
    BY <2>3, ReturnShape
  <2>5. stack'[n].prog = "usecase"
    <3>1. PICK e \in Calls, g \in Calls : e = stack[n] /\ g = stack'[n]
      BY <2>4
    <3>2. n \in 1..(Len(stack) - 1)
      BY <1>1, <2>3
    <3>3. g = e \/ g.prog = e.prog
      BY <3>1, <3>2, ReturnShape
    <3> QED
      BY <2>4, <3>1, <3>3
  <2>6. Top' = stack'[n]
    BY <2>1 DEF Top, Last
  <2> QED
    BY <2>4, <2>5, <2>6, NotMigrations
<1>4. CASE Top.prog \notin Migrations
  <2>1. ret'.prog \notin Migrations
    BY <1>1, <1>4
  <2>2. CASE Calling'
    BY <1>1, <1>3, <1>4, <2>1, <2>2, OtherMig
  <2>3. CASE ~Calling'
    BY <1>1, <1>4, <2>1, <2>3, <1>2, OtherMig
  <2> QED
    BY <2>2, <2>3
<1>5. CASE Top.prog \in Migrations
  <2>1. Len(stack) = 1
    BY <1>2, <1>5 DEF CallOK
  <2>2. ~Calling'
    BY <1>1, <1>2, <2>1 DEF Calling
  <2>3. PICK f \in Calls : f = Top
    BY <1>2
  <2>4. MigRest(f) /\ f.pc = "finish" /\ Len(f.txs) = 0 /\ f.prog \in Migrations
    BY <1>1, <1>5, <2>3 DEF Mig
  <2>5. /\ f.err => f.was = Recorded
        /\ ~f.err => Recorded = IF f.prog = "up" THEN 1..Versions ELSE f.was \cap (1..f.arg)
    BY <2>4 DEF MigRest
  <2>6. MigrateResult'
    <3>1. ret' = f /\ Recorded = {v \in Data : store'["state"][v] > 0}
      BY <1>1, <2>3 DEF Recorded, State
    <3> QED
      BY <2>5, <3>1 DEF MigrateResult
  <2>7. ~Halfway(Top)
    BY <2>3, <2>4 DEF Halfway
  <2>8. Bits' /\ Behind' /\ (Level => Level')
    BY <1>1 DEF Mig, Bits, Behind, Level, State, Resource
  <2> QED
    BY <1>1, <2>2, <2>6, <2>7, <2>8 DEF Mig
<1> QED
  BY <1>4, <1>5

(* The initial states have recorded nothing. *)
LEMMA InitMig == ASSUME Init PROVE Mig
<1>1. "state" \in Managers /\ "resource" \in Managers
  BY DEF Managers, Drivers
<1>2. \A d \in Data : State[d] = 0 /\ Resource[d] = 0
  BY <1>1 DEF Init, State, Resource
<1>3. Bits /\ Behind /\ Level
  BY <1>2, DataFacts DEF Bits, Behind, Level
<1> QED
  BY <1>3, NotMigrations DEF Init, Mig, MigrateResult, NoCall, Calling

(* A step that changes nothing keeps what is known of migrations. *)
LEMMA StutterMig == ASSUME Mig, UNCHANGED vars PROVE Mig'
<1>1. UNCHANGED <<store, txs, cancelled, stack, made, faults, called, ret>>
  BY DEF vars
<1>2. State' = State /\ Resource' = Resource /\ Recorded' = Recorded
  BY <1>1 DEF State, Resource, Recorded
<1>3. /\ Bits' /\ Behind' /\ (Level => Level') /\ MigrateResult'
  BY <1>1, <1>2 DEF Mig, Bits, Behind, Level, MigrateResult
<1>4. \A f : MigRest(f)' <=> MigRest(f)
  <2>1. \A f, d : Aim(f, d)' = Aim(f, d)
    BY <1>2 DEF Aim
  <2>2. \A b, d : Delta(b, d)' = Delta(b, d)
    BY DEF Delta
  <2>3. \A f : (Aimed(f)' <=> Aimed(f)) /\ (Ahead(f)' <=> Ahead(f))
    BY <1>1, <1>2, <2>1, <2>2 DEF Aimed, Ahead
  <2> QED
    BY <1>1, <1>2, <2>3 DEF MigRest
<1>5. Calling' = Calling /\ Top' = Top
  BY <1>1 DEF Calling, Top
<1> QED
  BY <1>1, <1>3, <1>4, <1>5 DEF Mig

(* Every step keeps what is known of migrations. *)
LEMMA NextMig == ASSUME Shape, Mig, [Next]_vars PROVE Mig'
<1>1. CASE Next /\ (UseCase \/ Publish \/ Migrate \/ MigrateDown)
  BY <1>1, CallKinds, CallMig
<1>2. CASE Next /\ \E c \in 0..Len(txs) : Cancel(c)
  BY <1>2, CancelMig
<1>3. CASE Next /\ (UseBegin \/ Act \/ QueuePublish \/ UseReturn \/ eachQueue \/ Undo)
  BY <1>3, UseMig
<1>4. CASE Next /\ (Crash \/ MigrateBegin \/ stage \/ FinishTx \/ Return)
  BY <1>4, CrashMig, MigrateBeginMig, stageMig, FinishTxMig, ReturnMig
<1>5. CASE UNCHANGED vars
  BY <1>5, StutterMig
<1> QED
  BY <1>1, <1>2, <1>3, <1>4, <1>5 DEF Next

(* A step that is recorded has its effect unless somebody migrates down,   *)
(* even when a migration dies between its two commits (Migrate commits the *)
(* resource first); without faults the two parts agree whenever no call    *)
(* goes on; and what Migrate or MigrateDown returns tells what is recorded *)
(* now: all the steps, those up to the target, or what was before.         *)
THEOREM MigrationsAreRecorded == Spec => []MigrationRecorded
<1>1. Init => Mig
  BY InitMig
<1>2. Shape /\ Mig /\ [Next]_vars => Mig'
  BY NextMig
<1>3. Mig => MigrationRecorded
  <2> SUFFICES ASSUME Mig PROVE NeverAhead
    BY DEF Mig, MigrationRecorded
  <2>1. "down" \notin called => \A v \in 1..Versions : State[v] <= Resource[v]
    BY DEF Mig, Behind
  <2>2. faults = 0 /\ ~Calling => \A v \in 1..Versions : State[v] = Resource[v]
    BY DEF Mig, Level
  <2> QED
    BY <2>1, <2>2 DEF NeverAhead, State, Resource
<1> QED
  BY <1>1, <1>2, <1>3, ShapeInvariant, PTL DEF Spec
=============================================================================
