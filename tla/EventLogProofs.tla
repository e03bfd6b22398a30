-------------------------- MODULE EventLogProofs ---------------------------
(***************************************************************************)
(* Proofs about the EventLog and its repository, for any clients and keys. *)
(*                                                                         *)
(* The invariants speak of the log, but what comes to the log has been in  *)
(* a transaction before, and what a client may do depends on all that it   *)
(* sees, EventsInContext.  So the inductive invariant IInv says of         *)
(* EventsInContext what the properties say of the log: the versions of a   *)
(* client are there in the order it made them (Order), each was possible   *)
(* when it came unless somebody else wrote in between (SerialOK), what a   *)
(* commit has appended so far comes before the rest (CommitOK), and what   *)
(* was done by a transaction that is over is there or not (EndedOK).       *)
(* A commit moves the first event of a transaction across the place where  *)
(* the log, or the transaction around it, ends, and leaves all that its    *)
(* client sees as it was; others see one more event in the log, whose      *)
(* version is none of theirs (Owned).                                      *)
(***************************************************************************)
EXTENDS EventLog, FiniteSetTheorems, WellFoundedInduction, TLAPS

(* The types of the variables. *)
Names == {"Create", "Update", "DeleteByID", "DeleteAll"}
PCs == {"idle", "find", "look", "append", "compress", "commit"}
Events == [name : Names, key : Keys \cup {All}, val : Nat, base : Nat, by : Clients]
Acts == [pc : PCs, save : BOOLEAN, name : Names \cup {"none"}, key : Keys \cup {All},
         val : Nat, base : Nat, did : Seq(Nat)]
Hows == {"rollback", "torn", "commit"}

Types ==
    /\ log \in Seq(Events)
    /\ compressed \in BOOLEAN
    /\ depth \in [Clients -> Nat]
    /\ txs \in [Clients -> Seq(Events)]
    /\ begins \in [Clients -> Seq(Nat)]
    /\ dead \in [Clients -> Nat \cup {Alive}]
    /\ act \in [Clients -> Acts]
    /\ version \in 0..MaxVersion
    /\ cancels \in 0..MaxCancels
    /\ \A t \in ended : t \in [how : Hows, by : Clients, did : Seq(Nat)]

(* The transactions of a client are parts of its events, one after the     *)
(* other.                                                                  *)
Levels(c) ==
    /\ Depth(c) <= depth[c]
    /\ Depth(c) = 0 => txs[c] = << >>
    /\ Depth(c) > 0 => begins[c][1] = 0
    /\ \A i, j \in DOMAIN begins[c] : i <= j => begins[c][i] <= begins[c][j]
    /\ \A i \in DOMAIN begins[c] : begins[c][i] <= Len(txs[c])
    /\ dead[c] # Alive => dead[c] <= Depth(c)

(* An event of an operation, of which those on one id have an id. *)
Formed(name, key) == /\ name \in Names
                     /\ IF name = "DeleteAll" THEN key = All ELSE key \in Keys

(* The base of an event: how long the log was, if that is of interest. *)
Horizon == IF compressed THEN 0 ELSE Len(log)

Doing(c) ==
    /\ act[c].save \/ act[c].pc \in {"find", "look", "commit"} => Depth(c) > 0
    /\ act[c].pc = "find" => act[c].key \in Keys
    /\ act[c].pc = "look" => act[c].key \in Keys /\ act[c].name \in {"Create", "Update"}
    /\ act[c].pc = "append" => /\ Formed(act[c].name, act[c].key)
                               /\ act[c].val \in 1..version
                               /\ act[c].base <= Horizon
    /\ act[c].pc # "commit" => act[c].did = << >>
    /\ act[c].pc = "compress" => compressed

Good(e, v, n) == Formed(e.name, e.key) /\ e.val \in 1..v /\ e.base <= n

Base == /\ Types
        /\ \A c \in Clients : Levels(c) /\ Doing(c)
        /\ \A i \in DOMAIN log : Good(log[i], version, Horizon)
        /\ \A c \in Clients : \A i \in DOMAIN txs[c] :
              Good(txs[c][i], version, Horizon) /\ txs[c][i].by = c

(* Who made a version; a version is of one client, and it was counted. *)
Says(v, c) == \/ \E i \in DOMAIN log : log[i].val = v /\ log[i].by = c
              \/ act[c].pc = "append" /\ act[c].val = v
              \/ \E i \in DOMAIN txs[c] : txs[c][i].val = v
              \/ \E i \in DOMAIN act[c].did : act[c].did[i] = v
              \/ \E t \in ended : t.by = c /\ \E i \in DOMAIN t.did : t.did[i] = v
Owned == \A v \in Nat, c, d \in Clients :
            Says(v, c) => v \in 1..version /\ (Says(v, d) => c = d)

(* The versions of a client in the order it made them, as it sees them. *)
Order(c) ==
    LET s == EventsInContext(c)
    IN  /\ \A a, b \in DOMAIN s : a # b => s[a].val # s[b].val
        /\ \A a, b \in DOMAIN s :
              a < b /\ s[a].by = c /\ s[b].by = c /\ (~compressed \/ b > Len(log))
              => s[a].val < s[b].val
        /\ act[c].pc = "append" =>
              /\ \A a \in DOMAIN s : s[a].by = c => s[a].val < act[c].val
              /\ \A t \in ended : t.by = c => \A i \in DOMAIN t.did : t.did[i] < act[c].val

(* What is told of a transaction that has ended, in terms of what its      *)
(* client sees.                                                            *)
Increasing(did) == \A i, j \in DOMAIN did : i < j => did[i] < did[j]
Has(s, v) == \E a \in DOMAIN s : s[a].val = v
EndedOK(t) ==
    LET s == EventsInContext(t.by)
    IN  /\ t.how = "rollback" => \A i \in DOMAIN t.did : ~Has(s, t.did[i])
        /\ ~compressed =>
              /\ Increasing(t.did)
              /\ t.how = "commit" => \A i \in DOMAIN t.did : Has(log, t.did[i])
              /\ t.how = "torn" => \A i, j \in DOMAIN t.did :
                    i < j /\ Has(s, t.did[j]) => Has(s, t.did[i])

(* What a commit has appended is before what it has yet to append. *)
CommitOK(c) ==
    act[c].pc = "commit" /\ ~compressed =>
       /\ Increasing(act[c].did)
       /\ \A i \in DOMAIN act[c].did : \E a \in DOMAIN EventsInContext(c) :
             /\ EventsInContext(c)[a].val = act[c].did[i]
             /\ EventsInContext(c)[a].by = c
             /\ a <= Len(log) + Begin(c)

(* Serial, for the events that a client sees, and for the one it is about  *)
(* to append.                                                              *)
SerialOK(c) ==
    LET s == EventsInContext(c)
    IN  ~compressed =>
         /\ \A i \in DOMAIN s :
              (\A j \in (s[i].base + 1)..(i - 1) : s[j].by = s[i].by)
                  => Possible(s[i].name, s[i].key, View(SubSeq(s, 1, i - 1)))
         /\ act[c].pc = "append" =>
              ((\A j \in (act[c].base + 1)..Len(s) : s[j].by = c)
                  => Possible(act[c].name, act[c].key, View(s)))

(* The inductive invariant. *)
IInv == /\ Base /\ Owned
        /\ \A c \in Clients : Order(c) /\ CommitOK(c) /\ SerialOK(c)
        /\ \A t \in ended : EndedOK(t)
----------------------------------------------------------------------------
(* What Append does to the elements and to the parts of a sequence. *)
LEMMA AppendFacts ==
  ASSUME NEW S, NEW s \in Seq(S), NEW e \in S
  PROVE  /\ Append(s, e) \in Seq(S)
         /\ Len(Append(s, e)) = Len(s) + 1
         /\ DOMAIN Append(s, e) = 1..(Len(s) + 1)
         /\ Append(s, e)[Len(s) + 1] = e
         /\ \A i \in 1..Len(s) : Append(s, e)[i] = s[i]
OBVIOUS

(* The elements of a part of a sequence. *)
LEMMA SubSeqFacts ==
  ASSUME NEW S, NEW s \in Seq(S), NEW n \in 0..Len(s)
  PROVE  /\ SubSeq(s, 1, n) \in Seq(S)
         /\ Len(SubSeq(s, 1, n)) = n
         /\ DOMAIN SubSeq(s, 1, n) = 1..n
         /\ \A i \in 1..n : SubSeq(s, 1, n)[i] = s[i]
OBVIOUS

(* The elements of a sequence without its first one. *)
LEMMA TailFacts ==
  ASSUME NEW S, NEW s \in Seq(S), Len(s) > 0
  PROVE  /\ Tail(s) \in Seq(S)
         /\ Len(Tail(s)) = Len(s) - 1
         /\ DOMAIN Tail(s) = 1..(Len(s) - 1)
         /\ \A i \in 1..(Len(s) - 1) : Tail(s)[i] = s[i + 1]
OBVIOUS

(* What is left behind a position. *)
LEMMA RestFacts ==
  ASSUME NEW S, NEW s \in Seq(S), NEW n \in 0..Len(s)
  PROVE  /\ SubSeq(s, n + 1, Len(s)) \in Seq(S)
         /\ Len(SubSeq(s, n + 1, Len(s))) = Len(s) - n
         /\ DOMAIN SubSeq(s, n + 1, Len(s)) = 1..(Len(s) - n)
         /\ \A i \in 1..(Len(s) - n) : SubSeq(s, n + 1, Len(s))[i] = s[n + i]
<1>1. Len(s) \in Nat /\ n + 1 \in 1..(Len(s) + 1)
  OBVIOUS
<1>2. \A i \in (n + 1)..Len(s) : s[i] \in S
  BY <1>1
<1> DEFINE m == IF n + 1 <= Len(s) THEN Len(s) - n ELSE 0
<1>3. m = Len(s) - n /\ m \in Nat
  BY <1>1
<1>4. SubSeq(s, n + 1, Len(s)) = [i \in 1..(Len(s) - n) |-> s[n + i]]
  BY <1>1, <1>3
<1>5. \A i \in 1..(Len(s) - n) : n + i \in (n + 1)..Len(s)
  BY <1>1
<1> DEFINE f == [i \in 1..(Len(s) - n) |-> s[n + i]]
<1>6. f \in [1..(Len(s) - n) -> S]
  BY <1>2, <1>5
<1>7. f \in Seq(S) /\ Len(f) = Len(s) - n
  BY <1>3, <1>6
<1> QED
  BY <1>4, <1>7

(* The elements of two sequences, one after the other. *)
LEMMA CatFacts ==
  ASSUME NEW S, NEW s \in Seq(S), NEW t \in Seq(S)
  PROVE  /\ s \o t \in Seq(S)
         /\ Len(s \o t) = Len(s) + Len(t)
         /\ DOMAIN (s \o t) = 1..(Len(s) + Len(t))
         /\ \A i \in 1..Len(s) : (s \o t)[i] = s[i]
         /\ \A i \in 1..Len(t) : (s \o t)[Len(s) + i] = t[i]
OBVIOUS

(* Sequences with the same beginning have the same parts there. *)
LEMMA SubSeqSame ==
  ASSUME NEW S, NEW s \in Seq(S), NEW t \in Seq(S), NEW n \in 0..Len(s), n <= Len(t),
         \A i \in 1..n : s[i] = t[i]
  PROVE  SubSeq(s, 1, n) = SubSeq(t, 1, n)
OBVIOUS

(* Sequences with the same elements are equal. *)
LEMMA SeqEqual ==
  ASSUME NEW S, NEW s \in Seq(S), NEW t \in Seq(S), Len(s) = Len(t),
         \A i \in 1..Len(s) : s[i] = t[i]
  PROVE  s = t
OBVIOUS

(* The beginning of two sequences is that of the first. *)
LEMMA CatCut ==
  ASSUME NEW S, NEW s \in Seq(S), NEW t \in Seq(S), NEW n \in 0..Len(t)
  PROVE  s \o SubSeq(t, 1, n) = SubSeq(s \o t, 1, Len(s) + n)
OBVIOUS

(* Appending to the second of two sequences. *)
LEMMA CatAppend ==
  ASSUME NEW S, NEW s \in Seq(S), NEW t \in Seq(S), NEW e \in S
  PROVE  s \o Append(t, e) = Append(s \o t, e)
OBVIOUS

(* Nothing comes before or after a sequence. *)
LEMMA CatEmpty ==
  ASSUME NEW S, NEW s \in Seq(S)
  PROVE  s \o << >> = s
OBVIOUS

(* The first element of the second sequence moves to the first one. *)
LEMMA CatMove ==
  ASSUME NEW S, NEW s \in Seq(S), NEW t \in Seq(S), Len(t) > 0
  PROVE  Append(s, t[1]) \o Tail(t) = s \o t
<1>1. t[1] \in S /\ Len(t) \in Nat /\ Len(s) \in Nat
  OBVIOUS
<1> DEFINE u == Append(s, t[1])
           v == Tail(t)
<1>2. u \in Seq(S) /\ Len(u) = Len(s) + 1 /\ u[Len(s) + 1] = t[1] /\ \A i \in 1..Len(s) : u[i] = s[i]
  BY <1>1
<1>3. v \in Seq(S) /\ Len(v) = Len(t) - 1 /\ \A i \in 1..(Len(t) - 1) : v[i] = t[i + 1]
  BY <1>1
<1> HIDE DEF u, v
<1>7. \A p, q \in Seq(S) :
         /\ p \o q \in Seq(S) /\ Len(p \o q) = Len(p) + Len(q)
         /\ \A i \in 1..Len(p) : (p \o q)[i] = p[i]
         /\ \A i \in 1..Len(q) : (p \o q)[Len(p) + i] = q[i]
  OBVIOUS
<1>8. /\ u \o v \in Seq(S) /\ Len(u \o v) = Len(u) + Len(v)
      /\ \A i \in 1..Len(u) : (u \o v)[i] = u[i]
      /\ \A i \in 1..Len(v) : (u \o v)[Len(u) + i] = v[i]
  BY <1>2, <1>3, <1>7
<1>9. /\ s \o t \in Seq(S) /\ Len(s \o t) = Len(s) + Len(t)
      /\ \A i \in 1..Len(s) : (s \o t)[i] = s[i]
      /\ \A i \in 1..Len(t) : (s \o t)[Len(s) + i] = t[i]
  BY <1>7
<1>4. Len(u \o v) = Len(s \o t)
  BY <1>1, <1>2, <1>3, <1>8, <1>9
<1>5. ASSUME NEW i \in 1..Len(u \o v) PROVE (u \o v)[i] = (s \o t)[i]
  <2>1. CASE i <= Len(s)
    <3>1. i \in 1..Len(s) /\ i \in 1..Len(u)
      BY <1>1, <1>2, <2>1
    <3> QED
      BY <1>2, <1>8, <1>9, <3>1
  <2>2. CASE i = Len(s) + 1
    <3>1. i \in 1..Len(u) /\ 1 \in 1..Len(t)
      BY <1>1, <1>2, <2>2
    <3> QED
      BY <1>2, <1>8, <1>9, <2>2, <3>1
  <2>3. CASE i > Len(s) + 1
    <3> DEFINE j == i - Len(u)
    <3>1. j \in 1..Len(v) /\ j \in 1..(Len(t) - 1) /\ j + 1 \in 1..Len(t)
          /\ Len(u) + j = i /\ Len(s) + (j + 1) = i
      BY <1>1, <1>2, <1>3, <1>8, <2>3
    <3> HIDE DEF j
    <3>2. (u \o v)[i] = v[j] /\ (s \o t)[i] = t[j + 1]
      BY <1>8, <1>9, <3>1
    <3> QED
      BY <1>3, <3>1, <3>2
  <2> QED
    BY <1>1, <1>8, <1>2, <1>3, <2>1, <2>2, <2>3
<1>6. u \o v = s \o t
  BY <1>4, <1>5, <1>8, <1>9, SeqEqual
<1> QED
  BY <1>6 DEF u, v

(* What a step of a client does. *)
Begins(c) == \/ BeginTx(c, Idle)
             \/ \E k \in Keys : Save(c, k)
Rolls(c) == act[c].pc \in {"idle", "find", "look", "append"} /\ Depth(c) > 0 /\ RollbackTx(c)

(* ... a look of an operation, the first look of a Save... *)
Looks(c) == /\ act[c].pc \in {"idle", "look"}
            /\ \E name \in Names, k \in Keys \cup {All}, save \in BOOLEAN :
                  /\ Formed(name, k) /\ (save => Depth(c) > 0)
                  /\ Look(c, name, k, save)
Finds(c) == /\ act[c].pc = "find"
            /\ \E name \in {"Create", "Update"} :
                  Become(c, [act[c] EXCEPT !.pc = "look", !.name = name])
            /\ UNCHANGED <<log, opts, txVars, dead, version, cancels, ended>>

(* ... an event appended, or given up... *)
Appends(c) == /\ act[c].pc = "append"
              /\ IF Depth(c) = 0
                 THEN log' = Append(log, EventOf(c)) /\ UNCHANGED txs
                 ELSE txs' = [txs EXCEPT ![c] = Append(@, EventOf(c))] /\ UNCHANGED log
              /\ \E next \in {"compress", "commit", "idle"}, save \in BOOLEAN :
                    /\ next = "compress" => compressed
                    /\ next = "commit" \/ save => act[c].save
                    /\ Become(c, [Idle EXCEPT !.pc = next, !.save = save])
              /\ UNCHANGED <<opts, begins, dead, version, cancels, ended>>
Fails(c) == /\ act[c].pc = "append" /\ Become(c, Idle)
            /\ UNCHANGED <<log, opts, txVars, dead, version, cancels, ended>>

(* ... a context cancelled or renewed, or else a step of a commit or of    *)
(* Compress.                                                               *)
Contexts(c) == /\ \E d \in (0..Depth(c)) \cup {Alive} : dead' = [dead EXCEPT ![c] = d]
               /\ cancels' \in 0..MaxCancels
               /\ UNCHANGED <<log, opts, txVars, act, version, ended>>
Kind(c) == \/ Begins(c) \/ Rolls(c) \/ Looks(c) \/ Finds(c) \/ Appends(c) \/ Fails(c)
           \/ Compress(c) \/ CommitTx(c) \/ Contexts(c)
           \/ act[c].pc = "commit" /\ CommitEvent(c)
           \/ act[c].pc = "commit" /\ CommitEnds(c)

(* The steps of a client, by what they do to it. *)
LEMMA Kinds ==
  ASSUME Base, Next
  PROVE  \E c \in Clients : Kind(c)
<1>1. PICK c \in Clients :
            \/ BeginTx(c, Idle) \/ Rollback(c) \/ CommitTx(c) \/ Commit(c)
            \/ \E k \in Keys : \/ Create(c, k) \/ Update(c, k)
                               \/ DeleteByID(c, k) \/ Save(c, k)
            \/ DeleteAll(c) \/ SaveFind(c) \/ SaveLook(c) \/ AppendEvent(c) \/ Compress(c)
            \/ Cancel(c) \/ NewContext(c)
  BY DEF Next
<1> USE DEF Kind
<1>2. CASE BeginTx(c, Idle) \/ CommitTx(c) \/ Compress(c) \/ Commit(c)
  BY <1>2 DEF Begins, Commit
<1>3. CASE Rollback(c)
  BY <1>3 DEF Rollback, Rolls
<1>4. ASSUME NEW k \in Keys, Create(c, k) \/ Update(c, k) \/ DeleteByID(c, k) PROVE Looks(c)
  <2>1. k # All /\ FALSE \in BOOLEAN
    BY EventLogAssumption
  <2> QED
    BY <1>4, <2>1 DEF Create, Update, DeleteByID, Looks, Names, Formed
<1>5. CASE DeleteAll(c)
  BY <1>5 DEF DeleteAll, Looks, Names, Formed
<1>6. ASSUME NEW k \in Keys, Save(c, k) PROVE Begins(c)
  BY <1>6 DEF Begins
<1>7. Levels(c) /\ Doing(c) /\ Types
  BY DEF Base
<1>8. CASE SaveFind(c)
  <2>1. act[c].pc = "find" /\ Depth(c) > 0
    BY <1>7, <1>8 DEF SaveFind, Doing
  <2>2. CASE Err(c)
    BY <1>8, <2>1, <2>2 DEF SaveFind, Rolls
  <2>3. CASE ~Err(c)
    BY <1>8, <2>1, <2>3 DEF SaveFind, Finds
  <2> QED
    BY <2>2, <2>3
<1>9. CASE SaveLook(c)
  <2>1. act[c].pc = "look" /\ Depth(c) > 0 /\ act[c].key \in Keys
        /\ act[c].name \in {"Create", "Update"}
    BY <1>7, <1>9 DEF SaveLook, Doing
  <2>2. CASE ~Doable(c, act[c].name, act[c].key)
    BY <1>9, <2>1, <2>2 DEF SaveLook, Rolls
  <2>3. CASE Doable(c, act[c].name, act[c].key)
    BY <1>9, <2>1, <2>3, EventLogAssumption DEF SaveLook, Looks, Names, Formed
  <2> QED
    BY <2>2, <2>3
<1>10. CASE AppendEvent(c)
  <2>1. act[c].pc = "append" /\ act[c].save \in BOOLEAN /\ (act[c].save => Depth(c) > 0)
    BY <1>7, <1>10 DEF AppendEvent, Doing, Types, Acts
  <2>2. CASE Err(c) /\ act[c].save /\ RollbackTx(c)
    BY <2>1, <2>2 DEF Rolls
  <2>3. CASE ~(Err(c) /\ act[c].save /\ RollbackTx(c))
    BY <2>1, <2>3, <1>10 DEF AppendEvent, Appends, Fails
  <2> QED
    BY <2>2, <2>3
<1>11. CASE Cancel(c)
  <2>1. cancels + 1 \in 0..MaxCancels
    BY <1>7, <1>11, EventLogAssumption DEF Cancel, Types
  <2> QED
    BY <1>11, <2>1 DEF Cancel, Contexts
<1>12. CASE NewContext(c)
  BY <1>7, <1>12 DEF NewContext, Contexts, Types
<1> QED
  BY <1>1, <1>2, <1>3, <1>4, <1>5, <1>6, <1>8, <1>9, <1>10, <1>11, <1>12
----------------------------------------------------------------------------
(* The innermost transaction: its events, and what Pop leaves. *)
LEMMA Innermost ==
  ASSUME Types, NEW c \in Clients, Levels(c), Depth(c) > 0
  PROVE  /\ Begin(c) \in 0..Len(txs[c])
         /\ Begin(c) = begins[c][Depth(c)]
         /\ Depth(c) = 1 => Begin(c) = 0
         /\ Did(c) \in Seq(Nat)
         /\ Len(Did(c)) = Len(act[c].did) + Len(txs[c]) - Begin(c)
         /\ \A i \in 1..Len(act[c].did) : Did(c)[i] = act[c].did[i]
         /\ \A i \in 1..(Len(txs[c]) - Begin(c)) :
               Did(c)[Len(act[c].did) + i] = txs[c][Begin(c) + i].val
<1>1. /\ begins[c] \in Seq(Nat) /\ txs[c] \in Seq(Events)
      /\ act[c].did \in Seq(Nat) /\ \A e \in Events : e.val \in Nat
  BY DEF Types, Acts, Events
<1>2. Depth(c) \in DOMAIN begins[c] /\ Len(begins[c]) = Depth(c) /\ 1 \in DOMAIN begins[c]
  BY <1>1 DEF Depth
<1>3. Begin(c) \in 0..Len(txs[c]) /\ Begin(c) = begins[c][Depth(c)]
  BY <1>1, <1>2 DEF Begin, Last, Levels
<1>4. Depth(c) = 1 => Begin(c) = 0
  BY <1>2, <1>3 DEF Levels
<1> DEFINE n == Len(txs[c]) - Begin(c)
<1>5. n \in Nat /\ \A i \in 1..n : Begin(c) + i \in 1..Len(txs[c])
  BY <1>1, <1>3
<1> DEFINE r == SubSeq(txs[c], Begin(c) + 1, Len(txs[c]))
<1>9. /\ r \in Seq(Events) /\ Len(r) = n /\ DOMAIN r = 1..n
      /\ \A i \in 1..n : r[i] = txs[c][Begin(c) + i]
  <2> HIDE DEF n, r
  <2>1. \A k \in 0..Len(txs[c]) : LET q == SubSeq(txs[c], k + 1, Len(txs[c])) IN
           /\ q \in Seq(Events) /\ Len(q) = Len(txs[c]) - k
           /\ DOMAIN q = 1..(Len(txs[c]) - k)
           /\ \A i \in 1..(Len(txs[c]) - k) : q[i] = txs[c][k + i]
    BY <1>1, RestFacts
  <2>2. n = Len(txs[c]) - Begin(c) /\ r = SubSeq(txs[c], Begin(c) + 1, Len(txs[c]))
    BY DEF n, r
  <2> QED
    BY <1>3, <2>1, <2>2
<1> DEFINE v == Versions(r)
<1> HIDE DEF n, r
<1>6. v \in Seq(Nat) /\ Len(v) = n /\ \A i \in 1..n : v[i] = txs[c][Begin(c) + i].val
  <2>1. v = [i \in 1..n |-> r[i].val]
    BY <1>9 DEF Versions
  <2>2. \A i \in 1..n : r[i] \in Events
    BY <1>5, <1>9
  <2>3. [i \in 1..n |-> r[i].val] \in [1..n -> Nat]
    BY <1>1, <2>2
  <2>4. v \in [1..n -> Nat]
    BY <2>1, <2>3
  <2>5. v \in Seq(Nat) /\ Len(v) = n
    BY <1>5, <2>4
  <2> QED
    BY <1>9, <2>1, <2>5
<1> HIDE DEF v
<1>7. /\ act[c].did \o v \in Seq(Nat) /\ Len(act[c].did \o v) = Len(act[c].did) + n
      /\ \A i \in 1..Len(act[c].did) : (act[c].did \o v)[i] = act[c].did[i]
      /\ \A i \in 1..n : (act[c].did \o v)[Len(act[c].did) + i] = v[i]
  <2>1. \A s \in Seq(Nat), t \in Seq(Nat) :
           /\ s \o t \in Seq(Nat) /\ Len(s \o t) = Len(s) + Len(t)
           /\ \A i \in 1..Len(s) : (s \o t)[i] = s[i]
           /\ \A i \in 1..Len(t) : (s \o t)[Len(s) + i] = t[i]
    BY CatFacts
  <2> QED
    BY <1>1, <1>6, <2>1
<1>8. Did(c) = act[c].did \o v
  BY DEF Did, v, r
<1> QED
  BY <1>1, <1>3, <1>4, <1>6, <1>7, <1>8 DEF n

(* What a transaction did, one by one: committed first, then not yet. *)
LEMMA DidAt ==
  ASSUME Types, NEW c \in Clients, Levels(c), Depth(c) > 0, NEW i \in DOMAIN Did(c)
  PROVE  \/ i \in DOMAIN act[c].did /\ Did(c)[i] = act[c].did[i]
         \/ /\ i > Len(act[c].did)
            /\ i - Len(act[c].did) + Begin(c) \in (Begin(c) + 1)..Len(txs[c])
            /\ Did(c)[i] = txs[c][i - Len(act[c].did) + Begin(c)].val
<1> DEFINE a == Len(act[c].did)
           m == Len(txs[c])
           b == Begin(c)
<1>1. /\ act[c].did \in Seq(Nat) /\ txs[c] \in Seq(Events)
  BY DEF Types, Acts
<1>2. a \in Nat /\ m \in Nat /\ DOMAIN act[c].did = 1..a
  BY <1>1
<1>3. /\ b \in 0..m /\ Did(c) \in Seq(Nat) /\ Len(Did(c)) = a + m - b
      /\ \A j \in 1..a : Did(c)[j] = act[c].did[j]
      /\ \A j \in 1..(m - b) : Did(c)[a + j] = txs[c][b + j].val
  BY Innermost
<1>4. i \in 1..(a + m - b)
  BY <1>3
<1> HIDE DEF a, b, m
<1>5. CASE i <= a
  <2>1. i \in 1..a
    BY <1>2, <1>4, <1>5
  <2> QED
    BY <1>2, <1>3, <2>1
<1>6. CASE i > a
  <2>1. PICK j \in 1..(m - b) : i = a + j
    <3>1. i - a \in 1..(m - b) /\ i = a + (i - a)
      BY <1>2, <1>3, <1>4, <1>6
    <3> QED
      BY <3>1
  <2>2. i - a + b = b + j /\ i - a + b \in (b + 1)..m
    BY <1>2, <1>3, <2>1
  <2> QED
    BY <1>3, <1>6, <2>1, <2>2 DEF a, b, m
<1> QED
  BY <1>2, <1>4, <1>5, <1>6

(* The events of a client whose innermost transaction is over. *)
LEMMA Popped ==
  ASSUME Types, NEW c \in Clients, Levels(c), Depth(c) > 0, Pop(c)
  PROVE  /\ txs' \in [Clients -> Seq(Events)] /\ begins' \in [Clients -> Seq(Nat)]
         /\ dead' \in [Clients -> Nat \cup {Alive}]
         /\ Len(txs'[c]) = Begin(c) /\ \A i \in 1..Begin(c) : txs'[c][i] = txs[c][i]
         /\ Len(begins'[c]) = Depth(c) - 1
         /\ \A i \in 1..(Depth(c) - 1) : begins'[c][i] = begins[c][i]
         /\ dead'[c] # Alive => dead'[c] <= Depth(c) - 1
         /\ \A d \in Clients \ {c} :
               txs'[d] = txs[d] /\ begins'[d] = begins[d] /\ dead'[d] = dead[d]
<1>1. begins[c] \in Seq(Nat) /\ txs[c] \in Seq(Events) /\ dead[c] \in Nat \cup {Alive}
  BY DEF Types
<1>2. Begin(c) \in 0..Len(txs[c]) /\ Depth(c) - 1 \in 0..Len(begins[c]) /\ Depth(c) \in Nat
  BY <1>1, Innermost DEF Depth
<1>3. txs'[c] = SubSeq(txs[c], 1, Begin(c)) /\ begins'[c] = SubSeq(begins[c], 1, Depth(c) - 1)
      /\ dead'[c] = IF dead[c] = Depth(c) THEN Alive ELSE dead[c]
  BY DEF Pop, Types, Front, Depth
<1>4. /\ txs'[c] \in Seq(Events) /\ Len(txs'[c]) = Begin(c)
      /\ \A i \in 1..Begin(c) : txs'[c][i] = txs[c][i]
  BY <1>1, <1>2, <1>3, SubSeqFacts
<1>5. /\ begins'[c] \in Seq(Nat) /\ Len(begins'[c]) = Depth(c) - 1
      /\ \A i \in 1..(Depth(c) - 1) : begins'[c][i] = begins[c][i]
  BY <1>1, <1>2, <1>3, SubSeqFacts
<1>6. dead'[c] # Alive => dead'[c] <= Depth(c) - 1
  BY <1>1, <1>2, <1>3 DEF Levels
<1>7. txs' \in [Clients -> Seq(Events)] /\ begins' \in [Clients -> Seq(Nat)]
      /\ dead' \in [Clients -> Nat \cup {Alive}]
  <2>1. /\ txs' = [txs EXCEPT ![c] = txs'[c]]
        /\ begins' = [begins EXCEPT ![c] = begins'[c]]
        /\ dead' = [dead EXCEPT ![c] = dead'[c]]
        /\ dead'[c] \in Nat \cup {Alive}
    BY <1>1, <1>3 DEF Pop, Types
  <2> QED
    BY <2>1, <1>4, <1>5 DEF Types
<1> QED
  BY <1>4, <1>5, <1>6, <1>7 DEF Pop, Types

(* What Compress leaves of a log. *)
Kept == {log[i] : i \in {i \in DOMAIN log : /\ log[i].name \in {"Create", "Update"}
                                            /\ View(log)[log[i].key] = log[i].val}}
Fresh == {[e EXCEPT !.name = "Create"] : e \in Kept}

(* What Compress keeps is finite. *)
LEMMA FreshFinite ==
  ASSUME Types
  PROVE  IsFiniteSet(Fresh)
<1>1. log \in Seq(Events)
  BY DEF Types
<1>2. IsFiniteSet(1..Len(log)) /\ DOMAIN log = 1..Len(log)
  BY <1>1, FS_Interval
<1> DEFINE at == {i \in DOMAIN log : /\ log[i].name \in {"Create", "Update"}
                                     /\ View(log)[log[i].key] = log[i].val}
<1>3. IsFiniteSet(at)
  BY <1>2, FS_Subset
<1> DEFINE f == [i \in at |-> [log[i] EXCEPT !.name = "Create"]]
<1>4. f \in Surjection(at, Fresh)
  BY DEF Surjection, Fresh, Kept
<1> QED
  BY <1>3, <1>4, FS_Surjection

(* Compress makes a log of events of Creates. *)
LEMMA CompressedTypes ==
  ASSUME Types, log' \in Compressed(log)
  PROVE  /\ log' \in Seq(Events)
         /\ DOMAIN log' = 1..Cardinality(Fresh) /\ Len(log') = Cardinality(Fresh)
         /\ Cardinality(Fresh) \in Nat
         /\ \A i \in DOMAIN log' : log'[i] \in Fresh
         /\ \A i, j \in DOMAIN log' : i # j => log'[i] # log'[j]
<1>1. log \in Seq(Events) /\ Kept \subseteq Events
  BY DEF Types, Kept
<1>2. Fresh \subseteq Events
  BY <1>1 DEF Fresh, Events, Names
<1>3. Compressed(log) = SetToSeqs(Fresh)
  BY DEF Compressed, Fresh, Kept
<1>4. Cardinality(Fresh) \in Nat
  BY FreshFinite, FS_CardinalityType
<1>5. /\ log' \in [1..Cardinality(Fresh) -> Fresh]
      /\ \A i, j \in 1..Cardinality(Fresh) : i # j => log'[i] # log'[j]
  BY <1>3 DEF SetToSeqs
<1> QED
  BY <1>2, <1>4, <1>5

(* The end of a transaction: RollbackTx, or the last step of CommitTx. *)
Ends(c) == /\ Depth(c) > 0
           /\ \/ ended' = ended
              \/ \E how \in Hows : Ended(c, how)
           /\ Pop(c) /\ Become(c, Idle)
           /\ UNCHANGED <<log, opts, version, cancels>>

(* A rollback ends the transaction. *)
LEMMA RollsEnd ==
  ASSUME NEW c \in Clients, Rolls(c)
  PROVE  Ends(c) /\ Ended(c, "rollback")
BY DEF Rolls, RollbackTx, Ends, Hows

(* So does the end of a commit. *)
LEMMA CommitEndsEnds ==
  ASSUME Base, NEW c \in Clients, act[c].pc = "commit", CommitEnds(c)
  PROVE  Ends(c)
<1>1. Depth(c) > 0
  BY DEF Base, Doing
<1> QED
  BY <1>1 DEF CommitEnds, Ends, Hows

(* Doing nothing is something a client may do. *)
LEMMA IdleActs == Idle \in Acts
<1>1. << >> \in Seq(Nat)
  OBVIOUS
<1> QED
  BY <1>1 DEF Idle, Acts, PCs

(* Each step keeps the types. *)
LEMMA TypesNext ==
  ASSUME Base, NEW c \in Clients, Kind(c)
  PROVE  Types'
<1>1. /\ Types /\ Levels(c) /\ Doing(c)
      /\ begins[c] \in Seq(Nat) /\ txs[c] \in Seq(Events) /\ act[c] \in Acts
      /\ log \in Seq(Events) /\ Idle \in Acts
  BY IdleActs DEF Base, Types
<1>2. ASSUME NEW a \in Acts, Become(c, a) PROVE act' \in [Clients -> Acts]
  BY <1>1, <1>2 DEF Become, Types
<1>3. CASE Begins(c)
  <2>1. /\ begins' = [begins EXCEPT ![c] = Append(@, Len(txs[c]))]
        /\ \E a \in Acts : Become(c, a)
        /\ UNCHANGED <<log, opts, txs, dead, version, cancels, ended>>
    <3>1. \A k \in Keys : [Idle EXCEPT !.pc = "find", !.save = TRUE, !.key = k] \in Acts
      BY <1>1 DEF Idle, Acts, PCs
    <3> QED
      BY <1>1, <1>3, <3>1 DEF Begins, Save, BeginTx
  <2>2. Append(begins[c], Len(txs[c])) \in Seq(Nat)
    BY <1>1
  <2> QED
    BY <1>1, <1>2, <2>1, <2>2 DEF Types, opts
<1>4. ASSUME Ends(c) PROVE Types'
  <2>1. Did(c) \in Seq(Nat)
    BY <1>1, <1>4, Innermost DEF Ends
  <2>2. \A t \in ended' : t \in [how : Hows, by : Clients, did : Seq(Nat)]
    BY <1>1, <1>4, <2>1 DEF Ends, Ended, Types
  <2> QED
    BY <1>1, <1>2, <1>4, <2>2, Popped DEF Ends, Types, opts
<1>5. CASE Looks(c)
  <2>1. PICK name \in Names, k \in Keys \cup {All}, save \in BOOLEAN : Look(c, name, k, save)
    BY <1>5 DEF Looks
  <2>2. version + 1 \in 0..MaxVersion /\ version + 1 \in Nat
    BY <1>1, <2>1, EventLogAssumption DEF Look, Types
  <2>3. (IF compressed THEN 0 ELSE Len(log)) \in Nat
    BY <1>1
  <2>4. act' \in [Clients -> Acts]
    <3> DEFINE base == IF compressed THEN 0 ELSE Len(log)
               a == [Idle EXCEPT !.pc = "append", !.save = save, !.name = name, !.key = k,
                                 !.val = version + 1, !.base = base]
    <3>1. a \in Acts
      BY <1>1, <2>2, <2>3 DEF Idle, Acts, PCs
    <3> QED
      BY <1>2, <2>1, <3>1 DEF Look
  <2> QED
    BY <1>1, <2>1, <2>2, <2>4 DEF Look, Types, opts, txVars
<1>6. CASE Finds(c)
  <2>1. \A name \in {"Create", "Update"} :
           [act[c] EXCEPT !.pc = "look", !.name = name] \in Acts
    BY <1>1 DEF Acts, PCs, Names
  <2> QED
    BY <1>1, <1>2, <1>6, <2>1 DEF Finds, Types, opts, txVars
<1>7. CASE Appends(c)
  <2>1. EventOf(c) \in Events
    BY <1>1, <1>7 DEF Appends, EventOf, Events, Acts, Doing, Formed
  <2>2. act' \in [Clients -> Acts]
    <3>1. \A next \in {"compress", "commit", "idle"}, save \in BOOLEAN :
             [Idle EXCEPT !.pc = next, !.save = save] \in Acts
      BY <1>1 DEF Idle, Acts, PCs
    <3> QED
      BY <1>2, <1>7, <3>1 DEF Appends
  <2>3. Append(log, EventOf(c)) \in Seq(Events) /\ Append(txs[c], EventOf(c)) \in Seq(Events)
    BY <1>1, <2>1, AppendFacts
  <2>4. log' \in Seq(Events) /\ txs' \in [Clients -> Seq(Events)]
    BY <1>1, <1>7, <2>3 DEF Appends, Types
  <2> QED
    BY <1>1, <1>7, <2>2, <2>4 DEF Appends, Types, opts
<1>8. CASE Fails(c)
  BY <1>1, <1>2, <1>8 DEF Fails, Types, opts, txVars
<1>9. CASE Contexts(c)
  <2>1. dead' \in [Clients -> Nat \cup {Alive}]
    BY <1>1, <1>9 DEF Contexts, Types, Depth
  <2> QED
    BY <1>1, <1>9, <2>1 DEF Contexts, Types, opts, txVars
<1>10. CASE CommitTx(c)
  <2>1. [Idle EXCEPT !.pc = "commit"] \in Acts
    BY <1>1 DEF Idle, Acts, PCs
  <2> QED
    BY <1>1, <1>2, <1>10, <2>1 DEF CommitTx, Types, opts, txVars
<1>11. CASE Compress(c)
  <2>1. log' \in Seq(Events)
    BY <1>1, <1>11, CompressedTypes DEF Compress
  <2>2. \A pc \in {"commit", "idle"} : [act[c] EXCEPT !.pc = pc] \in Acts
    BY <1>1 DEF Acts, PCs
  <2> QED
    BY <1>1, <1>2, <1>11, <2>1, <2>2 DEF Compress, Types, opts, txVars
<1>12. CASE act[c].pc = "commit" /\ CommitEvent(c)
  <2>1. Depth(c) > 0
    BY <1>1, <1>12 DEF Doing
  <2>2. /\ Begin(c) \in 0..Len(txs[c]) /\ Begin(c) < Len(txs[c])
        /\ Begin(c) = begins[c][Depth(c)] /\ Depth(c) \in DOMAIN begins[c]
    BY <1>1, <1>12, <2>1, Innermost DEF CommitEvent, Depth
  <2> DEFINE e == txs[c][Begin(c) + 1]
  <2>3. e \in Events /\ e.val \in Nat
    <3>1. Begin(c) + 1 \in 1..Len(txs[c])
      BY <1>1, <2>2
    <3>2. e \in Events
      BY <1>1, <3>1
    <3> QED
      BY <3>2 DEF Events
  <2>4. act' \in [Clients -> Acts]
    <3>1. Append(act[c].did, e.val) \in Seq(Nat)
      BY <1>1, <2>3 DEF Acts
    <3>2. [act[c] EXCEPT !.did = Append(@, e.val)] \in Acts
      BY <1>1, <3>1 DEF Acts
    <3> QED
      BY <1>2, <1>12, <3>2 DEF CommitEvent
  <2>5. Append(log, e) \in Seq(Events) /\ Tail(txs[c]) \in Seq(Events)
    BY <1>1, <2>2, <2>3, AppendFacts, TailFacts
  <2>6. [begins[c] EXCEPT ![Depth(c)] = @ + 1] \in Seq(Nat)
    BY <1>1, <2>2
  <2>7. log' \in Seq(Events) /\ txs' \in [Clients -> Seq(Events)]
        /\ begins' \in [Clients -> Seq(Nat)]
    <3>1. CASE Depth(c) = 1
      BY <1>1, <1>12, <2>5, <3>1 DEF CommitEvent, Types
    <3>2. CASE Depth(c) # 1
      BY <1>1, <1>12, <2>6, <3>2 DEF CommitEvent, Types
    <3> QED
      BY <3>1, <3>2
  <2> QED
    BY <1>1, <1>12, <2>4, <2>7 DEF CommitEvent, Types, opts
<1> QED
  BY <1>3, <1>4, <1>5, <1>6, <1>7, <1>8, <1>9, <1>10, <1>11, <1>12, RollsEnd, CommitEndsEnds
  DEF Kind
----------------------------------------------------------------------------
(* A step of a client changes nothing of the others. *)
LEMMA Frame ==
  ASSUME Base, NEW c \in Clients, Kind(c)
  PROVE  /\ compressed' = compressed /\ depth' = depth
         /\ version' \in Nat /\ version \in Nat /\ version <= version'
         /\ \A d \in Clients \ {c} : /\ act'[d] = act[d] /\ txs'[d] = txs[d]
                                     /\ begins'[d] = begins[d] /\ dead'[d] = dead[d]
<1>1. Types /\ Levels(c) /\ Doing(c)
  BY DEF Base
<1>2. version \in Nat /\ version + 1 \in Nat
  BY <1>1, EventLogAssumption DEF Types
<1>3. CASE Begins(c)
  <2>1. /\ \E a : act' = [act EXCEPT ![c] = a]
        /\ begins' = [begins EXCEPT ![c] = Append(@, Len(txs[c]))]
        /\ UNCHANGED <<log, opts, txs, dead, version, cancels, ended>>
    BY <1>3 DEF Begins, Save, BeginTx, Become
  <2> QED
    BY <1>1, <1>2, <2>1 DEF Types, opts
<1>4. CASE Ends(c)
  BY <1>1, <1>2, <1>4 DEF Ends, Pop, Become, Types, opts
<1>5. CASE Looks(c)
  BY <1>1, <1>2, <1>5 DEF Looks, Look, Become, Types, opts, txVars
<1>6. CASE Finds(c)
  BY <1>1, <1>2, <1>6 DEF Finds, Become, Types, opts, txVars
<1>7. CASE Appends(c)
  BY <1>1, <1>2, <1>7 DEF Appends, Become, Types, opts
<1>8. CASE Fails(c)
  BY <1>1, <1>2, <1>8 DEF Fails, Become, Types, opts, txVars
<1>9. CASE Contexts(c)
  BY <1>1, <1>2, <1>9 DEF Contexts, Types, opts, txVars
<1>10. CASE CommitTx(c)
  BY <1>1, <1>2, <1>10 DEF CommitTx, Become, Types, opts, txVars
<1>11. CASE Compress(c)
  BY <1>1, <1>2, <1>11 DEF Compress, Become, Types, opts, txVars
<1>12. CASE act[c].pc = "commit" /\ CommitEvent(c)
  <2>1. txs' = txs \/ \E t : txs' = [txs EXCEPT ![c] = t]
    BY <1>12 DEF CommitEvent
  <2>2. begins' = begins \/ \E b : begins' = [begins EXCEPT ![c] = b]
    <3>1. CASE Depth(c) = 1
      BY <1>12, <3>1 DEF CommitEvent
    <3>2. CASE Depth(c) # 1
      BY <1>12, <3>2 DEF CommitEvent
    <3> QED
      BY <3>1, <3>2
  <2>3. /\ compressed' = compressed /\ depth' = depth /\ dead' = dead /\ version' = version
        /\ \E a : act' = [act EXCEPT ![c] = a]
    BY <1>12 DEF CommitEvent, Become, opts
  <2> QED
    BY <1>1, <1>2, <2>1, <2>2, <2>3 DEF Types
<1> QED
  BY <1>3, <1>4, <1>5, <1>6, <1>7, <1>8, <1>9, <1>10, <1>11, <1>12, RollsEnd, CommitEndsEnds
  DEF Kind

(* Each step keeps the transactions of a client one after the other. *)
LEMMA LevelsNext ==
  ASSUME Base, NEW c \in Clients, Kind(c)
  PROVE  Levels(c)'
<1>1. /\ Types /\ Levels(c) /\ Doing(c)
      /\ begins[c] \in Seq(Nat) /\ txs[c] \in Seq(Events) /\ dead[c] \in Nat \cup {Alive}
      /\ depth[c] \in Nat /\ depth' = depth
  BY Frame DEF Base, Types
<1>2. Depth(c) \in Nat /\ DOMAIN begins[c] = 1..Depth(c) /\ Len(txs[c]) \in Nat
      /\ Depth(c)' = Len(begins'[c])
  BY <1>1 DEF Depth
<1>11. /\ \A i \in 1..Depth(c) : begins[c][i] \in Nat /\ begins[c][i] <= Len(txs[c])
       /\ \A i, j \in 1..Depth(c) : i <= j => begins[c][i] <= begins[c][j]
       /\ Depth(c) > 0 => begins[c][1] = 0
  BY <1>1, <1>2 DEF Levels
<1>3. ASSUME txs'[c] = txs[c], begins'[c] = begins[c],
             dead'[c] # Alive => dead'[c] <= Depth(c)
      PROVE  Levels(c)'
  BY <1>1, <1>3 DEF Levels, Depth
<1>4. CASE Begins(c)
  <2>1. /\ begins'[c] = Append(begins[c], Len(txs[c])) /\ txs' = txs /\ dead' = dead
        /\ Depth(c) < depth[c]
    BY <1>1, <1>4 DEF Begins, Save, BeginTx, Types
  <2>2. /\ Len(begins'[c]) = Depth(c) + 1 /\ DOMAIN begins'[c] = 1..(Depth(c) + 1)
        /\ begins'[c][Depth(c) + 1] = Len(txs[c])
        /\ \A i \in 1..Depth(c) : begins'[c][i] = begins[c][i]
    BY <1>1, <1>2, <2>1, AppendFacts DEF Depth
  <2>3. begins'[c][1] = 0
    <3>1. CASE Depth(c) = 0
      BY <1>1, <2>2, <3>1 DEF Levels
    <3>2. CASE Depth(c) > 0
      <4>1. 1 \in 1..Depth(c)
        BY <1>2, <3>2
      <4> QED
        BY <1>11, <2>2, <3>2, <4>1
    <3> QED
      BY <1>2, <3>1, <3>2
  <2>4. \A i \in DOMAIN begins'[c] : begins'[c][i] <= Len(txs[c])
    <3>1. \A i \in 1..(Depth(c) + 1) : i \in 1..Depth(c) \/ i = Depth(c) + 1
      BY <1>2
    <3> QED
      BY <1>2, <1>11, <2>2, <3>1
  <2>5. \A i, j \in DOMAIN begins'[c] : i <= j => begins'[c][i] <= begins'[c][j]
    <3> SUFFICES ASSUME NEW i \in 1..(Depth(c) + 1), NEW j \in 1..(Depth(c) + 1), i <= j
                 PROVE  begins'[c][i] <= begins'[c][j]
      BY <2>2
    <3>1. CASE j = Depth(c) + 1
      BY <2>2, <2>4, <3>1
    <3>2. CASE j # Depth(c) + 1
      <4>1. i \in 1..Depth(c) /\ j \in 1..Depth(c)
        BY <1>2, <3>2
      <4> QED
        BY <1>1, <1>2, <2>2, <4>1 DEF Levels
    <3> QED
      BY <3>1, <3>2
  <2>6. Depth(c)' = Depth(c) + 1
    BY <1>2, <2>2
  <2>7. dead'[c] # Alive => dead'[c] <= Depth(c) + 1
    BY <1>1, <1>2, <2>1 DEF Levels
  <2> QED
    BY <1>1, <1>2, <2>1, <2>3, <2>4, <2>5, <2>6, <2>7 DEF Levels
<1>5. CASE Ends(c)
  <2>1. /\ Len(txs'[c]) = Begin(c) /\ \A i \in 1..Begin(c) : txs'[c][i] = txs[c][i]
        /\ Len(begins'[c]) = Depth(c) - 1
        /\ \A i \in 1..(Depth(c) - 1) : begins'[c][i] = begins[c][i]
        /\ dead'[c] # Alive => dead'[c] <= Depth(c) - 1
        /\ txs'[c] \in Seq(Events) /\ begins'[c] \in Seq(Nat)
    BY <1>1, <1>5, Popped DEF Ends
  <2>2. Begin(c) = begins[c][Depth(c)] /\ (Depth(c) = 1 => Begin(c) = 0) /\ Depth(c) > 0
    BY <1>1, <1>5, Innermost DEF Ends
  <2>3. Depth(c)' = Depth(c) - 1 /\ DOMAIN begins'[c] = 1..(Depth(c) - 1)
    BY <1>2, <2>1
  <2>4. Depth(c)' = 0 => txs'[c] = << >>
    BY <2>1, <2>2, <2>3, <1>2
  <2>9. Depth(c) \in 1..Depth(c) /\ \A i \in 1..(Depth(c) - 1) : i \in 1..Depth(c)
    BY <1>2, <2>2
  <2>5. \A i \in 1..(Depth(c) - 1) : begins[c][i] <= Begin(c)
    BY <1>2, <1>11, <2>2, <2>9
  <2>6. \A i, j \in 1..(Depth(c) - 1) : i <= j => begins[c][i] <= begins[c][j]
    BY <1>11, <2>9
  <2>7. Depth(c)' > 0 => begins'[c][1] = 0
    BY <1>1, <1>2, <2>1, <2>3 DEF Levels
  <2>8. Depth(c)' <= depth'[c]
    BY <1>1, <1>2, <2>3 DEF Levels
  <2> QED
    BY <2>1, <2>3, <2>4, <2>5, <2>6, <2>7, <2>8 DEF Levels
<1>6. CASE Looks(c)
  BY <1>1, <1>3, <1>6 DEF Looks, Look, txVars, Levels
<1>7. CASE Finds(c) \/ Fails(c) \/ CommitTx(c) \/ Compress(c)
  BY <1>1, <1>3, <1>7 DEF Finds, Fails, CommitTx, Compress, txVars, Levels
<1>8. CASE Appends(c)
  <2>1. begins' = begins /\ dead' = dead /\ Len(txs[c]) <= Len(txs'[c])
        /\ (Depth(c) = 0 => txs' = txs)
    <3>1. CASE Depth(c) = 0
      BY <1>2, <1>8, <3>1 DEF Appends
    <3>2. CASE Depth(c) # 0
      <4>1. txs'[c] = Append(txs[c], EventOf(c))
        BY <1>1, <1>8, <3>2 DEF Appends, Types
      <4>2. Len(txs'[c]) = Len(txs[c]) + 1
        BY <1>1, <4>1
      <4> QED
        BY <1>2, <1>8, <3>2, <4>2 DEF Appends
    <3> QED
      BY <3>1, <3>2
  <2>2. Len(txs'[c]) \in Nat
    BY TypesNext DEF Types
  <2>3. \A i \in DOMAIN begins[c] : begins[c][i] <= Len(txs'[c])
    BY <1>1, <1>2, <2>1, <2>2 DEF Levels
  <2>4. Depth(c)' = Depth(c) /\ begins'[c] = begins[c] /\ dead'[c] = dead[c]
    BY <2>1 DEF Depth
  <2> QED
    BY <1>1, <2>1, <2>3, <2>4 DEF Levels
<1>9. CASE Contexts(c)
  <2>1. dead'[c] \in (0..Depth(c)) \cup {Alive}
    BY <1>1, <1>9 DEF Contexts, Types
  <2>2. dead'[c] # Alive => dead'[c] <= Depth(c)
    BY <1>2, <2>1
  <2> QED
    BY <1>3, <1>9, <2>2 DEF Contexts, txVars
<1>10. CASE act[c].pc = "commit" /\ CommitEvent(c)
  <2>1. Depth(c) > 0 /\ Depth(c) \in DOMAIN begins[c]
    BY <1>1, <1>2, <1>10 DEF Doing
  <2>2. /\ Begin(c) < Len(txs[c]) /\ Begin(c) = begins[c][Depth(c)] /\ Begin(c) \in Nat
        /\ dead' = dead /\ (Depth(c) = 1 => Begin(c) = 0)
    BY <1>1, <1>10, <2>1, Innermost DEF CommitEvent
  <2>3. CASE Depth(c) = 1
    <3>1. begins' = begins /\ txs'[c] = Tail(txs[c])
      BY <1>1, <1>10, <2>3 DEF CommitEvent, Types
    <3>2. DOMAIN begins[c] = {1} /\ begins[c][1] = 0
      BY <1>2, <2>2, <2>3
    <3>3. Depth(c)' = 1 /\ dead'[c] = dead[c]
      BY <2>2, <2>3, <3>1 DEF Depth
    <3>4. Len(txs'[c]) \in Nat
      BY TypesNext DEF Types
    <3> QED
      BY <1>1, <2>3, <3>1, <3>2, <3>3, <3>4 DEF Levels
  <2>4. CASE Depth(c) # 1
    <3>1. txs' = txs /\ begins'[c] = [begins[c] EXCEPT ![Depth(c)] = @ + 1]
      BY <1>1, <1>10, <2>4 DEF CommitEvent, Types
    <3>2. /\ DOMAIN begins'[c] = 1..Depth(c) /\ begins'[c][Depth(c)] = Begin(c) + 1
          /\ \A i \in 1..(Depth(c) - 1) : begins'[c][i] = begins[c][i]
      BY <1>1, <1>2, <2>1, <2>2, <3>1
    <3>3. Len(begins'[c]) = Depth(c)
      BY <1>1, <1>2, <3>1
    <3>4. \A i \in 1..Depth(c) : begins'[c][i] <= Len(txs[c])
      <4> SUFFICES ASSUME NEW i \in 1..Depth(c) PROVE begins'[c][i] <= Len(txs[c])
        OBVIOUS
      <4>1. CASE i = Depth(c)
        BY <1>2, <2>2, <3>2, <4>1
      <4>2. CASE i # Depth(c)
        BY <1>1, <1>2, <3>2, <4>2 DEF Levels
      <4> QED
        BY <4>1, <4>2
    <3>5. \A i, j \in 1..Depth(c) : i <= j => begins'[c][i] <= begins'[c][j]
      <4> SUFFICES ASSUME NEW i \in 1..Depth(c), NEW j \in 1..Depth(c), i <= j
                   PROVE  begins'[c][i] <= begins'[c][j]
        OBVIOUS
      <4>1. begins[c][i] <= begins[c][j] /\ begins[c][i] \in Nat /\ begins[c][j] \in Nat
        BY <1>1, <1>2 DEF Levels
      <4>2. CASE j = Depth(c)
        BY <1>2, <2>2, <3>2, <4>1, <4>2
      <4>3. CASE j # Depth(c)
        BY <1>2, <3>2, <4>1, <4>3
      <4> QED
        BY <4>2, <4>3
    <3>6. begins'[c][1] = 0
      BY <1>1, <1>2, <2>1, <2>4, <3>2 DEF Levels
    <3>7. Depth(c)' = Depth(c) /\ dead'[c] = dead[c]
      BY <1>2, <2>2, <3>3
    <3> QED
      BY <1>1, <1>2, <2>1, <3>1, <3>2, <3>4, <3>5, <3>6, <3>7 DEF Levels
  <2> QED
    BY <2>3, <2>4
<1> QED
  BY <1>4, <1>5, <1>6, <1>7, <1>8, <1>9, <1>10, RollsEnd, CommitEndsEnds DEF Kind

(* What comes into the log, or into the events of a client. *)
Comes(c, e) == \/ act[c].pc = "append" /\ e = EventOf(c)
               \/ \E j \in DOMAIN txs[c] : e = txs[c][j]

(* What becomes of the log: it grows by one event, or is compressed. *)
LEMMA LogNext ==
  ASSUME Base, NEW c \in Clients, Kind(c)
  PROVE  /\ \/ log' = log
            \/ \E e \in Events : /\ log' = Append(log, e)
                               /\ Comes(c, e) /\ e.by = c /\ Good(e, version, Horizon)
            \/ compressed /\ log' \in Compressed(log)
         /\ \A i \in DOMAIN txs'[c] :
               \/ \E j \in DOMAIN txs[c] : txs'[c][i] = txs[c][j]
               \/ act[c].pc = "append" /\ txs'[c][i] = EventOf(c)
<1>1. /\ Types /\ Levels(c) /\ Doing(c) /\ txs[c] \in Seq(Events) /\ act[c] \in Acts
      /\ \A i \in DOMAIN txs[c] : Good(txs[c][i], version, Horizon) /\ txs[c][i].by = c
  BY DEF Base, Types
<1>2. CASE log' = log /\ txs'[c] = txs[c]
  BY <1>2
<1>3. CASE Begins(c) \/ Looks(c) \/ Finds(c) \/ Fails(c) \/ Contexts(c) \/ CommitTx(c)
  <2>1. log' = log /\ txs' = txs
    BY <1>3 DEF Begins, Save, BeginTx, Looks, Look, Finds, Fails, Contexts, CommitTx, txVars
  <2> QED
    BY <1>2, <2>1
<1>4. CASE Ends(c)
  <2>1. Begin(c) \in 0..Len(txs[c]) /\ Len(txs'[c]) = Begin(c) /\ log' = log
        /\ \A i \in 1..Begin(c) : txs'[c][i] = txs[c][i]
        /\ txs'[c] \in Seq(Events)
    BY <1>1, <1>4, Innermost, Popped DEF Ends
  <2>2. \A i \in DOMAIN txs'[c] : i \in 1..Begin(c) /\ i \in DOMAIN txs[c]
    BY <1>1, <2>1
  <2> QED
    BY <2>1, <2>2
<1>5. CASE Appends(c)
  <2>1. EventOf(c) \in Events
    BY <1>1, <1>5 DEF Appends, EventOf, Events, Acts, Doing, Formed
  <2>2. Good(EventOf(c), version, Horizon) /\ EventOf(c).by = c /\ EventOf(c).base = act[c].base
    BY <1>1, <1>5 DEF Appends, EventOf, Doing, Good
  <2>3. CASE Depth(c) = 0
    BY <1>1, <1>5, <2>1, <2>2, <2>3 DEF Appends, Comes
  <2>4. CASE Depth(c) # 0
    <3>1. log' = log /\ txs'[c] = Append(txs[c], EventOf(c))
      BY <1>1, <1>5, <2>4 DEF Appends, Types
    <3>2. \A i \in DOMAIN txs'[c] :
             \/ txs'[c][i] = EventOf(c)
             \/ i \in DOMAIN txs[c] /\ txs'[c][i] = txs[c][i]
      BY <1>1, <2>1, <3>1, AppendFacts
    <3> QED
      BY <1>5, <3>1, <3>2 DEF Appends
  <2> QED
    BY <2>3, <2>4
<1>6. CASE Compress(c)
  <2>1. compressed /\ log' \in Compressed(log) /\ txs' = txs
    BY <1>1, <1>6 DEF Compress, Doing, txVars
  <2> QED
    BY <2>1
<1>7. CASE act[c].pc = "commit" /\ CommitEvent(c)
  <2>1. Depth(c) > 0 /\ Begin(c) \in 0..Len(txs[c]) /\ Begin(c) < Len(txs[c])
    BY <1>1, <1>7, Innermost DEF Doing, CommitEvent
  <2>2. Begin(c) + 1 \in DOMAIN txs[c] /\ Len(txs[c]) > 0
    BY <1>1, <2>1
  <2> DEFINE e == txs[c][Begin(c) + 1]
  <2>3. e \in Events /\ Good(e, version, Horizon) /\ e.by = c /\ Comes(c, e)
    BY <1>1, <2>2 DEF Comes
  <2>4. CASE Depth(c) = 1
    <3>1. log' = Append(log, e) /\ txs'[c] = Tail(txs[c])
      BY <1>1, <1>7, <2>4 DEF CommitEvent, Types
    <3>2. \A i \in DOMAIN txs'[c] : i + 1 \in DOMAIN txs[c] /\ txs'[c][i] = txs[c][i + 1]
      BY <1>1, <2>2, <3>1, TailFacts
    <3> QED
      BY <2>3, <3>1, <3>2
  <2>5. CASE Depth(c) # 1
    BY <1>2, <1>7, <2>5 DEF CommitEvent
  <2> QED
    BY <2>4, <2>5
<1> QED
  BY <1>3, <1>4, <1>5, <1>6, <1>7, RollsEnd, CommitEndsEnds DEF Kind

(* Events stay good. *)
LEMMA HorizonNext ==
  ASSUME Base, NEW c \in Clients, Kind(c)
  PROVE  /\ Horizon \in Nat /\ Horizon' \in Nat /\ Horizon <= Horizon'
         /\ \A e \in Events : Good(e, version, Horizon) => Good(e, version', Horizon')
<1>1. log \in Seq(Events) /\ log' \in Seq(Events) /\ compressed' = compressed
  BY TypesNext, Frame DEF Base, Types
<1>2. Len(log) \in Nat /\ Len(log') \in Nat
  BY <1>1
<1>3. Len(log) <= Len(log') \/ compressed
  BY <1>1, <1>2, LogNext, AppendFacts
<1>4. Horizon \in Nat /\ Horizon' \in Nat /\ Horizon <= Horizon'
  BY <1>1, <1>2, <1>3 DEF Horizon
<1>5. version \in Nat /\ version' \in Nat /\ version <= version'
  BY Frame
<1>6. ASSUME NEW e \in Events, Good(e, version, Horizon) PROVE Good(e, version', Horizon')
  <2>1. e.base <= Horizon' /\ e.val \in 1..version'
    <3>1. e.base \in Nat /\ e.base <= Horizon /\ e.val \in 1..version
      BY <1>6 DEF Good, Events
    <3> QED
      BY <1>4, <1>5, <3>1
  <2> QED
    BY <1>6, <2>1 DEF Good
<1> QED
  BY <1>4, <1>6

(* The events of a client stay good. *)
LEMMA EventsNext ==
  ASSUME Base, NEW c \in Clients, Kind(c)
  PROVE  /\ \A i \in DOMAIN log' : Good(log'[i], version', Horizon')
         /\ \A d \in Clients : \A i \in DOMAIN txs'[d] :
               Good(txs'[d][i], version', Horizon') /\ txs'[d][i].by = d
<1>1. /\ Types /\ Types' /\ Doing(c) /\ log \in Seq(Events)
      /\ \A e \in Events : Good(e, version, Horizon) => Good(e, version', Horizon')
      /\ \A i \in DOMAIN log : Good(log[i], version, Horizon)
  BY TypesNext, HorizonNext DEF Base, Types
<1>2. ASSUME NEW i \in DOMAIN log'
      PROVE  Good(log'[i], version', Horizon')
  <2>1. CASE log' = log
    BY <1>1, <1>2, <2>1
  <2>2. CASE \E e \in Events : log' = Append(log, e) /\ Good(e, version, Horizon)
    <3>1. PICK e \in Events : log' = Append(log, e) /\ Good(e, version, Horizon)
      BY <2>2
    <3>2. log'[i] = e \/ (i \in DOMAIN log /\ log'[i] = log[i])
      BY <1>1, <1>2, <3>1, AppendFacts
    <3> QED
      BY <1>1, <3>1, <3>2
  <2>3. CASE compressed /\ log' \in Compressed(log)
    <3>1. log'[i] \in Fresh
      BY <1>1, <1>2, <2>3, CompressedTypes
    <3>2. PICK j \in DOMAIN log : /\ log[j].name \in {"Create", "Update"}
                                  /\ log'[i] = [log[j] EXCEPT !.name = "Create"]
      BY <3>1 DEF Fresh, Kept
    <3>3. log[j] \in Events /\ Good(log[j], version, Horizon)
      BY <1>1, <2>3
    <3>4. Good(log'[i], version, Horizon) /\ log'[i] \in Events
      BY <3>2, <3>3 DEF Good, Formed, Names, Events
    <3> QED
      BY <1>1, <3>4
  <2> QED
    BY <2>1, <2>2, <2>3, LogNext
<1>3. ASSUME NEW d \in Clients, NEW i \in DOMAIN txs'[d]
      PROVE  Good(txs'[d][i], version', Horizon') /\ txs'[d][i].by = d
  <2>1. \A e \in Clients : \A j \in DOMAIN txs[e] :
           /\ Good(txs[e][j], version, Horizon) /\ txs[e][j].by = e
           /\ txs[e][j] \in Events
    BY DEF Base, Types
  <2>2. CASE \E j \in DOMAIN txs[d] : txs'[d][i] = txs[d][j]
    BY <1>1, <2>1, <2>2
  <2>3. CASE d = c /\ act[c].pc = "append" /\ txs'[d][i] = EventOf(c)
    <3>1. EventOf(c) \in Events
      BY <1>1, <2>3 DEF EventOf, Events, Types, Acts, Doing, Formed
    <3>2. Good(EventOf(c), version, Horizon) /\ EventOf(c).by = c /\ EventOf(c).base = act[c].base
      BY <1>1, <2>3 DEF EventOf, Doing, Good
    <3> QED
      BY <1>1, <2>3, <3>1, <3>2
  <2>4. CASE d # c
    <3>1. txs'[d] = txs[d]
      BY <2>4, Frame
    <3> QED
      BY <1>1, <1>3, <2>1, <3>1
  <2> QED
    BY <1>3, <2>2, <2>3, <2>4, LogNext
<1> QED
  BY <1>2, <1>3

(* What a client is doing stays possible. *)
LEMMA DoingNext ==
  ASSUME Base, NEW c \in Clients, Kind(c), NEW d \in Clients
  PROVE  Doing(d)'
<1>1. /\ Types /\ Doing(c) /\ Levels(c) /\ Doing(d) /\ act[c] \in Acts /\ act[d] \in Acts
      /\ version \in Nat /\ version' \in Nat /\ version <= version'
      /\ Horizon \in Nat /\ Horizon' \in Nat /\ Horizon <= Horizon'
      /\ compressed' = compressed /\ Depth(c) \in Nat
  BY Frame, HorizonNext DEF Base, Types, Depth
<1>2. CASE d # c
  <2>1. act'[d] = act[d] /\ begins'[d] = begins[d]
    BY <1>2, Frame
  <2>2. Depth(d)' = Depth(d)
    BY <2>1 DEF Depth
  <2>3. act[d].val \in 1..version => act[d].val \in 1..version'
    BY <1>1 DEF Acts
  <2>4. act[d].base <= Horizon => act[d].base <= Horizon'
    BY <1>1 DEF Acts
  <2> QED
    BY <1>1, <2>1, <2>2, <2>3, <2>4 DEF Doing
<1>13. SUFFICES Doing(c)'
  BY <1>2
<1>3. ASSUME act'[c] = act[c] \/ act'[c] = Idle, Depth(c)' = Depth(c) PROVE Doing(c)'
  <2>1. act[c].val \in 1..version => act[c].val \in 1..version'
    BY <1>1 DEF Acts
  <2>2. act[c].base <= Horizon => act[c].base <= Horizon'
    BY <1>1 DEF Acts
  <2> QED
    BY <1>1, <1>3, <2>1, <2>2 DEF Doing, Idle
<1>4. CASE Begins(c)
  <2>1. \/ act'[c] = Idle
        \/ \E k \in Keys : act'[c] = [Idle EXCEPT !.pc = "find", !.save = TRUE, !.key = k]
    BY <1>1, <1>4 DEF Begins, Save, BeginTx, Become, Types
  <2>3. begins'[c] = Append(begins[c], Len(txs[c]))
    BY <1>1, <1>4 DEF Begins, Save, BeginTx, Types
  <2>2. Depth(c)' > 0
    <3>1. begins[c] \in Seq(Nat) /\ Len(txs[c]) \in Nat
      BY <1>1 DEF Types
    <3>2. Len(begins'[c]) = Len(begins[c]) + 1 /\ Len(begins[c]) \in Nat
      BY <2>3, <3>1, AppendFacts
    <3> QED
      BY <3>2 DEF Depth
  <2>4. act'[c].pc \in {"idle", "find"} /\ act'[c].did = << >> /\ Depth(c)' > 0
        /\ (act'[c].pc = "find" => act'[c].key \in Keys)
    <3>1. CASE act'[c] = Idle
      BY <2>2, <3>1 DEF Idle
    <3>2. ASSUME NEW k \in Keys,
                 act'[c] = [Idle EXCEPT !.pc = "find", !.save = TRUE, !.key = k]
          PROVE  /\ act'[c].pc = "find" /\ act'[c].did = << >> /\ act'[c].key = k
      BY <3>2 DEF Idle
    <3> QED
      BY <2>1, <2>2, <3>1, <3>2
  <2> QED
    BY <2>4 DEF Doing
<1>5. CASE Ends(c)
  <2>1. act'[c] = Idle
    BY <1>1, <1>5 DEF Ends, Become, Types
  <2> QED
    BY <2>1 DEF Doing, Idle
<1>6. CASE Looks(c)
  <2>1. PICK name \in Names, k \in Keys \cup {All}, save \in BOOLEAN :
           Formed(name, k) /\ (save => Depth(c) > 0) /\ Look(c, name, k, save)
    BY <1>6 DEF Looks
  <2>2. /\ act'[c] = [Idle EXCEPT !.pc = "append", !.save = save, !.name = name, !.key = k,
                                  !.val = version + 1, !.base = Horizon]
        /\ begins' = begins /\ version' = version + 1
    BY <1>1, <2>1 DEF Look, Become, Types, txVars, Horizon
  <2>3. Depth(c)' = Depth(c)
    BY <2>2 DEF Depth
  <2> QED
    BY <1>1, <2>1, <2>2, <2>3 DEF Doing, Idle
<1>7. CASE Finds(c)
  <2>1. PICK name \in {"Create", "Update"} :
           act'[c] = [act[c] EXCEPT !.pc = "look", !.name = name] /\ begins' = begins
    BY <1>1, <1>7 DEF Finds, Become, Types, txVars
  <2>2. Depth(c)' = Depth(c)
    BY <2>1 DEF Depth
  <2>3. /\ act'[c].pc = "look" /\ act'[c].name = name /\ act'[c].key = act[c].key
        /\ act'[c].did = act[c].did /\ act'[c].save = act[c].save
    BY <1>1, <2>1 DEF Acts
  <2> QED
    BY <1>1, <1>7, <2>2, <2>3 DEF Doing, Finds
<1>8. CASE Appends(c)
  <2>1. PICK next \in {"compress", "commit", "idle"}, save \in BOOLEAN :
           /\ next = "compress" => compressed
           /\ next = "commit" \/ save => act[c].save
           /\ act'[c] = [Idle EXCEPT !.pc = next, !.save = save]
           /\ begins' = begins
    BY <1>1, <1>8 DEF Appends, Become, Types
  <2>2. Depth(c)' = Depth(c)
    BY <2>1 DEF Depth
  <2> QED
    BY <1>1, <2>1, <2>2 DEF Doing, Idle
<1>9. CASE Fails(c) \/ Contexts(c)
  <2>1. (act'[c] = act[c] \/ act'[c] = Idle) /\ begins' = begins
    BY <1>1, <1>9 DEF Fails, Contexts, Become, Types, txVars
  <2> QED
    BY <1>3, <2>1, <1>2 DEF Depth
<1>10. CASE CommitTx(c)
  <2>1. act'[c] = [Idle EXCEPT !.pc = "commit"] /\ begins' = begins /\ Depth(c) > 0
    BY <1>1, <1>10 DEF CommitTx, Become, Types, txVars
  <2>2. Depth(c)' = Depth(c)
    BY <2>1 DEF Depth
  <2> QED
    BY <2>1, <2>2 DEF Doing, Idle
<1>11. CASE Compress(c)
  <2>1. PICK pc \in {"commit", "idle"} :
           /\ act'[c] = [act[c] EXCEPT !.pc = pc]
           /\ pc = "commit" => act[c].save
           /\ act[c].pc = "compress" /\ begins' = begins
    BY <1>1, <1>11 DEF Compress, Become, Types, txVars
  <2>2. Depth(c)' = Depth(c)
    BY <2>1 DEF Depth
  <2>3. act'[c].pc = pc /\ act'[c].save = act[c].save /\ act'[c].did = act[c].did
    BY <1>1, <2>1 DEF Acts
  <2> QED
    BY <1>1, <2>1, <2>2, <2>3 DEF Doing
<1>12. CASE act[c].pc = "commit" /\ CommitEvent(c)
  <2>1. PICK v : act'[c] = [act[c] EXCEPT !.did = v]
    BY <1>1, <1>12 DEF CommitEvent, Become, Types
  <2>2. act'[c].pc = "commit"
    BY <1>1, <1>12, <2>1 DEF Acts
  <2>3. begins' = begins \/ begins' = [begins EXCEPT ![c][Depth(c)] = @ + 1]
    <3>1. CASE Depth(c) = 1
      BY <1>12, <3>1 DEF CommitEvent
    <3>2. CASE Depth(c) # 1
      BY <1>12, <3>2 DEF CommitEvent
    <3> QED
      BY <3>1, <3>2
  <2>4. Depth(c)' = Depth(c)
    BY <1>1, <2>3 DEF Depth, Types
  <2>5. Depth(c) > 0
    BY <1>1, <1>12 DEF Doing
  <2> QED
    BY <2>2, <2>4, <2>5 DEF Doing
<1> QED
  BY <1>2, <1>4, <1>5, <1>6, <1>7, <1>8, <1>9, <1>10, <1>11, <1>12,
     RollsEnd, CommitEndsEnds DEF Kind

(* In the beginning there are no events and no transactions. *)
LEMMA InitBase == Init => Base
<1> SUFFICES ASSUME Init PROVE Base
  OBVIOUS
<1>1. << >> \in Seq(Events) /\ << >> \in Seq(Nat) /\ Len(<< >>) = 0 /\ DOMAIN << >> = {}
  OBVIOUS
<1>2. Types
  BY <1>1, IdleActs, EventLogAssumption DEF Init, Types
<1>3. ASSUME NEW c \in Clients PROVE Levels(c) /\ Doing(c)
  <2>1. depth[c] \in Nat
    BY <1>2 DEF Types
  <2> QED
    BY <1>1, <2>1 DEF Init, Levels, Doing, Depth, Idle
<1> QED
  BY <1>1, <1>2, <1>3 DEF Init, Base

(* Each step keeps the types and the shape of the state. *)
LEMMA BaseNext == Base /\ [Next]_vars => Base'
<1> SUFFICES ASSUME Base, [Next]_vars PROVE Base'
  OBVIOUS
<1>1. CASE Next
  <2>1. PICK c \in Clients : Kind(c)
    BY <1>1, Kinds
  <2>2. ASSUME NEW d \in Clients PROVE Levels(d)'
    <3>1. CASE d = c
      BY <2>1, <3>1, LevelsNext
    <3>2. CASE d # c
      <4>1. /\ begins'[d] = begins[d] /\ txs'[d] = txs[d] /\ dead'[d] = dead[d]
            /\ depth' = depth
        BY <2>1, <3>2, Frame
      <4>2. Levels(d)
        BY DEF Base
      <4> QED
        BY <4>1, <4>2 DEF Levels, Depth
    <3> QED
      BY <3>1, <3>2
  <2> QED
    BY <2>1, <2>2, TypesNext, DoingNext, EventsNext DEF Base
<1>2. CASE UNCHANGED vars
  BY <1>2 DEF vars, opts, Base, Types, Levels, Doing, Depth, Horizon, Good, Formed
<1> QED
  BY <1>1, <1>2

(* That shape is more than TypeOK. *)
LEMMA BaseTypes == Base => TypeOK
<1> SUFFICES ASSUME Base PROVE TypeOK
  OBVIOUS
<1>1. ASSUME NEW c \in Clients
      PROVE  /\ Depth(c) <= depth[c]
             /\ dead[c] = Alive \/ dead[c] \in 0..Depth(c)
             /\ act[c].pc \in PCs
             /\ act[c].save \/ act[c].pc = "commit" => Depth(c) > 0
  <2>1. dead[c] \in Nat \cup {Alive} /\ act[c] \in Acts /\ Depth(c) \in Nat
    BY DEF Base, Types, Depth
  <2>2. Levels(c) /\ Doing(c)
    BY DEF Base
  <2> QED
    BY <2>1, <2>2 DEF Levels, Doing, Acts
<1> QED
  BY <1>1 DEF TypeOK, Base, Types, PCs
----------------------------------------------------------------------------
(* The log and the events of a client: in its own steps they stay, grow by *)
(* its event, or lose what a transaction did that has ended; somebody      *)
(* else's event comes in between.                                          *)
Stays(d) == EventsInContext(d)' = EventsInContext(d) /\ Len(log) <= Len(log')

(* ... with an event of its own at the end, ... *)
Grows(d) == /\ act[d].pc = "append" /\ act'[d].pc # "append"
            /\ EventsInContext(d)' = Append(EventsInContext(d), EventOf(d))
            /\ Len(log) <= Len(log')
            /\ ended' = ended

(* ... without those of a transaction that is over, ... *)
Cut(d) == /\ Ends(d) /\ log' = log
          /\ EventsInContext(d)' = SubSeq(EventsInContext(d), 1, Len(log) + Begin(d))

(* ... or with an event of somebody else in the log. *)
Lets(d, e) == /\ log' = Append(log, e) /\ txs'[d] = txs[d]
Shape(d, c) == \/ Stays(d)
               \/ d = c /\ (Grows(c) \/ Cut(c))
               \/ d # c /\ \E e \in Events : Lets(d, e) /\ Comes(c, e) /\ e.by = c
               \/ compressed /\ Compress(c) /\ txs' = txs

(* The events that a client sees: the log, then its own. *)
LEMMA Context ==
  ASSUME Types, NEW d \in Clients
  PROVE  LET s == EventsInContext(d)
         IN  /\ s \in Seq(Events) /\ Len(s) = Len(log) + Len(txs[d])
             /\ Len(log) \in Nat /\ Len(txs[d]) \in Nat
             /\ DOMAIN s = 1..(Len(log) + Len(txs[d]))
             /\ \A i \in 1..Len(log) : s[i] = log[i]
             /\ \A i \in 1..Len(txs[d]) : s[Len(log) + i] = txs[d][i]
             /\ \A i \in 1..(Len(log) + Len(txs[d])) :
                   s[i] = IF i <= Len(log) THEN log[i] ELSE txs[d][i - Len(log)]
<1>1. log \in Seq(Events) /\ txs[d] \in Seq(Events)
  BY DEF Types
<1>2. Len(log) \in Nat /\ Len(txs[d]) \in Nat
  BY <1>1
<1> DEFINE s == EventsInContext(d)
<1>3. /\ s \in Seq(Events) /\ Len(s) = Len(log) + Len(txs[d])
      /\ DOMAIN s = 1..(Len(log) + Len(txs[d]))
      /\ \A i \in 1..Len(log) : s[i] = log[i]
      /\ \A i \in 1..Len(txs[d]) : s[Len(log) + i] = txs[d][i]
  BY <1>1, CatFacts DEF EventsInContext
<1>4. ASSUME NEW i \in 1..(Len(log) + Len(txs[d])), i > Len(log)
      PROVE  s[i] = txs[d][i - Len(log)]
  <2>1. i - Len(log) \in 1..Len(txs[d]) /\ Len(log) + (i - Len(log)) = i
    BY <1>2, <1>4
  <2> QED
    BY <1>3, <2>1
<1> QED
  BY <1>2, <1>3, <1>4

(* The same for the next state. *)
LEMMA ContextNext ==
  ASSUME Types', NEW d \in Clients
  PROVE  LET s == EventsInContext(d)'
         IN  /\ s \in Seq(Events) /\ Len(s) = Len(log') + Len(txs'[d])
             /\ Len(log') \in Nat /\ Len(txs'[d]) \in Nat
             /\ DOMAIN s = 1..(Len(log') + Len(txs'[d]))
             /\ \A i \in 1..Len(log') : s[i] = log'[i]
             /\ \A i \in 1..Len(txs'[d]) : s[Len(log') + i] = txs'[d][i]
             /\ \A i \in 1..(Len(log') + Len(txs'[d])) :
                   s[i] = IF i <= Len(log') THEN log'[i] ELSE txs'[d][i - Len(log')]
<1>1. log' \in Seq(Events) /\ txs'[d] \in Seq(Events)
  BY DEF Types
<1>2. Len(log') \in Nat /\ Len(txs'[d]) \in Nat
  BY <1>1
<1> DEFINE s == EventsInContext(d)'
<1>3. /\ s \in Seq(Events) /\ Len(s) = Len(log') + Len(txs'[d])
      /\ DOMAIN s = 1..(Len(log') + Len(txs'[d]))
      /\ \A i \in 1..Len(log') : s[i] = log'[i]
      /\ \A i \in 1..Len(txs'[d]) : s[Len(log') + i] = txs'[d][i]
  BY <1>1, CatFacts DEF EventsInContext
<1>4. ASSUME NEW i \in 1..(Len(log') + Len(txs'[d])), i > Len(log')
      PROVE  s[i] = txs'[d][i - Len(log')]
  <2>1. i - Len(log') \in 1..Len(txs'[d]) /\ Len(log') + (i - Len(log')) = i
    BY <1>2, <1>4
  <2> QED
    BY <1>3, <2>1
<1> QED
  BY <1>2, <1>3, <1>4

(* A transaction that ends leaves the beginning of what was seen. *)
LEMMA EndsCut ==
  ASSUME Base, NEW c \in Clients, Ends(c)
  PROVE  Cut(c)
<1>1. Types /\ Levels(c)
  BY DEF Base
<1>2. log \in Seq(Events) /\ txs[c] \in Seq(Events)
  BY <1>1 DEF Types
<1>3. Begin(c) \in 0..Len(txs[c]) /\ log' = log
  BY <1>1, Innermost DEF Ends
<1>4. txs'[c] = SubSeq(txs[c], 1, Begin(c))
  BY <1>1 DEF Ends, Pop, Types
<1>5. log \o txs'[c] = SubSeq(log \o txs[c], 1, Len(log) + Begin(c))
  BY <1>2, <1>3, <1>4, CatCut
<1> QED
  BY <1>3, <1>5 DEF Cut, EventsInContext

(* What becomes of the events that a client sees. *)
LEMMA Shapes ==
  ASSUME Base, NEW c \in Clients, Kind(c), NEW d \in Clients
  PROVE  Shape(d, c)
<1>0. Types /\ Levels(c) /\ Doing(c) /\ Types'
  BY TypesNext DEF Base
<1>10. log \in Seq(Events) /\ txs[c] \in Seq(Events) /\ Len(log) \in Nat
  BY <1>0 DEF Types
<1>1. /\ Types /\ Types' /\ Levels(c) /\ Doing(c)
      /\ log \in Seq(Events) /\ txs[c] \in Seq(Events) /\ Len(log) \in Nat
  BY <1>0, <1>10
<1>2. CASE d # c
  <2>1. txs'[d] = txs[d]
    BY <1>2, Frame
  <2>2. CASE log' = log
    BY <1>1, <2>1, <2>2 DEF Shape, Stays, EventsInContext
  <2>3. CASE compressed /\ Compress(c)
    BY <2>3 DEF Compress, txVars, Shape
  <2>4. ASSUME NEW e \in Events, log' = Append(log, e), Comes(c, e), e.by = c
        PROVE  Shape(d, c)
    BY <1>2, <2>1, <2>4 DEF Shape, Lets
  <2>5. CASE Appends(c) \/ (act[c].pc = "commit" /\ CommitEvent(c))
    <3>2. CASE Appends(c)
      <4>1. EventOf(c) \in Events
        BY <1>1, <3>2 DEF Appends, EventOf, Events, Types, Acts, Doing, Formed
      <4>2. log' = log \/ log' = Append(log, EventOf(c))
        BY <3>2 DEF Appends
      <4>3. Comes(c, EventOf(c)) /\ EventOf(c).by = c
        BY <3>2 DEF Appends, Comes, EventOf
      <4> QED
        BY <2>2, <2>4, <4>1, <4>2, <4>3
    <3>3. CASE act[c].pc = "commit" /\ CommitEvent(c)
      <4>1. Begin(c) \in 0..Len(txs[c]) /\ Begin(c) < Len(txs[c])
        BY <1>1, <3>3, Innermost DEF Doing, CommitEvent
      <4>2. Begin(c) + 1 \in DOMAIN txs[c]
        BY <1>1, <4>1
      <4>3. /\ txs[c][Begin(c) + 1] \in Events /\ Comes(c, txs[c][Begin(c) + 1])
            /\ txs[c][Begin(c) + 1].by = c
        BY <1>1, <4>2 DEF Comes, Base
      <4>4. log' = log \/ log' = Append(log, txs[c][Begin(c) + 1])
        BY <3>3 DEF CommitEvent
      <4> QED
        BY <2>2, <2>4, <4>3, <4>4
    <3> QED
      BY <2>5, <3>2, <3>3
  <2>6. CASE ~(Appends(c) \/ (act[c].pc = "commit" /\ CommitEvent(c)))
    <3>1. log' = log \/ Compress(c)
      BY <2>6, RollsEnd, CommitEndsEnds
      DEF Kind, Begins, Save, BeginTx, Looks, Look, Finds, Fails, Contexts, CommitTx, Ends
    <3>2. Compress(c) => compressed
      BY <1>1 DEF Compress, Doing
    <3> QED
      BY <2>2, <2>3, <3>1, <3>2
  <2> QED
    BY <2>5, <2>6
<1>3. SUFFICES ASSUME d = c PROVE Shape(c, c)
  BY <1>2
<1>4. CASE Begins(c) \/ Looks(c) \/ Finds(c) \/ Fails(c) \/ Contexts(c) \/ CommitTx(c)
  <2>1. log' = log /\ txs' = txs
    BY <1>4 DEF Begins, Save, BeginTx, Looks, Look, Finds, Fails, Contexts, CommitTx, txVars
  <2> QED
    BY <1>1, <2>1 DEF Shape, Stays, EventsInContext
<1>5. CASE Compress(c)
  BY <1>1, <1>5 DEF Compress, Doing, Shape, txVars
<1>6. Len(txs[c]) \in Nat /\ EventsInContext(c) = log \o txs[c]
      /\ EventsInContext(c)' = log' \o txs'[c]
  BY <1>1 DEF EventsInContext
<1>7. CASE Ends(c)
  BY <1>7, EndsCut DEF Shape
<1>8. CASE Appends(c)
  <2>1. EventOf(c) \in Events
    BY <1>1, <1>8 DEF Appends, EventOf, Events, Types, Acts, Doing, Formed
  <2>2. act'[c].pc # "append" /\ act[c].pc = "append" /\ ended' = ended
    BY <1>1, <1>8 DEF Appends, Become, Types, Idle
  <2>3. CASE Depth(c) = 0
    <3>1. log' = Append(log, EventOf(c)) /\ txs'[c] = << >> /\ txs[c] = << >>
      BY <1>1, <1>8, <2>3 DEF Appends, Levels
    <3>2. Append(log, EventOf(c)) \in Seq(Events) /\ Len(log) <= Len(log')
      BY <1>1, <2>1, <3>1, AppendFacts
    <3>3. log \o << >> = log /\ Append(log, EventOf(c)) \o << >> = Append(log, EventOf(c))
      BY <1>1, <3>2, CatEmpty
    <3> QED
      BY <1>6, <2>2, <3>1, <3>2, <3>3 DEF Shape, Grows
  <2>4. CASE Depth(c) # 0
    <3>1. log' = log /\ txs'[c] = Append(txs[c], EventOf(c))
      BY <1>1, <1>8, <2>4 DEF Appends, Types
    <3>2. log \o Append(txs[c], EventOf(c)) = Append(log \o txs[c], EventOf(c))
      BY <1>1, <2>1, CatAppend
    <3> QED
      BY <1>1, <1>6, <2>2, <3>1, <3>2 DEF Shape, Grows
  <2> QED
    BY <2>3, <2>4
<1>9. CASE act[c].pc = "commit" /\ CommitEvent(c)
  <2>1. Depth(c) > 0 /\ Begin(c) \in 0..Len(txs[c]) /\ Begin(c) < Len(txs[c])
        /\ (Depth(c) = 1 => Begin(c) = 0)
    BY <1>1, <1>9, Innermost DEF Doing, CommitEvent
  <2>2. CASE Depth(c) # 1
    <3>1. log' = log /\ txs' = txs
      BY <1>9, <2>2 DEF CommitEvent
    <3> QED
      BY <1>1, <3>1 DEF Shape, Stays, EventsInContext
  <2>3. CASE Depth(c) = 1
    <3>1. Begin(c) + 1 = 1 /\ Len(txs[c]) > 0
      BY <1>6, <2>1, <2>3
    <3>2. log' = Append(log, txs[c][1]) /\ txs'[c] = Tail(txs[c])
      BY <1>1, <1>9, <2>3, <3>1 DEF CommitEvent, Types
    <3>3. txs[c][1] \in Events
      BY <1>1, <3>1
    <3>4. Len(log) <= Len(log')
      BY <1>1, <3>2, <3>3, AppendFacts
    <3>5. Append(log, txs[c][1]) \o Tail(txs[c]) = log \o txs[c]
      BY <1>1, <3>1, CatMove
    <3> QED
      BY <1>6, <3>2, <3>4, <3>5 DEF Shape, Stays
  <2> QED
    BY <2>2, <2>3
<1> QED
  BY <1>4, <1>5, <1>7, <1>8, <1>9, RollsEnd, CommitEndsEnds DEF Kind

(* What a client is about to append, what it has appended while it         *)
(* commits, and what is told of a transaction in the end.                  *)
LEMMA PendingNext ==
  ASSUME Base, NEW c \in Clients, Kind(c), act'[c].pc = "append"
  PROVE  /\ ended' = ended
         /\ \/ act'[c] = act[c]
            \/ /\ act'[c].val = version + 1 /\ version' = version + 1
               /\ Possible(act'[c].name, act'[c].key, View(EventsInContext(c)))
         /\ log' = log /\ txs' = txs
<1>1. Types /\ act \in [Clients -> Acts] /\ act[c] \in Acts
  BY DEF Base, Types
<1>2. ~Begins(c)
  <2>1. ASSUME BeginTx(c, Idle) PROVE FALSE
    BY <1>1, <2>1 DEF BeginTx, Become, Idle
  <2>2. ASSUME NEW k \in Keys, Save(c, k) PROVE FALSE
    BY <1>1, <2>2 DEF Save, BeginTx, Become, Idle
  <2> QED
    BY <2>1, <2>2 DEF Begins
<1>3. ~Ends(c) /\ ~Fails(c)
  BY <1>1 DEF Ends, Fails, Become, Idle
<1>4. ~Finds(c)
  BY <1>1 DEF Finds, Become, Acts
<1>5. ASSUME Appends(c) PROVE FALSE
  <2>1. PICK next \in {"compress", "commit", "idle"}, save \in BOOLEAN :
           act'[c] = [Idle EXCEPT !.pc = next, !.save = save]
    BY <1>1, <1>5 DEF Appends, Become
  <2> QED
    BY <2>1 DEF Idle
<1>6. ~CommitTx(c)
  BY <1>1 DEF CommitTx, Become, Idle
<1>7. ~Compress(c)
  BY <1>1 DEF Compress, Become, Acts
<1>8. ~(act[c].pc = "commit" /\ CommitEvent(c))
  <2>1. ASSUME act[c].pc = "commit", NEW v, act'[c] = [act[c] EXCEPT !.did = v] PROVE FALSE
    BY <1>1, <2>1 DEF Acts
  <2> QED
    BY <1>1, <2>1 DEF CommitEvent, Become
<1>9. CASE Looks(c)
  <2>1. PICK name \in Names, k \in Keys \cup {All}, save \in BOOLEAN : Look(c, name, k, save)
    BY <1>9 DEF Looks
  <2>2. act'[c] = [Idle EXCEPT !.pc = "append", !.save = save, !.name = name, !.key = k,
                               !.val = version + 1, !.base = Horizon]
    BY <1>1, <2>1 DEF Look, Become, Horizon
  <2>3. act'[c].name = name /\ act'[c].key = k /\ act'[c].val = version + 1
    BY <2>2 DEF Idle
  <2>4. Possible(name, k, View(EventsInContext(c))) /\ version' = version + 1
    BY <2>1 DEF Look, Doable
  <2> QED
    BY <2>1, <2>3, <2>4 DEF Look, txVars
<1>10. CASE Contexts(c)
  BY <1>10 DEF Contexts, txVars
<1> QED
  BY <1>2, <1>3, <1>4, <1>5, <1>6, <1>7, <1>8, <1>9, <1>10, RollsEnd, CommitEndsEnds DEF Kind

(* What becomes of a commit that goes on. *)
LEMMA CommitNext ==
  ASSUME Base, NEW c \in Clients, Kind(c), act'[c].pc = "commit"
  PROVE  \/ act'[c].did = << >>
         \/ act'[c] = act[c] /\ begins' = begins /\ txs' = txs /\ log' = log
         \/ act[c].pc = "compress"
         \/ /\ act[c].pc = "commit" /\ CommitEvent(c)
            /\ act'[c].did = Append(act[c].did, txs[c][Begin(c) + 1].val)
<1>1. Types /\ act \in [Clients -> Acts] /\ act[c] \in Acts /\ Doing(c)
  BY DEF Base, Types
<1>2. ~Begins(c)
  <2>1. ASSUME BeginTx(c, Idle) PROVE FALSE
    BY <1>1, <2>1 DEF BeginTx, Become, Idle
  <2>2. ASSUME NEW k \in Keys, Save(c, k) PROVE FALSE
    BY <1>1, <2>2 DEF Save, BeginTx, Become, Idle
  <2> QED
    BY <2>1, <2>2 DEF Begins
<1>3. ~Ends(c) /\ ~Fails(c)
  BY <1>1 DEF Ends, Fails, Become, Idle
<1>4. ~Finds(c)
  BY <1>1 DEF Finds, Become, Acts
<1>5. Appends(c) \/ CommitTx(c) => act'[c].did = << >>
  BY <1>1 DEF Appends, CommitTx, Become, Idle
<1>7. Compress(c) => act[c].pc = "compress"
  BY DEF Compress
<1>8. CASE act[c].pc = "commit" /\ CommitEvent(c)
  <2>1. act'[c] = [act[c] EXCEPT !.did = Append(@, txs[c][Begin(c) + 1].val)]
    BY <1>1, <1>8 DEF CommitEvent, Become
  <2>2. act'[c].did = Append(act[c].did, txs[c][Begin(c) + 1].val)
    BY <1>1, <2>1 DEF Acts
  <2> QED
    BY <1>8, <2>2
<1>9. ~Looks(c)
  BY <1>1 DEF Looks, Look, Become, Idle
<1>10. Contexts(c) => act'[c] = act[c] /\ begins' = begins /\ txs' = txs /\ log' = log
  BY DEF Contexts, txVars
<1> QED
  BY <1>2, <1>3, <1>4, <1>5, <1>7, <1>8, <1>9, <1>10, RollsEnd, CommitEndsEnds DEF Kind

(* What is told of the transaction that ends. *)
LEMMA EndedNext ==
  ASSUME Base, NEW c \in Clients, Kind(c), NEW t \in ended'
  PROVE  \/ t \in ended
         \/ /\ Ends(c) /\ t.by = c /\ t.did = Did(c)
            /\ t.how = "rollback" => act[c].pc # "commit"
            /\ t.how = "torn" => act[c].pc = "commit"
            /\ t.how = "commit" => /\ act[c].pc = "commit" /\ Depth(c) = 1
                                   /\ Begin(c) = Len(txs[c])
<1>1. Types /\ Doing(c) /\ Depth(c) \in Nat
  BY DEF Base, Types, Depth
<1>2. CASE ended' = ended
  BY <1>2
<1>3. CASE Rolls(c)
  <2>1. t \in ended \/ t = [how |-> "rollback", by |-> c, did |-> Did(c)]
    BY <1>3, RollsEnd DEF Ended
  <2> QED
    BY <1>3, <2>1, RollsEnd DEF Rolls
<1>4. CASE act[c].pc = "commit" /\ CommitEnds(c)
  <2>1. Depth(c) > 0
    BY <1>1, <1>4 DEF Doing
  <2>2. \/ t \in ended
        \/ /\ t = [how |-> "commit", by |-> c, did |-> Did(c)]
           /\ ~(Depth(c) > 1) /\ Begin(c) = Len(txs[c])
        \/ t = [how |-> "torn", by |-> c, did |-> Did(c)]
    BY <1>4 DEF CommitEnds, Ended
  <2>3. ~(Depth(c) > 1) => Depth(c) = 1
    BY <1>1, <2>1
  <2> QED
    BY <1>4, <2>2, <2>3, CommitEndsEnds
<1>5. CASE ~(Rolls(c) \/ (act[c].pc = "commit" /\ CommitEnds(c)))
  BY <1>2, <1>5 DEF Kind, Begins, Save, BeginTx, Looks, Look, Finds, Appends, Fails,
     Compress, CommitTx, Contexts, CommitEvent
<1> QED
  BY <1>3, <1>4, <1>5

(* What is told of it are versions of the client. *)
LEMMA DidNext ==
  ASSUME Base, NEW c \in Clients, Kind(c), NEW i \in DOMAIN act'[c].did
  PROVE  \/ \E j \in DOMAIN act[c].did : act'[c].did[i] = act[c].did[j]
         \/ \E j \in DOMAIN txs[c] : act'[c].did[i] = txs[c][j].val
<1>1. /\ Types /\ act[c] \in Acts /\ Doing(c)' /\ Levels(c) /\ Doing(c)
      /\ act[c].did \in Seq(Nat) /\ txs[c] \in Seq(Events)
  BY DoingNext DEF Base, Types, Acts
<1>2. act'[c].pc = "commit"
  BY <1>1 DEF Doing
<1>3. CASE act'[c] = act[c]
  BY <1>3
<1>4. CASE act[c].pc = "compress"
  <2>1. Compress(c) \/ act'[c] = act[c]
    BY <1>1, <1>2, <1>4, RollsEnd DEF Kind, Begins, Save, BeginTx, Rolls, Looks, Finds,
       Appends, Fails, CommitTx, Contexts
  <2>2. Compress(c) => act'[c].did = act[c].did
    BY <1>1 DEF Compress, Become, Types, Acts
  <2> QED
    BY <2>1, <2>2
<1>5. CASE /\ act[c].pc = "commit" /\ CommitEvent(c)
           /\ act'[c].did = Append(act[c].did, txs[c][Begin(c) + 1].val)
  <2>1. Begin(c) \in 0..Len(txs[c]) /\ Begin(c) < Len(txs[c])
    BY <1>1, <1>5, Innermost DEF Doing, CommitEvent
  <2>2. Begin(c) + 1 \in DOMAIN txs[c]
    BY <1>1, <2>1
  <2>6. txs[c][Begin(c) + 1] \in Events
    BY <1>1, <2>2
  <2>3. txs[c][Begin(c) + 1].val \in Nat
    BY <2>6 DEF Events
  <2>4. i \in DOMAIN act[c].did \/ act'[c].did[i] = txs[c][Begin(c) + 1].val
    BY <1>1, <1>5, <2>3, AppendFacts
  <2>5. i \in DOMAIN act[c].did => act'[c].did[i] = act[c].did[i]
    BY <1>1, <1>5, <2>3, AppendFacts
  <2> QED
    BY <2>2, <2>4, <2>5
<1> QED
  BY <1>2, <1>3, <1>4, <1>5, CommitNext

(* Whose a version is remains; the only new one is that of an operation. *)
LEMMA SaysNext ==
  ASSUME Base, NEW c \in Clients, Kind(c), NEW d \in Clients, NEW v \in Nat, Says(v, d)'
  PROVE  Says(v, d) \/ (d = c /\ v = version' /\ version' = version + 1)
<1>1. /\ Types /\ Types' /\ Doing(c) /\ Levels(c) /\ txs[c] \in Seq(Events)
      /\ act[c].did \in Seq(Nat) /\ log \in Seq(Events)
  BY TypesNext DEF Base, Types, Acts
<1>2. CASE \E i \in DOMAIN log' : log'[i].val = v /\ log'[i].by = d
  <2>1. PICK i \in DOMAIN log' : log'[i].val = v /\ log'[i].by = d
    BY <1>2
  <2>2. CASE log' = log
    BY <2>1, <2>2 DEF Says
  <2>3. ASSUME NEW e \in Events, log' = Append(log, e), Comes(c, e), e.by = c
        PROVE  Says(v, d)
    <3>1. log'[i] = e \/ (i \in DOMAIN log /\ log'[i] = log[i])
      BY <1>1, <2>1, <2>3, AppendFacts
    <3>2. Says(e.val, c)
      <4>1. CASE act[c].pc = "append" /\ e = EventOf(c)
        BY <4>1 DEF EventOf, Says
      <4>2. CASE \E j \in DOMAIN txs[c] : e = txs[c][j]
        BY <4>2 DEF Says
      <4> QED
        BY <2>3, <4>1, <4>2 DEF Comes
    <3>3. i \in DOMAIN log /\ log'[i] = log[i] => Says(v, d)
      BY <2>1 DEF Says
    <3> QED
      BY <2>1, <2>3, <3>1, <3>2, <3>3
  <2>4. CASE log' \in Compressed(log)
    <3>1. log'[i] \in Fresh
      BY <1>1, <2>1, <2>4, CompressedTypes
    <3>2. PICK j \in DOMAIN log : log'[i] = [log[j] EXCEPT !.name = "Create"]
      BY <3>1 DEF Fresh, Kept
    <3>3. log[j] \in Events
      BY <1>1
    <3>4. log'[i].val = log[j].val /\ log'[i].by = log[j].by
      BY <3>2, <3>3 DEF Events
    <3> QED
      BY <2>1, <3>4 DEF Says
  <2> QED
    BY <2>2, <2>3, <2>4, LogNext
<1>3. CASE d # c
  <2>1. act'[d] = act[d] /\ txs'[d] = txs[d]
    BY <1>3, Frame
  <2>2. \A t \in ended' : t.by = d => t \in ended
    BY <1>3, EndedNext
  <2> QED
    BY <1>2, <2>1, <2>2 DEF Says
<1>4. CASE d = c
  <2>1. CASE act'[c].pc = "append" /\ act'[c].val = v
    BY <1>4, <2>1, PendingNext DEF Says
  <2>2. CASE \E i \in DOMAIN txs'[c] : txs'[c][i].val = v
    <3>1. PICK i \in DOMAIN txs'[c] : txs'[c][i].val = v
      BY <2>2
    <3>2. \/ \E j \in DOMAIN txs[c] : txs'[c][i] = txs[c][j]
          \/ act[c].pc = "append" /\ txs'[c][i] = EventOf(c)
      BY <3>1, LogNext
    <3> QED
      BY <1>4, <3>1, <3>2 DEF Says, EventOf
  <2>3. CASE \E i \in DOMAIN act'[c].did : act'[c].did[i] = v
    BY <1>4, <2>3, DidNext DEF Says
  <2>4. ASSUME NEW t \in ended', t.by = c, NEW i \in DOMAIN t.did, t.did[i] = v
        PROVE  Says(v, c)
    <3>1. CASE t \in ended
      BY <2>4, <3>1 DEF Says
    <3>2. CASE Ends(c) /\ t.did = Did(c)
      <4>1. i \in DOMAIN Did(c) /\ Begin(c) \in 0..Len(txs[c])
        BY <1>1, <2>4, <3>2, Innermost DEF Ends
      <4>2. CASE i \in DOMAIN act[c].did /\ Did(c)[i] = act[c].did[i]
        BY <2>4, <3>2, <4>2 DEF Says
      <4>3. ASSUME NEW j \in (Begin(c) + 1)..Len(txs[c]), Did(c)[i] = txs[c][j].val
            PROVE  Says(v, c)
        <5>1. j \in DOMAIN txs[c]
          BY <1>1, <4>1, <4>3
        <5> QED
          BY <2>4, <3>2, <4>3, <5>1 DEF Says
      <4> QED
        BY <1>1, <3>2, <4>1, <4>2, <4>3, DidAt DEF Ends
    <3> QED
      BY <3>1, <3>2, EndedNext
  <2> QED
    BY <1>2, <1>4, <2>1, <2>2, <2>3, <2>4 DEF Says
<1> QED
  BY <1>3, <1>4

(* A version stays that of one client. *)
LEMMA OwnedNext ==
  ASSUME Base, Owned, NEW c \in Clients, Kind(c)
  PROVE  Owned'
<1>1. version \in Nat /\ version' \in Nat /\ version <= version'
  BY Frame
<1> SUFFICES ASSUME NEW v \in Nat, NEW d \in Clients, NEW e \in Clients, Says(v, d)'
             PROVE  v \in 1..version' /\ (Says(v, e)' => d = e)
  BY DEF Owned
<1>2. Says(v, d) \/ (d = c /\ v = version' /\ version' = version + 1)
  BY SaysNext
<1>3. Says(v, e)' => Says(v, e) \/ (e = c /\ v = version' /\ version' = version + 1)
  BY SaysNext
<1>4. /\ Says(v, d) => v \in 1..version /\ (Says(v, e) => d = e)
      /\ Says(v, e) => v \in 1..version
  BY DEF Owned
<1> QED
  BY <1>1, <1>2, <1>3, <1>4
----------------------------------------------------------------------------
(* Whoever has an event in its context is told to have made it. *)
LEMMA InContext ==
  ASSUME Base, NEW d \in Clients, NEW a \in DOMAIN EventsInContext(d)
  PROVE  LET e == EventsInContext(d)[a]
         IN  /\ e \in Events /\ Good(e, version, Horizon) /\ Says(e.val, e.by)
             /\ e.val \in Nat /\ e.base \in Nat /\ e.by \in Clients
             /\ a > Len(log) => e.by = d
<1>1. Types /\ log \in Seq(Events) /\ txs[d] \in Seq(Events)
  BY DEF Base, Types
<1>2. /\ DOMAIN EventsInContext(d) = 1..(Len(log) + Len(txs[d]))
      /\ Len(log) \in Nat /\ Len(txs[d]) \in Nat
      /\ EventsInContext(d)[a] = IF a <= Len(log) THEN log[a] ELSE txs[d][a - Len(log)]
  BY <1>1, Context
<1>3. CASE a <= Len(log)
  <2>1. a \in DOMAIN log /\ EventsInContext(d)[a] = log[a]
    BY <1>1, <1>2, <1>3
  <2>2. log[a] \in Events /\ Good(log[a], version, Horizon)
    BY <1>1, <2>1 DEF Base
  <2>3. Says(log[a].val, log[a].by)
    BY <2>1 DEF Says
  <2> QED
    BY <1>2, <1>3, <2>1, <2>2, <2>3 DEF Events
<1>4. CASE a > Len(log)
  <2>1. a - Len(log) \in DOMAIN txs[d] /\ EventsInContext(d)[a] = txs[d][a - Len(log)]
    BY <1>1, <1>2, <1>4
  <2>2. PICK i \in DOMAIN txs[d] : EventsInContext(d)[a] = txs[d][i]
    BY <2>1
  <2>3. txs[d][i] \in Events /\ Good(txs[d][i], version, Horizon) /\ txs[d][i].by = d
    BY <1>1, <2>2 DEF Base
  <2>4. Says(txs[d][i].val, d)
    BY <2>2 DEF Says
  <2> QED
    BY <2>2, <2>3, <2>4 DEF Events
<1> QED
  BY <1>2, <1>3, <1>4

(* An event after compression is one from before it. *)
LEMMA CompressOrigin ==
  ASSUME Base, log' \in Compressed(log),
         \A i, j \in DOMAIN log : i # j => log[i].val # log[j].val
  PROVE  /\ \A i \in DOMAIN log' : \E j \in DOMAIN log :
               /\ log'[i].val = log[j].val /\ log'[i].by = log[j].by
               /\ log'[i].key = log[j].key /\ log'[i].name = "Create"
               /\ log[j].name \in {"Create", "Update"}
               /\ View(log)[log[j].key] = log[j].val
         /\ \A i, j \in DOMAIN log' : i # j => log'[i].val # log'[j].val
<1>1. Types /\ log \in Seq(Events)
  BY DEF Base, Types
<1>2. ASSUME NEW i \in DOMAIN log'
      PROVE  \E j \in DOMAIN log : /\ log'[i] = [log[j] EXCEPT !.name = "Create"]
                                   /\ log[j].name \in {"Create", "Update"}
                                   /\ View(log)[log[j].key] = log[j].val
  <2>1. log'[i] \in Fresh
    BY <1>1, <1>2, CompressedTypes
  <2>2. PICK e \in Kept : log'[i] = [e EXCEPT !.name = "Create"]
    BY <2>1 DEF Fresh
  <2>3. PICK j \in DOMAIN log : /\ e = log[j] /\ log[j].name \in {"Create", "Update"}
                               /\ View(log)[log[j].key] = log[j].val
    BY <2>2 DEF Kept
  <2> QED
    BY <2>2, <2>3
<1>3. ASSUME NEW j \in DOMAIN log
      PROVE  LET e == [log[j] EXCEPT !.name = "Create"]
             IN  /\ e.val = log[j].val /\ e.by = log[j].by
                 /\ e.key = log[j].key /\ e.name = "Create"
  <2>1. log[j] \in Events
    BY <1>1, <1>3
  <2> QED
    BY <2>1 DEF Events
<1>4. ASSUME NEW i \in DOMAIN log', NEW k \in DOMAIN log', log'[i].val = log'[k].val
      PROVE  i = k
  <2>1. PICK j \in DOMAIN log : log'[i] = [log[j] EXCEPT !.name = "Create"]
    BY <1>2
  <2>2. PICK l \in DOMAIN log : log'[k] = [log[l] EXCEPT !.name = "Create"]
    BY <1>2
  <2>3. log[j].val = log[l].val
    BY <1>3, <1>4, <2>1, <2>2
  <2>4. log'[i] = log'[k]
    BY <2>1, <2>2, <2>3
  <2> QED
    BY <1>1, <2>4, CompressedTypes
<1>5. ASSUME NEW i \in DOMAIN log'
      PROVE  \E j \in DOMAIN log :
               /\ log'[i].val = log[j].val /\ log'[i].by = log[j].by
               /\ log'[i].key = log[j].key /\ log'[i].name = "Create"
               /\ log[j].name \in {"Create", "Update"}
               /\ View(log)[log[j].key] = log[j].val
  <2>1. PICK j \in DOMAIN log : /\ log'[i] = [log[j] EXCEPT !.name = "Create"]
                               /\ log[j].name \in {"Create", "Update"}
                               /\ View(log)[log[j].key] = log[j].val
    BY <1>2
  <2>2. /\ log'[i].val = log[j].val /\ log'[i].by = log[j].by
        /\ log'[i].key = log[j].key /\ log'[i].name = "Create"
    BY <1>3, <2>1
  <2> QED
    BY <2>1, <2>2
<1> QED
  BY <1>4, <1>5

(* An operation under way is later than all that its client has done. *)
LEMMA PendingLater ==
  ASSUME Base, Owned, NEW c \in Clients, Kind(c), NEW d \in Clients, Order(d),
         act'[d].pc = "append"
  PROVE  /\ \A a \in DOMAIN EventsInContext(d) : EventsInContext(d)[a].by = d =>
               EventsInContext(d)[a].val < act'[d].val
         /\ \A t \in ended' : t.by = d => \A i \in DOMAIN t.did : t.did[i] < act'[d].val
<1> DEFINE s == EventsInContext(d)
<1>1. /\ Types /\ version \in Nat
      /\ \A t \in ended : t.by = d => \A i \in DOMAIN t.did : t.did[i] \in Nat /\ Says(t.did[i], d)
  BY Frame DEF Base, Types, Says
<1>2. CASE act'[d] = act[d] /\ \A t \in ended' : t.by = d => t \in ended
  BY <1>2 DEF Order
<1>3. CASE act'[d].val = version + 1 /\ ended' = ended
  <2>1. \A a \in DOMAIN s : s[a].val \in 1..version
    BY InContext DEF Good
  <2>2. ASSUME NEW t \in ended, t.by = d, NEW i \in DOMAIN t.did
        PROVE  t.did[i] \in 1..version
    BY <1>1, <2>2 DEF Owned
  <2> QED
    BY <1>1, <1>3, <2>1, <2>2
<1>4. CASE d = c
  BY <1>2, <1>3, <1>4, PendingNext
<1>5. CASE d # c
  BY <1>2, <1>5, Frame, EndedNext
<1> QED
  BY <1>4, <1>5

(* Events that stay where they are stay in order. *)
LEMMA OrderStays ==
  ASSUME Base, Owned, NEW c \in Clients, Kind(c), NEW d \in Clients, Order(d), Stays(d)
  PROVE  Order(d)'
<1> DEFINE s == EventsInContext(d)
           r == EventsInContext(d)'
<1>1. Types /\ Types' /\ compressed' = compressed
  BY TypesNext, Frame DEF Base
<1>2. r = s /\ Len(log) <= Len(log') /\ Len(log) \in Nat /\ Len(log') \in Nat
      /\ DOMAIN s = 1..Len(s)
  BY <1>1, Context, ContextNext DEF Stays
<1>3. \A a, b \in DOMAIN r : a # b => r[a].val # r[b].val
  BY <1>2 DEF Order
<1>4. \A a, b \in DOMAIN r :
         a < b /\ r[a].by = d /\ r[b].by = d /\ (~compressed \/ b > Len(log'))
         => r[a].val < r[b].val
  <2>1. \A b \in DOMAIN r : b > Len(log') => b > Len(log)
    BY <1>2
  <2> QED
    BY <1>2, <2>1 DEF Order
<1>5. act'[d].pc = "append" =>
        /\ \A a \in DOMAIN r : r[a].by = d => r[a].val < act'[d].val
        /\ \A t \in ended' : t.by = d => \A i \in DOMAIN t.did : t.did[i] < act'[d].val
  BY <1>2, PendingLater
<1> QED
  BY <1>1, <1>3, <1>4, <1>5 DEF Order

(* So they do with the event of an operation after them. *)
LEMMA OrderGrows ==
  ASSUME Base, Owned, NEW c \in Clients, Kind(c), Order(c), Grows(c)
  PROVE  Order(c)'
<1> DEFINE s == EventsInContext(c)
           r == EventsInContext(c)'
           e == EventOf(c)
<1>1. Types /\ Types' /\ compressed' = compressed /\ Doing(c)
  BY TypesNext, Frame DEF Base
<1>2. e \in Events /\ e.by = c /\ e.val = act[c].val /\ e.val \in Nat /\ Says(e.val, c)
  BY <1>1 DEF Grows, EventOf, Events, Types, Acts, Doing, Formed, Says
<1>3. /\ s \in Seq(Events) /\ r = Append(s, e)
      /\ Len(log) <= Len(log') /\ Len(log) \in Nat /\ Len(log') \in Nat
  BY <1>1, Context, ContextNext DEF Grows
<1>4. /\ Len(s) \in Nat /\ DOMAIN s = 1..Len(s) /\ DOMAIN r = 1..(Len(s) + 1)
      /\ r[Len(s) + 1] = e /\ \A a \in 1..Len(s) : r[a] = s[a]
  BY <1>2, <1>3, AppendFacts
<1>5. \A a \in 1..Len(s) : /\ s[a].by = c => s[a].val < e.val
                           /\ s[a].val # e.val /\ s[a].val \in Nat
  <2> SUFFICES ASSUME NEW a \in 1..Len(s)
               PROVE  /\ s[a].by = c => s[a].val < e.val
                      /\ s[a].val # e.val /\ s[a].val \in Nat
    OBVIOUS
  <2>1. s[a].by = c => s[a].val < e.val
    BY <1>2, <1>4 DEF Order, Grows
  <2>2. Says(s[a].val, s[a].by) /\ s[a].val \in Nat /\ s[a].by \in Clients
    BY <1>4, InContext
  <2>3. s[a].val = e.val => s[a].by = c
    BY <1>2, <2>2 DEF Owned
  <2> QED
    BY <1>2, <2>1, <2>2, <2>3
<1> HIDE DEF s, r, e
<1>6. \A a \in DOMAIN r : a \in 1..Len(s) \/ (a = Len(s) + 1 /\ r[a] = e)
  BY <1>4
<1>7. ASSUME NEW a \in DOMAIN r, NEW b \in DOMAIN r, a # b PROVE r[a].val # r[b].val
  <2>1. CASE a \in 1..Len(s) /\ b \in 1..Len(s)
    BY <1>4, <1>7, <2>1 DEF Order, s
  <2>2. CASE ~(a \in 1..Len(s) /\ b \in 1..Len(s))
    BY <1>4, <1>5, <1>6, <1>7, <2>2
  <2> QED
    BY <2>1, <2>2
<1>8. ASSUME NEW a \in DOMAIN r, NEW b \in DOMAIN r, a < b, r[a].by = c, r[b].by = c,
             ~compressed \/ b > Len(log')
      PROVE  r[a].val < r[b].val
  <2>1. a \in 1..Len(s)
    BY <1>4, <1>8
  <2>2. CASE b \in 1..Len(s)
    <3>1. ~compressed \/ b > Len(log)
      BY <1>3, <1>8, <2>2
    <3> QED
      BY <1>4, <1>8, <2>1, <2>2, <3>1 DEF Order, s
  <2>3. CASE b = Len(s) + 1
    BY <1>4, <1>5, <1>8, <2>1, <2>3
  <2> QED
    BY <1>6, <2>2, <2>3
<1> QED
  BY <1>1, <1>7, <1>8 DEF Order, Grows, r

(* So they do when the last of them go. *)
LEMMA OrderCut ==
  ASSUME Base, NEW c \in Clients, Kind(c), Order(c), Cut(c)
  PROVE  Order(c)'
<1> DEFINE s == EventsInContext(c)
           r == EventsInContext(c)'
           n == Len(log) + Begin(c)
<1>1. Types /\ compressed' = compressed /\ Levels(c) /\ Depth(c) > 0
  BY Frame DEF Base, Cut, Ends
<1>2. /\ Begin(c) \in 0..Len(txs[c]) /\ s \in Seq(Events) /\ Len(s) = Len(log) + Len(txs[c])
      /\ Len(log) \in Nat /\ Len(txs[c]) \in Nat /\ log' = log /\ r = SubSeq(s, 1, n)
  BY <1>1, Innermost, Context DEF Cut
<1>3. n \in 0..Len(s)
  BY <1>2
<1>4. /\ DOMAIN r = 1..n /\ DOMAIN s = 1..Len(s) /\ \A a \in 1..n : a \in DOMAIN s
      /\ \A a \in 1..n : r[a] = s[a]
  BY <1>2, <1>3, SubSeqFacts
<1>5. act'[c].pc # "append"
  BY <1>1 DEF Cut, Ends, Become, Idle, Types
<1> HIDE DEF s, r, n
<1>6. \A a, b \in DOMAIN r : a # b => r[a].val # r[b].val
  BY <1>4 DEF Order, s
<1>7. \A a, b \in DOMAIN r :
         a < b /\ r[a].by = c /\ r[b].by = c /\ (~compressed \/ b > Len(log))
         => r[a].val < r[b].val
  BY <1>4 DEF Order, s
<1> QED
  BY <1>1, <1>2, <1>5, <1>6, <1>7 DEF Order, r

(* The steps of others: an event comes in before those of the client. *)
LEMMA LetsFacts ==
  ASSUME Types, Types', NEW d \in Clients, NEW e \in Events, Lets(d, e)
  PROVE  LET s == EventsInContext(d)
             r == EventsInContext(d)'
             n == Len(log)
         IN  /\ s \in Seq(Events) /\ r \in Seq(Events) /\ n \in Nat /\ Len(s) \in Nat
             /\ n <= Len(s) /\ Len(r) = Len(s) + 1 /\ Len(log') = n + 1
             /\ DOMAIN s = 1..Len(s) /\ DOMAIN r = 1..(Len(s) + 1)
             /\ r[n + 1] = e
             /\ \A a \in 1..n : r[a] = s[a] /\ a \in DOMAIN s
             /\ \A a \in (n + 2)..(Len(s) + 1) : r[a] = s[a - 1] /\ a - 1 \in DOMAIN s
<1> DEFINE s == EventsInContext(d)
           r == EventsInContext(d)'
           n == Len(log)
           m == Len(txs[d])
<1>1. /\ s \in Seq(Events) /\ Len(s) = n + m /\ n \in Nat /\ m \in Nat
      /\ DOMAIN s = 1..(n + m)
      /\ \A i \in 1..n : s[i] = log[i]
      /\ \A i \in 1..m : s[n + i] = txs[d][i]
  BY Context
<1>2. /\ Len(log') = n + 1 /\ log'[n + 1] = e /\ \A i \in 1..n : log'[i] = log[i]
      /\ txs'[d] = txs[d]
  BY AppendFacts DEF Lets, Types
<1>3. /\ r \in Seq(Events) /\ Len(r) = n + 1 + m
      /\ DOMAIN r = 1..(n + 1 + m)
      /\ \A i \in 1..(n + 1) : r[i] = log'[i]
      /\ \A i \in 1..m : r[n + 1 + i] = txs[d][i]
  BY <1>2, ContextNext
<1> HIDE DEF s, r, n, m
<1>4. ASSUME NEW a \in (n + 2)..(n + m + 1) PROVE r[a] = s[a - 1] /\ a - 1 \in 1..(n + m)
  <2>1. PICK i \in 1..m : a = n + 1 + i
    <3>1. a - n - 1 \in 1..m /\ a = n + 1 + (a - n - 1)
      BY <1>1
    <3> QED
      BY <3>1
  <2>2. a - 1 = n + i /\ n + i \in 1..(n + m)
    BY <1>1, <2>1
  <2> QED
    BY <1>1, <1>3, <2>1, <2>2
<1>5. n + 1 \in 1..(n + 1) /\ \A a \in 1..n : a \in 1..(n + 1) /\ a \in 1..(n + m)
  BY <1>1
<1>6. r[n + 1] = e /\ \A a \in 1..n : r[a] = s[a]
  BY <1>1, <1>2, <1>3, <1>5
<1>7. /\ n <= Len(s) /\ Len(r) = Len(s) + 1 /\ Len(s) \in Nat
      /\ DOMAIN s = 1..Len(s) /\ DOMAIN r = 1..(Len(s) + 1)
  <2>1. n + 1 + m = n + m + 1 /\ n + m \in Nat
    BY <1>1
  <2> QED
    BY <1>1, <1>3, <2>1
<1>8. /\ \A a \in 1..n : r[a] = s[a] /\ a \in DOMAIN s
      /\ \A a \in (n + 2)..(Len(s) + 1) : r[a] = s[a - 1] /\ a - 1 \in DOMAIN s
  BY <1>1, <1>4, <1>5, <1>6
<1> QED
  BY <1>1, <1>2, <1>3, <1>6, <1>7, <1>8 DEF s, r, n

(* The event of another client is none of those that are there. *)
LEMMA LetsNew ==
  ASSUME Base, Owned, NEW c \in Clients, Order(c), NEW d \in Clients, d # c,
         NEW e \in Events, Lets(d, e), Comes(c, e), e.by = c
  PROVE  \A a \in DOMAIN EventsInContext(d) : EventsInContext(d)[a].val # e.val
<1> SUFFICES ASSUME NEW a \in DOMAIN EventsInContext(d), EventsInContext(d)[a].val = e.val
             PROVE  FALSE
  OBVIOUS
<1> DEFINE f == EventsInContext(d)[a]
<1>0. Types
  BY DEF Base
<1>1. Types /\ e.val \in Nat /\ Len(log) \in Nat
  <2>1. e.val \in Nat /\ log \in Seq(Events)
    BY <1>0 DEF Types, Events
  <2> QED
    BY <1>0, <2>1
<1>2. Says(f.val, f.by) /\ f.by \in Clients /\ (a > Len(log) => f.by = d) /\ f.val = e.val
      /\ f.val \in Nat
  BY InContext
<1>3. Says(e.val, c)
  BY DEF Comes, Says, EventOf
<1>4. f.by = c
  BY <1>2, <1>3 DEF Owned
<1>5. a \in 1..Len(log) /\ f = log[a]
  BY <1>1, <1>2, <1>4, Context
<1>6. /\ a \in DOMAIN EventsInContext(c) /\ EventsInContext(c)[a] = f
      /\ DOMAIN EventsInContext(c) = 1..(Len(log) + Len(txs[c])) /\ Len(txs[c]) \in Nat
      /\ \A i \in 1..Len(txs[c]) : EventsInContext(c)[Len(log) + i] = txs[c][i]
      /\ DOMAIN txs[c] = 1..Len(txs[c])
  <2>1. txs[c] \in Seq(Events)
    BY <1>1 DEF Types
  <2>2. Len(txs[c]) \in Nat /\ DOMAIN txs[c] = 1..Len(txs[c])
    BY <2>1
  <2> QED
    BY <1>1, <1>5, <2>2, Context
<1> HIDE DEF f
<1>7. CASE act[c].pc = "append" /\ e = EventOf(c)
  BY <1>1, <1>2, <1>4, <1>6, <1>7 DEF Order, EventOf
<1>8. CASE \E j \in DOMAIN txs[c] : e = txs[c][j]
  <2>1. PICK j \in 1..Len(txs[c]) : e = txs[c][j]
    BY <1>6, <1>8
  <2>2. EventsInContext(c)[Len(log) + j] = e /\ Len(log) + j \in DOMAIN EventsInContext(c)
        /\ Len(log) + j # a
    BY <1>1, <1>5, <1>6, <2>1
  <2> QED
    BY <1>2, <1>6, <2>2 DEF Order
<1> QED
  BY <1>7, <1>8 DEF Comes

(* An event of somebody else changes nothing in the order of a client. *)
LEMMA OrderLets ==
  ASSUME Base, Owned, NEW c \in Clients, Kind(c), Order(c), NEW d \in Clients, d # c,
         Order(d), NEW e \in Events, Lets(d, e), Comes(c, e), e.by = c
  PROVE  Order(d)'
<1> DEFINE s == EventsInContext(d)
           r == EventsInContext(d)'
           n == Len(log)
<1>1. Types /\ Types' /\ compressed' = compressed
  BY TypesNext, Frame DEF Base
<1>2. /\ n \in Nat /\ Len(s) \in Nat /\ n <= Len(s) /\ Len(log') = n + 1
      /\ DOMAIN s = 1..Len(s) /\ DOMAIN r = 1..(Len(s) + 1)
      /\ r[n + 1] = e
      /\ \A a \in 1..n : r[a] = s[a] /\ a \in DOMAIN s
      /\ \A a \in (n + 2)..(Len(s) + 1) : r[a] = s[a - 1] /\ a - 1 \in DOMAIN s
  BY <1>1, LetsFacts
<1>3. \A a \in DOMAIN s : s[a].val # e.val
  BY LetsNew
<1>4. /\ \A a, b \in DOMAIN s : a # b => s[a].val # s[b].val
      /\ \A a, b \in DOMAIN s :
            a < b /\ s[a].by = d /\ s[b].by = d /\ (~compressed \/ b > n)
            => s[a].val < s[b].val
  BY DEF Order
<1>8. act'[d].pc = "append" =>
        /\ \A a \in DOMAIN s : s[a].by = d => s[a].val < act'[d].val
        /\ \A t \in ended' : t.by = d => \A i \in DOMAIN t.did : t.did[i] < act'[d].val
  BY PendingLater
<1> HIDE DEF s, r, n
<1> DEFINE was(a) == IF a <= n THEN a ELSE a - 1
<1>5. ASSUME NEW a \in DOMAIN r, a # n + 1
      PROVE  was(a) \in DOMAIN s /\ r[a] = s[was(a)] /\ (a > n + 1 <=> was(a) > n)
  <2>1. CASE a <= n
    <3>1. a \in 1..n
      BY <1>2, <2>1
    <3> QED
      BY <1>2, <2>1, <3>1
  <2>2. CASE a > n
    <3>1. a \in (n + 2)..(Len(s) + 1)
      BY <1>2, <1>5, <2>2
    <3> QED
      BY <1>2, <2>2, <3>1
  <2> QED
    BY <1>2, <2>1, <2>2
<1>6. ASSUME NEW a \in DOMAIN r, NEW b \in DOMAIN r, a # b PROVE r[a].val # r[b].val
  <2>1. CASE a # n + 1 /\ b # n + 1
    <3>1. was(a) # was(b)
      BY <1>2, <1>6, <2>1
    <3> QED
      BY <1>4, <1>5, <2>1, <3>1
  <2>2. CASE a = n + 1 \/ b = n + 1
    BY <1>2, <1>3, <1>5, <1>6, <2>2
  <2> QED
    BY <2>1, <2>2
<1>7. ASSUME NEW a \in DOMAIN r, NEW b \in DOMAIN r, a < b, r[a].by = d, r[b].by = d,
             ~compressed \/ b > n + 1
      PROVE  r[a].val < r[b].val
  <2>1. a # n + 1 /\ b # n + 1
    BY <1>2, <1>7
  <2>2. was(a) < was(b)
    BY <1>2, <1>7, <2>1
  <2> QED
    BY <1>4, <1>5, <1>7, <2>1, <2>2
<1>9. act'[d].pc = "append" => \A a \in DOMAIN r : r[a].by = d => r[a].val < act'[d].val
  <2>1. ASSUME NEW a \in DOMAIN r, r[a].by = d, act'[d].pc = "append"
        PROVE  r[a].val < act'[d].val
    <3>1. a # n + 1
      BY <1>2, <2>1
    <3> QED
      BY <1>5, <1>8, <2>1, <3>1
  <2> QED
    BY <2>1
<1> QED
  BY <1>1, <1>2, <1>6, <1>7, <1>8, <1>9 DEF Order, r

(* Compression keeps the transactions of a client in order. *)
LEMMA OrderCompress ==
  ASSUME Base, Owned, NEW c \in Clients, Kind(c), NEW d \in Clients, Order(d),
         compressed, log' \in Compressed(log), txs' = txs
  PROVE  Order(d)'
<1> DEFINE s == EventsInContext(d)
           r == EventsInContext(d)'
           n == Len(log)
           k == Len(log')
           m == Len(txs[d])
<1>1. Types /\ Types' /\ compressed' = compressed
  BY TypesNext, Frame DEF Base
<1>2. /\ n \in Nat /\ m \in Nat /\ Len(s) = n + m /\ DOMAIN s = 1..(n + m)
      /\ \A i \in 1..n : s[i] = log[i]
      /\ \A i \in 1..m : s[n + i] = txs[d][i]
  BY <1>1, Context
<1>3. /\ k \in Nat /\ DOMAIN r = 1..(k + m)
      /\ \A i \in 1..k : r[i] = log'[i]
      /\ \A i \in 1..m : r[k + i] = txs[d][i]
  BY <1>1, ContextNext
<1>4. DOMAIN log = 1..n /\ DOMAIN log' = 1..k
  BY <1>1 DEF Types
<1>5. /\ \A a, b \in DOMAIN s : a # b => s[a].val # s[b].val
      /\ \A a, b \in DOMAIN s :
            a < b /\ s[a].by = d /\ s[b].by = d /\ b > n => s[a].val < s[b].val
  BY DEF Order
<1>6. \A i, j \in DOMAIN log : i # j => log[i].val # log[j].val
  <2> HIDE DEF s, n
  <2> QED
    BY <1>2, <1>4, <1>5
<1>7. /\ \A i \in 1..k : \E j \in 1..n : log'[i].val = log[j].val /\ log'[i].by = log[j].by
      /\ \A i, j \in 1..k : i # j => log'[i].val # log'[j].val
  BY <1>4, <1>6, CompressOrigin
<1>8. act'[d].pc = "append" =>
        /\ \A a \in DOMAIN s : s[a].by = d => s[a].val < act'[d].val
        /\ \A t \in ended' : t.by = d => \A i \in DOMAIN t.did : t.did[i] < act'[d].val
  BY PendingLater
<1> HIDE DEF s, r, n, k, m
<1>9. ASSUME NEW a \in DOMAIN r
      PROVE  \E b \in DOMAIN s : /\ r[a].val = s[b].val /\ r[a].by = s[b].by
                                 /\ a <= k => b <= n
                                 /\ a > k => b = n + (a - k)
  <2>1. CASE a <= k
    <3>1. a \in 1..k
      BY <1>3, <2>1
    <3>2. PICK j \in 1..n : log'[a].val = log[j].val /\ log'[a].by = log[j].by
      BY <1>7, <3>1
    <3>3. r[a] = log'[a] /\ s[j] = log[j] /\ j \in DOMAIN s /\ j <= n
      BY <1>2, <1>3, <3>1, <3>2
    <3> QED
      BY <1>3, <2>1, <3>2, <3>3
  <2>2. CASE a > k
    <3>1. PICK i \in 1..m : a = k + i
      <4>1. a - k \in 1..m /\ a = k + (a - k)
        BY <1>3, <2>2, <1>2
      <4> QED
        BY <4>1
    <3>3. n + i \in 1..(n + m) /\ n + i = n + (a - k)
      BY <1>2, <1>3, <3>1
    <3>2. r[a] = s[n + i] /\ n + i \in DOMAIN s /\ n + i = n + (a - k)
      BY <1>2, <1>3, <3>1, <3>3
    <3> QED
      BY <1>3, <2>2, <3>2
  <2> QED
    BY <1>3, <2>1, <2>2
<1>10. ASSUME NEW a \in DOMAIN r, NEW b \in DOMAIN r, a # b PROVE r[a].val # r[b].val
  <2>1. CASE a <= k /\ b <= k
    <3>1. a \in 1..k /\ b \in 1..k
      BY <1>3, <2>1
    <3> QED
      BY <1>3, <1>7, <1>10, <3>1
  <2>2. CASE ~(a <= k /\ b <= k)
    <3>1. PICK x \in DOMAIN s : /\ r[a].val = s[x].val
                                /\ a <= k => x <= n
                                /\ a > k => x = n + (a - k)
      BY <1>9
    <3>2. PICK y \in DOMAIN s : /\ r[b].val = s[y].val
                                /\ b <= k => y <= n
                                /\ b > k => y = n + (b - k)
      BY <1>9
    <3>3. x # y
      BY <1>2, <1>3, <1>10, <2>2, <3>1, <3>2
    <3> QED
      BY <1>5, <3>1, <3>2, <3>3
  <2> QED
    BY <2>1, <2>2
<1>11. ASSUME NEW a \in DOMAIN r, NEW b \in DOMAIN r, a < b, r[a].by = d, r[b].by = d, b > k
       PROVE  r[a].val < r[b].val
  <2>1. PICK x \in DOMAIN s : /\ r[a].val = s[x].val /\ r[a].by = s[x].by
                              /\ a <= k => x <= n
                              /\ a > k => x = n + (a - k)
    BY <1>9
  <2>2. PICK y \in DOMAIN s : /\ r[b].val = s[y].val /\ r[b].by = s[y].by
                              /\ b > k => y = n + (b - k)
    BY <1>9
  <2>3. x < y /\ y > n
    BY <1>2, <1>3, <1>11, <2>1, <2>2
  <2> QED
    BY <1>5, <1>11, <2>1, <2>2, <2>3
<1>12. act'[d].pc = "append" => \A a \in DOMAIN r : r[a].by = d => r[a].val < act'[d].val
  BY <1>8, <1>9
<1> QED
  BY <1>1, <1>8, <1>10, <1>11, <1>12 DEF Order, r, k

(* Each step keeps the events of a client in order. *)
LEMMA OrderNext ==
  ASSUME Base, Owned, NEW c \in Clients, Kind(c), Order(c), NEW d \in Clients, Order(d)
  PROVE  Order(d)'
<1>1. Shape(d, c)
  BY Shapes
<1>2. CASE Stays(d)
  BY <1>2, OrderStays
<1>3. CASE d = c /\ Grows(c)
  BY <1>3, OrderGrows
<1>4. CASE d = c /\ Cut(c)
  BY <1>4, OrderCut
<1>5. CASE d # c /\ \E e \in Events : Lets(d, e) /\ Comes(c, e) /\ e.by = c
  BY <1>5, OrderLets
<1>6. CASE compressed /\ Compress(c) /\ txs' = txs
  BY <1>6, OrderCompress DEF Compress
<1> QED
  BY <1>1, <1>2, <1>3, <1>4, <1>5, <1>6 DEF Shape

(* The event that is appended to the parent moves from after to before the *)
(* place where the transaction begins.                                     *)
LEMMA CommitEventMoves ==
  ASSUME Base, NEW c \in Clients, Kind(c), act[c].pc = "commit", CommitEvent(c)
  PROVE  /\ EventsInContext(c)' = EventsInContext(c) \/ compressed
         /\ Len(log') + Begin(c)' = Len(log) + Begin(c) + 1
         /\ Len(log) + Begin(c) + 1 \in DOMAIN EventsInContext(c)
         /\ EventsInContext(c)[Len(log) + Begin(c) + 1] = txs[c][Begin(c) + 1]
<1>1. Types /\ Levels(c) /\ Depth(c) > 0
  BY DEF Base, Doing
<1>2. /\ Begin(c) \in 0..Len(txs[c]) /\ Begin(c) < Len(txs[c]) /\ (Depth(c) = 1 => Begin(c) = 0)
      /\ Begin(c) = begins[c][Depth(c)]
  BY <1>1, Innermost DEF CommitEvent
<1>3. /\ log \in Seq(Events) /\ txs[c] \in Seq(Events) /\ begins[c] \in Seq(Nat)
      /\ begins \in [Clients -> Seq(Nat)]
  BY <1>1 DEF Types
<1>4. Len(log) \in Nat /\ Len(txs[c]) \in Nat
  BY <1>3
<1>5. Begin(c) + 1 \in 1..Len(txs[c]) /\ Len(log) + Begin(c) + 1 \in 1..(Len(log) + Len(txs[c]))
      /\ Len(log) + (Begin(c) + 1) = Len(log) + Begin(c) + 1
  BY <1>2, <1>4
<1>6. /\ EventsInContext(c)[Len(log) + Begin(c) + 1] = txs[c][Begin(c) + 1]
      /\ Len(log) + Begin(c) + 1 \in DOMAIN EventsInContext(c)
  <2>1. \A i \in 1..Len(txs[c]) : EventsInContext(c)[Len(log) + i] = txs[c][i]
    BY <1>1, Context
  <2>2. DOMAIN EventsInContext(c) = 1..(Len(log) + Len(txs[c]))
    BY <1>1, Context
  <2>3. EventsInContext(c)[Len(log) + (Begin(c) + 1)] = txs[c][Begin(c) + 1]
    BY <1>5, <2>1
  <2> QED
    BY <1>5, <2>2, <2>3
<1>7. EventsInContext(c)' = EventsInContext(c) \/ compressed
  <2>1. ~Grows(c) /\ ~Compress(c)
    BY DEF Grows, Compress
  <2>2. act'[c].pc = "commit"
    <3>1. act[c] \in Acts /\ act \in [Clients -> Acts]
      BY <1>1 DEF Types
    <3>2. PICK v : act'[c] = [act[c] EXCEPT !.did = v]
      BY <3>1 DEF CommitEvent, Become
    <3> QED
      BY <3>1, <3>2 DEF Acts
  <2>3. ~Cut(c)
    BY <1>1, <2>2 DEF Cut, Ends, Become, Idle, Types
  <2> QED
    BY <2>1, <2>3, Shapes DEF Shape, Stays
<1>8. CASE Depth(c) = 1
  <2>1. log' = Append(log, txs[c][Begin(c) + 1]) /\ begins' = begins
    BY <1>8 DEF CommitEvent
  <2>2. txs[c][Begin(c) + 1] \in Events
    BY <1>3, <1>5
  <2>3. Len(log') = Len(log) + 1
    BY <1>3, <2>1, <2>2, AppendFacts
  <2>4. Begin(c)' = Begin(c) /\ Begin(c) = 0
    BY <1>2, <1>8, <2>1 DEF Begin, Last
  <2> QED
    BY <1>4, <1>6, <1>7, <2>3, <2>4
<1>9. CASE Depth(c) # 1
  <2>1. log' = log /\ begins'[c] = [begins[c] EXCEPT ![Depth(c)] = @ + 1]
    BY <1>3, <1>9 DEF CommitEvent
  <2>2. Depth(c) \in DOMAIN begins[c] /\ Len(begins'[c]) = Depth(c) /\ Depth(c) = Len(begins[c])
    BY <1>1, <1>3, <2>1 DEF Depth
  <2>3. begins'[c][Depth(c)] = Begin(c) + 1
    BY <1>2, <1>3, <2>1, <2>2
  <2>4. Begin(c)' = Begin(c) + 1
    BY <2>2, <2>3 DEF Begin, Last
  <2> QED
    BY <1>2, <1>4, <1>6, <1>7, <2>1, <2>4
<1> QED
  BY <1>8, <1>9

(* Each step keeps a commit in order and what it did where it is. *)
LEMMA CommitOKNext ==
  ASSUME Base, Owned, NEW c \in Clients, Kind(c), NEW d \in Clients, Order(d), CommitOK(d)
  PROVE  CommitOK(d)'
<1> SUFFICES ASSUME act'[d].pc = "commit", ~compressed PROVE CommitOK(d)'
  BY Frame DEF CommitOK
<1> DEFINE s == EventsInContext(d)
           r == EventsInContext(d)'
<1>1. Types /\ Types' /\ act[d] \in Acts /\ act[d].did \in Seq(Nat)
      /\ Doing(c) /\ Levels(d) /\ Doing(d)
  BY TypesNext DEF Base, Types, Acts
<1>2. CASE d # c
  <2>1. act'[d] = act[d] /\ begins'[d] = begins[d]
    BY <1>2, Frame
  <2>2. Begin(d)' = Begin(d) /\ Begin(d) \in Nat /\ Depth(d) > 0
    BY <1>1, <2>1, Innermost DEF Begin, Doing
  <2>3. /\ Increasing(act[d].did)
        /\ \A i \in DOMAIN act[d].did : \E a \in DOMAIN s :
              s[a].val = act[d].did[i] /\ s[a].by = d /\ a <= Len(log) + Begin(d)
    BY <2>1 DEF CommitOK
  <2>4. ASSUME NEW i \in DOMAIN act[d].did
        PROVE  \E a \in DOMAIN r : /\ r[a].val = act[d].did[i] /\ r[a].by = d
                                   /\ a <= Len(log') + Begin(d)
    <3>1. PICK a \in DOMAIN s :
             s[a].val = act[d].did[i] /\ s[a].by = d /\ a <= Len(log) + Begin(d)
      BY <2>3
    <3>2. CASE Stays(d)
      <4>1. r = s /\ a <= Len(log') + Begin(d)
        <5>1. Len(log) <= Len(log') /\ Len(log) \in Nat /\ Len(log') \in Nat /\ a \in Nat
          BY <1>1, <3>2, Context, ContextNext DEF Stays
        <5> QED
          BY <2>2, <3>1, <3>2, <5>1 DEF Stays
      <4> QED
        BY <3>1, <4>1
    <3>3. ASSUME NEW e \in Events, Lets(d, e)
          PROVE  \E b \in DOMAIN r : /\ r[b].val = act[d].did[i] /\ r[b].by = d
                                     /\ b <= Len(log') + Begin(d)
      <4>1. /\ Len(log) \in Nat /\ Len(s) \in Nat /\ Len(log') = Len(log) + 1
            /\ Len(log) <= Len(s)
            /\ DOMAIN s = 1..Len(s) /\ DOMAIN r = 1..(Len(s) + 1)
            /\ \A b \in 1..Len(log) : r[b] = s[b]
            /\ \A b \in (Len(log) + 2)..(Len(s) + 1) : r[b] = s[b - 1]
        BY <1>1, <3>3, LetsFacts
      <4> HIDE DEF s, r
      <4>2. CASE a <= Len(log)
        <5>1. a \in 1..Len(log) /\ a \in DOMAIN r /\ a <= Len(log') + Begin(d)
          BY <2>2, <3>1, <4>1, <4>2
        <5> QED
          BY <3>1, <4>1, <5>1
      <4>3. CASE a > Len(log)
        <5>1. /\ a + 1 \in (Len(log) + 2)..(Len(s) + 1) /\ a + 1 \in DOMAIN r
              /\ a + 1 <= Len(log') + Begin(d) /\ (a + 1) - 1 = a
          BY <2>2, <3>1, <4>1, <4>3
        <5>2. r[a + 1] = s[a]
          BY <4>1, <5>1
        <5> QED
          BY <3>1, <5>1, <5>2
      <4> QED
        BY <3>1, <4>1, <4>2, <4>3
    <3> QED
      BY <1>2, <3>2, <3>3, Shapes DEF Shape
  <2> QED
    BY <2>1, <2>2, <2>3, <2>4 DEF CommitOK, r
<1>3. CASE d = c
  <2>1. CASE act'[c].did = << >>
    BY <1>3, <2>1 DEF CommitOK, Increasing
  <2>2. CASE act'[c] = act[c] /\ begins' = begins /\ txs' = txs /\ log' = log
    <3>1. Begin(c)' = Begin(c) /\ EventsInContext(c)' = EventsInContext(c)
      BY <2>2 DEF Begin, EventsInContext
    <3> QED
      BY <1>3, <2>2, <3>1 DEF CommitOK
  <2>3. CASE act[c].pc = "compress"
    BY <1>1, <2>3 DEF Doing
  <2>4. CASE /\ act[c].pc = "commit" /\ CommitEvent(c)
             /\ act'[c].did = Append(act[c].did, txs[c][Begin(c) + 1].val)
    <3> DEFINE n == Len(log) + Begin(c)
               v == s[n + 1].val
    <3>1. r = s /\ Len(log') + Begin(c)' = n + 1 /\ n + 1 \in DOMAIN s
          /\ v = txs[c][Begin(c) + 1].val
      BY <1>3, <2>4, CommitEventMoves
    <3>2. n \in Nat /\ Begin(c) \in Nat /\ Len(log) \in Nat /\ DOMAIN s = 1..Len(s)
      BY <1>1, <1>3, <2>4, Innermost, Context DEF Doing
    <3>3. s[n + 1].by = c /\ v \in Nat
      <4>1. n + 1 > Len(log)
        BY <3>2
      <4> QED
        BY <1>3, <3>1, <4>1, InContext
    <3>4. /\ Increasing(act[c].did)
          /\ \A i \in DOMAIN act[c].did : \E a \in DOMAIN s :
                s[a].val = act[c].did[i] /\ s[a].by = c /\ a <= n
      BY <1>3, <2>4 DEF CommitOK
    <3> HIDE DEF n, v, s, r
    <3>5. \A i \in DOMAIN act[c].did : act[c].did[i] < v
      <4> SUFFICES ASSUME NEW i \in DOMAIN act[c].did PROVE act[c].did[i] < v
        OBVIOUS
      <4>1. PICK a \in DOMAIN s : s[a].val = act[c].did[i] /\ s[a].by = c /\ a <= n
        BY <3>4
      <4>2. a < n + 1
        BY <3>2, <4>1
      <4> QED
        BY <1>3, <3>1, <3>3, <4>1, <4>2 DEF Order, s, v
    <3> DEFINE q == act'[c].did
    <3>6. /\ q = Append(act[c].did, v) /\ DOMAIN q = 1..(Len(act[c].did) + 1)
          /\ q[Len(act[c].did) + 1] = v /\ Len(act[c].did) \in Nat
          /\ DOMAIN act[c].did = 1..Len(act[c].did)
          /\ \A i \in 1..Len(act[c].did) : q[i] = act[c].did[i]
      BY <1>1, <1>3, <2>4, <3>1, <3>3, AppendFacts
    <3> HIDE DEF q
    <3>7. \A i \in DOMAIN q : i \in DOMAIN act[c].did \/ i = Len(act[c].did) + 1
      BY <3>6
    <3>8. Increasing(q)
      <4> SUFFICES ASSUME NEW i \in DOMAIN q, NEW j \in DOMAIN q, i < j PROVE q[i] < q[j]
        BY DEF Increasing
      <4>1. i \in DOMAIN act[c].did
        BY <3>6
      <4>2. CASE j \in DOMAIN act[c].did
        BY <3>4, <3>6, <4>1, <4>2 DEF Increasing
      <4>3. CASE j = Len(act[c].did) + 1
        BY <3>5, <3>6, <4>1, <4>3
      <4> QED
        BY <3>7, <4>2, <4>3
    <3>9. ASSUME NEW i \in DOMAIN q
          PROVE  \E a \in DOMAIN s : s[a].val = q[i] /\ s[a].by = c /\ a <= n + 1
      <4>1. CASE i \in DOMAIN act[c].did
        <5>1. PICK a \in DOMAIN s : s[a].val = act[c].did[i] /\ s[a].by = c /\ a <= n
          BY <3>4, <4>1
        <5>2. a <= n + 1
          BY <3>2, <5>1
        <5> QED
          BY <3>6, <4>1, <5>1, <5>2
      <4>2. CASE i = Len(act[c].did) + 1
        <5>1. n + 1 <= n + 1
          BY <3>2
        <5> QED
          BY <3>1, <3>3, <3>6, <4>2, <5>1 DEF v
      <4> QED
        BY <3>7, <4>1, <4>2
    <3> QED
      BY <1>3, <3>1, <3>8, <3>9 DEF CommitOK, q, r
  <2> QED
    BY <1>3, <2>1, <2>2, <2>3, <2>4, CommitNext
<1> QED
  BY <1>2, <1>3

(* What becomes of the versions that a client knows: none comes back.      *)
LEMMA HasBefore ==
  ASSUME Base, Owned, NEW c \in Clients, Kind(c), NEW d \in Clients, Order(d),
         NEW v \in Nat, Says(v, d), act[d].pc = "append" => v # act[d].val,
         Has(EventsInContext(d)', v)
  PROVE  Has(EventsInContext(d), v)
<1> DEFINE s == EventsInContext(d)
           r == EventsInContext(d)'
<1>1. Types /\ Types' /\ Doing(c)
  BY TypesNext DEF Base
<1>2. PICK a \in DOMAIN r : r[a].val = v
  BY DEF Has
<1>3. CASE Stays(d)
  BY <1>3 DEF Stays
<1>4. CASE d = c /\ Grows(c)
  <2>1. s \in Seq(Events) /\ r = Append(s, EventOf(c)) /\ EventOf(c).val = act[c].val
    BY <1>1, <1>4, Context DEF Grows, EventOf
  <2>2. EventOf(c) \in Events
    BY <1>1, <1>4 DEF Grows, EventOf, Events, Types, Acts, Doing, Formed
  <2>3. r[a] = EventOf(c) \/ (a \in DOMAIN s /\ r[a] = s[a])
    BY <1>2, <2>1, <2>2, AppendFacts
  <2>4. r[a] # EventOf(c)
    BY <1>2, <1>4, <2>1 DEF Grows
  <2> QED
    BY <1>2, <2>3, <2>4 DEF Has
<1>5. CASE d = c /\ Cut(c)
  <2>1. /\ Len(log) + Begin(c) \in 0..Len(s) /\ s \in Seq(Events)
        /\ r = SubSeq(s, 1, Len(log) + Begin(c)) /\ Levels(c)
    <3>1. Levels(c) /\ Depth(c) > 0
      BY <1>5 DEF Base, Cut, Ends
    <3>2. Begin(c) \in 0..Len(txs[c])
      BY <1>1, <3>1, Innermost
    <3>3. s \in Seq(Events) /\ Len(s) = Len(log) + Len(txs[c]) /\ Len(log) \in Nat
          /\ Len(txs[c]) \in Nat
      BY <1>1, <1>5, Context
    <3> QED
      BY <1>5, <3>1, <3>2, <3>3 DEF Cut
  <2>2. a \in DOMAIN s /\ r[a] = s[a]
    BY <1>2, <2>1, SubSeqFacts
  <2> QED
    BY <1>2, <2>2 DEF Has
<1>6. ASSUME d # c, NEW e \in Events, Lets(d, e), Comes(c, e), e.by = c
      PROVE  Has(s, v)
  <2>1. /\ Len(log) \in Nat /\ Len(s) \in Nat /\ DOMAIN r = 1..(Len(s) + 1)
        /\ r[Len(log) + 1] = e
        /\ \A b \in 1..Len(log) : r[b] = s[b] /\ b \in DOMAIN s
        /\ \A b \in (Len(log) + 2)..(Len(s) + 1) : r[b] = s[b - 1] /\ b - 1 \in DOMAIN s
    BY <1>1, <1>6, LetsFacts
  <2>2. a # Len(log) + 1
    <3>1. Says(e.val, c)
      BY <1>6 DEF Comes, Says, EventOf
    <3>2. e.val # v
      BY <1>6, <3>1 DEF Owned
    <3> QED
      BY <1>2, <2>1, <3>2
  <2> HIDE DEF s, r
  <2>3. a \in 1..Len(log) \/ a \in (Len(log) + 2)..(Len(s) + 1)
    BY <1>2, <2>1, <2>2
  <2> QED
    BY <1>2, <2>1, <2>3 DEF Has
<1>7. CASE compressed /\ Compress(c) /\ txs' = txs
  <2>1. /\ Len(log) \in Nat /\ Len(txs[d]) \in Nat
        /\ DOMAIN s = 1..(Len(log) + Len(txs[d]))
        /\ \A i \in 1..Len(log) : s[i] = log[i]
        /\ \A i \in 1..Len(txs[d]) : s[Len(log) + i] = txs[d][i]
    BY <1>1, Context
  <2>2. /\ Len(log') \in Nat
        /\ DOMAIN r = 1..(Len(log') + Len(txs[d]))
        /\ \A i \in 1..Len(log') : r[i] = log'[i]
        /\ \A i \in 1..Len(txs[d]) : r[Len(log') + i] = txs[d][i]
    BY <1>1, <1>7, ContextNext
  <2>3. DOMAIN log = 1..Len(log) /\ DOMAIN log' = 1..Len(log')
    BY <1>1 DEF Types
  <2>4. \A a1, b1 \in DOMAIN s : a1 # b1 => s[a1].val # s[b1].val
    BY DEF Order
  <2> HIDE DEF s, r
  <2>5. \A i, j \in DOMAIN log : i # j => log[i].val # log[j].val
    BY <2>1, <2>3, <2>4
  <2>6. \A i \in DOMAIN log' : \E j \in DOMAIN log : log'[i].val = log[j].val
    BY <1>7, <2>5, CompressOrigin DEF Compress
  <2>7. CASE a <= Len(log')
    <3>1. a \in DOMAIN log' /\ r[a] = log'[a]
      BY <1>2, <2>2, <2>3, <2>7
    <3>2. PICK j \in 1..Len(log) : log'[a].val = log[j].val
      BY <2>3, <2>6, <3>1
    <3>3. j \in DOMAIN s /\ s[j] = log[j]
      BY <2>1, <3>2
    <3> QED
      BY <1>2, <3>1, <3>2, <3>3 DEF Has, s
  <2>8. CASE a > Len(log')
    <3>1. PICK i \in 1..Len(txs[d]) : a = Len(log') + i
      <4>1. a - Len(log') \in 1..Len(txs[d]) /\ a = Len(log') + (a - Len(log'))
        BY <1>2, <2>1, <2>2, <2>8
      <4> QED
        BY <4>1
    <3>2. r[a] = s[Len(log) + i]
      BY <2>1, <2>2, <3>1
    <3>3. Len(log) + i \in DOMAIN s
      BY <2>1, <3>1
    <3> QED
      BY <1>2, <3>2, <3>3 DEF Has, s
  <2> QED
    BY <1>2, <2>2, <2>7, <2>8 DEF s, r
<1> QED
  BY <1>3, <1>4, <1>5, <1>6, <1>7, Shapes DEF Shape

(* Without compression only the end of a transaction takes events away.    *)
LEMMA HasAfter ==
  ASSUME Base, NEW c \in Clients, Kind(c), NEW d \in Clients, ~compressed,
         NEW v, Has(EventsInContext(d), v)
  PROVE  Has(EventsInContext(d)', v) \/ (d = c /\ Cut(c))
<1> DEFINE s == EventsInContext(d)
           r == EventsInContext(d)'
<1>1. Types /\ Types' /\ Doing(c)
  BY TypesNext DEF Base
<1>2. PICK a \in DOMAIN s : s[a].val = v
  BY DEF Has
<1>3. CASE Stays(d)
  BY <1>3 DEF Stays
<1>4. CASE d = c /\ Grows(c)
  <2>1. s \in Seq(Events) /\ r = Append(s, EventOf(c))
    BY <1>1, <1>4, Context DEF Grows, EventOf
  <2>2. EventOf(c) \in Events
    BY <1>1, <1>4 DEF Grows, EventOf, Events, Types, Acts, Doing, Formed
  <2>3. a \in DOMAIN r /\ r[a] = s[a]
    BY <1>2, <2>1, <2>2, AppendFacts
  <2> QED
    BY <1>2, <2>3 DEF Has
<1>5. ASSUME NEW e \in Events, Lets(d, e) PROVE Has(r, v)
  <2>1. /\ Len(log) \in Nat /\ Len(s) \in Nat /\ Len(log) <= Len(s)
        /\ DOMAIN s = 1..Len(s) /\ DOMAIN r = 1..(Len(s) + 1)
        /\ \A b \in 1..Len(log) : r[b] = s[b]
        /\ \A b \in (Len(log) + 2)..(Len(s) + 1) : r[b] = s[b - 1]
    BY <1>1, <1>5, LetsFacts
  <2> HIDE DEF s, r
  <2>2. CASE a <= Len(log)
    <3>1. a \in 1..Len(log) /\ a \in DOMAIN r
      BY <1>2, <2>1, <2>2
    <3> QED
      BY <1>2, <2>1, <3>1 DEF Has
  <2>3. CASE a > Len(log)
    <3>1. a + 1 \in (Len(log) + 2)..(Len(s) + 1) /\ a + 1 \in DOMAIN r /\ (a + 1) - 1 = a
      BY <1>2, <2>1, <2>3
    <3>2. r[a + 1] = s[a]
      BY <2>1, <3>1
    <3> QED
      BY <1>2, <3>1, <3>2 DEF Has
  <2> QED
    BY <1>2, <2>1, <2>2, <2>3
<1> QED
  BY <1>3, <1>4, <1>5, Shapes DEF Shape

(* The end of a transaction leaves the events up to where it began. *)
LEMMA CutFacts ==
  ASSUME Base, NEW c \in Clients, Cut(c)
  PROVE  LET s == EventsInContext(c)
             r == EventsInContext(c)'
             n == Len(log) + Begin(c)
         IN  /\ n \in Nat /\ n <= Len(s) /\ Len(s) \in Nat /\ Begin(c) \in Nat
             /\ Len(s) = Len(log) + Len(txs[c]) /\ Len(log) \in Nat /\ Len(txs[c]) \in Nat
             /\ DOMAIN s = 1..Len(s) /\ DOMAIN r = 1..n
             /\ \A a \in 1..n : r[a] = s[a] /\ a \in DOMAIN s
<1> DEFINE s == EventsInContext(c)
           r == EventsInContext(c)'
           n == Len(log) + Begin(c)
<1>1. Types /\ Levels(c) /\ Depth(c) > 0
  BY DEF Base, Cut, Ends
<1>2. /\ Begin(c) \in 0..Len(txs[c]) /\ s \in Seq(Events) /\ Len(s) = Len(log) + Len(txs[c])
      /\ Len(log) \in Nat /\ Len(txs[c]) \in Nat /\ r = SubSeq(s, 1, n)
  BY <1>1, Innermost, Context DEF Cut
<1>3. n \in 0..Len(s)
  BY <1>2
<1>4. /\ DOMAIN r = 1..n /\ DOMAIN s = 1..Len(s) /\ \A a \in 1..n : a \in DOMAIN s
      /\ \A a \in 1..n : r[a] = s[a]
  BY <1>2, <1>3, SubSeqFacts
<1> QED
  BY <1>2, <1>3, <1>4

(* Where the events of a transaction that ends are: those that it has      *)
(* committed before, and the others after, where it began.                 *)
LEMMA DidWhere ==
  ASSUME Base, NEW c \in Clients, Ends(c), CommitOK(c), ~compressed \/ act[c].pc # "commit",
         NEW i \in DOMAIN Did(c)
  PROVE  \E x \in DOMAIN EventsInContext(c) :
            /\ EventsInContext(c)[x].val = Did(c)[i] /\ EventsInContext(c)[x].by = c
            /\ i <= Len(act[c].did) => x <= Len(log) + Begin(c) /\ act[c].pc = "commit"
            /\ i > Len(act[c].did) => x = Len(log) + Begin(c) + (i - Len(act[c].did))
<1> DEFINE s == EventsInContext(c)
           n == Len(log) + Begin(c)
           l == Len(act[c].did)
<1>1. Types /\ Levels(c) /\ Doing(c) /\ Depth(c) > 0
  BY DEF Base, Ends
<1>2. act[c].did \in Seq(Nat) /\ log \in Seq(Events) /\ txs[c] \in Seq(Events)
  BY <1>1 DEF Types, Acts
<1>3. /\ l \in Nat /\ DOMAIN act[c].did = 1..l /\ Len(log) \in Nat /\ Len(txs[c]) \in Nat
      /\ DOMAIN s = 1..(Len(log) + Len(txs[c])) /\ Begin(c) \in 0..Len(txs[c])
      /\ \A j \in 1..Len(txs[c]) : s[Len(log) + j] = txs[c][j]
  BY <1>1, <1>2, Context, Innermost
<1>4. Did(c) \in Seq(Nat)
  BY <1>1, Innermost
<1>5. i \in Nat
  BY <1>4
<1>6. CASE i \in DOMAIN act[c].did /\ Did(c)[i] = act[c].did[i]
  <2>1. act[c].pc = "commit" /\ i <= l
    BY <1>1, <1>3, <1>6 DEF Doing
  <2>2. PICK x \in DOMAIN s : s[x].val = act[c].did[i] /\ s[x].by = c /\ x <= n
    BY <1>6, <2>1 DEF CommitOK
  <2> HIDE DEF s, n, l
  <2> QED
    BY <1>3, <1>5, <1>6, <2>1, <2>2 DEF s, n, l
<1>7. CASE /\ i > l
           /\ i - l + Begin(c) \in (Begin(c) + 1)..Len(txs[c])
           /\ Did(c)[i] = txs[c][i - l + Begin(c)].val
  <2> DEFINE p == i - l + Begin(c)
  <2> HIDE DEF s, l
  <2>1. p \in (Begin(c) + 1)..Len(txs[c]) /\ p \in 1..Len(txs[c])
    BY <1>3, <1>5, <1>7
  <2>2. Len(log) + p = n + (i - l)
    BY <1>3, <1>5, <1>7
  <2> HIDE DEF p, n
  <2>3. Len(log) + p \in 1..(Len(log) + Len(txs[c])) /\ Len(log) + p > Len(log)
    BY <1>3, <2>1
  <2>4. Len(log) + p \in DOMAIN s
    BY <1>3, <2>3
  <2>5. s[Len(log) + p] = txs[c][p]
    BY <1>3, <2>1
  <2>6. s[Len(log) + p].by = c
    BY <2>3, <2>4, InContext DEF s
  <2>7. Did(c)[i] = s[Len(log) + p].val
    BY <1>7, <2>5 DEF p
  <2>8. ~(i <= l)
    BY <1>3, <1>5, <1>7
  <2>9. \E x \in DOMAIN s : /\ s[x].val = Did(c)[i] /\ s[x].by = c
                            /\ i <= l => x <= n /\ act[c].pc = "commit"
                            /\ i > l => x = n + (i - l)
    BY <2>2, <2>4, <2>6, <2>7, <2>8
  <2> QED
    BY <2>9 DEF s, n, l
<1> QED
  BY <1>1, <1>6, <1>7, DidAt

(* What was told of a transaction stays true. *)
LEMMA EndedOKOld ==
  ASSUME Base, Owned, NEW c \in Clients, Kind(c), NEW t \in ended, EndedOK(t), Order(t.by)
  PROVE  EndedOK(t)'
<1> DEFINE d == t.by
           s == EventsInContext(t.by)
           r == EventsInContext(t.by)'
<1>1. Types /\ Types' /\ compressed' = compressed
  BY TypesNext, Frame DEF Base
<1>2. d \in Clients /\ t.did \in Seq(Nat) /\ log \in Seq(Events)
  BY <1>1 DEF Types
<1>3. \A i \in DOMAIN t.did : t.did[i] \in Nat /\ Says(t.did[i], d)
  BY <1>2 DEF Says
<1>4. \A i \in DOMAIN t.did : act[d].pc = "append" => t.did[i] # act[d].val
  <2> SUFFICES ASSUME NEW i \in DOMAIN t.did, act[d].pc = "append"
               PROVE  t.did[i] # act[d].val
    OBVIOUS
  <2>1. t.did[i] < act[d].val
    BY DEF Order
  <2> QED
    BY <1>3, <2>1
<1>5. \A i \in DOMAIN t.did : Has(r, t.did[i]) => Has(s, t.did[i])
  BY <1>2, <1>3, <1>4, HasBefore
<1>6. t.how = "rollback" => \A i \in DOMAIN t.did : ~Has(r, t.did[i])
  BY <1>5 DEF EndedOK
<1>7. ASSUME ~compressed, t.how = "commit", NEW i \in DOMAIN t.did
      PROVE  Has(log', t.did[i])
  <2>1. PICK a \in DOMAIN log : log[a].val = t.did[i]
    BY <1>7 DEF EndedOK, Has
  <2>2. log' = log \/ \E e \in Events : log' = Append(log, e)
    BY <1>7, LogNext
  <2>3. a \in DOMAIN log' /\ log'[a] = log[a]
    BY <1>2, <2>1, <2>2, AppendFacts
  <2> QED
    BY <2>1, <2>3 DEF Has
<1>8. ASSUME ~compressed, t.how = "torn", NEW i \in DOMAIN t.did, NEW j \in DOMAIN t.did,
             i < j, Has(r, t.did[j])
      PROVE  Has(r, t.did[i])
  <2>1. Has(s, t.did[i]) /\ t.did[i] < t.did[j]
    BY <1>5, <1>8 DEF EndedOK, Increasing
  <2>2. CASE Has(r, t.did[i])
    BY <2>2
  <2>3. CASE d = c /\ Cut(c)
    <3> DEFINE n == Len(log) + Begin(c)
    <3>1. /\ n \in Nat /\ DOMAIN r = 1..n /\ DOMAIN s = 1..Len(s)
          /\ \A a \in 1..n : r[a] = s[a] /\ a \in DOMAIN s
      BY <2>3, CutFacts
    <3>2. PICK b \in 1..n : r[b].val = t.did[j]
      BY <1>8, <3>1 DEF Has
    <3>3. PICK a \in DOMAIN s : s[a].val = t.did[i]
      BY <2>1 DEF Has
    <3>4. b \in DOMAIN s /\ s[b].val = t.did[j]
      BY <3>1, <3>2
    <3>5. s[a].by = d /\ s[b].by = d
      <4>1. /\ Says(s[a].val, s[a].by) /\ s[a].by \in Clients
            /\ Says(s[b].val, s[b].by) /\ s[b].by \in Clients
        BY <1>2, <3>3, <3>4, InContext
      <4> QED
        BY <1>2, <1>3, <3>3, <3>4, <4>1 DEF Owned
    <3>6. ~(b < a)
      <4>1. ASSUME b < a PROVE s[b].val < s[a].val
        BY <1>8, <3>3, <3>4, <3>5, <4>1 DEF Order
      <4>2. t.did[i] \in Nat /\ t.did[j] \in Nat
        BY <1>3
      <4> QED
        BY <2>1, <3>3, <3>4, <4>1, <4>2
    <3> HIDE DEF n, s, r
    <3>7. a \in 1..n
      BY <3>1, <3>3, <3>6
    <3>8. Has(r, t.did[i])
      BY <3>1, <3>3, <3>7 DEF Has
    <3> QED
      BY <3>8 DEF r
  <2> QED
    BY <1>2, <1>8, <2>1, <2>2, <2>3, HasAfter
<1>9. ~compressed => Increasing(t.did)
  BY DEF EndedOK
<1> QED
  BY <1>1, <1>6, <1>7, <1>8, <1>9 DEF EndedOK, Has

(* What is told of a transaction that ends is true. *)
LEMMA EndedOKNew ==
  ASSUME Base, Owned, NEW c \in Clients, Kind(c), Ends(c), Order(c), CommitOK(c),
         NEW t \in ended', t.by = c, t.did = Did(c),
         t.how = "rollback" => act[c].pc # "commit",
         t.how = "commit" => Depth(c) = 1 /\ Begin(c) = Len(txs[c])
  PROVE  EndedOK(t)'
<1> DEFINE s == EventsInContext(c)
           r == EventsInContext(c)'
           n == Len(log) + Begin(c)
           l == Len(act[c].did)
<1>1. Types /\ Levels(c) /\ Doing(c) /\ Depth(c) > 0 /\ compressed' = compressed
  BY Frame DEF Base, Ends
<1>2. act[c].did \in Seq(Nat) /\ l \in Nat /\ Did(c) \in Seq(Nat) /\ log' = log
  BY <1>1, Innermost DEF Types, Acts, Ends
<1>3. /\ n \in Nat /\ n <= Len(s) /\ Len(s) \in Nat /\ Begin(c) \in Nat
      /\ Len(s) = Len(log) + Len(txs[c]) /\ Len(log) \in Nat /\ Len(txs[c]) \in Nat
      /\ DOMAIN s = 1..Len(s) /\ DOMAIN r = 1..n
      /\ \A a \in 1..n : r[a] = s[a] /\ a \in DOMAIN s
  BY CutFacts, EndsCut
<1>4. \A i \in DOMAIN Did(c) : i \in Nat /\ Did(c)[i] \in Nat
  BY <1>2
<1>5. ASSUME ~compressed \/ act[c].pc # "commit", NEW i \in DOMAIN Did(c)
      PROVE  \E x \in DOMAIN s : /\ s[x].val = Did(c)[i] /\ s[x].by = c
                                 /\ i <= l => x <= n /\ act[c].pc = "commit"
                                 /\ i > l => x = n + (i - l)
  BY <1>5, DidWhere
<1>6. /\ \A a, b \in DOMAIN s : a # b => s[a].val # s[b].val
      /\ \A a, b \in DOMAIN s :
            a < b /\ s[a].by = c /\ s[b].by = c /\ ~compressed => s[a].val < s[b].val
  BY DEF Order
<1>7. \A i \in 1..Len(log) : s[i] = log[i] /\ i \in DOMAIN log
  <2>1. log \in Seq(Events)
    BY <1>1 DEF Types
  <2> QED
    BY <1>1, <2>1, Context
<1> HIDE DEF s, r, n, l
<1>8. ASSUME ~compressed \/ act[c].pc # "commit", NEW i \in DOMAIN Did(c), i > l
      PROVE  ~Has(r, Did(c)[i])
  <2>1. PICK x \in DOMAIN s : s[x].val = Did(c)[i] /\ x = n + (i - l)
    BY <1>5, <1>8
  <2>2. x > n
    BY <1>2, <1>3, <1>4, <1>8, <2>1
  <2>3. ASSUME NEW a \in DOMAIN r, r[a].val = Did(c)[i] PROVE FALSE
    <3>1. a \in DOMAIN s /\ s[a].val = Did(c)[i] /\ a # x
      BY <1>3, <2>2, <2>3
    <3> QED
      BY <1>6, <2>1, <3>1
  <2> QED
    BY <2>3 DEF Has
<1>9. ASSUME t.how = "rollback", NEW i \in DOMAIN Did(c) PROVE ~Has(r, Did(c)[i])
  <2>1. act[c].pc # "commit"
    BY <1>9
  <2>2. i > l
    <3>1. l = 0
      <4>1. act[c].did = << >>
        BY <1>1, <2>1 DEF Doing
      <4> QED
        BY <4>1 DEF l
    <3>2. i # 0
      BY <1>2
    <3> QED
      BY <1>4, <3>1, <3>2
  <2> QED
    BY <1>8, <1>9, <2>1, <2>2
<1>10. ASSUME ~compressed PROVE Increasing(Did(c))
  <2> SUFFICES ASSUME NEW i \in DOMAIN Did(c), NEW j \in DOMAIN Did(c), i < j
               PROVE  Did(c)[i] < Did(c)[j]
    BY DEF Increasing
  <2>1. PICK x \in DOMAIN s : /\ s[x].val = Did(c)[i] /\ s[x].by = c
                              /\ i <= l => x <= n /\ act[c].pc = "commit"
                              /\ i > l => x = n + (i - l)
    BY <1>5, <1>10
  <2>2. PICK y \in DOMAIN s : /\ s[y].val = Did(c)[j] /\ s[y].by = c
                              /\ j <= l => y <= n /\ act[c].pc = "commit"
                              /\ j > l => y = n + (j - l)
    BY <1>5, <1>10
  <2>3. CASE j <= l
    <3>1. act[c].pc = "commit" /\ i <= l
      BY <1>2, <1>4, <2>2, <2>3
    <3>2. Increasing(act[c].did) /\ i \in DOMAIN act[c].did /\ j \in DOMAIN act[c].did
      <4>1. DOMAIN act[c].did = 1..l /\ DOMAIN Did(c) = 1..Len(Did(c))
        BY <1>2 DEF l
      <4>2. i \in 1..l /\ j \in 1..l
        BY <1>2, <1>4, <2>3, <3>1, <4>1
      <4> QED
        BY <1>10, <3>1, <4>1, <4>2 DEF CommitOK
    <3>3. Did(c)[i] = act[c].did[i] /\ Did(c)[j] = act[c].did[j]
      <4>1. DOMAIN act[c].did = 1..l
        BY <1>2 DEF l
      <4> QED
        BY <1>1, <3>2, <4>1, Innermost DEF l
    <3> QED
      BY <3>2, <3>3 DEF Increasing
  <2>4. CASE j > l
    <3>5. i \in Nat /\ j \in Nat
      BY <1>4
    <3>2. x \in Nat /\ y = n + (j - l) /\ j - l \in Nat /\ j - l > 0
      <4>1. x \in Nat
        BY <1>3, <2>1
      <4>2. y = n + (j - l)
        BY <2>2, <2>4
      <4>3. j - l \in Nat /\ j - l > 0
        BY <1>2, <2>4, <3>5
      <4> QED
        BY <4>1, <4>2, <4>3
    <3>3. i <= l => x <= n
      BY <2>1
    <3>4. i > l => x = n + (i - l)
      BY <2>1
    <3>1. x < y
      BY <1>2, <1>3, <2>4, <3>2, <3>3, <3>4, <3>5
    <3> QED
      BY <1>6, <1>10, <2>1, <2>2, <3>1
  <2> QED
    BY <1>2, <1>4, <2>3, <2>4
<1>11. ASSUME ~compressed, t.how = "commit", NEW i \in DOMAIN Did(c) PROVE Has(log, Did(c)[i])
  <2>1. Depth(c) = 1 /\ Begin(c) = Len(txs[c])
    BY <1>11
  <2>2. Begin(c) = 0 /\ n = Len(log) /\ Len(s) = Len(log)
    BY <1>1, <1>3, <2>1, Innermost DEF n
  <2>3. PICK x \in DOMAIN s : s[x].val = Did(c)[i]
    BY <1>5, <1>11
  <2>4. x \in 1..Len(log)
    BY <1>3, <2>2, <2>3
  <2> QED
    BY <1>7, <2>3, <2>4 DEF Has
<1>12. ASSUME ~compressed, NEW i \in DOMAIN Did(c), NEW j \in DOMAIN Did(c), i < j,
              Has(r, Did(c)[j])
       PROVE  Has(r, Did(c)[i])
  <2>1. j <= l
    BY <1>2, <1>4, <1>8, <1>12
  <2>2. i <= l
    BY <1>2, <1>4, <1>12, <2>1
  <2>3. PICK x \in DOMAIN s : s[x].val = Did(c)[i] /\ x <= n
    BY <1>5, <1>12, <2>2
  <2>4. x \in DOMAIN r /\ r[x] = s[x]
    BY <1>3, <2>3
  <2> QED
    BY <2>3, <2>4 DEF Has
<1> QED
  BY <1>1, <1>2, <1>9, <1>10, <1>11, <1>12 DEF EndedOK, r, Has

(* What is told of transactions is true after each step. *)
LEMMA EndedOKNext ==
  ASSUME Base, Owned, NEW c \in Clients, Kind(c), \A d \in Clients : Order(d), CommitOK(c),
         \A t \in ended : EndedOK(t)
  PROVE  \A t \in ended' : EndedOK(t)'
<1> SUFFICES ASSUME NEW t \in ended' PROVE EndedOK(t)'
  OBVIOUS
<1>1. CASE t \in ended
  <2>1. t.by \in Clients
    BY <1>1 DEF Base, Types
  <2> QED
    BY <1>1, <2>1, EndedOKOld
<1>2. CASE ~(t \in ended)
  BY <1>2, EndedNext, EndedOKNew
<1> QED
  BY <1>1, <1>2

----------------------------------------------------------------------------
(* Operations are serial. *)
LEMMA SerialOKOwn ==
  ASSUME Base, NEW c \in Clients, Kind(c), SerialOK(c), ~compressed
  PROVE  SerialOK(c)'
<1> DEFINE s == EventsInContext(c)
           r == EventsInContext(c)'
           Right(q, i) == (\A j \in (q[i].base + 1)..(i - 1) : q[j].by = q[i].by)
                             => Possible(q[i].name, q[i].key, View(SubSeq(q, 1, i - 1)))
<1>1. Types /\ Types' /\ compressed' = compressed /\ Doing(c)
  BY TypesNext, Frame DEF Base
<1>2. \A i \in DOMAIN s : Right(s, i)
  BY DEF SerialOK
<1>3. act[c].pc = "append" =>
        ((\A j \in (act[c].base + 1)..Len(s) : s[j].by = c)
            => Possible(act[c].name, act[c].key, View(s)))
  BY DEF SerialOK
<1>4. SUFFICES ASSUME TRUE
               PROVE  /\ \A i \in DOMAIN r : Right(r, i)
                      /\ act'[c].pc = "append" =>
                           ((\A j \in (act'[c].base + 1)..Len(r) : r[j].by = c)
                               => Possible(act'[c].name, act'[c].key, View(r)))
  BY DEF SerialOK, Possible, View
<1>5. CASE Stays(c)
  <2>1. r = s
    BY <1>5 DEF Stays
  <2>2. CASE act'[c].pc = "append"
    BY <1>2, <1>3, <2>1, <2>2, PendingNext
  <2>3. CASE act'[c].pc # "append"
    BY <1>2, <2>1, <2>3
  <2> QED
    BY <2>2, <2>3
<1>6. CASE Grows(c)
  <2> DEFINE e == EventOf(c)
  <2>1. /\ e \in Events /\ e.by = c /\ e.name = act[c].name /\ e.key = act[c].key
        /\ e.base = act[c].base
    BY <1>1, <1>6 DEF Grows, EventOf, Events, Types, Acts, Doing, Formed
  <2>2. s \in Seq(Events) /\ r = Append(s, e)
    BY <1>1, <1>6, Context DEF Grows
  <2>3. /\ r \in Seq(Events) /\ Len(s) \in Nat /\ DOMAIN r = 1..(Len(s) + 1)
        /\ DOMAIN s = 1..Len(s) /\ Len(r) = Len(s) + 1
        /\ r[Len(s) + 1] = e /\ \A a \in 1..Len(s) : r[a] = s[a]
    BY <2>1, <2>2, AppendFacts
  <2> HIDE DEF s, r, e
  <2>4. \A n \in 0..Len(s) : SubSeq(r, 1, n) = SubSeq(s, 1, n)
    BY <2>2, <2>3, SubSeqSame
  <2>5. ASSUME NEW i \in 1..Len(s) PROVE Right(r, i)
    <3>1. i - 1 \in 0..Len(s) /\ i \in DOMAIN s
      BY <2>3
    <3>2. SubSeq(r, 1, i - 1) = SubSeq(s, 1, i - 1) /\ r[i] = s[i]
      BY <2>3, <2>4, <3>1
    <3>3. \A j \in (s[i].base + 1)..(i - 1) : r[j] = s[j]
      <4>2. s[i] \in Events
        BY <2>2, <2>1, <2>3, <3>1
      <4>1. s[i].base \in Nat
        BY <4>2 DEF Events
      <4> QED
        BY <2>3, <4>1
    <3> QED
      BY <1>2, <3>1, <3>2, <3>3
  <2>6. ASSUME NEW i, i = Len(s) + 1 PROVE Right(r, i)
    <3>1. i - 1 = Len(s) /\ r[i] = e
      BY <2>3, <2>6
    <3>2. SubSeq(r, 1, i - 1) = s
      <4>1. SubSeq(s, 1, Len(s)) = s
        BY <2>2
      <4>2. Len(s) \in 0..Len(s)
        BY <2>3
      <4> QED
        BY <2>4, <3>1, <4>1, <4>2
    <3>3. e.base \in Nat
      BY <2>1 DEF Events
    <3>4. \A j \in (e.base + 1)..Len(s) : r[j] = s[j]
      BY <2>3, <3>3
    <3> QED
      BY <1>3, <1>6, <2>1, <3>1, <3>2, <3>4 DEF Grows
  <2>7. \A i \in DOMAIN r : i \in 1..Len(s) \/ i = Len(s) + 1
    BY <2>3
  <2>8. act'[c].pc # "append"
    BY <1>6 DEF Grows
  <2> QED
    BY <2>5, <2>6, <2>7, <2>8
<1>7. CASE Cut(c)
  <2> DEFINE n == Len(log) + Begin(c)
  <2>1. /\ n \in Nat /\ n <= Len(s) /\ Len(s) \in Nat
        /\ DOMAIN s = 1..Len(s) /\ DOMAIN r = 1..n
        /\ \A a \in 1..n : r[a] = s[a] /\ a \in DOMAIN s
    BY <1>7, CutFacts
  <2>2. s \in Seq(Events) /\ r \in Seq(Events)
    BY <1>1, Context, ContextNext
  <2>3. act'[c].pc # "append"
    BY <1>1, <1>7 DEF Cut, Ends, Become, Idle, Types
  <2> HIDE DEF s, r, n
  <2>6. Len(r) = n
    BY <2>1, <2>2
  <2>4. \A m \in 0..n : SubSeq(r, 1, m) = SubSeq(s, 1, m)
    BY <2>1, <2>2, <2>6, SubSeqSame
  <2>5. ASSUME NEW i \in 1..n PROVE Right(r, i)
    <3>1. i - 1 \in 0..n /\ i \in DOMAIN s
      BY <2>1
    <3>2. SubSeq(r, 1, i - 1) = SubSeq(s, 1, i - 1) /\ r[i] = s[i]
      BY <2>1, <2>4, <3>1
    <3>3. \A j \in (s[i].base + 1)..(i - 1) : r[j] = s[j]
      <4>2. s[i] \in Events
        BY <2>2, <2>1, <2>3, <3>1
      <4>1. s[i].base \in Nat
        BY <4>2 DEF Events
      <4> QED
        BY <2>1, <4>1
    <3> QED
      BY <1>2, <3>1, <3>2, <3>3
  <2> QED
    BY <2>1, <2>3, <2>5
<1> QED
  BY <1>5, <1>6, <1>7, Shapes DEF Shape

(* A step of another client keeps them serial. *)
LEMMA SerialOKOther ==
  ASSUME Base, NEW c \in Clients, Kind(c), SerialOK(c), NEW d \in Clients, d # c,
         SerialOK(d), ~compressed
  PROVE  SerialOK(d)'
<1> DEFINE s == EventsInContext(d)
           r == EventsInContext(d)'
           w == EventsInContext(c)'
           Right(q, i) == (\A j \in (q[i].base + 1)..(i - 1) : q[j].by = q[i].by)
                             => Possible(q[i].name, q[i].key, View(SubSeq(q, 1, i - 1)))
<1>1. Types /\ Types' /\ compressed' = compressed /\ Doing(d) /\ act'[d] = act[d]
      /\ SerialOK(c)'
  BY TypesNext, Frame, SerialOKOwn DEF Base
<1>2. \A i \in DOMAIN s : Right(s, i)
  BY DEF SerialOK
<1>3. act[d].pc = "append" =>
        ((\A j \in (act[d].base + 1)..Len(s) : s[j].by = d)
            => Possible(act[d].name, act[d].key, View(s)))
  BY DEF SerialOK
<1>8. \A i \in DOMAIN w : Right(w, i)
  BY <1>1 DEF SerialOK, Possible, View
<1>4. SUFFICES ASSUME TRUE
               PROVE  /\ \A i \in DOMAIN r : Right(r, i)
                      /\ act[d].pc = "append" =>
                           ((\A j \in (act[d].base + 1)..Len(r) : r[j].by = d)
                               => Possible(act[d].name, act[d].key, View(r)))
  BY <1>1 DEF SerialOK, Possible, View
<1>5. CASE Stays(d)
  BY <1>2, <1>3, <1>5 DEF Stays
<1>6. ASSUME NEW e \in Events, Lets(d, e), e.by = c
      PROVE  /\ \A i \in DOMAIN r : Right(r, i)
             /\ act[d].pc = "append" =>
                  ((\A j \in (act[d].base + 1)..Len(r) : r[j].by = d)
                      => Possible(act[d].name, act[d].key, View(r)))
  <2> DEFINE n == Len(log)
  <2>1. /\ s \in Seq(Events) /\ r \in Seq(Events) /\ n \in Nat /\ Len(s) \in Nat
        /\ n <= Len(s) /\ Len(r) = Len(s) + 1 /\ Len(log') = n + 1
        /\ DOMAIN s = 1..Len(s) /\ DOMAIN r = 1..(Len(s) + 1)
        /\ r[n + 1] = e
        /\ \A a \in 1..n : r[a] = s[a] /\ a \in DOMAIN s
        /\ \A a \in (n + 2)..(Len(s) + 1) : r[a] = s[a - 1] /\ a - 1 \in DOMAIN s
    BY <1>1, <1>6, LetsFacts
  <2>2. /\ w \in Seq(Events) /\ n + 1 <= Len(w) /\ \A a \in 1..(n + 1) : w[a] = r[a]
        /\ DOMAIN w = 1..Len(w) /\ Len(w) \in Nat
    <3>1. /\ w \in Seq(Events) /\ Len(w) = Len(log') + Len(txs'[c]) /\ Len(txs'[c]) \in Nat
          /\ \A a \in 1..Len(log') : w[a] = log'[a]
      BY <1>1, ContextNext
    <3>2. \A a \in 1..Len(log') : r[a] = log'[a]
      BY <1>1, ContextNext
    <3> HIDE DEF s, r, w, n
    <3>4. Len(log') = n + 1 /\ n \in Nat
      BY <2>1
    <3>3. n + 1 <= Len(w) /\ Len(w) \in Nat
      <4>1. \A x, y, z \in Nat : z = x + y => x <= z /\ z \in Nat
        OBVIOUS
      <4>2. Len(log') \in Nat /\ n + 1 \in Nat
        BY <3>4
      <4>3. Len(log') <= Len(w)
        BY <3>1, <4>1, <4>2
      <4>4. Len(w) \in Nat
        BY <3>1
      <4>5. n + 1 <= Len(w)
        BY <3>4, <4>3
      <4> QED
        BY <4>4, <4>5
    <3>5. \A a \in 1..(n + 1) : w[a] = r[a]
      BY <3>1, <3>2, <3>4
    <3>6. DOMAIN w = 1..Len(w)
      BY <3>1
    <3> QED
      BY <3>1, <3>3, <3>5, <3>6
  <2>3. \A a \in DOMAIN s : a > n => s[a].by = d /\ s[a].base <= n
    BY <1>1, InContext DEF Good, Horizon
  <2>4. act[d].pc = "append" => act[d].base <= n
    BY <1>1 DEF Doing, Horizon
  <2>5. act[d].base \in Nat
    BY <1>1 DEF Types, Acts
  <2> HIDE DEF s, r, w, n
  <2>6. \A m \in 0..n : SubSeq(r, 1, m) = SubSeq(s, 1, m)
    BY <2>1, SubSeqSame
  <2>7. \A m \in 0..(n + 1) : SubSeq(r, 1, m) = SubSeq(w, 1, m)
    BY <2>1, <2>2, SubSeqSame
  <2>8. ASSUME NEW i \in 1..(n + 1) PROVE Right(r, i)
    <3>1. i - 1 \in 0..(n + 1) /\ i \in DOMAIN w /\ i \in DOMAIN r
      BY <2>1, <2>2
    <3>2. SubSeq(r, 1, i - 1) = SubSeq(w, 1, i - 1) /\ r[i] = w[i]
      BY <2>2, <2>7, <3>1
    <3>3. \A j \in (w[i].base + 1)..(i - 1) : r[j] = w[j]
      <4>2. w[i] \in Events
        BY <2>2, <3>1
      <4>1. w[i].base \in Nat
        BY <4>2 DEF Events
      <4> QED
        BY <2>1, <2>2, <4>1
    <3> QED
      BY <1>8, <3>1, <3>2, <3>3
  <2>9. ASSUME NEW i \in (n + 2)..(Len(s) + 1) PROVE Right(r, i)
    <3>1. r[i] = s[i - 1] /\ i - 1 \in DOMAIN s /\ i - 1 > n
      BY <2>1
    <3>2. r[i].by = d /\ r[i].base <= n /\ r[i].base \in Nat
      <4>1. s[i - 1] \in Events
        BY <2>1, <3>1
      <4> QED
        BY <2>3, <3>1, <4>1 DEF Events
    <3>3. n + 1 \in (r[i].base + 1)..(i - 1)
      BY <2>1, <3>2
    <3> QED
      BY <1>6, <2>1, <3>2, <3>3
  <2>10. act[d].pc = "append" => ~(\A j \in (act[d].base + 1)..Len(r) : r[j].by = d)
    <3>1. act[d].pc = "append" => n + 1 \in (act[d].base + 1)..Len(r)
      BY <2>1, <2>4, <2>5
    <3> QED
      BY <1>6, <2>1, <3>1
  <2>11. \A i \in DOMAIN r : i \in 1..(n + 1) \/ i \in (n + 2)..(Len(s) + 1)
    BY <2>1
  <2> QED
    BY <2>8, <2>9, <2>10, <2>11 DEF r
<1> QED
  BY <1>5, <1>6, Shapes DEF Shape

(* Each step keeps the events of a client serial. *)
LEMMA SerialOKNext ==
  ASSUME Base, NEW c \in Clients, Kind(c), SerialOK(c), NEW d \in Clients, SerialOK(d)
  PROVE  SerialOK(d)'
<1>1. CASE compressed
  BY <1>1, Frame DEF SerialOK
<1>2. CASE ~compressed
  BY <1>2, SerialOKOwn, SerialOKOther
<1> QED
  BY <1>1, <1>2

----------------------------------------------------------------------------
(* The invariant holds, and what follows from it. *)
LEMMA InitIInv == Init => IInv
<1> SUFFICES ASSUME Init PROVE IInv
  OBVIOUS
<1>1. Base
  BY InitBase
<1>2. << >> \o << >> = << >> /\ DOMAIN << >> = {} /\ Len(<< >>) = 0
  OBVIOUS
<1>3. ASSUME NEW c \in Clients
      PROVE  /\ EventsInContext(c) = << >> /\ log = << >> /\ txs[c] = << >>
             /\ act[c].pc = "idle" /\ act[c].did = << >>
  BY <1>2 DEF Init, EventsInContext, Idle
<1>4. \A v \in Nat, c \in Clients : ~Says(v, c)
  BY <1>2, <1>3 DEF Says, Init
<1>5. ASSUME NEW c \in Clients PROVE Order(c) /\ CommitOK(c) /\ SerialOK(c)
  BY <1>2, <1>3 DEF Order, CommitOK, SerialOK
<1> QED
  BY <1>1, <1>4, <1>5 DEF IInv, Owned, Init

(* Each step keeps the invariant. *)
LEMMA IInvNext == IInv /\ [Next]_vars => IInv'
<1> SUFFICES ASSUME IInv, [Next]_vars PROVE IInv'
  OBVIOUS
<1>1. Base'
  BY BaseNext DEF IInv
<1>2. CASE Next
  <2>1. PICK c \in Clients : Kind(c)
    BY <1>2, Kinds DEF IInv
  <2>2. Owned'
    BY <2>1, OwnedNext DEF IInv
  <2>3. \A d \in Clients : Order(d)'
    BY <2>1, OrderNext DEF IInv
  <2>4. \A d \in Clients : CommitOK(d)'
    BY <2>1, CommitOKNext DEF IInv
  <2>5. \A d \in Clients : SerialOK(d)'
    BY <2>1, SerialOKNext DEF IInv
  <2>6. \A t \in ended' : EndedOK(t)'
    BY <2>1, EndedOKNext DEF IInv
  <2> QED
    BY <1>1, <2>2, <2>3, <2>4, <2>5, <2>6 DEF IInv
<1>3. CASE UNCHANGED vars
  <2>1. /\ log' = log /\ compressed' = compressed /\ txs' = txs /\ begins' = begins
        /\ act' = act /\ version' = version /\ ended' = ended
    BY <1>3 DEF vars
  <2>2. Owned'
    BY <2>1 DEF IInv, Owned, Says
  <2>3. \A d \in Clients : Order(d)'
    BY <2>1 DEF IInv, Order, EventsInContext
  <2>4. \A d \in Clients : CommitOK(d)'
    BY <2>1 DEF IInv, CommitOK, EventsInContext, Begin
  <2>5. \A d \in Clients : SerialOK(d)'
    <3> SUFFICES ASSUME NEW d \in Clients, ~compressed PROVE SerialOK(d)'
      BY <2>1 DEF SerialOK
    <3> DEFINE s == EventsInContext(d)
               r == EventsInContext(d)'
               Right(q, i) ==
                  (\A j \in (q[i].base + 1)..(i - 1) : q[j].by = q[i].by)
                     => Possible(q[i].name, q[i].key, View(SubSeq(q, 1, i - 1)))
    <3>1. r = s
      BY <2>1 DEF EventsInContext
    <3>2. SerialOK(d)
      BY DEF IInv
    <3>3. /\ \A i \in DOMAIN s : Right(s, i)
          /\ act[d].pc = "append" =>
                ((\A j \in (act[d].base + 1)..Len(s) : s[j].by = d)
                    => Possible(act[d].name, act[d].key, View(s)))
      BY <3>2 DEF SerialOK
    <3> HIDE DEF s, r
    <3>4. /\ \A i \in DOMAIN r : Right(r, i)
          /\ act'[d].pc = "append" =>
                ((\A j \in (act'[d].base + 1)..Len(r) : r[j].by = d)
                    => Possible(act'[d].name, act'[d].key, View(r)))
      BY <2>1, <3>1, <3>3
    <3> QED
      BY <3>4 DEF SerialOK, Possible, View, r
  <2>6. \A t \in ended' : EndedOK(t)'
    BY <2>1 DEF IInv, EndedOK, EventsInContext, Has
  <2> QED
    BY <1>1, <2>2, <2>3, <2>4, <2>5, <2>6 DEF IInv
<1> QED
  BY <1>2, <1>3

(* The invariant says that transactions commit as a whole. *)
LEMMA CommitsWholeHolds == IInv => CommitsWhole
<1> SUFFICES ASSUME IInv PROVE CommitsWhole
  OBVIOUS
<1>1. Base /\ Types /\ TypeOK
  BY BaseTypes DEF IInv, Base
<1> SUFFICES ASSUME NEW t \in ended
             PROVE  LET there(i) == At(t.did[i]) # {}
                    IN  /\ t.how = "rollback" => \A i \in DOMAIN t.did : ~there(i)
                        /\ ~compressed =>
                              /\ t.how # "rollback" => InOrder(t.did)
                              /\ t.how = "commit" => \A i \in DOMAIN t.did : there(i)
                              /\ t.how = "torn" =>
                                    \A j \in DOMAIN t.did : \A i \in 1..(j - 1) :
                                       there(j) => there(i)
  BY <1>1 DEF CommitsWhole
<1> DEFINE d == t.by
           s == EventsInContext(d)
<1>2. d \in Clients /\ t.did \in Seq(Nat) /\ EndedOK(t) /\ Order(d) /\ log \in Seq(Events)
  BY <1>1 DEF IInv, Types
<1>3. /\ DOMAIN log = 1..Len(log) /\ Len(log) \in Nat
      /\ DOMAIN s = 1..(Len(log) + Len(txs[d])) /\ Len(txs[d]) \in Nat
      /\ \A a \in 1..Len(log) : s[a] = log[a]
  BY <1>1, <1>2, Context
<1>4. \A a \in DOMAIN log : a \in DOMAIN s /\ s[a] = log[a]
  BY <1>3
<1>5. \A i \in DOMAIN t.did : t.did[i] \in Nat /\ Says(t.did[i], d)
  BY <1>2 DEF Says
<1>6. ASSUME NEW i \in DOMAIN t.did, NEW a \in DOMAIN s, s[a].val = t.did[i]
      PROVE  s[a].by = d
  <2>1. Says(s[a].val, s[a].by) /\ s[a].by \in Clients
    BY <1>1, <1>2, InContext
  <2> QED
    BY <1>2, <1>5, <1>6, <2>1 DEF IInv, Owned
<1>7. ASSUME NEW v PROVE At(v) # {} <=> Has(log, v)
  BY DEF At, Has
<1>8. ASSUME NEW v, Has(log, v) PROVE Has(s, v)
  BY <1>4, <1>8 DEF Has
<1>9. \A a, b \in DOMAIN s : a # b => s[a].val # s[b].val
  BY <1>2 DEF Order
<1>10. ~compressed => Increasing(t.did)
  BY <1>2 DEF EndedOK
<1>11. ASSUME ~compressed, NEW i \in DOMAIN t.did, NEW j \in DOMAIN t.did, i < j,
              NEW a \in DOMAIN s, NEW b \in DOMAIN s,
              s[a].val = t.did[i], s[b].val = t.did[j]
       PROVE  a < b
  <2>1. s[a].by = d /\ s[b].by = d /\ t.did[i] < t.did[j]
        /\ t.did[i] \in Nat /\ t.did[j] \in Nat
    BY <1>5, <1>6, <1>10, <1>11 DEF Increasing
  <2>2. ~(b < a)
    BY <1>2, <1>5, <1>11, <2>1 DEF Order
  <2>3. a # b
    BY <1>11, <2>1
  <2>4. a \in Nat /\ b \in Nat
    BY <1>3
  <2> QED
    BY <2>2, <2>3, <2>4
<1>12. t.how = "rollback" => \A i \in DOMAIN t.did : At(t.did[i]) = {}
  BY <1>2, <1>7, <1>8 DEF EndedOK
<1>13. ~compressed => InOrder(t.did)
  <2> SUFFICES ASSUME ~compressed, NEW i \in DOMAIN t.did, NEW j \in DOMAIN t.did,
                      NEW a \in At(t.did[i]), NEW b \in At(t.did[j])
               PROVE  (i = j => a = b) /\ (i < j => a < b)
    BY DEF InOrder
  <2>1. /\ a \in DOMAIN s /\ b \in DOMAIN s
        /\ s[a].val = t.did[i] /\ s[b].val = t.did[j]
    BY <1>4 DEF At
  <2> QED
    BY <1>9, <1>11, <2>1
<1>14. ~compressed /\ t.how = "commit" => \A i \in DOMAIN t.did : At(t.did[i]) # {}
  BY <1>2, <1>7 DEF EndedOK
<1>15. ASSUME ~compressed, t.how = "torn", NEW j \in DOMAIN t.did, NEW i \in 1..(j - 1),
              At(t.did[j]) # {}
       PROVE  At(t.did[i]) # {}
  <2>1. i \in DOMAIN t.did /\ i < j
    BY <1>2
  <2>2. PICK b \in DOMAIN log : log[b].val = t.did[j]
    BY <1>15 DEF At
  <2>3. Has(s, t.did[i])
    BY <1>2, <1>7, <1>8, <1>15, <2>1 DEF EndedOK
  <2>4. PICK a \in DOMAIN s : s[a].val = t.did[i]
    BY <2>3 DEF Has
  <2>5. b \in DOMAIN s /\ s[b].val = t.did[j]
    BY <1>4, <2>2
  <2>6. a < b
    BY <1>11, <1>15, <2>1, <2>4, <2>5
  <2>7. a \in DOMAIN log
    BY <1>3, <2>6
  <2> QED
    BY <1>4, <2>4, <2>7 DEF At
<1> QED
  BY <1>12, <1>13, <1>14, <1>15

(* The invariant says that operations are serial. *)
LEMMA SerialHolds == IInv => Serial
<1> SUFFICES ASSUME IInv, ~compressed, NEW i \in DOMAIN log,
                    \A j \in (log[i].base + 1)..(i - 1) : log[j].by = log[i].by
             PROVE  Possible(log[i].name, log[i].key, View(SubSeq(log, 1, i - 1)))
  BY DEF Serial
<1> DEFINE c == log[i].by
           s == EventsInContext(c)
<1>1. Types /\ log \in Seq(Events)
  BY DEF IInv, Base, Types
<1>2. log[i] \in Events
  BY <1>1
<1>3. c \in Clients /\ log[i].base \in Nat
  BY <1>2 DEF Events
<1>4. /\ s \in Seq(Events) /\ Len(log) \in Nat /\ Len(txs[c]) \in Nat
      /\ Len(s) = Len(log) + Len(txs[c]) /\ DOMAIN s = 1..(Len(log) + Len(txs[c]))
      /\ \A a \in 1..Len(log) : s[a] = log[a]
  BY <1>1, <1>3, Context
<1> HIDE DEF s, c
<1>5. i \in 1..Len(log) /\ i - 1 \in 0..Len(log) /\ Len(log) <= Len(s) /\ i \in DOMAIN s
  BY <1>1, <1>4
<1>6. s[i] = log[i] /\ SubSeq(log, 1, i - 1) = SubSeq(s, 1, i - 1)
  BY <1>1, <1>4, <1>5, SubSeqSame
<1>7. \A j \in (s[i].base + 1)..(i - 1) : s[j].by = s[i].by
  <2> SUFFICES ASSUME NEW j \in (s[i].base + 1)..(i - 1) PROVE s[j].by = s[i].by
    OBVIOUS
  <2>1. j \in 1..Len(log)
    BY <1>3, <1>4, <1>5, <1>6
  <2> QED
    BY <1>4, <1>6, <2>1
<1>8. SerialOK(c)
  BY <1>3 DEF IInv
<1> QED
  BY <1>5, <1>6, <1>7, <1>8 DEF SerialOK, s

(* For any clients, keys, nesting and number of cancellations: what a      *)
(* transaction did is in the log in its order, all of it if CommitTx       *)
(* returned nil, a first part of it if the context was cancelled during    *)
(* the commit, and nothing of it after a rollback, however often it was    *)
(* nested (EventLog.CommitTx and RollbackTx). Every variable has its type. *)
THEOREM TransactionsCommitWhole == Spec => []CommitsWhole
<1>1. Init => IInv
  BY InitIInv
<1>2. IInv /\ [Next]_vars => IInv'
  BY IInvNext
<1>3. IInv => CommitsWhole
  BY CommitsWholeHolds
<1> QED
  BY <1>1, <1>2, <1>3, PTL DEF Spec

(* An event in the log was possible when it came there, unless somebody    *)
(* else wrote after its operation had looked: Create does not find the     *)
(* entity, Update and DeleteByID do, whatever transaction they are in and  *)
(* whoever commits meanwhile (EventLogRepository.Create, Update,           *)
(* DeleteByID).                                                            *)
THEOREM OperationsAreSerial == Spec => []Serial
<1>1. Init => IInv
  BY InitIInv
<1>2. IInv /\ [Next]_vars => IInv'
  BY IInvNext
<1>3. IInv => Serial
  BY SerialHolds
<1> QED
  BY <1>1, <1>2, <1>3, PTL DEF Spec

----------------------------------------------------------------------------
(* What Compress does to the view. *)
(* A set of positions has a last one. *)
LEMMA MaxFacts ==
  ASSUME NEW n \in Nat, NEW S \in SUBSET (1..n), S # {}
  PROVE  Max(S) \in S /\ \A y \in S : y <= Max(S)
<1> DEFINE T == {n - x : x \in S}
<1>1. T \subseteq Nat /\ T # {}
  <2>1. \A x \in S : n - x \in Nat
    OBVIOUS
  <2>2. PICK x : x \in S
    OBVIOUS
  <2>3. n - x \in T
    BY <2>2
  <2>4. T \subseteq Nat
    BY <2>1
  <2> QED
    BY <2>3, <2>4
<1>2. PICK m \in T : \A y \in T : ~(<<y, m>> \in OpToRel(<, Nat))
  BY <1>1, WFMin, NatLessThanWellFounded
<1>3. PICK x \in S : m = n - x
  BY <1>2
<1>4. ASSUME NEW y \in S PROVE x >= y
  <2>1. n - y \in T /\ n - y \in Nat /\ m \in Nat
    BY <1>1, <1>2
  <2>2. ~(n - y < m)
    BY <1>2, <2>1 DEF OpToRel
  <2> QED
    BY <1>3, <2>2
<1>5. Max(S) \in S /\ \A y \in S : Max(S) >= y
  BY <1>3, <1>4 DEF Max
<1> QED
  BY <1>5

(* The view takes the last event about an id. *)
About(s, k) == {i \in DOMAIN s : s[i].key \in {k, All}}
Shown(e) == IF e.name \in {"Create", "Update"} THEN e.val ELSE 0

(* Without an event about an id there is no entity. *)
LEMMA ViewNone ==
  ASSUME NEW s \in Seq(Events), NEW k \in Keys, About(s, k) = {}
  PROVE  View(s)[k] = 0
BY DEF View, About

LEMMA ViewLast ==
  ASSUME NEW s \in Seq(Events), NEW k \in Keys, About(s, k) # {}
  PROVE  \E m \in About(s, k) : /\ \A j \in About(s, k) : j <= m
                                /\ View(s)[k] = Shown(s[m])
<1>1. Len(s) \in Nat /\ About(s, k) \in SUBSET (1..Len(s))
  BY DEF About
<1>2. Max(About(s, k)) \in About(s, k) /\ \A j \in About(s, k) : j <= Max(About(s, k))
  BY <1>1, MaxFacts
<1>3. View(s)[k] = Shown(s[Max(About(s, k))])
  BY DEF View, About, Shown
<1> QED
  BY <1>2, <1>3

(* Equal events about an id, equal views of it. *)
LEMMA ViewIs ==
  ASSUME NEW s \in Seq(Events), NEW k \in Keys, NEW m \in About(s, k),
         \A j \in About(s, k) : j <= m
  PROVE  View(s)[k] = Shown(s[m])
<1>1. PICK l \in About(s, k) : /\ \A j \in About(s, k) : j <= l
                               /\ View(s)[k] = Shown(s[l])
  BY ViewLast
<1>2. l \in Nat /\ m \in Nat
  BY DEF About
<1>3. l = m
  BY <1>1, <1>2
<1> QED
  BY <1>1, <1>3

(* The event that is kept of an id is there, and no other. *)
LEMMA ViewOfLog ==
  ASSUME Base, log' \in Compressed(log),
         \A i, j \in DOMAIN log : i # j => log[i].val # log[j].val,
         NEW k \in Keys
  PROVE  /\ View(log')[k] = View(log)[k]
         /\ About(log', k) = {} <=> View(log)[k] = 0
         /\ \A i \in About(log', k) : log'[i].key = k /\ log'[i].val = View(log)[k]
<1>1. Types /\ log \in Seq(Events) /\ log' \in Seq(Events)
  BY CompressedTypes DEF Base, Types
<1>2. \A i \in DOMAIN log' : \E j \in DOMAIN log :
         /\ log'[i].val = log[j].val /\ log'[i].key = log[j].key /\ log'[i].name = "Create"
         /\ log[j].name \in {"Create", "Update"} /\ View(log)[log[j].key] = log[j].val
  BY CompressOrigin
<1>3. \A i, j \in DOMAIN log' : i # j => log'[i].val # log'[j].val
  BY CompressOrigin
<1>4. \A j \in DOMAIN log : /\ log[j].name \in {"Create", "Update"} => log[j].key \in Keys
                            /\ log[j].val # 0
  BY DEF Base, Good, Formed
<1>5. ASSUME NEW i \in About(log', k)
      PROVE  /\ i \in DOMAIN log' /\ log'[i].val = View(log)[k] /\ log'[i].name = "Create"
             /\ log'[i].key = k
             /\ View(log)[k] # 0
  <2>1. i \in DOMAIN log' /\ log'[i].key \in {k, All}
    BY DEF About
  <2>2. PICK j \in DOMAIN log :
           /\ log'[i].val = log[j].val /\ log'[i].key = log[j].key /\ log'[i].name = "Create"
           /\ log[j].name \in {"Create", "Update"} /\ View(log)[log[j].key] = log[j].val
    BY <1>2, <2>1
  <2>3. log[j].key = k
    BY <1>4, <2>1, <2>2, EventLogAssumption
  <2> QED
    BY <1>4, <2>1, <2>2, <2>3
<1>6. ASSUME View(log)[k] # 0 PROVE About(log', k) # {}
  <2>1. About(log, k) # {}
    BY <1>1, <1>6, ViewNone
  <2>2. PICK m \in About(log, k) : View(log)[k] = Shown(log[m])
    BY <1>1, <2>1, ViewLast
  <2>3. /\ m \in DOMAIN log /\ log[m].name \in {"Create", "Update"} /\ log[m].val = View(log)[k]
        /\ log[m].key = k
    <3>1. m \in DOMAIN log /\ log[m].key \in {k, All}
      BY DEF About
    <3>2. log[m].name \in {"Create", "Update"} /\ log[m].val = View(log)[k]
      BY <1>6, <2>2 DEF Shown
    <3> QED
      BY <1>4, <3>1, <3>2, EventLogAssumption
  <2>4. log[m] \in Kept
    BY <2>3 DEF Kept
  <2>5. [log[m] EXCEPT !.name = "Create"] \in Fresh
    BY <2>4 DEF Fresh
  <2>6. log[m] \in Events
    BY <1>1, <2>3
  <2>7. PICK i \in DOMAIN log' : log'[i] = [log[m] EXCEPT !.name = "Create"]
    <3> DEFINE f == log'
    <3>1. f \in [1..Cardinality(Fresh) -> Fresh] /\ Cardinality(Fresh) \in Nat
          /\ \A i, j \in 1..Cardinality(Fresh) : f[i] = f[j] => i = j
      BY <1>1, CompressedTypes
    <3>2. f \in Injection(1..Cardinality(Fresh), Fresh)
      BY <3>1 DEF Injection, IsInjective
    <3>3. IsFiniteSet(1..Cardinality(Fresh))
          /\ Cardinality(1..Cardinality(Fresh)) = Cardinality(Fresh)
      BY <3>1, FS_Interval
    <3>4. IsFiniteSet(Fresh)
      BY <1>1, FreshFinite
    <3>5. f \in Surjection(1..Cardinality(Fresh), Fresh)
      BY <3>2, <3>3, <3>4, FS_Injection
    <3>6. \E i \in 1..Cardinality(Fresh) : f[i] = [log[m] EXCEPT !.name = "Create"]
      BY <2>5, <3>5 DEF Surjection
    <3> QED
      BY <3>1, <3>6
  <2>8. log'[i].key = k
    BY <2>3, <2>6, <2>7 DEF Events
  <2> QED
    BY <2>7, <2>8 DEF About
<1>7. CASE About(log', k) = {}
  BY <1>1, <1>6, <1>7, ViewNone
<1>8. CASE About(log', k) # {}
  <2>1. PICK i \in About(log', k) : View(log')[k] = Shown(log'[i])
    BY <1>1, <1>8, ViewLast
  <2> QED
    BY <1>5, <1>8, <2>1 DEF Shown
<1>9. About(log', k) = {} <=> View(log)[k] = 0
  BY <1>5, <1>6
<1> QED
  BY <1>5, <1>7, <1>8, <1>9

(* What comes later hides what was there before. *)
LEMMA ViewCat ==
  ASSUME NEW p \in Seq(Events), NEW q \in Seq(Events), NEW k \in Keys
  PROVE  View(p \o q)[k] = IF About(q, k) # {} THEN View(q)[k] ELSE View(p)[k]
<1> DEFINE s == p \o q
<1>1. /\ s \in Seq(Events) /\ DOMAIN s = 1..(Len(p) + Len(q))
      /\ \A i \in 1..Len(p) : s[i] = p[i]
      /\ \A i \in 1..Len(q) : s[Len(p) + i] = q[i]
  BY CatFacts
<1>2. Len(p) \in Nat /\ Len(q) \in Nat /\ DOMAIN p = 1..Len(p) /\ DOMAIN q = 1..Len(q)
  OBVIOUS
<1> HIDE DEF s
<1>3. ASSUME NEW i \in About(p, k) PROVE i \in About(s, k) /\ s[i] = p[i]
  BY <1>1, <1>2 DEF About
<1>4. ASSUME NEW i \in About(q, k) PROVE Len(p) + i \in About(s, k) /\ s[Len(p) + i] = q[i]
  <2>1. i \in 1..Len(q) /\ Len(p) + i \in 1..(Len(p) + Len(q)) /\ q[i].key \in {k, All}
    BY <1>2 DEF About
  <2> QED
    BY <1>1, <2>1 DEF About
<1>5. ASSUME NEW i \in About(s, k)
      PROVE  i \in About(p, k) \/ \E j \in About(q, k) : i = Len(p) + j
  <2>1. i \in 1..(Len(p) + Len(q)) /\ s[i].key \in {k, All}
    BY <1>1 DEF About
  <2>2. CASE i <= Len(p)
    <3>1. i \in 1..Len(p)
      BY <2>1, <2>2, <1>2
    <3> QED
      BY <1>1, <1>2, <2>1, <3>1 DEF About
  <2>3. CASE i > Len(p)
    <3>1. PICK j \in 1..Len(q) : i = Len(p) + j
      <4>1. i - Len(p) \in 1..Len(q) /\ i = Len(p) + (i - Len(p))
        BY <1>2, <2>1, <2>3
      <4> QED
        BY <4>1
    <3>2. j \in About(q, k)
      BY <1>1, <1>2, <2>1, <3>1 DEF About
    <3> QED
      BY <3>1, <3>2
  <2> QED
    BY <1>2, <2>1, <2>2, <2>3
<1>6. CASE About(q, k) # {}
  <2>1. PICK m \in About(q, k) : /\ \A j \in About(q, k) : j <= m
                                 /\ View(q)[k] = Shown(q[m])
    BY <1>6, ViewLast
  <2>2. ASSUME NEW i \in About(s, k) PROVE i <= Len(p) + m
    <3>1. m \in Nat /\ m \in 1..Len(q)
      BY <1>2 DEF About
    <3>2. CASE i \in About(p, k)
      <4>1. i \in 1..Len(p)
        BY <1>2, <3>2 DEF About
      <4> QED
        BY <1>2, <3>1, <4>1
    <3>3. ASSUME NEW j \in About(q, k), i = Len(p) + j PROVE i <= Len(p) + m
      <4>1. j \in Nat /\ j <= m
        BY <1>2, <2>1 DEF About
      <4> QED
        BY <1>2, <3>1, <3>3, <4>1
    <3> QED
      BY <1>5, <3>2, <3>3
  <2>3. View(s)[k] = Shown(s[Len(p) + m])
    BY <1>1, <1>4, <2>2, ViewIs
  <2> QED
    BY <1>4, <1>6, <2>1, <2>3 DEF s
<1>7. CASE About(q, k) = {} /\ About(p, k) # {}
  <2>1. PICK m \in About(p, k) : /\ \A j \in About(p, k) : j <= m
                                 /\ View(p)[k] = Shown(p[m])
    BY <1>7, ViewLast
  <2>2. View(s)[k] = Shown(s[m])
    BY <1>1, <1>3, <1>5, <1>7, <2>1, ViewIs
  <2> QED
    BY <1>3, <1>7, <2>1, <2>2 DEF s
<1>8. CASE About(q, k) = {} /\ About(p, k) = {}
  <2>1. About(s, k) = {}
    BY <1>5, <1>8
  <2> QED
    BY <1>1, <1>8, <2>1, ViewNone DEF s
<1> QED
  BY <1>6, <1>7, <1>8

(* Compression changes no view, and keeps an event for each entity. *)
LEMMA CompressKeepsView ==
  ASSUME IInv, NEW c \in Clients, Compress(c)
  PROVE  /\ \A d \in Clients : View(EventsInContext(d))' = View(EventsInContext(d))
         /\ Len(log') = Cardinality({k \in Keys : View(log)[k] # 0})
<1>1. Base /\ Types /\ Order(c) /\ log' \in Compressed(log) /\ txs' = txs
  BY DEF IInv, Base, Compress, txVars
<1>2. log \in Seq(Events) /\ txs \in [Clients -> Seq(Events)]
  BY <1>1 DEF Types
<1>3. /\ log' \in Seq(Events) /\ DOMAIN log' = 1..Len(log') /\ Len(log') \in Nat
      /\ \A i \in DOMAIN log' : log'[i] \in Events
  BY <1>1, CompressedTypes
<1>4. \A i, j \in DOMAIN log : i # j => log[i].val # log[j].val
  <2>1. /\ DOMAIN log = 1..Len(log) /\ Len(log) \in Nat /\ Len(txs[c]) \in Nat
        /\ DOMAIN EventsInContext(c) = 1..(Len(log) + Len(txs[c]))
        /\ \A i \in 1..Len(log) : EventsInContext(c)[i] = log[i]
    BY <1>1, <1>2, Context
  <2>2. \A i \in DOMAIN log : i \in DOMAIN EventsInContext(c) /\ EventsInContext(c)[i] = log[i]
    BY <2>1
  <2> QED
    BY <1>1, <2>2 DEF Order
<1>5. \A k \in Keys : /\ View(log')[k] = View(log)[k]
                      /\ About(log', k) = {} <=> View(log)[k] = 0
                      /\ \A i \in About(log', k) : log'[i].key = k /\ log'[i].val = View(log)[k]
  BY <1>1, <1>4, ViewOfLog
<1>6. ASSUME NEW d \in Clients PROVE View(log' \o txs'[d]) = View(log \o txs[d])
  <2>1. \A k \in Keys : View(log' \o txs[d])[k] = View(log \o txs[d])[k]
    BY <1>2, <1>3, <1>5, ViewCat
  <2>2. \A s : View(s) = [k \in Keys |-> View(s)[k]]
    BY DEF View
  <2> DEFINE p == View(log' \o txs[d])
             q == View(log \o txs[d])
  <2>3. p = [k \in Keys |-> p[k]] /\ q = [k \in Keys |-> q[k]]
    BY <2>2
  <2> HIDE DEF p, q
  <2>4. \A k \in Keys : p[k] = q[k]
    BY <2>1 DEF p, q
  <2>5. p = q
    BY <2>3, <2>4
  <2> QED
    BY <1>1, <2>5 DEF p, q
<1> DEFINE live == {k \in Keys : View(log)[k] # 0}
           f == [i \in 1..Len(log') |-> log'[i].key]
<1>7. \A i \in 1..Len(log') : log'[i].key \in Keys /\ i \in About(log', log'[i].key)
  <2> SUFFICES ASSUME NEW i \in 1..Len(log')
               PROVE  log'[i].key \in Keys /\ i \in About(log', log'[i].key)
    OBVIOUS
  <2>1. PICK j \in DOMAIN log : log'[i].key = log[j].key /\ log[j].name \in {"Create", "Update"}
    BY <1>1, <1>3, <1>4, CompressOrigin
  <2>2. log[j].key \in Keys
    BY <1>1, <2>1 DEF Base, Good, Formed
  <2> QED
    BY <1>3, <2>1, <2>2 DEF About
<1>8. f \in [1..Len(log') -> live]
  BY <1>5, <1>7
<1>9. \A i, j \in 1..Len(log') : f[i] = f[j] => i = j
  <2>1. \A i, j \in DOMAIN log' : i # j => log'[i].val # log'[j].val
    BY <1>1, <1>4, CompressOrigin
  <2> QED
    BY <1>3, <1>5, <1>7, <2>1
<1>10. \A k \in live : \E i \in 1..Len(log') : f[i] = k
  <2> SUFFICES ASSUME NEW k \in live PROVE \E i \in 1..Len(log') : log'[i].key = k
    OBVIOUS
  <2>1. PICK i : i \in About(log', k)
    BY <1>5
  <2> QED
    BY <1>3, <1>5, <2>1 DEF About
<1> HIDE DEF f
<1>11. f \in Bijection(1..Len(log'), live)
  BY <1>8, <1>9, <1>10 DEF Bijection, Injection, Surjection, IsInjective
<1>12. IsFiniteSet(1..Len(log')) /\ Cardinality(1..Len(log')) = Len(log')
  BY <1>3, FS_Interval
<1>13. Len(log') = Cardinality(live)
  BY <1>11, <1>12, FS_Bijection DEF ExistsBijection
<1> QED
  BY <1>6, <1>13 DEF EventsInContext, View

(* Compress changes nothing that any client can see, also from within a    *)
(* transaction that is open or half committed, and leaves one event for    *)
(* each entity (EventLogRepository.Compress, RewriteEventLog).             *)
THEOREM CompressionIsUnseen == Spec => ViewKept
<1>1. Init => IInv
  BY InitIInv
<1>2. IInv /\ [Next]_vars => IInv'
  BY IInvNext
<1>3. IInv /\ [Next]_vars =>
        [\A c \in Clients : Compress(c) =>
            /\ \A d \in Clients : View(EventsInContext(d))' = View(EventsInContext(d))
            /\ Len(log') = Cardinality({k \in Keys : View(log)[k] # 0})]_vars
  BY CompressKeepsView
<1> QED
  BY <1>1, <1>2, <1>3, PTL DEF Spec, ViewKept
=============================================================================
