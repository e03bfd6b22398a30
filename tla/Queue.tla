------------------------------- MODULE Queue -------------------------------
(***************************************************************************)
(* memory.Queue (adapter/memory/pubsub.go): an in-memory message queue     *)
(* whose messages are taken by one subscription at a time and stay in the  *)
(* queue until they are acknowledged.                                      *)
(*                                                                         *)
(* Publish outside of a transaction appends at once, inside of one it      *)
(* fills the transaction's buffer.  A delivered message comes with a       *)
(* transaction of its own: what its handler publishes with the message's   *)
(* context, here one reply, appears when the message is acknowledged.  A   *)
(* Blocking queue has no transactions; its Publish waits until the message *)
(* is gone.                                                                *)
(*                                                                         *)
(* A subscription sorts the queue and then walks through it.  While a walk *)
(* has the read lock nothing is appended or released, so what a walk takes *)
(* is the first free message at that moment and the walk is one step.      *)
(***************************************************************************)
EXTENDS Naturals, Sequences, FiniteSets, SequencesExt

CONSTANTS Roots,       \* messages published, one by each publisher
          Replies,     \* messages published by handlers
          ReplyTo,     \* the root message whose handler sends a reply
          Subs,        \* goroutines that subscribe
          None,
          Rank,        \* what SortLessFunc goes by
          Configs      \* values of Queue's fields order, volatile, blocking

ASSUME MessagesAssumption == /\ Roots \cap Replies = {}
                             /\ None \notin Roots \cup Replies \cup Subs
ASSUME ReplyToAssumption ==
    /\ ReplyTo \in [Replies -> Roots]
    /\ \A x, y \in Replies : ReplyTo[x] = ReplyTo[y] => x = y
ASSUME RankAssumption == Rank \in [Roots \cup Replies -> Nat]
ASSUME ConfigsAssumption ==
    Configs \subseteq [order : {"FIFO", "LIFO", "less"}, volatile : BOOLEAN,
                       blocking : BOOLEAN]

Messages == Roots \cup Replies

VARIABLES q,         \* the fields of the queue, set before use
          msgs,      \* Queue.msgs
          stamped,   \* messages in the order of their timestamps
          takenBy,   \* queueMessage.takenBy
          ppc,       \* publishers
          spc,       \* subscriptions
          held,      \* QueueSubscription.value, the message of the last round
          buf,       \* queueTx.ds of the transaction of the round
          blind,     \* messages older than a subscription to a Volatile queue
          cancelled, \* subscriptions whose context is cancelled
          settled,   \* history: messages acknowledged or purged
          published  \* history: how often a message was put into the queue

vars == <<q, msgs, stamped, takenBy, ppc, spc, held, buf, blind, cancelled, settled,
          published>>
subVars == <<spc, held, buf, blind, cancelled>>

InQueue == ToSet(msgs)

(* sort: which message comes first. *)
less(x, y) ==
    LET older(a, b) == \E i, j \in DOMAIN stamped :
                          i < j /\ stamped[i] = a /\ stamped[j] = b
    IN  \/ q.order = "FIFO" /\ older(x, y)
        \/ q.order = "LIFO" /\ older(y, x)
        \/ q.order = "less" /\ Rank[x] < Rank[y]

(* The queue without a message. *)
Removed(m) ==
    IF m \in InQueue
    THEN LET i == CHOOSE j \in DOMAIN msgs : msgs[j] = m IN RemoveAt(msgs, i)
    ELSE msgs

----------------------------------------------------------------------------
Init == /\ q \in Configs
        /\ msgs = << >>
        /\ stamped = << >>
        /\ takenBy = [m \in Messages |-> None]
        /\ ppc = [r \in Roots |-> "idle"]
        /\ spc = [s \in Subs |-> "out"]
        /\ held = [s \in Subs |-> None]
        /\ buf = [s \in Subs |-> {}]
        /\ blind = [s \in Subs |-> {}]
        /\ cancelled = {}
        /\ settled = {}
        /\ published = [m \in Messages |-> 0]

(* dbPublish stamps a message before it locks the queue to append it. *)
stamp(m) == stamped' = Append(stamped, m)

put(m) == /\ msgs' = Append(msgs, m)
          /\ published' = [published EXCEPT ![m] = @ + 1]

----------------------------------------------------------------------------
(* Publishers *)

Publish(r) ==
    /\ ppc[r] = "idle" /\ ~q.blocking
    /\ stamp(r)
    /\ ppc' = [ppc EXCEPT ![r] = "stamped"]
    /\ UNCHANGED <<q, msgs, takenBy, settled, published, subVars>>

(* blockingWait begins with publish, which stamps under the lock. *)
PublishBlocking(r) ==
    /\ ppc[r] = "idle" /\ q.blocking
    /\ stamp(r)
    /\ put(r)
    /\ ppc' = [ppc EXCEPT ![r] = "waiting"]
    /\ UNCHANGED <<q, takenBy, settled, subVars>>

(* The rest of dbPublish, of a Publish or of the commit of a transaction. *)
dbPublish(r) ==
    /\ ppc[r] = "stamped"
    /\ put(r)
    /\ ppc' = [ppc EXCEPT ![r] = "returned"]
    /\ UNCHANGED <<q, stamped, takenBy, settled, subVars>>

(* Publish in a transaction of the publisher, and the transaction's end. *)
PublishTx(r) ==
    /\ ppc[r] = "idle" /\ ~q.blocking
    /\ ppc' = [ppc EXCEPT ![r] = "buffered"]
    /\ UNCHANGED <<q, msgs, stamped, takenBy, settled, published, subVars>>

CommitTx(r) ==
    /\ ppc[r] = "buffered"
    /\ stamp(r)
    /\ ppc' = [ppc EXCEPT ![r] = "stamped"]
    /\ UNCHANGED <<q, msgs, takenBy, settled, published, subVars>>

RollbackTx(r) ==
    /\ ppc[r] = "buffered"
    /\ ppc' = [ppc EXCEPT ![r] = "failed"]
    /\ UNCHANGED <<q, msgs, stamped, takenBy, settled, published, subVars>>

(* A bug: Publish waits for the message to be taken only. *)
BlockingWaitTaken(r) ==
    /\ ppc[r] = "waiting"
    /\ r \notin InQueue \/ takenBy[r] # None
    /\ ppc' = [ppc EXCEPT ![r] = "returned"]
    /\ UNCHANGED <<q, msgs, stamped, takenBy, settled, published, subVars>>

(* blockingWait does not find the message any more. *)
BlockingWait(r) ==
    /\ ppc[r] = "waiting"
    /\ r \notin InQueue
    /\ ppc' = [ppc EXCEPT ![r] = "returned"]
    /\ UNCHANGED <<q, msgs, stamped, takenBy, settled, published, subVars>>

(* The context of a blocking Publish is cancelled; the message stays. *)
PublishCancelled(r) ==
    /\ ppc[r] = "waiting"
    /\ ppc' = [ppc EXCEPT ![r] = "failed"]
    /\ UNCHANGED <<q, msgs, stamped, takenBy, settled, published, subVars>>

Purge ==
    /\ msgs # << >>
    /\ msgs' = << >>
    /\ settled' = settled \cup InQueue
    /\ UNCHANGED <<q, stamped, takenBy, ppc, published, subVars>>

----------------------------------------------------------------------------
(* Subscriptions *)

(* Subscribe; to a Volatile queue with the time of its creation, so that   *)
(* messages stamped before stay hidden, also those still to be appended.   *)
Subscribe(s) ==
    /\ spc[s] = "out"
    /\ spc' = [spc EXCEPT ![s] = "next"]
    /\ blind' = [blind EXCEPT ![s] = IF q.volatile THEN ToSet(stamped) ELSE {}]
    /\ cancelled' = cancelled \ {s}
    /\ UNCHANGED <<q, msgs, stamped, takenBy, ppc, held, buf, settled, published>>

(* rIter sorts the queue, and unlocks it before the walk begins. *)
rIter(s) ==
    /\ spc[s] = "next" /\ s \notin cancelled
    /\ \E p \in Bijection(DOMAIN msgs, DOMAIN msgs) :
          /\ msgs' = [i \in DOMAIN msgs |-> msgs[p[i]]]
          /\ \A i, j \in DOMAIN msgs : i < j => ~less(msgs[p[j]], msgs[p[i]])
    /\ spc' = [spc EXCEPT ![s] = "walk"]
    /\ UNCHANGED <<q, stamped, takenBy, ppc, held, buf, blind, cancelled, settled,
                   published>>

(* Where a walk may stop: messages that nobody has. *)
Free(s) == {i \in DOMAIN msgs : takenBy[msgs[i]] = None /\ msgs[i] \notin blind[s]}

(* take: the first of them gets the subscription's mark. *)
take(s) ==
    /\ spc[s] = "walk"
    /\ \E i \in Free(s) :
          /\ \A j \in Free(s) : i <= j
          /\ takenBy' = [takenBy EXCEPT ![msgs[i]] = s]
          /\ held' = [held EXCEPT ![s] = msgs[i]]
    /\ spc' = [spc EXCEPT ![s] = "yield"]
    /\ UNCHANGED <<q, msgs, stamped, ppc, buf, blind, cancelled, settled, published>>

(* A walk that finds nothing begins again. *)
WalkAgain(s) ==
    /\ spc[s] = "walk" /\ Free(s) = {}
    /\ spc' = [spc EXCEPT ![s] = "next"]
    /\ UNCHANGED <<q, msgs, stamped, takenBy, ppc, held, buf, blind, cancelled, settled,
                   published>>

(* The handler publishes with the context of its message. *)
Reply(s, m) ==
    /\ spc[s] = "yield" /\ ~q.blocking
    /\ m \notin buf[s] /\ ReplyTo[m] = held[s]
    /\ buf' = [buf EXCEPT ![s] = @ \cup {m}]
    /\ UNCHANGED <<q, msgs, stamped, takenBy, ppc, spc, held, blind, cancelled, settled,
                   published>>

(* A bug: the mark is taken off whoever has put it there. *)
releaseAny(s) == takenBy' = [m \in Messages |-> IF m = held[s] THEN None ELSE takenBy[m]]

(* release: the message of the last round, if it is still the              *)
(* subscription's, becomes free.                                           *)
release(s) == takenBy' = [m \in Messages |-> IF m = held[s] /\ takenBy[m] = s THEN None
                                             ELSE takenBy[m]]

(* ACK commits the transaction of the message: the reply is stamped... *)
Ack(s) ==
    /\ spc[s] = "yield"
    /\ IF buf[s] = {} THEN /\ spc' = [spc EXCEPT ![s] = "acking"]
                           /\ UNCHANGED stamped
                      ELSE /\ spc' = [spc EXCEPT ![s] = "commit"]
                           /\ \E m \in buf[s] : stamp(m)
    /\ UNCHANGED <<q, msgs, takenBy, ppc, held, buf, blind, cancelled, settled, published>>

(* ... and appended... *)
AckCommit(s) ==
    /\ spc[s] = "commit"
    /\ \E m \in buf[s] : put(m)
    /\ buf' = [buf EXCEPT ![s] = {}]
    /\ spc' = [spc EXCEPT ![s] = "acking"]
    /\ UNCHANGED <<q, stamped, takenBy, ppc, held, blind, cancelled, settled>>

(* ... and, under m, the message is removed and released. *)
AckRemove(s) ==
    /\ spc[s] = "acking"
    /\ msgs' = Removed(held[s])
    /\ release(s)
    /\ settled' = settled \cup {held[s]}
    /\ spc' = [spc EXCEPT ![s] = "over"]
    /\ UNCHANGED <<q, stamped, ppc, held, buf, blind, cancelled, published>>

(* The handler rolls back a transaction it began within the message's,     *)
(* which takes the message's own with it.                                  *)
RollbackInside(s) ==
    /\ spc[s] = "yield" /\ ~q.blocking
    /\ buf' = [buf EXCEPT ![s] = {}]
    /\ spc' = [spc EXCEPT ![s] = "broken"]
    /\ UNCHANGED <<q, msgs, stamped, takenBy, ppc, held, blind, cancelled, settled,
                   published>>

(* ACK whose commit fails, as the transaction is done: the message stays,  *)
(* and is released.                                                        *)
AckFails(s) ==
    /\ spc[s] = "broken"
    /\ release(s)
    /\ spc' = [spc EXCEPT ![s] = "over"]
    /\ UNCHANGED <<q, msgs, stamped, ppc, held, buf, blind, cancelled, settled, published>>

(* A bug: NACK commits the transaction instead of rolling it back. *)
NackCommits(s) ==
    /\ spc[s] \in {"yield", "broken"}
    /\ release(s)
    /\ buf' = [buf EXCEPT ![s] = {}]
    /\ IF buf[s] = {} THEN UNCHANGED <<msgs, stamped, published>>
                      ELSE \E m \in buf[s] : stamp(m) /\ put(m)
    /\ spc' = [spc EXCEPT ![s] = "over"]
    /\ UNCHANGED <<q, ppc, held, blind, cancelled, settled>>

(* A bug: NACK takes the message out of the queue. *)
NackRemoves(s) ==
    /\ spc[s] \in {"yield", "broken"}
    /\ release(s)
    /\ msgs' = Removed(held[s])
    /\ buf' = [buf EXCEPT ![s] = {}]
    /\ spc' = [spc EXCEPT ![s] = "over"]
    /\ UNCHANGED <<q, stamped, ppc, held, blind, cancelled, settled, published>>

(* NACK by the handler: the message is released, its transaction rolled    *)
(* back unless that is done.                                               *)
Nack(s) ==
    /\ spc[s] \in {"yield", "broken"}
    /\ release(s)
    /\ buf' = [buf EXCEPT ![s] = {}]
    /\ spc' = [spc EXCEPT ![s] = "over"]
    /\ UNCHANGED <<q, msgs, stamped, ppc, held, blind, cancelled, settled, published>>

(* The NACK with which Next and Close drop the message of the last round,  *)
(* whether the handler has settled it or not: by now it may be with        *)
(* another subscription, and the transaction may be done.                  *)
drop(s) == /\ release(s)
           /\ held' = [held EXCEPT ![s] = None]
           /\ buf' = [buf EXCEPT ![s] = {}]

(* The loop goes on with Next, which looks at the context first. *)
NextRound(s) ==
    /\ spc[s] \in {"yield", "broken", "over"} /\ s \notin cancelled
    /\ drop(s)
    /\ spc' = [spc EXCEPT ![s] = "next"]
    /\ UNCHANGED <<q, msgs, stamped, ppc, blind, cancelled, settled, published>>

(* A bug: a loop that is left in the middle of a round keeps its message. *)
CloseKeeps(s) ==
    /\ \/ spc[s] \in {"yield", "broken", "over"}
       \/ spc[s] = "next" /\ s \in cancelled
    /\ held' = [held EXCEPT ![s] = None]
    /\ buf' = [buf EXCEPT ![s] = {}]
    /\ spc' = [spc EXCEPT ![s] = "out"]
    /\ UNCHANGED <<q, msgs, stamped, takenBy, ppc, blind, cancelled, settled, published>>

(* The loop is left, or Next or take sees the cancelled context: Close. *)
Close(s) ==
    /\ \/ spc[s] \in {"yield", "broken", "over"}
       \/ spc[s] = "next" /\ s \in cancelled
    /\ drop(s)
    /\ spc' = [spc EXCEPT ![s] = "out"]
    /\ UNCHANGED <<q, msgs, stamped, ppc, blind, cancelled, settled, published>>

CancelCtx(s) ==
    /\ spc[s] # "out" /\ s \notin cancelled
    /\ cancelled' = cancelled \cup {s}
    /\ UNCHANGED <<q, msgs, stamped, takenBy, ppc, spc, held, buf, blind, settled,
                   published>>

SubStep(s) == \/ rIter(s) \/ take(s) \/ WalkAgain(s)
              \/ Ack(s) \/ AckCommit(s) \/ AckRemove(s) \/ AckFails(s)
              \/ Nack(s) \/ NextRound(s) \/ Close(s)

Next == \/ \E r \in Roots : \/ Publish(r) \/ PublishBlocking(r) \/ dbPublish(r)
                            \/ PublishTx(r) \/ CommitTx(r) \/ RollbackTx(r)
                            \/ BlockingWait(r) \/ PublishCancelled(r)
        \/ Purge
        \/ \E s \in Subs : \/ Subscribe(s) \/ SubStep(s) \/ CancelCtx(s)
                           \/ RollbackInside(s)
                           \/ \E m \in Replies : Reply(s, m)

(* Goroutines go on, and a consumer that is given messages again and again *)
(* acknowledges one in the end.                                            *)
Fairness == /\ \A s \in Subs : WF_vars(SubStep(s)) /\ SF_vars(Ack(s))
            /\ \A r \in Roots : WF_vars(BlockingWait(r))

Spec == Init /\ [][Next]_vars
FairSpec == Spec /\ Fairness

----------------------------------------------------------------------------
TypeOK ==
    /\ q \in Configs
    /\ InQueue \subseteq Messages /\ Len(msgs) = Cardinality(InQueue)
    /\ stamped \in Seq(Messages) /\ InQueue \subseteq ToSet(stamped)
    /\ takenBy \in [Messages -> Subs \cup {None}]
    /\ ppc \in [Roots -> {"idle", "buffered", "stamped", "waiting", "returned", "failed"}]
    /\ spc \in [Subs -> {"out", "next", "walk", "yield", "broken", "commit", "acking",
                         "over"}]
    /\ held \in [Subs -> Messages \cup {None}]
    /\ buf \in [Subs -> SUBSET Replies]
    /\ blind \in [Subs -> SUBSET Messages]
    /\ cancelled \subseteq Subs
    /\ settled \subseteq Messages
    /\ published \in [Messages -> Nat]

(* A message is marked as taken exactly while one subscription is in a     *)
(* round with it: nobody shares a message, and no message stays taken by a *)
(* subscription that ended, failed or went on; and the NACK of a round     *)
(* that was settled before takes no message away from who has it now.      *)
TakenByItsHolder == \A m \in Messages, s \in Subs :
    takenBy[m] = s <=> held[s] = m /\ spc[s] \in {"yield", "broken", "commit", "acking"}

(* A message in the queue leaves it by an ACK or a Purge only, and is in   *)
(* it no more than once.  Every variable has its type.                     *)
NotLost ==
    /\ TypeOK
    /\ \A m \in Messages : published[m] > 0 => m \in InQueue \/ m \in settled

(* What a handler publishes with its message's context is published once,  *)
(* and only together with the acknowledgement of the message, however      *)
(* often the message was given back before.                                *)
RepliesWithAck == \A m \in Replies : published[m] > 0 =>
    /\ published[m] = 1
    /\ \/ ReplyTo[m] \in settled
       \/ \E s \in Subs : held[s] = ReplyTo[m] /\ spc[s] = "acking"

(* "wait until the published messages are ACK -ed": a blocking Publish     *)
(* returns without an error only after its message was handled.            *)
BlockingHandled == \A r \in Roots :
    q.blocking /\ ppc[r] = "returned" => r \in settled

(* A message is acknowledged in the end if a subscription that can see it  *)
(* goes on, whatever is given back, cancelled or left in between.          *)
Handled == \A m \in Messages, s \in Subs :
    <>[](spc[s] # "out" /\ m \notin blind[s]) => (m \in InQueue ~> m \in settled)
=============================================================================
