------------------------------ MODULE Exchange -----------------------------
(***************************************************************************)
(* synckit.Fan, synckit.Broadcast and the exchangeBase they embed          *)
(* (pkg/synckit/exchange.go), with the once-only ACK and NACK of a message *)
(* (port/pubsub/pubsub.go).                                                *)
(*                                                                         *)
(* Publish hands a message over an unbuffered channel: the one channel of  *)
(* a Fan, or the channel of every subscriber of a Broadcast in turn, with  *)
(* the read lock of Broadcast.m held.  A message that is not acknowledged  *)
(* by the end of its round is put back: to a receiver that is waiting, or  *)
(* else into the buffer, under exchangeBase.mutex.  A section under that   *)
(* mutex is one step, except that bufferShift asks for the write lock with *)
(* the read lock in its hands.                                             *)
(***************************************************************************)
EXTENDS Naturals, Sequences, FiniteSets

CONSTANTS Publishers,    \* each publishes one message, named after it
          Consumers,
          Closers,       \* goroutines that call Close or Cancel
          Nackers,       \* consumers that may end a round without an ACK
          Cancellable,   \* publishers and consumers whose ctx may be cancelled
          Kinds,         \* the exchanges considered, of "fan" and "broadcast"
          Shared         \* the channel of a Fan; also no channel, no message

ASSUME KindsAssumption == Kinds \subseteq {"fan", "broadcast"}
ASSUME SharedAssumption == Shared \notin Publishers \cup Consumers
ASSUME SubsetAssumption == /\ Nackers \subseteq Consumers
                           /\ Cancellable \subseteq Publishers \cup Consumers
ASSUME FiniteAssumption == IsFiniteSet(Publishers) /\ IsFiniteSet(Consumers)

VARIABLES kind,              \* which exchange this is
          ppc, todo, to,     \* publishers: channels left, the current one
          cpc, msg, on,      \* consumers: the message in hand, go on after it?
          s,                 \* Broadcast.s: the registered channels
          buffer,            \* exchangeBase.buffer
          cancels,           \* exchangeBase.cancels: handlers Cancel reaches
          ctxDone,           \* publishers and consumers with a cancelled ctx
          msgDone,           \* consumers whose message's ctx is cancelled
          closed, kpc,       \* exchangeBase.closed and the closers
          open               \* history: copies handed over and not settled

pubVars == <<ppc, todo, to>>
conVars == <<cpc, msg, on>>
lockVars == <<buffer, cancels>>
ctxVars == <<ctxDone, msgDone>>
closeVars == <<closed, kpc>>
exchangeVars == <<kind, pubVars, conVars, s, lockVars, ctxVars, closeVars, open>>

(* The channel a consumer receives from and its NACK sends to. *)
ChanOf(c) == IF kind = "fan" THEN Shared ELSE c

Receiving(ch) == {c \in Consumers : cpc[c] = "select" /\ ChanOf(c) = ch}

(* Consumers inside bufferShift with the read lock, asking for the write   *)
(* lock, which sync.RWMutex grants when there is no reader left.           *)
Upgrading == {c \in Consumers : cpc[c] = "upgrading"}

(* Publishers that hold the read lock of Broadcast.m, and the consumers    *)
(* blocked in its write lock, which keep new readers out.                  *)
MReaders == {p \in Publishers : kind = "broadcast" /\ ppc[p] \in {"next", "send"}}
MWriters == {c \in Consumers : cpc[c] \in {"enrol", "resign"}}

----------------------------------------------------------------------------
ExchangeInit ==
    /\ kind \in Kinds
    /\ ppc = [p \in Publishers |-> "idle"]
    /\ todo = [p \in Publishers |-> {}]
    /\ to = [p \in Publishers |-> Shared]
    /\ cpc = [c \in Consumers |-> "out"]
    /\ msg = [c \in Consumers |-> Shared]
    /\ on = [c \in Consumers |-> TRUE]
    /\ s = {}
    /\ buffer = << >>
    /\ cancels = {}
    /\ ctxDone = {} /\ msgDone = {}
    /\ closed = FALSE
    /\ kpc = [k \in Closers |-> "idle"]
    /\ open = [p \in Publishers |-> 0]

----------------------------------------------------------------------------
(* Publishers *)

(* Fan.Publish, or Broadcast.Publish with RLock of m. *)
Publish(p) ==
    /\ ppc[p] = "idle"
    /\ kind = "broadcast" => MWriters = {}
    /\ todo' = [todo EXCEPT ![p] = IF kind = "fan" THEN {Shared} ELSE s]
    /\ ppc' = [ppc EXCEPT ![p] = "next"]
    /\ UNCHANGED <<kind, to, conVars, s, lockVars, ctxVars, closeVars, open>>

(* exchangeBase.publish of the next channel, up to its select; a map is    *)
(* ranged over in any order.                                               *)
Offer(p) ==
    /\ ppc[p] = "next"
    /\ \E ch \in todo[p] :
          /\ p \notin ctxDone
          /\ to' = [to EXCEPT ![p] = ch]
          /\ todo' = [todo EXCEPT ![p] = @ \ {ch}]
          /\ ppc' = [ppc EXCEPT ![p] = "send"]
    /\ UNCHANGED <<kind, conVars, s, lockVars, ctxVars, closeVars, open>>

(* A bug: the select of publish does not look at the closed channel. *)
PublishedIgnoresClose(p) ==
    /\ \/ ppc[p] = "next" /\ (todo[p] = {} \/ p \in ctxDone)
       \/ ppc[p] = "send" /\ p \in ctxDone
    /\ ppc' = [ppc EXCEPT ![p] = "returned"]
    /\ todo' = [todo EXCEPT ![p] = {}]
    /\ to' = [to EXCEPT ![p] = Shared]
    /\ UNCHANGED <<kind, conVars, s, lockVars, ctxVars, closeVars, open>>

(* Publish returns: every channel served, or the ctx or the exchange is    *)
(* over.  The read lock of m goes with it.                                 *)
Published(p) ==
    /\ \/ ppc[p] = "next" /\ (todo[p] = {} \/ p \in ctxDone)
       \/ ppc[p] = "send" /\ (closed \/ p \in ctxDone)
    /\ ppc' = [ppc EXCEPT ![p] = "returned"]
    /\ todo' = [todo EXCEPT ![p] = {}]
    /\ to' = [to EXCEPT ![p] = Shared]
    /\ UNCHANGED <<kind, conVars, s, lockVars, ctxVars, closeVars, open>>

----------------------------------------------------------------------------
(* Consumers *)

(* Ranging over a subscription; a Broadcast registers its channel first. *)
Subscribe(c) ==
    /\ cpc[c] = "out"
    /\ cpc' = [cpc EXCEPT ![c] = IF kind = "fan" THEN "loop" ELSE "enrol"]
    /\ UNCHANGED <<kind, msg, on, s, pubVars, lockVars, ctxVars, closeVars, open>>

Enrol(c) ==
    /\ cpc[c] = "enrol" /\ MReaders = {}
    /\ s' = s \cup {c}
    /\ cpc' = [cpc EXCEPT ![c] = "loop"]
    /\ UNCHANGED <<kind, msg, on, pubVars, lockVars, ctxVars, closeVars, open>>

(* bufferShift as far as its look at the buffer: RLock, which a goroutine  *)
(* waiting for the write lock keeps out.                                   *)
Peek(c) ==
    /\ cpc[c] = "loop" /\ Upgrading = {}
    /\ cpc' = [cpc EXCEPT ![c] = IF buffer = << >> THEN "select" ELSE "upgrading"]
    /\ UNCHANGED <<kind, msg, on, s, pubVars, lockVars, ctxVars, closeVars, open>>

(* A message is handed to a waiting consumer by a publisher. *)
Receive(c, p) ==
    /\ ppc[p] = "send" /\ c \in Receiving(to[p])
    /\ cpc' = [cpc EXCEPT ![c] = "enter"]
    /\ msg' = [msg EXCEPT ![c] = p]
    /\ ppc' = [ppc EXCEPT ![p] = "next"]
    /\ to' = [to EXCEPT ![p] = Shared]
    /\ open' = [open EXCEPT ![p] = @ + 1]
    /\ UNCHANGED <<kind, on, todo, s, lockVars, ctxVars, closeVars>>

(* The handler's ctx; it is cancelled with the consumer's. *)
Handle(c) ==
    /\ cpc[c] = "enter" /\ Upgrading = {}
    /\ cancels' = cancels \cup {c}
    /\ msgDone' = IF c \in ctxDone THEN msgDone \cup {c} ELSE msgDone
    /\ cpc' = [cpc EXCEPT ![c] = "yield"]
    /\ UNCHANGED <<kind, msg, on, s, pubVars, buffer, ctxDone, closeVars, open>>

(* The consumer acknowledges and goes on, or leaves the loop. *)
Ack(c, more) ==
    /\ cpc[c] = "yield"
    /\ cpc' = [cpc EXCEPT ![c] = "exit"]
    /\ on' = [on EXCEPT ![c] = more]
    /\ open' = [open EXCEPT ![msg[c]] = @ - 1]
    /\ UNCHANGED <<kind, msg, s, pubVars, lockVars, ctxVars, closeVars>>

(* NACK, explicit or deferred: a cancelled message is dropped... *)
NackDrop(c, more) ==
    /\ cpc[c] = "yield" /\ c \in Nackers
    /\ c \in msgDone
    /\ cpc' = [cpc EXCEPT ![c] = "exit"]
    /\ on' = [on EXCEPT ![c] = more]
    /\ open' = [open EXCEPT ![msg[c]] = @ - 1]
    /\ UNCHANGED <<kind, msg, s, pubVars, lockVars, ctxVars, closeVars>>

(* A bug: a message that was handed over is buffered as well. *)
NackHandOverKeeps(c, d, more) ==
    /\ cpc[c] = "yield" /\ c \in Nackers
    /\ d \in Receiving(ChanOf(c))
    /\ cpc' = [cpc EXCEPT ![c] = "requeue", ![d] = "enter"]
    /\ msg' = [msg EXCEPT ![d] = msg[c]]
    /\ on' = [on EXCEPT ![c] = more]
    /\ UNCHANGED <<kind, s, pubVars, lockVars, ctxVars, closeVars, open>>

(* ... or handed to a consumer that waits on the same channel... *)
NackHandOver(c, d, more) ==
    /\ cpc[c] = "yield" /\ c \in Nackers
    /\ d \in Receiving(ChanOf(c))
    /\ cpc' = [cpc EXCEPT ![c] = "exit", ![d] = "enter"]
    /\ msg' = [msg EXCEPT ![d] = msg[c]]
    /\ on' = [on EXCEPT ![c] = more]
    /\ UNCHANGED <<kind, s, pubVars, lockVars, ctxVars, closeVars, open>>

(* ... or, if neither is possible right now, goes to the buffer. *)
NackBuffer(c, more) ==
    /\ cpc[c] = "yield" /\ c \in Nackers
    /\ c \notin msgDone /\ Receiving(ChanOf(c)) = {}
    /\ cpc' = [cpc EXCEPT ![c] = "requeue"]
    /\ on' = [on EXCEPT ![c] = more]
    /\ UNCHANGED <<kind, msg, s, pubVars, lockVars, ctxVars, closeVars, open>>

Requeue(c) ==
    /\ cpc[c] = "requeue" /\ Upgrading = {}
    /\ buffer' = Append(buffer, msg[c])
    /\ cpc' = [cpc EXCEPT ![c] = "exit"]
    /\ UNCHANGED <<kind, msg, on, s, pubVars, cancels, ctxVars, closeVars, open>>

(* The deferred release of regCancel ends the round. *)
EndRound(c) ==
    /\ cpc[c] = "exit" /\ Upgrading = {}
    /\ cancels' = cancels \ {c}
    /\ msgDone' = msgDone \ {c}
    /\ msg' = [msg EXCEPT ![c] = Shared]
    /\ cpc' = [cpc EXCEPT ![c] = IF on[c] THEN "loop" ELSE "leave"]
    /\ on' = [on EXCEPT ![c] = TRUE]
    /\ UNCHANGED <<kind, s, pubVars, buffer, ctxDone, closeVars, open>>

(* A bug: only the context ends a subscription. *)
GiveUpCtxOnly(c) ==
    /\ cpc[c] = "select" /\ c \in ctxDone
    /\ cpc' = [cpc EXCEPT ![c] = "leave"]
    /\ UNCHANGED <<kind, msg, on, s, pubVars, lockVars, ctxVars, closeVars, open>>

(* The subscription's select sees that it is over. *)
GiveUp(c) ==
    /\ cpc[c] = "select" /\ (closed \/ c \in ctxDone)
    /\ cpc' = [cpc EXCEPT ![c] = "leave"]
    /\ UNCHANGED <<kind, msg, on, s, pubVars, lockVars, ctxVars, closeVars, open>>

Leave(c) ==
    /\ cpc[c] = "leave"
    /\ cpc' = [cpc EXCEPT ![c] = IF kind = "fan" THEN "out" ELSE "resign"]
    /\ UNCHANGED <<kind, msg, on, s, pubVars, lockVars, ctxVars, closeVars, open>>

(* A bug: the channel is closed without waiting for Publish. *)
ResignUnlocked(c) ==
    /\ cpc[c] = "resign"
    /\ s' = s \ {c}
    /\ cpc' = [cpc EXCEPT ![c] = "out"]
    /\ UNCHANGED <<kind, msg, on, pubVars, lockVars, ctxVars, closeVars, open>>

(* The deferred release of register, under Lock of m, then close(ch). *)
Resign(c) ==
    /\ cpc[c] = "resign" /\ MReaders = {}
    /\ s' = s \ {c}
    /\ cpc' = [cpc EXCEPT ![c] = "out"]
    /\ UNCHANGED <<kind, msg, on, pubVars, lockVars, ctxVars, closeVars, open>>

----------------------------------------------------------------------------
(* The contexts and the life cycle *)

CancelCtx(x) ==
    /\ x \notin ctxDone
    /\ ctxDone' = ctxDone \cup {x}
    /\ msgDone' = IF x \in cancels THEN msgDone \cup {x} ELSE msgDone
    /\ UNCHANGED <<kind, pubVars, conVars, s, lockVars, closeVars, open>>

(* Close, as part of Cancel or not: the look at the closed channel... *)
Close(k, op) ==
    /\ kpc[k] = "idle"
    /\ kpc' = [kpc EXCEPT ![k] =
                 IF ~closed THEN op ELSE IF op = "close" THEN "done" ELSE "cancelling"]
    /\ UNCHANGED <<kind, pubVars, conVars, s, lockVars, ctxVars, closed, open>>

(* ... and its closing, a panic if another goroutine came first. *)
CloseChannel(k) ==
    /\ kpc[k] \in {"close", "cancel"}
    /\ closed' = TRUE
    /\ kpc' = [kpc EXCEPT ![k] = IF closed THEN "panicked"
                                 ELSE IF @ = "close" THEN "done" ELSE "cancelling"]
    /\ UNCHANGED <<kind, pubVars, conVars, s, lockVars, ctxVars, open>>

(* The rest of Cancel, under the mutex. *)
CancelHandlers(k) ==
    /\ kpc[k] = "cancelling" /\ Upgrading = {}
    /\ msgDone' = msgDone \cup cancels
    /\ kpc' = [kpc EXCEPT ![k] = "done"]
    /\ UNCHANGED <<kind, pubVars, conVars, s, lockVars, ctxDone, closed, open>>

----------------------------------------------------------------------------
PublisherStep(p) == Offer(p) \/ Published(p)

Nack(c) == \E more \in BOOLEAN :
    \/ NackDrop(c, more) \/ NackBuffer(c, more)
    \/ \E d \in Consumers : NackHandOver(c, d, more)

ConsumerStep(c) ==
    \/ Enrol(c) \/ Peek(c) \/ (\E p \in Publishers : Receive(c, p)) \/ Handle(c)
    \/ (\E more \in BOOLEAN : Ack(c, more)) \/ Nack(c) \/ Requeue(c) \/ EndRound(c)
    \/ GiveUp(c) \/ Leave(c) \/ Resign(c)

ExchangeNext ==
    \/ \E p \in Publishers : Publish(p) \/ PublisherStep(p)
    \/ \E c \in Consumers : Subscribe(c) \/ ConsumerStep(c)
    \/ \E x \in Cancellable : CancelCtx(x)
    \/ \E k \in Closers : \/ Close(k, "close") \/ Close(k, "cancel")
                         \/ CloseChannel(k) \/ CancelHandlers(k)

(* Goroutines go on and handlers end; nobody has to publish, to subscribe, *)
(* to cancel or to close.                                                  *)
ExchangeFairness ==
    /\ \A p \in Publishers : WF_exchangeVars(PublisherStep(p))
    /\ \A c \in Consumers : WF_exchangeVars(ConsumerStep(c))

ExchangeSpec == ExchangeInit /\ [][ExchangeNext]_exchangeVars
FairExchangeSpec == ExchangeSpec /\ ExchangeFairness

----------------------------------------------------------------------------
ExchangeTypeOK ==
    /\ kind \in Kinds
    /\ ppc \in [Publishers -> {"idle", "next", "send", "returned"}]
    /\ todo \in [Publishers -> SUBSET (Consumers \cup {Shared})]
    /\ to \in [Publishers -> Consumers \cup {Shared}]
    /\ cpc \in [Consumers -> {"out", "enrol", "loop", "upgrading", "select", "enter",
                              "yield", "requeue", "exit", "leave", "resign"}]
    /\ msg \in [Consumers -> Publishers \cup {Shared}]
    /\ on \in [Consumers -> BOOLEAN]
    /\ s \subseteq Consumers
    /\ buffer \in Seq(Publishers)
    /\ cancels \subseteq Consumers /\ msgDone \subseteq cancels
    /\ ctxDone \subseteq Publishers \cup Consumers
    /\ closed \in BOOLEAN
    /\ kpc \in [Closers -> {"idle", "close", "cancel", "cancelling", "done", "panicked"}]
    /\ open \in [Publishers -> Nat]

(* The copies of a message that consumers have in hand. *)
InHand(p) == {c \in Consumers : msg[c] = p /\ cpc[c] \in {"enter", "yield", "requeue"}}
Buffered(p) == Cardinality({i \in DOMAIN buffer : buffer[i] = p})

(* No message is lost or doubled by being put back: a copy handed over by  *)
(* Publish and not settled by an ACK or by the cancellation of its context *)
(* is with one consumer or once in the buffer, however often it changed    *)
(* hands.  Every variable has its type.                                    *)
Conserved ==
    /\ ExchangeTypeOK
    /\ \A p \in Publishers : open[p] = Cardinality(InHand(p)) + Buffered(p)

(* Publish never sends on a closed channel: a channel a Broadcast sends to *)
(* or has yet to send to is that of a subscriber that is still registered. *)
ChannelsOpen == kind = "broadcast" =>
    \A p \in MReaders : todo[p] \subseteq s /\ (ppc[p] = "send" => to[p] \in s)

(* "it will cancel waiting publish": Close and Cancel unblock every        *)
(* Publish, also one that waits behind subscribers that come and go.       *)
PublishReturns == \A p \in Publishers :
    (closed /\ ppc[p] \in {"next", "send"}) ~> ppc[p] = "returned"

(* "it will cancel subscription when nothing requires processing": as long *)
(* as no message had to be put back, Close ends every subscription.        *)
SubscriptionEnds == \A c \in Consumers :
    (closed /\ cpc[c] # "out") ~> (cpc[c] = "out" \/ buffer # << >>)
=============================================================================
