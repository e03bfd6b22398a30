------------------------------ MODULE EventLog ------------------------------
(***************************************************************************)
(* memory.EventLog and memory.EventLogRepository: a repository whose state *)
(* is a log of events, with transactions that keep their events to         *)
(* themselves until they commit, and then append them one by one to the    *)
(* log, or to the transaction around them.  An operation first looks at    *)
(* the view of the log and then appends its event, in two steps, and may   *)
(* compress the log in a third one (Options.CompressEventLog).             *)
(*                                                                         *)
(* A client is a goroutine with a context; it finishes transactions from   *)
(* the inside out.  A context, or only that of an inner transaction, may   *)
(* be cancelled at any time.  Entities are versions.  The log of one       *)
(* repository is shown; the events that mark the beginning and the end of  *)
(* a transaction, which no view takes into account, are left out.          *)
(***************************************************************************)
EXTENDS Naturals, Sequences, FiniteSets, SequencesExt, FiniteSetsExt

CONSTANTS Clients, Keys, All,  \* All: the key of a DeleteAll
          Alive,               \* the context is not cancelled
          MaxVersion,          \* events made
          MaxDepths,           \* transactions within transactions of each client
          MaxCancels,
          Cancellable          \* clients whose contexts are cancelled

ASSUME EventLogAssumption == /\ All \notin Keys
                             /\ {MaxVersion, MaxCancels} \subseteq Nat
                             /\ MaxDepths \subseteq [Clients -> Nat]
                             /\ Cancellable \subseteq Clients
                             /\ Alive \notin Nat

VARIABLES log,        \* EventLog.events
          compressed, \* Options.CompressEventLog; it does not change,
          depth,      \* and neither does how deep the clients' transactions get
          txs,        \* the events of a client's open transactions, innermost last,
          begins,     \* and how many of them come before each transaction
          dead,       \* contexts from this depth on are cancelled
          act,        \* what a client is doing
          version, cancels,
          ended       \* history: transactions that have ended

vars == <<log, compressed, depth, txs, begins, dead, act, version, cancels, ended>>
opts == <<compressed, depth>>
txVars == <<txs, begins>>

(* What a client is doing: an operation on an id, the event it makes, and  *)
(* the versions that a commit has appended so far.                         *)
Idle == [pc |-> "idle", save |-> FALSE, name |-> "none", key |-> All, val |-> 0,
         base |-> 0, did |-> << >>]
EventOf(c) == [name |-> act[c].name, key |-> act[c].key, val |-> act[c].val,
               base |-> act[c].base, by |-> c]

Depth(c) == Len(begins[c])
Err(c) == dead[c] # Alive /\ dead[c] <= Depth(c)

(* view: what the events make of each id, 0 if there is no entity. *)
View(events) ==
    [k \in Keys |->
        LET about == {i \in DOMAIN events : events[i].key \in {k, All}}
        IN  IF about = {} THEN 0
            ELSE LET e == events[Max(about)]
                 IN  IF e.name \in {"Create", "Update"} THEN e.val ELSE 0]

(* A bug: transactions do not see their own events. *)
EventsOutside(c) == log

(* EventsInContext, EventLogTx.Events *)
EventsInContext(c) == log \o txs[c]

----------------------------------------------------------------------------
Init == /\ log = << >>
        /\ compressed \in BOOLEAN
        /\ depth \in MaxDepths
        /\ txs = [c \in Clients |-> << >>]
        /\ begins = [c \in Clients |-> << >>]
        /\ dead = [c \in Clients |-> Alive]
        /\ act = [c \in Clients |-> Idle]
        /\ version = 0
        /\ cancels = 0
        /\ ended = {}

Become(c, a) == act' = [act EXCEPT ![c] = a]

(* The innermost transaction of a client, and what it did when it is over. *)
Begin(c) == Last(begins[c])
Versions(events) == [i \in DOMAIN events |-> events[i].val]
Did(c) == act[c].did \o Versions(SubSeq(txs[c], Begin(c) + 1, Len(txs[c])))
Pop(c) == /\ txs' = [txs EXCEPT ![c] = SubSeq(@, 1, Begin(c))]
          /\ begins' = [begins EXCEPT ![c] = Front(@)]
          /\ dead' = [dead EXCEPT ![c] = IF @ = Depth(c) THEN Alive ELSE @]
Ended(c, how) ==
    ended' = IF Did(c) = << >> THEN ended
             ELSE ended \cup {[how |-> how, by |-> c, did |-> Did(c)]}

(* EventLog.BeginTx *)
BeginTx(c, next) == /\ act[c].pc = "idle"
                    /\ ~Err(c)
                    /\ Depth(c) < depth[c]
                    /\ begins' = [begins EXCEPT ![c] = Append(@, Len(txs[c]))]
                    /\ Become(c, next)
                    /\ UNCHANGED <<log, opts, txs, dead, version, cancels, ended>>

(* EventLog.RollbackTx; on a cancelled context it fails, and the events    *)
(* are gone as well.                                                       *)
RollbackTx(c) == /\ Ended(c, "rollback")
                 /\ Pop(c)
                 /\ Become(c, Idle)
                 /\ UNCHANGED <<log, opts, version, cancels>>
Rollback(c) == act[c].pc = "idle" /\ Depth(c) > 0 /\ RollbackTx(c)

(* FindByID: whether the operation can be done; if not it is an error. *)
Possible(name, k, view) == CASE name = "Create" -> view[k] = 0
                             [] name = "DeleteAll" -> TRUE
                             [] OTHER -> view[k] # 0
Doable(c, name, k) == ~Err(c) /\ Possible(name, k, View(EventsInContext(c)))
Look(c, name, k, save) ==
    /\ Doable(c, name, k)
    /\ version < MaxVersion
    /\ version' = version + 1
    /\ Become(c, [Idle EXCEPT !.pc = "append", !.save = save,
                              !.name = name, !.key = k, !.val = version + 1,
                              !.base = IF compressed THEN 0 ELSE Len(log)])
    /\ UNCHANGED <<log, opts, txVars, dead, cancels, ended>>

(* Create, Update, DeleteByID, DeleteAll *)
Create(c, k) == act[c].pc = "idle" /\ Look(c, "Create", k, FALSE)
Update(c, k) == act[c].pc = "idle" /\ Look(c, "Update", k, FALSE)
DeleteByID(c, k) == act[c].pc = "idle" /\ Look(c, "DeleteByID", k, FALSE)
DeleteAll(c) == act[c].pc = "idle" /\ Look(c, "DeleteAll", All, FALSE)

(* Save: a transaction; it looks for the entity, then Create or Update     *)
(* looks again, and on an error everything is rolled back.                 *)
Save(c, k) == BeginTx(c, [Idle EXCEPT !.pc = "find", !.save = TRUE, !.key = k])
SaveFind(c) ==
    /\ act[c].pc = "find"
    /\ IF Err(c) THEN RollbackTx(c)
       ELSE LET found == View(EventsInContext(c))[act[c].key] # 0
            IN  /\ Become(c, [act[c] EXCEPT !.pc = "look",
                                  !.name = IF found THEN "Update" ELSE "Create"])
                /\ UNCHANGED <<log, opts, txVars, dead, version, cancels, ended>>
SaveLook(c) ==
    /\ act[c].pc = "look"
    /\ IF Doable(c, act[c].name, act[c].key)
       THEN Look(c, act[c].name, act[c].key, TRUE)
       ELSE RollbackTx(c)

(* append: the event goes to the innermost transaction, or to the log      *)
(* (EventLog.Append, EventLogTx.Append).                                   *)
AppendEvent(c) ==
    LET next == IF compressed THEN "compress"
                ELSE IF act[c].save THEN "commit" ELSE "idle"
    IN  /\ act[c].pc = "append"
        /\ \/ /\ ~Err(c)
              /\ IF Depth(c) = 0
                 THEN log' = Append(log, EventOf(c)) /\ UNCHANGED txs
                 ELSE txs' = [txs EXCEPT ![c] = Append(@, EventOf(c))] /\ UNCHANGED log
              /\ Become(c, [Idle EXCEPT !.pc = next,
                                        !.save = next # "idle" /\ act[c].save])
              /\ UNCHANGED <<opts, begins, dead, version, cancels, ended>>
           \/ Err(c) /\ act[c].save /\ RollbackTx(c)
           \/ /\ Err(c) /\ ~act[c].save
              /\ Become(c, Idle)
              /\ UNCHANGED <<log, opts, txVars, dead, version, cancels, ended>>

(* A bug: what was deleted comes back. *)
CompressedUndeleted(events) ==
    LET kept == SelectSeq(events, LAMBDA e : e.name \in {"Create", "Update"})
        last == {i \in DOMAIN kept :
                    \A j \in DOMAIN kept : kept[j].key = kept[i].key => j <= i}
    IN  SetToSeqs({[kept[i] EXCEPT !.name = "Create"] : i \in last})

(* Compress: the entities of the view, as if just created, in any order. *)
Compressed(events) ==
    LET live == {events[i] : i \in {i \in DOMAIN events :
                    /\ events[i].name \in {"Create", "Update"}
                    /\ View(events)[events[i].key] = events[i].val}}
    IN  SetToSeqs({[e EXCEPT !.name = "Create"] : e \in live})

Compress(c) ==
    /\ act[c].pc = "compress"
    /\ log' \in Compressed(log)
    /\ Become(c, [act[c] EXCEPT !.pc = IF act[c].save THEN "commit" ELSE "idle"])
    /\ UNCHANGED <<opts, txVars, dead, version, cancels, ended>>

(* EventLog.CommitTx *)
CommitTx(c) == /\ act[c].pc = "idle" /\ Depth(c) > 0 /\ ~Err(c)
               /\ Become(c, [Idle EXCEPT !.pc = "commit"])
               /\ UNCHANGED <<log, opts, txVars, dead, version, cancels, ended>>

(* A bug: the events are appended from the last one on. *)
CommitEventReversed(c) ==
    LET e == Last(txs[c])
    IN  /\ Begin(c) < Len(txs[c]) /\ ~Err(c)
        /\ Become(c, [act[c] EXCEPT !.did = <<e.val>> \o @])
        /\ IF Depth(c) = 1
           THEN /\ log' = Append(log, e)
                /\ txs' = [txs EXCEPT ![c] = Front(@)]
                /\ UNCHANGED begins
           ELSE /\ txs' = [txs EXCEPT ![c] = SubSeq(@, 1, Begin(c)) \o <<e>>
                                        \o SubSeq(@, Begin(c) + 1, Len(@) - 1)]
                /\ begins' = [begins EXCEPT ![c][Depth(c)] = @ + 1]
                /\ UNCHANGED log
        /\ UNCHANGED <<opts, dead, version, cancels, ended>>

(* One event of the transaction is appended to its parent: to the log, or  *)
(* to the transaction before it.  Nobody looks into a transaction that is  *)
(* being committed, so that its events are taken to move.                  *)
CommitEvent(c) ==
    LET e == txs[c][Begin(c) + 1]
    IN  /\ Begin(c) < Len(txs[c]) /\ ~Err(c)
        /\ Become(c, [act[c] EXCEPT !.did = Append(@, e.val)])
        /\ IF Depth(c) = 1
           THEN /\ log' = Append(log, e)
                /\ txs' = [txs EXCEPT ![c] = Tail(@)]
                /\ UNCHANGED begins
           ELSE /\ begins' = [begins EXCEPT ![c][Depth(c)] = @ + 1]
                /\ UNCHANGED <<log, txs>>
        /\ UNCHANGED <<opts, dead, version, cancels, ended>>

(* If the context is cancelled by then, the rest of them is given up, and  *)
(* what is in the log stays.  In the end the transaction is over, even     *)
(* if only the event that marks its end could not be appended.             *)
CommitEnds(c) ==
    LET whole == Begin(c) = Len(txs[c])
    IN  /\ \/ whole /\ IF Depth(c) > 1 THEN UNCHANGED ended ELSE Ended(c, "commit")
           \/ Err(c) /\ Ended(c, "torn")
        /\ Pop(c)
        /\ Become(c, Idle)
        /\ UNCHANGED <<log, opts, version, cancels>>

Commit(c) == act[c].pc = "commit" /\ (CommitEvent(c) \/ CommitEnds(c))

(* The context of a client that is doing something, or of a transaction of *)
(* it, is cancelled; a client whose own context was cancelled goes on with *)
(* a new one.                                                              *)
Cancel(c) == /\ c \in Cancellable /\ cancels < MaxCancels /\ dead[c] = Alive
             /\ Depth(c) > 0 \/ act[c].pc # "idle"
             /\ \E d \in 0..Depth(c) : dead' = [dead EXCEPT ![c] = d]
             /\ cancels' = cancels + 1
             /\ UNCHANGED <<log, opts, txVars, act, version, ended>>
NewContext(c) == /\ act[c].pc = "idle" /\ Depth(c) = 0 /\ dead[c] = 0
                 /\ dead' = [dead EXCEPT ![c] = Alive]
                 /\ UNCHANGED <<log, opts, txVars, act, version, cancels, ended>>

Next == \E c \in Clients :
            \/ BeginTx(c, Idle) \/ Rollback(c) \/ CommitTx(c) \/ Commit(c)
            \/ \E k \in Keys : \/ Create(c, k) \/ Update(c, k)
                               \/ DeleteByID(c, k) \/ Save(c, k)
            \/ DeleteAll(c) \/ SaveFind(c) \/ SaveLook(c) \/ AppendEvent(c) \/ Compress(c)
            \/ Cancel(c) \/ NewContext(c)

Spec == Init /\ [][Next]_vars

----------------------------------------------------------------------------
(* The state has its type: a cancelled context is one the client has, and  *)
(* who looks for an entity to Save, or commits, is in a transaction.       *)
TypeOK ==
    /\ version \in 0..MaxVersion /\ cancels \in 0..MaxCancels
    /\ \A c \in Clients :
          /\ Depth(c) <= depth[c]
          /\ dead[c] = Alive \/ dead[c] \in 0..Depth(c)
          /\ act[c].pc \in {"idle", "find", "look", "append", "compress", "commit"}
          /\ act[c].save \/ act[c].pc = "commit" => Depth(c) > 0

(* Where a version is in the log, and whether what a transaction did is     *)
(* there in its order, each of it once.                                    *)
At(v) == {i \in DOMAIN log : log[i].val = v}
InOrder(did) ==
    \A i, j \in DOMAIN did : \A a \in At(did[i]), b \in At(did[j]) :
        (i = j => a = b) /\ (i < j => a < b)

(* What a transaction did is in the log in its order, all if CommitTx      *)
(* returned nil, and the first part of it if the context was cancelled     *)
(* during the commit; nothing is there after a rollback, also of a         *)
(* transaction around one that was committed.  Compression may take away.  *)
(* Every variable has its type, and the contexts of a client their depth.  *)
CommitsWhole ==
    /\ TypeOK
    /\ \A t \in ended :
          LET there(i) == At(t.did[i]) # {}
          IN  /\ t.how = "rollback" => \A i \in DOMAIN t.did : ~there(i)
              /\ ~compressed =>
                    /\ t.how # "rollback" => InOrder(t.did)
                    /\ t.how = "commit" => \A i \in DOMAIN t.did : there(i)
                    /\ t.how = "torn" =>
                          \A j \in DOMAIN t.did : \A i \in 1..(j - 1) : there(j) => there(i)

(* An event in the log was possible when it came there: Create did not     *)
(* find the entity, Update and DeleteByID did, unless somebody else wrote  *)
(* to the log after the operation had looked.                              *)
Serial ==
    ~compressed =>
        \A i \in DOMAIN log :
            (\A j \in (log[i].base + 1)..(i - 1) : log[j].by = log[i].by)
                => Possible(log[i].name, log[i].key, View(SubSeq(log, 1, i - 1)))

(* Compression changes nothing that a client can see, whatever transaction *)
(* it is in, and leaves an event for each entity and no other.             *)
ViewKept ==
    [][\A c \in Clients : Compress(c) =>
          /\ \A d \in Clients : View(EventsInContext(d))' = View(EventsInContext(d))
          /\ Len(log') = Cardinality({k \in Keys : View(log)[k] # 0})]_vars
=============================================================================
