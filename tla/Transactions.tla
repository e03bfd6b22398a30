---------------------------- MODULE Transactions ----------------------------
(***************************************************************************)
(* Transactions that travel in a context (pkg/txkit): Manager nests them   *)
(* by the type of their transaction, Begin, OnRollback and Finish give     *)
(* resources without transactions a list of steps to undo.  On top of      *)
(* them, the two programs of the repository that finish several resources  *)
(* one after the other with deferred FinishOnePhaseCommits:                *)
(* FanOutExchange.Publish (adapter/memory) and Migrator (port/migration).  *)
(*                                                                         *)
(* A goroutine calls use cases that call further ones, publish to queues   *)
(* or migrate.  A context is the transaction it was made for, and 0 is the *)
(* one the first call gets.  Contexts are cancelled, drivers fail, and a   *)
(* migration crashes, MaxFaults times; errors of the callers' own do not   *)
(* count.  What a resource holds is how often each datum was added to it.  *)
(***************************************************************************)
EXTENDS Integers, Sequences, FiniteSets, SequencesExt, FiniteSetsExt

CONSTANTS Queues,      \* FanOutExchange.Queues, a sequence
          Versions,    \* the migration steps are 1..Versions
          MaxData,     \* changes made by use cases
          MaxTx,       \* transactions of one outermost call
          MaxDepth,    \* calls within calls
          MaxFaults

ASSUME BoundsAssumption ==
    /\ {Versions, MaxData, MaxTx, MaxFaults} \subseteq Nat /\ MaxDepth \in Nat \ {0}
    /\ Queues \in Seq(STRING) /\ Len(Queues) > 0
    /\ ToSet(Queues) \cap {"steps", "state", "resource"} = {}

VARIABLES store,      \* what the resource of each Manager holds
          txs,        \* txInContext: the transactions of the outermost call
          cancelled,  \* contexts that were cancelled
          stack,      \* the calls that go on
          made, faults,
          called,     \* history: the programs called so far
          ret         \* history: the call that returned last

vars == <<store, txs, cancelled, stack, made, faults, called, ret>>

Drivers == {"state", "resource"}    \* with transactions that may fail
Managers == {"steps"} \cup Drivers \cup ToSet(Queues)
Data == 1..(IF MaxData > Versions THEN MaxData ELSE Versions)

(* ctxKeyForContextTxHandler: transactions are told apart by their type,   *)
(* which all queues of the same data share.                                *)
Type(m) == IF m \in ToSet(Queues) THEN "queue" ELSE m

Top == Last(stack)
SetTop(f) == stack' = Append(Front(stack), f)
Calling == stack # << >>

(* A context, with the ones it was made from; context.Context.Err. *)
Chain(c) == IF c = 0 THEN {0} ELSE txs[c].chain
Err(c) == Chain(c) \cap cancelled # {}

(* lookupTx, lookupRootTx: the levels of the transaction in a context, of  *)
(* which the outermost one is the first, and holds what is changed.        *)
Levels(m, c) == {t \in Chain(c) \ {0} : Type(txs[t].mgr) = Type(m)}
lookupRootTx(m, c) == Min(Levels(m, c))

NoCall == [prog |-> "none", pc |-> "none", ctx |-> 0, mgr |-> "none", txs |-> << >>,
           tx |-> 0, n |-> 0, arg |-> 0, was |-> {}, alone |-> FALSE, err |-> FALSE]

----------------------------------------------------------------------------
Init == /\ store = [m \in Managers |-> [d \in Data |-> 0]]
        /\ txs = << >>
        /\ cancelled = {}
        /\ stack = << >>
        /\ made = 0
        /\ faults = 0
        /\ called = {}
        /\ ret = NoCall

Fault == faults < MaxFaults /\ faults' = faults + 1

(* A deferred Finish is due for each transaction the call has begun. *)
Fails == SetTop([Top EXCEPT !.pc = "finish", !.err = TRUE])

(* Manager.BeginTx.  The caller goes on as f, with a Finish deferred.      *)
Begun(m, c) == Append(txs, [mgr |-> m, chain |-> Chain(c) \cup {Len(txs) + 1},
                            done |-> FALSE, buf |-> << >>, acts |-> {}])
BeginTx(m, c, f) == /\ ~Err(c)
                    /\ txs' = Begun(m, c)
                    /\ SetTop([f EXCEPT !.txs = Append(@, Len(txs) + 1)])

(* BeginTx that fails: the context is cancelled, or the driver fails. *)
BeginFails(m, c) == /\ IF Err(c) THEN UNCHANGED faults ELSE m \in Drivers /\ Fault
                    /\ Fails
                    /\ UNCHANGED txs

(* Manager.Q: a change made in a context of transactions ts, with the      *)
(* levels ls, goes to the outermost one.                                   *)
Write(ts, ls, d) == txs' = [ts EXCEPT ![Min(ls)].buf = Append(@, [d |-> d, n |-> 1])]

----------------------------------------------------------------------------
(* Calls: of use cases with a transaction of Manager m, of                 *)
(* FanOutExchange.Publish, and of Migrate and MigrateDown.  Of the calls   *)
(* at the outermost level one is looked at, or any number of migrations:   *)
(* of what went before, they only meet with what a migration has stored.   *)
Call(prog, m, n, arg) ==
    LET c == IF Calling THEN Last(Top.txs) ELSE 0
        needs == CASE prog = "usecase" -> 1 [] prog = "fanout" -> Len(Queues) [] OTHER -> 2
    IN  /\ Len(stack) < MaxDepth
        /\ Calling => Top.prog = "usecase" /\ Top.pc = "body"
        /\ (IF Calling THEN Len(txs) ELSE 0) + needs <= MaxTx
        /\ prog = "fanout" => made < MaxData
        /\ made' = IF prog = "fanout" THEN made + 1 ELSE made
        /\ stack' = Append(stack,
              [NoCall EXCEPT !.prog = prog, !.pc = "begin", !.ctx = c, !.mgr = m, !.n = n,
                             !.arg = arg, !.was = {v \in Data : store["state"][v] > 0},
                             !.alone = Levels(m, c) = {}])
        /\ txs' = IF Calling THEN txs ELSE << >>
        /\ cancelled' = IF Calling THEN cancelled ELSE {}
        /\ called' = called \cup {prog}
        /\ ret' = NoCall
        /\ UNCHANGED <<store, faults>>

Migrations == {"up", "down"}
UseCase == /\ Calling \/ called = {}
           /\ \E m \in {"steps", Queues[1]} : Call("usecase", m, 0, 0)
Publish == (Calling \/ called = {}) /\ Call("fanout", Queues[1], 1, made + 1)
Migrate == ~Calling /\ called \subseteq Migrations /\ Call("up", "state", 1, 0)
MigrateDown == /\ ~Calling /\ called \subseteq Migrations
               /\ \E target \in 0..Versions :
                     Call("down", "state", Versions, target)

(* The context the outermost call was given, or one that a use case makes  *)
(* from its own, is cancelled.                                             *)
Cancel(c) == /\ Calling
             /\ \/ c = 0
                \/ \E i \in DOMAIN stack : stack[i].prog = "usecase" /\ c \in ToSet(stack[i].txs)
             /\ Fault
             /\ c \notin cancelled
             /\ cancelled' = cancelled \cup {c}
             /\ UNCHANGED <<store, txs, stack, made, called, ret>>

(* The process that migrates dies: what is not committed is lost. *)
Crash == /\ Calling
         /\ Top.prog \in Migrations
         /\ Fault
         /\ stack' = << >>
         /\ txs' = << >>
         /\ UNCHANGED <<store, cancelled, made, called, ret>>

----------------------------------------------------------------------------
(* A use case begins its transaction. *)
UseBegin ==
    /\ Calling /\ Top.prog = "usecase" /\ Top.pc = "begin"
    /\ \/ /\ BeginTx(Top.mgr, Top.ctx, [Top EXCEPT !.pc = "body", !.tx = Len(txs) + 1])
          /\ UNCHANGED faults
       \/ BeginFails(Top.mgr, Top.ctx)
    /\ UNCHANGED <<store, cancelled, made, called, ret>>

(* A use case changes something, and says with OnRollback how to undo it.  *)
(* OnRollback refuses when the transaction is done, which the caller may   *)
(* take for an error or not.                                               *)
Act ==
    LET root == lookupRootTx("steps", Top.tx)
        d == made + 1
    IN  /\ Calling /\ Top.prog = "usecase" /\ Top.pc = "body" /\ Top.mgr = "steps"
        /\ made < MaxData
        /\ made' = d
        /\ store' = [store EXCEPT !["steps"][d] = 1]
        /\ IF txs[root].done
           THEN (UNCHANGED stack \/ Fails) /\ UNCHANGED txs
           ELSE /\ txs' = [txs EXCEPT ![root].buf = Append(@, [d |-> d, n |-> 1]),
                                      ![root].acts = @ \cup {d}]
                /\ UNCHANGED stack
        /\ UNCHANGED <<cancelled, faults, called, ret>>

(* Queue.Publish within a use case. *)
QueuePublish ==
    /\ Calling /\ Top.prog = "usecase" /\ Top.pc = "body" /\ Top.mgr # "steps"
    /\ made < MaxData
    /\ IF Err(Top.tx)
       THEN Fails /\ UNCHANGED <<txs, made>>
       ELSE /\ made' = made + 1
            /\ Write(txs, Levels(Top.mgr, Top.tx), made + 1)
            /\ UNCHANGED stack
    /\ UNCHANGED <<store, cancelled, faults, called, ret>>

UseReturn ==
    /\ Calling /\ Top.prog = "usecase" /\ Top.pc = "body"
    /\ \E err \in BOOLEAN : SetTop([Top EXCEPT !.pc = "finish", !.err = err])
    /\ UNCHANGED <<store, txs, cancelled, made, faults, called, ret>>

(* FanOutExchange.eachQueue, one round: BeginTx of the next queue, in the  *)
(* context that Publish was given, and a Publish to it, which a Blocking   *)
(* queue refuses within a transaction.                                     *)
eachQueue ==
    LET m == Queues[Top.n]
        t == Len(txs) + 1
    IN  /\ Calling /\ Top.prog = "fanout" /\ Top.pc = "begin"
        /\ \/ /\ ~Err(Top.ctx)
              /\ Write(Begun(m, Top.ctx), Levels(m, Top.ctx) \cup {t}, Top.arg)
              /\ SetTop([Top EXCEPT !.txs = Append(@, t), !.n = @ + 1,
                                    !.pc = IF Top.n = Len(Queues) THEN "finish" ELSE @])
              /\ UNCHANGED faults
           \/ /\ BeginTx(m, Top.ctx, [Top EXCEPT !.pc = "finish", !.err = TRUE])
              /\ UNCHANGED faults
           \/ BeginFails(m, Top.ctx)
        /\ UNCHANGED <<store, cancelled, made, called, ret>>

----------------------------------------------------------------------------
(* Migrator.validate: the recorded steps are the first ones. *)
validate == \A v \in 2..Versions : store["state"][v] > 0 => store["state"][v - 1] > 0

(* A bug: the transactions are begun in the other order. *)
MigrateBeginSwapped ==
    LET m == IF Top.txs = << >> THEN "resource" ELSE "state"
    IN  /\ Calling /\ Top.prog \in Migrations /\ Top.pc = "begin"
        /\ \/ /\ BeginTx(m, Top.ctx, [Top EXCEPT !.pc = IF m = "state" THEN "body" ELSE @])
              /\ UNCHANGED faults
           \/ BeginFails(m, Top.ctx)
        /\ UNCHANGED <<store, cancelled, made, called, ret>>

(* Migrate and MigrateDown, up to their loops: after validate the          *)
(* transaction of the state and then the one of the resource begin.        *)
MigrateBegin ==
    LET m == IF Top.txs = << >> THEN "state" ELSE "resource"
    IN  /\ Calling /\ Top.prog \in Migrations /\ Top.pc = "begin"
        /\ IF validate
           THEN \/ /\ BeginTx(m, Top.ctx,
                             [Top EXCEPT !.pc = IF m = "resource" THEN "body" ELSE @])
                   /\ UNCHANGED faults
                \/ BeginFails(m, Top.ctx)
           ELSE Fails /\ UNCHANGED <<txs, faults>>
        /\ UNCHANGED <<store, cancelled, made, called, ret>>

(* The transaction the call has begun with Manager m. *)
TxOf(m) == CHOOSE t \in ToSet(Top.txs) : txs[t].mgr = m

(* up, down: one round of the loops of Migrate, from the first version on, *)
(* and of MigrateDown, from the last one down to the target.  A round      *)
(* looks up a version that no earlier one has touched, so that what is in  *)
(* the store counts.  The step of the migration, or the repository of the  *)
(* states, may fail.  Nobody writes a state that is Dirty.                 *)
stage ==
    LET v == Top.n
        sign == IF Top.prog = "up" THEN 1 ELSE -1
        change == [d |-> v, n |-> sign]
    IN  /\ Calling /\ Top.prog \in Migrations /\ Top.pc = "body"
        /\ IF v \notin 1..Versions \/ (Top.prog = "down" /\ v <= Top.arg)
           THEN SetTop([Top EXCEPT !.pc = "finish"]) /\ UNCHANGED txs
           ELSE IF (Top.prog = "up") = (store["state"][v] > 0)
           THEN SetTop([Top EXCEPT !.n = @ + sign]) /\ UNCHANGED txs
           ELSE \/ /\ txs' = [txs EXCEPT ![TxOf("resource")].buf = Append(@, change),
                                         ![TxOf("state")].buf = Append(@, change)]
                   /\ SetTop([Top EXCEPT !.n = @ + sign])
                \/ Fails /\ UNCHANGED txs
        /\ UNCHANGED <<store, cancelled, made, faults, called, ret>>

----------------------------------------------------------------------------
(* Of the call on top, the Finish that is due, and what is left after it. *)
Due == Last(Top.txs)
DueManager == txs[Due].mgr
DueRoot == lookupRootTx(DueManager, Due)
Finished(err, pc) == [Top EXCEPT !.txs = Front(@), !.err = err, !.pc = pc, !.tx = DueRoot]

(* What the changes cs, each of them 1 or -1, make of a datum, and what a  *)
(* resource holds after them.                                              *)
Delta(cs, d) == LET by(n) == {i \in DOMAIN cs : cs[i] = [d |-> d, n |-> n]}
                IN  Cardinality(by(1)) - Cardinality(by(-1))
Applied(m, cs) == [store EXCEPT ![m] = [d \in Data |-> store[m][d] + Delta(cs, d)]]

(* A bug: only the level that is rolled back is done. *)
RollbackTxInner ==
    /\ txs' = [txs EXCEPT ![Due].done = TRUE,
                          ![DueRoot].buf = IF DueManager = "steps" THEN @ ELSE << >>]
    /\ cancelled' = cancelled \cup {Due}
    /\ SetTop(Finished(TRUE, IF DueManager = "steps" THEN "undo" ELSE "finish"))
    /\ UNCHANGED <<store, faults>>

(* Manager.RollbackTx: all levels are done, and the transaction is rolled  *)
(* back, whoever began it.                                                 *)
RollbackTx ==
    LET levels == Levels(DueManager, Due)
    IN  /\ txs' = [t \in DOMAIN txs |->
                      [txs[t] EXCEPT
                          !.done = @ \/ t \in levels,
                          !.buf = IF t = DueRoot /\ DueManager # "steps" THEN << >> ELSE @]]
        /\ cancelled' = cancelled \cup levels
        /\ SetTop(Finished(TRUE, IF DueManager = "steps" THEN "undo" ELSE "finish"))
        /\ UNCHANGED <<store, faults>>

(* Manager.CommitTx: an inner level is only done; the outermost one        *)
(* commits, unless its context is cancelled.                               *)
CommitTx ==
    IF Due = DueRoot /\ Err(Due)
    THEN RollbackTx
    ELSE /\ txs' = [txs EXCEPT ![Due].done = TRUE]
         /\ cancelled' = cancelled \cup {Due}
         /\ IF Due # DueRoot
            THEN SetTop(Finished(Err(Due), "finish")) /\ UNCHANGED <<store, faults>>
            ELSE \/ /\ store' = IF DueManager = "steps" THEN store
                                ELSE Applied(DueManager, txs[Due].buf)
                    /\ SetTop(Finished(FALSE, "finish"))
                    /\ UNCHANGED faults
                 \/ /\ DueManager \in Drivers
                    /\ Fault
                    /\ SetTop(Finished(TRUE, "finish"))
                    /\ UNCHANGED store

(* A bug: the deferred Finish looks at an error that is never set. *)
FinishTxCommits ==
    /\ Calling /\ Top.pc = "finish" /\ Top.txs # << >>
    /\ IF txs[Due].done
       THEN SetTop(Finished(TRUE, "finish")) /\ UNCHANGED <<store, txs, cancelled, faults>>
       ELSE CommitTx
    /\ UNCHANGED <<made, called, ret>>

(* comproto.FinishTx, txkit.Finish: commit, or roll back if there was an   *)
(* error; an error of the commit is one for the Finish that is due next.   *)
(* A level that is done already is ErrTxDone for both.                     *)
FinishTx ==
    /\ Calling /\ Top.pc = "finish" /\ Top.txs # << >>
    /\ IF txs[Due].done
       THEN SetTop(Finished(TRUE, "finish")) /\ UNCHANGED <<store, txs, cancelled, faults>>
       ELSE IF Top.err THEN RollbackTx ELSE CommitTx
    /\ UNCHANGED <<made, called, ret>>

(* A bug: the steps run in the order they were registered. *)
UndoFirst ==
    LET root == Top.tx
        step == Head(txs[root].buf)
    IN  /\ Calling /\ Top.pc = "undo"
        /\ IF txs[root].buf = << >>
           THEN SetTop([Top EXCEPT !.pc = "finish"]) /\ UNCHANGED <<store, txs, faults>>
           ELSE /\ txs' = [txs EXCEPT ![root].buf = Tail(@)]
                /\ store' = [store EXCEPT !["steps"][step.d] = @ - step.n]
                /\ UNCHANGED <<stack, faults>>
        /\ UNCHANGED <<cancelled, made, called, ret>>

(* Teardown.Finish: the steps to undo, the last one first.  A step that    *)
(* fails is an error, and the others run all the same.                     *)
Undo ==
    LET root == Top.tx
        step == Last(txs[root].buf)
    IN  /\ Calling /\ Top.pc = "undo"
        /\ IF txs[root].buf = << >>
           THEN SetTop([Top EXCEPT !.pc = "finish"]) /\ UNCHANGED <<store, txs, faults>>
           ELSE /\ UNCHANGED stack
                /\ \/ /\ store' = [store EXCEPT !["steps"][step.d] = @ - step.n]
                      /\ txs' = [txs EXCEPT ![root].buf = Front(@)]
                      /\ UNCHANGED faults
                   \/ /\ Fault
                      /\ txs' = [txs EXCEPT ![root].buf = Front(@),
                                            ![root].acts = @ \ {step.d}]
                      /\ UNCHANGED store
        /\ UNCHANGED <<cancelled, made, called, ret>>

(* The call returns.  The caller returns its error too, or goes on. *)
Return ==
    /\ Calling /\ Top.pc = "finish" /\ Top.txs = << >>
    /\ ret' = Top
    /\ LET callers == Front(stack)
       IN  \/ stack' = callers
          \/ /\ callers # << >> /\ Top.err
             /\ stack' = Append(Front(callers),
                                [Last(callers) EXCEPT !.pc = "finish", !.err = TRUE])
    /\ UNCHANGED <<store, txs, cancelled, made, faults, called>>

Next == \/ UseCase \/ Publish \/ Migrate \/ MigrateDown
        \/ \E c \in 0..Len(txs) : Cancel(c)
        \/ Crash
        \/ UseBegin \/ Act \/ QueuePublish \/ UseReturn
        \/ eachQueue
        \/ MigrateBegin \/ stage
        \/ FinishTx \/ Undo \/ Return

Spec == Init /\ [][Next]_vars

----------------------------------------------------------------------------
(* The state has its type, and the context of every level that is done is  *)
(* cancelled, so that it is released and nothing begins in it (the         *)
(* deferred cancels of CommitTx and RollbackTx).                           *)
TypeOK ==
    /\ store \in [Managers -> [Data -> Int]]
    /\ cancelled \subseteq 0..MaxTx
    /\ made \in 0..MaxData /\ faults \in 0..MaxFaults
    /\ \A t \in DOMAIN txs : /\ txs[t].mgr \in Managers
                             /\ txs[t].done => t \in cancelled

(* A use case that has returned without an error has all the changes that  *)
(* it and the calls within it registered, and one that returned an error   *)
(* has none of them (README.md of txkit: "ensures all stateful changes are *)
(* undone"), wherever contexts were cancelled and errors swallowed, apart  *)
(* from changes whose own undo failed (Begin, OnRollback, Finish).  Every  *)
(* variable has its type, and the context of a finished level is cancelled.*)
AllOrNothing ==
    /\ TypeOK
    /\ ret.prog = "usecase" /\ ret.mgr = "steps" /\ ret.alone /\ ret.tx # 0 =>
          \A d \in txs[ret.tx].acts :
              store["steps"][d] = IF ret.err THEN 0 ELSE 1

(* Changes are undone in the reverse order (Teardown.Finish): while one is *)
(* there, the ones before it that can be undone are there too.             *)
LastInFirstOut ==
    \A t \in DOMAIN txs : \A i, j \in txs[t].acts :
        i < j /\ store["steps"][j] = 1 => store["steps"][i] = 1

(* A FanOutExchange.Publish outside of a transaction of a queue: when it   *)
(* returned nil every queue has the message, once; when it failed without  *)
(* a fault no queue has it, and otherwise the last queues may, up to the   *)
(* one that failed to commit.                                              *)
FanOutCommits ==
    ret.prog = "fanout" /\ ret.alone =>
        LET times(i) == store[Queues[i]][ret.arg]
        IN  /\ \A i \in DOMAIN Queues : times(i) \in 0..1
            /\ ~ret.err => \A i \in DOMAIN Queues : times(i) = 1
            /\ ret.err => times(1) = 0
            /\ \A i \in DOMAIN Queues : \A j \in 1..(i - 1) : times(j) <= times(i)
            /\ ret.err /\ faults = 0 => \A i \in DOMAIN Queues : times(i) = 0

(* "It will either all succeed or all fail together": every queue has the  *)
(* message when FanOutExchange.Publish returned nil, and none when it      *)
(* returned an error.                                                      *)
FanOutAllOrNone ==
    ret.prog = "fanout" /\ ret.alone =>
        \A i \in DOMAIN Queues : store[Queues[i]][ret.arg] = IF ret.err THEN 0 ELSE 1

(* A step that is recorded has its effect, as long as nobody migrates      *)
(* down, even if a migration dies between its two commits or one of them   *)
(* fails (Migrate commits the resource first); and without faults what is  *)
(* recorded is what is in effect whenever no call goes on.                 *)
NeverAhead ==
    \A v \in 1..Versions :
        /\ "down" \notin called => store["state"][v] <= store["resource"][v]
        /\ faults = 0 /\ ~Calling => store["state"][v] = store["resource"][v]

(* A Migrate that returned nil has recorded every step, a MigrateDown that *)
(* returned nil has kept the steps up to its target and no other; one that *)
(* failed has changed nothing that is recorded.                            *)
MigrateResult ==
    ret.prog \in Migrations =>
        {v \in Data : store["state"][v] > 0} =
            IF ret.err THEN ret.was
            ELSE IF ret.prog = "up" THEN 1..Versions
            ELSE ret.was \cap (1..ret.arg)

(* A migration records what it did, no more and no less: the two parts     *)
(* together (Migrator.Migrate, MigrateDown).                               *)
MigrationRecorded == NeverAhead /\ MigrateResult
=============================================================================
