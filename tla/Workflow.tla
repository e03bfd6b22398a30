------------------------------ MODULE Workflow ------------------------------
(***************************************************************************)
(* workflow.Runtime (pkg/workflow): processes whose state is their history *)
(* of events, executed by the workers of a queue of ProcessExecutions,     *)
(* each process under a lock of its own (memory.LockerFactory).            *)
(*                                                                         *)
(* An execution replays the steps of the process's definition: a step with *)
(* an event is skipped, the first one without is carried out.  An          *)
(* execution that fails or is suspended is tried again, then queued again. *)
(* A worker takes an entry of the queue with a transaction (see Queue):    *)
(* what is published meanwhile appears with the ACK, and goes with a NACK. *)
(*                                                                         *)
(* Definitions are sequences of steps; variables, conditions and the       *)
(* values participants work on are left out, apart from the fact that      *)
(* Spawn forwards variables to its child.  Times are left out: an entry    *)
(* that is not due yet, and one that is too old, is a choice.              *)
(***************************************************************************)
EXTENDS Naturals, Sequences, FiniteSets, SequencesExt

CONSTANTS Processes, Root,   \* process ids; the one clients bind and schedule
          Workers, None,
          Defs,              \* definitions: name -> sequence of steps
          RootDefs,          \* the definitions clients bind
          MaxUses,           \* definitions of one process: bound and replaced ones
          MaxLen,            \* the steps of a definition
          MaxEntries,        \* entries of one process told apart
          MaxSchedules,      \* calls of Schedule by clients
          MaxRetries,        \* RetryStrategy: attempts after the first one
          MaxFaults          \* errors and cancellations

ASSUME ProcessesAssumption == Root \in Processes /\ None \notin Workers \cup Processes
ASSUME BoundsAssumption == /\ MaxEntries \in Nat \ {0}
                           /\ {MaxSchedules, MaxRetries, MaxFaults} \subseteq Nat
                           /\ {MaxUses, MaxLen} \subseteq Nat \ {0}

Ops == {"participant", "replace", "spawn", "join", "sleep"}
Steps == [op : Ops, child : Processes \cup {None}, def : DOMAIN Defs \cup {None}]
ASSUME DefsAssumption ==
    /\ RootDefs \subseteq DOMAIN Defs
    /\ \A d \in DOMAIN Defs :
          /\ Defs[d] \in Seq(Steps) /\ Len(Defs[d]) <= MaxLen
          /\ \A i \in DOMAIN Defs[d] :
                /\ Defs[d][i].op = "spawn" => Defs[d][i].child \in Processes
                /\ Defs[d][i].op \in {"spawn", "replace"} => Defs[d][i].def \in DOMAIN Defs

VARIABLES log,       \* Events: the history of each process
          queue,     \* ProcessExecutionQueue: free entries of each process
          lock,      \* ProcessLockers: who holds a process
          wk,        \* the workers
          awake,     \* the condition Sleep waits for
          schedules, faults,
          dropped,   \* history: processes that had an entry dropped for its age
          withdrawn, \* history: processes whose schedule went with a NACK
          calls      \* history: how often each participant was called

vars == <<log, queue, lock, wk, awake, schedules, faults, dropped, withdrawn, calls>>
envVars == <<awake, schedules>>

Paths == (1..MaxUses) \X (1..MaxLen)
NoPath == <<0, 0>>

Event(type, path, arg) == [type |-> type, path |-> path, arg |-> arg]

Recorded(p) == ToSet(log[p])

(* The EventUseDefinitions of a process, of which the last one counts; the *)
(* EventID of the n-th one, which the paths of its steps begin with, is n. *)
Use(n, d) == Event("use", <<n, 0>>, d)
Uses(p) == {e \in Recorded(p) : e.type = "use"}
LastUse(p) == CHOOSE e \in Uses(p) : \A u \in Uses(p) : u.path[1] <= e.path[1]

(* Complete.IsCompleted. *)
IsCompleted(p) == Event("completed", NoPath, None) \in Recorded(p)

(* What Create leaves of a history: an event that repeats one with the same *)
(* path changes nothing that is read, and is not told apart.                *)
Created(p, e) == IF e \in Recorded(p) THEN log[p] ELSE Append(log[p], e)

(* Publish: the entries of a process, of which MaxEntries are told apart. *)
Published(p, n) == IF n < MaxEntries THEN n + 1 ELSE n

(* memory.Lock: TryLock takes the place in the semaphore or fails at once; *)
(* Unlock gives it back.                                                   *)
TryLock(p, w) == lock[p] = None /\ lock' = [lock EXCEPT ![p] = w]
Unlocked(p) == [lock EXCEPT ![p] = None]

Idle == [pc |-> "idle", pid |-> None, n |-> 0, def |-> None, i |-> 0, try |-> 0,
         out |-> {}, res |-> "none"]
Become(w, r) == wk' = [wk EXCEPT ![w] = r]

----------------------------------------------------------------------------
Init == /\ log = [p \in Processes |-> << >>]
        /\ queue = [p \in Processes |-> 0]
        /\ lock = [p \in Processes |-> None]
        /\ wk = [w \in Workers |-> Idle]
        /\ awake = FALSE
        /\ schedules = 0
        /\ faults = 0
        /\ dropped = {}
        /\ withdrawn = {}
        /\ calls = [p \in Processes |-> [x \in Paths |-> 0]]

(* Bind: the first definition stays. *)
Bind(d) == /\ Uses(Root) = {}
           /\ log' = [log EXCEPT ![Root] = Append(@, Use(1, d))]
           /\ UNCHANGED <<queue, lock, wk, faults, dropped, withdrawn, calls, envVars>>

(* Schedule: one entry, or one more if the broadcast failed after the      *)
(* entry was published and Schedule was tried again.                       *)
Schedule == /\ schedules < MaxSchedules
            /\ \E n \in {queue[Root], Published(Root, queue[Root])} :
                  queue' = [queue EXCEPT ![Root] = Published(Root, n)]
            /\ schedules' = schedules + 1
            /\ UNCHANGED <<log, lock, wk, awake, faults, dropped, withdrawn, calls>>

(* What Sleep waits for happens. *)
Wake == /\ ~awake
        /\ awake' = TRUE
        /\ UNCHANGED <<log, queue, lock, wk, schedules, faults, dropped, withdrawn, calls>>

----------------------------------------------------------------------------
(* runListenToScheduling: the worker gets an entry. *)
Take(w, p) == /\ wk[w].pc = "idle"
              /\ queue[p] > 0
              /\ queue' = [queue EXCEPT ![p] = @ - 1]
              /\ Become(w, [Idle EXCEPT !.pc = "taken", !.pid = p])
              /\ UNCHANGED <<log, lock, faults, dropped, withdrawn, calls, envVars>>

(* guardAgainstEarlyExecution: the entry is not due and something has      *)
(* changed, so that it goes back.                                          *)
GiveBack(w) == /\ wk[w].pc = "taken"
               /\ queue' = [queue EXCEPT ![wk[w].pid] = Published(wk[w].pid, @)]
               /\ Become(w, Idle)
               /\ UNCHANGED <<log, lock, faults, dropped, withdrawn, calls, envVars>>

(* execute, from the label processing: the definition of the last use is   *)
(* executed from its first step; or back from it with an error.            *)
Processing(w, use) ==
    Become(w, [wk[w] EXCEPT !.pc = "step", !.n = use.path[1], !.def = use.arg, !.i = 1,
                            !.res = "none"])
Return(w, res) == Become(w, [wk[w] EXCEPT !.pc = "unlock", !.res = res])
Lookup(w) == IF Uses(wk[w].pid) = {} THEN Return(w, "nodef")
                                     ELSE Processing(w, LastUse(wk[w].pid))

(* A bug: the answer of TryLock is not looked at. *)
tryLockBlind(w) ==
    /\ wk[w].pc \in {"taken", "lock"}
    /\ lock' = [lock EXCEPT ![wk[w].pid] = w]
    /\ Lookup(w)
    /\ UNCHANGED <<log, queue, faults, dropped, withdrawn, calls, envVars>>

(* execute, when the entry is due (guardAgainstEarlyExecution): tryLock    *)
(* and the lookup of the definition, to which only Bind may add meanwhile. *)
(* A process that is busy is ErrAlreadyRunningProcess.                     *)
tryLock(w) ==
    LET p == wk[w].pid
    IN  /\ wk[w].pc \in {"taken", "lock"}
        /\ \/ /\ TryLock(p, w)
              /\ Lookup(w)
           \/ /\ lock[p] # None
              /\ Become(w, [wk[w] EXCEPT !.pc = "handle", !.res = "busy"])
              /\ UNCHANGED lock
        /\ UNCHANGED <<log, queue, faults, dropped, withdrawn, calls, envVars>>

(* The definition a worker executes, its step and the path of the step. *)
Definition(w) == Defs[wk[w].def]
AtStep(w, op) == /\ wk[w].pc = "step"
                 /\ wk[w].i <= Len(Definition(w))
                 /\ Definition(w)[wk[w].i].op = op
Step(w) == Definition(w)[wk[w].i]
CurrentPath(w) == <<wk[w].n, wk[w].i>>

(* Sequence.Execute: on to the next step. *)
Advance(w) == Become(w, [wk[w] EXCEPT !.pc = "step", !.i = @ + 1])

(* One of the errors that may happen, of which there are MaxFaults; some   *)
(* are not worth a retry (ErrIsFatal).                                     *)
Fails(w) == /\ faults < MaxFaults
            /\ faults' = faults + 1
            /\ \E res \in {"err", "fatal"} : Return(w, res)

(* executeWR: the step has its event, and is skipped. *)
Replay(w) ==
    /\ AtStep(w, "participant")
    /\ Event("participant", CurrentPath(w), None) \in Recorded(wk[w].pid)
    /\ Advance(w)
    /\ UNCHANGED <<log, queue, lock, faults, dropped, withdrawn, calls, envVars>>

(* A bug: the history is not looked at before the participant is called. *)
DoAlways(w) ==
    /\ AtStep(w, "participant") \/ AtStep(w, "replace")
    /\ calls' = [calls EXCEPT ![wk[w].pid][CurrentPath(w)] = @ + 1]
    /\ Become(w, [wk[w] EXCEPT !.pc = "called"])
    /\ UNCHANGED <<log, queue, lock, faults, dropped, withdrawn, envVars>>

(* executeWR, ExecuteParticipant.execute: the function is called, and does *)
(* what it does; nothing of it is recorded yet.                            *)
Do(w) ==
    /\ AtStep(w, "participant") \/ AtStep(w, "replace")
    /\ Event("participant", CurrentPath(w), None) \notin Recorded(wk[w].pid)
    /\ calls' = [calls EXCEPT ![wk[w].pid][CurrentPath(w)] = @ + 1]
    /\ Become(w, [wk[w] EXCEPT !.pc = "called"])
    /\ UNCHANGED <<log, queue, lock, faults, dropped, withdrawn, envVars>>

(* executeWR: the function is done.  It, or the transaction that records   *)
(* it, may have failed.                                                    *)
DoDone(w) ==
    LET p == wk[w].pid
    IN  /\ wk[w].pc = "called"
        /\ \/ /\ Step(w).op = "participant"
              /\ log' = [log EXCEPT
                            ![p] = Append(@, Event("participant", CurrentPath(w), None))]
              /\ Advance(w)
              /\ UNCHANGED faults
           \/ Fails(w) /\ UNCHANGED log
        /\ UNCHANGED <<queue, lock, dropped, withdrawn, calls, envVars>>

(* Replace.RuntimeSignalExecute: the participant has returned Replace, an  *)
(* error that execute carries out before it starts again.                  *)
Replace(w) ==
    LET use == Use(wk[w].n + 1, Step(w).def)
    IN  /\ wk[w].pc = "called"
        /\ Step(w).op = "replace"
        /\ wk[w].n < MaxUses
        /\ log' = [log EXCEPT ![wk[w].pid] = Append(@, use)]
        /\ Processing(w, use)
        /\ UNCHANGED <<queue, lock, faults, dropped, withdrawn, calls, envVars>>

(* Sleep.Execute. *)
SleepStep(w) == /\ AtStep(w, "sleep")
                /\ IF awake THEN Advance(w) ELSE Return(w, "suspend")
                /\ UNCHANGED <<log, queue, lock, faults, dropped, withdrawn, calls, envVars>>

----------------------------------------------------------------------------
(* Spawn.ensureEvents: the event of the parent, and the definition and the *)
(* variables of a child without history, in one transaction.  An error of  *)
(* Bind or of forwardVars does not reach the deferred FinishOnePhaseCommit *)
(* and what was done before it is committed.                               *)
SpawnEvents(w) ==
    LET p == wk[w].pid
        c == Step(w).child
        spawned == Created(p, Event("spawn", NoPath, c))
        use == Use(1, Step(w).def)
        forwarded == Event("vars", NoPath, None)
    IN  /\ AtStep(w, "spawn")
        /\ \/ /\ log' = [log EXCEPT ![p] = spawned,
                                    ![c] = IF @ = << >> THEN <<use, forwarded>> ELSE @]
              /\ Become(w, [wk[w] EXCEPT !.pc = "child"])
              /\ UNCHANGED faults
           \/ /\ log[c] = << >>
              /\ \E history \in {<< >>, <<use>>} :
                    log' = [log EXCEPT ![p] = spawned, ![c] = history]
              /\ Fails(w)
           \/ Fails(w) /\ UNCHANGED log
        /\ UNCHANGED <<queue, lock, dropped, withdrawn, calls, envVars>>

(* Spawn.scheduleChild: a child that is locked is being executed. *)
ChildTryLock(w) ==
    LET c == Step(w).child
    IN  /\ wk[w].pc = "child"
        /\ \/ TryLock(c, w) /\ Become(w, [wk[w] EXCEPT !.pc = "probe"])
           \/ lock[c] # None /\ Advance(w) /\ UNCHANGED lock
        /\ UNCHANGED <<log, queue, faults, dropped, withdrawn, calls, envVars>>

ChildUnlock(w) == /\ wk[w].pc = "probe"
                  /\ lock' = Unlocked(Step(w).child)
                  /\ Become(w, [wk[w] EXCEPT !.pc = "probed"])
                  /\ UNCHANGED <<log, queue, faults, dropped, withdrawn, calls, envVars>>

(* Spawn.scheduleChild: the schedule goes into the transaction of the      *)
(* parent's entry.                                                         *)
ScheduleChild(w) ==
    LET c == Step(w).child
    IN  /\ wk[w].pc = "probed"
        /\ Become(w, [wk[w] EXCEPT !.pc = "step", !.i = @ + 1,
                                   !.out = IF IsCompleted(c) THEN @ ELSE @ \cup {c}])
        /\ UNCHANGED <<log, queue, lock, faults, dropped, withdrawn, calls, envVars>>

(* Join, the scan of the history: it stops at the event of another Join.   *)
JoinOfAnother(w) ==
    {k \in DOMAIN log[wk[w].pid] : /\ log[wk[w].pid][k].type = "join"
                                   /\ log[wk[w].pid][k].path # CurrentPath(w)}
Scanned(w) == {k \in DOMAIN log[wk[w].pid] : \A m \in JoinOfAnother(w) : k < m}
Children(w) == {log[wk[w].pid][k].arg :
                   k \in {m \in Scanned(w) : log[wk[w].pid][m].type = "spawn"}}

(* A bug: the children are not looked at. *)
JoinNothing(w) == /\ AtStep(w, "join")
                  /\ Advance(w)
                  /\ UNCHANGED <<log, queue, lock, faults, dropped, withdrawn, calls, envVars>>

(* joinChild, joinAll: on when the child, or all of them, have completed.  *)
(* joinChild takes the event of any other Join for its own.                *)
JoinStep(w) ==
    LET p == wk[w].pid
        c == Step(w).child
        another == c # None /\ JoinOfAnother(w) # {}
        completed == IF c = None THEN \A x \in Children(w) : IsCompleted(x)
                                 ELSE IsCompleted(c)
    IN  /\ AtStep(w, "join")
        /\ IF another \/ completed THEN Advance(w) ELSE Return(w, "suspend")
        /\ log' = IF completed /\ ~another
                  THEN [log EXCEPT ![p] = Created(p, Event("join", CurrentPath(w), None))]
                  ELSE log
        /\ UNCHANGED <<queue, lock, faults, dropped, withdrawn, calls, envVars>>

----------------------------------------------------------------------------
(* execute: all steps are done; Complete.RuntimeSignalExecute. *)
Complete(w) ==
    LET p == wk[w].pid
    IN  /\ wk[w].pc = "step"
        /\ wk[w].i > Len(Definition(w))
        /\ log' = [log EXCEPT ![p] = Created(p, Event("completed", NoPath, None))]
        /\ Return(w, "ok")
        /\ UNCHANGED <<queue, lock, faults, dropped, withdrawn, calls, envVars>>

(* execute, the deferred unlock, and withRetry around it. *)
Unlock(w) ==
    LET again == wk[w].res \in {"err", "suspend"} /\ wk[w].try < MaxRetries
    IN  /\ wk[w].pc = "unlock"
        /\ lock' = Unlocked(wk[w].pid)
        /\ Become(w, [wk[w] EXCEPT !.pc = IF again THEN "lock" ELSE "handle",
                                   !.try = IF again THEN @ + 1 ELSE @])
        /\ UNCHANGED <<log, queue, faults, dropped, withdrawn, calls, envVars>>

(* msg.ACK: the entry goes, what was published with it comes. *)
Acked(w, more) ==
    /\ queue' = [p \in Processes |->
                    IF p \in wk[w].out \cup more THEN Published(p, queue[p])
                                                 ELSE queue[p]]
    /\ Become(w, Idle)

(* A bug: a suspended process is acknowledged and not queued again. *)
HandleResultDrop(w) ==
    /\ wk[w].pc = "handle"
    /\ Acked(w, IF wk[w].res \in {"ok", "busy", "suspend"} THEN {} ELSE {wk[w].pid})
    /\ UNCHANGED <<log, lock, faults, dropped, withdrawn, calls, envVars>>

(* runSignalHandler, after Execute: entries of completed and of busy       *)
(* processes go, others are queued again; an entry whose process has no    *)
(* definition is dropped when it is too old.                               *)
HandleResult(w) ==
    /\ wk[w].pc = "handle"
    /\ \/ /\ wk[w].res \in {"ok", "busy"}
          /\ Acked(w, {})
          /\ UNCHANGED dropped
       \/ /\ wk[w].res \in {"suspend", "err", "fatal", "nodef"}
          /\ Acked(w, {wk[w].pid})
          /\ UNCHANGED dropped
       \/ /\ wk[w].res = "nodef"
          /\ Acked(w, {})
          /\ dropped' = dropped \cup {wk[w].pid}
    /\ UNCHANGED <<log, lock, faults, withdrawn, calls, envVars>>

(* A bug: a cancelled worker acknowledges its entry. *)
CancelAcks(w) ==
    /\ wk[w].pc \notin {"idle", "handle"}
    /\ faults < MaxFaults
    /\ faults' = faults + 1
    /\ lock' = [p \in Processes |-> IF lock[p] = w THEN None ELSE lock[p]]
    /\ Become(w, Idle)
    /\ UNCHANGED <<log, queue, dropped, withdrawn, calls, envVars>>

(* The child whose lock tells whether it runs, and that is scheduled next. *)
Probing(w) == IF wk[w].pc \in {"probe", "probed"} THEN {Step(w).child} ELSE {}

(* The context of a worker is cancelled: the execution ends with an error, *)
(* its transactions are rolled back and its locks released, and nothing    *)
(* can be published, so that the entry goes back (NACK) without what was   *)
(* published with it.                                                      *)
Cancel(w) ==
    /\ wk[w].pc \notin {"idle", "handle"}
    /\ faults < MaxFaults
    /\ faults' = faults + 1
    /\ lock' = [p \in Processes |-> IF lock[p] = w THEN None ELSE lock[p]]
    /\ queue' = [queue EXCEPT ![wk[w].pid] = Published(wk[w].pid, @)]
    /\ Become(w, Idle)
    /\ withdrawn' = withdrawn \cup wk[w].out \cup Probing(w)
    /\ UNCHANGED <<log, dropped, calls, envVars>>

Execution(w) == \/ tryLock(w) \/ Complete(w) \/ Unlock(w)
                \/ HandleResult(w) \/ Replay(w) \/ Do(w) \/ DoDone(w) \/ Replace(w)
                \/ SleepStep(w) \/ SpawnEvents(w) \/ ChildTryLock(w) \/ ChildUnlock(w)
                \/ ScheduleChild(w) \/ JoinStep(w)

Next == \/ \E d \in RootDefs : Bind(d)
        \/ Schedule
        \/ Wake
        \/ \E w \in Workers : \/ \E p \in Processes : Take(w, p)
                              \/ GiveBack(w) \/ Execution(w) \/ Cancel(w)

Spec == Init /\ [][Next]_vars

(* A worker goes on with what it does.  The queue is sorted by StartTime   *)
(* and what is queued again comes after what is there, so that no process  *)
(* is passed over for ever, and its StartTime is reached in the end.       *)
Fairness == /\ \A w \in Workers : WF_vars(Execution(w))
            /\ \A p \in Processes :
                  /\ SF_vars(\E w \in Workers : Take(w, p))
                  /\ SF_vars(\E w \in Workers : wk[w].pid = p /\ tryLock(w))

FairSpec == Spec /\ Fairness

----------------------------------------------------------------------------
PCs == {"idle", "taken", "lock", "step", "called", "child", "probe", "probed",
        "unlock", "handle"}
Executing == PCs \ {"idle", "taken", "lock", "handle"}

(* The state has its type, and a worker that executes a process is the one *)
(* that holds its lock (tryLock to the deferred unlock of execute).        *)
TypeOK ==
    /\ \A p \in Processes : /\ queue[p] \in 0..MaxEntries
                            /\ lock[p] \in Workers \cup {None}
                            /\ \A e \in Uses(p) : e.path[1] \in 1..MaxUses
    /\ \A w \in Workers : /\ wk[w].pc \in PCs
                          /\ wk[w].out \subseteq Processes
                          /\ wk[w].pc \in Executing => lock[wk[w].pid] = w
                          /\ wk[w].pc = "probe" => lock[Step(w).child] = w

(* Whatever is delivered twice, retried or cancelled, a step of a process  *)
(* has one event in its history, and only a worker with the lock of the    *)
(* process executes it (executeWR).  Every variable has its type.          *)
RecordedOnce ==
    /\ TypeOK
    /\ \A p \in Processes : \A j, k \in DOMAIN log[p] :
          log[p][j].type = "participant" /\ log[p][j] = log[p][k] => j = k

(* A participant is called again only after an error or a cancellation:    *)
(* entries that are in the queue twice and executions that were suspended  *)
(* replay it ("makes retries, crashes, and double-delivery safe").         *)
CalledOnce == \A p \in Processes : \A x \in Paths : calls[p][x] <= 1 + faults

(* The child that the Join at step j of a definition is about, or all the  *)
(* children spawned before it, have completed.                             *)
Waited(def, j) == \A k \in 1..(j - 1) :
    def[k].op = "spawn" /\ def[j].child \in {None, def[k].child} => IsCompleted(def[k].child)

(* Another Join of the process got its event before the one at the path.   *)
Preceded(p, path) == \E k \in DOMAIN log[p] :
    /\ log[p][k].type = "join" /\ log[p][k].path # path
    /\ \A m \in DOMAIN log[p] : log[p][m] = Event("join", path, None) => k < m

(* The Join is done: it has waited, or takes the event of an earlier one   *)
(* for its own, or stops at it before it has seen its children.            *)
JoinDone(p, n, def, j) == Waited(def, j) \/ Preceded(p, <<n, j>>)

(* Nobody gets past the first Join of a process before its child, or all   *)
(* children spawned before it, have completed (joinChild, joinAll), nor    *)
(* past a later one before an earlier one has its event.                   *)
JoinWaits ==
    \A w \in Workers : wk[w].pc \in {"step", "called", "child", "probe", "probed"} =>
        \A j \in 1..(wk[w].i - 1) : Definition(w)[j].op = "join" =>
            JoinDone(wk[w].pid, wk[w].n, Definition(w), j)

(* Every Join waits, a later one too: "the second Spawn+Join{} is reached, *)
(* but bar is still blocked at stage2 -> suspend" (spawn_test.go:581).     *)
EveryJoinWaits ==
    \A w \in Workers : wk[w].pc \in {"step", "called", "child", "probe", "probed"} =>
        \A j \in 1..(wk[w].i - 1) :
            Definition(w)[j].op = "join" => Waited(Definition(w), j)

(* A completed process has done every step of its last definition.         *)
CompletedInFull ==
    \A p \in Processes : IsCompleted(p) =>
        LET def == Defs[LastUse(p).arg]
        IN  \A i \in DOMAIN def :
               CASE def[i].op = "participant" ->
                       Event("participant", <<LastUse(p).path[1], i>>, None) \in Recorded(p)
                 [] def[i].op = "spawn" -> log[def[i].child] # << >>
                 [] def[i].op = "join" -> JoinDone(p, LastUse(p).path[1], def, i)
                 [] def[i].op = "sleep" -> awake
                 [] OTHER -> FALSE

(* No step is skipped: neither a Join that has to wait, nor any step of a  *)
(* process that has completed (Sequence.Execute).                          *)
NothingSkipped == JoinWaits /\ CompletedInFull

(* Somebody will execute the process: an entry is in the queue, with a     *)
(* worker, or about to be published.                                       *)
InFlight(p) == \/ queue[p] > 0
               \/ \E w \in Workers : wk[w].pid = p \/ p \in wk[w].out \cup Probing(w)

(* A bound process is not forgotten before it has completed, although      *)
(* entries of busy processes are acknowledged and schedules go with the    *)
(* entry of the parent (runSignalHandler, scheduleChild): unless no client *)
(* has scheduled it yet, somebody will execute it, or it is a child whose  *)
(* parent has not completed either.  Excepted are entries dropped for      *)
(* their age, and a child whose schedule was lost with a cancelled worker  *)
(* and whose parent completed without it: which no parent does that waits  *)
(* for it with its first Join (NothingSkipped).                            *)
NotForgotten ==
    \A p \in Processes :
        Uses(p) # {} /\ ~IsCompleted(p) /\ dropped = {} =>
            \/ InFlight(p)
            \/ p = Root /\ schedules = 0
            \/ \E q \in Processes : /\ Event("spawn", NoPath, p) \in Recorded(q)
                                    /\ ~IsCompleted(q)
            \/ p \in withdrawn

(* An entry is about to be acknowledged because its process was locked. *)
Collision == \E w \in Workers : wk[w].res = "busy"

(* A bound and scheduled process completes once what it sleeps for has     *)
(* happened, and so does every child (Schedule: "for eventually            *)
(* processing"), unless its entries meet with a locked process again and   *)
(* again: the parent locks its child for a moment whenever it is executed. *)
Completes ==
    \/ []<>Collision
    \/ \A p \in Processes :
          (Uses(p) # {} /\ schedules > 0 /\ awake) ~> (IsCompleted(p) \/ dropped # {})
=============================================================================
