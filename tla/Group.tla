------------------------------- MODULE Group -------------------------------
(***************************************************************************)
(* synckit.Group (pkg/synckit/synckit.go): a group of goroutines that can  *)
(* be waited for and cancelled together.                                   *)
(*                                                                         *)
(* The group keeps the cancel function of each member under the lowest     *)
(* free id, a WaitGroup, the errors and the last panic of finished members *)
(* and one channel on which Done's receivers wait.  A member goes through  *)
(* its own epilogue, one action per critical section of rwm and one for    *)
(* each deferred call after it.                                            *)
(***************************************************************************)
EXTENDS Integers, FiniteSets

CONSTANTS Tasks,             \* members, each started at most once
          Waiters,           \* goroutines that call Wait
          Receivers,         \* goroutines that call Done and receive
          None,
          Isolation,         \* Group.Isolation
          ErrorOnGoexit      \* Group.ErrorOnGoexit

ASSUME TasksAssumption == IsFiniteSet(Tasks)
ASSUME NoTaskAssumption == None \notin Tasks
ASSUME FlagsAssumption == {Isolation, ErrorOnGoexit} \subseteq BOOLEAN

VARIABLES cancelFns,     \* Group.cancels: which member's cancel an id holds
          id,            \* the id a member closed over
          st,            \* where a member is
          out,           \* how its function ended
          cancelled,     \* members whose context is cancelled
          errs,          \* Group.errs, by the members they came from
          panicked,      \* Group.panic, by the member it came from
          reported,      \* members whose error some Wait returned
          wpc, dpc,      \* where the callers of Wait and of Done are
          wasCancelled,  \* history: has the group been cancelled before?
          lost           \* history: members whose entry another one deleted

groupVars == <<cancelFns, id, st, out, cancelled, errs, panicked, reported, wpc, dpc,
               wasCancelled, lost>>
taskVars == <<id, out>>
waitVars == <<errs, panicked, reported, wpc>>

Ids == 0 .. (Cardinality(Tasks) - 1)
Outcomes == {"nil", "err", "ctxErr", "panic", "goexit"}

(* Members counted by the WaitGroup, and members whose fn has not returned. *)
Counted == {t \in Tasks : st[t] \in {"running", "returned", "removing", "removed"}}
Running == {t \in Tasks : st[t] = "running"}

(* Group.len() == 0; a nil map and an empty one are the same here. *)
Empty == \A i \in Ids : cancelFns[i] = None

----------------------------------------------------------------------------
GroupInit == /\ cancelFns = [i \in Ids |-> None]
             /\ id = [t \in Tasks |-> 0]
             /\ st = [t \in Tasks |-> "new"]
             /\ out = [t \in Tasks |-> "nil"]
             /\ cancelled = {}
             /\ errs = {}
             /\ panicked = None
             /\ reported = {}
             /\ wpc = [w \in Waiters |-> "idle"]
             /\ dpc = [d \in Receivers |-> "idle"]
             /\ wasCancelled = FALSE
             /\ lost = {}

(* The lowest id without an entry. *)
nextID == CHOOSE i \in Ids : /\ cancelFns[i] = None
                             /\ \A j \in Ids : j < i => cancelFns[j] # None

(* Go, at any time in a group with members, cancelled or not.  An empty    *)
(* group must not be filled while somebody waits for it, as the WaitGroup  *)
(* demands.                                                                *)
Go(t) == /\ st[t] = "new"
         /\ Counted = {} => \A w \in Waiters : wpc[w] = "idle"
         /\ id' = [id EXCEPT ![t] = nextID]
         /\ cancelFns' = [cancelFns EXCEPT ![nextID] = t]
         /\ st' = [st EXCEPT ![t] = "running"]
         /\ UNCHANGED <<out, cancelled, dpc, wasCancelled, lost>> /\ UNCHANGED waitVars

(* fn ends in any way; only a cancelled context makes it return its error. *)
Return(t, o) == /\ st[t] = "running"
                /\ o = "ctxErr" => t \in cancelled
                /\ st' = [st EXCEPT ![t] = "returned"]
                /\ out' = [out EXCEPT ![t] = o]
                /\ UNCHANGED <<cancelFns, id, cancelled, dpc, wasCancelled, lost>>
                /\ UNCHANGED waitVars

(* A bug: the cancel functions are dropped without being called. *)
CancelAllForgets == /\ cancelFns' = [i \in Ids |-> None]
                    /\ wasCancelled' = TRUE
                    /\ UNCHANGED cancelled

(* The effect of Group.Cancel under rwm. *)
CancelAll == /\ cancelled' = cancelled \cup ({cancelFns[i] : i \in Ids} \ {None})
             /\ cancelFns' = [i \in Ids |-> None]
             /\ wasCancelled' = TRUE

(* A bug: every error, also that of a cancelled context, is ignored. *)
FailQuietly(t) == /\ st[t] = "returned"
                  /\ st' = [st EXCEPT ![t] = "removing"]
                  /\ UNCHANGED <<cancelFns, id, out, cancelled, dpc, wasCancelled, lost>>
                  /\ UNCHANGED waitVars

(* filterErr: an error that is not the context's own cancels the group.   *)
Fail(t) == /\ st[t] = "returned"
           /\ st' = [st EXCEPT ![t] = "removing"]
           /\ IF out[t] = "err" /\ ~Isolation
                THEN CancelAll
                ELSE UNCHANGED <<cancelFns, cancelled, wasCancelled>>
           /\ UNCHANGED <<dpc, lost>> /\ UNCHANGED taskVars /\ UNCHANGED waitVars

(* The section under rwm at the end of the member: its error or panic is   *)
(* kept and its id is deleted, whoever's entry that is by now: after       *)
(* Cancel another member may have got the id.                              *)
Remove(t) ==
    /\ st[t] = "removing"
    /\ st' = [st EXCEPT ![t] = "removed"]
    /\ errs' = IF \/ out[t] \in {"err", "ctxErr"}
                  \/ out[t] = "goexit" /\ ErrorOnGoexit
                 THEN errs \cup {t} ELSE errs
    /\ panicked' = IF out[t] = "panic" THEN t ELSE panicked
    /\ cancelFns' = [cancelFns EXCEPT ![id[t]] = None]
    /\ lost' = lost \cup ({cancelFns[id[t]]} \ {None, t})
    /\ UNCHANGED <<cancelled, reported, wpc, dpc, wasCancelled>> /\ UNCHANGED taskVars

(* A bug: wg.Done is skipped when the function did not return normally. *)
WgDoneIfReturned(t) ==
    /\ st[t] = "removed"
    /\ out[t] \notin {"panic", "goexit"}
    /\ st' = [st EXCEPT ![t] = "signalling"]
    /\ UNCHANGED <<cancelFns, cancelled, dpc, wasCancelled, lost>>
    /\ UNCHANGED taskVars /\ UNCHANGED waitVars

WgDone(t) == /\ st[t] = "removed"
             /\ st' = [st EXCEPT ![t] = "signalling"]
             /\ UNCHANGED <<cancelFns, cancelled, dpc, wasCancelled, lost>>
             /\ UNCHANGED taskVars /\ UNCHANGED waitVars

(* sigDone: every receiver that is blocked right now gets a value.  Then   *)
(* close(done) ends the member's Job.                                      *)
SigDone(t) == /\ st[t] = "signalling"
              /\ st' = [st EXCEPT ![t] = "finished"]
              /\ dpc' = [d \in Receivers |->
                           IF Empty /\ dpc[d] = "receiving" THEN "released" ELSE dpc[d]]
              /\ UNCHANGED <<cancelFns, cancelled, wasCancelled, lost>>
              /\ UNCHANGED taskVars /\ UNCHANGED waitVars

Cancel == /\ CancelAll
          /\ UNCHANGED <<st, dpc, lost>> /\ UNCHANGED taskVars /\ UNCHANGED waitVars

(* Job.Cancel of the member's own job. *)
JobCancel(t) == /\ st[t] # "new" /\ t \notin cancelled
                /\ cancelled' = cancelled \cup {t}
                /\ UNCHANGED <<cancelFns, st, dpc, wasCancelled, lost>>
                /\ UNCHANGED taskVars /\ UNCHANGED waitVars

----------------------------------------------------------------------------
Wait(w) == /\ wpc[w] = "idle"
           /\ wpc' = [wpc EXCEPT ![w] = "waiting"]
           /\ UNCHANGED <<cancelFns, st, cancelled, errs, panicked, reported, dpc,
                          wasCancelled, lost>> /\ UNCHANGED taskVars

(* wg.Wait returns. *)
WaitOver(w) == /\ wpc[w] = "waiting"
               /\ Counted = {}
               /\ wpc' = [wpc EXCEPT ![w] = "checking"]
               /\ UNCHANGED <<cancelFns, st, cancelled, errs, panicked, reported, dpc,
                              wasCancelled, lost>> /\ UNCHANGED taskVars

(* The fast path under the read lock returns nil. *)
WaitFast(w) == /\ wpc[w] = "checking"
               /\ wpc' = [wpc EXCEPT ![w] = IF errs = {} /\ panicked = None
                                              THEN "idle" ELSE "slow"]
               /\ UNCHANGED <<cancelFns, st, cancelled, errs, panicked, reported, dpc,
                              wasCancelled, lost>> /\ UNCHANGED taskVars

(* A bug: a panic drops the errors collected next to it. *)
WaitSlowDropsErrors(w) ==
    /\ wpc[w] = "slow"
    /\ wpc' = [wpc EXCEPT ![w] = "idle"]
    /\ panicked' = None
    /\ reported' = IF panicked = None THEN reported \cup errs ELSE reported
    /\ errs' = {}
    /\ UNCHANGED <<cancelFns, st, cancelled, dpc, wasCancelled, lost>> /\ UNCHANGED taskVars

(* The slow path panics with the kept panic, or returns all errors. *)
WaitSlow(w) ==
    /\ wpc[w] = "slow"
    /\ wpc' = [wpc EXCEPT ![w] = "idle"]
    /\ panicked' = None
    /\ IF panicked = None
         THEN reported' = reported \cup errs /\ errs' = {}
         ELSE UNCHANGED <<reported, errs>>
    /\ UNCHANGED <<cancelFns, st, cancelled, dpc, wasCancelled, lost>> /\ UNCHANGED taskVars

(* Done: a closed channel for an empty group, else the shared one. *)
Done(d) == /\ dpc[d] = "idle"
           /\ dpc' = [dpc EXCEPT ![d] = IF Empty THEN "released" ELSE "gotChannel"]
           /\ UNCHANGED <<cancelFns, st, cancelled, wasCancelled, lost>>
           /\ UNCHANGED taskVars /\ UNCHANGED waitVars

ReceiveDone(d) == /\ dpc[d] = "gotChannel"
                  /\ dpc' = [dpc EXCEPT ![d] = "receiving"]
                  /\ UNCHANGED <<cancelFns, st, cancelled, wasCancelled, lost>>
                  /\ UNCHANGED taskVars /\ UNCHANGED waitVars

TaskStep(t) == \/ \E o \in Outcomes : Return(t, o)
               \/ Fail(t) \/ Remove(t) \/ WgDone(t) \/ SigDone(t)

WaitStep(w) == WaitOver(w) \/ WaitFast(w) \/ WaitSlow(w)

GroupNext == \/ \E t \in Tasks : Go(t) \/ TaskStep(t) \/ JobCancel(t)
             \/ Cancel
             \/ \E w \in Waiters : Wait(w) \/ WaitStep(w)
             \/ \E d \in Receivers : Done(d) \/ ReceiveDone(d)

(* Functions end, and a goroutine inside of Wait or Done goes on.  Nobody  *)
(* has to start a member, to cancel, to wait or to ask for Done.           *)
GroupFairness == /\ \A t \in Tasks : WF_groupVars(TaskStep(t))
                 /\ \A w \in Waiters : WF_groupVars(WaitStep(w))
                 /\ \A d \in Receivers : WF_groupVars(ReceiveDone(d))

GroupSpec == GroupInit /\ [][GroupNext]_groupVars
FairGroupSpec == GroupSpec /\ GroupFairness

----------------------------------------------------------------------------
GroupTypeOK == /\ cancelFns \in [Ids -> Tasks \cup {None}]
               /\ id \in [Tasks -> Ids]
               /\ st \in [Tasks -> {"new", "running", "returned", "removing", "removed",
                                    "signalling", "finished"}]
               /\ out \in [Tasks -> Outcomes]
               /\ cancelled \subseteq Tasks
               /\ errs \subseteq Tasks /\ reported \subseteq Tasks
               /\ panicked \in Tasks \cup {None}
               /\ wpc \in [Waiters -> {"idle", "waiting", "checking", "slow"}]
               /\ dpc \in [Receivers -> {"idle", "gotChannel", "receiving", "released"}]
               /\ wasCancelled \in BOOLEAN
               /\ lost \subseteq Tasks

(* No error is lost or reported twice: the error of every member past its  *)
(* epilogue is either still kept by the group or was returned by exactly   *)
(* one Wait, whatever panics and concurrent Waits come between.  Every     *)
(* variable has its type.                                                  *)
ErrorsConserved ==
    /\ GroupTypeOK
    /\ errs \cap reported = {}
    /\ errs \cup reported =
         {t \in Tasks : /\ st[t] \in {"removed", "signalling", "finished"}
                        /\ \/ out[t] \in {"err", "ctxErr"}
                           \/ out[t] = "goexit" /\ ErrorOnGoexit}

(* "cancel group members": a member that runs with a live context is one   *)
(* that Group.Cancel reaches, started before or after an earlier Cancel.   *)
(* The one exception are the members whose entry another member's epilogue *)
(* deleted, and there is none before the group was first cancelled.        *)
CancelReachable ==
    /\ \A t \in Running \ (cancelled \cup lost) : \E i \in Ids : cancelFns[i] = t
    /\ lost # {} => wasCancelled

(* Without Isolation a real error stops the group: when a member has gone  *)
(* through filterErr with it, every member that runs at that moment has    *)
(* its context cancelled, also in a group that was cancelled before, but   *)
(* for the members that Cancel has lost.                                   *)
FailFast == [][\A t \in Tasks :
                  /\ ~Isolation /\ out[t] = "err"
                  /\ st[t] = "returned" /\ st'[t] = "removing"
                  => Running \ {t} \subseteq cancelled' \cup lost]_groupVars

(* "defer g.Cancel() // cancel group members": whoever runs with a live    *)
(* context, Cancel has its cancel function.                                *)
CancelStopsAll == \A t \in Running \ cancelled : \E i \in Ids : cancelFns[i] = t

(* Wait returns once the functions of the members have ended. *)
WaitReturns == \A w \in Waiters : wpc[w] = "waiting" ~> wpc[w] = "idle"
=============================================================================
