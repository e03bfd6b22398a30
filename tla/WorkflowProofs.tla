-------------------------- MODULE WorkflowProofs --------------------------
(***************************************************************************)
(* Proofs about the workflow runtime, for any processes, workers and       *)
(* definitions, any bounds, and any interleaving of double deliveries,     *)
(* errors and cancellations.                                               *)
(*                                                                         *)
(* All results rest on Base, which is inductive by itself: whoever         *)
(* executes a process has its lock (Assigned), and whoever has a lock      *)
(* executes the process or looks for a moment whether it runs (LocksHeld), *)
(* so that nobody else adds to the history; a worker at work executes the  *)
(* last definition of its process (Follows); and what it is about to       *)
(* record is not recorded yet (Calling).                                   *)
(*                                                                         *)
(* On top of it: a participant that is neither recorded nor being called   *)
(* was called no more often than there were faults (CallsInv); the steps   *)
(* before the one a worker is at are done, and so is every step of a       *)
(* completed process (DoneInv); and a process that has not completed is in *)
(* an entry, or a parent that has spawned it still owes it one, or it went *)
(* with a worker that was cancelled (Cover).                               *)
(***************************************************************************)
EXTENDS Workflow, WellFoundedInduction, TLAPS

Results == {"none", "ok", "busy", "suspend", "err", "fatal", "nodef"}
EventTypes == {"use", "participant", "spawn", "vars", "join", "completed"}
Events == [type : EventTypes, path : Nat \X Nat,
           arg : Processes \cup DOMAIN Defs \cup {None}]
WorkerStates == [pc : PCs, pid : Processes \cup {None}, n : Nat,
                 def : DOMAIN Defs \cup {None}, i : Nat, try : Nat,
                 out : SUBSET Processes, res : Results]

(* A worker that goes through the steps of a process. *)
AtWork(w) == wk[w].pc \in {"step", "called", "child", "probe", "probed"}
Spawned(q, p) == Event("spawn", NoPath, p) \in Recorded(q)
IsLast(p, n) == \A u \in Uses(p) : u.path[1] <= n

Types == /\ log \in [Processes -> Seq(Events)]
         /\ queue \in [Processes -> 0..MaxEntries]
         /\ lock \in [Processes -> Workers \cup {None}]
         /\ wk \in [Workers -> WorkerStates]
         /\ awake \in BOOLEAN
         /\ schedules \in Nat /\ faults \in Nat
         /\ dropped \subseteq Processes
         /\ calls \in [Processes -> [Paths -> Nat]]

(* The EventUseDefinitions of a process have different numbers, and a      *)
(* history begins with one.                                                *)
Histories == \A p \in Processes :
    /\ \A e \in Uses(p) : e = Use(e.path[1], e.arg) /\ e.path[1] \in 1..MaxUses
                          /\ e.arg \in DOMAIN Defs
    /\ \A e, f \in Uses(p) : e.path[1] = f.path[1] => e = f
    /\ Recorded(p) # {} => Uses(p) # {}

(* Who executes a process has its lock, and so has who looks whether a     *)
(* child runs, which is never the process itself.                          *)
Assigned(w) == /\ wk[w].pc = "idle" <=> wk[w].pid = None
               /\ wk[w].pc \in Executing => lock[wk[w].pid] = w
               /\ wk[w].pc = "probe" => /\ lock[Step(w).child] = w
                                        /\ Step(w).child # wk[w].pid

(* A worker executes the last definition of its process. *)
Follows(w) == AtWork(w) => /\ wk[w].def \in DOMAIN Defs
                           /\ Use(wk[w].n, wk[w].def) \in Uses(wk[w].pid)
                           /\ IsLast(wk[w].pid, wk[w].n)
                           /\ wk[w].i \in 1..(Len(Definition(w)) + 1)
                           /\ wk[w].pc # "step" => wk[w].i <= Len(Definition(w))

(* A participant that is being called is not recorded. *)
Calling(w) == wk[w].pc = "called" =>
    /\ Step(w).op \in {"participant", "replace"}
    /\ Event("participant", CurrentPath(w), None) \notin Recorded(wk[w].pid)

(* The child is bound, and the parent has recorded it, before it is        *)
(* scheduled.                                                              *)
Spawning(w) == wk[w].pc \in {"child", "probe", "probed"} =>
    /\ Step(w).op = "spawn"
    /\ Spawned(wk[w].pid, Step(w).child)
    /\ Recorded(Step(w).child) # {}

(* The results of an execution; only one that has completed is "ok". *)
Ends(w) == /\ wk[w].pc = "unlock" => wk[w].res \in Results \ {"none", "busy"}
           /\ wk[w].pc = "handle" => wk[w].res \in Results \ {"none"}
           /\ wk[w].pc \in {"unlock", "handle"} /\ wk[w].res = "ok" => IsCompleted(wk[w].pid)

WorkerOK(w) == Assigned(w) /\ Follows(w) /\ Calling(w) /\ Spawning(w) /\ Ends(w)

(* A lock is held by somebody who gives it back. *)
HasLock(w, p) == \/ wk[w].pid = p /\ wk[w].pc \in Executing
                 \/ wk[w].pc = "probe" /\ Step(w).child = p

LocksHeld == \A p \in Processes, w \in Workers : lock[p] = w => HasLock(w, p)

Base == /\ Types
        /\ Histories
        /\ \A w \in Workers : WorkerOK(w)
        /\ LocksHeld

----------------------------------------------------------------------------
(* What an appended event makes of a history. *)
LEMMA ToSetAppend ==
  ASSUME NEW s \in Seq(Events), NEW e \in Events
  PROVE  /\ Append(s, e) \in Seq(Events)
         /\ ToSet(Append(s, e)) = ToSet(s) \cup {e}
<1> DEFINE r == Append(s, e)
<1>1. /\ r \in Seq(Events) /\ Len(r) = Len(s) + 1 /\ Len(s) \in Nat
      /\ \A i \in 1..Len(s) : r[i] = s[i]
      /\ r[Len(s) + 1] = e /\ DOMAIN r = 1..(Len(s) + 1) /\ DOMAIN s = 1..Len(s)
  OBVIOUS
<1> HIDE DEF r
<1>2. ASSUME NEW y \in ToSet(r) PROVE y \in ToSet(s) \cup {e}
  BY <1>1, <1>2 DEF ToSet
<1>3. ASSUME NEW y \in ToSet(s) PROVE y \in ToSet(r)
  BY <1>1, <1>3 DEF ToSet
<1>4. e \in ToSet(r)
  BY <1>1 DEF ToSet
<1> QED
  BY <1>1, <1>2, <1>3, <1>4 DEF r

LEMMA Appends ==
  ASSUME Types, NEW p \in Processes, NEW e \in Events,
         log' = [log EXCEPT ![p] = Append(@, e)]
  PROVE  /\ log' \in [Processes -> Seq(Events)]
         /\ Recorded(p)' = Recorded(p) \cup {e}
         /\ \A q \in Processes \ {p} : Recorded(q)' = Recorded(q)
<1>1. log[p] \in Seq(Events) /\ log'[p] = Append(log[p], e)
  BY DEF Types
<1>2. /\ Append(log[p], e) \in Seq(Events)
      /\ ToSet(Append(log[p], e)) = ToSet(log[p]) \cup {e}
  BY <1>1, ToSetAppend
<1> QED
  BY <1>1, <1>2 DEF Types, Recorded

LEMMA Creates ==
  ASSUME Types, NEW p \in Processes, NEW e \in Events,
         log' = [log EXCEPT ![p] = Created(p, e)]
  PROVE  /\ log' \in [Processes -> Seq(Events)]
         /\ Recorded(p)' = Recorded(p) \cup {e}
         /\ \A q \in Processes \ {p} : Recorded(q)' = Recorded(q)
<1>1. CASE e \in Recorded(p)
  <2>1. log' = log
    BY <1>1 DEF Types, Created
  <2> QED
    BY <2>1, <1>1 DEF Types, Recorded
<1>2. CASE e \notin Recorded(p)
  <2>1. log' = [log EXCEPT ![p] = Append(@, e)]
    BY <1>2 DEF Types, Created
  <2> QED
    BY <2>1, Appends
<1> QED
  BY <1>1, <1>2

LEMMA Keeps ==
  ASSUME log' = log
  PROVE  \A q : Recorded(q)' = Recorded(q)
BY DEF Recorded

(* A history is empty when nothing is recorded. *)
LEMMA EmptyHistory ==
  ASSUME Types, NEW p \in Processes
  PROVE  log[p] = << >> <=> Recorded(p) = {}
<1>1. log[p] \in Seq(Events)
  BY DEF Types
<1>2. CASE log[p] = << >>
  BY <1>2 DEF Recorded, ToSet
<1>3. CASE log[p] # << >>
  <2>1. 1 \in DOMAIN log[p]
    BY <1>1, <1>3
  <2> QED
    BY <2>1, <1>3 DEF Recorded, ToSet
<1> QED
  BY <1>2, <1>3

LEMMA RecordedEvents ==
  ASSUME Types, NEW p \in Processes
  PROVE  Recorded(p) \subseteq Events
BY DEF Types, Recorded, ToSet

(* Where a worker that executes a process is in its definition. *)
LEMMA AtWorkFacts ==
  ASSUME Types, Histories, NEW w \in Workers, WorkerOK(w), AtWork(w)
  PROVE  /\ wk[w].pid \in Processes
         /\ wk[w].def \in DOMAIN Defs
         /\ Definition(w) \in Seq(Steps) /\ Len(Definition(w)) \in 0..MaxLen
         /\ wk[w].n \in 1..MaxUses
         /\ wk[w].i \in 1..(Len(Definition(w)) + 1)
         /\ Uses(wk[w].pid) # {}
         /\ wk[w].i <= Len(Definition(w)) =>
               /\ wk[w].i \in DOMAIN Definition(w)
               /\ Step(w) \in Steps
               /\ CurrentPath(w) \in Paths
               /\ Step(w).op = "spawn" => Step(w).child \in Processes
               /\ Step(w).op \in {"spawn", "replace"} => Step(w).def \in DOMAIN Defs
<1>1. wk[w] \in WorkerStates
  BY DEF Types
<1>2. wk[w].pid \in Processes
  BY <1>1 DEF WorkerOK, Assigned, AtWork, WorkerStates
<1>3. /\ wk[w].def \in DOMAIN Defs /\ wk[w].i \in 1..(Len(Definition(w)) + 1)
      /\ Use(wk[w].n, wk[w].def) \in Uses(wk[w].pid)
  BY DEF WorkerOK, Follows
<1>4. Definition(w) \in Seq(Steps) /\ Len(Definition(w)) \in 0..MaxLen
  BY <1>3, DefsAssumption, BoundsAssumption DEF Definition
<1>5. Use(wk[w].n, wk[w].def).path[1] = wk[w].n
  BY DEF Use, Event
<1>6. wk[w].n \in 1..MaxUses
  BY <1>2, <1>3, <1>5 DEF Histories
<1>7. ASSUME wk[w].i <= Len(Definition(w))
      PROVE  /\ wk[w].i \in DOMAIN Definition(w)
             /\ Step(w) \in Steps
             /\ CurrentPath(w) \in Paths
             /\ Step(w).op = "spawn" => Step(w).child \in Processes
             /\ Step(w).op \in {"spawn", "replace"} => Step(w).def \in DOMAIN Defs
  <2>1. wk[w].i \in DOMAIN Definition(w) /\ Step(w) \in Steps
    BY <1>3, <1>4, <1>7 DEF Step
  <2>2. CurrentPath(w) \in Paths
    BY <1>3, <1>4, <1>6, <1>7, BoundsAssumption DEF CurrentPath, Paths
  <2>3. /\ Step(w).op = "spawn" => Step(w).child \in Processes
        /\ Step(w).op \in {"spawn", "replace"} => Step(w).def \in DOMAIN Defs
    BY <1>3, <2>1, DefsAssumption DEF Step, Definition
  <2> QED
    BY <2>1, <2>2, <2>3
<1> QED
  BY <1>2, <1>3, <1>4, <1>6, <1>7

LEMMA NamesDiffer == /\ None \notin Workers /\ None \notin Processes /\ Root \in Processes
                     /\ RootDefs \subseteq DOMAIN Defs
                     /\ MaxEntries \in Nat \ {0} /\ MaxUses \in Nat /\ MaxLen \in Nat
BY ProcessesAssumption, DefsAssumption, BoundsAssumption

LEMMA EventType ==
  ASSUME NEW t \in EventTypes, NEW x \in Nat \X Nat,
         NEW a \in Processes \cup DOMAIN Defs \cup {None}
  PROVE  Event(t, x, a) \in Events
BY DEF Event, Events

LEMMA UseFields ==
  ASSUME NEW n, NEW d
  PROVE  /\ Use(n, d).type = "use" /\ Use(n, d).path = <<n, 0>>
         /\ Use(n, d).path[1] = n /\ Use(n, d).arg = d
BY DEF Use, Event

LEMMA EventFields ==
  ASSUME NEW t, NEW x, NEW a
  PROVE  Event(t, x, a).type = t /\ Event(t, x, a).path = x /\ Event(t, x, a).arg = a
BY DEF Event

LEMMA PublishedType ==
  ASSUME NEW p, NEW n \in 0..MaxEntries
  PROVE  Published(p, n) \in 1..MaxEntries
BY BoundsAssumption DEF Published

LEMMA GreatestNumber ==
  ASSUME NEW m \in Nat, NEW T \in SUBSET (0..m), T # {}
  PROVE  \E x \in T : \A y \in T : y <= x
<1> DEFINE R == OpToRel(<, Nat)
           D == {m - x : x \in T}
<1>1. IsWellFoundedOn(R, Nat)
  BY NatLessThanWellFounded
<1>2. \A x, y \in Nat : x < y => <<x, y>> \in R
  BY DEF OpToRel
<1> HIDE DEF R
<1>3. D \subseteq Nat /\ D # {}
  <2>1. \A x \in T : x \in 0..m
    OBVIOUS
  <2>2. \A x \in 0..m : m - x \in Nat
    OBVIOUS
  <2> QED
    BY <2>1, <2>2
<1>4. PICK d \in D : \A y \in D : ~(<<y, d>> \in R)
  BY <1>1, <1>3, WFMin
<1>5. PICK x \in T : d = m - x
  OBVIOUS
<1>6. ASSUME NEW y \in T
      PROVE  y <= x
  <2>1. ~(m - y < m - x)
    BY <1>2, <1>3, <1>4, <1>5
  <2> QED
    BY <2>1
<1> QED
  BY <1>6

LEMMA LastUseIsLast ==
  ASSUME Histories, NEW p \in Processes, Uses(p) # {}
  PROVE  LastUse(p) \in Uses(p) /\ IsLast(p, LastUse(p).path[1])
<1> DEFINE N == {u.path[1] : u \in Uses(p)}
<1>1. N \subseteq 0..MaxUses /\ N # {} /\ MaxUses \in Nat
  BY NamesDiffer DEF Histories
<1>2. \E m \in N : \A k \in N : k <= m
  BY <1>1, GreatestNumber
<1> QED
  BY <1>2 DEF LastUse, IsLast

----------------------------------------------------------------------------
(* What the actions do to the histories. *)
Adds(p, e) == /\ p \in Processes /\ e \in Events
              /\ log' \in [Processes -> Seq(Events)]
              /\ Recorded(p)' = Recorded(p) \cup {e}
              /\ \A q \in Processes \ {p} : Recorded(q)' = Recorded(q)

LEMMA BindEffect ==
  ASSUME Base, NEW d \in RootDefs, Bind(d)
  PROVE  Adds(Root, Use(1, d))
<1>1. Use(1, d) \in Events
  BY EventType, NamesDiffer DEF Use, EventTypes
<1> QED
  BY <1>1, Appends, NamesDiffer DEF Bind, Adds, Base

LEMMA DoDoneEffect ==
  ASSUME Base, NEW w \in Workers, DoDone(w), NEW p, p = wk[w].pid
  PROVE  \/ /\ Step(w).op = "participant" /\ Advance(w) /\ faults' = faults
            /\ Adds(p, Event("participant", CurrentPath(w), None))
         \/ Fails(w) /\ log' = log
<1>0. WorkerOK(w) /\ wk[w].pc = "called" /\ AtWork(w)
  BY DEF DoDone, Base, AtWork
<1>1. p \in Processes /\ CurrentPath(w) \in Paths
  BY <1>0, AtWorkFacts DEF Base, WorkerOK, Follows
<1>2. Event("participant", CurrentPath(w), None) \in Events
  BY <1>1, EventType, NamesDiffer DEF EventTypes, Paths
<1> QED
  BY <1>1, <1>2, Appends DEF DoDone, Adds, Base

LEMMA ReplaceEffect ==
  ASSUME Base, NEW w \in Workers, Replace(w), NEW p, p = wk[w].pid
  PROVE  /\ Step(w).def \in DOMAIN Defs /\ wk[w].n + 1 \in 1..MaxUses
         /\ Adds(p, Use(wk[w].n + 1, Step(w).def))
<1>0. WorkerOK(w) /\ wk[w].pc = "called" /\ AtWork(w) /\ Step(w).op = "replace"
  BY DEF Replace, Base, AtWork
<1>1. p \in Processes /\ wk[w].n \in 1..MaxUses /\ Step(w).def \in DOMAIN Defs
  BY <1>0, AtWorkFacts DEF Base, WorkerOK, Follows
<1>2. wk[w].n + 1 \in 1..MaxUses
  BY <1>1, NamesDiffer DEF Replace
<1>3. Use(wk[w].n + 1, Step(w).def) \in Events
  BY <1>1, <1>2, EventType DEF EventTypes, Use
<1> QED
  BY <1>1, <1>2, <1>3, Appends DEF Replace, Adds, Base

LEMMA JoinEffect ==
  ASSUME Base, NEW w \in Workers, JoinStep(w), NEW p, p = wk[w].pid
  PROVE  \/ /\ Advance(w)
            /\ Adds(p, Event("join", CurrentPath(w), None))
         \/ log' = log /\ (Advance(w) \/ Return(w, "suspend"))
<1>0. WorkerOK(w) /\ AtWork(w) /\ wk[w].i <= Len(Definition(w))
  BY DEF JoinStep, AtStep, Base, AtWork
<1>1. p \in Processes /\ CurrentPath(w) \in Paths
  BY <1>0, AtWorkFacts DEF Base
<1>2. Event("join", CurrentPath(w), None) \in Events
  BY <1>1, EventType, NamesDiffer DEF EventTypes, Paths
<1>3. \/ /\ log' = [log EXCEPT ![p] =
                        Created(p, Event("join", CurrentPath(w), None))]
         /\ Advance(w)
      \/ log' = log /\ (Advance(w) \/ Return(w, "suspend"))
  BY DEF JoinStep
<1> QED
  BY <1>1, <1>2, <1>3, Creates DEF Adds, Base

LEMMA CompleteEffect ==
  ASSUME Base, NEW w \in Workers, Complete(w), NEW p, p = wk[w].pid
  PROVE  Adds(p, Event("completed", NoPath, None))
<1>0. WorkerOK(w) /\ AtWork(w)
  BY DEF Complete, Base, AtWork
<1>1. p \in Processes
  BY <1>0, AtWorkFacts DEF Base
<1>2. Event("completed", NoPath, None) \in Events
  BY EventType, NamesDiffer DEF EventTypes, NoPath
<1> QED
  BY <1>1, <1>2, Creates DEF Complete, Adds, Base

(* Spawn: the event of the parent p, and what becomes of the history of    *)
(* the child c.                                                            *)
Spawns(p, c) ==
    /\ p \in Processes /\ c \in Processes
    /\ log' \in [Processes -> Seq(Events)]
    /\ Uses(p) # {}
    /\ c # p \/ Recorded(c) # {}
    /\ Recorded(p)' = Recorded(p) \cup {Event("spawn", NoPath, c)}
    /\ Recorded(c) # {} /\ c # p => Recorded(c)' = Recorded(c)
    /\ \A q \in Processes \ {p, c} : Recorded(q)' = Recorded(q)

LEMMA SpawnEffect ==
  ASSUME Base, NEW w \in Workers, SpawnEvents(w),
         NEW p, p = wk[w].pid, NEW c, c = Step(w).child
  PROVE  Step(w).def \in DOMAIN Defs /\
         \/ /\ Spawns(p, c) /\ faults' = faults
            /\ Recorded(c) = {} =>
                  Recorded(c)' = {Use(1, Step(w).def), Event("vars", NoPath, None)}
            /\ Become(w, [wk[w] EXCEPT !.pc = "child"])
         \/ /\ Spawns(p, c) /\ Fails(w)
            /\ Recorded(c) = {}
            /\ \/ Recorded(c)' = {}
               \/ Recorded(c)' = {Use(1, Step(w).def)}
         \/ log' = log /\ Fails(w)
<1> DEFINE e == Event("spawn", NoPath, c)
           use == Use(1, Step(w).def)
           vs == Event("vars", NoPath, None)
<1>0. WorkerOK(w) /\ AtWork(w) /\ wk[w].i <= Len(Definition(w)) /\ Step(w).op = "spawn"
  BY DEF SpawnEvents, AtStep, Step, Base, AtWork
<1>1. p \in Processes /\ c \in Processes /\ Step(w).def \in DOMAIN Defs /\ Uses(p) # {}
  BY <1>0, AtWorkFacts DEF Base
<1>2. e \in Events /\ use \in Events /\ vs \in Events
  BY <1>1, EventType, NamesDiffer DEF EventTypes, NoPath, Use
<1>3. log \in [Processes -> Seq(Events)] /\ Types
  BY DEF Base, Types
<1>4. Recorded(p) # {} /\ log[p] # << >>
  BY <1>1, <1>3, EmptyHistory DEF Uses
<1>5. /\ Created(p, e) \in Seq(Events) /\ ToSet(Created(p, e)) = Recorded(p) \cup {e}
      /\ Created(p, e) # << >>
  <2>1. CASE e \in Recorded(p)
    BY <2>1, <1>1, <1>3, <1>4 DEF Created, Recorded
  <2>2. CASE e \notin Recorded(p)
    BY <2>2, <1>1, <1>2, <1>3, <1>4, ToSetAppend DEF Created, Recorded
  <2> QED
    BY <2>1, <2>2
<1>6. /\ << >> \in Seq(Events) /\ ToSet(<< >>) = {}
      /\ <<use>> \in Seq(Events) /\ ToSet(<<use>>) = {use}
      /\ <<use, vs>> \in Seq(Events) /\ ToSet(<<use, vs>>) = {use, vs}
  BY <1>2 DEF ToSet
<1>7. log[c] = << >> <=> Recorded(c) = {}
  BY <1>1, <1>3, EmptyHistory
<1> HIDE DEF e, use, vs
<1>8. \/ /\ log' = [log EXCEPT ![p] = Created(p, e),
                               ![c] = IF @ = << >> THEN <<use, vs>> ELSE @]
         /\ Become(w, [wk[w] EXCEPT !.pc = "child"]) /\ faults' = faults
      \/ /\ log[c] = << >> /\ Fails(w)
         /\ \E history \in {<< >>, <<use>>} :
               log' = [log EXCEPT ![p] = Created(p, e), ![c] = history]
      \/ Fails(w) /\ log' = log
  BY DEF SpawnEvents, e, use, vs
<1>9. CASE /\ log' = [log EXCEPT ![p] = Created(p, e),
                               ![c] = IF @ = << >> THEN <<use, vs>> ELSE @]
           /\ Become(w, [wk[w] EXCEPT !.pc = "child"]) /\ faults' = faults
  <2>1. CASE c = p
    <3>1. log'[p] = Created(p, e)
      BY <2>1, <1>9, <1>5, <1>3, <1>1
    <3>4. \A q \in Processes \ {p} : log'[q] = log[q]
      BY <2>1, <1>9, <1>3, <1>1
    <3>5. log' \in [Processes -> Seq(Events)]
      BY <1>9, <1>5, <1>6, <1>3, <1>1
    <3>2. log' \in [Processes -> Seq(Events)] /\ Recorded(p)' = Recorded(p) \cup {e}
          /\ \A q \in Processes \ {p, c} : Recorded(q)' = Recorded(q)
      BY <3>1, <3>4, <3>5, <2>1, <1>5, <1>3, <1>1 DEF Recorded
    <3> QED
      BY <3>2, <2>1, <1>1, <1>4, <1>9 DEF Spawns, e
  <2>2. CASE c # p
    <3>1. /\ log'[p] = Created(p, e)
          /\ log'[c] = IF log[c] = << >> THEN <<use, vs>> ELSE log[c]
          /\ \A q \in Processes \ {p, c} : log'[q] = log[q]
      BY <2>2, <1>9, <1>3, <1>1
    <3>2. log' \in [Processes -> Seq(Events)]
      BY <1>9, <1>5, <1>6, <1>3, <1>1
    <3>3. Recorded(p)' = Recorded(p) \cup {e}
          /\ \A q \in Processes \ {p, c} : Recorded(q)' = Recorded(q)
      BY <3>1, <1>5, <1>1 DEF Recorded
    <3>4. /\ Recorded(c) = {} => Recorded(c)' = {use, vs}
          /\ Recorded(c) # {} => Recorded(c)' = Recorded(c)
      BY <3>1, <1>6, <1>7 DEF Recorded
    <3> QED
      BY <3>2, <3>3, <3>4, <2>2, <1>1, <1>9 DEF Spawns, e, use, vs
  <2> QED
    BY <2>1, <2>2
<1>10. CASE /\ log[c] = << >> /\ Fails(w)
            /\ \E history \in {<< >>, <<use>>} :
                  log' = [log EXCEPT ![p] = Created(p, e), ![c] = history]
  <2>1. c # p
    BY <1>10, <1>4
  <2>2. PICK history \in {<< >>, <<use>>} :
                  log' = [log EXCEPT ![p] = Created(p, e), ![c] = history]
    BY <1>10
  <2>3. log' \in [Processes -> Seq(Events)]
    BY <2>2, <1>5, <1>6, <1>3, <1>1
  <2>4. /\ log'[p] = Created(p, e) /\ log'[c] = history
        /\ \A q \in Processes \ {p, c} : log'[q] = log[q]
    BY <2>1, <2>2, <1>3, <1>1
  <2>5. Recorded(p)' = Recorded(p) \cup {e}
        /\ \A q \in Processes \ {p, c} : Recorded(q)' = Recorded(q)
    BY <2>4, <1>5, <1>1 DEF Recorded
  <2>6. Recorded(c)' = {} \/ Recorded(c)' = {use}
    BY <2>4, <1>6 DEF Recorded
  <2> QED
    BY <2>1, <2>3, <2>5, <2>6, <1>1, <1>7, <1>10 DEF Spawns, e, use
<1>11. Step(w).def \in DOMAIN Defs
  BY <1>1
<1> QED
  BY <1>8, <1>9, <1>10, <1>11 DEF use, vs

----------------------------------------------------------------------------
(* The types. *)
LEMMA BecomeType ==
  ASSUME Types, NEW w \in Workers, NEW r \in WorkerStates, Become(w, r)
  PROVE  wk' \in [Workers -> WorkerStates] /\ wk'[w] = r
         /\ \A v \in Workers \ {w} : wk'[v] = wk[v]
BY DEF Types, Become

LEMMA StateType ==
  ASSUME Types, NEW w \in Workers
  PROVE  /\ wk[w] \in WorkerStates
         /\ wk[w].pc \in PCs /\ wk[w].pid \in Processes \cup {None}
         /\ wk[w].n \in Nat /\ wk[w].def \in DOMAIN Defs \cup {None}
         /\ wk[w].i \in Nat /\ wk[w].try \in Nat
         /\ wk[w].out \subseteq Processes /\ wk[w].res \in Results
BY DEF Types, WorkerStates

LEMMA IdleType == Idle \in WorkerStates
BY DEF Idle, WorkerStates, PCs, Results

LEMMA ReturnType ==
  ASSUME Types, NEW w \in Workers, NEW res \in Results, Return(w, res)
  PROVE  /\ wk' \in [Workers -> WorkerStates]
         /\ wk'[w] = [wk[w] EXCEPT !.pc = "unlock", !.res = res]
         /\ \A v \in Workers \ {w} : wk'[v] = wk[v]
<1>1. [wk[w] EXCEPT !.pc = "unlock", !.res = res] \in WorkerStates
  BY StateType DEF WorkerStates, PCs
<1> QED
  BY <1>1, BecomeType DEF Return

LEMMA AdvanceType ==
  ASSUME Types, NEW w \in Workers, Advance(w)
  PROVE  /\ wk' \in [Workers -> WorkerStates]
         /\ wk'[w] = [wk[w] EXCEPT !.pc = "step", !.i = @ + 1]
         /\ \A v \in Workers \ {w} : wk'[v] = wk[v]
<1>1. /\ [wk[w] EXCEPT !.pc = "step", !.i = wk[w].i + 1] \in WorkerStates
      /\ [wk[w] EXCEPT !.pc = "step", !.i = @ + 1] =
            [wk[w] EXCEPT !.pc = "step", !.i = wk[w].i + 1]
  <2> DEFINE j == wk[w].i + 1
  <2>1. j \in Nat
    BY StateType
  <2> HIDE DEF j
  <2>2. [wk[w] EXCEPT !.pc = "step", !.i = j] \in WorkerStates
    BY <2>1, StateType DEF WorkerStates, PCs
  <2> QED
    BY <2>2 DEF j
<1> QED
  BY <1>1, BecomeType DEF Advance

LEMMA FailsType ==
  ASSUME Types, NEW w \in Workers, Fails(w)
  PROVE  /\ wk' \in [Workers -> WorkerStates]
         /\ \E res \in {"err", "fatal"} :
               wk'[w] = [wk[w] EXCEPT !.pc = "unlock", !.res = res]
         /\ \A v \in Workers \ {w} : wk'[v] = wk[v]
         /\ faults' = faults + 1
<1>1. PICK res \in {"err", "fatal"} : Return(w, res)
  BY DEF Fails
<1> QED
  BY <1>1, ReturnType DEF Fails, Results

LEMMA ProcessingType ==
  ASSUME Types, NEW w \in Workers, NEW use, use.path[1] \in Nat, use.arg \in DOMAIN Defs,
         Processing(w, use)
  PROVE  /\ wk' \in [Workers -> WorkerStates]
         /\ wk'[w] = [wk[w] EXCEPT !.pc = "step", !.n = use.path[1], !.def = use.arg,
                                   !.i = 1, !.res = "none"]
         /\ \A v \in Workers \ {w} : wk'[v] = wk[v]
<1>1. [wk[w] EXCEPT !.pc = "step", !.n = use.path[1], !.def = use.arg, !.i = 1,
                    !.res = "none"] \in WorkerStates
  BY StateType DEF WorkerStates, PCs, Results
<1> QED
  BY <1>1, BecomeType DEF Processing

LEMMA TypesNext ==
  ASSUME Base, Next
  PROVE  Types'
<1> USE DEF vars, envVars
<1>0. Types /\ Histories /\ \A w \in Workers : WorkerOK(w)
  BY DEF Base
<1>p. \A p \in Processes : queue[p] \in 0..MaxEntries /\ Published(p, queue[p]) \in 0..MaxEntries
  BY <1>0, PublishedType DEF Types
<1>1. ASSUME NEW d \in RootDefs, Bind(d) PROVE Types'
  BY <1>0, <1>1, BindEffect DEF Bind, Adds, Types
<1>2. CASE Schedule
  <2>1. \A n \in {queue[Root], Published(Root, queue[Root])} :
            Published(Root, n) \in 0..MaxEntries
    BY <1>p, PublishedType, NamesDiffer
  <2> QED
    BY <1>0, <1>2, <2>1, NamesDiffer DEF Schedule, Types
<1>3. CASE Wake
  BY <1>0, <1>3 DEF Wake, Types
<1>4. ASSUME NEW w \in Workers, NEW p \in Processes, Take(w, p) PROVE Types'
  <2>1. [Idle EXCEPT !.pc = "taken", !.pid = p] \in WorkerStates
    BY IdleType DEF WorkerStates, PCs
  <2>2. queue[p] - 1 \in 0..MaxEntries
    BY <1>p, <1>4, NamesDiffer DEF Take
  <2> QED
    BY <1>0, <1>4, <2>1, <2>2, BecomeType DEF Take, Types
<1>5. ASSUME NEW w \in Workers, GiveBack(w) \/ Cancel(w) PROVE Types'
  <2>1. wk[w].pid \in Processes
    BY <1>0, <1>5, StateType DEF GiveBack, Cancel, WorkerOK, Assigned
  <2>2. wk' \in [Workers -> WorkerStates]
    BY <1>0, <1>5, IdleType, BecomeType DEF GiveBack, Cancel
  <2>3. queue' \in [Processes -> 0..MaxEntries]
    BY <1>0, <1>5, <1>p, <2>1 DEF GiveBack, Cancel, Types
  <2>4. lock' \in [Processes -> Workers \cup {None}]
    BY <1>0, <1>5 DEF GiveBack, Cancel, Types
  <2>5. faults' \in Nat
    BY <1>0, <1>5 DEF GiveBack, Cancel, Types
  <2> QED
    BY <1>0, <1>5, <2>2, <2>3, <2>4, <2>5 DEF GiveBack, Cancel, Types
<1>6. ASSUME NEW w \in Workers, tryLock(w) PROVE Types'
  <2>1. wk[w].pid \in Processes
    BY <1>0, <1>6, StateType DEF tryLock, WorkerOK, Assigned
  <2>2. ASSUME Lookup(w) PROVE wk' \in [Workers -> WorkerStates]
    <3>1. CASE Uses(wk[w].pid) = {}
      BY <1>0, <2>2, <3>1, ReturnType DEF Lookup, Results
    <3>2. CASE Uses(wk[w].pid) # {}
      <4>1. LastUse(wk[w].pid) \in Uses(wk[w].pid)
        BY <1>0, <2>1, <3>2, LastUseIsLast
      <4>2. LastUse(wk[w].pid).path[1] \in Nat /\ LastUse(wk[w].pid).arg \in DOMAIN Defs
        BY <1>0, <2>1, <4>1, NamesDiffer DEF Histories
      <4> QED
        BY <1>0, <2>2, <3>2, <4>2, ProcessingType DEF Lookup
    <3> QED
      BY <3>1, <3>2
  <2>3. [wk[w] EXCEPT !.pc = "handle", !.res = "busy"] \in WorkerStates
    BY <1>0, StateType DEF WorkerStates, PCs, Results
  <2>4. wk' \in [Workers -> WorkerStates]
    BY <1>0, <1>6, <2>2, <2>3, BecomeType DEF tryLock
  <2> QED
    BY <1>0, <1>6, <2>1, <2>4 DEF tryLock, TryLock, Types
<1>7. ASSUME NEW w \in Workers, Complete(w) PROVE Types'
  <2>1. PICK p : p = wk[w].pid
    OBVIOUS
  <2> QED
    BY <1>0, <1>7, <2>1, CompleteEffect, ReturnType DEF Complete, Adds, Types, Results
<1>8. ASSUME NEW w \in Workers, Unlock(w) PROVE Types'
  <2>1. wk' \in [Workers -> WorkerStates]
    <3> DEFINE a == wk[w].res \in {"err", "suspend"} /\ wk[w].try < MaxRetries
               r == [wk[w] EXCEPT !.pc = IF a THEN "lock" ELSE "handle",
                                  !.try = IF a THEN @ + 1 ELSE @]
    <3>1. r \in WorkerStates
      <4> DEFINE t == IF a THEN wk[w].try + 1 ELSE wk[w].try
                 s == IF a THEN "lock" ELSE "handle"
      <4>1. t \in Nat /\ s \in PCs
        BY <1>0, StateType DEF PCs
      <4> HIDE DEF a, t, s
      <4>2. [wk[w] EXCEPT !.pc = s, !.try = t] \in WorkerStates
        BY <1>0, <4>1, StateType DEF WorkerStates
      <4> QED
        BY <4>2 DEF s, t
    <3> QED
      BY <1>0, <1>8, <3>1, BecomeType DEF Unlock
  <2> QED
    BY <1>0, <1>8, <2>1 DEF Unlock, Unlocked, Types
<1>9. ASSUME NEW w \in Workers, HandleResult(w) PROVE Types'
  <2>0. wk[w].pid \in Processes
    BY <1>0, <1>9, StateType DEF HandleResult, WorkerOK, Assigned
  <2>1. PICK more : Acked(w, more)
    BY <1>9 DEF HandleResult
  <2>2. wk' \in [Workers -> WorkerStates]
    BY <1>0, <2>1, IdleType, BecomeType DEF Acked
  <2>3. queue' \in [Processes -> 0..MaxEntries]
    BY <1>p, <2>1 DEF Acked
  <2>4. dropped' \subseteq Processes
    BY <1>0, <1>9, <2>0 DEF HandleResult, Types
  <2> QED
    BY <1>0, <1>9, <2>2, <2>3, <2>4 DEF HandleResult, Types
<1>10. ASSUME NEW w \in Workers, Replay(w) \/ SleepStep(w) PROVE Types'
  <2>1. wk' \in [Workers -> WorkerStates]
    BY <1>0, <1>10, AdvanceType, ReturnType DEF Replay, SleepStep, Results
  <2> QED
    BY <1>0, <1>10, <2>1 DEF Replay, SleepStep, Types
<1>11. ASSUME NEW w \in Workers, Do(w) PROVE Types'
  <2>1. wk[w].pid \in Processes /\ CurrentPath(w) \in Paths
    BY <1>0, <1>11, AtWorkFacts DEF Do, AtStep, AtWork
  <2>2. [wk[w] EXCEPT !.pc = "called"] \in WorkerStates
    BY <1>0, StateType DEF WorkerStates, PCs
  <2>3. wk' \in [Workers -> WorkerStates]
    BY <1>0, <1>11, <2>2, BecomeType DEF Do
  <2>4. calls' \in [Processes -> [Paths -> Nat]]
    BY <1>0, <1>11, <2>1 DEF Do, Types
  <2> QED
    BY <1>0, <1>11, <2>3, <2>4 DEF Do, Types
<1>12. ASSUME NEW w \in Workers, DoDone(w) PROVE Types'
  <2>1. PICK p : p = wk[w].pid
    OBVIOUS
  <2>2. wk' \in [Workers -> WorkerStates] /\ log' \in [Processes -> Seq(Events)]
        /\ faults' \in Nat
    <3>1. CASE Advance(w) /\ faults' = faults
               /\ Adds(p, Event("participant", CurrentPath(w), None))
      BY <1>0, <3>1, AdvanceType DEF Adds, Types
    <3>2. CASE Fails(w) /\ log' = log
      <4>1. wk' \in [Workers -> WorkerStates] /\ faults' = faults + 1
        BY <1>0, <3>2, FailsType
      <4> QED
        BY <1>0, <3>2, <4>1 DEF Types
    <3> QED
      BY <1>12, <2>1, <3>1, <3>2, DoDoneEffect
  <2> QED
    BY <1>0, <1>12, <2>2 DEF DoDone, Types
<1>13. ASSUME NEW w \in Workers, Replace(w) PROVE Types'
  <2>1. PICK p : p = wk[w].pid
    OBVIOUS
  <2>2. wk' \in [Workers -> WorkerStates]
    <3> DEFINE use == Use(wk[w].n + 1, Step(w).def)
    <3>1. use.path[1] \in Nat /\ use.arg \in DOMAIN Defs
      BY <1>0, <1>13, <2>1, ReplaceEffect, UseFields, StateType
    <3>2. Processing(w, use)
      BY <1>13 DEF Replace
    <3> HIDE DEF use
    <3> QED
      BY <1>0, <3>1, <3>2, ProcessingType
  <2> QED
    BY <1>0, <1>13, <2>1, <2>2, ReplaceEffect DEF Replace, Adds, Types
<1>14. ASSUME NEW w \in Workers, SpawnEvents(w) PROVE Types'
  <2>1. PICK p, c : p = wk[w].pid /\ c = Step(w).child
    OBVIOUS
  <2>2. [wk[w] EXCEPT !.pc = "child"] \in WorkerStates
    BY <1>0, StateType DEF WorkerStates, PCs
  <2>3. wk' \in [Workers -> WorkerStates] /\ log' \in [Processes -> Seq(Events)]
        /\ faults' \in Nat
    <3>1. CASE Spawns(p, c) /\ faults' = faults /\ Become(w, [wk[w] EXCEPT !.pc = "child"])
      BY <1>0, <2>2, <3>1, BecomeType DEF Spawns, Types
    <3>2. CASE (Spawns(p, c) \/ log' = log) /\ Fails(w)
      <4>1. wk' \in [Workers -> WorkerStates] /\ faults' = faults + 1
        BY <1>0, <3>2, FailsType
      <4> QED
        BY <1>0, <3>2, <4>1 DEF Spawns, Types
    <3> QED
      BY <1>14, <2>1, <3>1, <3>2, SpawnEffect
  <2> QED
    BY <1>0, <1>14, <2>3 DEF SpawnEvents, Types
<1>15. ASSUME NEW w \in Workers, ChildTryLock(w) \/ ChildUnlock(w) PROVE Types'
  <2>1. \A s \in {"probe", "probed"} : [wk[w] EXCEPT !.pc = s] \in WorkerStates
    BY <1>0, StateType DEF WorkerStates, PCs
  <2>2. wk' \in [Workers -> WorkerStates]
    BY <1>0, <1>15, <2>1, BecomeType, AdvanceType DEF ChildTryLock, ChildUnlock
  <2>3. lock' \in [Processes -> Workers \cup {None}]
    BY <1>0, <1>15 DEF ChildTryLock, ChildUnlock, TryLock, Unlocked, Types
  <2> QED
    BY <1>0, <1>15, <2>2, <2>3 DEF ChildTryLock, ChildUnlock, Types
<1>16. ASSUME NEW w \in Workers, ScheduleChild(w) PROVE Types'
  <2> DEFINE out == IF IsCompleted(Step(w).child) THEN wk[w].out
                                                  ELSE wk[w].out \cup {Step(w).child}
  <2>0. Step(w).child \in Processes
    BY <1>0, <1>16, AtWorkFacts DEF ScheduleChild, AtWork, WorkerOK, Follows, Spawning
  <2>1. [wk[w] EXCEPT !.pc = "step", !.i = @ + 1, !.out = out] \in WorkerStates
    <3> DEFINE j == wk[w].i + 1
    <3>1. j \in Nat /\ out \subseteq Processes
      BY <1>0, <2>0, StateType
    <3> HIDE DEF out, j
    <3>2. [wk[w] EXCEPT !.pc = "step", !.i = j, !.out = out] \in WorkerStates
      BY <1>0, <3>1, StateType DEF WorkerStates, PCs
    <3> QED
      BY <3>2 DEF j
  <2>2. wk' \in [Workers -> WorkerStates]
    <3>1. Become(w, [wk[w] EXCEPT !.pc = "step", !.i = @ + 1, !.out = out])
      BY <1>16 DEF ScheduleChild
    <3> HIDE DEF out
    <3> QED
      BY <1>0, <2>1, <3>1, BecomeType
  <2> QED
    BY <1>0, <1>16, <2>2 DEF ScheduleChild, Types
<1>17. ASSUME NEW w \in Workers, JoinStep(w) PROVE Types'
  <2>1. PICK p : p = wk[w].pid
    OBVIOUS
  <2>2. wk' \in [Workers -> WorkerStates] /\ log' \in [Processes -> Seq(Events)]
    BY <1>0, <1>17, <2>1, JoinEffect, AdvanceType, ReturnType DEF Adds, Types, Results
  <2> QED
    BY <1>0, <1>17, <2>2 DEF JoinStep, Types
<1> QED
  BY <1>1, <1>2, <1>3, <1>4, <1>5, <1>6, <1>7, <1>8, <1>9, <1>10, <1>11, <1>12, <1>13,
     <1>14, <1>15, <1>16, <1>17 DEF Next, Execution

----------------------------------------------------------------------------
(* The histories: definitions are only added, and only the last one counts. *)
LEMMA QuietKeeps ==
  ASSUME Histories, log' = log
  PROVE  /\ Histories'
         /\ \A p \in Processes : Recorded(p)' = Recorded(p) /\ Uses(p)' = Uses(p)
<1>1. \A p : Recorded(p)' = Recorded(p)
  BY Keeps
<1>2. \A p : Uses(p)' = Uses(p)
  BY <1>1 DEF Uses
<1> QED
  BY <1>1, <1>2 DEF Histories

LEMMA AddsKeeps ==
  ASSUME Histories, NEW p, NEW e, Adds(p, e), e.type # "use", Uses(p) # {}
  PROVE  /\ Histories'
         /\ \A q \in Processes : Uses(q)' = Uses(q)
<1>1. \A q \in Processes : Uses(q)' = Uses(q)
  BY DEF Uses, Adds
<1>2. \A q \in Processes : Recorded(q)' # {} => Recorded(q) # {}
  BY DEF Adds, Uses
<1> QED
  BY <1>1, <1>2 DEF Histories

LEMMA AddsUse ==
  ASSUME Histories, NEW p, NEW n \in 1..MaxUses, NEW d \in DOMAIN Defs,
         Adds(p, Use(n, d)), \A u \in Uses(p) : u.path[1] < n
  PROVE  /\ Histories'
         /\ Uses(p)' = Uses(p) \cup {Use(n, d)}
         /\ \A q \in Processes \ {p} : Uses(q)' = Uses(q)
<1>1. /\ Uses(p)' = Uses(p) \cup {Use(n, d)}
      /\ \A q \in Processes \ {p} : Uses(q)' = Uses(q)
  BY UseFields DEF Uses, Adds
<1>2. p \in Processes /\ \A q \in Processes \ {p} : Recorded(q)' = Recorded(q)
  BY DEF Adds
<1> DEFINE H(q) == /\ \A e \in Uses(q) : e = Use(e.path[1], e.arg) /\ e.path[1] \in 1..MaxUses
                                           /\ e.arg \in DOMAIN Defs
                   /\ \A e, f \in Uses(q) : e.path[1] = f.path[1] => e = f
                   /\ Recorded(q) # {} => Uses(q) # {}
<1>3. \A q \in Processes : H(q)
  BY DEF Histories
<1>4. \A q \in Processes \ {p} : H(q)'
  BY <1>1, <1>2, <1>3
<1>5. H(p)'
  <2>1. Use(n, d).path[1] = n /\ Use(n, d).arg = d
    BY UseFields
  <2>2. \A e \in Uses(p)' : e = Use(e.path[1], e.arg) /\ e.path[1] \in 1..MaxUses
                            /\ e.arg \in DOMAIN Defs
    BY <1>1, <1>2, <1>3, <2>1
  <2>3. \A e, f \in Uses(p)' : e.path[1] = f.path[1] => e = f
    <3> SUFFICES ASSUME NEW e \in Uses(p)', NEW f \in Uses(p)', e.path[1] = f.path[1]
                 PROVE  e = f
      OBVIOUS
    <3>1. \A u \in Uses(p) : u.path[1] \in Nat /\ u.path[1] # n
      BY <1>2, <1>3, NamesDiffer
    <3> QED
      BY <1>1, <1>2, <1>3, <2>1, <3>1
  <2> QED
    BY <1>1, <2>2, <2>3
<1> QED
  BY <1>1, <1>4, <1>5 DEF Histories

LEMMA SpawnKeeps ==
  ASSUME Histories, NEW p, NEW c, NEW d \in DOMAIN Defs, Spawns(p, c),
         Recorded(c) = {} =>
            \/ Recorded(c)' = {}
            \/ Recorded(c)' = {Use(1, d)}
            \/ Recorded(c)' = {Use(1, d), Event("vars", NoPath, None)}
  PROVE  /\ Histories'
         /\ \A q \in Processes : Uses(q) # {} => Uses(q)' = Uses(q)
         /\ \A q \in Processes \ {c} : Uses(q)' = Uses(q)
         /\ \A q \in Processes : Recorded(q) \subseteq Recorded(q)'
<1> DEFINE H(q) == /\ \A e \in Uses(q) : e = Use(e.path[1], e.arg) /\ e.path[1] \in 1..MaxUses
                                           /\ e.arg \in DOMAIN Defs
                   /\ \A e, f \in Uses(q) : e.path[1] = f.path[1] => e = f
                   /\ Recorded(q) # {} => Uses(q) # {}
<1>1. \A q \in Processes : H(q)
  BY DEF Histories
<1>2. /\ p \in Processes /\ c \in Processes /\ Uses(p) # {}
      /\ Recorded(p)' = Recorded(p) \cup {Event("spawn", NoPath, c)}
      /\ Recorded(c) # {} /\ c # p => Recorded(c)' = Recorded(c)
      /\ Recorded(c) = {} => c # p
      /\ \A q \in Processes \ {p, c} : Recorded(q)' = Recorded(q)
  BY DEF Spawns
<1>3. Uses(p)' = Uses(p)
  BY <1>2, EventFields DEF Uses
<1>4. \A q \in Processes \ {p, c} : Uses(q)' = Uses(q)
  BY <1>2 DEF Uses
<1>5. Recorded(c) # {} /\ c # p => Uses(c)' = Uses(c)
  BY <1>2 DEF Uses
<1>6. ASSUME Recorded(c) = {}
      PROVE  /\ Uses(c) = {}
             /\ Uses(c)' = {} \/ Uses(c)' = {Use(1, d)}
             /\ Recorded(c)' # {} => Uses(c)' # {}
  BY <1>6, UseFields, EventFields DEF Uses
<1>7. H(p)' /\ \A q \in Processes \ {p, c} : H(q)'
  BY <1>1, <1>2, <1>3, <1>4
<1>8. ASSUME c # p PROVE H(c)'
  <2>1. CASE Recorded(c) # {}
    BY <2>1, <1>1, <1>2, <1>5, <1>8
  <2>2. CASE Recorded(c) = {}
    <3>1. /\ Use(1, d).path[1] = 1 /\ Use(1, d).arg = d /\ 1 \in 1..MaxUses
      BY UseFields, BoundsAssumption
    <3>2. \A e \in Uses(c)' : e = Use(1, d)
      BY <2>2, <1>6
    <3> QED
      BY <2>2, <1>6, <3>1, <3>2
  <2> QED
    BY <2>1, <2>2
<1>9. \A q \in Processes : H(q)'
  BY <1>7, <1>8
<1>10. Histories'
  BY <1>9 DEF Histories
<1>11. \A q \in Processes : Recorded(q) \subseteq Recorded(q)'
  BY <1>2
<1> HIDE DEF H
<1> QED
  BY <1>2, <1>3, <1>4, <1>5, <1>6, <1>10, <1>11

----------------------------------------------------------------------------
(* What a step of w leaves to the other workers (w is None in the steps of *)
(* clients): a history changes that is empty or whose lock w has, and a    *)
(* lock is taken when it is free.                                          *)
Frame(w) ==
    /\ \A v \in Workers \ {w} : wk'[v] = wk[v]
    /\ \A p \in Processes : Recorded(p) \subseteq Recorded(p)'
    /\ \A p \in Processes : Uses(p) # {} /\ lock[p] # w => Recorded(p)' = Recorded(p)
    /\ \A p \in Processes : lock'[p] = lock[p] \/ {lock[p], lock'[p]} \subseteq {None, w}

LEMMA OthersOK ==
  ASSUME Base, NEW w, Frame(w), NEW v \in Workers \ {w}
  PROVE  WorkerOK(v)'
<1>1. /\ wk'[v] = wk[v] /\ WorkerOK(v) /\ v # None /\ Types /\ Histories
  BY NamesDiffer DEF Base, Frame
<1>2. Step(v)' = Step(v) /\ Definition(v)' = Definition(v) /\ CurrentPath(v)' = CurrentPath(v)
      /\ (AtWork(v)' <=> AtWork(v))
  BY <1>1 DEF Step, Definition, CurrentPath, AtWork
<1>3. \A p \in Processes : lock[p] = v => lock'[p] = v
  BY <1>1 DEF Frame
<1>4. wk[v].pid \in Processes \cup {None}
  BY <1>1, StateType
<1>5. wk[v].pc # "idle" => wk[v].pid \in Processes
  BY <1>1, <1>4 DEF WorkerOK, Assigned
<1>6. AtWork(v) /\ wk[v].i <= Len(Definition(v)) /\ Step(v).op = "spawn"
      => Step(v).child \in Processes
  BY <1>1, AtWorkFacts
<1>7. wk[v].pc \in {"called", "child", "probe", "probed"}
      => AtWork(v) /\ wk[v].i <= Len(Definition(v))
  BY <1>1 DEF WorkerOK, Follows, AtWork
<1>8. wk[v].pc = "probe" => Step(v).child \in Processes
  BY <1>1, <1>6, <1>7 DEF WorkerOK, Spawning
<1>9. Assigned(v)'
  BY <1>1, <1>2, <1>3, <1>5, <1>8 DEF WorkerOK, Assigned, Executing
<1>10. AtWork(v) => /\ wk[v].pid \in Processes /\ lock[wk[v].pid] = v
                    /\ Uses(wk[v].pid) # {}
  BY <1>1, AtWorkFacts DEF WorkerOK, Assigned, AtWork, Executing, PCs
<1>11. AtWork(v) => Recorded(wk[v].pid)' = Recorded(wk[v].pid)
  BY <1>1, <1>10 DEF Frame
<1>12. AtWork(v) => Uses(wk[v].pid)' = Uses(wk[v].pid)
  BY <1>11 DEF Uses
<1>13. Follows(v)'
  BY <1>1, <1>2, <1>12 DEF WorkerOK, Follows, IsLast
<1>14. Calling(v)'
  BY <1>1, <1>2, <1>7, <1>11 DEF WorkerOK, Calling
<1>15. Spawning(v)'
  BY <1>1, <1>2, <1>6, <1>7, <1>11 DEF WorkerOK, Spawning, Spawned, Frame
<1>16. Ends(v)'
  BY <1>1, <1>5 DEF WorkerOK, Ends, IsCompleted, Frame
<1> QED
  BY <1>9, <1>13, <1>14, <1>15, <1>16 DEF WorkerOK

LEMMA BaseByFrame ==
  ASSUME Base, Next, NEW w, Frame(w), Histories',
         w \in Workers =>
            WorkerOK(w)' /\ \A p \in Processes : lock'[p] = w => HasLock(w, p)'
  PROVE  Base'
<1>1. Types'
  BY TypesNext
<1>2. \A v \in Workers : WorkerOK(v)'
  BY OthersOK
<1>3. LocksHeld'
  <2> SUFFICES ASSUME NEW p \in Processes, NEW v \in Workers, lock'[p] = v
               PROVE  HasLock(v, p)'
    BY DEF LocksHeld
  <2>1. CASE v = w
    BY <2>1
  <2>2. CASE v # w
    <3>1. wk'[v] = wk[v] /\ lock[p] = v
      BY <2>2, NamesDiffer DEF Frame
    <3> QED
      BY <3>1 DEF Base, LocksHeld, HasLock, Step, Definition
  <2> QED
    BY <2>1, <2>2
<1> QED
  BY <1>1, <1>2, <1>3 DEF Base

(* Where the steps of a worker leave it. *)
LEMMA IdleOK ==
  ASSUME NEW w \in Workers, wk'[w] = Idle
  PROVE  WorkerOK(w)'
<1>1. wk'[w].pc = "idle" /\ wk'[w].pid = None
  BY DEF Idle
<1> QED
  BY <1>1 DEF WorkerOK, Assigned, Follows, Calling, Spawning, Ends, AtWork, Executing, PCs

(* An execution that ends with res. *)
LEMMA ReturnOK ==
  ASSUME Base, NEW w \in Workers, NEW res \in Results \ {"none", "busy"},
         wk'[w] = [wk[w] EXCEPT !.pc = "unlock", !.res = res],
         NEW p \in Processes, p = wk[w].pid, lock'[p] = w, res = "ok" => IsCompleted(p)'
  PROVE  WorkerOK(w)' /\ HasLock(w, p)'
<1>1. wk'[w].pc = "unlock" /\ wk'[w].pid = p /\ wk'[w].res = res
  BY StateType DEF Base, WorkerStates
<1>2. p # None
  BY NamesDiffer
<1> QED
  BY <1>1, <1>2 DEF WorkerOK, Assigned, Follows, Calling, Spawning, Ends, AtWork, Executing,
                    PCs, HasLock

(* On to the next step. *)
LEMMA AdvanceOK ==
  ASSUME Base, NEW w \in Workers, AtWork(w), wk[w].i <= Len(Definition(w)),
         wk'[w].pc = "step", wk'[w].pid = wk[w].pid, wk'[w].n = wk[w].n,
         wk'[w].def = wk[w].def, wk'[w].i = wk[w].i + 1,
         NEW p \in Processes, p = wk[w].pid, lock'[p] = w, Uses(p)' = Uses(p)
  PROVE  WorkerOK(w)' /\ HasLock(w, p)'
<1>1. Follows(w) /\ WorkerOK(w) /\ Types /\ Histories
  BY DEF Base, WorkerOK
<1>2. Definition(w)' = Definition(w)
  BY DEF Definition
<1>3. wk[w].i + 1 \in 1..(Len(Definition(w)) + 1)
  BY <1>1, AtWorkFacts
<1>4. Follows(w)'
  BY <1>1, <1>2, <1>3 DEF Follows, IsLast
<1>5. p # None
  BY NamesDiffer
<1> QED
  BY <1>4, <1>5 DEF WorkerOK, Assigned, Calling, Spawning, Ends, AtWork, Executing, PCs, HasLock

----------------------------------------------------------------------------
LEMMA ClientStep ==
  ASSUME Base, Next, (\E d \in RootDefs : Bind(d)) \/ Schedule \/ Wake
  PROVE  Base'
<1>1. Histories
  BY DEF Base
<1>2. CASE Schedule \/ Wake
  <2>1. log' = log /\ wk' = wk /\ lock' = lock
    BY <1>2 DEF Schedule, Wake
  <2>2. Frame(None)
    BY <1>1, <2>1, QuietKeeps DEF Frame
  <2> QED
    BY <1>1, <2>1, <2>2, QuietKeeps, BaseByFrame, NamesDiffer
<1>3. ASSUME NEW d \in RootDefs, Bind(d) PROVE Base'
  <2>1. Adds(Root, Use(1, d)) /\ Uses(Root) = {} /\ wk' = wk /\ lock' = lock
    BY <1>3, BindEffect DEF Bind
  <2>2. Frame(None)
    BY <2>1 DEF Frame, Adds
  <2>3. 1 \in 1..MaxUses /\ d \in DOMAIN Defs
    BY NamesDiffer, BoundsAssumption
  <2>4. Histories'
    BY <1>1, <2>1, <2>3, AddsUse
  <2> QED
    BY <2>2, <2>4, BaseByFrame, NamesDiffer
<1> QED
  BY <1>2, <1>3

(* Steps between executions. *)
LEMMA TakeStep ==
  ASSUME Base, Next, NEW w \in Workers, NEW p \in Processes, Take(w, p)
  PROVE  Base'
<1>1. Histories /\ Types /\ WorkerOK(w)
  BY DEF Base
<1>2. log' = log /\ lock' = lock /\ wk[w].pc = "idle"
  BY <1>1 DEF Take
<1>3. [Idle EXCEPT !.pc = "taken", !.pid = p] \in WorkerStates
  BY IdleType DEF WorkerStates, PCs
<1>4. /\ wk'[w] = [Idle EXCEPT !.pc = "taken", !.pid = p]
      /\ \A v \in Workers \ {w} : wk'[v] = wk[v]
  BY <1>1, <1>3, BecomeType DEF Take
<1>5. wk'[w].pc = "taken" /\ wk'[w].pid = p
  BY <1>4 DEF Idle
<1>6. Frame(w)
  BY <1>1, <1>2, <1>4, QuietKeeps DEF Frame
<1>7. WorkerOK(w)'
  BY <1>5, NamesDiffer
  DEF WorkerOK, Assigned, Follows, Calling, Spawning, Ends, AtWork, Executing, PCs
<1>8. \A q \in Processes : lock'[q] # w
  BY <1>2 DEF Base, LocksHeld, HasLock, Executing, PCs
<1> QED
  BY <1>1, <1>2, <1>6, <1>7, <1>8, QuietKeeps, BaseByFrame

LEMMA IdleStep ==
  ASSUME Base, Next, NEW w \in Workers, GiveBack(w) \/ Cancel(w) \/ HandleResult(w)
  PROVE  Base'
<1>1. Histories /\ Types
  BY DEF Base
<1>2. log' = log
  BY DEF GiveBack, Cancel, HandleResult
<1>3. Become(w, Idle)
  BY DEF GiveBack, Cancel, HandleResult, Acked
<1>4. wk'[w] = Idle /\ \A v \in Workers \ {w} : wk'[v] = wk[v]
  BY <1>1, <1>3, IdleType, BecomeType
<1>5. \A p \in Processes : lock[p] = w => lock'[p] = None
  <2>1. CASE Cancel(w)
    BY <2>1 DEF Cancel
  <2>2. CASE GiveBack(w) \/ HandleResult(w)
    BY <2>2 DEF GiveBack, HandleResult, Base, LocksHeld, HasLock, Executing, PCs
  <2> QED
    BY <2>1, <2>2
<1>6. \A p \in Processes : lock[p] # w => lock'[p] = lock[p]
  BY DEF GiveBack, Cancel, HandleResult
<1>7. Frame(w)
  BY <1>1, <1>2, <1>4, <1>5, <1>6, QuietKeeps DEF Frame
<1>8. \A p \in Processes : lock'[p] # w
  BY <1>5, <1>6, NamesDiffer
<1> QED
  BY <1>1, <1>2, <1>4, <1>7, <1>8, IdleOK, QuietKeeps, BaseByFrame

LEMMA LookupOK ==
  ASSUME Base, NEW w \in Workers, NEW p \in Processes, p = wk[w].pid, Lookup(w),
         log' = log, lock'[p] = w
  PROVE  /\ WorkerOK(w)' /\ HasLock(w, p)'
         /\ \A v \in Workers \ {w} : wk'[v] = wk[v]
         /\ wk'[w].pid = p /\ wk'[w].out = wk[w].out
         /\ \/ wk'[w].pc = "unlock" /\ wk'[w].res = "nodef"
            \/ wk'[w].pc = "step" /\ wk'[w].i = 1 /\ wk'[w].res = "none"
<1>1. Histories /\ Types
  BY DEF Base
<1>2. CASE Uses(p) = {}
  <2>1. /\ wk'[w] = [wk[w] EXCEPT !.pc = "unlock", !.res = "nodef"]
        /\ \A v \in Workers \ {w} : wk'[v] = wk[v]
    BY <1>1, <1>2, ReturnType DEF Lookup, Results
  <2>2. /\ wk'[w].pid = p /\ wk'[w].out = wk[w].out /\ wk'[w].pc = "unlock"
        /\ wk'[w].res = "nodef"
    BY <1>1, <2>1, StateType DEF WorkerStates
  <2> QED
    BY <2>1, <2>2, ReturnOK DEF Results
<1>3. CASE Uses(p) # {}
  <2> DEFINE u == LastUse(p)
  <2>1. u \in Uses(p) /\ IsLast(p, u.path[1])
    BY <1>1, <1>3, LastUseIsLast
  <2>2. u = Use(u.path[1], u.arg) /\ u.path[1] \in 1..MaxUses /\ u.arg \in DOMAIN Defs
    BY <1>1, <2>1 DEF Histories
  <2>3. Processing(w, u)
    BY <1>3 DEF Lookup
  <2> HIDE DEF u
  <2>4. u.path[1] \in Nat
    BY <2>2, NamesDiffer
  <2>5. /\ wk'[w] = [wk[w] EXCEPT !.pc = "step", !.n = u.path[1], !.def = u.arg,
                                   !.i = 1, !.res = "none"]
        /\ \A v \in Workers \ {w} : wk'[v] = wk[v]
    BY <1>1, <2>2, <2>3, <2>4, ProcessingType
  <2>6. /\ wk'[w].pc = "step" /\ wk'[w].n = u.path[1] /\ wk'[w].def = u.arg
        /\ wk'[w].i = 1 /\ wk'[w].pid = p /\ wk'[w].out = wk[w].out
        /\ wk'[w].res = "none"
    BY <1>1, <2>5, StateType DEF WorkerStates
  <2>7. Uses(p)' = Uses(p)
    BY <1>1, QuietKeeps
  <2>8. 1 \in 1..(Len(Definition(w)') + 1)
    <3>1. Definition(w)' = Defs[u.arg]
      BY <2>6 DEF Definition
    <3> QED
      BY <2>2, <3>1, DefsAssumption
  <2>9. Follows(w)'
    BY <2>1, <2>2, <2>6, <2>7, <2>8 DEF Follows, IsLast
  <2>10. WorkerOK(w)' /\ HasLock(w, p)'
    BY <2>6, <2>9, NamesDiffer
    DEF WorkerOK, Assigned, Calling, Spawning, Ends, AtWork, Executing, PCs, HasLock
  <2> QED
    BY <2>5, <2>6, <2>10
<1> QED
  BY <1>2, <1>3

LEMMA tryLockStep ==
  ASSUME Base, Next, NEW w \in Workers, tryLock(w)
  PROVE  Base'
<1>1. Histories /\ Types /\ WorkerOK(w) /\ log' = log /\ wk[w].pc \in {"taken", "lock"}
  BY DEF Base, tryLock
<1>2. wk[w].pid \in Processes
  BY <1>1, StateType DEF WorkerOK, Assigned
<1>3. PICK p \in Processes : p = wk[w].pid
  BY <1>2
<1>4. \A q \in Processes : lock[q] # w
  BY <1>1 DEF Base, LocksHeld, HasLock, Executing, PCs
<1>5. CASE TryLock(p, w) /\ Lookup(w)
  <2>1. /\ lock[p] = None /\ lock'[p] = w
        /\ \A q \in Processes \ {p} : lock'[q] = lock[q]
    BY <1>1, <1>5 DEF TryLock, Types
  <2>2. /\ WorkerOK(w)' /\ HasLock(w, p)'
        /\ \A v \in Workers \ {w} : wk'[v] = wk[v]
    BY <1>1, <1>3, <1>5, <2>1, LookupOK
  <2>3. Frame(w)
    BY <1>1, <2>1, <2>2, QuietKeeps DEF Frame
  <2> QED
    BY <1>1, <1>4, <2>1, <2>2, <2>3, QuietKeeps, BaseByFrame
<1>6. CASE Become(w, [wk[w] EXCEPT !.pc = "handle", !.res = "busy"]) /\ lock' = lock
  <2>1. [wk[w] EXCEPT !.pc = "handle", !.res = "busy"] \in WorkerStates
    BY <1>1, StateType DEF WorkerStates, PCs, Results
  <2>2. /\ wk'[w] = [wk[w] EXCEPT !.pc = "handle", !.res = "busy"]
        /\ \A v \in Workers \ {w} : wk'[v] = wk[v]
    BY <1>1, <1>6, <2>1, BecomeType
  <2>3. wk'[w].pc = "handle" /\ wk'[w].res = "busy" /\ wk'[w].pid = p
    BY <1>1, <1>3, <2>2, StateType DEF WorkerStates
  <2>4. WorkerOK(w)'
    BY <2>3, NamesDiffer
    DEF WorkerOK, Assigned, Follows, Calling, Spawning, Ends, AtWork, Executing, PCs, Results
  <2>5. Frame(w)
    BY <1>1, <1>6, <2>2, QuietKeeps DEF Frame
  <2> QED
    BY <1>1, <1>4, <1>6, <2>4, <2>5, QuietKeeps, BaseByFrame
<1> QED
  BY <1>3, <1>5, <1>6 DEF tryLock

LEMMA UnlockStep ==
  ASSUME Base, Next, NEW w \in Workers, Unlock(w)
  PROVE  Base'
<1>1. Histories /\ Types /\ WorkerOK(w) /\ log' = log /\ wk[w].pc = "unlock"
  BY DEF Base, Unlock
<1>2. wk[w].pid \in Processes /\ lock[wk[w].pid] = w
  BY <1>1, StateType DEF WorkerOK, Assigned, Executing, PCs
<1>3. PICK p \in Processes : p = wk[w].pid
  BY <1>2
<1>4. \A q \in Processes \ {p} : lock[q] # w /\ lock'[q] = lock[q]
  BY <1>1, <1>3 DEF Unlock, Unlocked, Types, Base, LocksHeld, HasLock
<1>5. lock[p] = w /\ lock'[p] = None
  BY <1>1, <1>2, <1>3 DEF Unlock, Unlocked, Types
<1> DEFINE a == wk[w].res \in {"err", "suspend"} /\ wk[w].try < MaxRetries
           r == [wk[w] EXCEPT !.pc = IF a THEN "lock" ELSE "handle",
                              !.try = IF a THEN @ + 1 ELSE @]
<1>6. wk'[w] = r /\ \A v \in Workers \ {w} : wk'[v] = wk[v]
  BY <1>1 DEF Unlock, Become, Types
<1>7. /\ wk'[w].pc = IF a THEN "lock" ELSE "handle"
      /\ wk'[w].pid = p /\ wk'[w].res = wk[w].res
  BY <1>1, <1>3, <1>6, StateType DEF WorkerStates
<1>8. wk[w].res \in Results \ {"none", "busy"} /\ (wk[w].res = "ok" => IsCompleted(p))
  BY <1>1, <1>3 DEF WorkerOK, Ends
<1> HIDE DEF a, r
<1>9. IsCompleted(p)' <=> IsCompleted(p)
  BY <1>1, QuietKeeps DEF IsCompleted
<1>10. WorkerOK(w)'
  BY <1>7, <1>8, <1>9, NamesDiffer
  DEF WorkerOK, Assigned, Follows, Calling, Spawning, Ends, AtWork, Executing, PCs, Results
<1>11. Frame(w)
  BY <1>1, <1>4, <1>5, <1>6, QuietKeeps DEF Frame
<1> QED
  BY <1>1, <1>4, <1>5, <1>10, <1>11, NamesDiffer, QuietKeeps, BaseByFrame

----------------------------------------------------------------------------
(* Steps of an execution. *)
LEMMA WorkStep ==
  ASSUME Base, Next, NEW w \in Workers, NEW p \in Processes, p = wk[w].pid,
         AtWork(w), wk[w].pc # "probe", lock' = lock, Histories',
         \A v \in Workers \ {w} : wk'[v] = wk[v],
         \A q \in Processes : Recorded(q) \subseteq Recorded(q)',
         \A q \in Processes \ {p} : Uses(q) # {} => Recorded(q)' = Recorded(q),
         WorkerOK(w)' /\ HasLock(w, p)'
  PROVE  Base'
<1>1. lock[p] = w
  BY DEF Base, WorkerOK, Assigned, AtWork, Executing, PCs
<1>2. \A q \in Processes : lock'[q] = w => q = p
  BY DEF Base, LocksHeld, HasLock
<1>3. Frame(w)
  BY <1>1 DEF Frame
<1> QED
  BY <1>2, <1>3, BaseByFrame

LEMMA WorkFacts ==
  ASSUME Base, NEW w \in Workers, AtWork(w)
  PROVE  /\ Types /\ Histories /\ WorkerOK(w)
         /\ wk[w].pid \in Processes /\ lock[wk[w].pid] = w /\ Uses(wk[w].pid) # {}
<1>1. Types /\ Histories /\ WorkerOK(w)
  BY DEF Base
<1> QED
  BY <1>1, AtWorkFacts DEF WorkerOK, Assigned, AtWork, Executing, PCs

LEMMA AdvanceFields ==
  ASSUME Types, NEW w \in Workers, Advance(w)
  PROVE  /\ wk'[w].pc = "step" /\ wk'[w].pid = wk[w].pid /\ wk'[w].n = wk[w].n
         /\ wk'[w].def = wk[w].def /\ wk'[w].i = wk[w].i + 1
         /\ wk'[w].out = wk[w].out /\ wk'[w].res = wk[w].res
         /\ \A v \in Workers \ {w} : wk'[v] = wk[v]
BY StateType, AdvanceType DEF WorkerStates

LEMMA ReturnFields ==
  ASSUME Types, NEW w \in Workers, NEW res \in Results, Return(w, res)
  PROVE  /\ wk'[w] = [wk[w] EXCEPT !.pc = "unlock", !.res = res]
         /\ wk'[w].pc = "unlock" /\ wk'[w].pid = wk[w].pid
         /\ wk'[w].out = wk[w].out /\ wk'[w].res = res
         /\ \A v \in Workers \ {w} : wk'[v] = wk[v]
<1>1. /\ wk'[w] = [wk[w] EXCEPT !.pc = "unlock", !.res = res]
      /\ \A v \in Workers \ {w} : wk'[v] = wk[v]
  BY ReturnType
<1>2. wk[w] \in WorkerStates
  BY StateType
<1> QED
  BY <1>1, <1>2 DEF WorkerStates

LEMMA ReturnStep ==
  ASSUME Base, NEW w \in Workers, AtWork(w), NEW res \in Results \ {"none", "busy"},
         Return(w, res), NEW p, p = wk[w].pid, lock' = lock,
         res = "ok" => IsCompleted(p)'
  PROVE  WorkerOK(w)' /\ HasLock(w, p)' /\ \A v \in Workers \ {w} : wk'[v] = wk[v]
<1>1. Types /\ p \in Processes /\ lock'[p] = w
  BY WorkFacts
<1>2. /\ wk'[w] = [wk[w] EXCEPT !.pc = "unlock", !.res = res]
      /\ \A v \in Workers \ {w} : wk'[v] = wk[v]
  BY <1>1, ReturnFields
<1> QED
  BY <1>1, <1>2, ReturnOK

LEMMA FailsStep ==
  ASSUME Base, NEW w \in Workers, AtWork(w), Fails(w), NEW p, p = wk[w].pid, lock' = lock
  PROVE  WorkerOK(w)' /\ HasLock(w, p)' /\ \A v \in Workers \ {w} : wk'[v] = wk[v]
<1>1. PICK res \in {"err", "fatal"} : Return(w, res)
  BY DEF Fails
<1>2. res \in Results \ {"none", "busy"} /\ res # "ok"
  BY DEF Results
<1> QED
  BY <1>1, <1>2, ReturnStep

LEMMA AdvanceStep ==
  ASSUME Base, NEW w \in Workers, AtWork(w), wk[w].i <= Len(Definition(w)), Advance(w),
         NEW p, p = wk[w].pid, lock' = lock, Uses(p)' = Uses(p)
  PROVE  WorkerOK(w)' /\ HasLock(w, p)' /\ \A v \in Workers \ {w} : wk'[v] = wk[v]
<1>1. Types /\ p \in Processes /\ lock'[p] = w
  BY WorkFacts
<1> QED
  BY <1>1, AdvanceFields, AdvanceOK

LEMMA QuietWorkStep ==
  ASSUME Base, Next, NEW w \in Workers, Replay(w) \/ SleepStep(w)
  PROVE  Base'
<1>1. /\ AtWork(w) /\ wk[w].i <= Len(Definition(w)) /\ wk[w].pc = "step"
      /\ log' = log /\ lock' = lock
  BY DEF Replay, SleepStep, AtStep, AtWork
<1>2. PICK p : p = wk[w].pid
  OBVIOUS
<1>3. Histories /\ p \in Processes
  BY <1>1, <1>2, WorkFacts
<1>4. Uses(p)' = Uses(p)
  BY <1>1, <1>3, QuietKeeps
<1>5. Advance(w) \/ Return(w, "suspend")
  BY DEF Replay, SleepStep
<1>6. WorkerOK(w)' /\ HasLock(w, p)' /\ \A v \in Workers \ {w} : wk'[v] = wk[v]
  BY <1>1, <1>2, <1>4, <1>5, AdvanceStep, ReturnStep DEF Results
<1> QED
  BY <1>1, <1>2, <1>3, <1>6, QuietKeeps, WorkStep

LEMMA DoStep ==
  ASSUME Base, Next, NEW w \in Workers, Do(w)
  PROVE  Base'
<1>1. /\ AtWork(w) /\ wk[w].i <= Len(Definition(w)) /\ wk[w].pc = "step"
      /\ log' = log /\ lock' = lock /\ Step(w).op \in {"participant", "replace"}
      /\ Event("participant", CurrentPath(w), None) \notin Recorded(wk[w].pid)
  BY DEF Do, AtStep, AtWork, Step
<1>2. PICK p : p = wk[w].pid
  OBVIOUS
<1>3. Histories /\ p \in Processes /\ Types /\ WorkerOK(w) /\ lock[p] = w
  BY <1>1, <1>2, WorkFacts
<1>4. [wk[w] EXCEPT !.pc = "called"] \in WorkerStates
  BY <1>3, StateType DEF WorkerStates, PCs
<1>5. /\ wk'[w] = [wk[w] EXCEPT !.pc = "called"]
      /\ \A v \in Workers \ {w} : wk'[v] = wk[v]
  BY <1>3, <1>4, BecomeType DEF Do
<1>6. /\ wk'[w].pc = "called" /\ wk'[w].pid = p /\ wk'[w].n = wk[w].n
      /\ wk'[w].def = wk[w].def /\ wk'[w].i = wk[w].i
  BY <1>2, <1>3, <1>5, StateType DEF WorkerStates
<1>7. /\ Definition(w)' = Definition(w) /\ Step(w)' = Step(w)
      /\ CurrentPath(w)' = CurrentPath(w)
  BY <1>6 DEF Definition, Step, CurrentPath
<1>8. Recorded(p)' = Recorded(p) /\ Uses(p)' = Uses(p)
  BY <1>1, <1>3, QuietKeeps
<1>9. Follows(w)'
  BY <1>1, <1>2, <1>3, <1>6, <1>7, <1>8 DEF WorkerOK, Follows, IsLast
<1>10. Calling(w)'
  BY <1>1, <1>2, <1>6, <1>7, <1>8 DEF Calling
<1>11. Assigned(w)'
  BY <1>1, <1>3, <1>6, NamesDiffer DEF Assigned
<1>12. Spawning(w)' /\ Ends(w)' /\ HasLock(w, p)'
  BY <1>6 DEF Spawning, Ends, HasLock, Executing, PCs
<1>13. WorkerOK(w)'
  BY <1>9, <1>10, <1>11, <1>12 DEF WorkerOK
<1> QED
  BY <1>1, <1>2, <1>3, <1>5, <1>12, <1>13, QuietKeeps, WorkStep

LEMMA DoDoneStep ==
  ASSUME Base, Next, NEW w \in Workers, DoDone(w)
  PROVE  Base'
<1>1. AtWork(w) /\ wk[w].pc = "called" /\ lock' = lock
  BY DEF DoDone, AtWork
<1>2. PICK p : p = wk[w].pid
  OBVIOUS
<1>3. Histories /\ p \in Processes /\ WorkerOK(w) /\ Uses(p) # {}
  BY <1>1, <1>2, WorkFacts
<1>4. wk[w].i <= Len(Definition(w))
  BY <1>1, <1>3 DEF WorkerOK, Follows
<1> DEFINE e == Event("participant", CurrentPath(w), None)
<1>5. CASE Advance(w) /\ Adds(p, e)
  <2>1. e.type # "use"
    BY EventFields
  <2> HIDE DEF e
  <2>2. Histories' /\ \A q \in Processes : Uses(q)' = Uses(q)
    BY <1>3, <1>5, <2>1, AddsKeeps
  <2>3. WorkerOK(w)' /\ HasLock(w, p)' /\ \A v \in Workers \ {w} : wk'[v] = wk[v]
    BY <1>1, <1>2, <1>3, <1>4, <1>5, <2>2, AdvanceStep
  <2>4. /\ \A q \in Processes : Recorded(q) \subseteq Recorded(q)'
        /\ \A q \in Processes \ {p} : Recorded(q)' = Recorded(q)
    BY <1>5 DEF Adds
  <2> QED
    BY <1>1, <1>2, <1>3, <2>2, <2>3, <2>4, WorkStep
<1>6. CASE Fails(w) /\ log' = log
  <2>1. WorkerOK(w)' /\ HasLock(w, p)' /\ \A v \in Workers \ {w} : wk'[v] = wk[v]
    BY <1>1, <1>2, <1>6, FailsStep
  <2> QED
    BY <1>1, <1>2, <1>3, <1>6, <2>1, QuietKeeps, WorkStep
<1> QED
  BY <1>2, <1>5, <1>6, DoDoneEffect

LEMMA ReplaceStep ==
  ASSUME Base, Next, NEW w \in Workers, Replace(w)
  PROVE  Base'
<1>1. AtWork(w) /\ wk[w].pc = "called" /\ lock' = lock
  BY DEF Replace, AtWork
<1>2. PICK p : p = wk[w].pid
  OBVIOUS
<1>3. /\ Histories /\ Types /\ p \in Processes /\ WorkerOK(w) /\ Uses(p) # {}
      /\ lock[p] = w
  BY <1>1, <1>2, WorkFacts
<1>a. PICK n, d : n = wk[w].n + 1 /\ d = Step(w).def
  OBVIOUS
<1>4. d \in DOMAIN Defs /\ n \in 1..MaxUses /\ Adds(p, Use(n, d))
  BY <1>2, <1>a, ReplaceEffect
<1>5. \A u \in Uses(p) : u.path[1] < n
  <2>1. IsLast(p, wk[w].n) /\ wk[w].n \in Nat
    BY <1>1, <1>2, <1>3, StateType DEF WorkerOK, Follows
  <2>2. \A u \in Uses(p) : u.path[1] \in Nat
    BY <1>3, NamesDiffer DEF Histories
  <2> QED
    BY <1>a, <2>1, <2>2 DEF IsLast
<1>6. Processing(w, Use(n, d))
  BY <1>a DEF Replace
<1>7. /\ Histories'
      /\ Uses(p)' = Uses(p) \cup {Use(n, d)}
  BY <1>3, <1>4, <1>5, AddsUse
<1>8. Use(n, d).path[1] = n /\ Use(n, d).arg = d /\ n \in Nat
  BY <1>4, UseFields, NamesDiffer
<1>9. /\ wk'[w] = [wk[w] EXCEPT !.pc = "step", !.n = n, !.def = d, !.i = 1, !.res = "none"]
      /\ \A v \in Workers \ {w} : wk'[v] = wk[v]
  <2> DEFINE u == Use(n, d)
  <2>1. u.path[1] = n /\ u.arg = d /\ Processing(w, u)
    BY <1>6, <1>8
  <2> HIDE DEF u
  <2>2. /\ wk'[w] = [wk[w] EXCEPT !.pc = "step", !.n = u.path[1], !.def = u.arg,
                                  !.i = 1, !.res = "none"]
        /\ \A v \in Workers \ {w} : wk'[v] = wk[v]
    BY <1>3, <1>4, <1>8, <2>1, ProcessingType
  <2> QED
    BY <2>1, <2>2
<1>10. /\ wk'[w].pc = "step" /\ wk'[w].pid = p /\ wk'[w].n = n /\ wk'[w].def = d
       /\ wk'[w].i = 1
  BY <1>2, <1>3, <1>9, StateType DEF WorkerStates
<1>11. wk'[w].i \in 1..(Len(Definition(w)') + 1)
  <2>1. Definition(w)' = Defs[d]
    BY <1>10 DEF Definition
  <2> QED
    BY <1>4, <1>10, <2>1, DefsAssumption
<1>12. IsLast(p, n)'
  <2>1. \A u \in Uses(p) : u.path[1] \in Nat
    BY <1>3, NamesDiffer DEF Histories
  <2> QED
    BY <1>5, <1>7, <1>8, <2>1 DEF IsLast
<1>13. Follows(w)'
  BY <1>4, <1>7, <1>10, <1>11, <1>12 DEF Follows, IsLast
<1>14. WorkerOK(w)' /\ HasLock(w, p)'
  BY <1>1, <1>3, <1>10, <1>13, NamesDiffer
  DEF WorkerOK, Assigned, Calling, Spawning, Ends, AtWork, Executing, PCs, HasLock
<1>15. /\ \A q \in Processes : Recorded(q) \subseteq Recorded(q)'
       /\ \A q \in Processes \ {p} : Recorded(q)' = Recorded(q)
  BY <1>4 DEF Adds
<1> QED
  BY <1>1, <1>2, <1>3, <1>7, <1>9, <1>14, <1>15, WorkStep

LEMMA SpawnEventsStep ==
  ASSUME Base, Next, NEW w \in Workers, SpawnEvents(w)
  PROVE  Base'
<1>1. /\ AtWork(w) /\ wk[w].pc = "step" /\ lock' = lock
      /\ wk[w].i <= Len(Definition(w)) /\ Step(w).op = "spawn"
  BY DEF SpawnEvents, AtStep, AtWork, Step
<1>2. PICK p, c : p = wk[w].pid /\ c = Step(w).child
  OBVIOUS
<1>3. /\ Histories /\ Types /\ p \in Processes /\ WorkerOK(w) /\ Uses(p) # {}
      /\ lock[p] = w /\ p # None
  BY <1>1, <1>2, WorkFacts, NamesDiffer
<1>4. CASE log' = log /\ Fails(w)
  <2>1. WorkerOK(w)' /\ HasLock(w, p)' /\ \A v \in Workers \ {w} : wk'[v] = wk[v]
    BY <1>1, <1>2, <1>4, FailsStep
  <2> QED
    BY <1>1, <1>2, <1>3, <1>4, <2>1, QuietKeeps, WorkStep
<1>5. ASSUME Spawns(p, c), Histories', WorkerOK(w)', HasLock(w, p)',
             \A q \in Processes : Recorded(q) \subseteq Recorded(q)',
             \A v \in Workers \ {w} : wk'[v] = wk[v]
      PROVE  Base'
  <2>1. \A q \in Processes \ {p} : Uses(q) # {} => Recorded(q)' = Recorded(q)
    BY <1>5 DEF Spawns, Uses
  <2> QED
    BY <1>1, <1>2, <1>3, <1>5, <2>1, WorkStep
<1>6. CASE /\ Spawns(p, c) /\ Fails(w) /\ Recorded(c) = {}
           /\ Recorded(c)' = {} \/ Recorded(c)' = {Use(1, Step(w).def)}
  <2>1. WorkerOK(w)' /\ HasLock(w, p)' /\ \A v \in Workers \ {w} : wk'[v] = wk[v]
    BY <1>1, <1>2, <1>6, FailsStep
  <2>2. Histories' /\ \A q \in Processes : Recorded(q) \subseteq Recorded(q)'
    BY <1>2, <1>3, <1>6, SpawnEffect, SpawnKeeps
  <2> QED
    BY <1>5, <1>6, <2>1, <2>2
<1>7. CASE /\ Spawns(p, c)
           /\ Recorded(c) = {} =>
                 Recorded(c)' = {Use(1, Step(w).def), Event("vars", NoPath, None)}
           /\ Become(w, [wk[w] EXCEPT !.pc = "child"])
  <2>1. /\ Histories' /\ Uses(p)' = Uses(p)
        /\ \A q \in Processes : Recorded(q) \subseteq Recorded(q)'
    BY <1>2, <1>3, <1>7, SpawnEffect, SpawnKeeps
  <2>2. [wk[w] EXCEPT !.pc = "child"] \in WorkerStates
    BY <1>3, StateType DEF WorkerStates, PCs
  <2>3. /\ wk'[w] = [wk[w] EXCEPT !.pc = "child"]
        /\ \A v \in Workers \ {w} : wk'[v] = wk[v]
    BY <1>3, <1>7, <2>2, BecomeType
  <2>4. /\ wk'[w].pc = "child" /\ wk'[w].pid = p /\ wk'[w].n = wk[w].n
        /\ wk'[w].def = wk[w].def /\ wk'[w].i = wk[w].i
    BY <1>2, <1>3, <2>3, StateType DEF WorkerStates
  <2>5. Definition(w)' = Definition(w) /\ Step(w)' = Step(w)
    BY <2>4 DEF Definition, Step
  <2>6. Follows(w)'
    BY <1>1, <1>2, <1>3, <2>1, <2>4, <2>5 DEF WorkerOK, Follows, IsLast
  <2>7. Event("spawn", NoPath, c) \in Recorded(p)' /\ Recorded(c)' # {}
    BY <1>7, <2>1 DEF Spawns
  <2>8. Spawning(w)'
    BY <1>1, <1>2, <2>4, <2>5, <2>7 DEF Spawning, Spawned
  <2>9. Assigned(w)'
    BY <1>1, <1>3, <2>4 DEF Assigned
  <2>10. Calling(w)' /\ Ends(w)' /\ HasLock(w, p)'
    BY <2>4 DEF Calling, Ends, HasLock, Executing, PCs
  <2> QED
    BY <1>5, <1>7, <2>1, <2>3, <2>6, <2>8, <2>9, <2>10 DEF WorkerOK
<1> QED
  BY <1>2, <1>4, <1>6, <1>7, SpawnEffect

(* The steps of scheduleChild. *)
LEMMA ChildFacts ==
  ASSUME Base, NEW w \in Workers, wk[w].pc \in {"child", "probe", "probed"}
  PROVE  /\ AtWork(w) /\ wk[w].i <= Len(Definition(w)) /\ Step(w).child \in Processes
         /\ Step(w).op = "spawn" /\ Spawned(wk[w].pid, Step(w).child)
         /\ Recorded(Step(w).child) # {}
<1>1. AtWork(w)
  BY DEF AtWork
<1>2. WorkerOK(w) /\ Types /\ Histories
  BY DEF Base
<1>3. wk[w].i <= Len(Definition(w)) /\ Step(w).op = "spawn"
      /\ Spawned(wk[w].pid, Step(w).child) /\ Recorded(Step(w).child) # {}
  BY <1>1, <1>2 DEF WorkerOK, Follows, Spawning
<1> QED
  BY <1>1, <1>2, <1>3, AtWorkFacts

NextPC(w, pc) == Become(w, [wk[w] EXCEPT !.pc = pc])

LEMMA ChildPC ==
  ASSUME Base, NEW w \in Workers, wk[w].pc \in {"child", "probe", "probed"},
         NEW pc \in {"probe", "probed"}, NextPC(w, pc),
         log' = log, NEW p, p = wk[w].pid, lock'[p] = w,
         NEW c, c = Step(w).child, pc = "probe" => lock'[c] = w /\ c # p
  PROVE  /\ WorkerOK(w)' /\ HasLock(w, p)' /\ Histories'
         /\ \A v \in Workers \ {w} : wk'[v] = wk[v]
         /\ wk'[w].pc = pc /\ wk'[w].pid = p /\ wk'[w].i = wk[w].i
         /\ wk'[w].out = wk[w].out /\ wk'[w].res = wk[w].res
         /\ wk'[w].n = wk[w].n /\ wk'[w].def = wk[w].def
         /\ Step(w)' = Step(w)
<1>1. /\ AtWork(w) /\ wk[w].i <= Len(Definition(w)) /\ c \in Processes
      /\ Step(w).op = "spawn" /\ Spawned(p, c) /\ Recorded(c) # {}
      /\ Types /\ Histories /\ WorkerOK(w) /\ p \in Processes /\ p # None
  BY ChildFacts, WorkFacts, NamesDiffer
<1>2. [wk[w] EXCEPT !.pc = pc] \in WorkerStates
  BY <1>1, StateType DEF WorkerStates, PCs
<1>3. /\ wk'[w] = [wk[w] EXCEPT !.pc = pc]
      /\ \A v \in Workers \ {w} : wk'[v] = wk[v]
  BY <1>1, <1>2, BecomeType DEF NextPC
<1>4. /\ wk'[w].pc = pc /\ wk'[w].pid = p /\ wk'[w].n = wk[w].n
      /\ wk'[w].def = wk[w].def /\ wk'[w].i = wk[w].i
      /\ wk'[w].out = wk[w].out /\ wk'[w].res = wk[w].res
  BY <1>1, <1>3, StateType DEF WorkerStates
<1>5. Definition(w)' = Definition(w) /\ Step(w)' = Step(w)
  BY <1>4 DEF Definition, Step
<1>6. /\ Histories' /\ Uses(p)' = Uses(p) /\ Recorded(p)' = Recorded(p)
      /\ Recorded(c)' = Recorded(c)
  BY <1>1, QuietKeeps
<1>7. Follows(w)'
  BY <1>1, <1>4, <1>5, <1>6 DEF WorkerOK, Follows, IsLast
<1>8. Spawning(w)'
  BY <1>1, <1>4, <1>5, <1>6 DEF Spawning, Spawned
<1>9. Assigned(w)'
  BY <1>1, <1>4, <1>5 DEF Assigned
<1>10. Calling(w)' /\ Ends(w)' /\ HasLock(w, p)'
  BY <1>4 DEF Calling, Ends, HasLock, Executing, PCs
<1> QED
  BY <1>3, <1>4, <1>5, <1>6, <1>7, <1>8, <1>9, <1>10 DEF WorkerOK

LEMMA ChildTryLockStep ==
  ASSUME Base, Next, NEW w \in Workers, ChildTryLock(w)
  PROVE  Base'
<1>1. wk[w].pc = "child" /\ log' = log
  BY DEF ChildTryLock
<1>2. PICK p, c : p = wk[w].pid /\ c = Step(w).child
  OBVIOUS
<1>3. /\ AtWork(w) /\ wk[w].i <= Len(Definition(w)) /\ c \in Processes
      /\ Types /\ Histories /\ p \in Processes /\ lock[p] = w /\ w # None
  BY <1>1, <1>2, ChildFacts, WorkFacts, NamesDiffer
<1>4. CASE TryLock(c, w) /\ Become(w, [wk[w] EXCEPT !.pc = "probe"])
  <2>1. /\ lock[c] = None /\ lock'[c] = w
        /\ \A q \in Processes \ {c} : lock'[q] = lock[q]
    BY <1>3, <1>4 DEF TryLock, Types
  <2>2. lock'[p] = w /\ c # p
    BY <1>3, <2>1
  <2>3. /\ WorkerOK(w)' /\ HasLock(w, p)' /\ Histories'
        /\ \A v \in Workers \ {w} : wk'[v] = wk[v]
        /\ wk'[w].pc = "probe" /\ Step(w)' = Step(w)
    <3>1. NextPC(w, "probe")
      BY <1>4 DEF NextPC
    <3> QED
      BY <1>1, <1>2, <2>1, <2>2, <3>1, ChildPC
  <2>4. Frame(w)
    BY <1>1, <1>3, <2>1, <2>3, QuietKeeps DEF Frame
  <2>5. \A q \in Processes : lock[q] = w => q = p
    BY <1>1, <1>2 DEF Base, LocksHeld, HasLock
  <2>6. \A q \in Processes : lock'[q] = w => HasLock(w, q)'
    BY <1>2, <2>1, <2>3, <2>5 DEF HasLock
  <2> QED
    BY <2>3, <2>4, <2>6, BaseByFrame
<1>5. CASE Advance(w) /\ lock' = lock
  <2>1. Uses(p)' = Uses(p)
    BY <1>1, <1>3, QuietKeeps
  <2>2. WorkerOK(w)' /\ HasLock(w, p)' /\ \A v \in Workers \ {w} : wk'[v] = wk[v]
    BY <1>2, <1>3, <1>5, <2>1, AdvanceStep
  <2> QED
    BY <1>1, <1>2, <1>3, <1>5, <2>2, QuietKeeps, WorkStep
<1> QED
  BY <1>2, <1>4, <1>5 DEF ChildTryLock

LEMMA ChildUnlockStep ==
  ASSUME Base, Next, NEW w \in Workers, ChildUnlock(w)
  PROVE  Base'
<1>1. wk[w].pc = "probe" /\ log' = log
  BY DEF ChildUnlock
<1>2. PICK p, c : p = wk[w].pid /\ c = Step(w).child
  OBVIOUS
<1>3. /\ c \in Processes /\ Types /\ Histories /\ p \in Processes /\ lock[p] = w
      /\ w # None /\ lock[c] = w /\ c # p
  BY <1>1, <1>2, ChildFacts, WorkFacts, NamesDiffer DEF Base, WorkerOK, Assigned
<1>4. lock'[c] = None /\ \A q \in Processes \ {c} : lock'[q] = lock[q]
  BY <1>2, <1>3 DEF ChildUnlock, Unlocked, Types
<1>5. /\ WorkerOK(w)' /\ HasLock(w, p)' /\ Histories'
      /\ \A v \in Workers \ {w} : wk'[v] = wk[v]
  <2>1. NextPC(w, "probed")
    BY DEF ChildUnlock, NextPC
  <2>2. lock'[p] = w
    BY <1>3, <1>4
  <2> QED
    BY <1>1, <1>2, <2>1, <2>2, ChildPC
<1>6. Frame(w)
  BY <1>1, <1>3, <1>4, <1>5, QuietKeeps DEF Frame
<1>7. \A q \in Processes : lock[q] = w => q = p \/ q = c
  BY <1>1, <1>2 DEF Base, LocksHeld, HasLock
<1> QED
  BY <1>3, <1>4, <1>5, <1>6, <1>7, BaseByFrame

LEMMA ScheduleChildFields ==
  ASSUME Base, NEW w \in Workers, ScheduleChild(w)
  PROVE  /\ wk'[w].pc = "step" /\ wk'[w].pid = wk[w].pid /\ wk'[w].n = wk[w].n
         /\ wk'[w].def = wk[w].def /\ wk'[w].i = wk[w].i + 1 /\ wk'[w].res = wk[w].res
         /\ wk'[w].out = IF IsCompleted(Step(w).child) THEN wk[w].out
                                                       ELSE wk[w].out \cup {Step(w).child}
         /\ \A v \in Workers \ {w} : wk'[v] = wk[v]
<1> DEFINE out == IF IsCompleted(Step(w).child) THEN wk[w].out
                                                ELSE wk[w].out \cup {Step(w).child}
<1>1. wk[w] \in WorkerStates /\ wk \in [Workers -> WorkerStates]
  BY StateType DEF Base, Types
<1>2. Become(w, [wk[w] EXCEPT !.pc = "step", !.i = @ + 1, !.out = out])
  BY DEF ScheduleChild
<1> HIDE DEF out
<1>3. /\ wk'[w] = [wk[w] EXCEPT !.pc = "step", !.i = @ + 1, !.out = out]
      /\ \A v \in Workers \ {w} : wk'[v] = wk[v]
  BY <1>1, <1>2 DEF Become
<1>4. /\ wk'[w].pc = "step" /\ wk'[w].pid = wk[w].pid /\ wk'[w].n = wk[w].n
      /\ wk'[w].def = wk[w].def /\ wk'[w].i = wk[w].i + 1 /\ wk'[w].res = wk[w].res
      /\ wk'[w].out = out
  BY <1>1, <1>3 DEF WorkerStates
<1> QED
  BY <1>3, <1>4 DEF out

LEMMA ScheduleChildStep ==
  ASSUME Base, Next, NEW w \in Workers, ScheduleChild(w)
  PROVE  Base'
<1>1. wk[w].pc = "probed" /\ log' = log /\ lock' = lock
  BY DEF ScheduleChild
<1>2. PICK p : p = wk[w].pid
  OBVIOUS
<1>3. /\ AtWork(w) /\ wk[w].i <= Len(Definition(w))
      /\ Types /\ Histories /\ p \in Processes /\ lock[p] = w
  BY <1>1, <1>2, ChildFacts, WorkFacts
<1>4. Uses(p)' = Uses(p)
  BY <1>1, <1>3, QuietKeeps
<1>5. WorkerOK(w)' /\ HasLock(w, p)' /\ \A v \in Workers \ {w} : wk'[v] = wk[v]
  BY <1>1, <1>2, <1>3, <1>4, ScheduleChildFields, AdvanceOK
<1> QED
  BY <1>1, <1>2, <1>3, <1>5, QuietKeeps, WorkStep

LEMMA JoinStepStep ==
  ASSUME Base, Next, NEW w \in Workers, JoinStep(w)
  PROVE  Base'
<1>1. /\ AtWork(w) /\ wk[w].pc = "step" /\ lock' = lock
      /\ wk[w].i <= Len(Definition(w))
  BY DEF JoinStep, AtStep, AtWork
<1>2. PICK p : p = wk[w].pid
  OBVIOUS
<1>3. Histories /\ p \in Processes /\ Uses(p) # {}
  BY <1>1, <1>2, WorkFacts
<1> DEFINE e == Event("join", CurrentPath(w), None)
<1>4. CASE Advance(w) /\ Adds(p, e)
  <2>1. e.type # "use"
    BY EventFields
  <2> HIDE DEF e
  <2>2. Histories' /\ \A q \in Processes : Uses(q)' = Uses(q)
    BY <1>3, <1>4, <2>1, AddsKeeps
  <2>3. WorkerOK(w)' /\ HasLock(w, p)' /\ \A v \in Workers \ {w} : wk'[v] = wk[v]
    BY <1>1, <1>2, <1>3, <1>4, <2>2, AdvanceStep
  <2>4. /\ \A q \in Processes : Recorded(q) \subseteq Recorded(q)'
        /\ \A q \in Processes \ {p} : Recorded(q)' = Recorded(q)
    BY <1>4 DEF Adds
  <2> QED
    BY <1>1, <1>2, <1>3, <2>2, <2>3, <2>4, WorkStep
<1>5. CASE log' = log /\ (Advance(w) \/ Return(w, "suspend"))
  <2>1. Uses(p)' = Uses(p)
    BY <1>3, <1>5, QuietKeeps
  <2>2. WorkerOK(w)' /\ HasLock(w, p)' /\ \A v \in Workers \ {w} : wk'[v] = wk[v]
    BY <1>1, <1>2, <1>5, <2>1, AdvanceStep, ReturnStep DEF Results
  <2> QED
    BY <1>1, <1>2, <1>3, <1>5, <2>2, QuietKeeps, WorkStep
<1> QED
  BY <1>2, <1>4, <1>5, JoinEffect

LEMMA CompleteStep ==
  ASSUME Base, Next, NEW w \in Workers, Complete(w)
  PROVE  Base'
<1>1. AtWork(w) /\ wk[w].pc = "step" /\ lock' = lock /\ Return(w, "ok")
  BY DEF Complete, AtWork
<1>2. PICK p : p = wk[w].pid
  OBVIOUS
<1>3. Histories /\ p \in Processes /\ Uses(p) # {}
  BY <1>1, <1>2, WorkFacts
<1> DEFINE e == Event("completed", NoPath, None)
<1>4. Adds(p, e)
  BY <1>2, CompleteEffect
<1>5. e.type # "use"
  BY EventFields
<1>6. Histories'
  BY <1>3, <1>4, <1>5, AddsKeeps
<1>7. IsCompleted(p)'
  BY <1>4 DEF Adds, IsCompleted
<1>8. WorkerOK(w)' /\ HasLock(w, p)' /\ \A v \in Workers \ {w} : wk'[v] = wk[v]
  BY <1>1, <1>2, <1>7, ReturnStep DEF Results
<1>9. /\ \A q \in Processes : Recorded(q) \subseteq Recorded(q)'
      /\ \A q \in Processes \ {p} : Recorded(q)' = Recorded(q)
  BY <1>4 DEF Adds
<1> QED
  BY <1>1, <1>2, <1>3, <1>6, <1>8, <1>9, WorkStep

LEMMA BaseNext ==
  ASSUME Base, [Next]_vars
  PROVE  Base'
<1>1. CASE Next
  BY <1>1, ClientStep, TakeStep, IdleStep, tryLockStep, UnlockStep, QuietWorkStep, DoStep,
     DoDoneStep, ReplaceStep, SpawnEventsStep, ChildTryLockStep, ChildUnlockStep,
     ScheduleChildStep, JoinStepStep, CompleteStep DEF Next, Execution
<1>2. CASE UNCHANGED vars
  <2>1. log' = log /\ wk' = wk /\ lock' = lock /\ Types'
    BY <1>2 DEF vars, Base, Types
  <2>2. Frame(None)
    BY <2>1, QuietKeeps DEF Frame, Base
  <2>3. \A v \in Workers : WorkerOK(v)'
    BY <2>2, OthersOK, NamesDiffer
  <2> QED
    BY <2>1, <2>3, QuietKeeps DEF Base, LocksHeld, HasLock, Step, Definition
<1> QED
  BY <1>1, <1>2

LEMMA InitBase == Init => Base
<1> SUFFICES ASSUME Init PROVE Base
  OBVIOUS
<1>1. Types
  <2>1. /\ log \in [Processes -> Seq(Events)] /\ lock \in [Processes -> Workers \cup {None}]
        /\ wk \in [Workers -> WorkerStates] /\ dropped \subseteq Processes
    BY IdleType DEF Init
  <2>4. 0 \in 0..MaxEntries
    BY NamesDiffer
  <2>2. queue \in [Processes -> 0..MaxEntries] /\ schedules \in Nat /\ faults \in Nat
        /\ awake \in BOOLEAN
    BY <2>4 DEF Init
  <2>3. calls \in [Processes -> [Paths -> Nat]]
    BY DEF Init
  <2> QED
    BY <2>1, <2>2, <2>3 DEF Types
<1>2. \A p \in Processes : Recorded(p) = {}
  BY DEF Init, Recorded, ToSet
<1>3. Histories
  BY <1>2 DEF Histories, Uses
<1>4. \A w \in Workers : wk[w].pc = "idle" /\ wk[w].pid = None
  BY DEF Init, Idle
<1>5. \A w \in Workers : WorkerOK(w)
  BY <1>4 DEF WorkerOK, Assigned, Follows, Calling, Spawning, Ends, AtWork, Executing, PCs
<1>6. LocksHeld
  BY NamesDiffer DEF Init, LocksHeld
<1> QED
  BY <1>1, <1>3, <1>5, <1>6 DEF Base

----------------------------------------------------------------------------
(* RecordedOnce: no event of a participant is appended to a history that   *)
(* has it.                                                                 *)
Once(l) == \A j, k \in DOMAIN l : l[j].type = "participant" /\ l[j] = l[k] => j = k

LEMMA OnceAppend ==
  ASSUME NEW l \in Seq(Events), NEW e \in Events, Once(l),
         e.type = "participant" => e \notin ToSet(l)
  PROVE  Once(Append(l, e))
<1> DEFINE r == Append(l, e)
<1>1. /\ Len(l) \in Nat /\ DOMAIN l = 1..Len(l) /\ DOMAIN r = 1..(Len(l) + 1)
      /\ \A i \in 1..Len(l) : r[i] = l[i]
      /\ r[Len(l) + 1] = e
  OBVIOUS
<1>2. \A i \in 1..Len(l) : l[i] \in ToSet(l)
  BY <1>1 DEF ToSet
<1>3. \A i \in 1..(Len(l) + 1) : i \in 1..Len(l) \/ i = Len(l) + 1
  BY <1>1
<1> HIDE DEF r
<1>4. Once(r)
  BY <1>1, <1>2, <1>3 DEF Once
<1> QED
  BY <1>4 DEF r

(* How a history grows. *)
Grows(q) == \/ log'[q] = log[q]
            \/ \E e \in Events : /\ log'[q] = Append(log[q], e)
                                 /\ e.type = "participant" => e \notin Recorded(q)
            \/ /\ log[q] = << >>
               /\ \A k \in DOMAIN log'[q] : log'[q][k].type # "participant"

LEMMA CreatedGrows ==
  ASSUME Types, NEW p \in Processes, NEW e \in Events, e.type # "participant"
  PROVE  \/ Created(p, e) = log[p]
         \/ Created(p, e) = Append(log[p], e)
BY DEF Created

LEMMA SpawnGrows ==
  ASSUME Base, NEW w \in Workers, SpawnEvents(w), NEW q \in Processes
  PROVE  Grows(q)
<1>1. PICK p, c : p = wk[w].pid /\ c = Step(w).child
  OBVIOUS
<1> DEFINE e == Event("spawn", NoPath, c)
           use == Use(1, Step(w).def)
           vs == Event("vars", NoPath, None)
<1>2. AtWork(w) /\ wk[w].i <= Len(Definition(w)) /\ Step(w).op = "spawn"
  BY DEF SpawnEvents, AtStep, AtWork, Step
<1>3. Types /\ p \in Processes /\ c \in Processes /\ Uses(p) # {}
  BY <1>1, <1>2, WorkFacts, AtWorkFacts
<1>4. e \in Events /\ e.type # "participant" /\ vs.type # "participant"
      /\ use.type # "participant"
  BY <1>3, EventType, EventFields, UseFields DEF EventTypes, NoPath
<1>5. Created(p, e) = log[p] \/ Created(p, e) = Append(log[p], e)
  BY <1>3, <1>4, CreatedGrows
<1>6. log \in [Processes -> Seq(Events)] /\ (log[c] = << >> => c # p)
  BY <1>3, EmptyHistory DEF Types, Uses
<1>7. Created(p, e) # << >>
  <2>1. log[p] # << >> /\ log[p] \in Seq(Events)
    BY <1>3, <1>6, EmptyHistory DEF Uses
  <2> QED
    BY <1>4, <1>5, <2>1
<1>8. \/ log' = [log EXCEPT ![p] = Created(p, e),
                           ![c] = IF @ = << >> THEN <<use, vs>> ELSE @]
      \/ /\ log[c] = << >>
         /\ \E history \in {<< >>, <<use>>} :
               log' = [log EXCEPT ![p] = Created(p, e), ![c] = history]
      \/ log' = log
  BY <1>1 DEF SpawnEvents
<1>9. /\ \A k \in DOMAIN <<use, vs>> : <<use, vs>>[k].type # "participant"
      /\ \A k \in DOMAIN <<use>> : <<use>>[k].type # "participant"
      /\ \A k \in DOMAIN << >> : << >>[k].type # "participant"
  BY <1>4
<1> HIDE DEF e, use, vs
<1>10. \/ log'[q] = log[q]
       \/ q = p /\ log'[q] = Created(p, e)
       \/ log[q] = << >> /\ log'[q] \in {<<use, vs>>, <<use>>, << >>}
  BY <1>3, <1>6, <1>7, <1>8
<1>11. CASE log[q] = << >> /\ log'[q] \in {<<use, vs>>, <<use>>, << >>}
  BY <1>9, <1>11 DEF Grows
<1> QED
  BY <1>4, <1>5, <1>10, <1>11 DEF Grows

LEMMA AllGrow ==
  ASSUME Base, Next, NEW q \in Processes
  PROVE  Grows(q)
<1>1. CASE log' = log
  BY <1>1 DEF Grows
<1>2. ASSUME NEW p \in Processes, NEW e \in Events,
             \/ log' = [log EXCEPT ![p] = Append(@, e)]
             \/ log' = [log EXCEPT ![p] = Created(p, e)],
             e.type = "participant" => e \notin Recorded(p)
      PROVE  Grows(q)
  <2>1. log \in [Processes -> Seq(Events)]
    BY DEF Base, Types
  <2>2. log'[q] = log[q] \/ (q = p /\ log'[q] = Append(log[q], e))
    BY <1>2, <2>1 DEF Created
  <2> QED
    BY <1>2, <2>2 DEF Grows
<1>3. ASSUME NEW d \in RootDefs, Bind(d) PROVE Grows(q)
  <2>1. Use(1, d) \in Events /\ Use(1, d).type # "participant"
    BY <1>3, BindEffect, UseFields DEF Adds
  <2> QED
    BY <1>2, <1>3, <2>1, NamesDiffer DEF Bind
<1>4. ASSUME NEW w \in Workers, DoDone(w) PROVE Grows(q)
  <2>1. PICK p, e : p = wk[w].pid /\ e = Event("participant", CurrentPath(w), None)
    OBVIOUS
  <2>2. CASE Adds(p, e) /\ Step(w).op = "participant" /\ faults' = faults
    <3>1. e \notin Recorded(p)
      BY <1>4, <2>1 DEF DoDone, Base, WorkerOK, Calling
    <3>2. log' = [log EXCEPT ![p] = Append(@, e)]
      BY <1>4, <2>1, <2>2, StateType DEF DoDone, Fails, Base, Types
    <3> QED
      BY <1>2, <2>2, <3>1, <3>2 DEF Adds
  <2> QED
    BY <1>1, <1>4, <2>1, <2>2, DoDoneEffect
<1>5. ASSUME NEW w \in Workers, Replace(w) PROVE Grows(q)
  <2>1. PICK p, e : p = wk[w].pid /\ e = Use(wk[w].n + 1, Step(w).def)
    OBVIOUS
  <2>2. Adds(p, e) /\ e.type # "participant"
    BY <1>5, <2>1, ReplaceEffect, UseFields
  <2> QED
    BY <1>2, <1>5, <2>1, <2>2 DEF Replace, Adds
<1>6. ASSUME NEW w \in Workers, JoinStep(w) PROVE Grows(q)
  <2>1. PICK p, e : p = wk[w].pid /\ e = Event("join", CurrentPath(w), None)
    OBVIOUS
  <2>2. CASE Adds(p, e)
    <3>1. e.type # "participant"
      BY <2>1, EventFields
    <3>2. log' = [log EXCEPT ![p] = Created(p, e)] \/ log' = log
      BY <1>6, <2>1 DEF JoinStep
    <3> QED
      BY <1>1, <1>2, <2>2, <3>1, <3>2 DEF Adds
  <2> QED
    BY <1>1, <1>6, <2>1, <2>2, JoinEffect
<1>7. ASSUME NEW w \in Workers, Complete(w) PROVE Grows(q)
  <2>1. PICK p, e : p = wk[w].pid /\ e = Event("completed", NoPath, None)
    OBVIOUS
  <2>2. Adds(p, e) /\ e.type # "participant"
    BY <1>7, <2>1, CompleteEffect, EventFields
  <2> QED
    BY <1>2, <1>7, <2>1, <2>2 DEF Complete, Adds
<1>8. ASSUME NEW w \in Workers, SpawnEvents(w) PROVE Grows(q)
  BY <1>8, SpawnGrows
<1> QED
  BY <1>1, <1>3, <1>4, <1>5, <1>6, <1>7, <1>8
  DEF Next, Execution, Schedule, Wake, Take, GiveBack, Cancel, tryLock, Unlock, HandleResult,
      Replay, Do, SleepStep, ChildTryLock, ChildUnlock, ScheduleChild

OnceInv == \A p \in Processes : Once(log[p])

LEMMA OnceNext ==
  ASSUME Base, OnceInv, [Next]_vars
  PROVE  OnceInv'
<1>1. CASE UNCHANGED vars
  BY <1>1 DEF OnceInv, vars
<1>2. CASE Next
  <2> SUFFICES ASSUME NEW q \in Processes PROVE Once(log'[q])
    BY DEF OnceInv
  <2>1. Grows(q) /\ Once(log[q]) /\ log[q] \in Seq(Events)
    BY <1>2, AllGrow DEF OnceInv, Base, Types
  <2>2. ASSUME NEW e \in Events, log'[q] = Append(log[q], e),
               e.type = "participant" => e \notin Recorded(q)
        PROVE  Once(log'[q])
    BY <2>1, <2>2, OnceAppend DEF Recorded
  <2>3. CASE \A k \in DOMAIN log'[q] : log'[q][k].type # "participant"
    BY <2>3 DEF Once
  <2> QED
    BY <2>1, <2>2, <2>3 DEF Grows
<1> QED
  BY <1>1, <1>2

LEMMA RecordedOnceHolds == Base /\ OnceInv => RecordedOnce
<1> SUFFICES ASSUME Base, OnceInv PROVE RecordedOnce
  OBVIOUS
<1>1. TypeOK
  BY StateType DEF Base, Types, Histories, TypeOK, WorkerOK, Assigned
<1> QED
  BY <1>1 DEF RecordedOnce, OnceInv, Once

(* A step of a process has one event in its history, however often its     *)
(* entry is delivered, retried or given back (executeWR under the lock of  *)
(* the process).                                                           *)
THEOREM StepsRecordedOnce == Spec => []RecordedOnce
<1>1. Init => Base /\ OnceInv
  <2>1. Init => OnceInv
    BY DEF Init, OnceInv, Once
  <2> QED
    BY <2>1, InitBase
<1>2. Base /\ OnceInv /\ [Next]_vars => (Base /\ OnceInv)'
  BY BaseNext, OnceNext
<1> QED
  BY <1>1, <1>2, RecordedOnceHolds, PTL DEF Spec

(* Nothing is ever taken out of a history. *)
LEMMA Growth ==
  ASSUME Base, [Next]_vars, NEW q \in Processes
  PROVE  Recorded(q) \subseteq Recorded(q)'
<1>1. CASE UNCHANGED vars
  BY <1>1 DEF vars, Recorded
<1>2. CASE Next
  <2>1. Grows(q) /\ log[q] \in Seq(Events)
    BY <1>2, AllGrow DEF Base, Types
  <2>2. CASE log'[q] = log[q]
    BY <2>2 DEF Recorded
  <2>3. ASSUME NEW e \in Events, log'[q] = Append(log[q], e)
        PROVE  Recorded(q) \subseteq Recorded(q)'
    BY <2>1, <2>3, ToSetAppend DEF Recorded
  <2>4. CASE log[q] = << >>
    BY <2>4 DEF Recorded, ToSet
  <2> QED
    BY <2>1, <2>2, <2>3, <2>4 DEF Grows
<1> QED
  BY <1>1, <1>2

(* Only one worker takes a step. *)
LEMMA OneActs ==
  ASSUME Base, Next
  PROVE  \/ (\E d \in RootDefs : Bind(d)) \/ Schedule \/ Wake
         \/ \E w \in Workers :
               /\ \A v \in Workers \ {w} : wk'[v] = wk[v]
               /\ (\E p \in Processes : Take(w, p)) \/ GiveBack(w) \/ Execution(w) \/ Cancel(w)
<1>1. wk \in [Workers -> WorkerStates]
  BY DEF Base, Types
<1>2. ASSUME NEW w \in Workers, NEW r, Become(w, r)
      PROVE  \A v \in Workers \ {w} : wk'[v] = wk[v]
  BY <1>1, <1>2 DEF Become
<1>3. ASSUME NEW w \in Workers,
             (\E p \in Processes : Take(w, p)) \/ GiveBack(w) \/ Execution(w) \/ Cancel(w)
      PROVE  \E r : Become(w, r)
  <2>1. Lookup(w) => \E r : Become(w, r)
    BY DEF Lookup, Return, Processing
  <2>2. Fails(w) => \E r : Become(w, r)
    BY DEF Fails, Return
  <2>3. (Advance(w) \/ \E res : Return(w, res)) => \E r : Become(w, r)
    BY DEF Advance, Return
  <2> QED
    BY <1>3, <2>1, <2>2, <2>3
    DEF Execution, Take, GiveBack, Cancel, tryLock, Unlock, HandleResult, Acked, Complete,
        Replay, Do, DoDone, Replace, Processing, SleepStep, SpawnEvents, ChildTryLock,
        ChildUnlock, ScheduleChild, JoinStep
<1> QED
  BY <1>2, <1>3 DEF Next

----------------------------------------------------------------------------
(* CalledOnce: a participant that may be called, because it is not         *)
(* recorded, its definition is the last one and nobody is calling it, has  *)
(* been called no more often than something has failed.                    *)
Free(p, x) == /\ Event("participant", x, None) \notin Recorded(p)
              /\ IsLast(p, x[1])
              /\ \A w \in Workers :
                    ~(wk[w].pc = "called" /\ wk[w].pid = p /\ CurrentPath(w) = x)

CallsInv == \A p \in Processes : \A x \in Paths :
    /\ calls[p][x] <= 1 + faults
    /\ Free(p, x) => calls[p][x] <= faults

(* Without a fault a call of a participant ends with its event or with a   *)
(* new definition.                                                         *)
LEMMA CalledStays ==
  ASSUME Base, Next, faults' = faults, NEW v \in Workers, wk[v].pc = "called"
  PROVE  wk'[v] = wk[v] \/ DoDone(v) \/ Replace(v)
<1>1. wk \in [Workers -> WorkerStates] /\ faults \in Nat
  BY DEF Base, Types
<1>2. CASE (\E d \in RootDefs : Bind(d)) \/ Schedule \/ Wake
  BY <1>2 DEF Bind, Schedule, Wake
<1>3. CASE Execution(v) \/ GiveBack(v) \/ Cancel(v) \/ \E p \in Processes : Take(v, p)
  BY <1>1, <1>3
  DEF Execution, Take, GiveBack, Cancel, tryLock, Unlock, HandleResult, Complete, AtStep,
      Replay, Do, SleepStep, SpawnEvents, ChildTryLock, ChildUnlock, ScheduleChild, JoinStep
<1> QED
  BY <1>2, <1>3, OneActs

(* Without a fault nothing becomes free. *)
LEMMA FreeBefore ==
  ASSUME Base, Next, Base', faults' = faults, NEW p \in Processes, NEW x \in Paths, Free(p, x)'
  PROVE  Free(p, x)
<1>1. Recorded(p) \subseteq Recorded(p)'
  BY Growth
<1>2. Uses(p) \subseteq Uses(p)'
  BY <1>1 DEF Uses
<1>3. Event("participant", x, None) \notin Recorded(p) /\ IsLast(p, x[1])
  BY <1>1, <1>2 DEF Free, IsLast
<1>4. ASSUME NEW w \in Workers, wk[w].pc = "called", wk[w].pid = p, CurrentPath(w) = x
      PROVE  FALSE
  <2>1. CASE wk'[w] = wk[w]
    BY <1>4, <2>1 DEF Free, CurrentPath
  <2>2. CASE DoDone(w)
    <3>1. Types /\ faults \in Nat
      BY DEF Base, Types
    <3>2. ~Fails(w)
      BY <3>1 DEF Fails
    <3>3. Adds(p, Event("participant", CurrentPath(w), None))
      BY <1>4, <2>2, <3>2, DoDoneEffect
    <3> QED
      BY <1>4, <3>3 DEF Adds, Free
  <2>3. CASE Replace(w)
    <3>1. PICK n, d : n = wk[w].n + 1 /\ d = Step(w).def
      OBVIOUS
    <3>2. Adds(p, Use(n, d))
      BY <1>4, <2>3, <3>1, ReplaceEffect
    <3>3. Use(n, d) \in Uses(p)'
      BY <3>2, UseFields DEF Adds, Uses
    <3>4. x[1] = wk[w].n /\ wk[w].n \in Nat
      BY <1>4, StateType DEF CurrentPath, Base
    <3>5. n <= x[1]
      BY <3>3, UseFields DEF Free, IsLast
    <3> QED
      BY <3>1, <3>4, <3>5
  <2> QED
    BY <1>4, <2>1, <2>2, <2>3, CalledStays
<1> QED
  BY <1>3, <1>4 DEF Free

LEMMA CallsNext ==
  ASSUME Base, CallsInv, [Next]_vars, Base'
  PROVE  CallsInv'
<1>0. calls \in [Processes -> [Paths -> Nat]] /\ faults \in Nat
  BY DEF Base, Types
<1>1. CASE UNCHANGED vars
  BY <1>1 DEF vars, CallsInv, Free, IsLast, Uses, Recorded, CurrentPath
<1>2. ASSUME NEW w \in Workers, Do(w) PROVE CallsInv'
  <2>1. PICK p, x : p = wk[w].pid /\ x = CurrentPath(w)
    OBVIOUS
  <2>2. /\ AtWork(w) /\ wk[w].i <= Len(Definition(w)) /\ wk[w].pc = "step"
        /\ Event("participant", x, None) \notin Recorded(p)
        /\ calls' = [calls EXCEPT ![p][x] = @ + 1]
        /\ log' = log /\ faults' = faults
    BY <1>2, <2>1 DEF Do, AtStep, AtWork
  <2>3. p \in Processes /\ x \in Paths /\ lock[p] = w /\ IsLast(p, x[1]) /\ WorkerOK(w)
    BY <2>1, <2>2, WorkFacts, AtWorkFacts DEF WorkerOK, Follows, CurrentPath
  <2>4. \A v \in Workers : wk[v].pc = "called" /\ wk[v].pid = p => v = w
    BY <2>3 DEF Base, WorkerOK, Assigned, Executing, PCs
  <2>5. Free(p, x)
    BY <2>1, <2>2, <2>3, <2>4 DEF Free
  <2>6. calls[p][x] <= faults
    BY <2>3, <2>5 DEF CallsInv
  <2>7. wk'[w].pc = "called" /\ wk'[w].pid = p /\ CurrentPath(w)' = x
    <3>1. wk[w] \in WorkerStates /\ wk \in [Workers -> WorkerStates]
      BY StateType DEF Base, Types
    <3>2. wk'[w] = [wk[w] EXCEPT !.pc = "called"]
      BY <1>2, <3>1 DEF Do, Become
    <3> QED
      BY <2>1, <3>1, <3>2 DEF WorkerStates, CurrentPath
  <2>8. ~Free(p, x)'
    BY <2>7 DEF Free
  <2>9. Next
    BY <1>2 DEF Next, Execution
  <2> SUFFICES ASSUME NEW q \in Processes, NEW y \in Paths
               PROVE  /\ calls'[q][y] <= 1 + faults'
                      /\ Free(q, y)' => calls'[q][y] <= faults'
    BY DEF CallsInv
  <2>10. CASE q = p /\ y = x
    <3>1. calls'[q][y] = calls[p][x] + 1 /\ calls[p][x] \in Nat
      BY <1>0, <2>2, <2>3, <2>10
    <3> QED
      BY <1>0, <2>2, <2>6, <2>8, <2>10, <3>1
  <2>11. CASE ~(q = p /\ y = x)
    <3>1. calls'[q][y] = calls[q][y] /\ calls[q][y] \in Nat
      BY <1>0, <2>2, <2>3, <2>11
    <3> QED
      BY <2>2, <2>9, <3>1, FreeBefore DEF CallsInv
  <2> QED
    BY <2>10, <2>11
<1>3. ASSUME Next, calls' = calls PROVE CallsInv'
  <2> SUFFICES ASSUME NEW q \in Processes, NEW y \in Paths
               PROVE  /\ calls'[q][y] <= 1 + faults'
                      /\ Free(q, y)' => calls'[q][y] <= faults'
    BY DEF CallsInv
  <2>1. faults' = faults \/ faults' = faults + 1
    BY <1>3 DEF Next, Execution, Bind, Schedule, Wake, Take, GiveBack, Cancel, tryLock, Unlock,
                HandleResult, Complete, Replay, Do, DoDone, Replace, SleepStep, SpawnEvents,
                ChildTryLock, ChildUnlock, ScheduleChild, JoinStep, Fails
  <2>2. calls'[q][y] = calls[q][y] /\ calls[q][y] \in Nat
    BY <1>0, <1>3
  <2>3. CASE faults' = faults
    BY <1>3, <2>2, <2>3, FreeBefore DEF CallsInv
  <2>4. CASE faults' = faults + 1
    BY <1>0, <2>2, <2>4 DEF CallsInv
  <2> QED
    BY <2>1, <2>3, <2>4
<1>4. Next => calls' = calls \/ \E w \in Workers : Do(w)
  BY DEF Next, Execution, Bind, Schedule, Wake, Take, GiveBack, Cancel, tryLock, Unlock,
         HandleResult, Complete, Replay, DoDone, Replace, SleepStep, SpawnEvents,
         ChildTryLock, ChildUnlock, ScheduleChild, JoinStep
<1> QED
  BY <1>1, <1>2, <1>3, <1>4

(* A participant is called once, and once more for each fault at most:     *)
(* double deliveries, suspensions and requeued entries replay its event    *)
(* (ExecuteParticipant.execute, "makes retries, crashes, and double-       *)
(* delivery safe").                                                        *)
THEOREM ParticipantsCalledOnce == Spec => []CalledOnce
<1>1. Init => Base /\ CallsInv
  <2>1. Init => CallsInv
    BY DEF Init, CallsInv
  <2> QED
    BY <2>1, InitBase
<1>2. Base /\ CallsInv /\ [Next]_vars => (Base /\ CallsInv)'
  BY BaseNext, CallsNext
<1>3. CallsInv => CalledOnce
  BY DEF CallsInv, CalledOnce
<1> QED
  BY <1>1, <1>2, <1>3, PTL DEF Spec

----------------------------------------------------------------------------
(* NothingSkipped: the steps before the one a worker is at are done, those *)
(* of a completed process are done, and so is a Join that has an event,    *)
(* whatever was spawned or joined since.                                   *)
StepDone(p, n, def, j) ==
    /\ def[j].op = "participant" => Event("participant", <<n, j>>, None) \in Recorded(p)
    /\ def[j].op = "spawn" => Recorded(def[j].child) # {} /\ Spawned(p, def[j].child)
    /\ def[j].op = "join" => JoinDone(p, n, def, j)
    /\ def[j].op = "sleep" => awake
    /\ def[j].op # "replace"

StepsDone == \A w \in Workers : AtWork(w) =>
    \A j \in 1..(wk[w].i - 1) : StepDone(wk[w].pid, wk[w].n, Definition(w), j)

AllDone == \A p \in Processes : IsCompleted(p) =>
    \E u \in Uses(p) : /\ IsLast(p, u.path[1])
                       /\ \A j \in DOMAIN Defs[u.arg] : StepDone(p, u.path[1], Defs[u.arg], j)

JoinEvents == \A p \in Processes : \A e \in Recorded(p) : e.type = "join" =>
    \E u \in Uses(p) : /\ e.path[1] = u.path[1] /\ e.path[2] \in DOMAIN Defs[u.arg]
                       /\ JoinDone(p, u.path[1], Defs[u.arg], e.path[2])

DoneInv == StepsDone /\ AllDone /\ JoinEvents

(* An event that came before those of a Join stays before them. *)
LEMMA PrecededStays ==
  ASSUME Base, [Next]_vars, NEW p \in Processes, NEW path, Preceded(p, path)
  PROVE  Preceded(p, path)'
<1>1. PICK k \in DOMAIN log[p] :
            /\ log[p][k].type = "join" /\ log[p][k].path # path
            /\ \A m \in DOMAIN log[p] : log[p][m] = Event("join", path, None) => k < m
  BY DEF Preceded
<1>2. log[p] \in Seq(Events)
  BY DEF Base, Types
<1>3. CASE log'[p] = log[p]
  BY <1>1, <1>3 DEF Preceded
<1>4. ASSUME NEW e \in Events, log'[p] = Append(log[p], e)
      PROVE  Preceded(p, path)'
  <2> DEFINE l == log[p]
             r == log'[p]
  <2>1. /\ Len(l) \in Nat /\ DOMAIN l = 1..Len(l) /\ DOMAIN r = 1..(Len(l) + 1)
        /\ \A m \in 1..Len(l) : r[m] = l[m]
    BY <1>2, <1>4
  <2>2. \A m \in 1..(Len(l) + 1) : m \in 1..Len(l) \/ (m = Len(l) + 1 /\ k < m)
    BY <1>1, <2>1
  <2>3. k \in DOMAIN r /\ r[k] = l[k]
    BY <1>1, <2>1
  <2>4. ASSUME NEW m \in DOMAIN r, r[m] = Event("join", path, None) PROVE k < m
    BY <1>1, <2>1, <2>2, <2>4
  <2> QED
    BY <1>1, <2>3, <2>4 DEF Preceded
<1>5. CASE log[p] = << >>
  BY <1>1, <1>5
<1>6. CASE UNCHANGED vars
  BY <1>3, <1>6 DEF vars
<1>7. CASE Next
  BY <1>3, <1>4, <1>5, <1>7, AllGrow DEF Grows
<1> QED
  BY <1>6, <1>7

(* What is done stays done. *)
LEMMA JoinDoneStays ==
  ASSUME Base, [Next]_vars, NEW p \in Processes, NEW n, NEW d \in DOMAIN Defs,
         NEW j \in DOMAIN Defs[d], JoinDone(p, n, Defs[d], j)
  PROVE  JoinDone(p, n, Defs[d], j)'
<1>1. \A q \in Processes : Recorded(q) \subseteq Recorded(q)'
  BY Growth
<1>2. Defs[d] \in Seq(Steps) /\ \A k \in 1..j : k \in DOMAIN Defs[d]
  BY DefsAssumption
<1>3. \A k \in 1..j : Defs[d][k].op = "spawn" => Defs[d][k].child \in Processes
  BY <1>2, DefsAssumption
<1>4. j \in Nat \ {0} /\ j \in 1..j /\ \A k \in 1..(j - 1) : k \in 1..j
  BY <1>2
<1>5. Waited(Defs[d], j) => Waited(Defs[d], j)'
  BY <1>1, <1>3, <1>4 DEF Waited, IsCompleted
<1> QED
  BY <1>5, PrecededStays DEF JoinDone

LEMMA DoneStays ==
  ASSUME Base, [Next]_vars, NEW p \in Processes, NEW n, NEW d \in DOMAIN Defs,
         NEW j \in DOMAIN Defs[d], StepDone(p, n, Defs[d], j)
  PROVE  StepDone(p, n, Defs[d], j)'
<1>1. \A q \in Processes : Recorded(q) \subseteq Recorded(q)'
  BY Growth
<1>2. awake => awake'
  BY DEF Next, Execution, Bind, Schedule, Wake, Take, GiveBack, Cancel, tryLock, Unlock, vars,
         HandleResult, Complete, Replay, Do, DoDone, Replace, SleepStep, SpawnEvents,
         ChildTryLock, ChildUnlock, ScheduleChild, JoinStep, envVars
<1>3. Defs[d] \in Seq(Steps) /\ \A k \in 1..j : k \in DOMAIN Defs[d]
  BY DefsAssumption
<1>4. \A k \in 1..j : Defs[d][k].op = "spawn" => Defs[d][k].child \in Processes
  BY <1>3, DefsAssumption
<1>5. j \in Nat \ {0} /\ j \in 1..j /\ \A k \in 1..(j - 1) : k \in 1..j
  BY <1>3
<1>6. JoinDone(p, n, Defs[d], j) => JoinDone(p, n, Defs[d], j)'
  BY JoinDoneStays
<1> QED
  BY <1>1, <1>2, <1>4, <1>5, <1>6 DEF StepDone, Spawned

(* The definition a worker executes is the last one. *)
LEMMA SameUse ==
  ASSUME Base, NEW w \in Workers, AtWork(w), NEW p, p = wk[w].pid,
         NEW u \in Uses(p), IsLast(p, u.path[1])
  PROVE  u.path[1] = wk[w].n /\ u.arg = wk[w].def
<1>1. /\ p \in Processes /\ Histories /\ Types
      /\ Use(wk[w].n, wk[w].def) \in Uses(p) /\ IsLast(p, wk[w].n)
  BY WorkFacts DEF WorkerOK, Follows
<1>2. u.path[1] \in Nat /\ wk[w].n \in Nat
  BY <1>1, StateType, NamesDiffer DEF Histories
<1>3. u.path[1] = wk[w].n
  BY <1>1, <1>2, UseFields DEF IsLast
<1>4. u = Use(wk[w].n, wk[w].def)
  BY <1>1, <1>3, UseFields DEF Histories
<1> QED
  BY <1>4, UseFields

(* How a worker comes to be where it is. *)
Stays(w) == /\ AtWork(w)
            /\ wk'[w].pid = wk[w].pid /\ wk'[w].n = wk[w].n /\ wk'[w].def = wk[w].def
            /\ wk'[w].i = wk[w].i /\ wk'[w].out = wk[w].out
Starts(w) == wk'[w].i = 1 /\ (tryLock(w) \/ Replace(w))
Passes(w) == /\ AtWork(w) /\ wk[w].i <= Len(Definition(w))
             /\ wk'[w].pid = wk[w].pid /\ wk'[w].n = wk[w].n /\ wk'[w].def = wk[w].def
             /\ wk'[w].i = wk[w].i + 1 /\ wk[w].out \subseteq wk'[w].out
             /\ \/ Replay(w) \/ DoDone(w) \/ SleepStep(w) \/ ChildTryLock(w)
                \/ ScheduleChild(w) \/ JoinStep(w)

LEMMA PCFields ==
  ASSUME Base, NEW w \in Workers, NEW pc, NextPC(w, pc)
  PROVE  /\ wk'[w].pc = pc /\ wk'[w].pid = wk[w].pid /\ wk'[w].n = wk[w].n
         /\ wk'[w].def = wk[w].def /\ wk'[w].i = wk[w].i /\ wk'[w].out = wk[w].out
         /\ wk'[w].res = wk[w].res
<1>1. wk[w] \in WorkerStates /\ wk'[w] = [wk[w] EXCEPT !.pc = pc]
  BY DEF Base, Types, NextPC, Become
<1> QED
  BY <1>1 DEF WorkerStates

LEMMA Moves ==
  ASSUME Base, Next, NEW w \in Workers, AtWork(w)'
  PROVE  Stays(w) \/ Starts(w) \/ Passes(w)
<1>0. Types /\ Histories /\ wk \in [Workers -> WorkerStates]
  BY DEF Base, Types
<1>1. CASE wk'[w] = wk[w]
  BY <1>1 DEF Stays, AtWork
<1>2. ASSUME NEW res, Return(w, res) PROVE FALSE
  <2>1. wk'[w].pc = "unlock"
    BY <1>0, <1>2, StateType DEF Return, Become, WorkerStates
  <2> QED
    BY <2>1 DEF AtWork
<1>3. ~Fails(w)
  BY <1>2 DEF Fails
<1>4. CASE tryLock(w)
  <2>1. wk[w].pid \in Processes
    BY <1>0, <1>4, StateType DEF tryLock, Base, WorkerOK, Assigned
  <2>2. CASE Become(w, [wk[w] EXCEPT !.pc = "handle", !.res = "busy"])
    <3>1. wk'[w].pc = "handle"
      BY <1>0, <2>2, StateType DEF Become, WorkerStates
    <3> QED
      BY <3>1 DEF AtWork
  <2>3. CASE TryLock(wk[w].pid, w) /\ Lookup(w) /\ log' = log
    <3>1. PICK p \in Processes : p = wk[w].pid
      BY <2>1
    <3>2. lock'[p] = w
      BY <1>0, <2>3, <3>1 DEF TryLock, Types
    <3>3. wk'[w].pc = "unlock" \/ wk'[w].i = 1
      BY <2>3, <3>1, <3>2, LookupOK
    <3> QED
      BY <1>4, <3>3 DEF AtWork, Starts
  <2> QED
    BY <1>4, <2>2, <2>3 DEF tryLock
<1>5. CASE Replace(w)
  <2>1. wk'[w].i = 1
    BY <1>0, <1>5, StateType DEF Replace, Processing, Become, WorkerStates
  <2> QED
    BY <1>5, <2>1 DEF Starts
<1>6. CASE Do(w) \/ ChildUnlock(w)
  <2>1. AtWork(w)
    BY <1>6 DEF Do, AtStep, ChildUnlock, AtWork
  <2>2. \E pc : NextPC(w, pc)
    BY <1>6 DEF Do, ChildUnlock, NextPC
  <2> QED
    BY <2>1, <2>2, PCFields DEF Stays
<1>7. CASE SpawnEvents(w)
  <2>1. AtWork(w)
    BY <1>7 DEF SpawnEvents, AtStep, AtWork
  <2>2. NextPC(w, "child")
    BY <1>3, <1>7 DEF SpawnEvents, NextPC
  <2> QED
    BY <2>1, <2>2, PCFields DEF Stays
<1>8. CASE ScheduleChild(w)
  <2>1. AtWork(w) /\ wk[w].i <= Len(Definition(w))
    BY <1>8, ChildFacts DEF ScheduleChild
  <2> QED
    BY <1>8, <2>1, ScheduleChildFields DEF Passes
<1>9. CASE ChildTryLock(w)
  <2>1. AtWork(w) /\ wk[w].i <= Len(Definition(w))
    BY <1>9, ChildFacts DEF ChildTryLock
  <2>2. CASE NextPC(w, "probe")
    BY <2>1, <2>2, PCFields DEF Stays
  <2>3. CASE Advance(w)
    BY <1>0, <1>9, <2>1, <2>3, AdvanceFields DEF Passes
  <2> QED
    BY <1>9, <2>2, <2>3 DEF ChildTryLock, NextPC
<1>10. CASE Replay(w) \/ SleepStep(w) \/ JoinStep(w)
  <2>1. AtWork(w) /\ wk[w].i <= Len(Definition(w))
    BY <1>10 DEF Replay, SleepStep, JoinStep, AtStep, AtWork
  <2>2. Advance(w)
    BY <1>2, <1>10 DEF Replay, SleepStep, JoinStep
  <2> QED
    BY <1>0, <1>10, <2>1, <2>2, AdvanceFields DEF Passes
<1>11. CASE DoDone(w)
  <2>1. AtWork(w) /\ wk[w].i <= Len(Definition(w))
    BY <1>11 DEF DoDone, AtWork, Base, WorkerOK, Follows
  <2>2. Advance(w)
    BY <1>3, <1>11 DEF DoDone
  <2> QED
    BY <1>0, <1>11, <2>1, <2>2, AdvanceFields DEF Passes
<1>12. CASE Complete(w)
  BY <1>2, <1>12 DEF Complete
<1>13. CASE (\E p \in Processes : Take(w, p)) \/ GiveBack(w) \/ Cancel(w) \/ HandleResult(w)
            \/ Unlock(w)
  <2>1. wk'[w].pc \in {"idle", "taken", "lock", "handle"}
    <3>1. CASE \E p \in Processes : Take(w, p)
      BY <1>0, <3>1 DEF Take, Become, Idle
    <3>2. CASE GiveBack(w) \/ Cancel(w) \/ HandleResult(w)
      BY <1>0, <3>2 DEF GiveBack, Cancel, HandleResult, Acked, Become, Idle
    <3>3. CASE Unlock(w)
      <4>1. \E r : /\ wk' = [wk EXCEPT ![w] = r] /\ r.pc \in {"lock", "handle"}
        <5> DEFINE a == wk[w].res \in {"err", "suspend"} /\ wk[w].try < MaxRetries
                   r == [wk[w] EXCEPT !.pc = IF a THEN "lock" ELSE "handle",
                                      !.try = IF a THEN @ + 1 ELSE @]
        <5>1. wk' = [wk EXCEPT ![w] = r]
          BY <3>3 DEF Unlock, Become
        <5>2. r.pc = IF a THEN "lock" ELSE "handle"
          BY <1>0, StateType DEF WorkerStates
        <5> QED
          BY <5>1, <5>2
      <4> QED
        BY <1>0, <4>1
    <3> QED
      BY <1>13, <3>1, <3>2, <3>3
  <2> QED
    BY <2>1 DEF AtWork
<1>14. CASE (\E d \in RootDefs : Bind(d)) \/ Schedule \/ Wake
  BY <1>1, <1>14 DEF Bind, Schedule, Wake
<1> QED
  BY <1>1, <1>4, <1>5, <1>6, <1>7, <1>8, <1>9, <1>10, <1>11, <1>12, <1>13, <1>14, OneActs
  DEF Execution

(* What the steps add to the histories. *)
NewEvent(q, e) ==
    \/ /\ Uses(q) = {} /\ e.type \in {"use", "vars"}
       /\ \/ q = Root
          \/ \E w \in Workers : SpawnEvents(w) /\ AtWork(w) /\ Step(w).child = q
    \/ e.type = "participant"
    \/ \E w \in Workers : Replace(w) /\ wk[w].pid = q /\ e.type = "use"
    \/ \E w \in Workers : SpawnEvents(w) /\ wk[w].pid = q /\ AtWork(w)
                          /\ e = Event("spawn", NoPath, Step(w).child)
    \/ \E w \in Workers : JoinStep(w) /\ wk[w].pid = q /\ AtWork(w)
                          /\ e = Event("join", CurrentPath(w), None)
    \/ \E w \in Workers : Complete(w) /\ wk[w].pid = q /\ AtWork(w)
                          /\ e = Event("completed", NoPath, None)

LEMMA NewEvents ==
  ASSUME Base, Next, NEW q \in Processes, NEW e \in Recorded(q)', e \notin Recorded(q)
  PROVE  NewEvent(q, e)
<1>1. log' # log
  BY Keeps
<1>2. ASSUME NEW d \in RootDefs, Bind(d) PROVE NewEvent(q, e)
  <2>1. Adds(Root, Use(1, d)) /\ Uses(Root) = {}
    BY <1>2, BindEffect DEF Bind
  <2>2. q = Root /\ e = Use(1, d)
    BY <2>1 DEF Adds
  <2> QED
    BY <2>1, <2>2, UseFields DEF NewEvent
<1>3. ASSUME NEW w \in Workers, DoDone(w) PROVE NewEvent(q, e)
  <2>1. PICK p : p = wk[w].pid
    OBVIOUS
  <2>2. Adds(p, Event("participant", CurrentPath(w), None))
    BY <1>1, <1>3, <2>1, DoDoneEffect
  <2>3. e = Event("participant", CurrentPath(w), None)
    BY <2>2 DEF Adds
  <2> QED
    BY <2>3, EventFields DEF NewEvent
<1>4. ASSUME NEW w \in Workers, Replace(w) PROVE NewEvent(q, e)
  <2>1. PICK p, n, d : p = wk[w].pid /\ n = wk[w].n + 1 /\ d = Step(w).def
    OBVIOUS
  <2>2. Adds(p, Use(n, d))
    BY <1>4, <2>1, ReplaceEffect
  <2>3. q = p /\ e = Use(n, d)
    BY <2>2 DEF Adds
  <2>4. e.type = "use"
    BY <2>3, UseFields
  <2> QED
    BY <1>4, <2>1, <2>3, <2>4 DEF NewEvent
<1>5. ASSUME NEW w \in Workers, JoinStep(w) PROVE NewEvent(q, e)
  <2>1. PICK p : p = wk[w].pid
    OBVIOUS
  <2>2. AtWork(w)
    BY <1>5 DEF JoinStep, AtStep, AtWork
  <2>3. Adds(p, Event("join", CurrentPath(w), None))
    BY <1>1, <1>5, <2>1, JoinEffect
  <2>4. q = p /\ e = Event("join", CurrentPath(w), None)
    BY <2>3 DEF Adds
  <2> QED
    BY <1>5, <2>1, <2>2, <2>4 DEF NewEvent
<1>6. ASSUME NEW w \in Workers, Complete(w) PROVE NewEvent(q, e)
  <2>1. PICK p : p = wk[w].pid
    OBVIOUS
  <2>2. AtWork(w)
    BY <1>6 DEF Complete, AtWork
  <2> QED
    BY <1>6, <2>1, <2>2, CompleteEffect DEF Adds, NewEvent
<1>7. ASSUME NEW w \in Workers, SpawnEvents(w) PROVE NewEvent(q, e)
  <2>1. PICK p, c, d : p = wk[w].pid /\ c = Step(w).child /\ d = Step(w).def
    OBVIOUS
  <2>2. AtWork(w)
    BY <1>7 DEF SpawnEvents, AtStep, AtWork
  <2>3. Spawns(p, c)
    BY <1>1, <1>7, <2>1, SpawnEffect
  <2>4. Recorded(c) = {} => Recorded(c)' \subseteq {Use(1, d), Event("vars", NoPath, None)}
    BY <1>1, <1>7, <2>1, SpawnEffect
  <2>5. CASE q = p
    BY <1>7, <2>1, <2>2, <2>3, <2>5 DEF Spawns, NewEvent
  <2>6. CASE q = c /\ q # p
    <3>1. Recorded(c) = {} /\ e \in {Use(1, d), Event("vars", NoPath, None)}
      BY <2>3, <2>4, <2>6 DEF Spawns
    <3>2. e.type \in {"use", "vars"} /\ Uses(q) = {}
      BY <2>6, <3>1, UseFields, EventFields DEF Uses
    <3> QED
      BY <1>7, <2>1, <2>2, <2>6, <3>2 DEF NewEvent
  <2>7. CASE q # c /\ q # p
    BY <2>3, <2>7 DEF Spawns
  <2> QED
    BY <2>5, <2>6, <2>7
<1> QED
  BY <1>1, <1>2, <1>3, <1>4, <1>5, <1>6, <1>7
  DEF Next, Execution, Schedule, Wake, Take, GiveBack, Cancel, tryLock, Unlock, HandleResult,
      Replay, Do, SleepStep, ChildTryLock, ChildUnlock, ScheduleChild

(* The definitions of a process that has some change with Replace only. *)
LEMMA UsesStay ==
  ASSUME Base, Next, NEW q \in Processes, Uses(q) # {},
         \A w \in Workers : ~(Replace(w) /\ wk[w].pid = q)
  PROVE  Uses(q)' = Uses(q)
<1>1. Uses(q) \subseteq Uses(q)'
  BY Growth DEF Uses
<1>2. ASSUME NEW e \in Uses(q)', e \notin Uses(q) PROVE FALSE
  <2>1. e \in Recorded(q)' /\ e \notin Recorded(q) /\ e.type = "use"
    BY <1>2 DEF Uses
  <2> QED
    BY <2>1, NewEvents, EventFields DEF NewEvent
<1> QED
  BY <1>1, <1>2

(* A Join waits for the children spawned before it, or another has passed. *)
LEMMA JoinPasses ==
  ASSUME Base, StepsDone, JoinEvents, NEW w \in Workers, JoinStep(w), Advance(w)
  PROVE  JoinDone(wk[w].pid, wk[w].n, Definition(w), wk[w].i)
<1>1. PICK p, c, n, d, i : /\ p = wk[w].pid /\ c = Step(w).child /\ n = wk[w].n
                           /\ d = wk[w].def /\ i = wk[w].i
  OBVIOUS
<1>2. /\ AtWork(w) /\ i <= Len(Definition(w)) /\ Step(w).op = "join"
      /\ Definition(w) = Defs[d] /\ Step(w) = Defs[d][i] /\ CurrentPath(w) = <<n, i>>
  BY <1>1 DEF JoinStep, AtStep, AtWork, Definition, Step, CurrentPath
<1>3. /\ p \in Processes /\ Types /\ Histories /\ d \in DOMAIN Defs /\ i \in DOMAIN Defs[d]
      /\ WorkerOK(w)
  BY <1>1, <1>2, WorkFacts, AtWorkFacts
<1> DEFINE e == Event("join", <<n, i>>, None)
<1>4. CASE e \in Recorded(p)
  <2>1. e.type = "join" /\ e.path[1] = n /\ e.path[2] = i
    BY EventFields
  <2>2. PICK u \in Uses(p) : u.path[1] = n /\ JoinDone(p, n, Defs[u.arg], i)
    BY <1>3, <1>4, <2>1 DEF JoinEvents
  <2>3. Use(n, d) \in Uses(p) /\ Use(n, d).path[1] = n /\ Use(n, d).arg = d
    BY <1>1, <1>2, <1>3, UseFields DEF WorkerOK, Follows
  <2>4. u.arg = d
    BY <1>3, <2>2, <2>3 DEF Histories
  <2> QED
    BY <1>1, <1>2, <2>2, <2>4
<1>5. CASE e \notin Recorded(p) /\ JoinOfAnother(w) # {}
  <2>1. PICK k \in DOMAIN log[p] : log[p][k].type = "join" /\ log[p][k].path # <<n, i>>
    BY <1>1, <1>2, <1>5 DEF JoinOfAnother
  <2>2. \A m \in DOMAIN log[p] : log[p][m] # e
    BY <1>5 DEF Recorded, ToSet
  <2>3. Preceded(p, <<n, i>>)
    BY <2>1, <2>2 DEF Preceded
  <2> QED
    BY <1>1, <2>3 DEF JoinDone
<1> SUFFICES ASSUME JoinOfAnother(w) = {}
             PROVE  Waited(Definition(w), i)
  BY <1>1, <1>4, <1>5 DEF JoinDone
<1> HIDE DEF e
<1>6. JoinOfAnother(w) = {}
  OBVIOUS
<1>7. IF c = None THEN \A x \in Children(w) : IsCompleted(x) ELSE IsCompleted(c)
  <2>1. ~Return(w, "suspend")
    <3>1. Return(w, "suspend") => wk'[w].pc = "unlock"
      BY <1>3, ReturnFields DEF Results
    <3>2. wk'[w].pc = "step"
      BY <1>3, AdvanceFields
    <3> QED
      BY <3>1, <3>2
  <2> QED
    BY <1>1, <1>6, <2>1 DEF JoinStep
<1> SUFFICES ASSUME NEW k \in 1..(i - 1), Defs[d][k].op = "spawn",
                    c \in {None, Defs[d][k].child}
             PROVE  IsCompleted(Defs[d][k].child)
  BY <1>1, <1>2 DEF Waited
<1> DEFINE x == Defs[d][k].child
<1>8. CASE c # None
  BY <1>7, <1>8
<1>9. CASE c = None
  <2>1. Event("spawn", NoPath, x) \in Recorded(p)
    BY <1>1, <1>2 DEF StepsDone, StepDone, Spawned
  <2>2. PICK m \in DOMAIN log[p] : log[p][m] = Event("spawn", NoPath, x)
    BY <2>1 DEF Recorded, ToSet
  <2>3. m \in Scanned(w)
    BY <1>1, <1>6, <2>2 DEF Scanned
  <2>4. log[p][m].type = "spawn" /\ log[p][m].arg = x
    BY <2>2, EventFields
  <2>5. x \in Children(w)
    BY <1>1, <2>3, <2>4 DEF Children
  <2> QED
    BY <1>7, <1>9, <2>5
<1> QED
  BY <1>8, <1>9

(* A step that is passed is done. *)
LEMMA PassedIsDone ==
  ASSUME Base, StepsDone, JoinEvents, Next, NEW w \in Workers, Passes(w), AtWork(w)',
         NEW p, p = wk[w].pid, NEW n, n = wk[w].n, NEW def, def = Definition(w),
         NEW i, i = wk[w].i
  PROVE  StepDone(p, n, def, i)'
<1>1. /\ AtWork(w) /\ Types /\ Histories /\ WorkerOK(w) /\ p \in Processes
      /\ def = Defs[wk[w].def] /\ wk[w].def \in DOMAIN Defs /\ i \in DOMAIN def
      /\ Step(w) = def[i] /\ CurrentPath(w) = <<n, i>>
      /\ Step(w).op = "spawn" => Step(w).child \in Processes
  BY WorkFacts, AtWorkFacts DEF Passes, Definition, Step, CurrentPath
<1>2. \A q \in Processes : Recorded(q) \subseteq Recorded(q)'
  BY Growth
<1>3. ASSUME NEW res, Return(w, res) PROVE FALSE
  <2>1. wk'[w].pc = "unlock"
    BY <1>1, <1>3, StateType DEF Return, Become, WorkerStates, Types
  <2> QED
    BY <2>1 DEF AtWork
<1>4. ~Fails(w)
  BY <1>3 DEF Fails
<1>5. CASE Replay(w)
  <2>1. def[i].op = "participant" /\ Event("participant", <<n, i>>, None) \in Recorded(p)
    BY <1>1, <1>5 DEF Replay, AtStep, Step
  <2> QED
    BY <1>1, <1>2, <2>1 DEF StepDone
<1>6. CASE DoDone(w)
  <2>1. def[i].op = "participant" /\ Adds(p, Event("participant", <<n, i>>, None))
    BY <1>1, <1>4, <1>6, DoDoneEffect
  <2> QED
    BY <2>1 DEF StepDone, Adds
<1>7. CASE SleepStep(w)
  <2>1. def[i].op = "sleep" /\ awake /\ awake' = awake
    BY <1>1, <1>3, <1>7 DEF SleepStep, AtStep, Step, envVars
  <2> QED
    BY <2>1 DEF StepDone
<1>8. CASE ChildTryLock(w) \/ ScheduleChild(w)
  <2>1. wk[w].pc \in {"child", "probe", "probed"}
    BY <1>8 DEF ChildTryLock, ScheduleChild
  <2>2. def[i].op = "spawn" /\ Spawned(p, def[i].child) /\ Recorded(def[i].child) # {}
        /\ def[i].child \in Processes
    BY <1>1, <2>1, ChildFacts
  <2> QED
    BY <1>1, <1>2, <2>2 DEF StepDone, Spawned
<1>9. CASE JoinStep(w)
  <2>1. def[i].op = "join" /\ Advance(w)
    BY <1>1, <1>3, <1>9 DEF JoinStep, AtStep, Step
  <2>2. JoinDone(p, n, def, i)
    BY <1>9, <2>1, JoinPasses
  <2>3. StepDone(p, n, def, i)
    BY <2>1, <2>2 DEF StepDone
  <2>4. PICK d \in DOMAIN Defs : def = Defs[d]
    BY <1>1
  <2> QED
    BY <1>1, <2>3, <2>4, DoneStays
<1> QED
  BY <1>5, <1>6, <1>7, <1>8, <1>9 DEF Passes

LEMMA StepsDoneNext ==
  ASSUME Base, StepsDone, JoinEvents, Next
  PROVE  StepsDone'
<1> SUFFICES ASSUME NEW w \in Workers, AtWork(w)', NEW j \in 1..(wk'[w].i - 1)
             PROVE  StepDone(wk[w].pid, wk[w].n, Definition(w), j)'
  BY DEF StepsDone
<1>1. CASE Starts(w)
  BY <1>1 DEF Starts
<1>2. ASSUME Stays(w) \/ Passes(w) PROVE StepDone(wk[w].pid, wk[w].n, Definition(w), j)'
  <2>1. PICK p, n, d, i : p = wk[w].pid /\ n = wk[w].n /\ d = wk[w].def /\ i = wk[w].i
    OBVIOUS
  <2>2. /\ AtWork(w) /\ wk'[w].pid = p /\ wk'[w].n = n /\ Definition(w)' = Defs[d]
        /\ Definition(w) = Defs[d]
    BY <1>2, <2>1 DEF Stays, Passes, Definition
  <2>3. /\ p \in Processes /\ d \in DOMAIN Defs /\ i \in 1..(Len(Defs[d]) + 1)
        /\ Defs[d] \in Seq(Steps)
    BY <2>1, <2>2, WorkFacts, AtWorkFacts
  <2>4. ASSUME j \in 1..(i - 1) PROVE StepDone(p, n, Defs[d], j)'
    <3>1. StepDone(p, n, Defs[d], j)
      BY <2>1, <2>2, <2>4 DEF StepsDone
    <3>2. j \in DOMAIN Defs[d]
      BY <2>3, <2>4
    <3> QED
      BY <2>3, <3>1, <3>2, DoneStays
  <2>5. ASSUME j \notin 1..(i - 1) PROVE StepDone(p, n, Defs[d], j)'
    <3>1. j = i /\ Passes(w)
      BY <1>2, <2>1, <2>3, <2>5 DEF Stays, Passes
    <3> QED
      BY <2>1, <2>2, <3>1, PassedIsDone
  <2> QED
    BY <2>2, <2>4, <2>5
<1> QED
  BY <1>1, <1>2, Moves

(* A process that replaces its definition has a Replace in the last one. *)
LEMMA ReplaceFirst ==
  ASSUME Base, StepsDone, NEW w \in Workers, Replace(w), NEW p, p = wk[w].pid,
         NEW u \in Uses(p), IsLast(p, u.path[1])
  PROVE  /\ wk[w].i \in DOMAIN Defs[u.arg] /\ Defs[u.arg][wk[w].i].op = "replace"
         /\ u.arg \in DOMAIN Defs
<1>1. AtWork(w) /\ wk[w].i <= Len(Definition(w)) /\ Step(w).op = "replace"
  BY DEF Replace, AtWork, Base, WorkerOK, Follows
<1>2. u.arg = wk[w].def
  BY <1>1, SameUse
<1>3. wk[w].i \in DOMAIN Definition(w) /\ wk[w].def \in DOMAIN Defs
  BY <1>1, WorkFacts, AtWorkFacts
<1> QED
  BY <1>1, <1>2, <1>3 DEF Definition, Step

LEMMA AllDoneNext ==
  ASSUME Base, StepsDone, AllDone, Next
  PROVE  AllDone'
<1> SUFFICES ASSUME NEW p \in Processes, IsCompleted(p)'
             PROVE  \E u \in Uses(p)' :
                       /\ IsLast(p, u.path[1])'
                       /\ \A j \in DOMAIN Defs[u.arg] : StepDone(p, u.path[1], Defs[u.arg], j)'
  BY DEF AllDone
<1>1. Histories
  BY DEF Base
<1>2. ASSUME NEW u \in Uses(p), IsLast(p, u.path[1]),
             \A j \in DOMAIN Defs[u.arg] : StepDone(p, u.path[1], Defs[u.arg], j),
             Uses(p)' = Uses(p)
      PROVE  /\ IsLast(p, u.path[1])'
             /\ \A j \in DOMAIN Defs[u.arg] : StepDone(p, u.path[1], Defs[u.arg], j)'
  <2>1. u.arg \in DOMAIN Defs
    BY <1>1 DEF Histories
  <2> QED
    BY <1>2, <2>1, DoneStays DEF IsLast
<1>3. CASE IsCompleted(p)
  <2>1. PICK u \in Uses(p) :
              /\ IsLast(p, u.path[1])
              /\ \A j \in DOMAIN Defs[u.arg] : StepDone(p, u.path[1], Defs[u.arg], j)
    BY <1>3 DEF AllDone
  <2>2. ASSUME NEW w \in Workers, Replace(w), wk[w].pid = p PROVE FALSE
    BY <2>1, <2>2, ReplaceFirst DEF StepDone
  <2>3. Uses(p)' = Uses(p)
    BY <2>1, <2>2, UsesStay
  <2> QED
    BY <1>2, <2>1, <2>3
<1>4. CASE ~IsCompleted(p)
  <2>1. NewEvent(p, Event("completed", NoPath, None))
    BY <1>4, NewEvents DEF IsCompleted
  <2>2. PICK w \in Workers : Complete(w) /\ wk[w].pid = p /\ AtWork(w)
    BY <2>1, EventFields DEF NewEvent
  <2>3. PICK u : u = Use(wk[w].n, wk[w].def)
    OBVIOUS
  <2>4. /\ u \in Uses(p) /\ IsLast(p, u.path[1]) /\ u.path[1] = wk[w].n /\ u.arg = wk[w].def
    BY <2>2, <2>3, UseFields DEF Base, WorkerOK, Follows
  <2>5. \A j \in DOMAIN Defs[u.arg] : StepDone(p, u.path[1], Defs[u.arg], j)
    <3>1. /\ wk[w].i > Len(Defs[u.arg]) /\ Definition(w) = Defs[u.arg]
          /\ Defs[u.arg] \in Seq(Steps) /\ wk[w].i \in Nat
      BY <2>2, <2>4, WorkFacts, AtWorkFacts, StateType DEF Complete, Definition
    <3>2. \A j \in DOMAIN Defs[u.arg] : j \in 1..(wk[w].i - 1)
      BY <3>1
    <3> QED
      BY <2>2, <2>4, <3>1, <3>2 DEF StepsDone
  <2>6. \A v \in Workers : ~(Replace(v) /\ wk[v].pid = p)
    <3>1. lock[p] = w
      BY <2>2, WorkFacts
    <3>2. \A v \in Workers : Replace(v) /\ wk[v].pid = p => lock[p] = v /\ wk[v].pc = "called"
      BY DEF Replace, Base, WorkerOK, Assigned, Executing, PCs
    <3> QED
      BY <2>2, <3>1, <3>2 DEF Complete
  <2>7. Uses(p)' = Uses(p)
    BY <2>4, <2>6, UsesStay
  <2> QED
    BY <1>2, <2>4, <2>5, <2>7
<1> QED
  BY <1>3, <1>4

LEMMA JoinEventsNext ==
  ASSUME Base, StepsDone, JoinEvents, Next
  PROVE  JoinEvents'
<1> SUFFICES ASSUME NEW p \in Processes, NEW e \in Recorded(p)', e.type = "join"
             PROVE  \E u \in Uses(p)' :
                       /\ e.path[1] = u.path[1] /\ e.path[2] \in DOMAIN Defs[u.arg]
                       /\ JoinDone(p, u.path[1], Defs[u.arg], e.path[2])'
  BY DEF JoinEvents
<1>1. Uses(p) \subseteq Uses(p)' /\ Histories
  BY Growth DEF Uses, Base
<1>2. SUFFICES \E u \in Uses(p) : /\ e.path[1] = u.path[1] /\ e.path[2] \in DOMAIN Defs[u.arg]
                                  /\ JoinDone(p, u.path[1], Defs[u.arg], e.path[2])
  <2>1. ASSUME NEW u \in Uses(p), NEW j \in DOMAIN Defs[u.arg],
               JoinDone(p, u.path[1], Defs[u.arg], j)
        PROVE  JoinDone(p, u.path[1], Defs[u.arg], j)'
    BY <1>1, <2>1, JoinDoneStays DEF Histories
  <2> QED
    BY <1>1, <2>1
<1>3. CASE e \in Recorded(p)
  BY <1>3 DEF JoinEvents
<1>4. CASE e \notin Recorded(p)
  <2>1. NewEvent(p, e) /\ log' # log
    BY <1>4, NewEvents, Keeps
  <2>2. PICK w \in Workers : JoinStep(w) /\ wk[w].pid = p /\ AtWork(w)
                             /\ e = Event("join", CurrentPath(w), None)
    BY <2>1, EventFields DEF NewEvent
  <2>3. PICK u, i : u = Use(wk[w].n, wk[w].def) /\ i = wk[w].i
    OBVIOUS
  <2>4. u \in Uses(p) /\ u.path[1] = wk[w].n /\ u.arg = wk[w].def
    BY <2>2, <2>3, UseFields DEF Base, WorkerOK, Follows
  <2>5. e.path[1] = u.path[1] /\ e.path[2] = i
    BY <2>2, <2>3, <2>4, EventFields DEF CurrentPath
  <2>6. i \in DOMAIN Defs[u.arg] /\ Definition(w) = Defs[u.arg]
    BY <2>2, <2>3, <2>4, WorkFacts, AtWorkFacts DEF JoinStep, AtStep, Definition
  <2>7. Advance(w)
    BY <2>1, <2>2 DEF JoinStep
  <2>8. JoinDone(p, u.path[1], Defs[u.arg], i)
    BY <2>2, <2>3, <2>4, <2>6, <2>7, JoinPasses
  <2> QED
    BY <2>4, <2>5, <2>6, <2>8
<1> QED
  BY <1>3, <1>4

LEMMA DoneNext ==
  ASSUME Base, DoneInv, [Next]_vars
  PROVE  DoneInv'
<1>1. CASE Next
  BY <1>1, StepsDoneNext, AllDoneNext, JoinEventsNext DEF DoneInv
<1>2. CASE UNCHANGED vars
  <2> SUFFICES DoneInv' <=> DoneInv
    OBVIOUS
  <2> QED
    BY <1>2
    DEF vars, DoneInv, StepsDone, AllDone, JoinEvents, StepDone, Spawned, JoinDone, Preceded,
        Waited, IsCompleted, IsLast, Uses, Recorded, AtWork, Definition
<1> QED
  BY <1>1, <1>2

LEMMA NothingSkippedHolds ==
  ASSUME Base, StepsDone, AllDone
  PROVE  NothingSkipped
<1>1. JoinWaits
  BY DEF StepsDone, StepDone, JoinWaits, AtWork
<1>2. CompletedInFull
  <2> SUFFICES ASSUME NEW p \in Processes, IsCompleted(p),
                      NEW i \in DOMAIN Defs[LastUse(p).arg]
               PROVE  LET def == Defs[LastUse(p).arg]
                      IN  CASE def[i].op = "participant" ->
                               Event("participant", <<LastUse(p).path[1], i>>, None)
                                  \in Recorded(p)
                            [] def[i].op = "spawn" -> log[def[i].child] # << >>
                            [] def[i].op = "join" ->
                               JoinDone(p, LastUse(p).path[1], def, i)
                            [] def[i].op = "sleep" -> awake
                            [] OTHER -> FALSE
    BY DEF CompletedInFull
  <2>1. PICK u \in Uses(p) :
              /\ IsLast(p, u.path[1])
              /\ \A j \in DOMAIN Defs[u.arg] : StepDone(p, u.path[1], Defs[u.arg], j)
    BY DEF AllDone
  <2>2. LastUse(p) \in Uses(p) /\ IsLast(p, LastUse(p).path[1]) /\ Histories /\ Types
    BY <2>1, LastUseIsLast DEF Base
  <2>3. u.path[1] \in Nat /\ LastUse(p).path[1] \in Nat
    BY <2>1, <2>2, NamesDiffer DEF Histories
  <2>4. LastUse(p) = u
    BY <2>1, <2>2, <2>3 DEF IsLast, Histories
  <2> DEFINE def == Defs[u.arg]
  <2>5. u.arg \in DOMAIN Defs /\ i \in DOMAIN def
    BY <2>2, <2>4 DEF Histories
  <2>6. /\ def[i].op \in Ops
        /\ def[i].op = "spawn" => def[i].child \in Processes
    <3>1. def[i] \in Steps
      BY <2>5, DefsAssumption
    <3> QED
      BY <2>5, <3>1, DefsAssumption DEF Steps
  <2>7. StepDone(p, u.path[1], def, i)
    BY <2>1, <2>5
  <2>8. def[i].op = "spawn" => log[def[i].child] # << >>
    BY <2>2, <2>6, <2>7, EmptyHistory DEF StepDone
  <2> QED
    BY <2>4, <2>6, <2>7, <2>8 DEF StepDone, Ops
<1> QED
  BY <1>1, <1>2 DEF NothingSkipped

(* Nobody gets past the first Join of a process before the children it     *)
(* waits for have completed, or past a later one before an earlier one has *)
(* its event, and a completed process has done every step of its last      *)
(* definition (Sequence.Execute, joinChild, joinAll).                      *)
THEOREM StepsAreNotSkipped == Spec => []NothingSkipped
<1>1. Init => Base /\ DoneInv
  <2> SUFFICES ASSUME Init PROVE DoneInv
    BY InitBase
  <2>1. \A p \in Processes : Recorded(p) = {}
    BY DEF Init, Recorded, ToSet
  <2>2. \A w \in Workers : ~AtWork(w)
    BY DEF Init, Idle, AtWork
  <2> QED
    BY <2>1, <2>2 DEF DoneInv, StepsDone, AllDone, JoinEvents, IsCompleted
<1>2. Base /\ DoneInv /\ [Next]_vars => (Base /\ DoneInv)'
  BY BaseNext, DoneNext
<1>3. Base /\ DoneInv => NothingSkipped
  BY NothingSkippedHolds DEF DoneInv
<1> QED
  BY <1>1, <1>2, <1>3, PTL DEF Spec

----------------------------------------------------------------------------
(* NotForgotten.  An entry of a process is lost only when it is            *)
(* acknowledged because the process was locked: then somebody executes it, *)
(* or looks whether it runs and schedules it next.                         *)

(* The steps that spawn a child; one behind a Replace is never reached.    *)
SpawnsOf(def, c) == {k \in DOMAIN def : /\ def[k].op = "spawn" /\ def[k].child = c
                                        /\ \A j \in 1..(k - 1) : def[j].op # "replace"}

(* There is an entry of the process that is not about to be acknowledged   *)
(* as busy.                                                                *)
Self(p) == \/ queue[p] > 0
           \/ \E w \in Workers : wk[w].pid = p /\ ~(wk[w].pc = "handle" /\ wk[w].res = "busy")

(* A worker has scheduled the process or does so next.                     *)
Carries(w, p) == \/ wk[w].pc \notin {"idle", "taken"} /\ p \in wk[w].out
                 \/ p \in Probing(w)

(* Whoever executes q, which has not completed, will schedule its child p. *)
Owes(q, p) ==
    /\ ~IsCompleted(q)
    /\ \E u \in Uses(q) : IsLast(q, u.path[1]) /\ SpawnsOf(Defs[u.arg], p) # {}
    /\ \A w \in Workers : AtWork(w) /\ wk[w].pid = q =>
          \E k \in SpawnsOf(Definition(w), p) : k >= wk[w].i

Covered(p) == \/ Self(p)
              \/ \E w \in Workers : Carries(w, p)
              \/ p = Root /\ schedules = 0
              \/ \E q \in Processes : Spawned(q, p) /\ Owes(q, p)
              \/ p \in withdrawn

(* For the root also before it is bound: clients schedule first as well. *)
Cover == \A p \in Processes :
    (p = Root \/ Uses(p) # {}) /\ ~IsCompleted(p) /\ dropped = {} => Covered(p)

(* Who has the lock of a process executes it, or is about to schedule it. *)
LEMMA LockCovers ==
  \A p \in Processes : Base /\ lock[p] # None => Covered(p)
<1> SUFFICES ASSUME NEW p \in Processes, Base, lock[p] # None
             PROVE  Covered(p)
  OBVIOUS
<1>1. PICK v \in Workers : lock[p] = v
  BY DEF Base, Types
<1>2. HasLock(v, p)
  BY <1>1 DEF Base, LocksHeld
<1>3. CASE wk[v].pid = p /\ wk[v].pc \in Executing
  BY <1>3 DEF Covered, Self, Executing
<1>4. CASE wk[v].pc = "probe" /\ Step(v).child = p
  BY <1>4 DEF Covered, Carries, Probing
<1> QED
  BY <1>2, <1>3, <1>4 DEF HasLock

LEMMA LockCoversNext ==
  (\A p \in Processes : Base /\ lock[p] # None => Covered(p))'
BY LockCovers, PTL

LEMMA SameUseAlways ==
  \A w \in Workers : Base /\ AtWork(w) =>
      \A u \in Uses(wk[w].pid) : IsLast(wk[w].pid, u.path[1]) =>
          u.path[1] = wk[w].n /\ u.arg = wk[w].def
BY SameUse

LEMMA SameUseNext ==
  (\A w \in Workers : Base /\ AtWork(w) =>
      \A u \in Uses(wk[w].pid) : IsLast(wk[w].pid, u.path[1]) =>
          u.path[1] = wk[w].n /\ u.arg = wk[w].def)'
BY SameUseAlways, PTL

(* Only the worker with the lock of a process is at work on it. *)
LEMMA OneWorker ==
  \A v, w \in Workers : Base /\ AtWork(v) /\ AtWork(w) /\ wk[v].pid = wk[w].pid => v = w
BY WorkFacts

LEMMA OneWorkerNext ==
  (\A v, w \in Workers : Base /\ AtWork(v) /\ AtWork(w) /\ wk[v].pid = wk[w].pid => v = w)'
BY OneWorker, PTL

(* A parent that has not completed does not skip a Spawn that is due. *)
LEMMA OwesAhead ==
  ASSUME Base, NEW p \in Processes, NEW q \in Processes, Owes(q, p),
         NEW w \in Workers, wk[w].pid = q
  PROVE  ~Replace(w) /\ ~Complete(w)
<1> SUFFICES ASSUME Replace(w) \/ Complete(w) PROVE FALSE
  OBVIOUS
<1>1. AtWork(w)
  BY DEF Replace, Complete, AtWork
<1>2. PICK k \in SpawnsOf(Definition(w), p) : k >= wk[w].i
  BY <1>1 DEF Owes
<1>3. /\ Definition(w) \in Seq(Steps) /\ wk[w].i \in Nat \ {0}
      /\ k \in DOMAIN Definition(w) /\ k \in Nat /\ k <= Len(Definition(w))
      /\ Len(Definition(w)) \in Nat
  BY <1>1, <1>2, WorkFacts, AtWorkFacts DEF SpawnsOf
<1>4. CASE Complete(w)
  BY <1>2, <1>3, <1>4 DEF Complete
<1>5. CASE Replace(w)
  <2>1. Definition(w)[wk[w].i].op = "replace"
    BY <1>5 DEF Replace, Step
  <2>2. wk[w].i # k /\ wk[w].i \notin 1..(k - 1)
    BY <1>2, <2>1 DEF SpawnsOf
  <2> QED
    BY <1>2, <1>3, <2>2
<1> QED
  BY <1>4, <1>5

(* A parent that has spawned a child schedules it whenever it is executed, *)
(* unless somebody has the child's lock.                                   *)
LEMMA OwesStays ==
  ASSUME Base, Next, Base', NEW p \in Processes, NEW q \in Processes,
         Spawned(q, p), Owes(q, p), ~IsCompleted(p)
  PROVE  Covered(p)'
<1>1. Spawned(q, p)'
  BY Growth DEF Spawned
<1>2. ~IsCompleted(q)'
  <2> SUFFICES ASSUME IsCompleted(q)' PROVE FALSE
    OBVIOUS
  <2>1. NewEvent(q, Event("completed", NoPath, None))
    BY NewEvents DEF Owes, IsCompleted
  <2>2. PICK w \in Workers : Complete(w) /\ wk[w].pid = q
    BY <2>1, EventFields DEF NewEvent
  <2> QED
    BY <2>2, OwesAhead
<1>3. PICK u \in Uses(q) : IsLast(q, u.path[1]) /\ SpawnsOf(Defs[u.arg], p) # {}
  BY DEF Owes
<1>4. Uses(q)' = Uses(q)
  BY <1>3, OwesAhead, UsesStay
<1>5. IsLast(q, u.path[1])' /\ u \in Uses(q)' /\ u.arg \in DOMAIN Defs
  BY <1>3, <1>4 DEF IsLast, Base, Histories
<1> SUFFICES ASSUME ~Covered(p)', NEW w \in Workers, AtWork(w)', wk'[w].pid = q
             PROVE  \E k \in SpawnsOf(Definition(w)', p) : k >= wk'[w].i
  BY <1>1, <1>2, <1>3, <1>5 DEF Covered, Owes, SpawnsOf
<1>6. CASE Stays(w)
  <2>1. Definition(w)' = Definition(w)
    BY <1>6 DEF Stays, Definition
  <2> QED
    BY <1>6, <2>1 DEF Stays, Owes
<1>7. CASE Starts(w)
  <2>1. u.arg = wk'[w].def
    BY <1>5, SameUseNext
  <2>2. PICK k \in SpawnsOf(Definition(w)', p) : TRUE
    BY <1>3, <2>1 DEF Definition
  <2>3. k \in Nat /\ k >= 1
    BY <1>5, <2>1, <2>2, DefsAssumption DEF SpawnsOf, Definition
  <2> QED
    BY <1>7, <2>2, <2>3 DEF Starts
<1>8. CASE Passes(w)
  <2>1. /\ AtWork(w) /\ wk[w].pid = q /\ Definition(w)' = Definition(w)
        /\ wk'[w].i = wk[w].i + 1
    BY <1>8 DEF Passes, Definition
  <2>2. PICK k \in SpawnsOf(Definition(w), p) : k >= wk[w].i
    BY <2>1 DEF Owes
  <2>3. /\ k \in Nat /\ wk[w].i \in Nat /\ WorkerOK(w) /\ Types
        /\ wk[w].i <= Len(Definition(w))
    BY <1>8, <2>1, <2>2, WorkFacts, AtWorkFacts DEF SpawnsOf, Passes
  <2>4. ASSUME k = wk[w].i PROVE FALSE
    <3>1. Step(w).op = "spawn" /\ Step(w).child = p
      BY <2>2, <2>4 DEF SpawnsOf, Step
    <3>2. CASE ScheduleChild(w)
      <4>1. p \in wk'[w].out
        BY <3>1, <3>2, ScheduleChildFields
      <4> QED
        BY <4>1 DEF Covered, Carries, AtWork
    <3>3. CASE ChildTryLock(w)
      <4>1. ~NextPC(w, "probe")
        BY <2>1, <2>3, <3>3, PCFields
      <4>2. lock[p] # None /\ lock' = lock
        BY <3>1, <3>3, <4>1 DEF ChildTryLock, NextPC
      <4> QED
        BY <4>2, LockCoversNext
    <3>4. CASE Replay(w) \/ SleepStep(w) \/ JoinStep(w)
      BY <3>1, <3>4 DEF Replay, SleepStep, JoinStep, AtStep, Step
    <3>5. CASE DoDone(w)
      BY <2>3, <3>1, <3>5 DEF DoDone, WorkerOK, Calling
    <3> QED
      BY <1>8, <3>2, <3>3, <3>4, <3>5 DEF Passes
  <2>5. k >= wk'[w].i
    BY <2>1, <2>2, <2>3, <2>4
  <2> QED
    BY <2>1, <2>2, <2>5
<1> QED
  BY <1>6, <1>7, <1>8, Moves

(* Where the steps of an execution lead: nothing that was scheduled in the *)
(* transaction of the entry is taken back.                                 *)
Goes(w) == /\ wk'[w].pid = wk[w].pid /\ wk'[w].pc \notin {"handle", "idle", "taken"}
           /\ wk[w].out \subseteq wk'[w].out

LEMMA WorkStays ==
  ASSUME Base, NEW w \in Workers,
         \/ Complete(w) \/ Replay(w) \/ Do(w) \/ DoDone(w) \/ Replace(w) \/ SleepStep(w)
         \/ SpawnEvents(w) \/ ChildTryLock(w) \/ ChildUnlock(w) \/ ScheduleChild(w)
         \/ JoinStep(w)
  PROVE  Goes(w)
<1>1. Types /\ wk[w] \in WorkerStates /\ wk \in [Workers -> WorkerStates]
  BY StateType DEF Base, Types
<1>2. ASSUME NEW res, Return(w, res) PROVE Goes(w)
  BY <1>1, <1>2 DEF Return, Become, WorkerStates, Goes
<1>3. ASSUME Advance(w) PROVE Goes(w)
  BY <1>1, <1>3, AdvanceFields DEF Goes
<1>4. ASSUME NEW use, Processing(w, use) PROVE Goes(w)
  BY <1>1, <1>4 DEF Processing, Become, WorkerStates, Goes
<1>5. ASSUME NEW pc \in {"called", "child", "probe", "probed"}, NextPC(w, pc) PROVE Goes(w)
  BY <1>5, PCFields DEF Goes
<1>6. CASE ScheduleChild(w)
  BY <1>6, ScheduleChildFields DEF Goes
<1>7. CASE Fails(w)
  BY <1>2, <1>7 DEF Fails
<1>8. CASE Complete(w) \/ Replay(w) \/ SleepStep(w) \/ JoinStep(w)
  BY <1>2, <1>3, <1>8 DEF Complete, Replay, SleepStep, JoinStep
<1>9. CASE Do(w) \/ ChildUnlock(w) \/ ChildTryLock(w)
  BY <1>3, <1>5, <1>9 DEF Do, ChildUnlock, ChildTryLock, NextPC
<1>10. CASE DoDone(w) \/ Replace(w) \/ SpawnEvents(w)
  BY <1>3, <1>4, <1>5, <1>7, <1>10 DEF DoDone, Replace, SpawnEvents, NextPC
<1> QED
  BY <1>6, <1>8, <1>9, <1>10

(* An entry that is in the queue or with a worker stays so, until its      *)
(* process has completed or is found locked.                               *)
LEMMA EntriesStay ==
  ASSUME Base, Next, NEW p \in Processes, queue[p] > 0
  PROVE  queue'[p] > 0 \/ \E w \in Workers : Take(w, p)
<1>1. queue \in [Processes -> 0..MaxEntries] /\ MaxEntries \in Nat \ {0}
  BY NamesDiffer DEF Base, Types
<1>2. \A r, x : \A n \in 0..MaxEntries : Published(r, n) \in 1..MaxEntries
  BY PublishedType
<1>3. \A n \in 1..MaxEntries : n > 0 /\ n \in 0..MaxEntries
  BY <1>1
<1>4. CASE Schedule
  <2>1. PICK n \in {queue[Root], Published(Root, queue[Root])} :
              queue' = [queue EXCEPT ![Root] = Published(Root, n)]
    BY <1>4 DEF Schedule
  <2>2. n \in 0..MaxEntries
    BY <1>1, <1>2, <1>3, NamesDiffer
  <2> QED
    BY <1>1, <1>2, <1>3, <2>1, <2>2
<1>5. ASSUME NEW w \in Workers, NEW q \in Processes, Take(w, q), q # p PROVE queue'[p] > 0
  BY <1>1, <1>5 DEF Take
<1>6. ASSUME NEW w \in Workers, GiveBack(w) \/ Cancel(w) PROVE queue'[p] > 0
  BY <1>1, <1>2, <1>3, <1>6 DEF GiveBack, Cancel
<1>7. ASSUME NEW w \in Workers, HandleResult(w) PROVE queue'[p] > 0
  <2>1. PICK more : Acked(w, more)
    BY <1>7 DEF HandleResult
  <2> QED
    BY <1>1, <1>2, <1>3, <2>1 DEF Acked
<1>8. CASE queue' = queue
  BY <1>8
<1> QED
  BY <1>4, <1>5, <1>6, <1>7, <1>8
  DEF Next, Execution, Bind, Wake, tryLock, Unlock, Complete, Replay, Do, DoDone, Replace,
      SleepStep, SpawnEvents, ChildTryLock, ChildUnlock, ScheduleChild, JoinStep, envVars

(* An entry stays one, or its process is found locked and is covered by    *)
(* who has the lock.                                                       *)
LEMMA SelfStays ==
  ASSUME Base, Next, Base', NEW p \in Processes, Self(p), dropped' = {}, ~IsCompleted(p)
  PROVE  Covered(p)'
<1>0. Types /\ queue \in [Processes -> 0..MaxEntries] /\ wk \in [Workers -> WorkerStates]
  BY DEF Base, Types
<1>1. ASSUME NEW w \in Workers, Take(w, p) PROVE Self(p)'
  <2>1. wk'[w].pid = p /\ wk'[w].pc = "taken"
    BY <1>0, <1>1 DEF Take, Become, Idle
  <2> QED
    BY <2>1 DEF Self
<1>2. CASE queue[p] > 0
  BY <1>1, <1>2, EntriesStay DEF Covered, Self
<1>3. ASSUME NEW w \in Workers, wk[w].pid = p, ~(wk[w].pc = "handle" /\ wk[w].res = "busy")
      PROVE  Covered(p)'
  <2>1. CASE wk'[w] = wk[w]
    BY <1>3, <2>1 DEF Covered, Self
  <2>2. \A n \in 0..MaxEntries : Published(p, n) > 0
    BY PublishedType, NamesDiffer
  <2>3. CASE \E q \in Processes : Take(w, q)
    BY <1>3, <2>3, NamesDiffer DEF Take, Base, WorkerOK, Assigned
  <2>4. CASE GiveBack(w) \/ Cancel(w)
    <3>1. queue'[p] = Published(p, queue[p])
      BY <1>0, <1>3, <2>4 DEF GiveBack, Cancel
    <3> QED
      BY <1>0, <2>2, <3>1 DEF Covered, Self
  <2>5. CASE HandleResult(w)
    <3>1. wk[w].res \in Results \ {"none", "busy", "ok"}
      BY <1>3, <2>5 DEF HandleResult, Base, WorkerOK, Ends
    <3>2. Acked(w, {p})
      BY <1>3, <2>5, <3>1 DEF HandleResult
    <3>3. queue'[p] = Published(p, queue[p])
      BY <3>2 DEF Acked
    <3> QED
      BY <1>0, <2>2, <3>3 DEF Covered, Self
  <2>6. CASE tryLock(w)
    <3>1. CASE TryLock(p, w) /\ Lookup(w)
      <4>1. lock'[p] = w /\ log' = log
        BY <1>0, <2>6, <3>1 DEF TryLock, tryLock, Types
      <4>2. wk'[w].pid = p /\ wk'[w].pc \in {"unlock", "step"}
        BY <1>3, <3>1, <4>1, LookupOK
      <4> QED
        BY <4>2 DEF Covered, Self
    <3>2. CASE lock[p] # None /\ lock' = lock
      BY <3>2, LockCoversNext
    <3> QED
      BY <1>3, <2>6, <3>1, <3>2 DEF tryLock
  <2>7. CASE Unlock(w)
    <3> DEFINE a == wk[w].res \in {"err", "suspend"} /\ wk[w].try < MaxRetries
               r == [wk[w] EXCEPT !.pc = IF a THEN "lock" ELSE "handle",
                                  !.try = IF a THEN @ + 1 ELSE @]
    <3>1. wk'[w] = r
      BY <1>0, <2>7 DEF Unlock, Become
    <3>2. wk[w] \in WorkerStates
      BY <1>0
    <3>3. wk'[w].pid = p /\ wk'[w].res = wk[w].res
      BY <1>3, <3>1, <3>2 DEF WorkerStates
    <3>4. wk[w].res # "busy"
      BY <2>7 DEF Unlock, Base, WorkerOK, Ends
    <3> QED
      BY <3>3, <3>4 DEF Covered, Self
  <2>8. CASE \/ Complete(w) \/ Replay(w) \/ Do(w) \/ DoDone(w) \/ Replace(w) \/ SleepStep(w)
             \/ SpawnEvents(w) \/ ChildTryLock(w) \/ ChildUnlock(w) \/ ScheduleChild(w)
             \/ JoinStep(w)
    BY <1>3, <2>8, WorkStays DEF Covered, Self, Goes
  <2>9. CASE (\E d \in RootDefs : Bind(d)) \/ Schedule \/ Wake
    BY <2>1, <2>9 DEF Bind, Schedule, Wake
  <2> QED
    BY <2>1, <2>3, <2>4, <2>5, <2>6, <2>7, <2>8, <2>9, OneActs DEF Execution
<1> QED
  BY <1>2, <1>3 DEF Self

(* What a cancelled worker had scheduled stays noted. *)
LEMMA WithdrawnStays ==
  ASSUME Next
  PROVE  withdrawn \subseteq withdrawn'
BY DEF Next, Execution, Bind, Schedule, Wake, Take, GiveBack, Cancel, tryLock, Unlock,
       HandleResult, Complete, Replay, Do, DoDone, Replace, SleepStep, SpawnEvents,
       ChildTryLock, ChildUnlock, ScheduleChild, JoinStep

(* A schedule gets into the queue with the ACK, or goes with the worker. *)
LEMMA CarriesStays ==
  ASSUME Base, Next, NEW p \in Processes, NEW w \in Workers, Carries(w, p), ~IsCompleted(p)
  PROVE  Covered(p)'
<1>0. Types /\ queue \in [Processes -> 0..MaxEntries] /\ wk \in [Workers -> WorkerStates]
  BY DEF Base, Types
<1>1. CASE wk'[w] = wk[w]
  BY <1>1 DEF Covered, Carries, Probing, Step, Definition
<1>2. CASE Cancel(w)
  <2>1. p \in withdrawn'
    BY <1>2 DEF Cancel, Carries
  <2> QED
    BY <2>1 DEF Covered
<1>3. CASE wk[w].pc \notin {"idle", "taken"} /\ p \in wk[w].out
  <2>1. CASE wk'[w].pc \notin {"idle", "taken"} /\ wk[w].out \subseteq wk'[w].out
    BY <1>3, <2>1 DEF Covered, Carries
  <2>2. CASE HandleResult(w)
    <3>1. queue'[p] = Published(p, queue[p])
      BY <1>3, <2>2 DEF HandleResult, Acked
    <3>2. \A n \in 0..MaxEntries : Published(p, n) > 0
      BY PublishedType, NamesDiffer
    <3> QED
      BY <1>0, <3>1, <3>2 DEF Covered, Self
  <2>3. CASE tryLock(w)
    <3>1. PICK r \in Processes : r = wk[w].pid
      BY <1>0, <2>3, StateType DEF tryLock, Base, WorkerOK, Assigned
    <3>2. CASE TryLock(r, w) /\ Lookup(w)
      <4>1. lock'[r] = w /\ log' = log
        BY <1>0, <2>3, <3>1, <3>2 DEF TryLock, tryLock, Types
      <4>2. wk'[w].out = wk[w].out /\ wk'[w].pc \in {"unlock", "step"}
        BY <3>1, <3>2, <4>1, LookupOK
      <4> QED
        BY <2>1, <4>2
    <3>3. CASE Become(w, [wk[w] EXCEPT !.pc = "handle", !.res = "busy"])
      <4>1. wk'[w].out = wk[w].out /\ wk'[w].pc = "handle"
        BY <1>0, <3>3, StateType DEF Become, WorkerStates
      <4> QED
        BY <2>1, <4>1
    <3> QED
      BY <2>3, <3>1, <3>2, <3>3 DEF tryLock
  <2>4. CASE Unlock(w)
    <3> DEFINE a == wk[w].res \in {"err", "suspend"} /\ wk[w].try < MaxRetries
               r == [wk[w] EXCEPT !.pc = IF a THEN "lock" ELSE "handle",
                                  !.try = IF a THEN @ + 1 ELSE @]
    <3>1. wk'[w] = r
      BY <1>0, <2>4 DEF Unlock, Become
    <3>2. wk[w] \in WorkerStates
      BY <1>0
    <3>3. wk'[w].out = wk[w].out /\ wk'[w].pc \in {"lock", "handle"}
      BY <3>1, <3>2 DEF WorkerStates
    <3> QED
      BY <2>1, <3>3
  <2>5. CASE \/ Complete(w) \/ Replay(w) \/ Do(w) \/ DoDone(w) \/ Replace(w) \/ SleepStep(w)
             \/ SpawnEvents(w) \/ ChildTryLock(w) \/ ChildUnlock(w) \/ ScheduleChild(w)
             \/ JoinStep(w)
    BY <2>1, <2>5, WorkStays DEF Goes
  <2>6. CASE (\E q \in Processes : Take(w, q)) \/ GiveBack(w)
    BY <1>3, <2>6 DEF Take, GiveBack
  <2>7. CASE (\E d \in RootDefs : Bind(d)) \/ Schedule \/ Wake
    BY <1>1, <2>7 DEF Bind, Schedule, Wake
  <2> QED
    BY <1>1, <1>2, <2>2, <2>3, <2>4, <2>5, <2>6, <2>7, OneActs DEF Execution
<1>4. CASE p \in Probing(w)
  <2>1. wk[w].pc \in {"probe", "probed"} /\ Step(w).child = p
    BY <1>4 DEF Probing
  <2>2. CASE ChildUnlock(w)
    <3>1. NextPC(w, "probed")
      BY <2>2 DEF ChildUnlock, NextPC
    <3>2. Step(w)' = Step(w) /\ wk'[w].pc = "probed"
      BY <3>1, PCFields DEF Step, Definition
    <3> QED
      BY <2>1, <3>2 DEF Covered, Carries, Probing
  <2>3. CASE ScheduleChild(w)
    <3>1. p \in wk'[w].out /\ wk'[w].pc = "step"
      BY <2>1, <2>3, ScheduleChildFields
    <3> QED
      BY <3>1 DEF Covered, Carries
  <2>4. CASE (\E d \in RootDefs : Bind(d)) \/ Schedule \/ Wake
    BY <1>1, <2>4 DEF Bind, Schedule, Wake
  <2>5. CASE \/ \E q \in Processes : Take(w, q)
             \/ GiveBack(w) \/ tryLock(w) \/ Complete(w) \/ Unlock(w) \/ HandleResult(w)
             \/ Replay(w) \/ Do(w) \/ DoDone(w) \/ Replace(w) \/ SleepStep(w)
             \/ SpawnEvents(w) \/ ChildTryLock(w) \/ JoinStep(w)
    BY <2>1, <2>5
    DEF Take, GiveBack, tryLock, Complete, Unlock, HandleResult, Replay, Do, DoDone, Replace,
        SleepStep, SpawnEvents, ChildTryLock, JoinStep, AtStep
  <2> QED
    BY <1>1, <1>2, <2>2, <2>3, <2>4, <2>5, OneActs DEF Execution
<1> QED
  BY <1>3, <1>4 DEF Carries

(* A child is bound by a Spawn, which schedules it next. *)
LEMMA NewlyBound ==
  ASSUME Base, StepsDone, AllDone, Next, Base',
         NEW p \in Processes, p # Root, Uses(p) = {}, Uses(p)' # {}
  PROVE  Covered(p)'
<1>1. PICK e \in Recorded(p)' : e.type = "use" /\ e \notin Recorded(p)
  BY DEF Uses
<1>2. NewEvent(p, e) /\ log' # log
  BY <1>1, NewEvents, Keeps
<1>3. \A w \in Workers : ~(Replace(w) /\ wk[w].pid = p)
  BY WorkFacts DEF Replace, AtWork
<1>4. PICK w \in Workers : SpawnEvents(w) /\ AtWork(w) /\ Step(w).child = p
  BY <1>1, <1>2, <1>3, EventFields DEF NewEvent
<1>5. PICK q, u, i : q = wk[w].pid /\ u = Use(wk[w].n, wk[w].def) /\ i = wk[w].i
  OBVIOUS
<1>6. /\ q \in Processes /\ q # p /\ lock[q] = w /\ Types /\ Histories
      /\ i \in DOMAIN Definition(w) /\ Step(w).op = "spawn" /\ Recorded(p) = {}
      /\ Definition(w) \in Seq(Steps)
  BY <1>4, <1>5, WorkFacts, AtWorkFacts DEF SpawnEvents, AtStep, Step, Histories
<1>7. /\ Spawns(q, p)
      /\ NextPC(w, "child") \/ Fails(w)
  BY <1>2, <1>4, <1>5, SpawnEffect DEF NextPC
<1>8. Spawned(q, p)'
  BY <1>7 DEF Spawns, Spawned
<1>9. i \in SpawnsOf(Definition(w), p)
  <2>1. \A j \in 1..(i - 1) : Definition(w)[j].op # "replace"
    BY <1>4, <1>5 DEF StepsDone, StepDone
  <2> QED
    BY <1>4, <1>5, <1>6, <2>1 DEF SpawnsOf, Step
<1>10. /\ u \in Uses(q) /\ IsLast(q, u.path[1]) /\ Defs[u.arg] = Definition(w)
  BY <1>4, <1>5, UseFields DEF Base, WorkerOK, Follows, Definition
<1>11. \A v \in Workers : (Replace(v) \/ Complete(v)) /\ wk[v].pid = q => FALSE
  <2> SUFFICES ASSUME NEW v \in Workers, Replace(v) \/ Complete(v), wk[v].pid = q
               PROVE  FALSE
    OBVIOUS
  <2>1. AtWork(v)
    BY DEF Replace, Complete, AtWork
  <2>2. v = w
    BY <1>4, <1>5, <2>1, OneWorker
  <2>3. i <= Len(Definition(w)) /\ i \in Nat /\ Len(Definition(w)) \in Nat
    BY <1>6
  <2> QED
    BY <1>4, <1>5, <2>2, <2>3 DEF SpawnEvents, AtStep, Replace, Complete
<1>12. Uses(q)' = Uses(q)
  BY <1>6, <1>10, <1>11, UsesStay
<1>13. ~IsCompleted(q)'
  <2>1. ~IsCompleted(q)
    <3> SUFFICES ASSUME IsCompleted(q) PROVE FALSE
      OBVIOUS
    <3>1. PICK x \in Uses(q) : /\ IsLast(q, x.path[1])
                              /\ \A j \in DOMAIN Defs[x.arg] :
                                    StepDone(q, x.path[1], Defs[x.arg], j)
      BY <1>6 DEF AllDone
    <3>2. Defs[x.arg] = Definition(w)
      BY <1>4, <1>5, <3>1, SameUse DEF Definition
    <3>3. Recorded(p) # {}
      BY <1>4, <1>5, <1>6, <3>1, <3>2 DEF StepDone, Step
    <3> QED
      BY <1>6, <3>3
  <2>2. ASSUME IsCompleted(q)' PROVE FALSE
    <3>1. NewEvent(q, Event("completed", NoPath, None))
      BY <1>6, <2>1, <2>2, NewEvents DEF IsCompleted
    <3>2. PICK v \in Workers : Complete(v) /\ wk[v].pid = q
      BY <3>1, EventFields DEF NewEvent
    <3> QED
      BY <1>11, <3>2
  <2> QED
    BY <2>2
<1>14. ASSUME NEW v \in Workers, AtWork(v)', wk'[v].pid = q
       PROVE  \E k \in SpawnsOf(Definition(v)', p) : k >= wk'[v].i
  <2>1. CASE v # w
    <3>1. wk'[v] = wk[v]
      BY <1>6, <1>7, <2>1 DEF Types, NextPC, Fails, Return, Become
    <3> QED
      BY <1>4, <1>5, <1>14, <2>1, <3>1, OneWorker DEF AtWork
  <2>2. CASE v = w
    <3>1. ~Fails(w)
      <4>1. \A res : Return(w, res) => wk'[w].pc = "unlock"
        BY <1>6, StateType DEF Return, Become, Types, WorkerStates
      <4> QED
        BY <1>14, <2>2, <4>1 DEF Fails, AtWork
    <3>2. wk'[w].i = i /\ Definition(w)' = Definition(w)
      BY <1>5, <1>7, <3>1, PCFields DEF Definition
    <3>3. i >= i
      BY <1>6
    <3> QED
      BY <1>9, <2>2, <3>2, <3>3
  <2> QED
    BY <2>1, <2>2
<1>15. Owes(q, p)'
  <2>1. u \in Uses(q)' /\ IsLast(q, u.path[1])' /\ SpawnsOf(Defs[u.arg], p) # {}
    BY <1>9, <1>10, <1>12 DEF IsLast
  <2> QED
    BY <1>13, <1>14, <2>1 DEF Owes, SpawnsOf
<1> QED
  BY <1>6, <1>8, <1>15 DEF Covered

(* Cover is inductive. *)
LEMMA CoverNext ==
  ASSUME Base, DoneInv, Base', Cover, [Next]_vars
  PROVE  Cover'
<1>1. CASE UNCHANGED vars
  <2> SUFFICES Cover' <=> Cover
    OBVIOUS
  <2> QED
    BY <1>1
    DEF vars, Cover, Covered, Self, Carries, Probing, Step, Owes, SpawnsOf, IsLast, Spawned,
        AtWork, Definition, IsCompleted, Uses, Recorded
<1>2. CASE Next
  <2> SUFFICES ASSUME NEW p \in Processes, (p = Root \/ Uses(p) # {})', ~IsCompleted(p)',
                      dropped' = {}
               PROVE  Covered(p)'
    BY DEF Cover
  <2>1. ~IsCompleted(p)
    BY Growth DEF IsCompleted
  <2>2. dropped = {}
    BY <1>2
    DEF Next, Execution, Bind, Schedule, Wake, Take, GiveBack, Cancel, tryLock, Unlock,
        HandleResult, Complete, Replay, Do, DoDone, Replace, SleepStep, SpawnEvents,
        ChildTryLock, ChildUnlock, ScheduleChild, JoinStep
  <2>3. CASE p # Root /\ Uses(p) = {}
    BY <1>2, <2>3, NewlyBound DEF DoneInv
  <2>4. CASE p = Root \/ Uses(p) # {}
    <3>1. Covered(p)
      BY <2>1, <2>2, <2>4 DEF Cover
    <3>2. CASE Self(p)
      BY <1>2, <2>1, <3>2, SelfStays
    <3>3. CASE p = Root /\ schedules = 0
      <4>1. CASE Schedule
        <5>1. PICK n \in {queue[Root], Published(Root, queue[Root])} :
                    queue' = [queue EXCEPT ![Root] = Published(Root, n)]
          BY <4>1 DEF Schedule
        <5>2. /\ queue \in [Processes -> 0..MaxEntries]
              /\ \A m \in 0..MaxEntries : Published(Root, m) \in 1..MaxEntries
              /\ \A m \in 1..MaxEntries : m > 0 /\ m \in 0..MaxEntries
          BY PublishedType, NamesDiffer DEF Base, Types
        <5>3. queue'[Root] > 0
          BY <5>1, <5>2, NamesDiffer
        <5> QED
          BY <3>3, <5>3 DEF Covered, Self
      <4>2. CASE schedules' = schedules
        BY <3>3, <4>2 DEF Covered
      <4> QED
        BY <1>2, <4>1, <4>2
        DEF Next, Execution, Bind, Wake, Take, GiveBack, Cancel, tryLock, Unlock,
            HandleResult, Complete, Replay, Do, DoDone, Replace, SleepStep, SpawnEvents,
            ChildTryLock, ChildUnlock, ScheduleChild, JoinStep, envVars
    <3>4. ASSUME NEW q \in Processes, Spawned(q, p), Owes(q, p)
          PROVE  Covered(p)'
      BY <1>2, <2>1, <3>4, OwesStays
    <3>5. ASSUME NEW w \in Workers, Carries(w, p) PROVE Covered(p)'
      BY <1>2, <2>1, <3>5, CarriesStays
    <3>6. CASE p \in withdrawn
      BY <1>2, <3>6, WithdrawnStays DEF Covered
    <3> QED
      BY <3>1, <3>2, <3>3, <3>4, <3>5, <3>6 DEF Covered
  <2> QED
    BY <2>3, <2>4
<1> QED
  BY <1>1, <1>2

LEMMA NotForgottenHolds ==
  ASSUME Base, Cover
  PROVE  NotForgotten
<1> SUFFICES ASSUME NEW p \in Processes, Uses(p) # {}, ~IsCompleted(p), dropped = {}
             PROVE  \/ InFlight(p)
                    \/ p = Root /\ schedules = 0
                    \/ \E q \in Processes : Spawned(q, p) /\ ~IsCompleted(q)
                    \/ p \in withdrawn
  BY DEF NotForgotten, Spawned
<1>1. Covered(p)
  BY DEF Cover
<1>2. Self(p) => InFlight(p)
  BY DEF Self, InFlight
<1>3. \A w \in Workers : Carries(w, p) => InFlight(p)
  BY DEF Carries, InFlight
<1>4. \A q \in Processes : Owes(q, p) => ~IsCompleted(q)
  BY DEF Owes
<1> QED
  BY <1>1, <1>2, <1>3, <1>4 DEF Covered

(* Whatever the definitions are, a bound process that has not completed is *)
(* in an entry, or about to be published, or not scheduled by a client     *)
(* yet, or has a parent that has not completed either, although entries of *)
(* busy processes go (runSignalHandler) and a Spawn that finds the child   *)
(* locked does not schedule it (scheduleChild); unless it was dropped for  *)
(* its age, or its schedule went with the entry of a cancelled worker.     *)
THEOREM ProcessesAreNotForgotten == Spec => []NotForgotten
<1> DEFINE Inv == Base /\ DoneInv /\ Cover
<1>1. Init => Inv
  <2> SUFFICES ASSUME Init PROVE Inv
    OBVIOUS
  <2>1. \A p \in Processes : Recorded(p) = {}
    BY DEF Init, Recorded, ToSet
  <2>2. \A w \in Workers : ~AtWork(w)
    BY DEF Init, Idle, AtWork
  <2>3. DoneInv
    BY <2>1, <2>2 DEF DoneInv, StepsDone, AllDone, JoinEvents, IsCompleted
  <2>4. Cover
    BY <2>1 DEF Init, Cover, Covered, Uses
  <2> QED
    BY <2>3, <2>4, InitBase
<1>2. Inv /\ [Next]_vars => Inv'
  BY BaseNext, DoneNext, CoverNext
<1>3. Inv => NotForgotten
  BY NotForgottenHolds
<1> HIDE DEF Inv
<1> QED
  BY <1>1, <1>2, <1>3, PTL DEF Spec
=============================================================================
