------------------------------- MODULE Phaser ------------------------------
(***************************************************************************)
(* synckit.Phaser and multiLocker (pkg/synckit/synckit.go, locker.go).     *)
(*                                                                         *)
(* Wait parks a goroutine on a sync.Cond whose Locker is, for the time of  *)
(* that call, a function that counts the goroutine, gives up the caller's  *)
(* lockers and then the phaser's mutex m.  The Cond puts the goroutine on  *)
(* its notify list before it calls that function, and Signal and Broadcast *)
(* do not take m: they may name a goroutine that is still on its way to    *)
(* sleep.                                                                  *)
(***************************************************************************)
EXTENDS Integers, Sequences, FiniteSets

CONSTANTS Parties, Lockers,
          LockersOf,     \* the lockers a goroutine takes and passes to Wait
          Nobody

ASSUME PartiesAssumption == IsFiniteSet(Parties)
ASSUME LockersOfAssumption == LockersOf \in [Parties -> Seq(Lockers)]
ASSUME NobodyAssumption == Nobody \notin Parties

VARIABLES m,          \* Phaser.m: the goroutine that has it
          done,       \* Phaser.done
          len,        \* Phaser.len
          notify,     \* the notify list of the Cond
          owner,      \* who has each locker
          pos,        \* how many of its lockers a goroutine has
          place       \* where a goroutine is on its way through Wait

phaserVars == <<m, done, len, notify, owner, pos, place>>

PhaserPCs == {"out",        \* outside, without lockers
              "calling",    \* takes its lockers in order to call Wait
              "entering",   \* in Wait, past the first look at done
              "locked",     \* has m, done was not set
              "listed",     \* on the notify list, still has m and the lockers
              "parked",     \* asleep
              "waking",     \* out of the Cond, takes its lockers again
              "back"}       \* Wait has returned

Asleep == {g \in Parties : place[g] = "parked"}
Inside == {"entering", "locked", "listed", "parked", "waking"}

----------------------------------------------------------------------------
PhaserInit == /\ m = Nobody
              /\ done = FALSE
              /\ len = 0
              /\ notify = {}
              /\ owner = [l \in Lockers |-> Nobody]
              /\ pos = [g \in Parties |-> 0]
              /\ place = [g \in Parties |-> "out"]

Start(g) == /\ place[g] = "out"
            /\ place' = [place EXCEPT ![g] = "calling"]
            /\ UNCHANGED <<m, done, len, notify, owner, pos>>

(* multiLocker.Lock, one locker after the other; also how the caller takes *)
(* them before Wait.                                                       *)
TakeLocker(g) ==
    /\ place[g] \in {"calling", "waking"}
    /\ pos[g] < Len(LockersOf[g])
    /\ LET l == LockersOf[g][pos[g] + 1]
       IN  /\ owner[l] = Nobody
           /\ owner' = [owner EXCEPT ![l] = g]
    /\ pos' = [pos EXCEPT ![g] = @ + 1]
    /\ UNCHANGED <<m, done, len, notify, place>>

(* Wait: a phaser that is finished lets the caller go on at once. *)
PhaserWait(g) == /\ place[g] = "calling"
                 /\ pos[g] = Len(LockersOf[g])
                 /\ place' = [place EXCEPT ![g] = IF done THEN "back" ELSE "entering"]
                 /\ UNCHANGED <<m, done, len, notify, owner, pos>>

(* A bug: done is not looked at again with m. *)
LockPhaserUnchecked(g) ==
    /\ place[g] = "entering"
    /\ m = Nobody
    /\ m' = g
    /\ place' = [place EXCEPT ![g] = "locked"]
    /\ UNCHANGED <<done, len, notify, owner, pos>>

(* A bug: the goroutine is counted before it listens. *)
LockPhaserCounts(g) ==
    /\ place[g] = "entering"
    /\ m = Nobody
    /\ IF done THEN place' = [place EXCEPT ![g] = "back"] /\ UNCHANGED <<m, len>>
               ELSE place' = [place EXCEPT ![g] = "locked"] /\ m' = g /\ len' = len + 1
    /\ UNCHANGED <<done, notify, owner, pos>>

(* m.Lock and the second look at done. *)
LockPhaser(g) ==
    /\ place[g] = "entering"
    /\ m = Nobody
    /\ IF done THEN place' = [place EXCEPT ![g] = "back"] /\ UNCHANGED m
               ELSE place' = [place EXCEPT ![g] = "locked"] /\ m' = g
    /\ UNCHANGED <<done, len, notify, owner, pos>>

(* Cond.Wait adds the goroutine to the notify list... *)
Enlist(g) ==
    /\ place[g] = "locked"
    /\ notify' = notify \cup {g}
    /\ place' = [place EXCEPT ![g] = "listed"]
    /\ UNCHANGED <<m, done, len, owner, pos>>

(* ... and unlocks the Cond's Locker: len, the lockers, m. *)
Park(g) ==
    /\ place[g] = "listed"
    /\ len' = len + 1
    /\ owner' = [l \in Lockers |-> IF owner[l] = g THEN Nobody ELSE owner[l]]
    /\ pos' = [pos EXCEPT ![g] = 0]
    /\ m' = Nobody
    /\ place' = [place EXCEPT ![g] = "parked"]
    /\ UNCHANGED <<done, notify>>

(* The goroutine is off the list: Cond.Wait returns and len goes down. *)
Wake(g) ==
    /\ place[g] = "parked"
    /\ g \notin notify
    /\ len' = len - 1
    /\ place' = [place EXCEPT ![g] = "waking"]
    /\ UNCHANGED <<m, done, notify, owner, pos>>

(* A bug: the lockers are not taken again. *)
ReturnBare(g) ==
    /\ place[g] = "waking"
    /\ place' = [place EXCEPT ![g] = "back"]
    /\ UNCHANGED <<m, done, len, notify, owner, pos>>

(* The deferred ml.Lock has all lockers: Wait returns. *)
PhaserReturn(g) ==
    /\ place[g] = "waking"
    /\ pos[g] = Len(LockersOf[g])
    /\ place' = [place EXCEPT ![g] = "back"]
    /\ UNCHANGED <<m, done, len, notify, owner, pos>>

(* The caller gives its lockers up. *)
Leave(g) ==
    /\ place[g] = "back"
    /\ owner' = [l \in Lockers |-> IF owner[l] = g THEN Nobody ELSE owner[l]]
    /\ pos' = [pos EXCEPT ![g] = 0]
    /\ place' = [place EXCEPT ![g] = "out"]
    /\ UNCHANGED <<m, done, len, notify>>

Signal == /\ \E g \in notify : notify' = notify \ {g}
          /\ UNCHANGED <<m, done, len, owner, pos, place>>

Broadcast == /\ notify # {}
             /\ notify' = {}
             /\ UNCHANGED <<m, done, len, owner, pos, place>>

(* A bug: Finish does not take m. *)
FinishUnlocked == /\ ~done
                  /\ done' = TRUE
                  /\ notify' = {}
                  /\ UNCHANGED <<m, len, owner, pos, place>>

Finish == /\ ~done
          /\ m = Nobody
          /\ done' = TRUE
          /\ notify' = {}
          /\ UNCHANGED <<m, len, owner, pos, place>>

(* What a goroutine does once it has set out to call Wait. *)
PhaserStep(g) == \/ TakeLocker(g) \/ PhaserWait(g) \/ LockPhaser(g) \/ Enlist(g)
                 \/ Park(g) \/ Wake(g) \/ PhaserReturn(g) \/ Leave(g)

PhaserNext == \/ \E g \in Parties : Start(g) \/ PhaserStep(g)
              \/ Signal \/ Broadcast \/ Finish

(* Goroutines go on, and a mutex starves nobody that waits for it; nobody  *)
(* has to call Wait, Signal, Broadcast or Finish.                          *)
PhaserFairness == \A g \in Parties : SF_phaserVars(PhaserStep(g))

PhaserSpec == PhaserInit /\ [][PhaserNext]_phaserVars
FairPhaserSpec == PhaserSpec /\ PhaserFairness

----------------------------------------------------------------------------
PhaserTypeOK == /\ m \in Parties \cup {Nobody}
                /\ done \in BOOLEAN
                /\ len \in Nat
                /\ notify \subseteq Parties
                /\ owner \in [Lockers -> Parties \cup {Nobody}]
                /\ pos \in [Parties -> Nat]
                /\ place \in [Parties -> PhaserPCs]

(* Finish leaves nobody behind: in a finished phaser no goroutine is on    *)
(* the notify list or can still get there.                                 *)
NoneStranded == done => /\ notify = {}
                        /\ \A g \in Parties : place[g] \notin {"locked", "listed"}

(* What Len counts is already listening: a Broadcast after Len returned n  *)
(* reaches n goroutines, or they have been released before it.             *)
LenListens ==
    len <= Cardinality(notify \cup Asleep)

(* Wait returns with the lockers it was given, also when it returns early  *)
(* because of Finish, and it sleeps with none of them.                     *)
LockersBack ==
    \A g \in Parties :
        LET mine == {LockersOf[g][i] : i \in DOMAIN LockersOf[g]}
        IN  /\ place[g] = "back" => \A l \in mine : owner[l] = g
            /\ place[g] = "parked" => \A l \in mine : owner[l] # g

(* After Finish every goroutine inside of Wait gets out. *)
FinishReleases ==
    \A g \in Parties : (done /\ place[g] \in Inside) ~> place[g] = "back"
=============================================================================
