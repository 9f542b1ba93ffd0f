---------------------------- MODULE TaskScheduler ----------------------------
(***************************************************************************)
(* The task registry of one hotdog process: spawning, placing, admitting,  *)
(* running, parking, cancelling and finishing task agents                  *)
(* (src/core/session/task-manager.ts, task-scheduler.ts and                *)
(* task-execution.ts).  The process has one thread: a step is the code     *)
(* between two awaits, and everything a handler leaves in flight (a ledger *)
(* acquire, a warm sort, an agent build, an agent turn) is state that a    *)
(* later step resumes in any order.                                        *)
(*                                                                         *)
(* The slot ledger is LaneLedger's abstraction: an acquire answers with a  *)
(* slot when one is free, or with "full" at any time, because other        *)
(* processes take and return slots while the call is in flight.            *)
(***************************************************************************)
EXTENDS Naturals, Sequences, FiniteSets, SequencesExt

CONSTANTS
  N,         \* spawns, numbered in the order spawnTask registers them
  Lanes,     \* provider lanes
  Bare,      \* the lane "" of bare model names and of tasks not yet placed
  Cap,       \* turns allowed per lane
  Setups,    \* configurations and workloads a process may start with
  MaxSeeks,  \* most placements of one task that wait for a slot at a time
  None       \* no lease

Tasks == 1 .. N

ASSUME SchedulerAssumption ==
  /\ N \in Nat
  /\ IsFiniteSet(Lanes) /\ Bare \in Lanes /\ None \notin Lanes
  /\ Cap \in [Lanes -> Nat \ {0}]
  /\ \A s \in Setups :
       /\ \E n \in 0 .. N : s.plan \in [1 .. n -> Seq(Lanes) \ {<<>>}]
       /\ s.parked \subseteq Tasks /\ s.askers \subseteq Tasks
       /\ s.ledger \in BOOLEAN /\ s.fsErrors \in BOOLEAN
       /\ s.watched \subseteq Lanes \ {Bare} /\ s.seeks \in 1 .. MaxSeeks
  /\ MaxSeeks \in Nat \ {0}

VARIABLES
  task,     \* the TaskEntry of each task and what its handlers left in flight
  seek,     \* the warmPlace calls of each task that wait for a slot
  slots,    \* ledger slots of each lane this process has taken
  freeing,  \* releaseSlot unlinks in flight, per lane
  handing,  \* releaseLease unlinks of a slot nobody wanted, per lane
  timer,    \* whether the lanes retry timer is armed
  down,     \* providers marked down
  setup     \* the configuration and the workload of this process

vars == <<task, seek, slots, freeing, handing, timer, down, setup>>

Plan == setup.plan          \* the providers planForSpawn answers, best first
Parked == setup.parked      \* tasks spawned with park: true (workflow nodes)
Askers == setup.askers      \* tasks whose agent uses the question tool
Ledger == setup.ledger      \* whether a ledger directory is configured
FsErrors == setup.fsErrors  \* whether that directory may be unusable
Watched == setup.watched    \* providers whose health is tracked
Seeks == setup.seeks        \* placements of one task that may wait at a time

(* Settle loops of one task that may run at a time.                        *)
MaxLoops == 2

Terminal == {"completed", "failed", "cancelled"}

(* Where the one call that drives a task stands: launch builds the agent,  *)
(* taskTurn asks for a slot, waits to be woken or has been woken, and both *)
(* end up driving a turn.                                                  *)
Runs == {"none", "build", "slot", "wait", "woken", "drive"}

Entry == [
  status : {"none", "queued", "running", "refused"} \cup Terminal,
  fetching : BOOLEAN,      \* spawnTask awaits planForSpawn
  planning : BOOLEAN,
  plan : Seq(Lanes),       \* candidates
  lane : Lanes,            \* provider
  placing : BOOLEAN,
  sorting : SUBSET Lanes,  \* the providers warmPlace is sorting
  acquiring : BOOLEAN,
  blocked : BOOLEAN,
  lease : Lanes \cup {None},
  agent : BOOLEAN,
  run : Runs,
  pending : BOOLEAN,       \* turnPending
  granted : BOOLEAN,       \* turnGranted
  granting : BOOLEAN,      \* tryGrant awaits its slot
  ran : BOOLEAN,           \* lastResult is set
  release : BOOLEAN,       \* releaseRequested
  aborted : BOOLEAN,
  asking : BOOLEAN,        \* the bridge holds a question of the agent
  settling : 0 .. MaxLoops,    \* onTaskQuestionSettled loops
  settled : BOOLEAN]       \* the handle's `done` is resolved

Absent == [
  status |-> "none", fetching |-> FALSE, planning |-> FALSE, plan |-> <<>>,
  lane |-> Bare, placing |-> FALSE, sorting |-> {}, acquiring |-> FALSE,
  blocked |-> FALSE, lease |-> None, agent |-> FALSE, run |-> "none",
  pending |-> FALSE, granted |-> FALSE, granting |-> FALSE, ran |-> FALSE,
  release |-> FALSE, aborted |-> FALSE, asking |-> FALSE, settling |-> 0,
  settled |-> FALSE]

(* A warmPlace call asks for a slot on the first lane of `left`, returns    *)
(* that slot because the lane filled up meanwhile, or drops it because the *)
(* task is no longer queued.                                               *)
Idle == [phase |-> "idle", left |-> <<>>]
Seek == [phase : {"idle", "ask", "return", "drop"}, left : Seq(Lanes)]

(* Every entry field has its type, and no lane ever has more slot files   *)
(* of this process than its cap (LaneLedger creates only that many).       *)
TypeOK ==
  /\ task \in [Tasks -> Entry]
  /\ seek \in [Tasks -> [1 .. MaxSeeks -> Seek]]
  /\ slots \in [Lanes -> Nat] /\ \A l \in Lanes : slots[l] <= Cap[l]
  /\ freeing \in [Lanes -> Nat] /\ handing \in [Lanes -> Nat]
  /\ timer \in BOOLEAN /\ down \subseteq Watched /\ setup \in Setups

Init ==
  /\ task = [t \in Tasks |-> Absent]
  /\ seek = [t \in Tasks |-> [n \in 1 .. MaxSeeks |-> Idle]]
  /\ slots = [l \in Lanes |-> 0]
  /\ freeing = [l \in Lanes |-> 0] /\ handing = [l \in Lanes |-> 0]
  /\ timer = FALSE /\ down = {}
  /\ setup \in Setups

-----------------------------------------------------------------------------
(* The admission pass.  E is the registry it works on.                     *)

(* Variant: a turn that waits for the lane reserves nothing.               *)
OccupiesNotPending(E, t) ==
  /\ E[t].status = "running"
  /\ t \notin Parked \/ E[t].run = "drive" \/ E[t].granted \/ ~E[t].ran

(* #occupies: a parked task yields its lane while idle between turns.      *)
Occupies(E, t) ==
  /\ E[t].status = "running"
  /\ \/ t \notin Parked \/ E[t].run = "drive"
     \/ E[t].granted \/ E[t].pending \/ ~E[t].ran

(* #laneOccupancy *)
Reserved(E, l, t) == E[t].lane = l /\ (Occupies(E, t) \/ E[t].placing)
Occupancy(E, l) == Cardinality({t \in Tasks : Reserved(E, l, t)})
OccupancyBut(E, l, u) == Cardinality({t \in Tasks \ {u} : Reserved(E, l, t)})

(* Variant: waiting turns count against each other.                        *)
HoldersAndWaiters(E, l) == Cardinality({t \in Tasks : Reserved(E, l, t)})

HoldersOf(E, l) == Cardinality({t \in Tasks : Reserved(E, l, t) /\ ~E[t].pending})

(* #eligibleByHealth fails open.                                           *)
Eligible(lanes, dead) == IF lanes \subseteq dead THEN lanes ELSE lanes \ dead

(* #tryGrant up to its await: without a ledger the waiter is woken at once. *)
Grant(e) ==
  IF Ledger
    THEN [e EXCEPT !.pending = FALSE, !.granted = TRUE, !.granting = TRUE]
    ELSE [e EXCEPT !.pending = FALSE, !.granted = TRUE, !.run = "woken"]

(* entry.start *)
Begin(e, lease) ==
  [e EXCEPT !.status = "running", !.run = "build", !.lease = lease]

(* #tryStart up to its await.                                              *)
TryStart(e) ==
  IF Ledger THEN [e EXCEPT !.acquiring = TRUE] ELSE Begin(e, None)

(* Waiting warm turns first: each lane's room, in insertion order.         *)
Waits(e) == e.pending /\ e.status = "running" /\ ~e.blocked
WarmGrants(E) ==
  LET Ahead(t) == {u \in 1 .. t - 1 : Waits(E[u]) /\ E[u].lane = E[t].lane}
      Granted(t) == Waits(E[t])
        /\ HoldersOf(E, E[t].lane) + Cardinality(Ahead(t)) < Cap[E[t].lane]
  IN [t \in Tasks |-> IF Granted(t) THEN Grant(E[t]) ELSE E[t]]

(* Then queued tasks, on the first lane of theirs with room left by        *)
(* running turns, waiting turns and what this pass has promised already.   *)
Startable(e) ==
  e.status = "queued" /\ ~e.blocked /\ ~e.acquiring /\ ~e.planning /\ ~e.placing

Homes(e, dead) == IF e.plan = <<>> THEN {e.lane} ELSE Eligible(ToSet(e.plan), dead)

(* The homes of the t-th task with room, after what was promised before it, *)
(* and the lane promised to it.                                            *)
Room(E, dead, promised, t) ==
  {l \in Homes(E[t], dead) :
     Occupancy(E, l) + Cardinality({u \in 1 .. t - 1 : promised[u] = l}) < Cap[l]}

Promise(E, dead, promised, t) ==
  LET room == Room(E, dead, promised, t)
      plan == E[t].plan
  IN IF ~Startable(E[t]) \/ room = {} THEN None
     ELSE IF plan = <<>> THEN E[t].lane
     ELSE plan[Min({i \in DOMAIN plan : plan[i] \in room})]

StartOn(e, l, dead) ==
  IF l = None THEN e
  ELSE IF e.plan = <<>> THEN TryStart(e)
  ELSE [e EXCEPT !.lane = l, !.placing = TRUE, !.sorting = Homes(e, dead)]

Starts(E, dead) ==
  LET promised[t \in Tasks] == Promise(E, dead, promised, t)
  IN [t \in Tasks |-> StartOn(E[t], promised[t], dead)]

(* (The comprehensions make TLC evaluate each pass once.)                  *)
AdmitWith(E, dead) ==
  CHOOSE F \in {Starts(G, dead) : G \in {WarmGrants(H) : H \in {E}}} : TRUE
Admit(E) == AdmitWith(E, down)

Set(t, e) == [task EXCEPT ![t] = e]
Unblocked(E) == [t \in Tasks |-> [E[t] EXCEPT !.blocked = FALSE]]

-----------------------------------------------------------------------------
(* The ledger, as acquireSlotSafe and releaseLease see it                   *)

(* How an acquire on lane l ends: with a slot, with null because every slot *)
(* was busy, or "open": a null lease because the lane is uncoordinated or  *)
(* the filesystem failed (fails open).                                     *)
Outcomes == {"slot", "full", "open"}
Answer(l, out) ==
  \/ out = "slot" /\ Ledger /\ slots[l] < Cap[l]
  \/ out = "full" /\ Ledger
  \/ out = "open" /\ (~Ledger \/ FsErrors)

LeaseOf(l, out) == IF out = "slot" THEN l ELSE None

Take(l, out) ==
  slots' = IF out = "slot" THEN [slots EXCEPT ![l] = @ + 1] ELSE slots

Plus(f, l) == IF l = None THEN f ELSE [f EXCEPT ![l] = @ + 1]

(* Variant: a slot that arrived too late is forgotten.                     *)
HandBackNothing(l, out) == UNCHANGED handing

(* A slot that arrived too late goes back; nobody is woken by that.        *)
HandBack(l, out) == handing' = Plus(handing, LeaseOf(l, out))

(* releaseSlot, whose caller clears the lease of the entry.                *)
ReleaseSlot(t) == freeing' = Plus(freeing, task[t].lease)

(* The unlink of releaseSlot is done: same-lane tasks that saw the slot    *)
(* still held are unblocked.                                               *)
Freed(l) ==
  LET woken == {t \in Tasks : task[t].blocked /\ task[t].lane = l}
  IN /\ freeing[l] > 0
     /\ freeing' = [freeing EXCEPT ![l] = @ - 1]
     /\ slots' = [slots EXCEPT ![l] = @ - 1]
     /\ task' = IF woken = {} THEN task
                ELSE Admit([t \in Tasks |->
                       [task[t] EXCEPT !.blocked = @ /\ t \notin woken]])
     /\ UNCHANGED <<seek, handing, timer, down, setup>>

Handed(l) ==
  /\ handing[l] > 0
  /\ handing' = [handing EXCEPT ![l] = @ - 1]
  /\ slots' = [slots EXCEPT ![l] = @ - 1]
  /\ UNCHANGED <<task, seek, freeing, timer, down, setup>>

(* The one-shot timer of #armLanesRetry.                                   *)
RetryTick ==
  /\ timer
  /\ timer' = FALSE
  /\ task' = Admit(Unblocked(task))
  /\ UNCHANGED <<seek, slots, freeing, handing, down, setup>>

-----------------------------------------------------------------------------
(* spawnTask                                                               *)

(* The synchronous id reservation.                                         *)
Spawn(t) ==
  /\ task[t].status = "none" /\ t \in DOMAIN Plan
  /\ \A u \in 1 .. t - 1 : task[u].status # "none"
  /\ task' = Set(t, [Absent EXCEPT !.status = "queued", !.fetching = TRUE, !.planning = TRUE])
  /\ UNCHANGED <<seek, slots, freeing, handing, timer, down, setup>>

(* planForSpawn answered; a task cancelled meanwhile is left alone.        *)
Planned(t) ==
  LET e == [task[t] EXCEPT !.fetching = FALSE]
      several == Len(Plan[t]) > 1
  IN /\ task[t].fetching
     /\ task' = IF e.status # "queued" THEN Set(t, e)
                ELSE Admit(Set(t, [e EXCEPT
                       !.planning = FALSE,
                       !.lane = IF several THEN Bare ELSE Head(Plan[t]),
                       !.plan = IF several THEN Plan[t] ELSE <<>>]))
     /\ UNCHANGED <<seek, slots, freeing, handing, timer, down, setup>>

(* planForSpawn threw: the reservation is deleted.                         *)
PlanFails(t) ==
  /\ task[t].fetching
  /\ task' = Set(t, [Absent EXCEPT !.status = "refused", !.settled = task[t].settled])
  /\ UNCHANGED <<seek, slots, freeing, handing, timer, down, setup>>

(* #tryStart after its await.                                              *)
StartAnswer(t, out) ==
  LET l == Head(Plan[t])
      e == [task[t] EXCEPT !.acquiring = FALSE]
  IN /\ task[t].acquiring /\ Answer(l, out) /\ Take(l, out)
     /\ \/ /\ out = "full"
           /\ task' = Set(t, [e EXCEPT !.blocked = TRUE])
           /\ timer' = TRUE
           /\ UNCHANGED handing
        \/ /\ out # "full" /\ e.status = "queued"
           /\ task' = Set(t, Begin(e, LeaseOf(l, out)))
           /\ UNCHANGED <<timer, handing>>
        \/ /\ out # "full" /\ e.status # "queued"
           /\ task' = Set(t, e)
           /\ HandBack(l, out)
           /\ UNCHANGED timer
     /\ UNCHANGED <<seek, freeing, down, setup>>

-----------------------------------------------------------------------------
(* warmPlace                                                               *)

(* The lanes left to try after one of them refused; when none is left the  *)
(* reservation is dropped and the task waits for the retry timer.          *)
NoHome(e) == [e EXCEPT !.lane = Bare, !.blocked = @ \/ Ledger]

SeekOn(t, n, left, E) ==
  IF left # <<>>
    THEN /\ seek' = [seek EXCEPT ![t][n] = [phase |-> "ask", left |-> left]]
         /\ task' = E
         /\ UNCHANGED timer
    ELSE /\ seek' = [seek EXCEPT ![t][n] = Idle]
         /\ task' = Admit([E EXCEPT ![t] = NoHome(@)])
         /\ timer' = (timer \/ Ledger)

(* The warm sort answered, in any order.  Lanes the registry shows full    *)
(* now are skipped for the whole call.                                     *)
Sorted(t) ==
  LET e == [task[t] EXCEPT !.sorting = {}, !.placing = FALSE]
      E == Set(t, e)
      HasRoom(l) == OccupancyBut(task, l, t) < Cap[l]
  IN /\ task[t].sorting # {}
     /\ \/ /\ e.status # "queued" \/ e.plan = <<>>
           /\ task' = Admit(E)
           /\ UNCHANGED <<seek, timer>>
        \/ /\ e.status = "queued" /\ e.plan # <<>>
           /\ \E n \in 1 .. Seeks :
              \E left \in SetToSeqs({l \in Eligible(task[t].sorting, down) : HasRoom(l)}) :
                /\ seek[t][n] = Idle
                /\ SeekOn(t, n, left, E)
     /\ UNCHANGED <<slots, freeing, handing, down, setup>>

(* Variant: the lane is not looked at again.                               *)
FilledNever(t, l) == FALSE

(* The registry's own count of the lane, taken again after the await.      *)
Filled(t, l) == OccupancyBut(task, l, t) >= Cap[l]

(* The slot answer of the n-th warmPlace call of t.                        *)
SeekAnswer(t, n, out) ==
  LET s == seek[t][n]
      l == Head(s.left)
      e == task[t]
      placed == Begin([e EXCEPT !.lane = l, !.plan = <<>>], LeaseOf(l, out))
      GiveBack(phase) == seek' = [seek EXCEPT ![t][n].phase = phase]
  IN /\ s.phase = "ask" /\ Answer(l, out) /\ Take(l, out)
     /\ \/ /\ e.status # "queued" /\ out = "slot"
           /\ GiveBack("drop")
           /\ UNCHANGED <<task, timer>>
        \/ /\ e.status # "queued" /\ out # "slot"
           /\ seek' = [seek EXCEPT ![t][n] = Idle]
           /\ task' = Admit(task)
           /\ UNCHANGED timer
        \/ /\ e.status = "queued" /\ out = "full"
           /\ SeekOn(t, n, Tail(s.left), task)
        \/ /\ e.status = "queued" /\ out = "slot" /\ Filled(t, l)
           /\ GiveBack("return")
           /\ UNCHANGED <<task, timer>>
        \/ /\ e.status = "queued" /\ out = "open" /\ Filled(t, l)
           /\ SeekOn(t, n, Tail(s.left), task)
        \/ /\ e.status = "queued" /\ out # "full" /\ ~Filled(t, l)
           /\ seek' = [seek EXCEPT ![t][n] = Idle]
           /\ task' = Admit(Set(t, placed))
           /\ UNCHANGED timer
     /\ UNCHANGED <<freeing, handing, down, setup>>

(* The unlink of a slot the call gave back is done.  The loop goes on      *)
(* without looking at the status of the task again.                        *)
SeekReturned(t, n) ==
  LET s == seek[t][n]
  IN /\ s.phase \in {"return", "drop"}
     /\ slots' = [slots EXCEPT ![Head(s.left)] = @ - 1]
     /\ \/ s.phase = "return" /\ SeekOn(t, n, Tail(s.left), task)
        \/ /\ s.phase = "drop"
           /\ seek' = [seek EXCEPT ![t][n] = Idle]
           /\ task' = Admit(task)
           /\ UNCHANGED timer
     /\ UNCHANGED <<freeing, handing, down, setup>>

-----------------------------------------------------------------------------
(* Turns: launch, driveTurn, finalizeTurn                                  *)

(* Variant: the waiters of a finished task are left alone.                 *)
FinalUnwoken(e, status) ==
  [e EXCEPT !.status = status, !.agent = FALSE, !.lease = None, !.settled = TRUE,
            !.pending = FALSE, !.granted = FALSE]

(* The terminal transition: the agent goes, waiters are woken, the caller  *)
(* releases the slot.                                                      *)
Final(e, status) ==
  [e EXCEPT !.status = status, !.agent = FALSE, !.lease = None, !.settled = TRUE,
            !.pending = FALSE, !.granted = FALSE,
            !.run = IF @ = "wait" THEN "woken" ELSE @]

(* Only tasks that are not parked deliver their result to a session; when  *)
(* that throws, recoverTask ends the task as failed.                       *)
Ends(t, result) == IF t \in Parked THEN {result} ELSE {result, "failed"}

(* launch after buildAgent: the build failed, the task was aborted while   *)
(* building, or its first turn begins.                                     *)
BuildFails(t) ==
  /\ task[t].run = "build"
  /\ task' = Admit(Set(t, Final([task[t] EXCEPT !.run = "none"], "failed")))
  /\ ReleaseSlot(t)
  /\ UNCHANGED <<seek, slots, handing, timer, down, setup>>

Built(t) ==
  /\ task[t].run = "build"
  /\ \/ /\ task[t].aborted
        /\ \E end \in Ends(t, "cancelled") :
             task' = Admit(Set(t, Final([task[t] EXCEPT !.run = "none"], end)))
        /\ ReleaseSlot(t)
     \/ /\ ~task[t].aborted
        /\ task' = Set(t, [task[t] EXCEPT !.run = "drive", !.agent = TRUE])
        /\ UNCHANGED freeing
  /\ UNCHANGED <<seek, slots, handing, timer, down, setup>>

(* What agent.run may come back with.  A question holds the turn until it  *)
(* is answered or the turn is aborted.                                     *)
Results(e) ==
  (IF e.asking THEN {} ELSE {"completed"})
    \cup (IF e.aborted THEN {"cancelled"} ELSE IF e.asking THEN {} ELSE {"failed"})

(* noteUp: a completed turn is evidence, and a provider that comes back    *)
(* retries every queued task (onRecover).                                  *)
NotedUp(l) ==
  IF l \in down THEN AdmitWith(Unblocked(task), down \ {l}) ELSE task

(* A parked task that goes idle yields its slot.                           *)
Park(e) == [e EXCEPT !.lease = None]

(* driveTurn after agent.run, and what its caller does with the turn: a    *)
(* parked task that completed stays running and yields its slot, any other *)
(* turn is the last one.  `refused` is a connection level chat failure.    *)
TurnEnds(t, result, refused) ==
  LET l == task[t].lane
      over(E) == [E EXCEPT ![t].run = "none", ![t].ran = TRUE]
      stays == t \in Parked /\ result = "completed" /\ ~task[t].release /\ ~task[t].aborted
      dead == IF result = "completed" THEN down \ {l}
              ELSE IF refused THEN down \cup ({l} \cap Watched) ELSE down
      E == over(IF result = "completed" THEN NotedUp(l) ELSE task)
  IN /\ task[t].run = "drive" /\ result \in Results(task[t])
     /\ refused => result = "failed"
     /\ down' = dead
     /\ ReleaseSlot(t)
     /\ IF stays
          THEN task' = AdmitWith([E EXCEPT ![t] = Park(@)], dead)
          ELSE LET F == AdmitWith(E, dead)
               IN \E end \in Ends(t, result) :
                    task' = AdmitWith([F EXCEPT ![t] = Final(@, end)], dead)
     /\ UNCHANGED <<seek, slots, handing, timer, setup>>

-----------------------------------------------------------------------------
(* taskTurn                                                                *)

(* The busy guard.                                                         *)
Ready(t) ==
  LET e == task[t]
  IN /\ t \in Parked /\ e.status = "running" /\ e.agent
     /\ e.run # "drive" /\ ~e.pending /\ ~e.granted
     /\ ~e.release /\ ~e.aborted

(* Variant: only the flags are looked at after an await.                   *)
DeadByFlags(e) == e.release \/ e.aborted

(* What a caller of taskTurn looks at after each await.                    *)
Dead(e) == e.status # "running" \/ ~e.agent \/ e.release \/ e.aborted

Queue(t, e) == Admit(Set(t, [e EXCEPT !.granted = FALSE, !.pending = TRUE, !.run = "wait"]))

TaskTurn(t) ==
  LET e == task[t]
      used == Cardinality({u \in Tasks \ {t} : task[u].lane = e.lane /\ Occupies(task, u)})
  IN /\ Ready(t)
     /\ task' = IF Ledger /\ used < Cap[e.lane]
                  THEN Set(t, [e EXCEPT !.granted = TRUE, !.run = "slot"])
                  ELSE Queue(t, e)
     /\ UNCHANGED <<seek, slots, freeing, handing, timer, down, setup>>

TurnSlotAnswer(t, out) ==
  LET e == task[t]
      l == e.lane
  IN /\ e.run = "slot" /\ Answer(l, out) /\ Take(l, out)
     /\ \/ /\ Dead(e)
           /\ task' = Set(t, [e EXCEPT !.granted = FALSE, !.run = "none"])
           /\ HandBack(l, out)
        \/ /\ ~Dead(e) /\ out # "full"
           /\ task' = Set(t, [e EXCEPT !.granted = FALSE, !.run = "drive",
                                       !.lease = LeaseOf(l, out)])
           /\ UNCHANGED handing
        \/ /\ ~Dead(e) /\ out = "full"
           /\ task' = Queue(t, e)
           /\ UNCHANGED handing
     /\ UNCHANGED <<seek, freeing, timer, down, setup>>

(* #tryGrant after its await.                                              *)
GrantAnswer(t, out) ==
  LET l == task[t].lane
      e == [task[t] EXCEPT !.granting = FALSE]
      revoked == e.status # "running" \/ ~e.granted
  IN /\ task[t].granting /\ Answer(l, out) /\ Take(l, out)
     /\ \/ /\ out = "full" /\ e.granted /\ ~e.pending
           /\ task' = Set(t, [e EXCEPT !.granted = FALSE, !.pending = TRUE, !.blocked = TRUE])
           /\ timer' = TRUE
           /\ UNCHANGED handing
        \/ /\ out = "full" /\ ~(e.granted /\ ~e.pending)
           /\ task' = Set(t, e)
           /\ UNCHANGED <<timer, handing>>
        \/ /\ out # "full" /\ revoked
           /\ task' = Set(t, e)
           /\ HandBack(l, out)
           /\ UNCHANGED timer
        \/ /\ out # "full" /\ ~revoked
           /\ task' = Set(t, [e EXCEPT !.lease = LeaseOf(l, out), !.run = "woken"])
           /\ UNCHANGED <<timer, handing>>
     /\ UNCHANGED <<seek, freeing, down, setup>>

(* taskTurn after its waiter was woken.                                    *)
Woken(t) ==
  LET e == [task[t] EXCEPT !.granted = FALSE]
  IN /\ task[t].run = "woken"
     /\ task' = Set(t, [e EXCEPT !.run = IF Dead(e) THEN "none" ELSE "drive"])
     /\ UNCHANGED <<seek, slots, freeing, handing, timer, down, setup>>

-----------------------------------------------------------------------------
(* completeTask and #interruptEntry                                        *)

CompleteTask(t) ==
  LET e == [task[t] EXCEPT !.release = TRUE]
  IN /\ t \in Parked /\ e.status = "running"
     /\ \/ /\ e.run # "drive" /\ e.agent
           /\ task' = Admit(Set(t, Final(e, "completed")))
           /\ ReleaseSlot(t)
        \/ /\ e.run = "drive" \/ ~e.agent
           /\ task' = Set(t, e)
           /\ UNCHANGED freeing
     /\ UNCHANGED <<seek, slots, handing, timer, down, setup>>

Interrupt(t) ==
  LET e == task[t]
      idle == t \in Parked /\ e.run # "drive" /\ e.agent
  IN /\ \/ /\ e.status = "queued"
           /\ task' = Admit(Set(t, [e EXCEPT
                !.status = "cancelled", !.settled = TRUE, !.planning = FALSE,
                !.placing = FALSE, !.plan = <<>>, !.lane = Bare]))
           /\ UNCHANGED freeing
        \/ /\ e.status = "running" /\ idle
           /\ task' = Admit(Set(t, Final(e, "cancelled")))
           /\ ReleaseSlot(t)
        \/ /\ e.status = "running" /\ ~idle
           /\ task' = Set(t, [e EXCEPT !.aborted = TRUE])
           /\ UNCHANGED freeing
     /\ UNCHANGED <<seek, slots, handing, timer, down, setup>>

-----------------------------------------------------------------------------
(* Questions: onTaskQuestionAsked and onTaskQuestionSettled.  The websocket *)
(* server does not wait for the latter, so the tool call, and with it the  *)
(* turn, goes on while the loop is still acquiring.                        *)

Ask(t) ==
  /\ t \in Askers /\ task[t].run = "drive" /\ ~task[t].asking
  /\ task' = Set(t, [task[t] EXCEPT !.asking = TRUE, !.lease = None])
  /\ ReleaseSlot(t)
  /\ UNCHANGED <<seek, slots, handing, timer, down, setup>>

(* A dead or aborted task takes no slot back.                              *)
Gone(e) == e.status # "running" \/ e.aborted

Answered(t) ==
  LET e == [task[t] EXCEPT !.asking = FALSE]
      dead == Gone(e)
  IN /\ task[t].asking
     /\ \/ /\ dead \/ ~Ledger
           /\ task' = Set(t, e)
        \/ /\ ~dead /\ Ledger /\ e.settling < MaxLoops
           /\ task' = Set(t, [e EXCEPT !.settling = @ + 1])
     /\ UNCHANGED <<seek, slots, freeing, handing, timer, down, setup>>

(* One round of the loop; a null lease, full or fail-open, sleeps.         *)
SettleAnswer(t, out) ==
  LET e == task[t]
      l == e.lane
      dead == Gone(e)
  IN /\ e.settling > 0 /\ Answer(l, out) /\ Take(l, out)
     /\ \/ /\ dead
           /\ task' = Set(t, [e EXCEPT !.settling = @ - 1])
           /\ HandBack(l, out)
        \/ /\ ~dead /\ out = "slot"
           /\ task' = Set(t, [e EXCEPT !.settling = @ - 1, !.lease = l])
           /\ UNCHANGED handing
        \/ /\ ~dead /\ out # "slot"
           /\ UNCHANGED <<task, handing>>
     /\ UNCHANGED <<seek, freeing, timer, down, setup>>

-----------------------------------------------------------------------------
(* The provider health sweep.                                              *)

SweepDown(l) ==
  /\ l \in Watched \ down
  /\ down' = down \cup {l}
  /\ UNCHANGED <<task, seek, slots, freeing, handing, timer, setup>>

SweepUp(l) ==
  /\ l \in down
  /\ down' = down \ {l}
  /\ task' = AdmitWith(Unblocked(task), down \ {l})
  /\ UNCHANGED <<seek, slots, freeing, handing, timer, setup>>

-----------------------------------------------------------------------------
Caller(t) ==
  \/ Spawn(t) \/ TaskTurn(t) \/ CompleteTask(t) \/ Interrupt(t) \/ Ask(t)

Resume(t) ==
  \/ Planned(t) \/ PlanFails(t) \/ Sorted(t)
  \/ BuildFails(t) \/ Built(t) \/ Woken(t) \/ Answered(t)
  \/ \E result \in Terminal, refused \in BOOLEAN : TurnEnds(t, result, refused)
  \/ \E n \in 1 .. MaxSeeks : SeekReturned(t, n)

Acquired(t, out) ==
  \/ StartAnswer(t, out) \/ TurnSlotAnswer(t, out)
  \/ GrantAnswer(t, out) \/ SettleAnswer(t, out)
  \/ \E n \in 1 .. MaxSeeks : SeekAnswer(t, n, out)

Next ==
  \/ \E t \in Tasks : Caller(t) \/ Resume(t) \/ \E out \in Outcomes : Acquired(t, out)
  \/ \E l \in Lanes : Freed(l) \/ Handed(l) \/ SweepDown(l) \/ SweepUp(l)
  \/ RetryTick

Spec == Init /\ [][Next]_vars

(* Every promise settles and every timer fires; agents finish being built  *)
(* and their turns end.  A task that keeps asking for slots that are free  *)
(* now and then eventually gets one.  Nobody has to spawn, take a warm     *)
(* turn, complete or interrupt.                                            *)
Fairness ==
  /\ \A t \in Tasks :
       /\ WF_vars(Planned(t)) /\ WF_vars(Sorted(t)) /\ WF_vars(Built(t)) /\ WF_vars(Woken(t))
       /\ WF_vars(\E result \in Terminal : TurnEnds(t, result, FALSE))
       /\ \A n \in 1 .. MaxSeeks : WF_vars(SeekReturned(t, n))
       /\ WF_vars(\E out \in Outcomes : Acquired(t, out))
       /\ SF_vars(Acquired(t, "slot"))
  /\ \A l \in Lanes : WF_vars(Freed(l)) /\ WF_vars(Handed(l))
  /\ WF_vars(RetryTick)

(* The engine takes a bounded number of warm turns per task (maxAttempts). *)
FewTurns == <>[][\A t \in Tasks : ~TaskTurn(t)]_vars

FairSpec == Spec /\ Fairness /\ FewTurns

-----------------------------------------------------------------------------
(* Properties                                                              *)

(* A turn is in flight and does not wait for a human.                      *)
Calling(t) == task[t].run = "drive" /\ ~task[t].asking
Queued(t) == task[t].status = "queued"

(* Whichever way a turn began (cold start, warm placement, direct acquire, *)
(* grant after a wait), while it may call the model it holds a slot of the *)
(* ledger, unless its agent asks questions.                                *)
QuietTurnHoldsSlot ==
  Ledger /\ ~FsErrors => \A t \in Tasks \ Askers : Calling(t) => task[t].lease # None

(* "Concurrent task-agent turns allowed per provider lane" (task-types.ts) *)
(* bounds the turns in flight, with the ledger or without one, unless the   *)
(* ledger fails open or a question has been answered.  The bare lane also   *)
(* has the tasks that a second placement moved there while they ran.       *)
LaneCap ==
  ~FsErrors /\ Askers = {} =>
    \A l \in Lanes : l # Bare \/ Seeks = 1 =>
      Cardinality({t \in Tasks : Calling(t) /\ task[t].lane = l}) <= Cap[l]

(* The slots of lane l that an entry holds, that a warmPlace call gives    *)
(* back, or that are being unlinked.                                       *)
Holders(l) == {t \in Tasks : task[t].lease = l}
Returning(l) ==
  {c \in Tasks \X (1 .. MaxSeeks) :
     seek[c[1]][c[2]].phase \in {"return", "drop"} /\ Head(seek[c[1]][c[2]].left) = l}
Accounted(l) ==
  freeing[l] + handing[l] + Cardinality(Holders(l)) + Cardinality(Returning(l))

(* No slot is held or given back twice, and every slot this process has    *)
(* taken is held by an entry or on its way back: no cancel, revoked grant  *)
(* or lost race drops a lease on the floor.  The second half leaves out    *)
(* agents that ask: a settle loop that meets another one, or that outlives *)
(* its turn, overwrites the lease of the entry (onTaskQuestionSettled).    *)
NoSlotLost ==
  \A l \in Lanes :
    /\ Accounted(l) <= slots[l]
    /\ Askers = {} => Accounted(l) = slots[l]

(* A finished task holds no slot, no agent and no place in a queue, and    *)
(* its `done` is resolved: a consumer can never hang on it.                *)
FinishedIsReleased ==
  \A t \in Tasks :
    /\ task[t].status \in Terminal =>
         /\ task[t].lease = None /\ ~task[t].agent /\ ~task[t].pending
         /\ task[t].run \notin {"build", "drive", "wait"}
         /\ task[t].settled
    /\ task[t].settled => task[t].status \in Terminal \cup {"refused"}

(* A parked task that is idle holds no slot, or a judge on its lane could  *)
(* never run, unless the settle loop of a question outlives its turn.      *)
IdleYields ==
  \A t \in Parked \ Askers :
    task[t].status = "running" /\ task[t].ran /\ task[t].run = "none" => task[t].lease = None

(* "Provider lane this task occupies while RUNNING" (task-types.ts): a     *)
(* running task stays on a lane of its plan, unless another placement of   *)
(* it, one that outlived its start, finds no home (warmPlace).             *)
RunsWhereItMay ==
  \A t \in Tasks : task[t].status = "running" =>
    \/ task[t].lane \in ToSet(Plan[t])
    \/ task[t].lane = Bare /\ Len(Plan[t]) > 1 /\ Seeks > 1

(* The busy guard of taskTurn lets nobody in while an earlier call still   *)
(* drives the task: an agent never runs two turns at a time.               *)
OneTurnAtATime == \A t \in Tasks : Ready(t) => task[t].run = "none"

(* The slots of the lanes and the entries agree: no slot is held twice,    *)
(* each is held by an entry that may hold it or is on its way back,        *)
(* whatever was cancelled, revoked or raced, and what is finished holds    *)
(* nothing.                                                                *)
SlotsAccounted == TypeOK /\ NoSlotLost /\ FinishedIsReleased /\ IdleYields

(* Turns are admitted: each holds a slot of its lane, one of its plan, a    *)
(* lane never has more of them than its cap, and an agent drives one at a   *)
(* time.                                                                   *)
TurnsAdmitted == QuietTurnHoldsSlot /\ LaneCap /\ OneTurnAtATime /\ RunsWhereItMay

(* A promise, a turn or a timer will run more code of the scheduler.       *)
InFlight ==
  \/ timer \/ \E l \in Lanes : freeing[l] > 0
  \/ \E t \in Tasks :
       \/ task[t].fetching \/ task[t].acquiring \/ task[t].granting
       \/ task[t].sorting # {} \/ task[t].settling > 0
       \/ task[t].run \in {"build", "drive", "slot", "woken"}
       \/ \E n \in 1 .. MaxSeeks : seek[t][n] # Idle

(* No lost wake-up.  When nothing is in flight and no timer is armed, no   *)
(* warm turn waits on a lane with room and no task is queued that could    *)
(* start.                                                                  *)
NothingStranded ==
  ~InFlight => \A t \in Tasks : ~Queued(t) /\ ~task[t].pending

(* An entry blocked on a full ledger is always going to be retried.        *)
BlockedIsRetried ==
  (\E t \in Tasks : task[t].blocked) => timer

(* Nobody waits in vain: whoever waits has room to come, a promise in      *)
(* flight or a timer that will wake him (admit, releaseSlot,               *)
(* #armLanesRetry).                                                        *)
NoLostWakeUp == NothingStranded /\ BlockedIsRetried

(* The turns that claim lane l, and the queued tasks a step lets in there.  *)
Claims(E, l) ==
  {t \in Tasks : E[t].lane = l /\ E[t].status = "running" /\ E[t].run # "none"}
Admitted(l) ==
  {t \in Tasks : /\ Queued(t) /\ task'[t].lane = l
                 /\ \/ ~task[t].acquiring /\ task'[t].acquiring
                    \/ ~Ledger /\ task'[t].status = "running"}

(* "A waiting warm turn outranks fresh work": a queued task is started, or  *)
(* sent to the ledger, only in room that no turn of its lane has claimed,  *)
(* running or still waiting for its own slot.                              *)
WarmTurnsFirst ==
  [][\A l \in Lanes : Admitted(l) # {} =>
       Cardinality(Claims(task', l) \ Admitted(l)) < Cap[l]]_vars

(* Once `done` is resolved the status no longer changes and no agent is    *)
(* built or driven for the task.                                           *)
FinishedIsFinal ==
  [][\A t \in Tasks : task[t].settled =>
       /\ task'[t].settled
       /\ task'[t].status = task[t].status \/ task'[t].status = "refused"
       /\ task'[t].run \in {"none", task[t].run, "woken"}]_vars

(* A queued task is started or cancelled: admit, the retry timer and the   *)
(* release wake-up together forget nobody.                                 *)
QueuedStarts == \A t \in Tasks : Queued(t) ~> ~Queued(t)

(* A warm turn that waits for its lane (taskTurn) is driven or told that   *)
(* its task died.                                                          *)
WaitingTurnProceeds == \A t \in Tasks : task[t].run = "wait" ~> task[t].run # "wait"

(* No turn, first or later, is forgotten while its lane could take it.      *)
EveryTurnProceeds == QueuedStarts /\ WaitingTurnProceeds
=============================================================================
