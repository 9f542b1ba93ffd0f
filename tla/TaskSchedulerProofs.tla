------------------------- MODULE TaskSchedulerProofs -------------------------
(***************************************************************************)
(* Proofs about TaskScheduler: that the slots of the ledger and the task   *)
(* table agree, that turns are admitted only where they may run and within *)
(* the caps, warm turns before fresh ones, that no waiting task is          *)
(* forgotten, and that a finished task stays finished, for every number of *)
(* tasks, lanes, caps, workloads and placements in flight.                 *)
(***************************************************************************)
EXTENDS TaskScheduler, FiniteSetTheorems, FunctionTheorems, WellFoundedInduction, TLAPS

-----------------------------------------------------------------------------
(* The invariant.  s is the setup, t a task and e its entry.               *)

(* A task that never ran holds nothing.                                    *)
Cold(e) ==
  /\ e.lease = None /\ ~e.agent /\ e.run = "none"
  /\ ~e.pending /\ ~e.granted /\ ~e.granting
  /\ ~e.ran /\ ~e.release /\ ~e.aborted /\ ~e.asking /\ e.settling = 0

ColdInv(e) ==
  e.status \in {"none", "queued", "refused"} =>
    Cold(e) /\ (e.status # "refused" => ~e.settled)

(* Where a task may be placed: planning, sorting and acquiring exclude     *)
(* each other, and a task waits for a lane of its plan.                    *)
PlanInv(s, t, e) ==
  /\ e.status # "none" => t \in DOMAIN s.plan
  /\ e.fetching => e.status \in {"queued", "cancelled"}
  /\ e.status = "queued" => (e.planning <=> e.fetching)
  /\ e.status = "queued" /\ ~e.planning =>
       IF Len(s.plan[t]) > 1 THEN e.plan = s.plan[t]
       ELSE e.plan = <<>> /\ e.lane = Head(s.plan[t])
  /\ e.sorting # {} =>
       ~e.fetching /\ e.status # "none"
         /\ Len(s.plan[t]) > 1 /\ e.sorting \subseteq ToSet(s.plan[t])
  /\ e.placing => e.sorting # {}
  /\ e.acquiring =>
       ~e.fetching /\ e.status # "none" /\ Len(s.plan[t]) <= 1 /\ s.ledger

(* A running task is at one place: between turns only if it is parked, and *)
(* with the flags that this place of taskTurn, launch or driveTurn needs.  *)
RunInv(s, t, e) ==
  e.status = "running" =>
    /\ ~e.settled
    /\ e.run = "build" <=> ~e.agent
    /\ e.run = "build" => ~e.ran
    /\ e.run \in {"none", "slot", "wait", "woken"} =>
         t \in s.parked /\ e.ran /\ ~e.release /\ ~e.aborted
    /\ e.run \in {"none", "build", "drive"} => ~e.pending /\ ~e.granted
    /\ e.run \in {"slot", "woken"} => ~e.pending /\ e.granted
    /\ e.run = "wait" => (e.pending <=> ~e.granted)
    /\ e.granting <=> e.run = "wait" /\ e.granted
    /\ \/ e.lane \in ToSet(s.plan[t])
       \/ e.lane = Bare /\ Len(s.plan[t]) > 1 /\ s.seeks > 1

(* Only a running task has a lease, of its lane unless it was moved to the *)
(* bare lane, and between its turns none; a turn under way has one.        *)
LeaseInv(s, t, e) ==
  /\ e.lease # None =>
       /\ e.status = "running" /\ s.ledger
       /\ e.lease = e.lane \/ (e.lane = Bare /\ s.seeks > 1)
  /\ t \notin s.askers /\ e.status = "running" =>
       /\ e.run \in {"none", "slot", "wait"} => e.lease = None
       /\ e.run \in {"build", "woken", "drive"} /\ s.ledger /\ ~s.fsErrors =>
            e.lease # None
  /\ e.asking \/ e.settling > 0 => t \in s.askers
  /\ e.granting \/ e.run = "slot" \/ e.settling > 0 => s.ledger

(* What is finished has let go of everything.                              *)
OverInv(e) ==
  e.status \in Terminal =>
    /\ e.settled /\ e.lease = None /\ ~e.agent /\ ~e.pending /\ ~e.granted
    /\ e.run \in {"none", "slot", "woken"}

EntryInv(s, t, e) ==
  /\ e \in Entry
  /\ ColdInv(e) /\ PlanInv(s, t, e) /\ RunInv(s, t, e) /\ LeaseInv(s, t, e) /\ OverInv(e)

(* A placement in flight is one of a task with several lanes, has a lane   *)
(* left, and belongs to a task that did not start unless another placement *)
(* of it did.                                                              *)
SeekInv(s, t, n, k, e) ==
  /\ k \in Seek
  /\ k # Idle =>
       /\ k.phase # "idle" /\ k.left # <<>> /\ n <= s.seeks
       /\ Len(s.plan[t]) > 1 /\ ToSet(k.left) \subseteq ToSet(s.plan[t])
       /\ e.status # "none" /\ ~e.fetching
       /\ s.seeks = 1 => e.status # "running"

Entries == task \in [Tasks -> Entry] /\ \A t \in Tasks : EntryInv(setup, t, task[t])
Placements ==
  /\ seek \in [Tasks -> [1 .. MaxSeeks -> Seek]]
  /\ \A t \in Tasks, n \in 1 .. MaxSeeks : SeekInv(setup, t, n, seek[t][n], task[t])
Ledgers ==
  /\ slots \in [Lanes -> Nat] /\ freeing \in [Lanes -> Nat] /\ handing \in [Lanes -> Nat]
  /\ \A l \in Lanes : slots[l] <= Cap[l]
Flags == timer \in BOOLEAN /\ down \subseteq Watched /\ setup \in Setups

IInv == Flags /\ Entries /\ Placements /\ Ledgers /\ NoSlotLost /\ BlockedIsRetried

-----------------------------------------------------------------------------
(* The admission pass.                                                     *)

(* A set of numbers that is not empty has a least member.                  *)
LEMMA LeastNumber ==
  ASSUME NEW S \in SUBSET Nat, S # {}
  PROVE  \E x \in S : \A y \in S : x <= y
<1>1. \E x \in S : \A y \in S : ~(<<y, x>> \in OpToRel(<, Nat))
  BY NatLessThanWellFounded, WFMin
<1>2. PICK x \in S : \A y \in S : ~(<<y, x>> \in OpToRel(<, Nat))  BY <1>1
<1>3. \A y \in S : ~(y < x)  BY <1>2 DEF OpToRel
<1> QED  BY <1>3

LEMMA MinIsMember ==
  ASSUME NEW S \in SUBSET Nat, S # {}
  PROVE  Min(S) \in S /\ \A y \in S : Min(S) <= y
BY LeastNumber DEF Min

(* What is promised to a task depends on what was promised before it only. *)
LEMMA PromiseDependsOnEarlier ==
  ASSUME NEW E, NEW dead, NEW p, NEW q, NEW t \in Nat,
         \A u \in 1 .. t - 1 : p[u] = q[u]
  PROVE  Promise(E, dead, p, t) = Promise(E, dead, q, t)
<1>1. ASSUME NEW l
      PROVE  {u \in 1 .. t - 1 : p[u] = l} = {u \in 1 .. t - 1 : q[u] = l}
  OBVIOUS
<1>2. Room(E, dead, p, t) = Room(E, dead, q, t)
  BY <1>1 DEF Room
<1> QED  BY <1>2 DEF Promise

(* So the promises of a pass exist: they are made in the order of the      *)
(* tasks.                                                                  *)
LEMMA PromisesExist ==
  ASSUME NEW E, NEW dead
  PROVE  \E p : p = [t \in Tasks |-> Promise(E, dead, p, t)]
<1> DEFINE Made(m, p) == p = [t \in 1 .. m |-> Promise(E, dead, p, t)]
           Stuck == {m \in Nat : ~(\E p : Made(m, p))}
<1>1. Stuck = {}
  <2> SUFFICES ASSUME Stuck # {} PROVE FALSE  OBVIOUS
  <2>1. PICK m \in Stuck : \A k \in Stuck : m <= k
    <3>1. Stuck \in SUBSET Nat  OBVIOUS
    <3> QED  BY <3>1, LeastNumber
  <2>2. m # 0
    <3>1. Made(0, [t \in 1 .. 0 |-> None])  OBVIOUS
    <3> QED  BY <2>1, <3>1
  <2>3. PICK p : Made(m - 1, p)
    <3>1. m - 1 \in Nat /\ m - 1 \notin Stuck  BY <2>1, <2>2
    <3> QED  BY <3>1
  <2> DEFINE q == [t \in 1 .. m |-> IF t = m THEN Promise(E, dead, p, t) ELSE p[t]]
  <2>4. \A t \in 1 .. m - 1 : p[t] = q[t]  BY <2>1
  <2>5. \A t \in 1 .. m : Promise(E, dead, p, t) = Promise(E, dead, q, t)
    <3> SUFFICES ASSUME NEW t \in 1 .. m
                 PROVE  Promise(E, dead, p, t) = Promise(E, dead, q, t)
      OBVIOUS
    <3>1. t \in Nat /\ \A u \in 1 .. t - 1 : p[u] = q[u]  BY <2>1, <2>4
    <3> QED  BY <3>1, PromiseDependsOnEarlier
  <2>6. \A t \in 1 .. m : q[t] = Promise(E, dead, q, t)
    <3>1. \A t \in 1 .. m - 1 : p[t] = Promise(E, dead, p, t)  BY <2>3
    <3>2. q[m] = Promise(E, dead, p, m)  BY <2>2
    <3>3. \A t \in 1 .. m : t = m \/ t \in 1 .. m - 1  BY <2>1
    <3> HIDE DEF q
    <3> QED  BY <2>4, <2>5, <3>1, <3>2, <3>3
  <2>7. Made(m, q)  BY <2>6
  <2> QED  BY <2>1, <2>7
<1>2. N \in Nat  BY SchedulerAssumption
<1>3. \E p : Made(N, p)  BY <1>1, <1>2
<1> QED  BY <1>3 DEF Tasks

(* What a pass may do to one entry: nothing, grant its waiting turn, start *)
(* it on its only lane, or reserve a lane of its plan.                     *)
AdmitStep(e, f) ==
  \/ f = e
  \/ Waits(e) /\ f = Grant(e)
  \/ Startable(e) /\ e.plan = <<>> /\ f = TryStart(e)
  \/ /\ Startable(e) /\ e.plan # <<>>
     /\ \E l \in ToSet(e.plan), homes \in (SUBSET ToSet(e.plan)) \ {{}} :
          f = [e EXCEPT !.lane = l, !.placing = TRUE, !.sorting = homes]

(* The promises of a pass, and the pass with its intermediate registry.    *)
LEMMA StartsStep ==
  ASSUME NEW E \in [Tasks -> Entry], NEW dead
  PROVE  \E p :
           /\ p = [t \in Tasks |-> Promise(E, dead, p, t)]
           /\ Starts(E, dead) = [t \in Tasks |-> StartOn(E[t], p[t], dead)]
<1> DEFINE p == CHOOSE p : p = [t \in Tasks |-> Promise(E, dead, p, t)]
<1>1. p = [t \in Tasks |-> Promise(E, dead, p, t)]  BY PromisesExist
<1>2. Starts(E, dead) = [t \in Tasks |-> StartOn(E[t], p[t], dead)]  BY DEF Starts
<1> HIDE DEF p
<1> QED  BY <1>1, <1>2

LEMMA AdmitIsTwoPasses ==
  ASSUME NEW E, NEW dead
  PROVE  AdmitWith(E, dead) = Starts(WarmGrants(E), dead)
<1>1. {WarmGrants(H) : H \in {E}} = {WarmGrants(E)}  OBVIOUS
<1>2. {Starts(G, dead) : G \in {WarmGrants(H) : H \in {E}}} = {Starts(WarmGrants(E), dead)}
  BY <1>1
<1> QED  BY <1>2 DEF AdmitWith

(* A lane promised to a task has room for it and is one of its homes.      *)
LEMMA PromiseHasRoom ==
  ASSUME NEW E \in [Tasks -> Entry], NEW dead, NEW p, NEW t \in Tasks,
         Promise(E, dead, p, t) # None
  PROVE  /\ Startable(E[t])
         /\ Promise(E, dead, p, t) \in Room(E, dead, p, t)
         /\ IF E[t].plan = <<>> THEN Promise(E, dead, p, t) = E[t].lane
            ELSE Promise(E, dead, p, t) \in ToSet(E[t].plan)
<1> DEFINE room == Room(E, dead, p, t)
           plan == E[t].plan
           good == {i \in DOMAIN plan : plan[i] \in room}
<1>1. Startable(E[t]) /\ room # {}  BY DEF Promise
<1>2. room \subseteq Homes(E[t], dead)  BY DEF Room
<1>3. CASE plan = <<>>
  <2>1. Promise(E, dead, p, t) = E[t].lane  BY <1>1, <1>3 DEF Promise
  <2>2. Homes(E[t], dead) = {E[t].lane}  BY <1>3 DEF Homes
  <2> QED  BY <1>1, <1>2, <1>3, <2>1, <2>2
<1>4. CASE plan # <<>>
  <2>1. Promise(E, dead, p, t) = plan[Min(good)]  BY <1>1, <1>4 DEF Promise
  <2>2. Homes(E[t], dead) \subseteq ToSet(plan)  BY <1>4 DEF Homes, Eligible
  <2>3. plan \in Seq(Lanes)  BY DEF Entry
  <2>4. good # {}
    <3>1. PICK l \in room : l \in ToSet(plan)  BY <1>1, <1>2, <2>2
    <3>2. PICK i \in DOMAIN plan : plan[i] = l  BY <3>1 DEF ToSet
    <3> QED  BY <3>1, <3>2
  <2>5. good \in SUBSET Nat  BY <2>3
  <2>6. Min(good) \in good  BY <2>4, <2>5, MinIsMember
  <2> QED  BY <1>1, <1>4, <2>1, <2>6 DEF ToSet
<1> QED  BY <1>3, <1>4

LEMMA GrantStep ==
  ASSUME NEW E \in [Tasks -> Entry], NEW t \in Tasks
  PROVE  WarmGrants(E)[t] = E[t] \/ (Waits(E[t]) /\ WarmGrants(E)[t] = Grant(E[t]))
BY DEF WarmGrants

LEMMA GrantIsEntry ==
  ASSUME NEW e \in Entry
  PROVE  Grant(e) \in Entry
BY DEF Grant, Entry, Runs

LEMMA WarmGrantsIsRegistry ==
  ASSUME NEW E \in [Tasks -> Entry]
  PROVE  WarmGrants(E) \in [Tasks -> Entry]
<1>1. ASSUME NEW t \in Tasks PROVE WarmGrants(E)[t] \in Entry
  <2>1. E[t] \in Entry  OBVIOUS
  <2>2. Grant(E[t]) \in Entry  BY <2>1, GrantIsEntry
  <2> QED  BY <2>1, <2>2, GrantStep
<1>2. WarmGrants(E) = [t \in Tasks |-> WarmGrants(E)[t]]  BY DEF WarmGrants
<1> QED  BY <1>1, <1>2

LEMMA Reserving ==
  ASSUME NEW e, NEW f, Startable(e), e.plan # <<>>, NEW l \in ToSet(e.plan),
         NEW homes, homes \subseteq ToSet(e.plan), l \in homes,
         f = [e EXCEPT !.lane = l, !.placing = TRUE, !.sorting = homes]
  PROVE  AdmitStep(e, f) /\ (~Startable(e) => f = e)
<1>1. homes \in (SUBSET ToSet(e.plan)) \ {{}}  OBVIOUS
<1> QED  BY <1>1 DEF AdmitStep

LEMMA StartStep ==
  ASSUME NEW E \in [Tasks -> Entry], NEW dead, NEW p, NEW t \in Tasks,
         NEW l, l = Promise(E, dead, p, t)
  PROVE  /\ AdmitStep(E[t], StartOn(E[t], l, dead))
         /\ ~Startable(E[t]) => StartOn(E[t], l, dead) = E[t]
<1>1. CASE l = None  BY <1>1 DEF StartOn, AdmitStep
<1>2. CASE l # None /\ E[t].plan = <<>>
  <2>1. Startable(E[t])  BY <1>2, PromiseHasRoom
  <2> QED  BY <1>2, <2>1 DEF StartOn, AdmitStep
<1>3. CASE l # None /\ E[t].plan # <<>>
  <2>1. Startable(E[t]) /\ l \in ToSet(E[t].plan)  BY <1>3, PromiseHasRoom
  <2>2. Homes(E[t], dead) \subseteq ToSet(E[t].plan)  BY <1>3 DEF Homes, Eligible
  <2>3. l \in Homes(E[t], dead)  BY <1>3, PromiseHasRoom DEF Room
  <2>4. StartOn(E[t], l, dead)
          = [E[t] EXCEPT !.lane = l, !.placing = TRUE, !.sorting = Homes(E[t], dead)]
    BY <1>3 DEF StartOn
  <2> QED  BY <1>3, <2>1, <2>2, <2>3, <2>4, Reserving
<1> QED  BY <1>1, <1>2, <1>3

(* A pass takes every entry through one such step.                         *)
LEMMA PassIsSteps ==
  ASSUME NEW E \in [Tasks -> Entry], NEW dead
  PROVE  /\ DOMAIN AdmitWith(E, dead) = Tasks
         /\ AdmitWith(E, dead) = [t \in Tasks |-> AdmitWith(E, dead)[t]]
         /\ \A t \in Tasks : AdmitStep(E[t], AdmitWith(E, dead)[t])
<1> DEFINE G == WarmGrants(E)
<1>1. G \in [Tasks -> Entry]  BY WarmGrantsIsRegistry
<1>2. PICK p : /\ p = [t \in Tasks |-> Promise(G, dead, p, t)]
               /\ Starts(G, dead) = [t \in Tasks |-> StartOn(G[t], p[t], dead)]
  BY <1>1, StartsStep
<1>3. AdmitWith(E, dead) = [t \in Tasks |-> StartOn(G[t], p[t], dead)]
  BY <1>2, AdmitIsTwoPasses
<1>4. ASSUME NEW t \in Tasks PROVE AdmitStep(E[t], StartOn(G[t], p[t], dead))
  <2>0. p[t] = Promise(G, dead, p, t)  BY <1>2
  <2>1. /\ AdmitStep(G[t], StartOn(G[t], p[t], dead))
        /\ ~Startable(G[t]) => StartOn(G[t], p[t], dead) = G[t]
    <3> HIDE DEF G
    <3> QED  BY <1>1, <2>0, StartStep
  <2>2. CASE G[t] = E[t]  BY <2>1, <2>2
  <2>3. CASE Waits(E[t]) /\ G[t] = Grant(E[t])
    <3>1. E[t] \in Entry  OBVIOUS
    <3>2. Grant(E[t]).status = E[t].status  BY <3>1 DEF Grant, Entry
    <3>3. ~Startable(G[t])  BY <2>3, <3>2 DEF Startable, Waits
    <3> QED  BY <2>1, <2>3, <3>3 DEF AdmitStep
  <2> QED  BY <2>2, <2>3, GrantStep
<1> HIDE DEF G
<1> QED  BY <1>3, <1>4

-----------------------------------------------------------------------------
(* One entry at a time: every update of an entry keeps EntryInv.            *)

LEMMA SetupFacts ==
  ASSUME NEW s \in Setups
  PROVE  /\ s.ledger \in BOOLEAN /\ s.fsErrors \in BOOLEAN
         /\ s.seeks \in 1 .. MaxSeeks /\ s.seeks \in Nat
         /\ s.parked \subseteq Tasks /\ s.askers \subseteq Tasks
         /\ s.watched \subseteq Lanes
         /\ \A t \in DOMAIN s.plan :
              /\ s.plan[t] \in Seq(Lanes) /\ s.plan[t] # <<>> /\ Len(s.plan[t]) \in Nat \ {0}
              /\ Head(s.plan[t]) \in ToSet(s.plan[t]) /\ Head(s.plan[t]) \in Lanes
              /\ ToSet(s.plan[t]) \subseteq Lanes
<1>1. PICK n \in 0 .. N : s.plan \in [1 .. n -> Seq(Lanes) \ {<<>>}]
  BY SchedulerAssumption
<1>2. ASSUME NEW t \in DOMAIN s.plan
      PROVE  /\ s.plan[t] \in Seq(Lanes) /\ s.plan[t] # <<>> /\ Len(s.plan[t]) \in Nat \ {0}
             /\ Head(s.plan[t]) \in ToSet(s.plan[t]) /\ Head(s.plan[t]) \in Lanes
             /\ ToSet(s.plan[t]) \subseteq Lanes
  <2>1. s.plan[t] \in Seq(Lanes) /\ s.plan[t] # <<>>  BY <1>1
  <2>2. Len(s.plan[t]) \in Nat \ {0} /\ 1 \in DOMAIN s.plan[t]  BY <2>1
  <2>3. Head(s.plan[t]) = s.plan[t][1]  BY <2>1
  <2> QED  BY <2>1, <2>2, <2>3 DEF ToSet
<1>3. MaxSeeks \in Nat  BY SchedulerAssumption
<1>4. s.seeks \in 1 .. MaxSeeks  BY SchedulerAssumption
<1>5. s.seeks \in Nat  BY <1>3, <1>4
<1>6. /\ s.ledger \in BOOLEAN /\ s.fsErrors \in BOOLEAN
      /\ s.parked \subseteq Tasks /\ s.askers \subseteq Tasks
      /\ s.watched \subseteq Lanes
  BY SchedulerAssumption
<1> QED  BY <1>2, <1>4, <1>5, <1>6

(* What a pass leaves of an entry.                                         *)
Follows(s, t, e, f) ==
  /\ f.lease = e.lease /\ f.fetching = e.fetching
  /\ f.blocked = e.blocked /\ f.settled = e.settled
  /\ \/ f.status = e.status
     \/ e.status = "queued" /\ f.status = "running" /\ Len(s.plan[t]) <= 1
  /\ e.status # "queued" /\ ~e.pending => f = e

LEMMA GrantKeeps ==
  ASSUME NEW t \in Tasks, NEW e, EntryInv(setup, t, e), Waits(e)
  PROVE  EntryInv(setup, t, Grant(e)) /\ Follows(setup, t, e, Grant(e))
<1> DEFINE f == Grant(e)
<1>1. e \in Entry  BY DEF EntryInv
<1>2. f \in Entry  BY <1>1, GrantIsEntry
<1>3. e.status = "running" /\ e.pending  BY DEF Waits
<1>4. e.run = "wait" /\ ~e.granted /\ ~e.granting
  BY <1>1, <1>3 DEF EntryInv, RunInv, Entry, Runs
<1>5. CASE setup.ledger
  <2>1. f = [e EXCEPT !.pending = FALSE, !.granted = TRUE, !.granting = TRUE]
    BY <1>5 DEF Grant, Ledger
  <2> QED  BY <1>1, <1>2, <1>3, <1>4, <1>5, <2>1
           DEF EntryInv, ColdInv, PlanInv, RunInv, LeaseInv, OverInv, Terminal, Entry, Follows
<1>6. CASE ~setup.ledger
  <2>1. f = [e EXCEPT !.pending = FALSE, !.granted = TRUE, !.run = "woken"]
    BY <1>6 DEF Grant, Ledger
  <2> QED  BY <1>1, <1>2, <1>3, <1>4, <1>6, <2>1
           DEF EntryInv, ColdInv, PlanInv, RunInv, LeaseInv, OverInv, Terminal, Entry, Follows
<1> QED  BY <1>5, <1>6

(* entry.start of a queued task that was planned, with the lease it got.   *)
LEMMA BeginKeeps ==
  ASSUME setup \in Setups, NEW t \in Tasks, NEW e, EntryInv(setup, t, e),
         e.status = "queued", ~e.fetching, ~e.acquiring,
         e.lane \in ToSet(setup.plan[t]),
         NEW x \in {e.lane, None},
         x # None => setup.ledger,
         setup.ledger /\ ~setup.fsErrors => x # None
  PROVE  EntryInv(setup, t, Begin(e, x))
<1> DEFINE f == Begin(e, x)
<1>1. e \in Entry  BY DEF EntryInv
<1>2. x \in Lanes \cup {None}  BY <1>1 DEF Entry
<1>3. f = [e EXCEPT !.status = "running", !.run = "build", !.lease = x]  BY DEF Begin
<1>4. f \in Entry  BY <1>1, <1>2, <1>3 DEF Entry, Runs, Terminal
<1>5. Cold(e) /\ ~e.settled  BY DEF EntryInv, ColdInv
<1> HIDE DEF f
<1>6. ColdInv(f) /\ OverInv(f)  BY <1>1, <1>3 DEF Entry, ColdInv, OverInv, Terminal
<1>7. PlanInv(setup, t, f)  BY <1>1, <1>3 DEF EntryInv, PlanInv, Entry
<1>8. RunInv(setup, t, f)  BY <1>1, <1>3, <1>5 DEF RunInv, Entry, Cold
<1>9. LeaseInv(setup, t, f)  BY <1>1, <1>3, <1>5 DEF LeaseInv, Entry, Cold
<1> QED  BY <1>4, <1>6, <1>7, <1>8, <1>9 DEF EntryInv, f

LEMMA TryStartKeeps ==
  ASSUME setup \in Setups, NEW t \in Tasks, NEW e, EntryInv(setup, t, e),
         Startable(e), e.plan = <<>>
  PROVE  EntryInv(setup, t, TryStart(e)) /\ Follows(setup, t, e, TryStart(e))
<1> DEFINE f == TryStart(e)
<1>1. e \in Entry /\ e.status = "queued" /\ ~e.planning /\ ~e.acquiring
  BY DEF EntryInv, Startable
<1>2. ~e.fetching  BY <1>1 DEF EntryInv, PlanInv
<1>3. t \in DOMAIN setup.plan  BY <1>1 DEF EntryInv, PlanInv
<1>4. setup.plan[t] # <<>> /\ Len(setup.plan[t]) \in Nat /\ Head(setup.plan[t]) \in ToSet(setup.plan[t])
  BY <1>3, SetupFacts
<1>5. Len(setup.plan[t]) <= 1 /\ e.lane = Head(setup.plan[t])
  BY <1>1, <1>4 DEF EntryInv, PlanInv
<1>6. Cold(e) /\ ~e.settled  BY <1>1 DEF EntryInv, ColdInv
<1>7. CASE setup.ledger
  <2>1. f = [e EXCEPT !.acquiring = TRUE]  BY <1>7 DEF TryStart, Ledger
  <2>2. f \in Entry  BY <1>1, <2>1 DEF Entry
  <2> HIDE DEF f
  <2>3. ColdInv(f) /\ OverInv(f) /\ RunInv(setup, t, f)
    BY <1>1, <1>6, <2>1 DEF ColdInv, Cold, OverInv, RunInv, Entry, Terminal
  <2>4. PlanInv(setup, t, f)
    BY <1>1, <1>2, <1>3, <1>5, <1>7, <2>1 DEF EntryInv, PlanInv, Entry
  <2>5. LeaseInv(setup, t, f)  BY <1>1, <2>1 DEF EntryInv, LeaseInv, Entry
  <2>6. Follows(setup, t, e, f) \/ e.status = "queued"  BY <1>1
  <2>7. Follows(setup, t, e, f)  BY <1>1, <2>1 DEF Follows, Entry
  <2> QED  BY <2>2, <2>3, <2>4, <2>5, <2>7 DEF EntryInv, f
<1>8. CASE ~setup.ledger
  <2>1. f = Begin(e, None)  BY <1>8 DEF TryStart, Ledger
  <2>2. EntryInv(setup, t, f)  BY <1>1, <1>2, <1>4, <1>5, <1>8, <2>1, BeginKeeps
  <2>3. Follows(setup, t, e, f)
    BY <1>1, <1>5, <1>6, <2>1 DEF Begin, Follows, Entry, Cold
  <2> QED  BY <2>2, <2>3
<1> QED  BY <1>7, <1>8

LEMMA ReserveKeeps ==
  ASSUME setup \in Setups, NEW t \in Tasks, NEW e, EntryInv(setup, t, e),
         Startable(e), e.plan # <<>>,
         NEW l \in ToSet(e.plan), NEW homes \in (SUBSET ToSet(e.plan)) \ {{}},
         NEW f, f = [e EXCEPT !.lane = l, !.placing = TRUE, !.sorting = homes]
  PROVE  EntryInv(setup, t, f) /\ Follows(setup, t, e, f)
<1>0. homes \subseteq ToSet(e.plan) /\ homes # {}  OBVIOUS
<1>1. e \in Entry /\ e.status = "queued" /\ ~e.planning
  BY DEF EntryInv, Startable
<1>2. ~e.fetching  BY <1>1 DEF EntryInv, PlanInv
<1>3. t \in DOMAIN setup.plan  BY <1>1 DEF EntryInv, PlanInv
<1>4. Len(setup.plan[t]) \in Nat /\ ToSet(setup.plan[t]) \subseteq Lanes
  BY <1>3, SetupFacts
<1>5. Len(setup.plan[t]) > 1 /\ e.plan = setup.plan[t]
  BY <1>1 DEF EntryInv, PlanInv
<1>6. Cold(e) /\ ~e.settled  BY <1>1 DEF EntryInv, ColdInv
<1>7. f \in Entry  BY <1>0, <1>1, <1>4, <1>5 DEF Entry
<1>8. ColdInv(f) /\ OverInv(f) /\ RunInv(setup, t, f)
  BY <1>1, <1>6 DEF ColdInv, Cold, OverInv, RunInv, Entry, Terminal
<1>9. PlanInv(setup, t, f)
  BY <1>0, <1>1, <1>2, <1>3, <1>4, <1>5 DEF EntryInv, PlanInv, Entry
<1>10. LeaseInv(setup, t, f)  BY <1>1, <1>6 DEF EntryInv, LeaseInv, Entry, Cold
<1>11. Follows(setup, t, e, f)  BY <1>1 DEF Follows, Entry
<1> QED  BY <1>7, <1>8, <1>9, <1>10, <1>11 DEF EntryInv

LEMMA AdmitStepKeeps ==
  ASSUME setup \in Setups, NEW t \in Tasks, NEW e, NEW f,
         EntryInv(setup, t, e), AdmitStep(e, f)
  PROVE  EntryInv(setup, t, f) /\ Follows(setup, t, e, f)
<1>1. CASE f = e  BY <1>1 DEF Follows
<1>2. CASE Waits(e) /\ f = Grant(e)  BY <1>2, GrantKeeps
<1>3. CASE Startable(e) /\ e.plan = <<>> /\ f = TryStart(e)  BY <1>3, TryStartKeeps
<1>4. CASE /\ Startable(e) /\ e.plan # <<>>
           /\ \E l \in ToSet(e.plan), homes \in (SUBSET ToSet(e.plan)) \ {{}} :
                f = [e EXCEPT !.lane = l, !.placing = TRUE, !.sorting = homes]
  BY <1>4, ReserveKeeps
<1> QED  BY <1>1, <1>2, <1>3, <1>4 DEF AdmitStep

(* A registry all of whose entries are sound, and one that a pass, or      *)
(* several, made of it.                                                    *)
Sound(E) == E \in [Tasks -> Entry] /\ \A t \in Tasks : EntryInv(setup, t, E[t])
Passed(E, F) == \A t \in Tasks : Follows(setup, t, E[t], F[t])

LEMMA PassKeeps ==
  ASSUME setup \in Setups, NEW E, NEW dead, Sound(E)
  PROVE  Sound(AdmitWith(E, dead)) /\ Passed(E, AdmitWith(E, dead))
<1> DEFINE F == AdmitWith(E, dead)
<1>1. F = [t \in Tasks |-> F[t]] /\ \A t \in Tasks : AdmitStep(E[t], F[t])
  BY PassIsSteps DEF Sound
<1> HIDE DEF F
<1>2. \A t \in Tasks : EntryInv(setup, t, F[t]) /\ Follows(setup, t, E[t], F[t])
  BY <1>1, AdmitStepKeeps DEF Sound
<1>3. \A t \in Tasks : F[t] \in Entry  BY <1>2 DEF EntryInv
<1> QED  BY <1>1, <1>2, <1>3 DEF Sound, Passed, F

(* What no step does to an entry: it never plans again, never forgets the  *)
(* task, starts it only if a slot was promised, and leaves it over once it *)
(* is settled.                                                             *)
Drift(s, t, e, f) ==
  /\ f.fetching => e.fetching \/ e.status = "none"
  /\ f.status = "none" => e.status = "none"
  /\ f.status = "running" => e.status = "running" \/ Len(s.plan[t]) <= 1
  /\ e.settled =>
       /\ f.settled
       /\ f.status = e.status \/ f.status = "refused"
       /\ f.run \in {"none", e.run, "woken"}

(* A sound registry that a step may reach from the present one.            *)
Reached(F) == Sound(F) /\ \A t \in Tasks : Drift(setup, t, task[t], F[t])

LEMMA ReachedAtOnce ==
  ASSUME Sound(task)
  PROVE  Reached(task)
BY DEF Reached, Drift

LEMMA SetReaches ==
  ASSUME NEW E, Reached(E), NEW t \in Tasks, NEW e,
         EntryInv(setup, t, e), Drift(setup, t, task[t], e)
  PROVE  Reached([E EXCEPT ![t] = e])
<1>1. e \in Entry  BY DEF EntryInv
<1>2. E \in [Tasks -> Entry]  BY DEF Reached, Sound
<1> QED  BY <1>1, <1>2 DEF Reached, Sound

LEMMA SettledIsOver ==
  ASSUME NEW t \in Tasks, NEW e, EntryInv(setup, t, e), e.settled
  PROVE  e.status \in Terminal \cup {"refused"} /\ ~e.pending
BY DEF EntryInv, ColdInv, Cold, RunInv, OverInv, Entry, Terminal

LEMMA FollowsIsDrift ==
  ASSUME NEW t \in Tasks, NEW c, NEW e, NEW f, EntryInv(setup, t, e),
         Drift(setup, t, c, e), Follows(setup, t, e, f)
  PROVE  Drift(setup, t, c, f)
<1>1. e.settled => f = e
  <2> SUFFICES ASSUME e.settled PROVE f = e  OBVIOUS
  <2>1. e.status \in Terminal \cup {"refused"} /\ ~e.pending  BY SettledIsOver
  <2> QED  BY <2>1 DEF Follows, Terminal
<1> QED  BY <1>1 DEF Follows, Drift

LEMMA PassReaches ==
  ASSUME setup \in Setups, NEW E, NEW dead, Reached(E)
  PROVE  /\ Reached(AdmitWith(E, dead))
         /\ Passed(E, AdmitWith(E, dead))
<1> DEFINE F == AdmitWith(E, dead)
<1>1. Sound(F) /\ Passed(E, F)  BY PassKeeps DEF Reached
<1> HIDE DEF F
<1>2. \A t \in Tasks : Drift(setup, t, task[t], F[t])
  BY <1>1, FollowsIsDrift DEF Reached, Passed, Sound
<1> QED  BY <1>1, <1>2 DEF Reached, F


LEMMA ClearKeeps ==
  ASSUME NEW t \in Tasks, NEW e, EntryInv(setup, t, e), NEW b \in BOOLEAN,
         NEW f, f = [e EXCEPT !.blocked = b]
  PROVE  EntryInv(setup, t, f) /\ Drift(setup, t, e, f) /\ f.lease = e.lease
<1>1. e \in Entry  BY DEF EntryInv
<1>2. f \in Entry  BY <1>1 DEF Entry
<1>3. ColdInv(f) /\ OverInv(f)
  BY <1>1 DEF EntryInv, ColdInv, Cold, OverInv, Entry
<1>4. PlanInv(setup, t, f)  BY <1>1 DEF EntryInv, PlanInv, Entry
<1>5. RunInv(setup, t, f)  BY <1>1 DEF EntryInv, RunInv, Entry
<1>6. LeaseInv(setup, t, f)  BY <1>1 DEF EntryInv, LeaseInv, Entry
<1>7. Drift(setup, t, e, f)  BY <1>1 DEF Drift, Entry
<1> QED  BY <1>1, <1>2, <1>3, <1>4, <1>5, <1>6, <1>7 DEF EntryInv, Entry

LEMMA ClearedReaches ==
  ASSUME Sound(task), NEW F, DOMAIN F = Tasks, F = [t \in Tasks |-> F[t]],
         \A t \in Tasks : \E b \in BOOLEAN : F[t] = [task[t] EXCEPT !.blocked = b]
  PROVE  Reached(F) /\ \A t \in Tasks : F[t].lease = task[t].lease
<1>1. ASSUME NEW t \in Tasks
      PROVE  EntryInv(setup, t, F[t]) /\ Drift(setup, t, task[t], F[t]) /\ F[t].lease = task[t].lease
  <2>1. PICK b \in BOOLEAN : F[t] = [task[t] EXCEPT !.blocked = b]  OBVIOUS
  <2>2. EntryInv(setup, t, task[t])  BY DEF Sound
  <2> QED  BY <2>1, <2>2, ClearKeeps
<1>2. \A t \in Tasks : F[t] \in Entry  BY <1>1 DEF EntryInv
<1> QED  BY <1>1, <1>2 DEF Reached, Sound

LEMMA UnblockedReaches ==
  ASSUME Sound(task)
  PROVE  /\ Reached(Unblocked(task))
         /\ \A t \in Tasks : /\ Unblocked(task)[t].lease = task[t].lease
                             /\ ~Unblocked(task)[t].blocked
<1> DEFINE F == Unblocked(task)
<1>1. F = [t \in Tasks |-> [task[t] EXCEPT !.blocked = FALSE]]  BY DEF Unblocked
<1>2. \A t \in Tasks : task[t] \in Entry  BY DEF Sound
<1>3. \A t \in Tasks : ~F[t].blocked  BY <1>1, <1>2 DEF Entry
<1>4. \A t \in Tasks : \E b \in BOOLEAN : F[t] = [task[t] EXCEPT !.blocked = b]
  BY <1>1
<1>5. DOMAIN F = Tasks /\ F = [t \in Tasks |-> F[t]]  BY <1>1
<1> HIDE DEF F
<1>6. Reached(F) /\ \A t \in Tasks : F[t].lease = task[t].lease
  BY <1>4, <1>5, ClearedReaches
<1> QED  BY <1>3, <1>6 DEF F

-----------------------------------------------------------------------------
(* The updates that the handlers make, each of them one entry.             *)

LEMMA BareIsLane ==
  Bare \in Lanes /\ None \notin Lanes /\ <<>> \in Seq(Lanes)
BY SchedulerAssumption

(* spawnTask reserves the id.                                              *)
LEMMA SpawnKeeps ==
  ASSUME setup \in Setups, NEW t \in Tasks, NEW e, EntryInv(setup, t, e),
         e.status = "none", t \in DOMAIN setup.plan,
         NEW f, f = [Absent EXCEPT !.status = "queued", !.fetching = TRUE, !.planning = TRUE]
  PROVE  EntryInv(setup, t, f) /\ Drift(setup, t, e, f)
<1> USE DEF EntryInv, ColdInv, Cold, PlanInv, RunInv, LeaseInv, OverInv, Terminal, Entry, Runs, Drift
<1>1. f \in Entry  BY BareIsLane DEF Absent
<1>2. ColdInv(f) /\ OverInv(f)  BY BareIsLane DEF Absent
<1>3. PlanInv(setup, t, f)  BY BareIsLane DEF Absent
<1>4. RunInv(setup, t, f)  BY BareIsLane DEF Absent
<1>5. LeaseInv(setup, t, f)  BY BareIsLane DEF Absent
<1>6. Drift(setup, t, e, f)  BY BareIsLane DEF Absent
<1> QED  BY <1>1, <1>2, <1>3, <1>4, <1>5, <1>6

(* planForSpawn answered for a task that was cancelled.                    *)
LEMMA PlanCancelledKeeps ==
  ASSUME setup \in Setups, NEW t \in Tasks, NEW e, EntryInv(setup, t, e),
         e.fetching, e.status # "queued",
         NEW f, f = [e EXCEPT !.fetching = FALSE]
  PROVE  EntryInv(setup, t, f) /\ Drift(setup, t, e, f)
<1> USE DEF EntryInv, ColdInv, Cold, PlanInv, RunInv, LeaseInv, OverInv, Terminal, Entry, Runs, Drift
<1>1. f \in Entry  OBVIOUS
<1>2. ColdInv(f) /\ OverInv(f)  OBVIOUS
<1>3. PlanInv(setup, t, f)  OBVIOUS
<1>4. RunInv(setup, t, f)  OBVIOUS
<1>5. LeaseInv(setup, t, f)  OBVIOUS
<1>6. Drift(setup, t, e, f)  OBVIOUS
<1> QED  BY <1>1, <1>2, <1>3, <1>4, <1>5, <1>6

(* planForSpawn answered, and the task may be placed.                      *)
LEMMA PlannedKeeps ==
  ASSUME setup \in Setups, NEW t \in Tasks, NEW e, EntryInv(setup, t, e),
         e.fetching, e.status = "queued",
         NEW f, f = [e EXCEPT
           !.fetching = FALSE, !.planning = FALSE,
           !.lane = IF Len(setup.plan[t]) > 1 THEN Bare ELSE Head(setup.plan[t]),
           !.plan = IF Len(setup.plan[t]) > 1 THEN setup.plan[t] ELSE <<>>]
  PROVE  EntryInv(setup, t, f) /\ Drift(setup, t, e, f)
<1> USE DEF EntryInv, ColdInv, Cold, PlanInv, RunInv, LeaseInv, OverInv, Terminal, Entry, Runs, Drift
<1>0. /\ setup.plan[t] \in Seq(Lanes) /\ Len(setup.plan[t]) \in Nat \ {0}
      /\ Head(setup.plan[t]) \in Lanes
  BY SetupFacts
<1>1. f \in Entry  BY <1>0, BareIsLane
<1>2. ColdInv(f) /\ OverInv(f)  BY <1>0, BareIsLane
<1>3. PlanInv(setup, t, f)  BY <1>0, BareIsLane
<1>4. RunInv(setup, t, f)  BY <1>0, BareIsLane
<1>5. LeaseInv(setup, t, f)  BY <1>0, BareIsLane
<1>6. Drift(setup, t, e, f)  BY <1>0, BareIsLane
<1> QED  BY <1>1, <1>2, <1>3, <1>4, <1>5, <1>6

LEMMA RefusedIsEntry ==
  ASSUME NEW b \in BOOLEAN
  PROVE  [Absent EXCEPT !.status = "refused", !.settled = b] \in Entry
<1>1. 0 \in 0 .. MaxLoops  BY DEF MaxLoops
<1>2. Absent \in Entry  BY <1>1, BareIsLane DEF Absent, Entry, Runs
<1> QED  BY <1>2 DEF Entry

(* planForSpawn threw.                                                    *)
LEMMA PlanFailsKeeps ==
  ASSUME setup \in Setups, NEW t \in Tasks, NEW e, EntryInv(setup, t, e),
         e.fetching,
         NEW f, f = [Absent EXCEPT !.status = "refused", !.settled = e.settled]
  PROVE  EntryInv(setup, t, f) /\ Drift(setup, t, e, f)
<1> USE DEF EntryInv, ColdInv, Cold, PlanInv, RunInv, LeaseInv, OverInv, Terminal, Entry, Runs, Drift
<1>0. e.settled \in BOOLEAN  OBVIOUS
<1>1. f \in Entry  BY <1>0, RefusedIsEntry
<1>2. ColdInv(f) /\ OverInv(f)  BY BareIsLane DEF Absent
<1>3. PlanInv(setup, t, f)  BY BareIsLane DEF Absent
<1>4. RunInv(setup, t, f)  BY BareIsLane DEF Absent
<1>5. LeaseInv(setup, t, f)  BY BareIsLane DEF Absent
<1>6. Drift(setup, t, e, f)  BY BareIsLane DEF Absent
<1> QED  BY <1>1, <1>2, <1>3, <1>4, <1>5, <1>6

(* #tryStart found the ledger full, or its task cancelled.                 *)
LEMMA StartRefusedKeeps ==
  ASSUME setup \in Setups, NEW t \in Tasks, NEW e, EntryInv(setup, t, e),
         e.acquiring, NEW b \in BOOLEAN,
         NEW f, f = [e EXCEPT !.acquiring = FALSE, !.blocked = b]
  PROVE  EntryInv(setup, t, f) /\ Drift(setup, t, e, f)
<1> USE DEF EntryInv, ColdInv, Cold, PlanInv, RunInv, LeaseInv, OverInv, Terminal, Entry, Runs, Drift
<1>1. f \in Entry  OBVIOUS
<1>2. ColdInv(f) /\ OverInv(f)  OBVIOUS
<1>3. PlanInv(setup, t, f)  OBVIOUS
<1>4. RunInv(setup, t, f)  OBVIOUS
<1>5. LeaseInv(setup, t, f)  OBVIOUS
<1>6. Drift(setup, t, e, f)  OBVIOUS
<1> QED  BY <1>1, <1>2, <1>3, <1>4, <1>5, <1>6

(* warmPlace after its sort.                                               *)
LEMMA SortedKeeps ==
  ASSUME setup \in Setups, NEW t \in Tasks, NEW e, EntryInv(setup, t, e),
         e.sorting # {},
         NEW f, f = [e EXCEPT !.sorting = {}, !.placing = FALSE]
  PROVE  EntryInv(setup, t, f) /\ Drift(setup, t, e, f)
<1> USE DEF EntryInv, ColdInv, Cold, PlanInv, RunInv, LeaseInv, OverInv, Terminal, Entry, Runs, Drift
<1>1. f \in Entry  OBVIOUS
<1>2. ColdInv(f) /\ OverInv(f)  OBVIOUS
<1>3. PlanInv(setup, t, f)  OBVIOUS
<1>4. RunInv(setup, t, f)  OBVIOUS
<1>5. LeaseInv(setup, t, f)  OBVIOUS
<1>6. Drift(setup, t, e, f)  OBVIOUS
<1> QED  BY <1>1, <1>2, <1>3, <1>4, <1>5, <1>6

(* warmPlace ran out of lanes: the task goes to the bare lane, even when it *)
(* runs by now.                                                            *)
LEMMA NoHomeKeeps ==
  ASSUME setup \in Setups, NEW t \in Tasks, NEW e, EntryInv(setup, t, e),
         Len(setup.plan[t]) > 1, e.status # "none",
         e.status = "running" => setup.seeks > 1, NEW b \in BOOLEAN,
         NEW f, f = [e EXCEPT !.lane = Bare, !.blocked = b]
  PROVE  EntryInv(setup, t, f) /\ Drift(setup, t, e, f)
<1> USE DEF EntryInv, ColdInv, Cold, PlanInv, RunInv, LeaseInv, OverInv, Terminal, Entry, Runs, Drift
<1>1. f \in Entry  BY BareIsLane
<1>2. ColdInv(f) /\ OverInv(f)  BY BareIsLane
<1>3. PlanInv(setup, t, f)  BY BareIsLane
<1>4. RunInv(setup, t, f)  BY BareIsLane
<1>5. LeaseInv(setup, t, f)  BY BareIsLane
<1>6. Drift(setup, t, e, f)  BY BareIsLane
<1> QED  BY <1>1, <1>2, <1>3, <1>4, <1>5, <1>6

(* #tryStart got an answer and starts its task.                            *)
LEMMA StartedKeeps ==
  ASSUME setup \in Setups, NEW t \in Tasks, NEW e, EntryInv(setup, t, e),
         e.acquiring, e.status = "queued",
         NEW x \in {Head(setup.plan[t]), None},
         x # None => setup.ledger,
         setup.ledger /\ ~setup.fsErrors => x # None,
         NEW f, f = [e EXCEPT !.acquiring = FALSE, !.status = "running", !.run = "build", !.lease = x]
  PROVE  EntryInv(setup, t, f) /\ Drift(setup, t, e, f)
<1> USE DEF EntryInv, ColdInv, Cold, PlanInv, RunInv, LeaseInv, OverInv, Terminal, Entry, Runs, Drift
<1>0. /\ e.lane = Head(setup.plan[t]) /\ Len(setup.plan[t]) <= 1
      /\ e.lane \in ToSet(setup.plan[t]) /\ x \in Lanes \cup {None}
  <2>1. /\ t \in DOMAIN setup.plan /\ Len(setup.plan[t]) <= 1 /\ ~e.fetching
        /\ e.status = "queued" /\ e.planning \in BOOLEAN
    OBVIOUS
  <2>2. /\ Head(setup.plan[t]) \in ToSet(setup.plan[t]) /\ Head(setup.plan[t]) \in Lanes
        /\ Len(setup.plan[t]) \in Nat
    BY <2>1, SetupFacts
  <2>3. ~e.planning  BY <2>1
  <2>4. e.lane = Head(setup.plan[t])  BY <2>1, <2>2, <2>3
  <2> QED  BY <2>1, <2>2, <2>4
<1>1. f \in Entry  BY <1>0, BareIsLane
<1>2. ColdInv(f) /\ OverInv(f)  BY <1>0, BareIsLane
<1>3. PlanInv(setup, t, f)  BY <1>0, BareIsLane
<1>4. RunInv(setup, t, f)  BY <1>0, BareIsLane
<1>5. LeaseInv(setup, t, f)  BY <1>0, BareIsLane
<1>6. Drift(setup, t, e, f)  BY <1>0, BareIsLane
<1> QED  BY <1>1, <1>2, <1>3, <1>4, <1>5, <1>6

(* warmPlace got a slot and places its task.                               *)
MayPlace(s, t, e, l, x) ==
  /\ e.status = "queued" /\ ~e.fetching
  /\ t \in DOMAIN s.plan /\ Len(s.plan[t]) > 1 /\ l \in ToSet(s.plan[t])
  /\ x \in {l, None} /\ (x # None => s.ledger)
  /\ s.ledger /\ ~s.fsErrors => x # None

LEMMA PlacedKeeps ==
  ASSUME setup \in Setups, NEW t \in Tasks, NEW e, EntryInv(setup, t, e),
         NEW l, NEW x, MayPlace(setup, t, e, l, x),
         NEW f, f = [e EXCEPT !.lane = l, !.plan = <<>>, !.status = "running", !.run = "build", !.lease = x]
  PROVE  EntryInv(setup, t, f)
<1> USE DEF EntryInv, ColdInv, Cold, PlanInv, RunInv, LeaseInv, OverInv, Terminal, Entry, Runs, Drift
<1>6. /\ e.status = "queued" /\ ~e.fetching
      /\ t \in DOMAIN setup.plan /\ Len(setup.plan[t]) > 1 /\ l \in ToSet(setup.plan[t])
      /\ x \in {l, None} /\ (x # None => setup.ledger)
      /\ setup.ledger /\ ~setup.fsErrors => x # None
  BY DEF MayPlace
<1>0. l \in Lanes /\ x \in Lanes \cup {None} /\ Len(setup.plan[t]) \in Nat  BY <1>6, SetupFacts
<1>1. f \in Entry  BY <1>0, BareIsLane
<1>2. ColdInv(f) /\ OverInv(f)  BY <1>0, <1>6, BareIsLane
<1>3. PlanInv(setup, t, f)  BY <1>0, <1>6, BareIsLane
<1>4. RunInv(setup, t, f)  BY <1>0, <1>6, BareIsLane
<1>5. LeaseInv(setup, t, f)  BY <1>0, <1>6, BareIsLane
<1> QED  BY <1>1, <1>2, <1>3, <1>4, <1>5

(* The entry f that such a placement leaves.                               *)
Begun(s, t, e, x, f) ==
  /\ EntryInv(s, t, f) /\ f.status = "running" /\ f.lease = x /\ ~f.pending
  /\ f.blocked = e.blocked /\ f.fetching = e.fetching

LEMMA BegunKeeps ==
  ASSUME setup \in Setups, NEW t \in Tasks, NEW e, EntryInv(setup, t, e),
         NEW l, NEW x, MayPlace(setup, t, e, l, x)
  PROVE  Begun(setup, t, e, x, Begin([e EXCEPT !.lane = l, !.plan = <<>>], x))
<1> DEFINE p == Begin([e EXCEPT !.lane = l, !.plan = <<>>], x)
<1>1. e \in Entry /\ e.status = "queued" /\ ~e.pending
  BY DEF EntryInv, ColdInv, Cold, MayPlace
<1>2. p = [e EXCEPT !.lane = l, !.plan = <<>>, !.status = "running", !.run = "build", !.lease = x]
  BY <1>1 DEF Begin, Entry
<1>3. EntryInv(setup, t, p)  BY <1>2, PlacedKeeps
<1> HIDE DEF p
<1>4. /\ p.status = "running" /\ p.lease = x /\ p.pending = e.pending
      /\ p.blocked = e.blocked /\ p.fetching = e.fetching
  BY <1>1, <1>2 DEF Entry
<1>5. Begun(setup, t, e, x, p)  BY <1>1, <1>3, <1>4 DEF Begun
<1> QED  BY <1>5 DEF p

LEMMA OverIsEntry ==
  ASSUME NEW e \in Entry, NEW end \in Terminal, NEW r \in Runs,
         NEW b \in BOOLEAN, NEW c \in BOOLEAN
  PROVE  [e EXCEPT
           !.status = end, !.agent = FALSE, !.lease = None, !.settled = TRUE,
           !.pending = FALSE, !.granted = FALSE, !.run = r, !.ran = b, !.release = c]
             \in Entry
<1> DEFINE g == [e EXCEPT
           !.status = end, !.agent = FALSE, !.lease = None, !.settled = TRUE,
           !.pending = FALSE, !.granted = FALSE, !.run = r]
<1>1. g \in Entry  BY DEF Entry
<1>2. [g EXCEPT !.ran = b, !.release = c] \in Entry
  <2> HIDE DEF g
  <2> QED  BY <1>1 DEF Entry
<1> QED  BY <1>2

(* The terminal transition.                                                *)
LEMMA OverKeeps ==
  ASSUME setup \in Setups, NEW t \in Tasks, NEW e, EntryInv(setup, t, e),
         e.status = "running",
         NEW end \in Terminal, NEW r \in {"none", "slot", "woken"}, NEW b \in BOOLEAN,
         NEW c \in BOOLEAN, r = "slot" => e.run = "slot",
         NEW f, f = [e EXCEPT
           !.status = end, !.agent = FALSE, !.lease = None, !.settled = TRUE,
           !.pending = FALSE, !.granted = FALSE, !.run = r, !.ran = b, !.release = c]
  PROVE  EntryInv(setup, t, f) /\ Drift(setup, t, e, f)
<1>0. e \in Entry /\ r \in Runs  BY DEF EntryInv, Runs
<1>1. f \in Entry  BY <1>0, OverIsEntry
<1> USE DEF EntryInv, ColdInv, Cold, PlanInv, RunInv, LeaseInv, OverInv, Terminal, Entry, Runs, Drift
<1>2. ColdInv(f) /\ OverInv(f)  BY BareIsLane
<1>3. PlanInv(setup, t, f)  BY BareIsLane
<1>4. RunInv(setup, t, f)  BY BareIsLane
<1>5. LeaseInv(setup, t, f)  BY BareIsLane
<1>6. Drift(setup, t, e, f)  BY BareIsLane
<1> QED  BY <1>1, <1>2, <1>3, <1>4, <1>5, <1>6

(* launch has its agent, and its first turn begins.                        *)
LEMMA BuiltKeeps ==
  ASSUME setup \in Setups, NEW t \in Tasks, NEW e, EntryInv(setup, t, e),
         e.status = "running", e.run = "build",
         NEW f, f = [e EXCEPT !.run = "drive", !.agent = TRUE]
  PROVE  EntryInv(setup, t, f) /\ Drift(setup, t, e, f)
<1> USE DEF EntryInv, ColdInv, Cold, PlanInv, RunInv, LeaseInv, OverInv, Terminal, Entry, Runs, Drift
<1>1. f \in Entry  OBVIOUS
<1>2. ColdInv(f) /\ OverInv(f)  OBVIOUS
<1>3. PlanInv(setup, t, f)  OBVIOUS
<1>4. RunInv(setup, t, f)  OBVIOUS
<1>5. LeaseInv(setup, t, f)  OBVIOUS
<1>6. Drift(setup, t, e, f)  OBVIOUS
<1> QED  BY <1>1, <1>2, <1>3, <1>4, <1>5, <1>6

(* A parked task goes idle after its turn.                                 *)
LEMMA ParkKeeps ==
  ASSUME setup \in Setups, NEW t \in Tasks, NEW e, EntryInv(setup, t, e),
         e.status = "running", e.run = "drive", t \in setup.parked,
         ~e.release, ~e.aborted,
         NEW f, f = [e EXCEPT !.run = "none", !.ran = TRUE, !.lease = None]
  PROVE  EntryInv(setup, t, f) /\ Drift(setup, t, e, f)
<1> USE DEF EntryInv, ColdInv, Cold, PlanInv, RunInv, LeaseInv, OverInv, Terminal, Entry, Runs, Drift
<1>1. f \in Entry  BY BareIsLane
<1>2. ColdInv(f) /\ OverInv(f)  BY BareIsLane
<1>3. PlanInv(setup, t, f)  BY BareIsLane
<1>4. RunInv(setup, t, f)  BY BareIsLane
<1>5. LeaseInv(setup, t, f)  BY BareIsLane
<1>6. Drift(setup, t, e, f)  BY BareIsLane
<1> QED  BY <1>1, <1>2, <1>3, <1>4, <1>5, <1>6

(* taskTurn asks for a slot.                                               *)
LEMMA TakeTurnKeeps ==
  ASSUME setup \in Setups, NEW t \in Tasks, NEW e, EntryInv(setup, t, e),
         e.status = "running", e.run = "none", setup.ledger,
         NEW f, f = [e EXCEPT !.granted = TRUE, !.run = "slot"]
  PROVE  EntryInv(setup, t, f) /\ Drift(setup, t, e, f)
<1> USE DEF EntryInv, ColdInv, Cold, PlanInv, RunInv, LeaseInv, OverInv, Terminal, Entry, Runs, Drift
<1>1. f \in Entry  OBVIOUS
<1>2. ColdInv(f) /\ OverInv(f)  OBVIOUS
<1>3. PlanInv(setup, t, f)  OBVIOUS
<1>4. RunInv(setup, t, f)  OBVIOUS
<1>5. LeaseInv(setup, t, f)  OBVIOUS
<1>6. Drift(setup, t, e, f)  OBVIOUS
<1> QED  BY <1>1, <1>2, <1>3, <1>4, <1>5, <1>6

(* taskTurn queues.                                                        *)
LEMMA QueueTurnKeeps ==
  ASSUME setup \in Setups, NEW t \in Tasks, NEW e, EntryInv(setup, t, e),
         e.status = "running", e.run \in {"none", "slot"},
         NEW f, f = [e EXCEPT !.granted = FALSE, !.pending = TRUE, !.run = "wait"]
  PROVE  EntryInv(setup, t, f) /\ Drift(setup, t, e, f)
<1> USE DEF EntryInv, ColdInv, Cold, PlanInv, RunInv, LeaseInv, OverInv, Terminal, Entry, Runs, Drift
<1>1. f \in Entry  OBVIOUS
<1>2. ColdInv(f) /\ OverInv(f)  OBVIOUS
<1>3. PlanInv(setup, t, f)  OBVIOUS
<1>4. RunInv(setup, t, f)  OBVIOUS
<1>5. LeaseInv(setup, t, f)  OBVIOUS
<1>6. Drift(setup, t, e, f)  OBVIOUS
<1> QED  BY <1>1, <1>2, <1>3, <1>4, <1>5, <1>6

(* taskTurn finds its task dead after an await.                            *)
LEMMA DeadTurnKeeps ==
  ASSUME setup \in Setups, NEW t \in Tasks, NEW e, EntryInv(setup, t, e),
         e.status # "running", e.run \in {"slot", "woken"},
         NEW f, f = [e EXCEPT !.granted = FALSE, !.run = "none"]
  PROVE  EntryInv(setup, t, f) /\ Drift(setup, t, e, f)
<1> USE DEF EntryInv, ColdInv, Cold, PlanInv, RunInv, LeaseInv, OverInv, Terminal, Entry, Runs, Drift
<1>1. f \in Entry  OBVIOUS
<1>2. ColdInv(f) /\ OverInv(f)  OBVIOUS
<1>3. PlanInv(setup, t, f)  OBVIOUS
<1>4. RunInv(setup, t, f)  OBVIOUS
<1>5. LeaseInv(setup, t, f)  OBVIOUS
<1>6. Drift(setup, t, e, f)  OBVIOUS
<1> QED  BY <1>1, <1>2, <1>3, <1>4, <1>5, <1>6

(* taskTurn drives a turn, with the slot it asked for.                     *)
LEMMA DriveKeeps ==
  ASSUME setup \in Setups, NEW t \in Tasks, NEW e, EntryInv(setup, t, e),
         e.status = "running", e.run = "slot",
         NEW x \in {e.lane, None}, x # None => setup.ledger,
         setup.ledger /\ ~setup.fsErrors => x # None,
         NEW f, f = [e EXCEPT !.granted = FALSE, !.run = "drive", !.lease = x]
  PROVE  EntryInv(setup, t, f) /\ Drift(setup, t, e, f)
<1> USE DEF EntryInv, ColdInv, Cold, PlanInv, RunInv, LeaseInv, OverInv, Terminal, Entry, Runs, Drift
<1>0. x \in Lanes \cup {None}  OBVIOUS
<1>1. f \in Entry  BY <1>0
<1>2. ColdInv(f) /\ OverInv(f)  BY <1>0
<1>3. PlanInv(setup, t, f)  BY <1>0
<1>4. RunInv(setup, t, f)  BY <1>0
<1>5. LeaseInv(setup, t, f)  BY <1>0
<1>6. Drift(setup, t, e, f)  BY <1>0
<1> QED  BY <1>1, <1>2, <1>3, <1>4, <1>5, <1>6

(* taskTurn drives a turn after it was woken.                              *)
LEMMA WokenDrivesKeeps ==
  ASSUME setup \in Setups, NEW t \in Tasks, NEW e, EntryInv(setup, t, e),
         e.status = "running", e.run = "woken",
         NEW f, f = [e EXCEPT !.granted = FALSE, !.run = "drive"]
  PROVE  EntryInv(setup, t, f) /\ Drift(setup, t, e, f)
<1> USE DEF EntryInv, ColdInv, Cold, PlanInv, RunInv, LeaseInv, OverInv, Terminal, Entry, Runs, Drift
<1>1. f \in Entry  OBVIOUS
<1>2. ColdInv(f) /\ OverInv(f)  OBVIOUS
<1>3. PlanInv(setup, t, f)  OBVIOUS
<1>4. RunInv(setup, t, f)  OBVIOUS
<1>5. LeaseInv(setup, t, f)  OBVIOUS
<1>6. Drift(setup, t, e, f)  OBVIOUS
<1> QED  BY <1>1, <1>2, <1>3, <1>4, <1>5, <1>6

(* #tryGrant found the ledger full and waits again.                        *)
LEMMA RefusedGrantKeeps ==
  ASSUME setup \in Setups, NEW t \in Tasks, NEW e, EntryInv(setup, t, e),
         e.granting, e.granted,
         NEW f, f = [e EXCEPT !.granting = FALSE, !.granted = FALSE, !.pending = TRUE, !.blocked = TRUE]
  PROVE  EntryInv(setup, t, f) /\ Drift(setup, t, e, f)
<1> USE DEF EntryInv, ColdInv, Cold, PlanInv, RunInv, LeaseInv, OverInv, Terminal, Entry, Runs, Drift
<1>1. f \in Entry  OBVIOUS
<1>2. ColdInv(f) /\ OverInv(f)  OBVIOUS
<1>3. PlanInv(setup, t, f)  OBVIOUS
<1>4. RunInv(setup, t, f)  OBVIOUS
<1>5. LeaseInv(setup, t, f)  OBVIOUS
<1>6. Drift(setup, t, e, f)  OBVIOUS
<1> QED  BY <1>1, <1>2, <1>3, <1>4, <1>5, <1>6

(* #tryGrant answers after its task died.                                  *)
LEMMA StaleGrantKeeps ==
  ASSUME setup \in Setups, NEW t \in Tasks, NEW e, EntryInv(setup, t, e),
         e.granting, e.status # "running",
         NEW f, f = [e EXCEPT !.granting = FALSE]
  PROVE  EntryInv(setup, t, f) /\ Drift(setup, t, e, f)
<1> USE DEF EntryInv, ColdInv, Cold, PlanInv, RunInv, LeaseInv, OverInv, Terminal, Entry, Runs, Drift
<1>1. f \in Entry  OBVIOUS
<1>2. ColdInv(f) /\ OverInv(f)  OBVIOUS
<1>3. PlanInv(setup, t, f)  OBVIOUS
<1>4. RunInv(setup, t, f)  OBVIOUS
<1>5. LeaseInv(setup, t, f)  OBVIOUS
<1>6. Drift(setup, t, e, f)  OBVIOUS
<1> QED  BY <1>1, <1>2, <1>3, <1>4, <1>5, <1>6

(* #tryGrant got a slot, or fails open, and wakes its turn.                *)
LEMMA GrantedKeeps ==
  ASSUME setup \in Setups, NEW t \in Tasks, NEW e, EntryInv(setup, t, e),
         e.granting, e.status = "running",
         NEW x \in {e.lane, None}, x # None => setup.ledger,
         setup.ledger /\ ~setup.fsErrors => x # None,
         NEW f, f = [e EXCEPT !.granting = FALSE, !.lease = x, !.run = "woken"]
  PROVE  EntryInv(setup, t, f) /\ Drift(setup, t, e, f)
<1> USE DEF EntryInv, ColdInv, Cold, PlanInv, RunInv, LeaseInv, OverInv, Terminal, Entry, Runs, Drift
<1>0. x \in Lanes \cup {None}  OBVIOUS
<1>1. f \in Entry  BY <1>0
<1>2. ColdInv(f) /\ OverInv(f)  BY <1>0
<1>3. PlanInv(setup, t, f)  BY <1>0
<1>4. RunInv(setup, t, f)  BY <1>0
<1>5. LeaseInv(setup, t, f)  BY <1>0
<1>6. Drift(setup, t, e, f)  BY <1>0
<1> QED  BY <1>1, <1>2, <1>3, <1>4, <1>5, <1>6

(* completeTask of a task in a turn.                                       *)
LEMMA ReleaseAskedKeeps ==
  ASSUME setup \in Setups, NEW t \in Tasks, NEW e, EntryInv(setup, t, e),
         e.status = "running", e.run = "drive" \/ ~e.agent,
         NEW f, f = [e EXCEPT !.release = TRUE]
  PROVE  EntryInv(setup, t, f) /\ Drift(setup, t, e, f)
<1> USE DEF EntryInv, ColdInv, Cold, PlanInv, RunInv, LeaseInv, OverInv, Terminal, Entry, Runs, Drift
<1>1. f \in Entry  OBVIOUS
<1>2. ColdInv(f) /\ OverInv(f)  OBVIOUS
<1>3. PlanInv(setup, t, f)  OBVIOUS
<1>4. RunInv(setup, t, f)  OBVIOUS
<1>5. LeaseInv(setup, t, f)  OBVIOUS
<1>6. Drift(setup, t, e, f)  OBVIOUS
<1> QED  BY <1>1, <1>2, <1>3, <1>4, <1>5, <1>6

(* #interruptEntry of a queued task.                                       *)
LEMMA CancelQueuedKeeps ==
  ASSUME setup \in Setups, NEW t \in Tasks, NEW e, EntryInv(setup, t, e),
         e.status = "queued",
         NEW f, f = [e EXCEPT
           !.status = "cancelled", !.settled = TRUE, !.planning = FALSE,
           !.placing = FALSE, !.plan = <<>>, !.lane = Bare]
  PROVE  EntryInv(setup, t, f) /\ Drift(setup, t, e, f)
<1> USE DEF EntryInv, ColdInv, Cold, PlanInv, RunInv, LeaseInv, OverInv, Terminal, Entry, Runs, Drift
<1>1. f \in Entry  BY BareIsLane
<1>2. ColdInv(f) /\ OverInv(f)  BY BareIsLane
<1>3. PlanInv(setup, t, f)  BY BareIsLane
<1>4. RunInv(setup, t, f)  BY BareIsLane
<1>5. LeaseInv(setup, t, f)  BY BareIsLane
<1>6. Drift(setup, t, e, f)  BY BareIsLane
<1> QED  BY <1>1, <1>2, <1>3, <1>4, <1>5, <1>6

(* #interruptEntry of a task in a turn.                                    *)
LEMMA AbortKeeps ==
  ASSUME setup \in Setups, NEW t \in Tasks, NEW e, EntryInv(setup, t, e),
         e.status = "running", t \notin setup.parked \/ e.run = "drive" \/ ~e.agent,
         NEW f, f = [e EXCEPT !.aborted = TRUE]
  PROVE  EntryInv(setup, t, f) /\ Drift(setup, t, e, f)
<1> USE DEF EntryInv, ColdInv, Cold, PlanInv, RunInv, LeaseInv, OverInv, Terminal, Entry, Runs, Drift
<1>1. f \in Entry  OBVIOUS
<1>2. ColdInv(f) /\ OverInv(f)  OBVIOUS
<1>3. PlanInv(setup, t, f)  OBVIOUS
<1>4. RunInv(setup, t, f)  OBVIOUS
<1>5. LeaseInv(setup, t, f)  OBVIOUS
<1>6. Drift(setup, t, e, f)  OBVIOUS
<1> QED  BY <1>1, <1>2, <1>3, <1>4, <1>5, <1>6

(* An agent asks and gives its slot back.                                  *)
LEMMA AskKeeps ==
  ASSUME setup \in Setups, NEW t \in Tasks, NEW e, EntryInv(setup, t, e),
         e.status = "running", t \in setup.askers,
         NEW f, f = [e EXCEPT !.asking = TRUE, !.lease = None]
  PROVE  EntryInv(setup, t, f) /\ Drift(setup, t, e, f)
<1> USE DEF EntryInv, ColdInv, Cold, PlanInv, RunInv, LeaseInv, OverInv, Terminal, Entry, Runs, Drift
<1>1. f \in Entry  BY BareIsLane
<1>2. ColdInv(f) /\ OverInv(f)  BY BareIsLane
<1>3. PlanInv(setup, t, f)  BY BareIsLane
<1>4. RunInv(setup, t, f)  BY BareIsLane
<1>5. LeaseInv(setup, t, f)  BY BareIsLane
<1>6. Drift(setup, t, e, f)  BY BareIsLane
<1> QED  BY <1>1, <1>2, <1>3, <1>4, <1>5, <1>6

(* The answer came, and a settle loop may start.                           *)
LEMMA AnsweredKeeps ==
  ASSUME setup \in Setups, NEW t \in Tasks, NEW e, EntryInv(setup, t, e),
         e.asking, NEW k \in {e.settling, e.settling + 1}, k \in 0 .. MaxLoops,
         k # e.settling => setup.ledger /\ e.status = "running",
         NEW f, f = [e EXCEPT !.asking = FALSE, !.settling = k]
  PROVE  EntryInv(setup, t, f) /\ Drift(setup, t, e, f)
<1> USE DEF EntryInv, ColdInv, Cold, PlanInv, RunInv, LeaseInv, OverInv, Terminal, Entry, Runs, Drift
<1>1. f \in Entry  OBVIOUS
<1>2. ColdInv(f) /\ OverInv(f)  OBVIOUS
<1>3. PlanInv(setup, t, f)  OBVIOUS
<1>4. RunInv(setup, t, f)  OBVIOUS
<1>5. LeaseInv(setup, t, f)  OBVIOUS
<1>6. Drift(setup, t, e, f)  OBVIOUS
<1> QED  BY <1>1, <1>2, <1>3, <1>4, <1>5, <1>6

(* A settle loop ends, with a slot or without.                             *)
LEMMA SettleEndsKeeps ==
  ASSUME setup \in Setups, NEW t \in Tasks, NEW e, EntryInv(setup, t, e),
         e.settling > 0,
         NEW x \in {e.lane, e.lease}, x # e.lease => e.status = "running",
         NEW f, f = [e EXCEPT !.settling = @ - 1, !.lease = x]
  PROVE  EntryInv(setup, t, f) /\ Drift(setup, t, e, f)
<1> USE DEF EntryInv, ColdInv, Cold, PlanInv, RunInv, LeaseInv, OverInv, Terminal, Entry, Runs, Drift
<1>0. /\ x \in Lanes \cup {None} /\ e.settling - 1 \in 0 .. MaxLoops /\ t \in setup.askers
      /\ (e.settling > 0) \in BOOLEAN
  BY DEF MaxLoops
<1>1. f \in Entry  BY <1>0, BareIsLane DEF MaxLoops
<1>2. ColdInv(f) /\ OverInv(f)  BY <1>0, BareIsLane DEF MaxLoops
<1>3. PlanInv(setup, t, f)  BY <1>0, BareIsLane DEF MaxLoops
<1>4. RunInv(setup, t, f)  BY <1>0, BareIsLane DEF MaxLoops
<1>5. LeaseInv(setup, t, f)  BY <1>0, BareIsLane DEF MaxLoops
<1>6. Drift(setup, t, e, f)  BY <1>0, BareIsLane DEF MaxLoops
<1> QED  BY <1>1, <1>2, <1>3, <1>4, <1>5, <1>6

-----------------------------------------------------------------------------
(* Counting the slots of a lane.                                           *)

HoldersIn(E, l) == {t \in Tasks : E[t].lease = l}
Held(x, l) == IF x = l THEN 1 ELSE 0

Gives(k, l) == k.phase \in {"return", "drop"} /\ Head(k.left) = l
Given(k, l) == IF Gives(k, l) THEN 1 ELSE 0
ReturningIn(K, l) == {c \in Tasks \X (1 .. MaxSeeks) : Gives(K[c[1]][c[2]], l)}

(* m exceeds n by what comes less what goes.                               *)
Differ(m, n, comes, goes) == m = n + comes - goes

LEMMA TasksAreFinite ==
  /\ IsFiniteSet(Tasks) /\ IsFiniteSet(Tasks \X (1 .. MaxSeeks))
  /\ Tasks \subseteq Nat /\ MaxSeeks \in Nat /\ N \in Nat
<1>1. N \in Nat /\ MaxSeeks \in Nat  BY SchedulerAssumption
<1>2. IsFiniteSet(Tasks) /\ IsFiniteSet(1 .. MaxSeeks)  BY <1>1, FS_Interval DEF Tasks
<1>3. IsFiniteSet(Tasks \X (1 .. MaxSeeks))  BY <1>2, FS_Product
<1>4. Tasks \subseteq Nat  BY <1>1 DEF Tasks
<1> QED  BY <1>1, <1>2, <1>3, <1>4

(* Two finite sets that differ in at most one member.                      *)
LEMMA DifferInOne ==
  ASSUME NEW S, NEW T, IsFiniteSet(S), IsFiniteSet(T), NEW x, S \ {x} = T \ {x}
  PROVE  /\ Cardinality(S) \in Nat /\ Cardinality(T) \in Nat
         /\ Cardinality(T) = Cardinality(S) + (IF x \in T THEN 1 ELSE 0)
                               - (IF x \in S THEN 1 ELSE 0)
<1>1. Cardinality(S) \in Nat /\ Cardinality(T) \in Nat  BY FS_CardinalityType
<1>2. Cardinality(S \ {x}) = IF x \in S THEN Cardinality(S) - 1 ELSE Cardinality(S)
  BY FS_RemoveElement
<1>3. Cardinality(T \ {x}) = IF x \in T THEN Cardinality(T) - 1 ELSE Cardinality(T)
  BY FS_RemoveElement
<1> QED  BY <1>1, <1>2, <1>3

LEMMA HoldersMove ==
  ASSUME NEW E, NEW F, NEW t \in Tasks, NEW l,
         \A u \in Tasks \ {t} : F[u].lease = E[u].lease
  PROVE  /\ Cardinality(HoldersIn(E, l)) \in Nat /\ Cardinality(HoldersIn(F, l)) \in Nat
         /\ Differ(Cardinality(HoldersIn(F, l)), Cardinality(HoldersIn(E, l)),
                   Held(F[t].lease, l), Held(E[t].lease, l))
<1> DEFINE S == HoldersIn(E, l)
           T == HoldersIn(F, l)
<1>1. IsFiniteSet(S) /\ IsFiniteSet(T)  BY TasksAreFinite, FS_Subset DEF HoldersIn
<1>2. S \ {t} = T \ {t}  BY DEF HoldersIn
<1>3. (t \in S <=> E[t].lease = l) /\ (t \in T <=> F[t].lease = l)  BY DEF HoldersIn
<1> HIDE DEF S, T
<1>4. /\ Cardinality(S) \in Nat /\ Cardinality(T) \in Nat
      /\ Cardinality(T) = Cardinality(S) + (IF t \in T THEN 1 ELSE 0)
                            - (IF t \in S THEN 1 ELSE 0)
  BY <1>1, <1>2, DifferInOne
<1> QED  BY <1>3, <1>4 DEF S, T, Held, Differ

LEMMA ReturningMove ==
  ASSUME NEW K \in [Tasks -> [1 .. MaxSeeks -> Seek]], NEW t \in Tasks, NEW n \in 1 .. MaxSeeks,
         NEW k, NEW L, L = [K EXCEPT ![t][n] = k], NEW l
  PROVE  /\ Cardinality(ReturningIn(K, l)) \in Nat /\ Cardinality(ReturningIn(L, l)) \in Nat
         /\ Differ(Cardinality(ReturningIn(L, l)), Cardinality(ReturningIn(K, l)),
                   Given(k, l), Given(K[t][n], l))
<1> DEFINE S == ReturningIn(K, l)
           T == ReturningIn(L, l)
           x == <<t, n>>
           All == Tasks \X (1 .. MaxSeeks)
<1>1. IsFiniteSet(S) /\ IsFiniteSet(T)
  BY TasksAreFinite, FS_Subset DEF ReturningIn
<1>2. x \in All /\ x[1] = t /\ x[2] = n  OBVIOUS
<1>3. \A c \in All \ {x} : L[c[1]][c[2]] = K[c[1]][c[2]]
  <2> SUFFICES ASSUME NEW u \in Tasks, NEW m \in 1 .. MaxSeeks, <<u, m>> # x
               PROVE  L[u][m] = K[u][m]
    OBVIOUS
  <2>1. u # t \/ m # n  OBVIOUS
  <2> QED  BY <2>1
<1>4. L[t][n] = k  OBVIOUS
<1>5. (x \in S <=> Gives(K[t][n], l)) /\ (x \in T <=> Gives(k, l))
  BY <1>2, <1>4 DEF ReturningIn
<1>6. S \ {x} = T \ {x}  BY <1>3 DEF ReturningIn
<1> HIDE DEF S, T, x
<1>7. /\ Cardinality(S) \in Nat /\ Cardinality(T) \in Nat
      /\ Cardinality(T) = Cardinality(S) + (IF x \in T THEN 1 ELSE 0)
                            - (IF x \in S THEN 1 ELSE 0)
  BY <1>1, <1>6, DifferInOne
<1> QED  BY <1>5, <1>7 DEF S, T, Given, Differ

LEMMA AccountedIsSum ==
  ASSUME NEW l
  PROVE  Accounted(l) =
           freeing[l] + handing[l] + Cardinality(HoldersIn(task, l))
             + Cardinality(ReturningIn(seek, l))
BY DEF Accounted, Holders, HoldersIn, Returning, ReturningIn, Gives

-----------------------------------------------------------------------------
(* Steps that update one entry.                                            *)

(* F is what a step makes of the task table: lease x at task t, the leases *)
(* of the other tasks as they were, no new marks on them, and all sound.   *)
Moves(F, t, x) ==
  /\ F[t].lease = x
  /\ \A u \in Tasks \ {t} :
       F[u].lease = task[u].lease /\ (F[u].blocked => task[u].blocked)

Update(F, t, x) == Reached(F) /\ Moves(F, t, x)

LEMMA SetUpdates ==
  ASSUME setup \in Setups, Sound(task), NEW t \in Tasks, NEW e,
         EntryInv(setup, t, e), Drift(setup, t, task[t], e),
         NEW F, F = Set(t, e) \/ \E dead : F = AdmitWith(Set(t, e), dead)
  PROVE  Update(F, t, e.lease) /\ F[t].blocked = e.blocked
<1> DEFINE G == Set(t, e)
<1>1. task \in [Tasks -> Entry]  BY DEF Sound
<1>2. G = [task EXCEPT ![t] = e]  BY DEF Set
<1>7. Reached(task)  BY ReachedAtOnce
<1>8. Reached([task EXCEPT ![t] = e])  BY <1>7, SetReaches
<1>3. Reached(G)  BY <1>2, <1>8
<1>4. G[t] = e /\ \A u \in Tasks \ {t} : G[u] = task[u]  BY <1>1, <1>2
<1> HIDE DEF G
<1>5. CASE F = G  BY <1>3, <1>4, <1>5 DEF Update, Moves
<1>6. CASE \E dead : F = AdmitWith(G, dead)
  <2>1. PICK dead : F = AdmitWith(G, dead)  BY <1>6
  <2>2. Reached(F) /\ Passed(G, F)  BY <1>3, <2>1, PassReaches
  <2>3. \A u \in Tasks : F[u].lease = G[u].lease /\ F[u].blocked = G[u].blocked
    BY <2>2 DEF Passed, Follows
  <2> QED  BY <1>4, <2>2, <2>3 DEF Update, Moves
<1> QED  BY <1>5, <1>6 DEF G

(* Placements in flight do not mind what happens to entries.               *)
LEMMA SeekStays ==
  ASSUME NEW t \in Tasks, NEW n \in 1 .. MaxSeeks, NEW k, NEW e, NEW f,
         SeekInv(setup, t, n, k, e), Drift(setup, t, e, f)
  PROVE  SeekInv(setup, t, n, k, f)
<1>1. CASE k = Idle  BY <1>1 DEF SeekInv
<1>2. CASE k # Idle
  <2>1. f.status # "none" /\ ~f.fetching  BY <1>2 DEF SeekInv, Drift
  <2>2. ~(Len(setup.plan[t]) <= 1)
    <3>1. Len(setup.plan[t]) > 1  BY <1>2 DEF SeekInv
    <3> QED  BY <3>1
  <2>3. setup.seeks = 1 => f.status # "running"
    BY <1>2, <2>2 DEF SeekInv, Drift
  <2> QED  BY <1>2, <2>1, <2>3 DEF SeekInv
<1> QED  BY <1>1, <1>2

LEMMA PlacementsStay ==
  ASSUME Placements, Reached(task'), UNCHANGED <<seek, setup>>
  PROVE  Placements'
BY SeekStays DEF Placements, Reached

LEMMA PlacementMoves ==
  ASSUME Placements, Reached(task'), setup' = setup,
         NEW t \in Tasks, NEW n \in 1 .. MaxSeeks, NEW k,
         SeekInv(setup, t, n, k, task'[t]),
         seek' = [seek EXCEPT ![t][n] = k]
  PROVE  Placements'
<1>1. k \in Seek  BY DEF SeekInv
<1>2. seek \in [Tasks -> [1 .. MaxSeeks -> Seek]]  BY DEF Placements
<1>3. seek' \in [Tasks -> [1 .. MaxSeeks -> Seek]]  BY <1>1, <1>2
<1>4. ASSUME NEW u \in Tasks, NEW m \in 1 .. MaxSeeks
      PROVE  SeekInv(setup, u, m, seek'[u][m], task'[u])
  <2>1. CASE u = t /\ m = n
    <3>1. seek'[u][m] = k  BY <1>2, <2>1
    <3> QED  BY <2>1, <3>1
  <2>2. CASE u # t \/ m # n
    <3>1. seek'[u][m] = seek[u][m]  BY <1>2, <2>2
    <3>2. SeekInv(setup, u, m, seek[u][m], task[u])  BY DEF Placements
    <3>3. Drift(setup, u, task[u], task'[u])  BY DEF Reached
    <3> QED  BY <3>1, <3>2, <3>3, SeekStays
  <2> QED  BY <2>1, <2>2
<1> QED  BY <1>3, <1>4 DEF Placements

(* A step keeps the invariant when it keeps its parts.                     *)
LEMMA PartsKeep ==
  ASSUME Sound(task'), setup' = setup, setup \in Setups, timer' \in BOOLEAN,
         down' \subseteq setup.watched, Placements', Ledgers', NoSlotLost',
         (\E t \in Tasks : task'[t].blocked) => timer'
  PROVE  IInv'
BY DEF IInv, Flags, Entries, Sound, BlockedIsRetried, Watched

(* The ledgers part and the account, lane by lane.                         *)
LEMMA AccountKeeps ==
  ASSUME \A l \in Lanes :
           /\ slots'[l] \in Nat /\ slots'[l] <= Cap[l]
           /\ Accounted(l)' <= slots'[l]
           /\ Askers' = {} => Accounted(l)' = slots'[l],
         DOMAIN slots' = Lanes, slots' = [l \in Lanes |-> slots'[l]],
         freeing' \in [Lanes -> Nat], handing' \in [Lanes -> Nat]
  PROVE  Ledgers' /\ NoSlotLost'
BY DEF Ledgers, NoSlotLost

LEMMA UpdateMoves ==
  ASSUME NEW t \in Tasks, NEW F, NEW x, Moves(F, t, x), NEW l
  PROVE  /\ Cardinality(HoldersIn(task, l)) \in Nat /\ Cardinality(HoldersIn(F, l)) \in Nat
         /\ Differ(Cardinality(HoldersIn(F, l)), Cardinality(HoldersIn(task, l)),
                   Held(x, l), Held(task[t].lease, l))
<1>1. F[t].lease = x /\ \A u \in Tasks \ {t} : F[u].lease = task[u].lease  BY DEF Moves
<1> QED  BY <1>1, HoldersMove

(* What the unlinks in flight, one lease and one placement have of lane l.  *)
Has(f, h, x, k, l) == f[l] + h[l] + Held(x, l) + Given(k, l)

(* What a step adds to the slots taken it adds to those held or on their   *)
(* way back, by task t that gets lease x and its placement that was j and  *)
(* gets k; when agents ask, a slot may be lost.                            *)
Balance(t, x, j, k) ==
  \A l \in Lanes :
    /\ Has(freeing', handing', x, k, l) + slots[l]
         <= Has(freeing, handing, task[t].lease, j, l) + slots'[l]
    /\ Askers = {} =>
         Has(freeing', handing', x, k, l) + slots[l]
           = Has(freeing, handing, task[t].lease, j, l) + slots'[l]

(* A step that gives task t lease x and its n-th placement the state k     *)
(* keeps the account, when it adds to the slots taken what it adds to      *)
(* those held or on their way back.                                        *)
LEMMA BalanceKeeps ==
  ASSUME IInv, NEW t \in Tasks, NEW x, Moves(task', t, x), setup' = setup,
         NEW n \in 1 .. MaxSeeks, NEW k, seek' = [seek EXCEPT ![t][n] = k],
         Ledgers',
         Balance(t, x, seek[t][n], k)
  PROVE  NoSlotLost'
<1> SUFFICES ASSUME NEW l \in Lanes
             PROVE  /\ Accounted(l)' <= slots'[l]
                    /\ Askers = {} => Accounted(l)' = slots'[l]
  BY DEF NoSlotLost, Askers
<1> DEFINE h == Cardinality(HoldersIn(task, l))
           h2 == Cardinality(HoldersIn(task', l))
           r == Cardinality(ReturningIn(seek, l))
           r2 == Cardinality(ReturningIn(seek', l))
           old == Has(freeing, handing, task[t].lease, seek[t][n], l)
           new == Has(freeing', handing', x, k, l)
<1>1. /\ h \in Nat /\ h2 \in Nat
      /\ Differ(h2, h, Held(x, l), Held(task[t].lease, l))
  BY UpdateMoves
<1>2. seek \in [Tasks -> [1 .. MaxSeeks -> Seek]]  BY DEF IInv, Placements
<1>3. /\ r \in Nat /\ r2 \in Nat
      /\ Differ(r2, r, Given(k, l), Given(seek[t][n], l))
  BY <1>2, ReturningMove
<1>5. /\ slots[l] \in Nat /\ freeing[l] \in Nat /\ handing[l] \in Nat
      /\ slots'[l] \in Nat /\ freeing'[l] \in Nat /\ handing'[l] \in Nat
  BY DEF IInv, Ledgers
<1>6. Accounted(l) = freeing[l] + handing[l] + h + r  BY AccountedIsSum
<1>7. Accounted(l)' = freeing'[l] + handing'[l] + h2 + r2
  BY DEF Accounted, Holders, HoldersIn, Returning, ReturningIn, Gives
<1>8. Accounted(l) <= slots[l] /\ (Askers = {} => Accounted(l) = slots[l])
  BY DEF IInv, NoSlotLost
<1>9. /\ new + slots[l] <= old + slots'[l]
      /\ Askers = {} => new + slots[l] = old + slots'[l]
  BY DEF Balance
<1>10. /\ old = freeing[l] + handing[l] + Held(task[t].lease, l) + Given(seek[t][n], l)
       /\ new = freeing'[l] + handing'[l] + Held(x, l) + Given(k, l)
  BY DEF Has
<1>11. \A a, b : Held(a, b) \in Nat /\ Given(a, b) \in Nat  BY DEF Held, Given
<1> DEFINE x1 == Held(x, l)
           x0 == Held(task[t].lease, l)
           k1 == Given(k, l)
           k0 == Given(seek[t][n], l)
<1>12. x1 \in Nat /\ x0 \in Nat /\ k1 \in Nat /\ k0 \in Nat  BY <1>11
<1> HIDE DEF h, h2, r, r2, old, new, x1, x0, k1, k0
<1>13. /\ h2 = h + x1 - x0 /\ r2 = r + k1 - k0
       /\ old = freeing[l] + handing[l] + x0 + k0
       /\ new = freeing'[l] + handing'[l] + x1 + k1
  BY <1>1, <1>3, <1>10 DEF x1, x0, k1, k0, Differ
<1>14. freeing'[l] + handing'[l] + h2 + r2 + slots[l]
          <= freeing[l] + handing[l] + h + r + slots'[l]
  BY <1>1, <1>3, <1>5, <1>9, <1>12, <1>13
<1>15. ASSUME Askers = {}
       PROVE  freeing'[l] + handing'[l] + h2 + r2 + slots[l]
                = freeing[l] + handing[l] + h + r + slots'[l]
  <2>1. new + slots[l] = old + slots'[l]  BY <1>9, <1>15
  <2>2. new \in Nat /\ old \in Nat  BY <1>5, <1>12, <1>13
  <2> QED  BY <2>1, <2>2, <1>1, <1>3, <1>5, <1>12, <1>13
<1> QED  BY <1>1, <1>3, <1>5, <1>6, <1>7, <1>8, <1>14, <1>15

(* What every step keeps: the invariant, and the end of what has ended.     *)
NoneRevived ==
  \A t \in Tasks : task[t].settled =>
    /\ task'[t].settled
    /\ task'[t].status = task[t].status \/ task'[t].status = "refused"
    /\ task'[t].run \in {"none", task[t].run, "woken"}

Keeps == IInv' /\ NoneRevived

LEMMA ReachedRevivesNone ==
  ASSUME Reached(task')
  PROVE  NoneRevived
BY DEF Reached, Drift, NoneRevived

(* A step that updates one entry and one placement, and keeps the account. *)
LEMMA StepKeeps ==
  ASSUME IInv, NEW t \in Tasks, NEW x, Update(task', t, x), setup' = setup,
         NEW n \in 1 .. MaxSeeks, NEW k, seek' = [seek EXCEPT ![t][n] = k],
         SeekInv(setup, t, n, k, task'[t]),
         Ledgers',
         Balance(t, x, seek[t][n], k),
         timer' \in BOOLEAN, timer => timer', down' \subseteq setup.watched,
         task'[t].blocked => task[t].blocked \/ timer'
  PROVE  Keeps
<1>1. NoSlotLost'  BY BalanceKeeps DEF Update
<1>2. Placements'  BY PlacementMoves DEF IInv, Update
<1>3. (\E u \in Tasks : task'[u].blocked) => timer'
  <2>1. \A u \in Tasks : task'[u].blocked => task[u].blocked \/ timer'  BY DEF Update, Moves
  <2>2. (\E u \in Tasks : task[u].blocked) => timer  BY DEF IInv, BlockedIsRetried
  <2> QED  BY <2>1, <2>2
<1>4. Sound(task') /\ setup \in Setups  BY DEF Update, Reached, IInv, Flags
<1>5. NoneRevived  BY ReachedRevivesNone DEF Update
<1>6. IInv'  BY <1>1, <1>2, <1>3, <1>4, PartsKeep
<1> QED  BY <1>5, <1>6 DEF Keeps

(* The same when no placement moves.                                       *)
Even(t, x) ==
  \A l \in Lanes :
    /\ freeing'[l] + handing'[l] + Held(x, l) + slots[l]
         <= freeing[l] + handing[l] + Held(task[t].lease, l) + slots'[l]
    /\ Askers = {} =>
         freeing'[l] + handing'[l] + Held(x, l) + slots[l]
           = freeing[l] + handing[l] + Held(task[t].lease, l) + slots'[l]

LEMMA EntryStepKeeps ==
  ASSUME IInv, NEW t \in Tasks, NEW x, Update(task', t, x), UNCHANGED <<seek, setup>>,
         Ledgers',
         Even(t, x),
         timer' \in BOOLEAN, timer => timer', down' \subseteq setup.watched,
         task'[t].blocked => task[t].blocked \/ timer'
  PROVE  Keeps
<1> DEFINE k == seek[t][1]
<1>1. 1 \in 1 .. MaxSeeks  BY SchedulerAssumption
<1>2. seek \in [Tasks -> [1 .. MaxSeeks -> Seek]]  BY DEF IInv, Placements
<1>3. seek' = [seek EXCEPT ![t][1] = k]  BY <1>1, <1>2
<1>4. SeekInv(setup, t, 1, k, task'[t])
  <2>1. SeekInv(setup, t, 1, k, task[t])  BY <1>1 DEF IInv, Placements
  <2>2. Drift(setup, t, task[t], task'[t])  BY DEF Update, Reached
  <2> QED  BY <1>1, <2>1, <2>2, SeekStays
<1>5. ASSUME NEW l \in Lanes
      PROVE  /\ Has(freeing', handing', x, k, l) + slots[l]
                  <= Has(freeing, handing, task[t].lease, k, l) + slots'[l]
             /\ Askers = {} =>
                  Has(freeing', handing', x, k, l) + slots[l]
                    = Has(freeing, handing, task[t].lease, k, l) + slots'[l]
  <2>1. /\ slots[l] \in Nat /\ freeing[l] \in Nat /\ handing[l] \in Nat
        /\ slots'[l] \in Nat /\ freeing'[l] \in Nat /\ handing'[l] \in Nat
    BY DEF IInv, Ledgers
  <2>2. Held(x, l) \in Nat /\ Held(task[t].lease, l) \in Nat /\ Given(k, l) \in Nat
    BY DEF Held, Given
  <2> HIDE DEF k
  <2>3. /\ freeing'[l] + handing'[l] + Held(x, l) + slots[l]
             <= freeing[l] + handing[l] + Held(task[t].lease, l) + slots'[l]
        /\ Askers = {} =>
             freeing'[l] + handing'[l] + Held(x, l) + slots[l]
               = freeing[l] + handing[l] + Held(task[t].lease, l) + slots'[l]
    BY DEF Even
  <2> QED  BY <2>1, <2>2, <2>3 DEF Has
<1>6. Balance(t, x, seek[t][1], k)  BY <1>5 DEF Balance
<1> QED  BY <1>1, <1>3, <1>4, <1>5, <1>6, StepKeeps

(* Plus, Take and HandBack, lane by lane.                                  *)
LEMMA PlusAdds ==
  ASSUME NEW f \in [Lanes -> Nat], NEW x \in Lanes \cup {None}
  PROVE  /\ Plus(f, x) \in [Lanes -> Nat]
         /\ \A l \in Lanes : Plus(f, x)[l] = f[l] + Held(x, l)
BY BareIsLane DEF Plus, Held

LEMMA TakeAdds ==
  ASSUME Ledgers, NEW l \in Lanes, NEW out \in Outcomes, Answer(l, out), Take(l, out)
  PROVE  /\ LeaseOf(l, out) \in Lanes \cup {None}
         /\ slots' \in [Lanes -> Nat] /\ \A m \in Lanes : slots'[m] <= Cap[m]
         /\ \A m \in Lanes : slots'[m] = slots[m] + Held(LeaseOf(l, out), m)
<1>1. slots \in [Lanes -> Nat] /\ \A m \in Lanes : slots[m] <= Cap[m] /\ Cap[m] \in Nat
  BY SchedulerAssumption DEF Ledgers
<1>2. CASE out = "slot"
  <2>1. slots' = [slots EXCEPT ![l] = @ + 1] /\ slots[l] < Cap[l] /\ LeaseOf(l, out) = l
    BY <1>2 DEF Take, Answer, LeaseOf
  <2> QED  BY <1>1, <2>1 DEF Held
<1>3. CASE out # "slot"
  <2>1. slots' = slots /\ LeaseOf(l, out) = None  BY <1>3 DEF Take, LeaseOf
  <2> QED  BY <1>1, <2>1, BareIsLane DEF Held
<1> QED  BY <1>2, <1>3

(* A step that keeps the lease of t, takes no slot and gives none back.    *)
LEMMA TableStep ==
  ASSUME IInv, NEW t \in Tasks, Update(task', t, task[t].lease),
         UNCHANGED <<seek, slots, freeing, handing, setup>>,
         timer' \in BOOLEAN, timer => timer', down' \subseteq setup.watched,
         task'[t].blocked => task[t].blocked \/ timer'
  PROVE  Keeps
<1>1. Ledgers'  BY DEF IInv, Ledgers
<1>2. Even(t, task[t].lease)
  <2> SUFFICES ASSUME NEW l \in Lanes
               PROVE  freeing'[l] + handing'[l] + Held(task[t].lease, l) + slots[l]
                        = freeing[l] + handing[l] + Held(task[t].lease, l) + slots'[l]
                      /\ freeing[l] + handing[l] + Held(task[t].lease, l) + slots'[l] \in Nat
    BY DEF Even
  <2> QED  BY DEF Held, IInv, Ledgers
<1> QED  BY <1>1, <1>2, EntryStepKeeps

(* A step of t that clears its lease and starts the unlink of that slot.   *)
LEMMA ReleaseStep ==
  ASSUME IInv, NEW t \in Tasks, Update(task', t, None), ReleaseSlot(t),
         UNCHANGED <<seek, slots, handing, setup>>,
         timer' \in BOOLEAN, timer => timer', down' \subseteq setup.watched,
         task'[t].blocked => task[t].blocked \/ timer'
  PROVE  Keeps
<1>1. freeing \in [Lanes -> Nat] /\ freeing' = Plus(freeing, task[t].lease)
  BY DEF IInv, Ledgers, ReleaseSlot
<1>2. task[t].lease \in Lanes \cup {None}  BY DEF IInv, Entries, Entry
<1>3. freeing' \in [Lanes -> Nat] /\ \A l \in Lanes : freeing'[l] = freeing[l] + Held(task[t].lease, l)
  BY <1>1, <1>2, PlusAdds
<1>4. Ledgers'  BY <1>3 DEF IInv, Ledgers
<1>5. Even(t, None)
  <2> SUFFICES ASSUME NEW l \in Lanes
               PROVE  freeing'[l] + handing'[l] + Held(None, l) + slots[l]
                        = freeing[l] + handing[l] + Held(task[t].lease, l) + slots'[l]
                      /\ freeing[l] + handing[l] + Held(task[t].lease, l) + slots'[l] \in Nat
    BY DEF Even
  <2>1. Held(None, l) = 0 /\ Held(task[t].lease, l) \in Nat  BY BareIsLane DEF Held
  <2>2. slots[l] \in Nat /\ freeing[l] \in Nat /\ handing[l] \in Nat  BY DEF IInv, Ledgers
  <2> QED  BY <1>3, <2>1, <2>2
<1> QED  BY <1>4, <1>5, EntryStepKeeps

(* A step that resumes t with an answer of the ledger: the slot, if any,    *)
(* becomes its lease, or the step that does not want it gives it back.     *)
LEMMA LeaseStep ==
  ASSUME IInv, NEW t \in Tasks, NEW l \in Lanes, NEW out \in Outcomes,
         Answer(l, out), Take(l, out),
         Update(task', t, LeaseOf(l, out)),
         task[t].lease = None \/ t \in Askers,
         UNCHANGED <<seek, freeing, handing, setup>>,
         timer' \in BOOLEAN, timer => timer', down' \subseteq setup.watched,
         task'[t].blocked => task[t].blocked \/ timer'
  PROVE  Keeps
<1> DEFINE x == LeaseOf(l, out)
<1>1. /\ x \in Lanes \cup {None}
      /\ slots' \in [Lanes -> Nat] /\ \A m \in Lanes : slots'[m] <= Cap[m]
      /\ \A m \in Lanes : slots'[m] = slots[m] + Held(x, m)
  BY TakeAdds DEF IInv
<1>2. Ledgers'  BY <1>1 DEF IInv, Ledgers
<1> HIDE DEF x
<1>3. Even(t, x)
  <2> SUFFICES ASSUME NEW m \in Lanes
               PROVE  /\ freeing'[m] + handing'[m] + Held(x, m) + slots[m]
                           <= freeing[m] + handing[m] + Held(task[t].lease, m) + slots'[m]
                      /\ Askers = {} =>
                           freeing'[m] + handing'[m] + Held(x, m) + slots[m]
                             = freeing[m] + handing[m] + Held(task[t].lease, m) + slots'[m]
    BY DEF Even
  <2>1. Held(x, m) \in Nat /\ Held(task[t].lease, m) \in Nat  BY DEF Held
  <2>2. slots[m] \in Nat /\ freeing[m] \in Nat /\ handing[m] \in Nat  BY DEF IInv, Ledgers
  <2>3. Askers = {} => Held(task[t].lease, m) = 0  BY BareIsLane DEF Held
  <2>4. slots'[m] = slots[m] + Held(x, m)  BY <1>1
  <2> QED  BY <2>1, <2>2, <2>3, <2>4
<1>4. Update(task', t, x)  BY DEF x
<1> QED  BY <1>2, <1>3, <1>4, EntryStepKeeps

Unwanted(l, out) == HandBack(l, out) \/ (out # "slot" /\ UNCHANGED handing)

LEMMA RefuseStep ==
  ASSUME IInv, NEW t \in Tasks, NEW l \in Lanes, NEW out \in Outcomes,
         Answer(l, out), Take(l, out), Unwanted(l, out),
         Update(task', t, task[t].lease),
         UNCHANGED <<seek, freeing, setup>>,
         timer' \in BOOLEAN, timer => timer', down' \subseteq setup.watched,
         task'[t].blocked => task[t].blocked \/ timer'
  PROVE  Keeps
<1> DEFINE x == LeaseOf(l, out)
<1>1. /\ x \in Lanes \cup {None}
      /\ slots' \in [Lanes -> Nat] /\ \A m \in Lanes : slots'[m] <= Cap[m]
      /\ \A m \in Lanes : slots'[m] = slots[m] + Held(x, m)
  BY TakeAdds DEF IInv
<1>2. /\ handing' \in [Lanes -> Nat]
      /\ \A m \in Lanes : handing'[m] = handing[m] + Held(x, m)
  <2>1. handing \in [Lanes -> Nat]  BY DEF IInv, Ledgers
  <2>2. CASE HandBack(l, out)  BY <1>1, <2>1, <2>2, PlusAdds DEF HandBack
  <2>3. CASE out # "slot" /\ UNCHANGED handing
    <3>1. x = None  BY <2>3 DEF LeaseOf
    <3>2. \A m \in Lanes : Held(x, m) = 0  BY <3>1, BareIsLane DEF Held
    <3> HIDE DEF x
    <3> QED  BY <2>1, <2>3, <3>2
  <2> QED  BY <2>2, <2>3 DEF Unwanted
<1>3. Ledgers'  BY <1>1, <1>2 DEF IInv, Ledgers
<1> HIDE DEF x
<1>4. Even(t, task[t].lease)
  <2> SUFFICES ASSUME NEW m \in Lanes
               PROVE  freeing'[m] + handing'[m] + Held(task[t].lease, m) + slots[m]
                        = freeing[m] + handing[m] + Held(task[t].lease, m) + slots'[m]
                      /\ freeing[m] + handing[m] + Held(task[t].lease, m) + slots'[m] \in Nat
    BY DEF Even
  <2>1. Held(x, m) \in Nat /\ Held(task[t].lease, m) \in Nat  BY DEF Held
  <2>2. slots[m] \in Nat /\ freeing[m] \in Nat /\ handing[m] \in Nat  BY DEF IInv, Ledgers
  <2>3. slots'[m] = slots[m] + Held(x, m) /\ handing'[m] = handing[m] + Held(x, m)
    BY <1>1, <1>2
  <2> QED  BY <2>1, <2>2, <2>3
<1> QED  BY <1>3, <1>4, EntryStepKeeps

(* The same four for steps that set the entry of t, with a pass or without. *)
LEMMA InvFacts ==
  ASSUME IInv, NEW t \in Tasks
  PROVE  /\ setup \in Setups /\ Sound(task) /\ EntryInv(setup, t, task[t]) /\ task[t] \in Entry
         /\ down \subseteq setup.watched /\ timer \in BOOLEAN
         /\ task[t].lease \in Lanes \cup {None} /\ task[t].lane \in Lanes
BY DEF IInv, Flags, Entries, Sound, Watched, Entry

Sets(t, f) ==
  /\ EntryInv(setup, t, f) /\ Drift(setup, t, task[t], f)
  /\ task' = Set(t, f) \/ task' = Admit(Set(t, f))
  /\ UNCHANGED <<seek, setup, down>>
  /\ timer' \in BOOLEAN /\ (timer => timer')
  /\ f.blocked => task[t].blocked \/ timer'

LEMMA SetsUpdates ==
  ASSUME IInv, NEW t \in Tasks, NEW f, Sets(t, f)
  PROVE  /\ Update(task', t, f.lease)
         /\ UNCHANGED <<seek, setup>> /\ down' \subseteq setup.watched
         /\ timer' \in BOOLEAN /\ (timer => timer')
         /\ task'[t].blocked => task[t].blocked \/ timer'
<1>1. setup \in Setups /\ Sound(task) /\ down \subseteq setup.watched  BY InvFacts
<1>2. EntryInv(setup, t, f) /\ Drift(setup, t, task[t], f)  BY DEF Sets
<1>3. task' = Set(t, f) \/ \E dead : task' = AdmitWith(Set(t, f), dead)  BY DEF Sets, Admit
<1>4. Update(task', t, f.lease) /\ task'[t].blocked = f.blocked
  BY <1>1, <1>2, <1>3, SetUpdates
<1> QED  BY <1>1, <1>4 DEF Sets

LEMMA TableSet ==
  ASSUME IInv, NEW t \in Tasks, NEW f, Sets(t, f), f.lease = task[t].lease,
         UNCHANGED <<slots, freeing, handing>>
  PROVE  Keeps
BY SetsUpdates, TableStep

LEMMA ReleaseSet ==
  ASSUME IInv, NEW t \in Tasks, NEW f, Sets(t, f), f.lease = None, ReleaseSlot(t),
         UNCHANGED <<slots, handing>>
  PROVE  Keeps
BY SetsUpdates, ReleaseStep

LEMMA LeaseSet ==
  ASSUME IInv, NEW t \in Tasks, NEW f, Sets(t, f),
         NEW l \in Lanes, NEW out \in Outcomes, Answer(l, out), Take(l, out),
         f.lease = LeaseOf(l, out), task[t].lease = None \/ t \in Askers,
         UNCHANGED <<freeing, handing>>
  PROVE  Keeps
BY SetsUpdates, LeaseStep

LEMMA RefuseSet ==
  ASSUME IInv, NEW t \in Tasks, NEW f, Sets(t, f),
         NEW l \in Lanes, NEW out \in Outcomes, Answer(l, out), Take(l, out),
         Unwanted(l, out),
         f.lease = task[t].lease, UNCHANGED freeing
  PROVE  Keeps
BY SetsUpdates, RefuseStep

-----------------------------------------------------------------------------
(* Every step keeps the invariant.                                         *)

LEMMA SpawnStep ==
  ASSUME IInv, NEW t \in Tasks, Spawn(t)
  PROVE  Keeps
<1> DEFINE e == task[t]
           f == [Absent EXCEPT !.status = "queued", !.fetching = TRUE, !.planning = TRUE]
<1>1. setup \in Setups /\ EntryInv(setup, t, e) /\ e \in Entry /\ timer \in BOOLEAN  BY InvFacts
<1>2. e.status = "none" /\ t \in DOMAIN setup.plan  BY DEF Spawn, Plan
<1>3. EntryInv(setup, t, f) /\ Drift(setup, t, e, f)  BY <1>1, <1>2, SpawnKeeps
<1>4. f.lease = e.lease /\ ~f.blocked
  BY <1>1, <1>2 DEF Absent, EntryInv, ColdInv, Cold
<1> HIDE DEF f
<1>5. Sets(t, f)  BY <1>1, <1>3, <1>4 DEF Sets, Spawn, f
<1> QED  BY <1>4, <1>5, TableSet DEF Spawn

LEMMA PlannedStep ==
  ASSUME IInv, NEW t \in Tasks, Planned(t)
  PROVE  Keeps
<1> DEFINE e == task[t]
           f == [e EXCEPT !.fetching = FALSE]
           g == [e EXCEPT
             !.fetching = FALSE, !.planning = FALSE,
             !.lane = IF Len(setup.plan[t]) > 1 THEN Bare ELSE Head(setup.plan[t]),
             !.plan = IF Len(setup.plan[t]) > 1 THEN setup.plan[t] ELSE <<>>]
<1>1. setup \in Setups /\ EntryInv(setup, t, e) /\ e \in Entry /\ timer \in BOOLEAN  BY InvFacts
<1>2. e.fetching /\ UNCHANGED <<seek, slots, freeing, handing, timer, down, setup>>
  BY DEF Planned
<1>3. CASE e.status # "queued"
  <2>1. EntryInv(setup, t, f) /\ Drift(setup, t, e, f)  BY <1>1, <1>2, <1>3, PlanCancelledKeeps
  <2>2. f.lease = e.lease /\ f.blocked = e.blocked /\ f.status = e.status  BY <1>1 DEF Entry
  <2>3. task' = Set(t, f)  BY <1>3, <2>2 DEF Planned
  <2> HIDE DEF f
  <2>4. Sets(t, f)  BY <1>1, <1>2, <2>1, <2>2, <2>3 DEF Sets
  <2> QED  BY <1>2, <2>2, <2>4, TableSet
<1>4. CASE e.status = "queued"
  <2>1. EntryInv(setup, t, g) /\ Drift(setup, t, e, g)  BY <1>1, <1>2, <1>4, PlannedKeeps
  <2>2. g.lease = e.lease /\ g.blocked = e.blocked /\ f.status = e.status  BY <1>1 DEF Entry
  <2>3. task' = Admit(Set(t, g))  BY <1>4, <2>2 DEF Planned, Plan
  <2> HIDE DEF f, g
  <2>4. Sets(t, g)  BY <1>1, <1>2, <2>1, <2>2, <2>3 DEF Sets
  <2> QED  BY <1>2, <2>2, <2>4, TableSet
<1> QED  BY <1>3, <1>4

LEMMA PlanFailsStep ==
  ASSUME IInv, NEW t \in Tasks, PlanFails(t)
  PROVE  Keeps
<1> DEFINE e == task[t]
           f == [Absent EXCEPT !.status = "refused", !.settled = e.settled]
<1>1. setup \in Setups /\ EntryInv(setup, t, e) /\ e \in Entry /\ timer \in BOOLEAN  BY InvFacts
<1>2. e.fetching /\ task' = Set(t, f) /\ UNCHANGED <<seek, slots, freeing, handing, timer, down, setup>>
  BY DEF PlanFails
<1>3. EntryInv(setup, t, f) /\ Drift(setup, t, e, f)  BY <1>1, <1>2, PlanFailsKeeps
<1>4. f.lease = e.lease /\ ~f.blocked
  <2>1. e.status \in {"queued", "cancelled"}  BY <1>1, <1>2 DEF EntryInv, PlanInv
  <2>2. e.lease = None  BY <1>1, <2>1 DEF EntryInv, ColdInv, Cold, OverInv, Terminal
  <2> QED  BY <2>2 DEF Absent
<1> HIDE DEF f
<1>5. Sets(t, f)  BY <1>1, <1>2, <1>3, <1>4 DEF Sets
<1> QED  BY <1>2, <1>4, <1>5, TableSet

(* Steps that leave every lease alone.                                     *)
Level == \A l \in Lanes : freeing'[l] + handing'[l] + slots[l] = freeing[l] + handing[l] + slots'[l]

LEMMA LevelStep ==
  ASSUME IInv, Reached(task'), \A t \in Tasks : task'[t].lease = task[t].lease,
         UNCHANGED <<seek, setup>>, Ledgers', Level,
         timer' \in BOOLEAN, down' \subseteq setup.watched,
         (\E t \in Tasks : task'[t].blocked) => timer'
  PROVE  Keeps
<1>1. setup \in Setups  BY DEF IInv, Flags
<1>2. Placements'  BY PlacementsStay DEF IInv
<1>3. NoSlotLost'
  <2> SUFFICES ASSUME NEW l \in Lanes
               PROVE  /\ Accounted(l)' <= slots'[l]
                      /\ Askers = {} => Accounted(l)' = slots'[l]
    BY DEF NoSlotLost, Askers
  <2> DEFINE h == Cardinality(HoldersIn(task, l))
             r == Cardinality(ReturningIn(seek, l))
  <2>1. h \in Nat /\ r \in Nat
    BY TasksAreFinite, FS_Subset, FS_CardinalityType DEF HoldersIn, ReturningIn
  <2>2. /\ slots[l] \in Nat /\ freeing[l] \in Nat /\ handing[l] \in Nat
        /\ slots'[l] \in Nat /\ freeing'[l] \in Nat /\ handing'[l] \in Nat
    BY DEF IInv, Ledgers
  <2>3. Accounted(l) = freeing[l] + handing[l] + h + r  BY AccountedIsSum
  <2>4. Accounted(l)' = freeing'[l] + handing'[l] + h + r
    <3>1. HoldersIn(task', l) = HoldersIn(task, l)  BY DEF HoldersIn
    <3>2. Accounted(l)' = freeing'[l] + handing'[l] + Cardinality(HoldersIn(task', l))
                            + Cardinality(ReturningIn(seek', l))
      BY DEF Accounted, Holders, HoldersIn, Returning, ReturningIn, Gives
    <3> QED  BY <3>1, <3>2
  <2>5. Accounted(l) <= slots[l] /\ (Askers = {} => Accounted(l) = slots[l])
    BY DEF IInv, NoSlotLost
  <2>6. freeing'[l] + handing'[l] + slots[l] = freeing[l] + handing[l] + slots'[l]  BY DEF Level
  <2> HIDE DEF h, r
  <2> QED  BY <2>1, <2>2, <2>3, <2>4, <2>5, <2>6
<1>4. Sound(task')  BY DEF Reached
<1>5. IInv'  BY <1>1, <1>2, <1>3, <1>4, PartsKeep
<1> QED  BY <1>5, ReachedRevivesNone DEF Keeps

LEMMA StillLevel ==
  ASSUME IInv, UNCHANGED <<slots, freeing, handing>>
  PROVE  Ledgers' /\ Level
BY DEF IInv, Ledgers, Level

LEMMA UnblockedPass ==
  ASSUME IInv, NEW dead, NEW F, F = AdmitWith(Unblocked(task), dead)
  PROVE  /\ Reached(F)
         /\ \A t \in Tasks : F[t].lease = task[t].lease /\ ~F[t].blocked
<1>1. setup \in Setups /\ Sound(task)  BY DEF IInv, Flags, Entries, Sound
<1>2. /\ Reached(Unblocked(task))
      /\ \A t \in Tasks : Unblocked(task)[t].lease = task[t].lease /\ ~Unblocked(task)[t].blocked
  BY <1>1, UnblockedReaches
<1>3. Reached(F) /\ Passed(Unblocked(task), F)  BY <1>1, <1>2, PassReaches
<1> QED  BY <1>2, <1>3 DEF Passed, Follows

LEMMA RetryTickStep ==
  ASSUME IInv, RetryTick
  PROVE  Keeps
<1>1. task' = AdmitWith(Unblocked(task), down)  BY DEF RetryTick, Admit
<1>2. Reached(task') /\ \A t \in Tasks : task'[t].lease = task[t].lease /\ ~task'[t].blocked
  BY <1>1, UnblockedPass
<1>3. down \subseteq setup.watched  BY DEF IInv, Flags, Watched
<1> QED  BY <1>2, <1>3, StillLevel, LevelStep DEF RetryTick

LEMMA SweepDownStep ==
  ASSUME IInv, NEW l \in Lanes, SweepDown(l)
  PROVE  Keeps
<1>1. Reached(task)  BY ReachedAtOnce DEF IInv, Entries, Sound
<1>2. down' \subseteq setup.watched  BY DEF IInv, Flags, SweepDown, Watched
<1>3. timer' \in BOOLEAN /\ ((\E t \in Tasks : task'[t].blocked) => timer')
  BY DEF IInv, Flags, BlockedIsRetried, SweepDown
<1> QED  BY <1>1, <1>2, <1>3, StillLevel, LevelStep DEF SweepDown

LEMMA SweepUpStep ==
  ASSUME IInv, NEW l \in Lanes, SweepUp(l)
  PROVE  Keeps
<1>1. task' = AdmitWith(Unblocked(task), down \ {l})  BY DEF SweepUp
<1>2. Reached(task') /\ \A t \in Tasks : task'[t].lease = task[t].lease /\ ~task'[t].blocked
  BY <1>1, UnblockedPass
<1>3. down' \subseteq setup.watched /\ timer' \in BOOLEAN
  BY DEF IInv, Flags, Watched, SweepUp
<1> QED  BY <1>2, <1>3, StillLevel, LevelStep DEF SweepUp

(* What is being unlinked was taken.                                       *)
LEMMA Unlinks ==
  ASSUME IInv, NEW l \in Lanes
  PROVE  freeing[l] + handing[l] <= slots[l]
<1> DEFINE h == Cardinality(HoldersIn(task, l))
           r == Cardinality(ReturningIn(seek, l))
<1>1. h \in Nat /\ r \in Nat
  BY TasksAreFinite, FS_Subset, FS_CardinalityType DEF HoldersIn, ReturningIn
<1>2. slots[l] \in Nat /\ freeing[l] \in Nat /\ handing[l] \in Nat  BY DEF IInv, Ledgers
<1>3. Accounted(l) = freeing[l] + handing[l] + h + r  BY AccountedIsSum
<1>4. Accounted(l) <= slots[l]  BY DEF IInv, NoSlotLost
<1> HIDE DEF h, r
<1> QED  BY <1>1, <1>2, <1>3, <1>4

LEMMA HandedStep ==
  ASSUME IInv, NEW l \in Lanes, Handed(l)
  PROVE  Keeps
<1>1. Reached(task)  BY ReachedAtOnce DEF IInv, Entries, Sound
<1>2. down' \subseteq setup.watched  BY DEF IInv, Flags, Handed, Watched
<1>3. timer' \in BOOLEAN /\ ((\E t \in Tasks : task'[t].blocked) => timer')
  BY DEF IInv, Flags, BlockedIsRetried, Handed
<1>4. Ledgers' /\ Level
  <2>1. freeing[l] + handing[l] <= slots[l]  BY Unlinks
  <2>2. /\ slots \in [Lanes -> Nat] /\ freeing \in [Lanes -> Nat] /\ handing \in [Lanes -> Nat]
        /\ \A m \in Lanes : slots[m] <= Cap[m] /\ Cap[m] \in Nat
    BY SchedulerAssumption DEF IInv, Ledgers
  <2>3. /\ handing[l] > 0 /\ handing' = [handing EXCEPT ![l] = @ - 1]
        /\ slots' = [slots EXCEPT ![l] = @ - 1] /\ freeing' = freeing
    BY DEF Handed
  <2>4. handing[l] - 1 \in Nat /\ slots[l] - 1 \in Nat  BY <2>1, <2>2, <2>3
  <2>5. slots' \in [Lanes -> Nat] /\ handing' \in [Lanes -> Nat]  BY <2>2, <2>3, <2>4
  <2>6. \A m \in Lanes : slots'[m] <= Cap[m]  BY <2>2, <2>3
  <2>7. Level  BY <2>2, <2>3 DEF Level
  <2> QED  BY <2>2, <2>3, <2>5, <2>6, <2>7 DEF Ledgers
<1> QED  BY <1>1, <1>2, <1>3, <1>4, LevelStep DEF Handed

LEMMA FreedStep ==
  ASSUME IInv, NEW l \in Lanes, Freed(l)
  PROVE  Keeps
<1>0. setup \in Setups /\ Sound(task)  BY DEF IInv, Flags, Entries, Sound
<1>1. /\ Reached(task')
      /\ \A t \in Tasks : task'[t].lease = task[t].lease /\ (task'[t].blocked => task[t].blocked)
  <2> DEFINE woken == {t \in Tasks : task[t].blocked /\ task[t].lane = l}
             G == [t \in Tasks |-> [task[t] EXCEPT !.blocked = @ /\ t \notin woken]]
  <2>1. CASE woken = {}
    <3>1. task' = task  BY <2>1 DEF Freed
    <3> QED  BY <1>0, <3>1, ReachedAtOnce
  <2>2. CASE woken # {}
    <3>1. task' = AdmitWith(G, down)  BY <2>2 DEF Freed, Admit
    <3>2. \A t \in Tasks : \E b \in BOOLEAN :
            G[t] = [task[t] EXCEPT !.blocked = b] /\ (b => task[t].blocked)
      BY <1>0 DEF Sound, Entry
    <3>3. DOMAIN G = Tasks /\ G = [t \in Tasks |-> G[t]]  OBVIOUS
    <3> HIDE DEF G
    <3>7. \A t \in Tasks : \E b \in BOOLEAN : G[t] = [task[t] EXCEPT !.blocked = b]
      BY <3>2
    <3>4. Reached(G) /\ \A t \in Tasks : G[t].lease = task[t].lease
      BY <1>0, <3>7, <3>3, ClearedReaches
    <3>5. \A t \in Tasks : G[t].blocked => task[t].blocked
      <4> SUFFICES ASSUME NEW t \in Tasks PROVE G[t].blocked => task[t].blocked
        OBVIOUS
      <4>1. PICK b \in BOOLEAN : G[t] = [task[t] EXCEPT !.blocked = b] /\ (b => task[t].blocked)
        BY <3>2
      <4>2. task[t] \in Entry  BY <1>0 DEF Sound
      <4> QED  BY <4>1, <4>2 DEF Entry
    <3>6. Reached(task') /\ Passed(G, task')  BY <1>0, <3>1, <3>4, PassReaches
    <3> QED  BY <3>4, <3>5, <3>6 DEF Passed, Follows
  <2> QED  BY <2>1, <2>2
<1>2. down' \subseteq setup.watched  BY DEF IInv, Flags, Freed, Watched
<1>3. timer' \in BOOLEAN /\ ((\E t \in Tasks : task'[t].blocked) => timer')
  BY <1>1 DEF IInv, Flags, BlockedIsRetried, Freed
<1>4. Ledgers' /\ Level
  <2>1. freeing[l] + handing[l] <= slots[l]  BY Unlinks
  <2>2. /\ slots \in [Lanes -> Nat] /\ freeing \in [Lanes -> Nat] /\ handing \in [Lanes -> Nat]
        /\ \A m \in Lanes : slots[m] <= Cap[m] /\ Cap[m] \in Nat
    BY SchedulerAssumption DEF IInv, Ledgers
  <2>3. /\ freeing[l] > 0 /\ freeing' = [freeing EXCEPT ![l] = @ - 1]
        /\ slots' = [slots EXCEPT ![l] = @ - 1] /\ handing' = handing
    BY DEF Freed
  <2>4. freeing[l] - 1 \in Nat /\ slots[l] - 1 \in Nat  BY <2>1, <2>2, <2>3
  <2>5. slots' \in [Lanes -> Nat] /\ freeing' \in [Lanes -> Nat]  BY <2>2, <2>3, <2>4
  <2>6. \A m \in Lanes : slots'[m] <= Cap[m]  BY <2>2, <2>3
  <2>7. Level  BY <2>2, <2>3 DEF Level
  <2> QED  BY <2>2, <2>3, <2>5, <2>6, <2>7 DEF Ledgers
<1> QED  BY <1>1, <1>2, <1>3, <1>4, LevelStep DEF Freed

(* Where a task must be when its turn is somewhere.                        *)
LEMMA RunPlaces ==
  ASSUME NEW t \in Tasks, NEW e, EntryInv(setup, t, e)
  PROVE  /\ e.run \in {"build", "drive", "wait"} => e.status = "running"
         /\ e.granted \/ e.pending => e.status = "running"
         /\ e.status # "running" => e.lease = None
         /\ e.status = "running" /\ e.run \in {"none", "slot", "wait"} /\ t \notin setup.askers
              => e.lease = None
         /\ e.status = "running" /\ e.run \in {"slot", "woken"} => ~Dead(e)
         /\ e.status = "running" /\ e.granting => e.granted /\ ~e.pending /\ e.run = "wait"
         /\ e.status = "running" /\ e.agent /\ ~e.pending /\ ~e.granted /\ e.run # "drive"
              => e.run = "none"
         /\ e.status = "running" /\ e.agent => e.run # "build"
<1>1. e \in Entry  BY DEF EntryInv
<1>2. e.status \in {"none", "queued", "running", "refused"} \cup Terminal /\ e.run \in Runs
  BY <1>1 DEF Entry
<1>3. CASE e.status = "running"
  <2>1. RunInv(setup, t, e) /\ LeaseInv(setup, t, e)  BY DEF EntryInv
  <2> QED  BY <1>2, <1>3, <2>1 DEF RunInv, LeaseInv, Dead, Runs
<1>4. CASE e.status # "running"
  <2>1. ColdInv(e) /\ OverInv(e) /\ LeaseInv(setup, t, e)  BY DEF EntryInv
  <2> QED  BY <1>2, <1>4, <2>1 DEF ColdInv, Cold, OverInv, LeaseInv
<1> QED  BY <1>3, <1>4

(* How an answer of the ledger ends.                                       *)
LEMMA AnswerFacts ==
  ASSUME NEW l \in Lanes, NEW out \in Outcomes, Answer(l, out)
  PROVE  /\ LeaseOf(l, out) \in {l, None}
         /\ LeaseOf(l, out) # None => setup.ledger
         /\ out # "full" /\ setup.ledger /\ ~setup.fsErrors => LeaseOf(l, out) = l /\ l # None
         /\ out = "slot" => LeaseOf(l, out) = l
BY BareIsLane DEF Answer, LeaseOf, Outcomes, Ledger, FsErrors

(* What may change in an entry before it ends.                             *)
Ending(e, g) ==
  /\ g \in Entry
  /\ g = [e EXCEPT !.run = g.run, !.ran = g.ran, !.release = g.release]
  /\ g.run \in {"none", e.run} /\ g.run \notin {"build", "drive"}

LEMMA FinalKeeps ==
  ASSUME setup \in Setups, NEW t \in Tasks, NEW e, EntryInv(setup, t, e), e.status = "running",
         NEW end \in Terminal, NEW g, Ending(e, g)
  PROVE  /\ EntryInv(setup, t, Final(g, end)) /\ Drift(setup, t, e, Final(g, end))
         /\ Final(g, end).lease = None /\ Final(g, end).blocked = e.blocked
<1> DEFINE r == g.run
           b == g.ran
           c == g.release
           q == IF r = "wait" THEN "woken" ELSE r
           f == [e EXCEPT
             !.status = end, !.agent = FALSE, !.lease = None, !.settled = TRUE,
             !.pending = FALSE, !.granted = FALSE, !.run = q, !.ran = b, !.release = c]
<1>1. e \in Entry  BY DEF EntryInv
<1>2. Final(g, end) = f
  <2>1. g = [e EXCEPT !.run = r, !.ran = b, !.release = c]  BY DEF Ending
  <2> HIDE DEF b, c, r
  <2> QED  BY <1>1, <2>1 DEF Final, Entry
<1>3. q \in {"none", "slot", "woken"} /\ (q = "slot" => e.run = "slot")
  BY <1>1 DEF Entry, Runs, Ending
<1>4. f.lease = None /\ f.blocked = e.blocked  BY <1>1 DEF Entry
<1>5. b \in BOOLEAN /\ c \in BOOLEAN  BY DEF Entry, Ending
<1>6. EntryInv(setup, t, f) /\ Drift(setup, t, e, f)
  <2> HIDE DEF q, b, c
  <2> QED  BY <1>3, <1>5, OverKeeps
<1> HIDE DEF f
<1> QED  BY <1>2, <1>4, <1>6

LEMMA BuildFailsStep ==
  ASSUME IInv, NEW t \in Tasks, BuildFails(t)
  PROVE  Keeps
<1> DEFINE e == task[t]
           g == [e EXCEPT !.run = "none"]
           f == Final(g, "failed")
<1>1. setup \in Setups /\ EntryInv(setup, t, e) /\ e \in Entry /\ timer \in BOOLEAN  BY InvFacts
<1>2. e.run = "build" /\ e.status = "running"  BY <1>1, RunPlaces DEF BuildFails
<1>3. Ending(e, g)  BY <1>1 DEF Entry, Runs, Ending
<1>4. task' = Admit(Set(t, f))  BY DEF BuildFails
<1> HIDE DEF g
<1>5. "failed" \in Terminal  BY DEF Terminal
<1>6. EntryInv(setup, t, f) /\ Drift(setup, t, e, f) /\ f.lease = None /\ f.blocked = e.blocked
  BY <1>1, <1>2, <1>3, <1>5, FinalKeeps
<1> HIDE DEF f
<1>7. Sets(t, f)  BY <1>1, <1>4, <1>6 DEF Sets, BuildFails
<1> QED  BY <1>6, <1>7, ReleaseSet DEF BuildFails

LEMMA BuiltStep ==
  ASSUME IInv, NEW t \in Tasks, Built(t)
  PROVE  Keeps
<1> DEFINE e == task[t]
<1>1. setup \in Setups /\ EntryInv(setup, t, e) /\ e \in Entry /\ timer \in BOOLEAN  BY InvFacts
<1>2. e.run = "build" /\ e.status = "running"  BY <1>1, RunPlaces DEF Built
<1>4. UNCHANGED <<seek, slots, handing, timer, down, setup>>  BY DEF Built
<1>5. CASE e.aborted
  <2> DEFINE g == [e EXCEPT !.run = "none"]
  <2>1. PICK end \in Ends(t, "cancelled") : task' = Admit(Set(t, Final(g, end)))
    BY <1>5 DEF Built
  <2>2. end \in Terminal  BY DEF Ends, Terminal
  <2> DEFINE f == Final(g, end)
  <2>3. Ending(e, g)  BY <1>1 DEF Entry, Runs, Ending
  <2>6. task' = Admit(Set(t, f))  BY <2>1
  <2> HIDE DEF g
  <2>4. EntryInv(setup, t, f) /\ Drift(setup, t, e, f) /\ f.lease = None /\ f.blocked = e.blocked
    BY <1>1, <1>2, <2>2, <2>3, FinalKeeps
  <2>5. ReleaseSlot(t)  BY <1>5 DEF Built
  <2> HIDE DEF f
  <2>7. Sets(t, f)  BY <1>1, <1>4, <2>4, <2>6 DEF Sets
  <2> QED  BY <1>4, <2>4, <2>5, <2>7, ReleaseSet
<1>6. CASE ~e.aborted
  <2> DEFINE f == [e EXCEPT !.run = "drive", !.agent = TRUE]
  <2>1. EntryInv(setup, t, f) /\ Drift(setup, t, e, f)  BY <1>1, <1>2, BuiltKeeps
  <2>2. f.lease = e.lease /\ f.blocked = e.blocked  BY <1>1 DEF Entry
  <2>3. task' = Set(t, f) /\ UNCHANGED freeing  BY <1>6 DEF Built
  <2> HIDE DEF f
  <2>4. Sets(t, f)  BY <1>1, <1>4, <2>1, <2>2, <2>3 DEF Sets
  <2> QED  BY <1>4, <2>2, <2>3, <2>4, TableSet
<1> QED  BY <1>5, <1>6

LEMMA TaskTurnStep ==
  ASSUME IInv, NEW t \in Tasks, TaskTurn(t)
  PROVE  Keeps
<1> DEFINE e == task[t]
           f == [e EXCEPT !.granted = TRUE, !.run = "slot"]
           g == [e EXCEPT !.granted = FALSE, !.pending = TRUE, !.run = "wait"]
<1>1. setup \in Setups /\ EntryInv(setup, t, e) /\ e \in Entry /\ timer \in BOOLEAN  BY InvFacts
<1>2. e.status = "running" /\ e.run = "none"  BY <1>1, RunPlaces DEF TaskTurn, Ready
<1>3. UNCHANGED <<seek, slots, freeing, handing, timer, down, setup>>  BY DEF TaskTurn
<1>4. f.lease = e.lease /\ f.blocked = e.blocked /\ g.lease = e.lease /\ g.blocked = e.blocked
  BY <1>1 DEF Entry
<1>5. CASE task' = Set(t, f) /\ Ledger
  <2>1. EntryInv(setup, t, f) /\ Drift(setup, t, e, f)
    BY <1>1, <1>2, <1>5, TakeTurnKeeps DEF Ledger
  <2> HIDE DEF f
  <2>2. Sets(t, f)  BY <1>1, <1>3, <1>4, <1>5, <2>1 DEF Sets
  <2> QED  BY <1>3, <1>4, <2>2, TableSet
<1>6. CASE task' = Queue(t, e)
  <2>1. EntryInv(setup, t, g) /\ Drift(setup, t, e, g)  BY <1>1, <1>2, QueueTurnKeeps
  <2>2. task' = Admit(Set(t, g))  BY <1>6 DEF Queue
  <2> HIDE DEF g
  <2>3. Sets(t, g)  BY <1>1, <1>3, <1>4, <2>1, <2>2 DEF Sets
  <2> QED  BY <1>3, <1>4, <2>3, TableSet
<1> QED  BY <1>5, <1>6 DEF TaskTurn

LEMMA TurnSlotAnswerStep ==
  ASSUME IInv, NEW t \in Tasks, NEW out \in Outcomes, TurnSlotAnswer(t, out)
  PROVE  Keeps
<1> DEFINE e == task[t]
           l == e.lane
           x == LeaseOf(l, out)
           d == [e EXCEPT !.granted = FALSE, !.run = "none"]
           f == [e EXCEPT !.granted = FALSE, !.run = "drive", !.lease = x]
           g == [e EXCEPT !.granted = FALSE, !.pending = TRUE, !.run = "wait"]
<1>1. /\ setup \in Setups /\ EntryInv(setup, t, e) /\ e \in Entry /\ timer \in BOOLEAN
      /\ l \in Lanes
  BY InvFacts
<1>2. /\ e.run = "slot" /\ Answer(l, out) /\ Take(l, out)
      /\ UNCHANGED <<seek, freeing, timer, down, setup>>
  BY DEF TurnSlotAnswer
<1>3. /\ d.lease = e.lease /\ d.blocked = e.blocked /\ f.lease = x /\ f.blocked = e.blocked
      /\ g.lease = e.lease /\ g.blocked = e.blocked
  BY <1>1 DEF Entry
<1>4. CASE Dead(e) /\ task' = Set(t, d) /\ HandBack(l, out)
  <2>1. e.status # "running"  BY <1>1, <1>2, <1>4, RunPlaces
  <2>2. EntryInv(setup, t, d) /\ Drift(setup, t, e, d)  BY <1>1, <1>2, <2>1, DeadTurnKeeps
  <2> HIDE DEF d
  <2>3. Sets(t, d)  BY <1>1, <1>2, <1>3, <1>4, <2>2 DEF Sets
  <2>4. Unwanted(l, out)  BY <1>4 DEF Unwanted
  <2> QED  BY <1>1, <1>2, <1>3, <2>3, <2>4, RefuseSet
<1>5. CASE ~Dead(e) /\ out # "full" /\ task' = Set(t, f) /\ UNCHANGED handing
  <2>1. e.status = "running"  BY <1>5 DEF Dead
  <2>2. EntryInv(setup, t, f) /\ Drift(setup, t, e, f)
    <3>1. x \in {l, None} /\ (x # None => setup.ledger)
          /\ (setup.ledger /\ ~setup.fsErrors => x # None)
      BY <1>1, <1>2, <1>5, AnswerFacts
    <3> HIDE DEF x
    <3> QED  BY <1>1, <1>2, <2>1, <3>1, DriveKeeps
  <2>3. e.lease = None \/ t \in Askers  BY <1>1, <1>2, <2>1, RunPlaces DEF Askers
  <2> HIDE DEF f
  <2>4. Sets(t, f)  BY <1>1, <1>2, <1>3, <1>5, <2>2 DEF Sets
  <2> QED  BY <1>1, <1>2, <1>3, <1>5, <2>3, <2>4, LeaseSet
<1>6. CASE ~Dead(e) /\ out = "full" /\ task' = Queue(t, e) /\ UNCHANGED handing
  <2>1. e.status = "running"  BY <1>6 DEF Dead
  <2>2. EntryInv(setup, t, g) /\ Drift(setup, t, e, g)  BY <1>1, <1>2, <2>1, QueueTurnKeeps
  <2>3. task' = Admit(Set(t, g))  BY <1>6 DEF Queue
  <2> HIDE DEF g
  <2>4. Sets(t, g)  BY <1>1, <1>2, <1>3, <2>2, <2>3 DEF Sets
  <2>5. Unwanted(l, out)  BY <1>6 DEF Unwanted
  <2> QED  BY <1>1, <1>2, <1>3, <2>4, <2>5, RefuseSet
<1> QED  BY <1>4, <1>5, <1>6 DEF TurnSlotAnswer

LEMMA GrantAnswerStep ==
  ASSUME IInv, NEW t \in Tasks, NEW out \in Outcomes, GrantAnswer(t, out)
  PROVE  Keeps
<1> DEFINE c == task[t]
           l == c.lane
           x == LeaseOf(l, out)
           e == [c EXCEPT !.granting = FALSE]
           b == [c EXCEPT !.granting = FALSE, !.granted = FALSE, !.pending = TRUE, !.blocked = TRUE]
           f == [c EXCEPT !.granting = FALSE, !.lease = x, !.run = "woken"]
<1>1. /\ setup \in Setups /\ EntryInv(setup, t, c) /\ c \in Entry /\ timer \in BOOLEAN
      /\ l \in Lanes
  BY InvFacts
<1>2. /\ c.granting /\ Answer(l, out) /\ Take(l, out)
      /\ UNCHANGED <<seek, freeing, down, setup>>
  BY DEF GrantAnswer
<1>3. /\ e.lease = c.lease /\ e.blocked = c.blocked /\ b.lease = c.lease
      /\ f.lease = x /\ f.blocked = c.blocked
      /\ e.granted = c.granted /\ e.pending = c.pending /\ e.status = c.status
  BY <1>1 DEF Entry
<1>4. CASE c.granted /\ timer' = TRUE /\ Unwanted(l, out) /\ task' = Set(t, b)
  <2>1. EntryInv(setup, t, b) /\ Drift(setup, t, c, b)  BY <1>1, <1>2, <1>4, RefusedGrantKeeps
  <2> HIDE DEF b
  <2>2. Sets(t, b)  BY <1>1, <1>2, <1>3, <1>4, <2>1 DEF Sets
  <2> QED  BY <1>1, <1>2, <1>3, <1>4, <2>2, RefuseSet
<1>5. CASE c.status # "running" /\ UNCHANGED timer /\ Unwanted(l, out) /\ task' = Set(t, e)
  <2>1. EntryInv(setup, t, e) /\ Drift(setup, t, c, e)  BY <1>1, <1>2, <1>5, StaleGrantKeeps
  <2> HIDE DEF e
  <2>2. Sets(t, e)  BY <1>1, <1>2, <1>3, <1>5, <2>1 DEF Sets
  <2> QED  BY <1>1, <1>2, <1>3, <1>5, <2>2, RefuseSet
<1>6. CASE /\ c.status = "running" /\ out # "full" /\ UNCHANGED <<timer, handing>>
           /\ task' = Set(t, f)
  <2>1. EntryInv(setup, t, f) /\ Drift(setup, t, c, f)
    <3>1. x \in {l, None} /\ (x # None => setup.ledger)
          /\ (setup.ledger /\ ~setup.fsErrors => x # None)
      BY <1>1, <1>2, <1>6, AnswerFacts
    <3> HIDE DEF x
    <3> QED  BY <1>1, <1>2, <1>6, <3>1, GrantedKeeps
  <2>2. c.lease = None \/ t \in Askers  BY <1>1, <1>2, <1>6, RunPlaces DEF Askers
  <2> HIDE DEF f
  <2>3. Sets(t, f)  BY <1>1, <1>2, <1>3, <1>6, <2>1 DEF Sets
  <2> QED  BY <1>1, <1>2, <1>3, <1>6, <2>2, <2>3, LeaseSet
<1>7. c.status = "running" => c.granted /\ ~c.pending  BY <1>1, <1>2, RunPlaces
<1>8. c.granted => c.status = "running"  BY <1>1, RunPlaces
<1>9. [e EXCEPT !.granted = FALSE, !.pending = TRUE, !.blocked = TRUE] = b
      /\ [e EXCEPT !.lease = x, !.run = "woken"] = f
  BY <1>1 DEF Entry
<1>10. \/ task' = Set(t, b) /\ c.granted /\ timer' = TRUE /\ UNCHANGED handing /\ out = "full"
       \/ task' = Set(t, e) /\ ~(c.granted /\ ~c.pending) /\ UNCHANGED <<timer, handing>> /\ out = "full"
       \/ task' = Set(t, e) /\ (c.status # "running" \/ ~c.granted) /\ HandBack(l, out) /\ UNCHANGED timer
       \/ task' = Set(t, f) /\ c.status = "running" /\ out # "full" /\ UNCHANGED <<timer, handing>>
  <2> HIDE DEF b, f
  <2> QED  BY <1>3, <1>9 DEF GrantAnswer
<1> HIDE DEF e, b, f, l
<1> QED  BY <1>4, <1>5, <1>6, <1>7, <1>8, <1>10 DEF Unwanted

LEMMA WokenStep ==
  ASSUME IInv, NEW t \in Tasks, Woken(t)
  PROVE  Keeps
<1> DEFINE c == task[t]
           d == [c EXCEPT !.granted = FALSE, !.run = "none"]
           f == [c EXCEPT !.granted = FALSE, !.run = "drive"]
<1>1. setup \in Setups /\ EntryInv(setup, t, c) /\ c \in Entry /\ timer \in BOOLEAN  BY InvFacts
<1>2. c.run = "woken" /\ UNCHANGED <<seek, slots, freeing, handing, timer, down, setup>>
  BY DEF Woken
<1>3. /\ d.lease = c.lease /\ d.blocked = c.blocked /\ f.lease = c.lease /\ f.blocked = c.blocked
  BY <1>1 DEF Entry
<1>4. Dead([c EXCEPT !.granted = FALSE]) <=> Dead(c)  BY <1>1 DEF Entry, Dead
<1>5. task' = Set(t, IF Dead(c) THEN d ELSE f)
  <2>1. task' = Set(t, [[c EXCEPT !.granted = FALSE] EXCEPT !.run = IF Dead(c) THEN "none" ELSE "drive"])
    BY <1>4 DEF Woken
  <2>2. [[c EXCEPT !.granted = FALSE] EXCEPT !.run = IF Dead(c) THEN "none" ELSE "drive"]
          = IF Dead(c) THEN d ELSE f
    BY <1>1 DEF Entry
  <2> QED  BY <2>1, <2>2
<1>6. CASE Dead(c)
  <2>1. c.status # "running"  BY <1>1, <1>2, <1>6, RunPlaces
  <2>2. EntryInv(setup, t, d) /\ Drift(setup, t, c, d)  BY <1>1, <1>2, <2>1, DeadTurnKeeps
  <2>3. task' = Set(t, d)  BY <1>5, <1>6
  <2> HIDE DEF d
  <2>4. Sets(t, d)  BY <1>1, <1>2, <1>3, <2>2, <2>3 DEF Sets
  <2> QED  BY <1>2, <1>3, <2>4, TableSet
<1>7. CASE ~Dead(c)
  <2>1. c.status = "running"  BY <1>7 DEF Dead
  <2>2. EntryInv(setup, t, f) /\ Drift(setup, t, c, f)  BY <1>1, <1>2, <2>1, WokenDrivesKeeps
  <2>3. task' = Set(t, f)  BY <1>5, <1>7
  <2> HIDE DEF f
  <2>4. Sets(t, f)  BY <1>1, <1>2, <1>3, <2>2, <2>3 DEF Sets
  <2> QED  BY <1>2, <1>3, <2>4, TableSet
<1> QED  BY <1>6, <1>7

LEMMA CompleteTaskStep ==
  ASSUME IInv, NEW t \in Tasks, CompleteTask(t)
  PROVE  Keeps
<1> DEFINE c == task[t]
           e == [c EXCEPT !.release = TRUE]
           f == Final(e, "completed")
<1>1. setup \in Setups /\ EntryInv(setup, t, c) /\ c \in Entry /\ timer \in BOOLEAN  BY InvFacts
<1>2. e.status = c.status /\ e.run = c.run /\ e.agent = c.agent /\ e.lease = c.lease
      /\ e.blocked = c.blocked
  BY <1>1 DEF Entry
<1>3. c.status = "running" /\ UNCHANGED <<seek, slots, handing, timer, down, setup>>
  BY <1>2 DEF CompleteTask
<1>4. CASE c.run # "drive" /\ c.agent /\ task' = Admit(Set(t, f)) /\ ReleaseSlot(t)
  <2>1. c.run # "build"  BY <1>1, <1>3, <1>4, RunPlaces
  <2>2. Ending(c, e)  BY <1>1, <1>4, <2>1 DEF Entry, Ending, Runs
  <2> HIDE DEF e
  <2>3. "completed" \in Terminal  BY DEF Terminal
  <2>4. EntryInv(setup, t, f) /\ Drift(setup, t, c, f) /\ f.lease = None /\ f.blocked = c.blocked
    BY <1>1, <1>3, <2>2, <2>3, FinalKeeps
  <2> HIDE DEF f
  <2>5. Sets(t, f)  BY <1>1, <1>3, <1>4, <2>4 DEF Sets
  <2> QED  BY <1>3, <1>4, <2>4, <2>5, ReleaseSet
<1>5. CASE (c.run = "drive" \/ ~c.agent) /\ task' = Set(t, e) /\ UNCHANGED freeing
  <2>1. EntryInv(setup, t, e) /\ Drift(setup, t, c, e)  BY <1>1, <1>3, <1>5, ReleaseAskedKeeps
  <2> HIDE DEF e
  <2>2. Sets(t, e)  BY <1>1, <1>2, <1>3, <1>5, <2>1 DEF Sets
  <2> QED  BY <1>2, <1>3, <1>5, <2>2, TableSet
<1> HIDE DEF e
<1>6. CompleteTask(t) => \/ c.run # "drive" /\ c.agent /\ task' = Admit(Set(t, f)) /\ ReleaseSlot(t)
                         \/ (c.run = "drive" \/ ~c.agent) /\ task' = Set(t, e) /\ UNCHANGED freeing
  BY <1>2 DEF CompleteTask, e
<1> QED  BY <1>4, <1>5, <1>6

LEMMA InterruptStep ==
  ASSUME IInv, NEW t \in Tasks, Interrupt(t)
  PROVE  Keeps
<1> DEFINE c == task[t]
           q == [c EXCEPT
             !.status = "cancelled", !.settled = TRUE, !.planning = FALSE,
             !.placing = FALSE, !.plan = <<>>, !.lane = Bare]
           f == Final(c, "cancelled")
           a == [c EXCEPT !.aborted = TRUE]
<1>1. setup \in Setups /\ EntryInv(setup, t, c) /\ c \in Entry /\ timer \in BOOLEAN  BY InvFacts
<1>2. UNCHANGED <<seek, slots, handing, timer, down, setup>>  BY DEF Interrupt
<1>3. q.lease = c.lease /\ q.blocked = c.blocked /\ a.lease = c.lease /\ a.blocked = c.blocked
  BY <1>1 DEF Entry
<1>4. CASE c.status = "queued" /\ task' = Admit(Set(t, q)) /\ UNCHANGED freeing
  <2>1. EntryInv(setup, t, q) /\ Drift(setup, t, c, q)  BY <1>1, <1>4, CancelQueuedKeeps
  <2> HIDE DEF q
  <2>2. Sets(t, q)  BY <1>1, <1>2, <1>3, <1>4, <2>1 DEF Sets
  <2> QED  BY <1>2, <1>3, <1>4, <2>2, TableSet
<1>5. CASE /\ c.status = "running" /\ c.run # "drive" /\ c.agent
           /\ task' = Admit(Set(t, f)) /\ ReleaseSlot(t)
  <2>1. c.run # "build"  BY <1>1, <1>5, RunPlaces
  <2>2. Ending(c, c)  BY <1>1, <1>5, <2>1 DEF Entry, Ending, Runs
  <2>3. "cancelled" \in Terminal  BY DEF Terminal
  <2>4. EntryInv(setup, t, f) /\ Drift(setup, t, c, f) /\ f.lease = None /\ f.blocked = c.blocked
    BY <1>1, <1>5, <2>2, <2>3, FinalKeeps
  <2> HIDE DEF f
  <2>5. Sets(t, f)  BY <1>1, <1>2, <1>5, <2>4 DEF Sets
  <2> QED  BY <1>2, <1>5, <2>4, <2>5, ReleaseSet
<1>6. CASE /\ c.status = "running" /\ (t \notin setup.parked \/ c.run = "drive" \/ ~c.agent)
           /\ task' = Set(t, a) /\ UNCHANGED freeing
  <2>1. EntryInv(setup, t, a) /\ Drift(setup, t, c, a)  BY <1>1, <1>6, AbortKeeps
  <2> HIDE DEF a
  <2>2. Sets(t, a)  BY <1>1, <1>2, <1>3, <1>6, <2>1 DEF Sets
  <2> QED  BY <1>2, <1>3, <1>6, <2>2, TableSet
<1> HIDE DEF q, f, a
<1>7. \/ c.status = "queued" /\ task' = Admit(Set(t, q)) /\ UNCHANGED freeing
      \/ /\ c.status = "running" /\ c.run # "drive" /\ c.agent
         /\ task' = Admit(Set(t, f)) /\ ReleaseSlot(t)
      \/ /\ c.status = "running" /\ (t \notin setup.parked \/ c.run = "drive" \/ ~c.agent)
         /\ task' = Set(t, a) /\ UNCHANGED freeing
  BY DEF Interrupt, Parked, q, f, a
<1> QED  BY <1>4, <1>5, <1>6, <1>7

LEMMA AskStep ==
  ASSUME IInv, NEW t \in Tasks, Ask(t)
  PROVE  Keeps
<1> DEFINE c == task[t]
           f == [c EXCEPT !.asking = TRUE, !.lease = None]
<1>1. setup \in Setups /\ EntryInv(setup, t, c) /\ c \in Entry /\ timer \in BOOLEAN  BY InvFacts
<1>2. c.status = "running" /\ t \in setup.askers  BY <1>1, RunPlaces DEF Ask, Askers
<1>3. task' = Set(t, f) /\ ReleaseSlot(t) /\ UNCHANGED <<seek, slots, handing, timer, down, setup>>
  BY DEF Ask
<1>4. EntryInv(setup, t, f) /\ Drift(setup, t, c, f)  BY <1>1, <1>2, AskKeeps
<1>5. f.lease = None /\ f.blocked = c.blocked  BY <1>1 DEF Entry
<1> HIDE DEF f
<1>6. Sets(t, f)  BY <1>1, <1>3, <1>4, <1>5 DEF Sets
<1> QED  BY <1>3, <1>5, <1>6, ReleaseSet

LEMMA AnsweredStep ==
  ASSUME IInv, NEW t \in Tasks, Answered(t)
  PROVE  Keeps
<1> DEFINE c == task[t]
           e == [c EXCEPT !.asking = FALSE]
<1>1. setup \in Setups /\ EntryInv(setup, t, c) /\ c \in Entry /\ timer \in BOOLEAN  BY InvFacts
<1>2. c.asking /\ UNCHANGED <<seek, slots, freeing, handing, timer, down, setup>>  BY DEF Answered
<1>3. e.settling = c.settling /\ e.status = c.status /\ e.aborted = c.aborted
  BY <1>1 DEF Entry
<1>4. PICK k \in {c.settling, c.settling + 1} :
        /\ k \in 0 .. MaxLoops /\ (k # c.settling => setup.ledger /\ c.status = "running")
        /\ task' = Set(t, [c EXCEPT !.asking = FALSE, !.settling = k])
  <2>1. CASE Gone(e) \/ ~Ledger
    <3>1. e = [c EXCEPT !.asking = FALSE, !.settling = c.settling]  BY <1>1 DEF Entry
    <3>2. c.settling \in 0 .. MaxLoops  BY <1>1 DEF Entry
    <3>3. task' = Set(t, e)  BY <2>1 DEF Answered
    <3> QED  BY <3>1, <3>2, <3>3
  <2>2. CASE ~Gone(e) /\ Ledger
    <3>1. e.settling < MaxLoops /\ task' = Set(t, [e EXCEPT !.settling = @ + 1])
      BY <2>2 DEF Answered
    <3>2. [e EXCEPT !.settling = @ + 1] = [c EXCEPT !.asking = FALSE, !.settling = c.settling + 1]
      BY <1>1 DEF Entry
    <3>3. c.settling + 1 \in 0 .. MaxLoops  BY <1>1, <1>3, <3>1 DEF Entry, MaxLoops
    <3>4. setup.ledger /\ c.status = "running"  BY <1>3, <2>2 DEF Gone, Ledger
    <3> QED  BY <3>1, <3>2, <3>3, <3>4
  <2> QED  BY <2>1, <2>2
<1> DEFINE f == [c EXCEPT !.asking = FALSE, !.settling = k]
<1>5. EntryInv(setup, t, f) /\ Drift(setup, t, c, f)  BY <1>1, <1>2, <1>4, AnsweredKeeps
<1>6. f.lease = c.lease /\ f.blocked = c.blocked  BY <1>1 DEF Entry
<1>7. task' = Set(t, f)  BY <1>4
<1> HIDE DEF f
<1>8. Sets(t, f)  BY <1>1, <1>2, <1>5, <1>6, <1>7 DEF Sets
<1> QED  BY <1>2, <1>6, <1>8, TableSet

LEMMA SettleAnswerStep ==
  ASSUME IInv, NEW t \in Tasks, NEW out \in Outcomes, SettleAnswer(t, out)
  PROVE  Keeps
<1> DEFINE c == task[t]
           l == c.lane
           d == [c EXCEPT !.settling = @ - 1, !.lease = c.lease]
           f == [c EXCEPT !.settling = @ - 1, !.lease = l]
<1>1. /\ setup \in Setups /\ EntryInv(setup, t, c) /\ c \in Entry /\ timer \in BOOLEAN
      /\ l \in Lanes /\ Sound(task)
  BY InvFacts
<1>2. /\ c.settling > 0 /\ Answer(l, out) /\ Take(l, out)
      /\ UNCHANGED <<seek, freeing, timer, down, setup>>
  BY DEF SettleAnswer
<1>3. t \in setup.askers  BY <1>1, <1>2 DEF EntryInv, LeaseInv
<1>4. /\ d.lease = c.lease /\ d.blocked = c.blocked /\ f.lease = l /\ f.blocked = c.blocked
      /\ d = [c EXCEPT !.settling = @ - 1]
  BY <1>1 DEF Entry
<1>5. CASE task' = Set(t, d) /\ Unwanted(l, out)
  <2>1. EntryInv(setup, t, d) /\ Drift(setup, t, c, d)  BY <1>1, <1>2, SettleEndsKeeps
  <2> HIDE DEF d
  <2>2. Sets(t, d)  BY <1>1, <1>2, <1>4, <1>5, <2>1 DEF Sets
  <2> QED  BY <1>1, <1>2, <1>4, <1>5, <2>2, RefuseSet
<1>6. CASE ~Gone(c) /\ out = "slot" /\ task' = Set(t, f) /\ UNCHANGED handing
  <2>1. c.status = "running"  BY <1>6 DEF Gone
  <2>2. EntryInv(setup, t, f) /\ Drift(setup, t, c, f)  BY <1>1, <1>2, <2>1, SettleEndsKeeps
  <2>3. f.lease = LeaseOf(l, out)  BY <1>4, <1>6 DEF LeaseOf
  <2> HIDE DEF f
  <2>4. Sets(t, f)  BY <1>1, <1>2, <1>4, <1>6, <2>2 DEF Sets
  <2> QED  BY <1>1, <1>2, <1>3, <1>6, <2>3, <2>4, LeaseSet DEF Askers
<1>7. CASE out # "slot" /\ UNCHANGED <<task, handing>>
  <2>1. Drift(setup, t, c, c)  BY <1>1, ReachedAtOnce DEF Reached
  <2>2. task' = Set(t, c)  BY <1>1, <1>7 DEF Set, Sound
  <2>3. Sets(t, c)  BY <1>1, <1>2, <2>1, <2>2 DEF Sets
  <2>4. Unwanted(l, out)  BY <1>7 DEF Unwanted
  <2> QED  BY <1>1, <1>2, <2>3, <2>4, RefuseSet
<1>8. \/ task' = Set(t, [c EXCEPT !.settling = @ - 1]) /\ HandBack(l, out)
      \/ ~Gone(c) /\ out = "slot" /\ task' = Set(t, f) /\ UNCHANGED handing
      \/ out # "slot" /\ UNCHANGED <<task, handing>>
  BY DEF SettleAnswer
<1> HIDE DEF d, f
<1>9. HandBack(l, out) => Unwanted(l, out)  BY DEF Unwanted
<1> QED  BY <1>4, <1>5, <1>6, <1>7, <1>8, <1>9

LEMMA StartAnswerStep ==
  ASSUME IInv, NEW t \in Tasks, NEW out \in Outcomes, StartAnswer(t, out)
  PROVE  Keeps
<1> DEFINE c == task[t]
           l == Head(setup.plan[t])
           x == LeaseOf(l, out)
           e == [c EXCEPT !.acquiring = FALSE]
           b == [c EXCEPT !.acquiring = FALSE, !.blocked = TRUE]
           d == [c EXCEPT !.acquiring = FALSE, !.blocked = c.blocked]
           f == [c EXCEPT !.acquiring = FALSE, !.status = "running", !.run = "build", !.lease = x]
<1>1. /\ setup \in Setups /\ EntryInv(setup, t, c) /\ c \in Entry /\ timer \in BOOLEAN
  BY InvFacts
<1>2. /\ c.acquiring /\ Answer(l, out) /\ Take(l, out)
      /\ UNCHANGED <<seek, freeing, down, setup>>
  BY DEF StartAnswer, Plan
<1>3. l \in Lanes
  <2>1. t \in DOMAIN setup.plan  BY <1>1, <1>2 DEF EntryInv, PlanInv
  <2> QED  BY <1>1, <2>1, SetupFacts
<1>4. /\ b.lease = c.lease /\ d.lease = c.lease /\ d.blocked = c.blocked
      /\ f.lease = x /\ f.blocked = c.blocked
      /\ e.status = c.status
      /\ e = d /\ [e EXCEPT !.blocked = TRUE] = b /\ Begin(e, x) = f
  BY <1>1 DEF Entry, Begin
<1>5. CASE out = "full" /\ task' = Set(t, b) /\ timer' = TRUE /\ UNCHANGED handing
  <2>1. EntryInv(setup, t, b) /\ Drift(setup, t, c, b)  BY <1>1, <1>2, StartRefusedKeeps
  <2> HIDE DEF b
  <2>2. Sets(t, b)  BY <1>1, <1>2, <1>4, <1>5, <2>1 DEF Sets
  <2>3. Unwanted(l, out)  BY <1>5 DEF Unwanted
  <2> QED  BY <1>2, <1>3, <1>4, <2>2, <2>3, RefuseSet
<1>6. CASE out # "full" /\ c.status = "queued" /\ task' = Set(t, f) /\ UNCHANGED <<timer, handing>>
  <2>1. EntryInv(setup, t, f) /\ Drift(setup, t, c, f)
    <3>1. x \in {l, None} /\ (x # None => setup.ledger)
          /\ (setup.ledger /\ ~setup.fsErrors => x # None)
      BY <1>2, <1>3, <1>6, AnswerFacts
    <3> HIDE DEF x
    <3> QED  BY <1>1, <1>2, <1>6, <3>1, StartedKeeps
  <2>2. c.lease = None  BY <1>1, <1>6, RunPlaces
  <2> HIDE DEF f
  <2>3. Sets(t, f)  BY <1>1, <1>2, <1>4, <1>6, <2>1 DEF Sets
  <2> QED  BY <1>2, <1>3, <1>4, <1>6, <2>2, <2>3, LeaseSet
<1>7. CASE task' = Set(t, d) /\ HandBack(l, out) /\ UNCHANGED timer
  <2>1. EntryInv(setup, t, d) /\ Drift(setup, t, c, d)
    <3>1. c.blocked \in BOOLEAN  BY <1>1 DEF Entry
    <3> QED  BY <1>1, <1>2, <3>1, StartRefusedKeeps
  <2> HIDE DEF d
  <2>2. Sets(t, d)  BY <1>1, <1>2, <1>4, <1>7, <2>1 DEF Sets
  <2>3. Unwanted(l, out)  BY <1>7 DEF Unwanted
  <2> QED  BY <1>2, <1>3, <1>4, <2>2, <2>3, RefuseSet
<1>8. \/ out = "full" /\ task' = Set(t, [e EXCEPT !.blocked = TRUE]) /\ timer' = TRUE /\ UNCHANGED handing
      \/ out # "full" /\ e.status = "queued" /\ task' = Set(t, Begin(e, x)) /\ UNCHANGED <<timer, handing>>
      \/ task' = Set(t, e) /\ HandBack(l, out) /\ UNCHANGED timer
  BY DEF StartAnswer, Plan
<1> HIDE DEF b, d, f, e
<1> QED  BY <1>4, <1>5, <1>6, <1>7, <1>8

-----------------------------------------------------------------------------
(* Steps of a placement.                                                   *)

LEMMA DriftAgain ==
  ASSUME NEW t \in Tasks, NEW e, NEW f, NEW g, EntryInv(setup, t, f),
         Drift(setup, t, e, f), Drift(setup, t, f, g),
         f.status = "none" => e.status = "none", g.run \in {"none", f.run} \/ ~e.settled
  PROVE  Drift(setup, t, e, g)
BY DEF Drift

(* The slots a step takes or unlinks are those its placement gives back    *)
(* more or less.                                                           *)
Seeking(j, k) == \A l \in Lanes : slots'[l] + Given(j, l) = slots[l] + Given(k, l)

(* A step that sets the entry of t, with a pass or without, and moves one   *)
(* of its placements.                                                      *)
LEMMA SeekStep ==
  ASSUME IInv, NEW t \in Tasks, NEW n \in 1 .. MaxSeeks, NEW k, NEW f,
         EntryInv(setup, t, f), Drift(setup, t, task[t], f),
         task' = Set(t, f) \/ task' = Admit(Set(t, f)),
         f.lease = task[t].lease,
         SeekInv(setup, t, n, k, task[t]), seek' = [seek EXCEPT ![t][n] = k],
         slots' \in [Lanes -> Nat], \A l \in Lanes : slots'[l] <= Cap[l],
         Seeking(seek[t][n], k),
         UNCHANGED <<freeing, handing, down, setup>>,
         timer' \in BOOLEAN, timer => timer',
         f.blocked => task[t].blocked \/ timer'
  PROVE  Keeps
<1>1. setup \in Setups /\ Sound(task) /\ down \subseteq setup.watched  BY InvFacts
<1>2. task' = Set(t, f) \/ \E dead : task' = AdmitWith(Set(t, f), dead)  BY DEF Admit
<1>3. Update(task', t, f.lease) /\ task'[t].blocked = f.blocked  BY <1>1, <1>2, SetUpdates
<1>4. SeekInv(setup, t, n, k, task'[t])
  <2>1. Drift(setup, t, task[t], task'[t])  BY <1>3 DEF Update, Reached
  <2> QED  BY <2>1, SeekStays
<1>5. Ledgers'  BY DEF IInv, Ledgers
<1>6. Balance(t, f.lease, seek[t][n], k)
  <2> SUFFICES ASSUME NEW l \in Lanes
               PROVE  /\ Has(freeing', handing', f.lease, k, l) + slots[l]
                           = Has(freeing, handing, task[t].lease, seek[t][n], l) + slots'[l]
                      /\ Has(freeing, handing, task[t].lease, seek[t][n], l) + slots'[l] \in Nat
    BY DEF Balance
  <2> DEFINE j == seek[t][n]
             x == task[t].lease
  <2>1. Held(x, l) \in Nat /\ Given(j, l) \in Nat /\ Given(k, l) \in Nat
    BY DEF Held, Given
  <2>2. /\ slots[l] \in Nat /\ freeing[l] \in Nat /\ handing[l] \in Nat /\ slots'[l] \in Nat
        /\ freeing'[l] = freeing[l] /\ handing'[l] = handing[l]
    BY DEF IInv, Ledgers
  <2>3. slots'[l] + Given(j, l) = slots[l] + Given(k, l)  BY DEF Seeking
  <2>4. f.lease = x  OBVIOUS
  <2> HIDE DEF j, x
  <2>5. /\ Has(freeing', handing', x, k, l) + slots[l] = Has(freeing, handing, x, j, l) + slots'[l]
        /\ Has(freeing, handing, x, j, l) + slots'[l] \in Nat
    BY <2>1, <2>2, <2>3 DEF Has
  <2> QED  BY <2>4, <2>5 DEF j, x
<1> QED  BY <1>1, <1>3, <1>4, <1>5, <1>6, StepKeeps

LEMMA SetAgain ==
  ASSUME NEW t \in Tasks, Sound(task)
  PROVE  /\ Set(t, task[t]) = task
         /\ \A f, g : [Set(t, f) EXCEPT ![t] = g] = Set(t, g) /\ Set(t, f)[t] = f
BY DEF Set, Sound

LEMMA IdleIsSeek ==
  ASSUME NEW t \in Tasks, NEW n \in 1 .. MaxSeeks, NEW e
  PROVE  SeekInv(setup, t, n, Idle, e) /\ \A l : Given(Idle, l) = 0
BY BareIsLane DEF SeekInv, Idle, Seek, Given, Gives

(* A placement that asks gives nothing back; one that returns or drops its *)
(* slot gives back that one.                                               *)
LEMMA GivenIs ==
  ASSUME NEW k
  PROVE  /\ k.phase \notin {"return", "drop"} => \A l : Given(k, l) = 0
         /\ k.phase \in {"return", "drop"} => \A l : Given(k, l) = Held(Head(k.left), l)
BY DEF Given, Gives, Held

(* Asking for the next lane, or giving up when none is left.               *)
LEMMA SeekOnKeeps ==
  ASSUME IInv, NEW t \in Tasks, NEW n \in 1 .. MaxSeeks, NEW f, NEW left \in Seq(Lanes),
         EntryInv(setup, t, f), Drift(setup, t, task[t], f),
         f.lease = task[t].lease, f.blocked = task[t].blocked, f.status = task[t].status,
         f.run = task[t].run,
         task[t].status # "none", ~task[t].fetching, Len(setup.plan[t]) > 1,
         n <= setup.seeks, setup.seeks = 1 => task[t].status # "running",
         ToSet(left) \subseteq ToSet(setup.plan[t]),
         NEW E, E = Set(t, f), SeekOn(t, n, left, E),
         slots' \in [Lanes -> Nat], \A l \in Lanes : slots'[l] <= Cap[l],
         Seeking(seek[t][n], Idle),
         UNCHANGED <<freeing, handing, down, setup>>
  PROVE  Keeps
<1>1. setup \in Setups /\ Sound(task) /\ timer \in BOOLEAN /\ setup.ledger \in BOOLEAN
  BY InvFacts, SetupFacts
<1>2. CASE left # <<>>
  <2> DEFINE k == [phase |-> "ask", left |-> left]
  <2>1. seek' = [seek EXCEPT ![t][n] = k] /\ task' = Set(t, f) /\ UNCHANGED timer
    BY <1>2 DEF SeekOn
  <2>2. k \in Seek /\ k.phase = "ask" /\ k.left = left  BY DEF Seek
  <2>3. \A l : Given(k, l) = Given(Idle, l)
    <3>1. k.phase \notin {"return", "drop"}  BY <2>2
    <3> HIDE DEF k
    <3> QED  BY <3>1, IdleIsSeek, GivenIs
  <2> HIDE DEF k
  <2>4. SeekInv(setup, t, n, k, task[t])  BY <1>2, <2>2 DEF SeekInv
  <2>5. Seeking(seek[t][n], k)  BY <2>3 DEF Seeking
  <2> QED  BY <1>1, <2>1, <2>4, <2>5, SeekStep
<1>3. CASE left = <<>>
  <2> DEFINE b == f.blocked \/ setup.ledger
             g == [f EXCEPT !.lane = Bare, !.blocked = b]
  <2>1. f \in Entry /\ b \in BOOLEAN  BY <1>1 DEF EntryInv, Entry
  <2>2. NoHome(f) = g  BY <2>1 DEF NoHome, Ledger
  <2>3. /\ seek' = [seek EXCEPT ![t][n] = Idle]
        /\ task' = Admit(Set(t, NoHome(f))) /\ timer' = (timer \/ setup.ledger)
    <3>1. seek' = [seek EXCEPT ![t][n] = Idle] /\ timer' = (timer \/ setup.ledger)
      BY <1>3 DEF SeekOn, Ledger
    <3>2. task' = Admit([E EXCEPT ![t] = NoHome(@)])  BY <1>3 DEF SeekOn
    <3>3. E[t] = f /\ \A e : [E EXCEPT ![t] = e] = Set(t, e)  BY <1>1, SetAgain
    <3>4. [E EXCEPT ![t] = NoHome(@)] = [E EXCEPT ![t] = NoHome(f)]  BY <3>3
    <3> QED  BY <3>1, <3>2, <3>3, <3>4
  <2>4. EntryInv(setup, t, g) /\ Drift(setup, t, f, g)
    <3>1. f.status = "running" => setup.seeks > 1
      BY <1>1, SetupFacts
    <3> HIDE DEF b
    <3> QED  BY <1>1, <2>1, <3>1, NoHomeKeeps
  <2>5. g.lease = f.lease /\ g.run = f.run /\ g.blocked = b  BY <2>1 DEF Entry
  <2>6. Drift(setup, t, task[t], g)
    <3> HIDE DEF g
    <3> QED  BY <2>4, <2>5, DriftAgain DEF Drift
  <2>7. SeekInv(setup, t, n, Idle, task[t])  BY IdleIsSeek
  <2>8. timer' \in BOOLEAN /\ (timer => timer') /\ (g.blocked => task[t].blocked \/ timer')
    BY <1>1, <2>3, <2>5
  <2> HIDE DEF g
  <2> QED  BY <2>2, <2>3, <2>4, <2>5, <2>6, <2>7, <2>8, SeekStep
<1> QED  BY <1>2, <1>3

LEMMA SequencesOfLanes ==
  ASSUME NEW S \in SUBSET Lanes, NEW left \in SetToSeqs(S)
  PROVE  left \in Seq(Lanes) /\ ToSet(left) \subseteq S
<1>1. IsFiniteSet(S)  BY SchedulerAssumption, FS_Subset
<1>2. Cardinality(S) \in Nat  BY <1>1, FS_CardinalityType
<1>3. left \in [1 .. Cardinality(S) -> S]  BY DEF SetToSeqs
<1> QED  BY <1>2, <1>3 DEF ToSet

LEMMA SortedStep ==
  ASSUME IInv, NEW t \in Tasks, Sorted(t)
  PROVE  Keeps
<1> DEFINE c == task[t]
           f == [c EXCEPT !.sorting = {}, !.placing = FALSE]
<1>1. /\ setup \in Setups /\ EntryInv(setup, t, c) /\ c \in Entry /\ timer \in BOOLEAN
      /\ Sound(task)
  BY InvFacts
<1>2. c.sorting # {} /\ UNCHANGED <<slots, freeing, handing, down, setup>>  BY DEF Sorted
<1>3. EntryInv(setup, t, f) /\ Drift(setup, t, c, f)  BY <1>1, <1>2, SortedKeeps
<1>4. /\ f.lease = c.lease /\ f.blocked = c.blocked /\ f.status = c.status /\ f.run = c.run
      /\ f.plan = c.plan
  BY <1>1 DEF Entry
<1>5. CASE task' = Admit(Set(t, f)) /\ UNCHANGED <<seek, timer>>
  <2> HIDE DEF f
  <2>1. Sets(t, f)  BY <1>1, <1>2, <1>3, <1>4, <1>5 DEF Sets
  <2> QED  BY <1>2, <1>4, <2>1, TableSet
<1>6. CASE c.status = "queued" /\ c.plan # <<>>
  <2> DEFINE HasRoom(l) == OccupancyBut(task, l, t) < Cap[l]
             S == {l \in Eligible(c.sorting, down) : HasRoom(l)}
  <2>1. PICK n \in 1 .. Seeks : \E left \in SetToSeqs(S) :
          seek[t][n] = Idle /\ SeekOn(t, n, left, Set(t, f))
    BY <1>4, <1>6 DEF Sorted
  <2>2. PICK left \in SetToSeqs(S) : seek[t][n] = Idle /\ SeekOn(t, n, left, Set(t, f))
    BY <2>1
  <2>3. ~c.fetching /\ Len(setup.plan[t]) > 1 /\ c.sorting \subseteq ToSet(setup.plan[t])
        /\ t \in DOMAIN setup.plan
    BY <1>1, <1>2, <1>6 DEF EntryInv, PlanInv
  <2>4. c.sorting \subseteq Lanes /\ n \in 1 .. MaxSeeks /\ n <= setup.seeks
    <3>1. c.sorting \subseteq Lanes  BY <1>1 DEF Entry
    <3>2. setup.seeks \in 1 .. MaxSeeks /\ MaxSeeks \in Nat  BY <1>1, SchedulerAssumption
    <3> QED  BY <3>1, <3>2 DEF Seeks
  <2>5. S \subseteq c.sorting  BY DEF Eligible
  <2>6. left \in Seq(Lanes) /\ ToSet(left) \subseteq ToSet(setup.plan[t])
    <3> HIDE DEF S
    <3>1. S \in SUBSET Lanes  BY <2>4, <2>5
    <3>2. left \in Seq(Lanes) /\ ToSet(left) \subseteq S  BY <3>1, SequencesOfLanes
    <3> QED  BY <2>3, <2>5, <3>2
  <2>7. Seeking(seek[t][n], Idle) /\ slots' \in [Lanes -> Nat] /\ \A l \in Lanes : slots'[l] <= Cap[l]
    BY <1>2, <2>2 DEF Seeking, IInv, Ledgers
  <2> HIDE DEF f, S
  <2> QED  BY <1>2, <1>3, <1>4, <1>6, <2>2, <2>3, <2>4, <2>6, <2>7, SeekOnKeeps
<1> HIDE DEF f
<1>7. \/ task' = Admit(Set(t, f)) /\ UNCHANGED <<seek, timer>>
      \/ c.status = "queued" /\ c.plan # <<>>
  BY <1>4 DEF Sorted, f
<1> QED  BY <1>5, <1>6, <1>7

(* What a placement that waits for the ledger knows of its task.           *)
LEMMA SeekFacts ==
  ASSUME IInv, NEW t \in Tasks, NEW n \in 1 .. MaxSeeks, seek[t][n].phase # "idle"
  PROVE  /\ seek[t][n] \in Seek /\ seek[t][n].left \in Seq(Lanes) /\ seek[t][n].left # <<>>
         /\ n <= setup.seeks /\ t \in DOMAIN setup.plan /\ Len(setup.plan[t]) > 1
         /\ task[t].status # "none" /\ ~task[t].fetching
         /\ setup.seeks = 1 => task[t].status # "running"
         /\ Head(seek[t][n].left) \in ToSet(setup.plan[t]) /\ Head(seek[t][n].left) \in Lanes
         /\ Tail(seek[t][n].left) \in Seq(Lanes)
         /\ ToSet(Tail(seek[t][n].left)) \subseteq ToSet(setup.plan[t])
<1> DEFINE k == seek[t][n]
           left == k.left
<1>1. SeekInv(setup, t, n, k, task[t])  BY DEF IInv, Placements
<1>2. k \in Seek /\ k # Idle  BY <1>1 DEF SeekInv, Idle
<1>3. left \in Seq(Lanes) /\ left # <<>>  BY <1>1, <1>2 DEF SeekInv, Seek
<1>4. ToSet(left) \subseteq ToSet(setup.plan[t])  BY <1>1, <1>2 DEF SeekInv
<1>5. /\ n <= setup.seeks /\ Len(setup.plan[t]) > 1
      /\ task[t].status # "none" /\ ~task[t].fetching
      /\ setup.seeks = 1 => task[t].status # "running"
  BY <1>1, <1>2 DEF SeekInv
<1>6. t \in DOMAIN setup.plan
  <2>1. EntryInv(setup, t, task[t])  BY InvFacts
  <2> QED  BY <1>5, <2>1 DEF EntryInv, PlanInv
<1> HIDE DEF left
<1>7. Head(left) \in Lanes /\ Head(left) \in ToSet(left) /\ Tail(left) \in Seq(Lanes)
      /\ ToSet(Tail(left)) \subseteq ToSet(left)
  <2>1. Head(left) = left[1] /\ 1 \in DOMAIN left /\ Tail(left) \in Seq(Lanes)  BY <1>3
  <2>2. \A i \in DOMAIN Tail(left) : i + 1 \in DOMAIN left /\ Tail(left)[i] = left[i + 1]
    BY <1>3
  <2>3. Head(left) \in ToSet(left)  BY <2>1 DEF ToSet
  <2>4. ToSet(Tail(left)) \subseteq ToSet(left)  BY <2>2 DEF ToSet
  <2>5. left[1] \in Lanes  BY <1>3, <2>1
  <2> QED  BY <2>1, <2>3, <2>4, <2>5
<1> QED  BY <1>2, <1>3, <1>4, <1>5, <1>6, <1>7 DEF left

(* A slot that a placement gives back was taken.                           *)
LEMMA GivenWasTaken ==
  ASSUME IInv, NEW t \in Tasks, NEW n \in 1 .. MaxSeeks, NEW l \in Lanes, Gives(seek[t][n], l)
  PROVE  slots[l] > 0
<1> DEFINE S == ReturningIn(seek, l)
           h == Cardinality(HoldersIn(task, l))
<1>1. <<t, n>> \in S  BY DEF ReturningIn
<1>2. IsFiniteSet(S)  BY TasksAreFinite, FS_Subset DEF ReturningIn
<1>3. Cardinality(S) \in Nat /\ Cardinality(S) # 0  BY <1>1, <1>2, FS_CardinalityType, FS_EmptySet
<1>4. h \in Nat  BY TasksAreFinite, FS_Subset, FS_CardinalityType DEF HoldersIn
<1>5. slots[l] \in Nat /\ freeing[l] \in Nat /\ handing[l] \in Nat  BY DEF IInv, Ledgers
<1>6. Accounted(l) = freeing[l] + handing[l] + h + Cardinality(S)  BY AccountedIsSum
<1>7. Accounted(l) <= slots[l]  BY DEF IInv, NoSlotLost
<1> HIDE DEF S, h
<1> QED  BY <1>3, <1>4, <1>5, <1>6, <1>7

LEMMA SeekReturnedStep ==
  ASSUME IInv, NEW t \in Tasks, NEW n \in 1 .. MaxSeeks, SeekReturned(t, n)
  PROVE  Keeps
<1> DEFINE c == task[t]
           k == seek[t][n]
           l == Head(k.left)
<1>1. /\ setup \in Setups /\ EntryInv(setup, t, c) /\ timer \in BOOLEAN /\ Sound(task)
  BY InvFacts
<1>2. k.phase \in {"return", "drop"} /\ slots' = [slots EXCEPT ![l] = @ - 1]
      /\ UNCHANGED <<freeing, handing, down, setup>>
  BY DEF SeekReturned
<1>3. /\ n <= setup.seeks /\ Len(setup.plan[t]) > 1
      /\ c.status # "none" /\ ~c.fetching /\ (setup.seeks = 1 => c.status # "running")
      /\ l \in Lanes /\ Tail(k.left) \in Seq(Lanes)
      /\ ToSet(Tail(k.left)) \subseteq ToSet(setup.plan[t])
  BY <1>2, SeekFacts
<1>4. \A m \in Lanes : Given(k, m) = Held(l, m)  BY <1>2, GivenIs
<1>5. /\ slots' \in [Lanes -> Nat] /\ \A m \in Lanes : slots'[m] <= Cap[m]
      /\ Seeking(k, Idle)
  <2>1. /\ slots \in [Lanes -> Nat] /\ \A m \in Lanes : slots[m] <= Cap[m] /\ Cap[m] \in Nat
    BY SchedulerAssumption DEF IInv, Ledgers
  <2>2. slots[l] > 0
    <3>1. Gives(k, l)  BY <1>2 DEF Gives
    <3> QED  BY <1>3, <3>1, GivenWasTaken
  <2> HIDE DEF l, k
  <2>3. slots[l] - 1 \in Nat  BY <1>3, <2>1, <2>2
  <2>4. slots' \in [Lanes -> Nat] /\ \A m \in Lanes : slots'[m] <= Cap[m]
    BY <1>2, <1>3, <2>1, <2>3
  <2>5. \A m \in Lanes : slots'[m] + Held(l, m) = slots[m]
    BY <1>2, <1>3, <2>1 DEF Held
  <2>6. \A m \in Lanes : slots'[m] + Given(k, m) = slots[m] + Given(Idle, m)
    <3>1. \A m : Given(Idle, m) = 0  BY IdleIsSeek
    <3> QED  BY <1>4, <2>1, <2>5, <3>1
  <2> QED  BY <2>4, <2>6 DEF Seeking
<1>6. Set(t, c) = task /\ Drift(setup, t, c, c)
  BY <1>1, SetAgain, ReachedAtOnce DEF Reached
<1>7. CASE SeekOn(t, n, Tail(k.left), task)
  <2> HIDE DEF l
  <2> QED  BY <1>1, <1>2, <1>3, <1>5, <1>6, <1>7, SeekOnKeeps
<1>8. CASE seek' = [seek EXCEPT ![t][n] = Idle] /\ task' = Admit(task) /\ UNCHANGED timer
  <2>1. SeekInv(setup, t, n, Idle, c)  BY IdleIsSeek
  <2>2. task' = Admit(Set(t, c))  BY <1>6, <1>8
  <2> HIDE DEF l
  <2> QED  BY <1>1, <1>2, <1>5, <1>6, <1>8, <2>1, <2>2, SeekStep
<1> QED  BY <1>7, <1>8 DEF SeekReturned

-----------------------------------------------------------------------------
(* Passes over a table in which the entry of t is being worked on.         *)

Beside(t, F) ==
  /\ F \in [Tasks -> Entry]
  /\ \A u \in Tasks \ {t} :
       /\ EntryInv(setup, u, F[u]) /\ Drift(setup, u, task[u], F[u])
       /\ F[u].lease = task[u].lease /\ (F[u].blocked => task[u].blocked)

LEMMA PassBeside ==
  ASSUME setup \in Setups, NEW t \in Tasks, NEW E, NEW dead, Beside(t, E),
         E[t].status # "queued", ~E[t].pending
  PROVE  /\ Beside(t, AdmitWith(E, dead))
         /\ AdmitWith(E, dead)[t] = E[t]
<1> DEFINE F == AdmitWith(E, dead)
<1>1. E \in [Tasks -> Entry]  BY DEF Beside
<1>2. /\ F = [u \in Tasks |-> F[u]]
      /\ \A u \in Tasks : AdmitStep(E[u], F[u])
  BY <1>1, PassIsSteps
<1> HIDE DEF F
<1>3. F[t] = E[t]
  <2>1. AdmitStep(E[t], F[t])  BY <1>2
  <2> QED  BY <2>1 DEF AdmitStep, Waits, Startable
<1>4. ASSUME NEW u \in Tasks \ {t}
      PROVE  /\ EntryInv(setup, u, F[u]) /\ Drift(setup, u, task[u], F[u])
             /\ F[u].lease = task[u].lease /\ (F[u].blocked => task[u].blocked)
  <2>1. /\ EntryInv(setup, u, E[u]) /\ Drift(setup, u, task[u], E[u])
        /\ E[u].lease = task[u].lease /\ (E[u].blocked => task[u].blocked)
    BY DEF Beside
  <2>2. EntryInv(setup, u, F[u]) /\ Follows(setup, u, E[u], F[u])
    BY <1>2, <2>1, AdmitStepKeeps
  <2>3. Drift(setup, u, task[u], F[u])  BY <2>1, <2>2, FollowsIsDrift
  <2> QED  BY <2>1, <2>2, <2>3 DEF Follows
<1>5. F \in [Tasks -> Entry]
  <2>1. F[t] \in Entry  BY <1>1, <1>3
  <2>2. \A u \in Tasks : F[u] \in Entry  BY <1>4, <2>1 DEF EntryInv
  <2> QED  BY <1>2, <2>2
<1> QED  BY <1>3, <1>4, <1>5 DEF Beside, F

LEMMA SetBeside ==
  ASSUME NEW t \in Tasks, NEW E, Beside(t, E), NEW e \in Entry
  PROVE  Beside(t, [E EXCEPT ![t] = e]) /\ [E EXCEPT ![t] = e][t] = e
BY DEF Beside

LEMMA TaskBeside ==
  ASSUME Sound(task), NEW t \in Tasks
  PROVE  Beside(t, task)
BY ReachedAtOnce DEF Beside, Sound, Reached

(* A table whose entry of t is sound again.                                *)
LEMMA BesideIsSound ==
  ASSUME NEW t \in Tasks, NEW F, Beside(t, F), EntryInv(setup, t, F[t])
  PROVE  /\ Sound(F) /\ Moves(F, t, F[t].lease)
         /\ Drift(setup, t, task[t], F[t]) => Update(F, t, F[t].lease)
BY DEF Beside, Sound, Moves, Update, Reached

(* The placement has an answer that lets its task run.                     *)
Takes(t, n, l, x) ==
  /\ seek[t][n].phase = "ask" /\ task[t].status = "queued"
  /\ x \in Lanes \cup {None}
  /\ slots' \in [Lanes -> Nat] /\ \A m \in Lanes : slots'[m] <= Cap[m]
  /\ \A m \in Lanes : slots'[m] = slots[m] + Held(x, m)
  /\ MayPlace(setup, t, task[t], l, x)

LEMMA AnswerPlaces ==
  ASSUME IInv, NEW t \in Tasks, NEW n \in 1 .. MaxSeeks, NEW out \in Outcomes,
         seek[t][n].phase = "ask", task[t].status = "queued", out # "full",
         Answer(Head(seek[t][n].left), out), Take(Head(seek[t][n].left), out)
  PROVE  Takes(t, n, Head(seek[t][n].left), LeaseOf(Head(seek[t][n].left), out))
<1> DEFINE c == task[t]
           l == Head(seek[t][n].left)
           x == LeaseOf(l, out)
<1>1. setup \in Setups  BY InvFacts
<1>2. /\ t \in DOMAIN setup.plan /\ Len(setup.plan[t]) > 1 /\ ~c.fetching
      /\ l \in ToSet(setup.plan[t]) /\ l \in Lanes /\ n <= setup.seeks
  BY SeekFacts
<1>3. x \in {l, None} /\ (x # None => setup.ledger)
      /\ (setup.ledger /\ ~setup.fsErrors => x # None)
  BY <1>2, AnswerFacts
<1>4. /\ x \in Lanes \cup {None}
      /\ slots' \in [Lanes -> Nat] /\ \A m \in Lanes : slots'[m] <= Cap[m]
      /\ \A m \in Lanes : slots'[m] = slots[m] + Held(x, m)
  BY <1>2, TakeAdds DEF IInv
<1> HIDE DEF x, l
<1>5. MayPlace(setup, t, c, l, x)  BY <1>2, <1>3 DEF MayPlace
<1> QED  BY <1>4, <1>5 DEF Takes, x, l

LEMMA PlacedStep ==
  ASSUME IInv, NEW t \in Tasks, NEW n \in 1 .. MaxSeeks, NEW l, NEW x, Takes(t, n, l, x),
         NEW p, Begun(setup, t, task[t], x, p),
         task' = Admit(Set(t, p)), seek' = [seek EXCEPT ![t][n] = Idle],
         UNCHANGED <<freeing, handing, down, setup, timer>>
  PROVE  Keeps
<1> DEFINE c == task[t]
<1>1. /\ setup \in Setups /\ EntryInv(setup, t, c) /\ c \in Entry /\ timer \in BOOLEAN /\ Sound(task)
      /\ down \subseteq setup.watched
  BY InvFacts
<1>2. /\ t \in DOMAIN setup.plan /\ Len(setup.plan[t]) > 1 /\ ~c.fetching /\ n <= setup.seeks
      /\ seek[t][n].phase = "ask" /\ c.status = "queued"
  <2>1. seek[t][n].phase = "ask" /\ c.status = "queued"  BY DEF Takes
  <2> QED  BY <2>1, SeekFacts
<1>4. /\ x \in Lanes \cup {None}
      /\ slots' \in [Lanes -> Nat] /\ \A m \in Lanes : slots'[m] <= Cap[m]
      /\ \A m \in Lanes : slots'[m] = slots[m] + Held(x, m)
  BY DEF Takes
<1>6. /\ EntryInv(setup, t, p) /\ p.status = "running" /\ p.lease = x /\ ~p.pending
      /\ p.blocked = c.blocked /\ p.fetching = c.fetching
  BY DEF Begun
<1>7. p \in Entry  BY <1>6 DEF EntryInv
<1>8. Beside(t, Set(t, p)) /\ Set(t, p)[t] = p
  <2>1. Beside(t, task)  BY <1>1, TaskBeside
  <2> QED  BY <1>7, <2>1, SetBeside DEF Set
<1>9. Beside(t, task') /\ task'[t] = p
  BY <1>1, <1>6, <1>8, PassBeside DEF Admit
<1>10. Sound(task') /\ Moves(task', t, x)  BY <1>6, <1>9, BesideIsSound
<1>11. c.lease = None  BY <1>1, <1>2, RunPlaces
<1>12. Ledgers'  BY <1>4 DEF IInv, Ledgers
<1>13. NoSlotLost'
  <2> DEFINE k == seek[t][n]
  <2>1. Balance(t, x, k, Idle)
    <3> SUFFICES ASSUME NEW m \in Lanes
                 PROVE  /\ Has(freeing', handing', x, Idle, m) + slots[m]
                             = Has(freeing, handing, c.lease, k, m) + slots'[m]
                        /\ Has(freeing, handing, c.lease, k, m) + slots'[m] \in Nat
      BY DEF Balance
    <3>1. Given(k, m) = 0 /\ Given(Idle, m) = 0  BY <1>2, IdleIsSeek, GivenIs
    <3>2. Held(c.lease, m) = 0 /\ Held(x, m) \in Nat  BY <1>11, BareIsLane DEF Held
    <3>3. /\ slots[m] \in Nat /\ freeing[m] \in Nat /\ handing[m] \in Nat
          /\ freeing'[m] = freeing[m] /\ handing'[m] = handing[m]
      BY DEF IInv, Ledgers
    <3>4. slots'[m] = slots[m] + Held(x, m)  BY <1>4
    <3> HIDE DEF k
    <3> QED  BY <3>1, <3>2, <3>3, <3>4 DEF Has
  <2> QED  BY <1>10, <1>12, <2>1, BalanceKeeps
<1>14. Placements'
  <2>1. seek \in [Tasks -> [1 .. MaxSeeks -> Seek]]  BY DEF IInv, Placements
  <2>2. Idle \in Seek  BY BareIsLane DEF Idle, Seek
  <2>3. seek' \in [Tasks -> [1 .. MaxSeeks -> Seek]]  BY <2>1, <2>2
  <2>4. ASSUME NEW u \in Tasks, NEW m \in 1 .. MaxSeeks
        PROVE  SeekInv(setup, u, m, seek'[u][m], task'[u])
    <3>1. SeekInv(setup, u, m, seek[u][m], task[u])  BY DEF IInv, Placements
    <3>2. CASE u # t
      <4>1. seek'[u][m] = seek[u][m]  BY <2>1, <3>2
      <4>2. Drift(setup, u, task[u], task'[u])  BY <1>9, <3>2 DEF Beside
      <4> QED  BY <3>1, <4>1, <4>2, SeekStays
    <3>3. CASE u = t /\ m = n
      <4>1. seek'[u][m] = Idle  BY <2>1, <3>3
      <4> QED  BY <4>1, IdleIsSeek
    <3>4. CASE u = t /\ m # n
      <4>1. seek'[u][m] = seek[u][m]  BY <2>1, <3>4
      <4>2. CASE seek[u][m] = Idle  BY <4>1, <4>2, IdleIsSeek
      <4>3. CASE seek[u][m] # Idle
        <5>1. m <= setup.seeks /\ n <= setup.seeks /\ setup.seeks \in Nat /\ MaxSeeks \in Nat
          BY <1>1, <1>2, <3>1, <4>3, SetupFacts, TasksAreFinite DEF SeekInv
        <5>2. setup.seeks # 1  BY <3>4, <5>1
        <5>3. task'[u].status = "running" /\ task'[u].fetching = c.fetching
          BY <1>6, <1>9, <3>4
        <5> QED  BY <1>2, <3>1, <3>4, <4>1, <4>3, <5>2, <5>3 DEF SeekInv
      <4> QED  BY <4>2, <4>3
    <3> QED  BY <3>2, <3>3, <3>4
  <2> QED  BY <2>3, <2>4 DEF Placements
<1>15. (\E u \in Tasks : task'[u].blocked) => timer'
  <2>1. \A u \in Tasks : task'[u].blocked => task[u].blocked
    BY <1>6, <1>9 DEF Beside
  <2> QED  BY <2>1 DEF IInv, BlockedIsRetried
<1>16. NoneRevived
  <2>1. ~c.settled  BY <1>1, <1>2 DEF EntryInv, ColdInv
  <2>2. \A u \in Tasks \ {t} : Drift(setup, u, task[u], task'[u])  BY <1>9 DEF Beside
  <2> QED  BY <2>1, <2>2 DEF Drift, NoneRevived
<1>17. IInv'  BY <1>1, <1>10, <1>12, <1>13, <1>14, <1>15, PartsKeep
<1> QED  BY <1>16, <1>17 DEF Keeps

(* The slot that came is given back.                                       *)
LEMMA GiveBackStep ==
  ASSUME IInv, NEW t \in Tasks, NEW n \in 1 .. MaxSeeks, NEW phase \in {"return", "drop"},
         seek[t][n].phase = "ask",
         Answer(Head(seek[t][n].left), "slot"), Take(Head(seek[t][n].left), "slot"),
         seek' = [seek EXCEPT ![t][n].phase = phase],
         UNCHANGED <<task, timer, freeing, handing, down, setup>>
  PROVE  Keeps
<1> DEFINE s == seek[t][n]
           c == task[t]
           l == Head(s.left)
           k == [s EXCEPT !.phase = phase]
<1>1. setup \in Setups /\ Sound(task) /\ timer \in BOOLEAN  BY InvFacts
<1>2. s \in Seek /\ l \in Lanes  BY SeekFacts
<1>3. k \in Seek /\ k.phase = phase /\ k.left = s.left /\ k # Idle
  BY <1>2 DEF Seek, Idle
<1>4. SeekInv(setup, t, n, s, c) /\ s # Idle
  BY DEF IInv, Placements, Idle
<1>5. seek' = [seek EXCEPT ![t][n] = k]
  <2>1. seek \in [Tasks -> [1 .. MaxSeeks -> Seek]]  BY DEF IInv, Placements
  <2> QED  BY <2>1
<1>6. \A m : Given(s, m) = 0 /\ Given(k, m) = Held(l, m)
  <2>1. s.phase \notin {"return", "drop"} /\ k.phase \in {"return", "drop"}  BY <1>3
  <2>2. Head(k.left) = l  BY <1>3
  <2> HIDE DEF s, k, l
  <2> QED  BY <2>1, <2>2, GivenIs
<1>7. /\ slots' \in [Lanes -> Nat] /\ \A m \in Lanes : slots'[m] <= Cap[m]
      /\ \A m \in Lanes : slots'[m] = slots[m] + Held(l, m)
  <2>1. "slot" \in Outcomes /\ LeaseOf(l, "slot") = l  BY DEF Outcomes, LeaseOf
  <2>2. Ledgers  BY DEF IInv
  <2> HIDE DEF l
  <2>3. Answer(l, "slot") /\ Take(l, "slot")  BY DEF l
  <2> QED  BY <1>2, <2>1, <2>2, <2>3, TakeAdds
<1>8. Seeking(s, k)
  <2>1. \A m \in Lanes : slots[m] \in Nat  BY DEF IInv, Ledgers
  <2> HIDE DEF s, k, l
  <2> QED  BY <1>6, <1>7, <2>1 DEF Seeking, Held
<1>9. SeekInv(setup, t, n, k, c)
  <2> HIDE DEF k
  <2> QED  BY <1>3, <1>4 DEF SeekInv
<1>10. Set(t, c) = task /\ Drift(setup, t, c, c) /\ EntryInv(setup, t, c)
  BY <1>1, SetAgain, ReachedAtOnce, InvFacts DEF Reached
<1>11. task' = Set(t, c)  BY <1>10
<1> HIDE DEF k
<1> QED  BY <1>1, <1>5, <1>7, <1>8, <1>9, <1>10, <1>11, SeekStep

(* No slot came and the placement asks for the next lane, or ends.          *)
LEMMA NoSlotTaken ==
  ASSUME IInv, NEW t \in Tasks, NEW n \in 1 .. MaxSeeks, seek[t][n].phase = "ask",
         UNCHANGED slots
  PROVE  /\ slots' \in [Lanes -> Nat] /\ \A m \in Lanes : slots'[m] <= Cap[m]
         /\ Seeking(seek[t][n], Idle)
<1>1. \A m : Given(seek[t][n], m) = 0 /\ Given(Idle, m) = 0  BY GivenIs, IdleIsSeek
<1> QED  BY <1>1 DEF IInv, Ledgers, Seeking

LEMMA NextLaneStep ==
  ASSUME IInv, NEW t \in Tasks, NEW n \in 1 .. MaxSeeks, seek[t][n].phase = "ask",
         SeekOn(t, n, Tail(seek[t][n].left), task),
         UNCHANGED <<slots, freeing, handing, down, setup>>
  PROVE  Keeps
<1> DEFINE c == task[t]
           left == Tail(seek[t][n].left)
<1>1. EntryInv(setup, t, c) /\ Sound(task)  BY InvFacts
<1>2. /\ slots' \in [Lanes -> Nat] /\ \A m \in Lanes : slots'[m] <= Cap[m]
      /\ Seeking(seek[t][n], Idle)
  BY NoSlotTaken
<1>3. /\ n <= setup.seeks /\ Len(setup.plan[t]) > 1
      /\ c.status # "none" /\ ~c.fetching /\ (setup.seeks = 1 => c.status # "running")
      /\ left \in Seq(Lanes) /\ ToSet(left) \subseteq ToSet(setup.plan[t])
  BY SeekFacts
<1>4. Set(t, c) = task /\ Drift(setup, t, c, c)
  BY <1>1, SetAgain, ReachedAtOnce DEF Reached
<1>5. SeekOn(t, n, left, task)  OBVIOUS
<1> HIDE DEF left
<1> QED  BY <1>1, <1>2, <1>3, <1>4, <1>5, SeekOnKeeps

LEMMA SeekEndsStep ==
  ASSUME IInv, NEW t \in Tasks, NEW n \in 1 .. MaxSeeks, seek[t][n].phase = "ask",
         seek' = [seek EXCEPT ![t][n] = Idle], task' = Admit(task),
         UNCHANGED <<timer, slots, freeing, handing, down, setup>>
  PROVE  Keeps
<1> DEFINE c == task[t]
<1>1. EntryInv(setup, t, c) /\ Sound(task) /\ timer \in BOOLEAN  BY InvFacts
<1>2. /\ slots' \in [Lanes -> Nat] /\ \A m \in Lanes : slots'[m] <= Cap[m]
      /\ Seeking(seek[t][n], Idle)
  BY NoSlotTaken
<1>3. Set(t, c) = task /\ Drift(setup, t, c, c)
  BY <1>1, SetAgain, ReachedAtOnce DEF Reached
<1>4. SeekInv(setup, t, n, Idle, c)  BY IdleIsSeek
<1>5. task' = Admit(Set(t, c))  BY <1>3
<1> QED  BY <1>1, <1>2, <1>3, <1>4, <1>5, SeekStep

LEMMA SeekAnswerStep ==
  ASSUME IInv, NEW t \in Tasks, NEW n \in 1 .. MaxSeeks, NEW out \in Outcomes,
         SeekAnswer(t, n, out)
  PROVE  Keeps
<1> DEFINE s == seek[t][n]
           l == Head(s.left)
           e == task[t]
           x == LeaseOf(l, out)
           p == Begin([e EXCEPT !.lane = l, !.plan = <<>>], x)
<1>1. /\ s.phase = "ask" /\ Answer(l, out) /\ Take(l, out)
      /\ UNCHANGED <<freeing, handing, down, setup>>
  BY DEF SeekAnswer
<1>2. out # "slot" => UNCHANGED slots  BY <1>1 DEF Take
<1>3. ASSUME NEW phase \in {"return", "drop"}, out = "slot",
             seek' = [seek EXCEPT ![t][n].phase = phase], UNCHANGED <<task, timer>>
      PROVE  Keeps
  BY <1>1, <1>3, GiveBackStep
<1>4. CASE e.status # "queued" /\ out = "slot" /\ seek' = [seek EXCEPT ![t][n].phase = "drop"]
           /\ UNCHANGED <<task, timer>>
  BY <1>3, <1>4
<1>5. CASE e.status # "queued" /\ out # "slot" /\ seek' = [seek EXCEPT ![t][n] = Idle]
           /\ task' = Admit(task) /\ UNCHANGED timer
  BY <1>1, <1>2, <1>5, SeekEndsStep
<1>6. CASE e.status = "queued" /\ out # "slot" /\ SeekOn(t, n, Tail(s.left), task)
  BY <1>1, <1>2, <1>6, NextLaneStep
<1>7. CASE e.status = "queued" /\ out = "slot" /\ seek' = [seek EXCEPT ![t][n].phase = "return"]
           /\ UNCHANGED <<task, timer>>
  BY <1>3, <1>7
<1>8. CASE e.status = "queued" /\ out # "full" /\ seek' = [seek EXCEPT ![t][n] = Idle]
           /\ task' = Admit(Set(t, p)) /\ UNCHANGED timer
  <2>1. Takes(t, n, l, x)  BY <1>1, <1>8, AnswerPlaces
  <2>2. Begun(setup, t, e, x, p)
    <3>1. setup \in Setups /\ EntryInv(setup, t, e) /\ MayPlace(setup, t, e, l, x)
      BY <2>1, InvFacts DEF Takes
    <3> QED  BY <3>1, BegunKeeps
  <2> HIDE DEF l, x, p
  <2> QED  BY <1>1, <1>8, <2>1, <2>2, PlacedStep
<1> QED  BY <1>4, <1>5, <1>6, <1>7, <1>8 DEF SeekAnswer

-----------------------------------------------------------------------------
(* The end of a turn: up to three passes, with the entry of t in between.  *)

(* What the entry of t is when agent.run comes back and noteUp has made    *)
(* its pass.                                                               *)
Driving(t, e) ==
  /\ EntryInv(setup, t, e) /\ Drift(setup, t, task[t], e)
  /\ e.status = "running" /\ e.run = "drive" /\ ~task[t].settled
  /\ e.release = task[t].release /\ e.aborted = task[t].aborted
  /\ e.blocked => task[t].blocked

LEMMA NotedIsBeside ==
  ASSUME IInv, NEW t \in Tasks, task[t].run = "drive",
         NEW G, G = task \/ \E dead : G = AdmitWith(Unblocked(task), dead)
  PROVE  Beside(t, G) /\ Driving(t, G[t])
<1> DEFINE c == task[t]
<1>1. setup \in Setups /\ Sound(task) /\ EntryInv(setup, t, c) /\ c \in Entry  BY InvFacts
<1>2. c.status = "running"  BY <1>1, RunPlaces
<1>3. ~c.settled /\ ~c.pending  BY <1>2 DEF IInv, Entries, EntryInv, RunInv
<1>4. Drift(setup, t, c, c)  BY <1>1, ReachedAtOnce DEF Reached
<1>5. CASE G = task
  <2>1. Beside(t, G)  BY <1>1, <1>5, TaskBeside
  <2> QED  BY <1>1, <1>2, <1>3, <1>4, <1>5, <2>1 DEF Driving
<1>6. CASE \E dead : G = AdmitWith(Unblocked(task), dead)
  <2> DEFINE U == Unblocked(task)
             f == [c EXCEPT !.blocked = FALSE]
  <2>1. PICK dead : G = AdmitWith(U, dead)  BY <1>6
  <2>2. /\ Reached(U)
        /\ \A u \in Tasks : U[u].lease = task[u].lease /\ ~U[u].blocked
    BY <1>1, UnblockedReaches
  <2>3. U[t] = f  BY DEF Unblocked
  <2>4. /\ f.status = "running" /\ f.run = "drive" /\ ~f.pending /\ ~f.blocked
        /\ f.release = c.release /\ f.aborted = c.aborted
    BY <1>1, <1>2, <1>3 DEF Entry
  <2> HIDE DEF U, f
  <2>5. Beside(t, U)  BY <2>2 DEF Beside, Reached, Sound
  <2>6. Beside(t, G) /\ G[t] = f
    <3>1. U[t].status # "queued" /\ ~U[t].pending  BY <2>3, <2>4
    <3> QED  BY <1>1, <2>1, <2>3, <2>5, <3>1, PassBeside
  <2>7. EntryInv(setup, t, f) /\ Drift(setup, t, c, f)
    BY <2>2, <2>3 DEF Reached, Sound
  <2> QED  BY <1>3, <2>4, <2>6, <2>7 DEF Driving
<1> QED  BY <1>5, <1>6

LEMMA LastPass ==
  ASSUME setup \in Setups, NEW t \in Tasks, NEW E, Beside(t, E), NEW g,
         EntryInv(setup, t, g), Drift(setup, t, task[t], g),
         g.status # "queued", ~g.pending, g.blocked => task[t].blocked,
         NEW dead, task' = AdmitWith([E EXCEPT ![t] = g], dead)
  PROVE  Update(task', t, g.lease) /\ (task'[t].blocked => task[t].blocked)
<1> DEFINE X == [E EXCEPT ![t] = g]
<1>1. g \in Entry  BY DEF EntryInv
<1>2. Beside(t, X) /\ X[t] = g  BY <1>1, SetBeside
<1>3. task' = AdmitWith(X, dead)  OBVIOUS
<1> HIDE DEF X
<1>4. Beside(t, task') /\ task'[t] = g
  <2>1. X[t].status # "queued" /\ ~X[t].pending  BY <1>2
  <2> QED  BY <1>2, <1>3, <2>1, PassBeside
<1> QED  BY <1>4, BesideIsSound

LEMMA TurnEndsStep ==
  ASSUME IInv, NEW t \in Tasks, NEW result \in Terminal, NEW refused \in BOOLEAN,
         TurnEnds(t, result, refused)
  PROVE  Keeps
<1> DEFINE l == task[t].lane
           G == IF result = "completed" THEN NotedUp(l) ELSE task
           E == [G EXCEPT ![t].run = "none", ![t].ran = TRUE]
           e == G[t]
           f == [e EXCEPT !.run = "none", !.ran = TRUE]
           stays == t \in Parked /\ result = "completed" /\ ~task[t].release /\ ~task[t].aborted
           dead == IF result = "completed" THEN down \ {l}
                   ELSE IF refused THEN down \cup ({l} \cap Watched) ELSE down
<1>1. /\ setup \in Setups /\ timer \in BOOLEAN /\ down \subseteq setup.watched
  BY InvFacts
<1>2. /\ task[t].run = "drive" /\ down' = dead /\ ReleaseSlot(t)
      /\ UNCHANGED <<seek, slots, handing, timer, setup>>
  BY DEF TurnEnds
<1>3. down' \subseteq setup.watched  BY <1>1, <1>2 DEF Watched
<1>4. Beside(t, G) /\ Driving(t, e)
  <2>1. G = task \/ \E gone : G = AdmitWith(Unblocked(task), gone)  BY DEF NotedUp
  <2> HIDE DEF G
  <2> QED  BY <1>2, <2>1, NotedIsBeside
<1>5. \/ stays /\ task' = AdmitWith([E EXCEPT ![t] = Park(@)], dead)
      \/ \E end \in Ends(t, result) :
           task' = AdmitWith([AdmitWith(E, dead) EXCEPT ![t] = Final(@, end)], dead)
  BY DEF TurnEnds
<1> HIDE DEF G, dead
<1>6. e \in Entry /\ EntryInv(setup, t, e) /\ e.status = "running" /\ e.run = "drive"
      /\ ~e.pending
  BY <1>4 DEF Driving, EntryInv, RunInv
<1>7. G \in [Tasks -> Entry]  BY <1>4 DEF Beside
<1>8. E = [G EXCEPT ![t] = f] /\ E[t] = f  BY <1>7
<1>9. /\ f \in Entry /\ f.status = "running" /\ ~f.pending /\ f.run = "none"
      /\ f.blocked = e.blocked
  BY <1>6 DEF Entry, Runs
<1>10. Beside(t, E)
  <2> HIDE DEF E, f, e
  <2>1. Beside(t, [G EXCEPT ![t] = f])  BY <1>4, <1>9, SetBeside
  <2> QED  BY <1>8, <2>1
<1>11. ASSUME NEW F, Beside(t, F), NEW g, EntryInv(setup, t, g), Drift(setup, t, e, g),
              g.run = "none", g.status # "queued", ~g.pending, g.blocked = e.blocked, g.lease = None,
              task' = AdmitWith([F EXCEPT ![t] = g], dead)
       PROVE  Keeps
  <2>1. Drift(setup, t, task[t], g)
    <3>1. Drift(setup, t, task[t], e) /\ ~task[t].settled /\ e.status # "none"
      BY <1>4 DEF Driving
    <3> HIDE DEF e
    <3> QED  BY <1>6, <1>11, <3>1, DriftAgain
  <2>2. g.blocked => task[t].blocked  BY <1>4, <1>11 DEF Driving
  <2>3. Update(task', t, None) /\ (task'[t].blocked => task[t].blocked)
    BY <1>1, <1>11, <2>1, <2>2, LastPass
  <2> QED  BY <1>1, <1>2, <1>3, <2>3, ReleaseStep
<1>12. CASE stays /\ task' = AdmitWith([E EXCEPT ![t] = Park(@)], dead)
  <2> DEFINE g == [e EXCEPT !.run = "none", !.ran = TRUE, !.lease = None]
  <2>1. Park(f) = g  BY <1>6 DEF Park, Entry
  <2>2. EntryInv(setup, t, g) /\ Drift(setup, t, e, g)
    <3>1. t \in setup.parked /\ ~e.release /\ ~e.aborted
      BY <1>4, <1>12 DEF Driving, Parked
    <3> QED  BY <1>1, <1>6, <3>1, ParkKeeps
  <2>3. /\ g.run = "none" /\ g.status # "queued" /\ ~g.pending /\ g.blocked = e.blocked
        /\ g.lease = None
    BY <1>6 DEF Entry
  <2>4. [E EXCEPT ![t] = Park(@)] = [E EXCEPT ![t] = Park(f)]  BY <1>8
  <2> HIDE DEF e, f, g, E
  <2>5. task' = AdmitWith([E EXCEPT ![t] = g], dead)  BY <1>12, <2>1, <2>4
  <2> QED  BY <1>10, <1>11, <2>2, <2>3, <2>5
<1>13. CASE \E end \in Ends(t, result) :
              task' = AdmitWith([AdmitWith(E, dead) EXCEPT ![t] = Final(@, end)], dead)
  <2> DEFINE F == AdmitWith(E, dead)
  <2>1. PICK end \in Ends(t, result) : task' = AdmitWith([F EXCEPT ![t] = Final(@, end)], dead)
    BY <1>13
  <2>2. Beside(t, F) /\ F[t] = f
    <3>1. E[t].status # "queued" /\ ~E[t].pending  BY <1>8, <1>9
    <3> HIDE DEF E
    <3> QED  BY <1>1, <1>8, <1>10, <3>1, PassBeside
  <2>3. end \in Terminal  BY DEF Ends, Terminal
  <2>4. Ending(e, f)  BY <1>6, <1>9 DEF Ending, Entry, Runs
  <2> DEFINE g == Final(f, end)
  <2> HIDE DEF F, f, e
  <2>5. EntryInv(setup, t, g) /\ Drift(setup, t, e, g) /\ g.lease = None /\ g.blocked = e.blocked
    BY <1>1, <1>6, <2>3, <2>4, FinalKeeps
  <2>6. g.run = "none" /\ g.status # "queued" /\ ~g.pending
    BY <1>9, <2>3 DEF Final, Entry, Terminal
  <2>7. [F EXCEPT ![t] = Final(@, end)] = [F EXCEPT ![t] = g]  BY <2>2
  <2> HIDE DEF g
  <2> QED  BY <1>11, <2>1, <2>2, <2>5, <2>6, <2>7
<1> QED  BY <1>5, <1>12, <1>13

-----------------------------------------------------------------------------
(* The theorems.                                                           *)

LEMMA CallerStep ==
  ASSUME IInv, NEW t \in Tasks, Caller(t)
  PROVE  Keeps
BY SpawnStep, TaskTurnStep, CompleteTaskStep, InterruptStep, AskStep DEF Caller

LEMMA ResumeStep ==
  ASSUME IInv, NEW t \in Tasks, Resume(t)
  PROVE  Keeps
<1>1. CASE Planned(t) \/ PlanFails(t) \/ Sorted(t)
  BY <1>1, PlannedStep, PlanFailsStep, SortedStep
<1>2. CASE BuildFails(t) \/ Built(t) \/ Woken(t) \/ Answered(t)
  BY <1>2, BuildFailsStep, BuiltStep, WokenStep, AnsweredStep
<1>3. CASE \E result \in Terminal, refused \in BOOLEAN : TurnEnds(t, result, refused)
  BY <1>3, TurnEndsStep
<1>4. CASE \E n \in 1 .. MaxSeeks : SeekReturned(t, n)
  BY <1>4, SeekReturnedStep
<1> QED  BY <1>1, <1>2, <1>3, <1>4 DEF Resume

LEMMA AcquiredStep ==
  ASSUME IInv, NEW t \in Tasks, NEW out \in Outcomes, Acquired(t, out)
  PROVE  Keeps
<1>1. CASE StartAnswer(t, out)  BY <1>1, StartAnswerStep
<1>2. CASE TurnSlotAnswer(t, out)  BY <1>2, TurnSlotAnswerStep
<1>3. CASE GrantAnswer(t, out)  BY <1>3, GrantAnswerStep
<1>4. CASE SettleAnswer(t, out)  BY <1>4, SettleAnswerStep
<1>5. CASE \E n \in 1 .. MaxSeeks : SeekAnswer(t, n, out)  BY <1>5, SeekAnswerStep
<1> QED  BY <1>1, <1>2, <1>3, <1>4, <1>5 DEF Acquired

LEMMA StutterStep ==
  ASSUME IInv, UNCHANGED vars
  PROVE  Keeps
<1>1. /\ UNCHANGED <<task, seek, slots, freeing, handing, timer, down, setup>>  BY DEF vars
<1>2. Flags' /\ Entries' /\ Placements' /\ Ledgers' /\ BlockedIsRetried'
  BY <1>1 DEF IInv, Flags, Watched, Entries, Placements, Ledgers, BlockedIsRetried
<1>3. NoSlotLost'
  BY <1>1 DEF IInv, NoSlotLost, Accounted, Holders, Returning, Askers
<1>4. NoneRevived  BY <1>1 DEF NoneRevived
<1> QED  BY <1>2, <1>3, <1>4 DEF IInv, Keeps

LEMMA NextStep ==
  ASSUME IInv, [Next]_vars
  PROVE  Keeps
<1>1. CASE \E t \in Tasks : Caller(t) \/ Resume(t) \/ \E out \in Outcomes : Acquired(t, out)
  BY <1>1, CallerStep, ResumeStep, AcquiredStep
<1>2. CASE \E l \in Lanes : Freed(l) \/ Handed(l) \/ SweepDown(l) \/ SweepUp(l)
  BY <1>2, FreedStep, HandedStep, SweepDownStep, SweepUpStep
<1>3. CASE RetryTick  BY <1>3, RetryTickStep
<1>4. CASE UNCHANGED vars  BY <1>4, StutterStep
<1> QED  BY <1>1, <1>2, <1>3, <1>4 DEF Next

LEMMA AbsentIsSound ==
  ASSUME NEW s, NEW t
  PROVE  EntryInv(s, t, Absent) /\ Absent.lease = None /\ ~Absent.blocked
<1>1. Absent \in Entry
  BY BareIsLane DEF Absent, Entry, Runs, Terminal, MaxLoops
<1>2. ColdInv(Absent) /\ OverInv(Absent)  BY DEF Absent, ColdInv, Cold, OverInv, Terminal
<1>3. PlanInv(s, t, Absent)  BY DEF Absent, PlanInv
<1>4. RunInv(s, t, Absent) /\ LeaseInv(s, t, Absent)  BY DEF Absent, RunInv, LeaseInv
<1> QED  BY <1>1, <1>2, <1>3, <1>4 DEF EntryInv, Absent

LEMMA InitKeeps ==
  ASSUME Init
  PROVE  IInv
<1>1. /\ task = [t \in Tasks |-> Absent]
      /\ seek = [t \in Tasks |-> [n \in 1 .. MaxSeeks |-> Idle]]
      /\ slots = [l \in Lanes |-> 0]
      /\ freeing = [l \in Lanes |-> 0] /\ handing = [l \in Lanes |-> 0]
      /\ timer = FALSE /\ down = {} /\ setup \in Setups
  BY DEF Init
<1>2. Flags  BY <1>1 DEF Flags
<1>3. Entries /\ BlockedIsRetried
  <2>1. \A t \in Tasks : task[t] = Absent /\ EntryInv(setup, t, task[t]) /\ ~task[t].blocked
    BY <1>1, AbsentIsSound
  <2>2. Absent \in Entry  BY AbsentIsSound DEF EntryInv
  <2> QED  BY <1>1, <2>1, <2>2 DEF Entries, BlockedIsRetried
<1>4. Placements
  <2>1. \A t \in Tasks, n \in 1 .. MaxSeeks : SeekInv(setup, t, n, Idle, task[t])
    BY IdleIsSeek
  <2>2. Idle \in Seek  BY BareIsLane DEF Idle, Seek
  <2> QED  BY <1>1, <2>1, <2>2 DEF Placements
<1>5. Ledgers
  <2>1. \A l \in Lanes : Cap[l] \in Nat  BY SchedulerAssumption
  <2> QED  BY <1>1, <2>1 DEF Ledgers
<1>6. NoSlotLost
  <2> SUFFICES ASSUME NEW l \in Lanes
               PROVE  Accounted(l) = 0 /\ slots[l] = 0
    BY DEF NoSlotLost
  <2>1. HoldersIn(task, l) = {}
    <3>1. \A t \in Tasks : task[t].lease = None  BY <1>1, AbsentIsSound
    <3> QED  BY <3>1, BareIsLane DEF HoldersIn
  <2>2. ReturningIn(seek, l) = {}
    <3>1. \A t \in Tasks, n \in 1 .. MaxSeeks : ~Gives(seek[t][n], l)
      BY <1>1 DEF Gives, Idle
    <3> QED  BY <3>1 DEF ReturningIn
  <2>3. Accounted(l) = freeing[l] + handing[l] + Cardinality(HoldersIn(task, l))
                         + Cardinality(ReturningIn(seek, l))
    BY AccountedIsSum
  <2>4. Cardinality({}) = 0  BY FS_EmptySet
  <2> QED  BY <1>1, <2>1, <2>2, <2>3, <2>4
<1> QED  BY <1>2, <1>3, <1>4, <1>5, <1>6 DEF IInv

(* The task table, the placements in flight and the slots fit together in  *)
(* every reachable state.                                                  *)
THEOREM Invariant == Spec => []IInv
<1>1. Init => IInv  BY InitKeeps
<1>2. IInv /\ [Next]_vars => IInv'  BY NextStep DEF Keeps
<1> QED  BY <1>1, <1>2, PTL DEF Spec

(* No slot is held twice, forgotten or kept by a finished or idle task:    *)
(* SlotsAccounted, for every number of tasks, lanes and placements.        *)
THEOREM SlotsAreAccounted == Spec => []SlotsAccounted
<1>1. IInv => SlotsAccounted
  <2> SUFFICES ASSUME IInv PROVE SlotsAccounted  OBVIOUS
  <2>1. TypeOK  BY DEF IInv, Flags, Entries, Placements, Ledgers, TypeOK
  <2>2. NoSlotLost  BY DEF IInv
  <2>3. ASSUME NEW t \in Tasks
        PROVE  /\ task[t].status \in Terminal =>
                    /\ task[t].lease = None /\ ~task[t].agent /\ ~task[t].pending
                    /\ task[t].run \notin {"build", "drive", "wait"}
                    /\ task[t].settled
               /\ task[t].settled => task[t].status \in Terminal \cup {"refused"}
    <3>1. EntryInv(setup, t, task[t])  BY InvFacts
    <3>2. task[t].status \in Terminal =>
            /\ task[t].lease = None /\ ~task[t].agent /\ ~task[t].pending
            /\ task[t].run \notin {"build", "drive", "wait"} /\ task[t].settled
      BY <3>1 DEF EntryInv, OverInv
    <3> QED  BY <3>1, <3>2, SettledIsOver
  <2>4. IdleYields
    <3> SUFFICES ASSUME NEW t \in Parked \ Askers,
                        task[t].status = "running", task[t].run = "none"
                 PROVE  task[t].lease = None
      BY DEF IdleYields
    <3>1. t \in Tasks
      <4>1. setup \in Setups  BY DEF IInv, Flags
      <4> QED  BY <4>1, SetupFacts DEF Parked
    <3>2. EntryInv(setup, t, task[t])  BY <3>1, InvFacts
    <3> QED  BY <3>1, <3>2, RunPlaces DEF Askers
  <2> QED  BY <2>1, <2>2, <2>3, <2>4 DEF SlotsAccounted, FinishedIsReleased
<1> QED  BY <1>1, Invariant, PTL

(* Once `done` is resolved the status of a task no longer changes and no   *)
(* agent is built or driven for it.                                        *)
THEOREM FinishedStays == Spec => FinishedIsFinal
<1>1. IInv /\ [Next]_vars =>
        [\A t \in Tasks : task[t].settled =>
           /\ task'[t].settled
           /\ task'[t].status = task[t].status \/ task'[t].status = "refused"
           /\ task'[t].run \in {"none", task[t].run, "woken"}]_vars
  BY NextStep DEF Keeps, NoneRevived
<1> QED  BY <1>1, Invariant, PTL DEF Spec, FinishedIsFinal

-----------------------------------------------------------------------------
(***************************************************************************)
(* Admission.  The turns in flight on a lane are never more than its cap:  *)
(* with a ledger each of them holds one of the slots; without one the      *)
(* admission pass and warmPlace have to count right, and what follows      *)
(* first is their counting.  And nobody is left waiting whom the scheduler *)
(* could serve and will not look at again, which is derived last from      *)
(* what a pass leaves behind.                                              *)
(***************************************************************************)

(* A turn is under way, or its agent is being built for one.               *)
Turning(e) == e.status = "running" /\ e.run \in {"build", "drive", "woken"}

(* The registry counts it (#occupies), and will count one that starts.      *)
Counted(e) ==
  /\ Turning(e) => ~e.pending /\ (e.run = "drive" \/ e.granted \/ ~e.ran)
  /\ e.status = "queued" => ~e.pending /\ ~e.ran

Turns(E, l) == {t \in Tasks : Turning(E[t]) /\ E[t].lane = l}
Within(E, l) == Cardinality(Turns(E, l)) <= Cap[l]

(* The lanes where the cap is meant: all but the bare lane of a process    *)
(* whose placements may move running tasks there.                          *)
Bound(l) == l # Bare \/ Seeks = 1

(* A registry in which every lane is within its cap.                       *)
Fits(E) ==
  /\ E \in [Tasks -> Entry] /\ \A t \in Tasks : Counted(E[t])
  /\ \A l \in Lanes : Bound(l) => Within(E, l)

(* Without a ledger the registry alone keeps the caps.                     *)
TurnInv == ~Ledger => Fits(task)

-----------------------------------------------------------------------------
(* Counting.                                                               *)

(* A nonempty set of tasks has a last member.                              *)
LEMMA LastTask ==
  ASSUME NEW S \in SUBSET Tasks, S # {}
  PROVE  \E t \in S : \A u \in S : u <= t
<1> DEFINE D == {d \in 0 .. N : N - d \in S}
<1>1. N \in Nat  BY TasksAreFinite
<1>2. D \in SUBSET Nat /\ D # {}
  <2>1. PICK t \in S : TRUE  OBVIOUS
  <2>2. t \in 1 .. N  BY DEF Tasks
  <2>3. N - t \in 0 .. N /\ N - (N - t) = t  BY <1>1, <2>2
  <2> QED  BY <1>1, <2>3
<1>3. PICK d \in D : \A e \in D : d <= e  BY <1>2, LeastNumber
<1>4. ASSUME NEW u \in S PROVE u <= N - d
  <2>1. u \in 1 .. N  BY DEF Tasks
  <2>2. N - u \in 0 .. N /\ N - (N - u) = u  BY <1>1, <2>1
  <2>3. d <= N - u  BY <1>3, <2>2
  <2> QED  BY <1>1, <1>3, <2>1, <2>3
<1> QED  BY <1>3, <1>4

(* Tasks that join K one after the other, each of them only while those    *)
(* that joined before it leave room.                                       *)
LEMMA FillsUp ==
  ASSUME NEW K \in SUBSET Tasks, NEW S \in SUBSET Tasks, NEW c \in Nat, Cardinality(K) <= c,
         \A t \in S : Cardinality(K) + Cardinality({u \in S : u < t}) < c
  PROVE  Cardinality(K \cup S) <= c
<1>1. IsFiniteSet(K) /\ IsFiniteSet(S)  BY TasksAreFinite, FS_Subset
<1>2. CASE S = {}
  <2>1. K \cup S = K  BY <1>2
  <2> QED  BY <2>1
<1>3. CASE S # {}
  <2>1. PICK t \in S : \A u \in S : u <= t  BY <1>3, LastTask
  <2>2. {u \in S : u < t} = S \ {t}
    <3>1. S \subseteq Nat  BY TasksAreFinite
    <3>2. \A u \in S : u \in Nat /\ t \in Nat /\ u <= t  BY <2>1, <3>1
    <3>3. \A u \in S : u < t <=> u # t  BY <3>2
    <3> QED  BY <3>3
  <2>3. Cardinality(S \ {t}) = Cardinality(S) - 1  BY <1>1, FS_RemoveElement
  <2>4. /\ Cardinality(K) \in Nat /\ Cardinality(S) \in Nat
        /\ Cardinality(K \cup S) <= Cardinality(K) + Cardinality(S)
        /\ Cardinality(K \cup S) \in Nat
    <3>1. IsFiniteSet(K \cup S) /\ IsFiniteSet(K \cap S)
      BY <1>1, FS_Union, FS_Intersection
    <3>2. /\ Cardinality(K) \in Nat /\ Cardinality(S) \in Nat
          /\ Cardinality(K \cup S) \in Nat /\ Cardinality(K \cap S) \in Nat
      BY <1>1, <3>1, FS_CardinalityType
    <3>3. Cardinality(K \cup S) = Cardinality(K) + Cardinality(S) - Cardinality(K \cap S)
      BY <1>1, FS_Union
    <3> QED  BY <3>2, <3>3
  <2>5. Cardinality(K) + Cardinality(S \ {t}) < c  BY <2>2
  <2> QED  BY <2>3, <2>4, <2>5
<1> QED  BY <1>2, <1>3

LEMMA FewerTasks ==
  ASSUME NEW S \in SUBSET Tasks, NEW R \in SUBSET S
  PROVE  Cardinality(R) <= Cardinality(S) /\ Cardinality(R) \in Nat /\ Cardinality(S) \in Nat
<1>1. IsFiniteSet(S)  BY TasksAreFinite, FS_Subset
<1>2. IsFiniteSet(R)  BY <1>1, FS_Subset
<1> QED  BY <1>1, <1>2, FS_Subset, FS_CardinalityType

LEMMA CapIsNat ==
  ASSUME NEW l \in Lanes
  PROVE  Cap[l] \in Nat
BY SchedulerAssumption

-----------------------------------------------------------------------------
(* The passes.                                                             *)

LEMMA GrantFacts ==
  ASSUME NEW e \in Entry, ~Ledger, Waits(e)
  PROVE  /\ Grant(e) \in Entry /\ Counted(Grant(e)) /\ Turning(Grant(e))
         /\ Grant(e).lane = e.lane
BY DEF Grant, Counted, Turning, Waits, Entry, Runs

(* Waiting warm turns fill a lane up to its cap.                           *)
LEMMA GrantsFit ==
  ASSUME ~Ledger, NEW E, Fits(E)
  PROVE  Fits(WarmGrants(E))
<1> DEFINE G == WarmGrants(E)
<1>1. E \in [Tasks -> Entry] /\ \A t \in Tasks : Counted(E[t])  BY DEF Fits
<1>2. G \in [Tasks -> Entry]  BY <1>1, WarmGrantsIsRegistry
<1>3. \A t \in Tasks : G[t] = E[t] \/ (Waits(E[t]) /\ G[t] = Grant(E[t]))  BY <1>1, GrantStep
<1>4. \A t \in Tasks : Counted(G[t])
  <2> HIDE DEF G
  <2> QED  BY <1>1, <1>3, GrantFacts
<1>5. ASSUME NEW l \in Lanes, Bound(l)
      PROVE  Within(G, l)
  <2> DEFINE K == Turns(E, l)
             Ahead(t) == {u \in 1 .. t - 1 : Waits(E[u]) /\ E[u].lane = E[t].lane}
             S == {t \in Tasks : Waits(E[t]) /\ E[t].lane = l
                                   /\ HoldersOf(E, E[t].lane) + Cardinality(Ahead(t)) < Cap[E[t].lane]}
  <2>1. K \in SUBSET Tasks /\ S \in SUBSET Tasks  BY DEF Turns
  <2>2. Cardinality(K) <= Cap[l]  BY <1>5 DEF Fits, Within
  <2>3. ASSUME NEW t \in S
        PROVE  Cardinality(K) + Cardinality({u \in S : u < t}) < Cap[l]
    <3> DEFINE H == {u \in Tasks : Reserved(E, l, u) /\ ~E[u].pending}
               B == {u \in S : u < t}
    <3>1. Cardinality(H) + Cardinality(Ahead(t)) < Cap[l]  BY DEF HoldersOf
    <3>2. K \subseteq H
      <4> SUFFICES ASSUME NEW u \in K PROVE u \in H  OBVIOUS
      <4>1. u \in Tasks /\ Turning(E[u]) /\ E[u].lane = l /\ Counted(E[u])
        BY <1>1 DEF Turns
      <4> QED  BY <4>1 DEF Counted, Turning, Reserved, Occupies
    <3>3. t \in 1 .. N /\ N \in Nat /\ S \subseteq 1 .. N  BY TasksAreFinite DEF Tasks
    <3>4. B \subseteq Ahead(t)
      <4> SUFFICES ASSUME NEW u \in S, u < t PROVE u \in Ahead(t)  OBVIOUS
      <4>1. u \in 1 .. t - 1  BY <3>3
      <4>2. Waits(E[u]) /\ E[u].lane = E[t].lane  OBVIOUS
      <4> HIDE DEF S
      <4> QED  BY <4>1, <4>2
    <3>5. Ahead(t) \in SUBSET Tasks
      <4>1. 1 .. t - 1 \subseteq 1 .. N  BY <3>3
      <4> QED  BY <4>1 DEF Tasks
    <3> HIDE DEF K, S, H, Ahead
    <3>6. Cardinality(K) <= Cardinality(H) /\ Cardinality(K) \in Nat /\ Cardinality(H) \in Nat
      <4>1. H \in SUBSET Tasks  BY DEF H
      <4> QED  BY <3>2, <4>1, FewerTasks
    <3>7. /\ Cardinality(B) <= Cardinality(Ahead(t)) /\ Cardinality(B) \in Nat
          /\ Cardinality(Ahead(t)) \in Nat
      <4> HIDE DEF B
      <4> QED  BY <3>4, <3>5, FewerTasks
    <3>8. Cap[l] \in Nat  BY CapIsNat
    <3> HIDE DEF B
    <3>9. Cardinality(K) + Cardinality(B) < Cap[l]  BY <3>1, <3>6, <3>7, <3>8
    <3> QED  BY <3>9 DEF B
  <2>4. Turns(G, l) \subseteq K \cup S
    <3> SUFFICES ASSUME NEW t \in Turns(G, l), t \notin K PROVE t \in S  OBVIOUS
    <3>1. t \in Tasks /\ Turning(G[t]) /\ G[t].lane = l  BY DEF Turns
    <3>2. G[t] # E[t]  BY <3>1 DEF Turns
    <3>3. Waits(E[t]) /\ G[t] = Grant(E[t]) /\ E[t].lane = l
      <4> HIDE DEF G
      <4> QED  BY <1>1, <1>3, <3>1, <3>2, GrantFacts
    <3>4. HoldersOf(E, E[t].lane) + Cardinality(Ahead(t)) < Cap[E[t].lane]
      BY <3>1, <3>2 DEF WarmGrants
    <3> QED  BY <3>1, <3>3, <3>4
  <2> HIDE DEF K, S, G
  <2>5. Cap[l] \in Nat  BY CapIsNat
  <2>6. Cardinality(K \cup S) <= Cap[l]  BY <2>1, <2>2, <2>3, <2>5, FillsUp
  <2>7. /\ Cardinality(Turns(G, l)) <= Cardinality(K \cup S)
        /\ Cardinality(Turns(G, l)) \in Nat /\ Cardinality(K \cup S) \in Nat
    BY <2>1, <2>4, FewerTasks
  <2> QED  BY <2>5, <2>6, <2>7 DEF Within
<1> QED  BY <1>2, <1>4, <1>5 DEF Fits

(* What a promise makes of an entry.                                       *)
LEMMA StartFacts ==
  ASSUME ~Ledger, NEW E \in [Tasks -> Entry], \A u \in Tasks : Counted(E[u]),
         NEW dead, NEW p, NEW t \in Tasks,
         NEW x, x = Promise(E, dead, p, t), NEW f, f = StartOn(E[t], x, dead)
  PROVE  /\ f \in Entry /\ Counted(f)
         /\ Turning(f) /\ ~Turning(E[t]) => x = f.lane /\ x \in Room(E, dead, p, t)
         /\ Turning(f) /\ Turning(E[t]) => f.lane = E[t].lane
<1> DEFINE e == E[t]
<1>1. e \in Entry /\ Counted(e)  OBVIOUS
<1>2. CASE x = None  BY <1>1, <1>2 DEF StartOn
<1>3. CASE x # None /\ e.plan = <<>>
  <2>1. Startable(e) /\ x \in Room(E, dead, p, t) /\ x = e.lane  BY <1>3, PromiseHasRoom
  <2>2. f = [e EXCEPT !.status = "running", !.run = "build", !.lease = None]
    BY <1>3 DEF StartOn, TryStart, Begin
  <2>3. e.status = "queued" /\ ~e.pending /\ ~e.ran  BY <1>1, <2>1 DEF Startable, Counted
  <2> HIDE DEF e
  <2>4. f \in Entry /\ f.lane = e.lane /\ ~f.pending /\ ~f.ran /\ f.status = "running"
        /\ f.run = "build"
    BY <1>1, <2>2, <2>3 DEF Entry, Runs
  <2>5. Counted(f) /\ ~Turning(e)  BY <2>3, <2>4 DEF Counted, Turning
  <2> QED  BY <2>1, <2>4, <2>5 DEF e
<1>4. CASE x # None /\ e.plan # <<>>
  <2>1. Startable(e) /\ x \in ToSet(e.plan)  BY <1>4, PromiseHasRoom
  <2>2. f = [e EXCEPT !.lane = x, !.placing = TRUE, !.sorting = Homes(e, dead)]
    BY <1>4 DEF StartOn
  <2>3. e.status = "queued" /\ ~e.pending /\ ~e.ran  BY <1>1, <2>1 DEF Startable, Counted
  <2>4. ToSet(e.plan) \subseteq Lanes /\ Homes(e, dead) \subseteq ToSet(e.plan)
    <3>1. e.plan \in Seq(Lanes)  BY <1>1 DEF Entry
    <3>2. ToSet(e.plan) \subseteq Lanes  BY <3>1 DEF ToSet
    <3> QED  BY <1>4, <3>2 DEF Homes, Eligible
  <2> HIDE DEF e
  <2>5. f \in Entry /\ f.status = "queued" /\ ~f.pending /\ ~f.ran
    BY <1>1, <2>1, <2>2, <2>3, <2>4 DEF Entry
  <2>6. Counted(f) /\ ~Turning(f)  BY <2>5 DEF Counted, Turning
  <2> QED  BY <2>5, <2>6
<1> QED  BY <1>2, <1>3, <1>4

(* Queued tasks that start fill a lane up to its cap.                      *)
LEMMA StartsFit ==
  ASSUME ~Ledger, NEW E, Fits(E), NEW dead
  PROVE  Fits(Starts(E, dead))
<1> DEFINE F == Starts(E, dead)
<1>1. E \in [Tasks -> Entry] /\ \A t \in Tasks : Counted(E[t])  BY DEF Fits
<1>2. PICK p : /\ p = [t \in Tasks |-> Promise(E, dead, p, t)]
               /\ F = [t \in Tasks |-> StartOn(E[t], p[t], dead)]
  BY <1>1, StartsStep
<1> HIDE DEF F
<1>3. ASSUME NEW t \in Tasks
      PROVE  /\ F[t] \in Entry /\ Counted(F[t])
             /\ Turning(F[t]) /\ ~Turning(E[t]) => p[t] = F[t].lane /\ p[t] \in Room(E, dead, p, t)
             /\ Turning(F[t]) /\ Turning(E[t]) => F[t].lane = E[t].lane
  <2>1. p[t] = Promise(E, dead, p, t) /\ F[t] = StartOn(E[t], p[t], dead)  BY <1>2
  <2> QED  BY <1>1, <2>1, StartFacts
<1>4. F \in [Tasks -> Entry]  BY <1>2, <1>3
<1>5. ASSUME NEW l \in Lanes, Bound(l)
      PROVE  Within(F, l)
  <2> DEFINE K == Turns(E, l)
             Before(t) == {u \in 1 .. t - 1 : p[u] = l}
             S == {t \in Tasks : p[t] = l /\ l \in Room(E, dead, p, t)}
  <2>1. K \in SUBSET Tasks /\ S \in SUBSET Tasks  BY DEF Turns
  <2>2. Cardinality(K) <= Cap[l]  BY <1>5 DEF Fits, Within
  <2>3. ASSUME NEW t \in S
        PROVE  Cardinality(K) + Cardinality({u \in S : u < t}) < Cap[l]
    <3> DEFINE H == {u \in Tasks : Reserved(E, l, u)}
               B == {u \in S : u < t}
    <3>1. Cardinality(H) + Cardinality(Before(t)) < Cap[l]  BY DEF Room, Occupancy
    <3>2. K \subseteq H
      <4> SUFFICES ASSUME NEW u \in K PROVE u \in H  OBVIOUS
      <4>1. u \in Tasks /\ Turning(E[u]) /\ E[u].lane = l /\ Counted(E[u])
        BY <1>1 DEF Turns
      <4> QED  BY <4>1 DEF Counted, Turning, Reserved, Occupies
    <3>3. t \in 1 .. N /\ N \in Nat /\ S \subseteq 1 .. N  BY TasksAreFinite DEF Tasks
    <3>4. B \subseteq Before(t)
      <4> SUFFICES ASSUME NEW u \in S, u < t PROVE u \in Before(t)  OBVIOUS
      <4>1. u \in 1 .. t - 1  BY <3>3
      <4> QED  BY <4>1
    <3>5. Before(t) \in SUBSET Tasks
      <4>1. 1 .. t - 1 \subseteq 1 .. N  BY <3>3
      <4> QED  BY <4>1 DEF Tasks
    <3> HIDE DEF K, S, H, Before
    <3>6. Cardinality(K) <= Cardinality(H) /\ Cardinality(K) \in Nat /\ Cardinality(H) \in Nat
      <4>1. H \in SUBSET Tasks  BY DEF H
      <4> QED  BY <3>2, <4>1, FewerTasks
    <3>7. /\ Cardinality(B) <= Cardinality(Before(t)) /\ Cardinality(B) \in Nat
          /\ Cardinality(Before(t)) \in Nat
      <4> HIDE DEF B
      <4> QED  BY <3>4, <3>5, FewerTasks
    <3>8. Cap[l] \in Nat  BY CapIsNat
    <3> HIDE DEF B
    <3>9. Cardinality(K) + Cardinality(B) < Cap[l]  BY <3>1, <3>6, <3>7, <3>8
    <3> QED  BY <3>9 DEF B
  <2>4. Turns(F, l) \subseteq K \cup S
    <3> SUFFICES ASSUME NEW t \in Turns(F, l), t \notin K PROVE t \in S  OBVIOUS
    <3>1. t \in Tasks /\ Turning(F[t]) /\ F[t].lane = l  BY DEF Turns
    <3>2. ~Turning(E[t])  BY <1>3, <3>1 DEF Turns
    <3> QED  BY <1>3, <3>1, <3>2
  <2> HIDE DEF K, S
  <2>5. Cap[l] \in Nat  BY CapIsNat
  <2>6. Cardinality(K \cup S) <= Cap[l]  BY <2>1, <2>2, <2>3, <2>5, FillsUp
  <2>7. /\ Cardinality(Turns(F, l)) <= Cardinality(K \cup S)
        /\ Cardinality(Turns(F, l)) \in Nat /\ Cardinality(K \cup S) \in Nat
    BY <2>1, <2>4, FewerTasks
  <2> QED  BY <2>5, <2>6, <2>7 DEF Within
<1> QED  BY <1>3, <1>4, <1>5 DEF Fits, F

LEMMA PassFits ==
  ASSUME ~Ledger, NEW E, Fits(E), NEW dead
  PROVE  Fits(AdmitWith(E, dead))
<1>1. Fits(WarmGrants(E))  BY GrantsFit
<1>2. Fits(Starts(WarmGrants(E), dead))  BY <1>1, StartsFit
<1> QED  BY <1>2, AdmitIsTwoPasses

-----------------------------------------------------------------------------
(* Updates that start no turn.                                             *)

(* No turn begins, and one that changes its lane goes to the bare lane.     *)
Calm(e, f) ==
  /\ f \in Entry /\ Counted(f)
  /\ Turning(f) => Turning(e) /\ (f.lane = e.lane \/ (f.lane = Bare /\ Seeks # 1))

LEMMA CalmFits ==
  ASSUME NEW E, Fits(E), NEW F, F = [t \in Tasks |-> F[t]],
         \A t \in Tasks : Calm(E[t], F[t])
  PROVE  Fits(F)
<1>1. F \in [Tasks -> Entry] /\ \A t \in Tasks : Counted(F[t])  BY DEF Calm
<1>2. ASSUME NEW l \in Lanes, Bound(l)
      PROVE  Within(F, l)
  <2>1. Turns(F, l) \subseteq Turns(E, l)  BY <1>2 DEF Turns, Calm, Bound
  <2>2. Turns(E, l) \in SUBSET Tasks  BY DEF Turns
  <2>3. /\ Cardinality(Turns(F, l)) <= Cardinality(Turns(E, l))
        /\ Cardinality(Turns(F, l)) \in Nat /\ Cardinality(Turns(E, l)) \in Nat
    BY <2>1, <2>2, FewerTasks
  <2>4. Cap[l] \in Nat /\ Cardinality(Turns(E, l)) <= Cap[l]
    BY <1>2, CapIsNat DEF Fits, Within
  <2> QED  BY <2>3, <2>4 DEF Within
<1> QED  BY <1>1, <1>2 DEF Fits

LEMMA CalmSetFits ==
  ASSUME NEW E, Fits(E), NEW t \in Tasks, NEW f, Calm(E[t], f)
  PROVE  Fits([E EXCEPT ![t] = f]) /\ [E EXCEPT ![t] = f][t] = f
<1> DEFINE F == [E EXCEPT ![t] = f]
<1>1. E \in [Tasks -> Entry] /\ \A u \in Tasks : Counted(E[u])  BY DEF Fits
<1>2. F = [u \in Tasks |-> F[u]] /\ F[t] = f /\ \A u \in Tasks \ {t} : F[u] = E[u]  BY <1>1
<1>3. \A u \in Tasks : Calm(E[u], F[u])  BY <1>1, <1>2 DEF Calm
<1> HIDE DEF F
<1>4. Fits(F)  BY <1>2, <1>3, CalmFits
<1> QED  BY <1>2, <1>4 DEF F

LEMMA SoundIsCounted ==
  ASSUME NEW t \in Tasks, NEW e, EntryInv(setup, t, e)
  PROVE  Counted(e)
<1>1. CASE e.status = "running"
  BY <1>1 DEF EntryInv, RunInv, Counted, Turning
<1>2. CASE e.status # "running"
  BY <1>2 DEF EntryInv, ColdInv, Cold, Counted, Turning
<1> QED  BY <1>1, <1>2

(* A step that sets the entry of t, with a pass or without.                *)
LEMMA CalmStep ==
  ASSUME ~Ledger, Fits(task), NEW t \in Tasks, NEW f, Calm(task[t], f),
         task' = Set(t, f) \/ task' = Admit(Set(t, f))
  PROVE  Fits(task')
<1>1. Fits(Set(t, f))  BY CalmSetFits DEF Set
<1>2. \A dead : Fits(AdmitWith(Set(t, f), dead))  BY <1>1, PassFits
<1> QED  BY <1>1, <1>2 DEF Admit

(* What ends is no longer a turn.                                          *)
LEMMA FinalIsCalm ==
  ASSUME NEW e, NEW g \in Entry, NEW end \in Terminal
  PROVE  Calm(e, Final(g, end))
<1> DEFINE f == Final(g, end)
<1>1. f \in Entry
  <2> DEFINE r == IF g.run = "wait" THEN "woken" ELSE g.run
  <2>1. r \in Runs  BY DEF Entry, Runs
  <2>2. f = [g EXCEPT !.status = end, !.agent = FALSE, !.lease = None, !.settled = TRUE,
                      !.pending = FALSE, !.granted = FALSE, !.run = r]
    BY DEF Final, Entry
  <2> HIDE DEF r, f
  <2> QED  BY <2>1, <2>2 DEF Entry
<1>2. f.status = end
  BY DEF Final, Entry
<1> HIDE DEF f
<1>3. f.status \notin {"running", "queued"}  BY <1>2 DEF Terminal
<1> QED  BY <1>1, <1>3 DEF Calm, Turning, Counted, f

LEMMA UnblockedFits ==
  ASSUME NEW E, Fits(E), NEW F, F = [t \in Tasks |-> F[t]],
         \A t \in Tasks : \E b \in BOOLEAN : F[t] = [E[t] EXCEPT !.blocked = b]
  PROVE  Fits(F)
<1>1. ASSUME NEW t \in Tasks
      PROVE  Calm(E[t], F[t])
  <2> DEFINE e == E[t]
             f == F[t]
  <2>1. e \in Entry /\ Counted(e)  BY DEF Fits
  <2>2. PICK b \in BOOLEAN : f = [e EXCEPT !.blocked = b]  OBVIOUS
  <2> HIDE DEF e, f
  <2>3. /\ f \in Entry /\ f.status = e.status /\ f.run = e.run /\ f.lane = e.lane
        /\ f.pending = e.pending /\ f.granted = e.granted /\ f.ran = e.ran
    BY <2>1, <2>2 DEF Entry
  <2>4. Calm(e, f)  BY <2>1, <2>3 DEF Calm, Counted, Turning
  <2> QED  BY <2>4 DEF e, f
<1> QED  BY <1>1, CalmFits

(* Entries that differ in nothing the caps look at.                        *)
Alike(e, f) ==
  /\ f \in Entry /\ f.status = e.status /\ f.run = e.run /\ f.lane = e.lane
  /\ f.pending = e.pending /\ f.granted = e.granted /\ f.ran = e.ran

LEMMA AlikeIsCalm ==
  ASSUME NEW e, Counted(e), NEW f, Alike(e, f)
  PROVE  Calm(e, f)
BY DEF Alike, Calm, Counted, Turning

-----------------------------------------------------------------------------
(* Every step keeps the lanes within their caps.                           *)

LEMMA CallerFits ==
  ASSUME IInv, ~Ledger, Fits(task), NEW t \in Tasks, Caller(t)
  PROVE  Fits(task')
<1> DEFINE e == task[t]
<1>1. /\ setup \in Setups /\ EntryInv(setup, t, e) /\ e \in Entry  BY InvFacts
<1>2. Counted(e)  BY <1>1, SoundIsCounted
<1>3. CASE Spawn(t)
  <2> DEFINE f == [Absent EXCEPT !.status = "queued", !.fetching = TRUE, !.planning = TRUE]
  <2>1. EntryInv(setup, t, f)  BY <1>1, <1>3, SpawnKeeps DEF Spawn, Plan
  <2>2. f.status = "queued"  BY DEF Absent
  <2>3. task' = Set(t, f)  BY <1>3 DEF Spawn
  <2> HIDE DEF f
  <2>4. Calm(e, f)
    <3>1. Counted(f)  BY <2>1, SoundIsCounted
    <3> QED  BY <2>1, <2>2, <3>1 DEF Calm, Turning, EntryInv
  <2> QED  BY <2>3, <2>4, CalmStep
<1>4. CASE TaskTurn(t)
  <2> DEFINE f == [e EXCEPT !.granted = FALSE, !.pending = TRUE, !.run = "wait"]
  <2>1. e.status = "running"  BY <1>4 DEF TaskTurn, Ready
  <2>2. task' = Admit(Set(t, f))  BY <1>4 DEF TaskTurn, Queue
  <2>3. f \in Entry /\ f.status = "running" /\ f.run = "wait"  BY <1>1, <2>1 DEF Entry, Runs
  <2> HIDE DEF f
  <2>4. Calm(e, f)  BY <2>3 DEF Calm, Turning, Counted
  <2> QED  BY <2>2, <2>4, CalmStep
<1>5. CASE CompleteTask(t)
  <2> DEFINE f == [e EXCEPT !.release = TRUE]
  <2>1. Alike(e, f)  BY <1>1 DEF Alike, Entry
  <2>2. task' = Admit(Set(t, Final(f, "completed"))) \/ task' = Set(t, f)
    BY <1>5 DEF CompleteTask
  <2> HIDE DEF f
  <2>3. Calm(e, f) /\ f \in Entry  BY <1>2, <2>1, AlikeIsCalm DEF Alike
  <2>4. Calm(e, Final(f, "completed"))  BY <2>3, FinalIsCalm DEF Terminal
  <2> QED  BY <2>2, <2>3, <2>4, CalmStep
<1>6. CASE Interrupt(t)
  <2> DEFINE f == [e EXCEPT !.status = "cancelled", !.settled = TRUE, !.planning = FALSE,
                            !.placing = FALSE, !.plan = <<>>, !.lane = Bare]
             g == [e EXCEPT !.aborted = TRUE]
  <2>1. task' = Admit(Set(t, f)) \/ task' = Admit(Set(t, Final(e, "cancelled")))
          \/ task' = Set(t, g)
    BY <1>6 DEF Interrupt
  <2>2. Calm(e, f)
    <3>1. f \in Entry /\ f.status = "cancelled"  BY <1>1, BareIsLane DEF Entry, Terminal
    <3> HIDE DEF f
    <3> QED  BY <3>1 DEF Calm, Turning, Counted
  <2>3. Calm(e, g)
    <3>1. Alike(e, g)  BY <1>1 DEF Alike, Entry
    <3> HIDE DEF g
    <3> QED  BY <1>2, <3>1, AlikeIsCalm
  <2>4. Calm(e, Final(e, "cancelled"))  BY <1>1, FinalIsCalm DEF Terminal
  <2> HIDE DEF f, g
  <2> QED  BY <2>1, <2>2, <2>3, <2>4, CalmStep
<1>7. CASE Ask(t)
  <2> DEFINE f == [e EXCEPT !.asking = TRUE, !.lease = None]
  <2>1. Alike(e, f)  BY <1>1 DEF Alike, Entry
  <2>2. task' = Set(t, f)  BY <1>7 DEF Ask
  <2> HIDE DEF f
  <2> QED  BY <1>2, <2>1, <2>2, AlikeIsCalm, CalmStep
<1> QED  BY <1>3, <1>4, <1>5, <1>6, <1>7 DEF Caller

(* A placement goes on to its next lane, or ends on the bare lane.          *)
LEMMA SeekOnFits ==
  ASSUME ~Ledger, Fits(task), NEW t \in Tasks, NEW n, NEW left,
         NEW f, Calm(task[t], f), f.status = "running" => Seeks # 1,
         SeekOn(t, n, left, Set(t, f))
  PROVE  Fits(task')
<1> DEFINE g == [f EXCEPT !.lane = Bare, !.blocked = f.blocked]
<1>1. f \in Entry /\ Counted(f)  BY DEF Calm
<1>2. CASE task' = Set(t, f)  BY <1>2, CalmStep
<1>3. CASE task' = Admit([Set(t, f) EXCEPT ![t] = NoHome(@)])
  <2>1. NoHome(f) = g  BY <1>1 DEF NoHome, Entry
  <2>2. /\ g \in Entry /\ g.status = f.status /\ g.run = f.run /\ g.lane = Bare
        /\ g.pending = f.pending /\ g.granted = f.granted /\ g.ran = f.ran
    BY <1>1, BareIsLane DEF Entry
  <2> HIDE DEF g
  <2>3. Counted(g) /\ (Turning(g) => Turning(f) /\ Seeks # 1)
    BY <1>1, <2>2 DEF Counted, Turning
  <2>4. Calm(task[t], g)  BY <2>2, <2>3 DEF Calm
  <2>5. task \in [Tasks -> Entry]  BY DEF Fits
  <2>6. [Set(t, f) EXCEPT ![t] = NoHome(@)] = Set(t, NoHome(f))  BY <2>5 DEF Set
  <2> QED  BY <1>3, <2>1, <2>4, <2>6, CalmStep
<1> QED  BY <1>2, <1>3 DEF SeekOn

(* The placement that starts its task has looked at the registry again.    *)
LEMMA PlacedFits ==
  ASSUME ~Ledger, Fits(task), NEW t \in Tasks, NEW l \in Lanes,
         task[t].status = "queued", ~Filled(t, l),
         NEW p \in Entry, p.status = "running", p.run = "build", p.lane = l,
         ~p.pending, ~p.ran
  PROVE  Fits(Set(t, p))
<1> DEFINE F == Set(t, p)
<1>1. task \in [Tasks -> Entry] /\ \A u \in Tasks : Counted(task[u])  BY DEF Fits
<1>2. F \in [Tasks -> Entry] /\ F[t] = p /\ \A u \in Tasks \ {t} : F[u] = task[u]
  BY <1>1 DEF Set
<1> HIDE DEF F
<1>3. \A u \in Tasks : Counted(F[u])  BY <1>1, <1>2 DEF Counted, Turning
<1>4. ASSUME NEW m \in Lanes, Bound(m)
      PROVE  Within(F, m)
  <2>1. CASE m # l
    <3>1. Turns(F, m) \subseteq Turns(task, m)  BY <1>2, <2>1 DEF Turns
    <3>2. Turns(task, m) \in SUBSET Tasks  BY DEF Turns
    <3>3. /\ Cardinality(Turns(F, m)) <= Cardinality(Turns(task, m))
          /\ Cardinality(Turns(F, m)) \in Nat /\ Cardinality(Turns(task, m)) \in Nat
      BY <3>1, <3>2, FewerTasks
    <3>4. Cap[m] \in Nat /\ Cardinality(Turns(task, m)) <= Cap[m]
      BY <1>4, CapIsNat DEF Fits, Within
    <3> QED  BY <3>3, <3>4 DEF Within
  <2>2. CASE m = l
    <3> DEFINE H == {u \in Tasks \ {t} : Reserved(task, l, u)}
               T == Turns(F, l) \ {t}
    <3>1. Cap[l] \in Nat  BY CapIsNat
    <3>2. IsFiniteSet(H) /\ IsFiniteSet(Turns(F, l))
      BY TasksAreFinite, FS_Subset DEF Turns
    <3>3. Cardinality(H) \in Nat /\ Cardinality(Turns(F, l)) \in Nat
      BY <3>2, FS_CardinalityType
    <3>4. Cardinality(H) < Cap[l]  BY <3>1, <3>3 DEF Filled, OccupancyBut
    <3>5. T \subseteq H
      <4> SUFFICES ASSUME NEW u \in T PROVE u \in H  OBVIOUS
      <4>1. u \in Tasks \ {t} /\ Turning(task[u]) /\ task[u].lane = l /\ Counted(task[u])
        BY <1>1, <1>2 DEF Turns
      <4> QED  BY <4>1 DEF Counted, Turning, Reserved, Occupies
    <3>6. Cardinality(T) <= Cardinality(H)
      <4>1. H \in SUBSET Tasks  OBVIOUS
      <4> HIDE DEF H, T
      <4> QED  BY <3>5, <4>1, FewerTasks
    <3>7. Cardinality(T) = Cardinality(Turns(F, l)) - 1 \/ Cardinality(T) = Cardinality(Turns(F, l))
      BY <3>2, FS_RemoveElement
    <3> HIDE DEF H, T
    <3>8. Cardinality(Turns(F, l)) <= Cap[l]  BY <3>1, <3>3, <3>4, <3>6, <3>7
    <3> QED  BY <2>2, <3>8 DEF Within
  <2> QED  BY <2>1, <2>2
<1> QED  BY <1>2, <1>3, <1>4 DEF Fits, F

LEMMA SeekAnswerFits ==
  ASSUME IInv, ~Ledger, Fits(task), NEW t \in Tasks, NEW n \in 1 .. MaxSeeks,
         NEW out \in Outcomes, SeekAnswer(t, n, out)
  PROVE  Fits(task')
<1> DEFINE s == seek[t][n]
           l == Head(s.left)
           e == task[t]
           x == LeaseOf(l, out)
           p == Begin([e EXCEPT !.lane = l, !.plan = <<>>], x)
<1>1. /\ setup \in Setups /\ EntryInv(setup, t, e) /\ e \in Entry /\ Sound(task)  BY InvFacts
<1>2. s.phase = "ask"  BY DEF SeekAnswer
<1>3. l \in Lanes /\ Len(setup.plan[t]) > 1 /\ ~e.fetching /\ (setup.seeks = 1 => e.status # "running")
  BY <1>2, SeekFacts
<1>4. Counted(e) /\ Set(t, e) = task  BY <1>1, SoundIsCounted, SetAgain
<1>5. Calm(e, e)
  <2>1. Alike(e, e)  BY <1>1 DEF Alike
  <2> QED  BY <1>4, <2>1, AlikeIsCalm
<1>6. CASE UNCHANGED task  BY <1>6
<1>7. CASE task' = Admit(task)  BY <1>7, PassFits DEF Admit
<1>8. CASE SeekOn(t, n, Tail(s.left), task)
  <2>1. SeekOn(t, n, Tail(s.left), Set(t, e))  BY <1>4, <1>8
  <2> QED  BY <1>3, <1>5, <2>1, SeekOnFits DEF Seeks
<1>9. CASE e.status = "queued" /\ ~Filled(t, l) /\ task' = Admit(Set(t, p))
  <2>1. x \in {l, None}  BY DEF LeaseOf
  <2>2. e.status = "queued" /\ ~e.pending /\ ~e.ran  BY <1>4, <1>9 DEF Counted
  <2>3. p = [e EXCEPT !.lane = l, !.plan = <<>>, !.status = "running", !.run = "build", !.lease = x]
    BY <1>1 DEF Begin, Entry
  <2> HIDE DEF p, x
  <2>4. /\ p \in Entry /\ p.status = "running" /\ p.run = "build" /\ p.lane = l
        /\ ~p.pending /\ ~p.ran
    BY <1>1, <1>3, <2>1, <2>2, <2>3, BareIsLane DEF Entry, Runs
  <2>5. Fits(Set(t, p))
    <3>1. ~Filled(t, l) /\ e.status = "queued"  BY <1>9
    <3> HIDE DEF l
    <3> QED  BY <1>3, <2>4, <3>1, PlacedFits
  <2> QED  BY <1>9, <2>5, PassFits DEF Admit
<1> QED  BY <1>6, <1>7, <1>8, <1>9 DEF SeekAnswer

LEMMA AcquiredFits ==
  ASSUME IInv, ~Ledger, Fits(task), NEW t \in Tasks, NEW out \in Outcomes, Acquired(t, out)
  PROVE  Fits(task')
<1>1. EntryInv(setup, t, task[t])  BY InvFacts
<1>2. ~task[t].acquiring /\ ~task[t].granting /\ task[t].run # "slot" /\ ~(task[t].settling > 0)
  BY <1>1 DEF EntryInv, PlanInv, LeaseInv, Ledger
<1>3. \E n \in 1 .. MaxSeeks : SeekAnswer(t, n, out)
  BY <1>2 DEF Acquired, StartAnswer, TurnSlotAnswer, GrantAnswer, SettleAnswer
<1> QED  BY <1>3, SeekAnswerFits

LEMMA TurnEndsFits ==
  ASSUME IInv, ~Ledger, Fits(task), NEW t \in Tasks, NEW result \in Terminal,
         NEW refused \in BOOLEAN, TurnEnds(t, result, refused)
  PROVE  Fits(task')
<1> DEFINE l == task[t].lane
           G == IF result = "completed" THEN NotedUp(l) ELSE task
           E == [G EXCEPT ![t].run = "none", ![t].ran = TRUE]
           e == G[t]
           f == [e EXCEPT !.run = "none", !.ran = TRUE]
           dead == IF result = "completed" THEN down \ {l}
                   ELSE IF refused THEN down \cup ({l} \cap Watched) ELSE down
<1>1. task[t].run = "drive"  BY DEF TurnEnds
<1>2. G = task \/ \E gone : G = AdmitWith(Unblocked(task), gone)  BY DEF NotedUp
<1>3. \/ task' = AdmitWith([E EXCEPT ![t] = Park(@)], dead)
      \/ \E end \in Ends(t, result) :
           task' = AdmitWith([AdmitWith(E, dead) EXCEPT ![t] = Final(@, end)], dead)
  BY DEF TurnEnds
<1> HIDE DEF G, dead
<1>4. Fits(G)
  <2>1. Fits(Unblocked(task))
    <3> DEFINE U == Unblocked(task)
    <3>1. U = [u \in Tasks |-> [task[u] EXCEPT !.blocked = FALSE]]  BY DEF Unblocked
    <3>2. U = [u \in Tasks |-> U[u]]
          /\ \A u \in Tasks : \E b \in BOOLEAN : U[u] = [task[u] EXCEPT !.blocked = b]
      BY <3>1
    <3> HIDE DEF U
    <3>3. Fits(U)  BY <3>2, UnblockedFits
    <3> QED  BY <3>3 DEF U
  <2> QED  BY <1>2, <2>1, PassFits
<1>5. G \in [Tasks -> Entry] /\ e \in Entry /\ e.status = "running"
  <2>1. Driving(t, e)  BY <1>1, <1>2, NotedIsBeside
  <2> QED  BY <1>4, <2>1 DEF Fits, Driving
<1>6. E = [G EXCEPT ![t] = f]  BY <1>5
<1>7. f \in Entry /\ Park(f) \in Entry /\ f.status = "running" /\ f.run = "none"
      /\ Park(f).status = "running" /\ Park(f).run = "none"
  BY <1>5 DEF Entry, Runs, Park
<1>8. Calm(e, f) /\ Calm(f, Park(f))
  <2> HIDE DEF f
  <2> QED  BY <1>7 DEF Calm, Turning, Counted
<1> HIDE DEF e, f
<1>9. Fits(E) /\ E[t] = f
  <2> HIDE DEF E
  <2>1. Calm(G[t], f)  BY <1>8 DEF e
  <2> QED  BY <1>4, <1>6, <2>1, CalmSetFits
<1> HIDE DEF E
<1>10. CASE task' = AdmitWith([E EXCEPT ![t] = Park(@)], dead)
  <2>1. [E EXCEPT ![t] = Park(@)] = [E EXCEPT ![t] = Park(f)]  BY <1>9
  <2>2. Fits([E EXCEPT ![t] = Park(f)])  BY <1>8, <1>9, CalmSetFits
  <2> QED  BY <1>10, <2>1, <2>2, PassFits
<1>11. CASE \E end \in Ends(t, result) :
              task' = AdmitWith([AdmitWith(E, dead) EXCEPT ![t] = Final(@, end)], dead)
  <2> DEFINE F == AdmitWith(E, dead)
  <2>1. PICK end \in Ends(t, result) : task' = AdmitWith([F EXCEPT ![t] = Final(@, end)], dead)
    BY <1>11
  <2>2. Fits(F)  BY <1>9, PassFits
  <2> HIDE DEF F
  <2>3. end \in Terminal  BY DEF Ends, Terminal
  <2>4. F[t] \in Entry  BY <2>2 DEF Fits
  <2>5. Calm(F[t], Final(F[t], end))  BY <2>3, <2>4, FinalIsCalm
  <2>6. [F EXCEPT ![t] = Final(@, end)] = [F EXCEPT ![t] = Final(F[t], end)]  OBVIOUS
  <2>7. Fits([F EXCEPT ![t] = Final(F[t], end)])  BY <2>2, <2>5, CalmSetFits
  <2> QED  BY <2>1, <2>6, <2>7, PassFits
<1> QED  BY <1>3, <1>10, <1>11

LEMMA ResumeFits ==
  ASSUME IInv, ~Ledger, Fits(task), NEW t \in Tasks, Resume(t)
  PROVE  Fits(task')
<1> DEFINE e == task[t]
<1>1. /\ setup \in Setups /\ EntryInv(setup, t, e) /\ e \in Entry /\ Sound(task)  BY InvFacts
<1>2. Counted(e)  BY <1>1, SoundIsCounted
<1>3. CASE Planned(t)
  <2> DEFINE f == [e EXCEPT !.fetching = FALSE]
             g == [e EXCEPT
               !.fetching = FALSE, !.planning = FALSE,
               !.lane = IF Len(setup.plan[t]) > 1 THEN Bare ELSE Head(setup.plan[t]),
               !.plan = IF Len(setup.plan[t]) > 1 THEN setup.plan[t] ELSE <<>>]
  <2>1. e.fetching /\ f.status = e.status  BY <1>1, <1>3 DEF Planned, Entry
  <2>2. CASE e.status # "queued"
    <3>1. task' = Set(t, f)  BY <1>3, <2>1, <2>2 DEF Planned
    <3>2. Alike(e, f)  BY <1>1 DEF Alike, Entry
    <3> HIDE DEF f
    <3> QED  BY <1>2, <3>1, <3>2, AlikeIsCalm, CalmStep
  <2>3. CASE e.status = "queued"
    <3>1. task' = Admit(Set(t, g))  BY <1>3, <2>1, <2>3 DEF Planned, Plan
    <3>2. EntryInv(setup, t, g) /\ g.status = "queued"
      <4>1. EntryInv(setup, t, g)  BY <1>1, <2>1, <2>3, PlannedKeeps
      <4>2. g.status = "queued"  BY <1>1, <2>3 DEF Entry
      <4> QED  BY <4>1, <4>2
    <3> HIDE DEF g
    <3>3. Calm(e, g)
      <4>1. Counted(g)  BY <3>2, SoundIsCounted
      <4> QED  BY <3>2, <4>1 DEF Calm, Turning, EntryInv
    <3> QED  BY <3>1, <3>3, CalmStep
  <2> QED  BY <2>2, <2>3
<1>4. CASE PlanFails(t)
  <2> DEFINE f == [Absent EXCEPT !.status = "refused", !.settled = e.settled]
  <2>1. task' = Set(t, f)  BY <1>4 DEF PlanFails
  <2>2. f \in Entry
    <3>1. e.settled \in BOOLEAN  BY <1>1 DEF Entry
    <3> QED  BY <3>1, RefusedIsEntry
  <2>3. f.status = "refused"  BY DEF Absent
  <2> HIDE DEF f
  <2>4. Calm(e, f)  BY <2>2, <2>3 DEF Calm, Turning, Counted
  <2> QED  BY <2>1, <2>4, CalmStep
<1>5. CASE Sorted(t)
  <2> DEFINE f == [e EXCEPT !.sorting = {}, !.placing = FALSE]
  <2>1. \/ task' = Admit(Set(t, f))
        \/ e.status = "queued" /\ \E n, left : SeekOn(t, n, left, Set(t, f))
    <3>1. f.status = e.status  BY <1>1 DEF Entry
    <3> QED  BY <1>5, <3>1 DEF Sorted
  <2>2. Alike(e, f)  BY <1>1 DEF Alike, Entry
  <2> HIDE DEF f
  <2>3. Calm(e, f)  BY <1>2, <2>2, AlikeIsCalm
  <2>4. CASE task' = Admit(Set(t, f))  BY <2>3, <2>4, CalmStep
  <2>5. CASE e.status = "queued" /\ \E n, left : SeekOn(t, n, left, Set(t, f))
    <3>1. f.status # "running"  BY <2>2, <2>5 DEF Alike
    <3> QED  BY <2>3, <2>5, <3>1, SeekOnFits
  <2> QED  BY <2>1, <2>4, <2>5
<1>6. CASE BuildFails(t) \/ (Built(t) /\ e.aborted)
  <2> DEFINE g == [e EXCEPT !.run = "none"]
  <2>1. \E end \in Terminal : task' = Admit(Set(t, Final(g, end)))
    BY <1>6 DEF BuildFails, Built, Ends, Terminal
  <2>2. g \in Entry  BY <1>1 DEF Entry, Runs
  <2> HIDE DEF g
  <2> QED  BY <2>1, <2>2, FinalIsCalm, CalmStep
<1>7. CASE Built(t) /\ ~e.aborted
  <2> DEFINE f == [e EXCEPT !.run = "drive", !.agent = TRUE]
  <2>1. task' = Set(t, f) /\ e.run = "build"  BY <1>7 DEF Built
  <2>2. e.status = "running"  BY <1>1, <2>1, RunPlaces
  <2>3. /\ f \in Entry /\ f.status = "running" /\ f.run = "drive" /\ f.lane = e.lane
        /\ f.pending = e.pending
    BY <1>1, <2>2 DEF Entry, Runs
  <2> HIDE DEF f
  <2>4. Calm(e, f)  BY <1>2, <2>1, <2>2, <2>3 DEF Calm, Turning, Counted
  <2> QED  BY <2>1, <2>4, CalmStep
<1>8. CASE Woken(t)
  <2> DEFINE r == IF Dead([e EXCEPT !.granted = FALSE]) THEN "none" ELSE "drive"
             f == [e EXCEPT !.granted = FALSE, !.run = r]
  <2>1. task' = Set(t, f) /\ e.run = "woken"  BY <1>1, <1>8 DEF Woken, Entry
  <2>2. r \in {"none", "drive"} /\ (r = "drive" => e.status = "running")
    BY <1>1 DEF Dead, Entry
  <2>3. /\ f \in Entry /\ f.status = e.status /\ f.run = r /\ f.lane = e.lane
        /\ f.pending = e.pending /\ f.ran = e.ran
    <3> HIDE DEF r
    <3> QED  BY <1>1, <2>2 DEF Entry, Runs
  <2> HIDE DEF f, r
  <2>4. Calm(e, f)  BY <1>2, <2>1, <2>2, <2>3 DEF Calm, Turning, Counted
  <2> QED  BY <2>1, <2>4, CalmStep
<1>9. CASE Answered(t)
  <2> DEFINE f == [e EXCEPT !.asking = FALSE]
  <2>1. task' = Set(t, f)
    <3>1. ~(task[t].settling < MaxLoops /\ Ledger)  OBVIOUS
    <3> QED  BY <1>9 DEF Answered
  <2>2. Alike(e, f)  BY <1>1 DEF Alike, Entry
  <2> HIDE DEF f
  <2> QED  BY <1>2, <2>1, <2>2, AlikeIsCalm, CalmStep
<1>10. CASE \E result \in Terminal, refused \in BOOLEAN : TurnEnds(t, result, refused)
  BY <1>10, TurnEndsFits
<1>11. CASE \E n \in 1 .. MaxSeeks : SeekReturned(t, n)
  <2>1. PICK n \in 1 .. MaxSeeks : SeekReturned(t, n)  BY <1>11
  <2>2. seek[t][n].phase # "idle"  BY <2>1 DEF SeekReturned
  <2>3. setup.seeks = 1 => e.status # "running"  BY <2>2, SeekFacts
  <2>4. Set(t, e) = task  BY <1>1, SetAgain
  <2>5. Alike(e, e)  BY <1>1 DEF Alike
  <2>6. Calm(e, e)  BY <1>2, <2>5, AlikeIsCalm
  <2>7. CASE SeekOn(t, n, Tail(seek[t][n].left), task)
    <3>1. SeekOn(t, n, Tail(seek[t][n].left), Set(t, e))  BY <2>4, <2>7
    <3> QED  BY <2>3, <2>6, <3>1, SeekOnFits DEF Seeks
  <2>8. CASE task' = Admit(task)  BY <2>8, PassFits DEF Admit
  <2> QED  BY <2>1, <2>7, <2>8 DEF SeekReturned
<1> QED  BY <1>3, <1>4, <1>5, <1>6, <1>7, <1>8, <1>9, <1>10, <1>11 DEF Resume

LEMMA MarksFit ==
  ASSUME ~Ledger, Fits(task), NEW W, NEW dead,
         task' = AdmitWith([t \in Tasks |-> [task[t] EXCEPT !.blocked = @ /\ t \notin W]], dead)
  PROVE  Fits(task')
<1> DEFINE U == [t \in Tasks |-> [task[t] EXCEPT !.blocked = @ /\ t \notin W]]
<1>1. U = [t \in Tasks |-> U[t]]  OBVIOUS
<1>2. ASSUME NEW t \in Tasks
      PROVE  \E b \in BOOLEAN : U[t] = [task[t] EXCEPT !.blocked = b]
  <2> DEFINE b == task[t].blocked /\ t \notin W
  <2>1. b \in BOOLEAN  OBVIOUS
  <2>2. task[t] \in Entry  BY DEF Fits
  <2>3. U[t] = [task[t] EXCEPT !.blocked = b]  BY <2>2 DEF Entry
  <2> HIDE DEF b, U
  <2> QED  BY <2>1, <2>3
<1>3. task' = AdmitWith(U, dead)  OBVIOUS
<1> HIDE DEF U
<1>4. Fits(U)  BY <1>1, <1>2, UnblockedFits
<1> QED  BY <1>3, <1>4, PassFits

LEMMA ClearedFits ==
  ASSUME ~Ledger, Fits(task), NEW dead, task' = AdmitWith(Unblocked(task), dead)
  PROVE  Fits(task')
<1> DEFINE U == Unblocked(task)
<1>1. U = [u \in Tasks |-> [task[u] EXCEPT !.blocked = FALSE]]  BY DEF Unblocked
<1>2. U = [u \in Tasks |-> U[u]]
      /\ \A u \in Tasks : \E b \in BOOLEAN : U[u] = [task[u] EXCEPT !.blocked = b]
  BY <1>1
<1>3. task' = AdmitWith(U, dead)  OBVIOUS
<1> HIDE DEF U
<1>4. Fits(U)  BY <1>2, UnblockedFits
<1> QED  BY <1>3, <1>4, PassFits

LEMMA LanesFit ==
  ASSUME ~Ledger, Fits(task),
         \/ RetryTick
         \/ \E l \in Lanes : Freed(l) \/ Handed(l) \/ SweepDown(l) \/ SweepUp(l)
  PROVE  Fits(task')
<1>1. CASE RetryTick  BY <1>1, ClearedFits DEF RetryTick, Admit
<1>2. ASSUME NEW l \in Lanes, Freed(l)
      PROVE  Fits(task')
  <2> DEFINE W == {t \in Tasks : task[t].blocked /\ task[t].lane = l}
  <2>1. \/ task' = task
        \/ task' = AdmitWith([t \in Tasks |-> [task[t] EXCEPT !.blocked = @ /\ t \notin W]], down)
    BY <1>2 DEF Freed, Admit
  <2> HIDE DEF W
  <2> QED  BY <2>1, MarksFit
<1>3. ASSUME NEW l \in Lanes, Handed(l) \/ SweepDown(l)
      PROVE  Fits(task')
  BY <1>3 DEF Handed, SweepDown
<1>4. ASSUME NEW l \in Lanes, SweepUp(l)
      PROVE  Fits(task')
  BY <1>4, ClearedFits DEF SweepUp
<1> QED  BY <1>1, <1>2, <1>3, <1>4

LEMMA SetupStays ==
  ASSUME [Next]_vars
  PROVE  setup' = setup
<1>1. ASSUME NEW t \in Tasks, Caller(t)
      PROVE  setup' = setup
  BY <1>1 DEF Caller, Spawn, TaskTurn, CompleteTask, Interrupt, Ask
<1>2. ASSUME NEW t \in Tasks, Resume(t)
      PROVE  setup' = setup
  BY <1>2 DEF Resume, Planned, PlanFails, Sorted, BuildFails, Built, Woken, Answered,
              TurnEnds, SeekReturned
<1>3. ASSUME NEW t \in Tasks, NEW out \in Outcomes, Acquired(t, out)
      PROVE  setup' = setup
  BY <1>3 DEF Acquired, StartAnswer, TurnSlotAnswer, GrantAnswer, SettleAnswer, SeekAnswer
<1>4. ASSUME NEW l \in Lanes, Freed(l) \/ Handed(l) \/ SweepDown(l) \/ SweepUp(l)
      PROVE  setup' = setup
  BY <1>4 DEF Freed, Handed, SweepDown, SweepUp
<1>5. RetryTick => setup' = setup  BY DEF RetryTick
<1>6. UNCHANGED vars => setup' = setup  BY DEF vars
<1> QED  BY <1>1, <1>2, <1>3, <1>4, <1>5, <1>6 DEF Next

LEMMA TurnStep ==
  ASSUME IInv, TurnInv, [Next]_vars
  PROVE  TurnInv'
<1>1. setup' = setup  BY SetupStays
<1>2. ASSUME ~Ledger
      PROVE  Fits(task')
  <2>1. Fits(task)  BY <1>2 DEF TurnInv
  <2>2. CASE Next  BY <1>2, <2>1, <2>2, CallerFits, ResumeFits, AcquiredFits, LanesFit DEF Next
  <2>3. CASE UNCHANGED vars  BY <2>1, <2>3 DEF vars
  <2> QED  BY <2>2, <2>3
<1> QED  BY <1>1, <1>2 DEF TurnInv, Fits, Within, Turns, Bound, Seeks, Ledger

LEMMA TurnInit ==
  ASSUME Init
  PROVE  TurnInv
<1>1. \A t \in Tasks : task[t] = Absent /\ Absent \in Entry /\ Counted(Absent) /\ ~Turning(Absent)
  BY AbsentIsSound DEF Init, EntryInv, Counted, Turning, Absent
<1>2. task \in [Tasks -> Entry]  BY <1>1 DEF Init
<1>3. ASSUME NEW l \in Lanes
      PROVE  Within(task, l)
  <2>1. Turns(task, l) = {}  BY <1>1 DEF Turns
  <2> QED  BY <2>1, CapIsNat, FS_EmptySet DEF Within
<1> QED  BY <1>1, <1>2, <1>3 DEF TurnInv, Fits

-----------------------------------------------------------------------------
(* With a ledger, the turns of a lane hold slots of it.                    *)
LEMMA HeldWithin ==
  ASSUME IInv, Ledger, ~FsErrors, Askers = {}, NEW l \in Lanes, Bound(l)
  PROVE  Cardinality({t \in Tasks : Calling(t) /\ task[t].lane = l}) <= Cap[l]
<1> DEFINE T == {t \in Tasks : Calling(t) /\ task[t].lane = l}
           h == Cardinality(HoldersIn(task, l))
           r == Cardinality(ReturningIn(seek, l))
<1>1. ASSUME NEW t \in T PROVE task[t].lease = l
  <2>1. EntryInv(setup, t, task[t]) /\ setup \in Setups  BY InvFacts
  <2>2. task[t].run = "drive" /\ task[t].lane = l  BY DEF Calling
  <2>3. task[t].status = "running"  BY <2>1, <2>2, RunPlaces
  <2>4. task[t].lease # None  BY <2>1, <2>2, <2>3 DEF EntryInv, LeaseInv, Ledger, FsErrors, Askers
  <2>5. setup.seeks \in Nat  BY <2>1, SetupFacts
  <2> QED  BY <2>1, <2>2, <2>4, <2>5 DEF EntryInv, LeaseInv, Bound, Seeks
<1>2. T \subseteq HoldersIn(task, l)  BY <1>1 DEF HoldersIn
<1>3. HoldersIn(task, l) \in SUBSET Tasks  BY DEF HoldersIn
<1>4. Cardinality(T) <= h /\ Cardinality(T) \in Nat /\ h \in Nat
  <2> HIDE DEF T
  <2> QED  BY <1>2, <1>3, FewerTasks
<1>5. r \in Nat  BY TasksAreFinite, FS_Subset, FS_CardinalityType DEF ReturningIn
<1>6. slots[l] \in Nat /\ freeing[l] \in Nat /\ handing[l] \in Nat /\ slots[l] <= Cap[l]
      /\ Cap[l] \in Nat
  BY CapIsNat DEF IInv, Ledgers
<1>7. Accounted(l) = freeing[l] + handing[l] + h + r  BY AccountedIsSum
<1>8. Accounted(l) <= slots[l]  BY DEF IInv, NoSlotLost
<1> HIDE DEF T, h, r
<1>9. Cardinality(T) <= Cap[l]  BY <1>4, <1>5, <1>6, <1>7, <1>8
<1> QED  BY <1>9 DEF T

(* Without one, they are turns that the registry counts.                   *)
LEMMA CountedWithin ==
  ASSUME IInv, ~Ledger, Fits(task), NEW l \in Lanes, Bound(l)
  PROVE  Cardinality({t \in Tasks : Calling(t) /\ task[t].lane = l}) <= Cap[l]
<1> DEFINE T == {t \in Tasks : Calling(t) /\ task[t].lane = l}
<1>1. T \subseteq Turns(task, l)
  <2> SUFFICES ASSUME NEW t \in T PROVE t \in Turns(task, l)  OBVIOUS
  <2>1. EntryInv(setup, t, task[t]) /\ task[t].run = "drive" /\ task[t].lane = l
    BY InvFacts DEF Calling
  <2>2. task[t].status = "running"  BY <2>1, RunPlaces
  <2> QED  BY <2>1, <2>2 DEF Turns, Turning
<1>2. Turns(task, l) \in SUBSET Tasks  BY DEF Turns
<1>3. Cardinality(Turns(task, l)) <= Cap[l] /\ Cap[l] \in Nat  BY CapIsNat DEF Fits, Within
<1> HIDE DEF T
<1>4. /\ Cardinality(T) <= Cardinality(Turns(task, l)) /\ Cardinality(T) \in Nat
      /\ Cardinality(Turns(task, l)) \in Nat
  BY <1>1, <1>2, FewerTasks
<1>5. Cardinality(T) <= Cap[l]  BY <1>3, <1>4
<1> QED  BY <1>5 DEF T

(* A turn in flight holds a slot of its lane, runs where its task may run, *)
(* alone in its agent, and a lane never has more of them than its cap, for *)
(* every number of tasks, lanes, caps and placements: TurnsAdmitted.       *)
THEOREM TurnsAreAdmitted == Spec => []TurnsAdmitted
<1>1. IInv /\ TurnInv => TurnsAdmitted
  <2> SUFFICES ASSUME IInv, TurnInv PROVE TurnsAdmitted  OBVIOUS
  <2>1. ASSUME NEW t \in Tasks
        PROVE  EntryInv(setup, t, task[t]) /\ (task[t].run = "drive" => task[t].status = "running")
    <3>1. EntryInv(setup, t, task[t])  BY InvFacts
    <3> QED  BY <3>1, RunPlaces
  <2>2. QuietTurnHoldsSlot
    BY <2>1 DEF QuietTurnHoldsSlot, Calling, EntryInv, LeaseInv, Ledger, FsErrors, Askers
  <2>3. LaneCap
    BY HeldWithin, CountedWithin DEF LaneCap, TurnInv, Bound
  <2>4. OneTurnAtATime
    <3> SUFFICES ASSUME NEW t \in Tasks, Ready(t) PROVE task[t].run = "none"
      BY DEF OneTurnAtATime
    <3>1. EntryInv(setup, t, task[t])  BY <2>1
    <3> QED  BY <3>1, RunPlaces DEF Ready
  <2>5. RunsWhereItMay
    BY <2>1 DEF RunsWhereItMay, EntryInv, RunInv, Plan, Seeks
  <2> QED  BY <2>2, <2>3, <2>4, <2>5 DEF TurnsAdmitted
<1>2. Init => TurnInv  BY TurnInit
<1>3. IInv /\ TurnInv /\ [Next]_vars => TurnInv'  BY TurnStep
<1> QED  BY <1>1, <1>2, <1>3, Invariant, PTL DEF Spec

-----------------------------------------------------------------------------
(* Nobody waits in vain.  When the pass leaves somebody waiting who could  *)
(* go on, somebody else is at work on whose account he waits, and will run *)
(* the pass again.                                                         *)

(* A waiting turn or a queued task that a pass may serve.                  *)
Served(e) == Waits(e) \/ Startable(e)

(* A task whose turn, start or placement is under way.                     *)
Busy(e) ==
  \/ e.status = "running" /\ e.run # "none" /\ ~e.pending
  \/ e.status = "queued" /\ e.acquiring
  \/ e.sorting # {}

AtPlacing == \E t \in Tasks, n \in 1 .. MaxSeeks : seek[t][n] # Idle

(* While somebody waits who is not blocked, somebody is at work.           *)
Attended(E) == (\E t \in Tasks : Served(E[t])) => \E u \in Tasks : Busy(E[u])
WakeInv == timer \/ AtPlacing \/ Attended(task)

(* Who reserves a place on a lane is at work, or waits for it himself.     *)
LEMMA HolderIsBusy ==
  ASSUME NEW E, NEW t \in Tasks, EntryInv(setup, t, E[t]), Occupies(E, t) \/ E[t].placing
  PROVE  Busy(E[t]) \/ E[t].pending
<1> DEFINE e == E[t]
<1>1. CASE e.placing  BY <1>1 DEF EntryInv, PlanInv, Busy
<1>2. CASE Occupies(E, t)
  <2>1. e.status = "running" /\ (e.run = "none" => t \in setup.parked /\ e.ran /\ ~e.pending /\ ~e.granted)
    BY <1>2 DEF Occupies, EntryInv, RunInv
  <2>2. e.run # "none"  BY <1>2, <2>1 DEF Occupies, Parked
  <2> QED  BY <2>1, <2>2 DEF Busy
<1> QED  BY <1>1, <1>2

(* A promised place sets its task to work.                                 *)
LEMMA StartedIsBusy ==
  ASSUME NEW t \in Tasks, NEW e \in Entry, Startable(e), NEW l, NEW dead, l # None,
         e.plan # <<>> => l \in Homes(e, dead),
         NEW f, f = StartOn(e, l, dead), EntryInv(setup, t, f)
  PROVE  Busy(f)
<1>1. e.status = "queued"  BY DEF Startable
<1>2. CASE e.plan = <<>> /\ Ledger
  <2>1. f = [e EXCEPT !.acquiring = TRUE]  BY <1>2 DEF StartOn, TryStart
  <2> QED  BY <1>1, <2>1 DEF Busy, Entry
<1>3. CASE e.plan = <<>> /\ ~Ledger
  <2>1. f = [e EXCEPT !.status = "running", !.run = "build", !.lease = None]
    BY <1>3 DEF StartOn, TryStart, Begin
  <2>2. f.status = "running" /\ f.run = "build"  BY <2>1 DEF Entry
  <2>3. ~f.pending  BY <2>2 DEF EntryInv, RunInv
  <2> QED  BY <2>2, <2>3 DEF Busy
<1>4. CASE e.plan # <<>>
  <2>1. f = [e EXCEPT !.lane = l, !.placing = TRUE, !.sorting = Homes(e, dead)]
    BY <1>4 DEF StartOn
  <2>2. f.sorting = Homes(e, dead)  BY <2>1 DEF Entry
  <2> QED  BY <1>4, <2>2 DEF Busy
<1> QED  BY <1>2, <1>3, <1>4

LEMMA GrantedIsBusy ==
  ASSUME NEW t \in Tasks, NEW e \in Entry, Waits(e), NEW f, f = Grant(e), EntryInv(setup, t, f)
  PROVE  Busy(f) /\ f # e
<1>1. f.status = "running" /\ f.granted /\ ~f.pending  BY DEF Grant, Waits, Entry
<1>2. f.run # "none"  BY <1>1 DEF EntryInv, RunInv
<1> QED  BY <1>1, <1>2 DEF Busy, Waits

LEMMA PlanLanes ==
  ASSUME NEW plan \in Seq(Lanes)
  PROVE  ToSet(plan) \subseteq Lanes /\ (plan # <<>> => ToSet(plan) # {})
<1>1. \A i \in DOMAIN plan : plan[i] \in Lanes  OBVIOUS
<1>2. plan # <<>> => 1 \in DOMAIN plan  OBVIOUS
<1> QED  BY <1>1, <1>2 DEF ToSet

(* A queued task with room somewhere is promised a place.                  *)
LEMMA RoomIsPromised ==
  ASSUME NEW E \in [Tasks -> Entry], NEW dead, NEW p, NEW t \in Tasks, Startable(E[t]),
         Room(E, dead, p, t) # {}
  PROVE  Promise(E, dead, p, t) # None
<1> DEFINE room == Room(E, dead, p, t)
           plan == E[t].plan
           good == {i \in DOMAIN plan : plan[i] \in room}
<1>1. E[t].lane \in Lanes /\ plan \in Seq(Lanes) /\ None \notin Lanes
  BY BareIsLane DEF Entry
<1>2. CASE plan = <<>>
  BY <1>1, <1>2 DEF Promise
<1>3. CASE plan # <<>>
  <2>1. Promise(E, dead, p, t) = plan[Min(good)]  BY <1>3 DEF Promise
  <2>2. room \subseteq ToSet(plan)  BY <1>3 DEF Room, Homes, Eligible
  <2>3. PICK l \in room : l \in ToSet(plan)  BY <2>2
  <2>4. PICK i \in DOMAIN plan : plan[i] = l  BY <2>3 DEF ToSet
  <2>5. good # {} /\ good \in SUBSET Nat  BY <1>1, <2>3, <2>4
  <2>6. plan[Min(good)] \in room
    <3>1. Min(good) \in good  BY <2>5, MinIsMember
    <3> QED  BY <3>1
  <2>7. ToSet(plan) \subseteq Lanes  BY <1>1, PlanLanes
  <2> HIDE DEF room, good
  <2> QED  BY <1>1, <2>1, <2>2, <2>6, <2>7
<1> QED  BY <1>2, <1>3

LEMMA HomesAreLanes ==
  ASSUME NEW e \in Entry, NEW dead
  PROVE  Homes(e, dead) # {} /\ Homes(e, dead) \subseteq Lanes
<1>1. e.plan \in Seq(Lanes) /\ e.lane \in Lanes  BY DEF Entry
<1>2. ToSet(e.plan) \subseteq Lanes /\ (e.plan # <<>> => ToSet(e.plan) # {})
  BY <1>1, PlanLanes
<1> QED  BY <1>1, <1>2 DEF Homes, Eligible

LEMMA CapIsPositive ==
  ASSUME NEW l \in Lanes
  PROVE  Cap[l] \in Nat /\ 0 < Cap[l]
BY SchedulerAssumption

(* With nobody at work and nobody blocked, a pass that sets nobody to work *)
(* has found nobody to serve.                                              *)
LEMMA PassAttends ==
  ASSUME NEW E \in [Tasks -> Entry], NEW dead, NEW F, F = AdmitWith(E, dead),
         \A t \in Tasks : EntryInv(setup, t, F[t]) /\ ~F[t].blocked /\ ~Busy(F[t])
  PROVE  \A t \in Tasks : ~Served(F[t])
<1> DEFINE G == WarmGrants(E)
<1>1. G \in [Tasks -> Entry]  BY WarmGrantsIsRegistry
<1>2. PICK p : /\ p = [t \in Tasks |-> Promise(G, dead, p, t)]
               /\ F = [t \in Tasks |-> StartOn(G[t], p[t], dead)]
  BY <1>1, StartsStep, AdmitIsTwoPasses
<1>3. \A t \in Tasks : G[t] = E[t] \/ (Waits(E[t]) /\ G[t] = Grant(E[t]))  BY GrantStep
<1>4. ASSUME NEW t \in Tasks PROVE p[t] = None
  <2> HIDE DEF G
  <2> SUFFICES ASSUME p[t] # None PROVE FALSE  OBVIOUS
  <2>1. p[t] = Promise(G, dead, p, t)  BY <1>2
  <2>2. Startable(G[t]) /\ p[t] \in Room(G, dead, p, t)  BY <1>1, <2>1, PromiseHasRoom
  <2>3. p[t] \in Homes(G[t], dead)  BY <2>2 DEF Room
  <2>4. F[t] = StartOn(G[t], p[t], dead) /\ G[t] \in Entry  BY <1>1, <1>2
  <2> QED  BY <2>2, <2>3, <2>4, StartedIsBusy
<1>5. \A t \in Tasks : F[t] = G[t]  BY <1>2, <1>4 DEF StartOn
<1>6. ASSUME NEW t \in Tasks PROVE G[t] = E[t]
  <2>1. E[t] \in Entry  OBVIOUS
  <2> HIDE DEF G
  <2> QED  BY <1>3, <1>5, <2>1, GrantedIsBusy
<1>7. G = E /\ F = E
  <2> HIDE DEF G
  <2> QED  BY <1>1, <1>2, <1>5, <1>6
<1>8. ASSUME NEW t \in Tasks, NEW l, Reserved(E, l, t) PROVE E[t].pending /\ Waits(E[t])
  <2>1. EntryInv(setup, t, E[t]) /\ ~Busy(E[t]) /\ ~E[t].blocked  BY <1>7
  <2>2. E[t].pending  BY <1>8, <2>1, HolderIsBusy DEF Reserved
  <2> QED  BY <2>1, <2>2, RunPlaces DEF Waits
<1>9. \A t \in Tasks : ~Waits(E[t])
  <2> DEFINE S == {t \in Tasks : Waits(E[t])}
  <2> SUFFICES ASSUME S # {} PROVE FALSE  OBVIOUS
  <2>1. S \in SUBSET Nat  BY TasksAreFinite
  <2>2. PICK t \in S : \A u \in S : t <= u  BY <2>1, LeastNumber
  <2> DEFINE l == E[t].lane
             Ahead == {u \in 1 .. t - 1 : Waits(E[u]) /\ E[u].lane = l}
  <2>3. t \in Tasks /\ Waits(E[t]) /\ l \in Lanes  BY DEF Entry
  <2>4. HoldersOf(E, l) = 0
    <3>1. {u \in Tasks : Reserved(E, l, u) /\ ~E[u].pending} = {}  BY <1>8
    <3> QED  BY <3>1, FS_EmptySet DEF HoldersOf
  <2>5. Ahead = {}
    <3>1. t \in 1 .. N /\ N \in Nat  BY <2>3, TasksAreFinite DEF Tasks
    <3>2. \A u \in 1 .. t - 1 : u \in Tasks /\ u \in Nat /\ t \in Nat /\ ~(t <= u)
      BY <3>1 DEF Tasks
    <3> QED  BY <2>2, <3>2
  <2>6. Cardinality(Ahead) = 0
    <3> HIDE DEF Ahead
    <3> QED  BY <2>5, FS_EmptySet
  <2>7. HoldersOf(E, l) + Cardinality(Ahead) < Cap[l]
    <3> HIDE DEF Ahead, l
    <3> QED  BY <2>3, <2>4, <2>6, CapIsPositive
  <2>8. G[t] = Grant(E[t])  BY <2>3, <2>7 DEF WarmGrants
  <2>9. Grant(E[t]) # E[t]
    <3>1. E[t] \in Entry /\ E[t].pending  BY <2>3 DEF Waits
    <3> QED  BY <3>1 DEF Grant, Entry
  <2> QED  BY <1>6, <2>3, <2>8, <2>9
<1>10. ASSUME NEW t \in Tasks PROVE ~Startable(E[t])
  <2> SUFFICES ASSUME Startable(E[t]) PROVE FALSE  OBVIOUS
  <2>1. E[t] \in Entry  OBVIOUS
  <2>2. PICK l \in Homes(E[t], dead) : l \in Lanes  BY <2>1, HomesAreLanes
  <2>3. {u \in Tasks : Reserved(E, l, u)} = {}  BY <1>8, <1>9
  <2>4. {u \in 1 .. t - 1 : p[u] = l} = {}
    <3>1. t \in 1 .. N /\ N \in Nat  BY TasksAreFinite DEF Tasks
    <3>2. \A u \in 1 .. t - 1 : u \in Tasks  BY <3>1 DEF Tasks
    <3>3. l # None  BY <2>2, BareIsLane
    <3> QED  BY <1>4, <3>2, <3>3
  <2>5. l \in Room(E, dead, p, t)
    <3>1. Occupancy(E, l) = 0  BY <2>3, FS_EmptySet DEF Occupancy
    <3>2. Cardinality({u \in 1 .. t - 1 : p[u] = l}) = 0  BY <2>4, FS_EmptySet
    <3>3. Occupancy(E, l) + Cardinality({u \in 1 .. t - 1 : p[u] = l}) < Cap[l]
      BY <2>2, <3>1, <3>2, CapIsPositive
    <3> QED  BY <2>2, <3>3 DEF Room
  <2>6. Promise(E, dead, p, t) # None  BY <2>5, RoomIsPromised
  <2>7. Promise(E, dead, p, t) = p[t]
    <3> HIDE DEF G
    <3> QED  BY <1>2, <1>7
  <2> QED  BY <1>4, <2>6, <2>7
<1> HIDE DEF G
<1> QED  BY <1>7, <1>9, <1>10 DEF Served

(* After a pass, whoever still waits is blocked or waits for somebody.     *)
LEMMA PassWakes ==
  ASSUME IInv', setup' = setup, NEW E \in [Tasks -> Entry], NEW dead, task' = AdmitWith(E, dead)
  PROVE  WakeInv'
<1> SUFFICES ASSUME ~timer', \A t \in Tasks : ~Busy(task'[t])
             PROVE  \A t \in Tasks : ~Served(task'[t])
  BY DEF WakeInv, Attended
<1>1. \A t \in Tasks : EntryInv(setup, t, task'[t])  BY DEF IInv, Entries
<1>2. \A t \in Tasks : ~task'[t].blocked  BY DEF IInv, BlockedIsRetried
<1> QED  BY <1>1, <1>2, PassAttends

-----------------------------------------------------------------------------
(* Every step makes a pass, arms the timer, leaves a placement in flight,  *)
(* or changes one entry so that nobody new waits and nobody stops working. *)

Rests(e, f) == (Busy(e) => Busy(f)) /\ (Served(f) => Served(e) \/ Busy(f))
Passes == \E E \in [Tasks -> Entry] : \E dead : task' = AdmitWith(E, dead)
Calms(t, f) == task' = Set(t, f) /\ Rests(task[t], f) /\ seek' = seek /\ timer' = timer
Still == task' = task /\ seek' = seek /\ timer' = timer

Wakes ==
  timer' \/ AtPlacing' \/ Passes \/ Still \/ \E t \in Tasks, f \in Entry : Calms(t, f)

LEMMA WakesKeep ==
  ASSUME IInv, IInv', setup' = setup, WakeInv, Wakes
  PROVE  WakeInv'
<1>0. task \in [Tasks -> Entry]  BY DEF IInv, Entries
<1>1. CASE timer' \/ AtPlacing'  BY <1>1 DEF WakeInv
<1>2. CASE Passes  BY <1>2, PassWakes DEF Passes
<1>3. CASE Still  BY <1>3 DEF Still, WakeInv, AtPlacing, Attended
<1>4. CASE \E t \in Tasks, f \in Entry : Calms(t, f)
  <2>1. PICK t \in Tasks, f \in Entry : Calms(t, f)  BY <1>4
  <2>2. task'[t] = f /\ \A u \in Tasks \ {t} : task'[u] = task[u]
    BY <1>0, <2>1 DEF Calms, Set
  <2>3. Attended(task) => Attended(task')
    <3> SUFFICES ASSUME Attended(task), NEW u \in Tasks, Served(task'[u])
                 PROVE  \E v \in Tasks : Busy(task'[v])
      BY DEF Attended
    <3>1. Served(task[u]) \/ Busy(f)  BY <2>1, <2>2 DEF Calms, Rests
    <3>2. CASE Busy(f)  BY <2>2, <3>2
    <3>3. CASE Served(task[u])
      <4>1. PICK v \in Tasks : Busy(task[v])  BY <3>3 DEF Attended
      <4> QED  BY <2>1, <2>2, <4>1 DEF Calms, Rests
    <3> QED  BY <3>1, <3>2, <3>3
  <2>4. (timer <=> timer') /\ (AtPlacing <=> AtPlacing')  BY <2>1 DEF Calms, AtPlacing
  <2> QED  BY <2>3, <2>4 DEF WakeInv, Attended
<1> QED  BY <1>1, <1>2, <1>3, <1>4 DEF Wakes

LEMMA SetPasses ==
  ASSUME IInv, NEW t \in Tasks, NEW f \in Entry, task' = Admit(Set(t, f))
  PROVE  Wakes
<1>1. Set(t, f) \in [Tasks -> Entry]  BY DEF Set, IInv, Entries
<1> QED  BY <1>1 DEF Admit, Passes, Wakes

(* Entries that the pass cannot tell apart.                                *)
Same(e, f) ==
  /\ f \in Entry /\ f.status = e.status /\ f.run = e.run /\ f.pending = e.pending
  /\ f.blocked = e.blocked /\ f.acquiring = e.acquiring /\ f.planning = e.planning
  /\ f.placing = e.placing /\ f.sorting = e.sorting

LEMMA SameRests ==
  ASSUME NEW e, NEW f, Same(e, f)
  PROVE  f \in Entry /\ Rests(e, f)
BY DEF Same, Rests, Served, Waits, Startable, Busy

LEMMA SameWakes ==
  ASSUME NEW t \in Tasks, NEW f, Same(task[t], f), task' = Set(t, f),
         UNCHANGED <<seek, timer>>
  PROVE  Wakes
BY SameRests DEF Calms, Wakes

LEMMA BusyWakes ==
  ASSUME NEW t \in Tasks, NEW f \in Entry, f.status = "running", f.run # "none", ~f.pending,
         task' = Set(t, f), UNCHANGED <<seek, timer>>
  PROVE  Wakes
BY DEF Busy, Rests, Calms, Wakes

LEMMA FinalIsEntry ==
  ASSUME NEW e \in Entry, NEW end \in Terminal
  PROVE  Final(e, end) \in Entry
BY FinalIsCalm DEF Calm

LEMMA CallerWakes ==
  ASSUME IInv, NEW t \in Tasks, Caller(t)
  PROVE  Wakes
<1> DEFINE e == task[t]
<1>1. /\ setup \in Setups /\ EntryInv(setup, t, e) /\ e \in Entry  BY InvFacts
<1>2. CASE Spawn(t)
  <2> DEFINE f == [Absent EXCEPT !.status = "queued", !.fetching = TRUE, !.planning = TRUE]
  <2>1. task' = Set(t, f) /\ UNCHANGED <<seek, timer>> /\ e.status = "none"  BY <1>2 DEF Spawn
  <2>2. f \in Entry
    <3>1. Absent \in Entry  BY AbsentIsSound DEF EntryInv
    <3> QED  BY <3>1 DEF Entry
  <2>3. f.status = "queued" /\ f.planning  BY DEF Absent
  <2>4. ~Busy(e)  BY <1>1, <2>1 DEF EntryInv, PlanInv, Busy
  <2> HIDE DEF f
  <2>5. Rests(e, f)  BY <2>3, <2>4 DEF Rests, Served, Waits, Startable
  <2> QED  BY <2>1, <2>2, <2>5 DEF Calms, Wakes
<1>3. CASE TaskTurn(t)
  <2> DEFINE f == [e EXCEPT !.granted = FALSE, !.pending = TRUE, !.run = "wait"]
             g == [e EXCEPT !.granted = TRUE, !.run = "slot"]
  <2>1. e.status = "running" /\ ~e.pending  BY <1>3 DEF TaskTurn, Ready
  <2>2. /\ task' = Set(t, g) \/ task' = Admit(Set(t, f))
        /\ UNCHANGED <<seek, timer>>
    BY <1>3 DEF TaskTurn, Queue
  <2>3. f \in Entry  BY <1>1 DEF Entry, Runs
  <2>4. g \in Entry /\ g.status = "running" /\ g.run = "slot" /\ ~g.pending
    BY <1>1, <2>1 DEF Entry, Runs
  <2> HIDE DEF f, g
  <2> QED  BY <2>2, <2>3, <2>4, BusyWakes, SetPasses
<1>4. CASE CompleteTask(t)
  <2> DEFINE f == [e EXCEPT !.release = TRUE]
  <2>1. /\ task' = Admit(Set(t, Final(f, "completed"))) \/ task' = Set(t, f)
        /\ UNCHANGED <<seek, timer>>
    BY <1>4 DEF CompleteTask
  <2>2. Same(e, f)  BY <1>1 DEF Same, Entry
  <2> HIDE DEF f
  <2>3. Final(f, "completed") \in Entry  BY <2>2, FinalIsEntry DEF Same, Terminal
  <2> QED  BY <2>1, <2>2, <2>3, SameWakes, SetPasses
<1>5. CASE Interrupt(t)
  <2> DEFINE f == [e EXCEPT !.status = "cancelled", !.settled = TRUE, !.planning = FALSE,
                            !.placing = FALSE, !.plan = <<>>, !.lane = Bare]
             g == [e EXCEPT !.aborted = TRUE]
  <2>1. /\ \/ task' = Admit(Set(t, f)) \/ task' = Admit(Set(t, Final(e, "cancelled")))
           \/ task' = Set(t, g)
        /\ UNCHANGED <<seek, timer>>
    BY <1>5 DEF Interrupt
  <2>2. f \in Entry  BY <1>1, BareIsLane DEF Entry, Terminal
  <2>3. Same(e, g)  BY <1>1 DEF Same, Entry
  <2>4. Final(e, "cancelled") \in Entry  BY <1>1, FinalIsEntry DEF Terminal
  <2> HIDE DEF f, g
  <2> QED  BY <2>1, <2>2, <2>3, <2>4, SameWakes, SetPasses
<1>6. CASE Ask(t)
  <2> DEFINE f == [e EXCEPT !.asking = TRUE, !.lease = None]
  <2>1. Same(e, f)  BY <1>1 DEF Same, Entry
  <2>2. task' = Set(t, f) /\ UNCHANGED <<seek, timer>>  BY <1>6 DEF Ask
  <2> HIDE DEF f
  <2> QED  BY <2>1, <2>2, SameWakes
<1> QED  BY <1>2, <1>3, <1>4, <1>5, <1>6 DEF Caller

(* A placement goes on, or ends with a pass.                               *)
LEMMA SeekOnWakes ==
  ASSUME IInv, NEW t \in Tasks, NEW n \in 1 .. MaxSeeks, NEW left, NEW f \in Entry,
         SeekOn(t, n, left, Set(t, f))
  PROVE  Wakes
<1>1. CASE left # <<>>
  <2>1. seek \in [Tasks -> [1 .. MaxSeeks -> Seek]]  BY DEF IInv, Placements
  <2>2. seek' = [seek EXCEPT ![t][n] = [phase |-> "ask", left |-> left]]  BY <1>1 DEF SeekOn
  <2>3. seek'[t][n] = [phase |-> "ask", left |-> left]  BY <2>1, <2>2
  <2>4. seek'[t][n] # Idle  BY <2>3 DEF Idle
  <2> QED  BY <2>4 DEF AtPlacing, Wakes
<1>2. CASE left = <<>>
  <2>1. task' = Admit([Set(t, f) EXCEPT ![t] = NoHome(@)])  BY <1>2 DEF SeekOn
  <2>2. Set(t, f) \in [Tasks -> Entry]  BY DEF Set, IInv, Entries
  <2>3. \A g \in Entry : NoHome(g) \in Entry
    <3> TAKE g \in Entry
    <3> DEFINE b == g.blocked \/ Ledger
    <3>1. b \in BOOLEAN  OBVIOUS
    <3>2. NoHome(g) = [g EXCEPT !.lane = Bare, !.blocked = b]  BY DEF NoHome, Entry
    <3> HIDE DEF b
    <3> QED  BY <3>1, <3>2, BareIsLane DEF Entry
  <2>4. [Set(t, f) EXCEPT ![t] = NoHome(@)] \in [Tasks -> Entry]  BY <2>2, <2>3
  <2> QED  BY <2>1, <2>4 DEF Admit, Passes, Wakes
<1> QED  BY <1>1, <1>2

LEMMA SeekAnswerWakes ==
  ASSUME IInv, NEW t \in Tasks, NEW n \in 1 .. MaxSeeks, NEW out \in Outcomes,
         SeekAnswer(t, n, out)
  PROVE  Wakes
<1> DEFINE s == seek[t][n]
           l == Head(s.left)
           e == task[t]
           x == LeaseOf(l, out)
           p == Begin([e EXCEPT !.lane = l, !.plan = <<>>], x)
<1>1. e \in Entry /\ Sound(task)  BY InvFacts
<1>2. s.phase = "ask" /\ l \in Lanes  BY SeekFacts DEF SeekAnswer
<1>3. Set(t, e) = task  BY <1>1, SetAgain
<1>4. CASE \E phase \in {"drop", "return"} : seek' = [seek EXCEPT ![t][n].phase = phase]
  <2>1. PICK phase \in {"drop", "return"} : seek' = [seek EXCEPT ![t][n].phase = phase]  BY <1>4
  <2>2. seek \in [Tasks -> [1 .. MaxSeeks -> Seek]]  BY DEF IInv, Placements
  <2>3. seek'[t][n].phase = phase
    <3>1. seek'[t][n] = [seek[t][n] EXCEPT !.phase = phase] /\ seek[t][n] \in Seek  BY <2>1, <2>2
    <3> QED  BY <3>1 DEF Seek
  <2>4. seek'[t][n] # Idle  BY <2>3 DEF Idle
  <2> QED  BY <2>4 DEF AtPlacing, Wakes
<1>5. CASE task' = Admit(task)
  <2>1. task \in [Tasks -> Entry]  BY DEF IInv, Entries
  <2> QED  BY <1>5, <2>1 DEF Admit, Passes, Wakes
<1>6. CASE SeekOn(t, n, Tail(s.left), task)
  <2>1. SeekOn(t, n, Tail(s.left), Set(t, e))  BY <1>3, <1>6
  <2> QED  BY <1>1, <2>1, SeekOnWakes
<1>7. CASE task' = Admit(Set(t, p))
  <2>1. x \in Lanes \cup {None}  BY <1>2 DEF LeaseOf
  <2>2. p = [e EXCEPT !.lane = l, !.plan = <<>>, !.status = "running", !.run = "build", !.lease = x]
    BY <1>1 DEF Begin, Entry
  <2> HIDE DEF p, x, l
  <2>3. p \in Entry
    <3>1. e \in Entry /\ l \in Lanes /\ <<>> \in Seq(Lanes)  BY <1>1, <1>2
    <3> HIDE DEF e
    <3> QED  BY <2>1, <2>2, <3>1 DEF Entry, Runs, Terminal
  <2> QED  BY <1>7, <2>3, SetPasses
<1> QED  BY <1>4, <1>5, <1>6, <1>7 DEF SeekAnswer

LEMMA AcquiredWakes ==
  ASSUME IInv, NEW t \in Tasks, NEW out \in Outcomes, Acquired(t, out)
  PROVE  Wakes
<1> DEFINE e == task[t]
<1>1. /\ setup \in Setups /\ EntryInv(setup, t, e) /\ e \in Entry /\ e.lane \in Lanes  BY InvFacts
<1>2. CASE StartAnswer(t, out)
  <2> DEFINE a == [e EXCEPT !.acquiring = FALSE]
             x == LeaseOf(Head(Plan[t]), out)
             f == Begin(a, x)
  <2>1. a \in Entry /\ a.status = e.status  BY <1>1 DEF Entry
  <2>2. \/ timer'
        \/ /\ e.status = "queued" /\ task' = Set(t, f) /\ out # "full"
           /\ UNCHANGED <<seek, timer>>
        \/ e.status # "queued" /\ task' = Set(t, a) /\ UNCHANGED <<seek, timer>>
    BY <1>2, <2>1 DEF StartAnswer
  <2>3. CASE e.status = "queued" /\ task' = Set(t, f) /\ UNCHANGED <<seek, timer>>
    <3>1. x \in Lanes \cup {None}
      <4>1. t \in DOMAIN setup.plan  BY <1>1, <2>3 DEF EntryInv, PlanInv
      <4>2. Head(Plan[t]) \in Lanes  BY <1>1, <4>1, SetupFacts DEF Plan
      <4> QED  BY <4>2 DEF LeaseOf
    <3>2. f = [e EXCEPT !.acquiring = FALSE, !.status = "running", !.run = "build", !.lease = x]
      BY <1>1 DEF Begin, Entry
    <3>3. ~e.pending  BY <1>1, <2>3 DEF EntryInv, ColdInv, Cold
    <3> HIDE DEF x, f
    <3>4. f \in Entry /\ f.status = "running" /\ f.run = "build" /\ ~f.pending
      BY <1>1, <3>1, <3>2, <3>3 DEF Entry, Runs
    <3> QED  BY <2>3, <3>4, BusyWakes
  <2>4. CASE e.status # "queued" /\ task' = Set(t, a) /\ UNCHANGED <<seek, timer>>
    <3>1. /\ a.run = e.run /\ a.pending = e.pending /\ a.sorting = e.sorting
          /\ a.blocked = e.blocked
      BY <1>1 DEF Entry
    <3> HIDE DEF a
    <3>2. Rests(e, a)  BY <2>1, <2>4, <3>1 DEF Rests, Busy, Served, Waits, Startable
    <3> QED  BY <2>1, <2>4, <3>2 DEF Calms, Wakes
  <2> QED  BY <2>2, <2>3, <2>4 DEF Wakes
<1>3. CASE TurnSlotAnswer(t, out)
  <2> DEFINE a == [e EXCEPT !.granted = FALSE, !.run = "none"]
             x == LeaseOf(e.lane, out)
             f == [e EXCEPT !.granted = FALSE, !.run = "drive", !.lease = x]
             g == [e EXCEPT !.granted = FALSE, !.pending = TRUE, !.run = "wait"]
  <2>1. /\ e.run = "slot" /\ UNCHANGED <<seek, timer>>
        /\ \/ Dead(e) /\ task' = Set(t, a)
           \/ ~Dead(e) /\ task' = Set(t, f)
           \/ task' = Admit(Set(t, g))
    BY <1>3 DEF TurnSlotAnswer, Queue
  <2>2. CASE Dead(e) /\ task' = Set(t, a)
    <3>1. e.status # "running"  BY <1>1, <2>1, <2>2, RunPlaces
    <3>2. /\ a \in Entry /\ a.status = e.status /\ a.pending = e.pending
          /\ a.sorting = e.sorting /\ a.blocked = e.blocked /\ a.acquiring = e.acquiring
          /\ a.planning = e.planning /\ a.placing = e.placing
      BY <1>1 DEF Entry, Runs
    <3> HIDE DEF a
    <3>3. Rests(e, a)  BY <3>1, <3>2 DEF Rests, Busy, Served, Waits, Startable
    <3> QED  BY <2>1, <2>2, <3>2, <3>3 DEF Calms, Wakes
  <2>3. CASE ~Dead(e) /\ task' = Set(t, f)
    <3>1. x \in Lanes \cup {None}  BY <1>1 DEF LeaseOf
    <3>2. e.status = "running" /\ ~e.pending
      <4>1. e.status = "running"  BY <2>3 DEF Dead
      <4> QED  BY <1>1, <2>1, <4>1 DEF EntryInv, RunInv
    <3> HIDE DEF x
    <3>3. f \in Entry /\ f.status = "running" /\ f.run = "drive" /\ ~f.pending
      BY <1>1, <3>1, <3>2 DEF Entry, Runs
    <3> HIDE DEF f
    <3> QED  BY <2>1, <2>3, <3>3, BusyWakes
  <2>4. CASE task' = Admit(Set(t, g))
    <3>1. g \in Entry  BY <1>1 DEF Entry, Runs
    <3> HIDE DEF g
    <3> QED  BY <2>4, <3>1, SetPasses
  <2> HIDE DEF a, f, g
  <2> QED  BY <2>1, <2>2, <2>3, <2>4
<1>4. CASE GrantAnswer(t, out)
  <2> DEFINE a == [e EXCEPT !.granting = FALSE]
             x == LeaseOf(e.lane, out)
             f == [e EXCEPT !.granting = FALSE, !.lease = x, !.run = "woken"]
  <2>1. a.status = e.status  BY <1>1 DEF Entry
  <2>2. /\ e.granting
        /\ \/ timer'
           \/ task' = Set(t, a) /\ UNCHANGED <<seek, timer>>
           \/ e.status = "running" /\ task' = Set(t, f) /\ UNCHANGED <<seek, timer>>
    BY <1>1, <1>4, <2>1 DEF GrantAnswer, Entry
  <2>3. CASE task' = Set(t, a) /\ UNCHANGED <<seek, timer>>
    <3>1. Same(e, a)  BY <1>1 DEF Same, Entry
    <3> HIDE DEF a
    <3> QED  BY <2>3, <3>1, SameWakes
  <2>4. CASE e.status = "running" /\ task' = Set(t, f) /\ UNCHANGED <<seek, timer>>
    <3>1. x \in Lanes \cup {None}  BY <1>1 DEF LeaseOf
    <3>2. ~e.pending  BY <1>1, <2>2, <2>4, RunPlaces
    <3> HIDE DEF x
    <3>3. f \in Entry /\ f.status = "running" /\ f.run = "woken" /\ ~f.pending
      BY <1>1, <2>4, <3>1, <3>2 DEF Entry, Runs
    <3> HIDE DEF f
    <3> QED  BY <2>4, <3>3, BusyWakes
  <2> QED  BY <2>2, <2>3, <2>4 DEF Wakes
<1>5. CASE SettleAnswer(t, out)
  <2> DEFINE f == [e EXCEPT !.settling = @ - 1]
             g == [e EXCEPT !.settling = @ - 1, !.lease = e.lane]
  <2>1. /\ e.settling > 0 /\ UNCHANGED <<seek, timer>>
        /\ task' = task \/ task' = Set(t, f) \/ task' = Set(t, g)
    BY <1>5 DEF SettleAnswer
  <2>2. e.settling - 1 \in 0 .. MaxLoops
    <3>1. e.settling \in 0 .. MaxLoops  BY <1>1 DEF Entry
    <3> QED  BY <2>1, <3>1 DEF MaxLoops
  <2>3. Same(e, f) /\ Same(e, g)
    <3> DEFINE k == e.settling - 1
    <3>1. f = [e EXCEPT !.settling = k] /\ g = [e EXCEPT !.settling = k, !.lease = e.lane]
          /\ k \in 0 .. MaxLoops
      BY <1>1, <2>2 DEF Entry
    <3> HIDE DEF k, f, g
    <3> QED  BY <1>1, <3>1 DEF Same, Entry
  <2> HIDE DEF f, g
  <2> QED  BY <2>1, <2>3, SameWakes DEF Still, Wakes
<1>6. CASE \E n \in 1 .. MaxSeeks : SeekAnswer(t, n, out)  BY <1>6, SeekAnswerWakes
<1> QED  BY <1>2, <1>3, <1>4, <1>5, <1>6 DEF Acquired

LEMMA TurnEndsWakes ==
  ASSUME IInv, NEW t \in Tasks, NEW result \in Terminal, NEW refused \in BOOLEAN,
         TurnEnds(t, result, refused)
  PROVE  Wakes
<1> DEFINE l == task[t].lane
           G == IF result = "completed" THEN NotedUp(l) ELSE task
           E == [G EXCEPT ![t].run = "none", ![t].ran = TRUE]
           e == G[t]
           f == [e EXCEPT !.run = "none", !.ran = TRUE]
           dead == IF result = "completed" THEN down \ {l}
                   ELSE IF refused THEN down \cup ({l} \cap Watched) ELSE down
<1>1. task[t].run = "drive"  BY DEF TurnEnds
<1>2. G = task \/ \E gone : G = AdmitWith(Unblocked(task), gone)  BY DEF NotedUp
<1>3. \/ task' = AdmitWith([E EXCEPT ![t] = Park(@)], dead)
      \/ \E end \in Ends(t, result) :
           task' = AdmitWith([AdmitWith(E, dead) EXCEPT ![t] = Final(@, end)], dead)
  BY DEF TurnEnds
<1> HIDE DEF G, dead
<1>4. Beside(t, G) /\ Driving(t, e)  BY <1>1, <1>2, NotedIsBeside
<1>5. G \in [Tasks -> Entry] /\ e \in Entry /\ ~e.pending /\ e.status = "running"
  BY <1>4 DEF Beside, Driving, EntryInv, RunInv
<1>6. E = [G EXCEPT ![t] = f]  BY <1>5
<1>7. f \in Entry /\ Park(f) \in Entry /\ f.status = "running" /\ ~f.pending
  BY <1>5 DEF Entry, Runs, Park
<1> HIDE DEF e, f
<1>8. Beside(t, E) /\ E[t] = f /\ E \in [Tasks -> Entry]
  <2>1. Beside(t, [G EXCEPT ![t] = f]) /\ [G EXCEPT ![t] = f][t] = f  BY <1>4, <1>7, SetBeside
  <2> QED  BY <1>6, <2>1 DEF Beside
<1> HIDE DEF E
<1>9. CASE task' = AdmitWith([E EXCEPT ![t] = Park(@)], dead)
  <2>1. [E EXCEPT ![t] = Park(@)] \in [Tasks -> Entry]  BY <1>7, <1>8
  <2> QED  BY <1>9, <2>1 DEF Passes, Wakes
<1>10. CASE \E end \in Ends(t, result) :
              task' = AdmitWith([AdmitWith(E, dead) EXCEPT ![t] = Final(@, end)], dead)
  <2> DEFINE F == AdmitWith(E, dead)
  <2>1. PICK end \in Ends(t, result) : task' = AdmitWith([F EXCEPT ![t] = Final(@, end)], dead)
    BY <1>10
  <2>2. F \in [Tasks -> Entry] /\ F[t] = f
    <3>1. E[t].status # "queued" /\ ~E[t].pending /\ setup \in Setups  BY <1>7, <1>8, InvFacts
    <3>2. Beside(t, F) /\ F[t] = E[t]  BY <1>8, <3>1, PassBeside
    <3> QED  BY <1>8, <3>2 DEF Beside
  <2> HIDE DEF F
  <2>3. Final(f, end) \in Entry
    <3>1. end \in Terminal  BY DEF Ends, Terminal
    <3> QED  BY <1>7, <3>1, FinalIsEntry
  <2>4. [F EXCEPT ![t] = Final(@, end)] \in [Tasks -> Entry]  BY <2>2, <2>3
  <2> QED  BY <2>1, <2>4 DEF Passes, Wakes
<1> QED  BY <1>3, <1>9, <1>10

LEMMA ResumeWakes ==
  ASSUME IInv, NEW t \in Tasks, Resume(t)
  PROVE  Wakes
<1> DEFINE e == task[t]
<1>1. /\ setup \in Setups /\ EntryInv(setup, t, e) /\ e \in Entry /\ Sound(task)  BY InvFacts
<1>2. CASE Planned(t)
  <2> DEFINE f == [e EXCEPT !.fetching = FALSE]
             g == [e EXCEPT
               !.fetching = FALSE, !.planning = FALSE,
               !.lane = IF Len(setup.plan[t]) > 1 THEN Bare ELSE Head(setup.plan[t]),
               !.plan = IF Len(setup.plan[t]) > 1 THEN setup.plan[t] ELSE <<>>]
  <2>1. e.fetching /\ f.status = e.status /\ UNCHANGED <<seek, timer>>
    BY <1>1, <1>2 DEF Planned, Entry
  <2>2. CASE e.status # "queued"
    <3>1. task' = Set(t, f)  BY <1>2, <2>1, <2>2 DEF Planned
    <3>2. Same(e, f)  BY <1>1 DEF Same, Entry
    <3> HIDE DEF f
    <3> QED  BY <2>1, <3>1, <3>2, SameWakes
  <2>3. CASE e.status = "queued"
    <3>1. task' = Admit(Set(t, g))  BY <1>2, <2>1, <2>3 DEF Planned, Plan
    <3>2. EntryInv(setup, t, g)  BY <1>1, <2>1, <2>3, PlannedKeeps
    <3> HIDE DEF g
    <3>3. g \in Entry  BY <3>2 DEF EntryInv
    <3> QED  BY <3>1, <3>3, SetPasses
  <2> QED  BY <2>2, <2>3
<1>3. CASE PlanFails(t)
  <2> DEFINE f == [Absent EXCEPT !.status = "refused", !.settled = e.settled]
  <2>1. task' = Set(t, f) /\ e.fetching /\ UNCHANGED <<seek, timer>>  BY <1>3 DEF PlanFails
  <2>2. f \in Entry
    <3>1. e.settled \in BOOLEAN  BY <1>1 DEF Entry
    <3> QED  BY <3>1, RefusedIsEntry
  <2>3. f.status = "refused"  BY DEF Absent
  <2>4. ~Busy(e)  BY <1>1, <2>1 DEF EntryInv, PlanInv, Busy
  <2> HIDE DEF f
  <2>5. Rests(e, f)  BY <2>3, <2>4 DEF Rests, Served, Waits, Startable
  <2> QED  BY <2>1, <2>2, <2>5 DEF Calms, Wakes
<1>4. CASE Sorted(t)
  <2> DEFINE f == [e EXCEPT !.sorting = {}, !.placing = FALSE]
  <2>1. \/ task' = Admit(Set(t, f))
        \/ \E n \in 1 .. Seeks : \E left : SeekOn(t, n, left, Set(t, f))
    BY <1>4 DEF Sorted
  <2>2. f \in Entry  BY <1>1 DEF Entry
  <2>3. 1 .. Seeks \subseteq 1 .. MaxSeeks
    <3>1. setup.seeks \in 1 .. MaxSeeks /\ MaxSeeks \in Nat  BY <1>1, SetupFacts, TasksAreFinite
    <3> QED  BY <3>1 DEF Seeks
  <2> HIDE DEF f
  <2> QED  BY <2>1, <2>2, <2>3, SetPasses, SeekOnWakes
<1>5. CASE BuildFails(t) \/ (Built(t) /\ e.aborted)
  <2> DEFINE g == [e EXCEPT !.run = "none"]
  <2>1. \E end \in Terminal : task' = Admit(Set(t, Final(g, end)))
    BY <1>5 DEF BuildFails, Built, Ends, Terminal
  <2>2. g \in Entry  BY <1>1 DEF Entry, Runs
  <2> HIDE DEF g
  <2> QED  BY <2>1, <2>2, FinalIsEntry, SetPasses
<1>6. CASE Built(t) /\ ~e.aborted
  <2> DEFINE f == [e EXCEPT !.run = "drive", !.agent = TRUE]
  <2>1. task' = Set(t, f) /\ e.run = "build" /\ UNCHANGED <<seek, timer>>  BY <1>6 DEF Built
  <2>2. e.status = "running"  BY <1>1, <2>1, RunPlaces
  <2>3. ~e.pending  BY <1>1, <2>1, <2>2 DEF EntryInv, RunInv
  <2>4. f \in Entry /\ f.status = "running" /\ f.run = "drive" /\ ~f.pending
    BY <1>1, <2>2, <2>3 DEF Entry, Runs
  <2> HIDE DEF f
  <2> QED  BY <2>1, <2>4, BusyWakes
<1>7. CASE Woken(t)
  <2> DEFINE a == [e EXCEPT !.granted = FALSE, !.run = "none"]
             f == [e EXCEPT !.granted = FALSE, !.run = "drive"]
  <2>1. /\ e.run = "woken" /\ UNCHANGED <<seek, timer>>
        /\ (Dead(e) /\ task' = Set(t, a)) \/ (~Dead(e) /\ task' = Set(t, f))
    <3>1. Dead([e EXCEPT !.granted = FALSE]) <=> Dead(e)  BY <1>1 DEF Dead, Entry
    <3> QED  BY <1>1, <1>7, <3>1 DEF Woken, Entry
  <2>2. CASE Dead(e) /\ task' = Set(t, a)
    <3>1. e.status # "running"  BY <1>1, <2>1, <2>2, RunPlaces
    <3>2. /\ a \in Entry /\ a.status = e.status /\ a.pending = e.pending
          /\ a.sorting = e.sorting /\ a.blocked = e.blocked /\ a.acquiring = e.acquiring
          /\ a.planning = e.planning /\ a.placing = e.placing
      BY <1>1 DEF Entry, Runs
    <3> HIDE DEF a
    <3>3. Rests(e, a)  BY <3>1, <3>2 DEF Rests, Busy, Served, Waits, Startable
    <3> QED  BY <2>1, <2>2, <3>2, <3>3 DEF Calms, Wakes
  <2>3. CASE ~Dead(e) /\ task' = Set(t, f)
    <3>1. e.status = "running" /\ ~e.pending
      <4>1. e.status = "running"  BY <2>3 DEF Dead
      <4> QED  BY <1>1, <2>1, <4>1 DEF EntryInv, RunInv
    <3>2. f \in Entry /\ f.status = "running" /\ f.run = "drive" /\ ~f.pending
      BY <1>1, <3>1 DEF Entry, Runs
    <3> HIDE DEF f
    <3> QED  BY <2>1, <2>3, <3>2, BusyWakes
  <2> HIDE DEF a, f
  <2> QED  BY <2>1, <2>2, <2>3
<1>8. CASE Answered(t)
  <2> DEFINE f == [e EXCEPT !.asking = FALSE]
             g == [e EXCEPT !.asking = FALSE, !.settling = e.settling + 1]
  <2>1. /\ task' = Set(t, f) \/ (e.settling < MaxLoops /\ task' = Set(t, g))
        /\ UNCHANGED <<seek, timer>>
    BY <1>1, <1>8 DEF Answered, Entry
  <2>2. Same(e, f)  BY <1>1 DEF Same, Entry
  <2>3. e.settling < MaxLoops => Same(e, g)
    <3> DEFINE k == e.settling + 1
    <3>1. e.settling < MaxLoops => k \in 0 .. MaxLoops
      <4>1. e.settling \in 0 .. MaxLoops  BY <1>1 DEF Entry
      <4> QED  BY <4>1 DEF MaxLoops
    <3>2. g = [e EXCEPT !.asking = FALSE, !.settling = k]  OBVIOUS
    <3> HIDE DEF k, g
    <3> QED  BY <1>1, <3>1, <3>2 DEF Same, Entry
  <2> HIDE DEF f, g
  <2> QED  BY <2>1, <2>2, <2>3, SameWakes
<1>9. CASE \E result \in Terminal, refused \in BOOLEAN : TurnEnds(t, result, refused)
  BY <1>9, TurnEndsWakes
<1>10. CASE \E n \in 1 .. MaxSeeks : SeekReturned(t, n)
  <2>1. PICK n \in 1 .. MaxSeeks : SeekReturned(t, n)  BY <1>10
  <2>2. Set(t, e) = task  BY <1>1, SetAgain
  <2>3. CASE SeekOn(t, n, Tail(seek[t][n].left), task)
    <3>1. SeekOn(t, n, Tail(seek[t][n].left), Set(t, e))  BY <2>2, <2>3
    <3> QED  BY <1>1, <3>1, SeekOnWakes
  <2>4. CASE task' = Admit(task)
    <3>1. task' = Admit(Set(t, e))  BY <2>2, <2>4
    <3> QED  BY <1>1, <3>1, SetPasses
  <2> QED  BY <2>1, <2>3, <2>4 DEF SeekReturned
<1> QED  BY <1>2, <1>3, <1>4, <1>5, <1>6, <1>7, <1>8, <1>9, <1>10 DEF Resume

LEMMA LanesWake ==
  ASSUME IInv,
         \/ RetryTick
         \/ \E l \in Lanes : Freed(l) \/ Handed(l) \/ SweepDown(l) \/ SweepUp(l)
  PROVE  Wakes
<1>0. task \in [Tasks -> Entry]  BY DEF IInv, Entries
<1>1. Unblocked(task) \in [Tasks -> Entry]
  <2>1. \A e \in Entry : [e EXCEPT !.blocked = FALSE] \in Entry  BY DEF Entry
  <2> QED  BY <1>0, <2>1 DEF Unblocked
<1>2. CASE RetryTick  BY <1>1, <1>2 DEF RetryTick, Admit, Passes, Wakes
<1>3. ASSUME NEW l \in Lanes, Freed(l)
      PROVE  Wakes
  <2> DEFINE W == {t \in Tasks : task[t].blocked /\ task[t].lane = l}
             U == [t \in Tasks |-> [task[t] EXCEPT !.blocked = @ /\ t \notin W]]
  <2>1. task' = task \/ task' = AdmitWith(U, down)  BY <1>3 DEF Freed, Admit
  <2>2. UNCHANGED <<seek, timer>>  BY <1>3 DEF Freed
  <2>3. U \in [Tasks -> Entry]
    <3>1. ASSUME NEW t \in Tasks PROVE U[t] \in Entry
      <4> DEFINE b == task[t].blocked /\ t \notin W
      <4>1. b \in BOOLEAN /\ task[t] \in Entry  BY <1>0
      <4>2. U[t] = [task[t] EXCEPT !.blocked = b]  BY <4>1 DEF Entry
      <4> HIDE DEF b, U
      <4> QED  BY <4>1, <4>2 DEF Entry
    <3> QED  BY <3>1
  <2> HIDE DEF U
  <2> QED  BY <2>1, <2>2, <2>3 DEF Still, Passes, Wakes
<1>4. ASSUME NEW l \in Lanes, Handed(l) \/ SweepDown(l)
      PROVE  Wakes
  BY <1>4 DEF Handed, SweepDown, Still, Wakes
<1>5. ASSUME NEW l \in Lanes, SweepUp(l)
      PROVE  Wakes
  BY <1>1, <1>5 DEF SweepUp, Passes, Wakes
<1> QED  BY <1>2, <1>3, <1>4, <1>5

LEMMA WakeStep ==
  ASSUME IInv, WakeInv, [Next]_vars
  PROVE  WakeInv'
<1>1. IInv'  BY NextStep DEF Keeps
<1>2. setup' = setup  BY SetupStays
<1>3. Wakes
  <2>1. CASE Next  BY <2>1, CallerWakes, ResumeWakes, AcquiredWakes, LanesWake DEF Next
  <2>2. CASE UNCHANGED vars  BY <2>2 DEF vars, Still, Wakes
  <2> QED  BY <2>1, <2>2
<1> QED  BY <1>1, <1>2, <1>3, WakesKeep

LEMMA WakeInit ==
  ASSUME Init
  PROVE  WakeInv
<1>1. \A t \in Tasks : task[t] = Absent  BY DEF Init
<1> QED  BY <1>1 DEF WakeInv, Attended, Served, Waits, Startable, Absent

(* While nothing is in flight and no timer is armed nobody is at work, so   *)
(* nobody waits; and an entry blocked on a full ledger has a timer: the     *)
(* scheduler never sleeps on somebody it could serve (NoLostWakeUp).        *)
THEOREM NobodyIsForgotten == Spec => []NoLostWakeUp
<1>1. IInv /\ WakeInv => NoLostWakeUp
  <2> SUFFICES ASSUME IInv, WakeInv PROVE NoLostWakeUp  OBVIOUS
  <2>1. BlockedIsRetried  BY DEF IInv
  <2>2. ASSUME ~InFlight, NEW t \in Tasks
        PROVE  ~Queued(t) /\ ~task[t].pending
    <3>1. ~timer /\ ~AtPlacing  BY <2>2 DEF InFlight, AtPlacing
    <3>2. \A u \in Tasks : EntryInv(setup, u, task[u]) /\ task[u] \in Entry
      BY InvFacts
    <3>3. ASSUME NEW u \in Tasks PROVE ~Busy(task[u])
      <4>1. /\ task[u].sorting = {} /\ ~task[u].acquiring /\ ~task[u].granting
            /\ task[u].run \notin {"build", "drive", "slot", "woken"}
        BY <2>2 DEF InFlight
      <4>2. task[u].run \in {"none", "wait"}  BY <3>2, <4>1 DEF Entry, Runs
      <4>3. task[u].status = "running" /\ task[u].run = "wait" => task[u].pending
        BY <3>2, <4>1 DEF EntryInv, RunInv
      <4> QED  BY <4>1, <4>2, <4>3 DEF Busy
    <3>4. ~Served(task[t])  BY <3>1, <3>3 DEF WakeInv, Attended
    <3>5. ~task[t].blocked  BY <2>1, <3>1 DEF BlockedIsRetried
    <3>6. ~task[t].pending  BY <3>2, <3>4, <3>5, RunPlaces DEF Served, Waits
    <3>7. ~Queued(t)
      <4>1. ~task[t].fetching /\ task[t].sorting = {} /\ ~task[t].acquiring
        BY <2>2 DEF InFlight
      <4>2. task[t].status = "queued" => ~task[t].planning /\ ~task[t].placing
        BY <3>2, <4>1 DEF EntryInv, PlanInv
      <4> QED  BY <3>4, <3>5, <4>1, <4>2 DEF Served, Startable, Queued
    <3> QED  BY <3>6, <3>7
  <2> QED  BY <2>1, <2>2 DEF NoLostWakeUp, NothingStranded
<1>2. Init => WakeInv  BY WakeInit
<1>3. IInv /\ WakeInv /\ [Next]_vars => WakeInv'  BY WakeStep
<1> QED  BY <1>1, <1>2, <1>3, Invariant, PTL DEF Spec

-----------------------------------------------------------------------------
(* Warm turns first.  A step works on one registry after another; these    *)
(* are the tasks that E lets in on a lane though they were queued, and the *)
(* turns that claim the lane are those of Claims.  Who is let in leaves     *)
(* room for all who claim the lane besides.                                *)

LetIn(E, l) ==
  {t \in Tasks : /\ Queued(t) /\ E[t].lane = l
                 /\ \/ ~task[t].acquiring /\ E[t].acquiring
                    \/ ~Ledger /\ E[t].status = "running"}

Spare(E) ==
  \A l \in Lanes : LetIn(E, l) # {} => Cardinality(Claims(E, l) \ LetIn(E, l)) < Cap[l]

(* A turn that claims its lane is one that the registry counts.            *)
Owed(t, e) ==
  /\ e \in Entry
  /\ e.status = "running" /\ e.run # "none" =>
       t \notin Parked \/ e.run = "drive" \/ e.granted \/ e.pending \/ ~e.ran
  /\ e.status = "running" /\ e.pending => e.run # "none"
  /\ e.status = "queued" => ~e.ran

(* A registry from which a pass may start.                                 *)
Passable(E) ==
  /\ E \in [Tasks -> Entry] /\ \A t \in Tasks : Owed(t, E[t])
  /\ \A t \in Tasks : E[t].status = "queued" => Queued(t)
  /\ Spare(E)

LEMMA SoundIsOwed ==
  ASSUME NEW t \in Tasks, NEW e, EntryInv(setup, t, e)
  PROVE  Owed(t, e)
<1>1. e \in Entry  BY DEF EntryInv
<1>2. e.status = "queued" => ~e.ran  BY DEF EntryInv, ColdInv, Cold
<1>3. ASSUME e.status = "running"
      PROVE  /\ e.run # "none" => t \notin Parked \/ e.run = "drive" \/ e.granted \/ e.pending \/ ~e.ran
             /\ e.pending => e.run # "none"
  <2>1. RunInv(setup, t, e) /\ e.run \in Runs  BY <1>1 DEF EntryInv, Entry
  <2> QED  BY <1>3, <2>1 DEF RunInv, Runs
<1> QED  BY <1>1, <1>2, <1>3 DEF Owed

LEMMA GrantIsOwed ==
  ASSUME NEW t \in Tasks, NEW e, Owed(t, e), Waits(e), NEW f, f = Grant(e)
  PROVE  /\ Owed(t, f) /\ f.status = "running" /\ f.run # "none"
         /\ e.run # "none" /\ f.lane = e.lane /\ f.acquiring = e.acquiring
<1>1. e \in Entry /\ e.status = "running" /\ e.run # "none"  BY DEF Owed, Waits
<1>2. f \in Entry  BY <1>1, GrantIsEntry
<1>3. /\ f.status = "running" /\ f.granted /\ f.lane = e.lane /\ f.acquiring = e.acquiring
      /\ f.run \in {e.run, "woken"} /\ ~f.pending
  BY <1>1 DEF Grant, Entry
<1> QED  BY <1>1, <1>2, <1>3 DEF Owed

(* What a promise makes of a queued task.                                  *)
LEMMA StartIsOwed ==
  ASSUME NEW t \in Tasks, NEW e, Owed(t, e), Startable(e), NEW l \in Lanes, NEW dead,
         e.plan # <<>> => l \in Homes(e, dead),
         NEW f, f = StartOn(e, l, dead)
  PROVE  /\ Owed(t, f) /\ f.status \in {"queued", "running"}
         /\ f.status = "running" => ~Ledger
         /\ f.acquiring => e.plan = <<>>
         /\ f.status = "running" => e.plan = <<>>
         /\ e.plan = <<>> => f.lane = e.lane
<1>1. e \in Entry /\ e.status = "queued" /\ ~e.ran /\ ~e.acquiring  BY DEF Owed, Startable
<1>2. l # None /\ None \notin Lanes  BY BareIsLane
<1>3. CASE e.plan = <<>> /\ Ledger
  <2>1. f = [e EXCEPT !.acquiring = TRUE]  BY <1>2, <1>3 DEF StartOn, TryStart
  <2>2. f \in Entry /\ f.status = "queued" /\ ~f.ran /\ f.lane = e.lane  BY <1>1, <2>1 DEF Entry
  <2> QED  BY <1>3, <2>2 DEF Owed
<1>4. CASE e.plan = <<>> /\ ~Ledger
  <2>1. f = [e EXCEPT !.status = "running", !.run = "build", !.lease = None]
    BY <1>2, <1>4 DEF StartOn, TryStart, Begin
  <2>2. f \in Entry  BY <1>1, <2>1 DEF Entry, Runs
  <2>3. f.status = "running" /\ f.run = "build" /\ ~f.ran /\ f.lane = e.lane  BY <1>1, <2>1 DEF Entry
  <2> QED  BY <1>4, <2>2, <2>3 DEF Owed
<1>5. CASE e.plan # <<>>
  <2> DEFINE homes == Homes(e, dead)
  <2>1. f = [e EXCEPT !.lane = l, !.placing = TRUE, !.sorting = homes]
    BY <1>2, <1>5 DEF StartOn
  <2>2. homes \subseteq Lanes  BY <1>1, HomesAreLanes
  <2> HIDE DEF homes
  <2>3. f \in Entry  BY <1>1, <2>1, <2>2 DEF Entry
  <2>4. f.status = "queued" /\ ~f.ran /\ ~f.acquiring  BY <1>1, <2>1 DEF Entry
  <2> QED  BY <1>5, <2>3, <2>4 DEF Owed
<1> QED  BY <1>3, <1>4, <1>5

LEMMA GrantedIsOwed ==
  ASSUME NEW E \in [Tasks -> Entry], NEW t \in Tasks, Owed(t, E[t]),
         NEW g, g = WarmGrants(E)[t]
  PROVE  /\ Owed(t, g) /\ g.status = E[t].status /\ g.lane = E[t].lane
         /\ g.acquiring = E[t].acquiring
         /\ g.status = "running" /\ g.run # "none" => E[t].run # "none"
<1>1. CASE g = E[t]  BY <1>1
<1>2. CASE Waits(E[t]) /\ g = Grant(E[t])
  <2>1. E[t].status = "running"  BY <1>2 DEF Waits
  <2> QED  BY <1>2, <2>1, GrantIsOwed
<1> QED  BY <1>1, <1>2, GrantStep

(* What a pass makes of an entry: what its grants made of it, or a promised *)
(* start in the room that those grants leave.                              *)
Started(G, dead, t, f) ==
  /\ Startable(G[t]) /\ Owed(t, f) /\ f.status \in {"queued", "running"}
  /\ f.status = "running" => ~Ledger
  /\ f.status = "running" \/ f.acquiring =>
       /\ f.lane = G[t].lane
       /\ \E k \in Nat : Occupancy(G, f.lane) + k < Cap[f.lane]

LEMMA PassStarts ==
  ASSUME NEW G \in [Tasks -> Entry], NEW dead, NEW p, NEW t \in Tasks, Owed(t, G[t]),
         NEW f, f = StartOn(G[t], Promise(G, dead, p, t), dead)
  PROVE  f = G[t] \/ Started(G, dead, t, f)
<1> DEFINE l == Promise(G, dead, p, t)
           e == G[t]
<1>1. CASE l = None  BY <1>1 DEF StartOn
<1>2. CASE l # None
  <2>1. /\ Startable(e) /\ l \in Room(G, dead, p, t)
        /\ e.plan = <<>> => l = e.lane
    BY <1>2, PromiseHasRoom
  <2>2. l \in Homes(e, dead) /\ Homes(e, dead) \subseteq Lanes
    BY <2>1, HomesAreLanes DEF Room
  <2>3. \E k \in Nat : Occupancy(G, l) + k < Cap[l]
    <3> DEFINE S == {u \in 1 .. t - 1 : p[u] = l}
    <3>1. Occupancy(G, l) + Cardinality(S) < Cap[l]  BY <2>1 DEF Room
    <3>2. S \subseteq Tasks /\ Tasks \subseteq Nat
      BY TasksAreFinite DEF Tasks
    <3> HIDE DEF S
    <3>3. Cardinality(S) \in Nat  BY <3>2, FewerTasks
    <3> QED  BY <3>1, <3>3
  <2> HIDE DEF l
  <2>4. /\ Owed(t, f) /\ f.status \in {"queued", "running"}
        /\ f.status = "running" => ~Ledger
        /\ f.acquiring => e.plan = <<>>
        /\ f.status = "running" => e.plan = <<>>
        /\ e.plan = <<>> => f.lane = e.lane
    BY <2>1, <2>2, StartIsOwed DEF l
  <2>5. f.status = "running" \/ f.acquiring => f.lane = e.lane /\ f.lane = l
    BY <2>1, <2>4
  <2> QED  BY <2>1, <2>3, <2>4, <2>5 DEF Started
<1> QED  BY <1>1, <1>2

(* Whoever claims a lane after a pass without being let in has a place that *)
(* the registry counts before the starts.                                  *)
LEMMA PassLets ==
  ASSUME NEW E, NEW dead, Passable(E)
  PROVE  Passable(AdmitWith(E, dead))
<1> DEFINE G == WarmGrants(E)
           F == AdmitWith(E, dead)
<1>1. E \in [Tasks -> Entry] /\ G \in [Tasks -> Entry]  BY WarmGrantsIsRegistry DEF Passable
<1>2. ASSUME NEW t \in Tasks
      PROVE  /\ Owed(t, G[t]) /\ G[t].status = E[t].status /\ G[t].lane = E[t].lane
             /\ G[t].acquiring = E[t].acquiring
             /\ G[t].status = "running" /\ G[t].run # "none" => E[t].run # "none"
  BY <1>1, GrantedIsOwed DEF Passable
<1>3. /\ F = [t \in Tasks |-> F[t]]
      /\ \A t \in Tasks : F[t] = G[t] \/ Started(G, dead, t, F[t])
  <2>1. PICK p : /\ p = [t \in Tasks |-> Promise(G, dead, p, t)]
                 /\ Starts(G, dead) = [t \in Tasks |-> StartOn(G[t], p[t], dead)]
    BY <1>1, StartsStep
  <2>2. F = [t \in Tasks |-> StartOn(G[t], p[t], dead)]  BY <2>1, AdmitIsTwoPasses
  <2> HIDE DEF F, G
  <2>3. ASSUME NEW t \in Tasks
        PROVE  F[t] = G[t] \/ Started(G, dead, t, F[t])
    <3>1. F[t] = StartOn(G[t], Promise(G, dead, p, t), dead)  BY <2>1, <2>2
    <3> QED  BY <1>1, <1>2, <3>1, PassStarts
  <2> QED  BY <2>2, <2>3
<1> HIDE DEF F, G
<1>4. ASSUME NEW t \in Tasks
      PROVE  /\ Owed(t, F[t]) /\ F[t] \in Entry
             /\ F[t].status = "queued" => Queued(t)
             /\ F[t] # G[t] => Queued(t)
  <2>1. F[t] = G[t] \/ Started(G, dead, t, F[t])  BY <1>3
  <2>2. Owed(t, F[t])  BY <1>2, <2>1 DEF Started
  <2>3. Started(G, dead, t, F[t]) => E[t].status = "queued"
    BY <1>2 DEF Started, Startable
  <2> QED  BY <1>2, <2>1, <2>2, <2>3 DEF Owed, Passable
<1>5. ASSUME NEW l \in Lanes, LetIn(F, l) # {}
      PROVE  Cardinality(Claims(F, l) \ LetIn(F, l)) < Cap[l]
  <2> DEFINE S == Claims(F, l) \ LetIn(F, l)
  <2>1. ASSUME NEW u \in LetIn(E, l)
        PROVE  u \in LetIn(F, l)
    <3>1. /\ u \in Tasks /\ Queued(u) /\ E[u].lane = l
          /\ (~task[u].acquiring /\ E[u].acquiring) \/ (~Ledger /\ E[u].status = "running")
      BY <2>1 DEF LetIn
    <3>2. ~Startable(G[u])  BY <1>2, <3>1 DEF Startable
    <3>3. F[u] = G[u]  BY <1>3, <3>1, <3>2 DEF Started
    <3> QED  BY <1>2, <3>1, <3>3 DEF LetIn
  <2>2. ASSUME NEW u \in S
        PROVE  /\ u \in Tasks /\ F[u] = G[u] /\ G[u].lane = l
               /\ G[u].status = "running" /\ G[u].run # "none"
    <3>1. u \in Tasks /\ F[u].lane = l /\ F[u].status = "running" /\ F[u].run # "none" /\ u \notin LetIn(F, l)
      BY <2>2 DEF Claims
    <3>2. F[u] = G[u]
      <4> SUFFICES ASSUME F[u] # G[u] PROVE FALSE  OBVIOUS
      <4>1. Queued(u) /\ ~Ledger  BY <1>3, <1>4, <3>1 DEF Started
      <4> QED  BY <3>1, <4>1 DEF LetIn
    <3> QED  BY <3>1, <3>2
  <2>3. S \subseteq Claims(E, l) \ LetIn(E, l)
    BY <1>2, <2>1, <2>2 DEF Claims
  <2>4. S \subseteq {u \in Tasks : Reserved(G, l, u)}
    <3>1. ASSUME NEW u \in S PROVE Reserved(G, l, u)
      BY <1>2, <2>2 DEF Owed, Reserved, Occupies
    <3> QED  BY <2>2, <3>1
  <2> HIDE DEF S
  <2>5. CASE LetIn(E, l) # {}
    <3> DEFINE R == Claims(E, l) \ LetIn(E, l)
    <3>1. Cardinality(R) < Cap[l]  BY <2>5 DEF Passable, Spare
    <3>2. R \subseteq Tasks  BY DEF Claims
    <3>3. S \subseteq R  BY <2>3
    <3> HIDE DEF R
    <3>4. Cardinality(S) <= Cardinality(R) /\ Cardinality(S) \in Nat /\ Cardinality(R) \in Nat
      BY <3>2, <3>3, FewerTasks
    <3>5. Cardinality(S) < Cap[l]  BY <3>1, <3>4, CapIsNat
    <3> QED  BY <3>5 DEF S
  <2>6. CASE LetIn(E, l) = {}
    <3> DEFINE R == {u \in Tasks : Reserved(G, l, u)}
    <3>1. PICK t \in Tasks : t \in LetIn(F, l)  BY <1>5 DEF LetIn
    <3>2. /\ Queued(t) /\ F[t].lane = l
          /\ (~task[t].acquiring /\ F[t].acquiring) \/ (~Ledger /\ F[t].status = "running")
      BY <3>1 DEF LetIn
    <3>3. F[t] # G[t]
      <4> SUFFICES ASSUME F[t] = G[t] PROVE FALSE  OBVIOUS
      <4>1. t \in LetIn(E, l)  BY <1>2, <3>2 DEF LetIn
      <4> QED  BY <2>6, <4>1
    <3>4. \E k \in Nat : Occupancy(G, l) + k < Cap[l]
      BY <1>3, <3>2, <3>3 DEF Started
    <3>5. Occupancy(G, l) = Cardinality(R)  BY DEF Occupancy
    <3>6. S \subseteq R /\ R \subseteq Tasks  BY <2>4
    <3> HIDE DEF R
    <3>7. Cardinality(S) <= Cardinality(R) /\ Cardinality(S) \in Nat /\ Cardinality(R) \in Nat
      BY <3>6, FewerTasks
    <3>8. Cap[l] \in Nat  BY CapIsNat
    <3>9. Cardinality(S) < Cap[l]  BY <3>4, <3>5, <3>7, <3>8
    <3> QED  BY <3>9 DEF S
  <2> QED  BY <2>5, <2>6
<1>6. F \in [Tasks -> Entry]  BY <1>3, <1>4
<1>7. Spare(F)  BY <1>5 DEF Spare
<1>8. Passable(F)  BY <1>4, <1>6, <1>7 DEF Passable
<1> QED  BY <1>8 DEF F

(* One entry after another.  A change lets nobody in, unless that is why    *)
(* the handler made it.                                                    *)
LetsIn(t, f) ==
  /\ Queued(t)
  /\ (~task[t].acquiring /\ f.acquiring) \/ (~Ledger /\ f.status = "running")

Mild(t, f) ==
  Owed(t, f) /\ ~LetsIn(t, f) /\ (f.status = "queued" => Queued(t))

LEMMA SetLets ==
  ASSUME NEW E, Passable(E), NEW t \in Tasks, NEW f, Mild(t, f),
         (\A l \in Lanes : LetIn(E, l) = {}) \/ f.status # "running" \/ f.run = "none"
  PROVE  Passable([E EXCEPT ![t] = f])
<1> DEFINE F == [E EXCEPT ![t] = f]
<1>1. E \in [Tasks -> Entry] /\ f \in Entry  BY DEF Passable, Mild, Owed
<1>2. F \in [Tasks -> Entry] /\ F[t] = f /\ \A u \in Tasks \ {t} : F[u] = E[u]  BY <1>1
<1> HIDE DEF F
<1>3. \A u \in Tasks : Owed(u, F[u]) /\ (F[u].status = "queued" => Queued(u))
  BY <1>2 DEF Passable, Mild
<1>4. ASSUME NEW l \in Lanes, LetIn(F, l) # {}
      PROVE  Cardinality(Claims(F, l) \ LetIn(F, l)) < Cap[l]
  <2> DEFINE S == Claims(F, l) \ LetIn(F, l)
             R == Claims(E, l) \ LetIn(E, l)
  <2>1. t \notin LetIn(F, l)  BY <1>2 DEF LetIn, Mild, LetsIn
  <2>2. \A u \in Tasks \ {t} : u \in LetIn(F, l) <=> u \in LetIn(E, l)  BY <1>2 DEF LetIn
  <2>3. LetIn(E, l) # {}
    <3>1. PICK u \in LetIn(F, l) : TRUE  BY <1>4
    <3>2. u \in Tasks /\ u # t  BY <2>1, <3>1 DEF LetIn
    <3> QED  BY <2>2, <3>1, <3>2
  <2>4. t \notin Claims(F, l)  BY <1>2, <2>3 DEF Claims
  <2>5. S \subseteq R
    <3> SUFFICES ASSUME NEW u \in S PROVE u \in R  OBVIOUS
    <3>1. u \in Tasks /\ u # t  BY <2>4 DEF Claims
    <3> QED  BY <1>2, <2>2, <3>1 DEF Claims
  <2>6. Cardinality(R) < Cap[l]  BY <2>3 DEF Passable, Spare
  <2>7. R \subseteq Tasks  BY DEF Claims
  <2> HIDE DEF S, R
  <2>8. Cardinality(S) <= Cardinality(R) /\ Cardinality(S) \in Nat /\ Cardinality(R) \in Nat
    BY <2>5, <2>7, FewerTasks
  <2>9. Cardinality(S) < Cap[l]  BY <2>6, <2>8, CapIsNat
  <2> QED  BY <2>9 DEF S
<1>5. Passable(F)  BY <1>2, <1>3, <1>4 DEF Passable, Spare
<1> QED  BY <1>5 DEF F

(* The present registry lets nobody in, nor does one that differs in what   *)
(* blocks its tasks.                                                       *)
LEMMA HereLetsNobody ==
  ASSUME NEW E, \A t \in Tasks : E[t].status = task[t].status /\ E[t].acquiring = task[t].acquiring
  PROVE  Spare(E) /\ \A l \in Lanes : LetIn(E, l) = {}
BY DEF LetIn, Spare, Queued

LEMMA HerePasses ==
  ASSUME IInv, NEW E, E \in {task, Unblocked(task)}
  PROVE  Passable(E) /\ \A l \in Lanes : LetIn(E, l) = {}
<1>1. Sound(task)  BY DEF IInv, Entries, Sound
<1>2. Sound(E)  BY <1>1, UnblockedReaches DEF Reached
<1>3. \A t \in Tasks : E[t].status = task[t].status /\ E[t].acquiring = task[t].acquiring
  <2>1. ASSUME NEW t \in Tasks
        PROVE  Unblocked(task)[t].status = task[t].status /\ Unblocked(task)[t].acquiring = task[t].acquiring
    <3>1. Unblocked(task)[t] = [task[t] EXCEPT !.blocked = FALSE] /\ task[t] \in Entry
      BY <1>1 DEF Unblocked, Sound
    <3> QED  BY <3>1 DEF Entry
  <2> QED  BY <2>1
<1>4. \A t \in Tasks : Owed(t, E[t])  BY <1>2, SoundIsOwed DEF Sound
<1> QED  BY <1>2, <1>3, <1>4, HereLetsNobody DEF Passable, Sound, Queued

(* What a step may do that changes one entry and then, perhaps, passes.     *)
LEMMA MildSets ==
  ASSUME IInv, NEW t \in Tasks, NEW f, Mild(t, f),
         task' = Set(t, f) \/ \E dead : task' = AdmitWith(Set(t, f), dead)
  PROVE  Spare(task')
<1>1. Passable(task) /\ \A l \in Lanes : LetIn(task, l) = {}  BY HerePasses
<1>2. Passable(Set(t, f))  BY <1>1, SetLets DEF Set
<1> QED  BY <1>2, PassLets DEF Passable

LEMMA HerePassed ==
  ASSUME IInv, NEW E, E \in {task, Unblocked(task)}, E = task' \/ \E dead : task' = AdmitWith(E, dead)
  PROVE  Spare(task')
BY HerePasses, PassLets DEF Passable

(* A task that was not queued is not let in.                               *)
LEMMA OldIsMild ==
  ASSUME NEW t \in Tasks, ~Queued(t), NEW f, Owed(t, f), f.status # "queued"
  PROVE  Mild(t, f)
BY DEF Mild, LetsIn

LEMMA FinalIsMild ==
  ASSUME NEW t \in Tasks, ~Queued(t), NEW e \in Entry, NEW end \in Terminal
  PROVE  Mild(t, Final(e, end)) /\ Final(e, end).status # "running"
<1> DEFINE f == Final(e, end)
<1>1. f \in Entry  BY FinalIsEntry
<1>2. f.status = end  BY DEF Final, Entry
<1> HIDE DEF f
<1>3. f.status # "running" /\ f.status # "queued"  BY <1>2 DEF Terminal
<1>4. Mild(t, f)  BY <1>1, <1>3, OldIsMild DEF Owed
<1> QED  BY <1>3, <1>4 DEF f

(* A change without a pass that lets nobody in.                            *)
LEMMA SetSpares ==
  ASSUME IInv, NEW t \in Tasks, NEW f, ~LetsIn(t, f), task' = Set(t, f)
  PROVE  Spare(task')
<1>1. task'[t] = f /\ \A u \in Tasks \ {t} : task'[u] = task[u]
  <2>1. task \in [Tasks -> Entry]  BY DEF IInv, Entries
  <2> QED  BY <2>1 DEF Set
<1>2. \A l \in Lanes : LetIn(task', l) = {}  BY <1>1 DEF LetIn, LetsIn, Queued
<1> QED  BY <1>2 DEF Spare

(* A sound entry that is neither started nor sent to the ledger.           *)
LEMMA SoundIsMild ==
  ASSUME NEW t \in Tasks, NEW f, EntryInv(setup, t, f),
         f.status = task[t].status, f.acquiring = task[t].acquiring
  PROVE  Mild(t, f)
BY SoundIsOwed DEF Mild, LetsIn, Queued

LEMMA WarmIsOld ==
  ASSUME IInv, NEW t \in Tasks
  PROVE  /\ task[t].status = "running" => ~Queued(t)
         /\ task[t].run # "none" => ~Queued(t)
         /\ task[t].granting => ~Queued(t)
         /\ task[t].asking => ~Queued(t)
         /\ task[t].settling > 0 => ~Queued(t)
<1>1. EntryInv(setup, t, task[t]) /\ task[t] \in Entry  BY InvFacts
<1>2. Queued(t) => Cold(task[t])  BY <1>1 DEF EntryInv, ColdInv, Queued
<1>3. Cold(task[t]) => ~(task[t].settling > 0)
  <2>1. task[t].settling = 0 => ~(task[t].settling > 0)
    <3>1. task[t].settling \in Nat  BY <1>1 DEF Entry, MaxLoops
    <3> QED  BY <3>1
  <2> QED  BY <2>1 DEF Cold
<1> QED  BY <1>2, <1>3 DEF Cold, Queued

(* A turn that waits for its lane is one that the registry counts.         *)
LEMMA QueueLets ==
  ASSUME IInv, NEW t \in Tasks, task[t].run = "slot" \/ task[t].status = "running",
         task' = Queue(t, task[t])
  PROVE  Spare(task')
<1> DEFINE e == task[t]
           f == [e EXCEPT !.granted = FALSE, !.pending = TRUE, !.run = "wait"]
<1>1. e \in Entry /\ ~Queued(t)  BY InvFacts, WarmIsOld
<1>2. task' = Admit(Set(t, f))  BY DEF Queue
<1>3. f \in Entry /\ f.pending /\ f.run = "wait" /\ f.status = e.status
  BY <1>1 DEF Entry, Runs
<1> HIDE DEF f
<1>4. Mild(t, f)  BY <1>1, <1>3, OldIsMild DEF Owed, Queued
<1> QED  BY <1>2, <1>4, MildSets DEF Admit

(* The end of a task, followed by a pass.                                  *)
LEMMA FinalLets ==
  ASSUME IInv, NEW t \in Tasks, ~Queued(t), NEW e \in Entry, NEW end \in Terminal,
         task' = Admit(Set(t, Final(e, end)))
  PROVE  Spare(task')
BY FinalIsMild, MildSets DEF Admit

LEMMA CallerLets ==
  ASSUME IInv, NEW t \in Tasks, Caller(t)
  PROVE  Spare(task')
<1> DEFINE e == task[t]
<1>1. e \in Entry  BY InvFacts
<1>2. CASE Spawn(t)
  <2> DEFINE f == [Absent EXCEPT !.status = "queued", !.fetching = TRUE, !.planning = TRUE]
  <2>1. task' = Set(t, f) /\ ~Queued(t)  BY <1>2 DEF Spawn, Queued
  <2> QED  BY <2>1, SetSpares DEF LetsIn
<1>3. CASE TaskTurn(t)
  <2> DEFINE g == [e EXCEPT !.granted = TRUE, !.run = "slot"]
  <2>1. e.status = "running"  BY <1>3 DEF TaskTurn, Ready
  <2>2. task' = Set(t, g) \/ task' = Queue(t, e)  BY <1>3 DEF TaskTurn
  <2>3. ~LetsIn(t, g)  BY <2>1, WarmIsOld DEF LetsIn
  <2> QED  BY <2>1, <2>2, <2>3, SetSpares, QueueLets
<1>4. CASE CompleteTask(t)
  <2> DEFINE f == [e EXCEPT !.release = TRUE]
  <2>1. /\ task' = Admit(Set(t, Final(f, "completed"))) \/ task' = Set(t, f)
        /\ e.status = "running"
    BY <1>1, <1>4 DEF CompleteTask, Entry
  <2>2. f \in Entry  BY <1>1 DEF Entry
  <2>3. ~Queued(t) /\ ~LetsIn(t, f)  BY <2>1, WarmIsOld DEF LetsIn
  <2> HIDE DEF f
  <2> QED  BY <2>1, <2>2, <2>3, SetSpares, FinalLets DEF Terminal
<1>5. CASE Interrupt(t)
  <2> DEFINE f == [e EXCEPT !.status = "cancelled", !.settled = TRUE, !.planning = FALSE,
                            !.placing = FALSE, !.plan = <<>>, !.lane = Bare]
             g == [e EXCEPT !.aborted = TRUE]
  <2>1. \/ task' = Admit(Set(t, f))
        \/ e.status = "running" /\ task' = Admit(Set(t, Final(e, "cancelled")))
        \/ task' = Set(t, g)
    BY <1>5 DEF Interrupt
  <2>2. f \in Entry /\ f.status = "cancelled" /\ f.acquiring = e.acquiring
    BY <1>1, BareIsLane DEF Entry, Terminal
  <2>3. g.status = e.status /\ g.acquiring = e.acquiring  BY <1>1 DEF Entry
  <2> HIDE DEF f, g
  <2>4. Mild(t, f)  BY <2>2 DEF Mild, Owed, LetsIn
  <2>5. ~LetsIn(t, g)  BY <2>3 DEF LetsIn, Queued
  <2> QED  BY <1>1, <2>1, <2>4, <2>5, MildSets, SetSpares, FinalLets, WarmIsOld DEF Admit, Terminal
<1>6. CASE Ask(t)
  <2> DEFINE f == [e EXCEPT !.asking = TRUE, !.lease = None]
  <2>1. task' = Set(t, f) /\ e.run = "drive"  BY <1>6 DEF Ask
  <2>2. ~LetsIn(t, f)  BY <2>1, WarmIsOld DEF LetsIn
  <2> HIDE DEF f
  <2> QED  BY <2>1, <2>2, SetSpares
<1> QED  BY <1>2, <1>3, <1>4, <1>5, <1>6 DEF Caller

(* A placement goes on, or ends with a pass.                               *)
LEMMA SeekOnLets ==
  ASSUME IInv, NEW t \in Tasks, NEW n \in 1 .. MaxSeeks, NEW left, NEW f, Mild(t, f),
         SeekOn(t, n, left, Set(t, f))
  PROVE  Spare(task')
<1>1. CASE left # <<>>  BY <1>1, MildSets DEF SeekOn
<1>2. CASE left = <<>>
  <2> DEFINE b == f.blocked \/ Ledger
             g == NoHome(f)
  <2>1. f \in Entry /\ Sound(task)  BY InvFacts DEF Mild, Owed
  <2>2. task' = Admit(Set(t, g))
    <3>1. task' = Admit([Set(t, f) EXCEPT ![t] = NoHome(Set(t, f)[t])])  BY <1>2 DEF SeekOn
    <3> QED  BY <2>1, <3>1, SetAgain
  <2>3. b \in BOOLEAN  OBVIOUS
  <2>4. g = [f EXCEPT !.lane = Bare, !.blocked = b]  BY <2>1 DEF NoHome, Entry
  <2> HIDE DEF b, g
  <2>5. g \in Entry  BY <2>1, <2>3, <2>4, BareIsLane DEF Entry
  <2>6. /\ g.status = f.status /\ g.run = f.run /\ g.acquiring = f.acquiring
        /\ g.granted = f.granted /\ g.pending = f.pending /\ g.ran = f.ran
    BY <2>1, <2>4 DEF Entry
  <2>7. Mild(t, g)  BY <2>5, <2>6 DEF Mild, Owed, LetsIn
  <2> QED  BY <2>2, <2>7, MildSets DEF Admit
<1> QED  BY <1>1, <1>2

(* What a warm placement starts, it starts where the registry, counted      *)
(* again after the await, has room.                                        *)
LEMMA PlacedPasses ==
  ASSUME IInv, NEW t \in Tasks, Queued(t), NEW l \in Lanes, ~Filled(t, l),
         NEW x \in Lanes \cup {None},
         NEW p, p = Begin([task[t] EXCEPT !.lane = l, !.plan = <<>>], x)
  PROVE  Passable(Set(t, p))
<1> DEFINE e == task[t]
           E == Set(t, p)
<1>1. e \in Entry /\ EntryInv(setup, t, e) /\ task \in [Tasks -> Entry]
  BY InvFacts DEF Sound
<1>2. p = [e EXCEPT !.lane = l, !.plan = <<>>, !.status = "running", !.run = "build", !.lease = x]
  BY <1>1 DEF Begin, Entry
<1>3. p \in Entry
  <2>1. e \in Entry /\ l \in Lanes /\ <<>> \in Seq(Lanes)  BY <1>1
  <2> HIDE DEF e
  <2> QED  BY <1>2, <2>1 DEF Entry, Runs, Terminal
<1>4. p.status = "running" /\ p.run = "build" /\ p.lane = l /\ p.acquiring = e.acquiring /\ p.ran = e.ran
  BY <1>1, <1>2 DEF Entry
<1>5. ~e.ran  BY <1>1 DEF EntryInv, ColdInv, Cold, Queued
<1>6. E \in [Tasks -> Entry] /\ E[t] = p /\ \A u \in Tasks \ {t} : E[u] = task[u]
  BY <1>1, <1>3 DEF Set
<1> HIDE DEF E
<1>7. \A u \in Tasks : Owed(u, task[u])
  <2> TAKE u \in Tasks
  <2>1. EntryInv(setup, u, task[u])  BY InvFacts
  <2> QED  BY <2>1, SoundIsOwed
<1>8. Owed(t, p)  BY <1>3, <1>4, <1>5 DEF Owed
<1>9. ASSUME NEW m \in Lanes, LetIn(E, m) # {}
      PROVE  Cardinality(Claims(E, m) \ LetIn(E, m)) < Cap[m]
  <2> DEFINE S == Claims(E, m) \ LetIn(E, m)
             R == {u \in Tasks \ {t} : Reserved(task, l, u)}
  <2>1. \A u \in LetIn(E, m) : u = t  BY <1>6 DEF LetIn, Queued
  <2>2. t \in LetIn(E, m) /\ m = l  BY <1>4, <1>6, <1>9, <2>1 DEF LetIn
  <2>3. S \subseteq R
    <3> SUFFICES ASSUME NEW u \in S PROVE u \in R  OBVIOUS
    <3>1. u \in Tasks \ {t} /\ task[u].lane = l /\ task[u].status = "running" /\ task[u].run # "none"
      BY <1>6, <2>2 DEF Claims
    <3>2. Reserved(task, l, u)  BY <1>7, <3>1 DEF Owed, Reserved, Occupies
    <3> QED  BY <3>1, <3>2
  <2>4. ~(Cardinality(R) >= Cap[l])  BY DEF Filled, OccupancyBut
  <2>5. R \subseteq Tasks  OBVIOUS
  <2> HIDE DEF S, R
  <2>6. Cardinality(S) <= Cardinality(R) /\ Cardinality(S) \in Nat /\ Cardinality(R) \in Nat
    BY <2>3, <2>5, FewerTasks
  <2>7. Cap[l] \in Nat  BY CapIsNat
  <2>8. Cardinality(S) < Cap[l]  BY <2>4, <2>6, <2>7
  <2> QED  BY <2>2, <2>8 DEF S
<1>10. \A u \in Tasks : Owed(u, E[u]) /\ (E[u].status = "queued" => Queued(u))
  BY <1>4, <1>6, <1>7, <1>8 DEF Queued
<1>11. Passable(E)  BY <1>6, <1>9, <1>10 DEF Passable, Spare
<1> QED  BY <1>11 DEF E

LEMMA SeekAnswerLets ==
  ASSUME IInv, NEW t \in Tasks, NEW n \in 1 .. MaxSeeks, NEW out \in Outcomes,
         SeekAnswer(t, n, out)
  PROVE  Spare(task')
<1> DEFINE s == seek[t][n]
           l == Head(s.left)
           e == task[t]
           x == LeaseOf(l, out)
           p == Begin([e EXCEPT !.lane = l, !.plan = <<>>], x)
<1>1. EntryInv(setup, t, e) /\ Sound(task)  BY InvFacts
<1>2. s.phase = "ask" /\ l \in Lanes  BY SeekFacts DEF SeekAnswer
<1>3. Set(t, e) = task  BY <1>1, SetAgain
<1>4. CASE task' = task \/ task' = Admit(task)  BY <1>4, HerePassed DEF Admit
<1>5. CASE SeekOn(t, n, Tail(s.left), task)
  <2>1. SeekOn(t, n, Tail(s.left), Set(t, e))  BY <1>3, <1>5
  <2>2. Mild(t, e)  BY <1>1, SoundIsMild
  <2> QED  BY <2>1, <2>2, SeekOnLets
<1>6. CASE e.status = "queued" /\ ~Filled(t, l) /\ task' = Admit(Set(t, p))
  <2>1. x \in Lanes \cup {None}  BY <1>2 DEF LeaseOf
  <2>2. Passable(Set(t, p))  BY <1>2, <1>6, <2>1, PlacedPasses DEF Queued
  <2> QED  BY <1>6, <2>2, PassLets DEF Admit, Passable
<1> QED  BY <1>4, <1>5, <1>6 DEF SeekAnswer

LEMMA AcquiredLets ==
  ASSUME IInv, NEW t \in Tasks, NEW out \in Outcomes, Acquired(t, out)
  PROVE  Spare(task')
<1> DEFINE e == task[t]
<1>1. EntryInv(setup, t, e) /\ e \in Entry  BY InvFacts
<1>2. CASE StartAnswer(t, out)
  <2> DEFINE a == [e EXCEPT !.acquiring = FALSE]
             b == [a EXCEPT !.blocked = TRUE]
             f == Begin(a, LeaseOf(Head(Plan[t]), out))
  <2>1. e.acquiring /\ Ledger  BY <1>1, <1>2 DEF StartAnswer, EntryInv, PlanInv, Ledger
  <2>2. task' = Set(t, a) \/ task' = Set(t, b) \/ task' = Set(t, f)  BY <1>2 DEF StartAnswer
  <2>3. ~LetsIn(t, a) /\ ~LetsIn(t, b) /\ ~LetsIn(t, f)  BY <2>1 DEF LetsIn
  <2> HIDE DEF a, b, f
  <2> QED  BY <2>2, <2>3, SetSpares
<1>3. CASE TurnSlotAnswer(t, out)
  <2> DEFINE a == [e EXCEPT !.granted = FALSE, !.run = "none"]
             f == [e EXCEPT !.granted = FALSE, !.run = "drive", !.lease = LeaseOf(e.lane, out)]
  <2>1. e.run = "slot" /\ (task' = Set(t, a) \/ task' = Set(t, f) \/ task' = Queue(t, e))
    BY <1>3 DEF TurnSlotAnswer
  <2>2. ~LetsIn(t, a) /\ ~LetsIn(t, f)  BY <2>1, WarmIsOld DEF LetsIn
  <2> HIDE DEF a, f
  <2> QED  BY <2>1, <2>2, SetSpares, QueueLets
<1>4. CASE GrantAnswer(t, out)
  <2>1. e.granting /\ \E f : task' = Set(t, f)  BY <1>4 DEF GrantAnswer
  <2>2. \A f : ~LetsIn(t, f)  BY <2>1, WarmIsOld DEF LetsIn
  <2> QED  BY <2>1, <2>2, SetSpares
<1>5. CASE SettleAnswer(t, out)
  <2>1. e.settling > 0 /\ (task' = task \/ \E f : task' = Set(t, f))  BY <1>5 DEF SettleAnswer
  <2>2. \A f : ~LetsIn(t, f)  BY <2>1, WarmIsOld DEF LetsIn
  <2> QED  BY <2>1, <2>2, SetSpares, HereLetsNobody
<1>6. CASE \E n \in 1 .. MaxSeeks : SeekAnswer(t, n, out)  BY <1>6, SeekAnswerLets
<1> QED  BY <1>2, <1>3, <1>4, <1>5, <1>6 DEF Acquired

(* The turn that ends claims its lane no more; the passes around it see     *)
(* that, also those that noteUp and the end of the task make.               *)
LEMMA TurnEndsLets ==
  ASSUME IInv, NEW t \in Tasks, NEW result \in Terminal, NEW refused \in BOOLEAN,
         TurnEnds(t, result, refused)
  PROVE  Spare(task')
<1> DEFINE l == task[t].lane
           G == IF result = "completed" THEN NotedUp(l) ELSE task
           E == [G EXCEPT ![t].run = "none", ![t].ran = TRUE]
           e == G[t]
           f == [e EXCEPT !.run = "none", !.ran = TRUE]
           dead == IF result = "completed" THEN down \ {l}
                   ELSE IF refused THEN down \cup ({l} \cap Watched) ELSE down
<1>1. task[t].run = "drive" /\ ~Queued(t)  BY WarmIsOld DEF TurnEnds
<1>2. G = task \/ \E gone : G = AdmitWith(Unblocked(task), gone)  BY DEF NotedUp
<1>3. \/ task' = AdmitWith([E EXCEPT ![t] = Park(@)], dead)
      \/ \E end \in Ends(t, result) :
           task' = AdmitWith([AdmitWith(E, dead) EXCEPT ![t] = Final(@, end)], dead)
  BY DEF TurnEnds
<1> HIDE DEF G, dead
<1>4. Beside(t, G) /\ Driving(t, e) /\ Passable(G)
  BY <1>1, <1>2, NotedIsBeside, HerePasses, PassLets
<1>5. G \in [Tasks -> Entry] /\ e \in Entry /\ ~e.pending /\ e.status = "running"
  BY <1>4 DEF Beside, Driving, EntryInv, RunInv
<1>6. E = [G EXCEPT ![t] = f]  BY <1>5
<1>7. /\ f \in Entry /\ f.status = "running" /\ f.run = "none" /\ ~f.pending
      /\ Park(f) \in Entry /\ Park(f).status = "running" /\ Park(f).run = "none" /\ ~Park(f).pending
  BY <1>5 DEF Entry, Runs, Park
<1>8. Mild(t, f) /\ Mild(t, Park(f))  BY <1>1, <1>7, OldIsMild DEF Owed
<1> HIDE DEF e, f
<1>9. Passable(E) /\ E[t] = f /\ E \in [Tasks -> Entry]
  <2>1. Passable([G EXCEPT ![t] = f])  BY <1>4, <1>7, <1>8, SetLets
  <2> QED  BY <1>5, <1>6, <1>7, <2>1
<1>10. CASE task' = AdmitWith([E EXCEPT ![t] = Park(@)], dead)
  <2> DEFINE g == Park(f)
  <2>1. task' = AdmitWith([E EXCEPT ![t] = g], dead)  BY <1>9, <1>10
  <2> HIDE DEF g, E
  <2>2. Passable([E EXCEPT ![t] = g])  BY <1>7, <1>8, <1>9, SetLets DEF g
  <2> QED  BY <2>1, <2>2, PassLets DEF Passable
<1>11. CASE \E end \in Ends(t, result) :
              task' = AdmitWith([AdmitWith(E, dead) EXCEPT ![t] = Final(@, end)], dead)
  <2> DEFINE F == AdmitWith(E, dead)
  <2> HIDE DEF E
  <2>1. PICK end \in Ends(t, result) : task' = AdmitWith([F EXCEPT ![t] = Final(@, end)], dead)
    BY <1>11
  <2>2. Passable(F)  BY <1>9, PassLets
  <2> HIDE DEF F
  <2>3. F \in [Tasks -> Entry] /\ F[t] \in Entry  BY <2>2 DEF Passable
  <2> DEFINE g == Final(F[t], end)
  <2>4. Mild(t, g) /\ g.status # "running"
    <3>1. end \in Terminal  BY DEF Ends, Terminal
    <3> QED  BY <1>1, <2>3, <3>1, FinalIsMild
  <2>5. task' = AdmitWith([F EXCEPT ![t] = g], dead)  BY <2>1, <2>3
  <2> HIDE DEF g
  <2>6. Passable([F EXCEPT ![t] = g])  BY <2>2, <2>4, SetLets
  <2> QED  BY <2>5, <2>6, PassLets DEF Passable
<1> QED  BY <1>3, <1>10, <1>11

LEMMA ResumeLets ==
  ASSUME IInv, NEW t \in Tasks, Resume(t)
  PROVE  Spare(task')
<1> DEFINE e == task[t]
<1>1. /\ setup \in Setups /\ EntryInv(setup, t, e) /\ e \in Entry /\ Sound(task)  BY InvFacts
<1>2. CASE Planned(t)
  <2> DEFINE f == [e EXCEPT !.fetching = FALSE]
             g == [e EXCEPT
               !.fetching = FALSE, !.planning = FALSE,
               !.lane = IF Len(setup.plan[t]) > 1 THEN Bare ELSE Head(setup.plan[t]),
               !.plan = IF Len(setup.plan[t]) > 1 THEN setup.plan[t] ELSE <<>>]
  <2>1. e.fetching /\ f.status = e.status /\ f.acquiring = e.acquiring
    BY <1>1, <1>2 DEF Planned, Entry
  <2>2. CASE e.status # "queued"
    <3>1. task' = Set(t, f)  BY <1>2, <2>1, <2>2 DEF Planned
    <3>2. ~LetsIn(t, f)  BY <2>2 DEF LetsIn, Queued
    <3> HIDE DEF f
    <3> QED  BY <3>1, <3>2, SetSpares
  <2>3. CASE e.status = "queued"
    <3>1. task' = Admit(Set(t, g))  BY <1>2, <2>1, <2>3 DEF Planned, Plan
    <3>2. EntryInv(setup, t, g)  BY <1>1, <2>1, <2>3, PlannedKeeps
    <3>3. g.status = e.status /\ g.acquiring = e.acquiring  BY <1>1 DEF Entry
    <3> HIDE DEF g
    <3> QED  BY <3>1, <3>2, <3>3, SoundIsMild, MildSets DEF Admit
  <2> QED  BY <2>2, <2>3
<1>3. CASE PlanFails(t)
  <2> DEFINE f == [Absent EXCEPT !.status = "refused", !.settled = e.settled]
  <2>1. task' = Set(t, f)  BY <1>3 DEF PlanFails
  <2>2. f.status = "refused" /\ ~f.acquiring  BY DEF Absent
  <2> HIDE DEF f
  <2>3. ~LetsIn(t, f)  BY <2>2 DEF LetsIn
  <2> QED  BY <2>1, <2>3, SetSpares
<1>4. CASE Sorted(t)
  <2> DEFINE f == [e EXCEPT !.sorting = {}, !.placing = FALSE]
  <2>1. \/ task' = Admit(Set(t, f))
        \/ \E n \in 1 .. Seeks : \E left : SeekOn(t, n, left, Set(t, f))
    BY <1>4 DEF Sorted
  <2>2. EntryInv(setup, t, f) /\ f.status = e.status /\ f.acquiring = e.acquiring
    <3>1. e.sorting # {}  BY <1>4 DEF Sorted
    <3>2. EntryInv(setup, t, f)  BY <1>1, <3>1, SortedKeeps
    <3> QED  BY <1>1, <3>2 DEF Entry
  <2>3. 1 .. Seeks \subseteq 1 .. MaxSeeks
    <3>1. setup.seeks \in 1 .. MaxSeeks /\ MaxSeeks \in Nat  BY <1>1, SetupFacts, TasksAreFinite
    <3> QED  BY <3>1 DEF Seeks
  <2> HIDE DEF f
  <2>4. Mild(t, f)  BY <2>2, SoundIsMild
  <2> QED  BY <2>1, <2>3, <2>4, MildSets, SeekOnLets DEF Admit
<1>5. CASE BuildFails(t) \/ (Built(t) /\ e.aborted)
  <2> DEFINE g == [e EXCEPT !.run = "none"]
  <2>1. e.run = "build" /\ \E end \in Terminal : task' = Admit(Set(t, Final(g, end)))
    BY <1>5 DEF BuildFails, Built, Ends, Terminal
  <2>2. g \in Entry  BY <1>1 DEF Entry, Runs
  <2> HIDE DEF g
  <2> QED  BY <2>1, <2>2, WarmIsOld, FinalLets
<1>6. CASE (Built(t) /\ ~e.aborted) \/ Woken(t) \/ Answered(t)
  <2>1. (e.run # "none" \/ e.asking) /\ \E f : task' = Set(t, f)
    BY <1>6 DEF Built, Woken, Answered
  <2>2. \A f : ~LetsIn(t, f)  BY <2>1, WarmIsOld DEF LetsIn
  <2> QED  BY <2>1, <2>2, SetSpares
<1>7. CASE \E result \in Terminal, refused \in BOOLEAN : TurnEnds(t, result, refused)
  BY <1>7, TurnEndsLets
<1>8. CASE \E n \in 1 .. MaxSeeks : SeekReturned(t, n)
  <2>1. PICK n \in 1 .. MaxSeeks : SeekReturned(t, n)  BY <1>8
  <2>2. CASE SeekOn(t, n, Tail(seek[t][n].left), task)
    <3>1. SeekOn(t, n, Tail(seek[t][n].left), Set(t, e))  BY <1>1, <2>2, SetAgain
    <3>2. Mild(t, e)  BY <1>1, SoundIsMild
    <3> QED  BY <3>1, <3>2, SeekOnLets
  <2>3. CASE task' = Admit(task)  BY <2>3, HerePassed DEF Admit
  <2> QED  BY <2>1, <2>2, <2>3 DEF SeekReturned
<1> QED  BY <1>2, <1>3, <1>4, <1>5, <1>6, <1>7, <1>8 DEF Resume

LEMMA LanesLet ==
  ASSUME IInv,
         \/ RetryTick
         \/ \E l \in Lanes : Freed(l) \/ Handed(l) \/ SweepDown(l) \/ SweepUp(l)
  PROVE  Spare(task')
<1>1. CASE RetryTick  BY <1>1, HerePassed DEF RetryTick, Admit
<1>2. ASSUME NEW l \in Lanes, Freed(l)
      PROVE  Spare(task')
  <2> DEFINE W == {t \in Tasks : task[t].blocked /\ task[t].lane = l}
             U == [t \in Tasks |-> [task[t] EXCEPT !.blocked = @ /\ t \notin W]]
  <2>1. task' = task \/ task' = AdmitWith(U, down)  BY <1>2 DEF Freed, Admit
  <2>2. Sound(task)  BY DEF IInv, Entries, Sound
  <2>3. /\ U = [t \in Tasks |-> U[t]] /\ DOMAIN U = Tasks
        /\ \A t \in Tasks : \E b \in BOOLEAN : U[t] = [task[t] EXCEPT !.blocked = b]
    <3>1. ASSUME NEW t \in Tasks
          PROVE  \E b \in BOOLEAN : U[t] = [task[t] EXCEPT !.blocked = b]
      <4> DEFINE b == task[t].blocked /\ t \notin W
      <4>1. b \in BOOLEAN /\ task[t] \in Entry  BY <2>2 DEF Sound
      <4>2. U[t] = [task[t] EXCEPT !.blocked = b]  BY <4>1 DEF Entry
      <4> HIDE DEF b, U
      <4> QED  BY <4>1, <4>2
    <3> QED  BY <3>1
  <2> HIDE DEF U
  <2>4. Sound(U)  BY <2>2, <2>3, ClearedReaches DEF Reached
  <2>5. \A t \in Tasks : U[t].status = task[t].status /\ U[t].acquiring = task[t].acquiring
    <3> TAKE t \in Tasks
    <3>1. task[t] \in Entry  BY <2>2 DEF Sound
    <3> QED  BY <2>3, <3>1 DEF Entry
  <2>6. Passable(U)
    <3>1. \A t \in Tasks : Owed(t, U[t])  BY <2>4, SoundIsOwed DEF Sound
    <3> QED  BY <2>4, <2>5, <3>1, HereLetsNobody DEF Passable, Sound, Queued
  <2> QED  BY <2>1, <2>6, HereLetsNobody, PassLets DEF Passable
<1>3. ASSUME NEW l \in Lanes, Handed(l) \/ SweepDown(l)
      PROVE  Spare(task')
  BY <1>3, HereLetsNobody DEF Handed, SweepDown
<1>4. ASSUME NEW l \in Lanes, SweepUp(l)
      PROVE  Spare(task')
  BY <1>4, HerePassed DEF SweepUp
<1> QED  BY <1>1, <1>2, <1>3, <1>4

(* A queued task is started, or sent to the ledger, only in room that no    *)
(* turn of its lane has claimed, running or waiting for its own slot        *)
(* (WarmTurnsFirst): a pass counts the turns it grants before it promises   *)
(* anything, and a placement counts them again after its awaits.            *)
THEOREM WarmTurnsComeFirst == Spec => WarmTurnsFirst
<1>1. IInv /\ [Next]_vars =>
        [\A l \in Lanes : Admitted(l) # {} =>
           Cardinality(Claims(task', l) \ Admitted(l)) < Cap[l]]_vars
  <2> SUFFICES ASSUME IInv, Next
               PROVE  \A l \in Lanes : Admitted(l) # {} =>
                        Cardinality(Claims(task', l) \ Admitted(l)) < Cap[l]
    OBVIOUS
  <2>1. Spare(task')  BY CallerLets, ResumeLets, AcquiredLets, LanesLet DEF Next
  <2>2. \A l \in Lanes : Admitted(l) = LetIn(task', l)  BY DEF Admitted, LetIn
  <2> QED  BY <2>1, <2>2 DEF Spare
<1> QED  BY <1>1, Invariant, PTL DEF Spec, WarmTurnsFirst
=============================================================================
