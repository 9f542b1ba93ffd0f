------------------------ MODULE ToolExecBrokerProofs ------------------------
(* Proofs about ToolExecBroker: calls, cancels, fences and respawns, for any *)
(* number of calls, sessions, children, runners and troubles.               *)
EXTENDS ToolExecBroker, FiniteSetTheorems, SequenceTheorems, TLAPS

USE PlaneAssumption, SentinelAssumption

-----------------------------------------------------------------------------
(* The inductive invariant                                                 *)

(* The types of the variables, by what changes them together.               *)
StartShape ==
  /\ proc \in Children \cup {0} /\ hook \in Children \cup {0}
  /\ promise \in [Children -> {"none", "open", "ready", "failed"}]
  /\ crashed \in BOOLEAN /\ closing \in BOOLEAN /\ degraded \in BOOLEAN
  /\ respawns \in Nat /\ deaths \in Nat /\ lone \in Nat
  /\ waits \in [Requests -> Children \cup {0}]
  /\ child \in [Children -> {"none", "booting", "up", "dead"}] /\ ended \subseteq Children
  /\ troubles \in 0 .. MaxTroubles
CallShape ==
  /\ pending \subseteq Calls
  /\ fate \in [Calls -> {"idle", "open", "done", "cancelled", "withdrawn"}]
  /\ planned \in [Calls -> Fences \cup {None}]
  /\ post \in [Posts -> Frame \cup {None, Done}]
  /\ policy \in [Sessions -> Fences] /\ closers \subseteq Children
PipeShape ==
  /\ down \in [Children -> Seq(Frame)] /\ up \in [Children -> SUBSET Reply]
PoolShape ==
  /\ entry \in [Entries -> Entry]
  /\ runner \in [Entries -> {"none", "up", "draining", "gone"}]
  /\ exec \in [Calls -> [at : Entries \cup {0}, st : Stages]]
Shape == StartShape /\ CallShape /\ PipeShape /\ PoolShape

(* The respawn budget: a crash is either spent on a respawn or still to be    *)
(* spent, and while there is a child none is.                               *)
Budget ==
  /\ proc # 0 => ~crashed
  /\ respawns <= RespawnCap
  /\ ~degraded => lone <= respawns + (IF crashed THEN 1 ELSE 0)
  /\ ~crashed /\ ~degraded => deaths < WindowDeaths

(* Only a child that lives has anything in its stdin; one that lives and is   *)
(* not the current one was closed.                                          *)
Born ==
  /\ proc # 0 => child[proc] # "none"
  /\ \A d \in Children : /\ ~Alive(d) => down[d] = <<>>
                         /\ Alive(d) /\ d # proc => d \in ended

(* A call that went into #pending once, and was never to be dispatched again. *)
Dispatched(i) == fate[i] # "idle" /\ waits[i] = 0

(* A call that waits is not in #pending and was not cancelled, and a post that *)
(* waits is no call.                                                        *)
Waiting ==
  /\ \A i \in pending : Dispatched(i)
  /\ \A i \in Calls : fate[i] \in {"idle", "cancelled"} => waits[i] = 0
  /\ \A p \in Posts : waits[p] # 0 =>
       post[p] # None /\ post[p] \in Frame /\ post[p].op \in {"warm", "reap"}

(* An entry of the pool, its runner and its child.                          *)
Pool ==
  \A e \in Entries :
    /\ entry[e].child = 0 <=> runner[e] = "none"
    /\ entry[e].child = 0 \/ entry[e].dead => entry[e].pending = {} /\ ~entry[e].armed
    /\ entry[e].child # 0 /\ ~entry[e].dead => Alive(entry[e].child)
    /\ runner[e] = "draining" => entry[e].dead

(* A runner has a call behind the fence planned for it, and a live entry of   *)
(* that runner holds the call; what a runner works on, it lives for.         *)
Execs ==
  \A i \in Calls : exec[i].st # "none" =>
    /\ exec[i].at \in Entries /\ entry[exec[i].at].child # 0 /\ Dispatched(i)
    /\ entry[exec[i].at].fence = planned[i] /\ entry[exec[i].at].session = SessionOf[i]
    /\ ~entry[exec[i].at].dead => i \in entry[exec[i].at].pending
    /\ exec[i].st \in {"running", "aborted"} => Running(exec[i].at)
    /\ exec[i].st = "lost" => runner[exec[i].at] = "gone"

(* What an entry holds was dispatched, and is with its runner or that runner  *)
(* is gone.                                                                 *)
Holds ==
  \A e \in Entries : \A i \in entry[e].pending :
    /\ Dispatched(i)
    /\ (exec[i].at = e /\ exec[i].st # "none") \/ runner[e] = "gone"

(* A frame that carries call i, or its cancel.                               *)
Invokes(d, k, i) == down[d][k].op = "invoke" /\ down[d][k].id = i
Cancels(d, k, i) == down[d][k].op = "cancel" /\ down[d][k].id = i

(* The frame of a call is the one that was planned, it was written once, and  *)
(* until it is read no runner and no entry has the call.                     *)
Frames ==
  /\ \A d \in Children : \A k \in DOMAIN down[d] : \A i \in Calls : Invokes(d, k, i) =>
       /\ Dispatched(i) /\ down[d][k].session = SessionOf[i] /\ down[d][k].fence = planned[i]
       /\ exec[i].st = "none" /\ \A e \in Entries : i \notin entry[e].pending
  /\ \A d, c \in Children : \A k \in DOMAIN down[d], l \in DOMAIN down[c] : \A i \in Calls :
       Invokes(d, k, i) /\ Invokes(c, l, i) => d = c /\ k = l

(* Where a call can be that its cancel has to reach: with a child that lives  *)
(* and was not closed.                                                      *)
Within(d, i) ==
  \/ \E k \in DOMAIN down[d] : Invokes(d, k, i)
  \/ exec[i].st # "none" /\ entry[exec[i].at].child = d /\ ~entry[exec[i].at].dead

(* The cancel of a call follows it: it is written once, behind the frame, to  *)
(* the child that has the call unless that child was closed.                 *)
CancelFollows ==
  \A i \in Calls :
    /\ fate[i] \in {"idle", "open"} =>
         \A d \in Children : \A k \in DOMAIN down[d] : ~Cancels(d, k, i)
    /\ fate[i] = "cancelled" =>
         /\ \A d \in Children : \A k \in DOMAIN down[d] : Invokes(d, k, i) =>
              d \in ended \/ \E l \in DOMAIN down[d] : l > k /\ Cancels(d, l, i)
         /\ \A d, c \in Children : \A k \in DOMAIN down[d] :
              Cancels(d, k, i) /\ Within(c, i) => c = d \/ c \in ended

(* A session has one live entry in a child.                                 *)
OneEntry ==
  \A d, e \in Entries :
    entry[d].child # 0 /\ entry[d].child = entry[e].child /\ entry[d].session = entry[e].session
      /\ ~entry[d].dead /\ ~entry[e].dead => d = e

(* The cancel of a call a runner works on is on its way.                     *)
CancelComes ==
  \A i \in Calls : fate[i] = "cancelled" /\ exec[i].st = "running" =>
    \/ entry[exec[i].at].dead \/ entry[exec[i].at].child \in ended
    \/ \E d \in Children : \E k \in DOMAIN down[d] : Cancels(d, k, i)

IInv ==
  /\ Shape /\ Budget /\ Born /\ Waiting /\ Pool /\ Execs /\ Holds /\ Frames
  /\ OneEntry /\ IdleTimerFits /\ NoCallLost /\ CancelFollows /\ CancelComes

-----------------------------------------------------------------------------
(* Pipes                                                                   *)

(* A pipe written to keeps what it has, and has the frame at its end.        *)
LEMMA Writing ==
  ASSUME NEW S, NEW q \in Seq(S), NEW x \in S
  PROVE  /\ Append(q, x) \in Seq(S)
         /\ Len(q) \in Nat /\ DOMAIN q = 1 .. Len(q) /\ DOMAIN Append(q, x) = 1 .. Len(q) + 1
         /\ \A k \in DOMAIN q : k \in DOMAIN Append(q, x) /\ Append(q, x)[k] = q[k]
         /\ Append(q, x)[Len(q) + 1] = x
  OBVIOUS

(* A pipe read from loses its first frame, and the others move up.           *)
LEMMA Reading ==
  ASSUME NEW S, NEW q \in Seq(S), q # <<>>
  PROVE  /\ Tail(q) \in Seq(S) /\ Head(q) \in S /\ 1 \in DOMAIN q /\ Head(q) = q[1]
         /\ \A k \in DOMAIN Tail(q) : k \in Nat \ {0} /\ k + 1 \in DOMAIN q /\ Tail(q)[k] = q[k + 1]
         /\ \A k \in DOMAIN q : k = 1 \/ (k \in Nat /\ k - 1 \in DOMAIN Tail(q)
                                          /\ Tail(q)[k - 1] = q[k])
  OBVIOUS

-----------------------------------------------------------------------------
(* The shape                                                               *)

(* The variables have their types.                                          *)
LEMMA ShapeTypes == Shape => TypeOK
  BY DEF Shape, StartShape, CallShape, PipeShape, PoolShape, TypeOK

LEMMA SpentIsNat ==
  ASSUME Shape, Strike PROVE troubles' \in 0 .. MaxTroubles
<1> DEFINE Asked == {p \in Posts : post[p] # None}
<1>1. IsFiniteSet(Posts)
  BY FS_Interval DEF Posts
<1>2. IsFiniteSet(Asked)
  BY <1>1, FS_Subset
<1>3. Cardinality(Asked) \in Nat
  BY <1>2, FS_CardinalityType
<1> HIDE DEF Asked
<1>4. troubles + Cardinality(Asked) < MaxTroubles /\ troubles' = troubles + 1
  BY DEF Strike, Spent, Asked
<1> QED
  BY <1>3, <1>4 DEF Shape, StartShape

LEMMA StartKeepsShape ==
  ASSUME Shape, NEW r \in Requests, NoStart(r) \/ Start(r) \/ AwaitStart(r)
  PROVE  StartShape'
<1>0. StartShape
  BY DEF Shape
<1>1. CASE NoStart(r)
  <2>1. CASE Degrade /\ UNCHANGED troubles
    BY <1>0, <1>1, <2>1 DEF NoStart, Degrade, childVars, StartShape
  <2>2. CASE Refuse /\ UNCHANGED troubles
    BY <1>0, <1>1, <2>2 DEF NoStart, Refuse, startVars, childVars, StartShape
  <2>3. CASE SpawnThrows
    <3>1. troubles' \in 0 .. MaxTroubles
      BY <1>0, <2>3, SpentIsNat DEF SpawnThrows, StartShape
    <3>2. respawns' \in Nat /\ crashed' = FALSE
      BY <1>0, <2>3 DEF SpawnThrows, SpendBudget, StartShape
    <3> QED
      BY <1>0, <1>1, <2>3, <3>1, <3>2 DEF NoStart, SpawnThrows, childVars, StartShape
  <2> QED
    BY <1>1, <2>1, <2>2, <2>3 DEF NoStart
<1>2. CASE Start(r)
  <2> PICK c \in Children : Spawn(c) /\ waits' = [waits EXCEPT ![r] = c]
    BY <1>2 DEF Start
  <2>1. respawns' \in Nat /\ crashed' = FALSE
    BY <1>0 DEF Spawn, SpendBudget, StartShape
  <2> QED
    BY <1>0, <1>2, <2>1 DEF Start, Spawn, StartShape
<1>3. CASE AwaitStart(r)
  BY <1>0, <1>3 DEF AwaitStart, startVars, childVars, StartShape
<1> QED
  BY <1>1, <1>2, <1>3

-----------------------------------------------------------------------------
(* What a step leaves alone                                                *)

(* A dispatched call stays dispatched, behind the fence planned for it.      *)
Steady ==
  \A i \in Calls : Dispatched(i) => (Dispatched(i))' /\ planned'[i] = planned[i]

(* No child dies and no close is taken back.                                 *)
Surviving ==
  /\ \A d \in Children : Alive(d) => (Alive(d))'
  /\ ended \subseteq ended'

(* No call is cancelled, and none is asked anew.                             *)
Patient ==
  \A i \in Calls : /\ fate'[i] \in {"idle", "open"} => fate[i] \in {"idle", "open"}
                   /\ fate'[i] = "cancelled" => fate[i] = "cancelled"

(* The pool is as it was.                                                   *)
LEMMA PoolStill ==
  ASSUME Shape, Pool, Execs, Holds, OneEntry, IdleTimerFits,
         UNCHANGED poolVars, Steady, Surviving
  PROVE  Pool' /\ Execs' /\ Holds' /\ OneEntry' /\ IdleTimerFits'
<1>0. entry' = entry /\ runner' = runner /\ exec' = exec
  BY DEF poolVars
<1>1. \A e \in Entries : entry[e].child \in Children \cup {0}
  BY DEF Shape, PoolShape, Entry
<1>2. Pool'
  BY <1>0, <1>1 DEF Pool, Surviving
<1>3. Execs'
  <2> SUFFICES ASSUME NEW i \in Calls, exec[i].st # "none"
               PROVE  (Dispatched(i))' /\ planned'[i] = planned[i]
    BY <1>0 DEF Execs, Running
  <2> QED
    BY DEF Execs, Steady
<1>4. Holds'
  <2> SUFFICES ASSUME NEW e \in Entries, NEW i \in entry[e].pending
               PROVE  (Dispatched(i))'
    BY <1>0 DEF Holds
  <2> i \in Calls
    BY DEF Shape, PoolShape, Entry
  <2> QED
    BY DEF Holds, Steady
<1>5. OneEntry' /\ IdleTimerFits'
  BY <1>0 DEF OneEntry, IdleTimerFits, Running
<1> QED
  BY <1>2, <1>3, <1>4, <1>5

(* So are the pipes: whatever is in one still fits, and no cancel gets lost.   *)
LEMMA PipesStill ==
  ASSUME Frames, CancelFollows, CancelComes,
         UNCHANGED <<down, poolVars>>, Steady, Surviving, Patient
  PROVE  Frames' /\ CancelFollows' /\ CancelComes'
<1>0. entry' = entry /\ exec' = exec /\ down' = down /\ ended \subseteq ended'
  BY DEF poolVars, Surviving
<1>1. Frames'
  <2>1. \A d \in Children : \A k \in DOMAIN down[d] : \A i \in Calls : Invokes(d, k, i) =>
          (Dispatched(i))' /\ planned'[i] = planned[i]
    BY DEF Frames, Steady
  <2> QED
    BY <1>0, <2>1 DEF Frames, Invokes
<1>2. CancelFollows'
  <2>1. \A d, i : Within(d, i)' <=> Within(d, i)
    BY <1>0 DEF Within, Invokes
  <2> QED
    BY <1>0, <2>1 DEF CancelFollows, Patient, Invokes, Cancels
<1>3. CancelComes'
  BY <1>0 DEF CancelComes, Patient, Cancels
<1> QED
  BY <1>1, <1>2, <1>3

(* So are the calls that somebody waits for.                                *)
LEMMA CallsStill ==
  ASSUME NoCallLost,
         (proc' = proc /\ UNCHANGED child) \/ proc = 0,
         UNCHANGED <<down, up, entry, closers>>,
         \A c \in pending' : fate'[c] = "open" => c \in pending /\ fate[c] = "open"
  PROVE  NoCallLost'
<1>1. \A d, c : Carries(d, c)' <=> Carries(d, c)
  BY DEF Carries
<1> QED
  BY <1>1 DEF NoCallLost

-----------------------------------------------------------------------------
(* Writing to a child                                                      *)

(* A frame goes behind all there is in the stdin of a current child that lives. *)
LEMMA WrittenTo ==
  ASSUME Shape, Born, NEW f \in Frame, Write(f)
  PROVE  /\ down' \in [Children -> Seq(Frame)]
         /\ \A d \in Children : ~Alive(d) => down'[d] = <<>>
         /\ \A d \in Children : \A k \in DOMAIN down[d] :
              k \in DOMAIN down'[d] /\ down'[d][k] = down[d][k]
         /\ \A d \in Children : \A k \in DOMAIN down'[d] :
              \/ k \in DOMAIN down[d] /\ down'[d][k] = down[d][k]
              \/ /\ d = proc /\ Alive(proc) /\ k = Len(down[proc]) + 1 /\ down'[d][k] = f
                 /\ \A l \in DOMAIN down[d] : l < k
         /\ proc # 0 /\ Alive(proc) => \E k \in DOMAIN down'[proc] :
              down'[proc][k] = f /\ \A l \in DOMAIN down[proc] : l < k
<1>1. CASE proc = 0 \/ ~Alive(proc)
  <2>1. down' = down
    BY <1>1 DEF Write
  <2> QED
    BY <1>1, <2>1 DEF Shape, PipeShape, Born
<1>2. CASE proc # 0 /\ Alive(proc)
  <2> DEFINE q == down[proc]
  <2>0. proc \in Children /\ down \in [Children -> Seq(Frame)] /\ q \in Seq(Frame)
    BY <1>2 DEF Shape, StartShape, PipeShape
  <2>1. down' = [down EXCEPT ![proc] = Append(q, f)]
    BY <1>2 DEF Write
  <2>2. /\ Append(q, f) \in Seq(Frame)
        /\ Len(q) \in Nat /\ DOMAIN q = 1 .. Len(q) /\ DOMAIN Append(q, f) = 1 .. Len(q) + 1
        /\ \A k \in DOMAIN q : k \in DOMAIN Append(q, f) /\ Append(q, f)[k] = q[k]
        /\ Append(q, f)[Len(q) + 1] = f
    BY <2>0, Writing
  <2>3. down'[proc] = Append(q, f) /\ \A d \in Children \ {proc} : down'[d] = down[d]
    BY <2>0, <2>1
  <2>4. down' \in [Children -> Seq(Frame)]
    BY <2>0, <2>1, <2>2
  <2>5. \A k \in DOMAIN Append(q, f) : k \in DOMAIN q \/ k = Len(q) + 1
    BY <2>2
  <2>6. \A l \in DOMAIN q : l < Len(q) + 1
    BY <2>2
  <2>7. Len(q) + 1 \in DOMAIN Append(q, f)
    BY <2>2
  <2>8. \A d \in Children : ~Alive(d) => down'[d] = <<>>
    BY <1>2, <2>3 DEF Born
  <2> HIDE DEF q
  <2>9. \A d \in Children : \A k \in DOMAIN down[d] :
          k \in DOMAIN down'[d] /\ down'[d][k] = down[d][k]
    BY <2>2, <2>3 DEF q
  <2>10. ASSUME NEW d \in Children, NEW k \in DOMAIN down'[d]
         PROVE  \/ k \in DOMAIN down[d] /\ down'[d][k] = down[d][k]
                \/ /\ d = proc /\ Alive(proc) /\ k = Len(q) + 1 /\ down'[d][k] = f
                   /\ \A l \in DOMAIN down[d] : l < k
    BY <1>2, <2>2, <2>3, <2>5, <2>6 DEF q
  <2>11. Len(q) + 1 \in DOMAIN down'[proc] /\ down'[proc][Len(q) + 1] = f
    BY <2>2, <2>3, <2>7
  <2> QED
    BY <2>4, <2>6, <2>8, <2>9, <2>10, <2>11 DEF q
<1> QED
  BY <1>1, <1>2

(* A frame that is neither a call nor a cancel changes nothing of either.      *)
LEMMA OtherFrame ==
  ASSUME IInv, NEW f \in Frame, f.op \in {"warm", "reap"}, Write(f),
         UNCHANGED <<poolVars, proc, child, ended, closers, up, pending, fate, planned>>,
         \A i \in Calls : waits'[i] = waits[i]
  PROVE  Frames' /\ CancelFollows' /\ CancelComes' /\ NoCallLost'
<1>0. /\ UNCHANGED <<entry, exec, proc, child, ended, closers, up, pending, fate, planned>>
      /\ Shape /\ Born /\ Frames /\ CancelFollows /\ CancelComes /\ NoCallLost
  BY DEF IInv, poolVars
<1>1. /\ \A d \in Children : \A k \in DOMAIN down[d] :
           k \in DOMAIN down'[d] /\ down'[d][k] = down[d][k]
      /\ \A d \in Children : \A k \in DOMAIN down'[d] :
           (k \in DOMAIN down[d] /\ down'[d][k] = down[d][k]) \/ down'[d][k] = f
  BY <1>0, WrittenTo
<1>2. \A d \in Children : \A i :
        /\ \A k : (k \in DOMAIN down'[d] /\ Invokes(d, k, i)')
                  <=> (k \in DOMAIN down[d] /\ Invokes(d, k, i))
        /\ \A k : (k \in DOMAIN down'[d] /\ Cancels(d, k, i)')
                  <=> (k \in DOMAIN down[d] /\ Cancels(d, k, i))
  BY <1>1 DEF Invokes, Cancels
<1>3. Frames'
  <2>1. \A d \in Children : \A k \in DOMAIN down'[d] : \A i \in Calls : Invokes(d, k, i)' =>
          /\ Dispatched(i)' /\ down'[d][k].session = SessionOf[i]
          /\ down'[d][k].fence = planned'[i]
          /\ exec'[i].st = "none" /\ \A e \in Entries : i \notin entry'[e].pending
    <3> SUFFICES ASSUME NEW d \in Children, NEW k \in DOMAIN down'[d], NEW i \in Calls,
                        Invokes(d, k, i)'
                 PROVE  /\ Dispatched(i)' /\ down'[d][k].session = SessionOf[i]
                        /\ down'[d][k].fence = planned'[i]
                        /\ exec'[i].st = "none" /\ \A e \in Entries : i \notin entry'[e].pending
      OBVIOUS
    <3>1. k \in DOMAIN down[d] /\ Invokes(d, k, i)
      BY <1>2
    <3>2. down'[d][k] = down[d][k]
      BY <1>1, <3>1
    <3>3. Dispatched(i) => Dispatched(i)'
      BY <1>0 DEF Dispatched
    <3> QED
      BY <1>0, <3>1, <3>2, <3>3 DEF Frames
  <2>2. \A d, c \in Children : \A k \in DOMAIN down'[d], l \in DOMAIN down'[c] : \A i \in Calls :
          Invokes(d, k, i)' /\ Invokes(c, l, i)' => d = c /\ k = l
    <3> SUFFICES ASSUME NEW d \in Children, NEW c \in Children,
                        NEW k \in DOMAIN down'[d], NEW l \in DOMAIN down'[c], NEW i \in Calls,
                        Invokes(d, k, i)', Invokes(c, l, i)'
                 PROVE  d = c /\ k = l
      OBVIOUS
    <3>1. k \in DOMAIN down[d] /\ Invokes(d, k, i) /\ l \in DOMAIN down[c] /\ Invokes(c, l, i)
      BY <1>2
    <3> QED
      BY <1>0, <3>1 DEF Frames
  <2> QED
    BY <2>1, <2>2 DEF Frames
<1>4. \A d \in Children : \A i : Within(d, i)' <=> Within(d, i)
  BY <1>0, <1>2 DEF Within
<1>5. CancelFollows'
  BY <1>0, <1>2, <1>4 DEF CancelFollows
<1>6. CancelComes'
  BY <1>0, <1>2 DEF CancelComes
<1>7. NoCallLost'
  <2>1. \A d \in Children : \A i : Carries(d, i)' <=> Carries(d, i)
    BY <1>0, <1>2 DEF Carries, Invokes
  <2> QED
    BY <1>0, <2>1 DEF NoCallLost, Shape, StartShape
<1> QED
  BY <1>3, <1>5, <1>6, <1>7

(* A call goes out: behind the fence planned for it, and only once.          *)
LEMMA Dispatching ==
  ASSUME IInv, NEW c \in Calls, ~Dispatched(c), Dispatch(c), (Dispatched(c))',
         fate'[c] # "cancelled", fate'[c] = "open" => proc # 0 /\ fate[c] \in {"idle", "open"},
         \A i \in Calls \ {c} : fate'[i] = fate[i] /\ waits'[i] = waits[i],
         UNCHANGED <<poolVars, proc, child, ended, closers, up>>
  PROVE  /\ down' \in [Children -> Seq(Frame)] /\ pending' \subseteq Calls
         /\ planned' \in [Calls -> Fences \cup {None}]
         /\ \A d \in Children : ~Alive(d) => down'[d] = <<>>
         /\ \A i \in pending' : (Dispatched(i))'
         /\ Steady /\ Frames' /\ CancelFollows' /\ CancelComes' /\ NoCallLost'
<1> DEFINE f == [op |-> "invoke", id |-> c, session |-> SessionOf[c], fence |-> policy[SessionOf[c]]]
<1>0. /\ UNCHANGED <<entry, exec, proc, child, ended, closers, up>>
      /\ Shape /\ Born /\ Waiting /\ Execs /\ Holds /\ Frames /\ CancelFollows /\ CancelComes
      /\ NoCallLost
  BY DEF IInv, poolVars
<1>1. SessionOf[c] \in Sessions /\ policy[SessionOf[c]] \in Fences
  BY <1>0 DEF Shape, CallShape
<1>2. f \in Frame
  BY <1>1 DEF Frame
<1>3. /\ pending' = pending \cup {c} /\ planned' = [planned EXCEPT ![c] = policy[SessionOf[c]]]
      /\ Write(f)
  BY DEF Dispatch
<1>4. f.op = "invoke" /\ f.id = c /\ f.session = SessionOf[c] /\ f.fence = policy[SessionOf[c]]
  OBVIOUS
<1> HIDE DEF f
<1>5. /\ down' \in [Children -> Seq(Frame)]
      /\ \A d \in Children : ~Alive(d) => down'[d] = <<>>
      /\ \A d \in Children : \A k \in DOMAIN down[d] :
           k \in DOMAIN down'[d] /\ down'[d][k] = down[d][k]
      /\ \A d \in Children : \A k \in DOMAIN down'[d] :
           \/ k \in DOMAIN down[d] /\ down'[d][k] = down[d][k]
           \/ d = proc /\ k = Len(down[proc]) + 1 /\ down'[d][k] = f
      /\ proc # 0 /\ Alive(proc) => \E k \in DOMAIN down'[proc] : down'[proc][k] = f
  BY <1>0, <1>2, <1>3, WrittenTo
<1>6. /\ pending' \subseteq Calls /\ planned' \in [Calls -> Fences \cup {None}]
      /\ planned'[c] = f.fence /\ \A i \in Calls \ {c} : planned'[i] = planned[i]
  BY <1>0, <1>1, <1>3, <1>4 DEF Shape, CallShape
<1>7. Steady
  BY <1>6 DEF Steady, Dispatched
<1>8. \A i \in pending' : (Dispatched(i))'
  BY <1>0, <1>3, <1>6, <1>7 DEF Waiting, Steady
(* Before, nobody had the call.                                             *)
<1>9. /\ \A d \in Children : \A k \in DOMAIN down[d] : ~Invokes(d, k, c)
      /\ exec[c].st = "none" /\ \A e \in Entries : c \notin entry[e].pending
  BY <1>0 DEF Frames, Execs, Holds
<1>10. \A d \in Children : \A k \in DOMAIN down'[d] : \A i \in Calls :
         /\ i # c /\ Invokes(d, k, i)' => k \in DOMAIN down[d] /\ Invokes(d, k, i)
                                          /\ down'[d][k] = down[d][k]
         /\ Invokes(d, k, c)' => d = proc /\ k = Len(down[proc]) + 1 /\ down'[d][k] = f
         /\ Cancels(d, k, i)' => k \in DOMAIN down[d] /\ Cancels(d, k, i)
  BY <1>4, <1>5, <1>9 DEF Invokes, Cancels
<1>11. \A d \in Children : \A k \in DOMAIN down[d] : \A i :
         /\ k \in DOMAIN down'[d]
         /\ Invokes(d, k, i) => Invokes(d, k, i)'
         /\ Cancels(d, k, i) => Cancels(d, k, i)'
  BY <1>5 DEF Invokes, Cancels
<1>12. Frames'
  <2>1. ASSUME NEW d \in Children, NEW k \in DOMAIN down'[d], NEW i \in Calls, Invokes(d, k, i)'
        PROVE  /\ Dispatched(i)' /\ down'[d][k].session = SessionOf[i]
               /\ down'[d][k].fence = planned'[i]
               /\ exec'[i].st = "none" /\ \A e \in Entries : i \notin entry'[e].pending
    <3>1. CASE i = c
      BY <1>0, <1>4, <1>6, <1>9, <1>10, <2>1, <3>1
    <3>2. CASE i # c
      <4>1. k \in DOMAIN down[d] /\ Invokes(d, k, i) /\ down'[d][k] = down[d][k]
        BY <1>10, <2>1, <3>2
      <4> QED
        BY <1>0, <1>6, <1>7, <3>2, <4>1 DEF Frames, Steady
    <3> QED
      BY <3>1, <3>2
  <2>2. ASSUME NEW d \in Children, NEW e \in Children, NEW k \in DOMAIN down'[d],
               NEW l \in DOMAIN down'[e], NEW i \in Calls, Invokes(d, k, i)', Invokes(e, l, i)'
        PROVE  d = e /\ k = l
    <3>1. CASE i = c
      BY <1>10, <2>2, <3>1
    <3>2. CASE i # c
      <4>1. k \in DOMAIN down[d] /\ Invokes(d, k, i) /\ l \in DOMAIN down[e] /\ Invokes(e, l, i)
        BY <1>10, <2>2, <3>2
      <4> QED
        BY <1>0, <4>1 DEF Frames
    <3> QED
      BY <3>1, <3>2
  <2> QED
    BY <2>1, <2>2 DEF Frames
<1>13. \A d \in Children : \A i \in Calls \ {c} : Within(d, i)' => Within(d, i)
  BY <1>0, <1>10 DEF Within
<1>14. CancelFollows'
  <2> SUFFICES ASSUME NEW i \in Calls
               PROVE  /\ fate'[i] \in {"idle", "open"} =>
                           \A d \in Children : \A k \in DOMAIN down'[d] : ~Cancels(d, k, i)'
                      /\ fate'[i] = "cancelled" =>
                           /\ \A d \in Children : \A k \in DOMAIN down'[d] : Invokes(d, k, i)' =>
                                d \in ended' \/ \E l \in DOMAIN down'[d] : l > k /\ Cancels(d, l, i)'
                           /\ \A d, e \in Children : \A k \in DOMAIN down'[d] :
                                Cancels(d, k, i)' /\ Within(e, i)' => e = d \/ e \in ended'
    BY DEF CancelFollows
  <2>1. CASE i = c
    <3>1. fate'[c] \in {"idle", "open"} => fate[c] \in {"idle", "open"}
      BY DEF Dispatched
    <3> QED
      BY <1>0, <1>10, <2>1, <3>1 DEF CancelFollows
  <2>2. CASE i # c
    BY <1>0, <1>10, <1>11, <1>13, <2>2 DEF CancelFollows
  <2> QED
    BY <2>1, <2>2
<1>15. CancelComes'
  BY <1>0, <1>11 DEF CancelComes
<1>16. NoCallLost'
  <2> SUFFICES ASSUME NEW i \in pending', fate'[i] = "open"
               PROVE  (proc # 0 /\ (child[proc] = "dead" \/ Carries(proc, i)')) \/ closers # {}
    BY <1>0 DEF NoCallLost
  <2>0. Shape => (proc # 0 => proc \in Children)
    BY DEF Shape, StartShape
  <2>1. CASE i = c
    <3>1. proc \in Children /\ child[proc] # "none"
      BY <1>0, <2>0, <2>1 DEF Born
    <3>2. CASE Alive(proc)
      <4> PICK k \in DOMAIN down'[proc] : down'[proc][k] = f
        BY <1>5, <2>1, <3>2
      <4> QED
        BY <1>4, <2>1 DEF Carries
    <3>3. CASE ~Alive(proc)
      BY <1>0, <2>1, <3>1, <3>3 DEF Alive, Shape, StartShape
    <3> QED
      BY <3>2, <3>3
  <2>2. CASE i # c
    <3>1. i \in pending /\ fate[i] = "open" /\ i \in Calls
      BY <1>0, <1>3, <2>2 DEF Shape, CallShape
    <3>2. proc # 0 /\ Carries(proc, i) => Carries(proc, i)'
      BY <1>0, <1>11, <2>0 DEF Carries, Invokes
    <3> QED
      BY <1>0, <3>1, <3>2 DEF NoCallLost
  <2> QED
    BY <2>1, <2>2
<1> QED
  BY <1>5, <1>6, <1>7, <1>8, <1>12, <1>14, <1>15, <1>16

-----------------------------------------------------------------------------
(* The supervisor asks                                                     *)

(* Starting a child, or waiting for one that starts: the budget is kept, and  *)
(* there was no child before.                                               *)
LEMMA StartSafe ==
  ASSUME Shape, Budget, Born, NEW r \in Requests,
         NoStart(r) \/ Start(r) \/ AwaitStart(r), UNCHANGED down
  PROVE  /\ Budget' /\ Born' /\ Surviving
         /\ (proc' = proc /\ UNCHANGED child) \/ proc = 0
         /\ waits' = waits \/ \E d \in Children : waits' = [waits EXCEPT ![r] = d]
<1>0. StartShape
  BY DEF Shape
<1>1. CASE NoStart(r)
  <2>1. waits' = waits /\ proc' = proc /\ proc = 0 /\ UNCHANGED <<child, ended>>
    BY <1>1 DEF NoStart, Degrade, Refuse, SpawnThrows, startVars, childVars
  <2>2. Budget'
    <3>1. CASE Degrade
      BY <1>0, <2>1, <3>1 DEF Degrade, Budget, StartShape
    <3>2. CASE Refuse
      BY <2>1, <3>2 DEF Refuse, startVars, Budget
    <3>3. CASE SpawnThrows
      BY <1>0, <2>1, <3>3 DEF SpawnThrows, SpendBudget, CapReached, Budget, StartShape
    <3> QED
      BY <1>1, <3>1, <3>2, <3>3 DEF NoStart
  <2> QED
    BY <2>1, <2>2 DEF Born, Alive, Surviving
<1>2. CASE Start(r)
  <2> PICK c \in Children : Spawn(c) /\ waits' = [waits EXCEPT ![r] = c]
    BY <1>2 DEF Start
  <2>1. /\ proc = 0 /\ proc' = c /\ child[c] = "none" /\ ended' = ended
        /\ child' = [child EXCEPT ![c] = "booting"] /\ c # 0
    BY <1>2 DEF Start, Spawn, Fresh, Children
  <2>2. Budget'
    BY <1>0, <2>1 DEF Spawn, SpendBudget, CapReached, Budget, StartShape
  <2>3. \A d \in Children : (Alive(d) => (Alive(d))') /\ (d # c => ((Alive(d))' <=> Alive(d)))
    BY <1>0, <2>1 DEF Alive, StartShape
  <2>4. child'[c] = "booting"
    BY <1>0, <2>1 DEF StartShape
  <2>5. \A d \in Children : d # 0
    BY DEF Children
  <2>6. Born'
    BY <2>1, <2>3, <2>4, <2>5 DEF Born
  <2> QED
    BY <2>1, <2>2, <2>3, <2>6 DEF Surviving
<1>3. CASE AwaitStart(r)
  <2>1. UNCHANGED <<startVars, childVars>> /\ waits' = [waits EXCEPT ![r] = proc] /\ proc \in Children
    BY <1>0, <1>3 DEF AwaitStart, StartShape
  <2> QED
    BY <2>1 DEF startVars, childVars, Budget, Born, Alive, Surviving
<1> QED
  BY <1>1, <1>2, <1>3

LEMMA InvokeKeeps ==
  ASSUME IInv, NEW c \in Calls, Invoke(c) PROVE IInv'
<1>0. /\ Shape /\ Budget /\ Born /\ Waiting /\ Pool /\ Execs /\ Holds /\ Frames
      /\ OneEntry /\ IdleTimerFits /\ NoCallLost /\ CancelFollows /\ CancelComes
  BY DEF IInv
<1>1. /\ fate[c] = "idle" /\ waits[c] = 0 /\ c \in Requests /\ c \notin pending
      /\ \A p \in Posts : p # c /\ p \in Requests
      /\ UNCHANGED <<post, up, poolVars, policy, closers>>
  BY <1>0 DEF Invoke, Waiting, Requests, Dispatched
<1>2. /\ fate \in [Calls -> {"idle", "open", "done", "cancelled", "withdrawn"}]
      /\ waits \in [Requests -> Children \cup {0}] /\ pending \subseteq Calls
      /\ \A i \in Calls : i \in Requests
  BY <1>0 DEF Shape, StartShape, CallShape, Requests
<1>3. PoolShape'
  BY <1>0, <1>1 DEF poolVars, Shape, PoolShape
<1>4. ASSUME NoStart(c) \/ Start(c) \/ AwaitStart(c), Held,
             fate' = [fate EXCEPT ![c] = "done"] \/ fate' = [fate EXCEPT ![c] = "open"]
      PROVE  IInv'
  <2>1. UNCHANGED <<pending, planned, down>>
    BY <1>4 DEF Held
  <2>2. /\ StartShape' /\ Budget' /\ Born' /\ Surviving
        /\ (proc' = proc /\ UNCHANGED child) \/ proc = 0
        /\ waits' = waits \/ \E d \in Children : waits' = [waits EXCEPT ![c] = d]
    BY <1>0, <1>1, <1>4, <2>1, StartSafe, StartKeepsShape
  <2>3. /\ \A i \in Calls \ {c} : fate'[i] = fate[i]
        /\ \A r \in Requests \ {c} : waits'[r] = waits[r]
        /\ fate'[c] \in {"done", "open"}
    BY <1>2, <1>4, <2>2
  <2>4. Steady /\ Patient
    BY <1>1, <1>2, <2>1, <2>3 DEF Steady, Patient, Dispatched
  <2>5. Waiting'
    BY <1>0, <1>1, <1>2, <2>1, <2>3, <2>4 DEF Waiting, Steady
  <2>6. Shape'
    BY <1>0, <1>1, <1>2, <1>3, <1>4, <2>1, <2>2 DEF Shape, CallShape, PipeShape
  <2>7. Pool' /\ Execs' /\ Holds' /\ OneEntry' /\ IdleTimerFits'
    BY <1>0, <1>1, <2>2, <2>4, PoolStill
  <2>8. Frames' /\ CancelFollows' /\ CancelComes'
    BY <1>0, <1>1, <2>1, <2>2, <2>4, PipesStill
  <2>9. NoCallLost'
    BY <1>0, <1>1, <1>2, <2>1, <2>2, <2>3, CallsStill DEF poolVars
  <2> QED
    BY <2>2, <2>5, <2>6, <2>7, <2>8, <2>9 DEF IInv
<1>5. ASSUME Started, Dispatch(c), fate' = [fate EXCEPT ![c] = "open"],
             UNCHANGED <<startVars, childVars, waits, troubles>>
      PROVE  IInv'
  <2>1. /\ fate'[c] = "open" /\ \A i \in Calls \ {c} : fate'[i] = fate[i]
        /\ proc # 0 /\ UNCHANGED <<proc, child, ended, waits>>
    BY <1>2, <1>5 DEF Started, startVars, childVars
  <2>2. ~Dispatched(c) /\ (Dispatched(c))'
    BY <1>1, <2>1 DEF Dispatched
  <2>3. /\ down' \in [Children -> Seq(Frame)] /\ pending' \subseteq Calls
        /\ planned' \in [Calls -> Fences \cup {None}]
        /\ \A d \in Children : ~Alive(d) => down'[d] = <<>>
        /\ \A i \in pending' : (Dispatched(i))'
        /\ Steady /\ Frames' /\ CancelFollows' /\ CancelComes' /\ NoCallLost'
    BY <1>1, <1>5, <2>1, <2>2, Dispatching
  <2>4. Surviving
    BY <2>1 DEF Surviving, Alive
  <2>5. Pool' /\ Execs' /\ Holds' /\ OneEntry' /\ IdleTimerFits'
    BY <1>0, <1>1, <2>3, <2>4, PoolStill
  <2>6. Waiting'
    BY <1>0, <1>1, <2>1, <2>3 DEF Waiting
  <2>7. Budget'
    BY <1>0, <1>5 DEF startVars, Budget
  <2>8. Born'
    BY <1>0, <2>1, <2>3 DEF Born, Alive
  <2>9. StartShape'
    BY <1>0, <1>5 DEF startVars, childVars, Shape, StartShape
  <2>10. Shape'
    BY <1>0, <1>1, <1>2, <1>3, <1>5, <2>3, <2>9 DEF Shape, CallShape, PipeShape
  <2> QED
    BY <2>3, <2>5, <2>6, <2>7, <2>8, <2>10 DEF IInv
<1> QED
  BY <1>4, <1>5 DEF Invoke

LEMMA ResumeCallKeeps ==
  ASSUME IInv, NEW c \in Calls, ResumeCall(c) PROVE IInv'
<1>0. /\ Shape /\ Budget /\ Born /\ Waiting /\ Pool /\ Execs /\ Holds /\ Frames
      /\ OneEntry /\ IdleTimerFits /\ NoCallLost /\ CancelFollows /\ CancelComes
  BY DEF IInv
<1>1. /\ waits[c] # 0 /\ waits' = [waits EXCEPT ![c] = 0] /\ c \in Requests
      /\ UNCHANGED <<startVars, post, up, childVars, poolVars, policy, closers, troubles>>
      /\ UNCHANGED <<proc, child, ended>>
      /\ \A p \in Posts : p # c /\ p \in Requests
  BY DEF ResumeCall, Resumable, Requests, startVars, childVars
<1>2. /\ fate \in [Calls -> {"idle", "open", "done", "cancelled", "withdrawn"}]
      /\ waits \in [Requests -> Children \cup {0}] /\ pending \subseteq Calls
      /\ \A i \in Calls : i \in Requests
  BY <1>0 DEF Shape, StartShape, CallShape, Requests
<1>3. /\ fate[c] \notin {"idle", "cancelled"} /\ ~Dispatched(c) /\ c \notin pending
      /\ waits'[c] = 0 /\ \A r \in Requests \ {c} : waits'[r] = waits[r]
  BY <1>0, <1>1, <1>2 DEF Waiting, Dispatched
<1>4. /\ \A i \in Calls \ {c} : fate'[i] = fate[i]
      /\ fate'[c] \in {fate[c], "done"} /\ fate' \in [Calls -> {"idle", "open", "done", "cancelled", "withdrawn"}]
      /\ proc = 0 => fate'[c] # "open"
  <2>1. fate' = Settled({c}, "done") \/ (fate' = fate /\ proc # 0)
    BY DEF ResumeCall
  <2> QED
    BY <1>2, <2>1 DEF Settled
<1>5. PoolShape' /\ StartShape' /\ Budget' /\ Surviving
  <2>1. PoolShape' /\ Budget'
    BY <1>0, <1>1 DEF startVars, poolVars, Shape, PoolShape, Budget
  <2>2. waits' \in [Requests -> Children \cup {0}]
    BY <1>1, <1>2
  <2>3. StartShape'
    BY <1>0, <1>1, <2>2 DEF startVars, childVars, Shape, StartShape
  <2> QED
    BY <1>1, <2>1, <2>3 DEF Surviving, Alive
<1>6. ASSUME Dispatch(c) PROVE IInv'
  <2>1. (Dispatched(c))'
    BY <1>3, <1>4 DEF Dispatched
  <2>2. fate'[c] # "cancelled" /\ (fate'[c] = "open" => proc # 0 /\ fate[c] \in {"idle", "open"})
    BY <1>3, <1>4
  <2>3. /\ down' \in [Children -> Seq(Frame)] /\ pending' \subseteq Calls
        /\ planned' \in [Calls -> Fences \cup {None}]
        /\ \A d \in Children : ~Alive(d) => down'[d] = <<>>
        /\ \A i \in pending' : (Dispatched(i))'
        /\ Steady /\ Frames' /\ CancelFollows' /\ CancelComes' /\ NoCallLost'
    BY <1>1, <1>2, <1>3, <1>4, <1>6, <2>1, <2>2, Dispatching
  <2>4. Pool' /\ Execs' /\ Holds' /\ OneEntry' /\ IdleTimerFits'
    BY <1>0, <1>1, <1>5, <2>3, PoolStill
  <2>5. Waiting'
    BY <1>0, <1>1, <1>2, <1>3, <1>4, <2>3 DEF Waiting
  <2>6. Born'
    BY <1>0, <1>1, <2>3 DEF Born, Alive
  <2>7. Shape'
    BY <1>0, <1>1, <1>4, <1>5, <2>3 DEF Shape, CallShape, PipeShape
  <2> QED
    BY <1>5, <2>3, <2>4, <2>5, <2>6, <2>7 DEF IInv
<1>7. ASSUME Held, fate' = Settled({c}, "done") PROVE IInv'
  <2>1. UNCHANGED <<pending, planned, down>>
    BY <1>7 DEF Held
  <2>2. Steady /\ Patient
    BY <1>2, <1>3, <1>4, <2>1 DEF Steady, Patient, Dispatched
  <2>3. Pool' /\ Execs' /\ Holds' /\ OneEntry' /\ IdleTimerFits'
    BY <1>0, <1>1, <1>5, <2>2, PoolStill
  <2>4. Frames' /\ CancelFollows' /\ CancelComes'
    BY <1>0, <1>1, <1>5, <2>1, <2>2, PipesStill
  <2>5. Waiting'
    BY <1>0, <1>1, <1>2, <1>3, <1>4, <2>1, <2>2 DEF Waiting, Steady
  <2>6. Born'
    BY <1>0, <1>1, <2>1 DEF Born, Alive
  <2>7. NoCallLost'
    BY <1>0, <1>1, <1>2, <1>3, <1>4, <2>1, CallsStill DEF poolVars
  <2>8. Shape'
    BY <1>0, <1>1, <1>4, <1>5, <2>1 DEF Shape, CallShape, PipeShape
  <2> QED
    BY <1>5, <2>3, <2>4, <2>5, <2>6, <2>7, <2>8 DEF IInv
<1> QED
  BY <1>6, <1>7 DEF ResumeCall

LEMMA AbortKeeps ==
  ASSUME IInv, NEW c \in Calls, Abort(c) PROVE IInv'
<1> DEFINE f == [op |-> "cancel", id |-> c]
<1>0. /\ Shape /\ Budget /\ Born /\ Waiting /\ Pool /\ Execs /\ Holds /\ Frames
      /\ OneEntry /\ IdleTimerFits /\ NoCallLost /\ CancelFollows /\ CancelComes
  BY DEF IInv
<1>1. /\ fate[c] = "open" /\ pending' = pending \ {c} /\ Write(f)
      /\ UNCHANGED <<startVars, waits, planned, post, up, childVars, poolVars, policy, closers,
                     troubles>>
      /\ UNCHANGED <<proc, child, ended, entry, runner, exec>>
  BY DEF Abort, CancelFrame, startVars, childVars, poolVars
<1>2. /\ fate \in [Calls -> {"idle", "open", "done", "cancelled", "withdrawn"}]
      /\ pending \subseteq Calls
  BY <1>0 DEF Shape, CallShape
<1>3. /\ \A i \in Calls \ {c} : fate'[i] = fate[i]
      /\ fate'[c] = (IF waits[c] = 0 THEN "cancelled" ELSE "withdrawn")
      /\ fate' \in [Calls -> {"idle", "open", "done", "cancelled", "withdrawn"}]
  BY <1>1, <1>2 DEF Abort, Settled
<1>4. f \in Frame /\ f.op = "cancel" /\ f.id = c
  BY DEF Frame
<1> HIDE DEF f
<1>5. /\ down' \in [Children -> Seq(Frame)]
      /\ \A d \in Children : ~Alive(d) => down'[d] = <<>>
      /\ \A d \in Children : \A k \in DOMAIN down[d] :
           k \in DOMAIN down'[d] /\ down'[d][k] = down[d][k]
      /\ \A d \in Children : \A k \in DOMAIN down'[d] :
           \/ k \in DOMAIN down[d] /\ down'[d][k] = down[d][k]
           \/ d = proc /\ Alive(proc) /\ down'[d][k] = f
      /\ proc # 0 /\ Alive(proc) => \E k \in DOMAIN down'[proc] :
           down'[proc][k] = f /\ \A l \in DOMAIN down[proc] : l < k
  BY <1>0, <1>1, <1>4, WrittenTo
<1>6. Steady /\ Surviving
  <2>1. \A i \in Calls : fate[i] # "idle" => fate'[i] # "idle"
    BY <1>3
  <2> QED
    BY <1>1, <2>1 DEF Steady, Surviving, Dispatched, Alive
<1>7. Pool' /\ Execs' /\ Holds' /\ OneEntry' /\ IdleTimerFits'
  BY <1>0, <1>1, <1>6, PoolStill
<1>8. Shape' /\ Budget' /\ Born' /\ Waiting'
  <2>1. Shape'
    BY <1>0, <1>1, <1>2, <1>3, <1>5
    DEF startVars, childVars, poolVars, Shape, StartShape, CallShape, PipeShape, PoolShape
  <2>2. Budget' /\ Born'
    BY <1>0, <1>1, <1>5 DEF startVars, Budget, Born, Alive
  <2>3. Waiting'
    BY <1>0, <1>1, <1>2, <1>3, <1>6 DEF Waiting, Steady
  <2> QED
    BY <2>1, <2>2, <2>3
<1>9. \A d \in Children : \A i \in Calls : \A k \in DOMAIN down'[d] :
        /\ Invokes(d, k, i)' => k \in DOMAIN down[d] /\ Invokes(d, k, i) /\ down'[d][k] = down[d][k]
        /\ Cancels(d, k, i)' => \/ k \in DOMAIN down[d] /\ Cancels(d, k, i)
                                \/ i = c /\ d = proc /\ Alive(proc)
  BY <1>4, <1>5 DEF Invokes, Cancels
<1>10. \A d \in Children : \A i \in Calls : \A k \in DOMAIN down[d] :
         /\ k \in DOMAIN down'[d]
         /\ Invokes(d, k, i) => Invokes(d, k, i)'
         /\ Cancels(d, k, i) => Cancels(d, k, i)'
  BY <1>5 DEF Invokes, Cancels
<1>11. Frames'
  <2>1. ASSUME NEW d \in Children, NEW k \in DOMAIN down'[d], NEW i \in Calls, Invokes(d, k, i)'
        PROVE  /\ Dispatched(i)' /\ down'[d][k].session = SessionOf[i]
               /\ down'[d][k].fence = planned'[i]
               /\ exec'[i].st = "none" /\ \A e \in Entries : i \notin entry'[e].pending
    <3>1. k \in DOMAIN down[d] /\ Invokes(d, k, i) /\ down'[d][k] = down[d][k]
      BY <1>9, <2>1
    <3> QED
      BY <1>0, <1>1, <1>6, <3>1 DEF Frames, Steady
  <2>2. ASSUME NEW d \in Children, NEW e \in Children, NEW k \in DOMAIN down'[d],
               NEW l \in DOMAIN down'[e], NEW i \in Calls, Invokes(d, k, i)', Invokes(e, l, i)'
        PROVE  d = e /\ k = l
    <3>1. k \in DOMAIN down[d] /\ Invokes(d, k, i) /\ l \in DOMAIN down[e] /\ Invokes(e, l, i)
      BY <1>9, <2>2
    <3> QED
      BY <1>0, <3>1 DEF Frames
  <2> QED
    BY <2>1, <2>2 DEF Frames
(* Whatever child may have the call is the current one, or was closed.       *)
<1>12. \A d \in Children : \A i \in Calls :
         /\ Within(d, i)' => Within(d, i)
         /\ Within(d, i) => Alive(d) /\ (d = proc \/ d \in ended)
  <2> SUFFICES ASSUME NEW d \in Children, NEW i \in Calls
               PROVE  /\ Within(d, i)' => Within(d, i)
                      /\ Within(d, i) => Alive(d)
    BY <1>0 DEF Born
  <2>1. Within(d, i)' => Within(d, i)
    BY <1>1, <1>9 DEF Within
  <2>2. (\E k \in DOMAIN down[d] : Invokes(d, k, i)) => Alive(d)
    BY <1>0 DEF Born
  <2>3. exec[i].st # "none" /\ entry[exec[i].at].child = d /\ ~entry[exec[i].at].dead => Alive(d)
    BY <1>0 DEF Execs, Pool
  <2> QED
    BY <2>1, <2>2, <2>3 DEF Within
<1>13. \A d \in Children : \A k \in DOMAIN down[d] : ~Cancels(d, k, c)
  BY <1>0, <1>1 DEF CancelFollows
<1>14. CancelFollows'
  <2> SUFFICES ASSUME NEW i \in Calls
               PROVE  /\ fate'[i] \in {"idle", "open"} =>
                           \A d \in Children : \A k \in DOMAIN down'[d] : ~Cancels(d, k, i)'
                      /\ fate'[i] = "cancelled" =>
                           /\ \A d \in Children : \A k \in DOMAIN down'[d] : Invokes(d, k, i)' =>
                                d \in ended' \/ \E l \in DOMAIN down'[d] : l > k /\ Cancels(d, l, i)'
                           /\ \A d, e \in Children : \A k \in DOMAIN down'[d] :
                                Cancels(d, k, i)' /\ Within(e, i)' => e = d \/ e \in ended'
    BY DEF CancelFollows
  <2>1. CASE i = c
    <3>1. fate'[c] \notin {"idle", "open"}
      BY <1>3
    <3>2. ASSUME NEW d \in Children, NEW k \in DOMAIN down'[d], Invokes(d, k, c)'
          PROVE  d \in ended' \/ \E l \in DOMAIN down'[d] : l > k /\ Cancels(d, l, c)'
      <4>1. k \in DOMAIN down[d] /\ Invokes(d, k, c)
        BY <1>9, <3>2
      <4>2. Alive(d) /\ (d = proc \/ d \in ended)
        BY <1>12, <4>1 DEF Within
      <4>3. CASE d = proc
        <5>1. d # 0
          BY DEF Children
        <5>2. PICK l \in DOMAIN down'[d] : down'[d][l] = f /\ \A m \in DOMAIN down[d] : m < l
          BY <1>5, <4>2, <4>3, <5>1
        <5>3. k < l /\ k \in Nat /\ l \in Nat
          BY <1>0, <1>5, <4>1, <5>2 DEF Shape, PipeShape
        <5> QED
          BY <1>4, <5>2, <5>3 DEF Cancels
      <4> QED
        BY <1>1, <4>2, <4>3
    <3>3. ASSUME NEW d \in Children, NEW e \in Children, NEW k \in DOMAIN down'[d],
                 Cancels(d, k, c)', Within(e, c)'
          PROVE  e = d \/ e \in ended'
      <4>1. d = proc
        BY <1>9, <1>13, <3>3
      <4> QED
        BY <1>1, <1>12, <3>3, <4>1
    <3> QED
      BY <2>1, <3>1, <3>2, <3>3
  <2>2. CASE i # c
    BY <1>0, <1>1, <1>3, <1>9, <1>10, <1>12, <2>2 DEF CancelFollows
  <2> QED
    BY <2>1, <2>2
<1>15. CancelComes'
  <2> SUFFICES ASSUME NEW i \in Calls, fate'[i] = "cancelled", exec[i].st = "running"
               PROVE  \/ entry[exec[i].at].dead \/ entry[exec[i].at].child \in ended
                      \/ \E d \in Children : \E k \in DOMAIN down'[d] : Cancels(d, k, i)'
    BY <1>1 DEF CancelComes
  <2>1. CASE i = c /\ ~entry[exec[c].at].dead /\ entry[exec[c].at].child \notin ended
    <3> DEFINE d == entry[exec[c].at].child
    <3>1. d \in Children
      BY <1>0, <2>1 DEF Execs, Shape, PoolShape, Entry
    <3>2. Within(d, c)
      BY <2>1 DEF Within
    <3>3. Alive(d) /\ d = proc /\ d # 0
      BY <1>12, <2>1, <3>1, <3>2 DEF Children
    <3> QED
      BY <1>4, <1>5, <2>1, <3>1, <3>3 DEF Cancels
  <2>2. CASE i # c
    BY <1>0, <1>3, <1>10, <2>2 DEF CancelComes
  <2> QED
    BY <2>1, <2>2
<1>16. NoCallLost'
  <2> SUFFICES ASSUME NEW i \in pending', fate'[i] = "open"
               PROVE  (proc # 0 /\ (child[proc] = "dead" \/ Carries(proc, i)')) \/ closers # {}
    BY <1>1 DEF NoCallLost
  <2>1. i \in pending /\ i \in Calls /\ fate[i] = "open"
    BY <1>1, <1>2, <1>3
  <2>2. proc # 0 => proc \in Children
    BY <1>0 DEF Shape, StartShape
  <2>3. proc # 0 /\ Carries(proc, i) => Carries(proc, i)'
    BY <1>1, <1>10, <2>1, <2>2 DEF Carries, Invokes
  <2> QED
    BY <1>0, <2>1, <2>3 DEF NoCallLost
<1> QED
  BY <1>7, <1>8, <1>11, <1>14, <1>15, <1>16 DEF IInv

(* Warming and reaping: f is such a frame.                                  *)
LEMMA PostKeeps ==
  ASSUME IInv, NEW p \in Posts, NEW f \in Frame, f.op \in {"warm", "reap"}, Post(p, f)
  PROVE  IInv'
<1>0. /\ Shape /\ Budget /\ Born /\ Waiting /\ Pool /\ Execs /\ Holds /\ Frames
      /\ OneEntry /\ IdleTimerFits /\ NoCallLost /\ CancelFollows /\ CancelComes
  BY DEF IInv
<1>1. /\ post[p] = None /\ p \in Requests /\ p \notin Calls /\ \A q \in Posts : q \in Requests
      /\ UNCHANGED <<pending, fate, planned, up, poolVars, policy, closers>>
  BY DEF Post, Requests
<1>2. /\ waits \in [Requests -> Children \cup {0}] /\ \A i \in Calls : i \in Requests
      /\ post \in [Posts -> Frame \cup {None, Done}] /\ pending \subseteq Calls
  BY <1>0 DEF Shape, StartShape, CallShape, Requests
<1>3. waits[p] = 0
  BY <1>0, <1>1, <1>2 DEF Waiting
<1>4. PoolShape'
  BY <1>0, <1>1 DEF poolVars, Shape, PoolShape
<1>5. ASSUME Steady, Surviving PROVE Pool' /\ Execs' /\ Holds' /\ OneEntry' /\ IdleTimerFits'
  BY <1>0, <1>1, <1>5, PoolStill
<1>6. Patient
  BY <1>1 DEF Patient
<1>7. ASSUME NoStart(p) \/ Start(p) \/ AwaitStart(p), UNCHANGED down,
             (Sent(p) /\ waits' = waits) \/ post' = [post EXCEPT ![p] = f]
      PROVE  IInv'
  <2>1. /\ StartShape' /\ Budget' /\ Born' /\ Surviving
        /\ (proc' = proc /\ UNCHANGED child) \/ proc = 0
        /\ waits' = waits \/ \E d \in Children : waits' = [waits EXCEPT ![p] = d]
    BY <1>0, <1>1, <1>7, StartSafe, StartKeepsShape
  <2>2. \A r \in Requests \ {p} : waits'[r] = waits[r]
    BY <1>2, <2>1
  <2>3. Steady
    BY <1>1, <1>2, <2>2 DEF Steady, Dispatched
  <2>4. Waiting'
    <3>1. \A i \in pending' : (Dispatched(i))'
      BY <1>0, <1>1, <1>2, <2>3 DEF Waiting, Steady
    <3>2. \A i \in Calls : waits'[i] = waits[i]
      BY <1>1, <1>2, <2>2
    <3>3. ASSUME NEW q \in Posts, waits'[q] # 0
          PROVE  post'[q] # None /\ post'[q] \in Frame /\ post'[q].op \in {"warm", "reap"}
      <4>1. CASE q # p
        BY <1>0, <1>1, <1>2, <1>7, <2>2, <3>3, <4>1 DEF Waiting, Sent
      <4>2. CASE q = p
        BY <1>2, <1>3, <1>7, <3>3, <4>2
      <4> QED
        BY <4>1, <4>2
    <3> QED
      BY <1>0, <1>1, <3>1, <3>2, <3>3 DEF Waiting
  <2>5. Shape'
    BY <1>0, <1>1, <1>2, <1>4, <1>7, <2>1 DEF Shape, CallShape, PipeShape, Sent
  <2>6. Frames' /\ CancelFollows' /\ CancelComes'
    BY <1>0, <1>1, <1>6, <1>7, <2>1, <2>3, PipesStill
  <2>7. NoCallLost'
    BY <1>0, <1>1, <1>7, <2>1, CallsStill DEF poolVars
  <2> QED
    BY <1>5, <2>1, <2>3, <2>4, <2>5, <2>6, <2>7 DEF IInv
<1>8. ASSUME Write(f), Sent(p), UNCHANGED <<startVars, childVars, waits, troubles>>
      PROVE  IInv'
  <2>1. UNCHANGED <<proc, child, ended>>
    BY <1>8 DEF startVars, childVars
  <2>2. Steady /\ Surviving
    BY <1>1, <1>8, <2>1 DEF Steady, Surviving, Dispatched, Alive
  <2>3. Frames' /\ CancelFollows' /\ CancelComes' /\ NoCallLost'
    BY <1>1, <1>8, <2>1, OtherFrame
  <2>4. /\ down' \in [Children -> Seq(Frame)]
        /\ \A d \in Children : ~Alive(d) => down'[d] = <<>>
    BY <1>0, <1>8, WrittenTo
  <2>5. Budget' /\ Born'
    BY <1>0, <1>8, <2>1, <2>4 DEF startVars, Budget, Born, Alive
  <2>6. Waiting'
    <3>1. \A q \in Posts \ {p} : post'[q] = post[q]
      BY <1>2, <1>8 DEF Sent
    <3> QED
      BY <1>0, <1>1, <1>3, <1>8, <3>1 DEF Waiting, Dispatched
  <2>7. StartShape'
    BY <1>0, <1>8 DEF startVars, childVars, Shape, StartShape
  <2>8. Shape'
    BY <1>0, <1>1, <1>2, <1>4, <1>8, <2>4, <2>7 DEF Shape, CallShape, PipeShape, Sent
  <2> QED
    BY <1>5, <2>2, <2>3, <2>5, <2>6, <2>8 DEF IInv
<1>9. NoStart(p) => waits' = waits
  BY DEF NoStart
<1> QED
  BY <1>7, <1>8, <1>9 DEF Post

LEMMA ResumePostKeeps ==
  ASSUME IInv, NEW p \in Posts, ResumePost(p) PROVE IInv'
<1>0. /\ Shape /\ Budget /\ Born /\ Waiting /\ Pool /\ Execs /\ Holds /\ Frames
      /\ OneEntry /\ IdleTimerFits /\ NoCallLost /\ CancelFollows /\ CancelComes
  BY DEF IInv
<1>1. /\ waits[p] # 0 /\ p \in Requests /\ p \notin Calls /\ \A q \in Posts : q \in Requests
      /\ waits' = [waits EXCEPT ![p] = 0] /\ post' = [post EXCEPT ![p] = Done]
      /\ UNCHANGED <<startVars, pending, fate, planned, up, childVars, poolVars, policy,
                     closers, troubles>>
      /\ UNCHANGED <<proc, child, ended>>
  BY DEF ResumePost, Resumable, Requests, Sent, startVars, childVars
<1>2. /\ waits \in [Requests -> Children \cup {0}] /\ \A i \in Calls : i \in Requests
      /\ post \in [Posts -> Frame \cup {None, Done}] /\ pending \subseteq Calls
  BY <1>0 DEF Shape, StartShape, CallShape, Requests
<1>3. post[p] \in Frame /\ post[p].op \in {"warm", "reap"}
  BY <1>0, <1>1 DEF Waiting
<1>4. /\ \A i \in Calls : waits'[i] = waits[i]
      /\ waits'[p] = 0 /\ \A q \in Posts \ {p} : waits'[q] = waits[q] /\ post'[q] = post[q]
      /\ waits' \in [Requests -> Children \cup {0}] /\ post' \in [Posts -> Frame \cup {None, Done}]
  BY <1>1, <1>2
<1>5. Steady /\ Surviving /\ Patient
  BY <1>1, <1>4 DEF Steady, Surviving, Patient, Dispatched, Alive
<1>6. Pool' /\ Execs' /\ Holds' /\ OneEntry' /\ IdleTimerFits'
  BY <1>0, <1>1, <1>5, PoolStill
<1>7. Waiting'
  BY <1>0, <1>1, <1>2, <1>4 DEF Waiting, Dispatched
<1>8. Budget'
  BY <1>0, <1>1 DEF startVars, Budget
<1>9. PoolShape' /\ StartShape' /\ CallShape'
  BY <1>0, <1>1, <1>4
  DEF startVars, childVars, poolVars, Shape, PoolShape, StartShape, CallShape
<1>10. CASE Write(post[p])
  <2>1. /\ down' \in [Children -> Seq(Frame)]
        /\ \A d \in Children : ~Alive(d) => down'[d] = <<>>
    BY <1>0, <1>3, <1>10, WrittenTo
  <2>2. Born' /\ Shape'
    BY <1>0, <1>1, <1>9, <2>1 DEF Born, Alive, Shape, PipeShape
  <2>3. Frames' /\ CancelFollows' /\ CancelComes' /\ NoCallLost'
    BY <1>1, <1>3, <1>4, <1>10, OtherFrame
  <2> QED
    BY <1>6, <1>7, <1>8, <2>2, <2>3 DEF IInv
<1>11. CASE UNCHANGED down
  <2>1. Born' /\ Shape'
    BY <1>0, <1>1, <1>9, <1>11 DEF Born, Alive, Shape, PipeShape
  <2>2. Frames' /\ CancelFollows' /\ CancelComes'
    BY <1>0, <1>1, <1>5, <1>11, PipesStill
  <2>3. NoCallLost'
    BY <1>0, <1>1, <1>11, CallsStill DEF poolVars
  <2> QED
    BY <1>6, <1>7, <1>8, <2>1, <2>2, <2>3 DEF IInv
<1> QED
  BY <1>10, <1>11 DEF ResumePost

LEMMA SetPolicyKeeps ==
  ASSUME IInv, NEW s \in Sessions, SetPolicy(s) PROVE IInv'
<1>0. /\ Shape /\ Budget /\ Born /\ Waiting /\ Pool /\ Execs /\ Holds /\ Frames
      /\ OneEntry /\ IdleTimerFits /\ NoCallLost /\ CancelFollows /\ CancelComes
  BY DEF IInv
<1>1. /\ UNCHANGED <<startVars, callVars, pipeVars, childVars, poolVars, closers>>
      /\ UNCHANGED <<down, up, proc, child, ended, pending, fate, waits, planned, post>>
      /\ policy' = [policy EXCEPT ![s] = IF @ = "off" THEN "probe" ELSE "off"]
  BY DEF SetPolicy, startVars, callVars, pipeVars, childVars
<1>2. Steady /\ Surviving /\ Patient
  BY <1>1 DEF Steady, Surviving, Patient, Dispatched, Alive
<1>3. Pool' /\ Execs' /\ Holds' /\ OneEntry' /\ IdleTimerFits'
  BY <1>0, <1>1, <1>2, PoolStill
<1>4. Frames' /\ CancelFollows' /\ CancelComes'
  BY <1>0, <1>1, <1>2, PipesStill
<1>5. NoCallLost'
  BY <1>0, <1>1, CallsStill DEF poolVars
<1>6. Budget' /\ Born' /\ Waiting'
  BY <1>0, <1>1 DEF startVars, Budget, Born, Waiting, Alive, Dispatched
<1>7. StartShape' /\ PipeShape' /\ PoolShape'
  <2>1. troubles' \in 0 .. MaxTroubles
    BY <1>0, SpentIsNat DEF SetPolicy
  <2> QED
    BY <1>0, <1>1, <2>1
    DEF startVars, poolVars, Shape, StartShape, PipeShape, PoolShape
<1>8. CallShape'
  BY <1>0, <1>1 DEF Shape, CallShape, Fences
<1> QED
  BY <1>3, <1>4, <1>5, <1>6, <1>7, <1>8 DEF IInv, Shape

-----------------------------------------------------------------------------
(* The supervisor hears                                                    *)

(* Settling open calls.                                                     *)
LEMMA Settling ==
  ASSUME Shape, Waiting, NEW cs, fate' = Settled(cs, "done") \/ fate' = fate,
         pending' \subseteq pending, UNCHANGED <<waits, planned, post>>
  PROVE  /\ Steady /\ Patient /\ Waiting'
         /\ fate' \in [Calls -> {"idle", "open", "done", "cancelled", "withdrawn"}]
         /\ pending' \subseteq Calls
         /\ \A i \in Calls : fate'[i] = "open" => fate[i] = "open"
<1>0. fate \in [Calls -> {"idle", "open", "done", "cancelled", "withdrawn"}] /\ pending \subseteq Calls
  BY DEF Shape, CallShape
<1>1. /\ \A i \in Calls : fate'[i] = fate[i] \/ (fate[i] = "open" /\ fate'[i] = "done")
      /\ fate' \in [Calls -> {"idle", "open", "done", "cancelled", "withdrawn"}]
  BY <1>0 DEF Settled
<1>2. Steady /\ Patient
  <2>1. \A i \in Calls : fate[i] # "idle" => fate'[i] # "idle"
    BY <1>1
  <2> QED
    BY <1>1, <2>1 DEF Steady, Patient, Dispatched
<1>3. Waiting'
  <2>1. \A i \in Calls : fate'[i] \in {"idle", "cancelled"} => fate[i] \in {"idle", "cancelled"}
    BY <1>1
  <2>2. \A i \in pending' : i \in Calls /\ (Dispatched(i))'
    BY <1>0, <1>2 DEF Waiting, Steady
  <2> QED
    BY <2>1, <2>2 DEF Waiting
<1> QED
  BY <1>0, <1>1, <1>2, <1>3

(* #handleDeath: all is settled, and the crash is to be spent.               *)
LEMMA DeathHeard ==
  ASSUME Shape, Budget, proc # 0, HandleDeath
  PROVE  /\ Budget' /\ proc' = 0 /\ pending' = {} /\ fate' = Settled(pending, "done")
         /\ proc' \in Children \cup {0} /\ hook' \in Children \cup {0}
         /\ promise' \in [Children -> {"none", "open", "ready", "failed"}]
         /\ crashed' \in BOOLEAN /\ closing' \in BOOLEAN /\ degraded' \in BOOLEAN
         /\ respawns' \in Nat /\ deaths' \in Nat /\ lone' \in Nat
<1>0. StartShape
  BY DEF Shape
<1>1. /\ proc' = 0 /\ hook' = 0 /\ promise' = StartRejected
      /\ pending' = {} /\ fate' = Settled(pending, "done")
      /\ UNCHANGED <<closing, respawns, degraded>>
  BY DEF HandleDeath, FailAll
<1>2. promise' \in [Children -> {"none", "open", "ready", "failed"}]
  BY <1>0, <1>1 DEF StartRejected, StartShape
<1>3. CASE closing
  <2>1. UNCHANGED <<crashed, deaths, lone>>
    BY <1>3 DEF HandleDeath
  <2> QED
    BY <1>0, <1>1, <1>2, <2>1 DEF Budget, StartShape
<1>4. CASE ~closing
  <2>1. crashed' = TRUE /\ deaths' = deaths + 1 /\ lone' = lone + 1
    BY <1>4 DEF HandleDeath
  <2>2. ~degraded => lone <= respawns
    BY <1>0 DEF Budget, StartShape
  <2> QED
    BY <1>0, <1>1, <1>2, <2>1, <2>2 DEF Budget, StartShape
<1> QED
  BY <1>3, <1>4

LEMMA HearExitKeeps ==
  ASSUME IInv, HearExit PROVE IInv'
<1>0. /\ Shape /\ Budget /\ Born /\ Waiting /\ Pool /\ Execs /\ Holds /\ Frames
      /\ OneEntry /\ IdleTimerFits /\ NoCallLost /\ CancelFollows /\ CancelComes
  BY DEF IInv
<1>1. /\ proc # 0 /\ child[proc] = "dead"
      /\ UNCHANGED <<waits, planned, post, pipeVars, childVars, poolVars, policy, closers, troubles>>
      /\ UNCHANGED <<down, up, child, ended>>
  BY DEF HearExit, pipeVars, childVars
<1>2. /\ Budget' /\ proc' = 0 /\ pending' = {} /\ fate' = Settled(pending, "done")
      /\ proc' \in Children \cup {0} /\ hook' \in Children \cup {0}
      /\ promise' \in [Children -> {"none", "open", "ready", "failed"}]
      /\ crashed' \in BOOLEAN /\ closing' \in BOOLEAN /\ degraded' \in BOOLEAN
      /\ respawns' \in Nat /\ deaths' \in Nat /\ lone' \in Nat
  BY <1>0, <1>1, DeathHeard DEF HearExit
<1>3. /\ Steady /\ Patient /\ Waiting'
      /\ fate' \in [Calls -> {"idle", "open", "done", "cancelled", "withdrawn"}]
  BY <1>0, <1>1, <1>2, Settling
<1>4. Surviving
  BY <1>1 DEF Surviving, Alive
<1>5. Pool' /\ Execs' /\ Holds' /\ OneEntry' /\ IdleTimerFits'
  BY <1>0, <1>1, <1>3, <1>4, PoolStill
<1>6. Frames' /\ CancelFollows' /\ CancelComes'
  BY <1>0, <1>1, <1>3, <1>4, PipesStill
<1>7. NoCallLost'
  BY <1>2 DEF NoCallLost
<1>8. Born'
  BY <1>0, <1>1, <1>2 DEF Born, Alive
<1>9. Shape'
  BY <1>0, <1>1, <1>2, <1>3 DEF poolVars, Shape, StartShape, CallShape, PipeShape, PoolShape
<1> QED
  BY <1>2, <1>3, <1>5, <1>6, <1>7, <1>8, <1>9 DEF IInv

LEMMA HearReadyKeeps ==
  ASSUME IInv, NEW c \in Children, HearReady(c) PROVE IInv'
<1>0. /\ Shape /\ Budget /\ Born /\ Waiting /\ Pool /\ Execs /\ Holds /\ Frames
      /\ OneEntry /\ IdleTimerFits /\ NoCallLost /\ CancelFollows /\ CancelComes
  BY DEF IInv
<1>1. /\ UNCHANGED <<proc, crashed, closing, respawns, deaths, degraded, lone, callVars, down,
                     childVars, poolVars, policy, closers, troubles>>
      /\ UNCHANGED <<child, ended, pending, waits, fate, planned, post, entry>>
      /\ up' = [up EXCEPT ![c] = @ \ {[op |-> "ready"]}]
      /\ hook' = 0 /\ promise' = IF hook = 0 THEN promise ELSE [promise EXCEPT ![hook] = "ready"]
  BY DEF HearReady, childVars, callVars, poolVars
<1>2. Steady /\ Surviving /\ Patient
  BY <1>1 DEF Steady, Surviving, Patient, Dispatched, Alive
<1>3. Pool' /\ Execs' /\ Holds' /\ OneEntry' /\ IdleTimerFits'
  BY <1>0, <1>1, <1>2, PoolStill
<1>4. Frames' /\ CancelFollows' /\ CancelComes'
  BY <1>0, <1>1, <1>2, PipesStill
<1>5. Budget' /\ Born' /\ Waiting'
  BY <1>0, <1>1 DEF Budget, Born, Waiting, Alive, Dispatched
<1>6. up' \in [Children -> SUBSET Reply]
      /\ \A d \in Children : \A f : f \in up[d] /\ f.op = "reply" => f \in up'[d]
  BY <1>0, <1>1 DEF Shape, PipeShape
<1>7. promise' \in [Children -> {"none", "open", "ready", "failed"}]
  BY <1>0, <1>1 DEF Shape, StartShape
<1>8. Shape'
  BY <1>0, <1>1, <1>6, <1>7 DEF poolVars, Shape, StartShape, CallShape, PipeShape, PoolShape
<1>9. NoCallLost'
  <2>1. \A d \in Children : \A i : Carries(d, i) => Carries(d, i)'
    BY <1>1, <1>6 DEF Carries
  <2> QED
    BY <1>0, <1>1, <2>1 DEF NoCallLost, Shape, StartShape
<1> QED
  BY <1>3, <1>4, <1>5, <1>8, <1>9 DEF IInv

LEMMA HearReplyKeeps ==
  ASSUME IInv, NEW c \in Children, NEW f \in up[c], f.op = "reply", HearReply(c, f) PROVE IInv'
<1>0. /\ Shape /\ Budget /\ Born /\ Waiting /\ Pool /\ Execs /\ Holds /\ Frames
      /\ OneEntry /\ IdleTimerFits /\ NoCallLost /\ CancelFollows /\ CancelComes
  BY DEF IInv
<1>1. /\ UNCHANGED <<waits, planned, post, down, childVars, poolVars, policy, closers, troubles>>
      /\ UNCHANGED <<child, ended, entry>>
      /\ UNCHANGED <<proc, promise, hook, crashed, closing, deaths, degraded>>
      /\ up' = [up EXCEPT ![c] = @ \ {f}]
      /\ \/ f.id \notin pending /\ UNCHANGED <<fate, pending>>
         \/ f.id \in pending /\ pending' = pending \ {f.id} /\ fate' = Settled({f.id}, "done")
      /\ \/ UNCHANGED <<respawns, lone>>
         \/ respawns' = 0 /\ lone' = 0
  BY DEF HearReply, childVars, poolVars, startVars
<1>2. /\ Steady /\ Patient /\ Waiting'
      /\ fate' \in [Calls -> {"idle", "open", "done", "cancelled", "withdrawn"}]
      /\ pending' \subseteq Calls /\ pending' \subseteq pending /\ f.id \notin pending'
      /\ \A i \in Calls : fate'[i] = "open" => fate[i] = "open"
  BY <1>0, <1>1, Settling
<1>3. Surviving
  BY <1>1 DEF Surviving, Alive
<1>4. Pool' /\ Execs' /\ Holds' /\ OneEntry' /\ IdleTimerFits'
  BY <1>0, <1>1, <1>2, <1>3, PoolStill
<1>5. Frames' /\ CancelFollows' /\ CancelComes'
  BY <1>0, <1>1, <1>2, <1>3, PipesStill
<1>6. up' \in [Children -> SUBSET Reply]
      /\ \A d \in Children : \A g : g \in up[d] /\ g # f => g \in up'[d]
  BY <1>0, <1>1 DEF Shape, PipeShape
<1>7. Budget' /\ Born'
  BY <1>0, <1>1 DEF Budget, Born, Alive, Shape, StartShape
<1>8. StartShape'
  BY <1>0, <1>1 DEF childVars, Shape, StartShape
<1>9. Shape'
  BY <1>0, <1>1, <1>2, <1>6, <1>8 DEF poolVars, Shape, CallShape, PipeShape, PoolShape
<1>10. NoCallLost'
  <2>1. \A d \in Children : \A i : i # f.id /\ Carries(d, i) => Carries(d, i)'
    BY <1>1, <1>6 DEF Carries
  <2>2. \A i \in pending' : i # f.id /\ i \in pending /\ i \in Calls
    BY <1>2
  <2> QED
    BY <1>0, <1>1, <1>2, <2>1, <2>2 DEF NoCallLost, Shape, StartShape
<1> QED
  BY <1>2, <1>4, <1>5, <1>7, <1>9, <1>10 DEF IInv

LEMMA WindowSlidesKeeps ==
  ASSUME IInv, WindowSlides PROVE IInv'
<1>0. /\ Shape /\ Budget /\ Born /\ Waiting /\ Pool /\ Execs /\ Holds /\ Frames
      /\ OneEntry /\ IdleTimerFits /\ NoCallLost /\ CancelFollows /\ CancelComes
  BY DEF IInv
<1>1. /\ UNCHANGED <<proc, promise, hook, crashed, closing, respawns, degraded, lone, callVars,
                     pipeVars, childVars, poolVars, policy, closers, troubles>>
      /\ UNCHANGED <<down, up, child, ended, pending, waits, fate, planned, post>>
      /\ deaths > 0 /\ deaths' = deaths - 1
  BY DEF WindowSlides, pipeVars, childVars, callVars
<1>2. Steady /\ Surviving /\ Patient
  BY <1>1 DEF Steady, Surviving, Patient, Dispatched, Alive
<1>3. Pool' /\ Execs' /\ Holds' /\ OneEntry' /\ IdleTimerFits'
  BY <1>0, <1>1, <1>2, PoolStill
<1>4. Frames' /\ CancelFollows' /\ CancelComes'
  BY <1>0, <1>1, <1>2, PipesStill
<1>5. NoCallLost'
  BY <1>0, <1>1, CallsStill DEF poolVars
<1>6. Budget' /\ Born' /\ Waiting'
  BY <1>0, <1>1 DEF Budget, Born, Waiting, Alive, Dispatched, Shape, StartShape
<1>7. Shape'
  BY <1>0, <1>1 DEF poolVars, Shape, StartShape, CallShape, PipeShape, PoolShape
<1> QED
  BY <1>3, <1>4, <1>5, <1>6, <1>7 DEF IInv

(* A closed child is in `ended`, and its close settles the calls.             *)
LEMMA CloseKeeps ==
  ASSUME IInv, Close PROVE IInv'
<1>0. /\ Shape /\ Budget /\ Born /\ Waiting /\ Pool /\ Execs /\ Holds /\ Frames
      /\ OneEntry /\ IdleTimerFits /\ NoCallLost /\ CancelFollows /\ CancelComes
  BY DEF IInv
<1>1. /\ UNCHANGED <<promise, hook, crashed, respawns, deaths, degraded, lone, callVars, pipeVars,
                     child, poolVars, policy>>
      /\ UNCHANGED <<down, up, pending, waits, fate, planned, post>>
      /\ proc # 0 /\ closing' = TRUE /\ proc' = 0
      /\ closers' = closers \cup {proc} /\ ended' = ended \cup {proc}
  BY DEF Close, pipeVars, callVars
<1>2. Steady /\ Surviving /\ Patient
  BY <1>1 DEF Steady, Surviving, Patient, Dispatched, Alive
<1>3. Pool' /\ Execs' /\ Holds' /\ OneEntry' /\ IdleTimerFits'
  BY <1>0, <1>1, <1>2, PoolStill
<1>4. Frames' /\ CancelFollows' /\ CancelComes'
  BY <1>0, <1>1, <1>2, PipesStill
<1>5. NoCallLost'
  BY <1>1 DEF NoCallLost
<1>6. Budget' /\ Born' /\ Waiting'
  BY <1>0, <1>1 DEF Budget, Born, Waiting, Alive, Dispatched
<1>7. troubles' \in 0 .. MaxTroubles
  BY <1>0, SpentIsNat DEF Close
<1>8. Shape'
  BY <1>0, <1>1, <1>7 DEF poolVars, Shape, StartShape, CallShape, PipeShape, PoolShape
<1> QED
  BY <1>3, <1>4, <1>5, <1>6, <1>8 DEF IInv

LEMMA BootKeeps ==
  ASSUME IInv, NEW c \in Children, Boot(c) PROVE IInv'
<1>0. /\ Shape /\ Budget /\ Born /\ Waiting /\ Pool /\ Execs /\ Holds /\ Frames
      /\ OneEntry /\ IdleTimerFits /\ NoCallLost /\ CancelFollows /\ CancelComes
  BY DEF IInv
<1>1. /\ UNCHANGED <<startVars, callVars, down, ended, poolVars, policy, closers, troubles>>
      /\ UNCHANGED <<proc, pending, waits, fate, planned, post, entry>>
      /\ child[c] = "booting" /\ child' = [child EXCEPT ![c] = "up"]
      /\ up' = [up EXCEPT ![c] = @ \cup {[op |-> "ready"]}]
  BY DEF Boot, startVars, callVars, poolVars
<1>2. /\ child' \in [Children -> {"none", "booting", "up", "dead"}]
      /\ \A d \in Children : (Alive(d) <=> (Alive(d))') /\ (child[d] # "none" => child'[d] # "none")
                             /\ (child[d] = "dead" => child'[d] = "dead")
  BY <1>0, <1>1 DEF Shape, StartShape, Alive
<1>3. Steady /\ Surviving /\ Patient
  BY <1>1, <1>2 DEF Steady, Surviving, Patient, Dispatched
<1>4. Pool' /\ Execs' /\ Holds' /\ OneEntry' /\ IdleTimerFits'
  BY <1>0, <1>1, <1>3, PoolStill
<1>5. Frames' /\ CancelFollows' /\ CancelComes'
  BY <1>0, <1>1, <1>3, PipesStill
<1>6. up' \in [Children -> SUBSET Reply] /\ \A d \in Children : up[d] \subseteq up'[d]
  BY <1>0, <1>1 DEF Shape, PipeShape, Reply
<1>7. proc = 0 \/ proc \in Children
  BY <1>0 DEF Shape, StartShape
<1>8. NoCallLost'
  <2>1. \A d \in Children : \A i : Carries(d, i) => Carries(d, i)'
    BY <1>1, <1>6 DEF Carries
  <2> QED
    BY <1>0, <1>1, <1>2, <1>7, <2>1 DEF NoCallLost
<1>9. Budget' /\ Born' /\ Waiting'
  BY <1>0, <1>1, <1>2, <1>7 DEF startVars, Budget, Born, Waiting, Dispatched
<1>10. Shape'
  BY <1>0, <1>1, <1>2, <1>6
  DEF startVars, poolVars, Shape, StartShape, CallShape, PipeShape, PoolShape
<1> QED
  BY <1>4, <1>5, <1>8, <1>9, <1>10 DEF IInv

-----------------------------------------------------------------------------
(* Children that die                                                       *)

(* What dropEntry leaves of the pool.                                       *)
LEMMA Dropping ==
  ASSUME Shape, NEW es
  PROVE  /\ Dropped(es) \in [Entries -> Entry]
         /\ \A e \in Entries : /\ Dropped(es)[e].child = entry[e].child
                               /\ Dropped(es)[e].session = entry[e].session
                               /\ Dropped(es)[e].fence = entry[e].fence
         /\ \A e \in Entries : e \in es => /\ Dropped(es)[e].dead /\ ~Dropped(es)[e].armed
                                           /\ Dropped(es)[e].pending = {}
         /\ \A e \in Entries : e \notin es => Dropped(es)[e] = entry[e]
<1>1. entry \in [Entries -> Entry]
  BY DEF Shape, PoolShape
<1>2. ASSUME NEW e \in Entries
      PROVE  LET x == [entry[e] EXCEPT !.dead = TRUE, !.pending = {}, !.armed = FALSE] IN
             /\ x \in Entry /\ x.child = entry[e].child /\ x.session = entry[e].session
             /\ x.fence = entry[e].fence /\ x.dead /\ ~x.armed /\ x.pending = {}
  BY <1>1 DEF Entry
<1> QED
  BY <1>1, <1>2 DEF Dropped

(* A pool some entries of which are dropped.                                *)
LEMMA PoolDropped ==
  ASSUME Shape, Pool, Execs, Holds, OneEntry, IdleTimerFits, Steady,
         NEW es, entry' = Dropped(es), UNCHANGED <<runner, exec>>,
         \A e \in Entries : e \notin es /\ Alive(entry[e].child) /\ entry[e].child # 0 =>
           (Alive(entry[e].child))'
  PROVE  Pool' /\ Execs' /\ Holds' /\ OneEntry' /\ IdleTimerFits'
<1>1. /\ \A e \in Entries : /\ entry'[e].child = entry[e].child
                            /\ entry'[e].session = entry[e].session
                            /\ entry'[e].fence = entry[e].fence
      /\ \A e \in Entries : e \in es => /\ entry'[e].dead /\ ~entry'[e].armed
                                        /\ entry'[e].pending = {}
      /\ \A e \in Entries : e \notin es => entry'[e] = entry[e]
  BY Dropping
<1>2. Pool'
  <2> SUFFICES ASSUME NEW e \in Entries
               PROVE  /\ entry'[e].child = 0 <=> runner[e] = "none"
                      /\ entry'[e].child = 0 \/ entry'[e].dead => entry'[e].pending = {} /\ ~entry'[e].armed
                      /\ entry'[e].child # 0 /\ ~entry'[e].dead => (Alive(entry[e].child))'
                      /\ runner[e] = "draining" => entry'[e].dead
    BY <1>1 DEF Pool
  <2>1. CASE e \in es
    BY <1>1, <2>1 DEF Pool
  <2>2. CASE e \notin es
    BY <1>1, <2>2 DEF Pool
  <2> QED
    BY <2>1, <2>2
<1>3. Execs'
  <2> SUFFICES ASSUME NEW i \in Calls, exec[i].st # "none"
               PROVE  /\ exec[i].at \in Entries /\ entry'[exec[i].at].child # 0 /\ (Dispatched(i))'
                      /\ entry'[exec[i].at].fence = planned'[i]
                      /\ entry'[exec[i].at].session = SessionOf[i]
                      /\ ~entry'[exec[i].at].dead => i \in entry'[exec[i].at].pending
                      /\ exec[i].st \in {"running", "aborted"} => Running(exec[i].at)
                      /\ exec[i].st = "lost" => runner[exec[i].at] = "gone"
    BY DEF Execs, Running
  <2> QED
    BY <1>1 DEF Execs, Steady
<1>4. Holds'
  <2> SUFFICES ASSUME NEW e \in Entries, NEW i \in entry'[e].pending
               PROVE  (Dispatched(i))' /\ ((exec[i].at = e /\ exec[i].st # "none") \/ runner[e] = "gone")
    BY DEF Holds
  <2>1. i \in entry[e].pending /\ i \in Calls
    BY <1>1 DEF Shape, PoolShape, Entry
  <2> QED
    BY <2>1 DEF Holds, Steady
<1>5. OneEntry'
  BY <1>1 DEF OneEntry
<1>6. IdleTimerFits'
  BY <1>1 DEF IdleTimerFits, Running
<1> QED
  BY <1>2, <1>3, <1>4, <1>5, <1>6

(* With a child go its entries and its stdin, and nobody else's.              *)
LEMMA Dying ==
  ASSUME IInv, NEW c \in Children, Alive(c), Die(c), UNCHANGED <<runner, exec, ended>>,
         Steady, Patient
  PROVE  /\ child' \in [Children -> {"none", "booting", "up", "dead"}] /\ child'[c] = "dead"
         /\ down' \in [Children -> Seq(Frame)] /\ entry' \in [Entries -> Entry]
         /\ \A d \in Children \ {c} : child'[d] = child[d]
         /\ \A d \in Children : ~(Alive(d))' => down'[d] = <<>>
         /\ \A d \in Children \ {c} : \A i : UNCHANGED up /\ Carries(d, i) => Carries(d, i)'
         /\ Pool' /\ Execs' /\ Holds' /\ OneEntry' /\ IdleTimerFits'
         /\ Frames' /\ CancelFollows' /\ CancelComes'
<1> DEFINE es == {e \in Entries : entry[e].child = c}
<1>0. /\ Shape /\ Born /\ Pool /\ Execs /\ Holds /\ Frames
      /\ OneEntry /\ IdleTimerFits /\ CancelFollows /\ CancelComes
  BY DEF IInv
<1>1. /\ child' \in [Children -> {"none", "booting", "up", "dead"}] /\ child'[c] = "dead"
      /\ \A d \in Children \ {c} : child'[d] = child[d]
      /\ down' \in [Children -> Seq(Frame)] /\ down'[c] = <<>>
      /\ \A d \in Children \ {c} : down'[d] = down[d]
  BY <1>0 DEF Die, Shape, StartShape, PipeShape
<1>2. /\ entry' \in [Entries -> Entry]
      /\ \A e \in Entries : /\ entry'[e].child = entry[e].child
                            /\ entry'[e].session = entry[e].session
                            /\ entry'[e].fence = entry[e].fence
      /\ \A e \in Entries : entry[e].child = c => /\ entry'[e].dead /\ ~entry'[e].armed
                                                  /\ entry'[e].pending = {}
      /\ \A e \in Entries : entry[e].child # c => entry'[e] = entry[e]
  <2>1. entry' = Dropped(es)
    BY DEF Die
  <2>2. \A e \in Entries : e \in es <=> entry[e].child = c
    OBVIOUS
  <2> HIDE DEF es
  <2> QED
    BY <1>0, <2>1, <2>2, Dropping
<1>3. \A d \in Children : (Alive(d))' <=> (Alive(d) /\ d # c)
  BY <1>1 DEF Alive
<1>4. c # 0 /\ \A e \in Entries : entry[e].child \in Children \cup {0}
  BY <1>0 DEF Shape, PoolShape, Entry, Children
<1>5. \A d \in Children : ~(Alive(d))' => down'[d] = <<>>
  BY <1>0, <1>1, <1>3 DEF Born
<1>6. \A d \in Children : \A k \in DOMAIN down'[d] : d # c /\ k \in DOMAIN down[d] /\ down'[d][k] = down[d][k]
  BY <1>1
<1>7. \A d \in Children \ {c} : \A i : UNCHANGED up /\ Carries(d, i) => Carries(d, i)'
  BY <1>1, <1>2 DEF Carries
<1>8. Pool' /\ Execs' /\ Holds' /\ OneEntry' /\ IdleTimerFits'
  <2>1. entry' = Dropped(es) /\ \A e \in Entries : e \in es <=> entry[e].child = c
    BY DEF Die
  <2> HIDE DEF es
  <2>2. \A e \in Entries : e \notin es /\ Alive(entry[e].child) /\ entry[e].child # 0 =>
          (Alive(entry[e].child))'
    BY <1>2, <1>3, <1>4, <2>1
  <2> QED
    BY <1>0, <2>1, <2>2, PoolDropped
<1>9. Frames'
  <2>1. ASSUME NEW d \in Children, NEW k \in DOMAIN down'[d], NEW i \in Calls, Invokes(d, k, i)'
        PROVE  /\ Dispatched(i)' /\ down'[d][k].session = SessionOf[i]
               /\ down'[d][k].fence = planned'[i]
               /\ exec'[i].st = "none" /\ \A e \in Entries : i \notin entry'[e].pending
    <3>1. k \in DOMAIN down[d] /\ Invokes(d, k, i) /\ down'[d][k] = down[d][k]
      BY <1>6, <2>1 DEF Invokes
    <3>2. \A e \in Entries : entry'[e].pending \subseteq entry[e].pending
      BY <1>2
    <3> QED
      BY <1>0, <3>1, <3>2 DEF Frames, Steady
  <2>2. ASSUME NEW d \in Children, NEW e \in Children, NEW k \in DOMAIN down'[d],
               NEW l \in DOMAIN down'[e], NEW i \in Calls, Invokes(d, k, i)', Invokes(e, l, i)'
        PROVE  d = e /\ k = l
    <3>1. k \in DOMAIN down[d] /\ Invokes(d, k, i) /\ l \in DOMAIN down[e] /\ Invokes(e, l, i)
      BY <1>6, <2>2 DEF Invokes
    <3> QED
      BY <1>0, <3>1 DEF Frames
  <2> QED
    BY <2>1, <2>2 DEF Frames
<1>10. \A d \in Children : \A i \in Calls : Within(d, i)' => Within(d, i) /\ d # c
  <2> SUFFICES ASSUME NEW d \in Children, NEW i \in Calls, Within(d, i)'
               PROVE  Within(d, i) /\ d # c
    OBVIOUS
  <2>1. CASE \E k \in DOMAIN down'[d] : Invokes(d, k, i)'
    BY <1>6, <2>1 DEF Within, Invokes
  <2>2. CASE exec[i].st # "none" /\ entry'[exec[i].at].child = d /\ ~entry'[exec[i].at].dead
    <3>1. exec[i].at \in Entries
      BY <1>0, <2>2 DEF Execs
    <3> QED
      BY <1>2, <2>2, <3>1 DEF Within
  <2> QED
    BY <2>1, <2>2 DEF Within
<1>11. CancelFollows'
  <2> SUFFICES ASSUME NEW i \in Calls
               PROVE  /\ fate'[i] \in {"idle", "open"} =>
                           \A d \in Children : \A k \in DOMAIN down'[d] : ~Cancels(d, k, i)'
                      /\ fate'[i] = "cancelled" =>
                           /\ \A d \in Children : \A k \in DOMAIN down'[d] : Invokes(d, k, i)' =>
                                d \in ended' \/ \E l \in DOMAIN down'[d] : l > k /\ Cancels(d, l, i)'
                           /\ \A d, e \in Children : \A k \in DOMAIN down'[d] :
                                Cancels(d, k, i)' /\ Within(e, i)' => e = d \/ e \in ended'
    BY DEF CancelFollows
  <2>1. \A d \in Children : \A k \in DOMAIN down'[d] :
          /\ k \in DOMAIN down[d] /\ down'[d] = down[d]
          /\ Invokes(d, k, i)' => Invokes(d, k, i)
          /\ Cancels(d, k, i)' => Cancels(d, k, i)
    BY <1>1, <1>6 DEF Invokes, Cancels
  <2>2. \A d \in Children : \A l : down'[d] = down[d] /\ Cancels(d, l, i) => Cancels(d, l, i)'
    BY DEF Cancels
  <2> QED
    BY <1>0, <1>10, <2>1, <2>2 DEF CancelFollows, Patient
<1>12. CancelComes'
  <2> SUFFICES ASSUME NEW i \in Calls, fate'[i] = "cancelled", exec[i].st = "running",
                      ~entry'[exec[i].at].dead, entry'[exec[i].at].child \notin ended
               PROVE  \E d \in Children : \E k \in DOMAIN down'[d] : Cancels(d, k, i)'
    BY DEF CancelComes
  <2> DEFINE e == exec[i].at
  <2>1. e \in Entries /\ fate[i] = "cancelled"
    BY <1>0 DEF Execs, Patient
  <2>2. entry'[e] = entry[e] /\ entry[e].child \in Children \ {c}
    BY <1>0, <1>2, <1>4, <2>1 DEF Execs
  <2>3. PICK d \in Children : \E k \in DOMAIN down[d] : Cancels(d, k, i)
    BY <1>0, <2>1, <2>2 DEF CancelComes
  <2>4. Within(entry[e].child, i)
    BY <2>2 DEF Within
  <2>5. d = entry[e].child
    BY <1>0, <2>1, <2>2, <2>3, <2>4 DEF CancelFollows
  <2> QED
    BY <1>1, <2>2, <2>3, <2>5 DEF Cancels
<1> QED
  BY <1>1, <1>2, <1>5, <1>7, <1>8, <1>9, <1>11, <1>12

LEMMA OverflowKeeps ==
  ASSUME IInv, Overflow PROVE IInv'
<1>0. Shape /\ Budget /\ Born /\ Waiting
  BY DEF IInv
<1>1. /\ proc # 0 /\ proc \in Children /\ Alive(proc) /\ Strike /\ Die(proc) /\ HandleDeath
      /\ UNCHANGED <<waits, planned, post, up, ended, runner, exec, policy, closers>>
  BY <1>0 DEF Overflow, Alive, Shape, StartShape
<1>2. /\ Budget' /\ proc' = 0 /\ pending' = {} /\ fate' = Settled(pending, "done")
      /\ proc' \in Children \cup {0} /\ hook' \in Children \cup {0}
      /\ promise' \in [Children -> {"none", "open", "ready", "failed"}]
      /\ crashed' \in BOOLEAN /\ closing' \in BOOLEAN /\ degraded' \in BOOLEAN
      /\ respawns' \in Nat /\ deaths' \in Nat /\ lone' \in Nat
  BY <1>0, <1>1, DeathHeard
<1>3. /\ Steady /\ Patient /\ Waiting'
      /\ fate' \in [Calls -> {"idle", "open", "done", "cancelled", "withdrawn"}]
  BY <1>0, <1>1, <1>2, Settling
<1>4. /\ child' \in [Children -> {"none", "booting", "up", "dead"}] /\ child'[proc] = "dead"
      /\ down' \in [Children -> Seq(Frame)] /\ entry' \in [Entries -> Entry]
      /\ \A d \in Children \ {proc} : child'[d] = child[d]
      /\ \A d \in Children : ~(Alive(d))' => down'[d] = <<>>
      /\ Pool' /\ Execs' /\ Holds' /\ OneEntry' /\ IdleTimerFits'
      /\ Frames' /\ CancelFollows' /\ CancelComes'
  BY <1>1, <1>3, Dying
<1>5. NoCallLost'
  BY <1>2 DEF NoCallLost
<1>6. Born'
  BY <1>0, <1>1, <1>2, <1>4 DEF Born, Alive
<1>7. troubles' \in 0 .. MaxTroubles
  BY <1>0, <1>1, SpentIsNat
<1>8. Shape'
  BY <1>0, <1>1, <1>2, <1>3, <1>4, <1>7 DEF Shape, StartShape, CallShape, PipeShape, PoolShape
<1> QED
  BY <1>2, <1>3, <1>4, <1>5, <1>6, <1>8 DEF IInv

LEMMA CloseReturnsKeeps ==
  ASSUME IInv, NEW c \in Children, CloseReturns(c) PROVE IInv'
<1>0. /\ Shape /\ Budget /\ Born /\ Waiting /\ Pool /\ Execs /\ Holds /\ Frames
      /\ OneEntry /\ IdleTimerFits /\ CancelFollows /\ CancelComes
  BY DEF IInv
<1>1. /\ closers' = closers \ {c} /\ fate' = Settled(pending, "done") /\ pending' = {}
      /\ UNCHANGED <<startVars, waits, planned, post, up, ended, runner, exec, policy, troubles>>
      /\ UNCHANGED proc
  BY DEF CloseReturns, startVars
<1>2. /\ Steady /\ Patient /\ Waiting'
      /\ fate' \in [Calls -> {"idle", "open", "done", "cancelled", "withdrawn"}]
  BY <1>0, <1>1, Settling
<1>3. NoCallLost' /\ Budget'
  BY <1>0, <1>1 DEF startVars, NoCallLost, Budget
<1>4. CASE Alive(c)
  <2>1. Die(c)
    BY <1>4 DEF CloseReturns
  <2>2. /\ child' \in [Children -> {"none", "booting", "up", "dead"}] /\ child'[c] = "dead"
        /\ down' \in [Children -> Seq(Frame)] /\ entry' \in [Entries -> Entry]
        /\ \A d \in Children \ {c} : child'[d] = child[d]
        /\ \A d \in Children : ~(Alive(d))' => down'[d] = <<>>
        /\ Pool' /\ Execs' /\ Holds' /\ OneEntry' /\ IdleTimerFits'
        /\ Frames' /\ CancelFollows' /\ CancelComes'
    BY <1>1, <1>2, <1>4, <2>1, Dying
  <2>3. Born'
    BY <1>0, <1>1, <2>2 DEF Born, Alive, Shape, StartShape
  <2>4. Shape'
    BY <1>0, <1>1, <1>2, <2>2 DEF startVars, Shape, StartShape, CallShape, PipeShape, PoolShape
  <2> QED
    BY <1>2, <1>3, <2>2, <2>3, <2>4 DEF IInv
<1>5. CASE ~Alive(c)
  <2>1. UNCHANGED <<child, down, entry>>
    BY <1>5 DEF CloseReturns
  <2>2. Surviving /\ Born'
    BY <1>0, <1>1, <2>1 DEF Surviving, Born, Alive
  <2>3. Pool' /\ Execs' /\ Holds' /\ OneEntry' /\ IdleTimerFits'
    BY <1>0, <1>1, <1>2, <2>1, <2>2, PoolStill DEF poolVars
  <2>4. Frames' /\ CancelFollows' /\ CancelComes'
    BY <1>0, <1>1, <1>2, <2>1, <2>2, PipesStill DEF poolVars
  <2>5. Shape'
    BY <1>0, <1>1, <1>2, <2>1 DEF startVars, Shape, StartShape, CallShape, PipeShape, PoolShape
  <2> QED
    BY <1>2, <1>3, <2>2, <2>3, <2>4, <2>5 DEF IInv
<1> QED
  BY <1>4, <1>5

(* A child that exits or crashes: the supervisor has not heard yet.            *)
LEMMA DeathKeeps ==
  ASSUME IInv, NEW c \in Children, Leave(c) \/ Crash(c) PROVE IInv'
<1>0. Shape /\ Budget /\ Born /\ Waiting /\ NoCallLost
  BY DEF IInv
<1>1. /\ Alive(c) /\ Die(c)
      /\ UNCHANGED <<startVars, callVars, up, ended, runner, exec, policy, closers>>
      /\ UNCHANGED <<proc, pending, waits, fate, planned, post>>
  BY DEF Leave, Crash, Alive, startVars, callVars
<1>2. Steady /\ Patient
  BY <1>1 DEF Steady, Patient, Dispatched
<1>3. /\ child' \in [Children -> {"none", "booting", "up", "dead"}] /\ child'[c] = "dead"
      /\ down' \in [Children -> Seq(Frame)] /\ entry' \in [Entries -> Entry]
      /\ \A d \in Children \ {c} : child'[d] = child[d]
      /\ \A d \in Children : ~(Alive(d))' => down'[d] = <<>>
      /\ \A d \in Children \ {c} : \A i : UNCHANGED up /\ Carries(d, i) => Carries(d, i)'
      /\ Pool' /\ Execs' /\ Holds' /\ OneEntry' /\ IdleTimerFits'
      /\ Frames' /\ CancelFollows' /\ CancelComes'
  BY <1>1, <1>2, Dying
<1>4. proc = 0 \/ proc \in Children
  BY <1>0 DEF Shape, StartShape
<1>5. NoCallLost'
  BY <1>0, <1>1, <1>3, <1>4 DEF NoCallLost
<1>6. Budget' /\ Born' /\ Waiting'
  BY <1>0, <1>1, <1>3, <1>4 DEF startVars, Budget, Born, Waiting, Dispatched, Alive
<1>7. troubles' \in 0 .. MaxTroubles
  <2>1. CASE Crash(c)
    BY <1>0, <2>1, SpentIsNat DEF Crash
  <2>2. CASE Leave(c)
    BY <1>0, <2>2 DEF Leave, Shape, StartShape
  <2> QED
    BY <2>1, <2>2
<1>8. Shape'
  BY <1>0, <1>1, <1>3, <1>7 DEF startVars, Shape, StartShape, CallShape, PipeShape, PoolShape
<1> QED
  BY <1>3, <1>5, <1>6, <1>8 DEF IInv

-----------------------------------------------------------------------------
(* The runner works                                                        *)

(* A runner never takes a call up by itself; it works only while it runs, and *)
(* forgets a call only with its own end.                                    *)
RunnerMoves ==
  /\ exec' \in [Calls -> [at : Entries \cup {0}, st : Stages]]
  /\ \A i \in Calls :
       /\ exec'[i].st # "none" => exec[i].st # "none" /\ exec'[i].at = exec[i].at
       /\ exec'[i].st = "running" => exec[i].st = "running"
       /\ exec'[i].st = "lost" => exec[i].st = "lost"
       /\ exec'[i].st \in {"running", "aborted"} => runner'[exec[i].at] \in {"up", "draining"}
       /\ exec[i].st # "none" /\ exec'[i].st = "none" => runner'[exec[i].at] = "gone"
  /\ runner' \in [Entries -> {"none", "up", "draining", "gone"}]
  /\ \A e \in Entries :
       \/ runner'[e] = runner[e]
       \/ /\ runner[e] \in {"up", "draining"} /\ runner'[e] \in {"draining", "gone"}
          /\ runner'[e] = "draining" => entry[e].dead

LEMMA RunnerKeeps ==
  ASSUME IInv, RunnerMoves, UNCHANGED RunnerVars, troubles' \in 0 .. MaxTroubles
  PROVE  IInv'
<1>0. /\ Shape /\ Budget /\ Born /\ Waiting /\ Pool /\ Execs /\ Holds /\ Frames
      /\ OneEntry /\ IdleTimerFits /\ NoCallLost /\ CancelFollows /\ CancelComes
  BY DEF IInv
<1>1. /\ UNCHANGED <<startVars, callVars, pipeVars, childVars, entry, policy, closers>>
      /\ UNCHANGED <<proc, child, ended, down, up, pending, waits, fate, planned, post>>
  BY DEF RunnerVars, startVars, callVars, pipeVars, childVars
<1>2. \A i \in Calls : exec'[i].st # "none" => exec[i].st # "none" /\ exec'[i].at = exec[i].at
  BY DEF RunnerMoves
<1>3. Budget' /\ Born' /\ Waiting' /\ OneEntry'
  BY <1>0, <1>1 DEF startVars, Budget, Born, Waiting, Dispatched, Alive, OneEntry
<1>4. Shape'
  BY <1>0, <1>1 DEF RunnerMoves, startVars, Shape, StartShape, CallShape, PipeShape, PoolShape
<1>5. Pool'
  <2>1. \A e \in Entries : (runner'[e] = "none" <=> runner[e] = "none")
                           /\ (runner'[e] = "draining" => entry[e].dead)
    BY <1>0 DEF RunnerMoves, Pool
  <2> QED
    BY <1>0, <1>1, <2>1 DEF Pool, Alive
<1>6. Execs'
  <2> SUFFICES ASSUME NEW i \in Calls, exec'[i].st # "none"
               PROVE  /\ exec'[i].at \in Entries /\ entry[exec'[i].at].child # 0 /\ Dispatched(i)
                      /\ entry[exec'[i].at].fence = planned[i]
                      /\ entry[exec'[i].at].session = SessionOf[i]
                      /\ ~entry[exec'[i].at].dead => i \in entry[exec'[i].at].pending
                      /\ exec'[i].st \in {"running", "aborted"} =>
                           runner'[exec'[i].at] \in {"up", "draining"}
                      /\ exec'[i].st = "lost" => runner'[exec'[i].at] = "gone"
    BY <1>1 DEF Execs, Running, Dispatched
  <2>1. exec[i].st # "none" /\ exec'[i].at = exec[i].at /\ exec[i].at \in Entries
    BY <1>0, <1>2 DEF Execs
  <2>2. exec'[i].st \in {"running", "aborted"} => runner'[exec[i].at] \in {"up", "draining"}
    BY DEF RunnerMoves
  <2>3. exec'[i].st = "lost" => runner'[exec[i].at] = "gone"
    BY <1>0, <2>1 DEF RunnerMoves, Execs
  <2> QED
    BY <1>0, <2>1, <2>2, <2>3 DEF Execs
<1>7. Holds'
  <2> SUFFICES ASSUME NEW e \in Entries, NEW i \in entry[e].pending
               PROVE  /\ Dispatched(i)
                      /\ (exec'[i].at = e /\ exec'[i].st # "none") \/ runner'[e] = "gone"
    BY <1>1 DEF Holds, Dispatched
  <2>1. i \in Calls
    BY <1>0 DEF Shape, PoolShape, Entry
  <2>2. CASE runner[e] = "gone"
    BY <1>0, <2>2 DEF Holds, RunnerMoves
  <2>3. CASE exec[i].at = e /\ exec[i].st # "none"
    <3>1. exec'[i].st = "none" => runner'[e] = "gone"
      BY <2>1, <2>3 DEF RunnerMoves
    <3> QED
      BY <1>0, <1>2, <2>1, <2>3, <3>1 DEF Holds
  <2> QED
    BY <1>0, <2>2, <2>3 DEF Holds
<1>8. IdleTimerFits'
  <2>1. \A e \in Entries : runner'[e] \in {"up", "draining"} => runner[e] \in {"up", "draining"}
    BY DEF RunnerMoves
  <2> QED
    BY <1>0, <1>1, <2>1 DEF IdleTimerFits, Running
<1>9. Frames'
  <2>1. \A i \in Calls : exec[i].st = "none" => exec'[i].st = "none"
    BY <1>2
  <2> QED
    BY <1>0, <1>1, <2>1 DEF Frames, Invokes, Dispatched
<1>10. CancelFollows'
  <2>1. \A d, i : i \in Calls /\ Within(d, i)' => Within(d, i)
    BY <1>1, <1>2 DEF Within, Invokes
  <2> QED
    BY <1>0, <1>1, <2>1 DEF CancelFollows, Invokes, Cancels
<1>11. CancelComes'
  <2> SUFFICES ASSUME NEW i \in Calls, fate[i] = "cancelled", exec'[i].st = "running"
               PROVE  \/ entry[exec'[i].at].dead \/ entry[exec'[i].at].child \in ended
                      \/ \E d \in Children : \E k \in DOMAIN down[d] : Cancels(d, k, i)
    BY <1>1 DEF CancelComes, Cancels
  <2>1. exec[i].st = "running" /\ exec'[i].at = exec[i].at
    BY <1>2 DEF RunnerMoves
  <2> QED
    BY <1>0, <2>1 DEF CancelComes
<1>12. NoCallLost'
  BY <1>0, <1>1, CallsStill
<1> QED
  BY <1>3, <1>4, <1>5, <1>6, <1>7, <1>8, <1>9, <1>10, <1>11, <1>12 DEF IInv

LEMMA FinishKeeps ==
  ASSUME IInv, NEW i \in Calls, Finish(i) PROVE IInv'
<1>0. Shape /\ Execs
  BY DEF IInv
<1>1. /\ exec[i].st \in {"running", "aborted"} /\ exec' = [exec EXCEPT ![i].st = "replied"]
      /\ UNCHANGED RunnerVars /\ runner' = runner /\ troubles' = troubles
  BY DEF Finish
<1>2. /\ exec' \in [Calls -> [at : Entries \cup {0}, st : Stages]]
      /\ exec'[i].st = "replied" /\ exec'[i].at = exec[i].at
      /\ \A j \in Calls \ {i} : exec'[j] = exec[j]
  BY <1>0, <1>1 DEF Shape, PoolShape, Stages
<1>3. RunnerMoves
  BY <1>0, <1>1, <1>2 DEF RunnerMoves, Execs, Running, Shape, PoolShape
<1>4. troubles' \in 0 .. MaxTroubles
  BY <1>0, <1>1 DEF Shape, StartShape
<1> QED
  BY <1>1, <1>3, <1>4, RunnerKeeps

LEMMA DrainKeeps ==
  ASSUME IInv, NEW e \in Entries, Drain(e) PROVE IInv'
<1>0. Shape /\ Execs
  BY DEF IInv
<1>1. /\ runner[e] = "up" /\ entry[e].dead
      /\ runner' = [runner EXCEPT ![e] = IF At(e, {"running", "aborted"}) = {} THEN "gone"
                                         ELSE "draining"]
      /\ exec' = [j \in Calls |-> IF j \in At(e, {"running"}) THEN [exec[j] EXCEPT !.st = "aborted"]
                                  ELSE exec[j]]
      /\ UNCHANGED RunnerVars /\ troubles' = troubles
  BY DEF Drain
<1>2. \A sts : \A j \in Calls : j \in At(e, sts) <=> exec[j].at = e /\ exec[j].st \in sts
  BY DEF At
<1>3. ASSUME NEW j \in Calls
      PROVE  /\ exec'[j] \in [at : Entries \cup {0}, st : Stages] /\ exec'[j].at = exec[j].at
             /\ exec'[j].st = (IF exec[j].at = e /\ exec[j].st = "running" THEN "aborted"
                               ELSE exec[j].st)
  BY <1>0, <1>1, <1>2 DEF Shape, PoolShape, Stages
<1>4. /\ runner' \in [Entries -> {"none", "up", "draining", "gone"}]
      /\ \A d \in Entries \ {e} : runner'[d] = runner[d]
      /\ runner'[e] \in {"gone", "draining"}
      /\ \A j \in Calls : exec[j].at = e /\ exec[j].st \in {"running", "aborted"} =>
           runner'[e] = "draining"
  <2> DEFINE busy == At(e, {"running", "aborted"})
  <2>1. \A j \in Calls : exec[j].at = e /\ exec[j].st \in {"running", "aborted"} => busy # {}
    BY <1>2
  <2>2. runner' = [runner EXCEPT ![e] = IF busy = {} THEN "gone" ELSE "draining"]
    BY <1>1
  <2>3. runner \in [Entries -> {"none", "up", "draining", "gone"}]
    BY <1>0 DEF Shape, PoolShape
  <2> HIDE DEF busy
  <2> QED
    BY <2>1, <2>2, <2>3
<1>5. exec' \in [Calls -> [at : Entries \cup {0}, st : Stages]]
  BY <1>1, <1>3
<1>6. \A j \in Calls :
        /\ exec'[j].st # "none" => exec[j].st # "none" /\ exec'[j].at = exec[j].at
        /\ exec'[j].st = "running" => exec[j].st = "running"
        /\ exec'[j].st = "lost" => exec[j].st = "lost"
        /\ exec[j].st # "none" /\ exec'[j].st = "none" => runner'[exec[j].at] = "gone"
  BY <1>3
<1>7. ASSUME NEW j \in Calls, exec'[j].st \in {"running", "aborted"}
      PROVE  runner'[exec[j].at] \in {"up", "draining"}
  <2>1. exec[j].st \in {"running", "aborted"} /\ exec[j].at \in Entries
        /\ runner[exec[j].at] \in {"up", "draining"}
    BY <1>0, <1>3, <1>7 DEF Execs, Running
  <2> QED
    BY <1>4, <2>1
<1>8. RunnerMoves
  BY <1>1, <1>4, <1>5, <1>6, <1>7 DEF RunnerMoves
<1>9. troubles' \in 0 .. MaxTroubles
  BY <1>0, <1>1 DEF Shape, StartShape
<1> QED
  BY <1>1, <1>8, <1>9, RunnerKeeps

LEMMA VanishKeeps ==
  ASSUME IInv, NEW e \in Entries, DrainTimer(e) \/ RunnerCrash(e) PROVE IInv'
<1>0. Shape /\ Execs
  BY DEF IInv
<1>1. /\ runner[e] \in {"up", "draining"} /\ runner' = [runner EXCEPT ![e] = "gone"]
      /\ exec' = [j \in Calls |-> IF j \in At(e, {"running", "aborted"}) THEN Nowhere ELSE exec[j]]
      /\ UNCHANGED RunnerVars
  BY DEF DrainTimer, RunnerCrash, Vanish, Running
<1>2. \A j \in Calls : j \in At(e, {"running", "aborted"})
                         <=> exec[j].at = e /\ exec[j].st \in {"running", "aborted"}
  BY DEF At
<1>3. Nowhere \in [at : Entries \cup {0}, st : Stages] /\ Nowhere.st = "none"
  BY DEF Nowhere, Stages
<1>4. exec' \in [Calls -> [at : Entries \cup {0}, st : Stages]]
  BY <1>0, <1>1, <1>3 DEF Shape, PoolShape
<1>5. /\ runner' \in [Entries -> {"none", "up", "draining", "gone"}] /\ runner'[e] = "gone"
      /\ \A d \in Entries \ {e} : runner'[d] = runner[d]
  BY <1>0, <1>1 DEF Shape, PoolShape
<1>6. ASSUME NEW j \in Calls
      PROVE  /\ exec'[j].st # "none" => exec[j].st # "none" /\ exec'[j] = exec[j]
             /\ exec'[j].st \in {"running", "aborted"} => runner'[exec[j].at] \in {"up", "draining"}
             /\ exec[j].st # "none" /\ exec'[j].st = "none" => runner'[exec[j].at] = "gone"
  <2>1. CASE exec[j].at = e /\ exec[j].st \in {"running", "aborted"}
    BY <1>1, <1>2, <1>3, <1>5, <2>1
  <2>2. CASE ~(exec[j].at = e /\ exec[j].st \in {"running", "aborted"})
    <3>1. exec'[j] = exec[j]
      BY <1>1, <1>2, <2>2
    <3>2. ASSUME exec[j].st \in {"running", "aborted"} PROVE runner'[exec[j].at] \in {"up", "draining"}
      <4>1. exec[j].at \in Entries \ {e} /\ runner[exec[j].at] \in {"up", "draining"}
        BY <1>0, <2>2, <3>2 DEF Execs, Running
      <4> QED
        BY <1>5, <4>1
    <3> QED
      BY <3>1, <3>2
  <2> QED
    BY <2>1, <2>2
<1>7. RunnerMoves
  BY <1>1, <1>4, <1>5, <1>6 DEF RunnerMoves
<1>8. troubles' \in 0 .. MaxTroubles
  BY <1>0, SpentIsNat DEF DrainTimer, RunnerCrash, Shape, StartShape
<1> QED
  BY <1>1, <1>7, <1>8, RunnerKeeps

-----------------------------------------------------------------------------
(* The broker reads and routes                                             *)

(* The pipes of a child that read as many frames as sh says, one or none.      *)
Shifted(sh) ==
  /\ \A d \in Children : \A k \in DOMAIN down'[d] :
       k \in Nat \ {0} /\ k + sh[d] \in DOMAIN down[d] /\ down'[d][k] = down[d][k + sh[d]]
  /\ \A d \in Children : \A l \in DOMAIN down[d] :
       \/ sh[d] = 1 /\ l = 1
       \/ l - sh[d] \in DOMAIN down'[d] /\ down'[d][l - sh[d]] = down[d][l]

Read(sh, d, i) == sh[d] = 1 /\ 1 \in DOMAIN down[d] /\ Invokes(d, 1, i)

(* The pool takes up only the call that was read.                            *)
PoolMoves(sh) ==
  /\ \A i \in Calls : exec'[i].st # "none" =>
       \/ /\ exec[i].st # "none" /\ exec'[i].at = exec[i].at
          /\ entry'[exec[i].at].child = entry[exec[i].at].child
          /\ entry[exec[i].at].dead => entry'[exec[i].at].dead
          /\ exec'[i].st = "running" => exec[i].st = "running"
       \/ \E d \in Children : Read(sh, d, i) /\ entry'[exec'[i].at].child = d
  /\ \A e \in Entries : \A i \in entry'[e].pending :
       i \in entry[e].pending \/ \E d \in Children : Read(sh, d, i)

(* What was read leaves its pipe, and what is behind it moves up.             *)
LEMMA TakenFrom ==
  ASSUME Shape, Born, NEW c \in Children, NEW op, Takes(c, op), Taken(c)
  PROVE  LET sh == [d \in Children |-> IF d = c THEN 1 ELSE 0] IN
         /\ Head(down[c]) \in Frame /\ Head(down[c]).op = op
         /\ 1 \in DOMAIN down[c] /\ down[c][1] = Head(down[c])
         /\ down' \in [Children -> Seq(Frame)]
         /\ \A d \in Children : ~Alive(d) => down'[d] = <<>>
         /\ sh \in [Children -> {0, 1}] /\ Shifted(sh) /\ child[c] = "up" /\ Alive(c)
<1> DEFINE sh == [d \in Children |-> IF d = c THEN 1 ELSE 0]
<1>1. down \in [Children -> Seq(Frame)] /\ down[c] # <<>> /\ child[c] = "up"
      /\ Head(down[c]).op = op /\ down' = [down EXCEPT ![c] = Tail(down[c])]
  BY DEF Shape, PipeShape, Takes, Taken
<1>2. /\ Tail(down[c]) \in Seq(Frame) /\ Head(down[c]) \in Frame /\ 1 \in DOMAIN down[c]
      /\ Head(down[c]) = down[c][1]
      /\ \A k \in DOMAIN Tail(down[c]) :
           k \in Nat \ {0} /\ k + 1 \in DOMAIN down[c] /\ Tail(down[c])[k] = down[c][k + 1]
      /\ \A k \in DOMAIN down[c] : k = 1 \/ (k \in Nat /\ k - 1 \in DOMAIN Tail(down[c])
                                             /\ Tail(down[c])[k - 1] = down[c][k])
  <2>1. down[c] \in Seq(Frame)
    BY <1>1
  <2> QED
    BY <1>1, <2>1, Reading
<1>3. /\ down'[c] = Tail(down[c]) /\ \A d \in Children \ {c} : down'[d] = down[d]
      /\ down' \in [Children -> Seq(Frame)]
  BY <1>1, <1>2
<1>4. sh[c] = 1 /\ \A d \in Children \ {c} : sh[d] = 0
  OBVIOUS
<1>5. sh \in [Children -> {0, 1}]
  OBVIOUS
<1> HIDE DEF sh
<1>6. \A d \in Children : \A k \in DOMAIN down[d] : k \in Nat \ {0} /\ k + 0 = k /\ k - 0 = k
  BY <1>1
<1>7. Shifted(sh)
  <2>1. ASSUME NEW d \in Children, NEW k \in DOMAIN down'[d]
        PROVE  k \in Nat \ {0} /\ k + sh[d] \in DOMAIN down[d] /\ down'[d][k] = down[d][k + sh[d]]
    BY <1>2, <1>3, <1>4, <1>6
  <2>2. ASSUME NEW d \in Children, NEW l \in DOMAIN down[d]
        PROVE  \/ sh[d] = 1 /\ l = 1
               \/ l - sh[d] \in DOMAIN down'[d] /\ down'[d][l - sh[d]] = down[d][l]
    <3>1. CASE d = c
      BY <1>2, <1>3, <1>4, <3>1
    <3>2. CASE d # c
      <4>1. sh[d] = 0 /\ down'[d] = down[d] /\ l \in Nat /\ l - 0 = l
        BY <1>3, <1>4, <1>6, <3>2
      <4> QED
        BY <4>1
    <3> QED
      BY <3>1, <3>2
  <2> QED
    BY <2>1, <2>2 DEF Shifted
<1>8. \A d \in Children : ~Alive(d) => down'[d] = <<>>
  BY <1>1, <1>3 DEF Born, Alive
<1> QED
  BY <1>1, <1>2, <1>3, <1>5, <1>7, <1>8 DEF sh, Alive

(* Nothing read.                                                            *)
LEMMA NothingTaken ==
  ASSUME Shape, UNCHANGED down
  PROVE  LET sh == [d \in Children |-> 0] IN
         sh \in [Children -> {0, 1}] /\ Shifted(sh)
<1> DEFINE sh == [d \in Children |-> 0]
<1>1. \A d \in Children : \A k \in DOMAIN down[d] : k \in Nat \ {0} /\ k + 0 = k /\ k - 0 = k
  BY DEF Shape, PipeShape
<1>2. sh \in [Children -> {0, 1}] /\ \A d \in Children : sh[d] = 0
  OBVIOUS
<1> HIDE DEF sh
<1>3. Shifted(sh)
  BY <1>1, <1>2 DEF Shifted
<1> QED
  BY <1>2, <1>3 DEF sh

(* Reading and routing keeps the frames, and keeps each cancel behind its call.*)
LEMMA PipesRead ==
  ASSUME IInv, NEW sh \in [Children -> {0, 1}], Shifted(sh), PoolMoves(sh),
         UNCHANGED <<fate, waits, planned, ended>>,
         \A d \in Children, i \in Calls :
           sh[d] = 1 /\ 1 \in DOMAIN down[d] /\ Cancels(d, 1, i) /\ exec'[i].st = "running"
             /\ fate[i] = "cancelled" =>
             entry'[exec'[i].at].dead \/ entry'[exec'[i].at].child \in ended
  PROVE  Frames' /\ CancelFollows' /\ CancelComes'
<1>0. Shape /\ Execs /\ Holds /\ Frames /\ CancelFollows /\ CancelComes
  BY DEF IInv
<1>1. \A d \in Children : sh[d] \in {0, 1}
  OBVIOUS
<1>2. \A d \in Children : \A k \in DOMAIN down'[d] : \A i :
        /\ k \in Nat \ {0} /\ k + sh[d] \in DOMAIN down[d] /\ down'[d][k] = down[d][k + sh[d]]
        /\ Invokes(d, k, i)' <=> Invokes(d, k + sh[d], i)
        /\ Cancels(d, k, i)' <=> Cancels(d, k + sh[d], i)
  BY DEF Shifted, Invokes, Cancels
<1>3. \A d \in Children : \A l \in DOMAIN down[d] : \A i :
        \/ sh[d] = 1 /\ l = 1
        \/ l - sh[d] \in DOMAIN down'[d] /\ (Cancels(d, l, i) => Cancels(d, l - sh[d], i)')
  BY DEF Shifted, Cancels
<1>4. \A d \in Children : \A l \in DOMAIN down[d] : l \in Nat
  BY <1>0 DEF Shape, PipeShape
(* A call that is still in a pipe is not the one that was read.              *)
<1>5. ASSUME NEW d \in Children, NEW k \in DOMAIN down'[d], NEW i \in Calls, Invokes(d, k, i)',
             NEW c \in Children
      PROVE  ~Read(sh, c, i)
  <2>1. k \in Nat \ {0} /\ k + sh[d] \in DOMAIN down[d] /\ Invokes(d, k + sh[d], i)
    BY <1>2, <1>5
  <2>2. SUFFICES ASSUME sh[c] = 1, 1 \in DOMAIN down[c], Invokes(c, 1, i) PROVE FALSE
    BY DEF Read
  <2>3. d = c /\ k + sh[d] = 1
    BY <1>0, <2>1, <2>2 DEF Frames
  <2> QED
    BY <2>1, <2>2, <2>3
<1>6. Frames'
  <2>1. ASSUME NEW d \in Children, NEW k \in DOMAIN down'[d], NEW i \in Calls, Invokes(d, k, i)'
        PROVE  /\ Dispatched(i)' /\ down'[d][k].session = SessionOf[i]
               /\ down'[d][k].fence = planned'[i]
               /\ exec'[i].st = "none" /\ \A e \in Entries : i \notin entry'[e].pending
    <3>1. /\ k + sh[d] \in DOMAIN down[d] /\ Invokes(d, k + sh[d], i)
          /\ down'[d][k] = down[d][k + sh[d]]
      BY <1>2, <2>1
    <3>2. \A c \in Children : ~Read(sh, c, i)
      BY <1>5, <2>1
    <3>3. exec[i].st = "none" /\ \A e \in Entries : i \notin entry[e].pending
      BY <1>0, <3>1 DEF Frames
    <3>4. exec'[i].st = "none" /\ \A e \in Entries : i \notin entry'[e].pending
      BY <3>2, <3>3 DEF PoolMoves
    <3> QED
      BY <1>0, <3>1, <3>4 DEF Frames, Dispatched
  <2>2. ASSUME NEW d \in Children, NEW e \in Children, NEW k \in DOMAIN down'[d],
               NEW l \in DOMAIN down'[e], NEW i \in Calls, Invokes(d, k, i)', Invokes(e, l, i)'
        PROVE  d = e /\ k = l
    <3>1. /\ k \in Nat /\ k + sh[d] \in DOMAIN down[d] /\ Invokes(d, k + sh[d], i)
          /\ l \in Nat /\ l + sh[e] \in DOMAIN down[e] /\ Invokes(e, l + sh[e], i)
      BY <1>2, <2>2
    <3>2. d = e /\ k + sh[d] = l + sh[e]
      BY <1>0, <3>1 DEF Frames
    <3> QED
      BY <1>1, <3>1, <3>2
  <2> QED
    BY <2>1, <2>2 DEF Frames
<1>7. \A d \in Children : \A i \in Calls : Within(d, i)' => Within(d, i)
  <2> SUFFICES ASSUME NEW d \in Children, NEW i \in Calls, Within(d, i)' PROVE Within(d, i)
    OBVIOUS
  <2>1. CASE \E k \in DOMAIN down'[d] : Invokes(d, k, i)'
    BY <1>2, <2>1 DEF Within
  <2>2. CASE exec'[i].st # "none" /\ entry'[exec'[i].at].child = d /\ ~entry'[exec'[i].at].dead
    <3>1. CASE \E c \in Children : Read(sh, c, i) /\ entry'[exec'[i].at].child = c
      BY <2>2, <3>1 DEF Within, Read
    <3>2. CASE /\ exec[i].st # "none" /\ exec'[i].at = exec[i].at
               /\ entry'[exec[i].at].child = entry[exec[i].at].child
               /\ entry[exec[i].at].dead => entry'[exec[i].at].dead
      BY <2>2, <3>2 DEF Within
    <3> QED
      BY <2>2, <3>1, <3>2 DEF PoolMoves
  <2> QED
    BY <2>1, <2>2 DEF Within
<1>8. CancelFollows'
  <2> SUFFICES ASSUME NEW i \in Calls
               PROVE  /\ fate[i] \in {"idle", "open"} =>
                           \A d \in Children : \A k \in DOMAIN down'[d] : ~Cancels(d, k, i)'
                      /\ fate[i] = "cancelled" =>
                           /\ \A d \in Children : \A k \in DOMAIN down'[d] : Invokes(d, k, i)' =>
                                d \in ended \/ \E l \in DOMAIN down'[d] : l > k /\ Cancels(d, l, i)'
                           /\ \A d, e \in Children : \A k \in DOMAIN down'[d] :
                                Cancels(d, k, i)' /\ Within(e, i)' => e = d \/ e \in ended
    BY DEF CancelFollows
  <2>1. ASSUME fate[i] \in {"idle", "open"}, NEW d \in Children, NEW k \in DOMAIN down'[d]
        PROVE  ~Cancels(d, k, i)'
    BY <1>0, <1>2, <2>1 DEF CancelFollows
  <2>2. ASSUME fate[i] = "cancelled", NEW d \in Children, NEW k \in DOMAIN down'[d],
               Invokes(d, k, i)', d \notin ended
        PROVE  \E l \in DOMAIN down'[d] : l > k /\ Cancels(d, l, i)'
    <3>1. k \in Nat \ {0} /\ k + sh[d] \in DOMAIN down[d] /\ Invokes(d, k + sh[d], i)
      BY <1>2, <2>2
    <3>2. PICK l \in DOMAIN down[d] : l > k + sh[d] /\ Cancels(d, l, i)
      BY <1>0, <2>2, <3>1 DEF CancelFollows
    <3>3. l \in Nat /\ l # 1 /\ l - sh[d] > k
      BY <1>1, <1>4, <3>1, <3>2
    <3> QED
      BY <1>3, <3>2, <3>3
  <2>3. ASSUME fate[i] = "cancelled", NEW d \in Children, NEW e \in Children,
               NEW k \in DOMAIN down'[d], Cancels(d, k, i)', Within(e, i)'
        PROVE  e = d \/ e \in ended
    BY <1>0, <1>2, <1>7, <2>3 DEF CancelFollows
  <2> QED
    BY <2>1, <2>2, <2>3
<1>9. CancelComes'
  <2> SUFFICES ASSUME NEW i \in Calls, fate[i] = "cancelled", exec'[i].st = "running",
                      ~entry'[exec'[i].at].dead, entry'[exec'[i].at].child \notin ended
               PROVE  \E d \in Children : \E k \in DOMAIN down'[d] : Cancels(d, k, i)'
    BY DEF CancelComes
  <2>1. ASSUME NEW d \in Children, Read(sh, d, i), entry'[exec'[i].at].child = d
        PROVE  \E k \in DOMAIN down'[d] : Cancels(d, k, i)'
    <3>1. PICK l \in DOMAIN down[d] : l > 1 /\ Cancels(d, l, i)
      BY <1>0, <2>1 DEF Read, CancelFollows
    <3> QED
      BY <1>3, <1>4, <3>1
  <2>2. ASSUME exec[i].st = "running", exec'[i].at = exec[i].at,
               entry'[exec[i].at].child = entry[exec[i].at].child, ~entry[exec[i].at].dead
        PROVE  \E d \in Children : \E k \in DOMAIN down'[d] : Cancels(d, k, i)'
    <3>1. PICK d \in Children : \E l \in DOMAIN down[d] : Cancels(d, l, i)
      BY <1>0, <2>2 DEF CancelComes
    <3>2. PICK l \in DOMAIN down[d] : Cancels(d, l, i)
      BY <3>1
    <3>3. ~(sh[d] = 1 /\ l = 1)
      BY <3>2
    <3> QED
      BY <1>3, <3>2, <3>3
  <2> QED
    BY <2>1, <2>2 DEF PoolMoves
<1> QED
  BY <1>6, <1>8, <1>9

(* What a step of the broker or of a pool leaves to the supervisor.           *)
SupervisorStill == UNCHANGED <<startVars, callVars, childVars, policy, closers>>

LEMMA Aside ==
  ASSUME Shape, Budget, Born, Waiting, SupervisorStill
  PROVE  /\ UNCHANGED <<proc, child, ended, pending, waits, fate, planned, post, closers>>
         /\ Budget' /\ Waiting' /\ Steady /\ Surviving /\ Patient /\ CallShape'
         /\ troubles' \in 0 .. MaxTroubles => StartShape'
         /\ (\A d \in Children : ~Alive(d) => down'[d] = <<>>) => Born'
<1>1. UNCHANGED <<proc, child, ended, pending, waits, fate, planned, post, closers, startVars, policy>>
  BY DEF SupervisorStill, startVars, callVars, childVars
<1>2. Budget' /\ Waiting'
  BY <1>1 DEF startVars, Budget, Waiting, Dispatched
<1>3. Steady /\ Surviving /\ Patient
  BY <1>1 DEF Steady, Surviving, Patient, Dispatched, Alive
<1>4. CallShape'
  BY <1>1 DEF Shape, CallShape
<1>5. troubles' \in 0 .. MaxTroubles => StartShape'
  BY <1>1 DEF startVars, Shape, StartShape
<1>6. (\A d \in Children : ~Alive(d) => down'[d] = <<>>) => Born'
  BY <1>1 DEF Born, Alive
<1> QED
  BY <1>1, <1>2, <1>3, <1>4, <1>5, <1>6

(* No call is lost between a pipe, the pool and the answers.                  *)
LEMMA CallsKept ==
  ASSUME IInv, NEW sh \in [Children -> {0, 1}], Shifted(sh),
         UNCHANGED <<proc, child, pending, fate, closers>>,
         \A d \in Children, i \in Calls : Read(sh, d, i) => Carries(d, i)',
         \A e \in Entries : \A i \in entry[e].pending : ~entry[e].dead =>
           \/ entry'[e].child = entry[e].child /\ ~entry'[e].dead /\ i \in entry'[e].pending
           \/ \E f \in up'[entry[e].child] : f.op = "reply" /\ f.id = i,
         \A d \in Children : up[d] \subseteq up'[d]
  PROVE  NoCallLost'
<1>0. Shape /\ NoCallLost
  BY DEF IInv
<1>1. ASSUME NEW d \in Children, NEW i \in Calls, Carries(d, i) PROVE Carries(d, i)'
  <2>1. CASE \E k \in DOMAIN down[d] : Invokes(d, k, i)
    <3> PICK k \in DOMAIN down[d] : Invokes(d, k, i)
      BY <2>1
    <3>1. CASE sh[d] = 1 /\ k = 1
      BY <3>1 DEF Read
    <3>2. CASE ~(sh[d] = 1 /\ k = 1)
      <4>1. k - sh[d] \in DOMAIN down'[d] /\ down'[d][k - sh[d]] = down[d][k]
        BY <3>2 DEF Shifted
      <4> QED
        BY <4>1 DEF Carries, Invokes
    <3> QED
      BY <3>1, <3>2
  <2>2. CASE \E e \in Entries : entry[e].child = d /\ ~entry[e].dead /\ i \in entry[e].pending
    <3> PICK e \in Entries : entry[e].child = d /\ ~entry[e].dead /\ i \in entry[e].pending
      BY <2>2
    <3> QED
      BY DEF Carries
  <2>3. CASE \E f \in up[d] : f.op = "reply" /\ f.id = i
    BY <2>3 DEF Carries
  <2> QED
    BY <1>1, <2>1, <2>2, <2>3 DEF Carries, Invokes
<1>2. proc = 0 \/ proc \in Children
  BY <1>0 DEF Shape, StartShape
<1>3. \A i \in pending : i \in Calls
  BY <1>0 DEF Shape, CallShape
<1> QED
  BY <1>0, <1>1, <1>2, <1>3 DEF NoCallLost

(* Answers are added to what a child wrote.                                  *)
LEMMA Answering ==
  ASSUME Shape, NEW c \in Children, NEW ids \in SUBSET Calls, Answer(c, ids)
  PROVE  /\ up' \in [Children -> SUBSET Reply] /\ \A d \in Children : up[d] \subseteq up'[d]
         /\ \A i \in ids : \E f \in up'[c] : f.op = "reply" /\ f.id = i
<1>1. Failures(ids) \subseteq Reply
  BY DEF Failures, Reply
<1>2. up \in [Children -> SUBSET Reply] /\ up' = [up EXCEPT ![c] = @ \cup Failures(ids)]
  BY DEF Shape, PipeShape, Answer
<1>3. \A i \in ids : \E f \in Failures(ids) : f.op = "reply" /\ f.id = i
  <2> SUFFICES ASSUME NEW i \in ids PROVE \E f \in Failures(ids) : f.op = "reply" /\ f.id = i
    OBVIOUS
  <2>1. [op |-> "reply", id |-> i, ok |-> FALSE] \in Failures(ids)
    BY DEF Failures
  <2> QED
    BY <2>1
<1> QED
  BY <1>1, <1>2, <1>3

(* What a drop answers for are calls.                                       *)
LEMMA OrphansAreCalls ==
  ASSUME Shape, NEW es, es \subseteq Entries
  PROVE  Orphans(es) \in SUBSET Calls
  BY DEF Orphans, Shape, PoolShape, Entry

(* Entries are dropped, and their callers told; a call that was read meanwhile *)
(* is told too.                                                             *)
LEMMA DropKeeps ==
  ASSUME IInv, NEW c \in Children, NEW es, es \subseteq Entries,
         \A e \in es : entry[e].child = c, entry' = Dropped(es),
         NEW all \in SUBSET Calls, Orphans(es) \subseteq all, Answer(c, all),
         SupervisorStill, UNCHANGED <<runner, exec>>, troubles' \in 0 .. MaxTroubles,
         NEW sh \in [Children -> {0, 1}], Shifted(sh),
         down' \in [Children -> Seq(Frame)],
         \A d \in Children : ~Alive(d) => down'[d] = <<>>,
         \A d \in Children : sh[d] = 1 =>
           /\ d = c /\ down[c][1].op # "cancel"
           /\ down[c][1].op = "invoke" => down[c][1].id \in all
  PROVE  IInv'
<1>0. /\ Shape /\ Budget /\ Born /\ Waiting /\ Pool /\ Execs /\ Holds
      /\ OneEntry /\ IdleTimerFits
  BY DEF IInv
<1>1. /\ UNCHANGED <<proc, child, ended, pending, waits, fate, planned, post, closers>>
      /\ Budget' /\ Waiting' /\ Steady /\ Surviving /\ Patient /\ CallShape' /\ StartShape' /\ Born'
  BY <1>0, Aside
<1>2. /\ entry' \in [Entries -> Entry]
      /\ \A e \in Entries : /\ entry'[e].child = entry[e].child
                            /\ e \in es => entry'[e].dead /\ entry'[e].pending = {}
                            /\ e \notin es => entry'[e] = entry[e]
  BY <1>0, Dropping
<1>3. Pool' /\ Execs' /\ Holds' /\ OneEntry' /\ IdleTimerFits'
  <2>1. \A e \in Entries : Alive(entry[e].child) /\ entry[e].child # 0 => (Alive(entry[e].child))'
    BY <1>1, <1>2 DEF Alive
  <2> QED
    BY <1>0, <1>1, <2>1, PoolDropped
<1>4. /\ up' \in [Children -> SUBSET Reply] /\ \A d \in Children : up[d] \subseteq up'[d]
      /\ \A i \in all : \E f \in up'[c] : f.op = "reply" /\ f.id = i
      /\ \A e \in es : \A i \in entry[e].pending :
           \E f \in up'[entry[e].child] : f.op = "reply" /\ f.id = i
  <2>1. /\ up' \in [Children -> SUBSET Reply] /\ \A d \in Children : up[d] \subseteq up'[d]
        /\ \A i \in all : \E f \in up'[c] : f.op = "reply" /\ f.id = i
    BY <1>0, Answering
  <2>2. \A e \in es : \A i \in entry[e].pending : i \in all
    BY DEF Orphans
  <2> QED
    BY <2>1, <2>2
<1>5. PoolMoves(sh)
  <2>1. ASSUME NEW i \in Calls, exec[i].st # "none"
        PROVE  /\ entry'[exec[i].at].child = entry[exec[i].at].child
               /\ entry[exec[i].at].dead => entry'[exec[i].at].dead
    BY <1>0, <1>2, <2>1 DEF Execs
  <2>2. \A e \in Entries : entry'[e].pending \subseteq entry[e].pending
    BY <1>2
  <2> QED
    BY <2>1, <2>2 DEF PoolMoves
<1>6. \A d \in Children : \A i : sh[d] = 1 => ~Cancels(d, 1, i)
  BY DEF Cancels
<1>7. Frames' /\ CancelFollows' /\ CancelComes'
  BY <1>1, <1>5, <1>6, PipesRead
<1>8. NoCallLost'
  <2>1. ASSUME NEW e \in Entries, NEW i \in entry[e].pending, ~entry[e].dead
        PROVE  \/ entry'[e].child = entry[e].child /\ ~entry'[e].dead /\ i \in entry'[e].pending
               \/ \E f \in up'[entry[e].child] : f.op = "reply" /\ f.id = i
    BY <1>2, <1>4, <2>1
  <2>2. ASSUME NEW d \in Children, NEW i \in Calls, Read(sh, d, i) PROVE Carries(d, i)'
    <3>1. d = c /\ i \in all
      BY <2>2 DEF Read, Invokes
    <3> QED
      BY <1>4, <3>1 DEF Carries
  <2> QED
    BY <1>1, <1>4, <2>1, <2>2, CallsKept
<1>9. Shape'
  BY <1>0, <1>1, <1>2, <1>4 DEF Shape, PipeShape, PoolShape
<1> QED
  BY <1>1, <1>3, <1>7, <1>8, <1>9 DEF IInv

LEMMA ReapKeeps ==
  ASSUME IInv, NEW c \in Children, ReapEntries(c) PROVE IInv'
<1> DEFINE sh == [d \in Children |-> IF d = c THEN 1 ELSE 0]
           es == Live(c, Head(down[c]).session)
<1>1. Shape /\ Born
  BY DEF IInv
<1>2. /\ Takes(c, "reap") /\ Taken(c) /\ entry' = Dropped(es) /\ Answer(c, Orphans(es))
      /\ SupervisorStill /\ UNCHANGED <<runner, exec, troubles>>
  BY DEF ReapEntries, Drop, SupervisorStill
<1>3. /\ Head(down[c]).op = "reap" /\ down[c][1] = Head(down[c])
      /\ down' \in [Children -> Seq(Frame)]
      /\ \A d \in Children : ~Alive(d) => down'[d] = <<>>
      /\ sh \in [Children -> {0, 1}] /\ Shifted(sh)
  BY <1>1, <1>2, TakenFrom
<1>4. es \subseteq Entries /\ \A e \in es : entry[e].child = c
  BY DEF Live
<1>5. \A d \in Children : sh[d] = 1 => d = c /\ down[c][1].op \notin {"invoke", "cancel"}
  BY <1>3
<1>6. troubles' \in 0 .. MaxTroubles
  BY <1>1, <1>2 DEF Shape, StartShape
<1> HIDE DEF sh, es
<1>7. Orphans(es) \in SUBSET Calls
  BY <1>1, <1>4, OrphansAreCalls
<1> QED
  BY <1>2, <1>3, <1>4, <1>5, <1>6, <1>7, DropKeeps

LEMMA GoneKeeps ==
  ASSUME IInv, NEW e \in Entries, IdleTimer(e) \/ RunnerExit(e) PROVE IInv'
<1> DEFINE sh == [d \in Children |-> 0]
           c == entry[e].child
           es == {e}
<1>1. Shape /\ Born /\ Pool
  BY DEF IInv
<1>2. /\ entry' = Dropped(es) /\ Answer(c, Orphans(es))
      /\ SupervisorStill /\ UNCHANGED <<runner, exec, troubles, down>>
      /\ entry[e].armed \/ runner[e] = "gone"
  BY DEF IdleTimer, RunnerExit, Drop, SupervisorStill
<1>3. c \in Children
  BY <1>1, <1>2 DEF Pool, Shape, PoolShape, Entry
<1>4. sh \in [Children -> {0, 1}] /\ Shifted(sh) /\ \A d \in Children : sh[d] # 1
  BY <1>1, <1>2, NothingTaken
<1>5. /\ down' \in [Children -> Seq(Frame)] /\ troubles' \in 0 .. MaxTroubles
      /\ \A d \in Children : ~Alive(d) => down'[d] = <<>>
  BY <1>1, <1>2 DEF Shape, StartShape, PipeShape, Born
<1>6. es \subseteq Entries /\ \A d \in es : entry[d].child = c
  OBVIOUS
<1> HIDE DEF sh, es, c
<1>7. Orphans(es) \in SUBSET Calls
  BY <1>1, <1>6, OrphansAreCalls
<1> DEFINE all == Orphans(es)
<1>8. all \in SUBSET Calls /\ Orphans(es) \subseteq all /\ Answer(c, all)
  BY <1>2, <1>7
<1> HIDE DEF all
<1>9. \A d \in Children : sh[d] = 1 =>
        /\ d = c /\ down[c][1].op # "cancel"
        /\ down[c][1].op = "invoke" => down[c][1].id \in all
  BY <1>4
<1> QED
  BY <1>2, <1>3, <1>4, <1>5, <1>6, <1>8, <1>9, DropKeeps

LEMMA RouteCancelKeeps ==
  ASSUME IInv, NEW c \in Children, RouteCancel(c) PROVE IInv'
<1> DEFINE sh == [d \in Children |-> IF d = c THEN 1 ELSE 0]
           i == Head(down[c]).id
           e == exec[i].at
<1>0. /\ Shape /\ Budget /\ Born /\ Waiting /\ Pool /\ Execs /\ Holds
      /\ OneEntry /\ IdleTimerFits /\ CancelFollows
  BY DEF IInv
<1>1. /\ Takes(c, "cancel") /\ Taken(c)
      /\ exec' = IF /\ exec[i].st = "running" /\ runner[e] = "up"
                    /\ entry[e].child = c /\ ~entry[e].dead /\ i \in entry[e].pending
                 THEN [exec EXCEPT ![i].st = "aborted"] ELSE exec
      /\ SupervisorStill /\ UNCHANGED <<up, entry, runner, troubles>>
  BY DEF RouteCancel, SupervisorStill
<1>2. /\ Head(down[c]) \in Frame /\ Head(down[c]).op = "cancel" /\ down[c][1] = Head(down[c])
      /\ 1 \in DOMAIN down[c] /\ down' \in [Children -> Seq(Frame)]
      /\ \A d \in Children : ~Alive(d) => down'[d] = <<>>
      /\ sh \in [Children -> {0, 1}] /\ Shifted(sh)
  BY <1>0, <1>1, TakenFrom
<1>3. i \in Calls
  BY <1>2 DEF Frame
<1>4. \A d \in Children : sh[d] = 1 => d = c
  OBVIOUS
<1> HIDE DEF sh
<1>5. troubles' \in 0 .. MaxTroubles
  BY <1>0, <1>1 DEF Shape, StartShape
<1>6. /\ UNCHANGED <<proc, child, ended, pending, waits, fate, planned, post, closers>>
      /\ Budget' /\ Waiting' /\ Steady /\ Surviving /\ Patient /\ CallShape' /\ StartShape' /\ Born'
  BY <1>0, <1>1, <1>2, <1>5, Aside
<1>7. /\ exec' \in [Calls -> [at : Entries \cup {0}, st : Stages]]
      /\ \A j \in Calls : exec'[j].at = exec[j].at
      /\ \A j \in Calls : exec'[j].st = exec[j].st
                          \/ (exec[j].st = "running" /\ exec'[j].st = "aborted")
  BY <1>0, <1>1, <1>3 DEF Shape, PoolShape, Stages
<1>8. exec'[i].st = "running" =>
        ~(runner[e] = "up" /\ entry[e].child = c /\ ~entry[e].dead /\ i \in entry[e].pending)
  <2> HIDE DEF i, e
  <2> SUFFICES ASSUME runner[e] = "up", entry[e].child = c, ~entry[e].dead, i \in entry[e].pending
               PROVE  exec'[i].st # "running"
    OBVIOUS
  <2>1. CASE exec[i].st = "running"
    <3>1. exec' = [exec EXCEPT ![i].st = "aborted"]
      BY <1>1, <2>1
    <3> QED
      BY <1>0, <1>3, <3>1 DEF Shape, PoolShape
  <2>2. CASE exec[i].st # "running"
    BY <1>1, <2>2
  <2> QED
    BY <2>1, <2>2
<1> HIDE DEF i, e
<1>9. Shape'
  BY <1>0, <1>1, <1>2, <1>6, <1>7 DEF Shape, PipeShape, PoolShape
<1>10. Pool' /\ OneEntry' /\ IdleTimerFits'
  BY <1>0, <1>1, <1>6 DEF Pool, OneEntry, IdleTimerFits, Running, Alive
<1>11. \A j \in Calls : (exec'[j].st = "none" <=> exec[j].st = "none")
                        /\ (exec'[j].st = "lost" <=> exec[j].st = "lost")
                        /\ (exec'[j].st \in {"running", "aborted"} => exec[j].st \in {"running", "aborted"})
  BY <1>7
<1>12. Execs'
  BY <1>0, <1>1, <1>6, <1>7, <1>11 DEF Execs, Steady, Running
<1>13. Holds'
  <2> SUFFICES ASSUME NEW d \in Entries, NEW j \in entry[d].pending
               PROVE  (Dispatched(j))' /\ ((exec'[j].at = d /\ exec'[j].st # "none") \/ runner[d] = "gone")
    BY <1>1 DEF Holds
  <2>1. j \in Calls
    BY <1>0 DEF Shape, PoolShape, Entry
  <2> QED
    BY <1>0, <1>6, <1>7, <1>11, <2>1 DEF Holds, Steady
<1>14. PoolMoves(sh)
  BY <1>1, <1>7, <1>11 DEF PoolMoves
<1>15. ASSUME NEW d \in Children, NEW j \in Calls, sh[d] = 1, Cancels(d, 1, j),
              exec'[j].st = "running", fate[j] = "cancelled"
       PROVE  entry'[exec'[j].at].dead \/ entry'[exec'[j].at].child \in ended
  <2>1. d = c /\ j = i
    BY <1>2, <1>4, <1>15 DEF Cancels, i
  <2>2. exec[i].st = "running" /\ exec'[i].at = e
    BY <1>3, <1>7, <1>15, <2>1 DEF e
  <2>3. SUFFICES ASSUME ~entry[e].dead PROVE entry[e].child \in ended
    BY <1>1, <2>1, <2>2
  <2>4. /\ i \in entry[e].pending /\ runner[e] \in {"up", "draining"} /\ e \in Entries
        /\ entry[e].child # 0
    BY <1>0, <1>3, <2>2, <2>3 DEF Execs, Running, e
  <2>5. runner[e] = "up"
    BY <1>0, <2>3, <2>4 DEF Pool
  <2>6. entry[e].child # c
    BY <1>8, <1>15, <2>1, <2>3, <2>4, <2>5
  <2>7. entry[e].child \in Children /\ Within(entry[e].child, i)
    BY <1>0, <2>2, <2>3, <2>4 DEF Within, e, Shape, PoolShape, Entry
  <2> QED
    BY <1>0, <1>2, <1>3, <1>15, <2>1, <2>6, <2>7 DEF CancelFollows
<1>16. Frames' /\ CancelFollows' /\ CancelComes'
  BY <1>2, <1>6, <1>14, <1>15, PipesRead
<1>17. NoCallLost'
  <2>1. \A d \in Children, j \in Calls : ~Read(sh, d, j)
    BY <1>2, <1>4 DEF Read, Invokes
  <2>2. \A d \in Entries : \A j \in entry[d].pending : ~entry[d].dead =>
          entry'[d].child = entry[d].child /\ ~entry'[d].dead /\ j \in entry'[d].pending
    BY <1>1
  <2>3. \A d \in Children : up[d] \subseteq up'[d]
    BY <1>1
  <2> QED
    BY <1>2, <1>6, <2>1, <2>2, <2>3, CallsKept
<1> QED
  BY <1>6, <1>9, <1>10, <1>12, <1>13, <1>16, <1>17 DEF IInv

(* A call leaves its runner: answered, or written to a runner that is gone.    *)
LEMMA LeavingKeeps ==
  ASSUME IInv, NEW i \in Calls, NEW e, e = exec[i].at, exec[i].st # "none",
         exec' = [exec EXCEPT ![i] = Nowhere],
         SupervisorStill, UNCHANGED <<down, runner, troubles>>,
         up' \in [Children -> SUBSET Reply], \A d \in Children : up[d] \subseteq up'[d],
         entry' \in [Entries -> Entry], \A d \in Entries \ {e} : entry'[d] = entry[d],
         entry'[e].child = entry[e].child, entry'[e].session = entry[e].session,
         entry'[e].fence = entry[e].fence, entry'[e].dead = entry[e].dead,
         entry'[e].pending = entry[e].pending \ {i},
         entry[e].dead => entry'[e].armed = entry[e].armed,
         \/ runner[e] = "gone"
         \/ entry'[e] = entry[e]
         \/ entry'[e].armed = (entry'[e].pending = {}),
         i \in entry[e].pending => \E f \in up'[entry[e].child] : f.op = "reply" /\ f.id = i
  PROVE  IInv'
<1>0. /\ Shape /\ Budget /\ Born /\ Waiting /\ Pool /\ Execs /\ Holds
      /\ OneEntry /\ IdleTimerFits
  BY DEF IInv
<1>1. e \in Entries /\ entry[e].child # 0
  BY <1>0 DEF Execs
<1>2. troubles' \in 0 .. MaxTroubles /\ down' \in [Children -> Seq(Frame)]
      /\ \A d \in Children : ~Alive(d) => down'[d] = <<>>
  BY <1>0 DEF Shape, StartShape, PipeShape, Born
<1>3. /\ UNCHANGED <<proc, child, ended, pending, waits, fate, planned, post, closers>>
      /\ Budget' /\ Waiting' /\ Steady /\ Surviving /\ Patient /\ CallShape' /\ StartShape' /\ Born'
  BY <1>0, <1>2, Aside
<1>4. /\ exec' \in [Calls -> [at : Entries \cup {0}, st : Stages]]
      /\ exec'[i].st = "none" /\ \A j \in Calls \ {i} : exec'[j] = exec[j]
  BY <1>0 DEF Shape, PoolShape, Nowhere, Stages
<1>5. Shape'
  BY <1>0, <1>2, <1>3, <1>4 DEF Shape, PipeShape, PoolShape
<1>6. \A d \in Entries : /\ entry'[d].child = entry[d].child /\ entry'[d].session = entry[d].session
                         /\ entry'[d].fence = entry[d].fence /\ entry'[d].dead = entry[d].dead
                         /\ entry'[d].pending = entry[d].pending \/ (d = e /\ entry'[d].pending = entry[d].pending \ {i})
                         /\ entry'[d].pending \subseteq entry[d].pending
                         /\ entry[d].pending \subseteq entry'[d].pending \cup {i}
  BY <1>1
<1>7. Pool'
  <2> SUFFICES ASSUME NEW d \in Entries
               PROVE  /\ entry'[d].child = 0 <=> runner[d] = "none"
                      /\ entry'[d].child = 0 \/ entry'[d].dead => entry'[d].pending = {} /\ ~entry'[d].armed
                      /\ entry'[d].child # 0 /\ ~entry'[d].dead => Alive(entry[d].child)
                      /\ runner[d] = "draining" => entry'[d].dead
    BY <1>3, <1>6 DEF Pool, Alive
  <2>1. entry'[d].child = 0 \/ entry'[d].dead => ~entry'[d].armed
    BY <1>0, <1>1, <1>6 DEF Pool
  <2> QED
    BY <1>0, <1>6, <2>1 DEF Pool
<1>8. Execs'
  <2> SUFFICES ASSUME NEW j \in Calls \ {i}, exec[j].st # "none"
               PROVE  /\ exec[j].at \in Entries /\ entry'[exec[j].at].child # 0 /\ (Dispatched(j))'
                      /\ entry'[exec[j].at].fence = planned'[j]
                      /\ entry'[exec[j].at].session = SessionOf[j]
                      /\ ~entry'[exec[j].at].dead => j \in entry'[exec[j].at].pending
                      /\ exec[j].st \in {"running", "aborted"} => Running(exec[j].at)
                      /\ exec[j].st = "lost" => runner[exec[j].at] = "gone"
    BY <1>4 DEF Execs, Running
  <2> QED
    BY <1>0, <1>3, <1>6 DEF Execs, Steady
<1>9. Holds'
  <2> SUFFICES ASSUME NEW d \in Entries, NEW j \in entry'[d].pending
               PROVE  (Dispatched(j))' /\ ((exec'[j].at = d /\ exec'[j].st # "none") \/ runner[d] = "gone")
    BY DEF Holds
  <2>1. j \in entry[d].pending /\ j \in Calls
    BY <1>0, <1>6 DEF Shape, PoolShape, Entry
  <2>2. j = i => d # e
    OBVIOUS
  <2> QED
    BY <1>0, <1>3, <1>4, <2>1, <2>2 DEF Holds, Steady
<1>10. OneEntry'
  BY <1>0, <1>6 DEF OneEntry
<1>11. IdleTimerFits'
  <2> SUFFICES ASSUME NEW d \in Entries, entry'[d].child # 0, ~entry'[d].dead, Running(d)
               PROVE  entry'[d].armed <=> entry'[d].pending = {}
    BY DEF IdleTimerFits, Running
  <2>1. CASE d # e
    BY <1>0, <2>1 DEF IdleTimerFits
  <2>2. CASE d = e
    <3>1. runner[e] # "gone" /\ (entry[e].armed <=> entry[e].pending = {})
      BY <1>0, <1>1, <2>2 DEF IdleTimerFits, Running
    <3> QED
      BY <2>2, <3>1
  <2> QED
    BY <2>1, <2>2
<1> DEFINE sh == [d \in Children |-> 0]
<1>12. sh \in [Children -> {0, 1}] /\ Shifted(sh) /\ \A d \in Children : sh[d] # 1
  BY <1>0, NothingTaken
<1> HIDE DEF sh
<1>13. PoolMoves(sh)
  <2>1. ASSUME NEW j \in Calls, exec'[j].st # "none"
        PROVE  /\ exec[j].st # "none" /\ exec'[j] = exec[j] /\ exec[j].at \in Entries
    BY <1>0, <1>4, <2>1 DEF Execs
  <2> QED
    BY <1>6, <2>1 DEF PoolMoves
<1>14. Frames' /\ CancelFollows' /\ CancelComes'
  BY <1>3, <1>12, <1>13, PipesRead
<1>15. NoCallLost'
  <2>1. \A d \in Children, j \in Calls : ~Read(sh, d, j)
    BY <1>12 DEF Read
  <2>2. ASSUME NEW d \in Entries, NEW j \in entry[d].pending, ~entry[d].dead
        PROVE  \/ entry'[d].child = entry[d].child /\ ~entry'[d].dead /\ j \in entry'[d].pending
               \/ \E f \in up'[entry[d].child] : f.op = "reply" /\ f.id = j
    BY <1>6, <2>2
  <2> QED
    BY <1>3, <1>12, <2>1, <2>2, CallsKept
<1> QED
  BY <1>3, <1>5, <1>7, <1>8, <1>9, <1>10, <1>11, <1>14, <1>15 DEF IInv

LEMMA RelayKeeps ==
  ASSUME IInv, NEW i \in Calls, NEW ok \in BOOLEAN, Relay(i, ok) PROVE IInv'
<1> DEFINE e == exec[i].at
           r == [op |-> "reply", id |-> i, ok |-> ok]
<1>0. Shape /\ Pool /\ Execs
  BY DEF IInv
<1>1. /\ exec[i].st = "replied" /\ exec' = [exec EXCEPT ![i] = Nowhere]
      /\ SupervisorStill /\ UNCHANGED <<down, runner, troubles>>
      /\ i \in entry[e].pending =>
           /\ entry' = [entry EXCEPT ![e].pending = HeldWithout(e, i), ![e].armed = Arms(HeldWithout(e, i))]
           /\ up' = [up EXCEPT ![entry[e].child] = @ \cup {r}]
      /\ i \notin entry[e].pending => UNCHANGED <<entry, up>>
  BY DEF Relay, SupervisorStill
<1>2. e \in Entries /\ entry[e].child # 0
  BY <1>0, <1>1 DEF Execs
<1>3. r \in Reply /\ r.op = "reply" /\ r.id = i
  BY DEF Reply
<1> HIDE DEF e, r
<1>4. entry \in [Entries -> Entry] /\ up \in [Children -> SUBSET Reply]
      /\ entry[e].child \in Children /\ entry[e].pending \in SUBSET Calls
  BY <1>0, <1>2 DEF Shape, PoolShape, PipeShape, Entry
<1>5. CASE i \notin entry[e].pending
  <2>1. entry' = entry /\ up' = up /\ entry[e].pending \ {i} = entry[e].pending
    BY <1>1, <1>5
  <2> QED
    BY <1>1, <1>2, <1>4, <1>5, <2>1, LeavingKeeps DEF e
<1>6. CASE i \in entry[e].pending
  <2> DEFINE held == entry[e].pending \ {i}
             idle == held = {}
  <2>1. entry' = [entry EXCEPT ![e].pending = held, ![e].armed = idle]
    BY <1>1, <1>6 DEF HeldWithout, Arms
  <2>2. /\ entry' \in [Entries -> Entry] /\ \A d \in Entries \ {e} : entry'[d] = entry[d]
        /\ entry'[e].child = entry[e].child /\ entry'[e].session = entry[e].session
        /\ entry'[e].fence = entry[e].fence /\ entry'[e].dead = entry[e].dead
        /\ entry'[e].pending = entry[e].pending \ {i}
        /\ entry'[e].armed = (entry'[e].pending = {})
    <3>1. held \in SUBSET Calls /\ idle \in BOOLEAN
      BY <1>4
    <3>2. entry' \in [Entries -> Entry]
      <4> HIDE DEF held, idle
      <4> HIDE PlaneAssumption, SentinelAssumption
      <4>1. [entry EXCEPT ![e].pending = held, ![e].armed = idle] \in [Entries -> Entry]
        BY <1>2, <1>4, <3>1 DEF Entry
      <4> QED
        BY <2>1, <4>1
    <3>3. /\ \A d \in Entries \ {e} : entry'[d] = entry[d]
          /\ entry'[e].child = entry[e].child /\ entry'[e].session = entry[e].session
          /\ entry'[e].fence = entry[e].fence /\ entry'[e].dead = entry[e].dead
          /\ entry'[e].pending = held
      BY <1>2, <1>4, <2>1 DEF Entry
    <3>4. entry'[e].armed = idle
      BY <1>2, <1>4, <2>1 DEF Entry
    <3> QED
      BY <3>2, <3>3, <3>4
  <2>3. ~entry[e].dead
    BY <1>0, <1>2, <1>6 DEF Pool
  <2>4. /\ up' \in [Children -> SUBSET Reply] /\ \A d \in Children : up[d] \subseteq up'[d]
        /\ r \in up'[entry[e].child]
    BY <1>1, <1>3, <1>4, <1>6
  <2>5. \E f \in up'[entry[e].child] : f.op = "reply" /\ f.id = i
    BY <1>3, <2>4
  <2>6. e = exec[i].at /\ exec[i].st # "none"
    BY <1>1 DEF e
  <2> QED
    BY <1>1, <2>2, <2>3, <2>4, <2>5, <2>6, LeavingKeeps
<1> QED
  BY <1>5, <1>6

LEMMA RunnerWriteErrorKeeps ==
  ASSUME IInv, NEW i \in Calls, RunnerWriteError(i) PROVE IInv'
<1> DEFINE e == exec[i].at
           c == entry[e].child
           ids == {i}
<1>0. Shape /\ Pool /\ Execs
  BY DEF IInv
<1>1. /\ exec[i].st = "lost" /\ exec' = [exec EXCEPT ![i] = Nowhere]
      /\ entry' = [entry EXCEPT ![e].pending = @ \ {i}] /\ Answer(c, ids)
      /\ SupervisorStill /\ UNCHANGED <<down, runner, troubles>>
  BY DEF RunnerWriteError, SupervisorStill
<1>2. e \in Entries /\ entry[e].child # 0 /\ runner[e] = "gone"
  BY <1>0, <1>1 DEF Execs
<1>3. c \in Children /\ ids \in SUBSET Calls /\ i \in ids
  BY <1>0, <1>2 DEF Shape, PoolShape, Entry
<1>4. /\ entry' \in [Entries -> Entry] /\ \A d \in Entries \ {e} : entry'[d] = entry[d]
      /\ entry'[e].child = entry[e].child /\ entry'[e].session = entry[e].session
      /\ entry'[e].fence = entry[e].fence /\ entry'[e].dead = entry[e].dead
      /\ entry'[e].pending = entry[e].pending \ {i} /\ entry'[e].armed = entry[e].armed
  <2> DEFINE rest == entry[e].pending \ {i}
             x == [entry[e] EXCEPT !.pending = rest]
  <2>1. entry \in [Entries -> Entry] /\ rest \in SUBSET Calls
    BY <1>0, <1>2 DEF Shape, PoolShape, Entry
  <2>2. entry' = [entry EXCEPT ![e] = x]
    BY <1>1
  <2>3. /\ x \in Entry /\ x.child = entry[e].child /\ x.session = entry[e].session
        /\ x.fence = entry[e].fence /\ x.dead = entry[e].dead
        /\ x.pending = rest /\ x.armed = entry[e].armed
    <3> HIDE DEF e, rest
    <3> QED
      BY <1>2, <2>1 DEF Entry
  <2> HIDE DEF x, e
  <2> QED
    BY <1>2, <2>1, <2>2, <2>3
<1> HIDE DEF ids
<1>5. /\ up' \in [Children -> SUBSET Reply] /\ \A d \in Children : up[d] \subseteq up'[d]
      /\ \E f \in up'[c] : f.op = "reply" /\ f.id = i
  BY <1>0, <1>1, <1>3, Answering
<1> QED
  BY <1>1, <1>2, <1>4, <1>5, LeavingKeeps

-----------------------------------------------------------------------------
(* The broker finds a runner for a frame                                   *)

LEMMA SpawnFailsKeeps ==
  ASSUME IInv, NEW c \in Children, RunnerSpawnFails(c) PROVE IInv'
<1> DEFINE sh == [d \in Children |-> IF d = c THEN 1 ELSE 0]
           f == Head(down[c])
           es == Replaced(c, f)
           all == Orphans(es) \cup (IF f.op = "invoke" THEN {f.id} ELSE {})
<1>1. Shape /\ Born
  BY DEF IInv
<1>2. PICK op \in {"invoke", "warm"} : Takes(c, op)
  BY DEF RunnerSpawnFails
<1>3. /\ Taken(c) /\ entry' = Dropped(es) /\ Answer(c, all)
      /\ SupervisorStill /\ UNCHANGED <<runner, exec>>
  BY DEF RunnerSpawnFails, SupervisorStill
<1>4. /\ f \in Frame /\ f.op = op /\ down[c][1] = f
      /\ down' \in [Children -> Seq(Frame)]
      /\ \A d \in Children : ~Alive(d) => down'[d] = <<>>
      /\ sh \in [Children -> {0, 1}] /\ Shifted(sh)
  BY <1>1, <1>2, <1>3, TakenFrom
<1>5. es \subseteq Entries /\ \A e \in es : entry[e].child = c
  BY DEF Replaced, Live
<1>6. \A d \in Children : sh[d] = 1 => d = c
  OBVIOUS
<1>7. troubles' \in 0 .. MaxTroubles
  BY <1>1, SpentIsNat DEF RunnerSpawnFails, Shape, StartShape
<1> HIDE DEF sh, es
<1>8. /\ all \in SUBSET Calls /\ Orphans(es) \subseteq all
      /\ f.op = "invoke" => f.id \in all
  <2>1. Orphans(es) \in SUBSET Calls
    BY <1>1, <1>5, OrphansAreCalls
  <2>2. f.op = "invoke" => f.id \in Calls
    BY <1>4 DEF Frame
  <2> QED
    BY <2>1, <2>2
<1> HIDE DEF all, f
<1> QED
  BY <1>3, <1>4, <1>5, <1>6, <1>7, <1>8, DropKeeps

(* The entry that ensureEntry returns for a frame f: of this child, this       *)
(* session and this fence, the only live one of its key.                    *)
LEMMA Placing ==
  ASSUME IInv, NEW c \in Children, child[c] = "up", NEW f, f.session \in Sessions, f.fence \in Fences,
         NEW e \in Entries, HostOf(c, f, e), HostRunner(e)
  PROVE  LET P == Placed(c, f, e) IN
         /\ P \in [Entries -> Entry]
         /\ P[e].child = c /\ P[e].session = f.session /\ P[e].fence = f.fence /\ ~P[e].dead
         /\ P[e].pending = entry[e].pending
         /\ entry[e].child # 0 => P[e] = entry[e]
         /\ \A d \in Entries \ {e} :
              /\ P[d].child = entry[d].child /\ P[d].session = entry[d].session
              /\ P[d].fence = entry[d].fence
              /\ d \in Replaced(c, f) => P[d].dead /\ ~P[d].armed /\ P[d].pending = {}
              /\ d \notin Replaced(c, f) => P[d] = entry[d]
              /\ P[d].child = c /\ P[d].session = f.session => P[d].dead
         /\ e \notin Replaced(c, f)
         /\ runner' \in [Entries -> {"none", "up", "draining", "gone"}]
         /\ runner'[e] \in {"up", "gone"} /\ (runner[e] # "none" => runner'[e] = runner[e])
         /\ \A d \in Entries \ {e} : runner'[d] = runner[d]
<1> DEFINE es == Replaced(c, f)
           D == Dropped(es)
           new == [child |-> c, session |-> f.session, fence |-> f.fence, pending |-> {},
                   armed |-> TRUE, dead |-> FALSE]
           P == Placed(c, f, e)
<1>0. Shape /\ Pool /\ OneEntry
  BY DEF IInv
<1>1. /\ D \in [Entries -> Entry]
      /\ \A d \in Entries : /\ D[d].child = entry[d].child
                            /\ D[d].session = entry[d].session
                            /\ D[d].fence = entry[d].fence
      /\ \A d \in Entries : d \in es => D[d].dead /\ ~D[d].armed /\ D[d].pending = {}
      /\ \A d \in Entries : d \notin es => D[d] = entry[d]
  BY <1>0, Dropping
<1>2. \A d \in Entries :
        /\ d \in es => entry[d].child = c /\ entry[d].session = f.session /\ ~entry[d].dead
        /\ d \in Reused(c, f) <=> /\ entry[d].child = c /\ entry[d].session = f.session
                                  /\ ~entry[d].dead /\ entry[d].fence = f.fence
        /\ (entry[d].child = c /\ entry[d].session = f.session /\ ~entry[d].dead)
             => d \in es \/ d \in Reused(c, f)
        /\ ~(d \in es /\ d \in Reused(c, f))
  BY DEF Replaced, Reused, Live
<1>3. c # 0
  BY DEF Children
<1>4. new \in Entry
  <2> HIDE PlaneAssumption, SentinelAssumption
  <2>1. c \in Children \cup {0} /\ f.session \in Sessions \cup {None}
    OBVIOUS
  <2> QED
    BY <2>1 DEF Entry
<1>5. /\ new.child = c /\ new.session = f.session /\ new.fence = f.fence
      /\ ~new.dead /\ new.pending = {}
  OBVIOUS
<1>6. P = [D EXCEPT ![e] = IF e \in Reused(c, f) THEN @ ELSE new]
  BY DEF Placed
<1> HIDE DEF D, new, P, es
(* Either the entry is there and is used again, or a fresh one comes in.      *)
<1>7. CASE e \in Reused(c, f)
  <2>1. entry[e].child = c /\ entry[e].session = f.session /\ ~entry[e].dead
        /\ entry[e].fence = f.fence /\ e \notin es
    BY <1>2, <1>7
  <2>2. P = D
    BY <1>1, <1>6, <1>7
  <2>3. runner[e] \in {"up", "gone"}
    BY <1>0, <1>3, <2>1 DEF Pool, Shape, PoolShape
  <2>4. runner' = runner
    BY <2>3 DEF HostRunner
  <2>5. \A d \in Entries \ {e} : P[d].child = c /\ P[d].session = f.session => P[d].dead
    BY <1>0, <1>1, <1>3, <2>1, <2>2 DEF OneEntry
  <2> QED
    BY <1>0, <1>1, <2>1, <2>2, <2>3, <2>4, <2>5 DEF es, P, Shape, PoolShape
<1>8. CASE Reused(c, f) = {} /\ FreshEntry(e)
  <2>1. runner[e] = "none" /\ entry[e].child = 0 /\ entry[e].pending = {} /\ e \notin es
    BY <1>0, <1>2, <1>3, <1>8 DEF FreshEntry, Pool
  <2>2. P = [D EXCEPT ![e] = new]
    BY <1>6, <1>8
  <2>3. P \in [Entries -> Entry] /\ P[e] = new /\ \A d \in Entries \ {e} : P[d] = D[d]
    BY <1>1, <1>4, <2>2
  <2>4. runner' = [runner EXCEPT ![e] = "up"]
    BY <2>1 DEF HostRunner
  <2>5. /\ runner' \in [Entries -> {"none", "up", "draining", "gone"}] /\ runner'[e] = "up"
        /\ \A d \in Entries \ {e} : runner'[d] = runner[d]
    BY <1>0, <2>4 DEF Shape, PoolShape
  <2>6. \A d \in Entries \ {e} : P[d].child = c /\ P[d].session = f.session => P[d].dead
    BY <1>1, <1>2, <1>8, <2>3
  <2> QED
    BY <1>1, <1>5, <2>1, <2>3, <2>5, <2>6 DEF es, P
<1> QED
  BY <1>7, <1>8 DEF HostOf

(* Entry e took the frame f that child c read, and the calls ids that came with *)
(* it; those that e replaced are dropped and their callers told.             *)
Hosting(c, f, e, sh, ids) ==
  /\ child[c] = "up" /\ f.session \in Sessions /\ f.fence \in Fences
  /\ HostOf(c, f, e) /\ HostRunner(e) /\ SupervisorStill /\ UNCHANGED troubles
  /\ Shifted(sh) /\ down' \in [Children -> Seq(Frame)]
  /\ \A d \in Children : ~Alive(d) => down'[d] = <<>>
  /\ \A d \in Children : sh[d] = 1 => d = c /\ down[c][1].op # "cancel"
  /\ \A i \in ids : Read(sh, c, i) /\ f.session = SessionOf[i] /\ f.fence = planned[i]
  /\ \A i \in Calls : Read(sh, c, i) => i \in ids
  /\ entry' \in [Entries -> Entry] /\ \A d \in Entries \ {e} : entry'[d] = Placed(c, f, e)[d]
  /\ entry'[e].child = c /\ entry'[e].session = f.session /\ entry'[e].fence = f.fence
  /\ ~entry'[e].dead /\ entry'[e].pending = entry[e].pending \cup ids
  /\ entry'[e].armed = (entry'[e].pending = {})
  /\ exec' \in [Calls -> [at : Entries \cup {0}, st : Stages]]
  /\ \A i \in Calls \ ids : exec'[i] = exec[i]
  /\ \A i \in ids : /\ exec'[i].at = e
                     /\ exec'[i].st = IF runner'[e] = "up" THEN "running" ELSE "lost"
  /\ Answer(c, Orphans(Replaced(c, f)))

LEMMA HostKeeps ==
  ASSUME IInv, NEW c \in Children, NEW f, NEW e \in Entries,
         NEW sh \in [Children -> {0, 1}], NEW ids \in SUBSET Calls, Hosting(c, f, e, sh, ids)
  PROVE  IInv'
<1> USE DEF Hosting
<1> DEFINE R == Replaced(c, f)
<1>0. /\ Shape /\ Budget /\ Born /\ Waiting /\ Pool /\ Execs /\ Holds
      /\ OneEntry /\ IdleTimerFits /\ Frames
  BY DEF IInv
<1>1. /\ UNCHANGED <<proc, child, ended, pending, waits, fate, planned, post, closers>>
      /\ Budget' /\ Waiting' /\ Steady /\ Surviving /\ Patient /\ CallShape' /\ StartShape' /\ Born'
  <2>1. troubles' \in 0 .. MaxTroubles
    BY <1>0 DEF Shape, StartShape
  <2> QED
    BY <1>0, <2>1, Aside
<1>2. /\ \A d \in Entries \ {e} :
           /\ entry'[d].child = entry[d].child /\ entry'[d].session = entry[d].session
           /\ entry'[d].fence = entry[d].fence
           /\ d \in R => entry'[d].dead /\ ~entry'[d].armed /\ entry'[d].pending = {}
           /\ d \notin R => entry'[d] = entry[d]
           /\ entry'[d].child = c /\ entry'[d].session = f.session => entry'[d].dead
      /\ entry[e].child # 0 => /\ entry[e].child = c /\ entry[e].session = f.session
                               /\ entry[e].fence = f.fence /\ ~entry[e].dead
      /\ e \notin R
      /\ runner' \in [Entries -> {"none", "up", "draining", "gone"}]
      /\ runner'[e] \in {"up", "gone"} /\ (runner[e] # "none" => runner'[e] = runner[e])
      /\ \A d \in Entries \ {e} : runner'[d] = runner[d]
  BY Placing
<1>3. R \subseteq Entries /\ \A d \in R : entry[d].child = c
  BY DEF Replaced, Live
<1> HIDE DEF R
<1>4. \A i \in ids : exec[i].st = "none" /\ Dispatched(i) /\ \A d \in Entries : i \notin entry[d].pending
  BY <1>0 DEF Frames, Read
<1>5. c # 0 /\ Alive(c)' /\ c \in Children
  BY <1>1 DEF Children, Alive
<1>6. Pool'
  <2> SUFFICES ASSUME NEW d \in Entries
               PROVE  /\ entry'[d].child = 0 <=> runner'[d] = "none"
                      /\ entry'[d].child = 0 \/ entry'[d].dead => entry'[d].pending = {} /\ ~entry'[d].armed
                      /\ entry'[d].child # 0 /\ ~entry'[d].dead => (Alive(entry[d].child))' \/ d = e
                      /\ runner'[d] = "draining" => entry'[d].dead
    BY <1>2, <1>5 DEF Pool, Alive
  <2>1. CASE d = e
    BY <1>2, <1>5, <2>1
  <2>2. CASE d # e
    <3>1. CASE d \in R
      BY <1>0, <1>2, <2>2, <3>1 DEF Pool
    <3>2. CASE d \notin R
      <4>1. entry'[d] = entry[d] /\ runner'[d] = runner[d]
        BY <1>2, <2>2, <3>2
      <4>2. entry[d].child # 0 /\ ~entry[d].dead => Alive(entry[d].child)
        BY <1>0 DEF Pool
      <4>3. Alive(entry[d].child) => entry'[d].child = entry[d].child /\ (Alive(entry[d].child))'
        BY <1>1, <4>1 DEF Alive
      <4> QED
        BY <1>0, <4>1, <4>2, <4>3 DEF Pool
    <3> QED
      BY <3>1, <3>2
  <2> QED
    BY <2>1, <2>2
<1>7. Execs'
  <2> SUFFICES ASSUME NEW i \in Calls, exec'[i].st # "none"
               PROVE  LET a == exec'[i].at IN
                      /\ a \in Entries /\ entry'[a].child # 0 /\ (Dispatched(i))'
                      /\ entry'[a].fence = planned'[i] /\ entry'[a].session = SessionOf[i]
                      /\ ~entry'[a].dead => i \in entry'[a].pending
                      /\ exec'[i].st \in {"running", "aborted"} => runner'[a] \in {"up", "draining"}
                      /\ exec'[i].st = "lost" => runner'[a] = "gone"
    BY DEF Execs, Running
  <2>1. CASE i \in ids
    BY <1>1, <1>2, <1>4, <1>5, <2>1 DEF Steady
  <2>2. CASE i \notin ids
    <3> DEFINE a == exec[i].at
    <3>1. exec'[i] = exec[i]
      BY <2>2
    <3>2. /\ a \in Entries /\ entry[a].child # 0 /\ Dispatched(i)' /\ planned'[i] = planned[i]
          /\ entry[a].fence = planned[i] /\ entry[a].session = SessionOf[i]
          /\ ~entry[a].dead => i \in entry[a].pending
          /\ exec[i].st \in {"running", "aborted"} => runner[a] \in {"up", "draining"}
          /\ exec[i].st = "lost" => runner[a] = "gone"
      BY <1>0, <1>1, <3>1 DEF Execs, Running, Steady
    <3>3. runner[a] # "none"
      BY <1>0, <3>2 DEF Pool
    <3> HIDE DEF a
    <3>4. CASE a = e
      BY <1>2, <1>5, <3>2, <3>3, <3>4, <3>1 DEF a
    <3>5. CASE a # e
      BY <1>2, <3>1, <3>2, <3>5 DEF a
    <3> QED
      BY <3>4, <3>5
  <2> QED
    BY <2>1, <2>2
<1>8. Holds'
  <2> SUFFICES ASSUME NEW d \in Entries, NEW j \in entry'[d].pending
               PROVE  (Dispatched(j))' /\ ((exec'[j].at = d /\ exec'[j].st # "none") \/ runner'[d] = "gone")
    BY DEF Holds
  <2>1. CASE j \in ids
    <3>1. d = e
      BY <1>2, <1>4, <2>1
    <3> QED
      BY <1>1, <1>4, <2>1, <3>1 DEF Steady
  <2>2. CASE j \notin ids
    <3>1. j \in entry[d].pending
      BY <1>2, <2>2
    <3>2. j \in Calls /\ exec'[j] = exec[j]
      BY <1>0, <2>2, <3>1 DEF Shape, PoolShape, Entry
    <3>3. Dispatched(j) /\ ((exec[j].at = d /\ exec[j].st # "none") \/ runner[d] = "gone")
      BY <1>0, <3>1 DEF Holds
    <3>4. runner[d] = "gone" => runner'[d] = "gone"
      BY <1>2
    <3> QED
      BY <1>1, <3>2, <3>3, <3>4 DEF Steady
  <2> QED
    BY <2>1, <2>2
<1>9. OneEntry'
  <2> SUFFICES ASSUME NEW d \in Entries, NEW g \in Entries, d # g, entry'[d].child # 0,
                      entry'[d].child = entry'[g].child, entry'[d].session = entry'[g].session,
                      ~entry'[d].dead, ~entry'[g].dead
               PROVE  FALSE
    BY DEF OneEntry
  <2>1. d # e /\ g # e
    BY <1>2
  <2>2. entry'[d] = entry[d] /\ entry'[g] = entry[g]
    BY <1>2, <2>1
  <2> QED
    BY <1>0, <2>2 DEF OneEntry
<1>10. IdleTimerFits'
  <2> SUFFICES ASSUME NEW d \in Entries, entry'[d].child # 0, ~entry'[d].dead,
                      runner'[d] \in {"up", "draining"}
               PROVE  entry'[d].armed <=> entry'[d].pending = {}
    BY DEF IdleTimerFits, Running
  <2>1. CASE d # e
    BY <1>0, <1>2, <2>1 DEF IdleTimerFits, Running
  <2> QED
    BY <2>1
<1>11. /\ up' \in [Children -> SUBSET Reply] /\ \A d \in Children : up[d] \subseteq up'[d]
       /\ \A d \in R : \A i \in entry[d].pending : \E g \in up'[c] : g.op = "reply" /\ g.id = i
  <2> DEFINE all == Orphans(R)
  <2>1. all \in SUBSET Calls /\ Answer(c, all)
    BY <1>0, <1>3, OrphansAreCalls DEF R
  <2>2. \A d \in R : \A i \in entry[d].pending : i \in all
    BY DEF Orphans
  <2> HIDE DEF all
  <2> QED
    BY <1>0, <2>1, <2>2, Answering
<1>12. PoolMoves(sh)
  <2>1. ASSUME NEW i \in Calls, exec'[i].st # "none"
        PROVE  \/ /\ exec[i].st # "none" /\ exec'[i].at = exec[i].at
                  /\ entry'[exec[i].at].child = entry[exec[i].at].child
                  /\ entry[exec[i].at].dead => entry'[exec[i].at].dead
                  /\ exec'[i].st = "running" => exec[i].st = "running"
               \/ \E d \in Children : Read(sh, d, i) /\ entry'[exec'[i].at].child = d
    <3>1. CASE i \in ids
      BY <3>1
    <3>2. CASE i \notin ids
      <4>1. exec'[i] = exec[i] /\ exec[i].at \in Entries /\ entry[exec[i].at].child # 0
        BY <1>0, <2>1, <3>2 DEF Execs
      <4> QED
        BY <1>2, <2>1, <4>1
    <3> QED
      BY <3>1, <3>2
  <2>2. \A d \in Entries : \A i \in entry'[d].pending : i \in entry[d].pending \/ i \in ids
    BY <1>2
  <2> QED
    BY <2>1, <2>2 DEF PoolMoves
<1>13. \A d \in Children, i \in Calls : sh[d] = 1 => ~Cancels(d, 1, i)
  BY DEF Cancels
<1>14. Frames' /\ CancelFollows' /\ CancelComes'
  BY <1>1, <1>12, <1>13, PipesRead
<1>15. NoCallLost'
  <2>1. ASSUME NEW d \in Children, NEW i \in Calls, Read(sh, d, i) PROVE Carries(d, i)'
    <3>1. d = c /\ i \in ids
      BY <2>1 DEF Read
    <3> QED
      BY <3>1 DEF Carries
  <2>2. ASSUME NEW d \in Entries, NEW i \in entry[d].pending, ~entry[d].dead
        PROVE  \/ entry'[d].child = entry[d].child /\ ~entry'[d].dead /\ i \in entry'[d].pending
               \/ \E g \in up'[entry[d].child] : g.op = "reply" /\ g.id = i
    <3>1. CASE d = e
      <4>1. entry[e].child # 0
        BY <1>0, <2>2, <3>1 DEF Pool
      <4> QED
        BY <1>2, <2>2, <3>1, <4>1
    <3>2. CASE d \in R
      BY <1>3, <1>11, <2>2, <3>2
    <3>3. CASE d # e /\ d \notin R
      BY <1>2, <2>2, <3>3
    <3> QED
      BY <3>1, <3>2, <3>3
  <2> QED
    BY <1>1, <1>11, <2>1, <2>2, CallsKept
<1>16. Shape'
  BY <1>0, <1>1, <1>2, <1>11 DEF Shape, PipeShape, PoolShape
<1> QED
  BY <1>1, <1>6, <1>7, <1>8, <1>9, <1>10, <1>14, <1>15, <1>16 DEF IInv

LEMMA RouteInvokeKeeps ==
  ASSUME IInv, NEW c \in Children, RouteInvoke(c) PROVE IInv'
<1> DEFINE sh == [d \in Children |-> IF d = c THEN 1 ELSE 0]
           f == Head(down[c])
           x == f.id
           ids == {x}
<1>1. Shape /\ Born /\ Frames
  BY DEF IInv
<1>2. Takes(c, "invoke") /\ Taken(c) /\ SupervisorStill /\ UNCHANGED troubles
  BY DEF RouteInvoke, SupervisorStill
<1>3. PICK e \in Entries :
        /\ HostOf(c, f, e) /\ HostRunner(e)
        /\ entry' = [Placed(c, f, e) EXCEPT ![e].pending = @ \cup ids, ![e].armed = FALSE]
        /\ exec' = [exec EXCEPT ![x] =
                     [at |-> e, st |-> IF runner'[e] = "up" THEN "running" ELSE "lost"]]
        /\ Answer(c, Orphans(Replaced(c, f)))
  BY DEF RouteInvoke
<1>4. /\ f \in Frame /\ f.op = "invoke" /\ 1 \in DOMAIN down[c] /\ down[c][1] = f
      /\ down' \in [Children -> Seq(Frame)]
      /\ \A d \in Children : ~Alive(d) => down'[d] = <<>>
      /\ sh \in [Children -> {0, 1}] /\ Shifted(sh) /\ child[c] = "up"
  BY <1>1, <1>2, TakenFrom
<1>5. x \in Calls /\ f.session \in Sessions /\ f.fence \in Fences
  BY <1>4 DEF Frame
<1>6. \A d \in Children : sh[d] = 1 => d = c
  OBVIOUS
<1>7. sh[c] = 1
  OBVIOUS
<1> HIDE DEF sh
<1>8. ids \in SUBSET Calls /\ ids # {} /\ \A i : i \in ids <=> i = x
  BY <1>5
<1>9. \A i \in ids : Read(sh, c, i) /\ f.session = SessionOf[i] /\ f.fence = planned[i]
  <2>1. Invokes(c, 1, x) /\ Read(sh, c, x)
    BY <1>4, <1>7 DEF Invokes, Read
  <2>2. f.session = SessionOf[x] /\ f.fence = planned[x]
    BY <1>1, <1>4, <1>5, <2>1 DEF Frames
  <2> QED
    BY <1>8, <2>1, <2>2
<1>10. \A i \in Calls : Read(sh, c, i) => i \in ids
  BY <1>4, <1>8 DEF Read, Invokes
<1> HIDE DEF ids, f, x
<1> DEFINE P == Placed(c, f, e)
<1>11. /\ P \in [Entries -> Entry]
       /\ P[e].child = c /\ P[e].session = f.session /\ P[e].fence = f.fence /\ ~P[e].dead
       /\ P[e].pending = entry[e].pending
  BY <1>3, <1>4, <1>5, Placing
<1> HIDE DEF P
<1>12. /\ entry' \in [Entries -> Entry] /\ \A d \in Entries \ {e} : entry'[d] = P[d]
       /\ entry'[e].child = c /\ entry'[e].session = f.session /\ entry'[e].fence = f.fence
       /\ ~entry'[e].dead /\ entry'[e].pending = entry[e].pending \cup ids
       /\ entry'[e].armed = (entry'[e].pending = {})
  <2> DEFINE held == P[e].pending \cup ids
  <2>1. entry' = [P EXCEPT ![e].pending = held, ![e].armed = FALSE]
    BY <1>3 DEF P
  <2>2. held \in SUBSET Calls /\ held # {}
    BY <1>8, <1>11 DEF Entry
  <2>3. entry' \in [Entries -> Entry]
    <3> HIDE DEF held
    <3> HIDE PlaneAssumption, SentinelAssumption
    <3>1. [P EXCEPT ![e].pending = held, ![e].armed = FALSE] \in [Entries -> Entry]
      BY <1>11, <2>2 DEF Entry
    <3> QED
      BY <2>1, <3>1
  <2>4. /\ \A d \in Entries \ {e} : entry'[d] = P[d]
        /\ entry'[e].child = c /\ entry'[e].session = f.session /\ entry'[e].fence = f.fence
        /\ ~entry'[e].dead /\ entry'[e].pending = held /\ entry'[e].armed = FALSE
    <3> HIDE DEF held
    <3> QED
      BY <1>11, <2>1 DEF Entry
  <2> QED
    BY <1>11, <2>2, <2>3, <2>4
<1>13. /\ exec' \in [Calls -> [at : Entries \cup {0}, st : Stages]]
       /\ \A i \in Calls \ ids : exec'[i] = exec[i]
       /\ \A i \in ids : /\ exec'[i].at = e
                         /\ exec'[i].st = IF runner'[e] = "up" THEN "running" ELSE "lost"
  BY <1>1, <1>3, <1>5, <1>8 DEF Shape, PoolShape, Stages
<1>14. \A d \in Children : sh[d] = 1 => d = c /\ down[c][1].op # "cancel"
  BY <1>4, <1>6
<1>15. \A d \in Entries \ {e} : entry'[d] = Placed(c, f, e)[d]
  BY <1>12 DEF P
<1>16. Hosting(c, f, e, sh, ids)
  BY <1>2, <1>3, <1>4, <1>5, <1>9, <1>10, <1>12, <1>13, <1>14, <1>15 DEF Hosting
<1> QED
  BY <1>4, <1>8, <1>16, HostKeeps

LEMMA WarmKeeps ==
  ASSUME IInv, NEW c \in Children, Warm(c) PROVE IInv'
<1> DEFINE sh == [d \in Children |-> IF d = c THEN 1 ELSE 0]
           f == Head(down[c])
           ids == {}
<1>1. Shape /\ Born
  BY DEF IInv
<1>2. Takes(c, "warm") /\ Taken(c) /\ SupervisorStill /\ UNCHANGED <<troubles, exec>>
  BY DEF Warm, SupervisorStill
<1>3. PICK e \in Entries :
        /\ HostOf(c, f, e) /\ HostRunner(e)
        /\ entry' = [Placed(c, f, e) EXCEPT ![e].armed = Arms(Placed(c, f, e)[e].pending)]
        /\ Answer(c, Orphans(Replaced(c, f)))
  BY DEF Warm
<1>4. /\ f \in Frame /\ f.op = "warm" /\ down[c][1] = f
      /\ down' \in [Children -> Seq(Frame)]
      /\ \A d \in Children : ~Alive(d) => down'[d] = <<>>
      /\ sh \in [Children -> {0, 1}] /\ Shifted(sh) /\ child[c] = "up"
  BY <1>1, <1>2, TakenFrom
<1>5. f.session \in Sessions /\ f.fence \in Fences
  BY <1>4 DEF Frame
<1>6. \A d \in Children : sh[d] = 1 => d = c
  OBVIOUS
<1> HIDE DEF sh
<1>7. ids \in SUBSET Calls /\ \A i : i \notin ids
  OBVIOUS
<1>8. \A i \in Calls : ~Read(sh, c, i)
  BY <1>4 DEF Read, Invokes
<1> HIDE DEF ids, f
<1> DEFINE P == Placed(c, f, e)
<1>9. /\ P \in [Entries -> Entry]
      /\ P[e].child = c /\ P[e].session = f.session /\ P[e].fence = f.fence /\ ~P[e].dead
      /\ P[e].pending = entry[e].pending
  BY <1>3, <1>4, <1>5, Placing
<1>10. entry' = [P EXCEPT ![e].armed = (P[e].pending = {})]
  BY <1>3 DEF P, Arms
<1> HIDE DEF P
<1>11. /\ entry' \in [Entries -> Entry] /\ \A d \in Entries \ {e} : entry'[d] = P[d]
       /\ entry'[e].child = c /\ entry'[e].session = f.session /\ entry'[e].fence = f.fence
       /\ ~entry'[e].dead /\ entry'[e].pending = entry[e].pending \cup ids
       /\ entry'[e].armed = (entry'[e].pending = {})
  <2> DEFINE idle == (P[e].pending = {})
  <2>1. entry' = [P EXCEPT ![e].armed = idle] /\ idle \in BOOLEAN
    BY <1>10
  <2>2. entry' \in [Entries -> Entry]
    <3> HIDE DEF idle
    <3> HIDE PlaneAssumption, SentinelAssumption
    <3>1. [P EXCEPT ![e].armed = idle] \in [Entries -> Entry]
      BY <1>9, <2>1 DEF Entry
    <3> QED
      BY <2>1, <3>1
  <2>3. /\ \A d \in Entries \ {e} : entry'[d] = P[d]
        /\ entry'[e].child = c /\ entry'[e].session = f.session /\ entry'[e].fence = f.fence
        /\ ~entry'[e].dead /\ entry'[e].pending = P[e].pending
    <3> HIDE DEF idle
    <3> QED
      BY <1>9, <2>1 DEF Entry
  <2>4. entry'[e].armed = idle
    BY <1>9, <2>1 DEF Entry
  <2>5. entry[e].pending \cup ids = entry[e].pending
    BY <1>7
  <2> QED
    BY <1>9, <2>2, <2>3, <2>4, <2>5
<1>12. exec' \in [Calls -> [at : Entries \cup {0}, st : Stages]] /\ exec' = exec
  BY <1>1, <1>2 DEF Shape, PoolShape
<1>13. \A d \in Children : sh[d] = 1 => d = c /\ down[c][1].op # "cancel"
  BY <1>4, <1>6
<1>14. \A d \in Entries \ {e} : entry'[d] = Placed(c, f, e)[d]
  BY <1>11 DEF P
<1>15. /\ \A i \in Calls \ ids : exec'[i] = exec[i]
       /\ \A i \in ids : /\ Read(sh, c, i) /\ f.session = SessionOf[i] /\ f.fence = planned[i]
                         /\ exec'[i].at = e
                         /\ exec'[i].st = IF runner'[e] = "up" THEN "running" ELSE "lost"
       /\ \A i \in Calls : Read(sh, c, i) => i \in ids
  BY <1>7, <1>8, <1>12
<1>16. Hosting(c, f, e, sh, ids)
  BY <1>2, <1>3, <1>4, <1>5, <1>11, <1>12, <1>13, <1>14, <1>15 DEF Hosting
<1> QED
  BY <1>4, <1>7, <1>16, HostKeeps

-----------------------------------------------------------------------------
(* Every step                                                              *)

LEMMA InitHolds == Init => IInv
<1> SUFFICES ASSUME Init PROVE IInv
  OBVIOUS
<1>1. StartShape
  <2>1. waits \in [Requests -> Children \cup {0}]
    BY DEF Init
  <2>2. /\ promise \in [Children -> {"none", "open", "ready", "failed"}]
        /\ child \in [Children -> {"none", "booting", "up", "dead"}]
    BY DEF Init
  <2>3. troubles \in 0 .. MaxTroubles
    BY DEF Init
  <2>4. /\ proc = 0 /\ hook = 0 /\ crashed = FALSE /\ closing = FALSE /\ degraded = FALSE
        /\ respawns = 0 /\ deaths = 0 /\ lone = 0 /\ ended = {}
    BY DEF Init
  <2> QED
    BY <2>1, <2>2, <2>3, <2>4 DEF StartShape
<1>2. CallShape
  BY DEF Init, CallShape, Fences
<1>3. PipeShape
  BY DEF Init, PipeShape
<1>4. PoolShape
  <2>1. NoEntry \in Entry
    BY DEF NoEntry, Entry, Fences
  <2>2. Nowhere \in [at : Entries \cup {0}, st : Stages]
    BY DEF Nowhere, Stages
  <2> QED
    BY <2>1, <2>2 DEF Init, PoolShape
<1>5. \A d \in Children : ~Alive(d) /\ down[d] = <<>> /\ DOMAIN down[d] = {}
  BY DEF Init, Alive
<1>6. \A e \in Entries : /\ entry[e].child = 0 /\ entry[e].pending = {} /\ ~entry[e].armed
                         /\ runner[e] = "none"
  BY DEF Init, NoEntry
<1>7. \A i \in Calls : exec[i].st = "none" /\ fate[i] = "idle" /\ waits[i] = 0
  BY DEF Init, Nowhere, Requests
<1>8. Budget
  BY DEF Init, Budget
<1>9. Born
  BY <1>5 DEF Init, Born
<1>10. Waiting
  BY <1>7 DEF Init, Waiting, Requests
<1>11. Pool /\ Execs /\ Holds /\ OneEntry /\ IdleTimerFits
  BY <1>6, <1>7 DEF Pool, Execs, Holds, OneEntry, IdleTimerFits
<1>12. Frames /\ CancelFollows /\ CancelComes
  BY <1>5, <1>7 DEF Frames, CancelFollows, CancelComes
<1>13. NoCallLost
  BY DEF Init, NoCallLost
<1> QED
  BY <1>1, <1>2, <1>3, <1>4, <1>8, <1>9, <1>10, <1>11, <1>12, <1>13 DEF IInv, Shape

LEMMA StutterKeeps ==
  ASSUME IInv, UNCHANGED vars PROVE IInv'
<1>0. /\ Shape /\ Budget /\ Born /\ Waiting /\ Pool /\ Execs /\ Holds /\ Frames
      /\ OneEntry /\ IdleTimerFits /\ NoCallLost /\ CancelFollows /\ CancelComes
  BY DEF IInv
<1>1. /\ SupervisorStill /\ UNCHANGED <<down, up, entry, runner, exec, troubles>>
      /\ UNCHANGED poolVars
  BY DEF vars, SupervisorStill, pipeVars, poolVars
<1>2. troubles' \in 0 .. MaxTroubles /\ \A d \in Children : ~Alive(d) => down'[d] = <<>>
  BY <1>0, <1>1 DEF Shape, StartShape, Born
<1>3. /\ UNCHANGED <<proc, child, ended, pending, waits, fate, planned, post, closers>>
      /\ Budget' /\ Waiting' /\ Steady /\ Surviving /\ Patient /\ CallShape' /\ StartShape' /\ Born'
  BY <1>0, <1>1, <1>2, Aside
<1>4. Shape'
  BY <1>0, <1>1, <1>3 DEF Shape, PipeShape, PoolShape
<1>5. Pool' /\ Execs' /\ Holds' /\ OneEntry' /\ IdleTimerFits'
  BY <1>0, <1>1, <1>3, PoolStill
<1>6. Frames' /\ CancelFollows' /\ CancelComes'
  BY <1>0, <1>1, <1>3, PipesStill
<1>7. NoCallLost'
  BY <1>0, <1>1, <1>3, CallsStill
<1> QED
  BY <1>3, <1>4, <1>5, <1>6, <1>7 DEF IInv

LEMMA SupervisorKeeps ==
  ASSUME IInv, Supervisor PROVE IInv'
<1>1. ASSUME NEW c \in Calls, Invoke(c) \/ Abort(c) PROVE IInv'
  BY <1>1, InvokeKeeps, AbortKeeps
<1>2. ASSUME NEW p \in Posts, NEW s \in Sessions, NEW g \in {policy[s], "off"},
             Post(p, [op |-> "warm", session |-> s, fence |-> g])
      PROVE  IInv'
  <2> DEFINE f == [op |-> "warm", session |-> s, fence |-> g]
  <2>1. g \in Fences
    BY DEF IInv, Shape, CallShape, Fences
  <2>2. f \in Frame /\ f.op \in {"warm", "reap"}
    BY <2>1 DEF Frame
  <2>3. Post(p, f)
    BY <1>2
  <2> HIDE DEF f
  <2> QED
    BY <2>2, <2>3, PostKeeps
<1>3. ASSUME NEW p \in Posts, NEW s \in Sessions, Post(p, [op |-> "reap", session |-> s])
      PROVE  IInv'
  <2> DEFINE f == [op |-> "reap", session |-> s]
  <2>1. f \in Frame /\ f.op \in {"warm", "reap"}
    BY DEF Frame
  <2>2. Post(p, f)
    BY <1>3
  <2> HIDE DEF f
  <2> QED
    BY <2>1, <2>2, PostKeeps
<1>4. ASSUME NEW s \in Sessions, SetPolicy(s) PROVE IInv'
  BY <1>4, SetPolicyKeeps
<1>5. CASE HearExit \/ Overflow
  BY <1>5, HearExitKeeps, OverflowKeeps
<1>6. ASSUME NEW c \in Children, HearReady(c) \/ CloseReturns(c) PROVE IInv'
  BY <1>6, HearReadyKeeps, CloseReturnsKeeps
<1>7. ASSUME NEW c \in Children, NEW f \in up[c], f.op = "reply", HearReply(c, f) PROVE IInv'
  BY <1>7, HearReplyKeeps
<1>8. CASE WindowSlides \/ Close
  BY <1>8, WindowSlidesKeeps, CloseKeeps
<1> QED
  BY <1>1, <1>2, <1>3, <1>4, <1>5, <1>6, <1>7, <1>8 DEF Supervisor

LEMMA BrokerKeeps ==
  ASSUME IInv, Broker PROVE IInv'
<1>1. ASSUME NEW c \in Children,
             Boot(c) \/ RouteInvoke(c) \/ Warm(c) \/ RunnerSpawnFails(c)
      PROVE  IInv'
  BY <1>1, BootKeeps, RouteInvokeKeeps, WarmKeeps, SpawnFailsKeeps
<1>2. ASSUME NEW c \in Children, RouteCancel(c) \/ ReapEntries(c) \/ Leave(c) \/ Crash(c)
      PROVE  IInv'
  BY <1>2, RouteCancelKeeps, ReapKeeps, DeathKeeps
<1>3. ASSUME NEW e \in Entries, IdleTimer(e) \/ RunnerExit(e) PROVE IInv'
  BY <1>3, GoneKeeps
<1>4. ASSUME NEW i \in Calls, RunnerWriteError(i) PROVE IInv'
  BY <1>4, RunnerWriteErrorKeeps
<1>5. ASSUME NEW i \in Calls, NEW ok \in BOOLEAN, Relay(i, ok) PROVE IInv'
  BY <1>5, RelayKeeps
<1> QED
  BY <1>1, <1>2, <1>3, <1>4, <1>5 DEF Broker

LEMMA NextKeeps == IInv /\ [Next]_vars => IInv'
<1> SUFFICES ASSUME IInv, [Next]_vars PROVE IInv'
  OBVIOUS
<1>1. CASE Quiet /\ Supervisor
  BY <1>1, SupervisorKeeps
<1>2. CASE Resume
  BY <1>2, ResumeCallKeeps, ResumePostKeeps DEF Resume
<1>3. CASE Broker
  BY <1>3, BrokerKeeps
<1>4. CASE Runner
  <2>1. ASSUME NEW i \in Calls, Finish(i) PROVE IInv'
    BY <2>1, FinishKeeps
  <2>2. ASSUME NEW e \in Entries, Drain(e) PROVE IInv'
    BY <2>2, DrainKeeps
  <2>3. ASSUME NEW e \in Entries, DrainTimer(e) \/ RunnerCrash(e) PROVE IInv'
    BY <2>3, VanishKeeps
  <2> QED
    BY <1>4, <2>1, <2>2, <2>3 DEF Runner
<1>5. CASE UNCHANGED vars
  BY <1>5, StutterKeeps
<1> QED
  BY <1>1, <1>2, <1>3, <1>4, <1>5 DEF Next

-----------------------------------------------------------------------------
(* What the invariant says                                                 *)

LEMMA NothingForgotten == IInv => CallsAccounted
<1> SUFFICES ASSUME IInv PROVE CallsAccounted
  OBVIOUS
<1>0. Shape /\ Holds /\ CancelComes /\ NoCallLost
  BY DEF IInv
<1>1. TypeOK
  BY <1>0, ShapeTypes
<1>2. EntryAccounts
  BY <1>0 DEF Holds, EntryAccounts
<1>3. CancelReaches
  <2> SUFFICES ASSUME NEW i \in Calls, fate[i] = "cancelled", exec[i].st = "running",
                      ~entry[exec[i].at].dead, entry[exec[i].at].child \notin ended
               PROVE  \E d \in Children : \E k \in DOMAIN down[d] :
                        down[d][k] = [op |-> "cancel", id |-> i]
    BY DEF CancelReaches
  <2>1. PICK d \in Children : \E k \in DOMAIN down[d] : Cancels(d, k, i)
    BY <1>0 DEF CancelComes
  <2>2. PICK k \in DOMAIN down[d] : Cancels(d, k, i)
    BY <2>1
  <2>3. down[d] \in Seq(Frame)
    BY <1>0 DEF Shape, PipeShape
  <2>4. down[d][k] \in Frame
    BY <2>3
  <2>5. down[d][k] = [op |-> "cancel", id |-> i]
    BY <2>2, <2>4 DEF Frame, Cancels
  <2> QED
    BY <2>5
<1> QED
  BY <1>0, <1>1, <1>2, <1>3 DEF CallsAccounted

LEMMA SoundPool == IInv => PoolIsSound
<1> SUFFICES ASSUME IInv PROVE PoolIsSound
  OBVIOUS
<1>0. Shape /\ Execs /\ OneEntry /\ IdleTimerFits
  BY DEF IInv
<1>1. RunsBehindItsFence
  BY <1>0 DEF Execs, RunsBehindItsFence
<1>2. ASSUME NEW c \in Children, NEW s \in Sessions PROVE Cardinality(Live(c, s)) <= 1
  <2> DEFINE live == Live(c, s)
  <2>1. c # 0
    BY DEF Children
  <2>2. \A d, e \in live : d = e
    BY <1>0, <2>1 DEF Live, OneEntry
  <2> HIDE DEF live
  <2>3. CASE live = {}
    BY <2>3, FS_EmptySet DEF live
  <2>4. CASE live # {}
    <3>1. PICK e : e \in live
      BY <2>4
    <3>2. live = {e}
      BY <2>2, <3>1
    <3>3. Cardinality(live) = 1
      BY <3>2, FS_Singleton
    <3> QED
      BY <3>3 DEF live
  <2> QED
    BY <2>3, <2>4
<1> QED
  BY <1>0, <1>1, <1>2 DEF PoolIsSound, OneRunnerPerKey

(* A child comes only from Spawn.                                           *)
LEMMA WhoStarts ==
  ASSUME Next, proc' # proc, proc' # 0
  PROVE  \E c \in Children : Spawn(c)
<1>1. ASSUME NEW r, NoStart(r) \/ Start(r) \/ AwaitStart(r)
      PROVE  \E c \in Children : Spawn(c)
  BY <1>1 DEF NoStart, Start, AwaitStart, Degrade, Refuse, SpawnThrows, startVars
<1>2. CASE Supervisor
  <2>1. ASSUME NEW c \in Calls, Invoke(c) \/ Abort(c) PROVE \E d \in Children : Spawn(d)
    BY <1>1, <2>1 DEF Invoke, Abort, startVars
  <2>2. ASSUME NEW p \in Posts, NEW f, Post(p, f) PROVE \E d \in Children : Spawn(d)
    BY <1>1, <2>2 DEF Post, startVars
  <2>3. ~(\E s \in Sessions : SetPolicy(s)) /\ ~HearExit /\ ~Overflow /\ ~WindowSlides /\ ~Close
    BY DEF SetPolicy, HearExit, Overflow, WindowSlides, Close, HandleDeath, FailAll, startVars
  <2>4. ASSUME NEW c \in Children PROVE ~HearReady(c) /\ ~CloseReturns(c)
    BY DEF HearReady, CloseReturns, startVars
  <2>5. ASSUME NEW c \in Children, NEW f \in up[c] PROVE ~HearReply(c, f)
    BY DEF HearReply, startVars
  <2> QED
    BY <1>2, <2>1, <2>2, <2>3, <2>4, <2>5 DEF Supervisor
<1>3. ~Resume
  BY DEF Resume, ResumeCall, ResumePost, startVars
<1>4. ~Broker
  BY DEF Broker, Boot, RouteInvoke, Warm, RunnerSpawnFails, RouteCancel, ReapEntries, Leave,
         Crash, IdleTimer, RunnerExit, RunnerWriteError, Relay, startVars
<1>5. ~Runner
  BY DEF Runner, Finish, Drain, DrainTimer, RunnerCrash, Vanish, RunnerVars, startVars
<1> QED
  BY <1>2, <1>3, <1>4, <1>5 DEF Next

-----------------------------------------------------------------------------
(* The invariant holds of every behaviour of the plane.                      *)
THEOREM Invariant == Spec => []IInv
<1> QED
  BY InitHolds, NextKeeps, PTL DEF Spec

(* No call is forgotten on its way to a runner and back, nor its cancel,        *)
(* whichever process dies, is replaced, reaped or closed between two steps.   *)
THEOREM NoCallForgotten == Spec => []CallsAccounted
<1> QED
  BY Invariant, NothingForgotten, PTL

(* A call runs only behind the fence planned for it, in the one live runner of *)
(* its session, and the idle timer of a runner runs exactly while it is idle.  *)
THEOREM OneRunnerOneFence == Spec => []PoolIsSound
<1> QED
  BY Invariant, SoundPool, PTL

(* Children that die without serving a call are respawned no further than the  *)
(* cap, nor past the deaths that the window allows.                          *)
THEOREM CrashLoopsEnd == Spec => NoCrashLoop
<1> DEFINE Capped == (proc' # proc /\ proc' # 0) => (lone <= RespawnCap /\ deaths < WindowDeaths)
<1>1. ASSUME IInv, [Next]_vars PROVE [Capped]_vars
  <2> SUFFICES ASSUME Next, proc' # proc, proc' # 0
               PROVE  lone <= RespawnCap /\ deaths < WindowDeaths
    BY <1>1
  <2>1. PICK c \in Children : Spawn(c)
    BY WhoStarts
  <2>2. ~degraded /\ (crashed => respawns < RespawnCap /\ deaths < WindowDeaths)
    BY <1>1, <2>1 DEF Spawn, CapReached, IInv, Shape, StartShape
  <2> QED
    BY <1>1, <2>2 DEF IInv, Budget, Shape, StartShape
<1> QED
  BY <1>1, Invariant, PTL DEF Spec, NoCrashLoop
=============================================================================
