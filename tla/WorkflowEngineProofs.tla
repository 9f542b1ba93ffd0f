------------------------- MODULE WorkflowEngineProofs -------------------------
(***************************************************************************)
(* Proofs about WorkflowEngine, for every graph, number of attempts, of     *)
(* tasks, of dispatches and of troubles.                                   *)
(***************************************************************************)
EXTENDS WorkflowEngine, FiniteSetTheorems, SequenceTheorems, TLAPS

-----------------------------------------------------------------------------
(* Worlds: what a handler makes of the nodes, the tasks and the events.      *)

World == [N : [Nodes -> NodeRun], T : [Tasks -> Task], Q : Seq(Event)]

(* A node that is no judge and its judge are driven together.               *)
Fam(n) == {n} \cup ({Judge[n]} \ {None})

(* The tasks of a node that this run spawned and that are not over.          *)
Own(w, n) == {t \in Tasks : w.T[t].node = n /\ ~w.T[t].old /\ w.T[t].st # "none"}

Resur(w, d) == w.N[d].reused /\ IsJudge(d) /\ ~w.N[Owner(d)].reused
Good(w, d) == w.N[d].outcome = "succeeded" \/ Resur(w, d)

(* Cancelled with the run, by itself, or with the node it gates.            *)
Excused(w, n, s) == s \/ w.N[n].flag \/ (IsJudge(n) /\ w.N[Owner(n)].flag)

(* What the events, after what the log says, tell of a node.                *)
LastTells(Q, n, i) == i \in DOMAIN Q /\ Q[i].id = n /\ \A k \in DOMAIN Q : k > i => Q[k].id # n
Tells(Q, l, n, x) ==
  \/ \E i \in DOMAIN Q : LastTells(Q, n, i) /\ Q[i].state = x
  \/ (\A i \in DOMAIN Q : Q[i].id # n) /\ l.last[n] = x

-----------------------------------------------------------------------------
(* The inductive invariant                                                 *)

(* The task of a node is where its coroutine awaits it: spawned while it     *)
(* plans, its own from then on.  A settled node has none but a turn that was *)
(* aborted and a judge what it spawned when it was cancelled.               *)
Place(w, n, t) ==
  LET r == w.N[n]
      st == w.T[t].st
  IN
  \/ r.pc = "plan" /\ st \in {"planning", "cut"}
  \/ r.task = t /\ r.pc = "turn" /\ st \in {"cut", "queued", "warm", "turn", "parked"}
  \/ r.task = t /\ r.pc \in {"gate", "judge", "verdict"} /\ st = "parked"
  \/ r.pc = "end" /\ ((IsJudge(n) /\ r.flag) \/ (st = "turn" /\ w.T[t].aborted))

One(w, n) == \A t, u \in Own(w, n) : t = u
Known(w, n) == w.N[n].task # 0 => w.T[w.N[n].task].st = "none" \/ w.N[n].task \in Own(w, n)

(* A node and its task: one at most, which is its own, and what the gate was *)
(* given is what became of it.                                             *)
NodeOK(w, n, s) ==
  LET r == w.N[n] IN
  /\ One(w, n) /\ Known(w, n) /\ \A t \in Own(w, n) : Place(w, n, t)
  /\ r.pc \in {"turn", "gate", "judge", "verdict"} => r.task # 0
  /\ r.pc \notin {"plan", "turn"} => ~r.open
  /\ r.turn = "completed" => r.pc = "turn" /\ \A t \in Own(w, n) : w.T[t].st = "parked"
  /\ r.turn = "broken" => Own(w, n) = {} \/ Excused(w, n, s)

(* A node that is driven: it goes on only over what succeeded, and its       *)
(* deadline is armed only while its turn runs.                             *)
MainOK(w, n) ==
  LET r == w.N[n] IN
  /\ r.pc # "deps"
  /\ Terminal(r) <=> r.pc = "end"
  /\ r.reused \/ r.outcome = "succeeded" => Terminal(r)
  /\ r.pc = "accept" => ~r.killed
  /\ r.armed => r.pc = "turn" /\ \E t \in Own(w, n) : w.T[t].st = "turn"
  /\ r.pc \notin {"idle", "wait", "end"} => \A d \in Deps[n] : Good(w, d)

(* The owner gives up what its judge could not decide.                      *)
GivesUp(r) == r.pc = "verdict" /\ r.says \in {"cancel", "blocked"}

(* A judge works while its owner waits for it and is done with its owner;    *)
(* one that was reused though its owner was not may work once more.         *)
JudgeOK(w, n, j) ==
  LET r == w.N[j]
      o == w.N[n]
  IN
  /\ r.pc \in {"idle", "deps", "plan", "turn", "gate", "end"}
  /\ r.pc \in {"deps", "plan", "turn", "gate"} => o.pc = "judge"
  /\ Terminal(r) => r.pc = "end" \/ (r.reused /\ r.st = "succeeded" /\ r.pc \in {"deps", "plan"})
  /\ r.pc = "end" => Terminal(r)
  /\ o.pc = "end" => Terminal(r)
  /\ r.st = "succeeded" /\ ~r.reused => o.pc = "end"
  /\ Terminal(r) /\ o.pc # "end" /\ ~GivesUp(o) =>
       r.reused /\ r.st = "succeeded" /\ (r.pc = "end" => Own(w, j) = {})
  /\ r.outcome = "succeeded" => Terminal(r) \/ (r.reused /\ ~o.reused)
  /\ r.pc \in {"plan", "turn", "gate"} => \A d \in Deps[j] : d = n \/ Good(w, d)

Heard(w, n, l) == Terminal(w.N[n]) => Tells(w.Q, l, n, w.N[n].st)

FamOK(w, n, s, l) ==
  /\ MainOK(w, n) /\ \A m \in Fam(n) : NodeOK(w, m, s) /\ Heard(w, m, l)
  /\ Judge[n] # None => JudgeOK(w, n, Judge[n])

(* The tasks of earlier runs: a judge's, or turns that were aborted.         *)
TaskOK(w, t) ==
  LET x == w.T[t] IN
  /\ x.st # "none" => x.node \in Nodes
  /\ x.aborted => x.st = "turn"
  /\ x.old /\ x.st # "none" => x.aborted \/ IsJudge(x.node)

WInv(w, s, l) ==
  /\ w \in World /\ \A t \in Tasks : TaskOK(w, t)
  /\ \A n \in Nodes : IsJudge(n) \/ FamOK(w, n, s, l)

Log == [last : [Nodes -> Settled \cup {None}], claim : [Nodes -> Claim \cup {None}],
        finished : {"succeeded", "failed", "cancelled", None}]

Disk == [Nodes -> [ver : Nat, verdict : Verdicts \cup {None}]]

(* A node has a claim exactly when the last that was told is its success.    *)
LogSane(l) == \A n \in Nodes : l.claim[n] # None <=> l.last[n] = "succeeded"

IInv ==
  /\ WInv(Now, stopping, log)
  /\ log \in Log /\ LogSane(log) /\ JournalTruth
  /\ disk \in Disk /\ driver \in {"on", "off", "done"} /\ stopping \in BOOLEAN
  /\ runs \in 1 .. MaxRuns /\ troubles \in 0 .. MaxTroubles
  /\ driver = "off" => \A t \in Tasks : task[t].st = "none"
  /\ driver = "off" => ~stopping /\ \A n \in Nodes : node[n] = Blank
  /\ driver = "done" => \A n \in Nodes : node[n].pc = "end"

-----------------------------------------------------------------------------
(* Families                                                                *)

LEMMA Judged ==
  ASSUME NEW n \in Nodes, Judge[n] # None
  PROVE  /\ Judge[n] \in Nodes /\ IsJudge(Judge[n]) /\ Owner(Judge[n]) = n /\ Judge[n] # n
         /\ ~IsJudge(n)
<1>1. Judge[n] \in Nodes /\ Owners(Judge[n]) = {n} /\ Judge[Judge[n]] = None
  BY GraphAssumption DEF JudgesFit
<1>2. IsJudge(Judge[n]) /\ Judge[n] # n
  BY <1>1 DEF IsJudge
<1>3. \A m \in Nodes : Judge[m] = Judge[n] => m = n
  BY <1>1 DEF Owners
<1>4. Owner(Judge[n]) = n
  BY <1>3 DEF Owner
<1>5. ASSUME NEW m \in Nodes, Judge[m] = n PROVE FALSE
  BY <1>5, GraphAssumption DEF JudgesFit
<1> QED
  BY <1>1, <1>2, <1>4, <1>5 DEF IsJudge, Owners

LEMMA Owned ==
  ASSUME NEW j \in Nodes, IsJudge(j)
  PROVE  Owner(j) \in Nodes /\ Judge[Owner(j)] = j /\ ~IsJudge(Owner(j)) /\ j # None
<1>1. \E n \in Nodes : Judge[n] = j
  BY DEF IsJudge, Owners
<1>2. Owner(j) \in Nodes /\ Judge[Owner(j)] = j
  BY <1>1 DEF Owner
<1> QED
  BY <1>2, Judged, GraphAssumption

LEMMA Families ==
  ASSUME NEW n \in Nodes, ~IsJudge(n)
  PROVE  /\ Fam(n) \subseteq Nodes /\ n \in Fam(n)
         /\ \A m \in Fam(n) : m = n \/ (m = Judge[n] /\ IsJudge(m) /\ Owner(m) = n)
         /\ \A m \in Nodes : ~IsJudge(m) /\ m # n => Fam(m) \cap Fam(n) = {}
<1>1. Fam(n) \subseteq Nodes /\ n \in Fam(n)
  BY GraphAssumption DEF Fam
<1>2. ASSUME NEW m \in Fam(n), m # n PROVE m = Judge[n] /\ IsJudge(m) /\ Owner(m) = n
  BY <1>2, Judged DEF Fam
<1>3. ASSUME NEW m \in Nodes, ~IsJudge(m), m # n, NEW k \in Fam(m), k \in Fam(n) PROVE FALSE
  <2>1. k = n \/ (k = Judge[n] /\ IsJudge(k) /\ Owner(k) = n)
    BY <1>2, <1>3
  <2>2. k = m \/ (k = Judge[m] /\ IsJudge(k) /\ Owner(k) = m)
    BY <1>3, Judged DEF Fam
  <2> QED
    BY <1>3, <2>1, <2>2
<1> QED
  BY <1>1, <1>2, <1>3

-----------------------------------------------------------------------------
(* Moves of one family leave the others alone.                              *)

OfFam(w, n, t) == w.T[t].st = "none" \/ (w.T[t].node \in Fam(n) /\ ~w.T[t].old)

Frame(u, w, n) ==
  /\ \A m \in Nodes \ Fam(n) :
       w.N[m] = u.N[m] /\ \A l, x : Tells(u.Q, l, m, x) => Tells(w.Q, l, m, x)
  /\ \A t \in Tasks : w.T[t] = u.T[t] \/ (OfFam(u, n, t) /\ OfFam(w, n, t))
  /\ \A t \in Tasks : u.T[t].st = "none" /\ w.T[t].st # "none" =>
       \A m \in Nodes \ Fam(n) : u.N[m].task # t
  /\ \A m \in Fam(n) :
       /\ w.N[m].reused = u.N[m].reused
       /\ u.N[m].outcome = "succeeded" => w.N[m].outcome = "succeeded" \/ Resur(u, m)

LEMMA FrameReused ==
  ASSUME NEW u, NEW w, NEW n \in Nodes, ~IsJudge(n), Frame(u, w, n)
  PROVE  /\ \A m \in Nodes : w.N[m].reused = u.N[m].reused
         /\ \A m \in Nodes : Resur(w, m) = Resur(u, m)
         /\ \A m \in Nodes : Good(u, m) => Good(w, m)
<1>1. \A m \in Nodes : w.N[m].reused = u.N[m].reused
  BY DEF Frame
<1>2. \A m \in Nodes : Resur(w, m) = Resur(u, m)
  BY <1>1, Owned DEF Resur
<1>3. \A m \in Nodes : u.N[m].outcome = "succeeded" => w.N[m].outcome = "succeeded" \/ Resur(u, m)
  BY DEF Frame
<1> QED
  BY <1>1, <1>2, <1>3 DEF Good

LEMMA FrameComposes ==
  ASSUME NEW u, NEW w, NEW v, NEW n \in Nodes, ~IsJudge(n),
         Frame(u, w, n), Frame(w, v, n)
  PROVE  Frame(u, v, n)
<1>1. \A m \in Nodes : Resur(w, m) = Resur(u, m)
  BY FrameReused
<1>2. Fam(n) \subseteq Nodes
  BY Families
<1>3. \A m \in Nodes \ Fam(n) :
       v.N[m] = u.N[m] /\ \A l, x : Tells(u.Q, l, m, x) => Tells(v.Q, l, m, x)
  BY DEF Frame
<1>4. \A t \in Tasks : v.T[t] = u.T[t] \/ (OfFam(u, n, t) /\ OfFam(v, n, t))
  BY DEF Frame, OfFam
<1>5. \A t \in Tasks : u.T[t].st = "none" /\ v.T[t].st # "none" =>
       \A m \in Nodes \ Fam(n) : u.N[m].task # t
  BY DEF Frame
<1>6. \A m \in Fam(n) :
       /\ v.N[m].reused = u.N[m].reused
       /\ u.N[m].outcome = "succeeded" => v.N[m].outcome = "succeeded" \/ Resur(u, m)
  BY <1>1, <1>2 DEF Frame
<1> QED
  BY <1>3, <1>4, <1>5, <1>6 DEF Frame

LEMMA NodeKeeps ==
  ASSUME NEW u, NEW v, NEW n \in Nodes, NEW s, NEW z, NodeOK(u, n, s),
         v.N[n] = u.N[n], Own(v, n) = Own(u, n), \A t \in Own(u, n) : v.T[t] = u.T[t],
         Known(v, n), Excused(u, n, s) => Excused(v, n, z)
  PROVE  NodeOK(v, n, z)
<1>1. \A t \in Own(u, n) : Place(u, n, t) => Place(v, n, t)
  BY DEF Place
<1> QED
  BY <1>1 DEF NodeOK, One

LEMMA OthersKeep ==
  ASSUME NEW u, NEW v, NEW l, NEW s, NEW n \in Nodes, ~IsJudge(n), Frame(u, v, n),
         NEW m \in Nodes, ~IsJudge(m), m # n, FamOK(u, m, s, l), u \in World
  PROVE  FamOK(v, m, s, l)
<1>1. Fam(m) \subseteq Nodes \ Fam(n) /\ m \in Fam(m)
  BY Families
<1>2. ASSUME NEW k \in Fam(m) PROVE Own(v, k) = Own(u, k) /\ \A t \in Own(u, k) : v.T[t] = u.T[t]
  <2>1. k \notin Fam(n)
    BY <1>1
  <2> QED
    BY <2>1 DEF Frame, OfFam, Own
<1>3. ASSUME NEW k \in Fam(m) PROVE NodeOK(v, k, s)
  <2>1. k \in Nodes /\ v.N[k] = u.N[k] /\ NodeOK(u, k, s)
    BY <1>1 DEF Frame, FamOK
  <2>2. Known(v, k)
    <3>1. u.N[k].task \in Tasks \cup {0}
      BY <2>1 DEF World, NodeRun
    <3>2. Known(u, k)
      BY <2>1 DEF NodeOK
    <3> QED
      BY <1>1, <1>2, <2>1, <3>1, <3>2 DEF Known, Frame
  <2>3. Excused(u, k, s) => Excused(v, k, s)
    <3>1. k = m \/ (IsJudge(k) /\ Owner(k) = m)
      BY Families
    <3>2. v.N[m] = u.N[m]
      BY <1>1 DEF Frame
    <3> QED
      BY <2>1, <3>1, <3>2 DEF Excused
  <2> QED
    BY <1>2, <2>1, <2>2, <2>3, NodeKeeps
<1>4. ASSUME NEW k \in Fam(m) PROVE Heard(v, k, l)
  <2>1. k \in Nodes \ Fam(n) /\ v.N[k] = u.N[k] /\ Heard(u, k, l)
    BY <1>1 DEF Frame, FamOK
  <2> QED
    BY <2>1 DEF Heard, Terminal, Frame
<1>5. \A d \in Nodes : Good(u, d) => Good(v, d)
  BY FrameReused
<1>6. \A k \in Nodes : Deps[k] \subseteq Nodes
  BY GraphAssumption
<1>7. MainOK(v, m)
  <2>1. v.N[m] = u.N[m] /\ MainOK(u, m)
    BY <1>1 DEF Frame, FamOK
  <2> QED
    BY <1>1, <1>2, <1>5, <1>6, <2>1 DEF MainOK
<1>8. ASSUME Judge[m] # None PROVE JudgeOK(v, m, Judge[m])
  <2>1. Judge[m] \in Fam(m) /\ Judge[m] \in Nodes
    BY <1>8, Judged DEF Fam
  <2>2. v.N[m] = u.N[m] /\ v.N[Judge[m]] = u.N[Judge[m]] /\ JudgeOK(u, m, Judge[m])
    BY <1>1, <1>8, <2>1 DEF Frame, FamOK
  <2>3. Own(v, Judge[m]) = Own(u, Judge[m])
    BY <1>2, <2>1
  <2> QED
    BY <1>5, <1>6, <2>1, <2>2, <2>3 DEF JudgeOK
<1> QED
  BY <1>3, <1>4, <1>7, <1>8 DEF FamOK

LEMMA FamilyMoves ==
  ASSUME NEW u, NEW v, NEW l, NEW s, NEW n \in Nodes, ~IsJudge(n), WInv(u, s, l),
         Frame(u, v, n), FamOK(v, n, s, l), v \in World, \A t \in Tasks : TaskOK(v, t)
  PROVE  WInv(v, s, l)
<1>1. ASSUME NEW m \in Nodes, ~IsJudge(m), m # n PROVE FamOK(v, m, s, l)
  BY <1>1, OthersKeep DEF WInv
<1> QED
  BY <1>1 DEF WInv

-----------------------------------------------------------------------------
(* What the helpers do to a world.                                         *)

LEMMA Ends ==
  ASSUME NEW r \in NodeRun, NEW out \in Settled, NEW e, e = Terminated(r, out)
  PROVE  /\ e \in NodeRun /\ Terminal(e) /\ e.st = out /\ e.outcome = out /\ e.pc = "end"
         /\ e.task = 0 /\ ~e.open /\ e.turn = "none" /\ ~e.killed /\ ~e.armed
         /\ e.flag = r.flag /\ e.own = r.own /\ e.reused = r.reused
<1>1. Blank \in NodeRun
  BY DEF Blank, NodeRun
<1>2. r.own \in BOOLEAN /\ r.flag \in BOOLEAN /\ r.reused \in BOOLEAN
  BY DEF NodeRun
<1>3. e = [Blank EXCEPT !.st = out, !.outcome = out, !.pc = "end", !.own = r.own, !.flag = r.flag,
                        !.reused = r.reused]
  BY DEF Terminated
<1>4. e \in NodeRun
  BY <1>1, <1>2, <1>3 DEF NodeRun
<1>5. /\ e.st = out /\ e.outcome = out /\ e.pc = "end"
      /\ e.task = 0 /\ ~e.open /\ e.turn = "none" /\ ~e.killed /\ ~e.armed
      /\ e.flag = r.flag /\ e.own = r.own /\ e.reused = r.reused
  BY <1>3 DEF Blank
<1> QED
  BY <1>4, <1>5 DEF Terminal

LEMMA InterruptIs ==
  ASSUME NEW T \in [Tasks -> Task], NEW t \in Tasks
  PROVE  /\ Interrupted(T, t) \in [Tasks -> Task]
         /\ \A x \in Tasks : x # t => Interrupted(T, t)[x] = T[x]
         /\ T[t].st = "planning" => Interrupted(T, t)[t] = [T[t] EXCEPT !.st = "cut"]
         /\ T[t].st = "turn" => Interrupted(T, t)[t] = [T[t] EXCEPT !.aborted = TRUE]
         /\ T[t].st \notin {"planning", "turn"} => Interrupted(T, t)[t] = Gone
<1>1. t # 0 /\ Gone \in Task
  BY EngineAssumption DEF Tasks, Gone, Task
<1>2. CASE T[t].st = "planning"
  BY <1>1, <1>2 DEF Interrupted, Task
<1>3. CASE T[t].st = "turn"
  BY <1>1, <1>3 DEF Interrupted, Task
<1>4. CASE T[t].st \notin {"planning", "turn"}
  BY <1>1, <1>4 DEF Interrupted
<1> QED
  BY <1>2, <1>3, <1>4

LEMMA Releases ==
  ASSUME NEW w \in World, NEW n \in Nodes, ~IsJudge(n), NEW m \in Fam(n), Known(w, m),
         \A t \in Tasks : TaskOK(w, t), NEW v, v = Released(w, m)
  PROVE  /\ v \in World /\ v.Q = w.Q
         /\ v.N[m] = [w.N[m] EXCEPT !.task = 0] /\ \A k \in Nodes \ {m} : v.N[k] = w.N[k]
         /\ \A t \in Tasks : TaskOK(v, t)
         /\ Frame(w, v, n)
         /\ \A k \in Nodes \ {m} : Own(v, k) = Own(w, k) /\ \A t \in Own(w, k) : v.T[t] = w.T[t]
         /\ \A k \in Nodes \ {m} : Known(w, k) => Known(v, k)
         /\ \A t \in Own(v, m) :
              /\ t \in Own(w, m)
              /\ t # w.N[m].task => v.T[t] = w.T[t]
              /\ t = w.N[m].task /\ w.T[t].st # "planning" =>
                   w.T[t].st = "turn" /\ v.T[t].st = "turn" /\ v.T[t].aborted
<1> DEFINE x == w.N[m].task
<1>0. m \in Nodes /\ x \in Tasks \cup {0} /\ n \in Fam(n) /\ Fam(n) \subseteq Nodes
  BY Families DEF World, NodeRun
<1>1. /\ v.N = [w.N EXCEPT ![m] = [@ EXCEPT !.task = 0]] /\ v.T = Interrupted(w.T, x) /\ v.Q = w.Q
      /\ v = [N |-> v.N, T |-> v.T, Q |-> v.Q]
  BY DEF Released, World
<1>2. v.N \in [Nodes -> NodeRun]
  <2>1. w.N \in [Nodes -> NodeRun] /\ w.N[m] \in NodeRun
    BY <1>0 DEF World
  <2>2. [w.N[m] EXCEPT !.task = 0] \in NodeRun
    BY <2>1 DEF NodeRun
  <2> QED
    BY <1>1, <2>1, <2>2
<1>3. /\ \A k \in Nodes \ {m} : v.N[k] = w.N[k]
      /\ v.N[m] = [w.N[m] EXCEPT !.task = 0]
      /\ \A k \in Nodes : v.N[k].reused = w.N[k].reused /\ v.N[k].outcome = w.N[k].outcome
  <2>1. w.N \in [Nodes -> NodeRun] /\ v.N[m] = [w.N[m] EXCEPT !.task = 0]
    BY <1>0, <1>1 DEF World
  <2>2. \A k \in Nodes \ {m} : v.N[k] = w.N[k]
    BY <1>0, <1>1, <2>1
  <2>3. v.N[m].reused = w.N[m].reused /\ v.N[m].outcome = w.N[m].outcome
    BY <1>0, <2>1 DEF NodeRun
  <2> QED
    BY <2>1, <2>2, <2>3
<1>4. CASE x = 0
  <2>1. v.T = w.T
    BY <1>1, <1>4 DEF Interrupted
  <2>2. v \in World
    BY <1>1, <1>2, <2>1 DEF World
  <2>3. Frame(w, v, n)
    BY <1>0, <1>1, <1>3, <2>1 DEF Frame
  <2>4. \A t \in Tasks : TaskOK(v, t)
    BY <2>1 DEF TaskOK
  <2> QED
    BY <1>1, <1>3, <1>4, <2>1, <2>2, <2>3, <2>4, EngineAssumption DEF Own, Tasks, Known
<1>5. CASE x \in Tasks
  <2>1. w.T \in [Tasks -> Task]
    BY DEF World
  <2>2. /\ v.T \in [Tasks -> Task] /\ \A t \in Tasks : t # x => v.T[t] = w.T[t]
        /\ w.T[x].st = "planning" => v.T[x] = [w.T[x] EXCEPT !.st = "cut"]
        /\ w.T[x].st = "turn" => v.T[x] = [w.T[x] EXCEPT !.aborted = TRUE]
        /\ w.T[x].st \notin {"planning", "turn"} => v.T[x] = Gone
    BY <1>1, <1>5, <2>1, InterruptIs
  <2>3. v \in World
    BY <1>1, <1>2, <2>2 DEF World
  <2>4. w.T[x].st # "none" => w.T[x].node = m /\ ~w.T[x].old
    BY <1>5, <2>1, EngineAssumption DEF Known, Own, Tasks
  <2>5. v.T[x].st # "none" => /\ w.T[x].st # "none" /\ v.T[x].node = w.T[x].node
                              /\ v.T[x].old = w.T[x].old
                              /\ w.T[x].st # "planning" =>
                                   w.T[x].st = "turn" /\ v.T[x].st = "turn" /\ v.T[x].aborted
                              /\ w.T[x].st = "planning" => v.T[x].st = "cut" /\ v.T[x].aborted = w.T[x].aborted
    <3>1. w.T[x] \in Task
      BY <1>5, <2>1
    <3> QED
      BY <2>2, <3>1 DEF Gone, Task
  <2>6. \A t \in Tasks : TaskOK(v, t)
    <3>1. TaskOK(v, x)
      <4>1. CASE v.T[x].st = "none"
        <5>1. w.T[x].st # "planning" /\ w.T[x].st # "turn"
          BY <2>2, <4>1, <1>5, <2>1 DEF Task
        <5> QED
          BY <2>2, <4>1, <5>1 DEF TaskOK, Gone
      <4>2. CASE v.T[x].st # "none"
        BY <1>0, <1>5, <2>4, <2>5, <4>2, <2>1 DEF TaskOK, Task
      <4> QED
        BY <4>1, <4>2
    <3>2. \A t \in Tasks \ {x} : TaskOK(v, t)
      BY <2>2 DEF TaskOK
    <3> QED
      BY <3>1, <3>2
  <2>7. \A t \in Tasks : v.T[t] = w.T[t] \/ (OfFam(w, n, t) /\ OfFam(v, n, t))
    <3>1. OfFam(w, n, x)
      BY <2>4 DEF OfFam
    <3>2. OfFam(v, n, x)
      BY <2>4, <2>5 DEF OfFam
    <3> QED
      BY <2>2, <3>1, <3>2
  <2>8. Frame(w, v, n)
    BY <1>0, <1>1, <1>3, <2>2, <2>5, <2>7 DEF Frame
  <2>9. ASSUME NEW k \in Nodes \ {m} PROVE Own(v, k) = Own(w, k) /\ \A t \in Own(w, k) : v.T[t] = w.T[t]
    <3>1. x \notin Own(w, k) /\ x \notin Own(v, k)
      BY <2>4, <2>5 DEF Own
    <3>2. \A t \in Tasks \ {x} : t \in Own(v, k) <=> t \in Own(w, k)
      BY <2>2 DEF Own
    <3>3. Own(v, k) \subseteq Tasks /\ Own(w, k) \subseteq Tasks
      BY DEF Own
    <3> QED
      BY <2>2, <3>1, <3>2, <3>3
  <2>10. \A t \in Own(v, m) :
              /\ t \in Own(w, m)
              /\ t # x => v.T[t] = w.T[t]
              /\ t = x /\ w.T[t].st # "planning" =>
                   w.T[t].st = "turn" /\ v.T[t].st = "turn" /\ v.T[t].aborted
    BY <2>2, <2>4, <2>5 DEF Own
  <2>11. ASSUME NEW k \in Nodes \ {m}, Known(w, k) PROVE Known(v, k)
    <3>1. v.N[k] = w.N[k] /\ w.N[k].task \in Tasks \cup {0}
      BY <1>3 DEF World, NodeRun
    <3>2. CASE w.N[k].task = x
      BY <2>2, <2>5, <2>9, <2>11, <3>1, <3>2 DEF Known
    <3>3. CASE w.N[k].task # x
      BY <2>2, <2>9, <2>11, <3>1, <3>3 DEF Known
    <3> QED
      BY <3>2, <3>3
  <2> QED
    BY <1>1, <1>3, <2>3, <2>6, <2>8, <2>9, <2>10, <2>11
<1> QED
  BY <1>0, <1>4, <1>5

(* More events tell of m that it is x, and of the others what was told.      *)
Adds(Q, R, m, x) ==
  \A l : Tells(R, l, m, x) /\ \A k, y : k # m /\ Tells(Q, l, k, y) => Tells(R, l, k, y)

LEMMA Appends ==
  ASSUME NEW Q \in Seq(Event), NEW e \in Event, NEW R, R = Append(Q, e)
  PROVE  R \in Seq(Event) /\ Adds(Q, R, e.id, e.state)
<1>1. /\ R \in Seq(Event) /\ Len(R) = Len(Q) + 1 /\ Len(Q) \in Nat /\ DOMAIN R = 1 .. Len(Q) + 1
      /\ \A i \in 1 .. Len(Q) : R[i] = Q[i]
      /\ R[Len(Q) + 1] = e /\ DOMAIN Q = 1 .. Len(Q)
  BY AppendProperties
<1>2. ASSUME NEW l, NEW m, NEW x, m # e.id, Tells(Q, l, m, x) PROVE Tells(R, l, m, x)
  <2>1. ASSUME NEW i \in DOMAIN Q, LastTells(Q, m, i), Q[i].state = x PROVE LastTells(R, m, i) /\ R[i].state = x /\ i \in DOMAIN R
    BY <1>1, <1>2, <2>1 DEF LastTells
  <2>2. CASE (\A i \in DOMAIN Q : Q[i].id # m) /\ l.last[m] = x
    <3>1. \A i \in DOMAIN R : R[i].id # m
      BY <1>1, <1>2, <2>2
    <3> QED
      BY <2>2, <3>1 DEF Tells
  <2> QED
    BY <1>2, <2>1, <2>2 DEF Tells
<1>3. LastTells(R, e.id, Len(Q) + 1)
  BY <1>1 DEF LastTells
<1>4. \A l : Tells(R, l, e.id, e.state)
  BY <1>1, <1>3 DEF Tells
<1> QED
  BY <1>1, <1>2, <1>4 DEF Adds

(* A node is settled and the events say so.                                 *)
Ended(w, m, out, e) == [w EXCEPT !.N[m] = Terminated(@, out), !.Q = Append(@, e)]

LEMMA EndedIs ==
  ASSUME NEW w \in World, NEW m \in Nodes, NEW out \in Settled, NEW e \in Event,
         e.id = m, e.state = out, NEW v, v = Ended(w, m, out, e)
  PROVE  /\ v \in World /\ v.T = w.T
         /\ v.N[m] = Terminated(w.N[m], out) /\ \A k \in Nodes \ {m} : v.N[k] = w.N[k]
         /\ Adds(w.Q, v.Q, m, out)
<1>1. v.T = w.T /\ v.N = [w.N EXCEPT ![m] = Terminated(w.N[m], out)] /\ v.Q = Append(w.Q, e)
      /\ v = [N |-> v.N, T |-> v.T, Q |-> v.Q]
  BY DEF World, Ended
<1>2. w.N \in [Nodes -> NodeRun] /\ w.T \in [Tasks -> Task] /\ w.Q \in Seq(Event)
  BY DEF World
<1>3. Terminated(w.N[m], out) \in NodeRun
  BY <1>2, Ends
<1>4. v.N \in [Nodes -> NodeRun]
  BY <1>1, <1>2, <1>3
<1>5. v.Q \in Seq(Event)
  BY <1>1, <1>2, Appends
<1>6. v \in World
  BY <1>1, <1>2, <1>4, <1>5 DEF World
<1> QED
  BY <1>1, <1>2, <1>6, Appends

(* A judge that is not driven.                                             *)
JudgeRests(w, n, s, l) ==
  Judge[n] # None =>
    LET r == w.N[Judge[n]] IN
    /\ NodeOK(w, Judge[n], s) /\ Heard(w, Judge[n], l)
    /\ r.pc \in {"idle", "end"} /\ (Terminal(r) <=> r.pc = "end")
    /\ r.outcome = "succeeded" => Terminal(r) \/ Resur(w, Judge[n])

Aborted(w, m) == \A t \in Own(w, m) : w.T[t].st = "turn" /\ w.T[t].aborted

LEMMA Settles ==
  ASSUME NEW w \in World, NEW l, NEW s, NEW n \in Nodes, ~IsJudge(n), NEW out \in Settled,
         w.N[n].outcome # "succeeded", One(w, n), Aborted(w, n), JudgeRests(w, n, s, l),
         NEW v, v = SettledNode(w, n, out)
  PROVE  /\ v \in World /\ v.T = w.T /\ Frame(w, v, n) /\ FamOK(v, n, s, l)
         /\ v.N[n].st = out
<1> DEFINE j == Judge[n]
<1>1. PICK e \in Event :
        e = [id |-> n, state |-> out, ver |-> w.N[n].seen, verdict |-> w.N[n].verdict]
  <2>1. w.N[n].seen \in Nat /\ w.N[n].verdict \in Verdicts \cup {None}
    BY DEF World, NodeRun
  <2>2. [id |-> n, state |-> out, ver |-> w.N[n].seen, verdict |-> w.N[n].verdict] \in Event
    BY <2>1 DEF Event
  <2> QED
    BY <2>2
<1>11. e.id = n /\ e.state = out
  BY <1>1
<1>0. PICK x : x = Ended(w, n, out, e)
  OBVIOUS
<1>2. /\ x \in World /\ x.T = w.T
      /\ x.N[n] = Terminated(w.N[n], out) /\ \A k \in Nodes \ {n} : x.N[k] = w.N[k]
      /\ Adds(w.Q, x.Q, n, out)
  BY <1>0, <1>11, EndedIs
<1>12. /\ \A h, k, y : k # n /\ Tells(w.Q, h, k, y) => Tells(x.Q, h, k, y)
       /\ Tells(x.Q, l, n, out)
  BY <1>2 DEF Adds
<1>3. v = IF j = None THEN x ELSE Mirrored(x, n, out)
  BY <1>0, <1>1 DEF SettledNode, Ended
<1>4. w.N \in [Nodes -> NodeRun] /\ w.N[n] \in NodeRun
  BY DEF World
<1>5. PICK r \in NodeRun : r = Terminated(w.N[n], out)
  BY <1>4, Ends
<1>6. /\ Terminal(r) /\ r.st = out /\ r.outcome = out /\ r.pc = "end"
      /\ r.task = 0 /\ ~r.open /\ r.turn = "none" /\ ~r.killed /\ ~r.armed
      /\ r.flag = w.N[n].flag /\ r.own = w.N[n].own /\ r.reused = w.N[n].reused
  BY <1>4, <1>5, Ends
<1>7. x.N[n] = r /\ \A k \in Nodes \ {n} : x.N[k] = w.N[k]
  BY <1>2, <1>4, <1>5
<1>8. ASSUME NEW y, y.T = w.T, y.N[n] = r PROVE NodeOK(y, n, s) /\ MainOK(y, n)
  <2>1. Own(y, n) = Own(w, n) /\ y.N[n] = r /\ y.T = w.T
    BY <1>8 DEF Own
  <2>2. NodeOK(y, n, s)
    BY <1>6, <2>1 DEF NodeOK, One, Known, Place, Aborted
  <2> QED
    BY <1>6, <2>1, <2>2 DEF MainOK
<1>9. CASE j = None
  <2>1. v = x /\ Fam(n) = {n}
    BY <1>3, <1>9 DEF Fam
  <2>2. FamOK(v, n, s, l)
    <3>1. NodeOK(v, n, s) /\ MainOK(v, n)
      BY <1>2, <1>7, <1>8, <2>1
    <3>2. Heard(v, n, l)
      BY <1>6, <1>7, <1>12, <2>1 DEF Heard
    <3> QED
      BY <1>9, <2>1, <3>1, <3>2 DEF FamOK
  <2>3. Frame(w, v, n)
    BY <1>2, <1>6, <1>7, <1>12, <2>1 DEF Frame
  <2> QED
    BY <1>2, <1>6, <1>7, <2>1, <2>2, <2>3
<1>10. CASE j # None
  <2>1. j \in Nodes /\ IsJudge(j) /\ Owner(j) = n /\ j # n /\ Fam(n) = {n, j}
    BY <1>10, Judged DEF Fam
  <2>2. PICK how \in Settled : v = SettledJudge(x, j, how)
    BY <1>3, <1>10 DEF Mirrored, Settled
  <2>3. x.N[j] = w.N[j] /\ Own(x, j) = Own(w, j)
    BY <1>2, <1>7, <2>1 DEF Own
  <2>4. /\ NodeOK(w, j, s) /\ Heard(w, j, l) /\ w.N[j].pc \in {"idle", "end"}
        /\ Terminal(w.N[j]) <=> w.N[j].pc = "end"
        /\ w.N[j].outcome = "succeeded" => Terminal(w.N[j]) \/ Resur(w, j)
    BY <1>10 DEF JudgeRests
  <2>5. ASSUME NEW y \in World, y.T = w.T, y.N[n] = r, Terminal(y.N[j]), y.N[j].pc = "end",
               NodeOK(y, j, s), Heard(y, j, l), Heard(y, n, l)
        PROVE  FamOK(y, n, s, l)
    <3>1. JudgeOK(y, n, j)
      BY <1>6, <2>5 DEF JudgeOK
    <3> QED
      BY <1>8, <2>1, <2>5, <3>1 DEF FamOK
  <2>6. CASE Terminal(w.N[j])
    <3>1. v = x
      BY <2>2, <2>3, <2>6 DEF SettledJudge
    <3>2. NodeOK(v, j, s)
      <4>1. Known(w, j) /\ (Excused(w, j, s) <=> Excused(v, j, s))
        BY <1>6, <1>7, <2>1, <2>3, <2>4, <3>1 DEF NodeOK, Excused
      <4>2. Known(v, j)
        BY <1>2, <2>3, <3>1, <4>1 DEF Known
      <4> QED
        BY <1>2, <2>1, <2>3, <2>4, <3>1, <4>1, <4>2, NodeKeeps
    <3>3. Heard(v, j, l) /\ Heard(v, n, l)
      BY <1>12, <1>6, <1>7, <2>1, <2>3, <2>4, <3>1 DEF Heard
    <3>4. FamOK(v, n, s, l)
      BY <1>2, <1>7, <2>3, <2>4, <2>5, <2>6, <3>1, <3>2, <3>3
    <3>5. Frame(w, v, n)
      BY <1>2, <1>12, <1>6, <1>7, <2>1, <2>3, <3>1 DEF Frame
    <3> QED
      BY <1>2, <1>6, <1>7, <3>1, <3>4, <3>5
  <2>7. CASE ~Terminal(w.N[j])
    <3>0. w.N[j] \in NodeRun
      BY <1>4, <2>1
    <3>1. PICK f \in Event : f = [id |-> j, state |-> how, ver |-> 0, verdict |-> x.N[j].verdict]
      <4>1. x.N[j].verdict \in Verdicts \cup {None}
        BY <2>3, <3>0 DEF NodeRun
      <4>2. [id |-> j, state |-> how, ver |-> 0, verdict |-> x.N[j].verdict] \in Event
        BY <2>1, <4>1 DEF Event
      <4> QED
        BY <4>2
    <3>13. f.id = j /\ f.state = how
      BY <3>1
    <3>2. v = Ended(x, j, how, f)
      BY <2>2, <2>3, <2>7, <3>1 DEF SettledJudge, Ended
    <3>3. /\ v \in World /\ v.T = x.T
          /\ v.N[j] = Terminated(x.N[j], how) /\ \A k \in Nodes \ {j} : v.N[k] = x.N[k]
          /\ Adds(x.Q, v.Q, j, how)
      BY <1>2, <2>1, <3>13, <3>2, EndedIs
    <3>14. /\ \A h, k, y : k # j /\ Tells(x.Q, h, k, y) => Tells(v.Q, h, k, y)
           /\ Tells(v.Q, l, j, how)
      BY <3>3 DEF Adds
    <3>4. PICK q \in NodeRun : q = Terminated(w.N[j], how)
      BY <3>0, Ends
    <3>5. /\ Terminal(q) /\ q.st = how /\ q.outcome = how /\ q.pc = "end"
          /\ q.task = 0 /\ ~q.open /\ q.turn = "none"
          /\ q.flag = w.N[j].flag /\ q.reused = w.N[j].reused
      BY <3>0, <3>4, Ends
    <3>6. x.N \in [Nodes -> NodeRun]
      BY <1>2 DEF World
    <3>7. v.N[j] = q /\ v.N[n] = r /\ \A k \in Nodes \ {n, j} : v.N[k] = w.N[k]
      BY <1>7, <2>1, <2>3, <3>3, <3>4, <3>6
    <3>8. Own(v, j) = {}
      <4>1. Own(v, j) = Own(w, j)
        BY <1>2, <3>3 DEF Own
      <4> QED
        BY <2>4, <2>7, <4>1 DEF NodeOK, Place
    <3>9. NodeOK(v, j, s)
      BY <3>5, <3>7, <3>8 DEF NodeOK, One, Known
    <3>10. Heard(v, j, l) /\ Heard(v, n, l)
      BY <1>12, <1>6, <2>1, <3>14, <3>5, <3>7 DEF Heard
    <3>11. FamOK(v, n, s, l)
      BY <1>2, <2>5, <3>3, <3>5, <3>7, <3>9, <3>10
    <3>12. Frame(w, v, n)
      <4>1. \A m \in Nodes \ Fam(n) :
               v.N[m] = w.N[m] /\ \A h, y : Tells(w.Q, h, m, y) => Tells(v.Q, h, m, y)
        BY <1>12, <2>1, <3>14, <3>7
      <4>2. \A m \in Fam(n) :
               /\ v.N[m].reused = w.N[m].reused
               /\ w.N[m].outcome = "succeeded" => v.N[m].outcome = "succeeded" \/ Resur(w, m)
        BY <1>6, <2>1, <2>4, <2>7, <3>5, <3>7
      <4>3. v.T = w.T
        BY <1>2, <3>3
      <4> QED
        BY <4>1, <4>2, <4>3 DEF Frame
    <3> QED
      BY <1>2, <1>6, <3>3, <3>7, <3>11, <3>12
  <2> QED
    BY <2>6, <2>7
<1> QED
  BY <1>9, <1>10

LEMMA RestsKeep ==
  ASSUME NEW u, NEW v, NEW l, NEW s, NEW n \in Nodes, ~IsJudge(n), JudgeRests(u, n, s, l),
         Judge[n] # None =>
           /\ v.N[Judge[n]] = u.N[Judge[n]] /\ Own(v, Judge[n]) = Own(u, Judge[n])
           /\ \A t \in Own(u, Judge[n]) : v.T[t] = u.T[t]
           /\ Known(u, Judge[n]) => Known(v, Judge[n]),
         v.N[n].flag = u.N[n].flag, v.N[n].reused = u.N[n].reused, v.Q = u.Q
  PROVE  JudgeRests(v, n, s, l)
<1> DEFINE j == Judge[n]
<1>1. CASE j = None
  BY <1>1 DEF JudgeRests
<1>2. CASE j # None
  <2>1. j \in Nodes /\ IsJudge(j) /\ Owner(j) = n
    BY <1>2, Judged
  <2>2. Excused(u, j, s) = Excused(v, j, s)
    BY <1>2, <2>1 DEF Excused
  <2>3. NodeOK(u, j, s) /\ Known(v, j)
    BY <1>2 DEF JudgeRests, NodeOK
  <2>4. NodeOK(v, j, s)
    BY <1>2, <2>1, <2>2, <2>3, NodeKeeps
  <2>5. Resur(v, j) = Resur(u, j) /\ (Heard(u, j, l) => Heard(v, j, l))
    BY <1>2, <2>1 DEF Resur, Heard
  <2> QED
    BY <1>2, <2>4, <2>5 DEF JudgeRests
<1> QED
  BY <1>1, <1>2

(* A node whose task, if any, it may interrupt.                             *)
Loose(w, m) == \A t \in Own(w, m) : w.N[m].task = t /\ w.T[t].st # "planning"

LEMMA Halts ==
  ASSUME NEW w \in World, NEW l, NEW s, NEW n \in Nodes, ~IsJudge(n), NEW out \in Settled,
         w.N[n].outcome # "succeeded", Loose(w, n), Known(w, n), JudgeRests(w, n, s, l),
         \A t \in Tasks : TaskOK(w, t), NEW v, v = Halted(w, n, out)
  PROVE  /\ v \in World /\ \A t \in Tasks : TaskOK(v, t)
         /\ Frame(w, v, n) /\ FamOK(v, n, s, l) /\ v.N[n].st = out
<1>1. PICK x : x = Released(w, n)
  OBVIOUS
<1>2. n \in Fam(n)
  BY Families
<1>3. /\ x \in World /\ x.Q = w.Q
      /\ x.N[n] = [w.N[n] EXCEPT !.task = 0] /\ \A k \in Nodes \ {n} : x.N[k] = w.N[k]
      /\ \A t \in Tasks : TaskOK(x, t)
      /\ Frame(w, x, n)
      /\ \A k \in Nodes \ {n} : Own(x, k) = Own(w, k) /\ \A t \in Own(w, k) : x.T[t] = w.T[t]
      /\ \A k \in Nodes \ {n} : Known(w, k) => Known(x, k)
      /\ \A t \in Own(x, n) :
           /\ t \in Own(w, n)
           /\ t # w.N[n].task => x.T[t] = w.T[t]
           /\ t = w.N[n].task /\ w.T[t].st # "planning" => x.T[t].st = "turn" /\ x.T[t].aborted
  BY <1>1, <1>2, Releases
<1>4. One(x, n) /\ Aborted(x, n)
  BY <1>3 DEF One, Aborted, Loose
<1>5. w.N \in [Nodes -> NodeRun]
  BY DEF World
<1>6. /\ x.N[n].outcome = w.N[n].outcome /\ x.N[n].flag = w.N[n].flag /\ x.N[n].reused = w.N[n].reused
      /\ \A k \in Nodes \ {n} : x.N[k] = w.N[k]
  BY <1>3, <1>5 DEF NodeRun
<1>7. JudgeRests(x, n, s, l)
  <2>1. Judge[n] # None => Judge[n] \in Nodes \ {n}
    BY Judged
  <2> QED
    BY <1>3, <1>6, <2>1, RestsKeep
<1>8. v = SettledNode(x, n, out)
  BY <1>1 DEF Halted
<1>9. /\ v \in World /\ v.T = x.T /\ Frame(x, v, n) /\ FamOK(v, n, s, l)
      /\ v.N[n].st = out
  <2>1. x \in World /\ x.N[n].outcome # "succeeded"
    BY <1>3, <1>6
  <2> HIDE <1>3, <1>6
  <2> QED
    BY <1>4, <1>7, <1>8, <2>1, Settles
<1>10. \A t \in Tasks : TaskOK(v, t)
  BY <1>3, <1>9 DEF TaskOK
<1> QED
  BY <1>3, <1>9, <1>10, FrameComposes

(* The judge of a node that goes on has not been settled, unless it was      *)
(* reused.                                                                 *)
Fresh(w, n) ==
  Judge[n] # None =>
    LET r == w.N[Judge[n]] IN
    /\ r.st = "succeeded" => r.reused
    /\ Terminal(r) => r.reused /\ r.st = "succeeded" /\ Own(w, Judge[n]) = {}

LEMMA GoesOn ==
  ASSUME NEW v, NEW l, NEW s, NEW n \in Nodes, ~IsJudge(n), JudgeRests(v, n, s, l), Fresh(v, n),
         NodeOK(v, n, s), MainOK(v, n), v.N[n].pc # "end"
  PROVE  FamOK(v, n, s, l)
<1>1. ~Terminal(v.N[n]) /\ ~v.N[n].reused /\ Heard(v, n, l)
  BY DEF MainOK, Heard
<1>2. ASSUME Judge[n] # None PROVE JudgeOK(v, n, Judge[n]) /\ NodeOK(v, Judge[n], s) /\ Heard(v, Judge[n], l)
  <2>1. Owner(Judge[n]) = n
    BY <1>2, Judged
  <2> QED
    BY <1>1, <1>2, <2>1 DEF JudgeRests, Fresh, JudgeOK, Resur
<1> QED
  BY <1>1, <1>2 DEF FamOK, Fam

(* A spawn is planned for the node.                                        *)
Begun(w, v, m) ==
  /\ v \in World /\ v.Q = w.Q /\ \A t \in Tasks : TaskOK(v, t)
  /\ v.N[m] = [w.N[m] EXCEPT !.open = TRUE, !.turn = "none", !.pc = "plan",
                             !.says = None, !.seen = 0]
  /\ \A k \in Nodes \ {m} : v.N[k] = w.N[k]
  /\ \A k \in Nodes \ {m} : Own(v, k) = Own(w, k) /\ \A t \in Own(w, k) : v.T[t] = w.T[t]
  /\ \A k \in Nodes : Known(w, k) => Known(v, k)
  /\ Own(w, m) = {} => One(v, m) /\ \A t \in Own(v, m) : v.T[t].st = "planning"

LEMMA SpawnIs ==
  ASSUME NEW w \in World, NEW n \in Nodes, ~IsJudge(n), NEW m \in Fam(n),
         FreeIds(w) # {}, \A t \in Tasks : TaskOK(w, t), NEW v, v = Spawned(w, m)
  PROVE  Frame(w, v, n) /\ Begun(w, v, m)
<1>0. m \in Nodes /\ n \in Fam(n) /\ Fam(n) \subseteq Nodes
  BY Families
<1>1. PICK t \in FreeIds(w) :
        v = [w EXCEPT !.N[m] = [@ EXCEPT !.open = TRUE, !.turn = "none", !.pc = "plan",
                                        !.says = None, !.seen = 0],
                      !.T[t] = [Gone EXCEPT !.node = m, !.st = "planning"]]
  BY DEF Spawned
<1>2. t \in Tasks /\ w.T[t].st = "none" /\ \A k \in Nodes : w.N[k].task # t
  BY DEF FreeIds
<1>3. w.N \in [Nodes -> NodeRun] /\ w.T \in [Tasks -> Task] /\ w.Q \in Seq(Event)
  BY DEF World
<1>4. PICK x : x = [Gone EXCEPT !.node = m, !.st = "planning"]
  OBVIOUS
<1>5. x \in Task /\ x.node = m /\ x.st = "planning" /\ ~x.aborted /\ ~x.old
  BY <1>0, <1>4 DEF Gone, Task
<1>6. PICK r : r = [w.N[m] EXCEPT !.open = TRUE, !.turn = "none", !.pc = "plan",
                                  !.says = None, !.seen = 0]
  OBVIOUS
<1>7. w.N[m] \in NodeRun
  BY <1>0, <1>3
<1>8. r \in NodeRun /\ r.reused = w.N[m].reused /\ r.outcome = w.N[m].outcome /\ r.task = w.N[m].task
  BY <1>6, <1>7 DEF NodeRun
<1>9. v = [N |-> [w.N EXCEPT ![m] = r], T |-> [w.T EXCEPT ![t] = x], Q |-> w.Q]
  BY <1>1, <1>4, <1>6 DEF World
<1>10. /\ v.Q = w.Q /\ v.N[m] = r /\ \A k \in Nodes \ {m} : v.N[k] = w.N[k]
       /\ v.T[t] = x /\ \A y \in Tasks \ {t} : v.T[y] = w.T[y]
  BY <1>0, <1>2, <1>3, <1>9
<1>11. v \in World
  <2>1. [w.N EXCEPT ![m] = r] \in [Nodes -> NodeRun] /\ [w.T EXCEPT ![t] = x] \in [Tasks -> Task]
    BY <1>3, <1>5, <1>8
  <2> QED
    BY <1>3, <1>9, <2>1 DEF World
<1>12. \A y \in Tasks : TaskOK(v, y)
  BY <1>0, <1>5, <1>10 DEF TaskOK
<1>13. Frame(w, v, n)
  <2>1. \A k \in Fam(n) : v.N[k].reused = w.N[k].reused /\ v.N[k].outcome = w.N[k].outcome
    BY <1>0, <1>8, <1>10
  <2>2. \A y \in Tasks : v.T[y] = w.T[y] \/ (OfFam(w, n, y) /\ OfFam(v, n, y))
    BY <1>2, <1>5, <1>10 DEF OfFam
  <2> QED
    BY <1>0, <1>2, <1>10, <2>1, <2>2 DEF Frame
<1>14. \A k \in Nodes \ {m} : Own(v, k) = Own(w, k) /\ \A y \in Own(w, k) : v.T[y] = w.T[y]
  BY <1>2, <1>5, <1>10 DEF Own
<1>15. ASSUME NEW k \in Nodes, Known(w, k) PROVE Known(v, k)
  <2>1. v.N[k].task = w.N[k].task /\ w.N[k].task # t /\ w.N[k].task \in Tasks \cup {0}
    BY <1>2, <1>3, <1>8, <1>10 DEF NodeRun
  <2>2. CASE w.N[k].task = 0
    BY <2>1, <2>2 DEF Known
  <2>3. CASE w.N[k].task # 0
    BY <1>10, <1>15, <2>1, <2>3 DEF Known, Own
  <2> QED
    BY <2>2, <2>3
<1>16. ASSUME Own(w, m) = {} PROVE One(v, m) /\ \A y \in Own(v, m) : v.T[y].st = "planning"
  <2>1. Own(v, m) = {t}
    BY <1>2, <1>5, <1>10, <1>16 DEF Own
  <2> QED
    BY <1>5, <1>10, <2>1 DEF One
<1> QED
  BY <1>6, <1>10, <1>11, <1>12, <1>13, <1>14, <1>15, <1>16 DEF Begun

(* A node is changed, its task at most forgotten.                           *)
Put(w, m, r) == [w EXCEPT !.N[m] = r]

LEMMA PutIs ==
  ASSUME NEW w \in World, NEW n \in Nodes, ~IsJudge(n), NEW m \in Fam(n), NEW r \in NodeRun,
         r.task = w.N[m].task \/ r.task = 0, r.reused = w.N[m].reused,
         w.N[m].outcome = "succeeded" => r.outcome = "succeeded" \/ Resur(w, m),
         \A t \in Tasks : TaskOK(w, t), NEW v, v = Put(w, m, r)
  PROVE  /\ v \in World /\ v.Q = w.Q /\ v.T = w.T
         /\ v.N[m] = r /\ \A k \in Nodes \ {m} : v.N[k] = w.N[k]
         /\ \A t \in Tasks : TaskOK(v, t)
         /\ Frame(w, v, n)
         /\ \A k \in Nodes : Own(v, k) = Own(w, k) /\ (Known(w, k) => Known(v, k))
<1>1. m \in Nodes
  BY Families
<1>2. w.N \in [Nodes -> NodeRun] /\ w.T \in [Tasks -> Task] /\ w.Q \in Seq(Event)
  BY DEF World
<1>3. v = [N |-> [w.N EXCEPT ![m] = r], T |-> w.T, Q |-> w.Q]
  BY DEF Put, World
<1>4. v.Q = w.Q /\ v.T = w.T /\ v.N[m] = r /\ \A k \in Nodes \ {m} : v.N[k] = w.N[k]
  BY <1>1, <1>2, <1>3
<1>5. v \in World
  BY <1>1, <1>2, <1>3 DEF World
<1>6. Frame(w, v, n)
  BY <1>1, <1>4, Families DEF Frame
<1>7. \A k \in Nodes : Own(v, k) = Own(w, k)
  BY <1>4 DEF Own
<1>8. \A k \in Nodes : Known(w, k) => Known(v, k)
  BY <1>4, <1>7 DEF Known
<1>9. \A t \in Tasks : TaskOK(v, t)
  BY <1>4 DEF TaskOK
<1> QED
  BY <1>4, <1>5, <1>6, <1>7, <1>8, <1>9

LEMMA Rests ==
  ASSUME NEW w, NEW l, NEW s, NEW n \in Nodes, ~IsJudge(n), FamOK(w, n, s, l),
         w.N[n].pc # "judge"
  PROVE  /\ JudgeRests(w, n, s, l)
         /\ w.N[n].pc # "end" /\ ~GivesUp(w.N[n]) => Fresh(w, n)
<1>1. ASSUME Judge[n] # None
      PROVE  JudgeOK(w, n, Judge[n]) /\ NodeOK(w, Judge[n], s) /\ Heard(w, Judge[n], l) /\ Owner(Judge[n]) = n
             /\ IsJudge(Judge[n])
  BY <1>1, Judged DEF FamOK, Fam
<1>2. JudgeRests(w, n, s, l)
  BY <1>1 DEF JudgeRests, JudgeOK, Resur
<1>3. w.N[n].pc # "end" /\ ~GivesUp(w.N[n]) => Fresh(w, n)
  BY <1>1 DEF Fresh, JudgeOK
<1> QED
  BY <1>2, <1>3

(* A node that may begin an attempt.                                       *)
Steady(w, n) ==
  LET r == w.N[n] IN
  /\ ~Terminal(r) /\ ~r.reused /\ r.outcome # "succeeded" /\ ~r.armed
  /\ Known(w, n) /\ Fresh(w, n)
  /\ \A d \in Deps[n] : Good(w, d)

LEMMA MainSpawns ==
  ASSUME NEW w \in World, NEW l, NEW s, NEW n \in Nodes, ~IsJudge(n), JudgeRests(w, n, s, l),
         Steady(w, n), Own(w, n) = {}, FreeIds(w) # {}, \A t \in Tasks : TaskOK(w, t),
         NEW v, v = Spawned(w, n)
  PROVE  /\ v \in World /\ \A t \in Tasks : TaskOK(v, t)
         /\ Frame(w, v, n) /\ FamOK(v, n, s, l)
<1>1. n \in Fam(n)
  BY Families
<1>2. /\ v \in World /\ v.Q = w.Q /\ \A t \in Tasks : TaskOK(v, t)
      /\ Frame(w, v, n)
      /\ v.N[n] = [w.N[n] EXCEPT !.open = TRUE, !.turn = "none", !.pc = "plan",
                                 !.says = None, !.seen = 0]
      /\ \A k \in Nodes \ {n} : v.N[k] = w.N[k]
      /\ \A k \in Nodes \ {n} : Own(v, k) = Own(w, k) /\ \A t \in Own(w, k) : v.T[t] = w.T[t]
      /\ \A k \in Nodes : Known(w, k) => Known(v, k)
      /\ Own(w, n) = {} => One(v, n) /\ \A t \in Own(v, n) : v.T[t].st = "planning"
  <2>1. Frame(w, v, n) /\ Begun(w, v, n)
    BY <1>1, SpawnIs
  <2> QED
    BY <2>1 DEF Begun
<1>3. w.N[n] \in NodeRun
  BY DEF World
<1>4. /\ v.N[n].pc = "plan" /\ v.N[n].turn = "none" /\ v.N[n].open
      /\ v.N[n].st = w.N[n].st /\ v.N[n].outcome = w.N[n].outcome /\ v.N[n].reused = w.N[n].reused
      /\ v.N[n].armed = w.N[n].armed /\ v.N[n].flag = w.N[n].flag
  BY <1>2, <1>3 DEF NodeRun
<1>5. NodeOK(v, n, s)
  BY <1>2, <1>4 DEF NodeOK, Place, Steady
<1>6. MainOK(v, n)
  <2>1. \A d \in Deps[n] : Good(v, d)
    BY <1>2, FrameReused, GraphAssumption DEF Steady
  <2> QED
    BY <1>4, <2>1 DEF MainOK, Steady, Terminal
<1>7. Judge[n] # None => Judge[n] \in Nodes \ {n}
  BY Judged
<1>8. JudgeRests(v, n, s, l)
  BY <1>2, <1>4, <1>7, RestsKeep
<1>9. Fresh(v, n)
  BY <1>2, <1>7 DEF Steady, Fresh
<1>10. FamOK(v, n, s, l)
  BY <1>4, <1>5, <1>6, <1>8, <1>9, GoesOn
<1> QED
  BY <1>2, <1>10

LEMMA Loops ==
  ASSUME NEW w \in World, NEW l, NEW n \in Nodes, ~IsJudge(n), JudgeRests(w, n, stopping, l),
         Steady(w, n), Own(w, n) = {}, FreeIds(w) # {}, \A t \in Tasks : TaskOK(w, t),
         NEW v, v = Looped(w, n, Spawned(w, n))
  PROVE  /\ v \in World /\ \A t \in Tasks : TaskOK(v, t)
         /\ Frame(w, v, n) /\ FamOK(v, n, stopping, l)
<1>1. Loose(w, n) /\ Known(w, n) /\ w.N[n].outcome # "succeeded"
  BY DEF Loose, Steady
<1>2. ASSUME NEW out \in Settled, v = Halted(w, n, out)
      PROVE  /\ v \in World /\ \A t \in Tasks : TaskOK(v, t)
             /\ Frame(w, v, n) /\ FamOK(v, n, stopping, l)
  BY <1>1, <1>2, Halts
<1>3. ASSUME v = Spawned(w, n)
      PROVE  /\ v \in World /\ \A t \in Tasks : TaskOK(v, t)
             /\ Frame(w, v, n) /\ FamOK(v, n, stopping, l)
  BY <1>3, MainSpawns
<1>4. v = Halted(w, n, "cancelled") \/ v = Halted(w, n, "failed") \/ v = Spawned(w, n)
  BY DEF Looped
<1> QED
  BY <1>2, <1>3, <1>4 DEF Settled

(* The task of a node whose gate is checked is parked, or over.              *)
LEMMA Parked ==
  ASSUME NEW w \in World, NEW m \in Nodes, NEW s, NodeOK(w, m, s),
         w.N[m].pc \in {"gate", "judge", "verdict"}
  PROVE  /\ w.N[m].task \in Tasks /\ w.T[w.N[m].task].st \in {"parked", "none"}
         /\ \A t \in Own(w, m) : t = w.N[m].task /\ w.T[t].st = "parked"
         /\ w.T[w.N[m].task].st = "none" => Own(w, m) = {}
         /\ w.T[w.N[m].task].st = "parked" => w.N[m].task \in Own(w, m)
         /\ Loose(w, m)
<1>1. w.N[m].task \in Tasks
  BY DEF NodeOK, World, NodeRun
<1>2. \A t \in Own(w, m) : t = w.N[m].task /\ w.T[t].st = "parked"
  BY DEF NodeOK, Place
<1>3. w.T[w.N[m].task].st = "none" \/ w.N[m].task \in Own(w, m)
  BY <1>1, EngineAssumption DEF NodeOK, Known, Tasks
<1> QED
  BY <1>1, <1>2, <1>3 DEF Loose

LEMMA WarmIs ==
  ASSUME NEW w \in World, NEW l, NEW s, NEW n \in Nodes, ~IsJudge(n), FamOK(w, n, s, l),
         w.N[n].pc \in {"gate", "verdict"}, ~GivesUp(w.N[n]), \A t \in Tasks : TaskOK(w, t),
         NEW v, v = Warmed(w, n)
  PROVE  /\ v \in World /\ \A t \in Tasks : TaskOK(v, t)
         /\ Frame(w, v, n) /\ FamOK(v, n, s, l)
<1>1. NodeOK(w, n, s) /\ n \in Fam(n) /\ MainOK(w, n)
  BY Families DEF FamOK
<1>2. PICK t \in Tasks : t = w.N[n].task
  BY <1>1, Parked
<1>3. PICK k \in {"warm", "none"} : k = IF w.T[t].st = "parked" THEN "warm" ELSE w.T[t].st
  BY <1>1, <1>2, Parked
<1>4. PICK h \in {"none", "broken"} : h = IF w.T[t].st = "parked" THEN "none" ELSE "broken"
  OBVIOUS
<1>5. PICK r : r = [w.N[n] EXCEPT !.open = TRUE, !.pc = "turn", !.st = "running",
                                  !.says = None, !.seen = 0, !.turn = h]
  OBVIOUS
<1>6. w.N \in [Nodes -> NodeRun] /\ w.T \in [Tasks -> Task] /\ w.Q \in Seq(Event)
  BY DEF World
<1>7. PICK x : x = [w.T[t] EXCEPT !.st = k]
  OBVIOUS
<1>8. v = [N |-> [w.N EXCEPT ![n] = r], T |-> [w.T EXCEPT ![t] = x], Q |-> w.Q]
  BY <1>2, <1>3, <1>4, <1>5, <1>6, <1>7 DEF Warmed, World
<1>9. w.N[n] \in NodeRun /\ w.T[t] \in Task
  BY <1>6
<1>10. /\ r \in NodeRun /\ r.open /\ r.pc = "turn" /\ r.st = "running" /\ r.turn = h
       /\ r.task = t /\ r.outcome = w.N[n].outcome /\ r.reused = w.N[n].reused
       /\ r.armed = w.N[n].armed /\ r.flag = w.N[n].flag
  <2>1. r \in NodeRun
    <3>1. PICK q \in NodeRun : q = [w.N[n] EXCEPT !.open = TRUE, !.pc = "turn", !.st = "running"]
      BY <1>9 DEF NodeRun
    <3>2. PICK p \in NodeRun : p = [q EXCEPT !.says = None, !.seen = 0]
      BY DEF NodeRun
    <3>3. [p EXCEPT !.turn = h] \in NodeRun
      BY <1>4 DEF NodeRun
    <3>4. r = [p EXCEPT !.turn = h]
      BY <1>5, <1>9, <3>1, <3>2 DEF NodeRun
    <3> QED
      BY <3>3, <3>4
  <2>2. /\ r.open /\ r.pc = "turn" /\ r.st = "running" /\ r.turn = h
        /\ r.task = w.N[n].task /\ r.outcome = w.N[n].outcome /\ r.reused = w.N[n].reused
        /\ r.armed = w.N[n].armed /\ r.flag = w.N[n].flag
    BY <1>5, <1>9 DEF NodeRun
  <2> QED
    BY <1>2, <2>1, <2>2
<1>11. x \in Task /\ x.st = k /\ x.node = w.T[t].node /\ x.old = w.T[t].old /\ x.aborted = w.T[t].aborted
  BY <1>3, <1>7, <1>9 DEF Task
<1>12. /\ v.Q = w.Q /\ v.N[n] = r /\ \A m \in Nodes \ {n} : v.N[m] = w.N[m]
       /\ v.T[t] = x /\ \A y \in Tasks \ {t} : v.T[y] = w.T[y]
  BY <1>6, <1>8
<1>13. v \in World
  <2>1. [w.N EXCEPT ![n] = r] \in [Nodes -> NodeRun] /\ [w.T EXCEPT ![t] = x] \in [Tasks -> Task]
    BY <1>6, <1>10, <1>11
  <2> QED
    BY <1>6, <1>8, <2>1 DEF World
<1>14. w.T[t].st = "parked" \/ (w.T[t].st = "none" /\ Own(w, n) = {})
  BY <1>1, <1>2, Parked
<1>15. \A y \in Tasks : TaskOK(v, y)
  BY <1>3, <1>11, <1>12, <1>14 DEF TaskOK
<1>16. w.T[t].st = "parked" => w.T[t].node = n /\ ~w.T[t].old
  BY <1>1, <1>2, Parked DEF Own
<1>17. \A m \in Nodes : Own(v, m) = Own(w, m)
  BY <1>3, <1>11, <1>12, <1>14 DEF Own
<1>18. \A m \in Nodes \ {n} : \A y \in Own(w, m) : v.T[y] = w.T[y]
  BY <1>12, <1>14, <1>16 DEF Own
<1>19. \A m \in Nodes : Known(w, m) => Known(v, m)
  <2> SUFFICES ASSUME NEW m \in Nodes, Known(w, m), v.N[m].task # 0
               PROVE  v.T[v.N[m].task].st = "none" \/ v.N[m].task \in Own(v, m)
    BY DEF Known
  <2>1. v.N[m].task = w.N[m].task /\ w.N[m].task \in Tasks \cup {0}
    <3>1. v.N[m].task = w.N[m].task
      BY <1>2, <1>10, <1>12
    <3>2. w.N[m] \in NodeRun
      BY <1>6
    <3> QED
      BY <3>1, <3>2 DEF NodeRun
  <2>2. w.T[w.N[m].task].st = "none" \/ w.N[m].task \in Own(w, m)
    BY <2>1 DEF Known
  <2> QED
    BY <1>3, <1>11, <1>12, <1>14, <1>17, <2>1, <2>2
<1>20. Frame(w, v, n)
  <2>1. \A y \in Tasks : v.T[y] = w.T[y] \/ (OfFam(w, n, y) /\ OfFam(v, n, y))
    BY <1>1, <1>3, <1>11, <1>12, <1>14, <1>16 DEF OfFam
  <2>2. \A y \in Tasks : ~(w.T[y].st = "none" /\ v.T[y].st # "none")
    BY <1>3, <1>11, <1>12, <1>14
  <2>3. \A m \in Fam(n) : v.N[m].reused = w.N[m].reused /\ v.N[m].outcome = w.N[m].outcome
    BY <1>10, <1>12, Families
  <2> QED
    BY <1>1, <1>12, <2>1, <2>2, <2>3 DEF Frame
<1>21. NodeOK(v, n, s)
  <2>1. \A y \in Own(v, n) : y = t /\ w.T[y].st = "parked"
    BY <1>1, <1>2, <1>17, Parked
  <2>2. \A y \in Own(v, n) : Place(v, n, y)
    BY <1>3, <1>10, <1>11, <1>12, <2>1 DEF Place
  <2>3. One(v, n) /\ Known(v, n)
    BY <1>1, <1>19, <2>1 DEF One, NodeOK
  <2>4. t # 0
    BY EngineAssumption DEF Tasks
  <2>5. h = "broken" => Own(v, n) = {}
    BY <1>4, <1>14, <1>17
  <2> QED
    BY <1>4, <1>10, <1>12, <2>2, <2>3, <2>4, <2>5 DEF NodeOK
<1>22. MainOK(v, n)
  <2>1. \A d \in Deps[n] : Good(v, d)
    BY <1>1, <1>20, FrameReused, GraphAssumption DEF MainOK
  <2> QED
    BY <1>1, <1>10, <1>12, <2>1 DEF MainOK, Terminal, Settled
<1>23. Judge[n] # None => Judge[n] \in Nodes \ {n}
  BY Judged
<1>24. JudgeRests(w, n, s, l) /\ Fresh(w, n)
  BY Rests
<1>25. JudgeRests(v, n, s, l)
  BY <1>10, <1>12, <1>17, <1>18, <1>19, <1>23, <1>24, RestsKeep
<1>26. Fresh(v, n)
  BY <1>12, <1>17, <1>23, <1>24 DEF Fresh
<1>27. FamOK(v, n, s, l)
  BY <1>10, <1>12, <1>21, <1>22, <1>25, <1>26, GoesOn
<1> QED
  BY <1>13, <1>15, <1>20, <1>27

LEMMA Rejects ==
  ASSUME NEW w \in World, NEW l, NEW n \in Nodes, ~IsJudge(n), FamOK(w, n, stopping, l),
         w.N[n].pc \in {"gate", "verdict"}, ~GivesUp(w.N[n]), \A t \in Tasks : TaskOK(w, t),
         NEW kind, NEW late, NEW v, v = Rejected(w, n, kind, late)
  PROVE  /\ v \in World /\ \A t \in Tasks : TaskOK(v, t)
         /\ Frame(w, v, n) /\ FamOK(v, n, stopping, l)
<1>1. NodeOK(w, n, stopping) /\ MainOK(w, n) /\ JudgeRests(w, n, stopping, l)
  BY Families, Rests DEF FamOK
<1>2. Loose(w, n) /\ Known(w, n) /\ w.N[n].outcome # "succeeded"
  BY <1>1, Parked DEF NodeOK, MainOK
<1>3. v = Halted(w, n, "cancelled") \/ v = Halted(w, n, "failed") \/ v = Warmed(w, n)
  BY DEF Rejected, Looped
<1>4. ASSUME NEW out \in Settled, v = Halted(w, n, out)
      PROVE  /\ v \in World /\ \A t \in Tasks : TaskOK(v, t)
             /\ Frame(w, v, n) /\ FamOK(v, n, stopping, l)
  BY <1>1, <1>2, <1>4, Halts
<1>5. ASSUME v = Warmed(w, n)
      PROVE  /\ v \in World /\ \A t \in Tasks : TaskOK(v, t)
             /\ Frame(w, v, n) /\ FamOK(v, n, stopping, l)
  BY <1>5, WarmIs
<1> QED
  BY <1>3, <1>4, <1>5 DEF Settled

(* The task of a node is over, and the node is changed.                     *)
Drop(w, t, m, r) == [w EXCEPT !.T[t] = Gone, !.N[m] = r]

Dropped(w, v, t, m, r) ==
  /\ v \in World /\ v.Q = w.Q /\ \A y \in Tasks : TaskOK(v, y)
  /\ v.N[m] = r /\ \A k \in Nodes \ {m} : v.N[k] = w.N[k]
  /\ \A k \in Nodes \ {m} : Own(v, k) = Own(w, k) /\ \A y \in Own(w, k) : v.T[y] = w.T[y]
  /\ Own(v, m) = Own(w, m) \ {t}
  /\ \A k \in Nodes : Known(w, k) => Known(v, k)

LEMMA DropIs ==
  ASSUME NEW w \in World, NEW n \in Nodes, ~IsJudge(n), NEW m \in Fam(n), NEW t \in Own(w, m),
         NEW r \in NodeRun, r.task = w.N[m].task, r.reused = w.N[m].reused,
         w.N[m].outcome = "succeeded" => r.outcome = "succeeded" \/ Resur(w, m),
         \A y \in Tasks : TaskOK(w, y), NEW v, v = Drop(w, t, m, r)
  PROVE  Frame(w, v, n) /\ Dropped(w, v, t, m, r)
<1>1. m \in Nodes /\ t \in Tasks /\ w.T[t].node = m /\ ~w.T[t].old /\ w.T[t].st # "none"
  BY Families DEF Own
<1>2. w.N \in [Nodes -> NodeRun] /\ w.T \in [Tasks -> Task] /\ w.Q \in Seq(Event)
  BY DEF World
<1>3. v = [N |-> [w.N EXCEPT ![m] = r], T |-> [w.T EXCEPT ![t] = Gone], Q |-> w.Q]
  BY DEF Drop, World
<1>4. /\ v.Q = w.Q /\ v.N[m] = r /\ \A k \in Nodes \ {m} : v.N[k] = w.N[k]
      /\ v.T[t] = Gone /\ \A y \in Tasks \ {t} : v.T[y] = w.T[y]
  BY <1>1, <1>2, <1>3
<1>5. Gone \in Task /\ Gone.st = "none" /\ ~Gone.aborted
  BY DEF Gone, Task
<1>6. v \in World
  <2>1. [w.N EXCEPT ![m] = r] \in [Nodes -> NodeRun] /\ [w.T EXCEPT ![t] = Gone] \in [Tasks -> Task]
    BY <1>2, <1>5
  <2> QED
    BY <1>2, <1>3, <2>1 DEF World
<1>7. \A y \in Tasks : TaskOK(v, y)
  BY <1>4, <1>5 DEF TaskOK
<1>8. \A k \in Nodes \ {m} : Own(v, k) = Own(w, k) /\ \A y \in Own(w, k) : v.T[y] = w.T[y]
  BY <1>1, <1>4, <1>5 DEF Own
<1>9. Own(v, m) = Own(w, m) \ {t}
  BY <1>1, <1>4, <1>5 DEF Own
<1>10. ASSUME NEW k \in Nodes, Known(w, k) PROVE Known(v, k)
  <2>1. v.N[k].task = w.N[k].task
    BY <1>4
  <2>2. w.N[k] \in NodeRun
    BY <1>2
  <2>3. w.N[k].task \in Tasks \cup {0}
    BY <2>2 DEF NodeRun
  <2>4. Own(v, k) = Own(w, k) \ {t} \/ Own(v, k) = Own(w, k)
    BY <1>8, <1>9
  <2> QED
    BY <1>4, <1>5, <1>10, <2>1, <2>3, <2>4 DEF Known
<1>11. Frame(w, v, n)
  <2>1. \A y \in Tasks : v.T[y] = w.T[y] \/ (OfFam(w, n, y) /\ OfFam(v, n, y))
    BY <1>1, <1>4, <1>5 DEF OfFam
  <2>2. \A y \in Tasks : ~(w.T[y].st = "none" /\ v.T[y].st # "none")
    BY <1>4, <1>5
  <2>3. \A k \in Fam(n) :
          /\ v.N[k].reused = w.N[k].reused
          /\ w.N[k].outcome = "succeeded" => v.N[k].outcome = "succeeded" \/ Resur(w, k)
    BY <1>4, Families
  <2> QED
    BY <1>1, <1>4, <2>1, <2>2, <2>3, Families DEF Frame
<1> QED
  BY <1>4, <1>6, <1>7, <1>8, <1>9, <1>10, <1>11 DEF Dropped

LEMMA Accepts ==
  ASSUME NEW w \in World, NEW l, NEW s, NEW n \in Nodes, ~IsJudge(n), FamOK(w, n, s, l),
         w.N[n].pc \in {"gate", "verdict"}, ~GivesUp(w.N[n]), \A t \in Tasks : TaskOK(w, t),
         w.N[n].task = node[n].task, w.T = task, NEW v, v = Accepting(w, n)
  PROVE  /\ v \in World /\ \A t \in Tasks : TaskOK(v, t)
         /\ Frame(w, v, n) /\ FamOK(v, n, s, l)
<1>1. NodeOK(w, n, s) /\ MainOK(w, n) /\ JudgeRests(w, n, s, l) /\ Fresh(w, n) /\ n \in Fam(n)
  BY Families, Rests DEF FamOK
<1>2. Loose(w, n) /\ Known(w, n) /\ One(w, n) /\ w.N[n].outcome # "succeeded"
  BY <1>1, Parked DEF NodeOK, MainOK
<1>3. CASE w.N[n].killed
  <2>1. v = Halted(w, n, "failed") /\ "failed" \in Settled
    BY <1>3 DEF Accepting, Settled
  <2> QED
    BY <1>1, <1>2, <2>1, Halts
<1>4. CASE ~w.N[n].killed /\ ~Completes(n)
  <2>1. v = SettledNode(w, n, "cancelled") /\ "cancelled" \in Settled
    BY <1>4 DEF Accepting, Settled
  <2>2. w.N[n].task \in Tasks /\ w.T[w.N[n].task].st # "parked" /\ \A t \in Own(w, n) : t = w.N[n].task /\ w.T[t].st = "parked"
    BY <1>1, <1>4, Parked, EngineAssumption DEF Completes, Tasks
  <2>3. Aborted(w, n)
    BY <2>2 DEF Aborted
  <2>4. /\ v \in World /\ v.T = w.T /\ Frame(w, v, n) /\ FamOK(v, n, s, l)
    BY <1>1, <1>2, <2>1, <2>3, Settles
  <2> QED
    BY <2>4 DEF TaskOK
<1>5. CASE ~w.N[n].killed /\ Completes(n)
  <2>1. PICK t : t = w.N[n].task
    OBVIOUS
  <2>2. PICK r : r = [w.N[n] EXCEPT !.pc = "accept", !.verdict = "pass"]
    OBVIOUS
  <2>3. t \in Own(w, n)
    BY <1>1, <1>5, <2>1, Parked DEF Completes
  <2>4. w.N[n] \in NodeRun
    BY DEF World
  <2>5. /\ r \in NodeRun /\ r.pc = "accept" /\ r.task = w.N[n].task /\ r.reused = w.N[n].reused
        /\ r.outcome = w.N[n].outcome /\ r.st = w.N[n].st /\ r.open = w.N[n].open
        /\ r.turn = w.N[n].turn /\ r.armed = w.N[n].armed /\ r.killed = w.N[n].killed
        /\ r.flag = w.N[n].flag
    BY <2>2, <2>4 DEF NodeRun, Verdicts
  <2>6. v = Drop(w, t, n, r)
    BY <1>5, <2>1, <2>2 DEF Accepting, Drop
  <2>7. Frame(w, v, n) /\ Dropped(w, v, t, n, r)
    BY <1>1, <2>3, <2>5, <2>6, DropIs
  <2>8. /\ v \in World /\ v.Q = w.Q /\ \A y \in Tasks : TaskOK(v, y)
        /\ v.N[n] = r /\ \A k \in Nodes \ {n} : v.N[k] = w.N[k]
        /\ \A k \in Nodes \ {n} : Own(v, k) = Own(w, k) /\ \A y \in Own(w, k) : v.T[y] = w.T[y]
        /\ Own(v, n) = Own(w, n) \ {t}
        /\ \A k \in Nodes : Known(w, k) => Known(v, k)
    BY <2>7 DEF Dropped
  <2>9. Own(v, n) = {}
    BY <1>2, <2>3, <2>8 DEF One
  <2>10. NodeOK(v, n, s)
    <3>1. Known(v, n) /\ One(v, n)
      BY <1>2, <2>8, <2>9 DEF One
    <3>2. r.turn # "completed" /\ ~r.open
      BY <1>1, <2>5 DEF NodeOK
    <3> QED
      BY <2>5, <2>8, <2>9, <3>1, <3>2 DEF NodeOK
  <2>11. MainOK(v, n)
    <3>1. \A d \in Deps[n] : Good(v, d)
      BY <1>1, <2>7, FrameReused, GraphAssumption DEF MainOK
    <3> QED
      BY <1>1, <1>5, <2>5, <2>8, <3>1 DEF MainOK, Terminal
  <2>12. Judge[n] # None => Judge[n] \in Nodes \ {n}
    BY Judged
  <2>13. JudgeRests(v, n, s, l)
    BY <1>1, <2>5, <2>8, <2>12, RestsKeep
  <2>14. Fresh(v, n)
    BY <1>1, <2>8, <2>12 DEF Fresh
  <2>15. FamOK(v, n, s, l)
    BY <2>5, <2>8, <2>10, <2>11, <2>13, <2>14, GoesOn
  <2> QED
    BY <2>7, <2>8, <2>15
<1> QED
  BY <1>3, <1>4, <1>5

-----------------------------------------------------------------------------
(* Judges: their owner waits for them.                                      *)

(* The floor is with the judge of n, which is not settled by this run.       *)
OnFloor(w, n, s, l) ==
  LET r == w.N[Judge[n]] IN
  /\ Judge[n] # None
  /\ w.N[n].pc = "judge" /\ MainOK(w, n) /\ NodeOK(w, n, s)
  /\ Heard(w, Judge[n], l) /\ One(w, Judge[n]) /\ Known(w, Judge[n])
  /\ Terminal(r) => r.reused /\ r.st = "succeeded"
  /\ r.outcome = "succeeded" => Terminal(r) \/ r.reused

(* No gate of it is open.                                                   *)
Quiet(w, m, s) ==
  LET r == w.N[m] IN
  /\ ~r.open /\ r.turn # "completed"
  /\ r.turn = "broken" => Own(w, m) = {} \/ Excused(w, m, s)

(* A judge leaves a turn that was aborted, or what it spawned when it was    *)
(* cancelled.                                                              *)
Leaves(w, j) ==
  \A t \in Own(w, j) : w.N[j].flag \/ (w.T[t].st = "turn" /\ w.T[t].aborted)
MayLeave(w, j) ==
  \A t \in Own(w, j) : w.N[j].flag \/ (w.N[j].task = t /\ w.T[t].st # "planning")

LEMMA JudgeSpawns ==
  ASSUME NEW w \in World, NEW l, NEW s, NEW n \in Nodes, OnFloor(w, n, s, l),
         Own(w, Judge[n]) = {}, \A d \in Deps[Judge[n]] : d = n \/ Good(w, d),
         FreeIds(w) # {}, \A t \in Tasks : TaskOK(w, t),
         NEW v, v = Spawned(w, Judge[n])
  PROVE  /\ v \in World /\ \A t \in Tasks : TaskOK(v, t)
         /\ Frame(w, v, n) /\ FamOK(v, n, s, l)
<1>1. PICK j \in Nodes : j = Judge[n]
  BY Judged DEF OnFloor
<1>2. j # None /\ j # n /\ Owner(j) = n /\ IsJudge(j) /\ ~IsJudge(n) /\ Fam(n) = {n, j}
  BY <1>1, Judged DEF OnFloor, Fam
<1>3. Frame(w, v, n) /\ Begun(w, v, j)
  <2>1. j \in Fam(n) /\ v = Spawned(w, j)
    BY <1>1, <1>2
  <2> QED
    BY <1>2, <2>1, SpawnIs
<1>4. /\ v \in World /\ v.Q = w.Q /\ \A t \in Tasks : TaskOK(v, t)
      /\ v.N[j] = [w.N[j] EXCEPT !.open = TRUE, !.turn = "none", !.pc = "plan",
                                 !.says = None, !.seen = 0]
      /\ v.N[n] = w.N[n]
      /\ Own(v, n) = Own(w, n) /\ \A t \in Own(w, n) : v.T[t] = w.T[t]
      /\ \A k \in Nodes : Known(w, k) => Known(v, k)
      /\ One(v, j) /\ \A t \in Own(v, j) : v.T[t].st = "planning"
  BY <1>1, <1>2, <1>3 DEF Begun
<1>5. w.N[j] \in NodeRun
  BY DEF World
<1>6. /\ v.N[j].pc = "plan" /\ v.N[j].turn = "none"
      /\ v.N[j].st = w.N[j].st /\ v.N[j].outcome = w.N[j].outcome /\ v.N[j].reused = w.N[j].reused
      /\ v.N[j].flag = w.N[j].flag
  BY <1>4, <1>5 DEF NodeRun
<1>7. NodeOK(v, n, s)
  <2>1. Known(w, n) /\ NodeOK(w, n, s)
    BY DEF OnFloor, NodeOK
  <2>2. Known(v, n) /\ (Excused(w, n, s) => Excused(v, n, s))
    BY <1>2, <1>4, <2>1 DEF Excused
  <2> QED
    BY <1>4, <2>1, <2>2, NodeKeeps
<1>8. NodeOK(v, j, s)
  <2>1. Known(v, j)
    BY <1>1, <1>4 DEF OnFloor
  <2> QED
    BY <1>4, <1>6, <2>1 DEF NodeOK, Place
<1>9. \A d \in Nodes : Good(w, d) => Good(v, d)
  BY <1>2, <1>3, FrameReused
<1>10. MainOK(v, n)
  BY <1>4, <1>9, GraphAssumption DEF OnFloor, MainOK
<1>11. ~Terminal(w.N[n]) /\ ~w.N[n].reused
  BY DEF OnFloor, MainOK
<1>12. Heard(v, j, l) /\ Heard(v, n, l)
  BY <1>1, <1>4, <1>6, <1>11 DEF OnFloor, Heard, Terminal
<1>13. JudgeOK(v, n, j)
  <2>1. \A d \in Deps[j] : d = n \/ Good(v, d)
    BY <1>1, <1>9, GraphAssumption
  <2>2. Terminal(w.N[j]) => w.N[j].reused /\ w.N[j].st = "succeeded"
    BY <1>1 DEF OnFloor
  <2>3. w.N[j].outcome = "succeeded" => Terminal(w.N[j]) \/ w.N[j].reused
    BY <1>1 DEF OnFloor
  <2>4. w.N[n].pc = "judge"
    BY DEF OnFloor
  <2> QED
    BY <1>4, <1>6, <1>11, <2>1, <2>2, <2>3, <2>4 DEF JudgeOK, Terminal, Settled
<1>14. FamOK(v, n, s, l)
  BY <1>1, <1>2, <1>7, <1>8, <1>10, <1>12, <1>13 DEF FamOK
<1> QED
  BY <1>3, <1>4, <1>14

(* The judge hands the floor back.                                         *)
Handed(w, v, n, says) ==
  /\ v \in World /\ v.Q = w.Q /\ v.T = w.T /\ \A t \in Tasks : TaskOK(v, t)
  /\ v.N[n] = [w.N[n] EXCEPT !.pc = "verdict", !.says = says]
  /\ v.N[Judge[n]] = [w.N[Judge[n]] EXCEPT !.pc = IF Terminal(w.N[Judge[n]]) THEN "end" ELSE "idle"]
  /\ \A k \in Nodes : Own(v, k) = Own(w, k) /\ (Known(w, k) => Known(v, k))

LEMMA ReturnIs ==
  ASSUME NEW w \in World, NEW n \in Nodes, Judge[n] # None,
         NEW says \in Verdicts \cup {"blocked", "cancel"}, \A t \in Tasks : TaskOK(w, t),
         NEW v, v = Returned(w, Judge[n], says)
  PROVE  Frame(w, v, n) /\ Handed(w, v, n, says)
<1>1. PICK j \in Nodes : j = Judge[n]
  BY Judged
<1>2. j # n /\ Owner(j) = n /\ ~IsJudge(n) /\ j \in Fam(n) /\ n \in Fam(n)
  BY <1>1, Judged DEF Fam
<1>3. w.N \in [Nodes -> NodeRun] /\ w.N[j] \in NodeRun /\ w.N[n] \in NodeRun
  BY DEF World
<1>4. PICK q : q = [w.N[j] EXCEPT !.pc = IF Terminal(w.N[j]) THEN "end" ELSE "idle"]
  OBVIOUS
<1>5. q \in NodeRun /\ q.task = w.N[j].task /\ q.reused = w.N[j].reused /\ q.outcome = w.N[j].outcome
  <2>1. PICK pc \in {"end", "idle"} : pc = IF Terminal(w.N[j]) THEN "end" ELSE "idle"
    OBVIOUS
  <2> QED
    BY <1>3, <1>4, <2>1 DEF NodeRun
<1>6. PICK p : p = [w.N[n] EXCEPT !.pc = "verdict", !.says = says]
  OBVIOUS
<1>7. p \in NodeRun /\ p.task = w.N[n].task /\ p.reused = w.N[n].reused /\ p.outcome = w.N[n].outcome
  BY <1>3, <1>6 DEF NodeRun
<1>8. PICK x : x = Put(w, j, q)
  OBVIOUS
<1>9. /\ x \in World /\ x.Q = w.Q /\ x.T = w.T
      /\ x.N[j] = q /\ \A k \in Nodes \ {j} : x.N[k] = w.N[k]
      /\ \A t \in Tasks : TaskOK(x, t)
      /\ Frame(w, x, n)
      /\ \A k \in Nodes : Own(x, k) = Own(w, k) /\ (Known(w, k) => Known(x, k))
  BY <1>2, <1>5, <1>8, PutIs
<1>10. v = Put(x, n, p)
  <2>1. v = [w EXCEPT !.N = [w.N EXCEPT ![j] = q, ![n] = p]]
    BY <1>1, <1>2, <1>3, <1>4, <1>6 DEF Returned, World
  <2>2. x = [w EXCEPT !.N = [w.N EXCEPT ![j] = q]]
    BY <1>8 DEF Put
  <2>3. Put(x, n, p) = [x EXCEPT !.N = [x.N EXCEPT ![n] = p]]
    BY DEF Put
  <2> QED
    BY <2>1, <2>2, <2>3 DEF World
<1>11. p.task = x.N[n].task /\ p.reused = x.N[n].reused /\ p.outcome = x.N[n].outcome
  BY <1>2, <1>7, <1>9
<1>12. /\ v \in World /\ v.Q = x.Q /\ v.T = x.T
       /\ v.N[n] = p /\ \A k \in Nodes \ {n} : v.N[k] = x.N[k]
       /\ \A t \in Tasks : TaskOK(v, t)
       /\ Frame(x, v, n)
       /\ \A k \in Nodes : Own(v, k) = Own(x, k) /\ (Known(x, k) => Known(v, k))
  BY <1>2, <1>7, <1>9, <1>10, <1>11, PutIs
<1>13. Frame(w, v, n)
  BY <1>2, <1>9, <1>12, FrameComposes
<1> QED
  BY <1>1, <1>2, <1>4, <1>6, <1>9, <1>12, <1>13 DEF Handed

(* Once the floor is handed back, the owner and the judge are as they were.  *)
Answered(w, v, n, says) == v.N[n] = [w.N[n] EXCEPT !.pc = "verdict", !.says = says]
Hears(v, n, s, l, says) ==
  /\ NodeOK(v, n, s) /\ MainOK(v, n) /\ Heard(v, n, l)
  /\ v.N[n].pc = "verdict" /\ v.N[n].says = says /\ ~v.N[n].reused

LEMMA OwnerHears ==
  ASSUME NEW w, NEW v, NEW l, NEW s, NEW n \in Nodes, w \in World, v \in World, Judge[n] # None,
         w.N[n].pc = "judge", MainOK(w, n), NodeOK(w, n, s), Own(v, n) = Own(w, n),
         \A t \in Own(w, n) : v.T[t] = w.T[t], Known(v, n), Frame(w, v, n),
         NEW says \in Verdicts \cup {"blocked", "cancel"}, Answered(w, v, n, says)
  PROVE  Hears(v, n, s, l, says) /\ v.N[n].flag = w.N[n].flag
<1> USE DEF Answered
<1>1. w.N[n] \in NodeRun /\ ~IsJudge(n)
  BY Judged DEF World
<1>2. /\ v.N[n].pc = "verdict" /\ v.N[n].says = says /\ v.N[n].st = w.N[n].st
      /\ v.N[n].outcome = w.N[n].outcome /\ v.N[n].reused = w.N[n].reused
      /\ v.N[n].task = w.N[n].task /\ v.N[n].open = w.N[n].open /\ v.N[n].turn = w.N[n].turn
      /\ v.N[n].armed = w.N[n].armed /\ v.N[n].flag = w.N[n].flag
  BY <1>1 DEF NodeRun
<1>3. \A t \in Own(w, n) : t = w.N[n].task /\ w.T[t].st = "parked"
  BY Parked
<1>4. NodeOK(v, n, s)
  <2>1. One(v, n) /\ \A t \in Own(v, n) : Place(v, n, t)
    BY <1>2, <1>3 DEF One, Place
  <2>2. v.N[n].task # 0 /\ ~v.N[n].open /\ v.N[n].turn # "completed"
    BY <1>2 DEF NodeOK
  <2>3. v.N[n].turn = "broken" => Own(v, n) = {} \/ Excused(v, n, s)
    BY <1>2, <1>1 DEF NodeOK, Excused
  <2> QED
    BY <1>2, <2>1, <2>2, <2>3 DEF NodeOK
<1>5. ~Terminal(w.N[n]) /\ ~w.N[n].reused
  BY DEF MainOK
<1>6. MainOK(v, n)
  <2>1. \A d \in Deps[n] : Good(v, d)
    BY <1>1, FrameReused, GraphAssumption DEF MainOK
  <2> QED
    BY <1>2, <1>5, <2>1 DEF MainOK, Terminal
<1> QED
  BY <1>2, <1>4, <1>5, <1>6 DEF Hears, Heard, Terminal

LEMMA Yields ==
  ASSUME NEW w \in World, NEW l, NEW s, NEW n \in Nodes, OnFloor(w, n, s, l),
         Quiet(w, Judge[n], s), Leaves(w, Judge[n]), \A t \in Tasks : TaskOK(w, t),
         NEW out \in Settled \ {"succeeded"}, NEW says \in {"blocked", "cancel"},
         NEW v, v = Returned(SettledJudge(w, Judge[n], out), Judge[n], says)
  PROVE  /\ v \in World /\ \A t \in Tasks : TaskOK(v, t)
         /\ Frame(w, v, n) /\ FamOK(v, n, s, l)
<1>1. PICK j \in Nodes : j = Judge[n]
  BY Judged DEF OnFloor
<1>2. /\ j # None /\ j # n /\ Owner(j) = n /\ IsJudge(j) /\ ~IsJudge(n) /\ Fam(n) = {n, j}
      /\ Judge[n] # None
  BY <1>1, Judged DEF OnFloor, Fam
<1>3. w.N \in [Nodes -> NodeRun] /\ w.N[j] \in NodeRun
  BY DEF World
<1>4. /\ w.N[n].pc = "judge" /\ MainOK(w, n) /\ NodeOK(w, n, s)
      /\ Heard(w, j, l) /\ One(w, j) /\ Known(w, j)
      /\ Terminal(w.N[j]) => w.N[j].reused /\ w.N[j].st = "succeeded"
      /\ w.N[j].outcome = "succeeded" => Terminal(w.N[j]) \/ w.N[j].reused
  BY <1>1 DEF OnFloor
<1>5. ~Terminal(w.N[n]) /\ ~w.N[n].reused
  BY <1>4 DEF MainOK
<1>6. PICK x : x = SettledJudge(w, j, out)
  OBVIOUS
<1>7. PICK q \in NodeRun : q = Terminated(w.N[j], out)
  BY <1>3, Ends
<1>8. /\ Terminal(q) /\ q.st = out /\ q.outcome = out /\ q.pc = "end"
      /\ q.task = 0 /\ ~q.open /\ q.turn = "none"
      /\ q.flag = w.N[j].flag /\ q.reused = w.N[j].reused
  BY <1>3, <1>7, Ends
<1>9. /\ x \in World /\ x.T = w.T /\ x.N[n] = w.N[n] /\ Terminal(x.N[j])
      /\ x.N[j].flag = w.N[j].flag /\ x.N[j].reused = w.N[j].reused
      /\ \/ x.N[j] = w.N[j] \/ (x.N[j] = q /\ ~Terminal(w.N[j]))
      /\ Frame(w, x, n) /\ Heard(x, j, l)
  <2>1. CASE Terminal(w.N[j])
    <3>1. x = w
      BY <1>6, <2>1 DEF SettledJudge
    <3>2. Frame(w, w, n)
      BY DEF Frame
    <3> QED
      BY <1>4, <2>1, <3>1, <3>2
  <2>2. CASE ~Terminal(w.N[j])
    <3>1. PICK f \in Event : f = [id |-> j, state |-> out, ver |-> 0, verdict |-> w.N[j].verdict]
      <4>1. w.N[j].verdict \in Verdicts \cup {None}
        BY <1>3 DEF NodeRun
      <4>2. [id |-> j, state |-> out, ver |-> 0, verdict |-> w.N[j].verdict] \in Event
        BY <4>1 DEF Event
      <4> QED
        BY <4>2
    <3>2. f.id = j /\ f.state = out
      BY <3>1
    <3>3. x = Ended(w, j, out, f)
      BY <1>6, <2>2, <3>1 DEF SettledJudge, Ended
    <3>4. /\ x \in World /\ x.T = w.T
          /\ x.N[j] = Terminated(w.N[j], out) /\ \A k \in Nodes \ {j} : x.N[k] = w.N[k]
          /\ Adds(w.Q, x.Q, j, out)
      BY <3>2, <3>3, EndedIs
    <3>5. /\ \A h, k, y : k # j /\ Tells(w.Q, h, k, y) => Tells(x.Q, h, k, y)
          /\ \A h : Tells(x.Q, h, j, out)
      BY <3>4 DEF Adds
    <3>6. x.N[j] = q /\ x.N[n] = w.N[n]
      BY <1>2, <1>7, <3>4
    <3>7. Heard(x, j, l)
      BY <1>8, <3>5, <3>6 DEF Heard
    <3>8. Frame(w, x, n)
      <4>1. \A m \in Nodes \ Fam(n) :
              x.N[m] = w.N[m] /\ \A h, y : Tells(w.Q, h, m, y) => Tells(x.Q, h, m, y)
        BY <1>2, <3>4, <3>5
      <4>2. \A m \in Fam(n) :
               /\ x.N[m].reused = w.N[m].reused
               /\ w.N[m].outcome = "succeeded" => x.N[m].outcome = "succeeded" \/ Resur(w, m)
        BY <1>2, <1>4, <1>5, <1>8, <2>2, <3>6 DEF Resur
      <4> QED
        BY <3>4, <4>1, <4>2 DEF Frame
    <3> QED
      BY <1>8, <2>2, <3>4, <3>6, <3>7, <3>8
  <2> QED
    BY <2>1, <2>2
<1>10. \A t \in Tasks : TaskOK(x, t)
  BY <1>9 DEF TaskOK
<1>11. Frame(x, v, n) /\ Handed(x, v, n, says)
  <2>1. v = Returned(x, Judge[n], says)
    BY <1>1, <1>6
  <2> QED
    BY <1>2, <1>9, <1>10, <2>1, ReturnIs
<1>12. /\ v \in World /\ v.Q = x.Q /\ v.T = x.T /\ \A t \in Tasks : TaskOK(v, t)
       /\ v.N[n] = [w.N[n] EXCEPT !.pc = "verdict", !.says = says]
       /\ v.N[j] = [x.N[j] EXCEPT !.pc = "end"]
       /\ \A k \in Nodes : Own(v, k) = Own(x, k) /\ (Known(x, k) => Known(v, k))
  BY <1>1, <1>9, <1>11 DEF Handed
<1>13. Frame(w, v, n)
  BY <1>2, <1>9, <1>11, FrameComposes
<1>14. \A k \in Nodes : Own(v, k) = Own(w, k)
  BY <1>9, <1>12 DEF Own
<1>15. v.T = w.T
  BY <1>9, <1>12
<1>16. Known(x, n) /\ Known(x, j)
  <2>1. Known(w, n) /\ Known(w, j)
    BY <1>4 DEF NodeOK
  <2>2. \A k \in Nodes : Own(x, k) = Own(w, k)
    BY <1>9 DEF Own
  <2> QED
    BY <1>8, <1>9, <2>1, <2>2 DEF Known
<1>17. Known(v, n) /\ Known(v, j)
  BY <1>12, <1>16
<1>18. /\ NodeOK(v, n, s) /\ MainOK(v, n) /\ Heard(v, n, l)
       /\ v.N[n].pc = "verdict" /\ v.N[n].says = says /\ ~v.N[n].reused
       /\ v.N[n].flag = w.N[n].flag
  <2>1. Answered(w, v, n, says)
    BY <1>12 DEF Answered
  <2>2. Hears(v, n, s, l, says) /\ v.N[n].flag = w.N[n].flag
    BY <1>2, <1>4, <1>12, <1>13, <1>14, <1>15, <1>17, <2>1, OwnerHears
  <2> QED
    BY <2>2 DEF Hears
<1>19. x.N[j] \in NodeRun
  BY <1>9 DEF World
<1>20. /\ v.N[j].pc = "end" /\ v.N[j].st = x.N[j].st /\ v.N[j].outcome = x.N[j].outcome
       /\ v.N[j].open = x.N[j].open /\ v.N[j].turn = x.N[j].turn
       /\ v.N[j].flag = w.N[j].flag /\ v.N[j].reused = w.N[j].reused
  BY <1>9, <1>12, <1>19 DEF NodeRun
<1>21. NodeOK(v, j, s)
  <2>1. One(v, j) /\ Known(v, j)
    BY <1>4, <1>14, <1>17 DEF One
  <2>2. \A t \in Own(v, j) : Place(v, j, t)
    BY <1>1, <1>2, <1>14, <1>15, <1>20 DEF Place, Leaves
  <2>3. ~v.N[j].open /\ v.N[j].turn # "completed"
    BY <1>1, <1>8, <1>9, <1>20 DEF Quiet
  <2>4. v.N[j].turn = "broken" => Own(v, j) = {} \/ Excused(v, j, s)
    BY <1>1, <1>2, <1>8, <1>9, <1>14, <1>18, <1>20 DEF Quiet, Excused
  <2> QED
    BY <1>20, <2>1, <2>2, <2>3, <2>4 DEF NodeOK
<1>22. Heard(v, j, l)
  BY <1>9, <1>12, <1>20 DEF Heard, Terminal
<1>23. JudgeOK(v, n, j)
  <2>1. Terminal(v.N[j])
    BY <1>9, <1>20 DEF Terminal
  <2>2. v.N[j].st = "succeeded" => v.N[j].reused
    BY <1>4, <1>8, <1>9, <1>20 DEF Terminal
  <2> QED
    BY <1>18, <1>20, <2>1, <2>2 DEF JudgeOK, GivesUp
<1>24. FamOK(v, n, s, l)
  BY <1>1, <1>2, <1>18, <1>21, <1>22, <1>23 DEF FamOK
<1> QED
  BY <1>12, <1>13, <1>24

LEMMA FloorReleases ==
  ASSUME NEW w \in World, NEW l, NEW s, NEW n \in Nodes, OnFloor(w, n, s, l),
         \A t \in Tasks : TaskOK(w, t), NEW x, x = Released(w, Judge[n])
  PROVE  /\ x \in World /\ \A t \in Tasks : TaskOK(x, t)
         /\ Frame(w, x, n) /\ OnFloor(x, n, s, l) /\ FreeIds(w) \subseteq FreeIds(x)
         /\ Quiet(w, Judge[n], s) => Quiet(x, Judge[n], s)
         /\ MayLeave(w, Judge[n]) => Leaves(x, Judge[n])
         /\ x.N[Judge[n]].flag = w.N[Judge[n]].flag /\ x.N[n].flag = w.N[n].flag
         /\ (\A t \in Own(w, Judge[n]) : w.N[Judge[n]].task = t /\ w.T[t].st = "parked") =>
              Own(x, Judge[n]) = {}
<1>1. PICK j \in Nodes : j = Judge[n]
  BY Judged DEF OnFloor
<1>2. /\ j # None /\ j # n /\ Owner(j) = n /\ IsJudge(j) /\ ~IsJudge(n) /\ Fam(n) = {n, j}
      /\ Judge[n] # None
  BY <1>1, Judged DEF OnFloor, Fam
<1>3. w.N \in [Nodes -> NodeRun] /\ w.N[j] \in NodeRun
  BY DEF World
<1>4. /\ w.N[n].pc = "judge" /\ MainOK(w, n) /\ NodeOK(w, n, s)
      /\ Heard(w, j, l) /\ One(w, j) /\ Known(w, j)
      /\ Terminal(w.N[j]) => w.N[j].reused /\ w.N[j].st = "succeeded"
      /\ w.N[j].outcome = "succeeded" => Terminal(w.N[j]) \/ w.N[j].reused
  BY <1>1 DEF OnFloor
<1>6. /\ x \in World /\ x.Q = w.Q
      /\ x.N[j] = [w.N[j] EXCEPT !.task = 0] /\ \A k \in Nodes \ {j} : x.N[k] = w.N[k]
      /\ \A t \in Tasks : TaskOK(x, t)
      /\ Frame(w, x, n)
      /\ \A k \in Nodes \ {j} : Own(x, k) = Own(w, k) /\ \A t \in Own(w, k) : x.T[t] = w.T[t]
      /\ \A k \in Nodes \ {j} : Known(w, k) => Known(x, k)
      /\ \A t \in Own(x, j) :
           /\ t \in Own(w, j)
           /\ t # w.N[j].task => x.T[t] = w.T[t]
           /\ t = w.N[j].task /\ w.T[t].st # "planning" =>
                w.T[t].st = "turn" /\ x.T[t].st = "turn" /\ x.T[t].aborted
  <2>1. j \in Fam(n)
    BY <1>2
  <2> QED
    BY <1>1, <1>2, <1>4, <2>1, Releases
<1>7. /\ x.N[j].st = w.N[j].st /\ x.N[j].outcome = w.N[j].outcome /\ x.N[j].reused = w.N[j].reused
      /\ x.N[j].open = w.N[j].open /\ x.N[j].turn = w.N[j].turn /\ x.N[j].flag = w.N[j].flag
      /\ x.N[j].task = 0 /\ x.N[n] = w.N[n]
  BY <1>2, <1>3, <1>6 DEF NodeRun
<1>8. OnFloor(x, n, s, l)
  <2>1. MainOK(x, n)
    <3>1. \A d \in Deps[n] : Good(w, d) => Good(x, d)
      BY <1>2, <1>6, FrameReused, GraphAssumption
    <3> QED
      BY <1>4, <1>7, <3>1 DEF MainOK
  <2>2. NodeOK(x, n, s)
    <3>1. Known(w, n)
      BY <1>4 DEF NodeOK
    <3>2. Known(x, n) /\ Own(x, n) = Own(w, n) /\ \A t \in Own(w, n) : x.T[t] = w.T[t]
      BY <1>2, <1>6, <3>1
    <3>3. Excused(w, n, s) => Excused(x, n, s)
      BY <1>2, <1>7 DEF Excused
    <3> QED
      BY <1>4, <1>7, <3>2, <3>3, NodeKeeps
  <2>3. Heard(x, j, l)
    BY <1>4, <1>6, <1>7 DEF Heard, Terminal
  <2>4. One(x, j) /\ Known(x, j)
    BY <1>4, <1>6, <1>7 DEF One, Known
  <2> QED
    BY <1>1, <1>2, <1>4, <1>7, <2>1, <2>2, <2>3, <2>4 DEF OnFloor, Terminal
<1>9. Quiet(w, Judge[n], s) => Quiet(x, Judge[n], s)
  BY <1>1, <1>2, <1>6, <1>7 DEF Quiet, Excused
<1>10. MayLeave(w, Judge[n]) => Leaves(x, Judge[n])
  BY <1>1, <1>6, <1>7 DEF Leaves, MayLeave
<1>11. FreeIds(w) \subseteq FreeIds(x)
  <2>1. \A t \in Tasks : w.T[t].st = "none" => x.T[t].st = "none"
    <3> SUFFICES ASSUME NEW t \in Tasks, w.T[t].st = "none" PROVE x.T[t].st = "none"
      OBVIOUS
    <3>1. x.T = Interrupted(w.T, w.N[j].task)
      BY <1>1 DEF Released, World
    <3>2. w.T \in [Tasks -> Task] /\ w.N[j].task \in Tasks \cup {0}
      BY <1>3 DEF World, NodeRun
    <3>3. CASE w.N[j].task = 0
      BY <3>1, <3>3 DEF Interrupted
    <3>4. CASE w.N[j].task # 0
      <4>1. PICK y \in Tasks : y = w.N[j].task
        BY <3>2, <3>4
      <4>2. /\ \A z \in Tasks : z # y => Interrupted(w.T, y)[z] = w.T[z]
            /\ w.T[y].st \notin {"planning", "turn"} => Interrupted(w.T, y)[y] = Gone
        BY <3>2, InterruptIs
      <4> QED
        BY <3>1, <4>1, <4>2 DEF Gone
    <3> QED
      BY <3>3, <3>4
  <2>2. \A k \in Nodes : x.N[k].task = w.N[k].task \/ x.N[k].task = 0
    BY <1>6, <1>7
  <2>3. 0 \notin Tasks
    BY EngineAssumption DEF Tasks
  <2> QED
    BY <2>1, <2>2, <2>3 DEF FreeIds
<1>12. (\A t \in Own(w, Judge[n]) : w.N[Judge[n]].task = t /\ w.T[t].st = "parked") =>
              Own(x, Judge[n]) = {}
  BY <1>1, <1>6
<1> QED
  BY <1>1, <1>6, <1>7, <1>8, <1>9, <1>10, <1>11, <1>12

LEMMA GivesUpIs ==
  ASSUME NEW w \in World, NEW l, NEW s, NEW n \in Nodes, OnFloor(w, n, s, l),
         Quiet(w, Judge[n], s), MayLeave(w, Judge[n]), \A t \in Tasks : TaskOK(w, t),
         NEW out \in Settled \ {"succeeded"}, NEW says \in {"blocked", "cancel"},
         NEW v, v = GivenUp(w, Judge[n], out, says)
  PROVE  /\ v \in World /\ \A t \in Tasks : TaskOK(v, t)
         /\ Frame(w, v, n) /\ FamOK(v, n, s, l)
<1>1. ~IsJudge(n)
  BY Judged DEF OnFloor
<1>2. PICK x : x = Released(w, Judge[n])
  OBVIOUS
<1>3. /\ x \in World /\ \A t \in Tasks : TaskOK(x, t)
      /\ Frame(w, x, n) /\ OnFloor(x, n, s, l)
      /\ Quiet(x, Judge[n], s) /\ Leaves(x, Judge[n])
  BY <1>2, FloorReleases
<1>4. v = Returned(SettledJudge(x, Judge[n], out), Judge[n], says)
  BY <1>2 DEF GivenUp
<1>5. /\ v \in World /\ \A t \in Tasks : TaskOK(v, t)
      /\ Frame(x, v, n) /\ FamOK(v, n, s, l)
  BY <1>3, <1>4, Yields
<1> QED
  BY <1>1, <1>3, <1>5, FrameComposes

LEMMA JudgeLoops ==
  ASSUME NEW w \in World, NEW l, NEW n \in Nodes, OnFloor(w, n, stopping, l),
         Quiet(w, Judge[n], stopping), MayLeave(w, Judge[n]), FreeIds(w) # {},
         Excused(w, Judge[n], stopping) \/ Own(w, Judge[n]) = {},
         Excused(w, Judge[n], stopping) \/ \A d \in Deps[Judge[n]] : d = n \/ Good(w, d),
         \A t \in Tasks : TaskOK(w, t), NEW v, v = JudgeLooped(w, Judge[n])
  PROVE  /\ v \in World /\ \A t \in Tasks : TaskOK(v, t)
         /\ Frame(w, v, n) /\ FamOK(v, n, stopping, l)
<1>1. Owner(Judge[n]) = n /\ IsJudge(Judge[n])
  BY Judged DEF OnFloor
<1>2. Excused(w, Judge[n], stopping) <=> Stopped(w, n) \/ w.N[Judge[n]].flag
  BY <1>1 DEF Excused, Stopped
<1>3. ASSUME NEW out \in Settled \ {"succeeded"}, NEW says \in {"blocked", "cancel"},
             v = GivenUp(w, Judge[n], out, says)
      PROVE  /\ v \in World /\ \A t \in Tasks : TaskOK(v, t)
             /\ Frame(w, v, n) /\ FamOK(v, n, stopping, l)
  BY <1>3, GivesUpIs
<1>4. ASSUME v = Spawned(w, Judge[n]), ~Excused(w, Judge[n], stopping)
      PROVE  /\ v \in World /\ \A t \in Tasks : TaskOK(v, t)
             /\ Frame(w, v, n) /\ FamOK(v, n, stopping, l)
  <2>1. Own(w, Judge[n]) = {} /\ \A d \in Deps[Judge[n]] : d = n \/ Good(w, d)
    BY <1>4
  <2> QED
    BY <1>4, <2>1, JudgeSpawns
<1>5. "cancelled" \in Settled \ {"succeeded"} /\ "failed" \in Settled \ {"succeeded"}
  BY DEF Settled
<1>6. CASE Stopped(w, n)
  <2>1. v = GivenUp(w, Judge[n], "cancelled", "cancel")
    BY <1>1, <1>6 DEF JudgeLooped
  <2> QED
    BY <1>3, <1>5, <2>1
<1>7. CASE ~Stopped(w, n)
  <2>1. \/ v = GivenUp(w, Judge[n], "cancelled", "blocked") \/ v = GivenUp(w, Judge[n], "failed", "blocked")
        \/ v = Spawned(w, Judge[n]) /\ ~w.N[Judge[n]].flag
    BY <1>1, <1>7 DEF JudgeLooped
  <2> QED
    BY <1>2, <1>3, <1>4, <1>5, <1>7, <2>1
<1> QED
  BY <1>6, <1>7

(* The gate of a node passed that a judge decides on.                       *)
LEMMA JudgingIs ==
  ASSUME NEW w \in World, NEW l, NEW n \in Nodes, Judge[n] # None, FamOK(w, n, stopping, l),
         w.N[n].pc = "gate", FreeIds(w) # {}, \A t \in Tasks : TaskOK(w, t),
         NEW v, v = Judging(w, n)
  PROVE  /\ v \in World /\ \A t \in Tasks : TaskOK(v, t)
         /\ Frame(w, v, n) /\ FamOK(v, n, stopping, l)
<1>1. PICK j \in Nodes : j = Judge[n]
  BY Judged
<1>2. /\ j # None /\ j # n /\ Owner(j) = n /\ IsJudge(j) /\ ~IsJudge(n) /\ Fam(n) = {n, j}
      /\ n \in Fam(n) /\ j \in Fam(n)
  BY <1>1, Judged DEF Fam
<1>3. w.N \in [Nodes -> NodeRun] /\ w.N[j] \in NodeRun /\ w.N[n] \in NodeRun
  BY DEF World
<1>4. NodeOK(w, n, stopping) /\ MainOK(w, n) /\ JudgeRests(w, n, stopping, l) /\ Fresh(w, n)
  BY <1>2, Rests DEF FamOK, GivesUp
<1>5. PICK p : p = [w.N[n] EXCEPT !.st = "judging", !.pc = "judge"]
  OBVIOUS
<1>6. /\ p \in NodeRun /\ p.task = w.N[n].task /\ p.reused = w.N[n].reused
      /\ p.outcome = w.N[n].outcome /\ p.pc = "judge" /\ p.st = "judging" /\ p.open = w.N[n].open
      /\ p.turn = w.N[n].turn /\ p.armed = w.N[n].armed /\ p.flag = w.N[n].flag
  BY <1>3, <1>5 DEF NodeRun
<1>7. PICK q : q = [w.N[j] EXCEPT !.attempt = 0]
  OBVIOUS
<1>8. /\ q \in NodeRun /\ q.task = w.N[j].task /\ q.reused = w.N[j].reused
      /\ q.outcome = w.N[j].outcome /\ q.pc = w.N[j].pc /\ q.st = w.N[j].st /\ q.open = w.N[j].open
      /\ q.turn = w.N[j].turn /\ q.flag = w.N[j].flag
  BY <1>3, <1>7 DEF NodeRun
<1>9. PICK x : x = Put(w, n, p)
  OBVIOUS
<1>10. /\ x \in World /\ x.Q = w.Q /\ x.T = w.T
       /\ x.N[n] = p /\ \A k \in Nodes \ {n} : x.N[k] = w.N[k]
       /\ \A t \in Tasks : TaskOK(x, t)
       /\ Frame(w, x, n)
       /\ \A k \in Nodes : Own(x, k) = Own(w, k) /\ (Known(w, k) => Known(x, k))
  BY <1>2, <1>6, <1>9, PutIs
<1>11. PICK y : y = Put(x, j, q)
  OBVIOUS
<1>12. x.N[j] = w.N[j]
  BY <1>2, <1>10
<1>13. /\ y \in World /\ y.Q = x.Q /\ y.T = x.T
       /\ y.N[j] = q /\ \A k \in Nodes \ {j} : y.N[k] = x.N[k]
       /\ \A t \in Tasks : TaskOK(y, t)
       /\ Frame(x, y, n)
       /\ \A k \in Nodes : Own(y, k) = Own(x, k) /\ (Known(x, k) => Known(y, k))
  BY <1>2, <1>8, <1>10, <1>11, <1>12, PutIs
<1>14. /\ y.Q = w.Q /\ y.T = w.T /\ y.N[n] = p /\ y.N[j] = q /\ Frame(w, y, n)
       /\ \A k \in Nodes : Own(y, k) = Own(w, k) /\ (Known(w, k) => Known(y, k))
  BY <1>2, <1>10, <1>13, FrameComposes
<1>15. v = IF Deps[j] \subseteq {n} THEN JudgeLooped(y, j) ELSE [y EXCEPT !.N[j].pc = "deps"]
  <2>1. y = [w EXCEPT !.N = [w.N EXCEPT ![n] = p, ![j] = q]]
    BY <1>2, <1>3, <1>9, <1>11 DEF Put, World
  <2>2. FloorGiven(w, n) = [w EXCEPT !.N = [w.N EXCEPT ![n] = p, ![j] = q]]
    BY <1>1, <1>2, <1>3, <1>5, <1>7 DEF World, FloorGiven
  <2>3. y = FloorGiven(w, n)
    BY <2>1, <2>2
  <2> QED
    BY <1>1, <2>3 DEF Judging
<1>16. NodeOK(y, n, stopping)
  <2>1. \A t \in Own(w, n) : t = w.N[n].task /\ w.T[t].st = "parked"
    BY <1>4, Parked
  <2>2. One(y, n) /\ Known(y, n) /\ \A t \in Own(y, n) : Place(y, n, t)
    BY <1>4, <1>6, <1>14, <2>1 DEF NodeOK, One, Place
  <2>3. p.task # 0 /\ ~p.open /\ p.turn # "completed"
    BY <1>4, <1>6 DEF NodeOK
  <2>4. p.turn = "broken" => Own(y, n) = {} \/ Excused(y, n, stopping)
    BY <1>2, <1>4, <1>6, <1>14 DEF NodeOK, Excused
  <2> QED
    BY <1>6, <1>14, <2>2, <2>3, <2>4 DEF NodeOK
<1>17. \A d \in Nodes : Good(w, d) => Good(y, d)
  BY <1>2, <1>14, FrameReused
<1>18. MainOK(y, n)
  BY <1>4, <1>6, <1>14, <1>17, GraphAssumption DEF MainOK, Terminal, Settled
<1>19. /\ NodeOK(w, j, stopping) /\ Heard(w, j, l)
       /\ w.N[j].pc \in {"idle", "end"} /\ (Terminal(w.N[j]) <=> w.N[j].pc = "end")
       /\ w.N[j].outcome = "succeeded" => Terminal(w.N[j]) \/ w.N[j].reused
       /\ w.N[j].st = "succeeded" => w.N[j].reused
       /\ Terminal(w.N[j]) => w.N[j].reused /\ w.N[j].st = "succeeded" /\ Own(w, j) = {}
  BY <1>1, <1>2, <1>4 DEF JudgeRests, Fresh, Resur
<1>20. Own(w, j) = {}
  BY <1>19 DEF NodeOK, Place
<1>21. OnFloor(y, n, stopping, l)
  <2>1. Heard(y, j, l)
    BY <1>8, <1>14, <1>19 DEF Heard, Terminal
  <2>2. One(y, j) /\ Known(y, j)
    BY <1>14, <1>19 DEF NodeOK, One
  <2> QED
    BY <1>1, <1>2, <1>6, <1>8, <1>14, <1>16, <1>18, <1>19, <2>1, <2>2 DEF OnFloor, Terminal
<1>22. w.N[j].turn # "completed" /\ ~w.N[j].open
  BY <1>19 DEF NodeOK
<1>23. CASE Deps[j] \subseteq {n}
  <2>1. v = JudgeLooped(y, Judge[n])
    BY <1>1, <1>15, <1>23
  <2>2. Quiet(y, Judge[n], stopping) /\ MayLeave(y, Judge[n]) /\ Own(y, Judge[n]) = {}
    BY <1>1, <1>8, <1>14, <1>20, <1>22 DEF Quiet, MayLeave
  <2>3. \A d \in Deps[Judge[n]] : d = n \/ Good(y, d)
    BY <1>1, <1>23
  <2>4. FreeIds(y) # {}
    <3>1. \A k \in Nodes : y.N[k].task = w.N[k].task
      BY <1>6, <1>8, <1>10, <1>13
    <3> QED
      BY <1>14, <3>1 DEF FreeIds
  <2>5. /\ v \in World /\ \A t \in Tasks : TaskOK(v, t)
        /\ Frame(y, v, n) /\ FamOK(v, n, stopping, l)
    BY <1>13, <1>21, <2>1, <2>2, <2>3, <2>4, JudgeLoops
  <2> QED
    BY <1>2, <1>14, <2>5, FrameComposes
<1>24. CASE ~(Deps[j] \subseteq {n})
  <2>1. PICK z : z = [q EXCEPT !.pc = "deps"]
    OBVIOUS
  <2>2. /\ z \in NodeRun /\ z.task = q.task /\ z.reused = q.reused
        /\ z.outcome = q.outcome /\ z.pc = "deps" /\ z.st = q.st /\ z.open = q.open
        /\ z.turn = q.turn /\ z.flag = q.flag
    BY <1>8, <2>1 DEF NodeRun
  <2>3. v = Put(y, j, z)
    BY <1>15, <1>24, <1>14, <2>1 DEF Put
  <2>4. /\ v \in World /\ v.Q = y.Q /\ v.T = y.T
        /\ v.N[j] = z /\ \A k \in Nodes \ {j} : v.N[k] = y.N[k]
        /\ \A t \in Tasks : TaskOK(v, t)
        /\ Frame(y, v, n)
        /\ \A k \in Nodes : Own(v, k) = Own(y, k) /\ (Known(y, k) => Known(v, k))
    BY <1>2, <1>13, <1>14, <2>2, <2>3, PutIs
  <2>5. v.N[n] = p
    BY <1>2, <1>14, <2>4
  <2>6. NodeOK(v, n, stopping)
    <3>1. Known(v, n) /\ (Excused(y, n, stopping) => Excused(v, n, stopping))
      BY <1>2, <1>14, <1>16, <2>4, <2>5 DEF NodeOK, Excused
    <3> QED
      BY <1>14, <1>16, <2>4, <2>5, <3>1, NodeKeeps
  <2>7. \A d \in Nodes : Good(y, d) => Good(v, d)
    BY <1>2, <2>4, FrameReused
  <2>8. MainOK(v, n)
    BY <1>14, <1>18, <2>4, <2>5, <2>7, GraphAssumption DEF MainOK
  <2>9. NodeOK(v, j, stopping)
    <3>1. Own(v, j) = {} /\ Known(v, j)
      BY <1>14, <1>19, <1>20, <2>4 DEF NodeOK
    <3> QED
      BY <1>8, <1>22, <2>2, <2>4, <3>1 DEF NodeOK, One
  <2>10. Heard(v, n, l) /\ Heard(v, j, l)
    BY <1>6, <1>8, <1>14, <1>19, <2>2, <2>4, <2>5 DEF Heard, Terminal, Settled
  <2>11. JudgeOK(v, n, j)
    BY <1>6, <1>8, <1>19, <2>2, <2>4, <2>5, <1>4 DEF JudgeOK, Terminal, MainOK
  <2>12. FamOK(v, n, stopping, l)
    BY <1>1, <1>2, <2>6, <2>8, <2>9, <2>10, <2>11 DEF FamOK
  <2> QED
    BY <1>2, <1>14, <2>4, <2>12, FrameComposes
<1> QED
  BY <1>23, <1>24

-----------------------------------------------------------------------------
(* The actions of the nodes and of their judges                            *)

(* What holds of the world in a state of the invariant.                     *)
LEMMA Here ==
  ASSUME WInv(Now, stopping, log)
  PROVE  /\ Now \in World /\ Now.N = node /\ Now.T = task /\ Now.Q = queue
         /\ \A t \in Tasks : TaskOK(Now, t)
         /\ \A n \in Nodes : node[n] \in NodeRun
BY DEF WInv, Now, World

(* A move of one family that keeps it in order keeps the world in order.     *)
LEMMA Moves ==
  ASSUME WInv(Now, stopping, log), NEW n \in Nodes, ~IsJudge(n), NEW v, v \in World,
         \A t \in Tasks : TaskOK(v, t), Frame(Now, v, n), FamOK(v, n, stopping, log),
         Becomes(v), UNCHANGED <<stopping, log>>
  PROVE  WInv(Now, stopping, log)'
<1>1. WInv(v, stopping, log)
  BY FamilyMoves
<1>2. Now' = v
  BY DEF Now, Becomes, World
<1> QED
  BY <1>1, <1>2

(* A step that hands over from one world to the next.                       *)
Leads(v, n) ==
  /\ v \in World /\ \A t \in Tasks : TaskOK(v, t)
  /\ Frame(Now, v, n) /\ FamOK(v, n, stopping, log)

LEMMA Through ==
  ASSUME NEW w, NEW v, NEW n \in Nodes, ~IsJudge(n), Frame(Now, w, n),
         v \in World, \A t \in Tasks : TaskOK(v, t), Frame(w, v, n), FamOK(v, n, stopping, log)
  PROVE  Leads(v, n)
BY FrameComposes DEF Leads

LEMMA Floor ==
  ASSUME NEW w, NEW l, NEW s, NEW n \in Nodes, Judge[n] # None, FamOK(w, n, s, l),
         w.N[n].pc = "judge"
  PROVE  /\ OnFloor(w, n, s, l) /\ NodeOK(w, Judge[n], s) /\ ~w.N[n].reused
         /\ w.N[Judge[n]].pc \in {"plan", "turn", "gate"} => \A d \in Deps[Judge[n]] : d = n \/ Good(w, d)
<1>1. Judge[n] \in Fam(n) /\ n \in Fam(n)
  BY Judged, Families DEF Fam
<1>2. JudgeOK(w, n, Judge[n]) /\ MainOK(w, n) /\ NodeOK(w, n, s) /\ NodeOK(w, Judge[n], s)
      /\ Heard(w, Judge[n], l)
  BY <1>1 DEF FamOK
<1>3. ~GivesUp(w.N[n]) /\ w.N[n].pc # "end"
  BY DEF GivesUp
<1>4. One(w, Judge[n]) /\ Known(w, Judge[n])
  BY <1>2 DEF NodeOK
<1>5. ~w.N[n].reused
  BY <1>2 DEF MainOK
<1>6. /\ Terminal(w.N[Judge[n]]) => w.N[Judge[n]].reused /\ w.N[Judge[n]].st = "succeeded"
      /\ w.N[Judge[n]].outcome = "succeeded" => Terminal(w.N[Judge[n]]) \/ w.N[Judge[n]].reused
  BY <1>2, <1>3 DEF JudgeOK
<1> QED
  BY <1>2, <1>4, <1>5, <1>6 DEF OnFloor, JudgeOK

(* The owner of a judge that is driven waits for it.                        *)
LEMMA Waits ==
  ASSUME WInv(Now, stopping, log), NEW j \in Nodes, IsJudge(j),
         node[j].pc \in {"deps", "plan", "turn", "gate"}
  PROVE  /\ Owner(j) \in Nodes /\ Judge[Owner(j)] = j /\ ~IsJudge(Owner(j)) /\ j # None
         /\ FamOK(Now, Owner(j), stopping, log) /\ node[Owner(j)].pc = "judge"
         /\ OnFloor(Now, Owner(j), stopping, log) /\ NodeOK(Now, j, stopping)
         /\ node[j].pc \in {"plan", "turn", "gate"} => \A d \in Deps[j] : d = Owner(j) \/ Good(Now, d)
<1>1. Owner(j) \in Nodes /\ Judge[Owner(j)] = j /\ ~IsJudge(Owner(j)) /\ j # None
  BY Owned
<1>2. FamOK(Now, Owner(j), stopping, log)
  BY <1>1 DEF WInv
<1>3. Now.N = node
  BY Here
<1>4. node[Owner(j)].pc = "judge"
  BY <1>1, <1>2, <1>3 DEF FamOK, JudgeOK
<1> QED
  BY <1>1, <1>2, <1>3, <1>4, Floor

LEMMA NoJudge ==
  ASSUME WInv(Now, stopping, log), NEW n \in Nodes, node[n].pc \in {"wait", "judge", "verdict", "accept"}
  PROVE  ~IsJudge(n) /\ FamOK(Now, n, stopping, log)
<1>1. ~IsJudge(n)
  <2> SUFFICES ASSUME IsJudge(n) PROVE FALSE
    OBVIOUS
  <2>1. JudgeOK(Now, Owner(n), n)
    BY Owned DEF WInv, FamOK
  <2> QED
    BY <2>1, Here DEF JudgeOK
<1> QED
  BY <1>1 DEF WInv

(* A node is changed that its judge does not look at.                       *)
LEMMA PutMain ==
  ASSUME NEW w \in World, NEW l, NEW s, NEW n \in Nodes, ~IsJudge(n), NEW r \in NodeRun,
         r.task = w.N[n].task \/ r.task = 0, r.reused = w.N[n].reused, r.flag = w.N[n].flag,
         r.outcome = w.N[n].outcome, \A t \in Tasks : TaskOK(w, t),
         JudgeRests(w, n, s, l), NEW v, v = Put(w, n, r)
  PROVE  JudgeRests(v, n, s, l) /\ (Fresh(w, n) => Fresh(v, n))
<1>1. n \in Fam(n) /\ (Judge[n] # None => Judge[n] \in Nodes \ {n})
  BY Judged, Families
<1>2. /\ v \in World /\ v.Q = w.Q /\ v.T = w.T
      /\ v.N[n] = r /\ \A k \in Nodes \ {n} : v.N[k] = w.N[k]
      /\ \A t \in Tasks : TaskOK(v, t)
      /\ Frame(w, v, n)
      /\ \A k \in Nodes : Own(v, k) = Own(w, k) /\ (Known(w, k) => Known(v, k))
  BY <1>1, PutIs
<1>3. JudgeRests(v, n, s, l)
  BY <1>1, <1>2, RestsKeep
<1>4. Fresh(w, n) => Fresh(v, n)
  BY <1>1, <1>2 DEF Fresh
<1> QED
  BY <1>3, <1>4

(* A judge is changed while it has the floor.                               *)
LEMMA PutJudge ==
  ASSUME NEW w \in World, NEW l, NEW s, NEW n \in Nodes, OnFloor(w, n, s, l), NEW r \in NodeRun,
         r.task = w.N[Judge[n]].task \/ r.task = 0, r.reused = w.N[Judge[n]].reused,
         r.outcome = w.N[Judge[n]].outcome, r.st = w.N[Judge[n]].st,
         \A t \in Tasks : TaskOK(w, t), NEW v, v = Put(w, Judge[n], r)
  PROVE  OnFloor(v, n, s, l)
<1>1. PICK j \in Nodes : j = Judge[n]
  BY Judged DEF OnFloor
<1>2. /\ j # None /\ j # n /\ Owner(j) = n /\ IsJudge(j) /\ ~IsJudge(n) /\ j \in Fam(n)
  BY <1>1, Judged DEF OnFloor, Fam
<1>3. /\ v \in World /\ v.Q = w.Q /\ v.T = w.T
      /\ v.N[j] = r /\ \A k \in Nodes \ {j} : v.N[k] = w.N[k]
      /\ \A t \in Tasks : TaskOK(v, t)
      /\ Frame(w, v, n)
      /\ \A k \in Nodes : Own(v, k) = Own(w, k) /\ (Known(w, k) => Known(v, k))
  BY <1>1, <1>2, PutIs
<1>4. v.N[n] = w.N[n] /\ MainOK(w, n) /\ NodeOK(w, n, s) /\ Known(w, n)
  BY <1>2, <1>3 DEF OnFloor, NodeOK
<1>5. MainOK(v, n)
  <2>1. \A d \in Deps[n] : Good(w, d) => Good(v, d)
    BY <1>2, <1>3, FrameReused, GraphAssumption
  <2> QED
    BY <1>3, <1>4, <2>1 DEF MainOK
<1>6. NodeOK(v, n, s)
  <2>1. Known(v, n) /\ (Excused(w, n, s) => Excused(v, n, s))
    BY <1>2, <1>3, <1>4 DEF Excused
  <2> QED
    BY <1>3, <1>4, <2>1, NodeKeeps
<1>7. Heard(v, j, l) /\ One(v, j) /\ Known(v, j)
  BY <1>1, <1>3 DEF OnFloor, Heard, One, Terminal
<1> QED
  BY <1>1, <1>3, <1>4, <1>5, <1>6, <1>7 DEF OnFloor, Terminal

LEMMA FreeStays ==
  ASSUME NEW w, NEW v, FreeIds(w) # {}, v.T = w.T,
         \A n \in Nodes : v.N[n].task = w.N[n].task \/ v.N[n].task = 0
  PROVE  FreeIds(v) # {}
BY EngineAssumption DEF FreeIds, Tasks

LEMMA DepsReadyKeeps ==
  ASSUME WInv(Now, stopping, log), NEW n \in Nodes, DepsReady(n)
  PROVE  WInv(Now, stopping, log)'
<1>1. ~IsJudge(n) /\ FamOK(Now, n, stopping, log) /\ node[n].pc = "wait"
  BY NoJudge DEF DepsReady
<1>2. /\ Now \in World /\ Now.N = node /\ Now.T = task /\ Now.Q = queue
      /\ \A t \in Tasks : TaskOK(Now, t)
  BY Here
<1>3. MainOK(Now, n) /\ NodeOK(Now, n, stopping) /\ JudgeRests(Now, n, stopping, log) /\ Fresh(Now, n)
  BY <1>1, <1>2, Families, Rests DEF FamOK, GivesUp
<1>4. Own(Now, n) = {} /\ Known(Now, n) /\ One(Now, n)
  BY <1>1, <1>2, <1>3 DEF NodeOK, Place
<1>5. PICK v : v = IF Stopped(Now, n) THEN SettledNode(Now, n, "cancelled")
                   ELSE IF UpstreamBad(n) THEN SettledNode(Now, n, "blocked")
                   ELSE Onward(Now, n)
  OBVIOUS
<1>6. Leads(v, n)
  <2>1. ASSUME NEW out \in Settled, v = SettledNode(Now, n, out) PROVE Leads(v, n)
    <3>1. Aborted(Now, n) /\ Now.N[n].outcome # "succeeded"
      BY <1>1, <1>2, <1>3, <1>4 DEF Aborted, MainOK
    <3>2. v \in World /\ v.T = Now.T /\ Frame(Now, v, n) /\ FamOK(v, n, stopping, log)
      BY <1>1, <1>2, <1>3, <1>4, <2>1, <3>1, Settles
    <3> QED
      BY <1>2, <3>2 DEF Leads, TaskOK
  <2>2. ASSUME v = Onward(Now, n), ~UpstreamBad(n) PROVE Leads(v, n)
    <3>1. v = Looped(Now, n, Spawned(Now, n))
      BY <1>1, <2>2 DEF Onward
    <3>2. Steady(Now, n)
      BY <1>1, <1>2, <1>3, <1>4, <2>2 DEF Steady, MainOK, UpstreamBad, Good
    <3>3. FreeIds(Now) # {}
      BY DEF DepsReady, HasId
    <3> QED
      BY <1>1, <1>2, <1>3, <1>4, <3>1, <3>2, <3>3, Loops DEF Leads
  <2> QED
    BY <1>5, <2>1, <2>2 DEF Settled
<1>7. Becomes(v) /\ UNCHANGED <<stopping, log>>
  BY <1>5 DEF DepsReady
<1> QED
  BY <1>1, <1>6, <1>7, Moves DEF Leads

LEMMA SpentIs ==
  ASSUME NEW r \in NodeRun, NEW p, p = Spent(r)
  PROVE  /\ p \in NodeRun /\ p.task = r.task /\ p.reused = r.reused /\ p.flag = r.flag
         /\ p.outcome = r.outcome /\ p.st = r.st /\ p.pc = r.pc /\ p.armed = r.armed
         /\ p.turn = "none" /\ ~p.open
<1>1. r.attempt + 1 \in Nat
  BY DEF NodeRun
<1>2. p \in NodeRun
  BY <1>1 DEF Spent, NodeRun
<1> QED
  BY <1>2 DEF Spent, NodeRun

(* The turn of a node that is no judge is over.                             *)
LEMMA MainDelivered ==
  ASSUME WInv(Now, stopping, log), NEW n \in Nodes, ~IsJudge(n), TurnDelivered(n)
  PROVE  WInv(Now, stopping, log)'
<1>1. /\ Now \in World /\ Now.N = node /\ Now.T = task /\ Now.Q = queue
      /\ node[n] \in NodeRun /\ \A t \in Tasks : TaskOK(Now, t)
  BY Here
<1>2. FamOK(Now, n, stopping, log) /\ node[n].pc = "turn" /\ node[n].turn # "none" /\ n \in Fam(n)
  BY Families DEF WInv, TurnDelivered
<1>3. MainOK(Now, n) /\ NodeOK(Now, n, stopping) /\ JudgeRests(Now, n, stopping, log) /\ Fresh(Now, n)
  BY <1>1, <1>2, Rests DEF FamOK, GivesUp
<1>4. Own(Now, n) \subseteq {node[n].task} /\ Known(Now, n) /\ One(Now, n)
      /\ \A t \in Own(Now, n) : task[t].st # "planning"
  BY <1>1, <1>2, <1>3 DEF NodeOK, Place
<1>5. PICK p : p = Spent(node[n])
  OBVIOUS
<1>6. /\ p \in NodeRun /\ p.task = node[n].task /\ p.reused = node[n].reused /\ p.flag = node[n].flag
      /\ p.outcome = node[n].outcome /\ p.st = node[n].st /\ p.pc = "turn" /\ p.armed = node[n].armed
      /\ p.turn = "none" /\ ~p.open
  BY <1>1, <1>2, <1>5, SpentIs
<1>7. PICK q : q = [p EXCEPT !.task = 0]
  OBVIOUS
<1>8. /\ q \in NodeRun /\ q.task = 0 /\ q.reused = node[n].reused /\ q.flag = node[n].flag
      /\ q.outcome = node[n].outcome /\ q.st = node[n].st /\ q.armed = node[n].armed
  BY <1>6, <1>7 DEF NodeRun
<1>9. PICK w : w = Put(Now, n, p)
  OBVIOUS
<1>10. PICK dead : dead = Put(Now, n, q)
  OBVIOUS
<1>11. /\ w \in World /\ w.Q = queue /\ w.T = task
       /\ w.N[n] = p /\ \A k \in Nodes \ {n} : w.N[k] = node[k]
       /\ \A t \in Tasks : TaskOK(w, t)
       /\ Frame(Now, w, n)
       /\ \A k \in Nodes : Own(w, k) = Own(Now, k) /\ (Known(Now, k) => Known(w, k))
  BY <1>1, <1>2, <1>6, <1>9, PutIs
<1>12. /\ dead \in World /\ dead.Q = queue /\ dead.T = task
       /\ dead.N[n] = q /\ \A k \in Nodes \ {n} : dead.N[k] = node[k]
       /\ \A t \in Tasks : TaskOK(dead, t)
       /\ Frame(Now, dead, n)
       /\ \A k \in Nodes : Own(dead, k) = Own(Now, k) /\ (Known(Now, k) => Known(dead, k))
  BY <1>1, <1>2, <1>8, <1>10, PutIs
<1>13. JudgeRests(w, n, stopping, log)
  BY <1>1, <1>3, <1>6, <1>9, PutMain
<1>14. JudgeRests(dead, n, stopping, log) /\ Fresh(dead, n)
  BY <1>1, <1>3, <1>8, <1>10, PutMain
<1>15. PICK v : v = IF Stopped(w, n) THEN Halted(w, n, "cancelled")
                    ELSE IF node[n].turn = "completed" THEN [w EXCEPT !.N[n].pc = "gate"]
                    ELSE IF node[n].killed THEN SettledNode(dead, n, "failed")
                    ELSE Onward(dead, n)
  OBVIOUS
<1>16. Becomes(v) /\ UNCHANGED <<stopping, log>>
  <2>1. w = [Now EXCEPT !.N[n] = Spent(@)]
    <3>1. w = Put(Now, n, Spent(Now.N[n]))
      BY <1>1, <1>5, <1>9
    <3> QED
      BY <3>1 DEF Put
  <2>2. dead = [w EXCEPT !.N[n].task = 0]
    <3>1. w = [Now EXCEPT !.N = [node EXCEPT ![n] = p]] /\ dead = [Now EXCEPT !.N = [node EXCEPT ![n] = q]]
      BY <1>1, <1>9, <1>10 DEF Put
    <3>2. node \in [Nodes -> NodeRun]
      BY <1>1 DEF World
    <3> QED
      BY <1>7, <3>1, <3>2 DEF Now
  <2> QED
    BY <1>15, <2>1, <2>2 DEF TurnDelivered
<1>17. node[n].outcome # "succeeded" /\ ~Terminal(node[n]) /\ ~node[n].reused
  BY <1>1, <1>2, <1>3 DEF MainOK
<1>18. CASE Stopped(w, n)
  <2>1. v = Halted(w, n, "cancelled") /\ "cancelled" \in Settled
    BY <1>15, <1>18 DEF Settled
  <2>2. Loose(w, n) /\ Known(w, n) /\ w.N[n].outcome # "succeeded"
    BY <1>4, <1>6, <1>11, <1>17 DEF Loose
  <2>3. v \in World /\ (\A t \in Tasks : TaskOK(v, t)) /\ Frame(w, v, n) /\ FamOK(v, n, stopping, log)
    BY <1>11, <1>13, <2>1, <2>2, Halts
  <2>4. Leads(v, n)
    BY <1>11, <2>3, Through
  <2> QED
    BY <1>16, <2>4, Moves DEF Leads
<1>19. CASE ~Stopped(w, n) /\ node[n].turn = "completed"
  <2>1. PICK r : r = [p EXCEPT !.pc = "gate"]
    OBVIOUS
  <2>2. /\ r \in NodeRun /\ r.task = node[n].task /\ r.reused = node[n].reused /\ r.flag = node[n].flag
        /\ r.outcome = node[n].outcome /\ r.st = node[n].st /\ r.pc = "gate" /\ r.armed = node[n].armed
        /\ r.turn = "none" /\ ~r.open
    BY <1>6, <2>1 DEF NodeRun
  <2>3. v = Put(w, n, r)
    BY <1>11, <1>15, <1>19, <2>1 DEF Put
  <2>4. /\ v \in World /\ v.Q = queue /\ v.T = task
        /\ v.N[n] = r /\ \A k \in Nodes \ {n} : v.N[k] = node[k]
        /\ \A t \in Tasks : TaskOK(v, t)
        /\ Frame(w, v, n)
        /\ \A k \in Nodes : Own(v, k) = Own(Now, k) /\ (Known(Now, k) => Known(v, k))
    BY <1>2, <1>6, <1>11, <2>2, <2>3, PutIs
  <2>5. \A t \in Own(Now, n) : task[t].st = "parked"
    BY <1>1, <1>3, <1>19 DEF NodeOK
  <2>6. JudgeRests(v, n, stopping, log) /\ Fresh(v, n)
    <3>1. v = Put(Now, n, r)
      BY <1>9, <1>15, <1>19, <2>1, <2>3, <1>1 DEF Put, World
    <3> QED
      BY <1>1, <1>3, <2>2, <3>1, PutMain
  <2>7. NodeOK(v, n, stopping)
    <3>1. node[n].task # 0
      BY <1>1, <1>2, <1>3 DEF NodeOK
    <3> QED
      BY <1>4, <2>2, <2>4, <2>5, <3>1 DEF NodeOK, One, Place
  <2>8. MainOK(v, n)
    <3>1. \A d \in Deps[n] : Good(Now, d)
      BY <1>1, <1>2, <1>3 DEF MainOK
    <3>2. Frame(Now, v, n)
      BY <1>11, <2>4, FrameComposes
    <3>3. \A d \in Deps[n] : Good(v, d)
      BY <3>1, <3>2, FrameReused, GraphAssumption
    <3>4. ~node[n].armed
      BY <1>1, <1>3, <2>5 DEF MainOK
    <3> QED
      BY <1>17, <2>2, <2>4, <3>3, <3>4 DEF MainOK, Terminal
  <2>9. FamOK(v, n, stopping, log)
    BY <2>2, <2>4, <2>6, <2>7, <2>8, GoesOn
  <2>10. Leads(v, n)
    BY <1>11, <2>4, <2>9, Through
  <2> QED
    BY <1>16, <2>10, Moves DEF Leads
<1>20. CASE ~Stopped(w, n) /\ node[n].turn # "completed"
  <2>1. Own(Now, n) = {}
    <3>1. node[n].turn = "broken"
      <4>1. node[n].turn \in {"none", "completed", "broken"}
        BY <1>1 DEF NodeRun
      <4> QED
        BY <1>2, <1>20, <4>1
    <3>2. ~Excused(Now, n, stopping)
      BY <1>1, <1>6, <1>11, <1>20 DEF Excused, Stopped
    <3> QED
      BY <1>1, <1>3, <3>1, <3>2 DEF NodeOK
  <2>2. Own(dead, n) = {} /\ One(dead, n) /\ Known(dead, n)
    BY <1>4, <1>12, <2>1 DEF One
  <2>3. CASE node[n].killed
    <3>1. v = SettledNode(dead, n, "failed") /\ "failed" \in Settled
      BY <1>15, <1>20, <2>3 DEF Settled
    <3>2. Aborted(dead, n) /\ dead.N[n].outcome # "succeeded"
      BY <1>8, <1>12, <1>17, <2>2 DEF Aborted
    <3>3. v \in World /\ v.T = dead.T /\ Frame(dead, v, n) /\ FamOK(v, n, stopping, log)
      BY <1>12, <1>14, <2>2, <3>1, <3>2, Settles
    <3>4. \A t \in Tasks : TaskOK(v, t)
      BY <1>12, <3>3 DEF TaskOK
    <3>5. Leads(v, n)
      BY <1>12, <3>3, <3>4, Through
    <3> QED
      BY <1>16, <3>5, Moves DEF Leads
  <2>4. CASE ~node[n].killed
    <3>1. v = Looped(dead, n, Spawned(dead, n))
      BY <1>15, <1>20, <2>4 DEF Onward
    <3>2. Steady(dead, n)
      <4>1. \A d \in Deps[n] : Good(Now, d)
        BY <1>1, <1>2, <1>3 DEF MainOK
      <4>2. \A d \in Deps[n] : Good(dead, d)
        BY <1>12, <4>1, FrameReused, GraphAssumption
      <4>3. ~node[n].armed
        BY <1>1, <1>3, <2>1 DEF MainOK
      <4> QED
        BY <1>8, <1>12, <1>14, <1>17, <2>2, <4>2, <4>3 DEF Steady, Terminal
    <3>3. FreeIds(dead) # {}
      <4>1. FreeIds(Now) # {}
        BY DEF TurnDelivered, HasId
      <4>2. \A k \in Nodes : dead.N[k].task = Now.N[k].task \/ dead.N[k].task = 0
        BY <1>1, <1>8, <1>12
      <4> QED
        BY <1>1, <1>12, <4>1, <4>2, FreeStays
    <3>4. v \in World /\ (\A t \in Tasks : TaskOK(v, t)) /\ Frame(dead, v, n) /\ FamOK(v, n, stopping, log)
      BY <1>12, <1>14, <2>2, <3>1, <3>2, <3>3, Loops
    <3>5. Leads(v, n)
      BY <1>12, <3>4, Through
    <3> QED
      BY <1>16, <3>5, Moves DEF Leads
  <2> QED
    BY <2>3, <2>4
<1> QED
  BY <1>18, <1>19, <1>20

(* The turn of a judge is over.                                            *)
LEMMA JudgeDelivered ==
  ASSUME WInv(Now, stopping, log), NEW j \in Nodes, IsJudge(j), TurnDelivered(j)
  PROVE  WInv(Now, stopping, log)'
<1>1. /\ Now \in World /\ Now.N = node /\ Now.T = task /\ Now.Q = queue
      /\ node[j] \in NodeRun /\ \A t \in Tasks : TaskOK(Now, t)
  BY Here
<1>2. node[j].pc = "turn" /\ node[j].turn # "none"
  BY DEF TurnDelivered
<1>3. PICK n \in Nodes : n = Owner(j)
  BY Owned
<1>4. /\ Judge[n] = j /\ ~IsJudge(n) /\ j # None /\ j # n /\ Fam(n) = {n, j}
      /\ FamOK(Now, n, stopping, log) /\ node[n].pc = "judge"
      /\ OnFloor(Now, n, stopping, log) /\ NodeOK(Now, j, stopping)
      /\ \A d \in Deps[j] : d = n \/ Good(Now, d)
  BY <1>2, <1>3, Waits DEF Fam
<1>5. Own(Now, j) \subseteq {node[j].task} /\ Known(Now, j) /\ One(Now, j)
      /\ \A t \in Own(Now, j) : task[t].st # "planning"
  BY <1>1, <1>2, <1>4 DEF NodeOK, Place
<1>6. PICK p : p = Spent(node[j])
  OBVIOUS
<1>7. /\ p \in NodeRun /\ p.task = node[j].task /\ p.reused = node[j].reused /\ p.flag = node[j].flag
      /\ p.outcome = node[j].outcome /\ p.st = node[j].st /\ p.pc = "turn" /\ p.armed = node[j].armed
      /\ p.turn = "none" /\ ~p.open
  BY <1>1, <1>2, <1>6, SpentIs
<1>8. PICK q : q = [p EXCEPT !.task = 0]
  OBVIOUS
<1>9. /\ q \in NodeRun /\ q.task = 0 /\ q.reused = node[j].reused /\ q.flag = node[j].flag
      /\ q.outcome = node[j].outcome /\ q.st = node[j].st /\ q.turn = "none" /\ ~q.open
  BY <1>7, <1>8 DEF NodeRun
<1>10. PICK w : w = Put(Now, j, p)
  OBVIOUS
<1>11. PICK dead : dead = Put(Now, j, q)
  OBVIOUS
<1>12. /\ w \in World /\ w.Q = queue /\ w.T = task
       /\ w.N[j] = p /\ \A k \in Nodes \ {j} : w.N[k] = node[k]
       /\ \A t \in Tasks : TaskOK(w, t)
       /\ Frame(Now, w, n)
       /\ \A k \in Nodes : Own(w, k) = Own(Now, k) /\ (Known(Now, k) => Known(w, k))
  BY <1>1, <1>4, <1>7, <1>10, PutIs
<1>13. /\ dead \in World /\ dead.Q = queue /\ dead.T = task
       /\ dead.N[j] = q /\ \A k \in Nodes \ {j} : dead.N[k] = node[k]
       /\ \A t \in Tasks : TaskOK(dead, t)
       /\ Frame(Now, dead, n)
       /\ \A k \in Nodes : Own(dead, k) = Own(Now, k) /\ (Known(Now, k) => Known(dead, k))
  BY <1>1, <1>4, <1>9, <1>11, PutIs
<1>14. OnFloor(w, n, stopping, log)
  BY <1>1, <1>4, <1>7, <1>10, PutJudge
<1>15. OnFloor(dead, n, stopping, log)
  BY <1>1, <1>4, <1>9, <1>11, PutJudge
<1>16. PICK v : v = IF Stopped(w, n) THEN GivenUp(w, j, "cancelled", "cancel")
                    ELSE IF node[j].turn = "completed" THEN [w EXCEPT !.N[j].pc = "gate"]
                    ELSE JudgeLooped(dead, j)
  OBVIOUS
<1>17. Becomes(v) /\ UNCHANGED <<stopping, log>>
  <2>1. w = [Now EXCEPT !.N[j] = Spent(@)]
    <3>1. w = Put(Now, j, Spent(Now.N[j]))
      BY <1>1, <1>6, <1>10
    <3> QED
      BY <3>1 DEF Put
  <2>2. dead = [w EXCEPT !.N[j].task = 0]
    <3>1. w = [Now EXCEPT !.N = [node EXCEPT ![j] = p]] /\ dead = [Now EXCEPT !.N = [node EXCEPT ![j] = q]]
      BY <1>1, <1>10, <1>11 DEF Put
    <3>2. node \in [Nodes -> NodeRun]
      BY <1>1 DEF World
    <3> QED
      BY <1>8, <3>1, <3>2 DEF Now
  <2> QED
    BY <1>3, <1>16, <2>1, <2>2 DEF TurnDelivered, Onward
<1>18. CASE Stopped(w, n)
  <2>1. v = GivenUp(w, Judge[n], "cancelled", "cancel") /\ "cancelled" \in Settled \ {"succeeded"}
    BY <1>4, <1>16, <1>18 DEF Settled
  <2>2. Quiet(w, Judge[n], stopping) /\ MayLeave(w, Judge[n])
    BY <1>4, <1>5, <1>7, <1>12 DEF Quiet, MayLeave
  <2>3. v \in World /\ (\A t \in Tasks : TaskOK(v, t)) /\ Frame(w, v, n) /\ FamOK(v, n, stopping, log)
    BY <1>12, <1>14, <2>1, <2>2, GivesUpIs
  <2>4. Leads(v, n)
    BY <1>4, <1>12, <2>3, Through
  <2> QED
    BY <1>4, <1>17, <2>4, Moves DEF Leads
<1>19. CASE ~Stopped(w, n) /\ node[j].turn = "completed"
  <2>1. PICK r : r = [p EXCEPT !.pc = "gate"]
    OBVIOUS
  <2>2. /\ r \in NodeRun /\ r.task = node[j].task /\ r.reused = node[j].reused /\ r.flag = node[j].flag
        /\ r.outcome = node[j].outcome /\ r.st = node[j].st /\ r.pc = "gate"
        /\ r.turn = "none" /\ ~r.open
    BY <1>7, <2>1 DEF NodeRun
  <2>3. v = Put(w, j, r)
    BY <1>12, <1>16, <1>19, <2>1 DEF Put
  <2>4. /\ v \in World /\ v.Q = queue /\ v.T = task
        /\ v.N[j] = r /\ \A k \in Nodes \ {j} : v.N[k] = w.N[k]
        /\ \A t \in Tasks : TaskOK(v, t)
        /\ Frame(w, v, n)
        /\ \A k \in Nodes : Own(v, k) = Own(w, k) /\ (Known(w, k) => Known(v, k))
    BY <1>4, <1>7, <1>12, <2>2, <2>3, PutIs
  <2>5. OnFloor(v, n, stopping, log)
    BY <1>4, <1>7, <1>12, <1>14, <2>2, <2>3, PutJudge
  <2>6. \A t \in Own(Now, j) : task[t].st = "parked"
    BY <1>1, <1>4, <1>19 DEF NodeOK
  <2>7. NodeOK(v, j, stopping)
    <3>1. node[j].task # 0
      BY <1>1, <1>2, <1>4 DEF NodeOK
    <3> QED
      BY <1>5, <1>12, <2>2, <2>4, <2>6, <3>1 DEF NodeOK, One, Place
  <2>8. \A d \in Deps[j] : d = n \/ Good(v, d)
    <3>1. Frame(Now, v, n)
      BY <1>4, <1>12, <2>4, FrameComposes
    <3> QED
      BY <1>4, <3>1, FrameReused, GraphAssumption
  <2>9. /\ v.N[n].pc = "judge" /\ MainOK(v, n) /\ NodeOK(v, n, stopping) /\ Heard(v, j, log)
        /\ Terminal(v.N[j]) => v.N[j].reused /\ v.N[j].st = "succeeded"
        /\ v.N[j].outcome = "succeeded" => Terminal(v.N[j]) \/ v.N[j].reused
    BY <1>4, <2>5 DEF OnFloor
  <2>10. ~Terminal(v.N[j])
    <3>1. ~Terminal(node[j])
      BY <1>1, <1>2, <1>4 DEF FamOK, JudgeOK
    <3> QED
      BY <2>2, <2>4, <3>1 DEF Terminal
  <2>11. JudgeOK(v, n, j)
    BY <2>2, <2>4, <2>8, <2>9, <2>10 DEF JudgeOK, MainOK, Terminal, Settled
  <2>12. FamOK(v, n, stopping, log)
    BY <1>4, <2>7, <2>9, <2>11 DEF FamOK, Heard, MainOK
  <2>13. Leads(v, n)
    BY <1>4, <1>12, <2>4, <2>12, Through
  <2> QED
    BY <1>4, <1>17, <2>13, Moves DEF Leads
<1>20. CASE ~Stopped(w, n) /\ node[j].turn # "completed"
  <2>1. v = JudgeLooped(dead, Judge[n])
    BY <1>4, <1>16, <1>20
  <2>2. Own(Now, j) = {} \/ node[j].flag
    <3>1. node[j].turn = "broken"
      <4>1. node[j].turn \in {"none", "completed", "broken"}
        BY <1>1 DEF NodeRun
      <4> QED
        BY <1>2, <1>20, <4>1
    <3>2. ~stopping /\ ~node[n].flag
      BY <1>4, <1>12, <1>20 DEF Stopped
    <3> QED
      BY <1>1, <1>3, <1>4, <3>1, <3>2 DEF NodeOK, Excused
  <2>3. Quiet(dead, Judge[n], stopping) /\ MayLeave(dead, Judge[n])
    BY <1>4, <1>9, <1>13, <2>2 DEF Quiet, MayLeave
  <2>4. Excused(dead, Judge[n], stopping) \/ Own(dead, Judge[n]) = {}
    BY <1>4, <1>9, <1>13, <2>2 DEF Excused
  <2>5. \A d \in Deps[Judge[n]] : d = n \/ Good(dead, d)
    BY <1>4, <1>13, FrameReused, GraphAssumption
  <2>6. FreeIds(dead) # {}
    <3>1. FreeIds(Now) # {}
      BY DEF TurnDelivered, HasId
    <3>2. \A k \in Nodes : dead.N[k].task = Now.N[k].task \/ dead.N[k].task = 0
      BY <1>1, <1>9, <1>13
    <3> QED
      BY <1>1, <1>13, <3>1, <3>2, FreeStays
  <2>7. v \in World /\ (\A t \in Tasks : TaskOK(v, t)) /\ Frame(dead, v, n) /\ FamOK(v, n, stopping, log)
    BY <1>13, <1>15, <2>1, <2>3, <2>4, <2>5, <2>6, JudgeLoops
  <2>8. Leads(v, n)
    BY <1>4, <1>13, <2>7, Through
  <2> QED
    BY <1>4, <1>17, <2>8, Moves DEF Leads
<1> QED
  BY <1>18, <1>19, <1>20

(* A spawn returns its handle.                                             *)
LEMMA PlanReadyKeeps ==
  ASSUME WInv(Now, stopping, log), NEW m \in Nodes, PlanReady(m)
  PROVE  WInv(Now, stopping, log)'
<1>1. /\ Now \in World /\ Now.N = node /\ Now.T = task /\ Now.Q = queue
      /\ node[m] \in NodeRun /\ \A t \in Tasks : TaskOK(Now, t)
  BY Here
<1>2. PICK t \in Planned(m) :
       /\ task' = IF task[t].st = "cut" THEN task ELSE [task EXCEPT ![t].st = "queued"]
       /\ node' = [node EXCEPT ![m] = [@ EXCEPT !.task = t, !.st = "running", !.pc = "turn"]]
  BY DEF PlanReady
<1>3. node[m].pc = "plan" /\ UNCHANGED <<stopping, log, queue>>
  BY DEF PlanReady
<1>4. t \in Tasks /\ task[t].node = m /\ task[t].st \in {"planning", "cut"} /\ ~task[t].old
      /\ t \in Own(Now, m)
  BY <1>1 DEF Planned, Own
<1>5. PICK n \in Nodes : n = IF IsJudge(m) THEN Owner(m) ELSE m
  BY Owned
<1>6. ~IsJudge(n) /\ m \in Fam(n) /\ FamOK(Now, n, stopping, log) /\ Fam(n) \subseteq Nodes /\ n \in Fam(n)
  <2>1. ~IsJudge(n) /\ m \in Fam(n)
    BY <1>5, Owned DEF Fam
  <2> QED
    BY <2>1, Families DEF WInv
<1>7. NodeOK(Now, m, stopping) /\ One(Now, m)
  BY <1>6 DEF FamOK, NodeOK
<1>8. PICK r : r = [node[m] EXCEPT !.task = t, !.st = "running", !.pc = "turn"]
  OBVIOUS
<1>9. /\ r \in NodeRun /\ r.task = t /\ r.pc = "turn" /\ r.st = "running" /\ r.flag = node[m].flag
      /\ r.reused = node[m].reused /\ r.outcome = node[m].outcome /\ r.armed = node[m].armed
      /\ r.turn = node[m].turn /\ r.open = node[m].open
  <2>1. PICK q \in NodeRun : q = [node[m] EXCEPT !.st = "running", !.pc = "turn"]
    BY <1>1 DEF NodeRun
  <2>2. r = [q EXCEPT !.task = t]
    BY <1>1, <1>8, <2>1 DEF NodeRun
  <2>3. r \in NodeRun
    BY <1>4, <2>2 DEF NodeRun
  <2> QED
    BY <1>1, <1>8, <2>3 DEF NodeRun
<1>10. PICK x : x = IF task[t].st = "cut" THEN task[t] ELSE [task[t] EXCEPT !.st = "queued"]
  OBVIOUS
<1>11. node \in [Nodes -> NodeRun] /\ task \in [Tasks -> Task] /\ queue \in Seq(Event)
  BY <1>1 DEF World
<1>12. x \in Task /\ x.node = m /\ x.st \in {"cut", "queued"} /\ ~x.old /\ x.aborted = task[t].aborted
  <2>1. task[t] \in Task
    BY <1>4, <1>11
  <2> QED
    BY <1>4, <1>10, <2>1 DEF Task
<1>13. PICK v \in World : v = [N |-> [node EXCEPT ![m] = r], T |-> [task EXCEPT ![t] = x], Q |-> queue]
  <2>1. [node EXCEPT ![m] = r] \in [Nodes -> NodeRun] /\ [task EXCEPT ![t] = x] \in [Tasks -> Task]
    BY <1>9, <1>11, <1>12
  <2>2. [N |-> [node EXCEPT ![m] = r], T |-> [task EXCEPT ![t] = x], Q |-> queue] \in World
    BY <1>11, <2>1 DEF World
  <2> QED
    BY <2>2
<1>14. Becomes(v)
  <2>1. task' = [task EXCEPT ![t] = x]
    BY <1>2, <1>4, <1>10, <1>11
  <2>2. node' = [node EXCEPT ![m] = r]
    BY <1>2, <1>8
  <2> QED
    BY <1>3, <1>13, <2>1, <2>2 DEF Becomes
<1>15. /\ v.Q = queue /\ v.N[m] = r /\ \A k \in Nodes \ {m} : v.N[k] = node[k]
       /\ v.T[t] = x /\ \A y \in Tasks \ {t} : v.T[y] = task[y]
  BY <1>4, <1>11, <1>13
<1>16. \A y \in Tasks : TaskOK(v, y)
  <2>1. ~task[t].aborted
    BY <1>1, <1>4 DEF TaskOK
  <2> QED
    BY <1>1, <1>12, <1>15, <2>1 DEF TaskOK
<1>17. \A k \in Nodes : Own(v, k) = Own(Now, k)
  BY <1>1, <1>4, <1>12, <1>15 DEF Own
<1>18. \A k \in Nodes \ {m} : Known(Now, k) => Known(v, k)
  <2> SUFFICES ASSUME NEW k \in Nodes \ {m}, Known(Now, k), v.N[k].task # 0
               PROVE  v.T[v.N[k].task].st = "none" \/ v.N[k].task \in Own(v, k)
    BY DEF Known
  <2>1. v.N[k].task = node[k].task /\ node[k] \in NodeRun
    BY <1>11, <1>15
  <2>2. node[k].task \in Tasks
    BY <2>1 DEF NodeRun
  <2>3. task[node[k].task].st = "none" \/ node[k].task \in Own(Now, k)
    BY <1>1, <2>1 DEF Known
  <2> QED
    BY <1>4, <1>15, <1>17, <2>1, <2>2, <2>3
<1>19. Frame(Now, v, n)
  <2>1. \A y \in Tasks : v.T[y] = task[y] \/ (OfFam(Now, n, y) /\ OfFam(v, n, y))
    BY <1>1, <1>4, <1>6, <1>12, <1>15 DEF OfFam
  <2>2. \A y \in Tasks : ~(task[y].st = "none" /\ v.T[y].st # "none")
    BY <1>4, <1>15
  <2>3. \A k \in Fam(n) : v.N[k].reused = node[k].reused /\ v.N[k].outcome = node[k].outcome
    BY <1>6, <1>9, <1>15
  <2> QED
    BY <1>1, <1>6, <1>15, <2>1, <2>2, <2>3 DEF Frame
<1>20. NodeOK(v, m, stopping)
  <2>1. Own(v, m) = {t}
    BY <1>4, <1>7, <1>17 DEF One
  <2>2. One(v, m) /\ Known(v, m) /\ \A y \in Own(v, m) : Place(v, m, y)
    BY <1>9, <1>12, <1>15, <2>1 DEF One, Known, Place
  <2>3. r.turn # "completed" /\ r.task # 0
    BY <1>1, <1>3, <1>4, <1>7, <1>9, EngineAssumption DEF NodeOK, Tasks
  <2>4. r.turn = "broken" => Excused(v, m, stopping)
    <3>1. node[m].turn = "broken" => Excused(Now, m, stopping)
      BY <1>1, <1>4, <1>7 DEF NodeOK
    <3>2. IsJudge(m) => v.N[Owner(m)] = node[Owner(m)]
      BY <1>15, Owned
    <3> QED
      BY <1>1, <1>9, <1>15, <3>1, <3>2 DEF Excused
  <2> QED
    BY <1>9, <1>15, <2>2, <2>3, <2>4 DEF NodeOK
<1>21. \A d \in Nodes : Good(Now, d) => Good(v, d)
  BY <1>6, <1>19, FrameReused
<1>22. CASE ~IsJudge(m)
  <2>1. n = m
    BY <1>5, <1>22
  <2>2. JudgeRests(Now, n, stopping, log) /\ Fresh(Now, n) /\ MainOK(Now, n)
    BY <1>1, <1>3, <1>6, <2>1, Rests DEF GivesUp, FamOK
  <2>3. Judge[n] # None => Judge[n] \in Nodes \ {n}
    BY <1>6, Judged
  <2>4. \A k \in Nodes \ {m} : \A y \in Own(Now, k) : v.T[y] = task[y]
    BY <1>1, <1>4, <1>15 DEF Own
  <2>5. JudgeRests(v, n, stopping, log)
    BY <1>1, <1>6, <1>9, <1>15, <1>17, <1>18, <2>1, <2>2, <2>3, <2>4, RestsKeep
  <2>6. Fresh(v, n)
    BY <1>1, <1>15, <1>17, <2>1, <2>2, <2>3 DEF Fresh
  <2>7. MainOK(v, n)
    <3>1. ~node[n].armed /\ ~Terminal(node[n]) /\ ~node[n].reused /\ node[n].outcome # "succeeded"
          /\ \A d \in Deps[n] : Good(Now, d)
      BY <1>1, <1>3, <2>1, <2>2 DEF MainOK
    <3> QED
      BY <1>9, <1>15, <1>21, <2>1, <3>1, GraphAssumption DEF MainOK, Terminal, Settled
  <2>8. FamOK(v, n, stopping, log)
    BY <1>6, <1>9, <1>15, <1>20, <2>1, <2>5, <2>6, <2>7, GoesOn
  <2> QED
    BY <1>3, <1>6, <1>14, <1>16, <1>19, <2>8, Moves
<1>23. CASE IsJudge(m)
  <2>1. Judge[n] = m /\ m # None /\ m # n /\ Owner(m) = n /\ Fam(n) = {n, m}
    BY <1>5, <1>23, Owned DEF Fam
  <2>2. /\ node[n].pc = "judge" /\ OnFloor(Now, n, stopping, log)
        /\ \A d \in Deps[m] : d = n \/ Good(Now, d)
    BY <1>3, <1>23, <2>1, Waits
  <2>3. v.N[n] = node[n] /\ Own(v, n) = Own(Now, n) /\ \A y \in Own(Now, n) : v.T[y] = task[y]
    BY <1>1, <1>4, <1>15, <1>17, <2>1 DEF Own
  <2>4. NodeOK(v, n, stopping)
    <3>1. NodeOK(Now, n, stopping) /\ Known(Now, n)
      BY <2>2 DEF OnFloor, NodeOK
    <3>2. Known(v, n) /\ (Excused(Now, n, stopping) => Excused(v, n, stopping))
      BY <1>1, <1>6, <1>18, <2>1, <2>3, <3>1 DEF Excused
    <3> QED
      BY <1>1, <2>3, <3>1, <3>2, NodeKeeps
  <2>5. MainOK(v, n)
    BY <1>1, <1>21, <2>2, <2>3, GraphAssumption DEF OnFloor, MainOK
  <2>6. ~Terminal(node[n]) /\ ~node[n].reused
    BY <1>1, <2>2 DEF OnFloor, MainOK
  <2>7. node[m].outcome = "succeeded" => node[m].reused
    BY <1>1, <2>1, <2>2 DEF OnFloor, Terminal
  <2>8. ~Terminal(v.N[m])
    BY <1>9, <1>15 DEF Terminal, Settled
  <2>9. JudgeOK(v, n, m)
    <3>1. \A d \in Deps[m] : d = n \/ Good(v, d)
      BY <1>21, <2>2, GraphAssumption
    <3> QED
      BY <1>9, <1>15, <2>2, <2>3, <2>6, <2>7, <2>8, <3>1 DEF JudgeOK
  <2>10. Heard(v, n, log) /\ Heard(v, m, log)
    BY <2>3, <2>6, <2>8 DEF Heard
  <2>11. FamOK(v, n, stopping, log)
    BY <1>20, <2>1, <2>4, <2>5, <2>9, <2>10 DEF FamOK
  <2> QED
    BY <1>3, <1>6, <1>14, <1>16, <1>19, <2>11, Moves
<1> QED
  BY <1>22, <1>23

LEMMA DropMain ==
  ASSUME NEW w \in World, NEW l, NEW s, NEW n \in Nodes, ~IsJudge(n), NEW t, NEW r, NEW v,
         Dropped(w, v, t, n, r), r.reused = w.N[n].reused, r.flag = w.N[n].flag,
         JudgeRests(w, n, s, l)
  PROVE  JudgeRests(v, n, s, l) /\ (Fresh(w, n) => Fresh(v, n))
<1>1. Judge[n] # None => Judge[n] \in Nodes \ {n}
  BY Judged
<1>2. /\ v.Q = w.Q /\ v.N[n] = r /\ \A k \in Nodes \ {n} : v.N[k] = w.N[k]
      /\ \A k \in Nodes \ {n} : Own(v, k) = Own(w, k) /\ \A y \in Own(w, k) : v.T[y] = w.T[y]
      /\ \A k \in Nodes : Known(w, k) => Known(v, k)
  BY DEF Dropped
<1>3. JudgeRests(v, n, s, l)
  BY <1>1, <1>2, RestsKeep
<1>4. Fresh(w, n) => Fresh(v, n)
  BY <1>1, <1>2 DEF Fresh
<1> QED
  BY <1>3, <1>4

LEMMA DropJudge ==
  ASSUME NEW w \in World, NEW l, NEW s, NEW n \in Nodes, OnFloor(w, n, s, l),
         NEW t, NEW r, NEW v, Dropped(w, v, t, Judge[n], r), Frame(w, v, n),
         r.reused = w.N[Judge[n]].reused, r.outcome = w.N[Judge[n]].outcome,
         r.st = w.N[Judge[n]].st
  PROVE  OnFloor(v, n, s, l)
<1>1. PICK j \in Nodes : j = Judge[n]
  BY Judged DEF OnFloor
<1>2. /\ j # None /\ j # n /\ Owner(j) = n /\ IsJudge(j) /\ ~IsJudge(n) /\ j \in Fam(n)
  BY <1>1, Judged DEF OnFloor, Fam
<1>3. /\ v \in World /\ v.Q = w.Q /\ v.N[j] = r /\ v.N[n] = w.N[n]
      /\ Own(v, n) = Own(w, n) /\ \A y \in Own(w, n) : v.T[y] = w.T[y]
      /\ Own(v, j) = Own(w, j) \ {t}
      /\ \A k \in Nodes : Known(w, k) => Known(v, k)
  BY <1>1, <1>2 DEF Dropped
<1>4. MainOK(w, n) /\ NodeOK(w, n, s) /\ Known(w, n)
  BY DEF OnFloor, NodeOK
<1>5. MainOK(v, n)
  <2>1. \A d \in Deps[n] : Good(w, d) => Good(v, d)
    BY <1>2, FrameReused, GraphAssumption
  <2> QED
    BY <1>3, <1>4, <2>1 DEF MainOK
<1>6. NodeOK(v, n, s)
  <2>1. Known(v, n) /\ (Excused(w, n, s) => Excused(v, n, s))
    BY <1>2, <1>3, <1>4 DEF Excused
  <2> QED
    BY <1>3, <1>4, <2>1, NodeKeeps
<1>7. Heard(v, j, l) /\ One(v, j) /\ Known(v, j)
  BY <1>1, <1>3 DEF OnFloor, Heard, One, Terminal
<1> QED
  BY <1>1, <1>3, <1>4, <1>5, <1>6, <1>7 DEF OnFloor, Terminal

LEMMA RefusedIs ==
  ASSUME NEW r \in NodeRun, NEW p, p = Refused(r)
  PROVE  /\ p \in NodeRun /\ p.task = r.task /\ p.reused = r.reused /\ p.flag = r.flag
         /\ p.outcome = r.outcome /\ p.st = r.st /\ p.pc = r.pc /\ p.armed = r.armed
         /\ p.turn = r.turn /\ ~p.open
<1>1. r.attempt + 1 \in Nat
  BY DEF NodeRun
<1>2. p \in NodeRun
  BY <1>1 DEF Refused, NodeRun
<1> QED
  BY <1>2 DEF Refused, NodeRun

LEMMA FreeGrows ==
  ASSUME NEW w, NEW v, FreeIds(w) # {}, \A t \in Tasks : w.T[t].st = "none" => v.T[t].st = "none",
         \A n \in Nodes : v.N[n].task = w.N[n].task \/ v.N[n].task = 0
  PROVE  FreeIds(v) # {}
BY EngineAssumption DEF FreeIds, Tasks

LEMMA PlanFailsKeeps ==
  ASSUME WInv(Now, stopping, log), NEW m \in Nodes, PlanFails(m)
  PROVE  WInv(Now, stopping, log)'
<1>1. /\ Now \in World /\ Now.N = node /\ Now.T = task /\ Now.Q = queue
      /\ node[m] \in NodeRun /\ \A t \in Tasks : TaskOK(Now, t)
  BY Here
<1>2. PICK t \in Planned(m) : Becomes(Onward([Now EXCEPT !.T[t] = Gone, !.N[m] = Refused(@)], m))
  BY DEF PlanFails
<1>3. node[m].pc = "plan" /\ UNCHANGED <<stopping, log>> /\ FreeIds(Now) # {}
  BY DEF PlanFails, HasId
<1>4. t \in Own(Now, m) /\ t \in Tasks
  BY <1>1 DEF Planned, Own
<1>5. PICK n \in Nodes : n = IF IsJudge(m) THEN Owner(m) ELSE m
  BY Owned
<1>6. ~IsJudge(n) /\ m \in Fam(n) /\ FamOK(Now, n, stopping, log) /\ Fam(n) \subseteq Nodes /\ n \in Fam(n)
  <2>1. ~IsJudge(n) /\ m \in Fam(n)
    BY <1>5, Owned DEF Fam
  <2> QED
    BY <2>1, Families DEF WInv
<1>7. NodeOK(Now, m, stopping) /\ One(Now, m) /\ Known(Now, m)
  BY <1>6 DEF FamOK, NodeOK
<1>8. PICK r : r = Refused(Now.N[m])
  OBVIOUS
<1>9. /\ r \in NodeRun /\ r.task = node[m].task /\ r.reused = node[m].reused /\ r.flag = node[m].flag
      /\ r.outcome = node[m].outcome /\ r.st = node[m].st /\ r.pc = "plan" /\ r.armed = node[m].armed
      /\ r.turn = node[m].turn /\ ~r.open
  BY <1>1, <1>3, <1>8, RefusedIs
<1>10. PICK w : w = Drop(Now, t, m, Refused(Now.N[m]))
  OBVIOUS
<1>11. PICK v : v = Onward(w, m)
  OBVIOUS
<1>12. Becomes(v)
  <2>1. w = [Now EXCEPT !.T[t] = Gone, !.N[m] = Refused(@)]
    BY <1>10 DEF Drop
  <2> QED
    BY <1>2, <1>11, <2>1
<1>13. Frame(Now, w, n) /\ Dropped(Now, w, t, m, r)
  <2>1. w = Drop(Now, t, m, r)
    BY <1>8, <1>10
  <2> QED
    BY <1>1, <1>4, <1>6, <1>9, <2>1, DropIs
<1>14. /\ w \in World /\ w.Q = queue /\ \A y \in Tasks : TaskOK(w, y)
       /\ w.N[m] = r /\ \A k \in Nodes \ {m} : w.N[k] = node[k]
       /\ Own(w, m) = {} /\ Known(w, m)
  <2>1. Own(w, m) = Own(Now, m) \ {t}
    BY <1>13 DEF Dropped
  <2>2. Own(w, m) = {}
    BY <1>4, <1>7, <2>1 DEF One
  <2> QED
    BY <1>1, <1>6, <1>7, <1>13, <2>2 DEF Dropped
<1>15. FreeIds(w) # {}
  <2>1. \A k \in Nodes : w.N[k].task = Now.N[k].task
    BY <1>1, <1>9, <1>14
  <2>2. \A y \in Tasks : Now.T[y].st = "none" => w.T[y].st = "none"
    <3>1. w.T = [task EXCEPT ![t] = Gone]
      BY <1>1, <1>10 DEF Drop, World
    <3>2. task \in [Tasks -> Task]
      BY <1>1 DEF World
    <3> QED
      BY <1>1, <1>4, <3>1, <3>2 DEF Gone
  <2> QED
    BY <1>3, <2>1, <2>2, FreeGrows
<1>16. CASE ~IsJudge(m)
  <2>1. n = m
    BY <1>5, <1>16
  <2>2. JudgeRests(Now, n, stopping, log) /\ Fresh(Now, n) /\ MainOK(Now, n)
    BY <1>1, <1>3, <1>6, <2>1, Rests DEF GivesUp, FamOK
  <2>3. JudgeRests(w, n, stopping, log) /\ Fresh(w, n)
    BY <1>1, <1>6, <1>9, <1>13, <2>1, <2>2, DropMain
  <2>4. Steady(w, n)
    <3>1. ~node[n].armed /\ ~Terminal(node[n]) /\ ~node[n].reused /\ node[n].outcome # "succeeded"
          /\ \A d \in Deps[n] : Good(Now, d)
      BY <1>1, <1>3, <2>1, <2>2 DEF MainOK
    <3>2. \A d \in Deps[n] : Good(w, d)
      BY <1>6, <1>13, <3>1, FrameReused, GraphAssumption
    <3> QED
      BY <1>9, <1>14, <2>1, <2>3, <3>1, <3>2 DEF Steady, Terminal
  <2>5. v = Looped(w, n, Spawned(w, n))
    BY <1>11, <1>16, <2>1 DEF Onward
  <2>6. v \in World /\ (\A y \in Tasks : TaskOK(v, y)) /\ Frame(w, v, n) /\ FamOK(v, n, stopping, log)
    BY <1>6, <1>14, <1>15, <2>1, <2>3, <2>4, <2>5, Loops
  <2>7. Leads(v, n)
    BY <1>6, <1>13, <2>6, Through
  <2> QED
    BY <1>3, <1>6, <1>12, <2>7, Moves DEF Leads
<1>17. CASE IsJudge(m)
  <2>1. Judge[n] = m /\ m # None /\ m # n /\ Owner(m) = n /\ Fam(n) = {n, m}
    BY <1>5, <1>17, Owned DEF Fam
  <2>2. /\ node[n].pc = "judge" /\ OnFloor(Now, n, stopping, log)
        /\ \A d \in Deps[m] : d = n \/ Good(Now, d)
    BY <1>3, <1>17, <2>1, Waits
  <2>3. OnFloor(w, n, stopping, log)
    BY <1>1, <1>9, <1>13, <2>1, <2>2, DropJudge
  <2>4. Quiet(w, Judge[n], stopping) /\ MayLeave(w, Judge[n]) /\ Own(w, Judge[n]) = {}
    <3>1. node[m].turn # "completed"
      BY <1>1, <1>3, <1>7 DEF NodeOK
    <3> QED
      BY <1>9, <1>14, <2>1, <3>1 DEF Quiet, MayLeave
  <2>5. \A d \in Deps[Judge[n]] : d = n \/ Good(w, d)
    BY <1>6, <1>13, <2>1, <2>2, FrameReused, GraphAssumption
  <2>6. v = JudgeLooped(w, Judge[n])
    BY <1>11, <1>17, <2>1 DEF Onward
  <2>7. v \in World /\ (\A y \in Tasks : TaskOK(v, y)) /\ Frame(w, v, n) /\ FamOK(v, n, stopping, log)
    BY <1>14, <1>15, <2>3, <2>4, <2>5, <2>6, JudgeLoops
  <2>8. Leads(v, n)
    BY <1>6, <1>13, <2>7, Through
  <2> QED
    BY <1>3, <1>6, <1>12, <2>8, Moves DEF Leads
<1> QED
  BY <1>16, <1>17

LEMMA GateKeeps ==
  ASSUME WInv(Now, stopping, log), disk \in Disk, NEW n \in Nodes, Gate(n)
  PROVE  WInv(Now, stopping, log)'
<1>1. /\ Now \in World /\ Now.N = node /\ Now.T = task /\ Now.Q = queue
      /\ node[n] \in NodeRun /\ \A t \in Tasks : TaskOK(Now, t)
  BY Here
<1>2. ~IsJudge(n) /\ node[n].pc = "gate" /\ FreeIds(Now) # {} /\ UNCHANGED <<stopping, log>>
  BY DEF Gate, HasId
<1>3. FamOK(Now, n, stopping, log) /\ n \in Fam(n)
  BY <1>2, Families DEF WInv
<1>4. /\ MainOK(Now, n) /\ NodeOK(Now, n, stopping) /\ JudgeRests(Now, n, stopping, log)
      /\ Fresh(Now, n)
  BY <1>1, <1>2, <1>3, Rests DEF FamOK, GivesUp
<1>5. PICK r : r = [node[n] EXCEPT !.seen = disk[n].ver]
  OBVIOUS
<1>6. /\ r \in NodeRun /\ r.task = node[n].task /\ r.reused = node[n].reused /\ r.flag = node[n].flag
      /\ r.outcome = node[n].outcome /\ r.st = node[n].st /\ r.pc = "gate" /\ r.armed = node[n].armed
      /\ r.turn = node[n].turn /\ r.open = node[n].open /\ r.killed = node[n].killed
  <2>1. disk[n].ver \in Nat
    BY DEF Disk
  <2> QED
    BY <1>1, <1>2, <1>5, <2>1 DEF NodeRun
<1>7. PICK w : w = Put(Now, n, r)
  OBVIOUS
<1>8. /\ w \in World /\ w.Q = queue /\ w.T = task
      /\ w.N[n] = r /\ \A k \in Nodes \ {n} : w.N[k] = node[k]
      /\ \A t \in Tasks : TaskOK(w, t)
      /\ Frame(Now, w, n)
      /\ \A k \in Nodes : Own(w, k) = Own(Now, k) /\ (Known(Now, k) => Known(w, k))
  BY <1>1, <1>2, <1>3, <1>6, <1>7, PutIs
<1>9. JudgeRests(w, n, stopping, log) /\ Fresh(w, n)
  BY <1>1, <1>2, <1>4, <1>6, <1>7, PutMain
<1>10. \A t \in Own(Now, n) : t = node[n].task /\ task[t].st = "parked"
  BY <1>1, <1>2, <1>4, Parked
<1>11. NodeOK(w, n, stopping)
  <2>1. One(w, n) /\ Known(w, n) /\ \A t \in Own(w, n) : Place(w, n, t)
    BY <1>4, <1>6, <1>8, <1>10 DEF NodeOK, One, Place
  <2>2. r.task # 0 /\ ~r.open /\ r.turn # "completed"
    BY <1>1, <1>2, <1>4, <1>6 DEF NodeOK
  <2>3. r.turn = "broken" => Own(w, n) = {} \/ Excused(w, n, stopping)
    BY <1>1, <1>2, <1>4, <1>6, <1>8 DEF NodeOK, Excused
  <2> QED
    BY <1>6, <1>8, <2>1, <2>2, <2>3 DEF NodeOK
<1>12. MainOK(w, n)
  <2>1. ~node[n].armed /\ ~Terminal(node[n]) /\ ~node[n].reused /\ node[n].outcome # "succeeded"
        /\ \A d \in Deps[n] : Good(Now, d)
    BY <1>1, <1>2, <1>4 DEF MainOK
  <2>2. \A d \in Deps[n] : Good(w, d)
    BY <1>2, <1>8, <2>1, FrameReused, GraphAssumption
  <2> QED
    BY <1>6, <1>8, <2>1, <2>2 DEF MainOK, Terminal
<1>13. FamOK(w, n, stopping, log)
  BY <1>2, <1>6, <1>8, <1>9, <1>11, <1>12, GoesOn
<1>14. w = [Now EXCEPT !.N[n].seen = disk[n].ver]
  BY <1>1, <1>5, <1>7 DEF Put, World
<1>15. PICK late, v :
         /\ v = IF Stopped(w, n) THEN Halted(w, n, "cancelled")
                ELSE IF Finds(n) # "pass" THEN Rejected(w, n, Failure(n), late)
                ELSE IF Judge[n] # None THEN Judging(w, n)
                ELSE Accepting(w, n)
         /\ Becomes(v)
  BY <1>14 DEF Gate
<1>16. \/ v = Halted(w, n, "cancelled") \/ v = Rejected(w, n, Failure(n), late)
       \/ (v = Judging(w, n) /\ Judge[n] # None) \/ v = Accepting(w, n)
  BY <1>15
<1>17. ~GivesUp(w.N[n]) /\ w.N[n].pc = "gate"
  BY <1>6, <1>8 DEF GivesUp
<1>18. v \in World /\ (\A t \in Tasks : TaskOK(v, t)) /\ Frame(w, v, n) /\ FamOK(v, n, stopping, log)
  <2>1. CASE v = Halted(w, n, "cancelled")
    <3>1. Loose(w, n) /\ Known(w, n) /\ w.N[n].outcome # "succeeded" /\ "cancelled" \in Settled
      BY <1>8, <1>11, <1>12, <1>17, Parked DEF NodeOK, MainOK, Settled
    <3> QED
      BY <1>2, <1>8, <1>9, <2>1, <3>1, Halts
  <2>2. CASE v = Rejected(w, n, Failure(n), late)
    BY <1>2, <1>8, <1>13, <1>17, <2>2, Rejects
  <2>3. CASE v = Judging(w, n) /\ Judge[n] # None
    <3>1. FreeIds(w) # {}
      <4>1. \A k \in Nodes : w.N[k].task = Now.N[k].task
        BY <1>1, <1>6, <1>8
      <4> QED
        BY <1>1, <1>2, <1>8, <4>1, FreeStays
    <3> QED
      BY <1>8, <1>13, <1>17, <2>3, <3>1, JudgingIs
  <2>4. CASE v = Accepting(w, n)
    BY <1>2, <1>6, <1>8, <1>13, <1>17, <2>4, Accepts
  <2> QED
    BY <1>16, <2>1, <2>2, <2>3, <2>4
<1>19. Leads(v, n)
  BY <1>2, <1>8, <1>18, Through
<1> QED
  BY <1>2, <1>15, <1>19, Moves DEF Leads

LEMMA SameFrame ==
  ASSUME NEW w, NEW n
  PROVE  Frame(w, w, n)
BY DEF Frame

LEMMA JudgeDepsKeeps ==
  ASSUME WInv(Now, stopping, log), NEW j \in Nodes, JudgeDeps(j)
  PROVE  WInv(Now, stopping, log)'
<1>1. /\ Now \in World /\ Now.N = node /\ Now.T = task /\ Now.Q = queue
      /\ node[j] \in NodeRun /\ \A t \in Tasks : TaskOK(Now, t)
  BY Here
<1>2. node[j].pc = "deps" /\ FreeIds(Now) # {} /\ UNCHANGED <<stopping, log>>
      /\ \A d \in Evidence(j) : node[d].outcome # None
  BY DEF JudgeDeps, HasId
<1>3. IsJudge(j)
  <2> SUFFICES ASSUME ~IsJudge(j) PROVE FALSE
    OBVIOUS
  <2>1. MainOK(Now, j)
    BY DEF WInv, FamOK
  <2> QED
    BY <1>1, <1>2, <2>1 DEF MainOK
<1>4. PICK n \in Nodes : n = Owner(j)
  BY <1>3, Owned
<1>5. /\ Judge[n] = j /\ ~IsJudge(n) /\ j # None
      /\ node[n].pc = "judge" /\ OnFloor(Now, n, stopping, log) /\ NodeOK(Now, j, stopping)
  BY <1>2, <1>3, <1>4, Waits
<1>6. Own(Now, j) = {}
  BY <1>1, <1>2, <1>5 DEF NodeOK, Place
<1>7. Quiet(Now, Judge[n], stopping) /\ MayLeave(Now, Judge[n]) /\ Leaves(Now, Judge[n])
  <2>1. ~node[j].open /\ node[j].turn # "completed"
    BY <1>1, <1>2, <1>5 DEF NodeOK
  <2> QED
    BY <1>1, <1>5, <1>6, <2>1 DEF Quiet, MayLeave, Leaves
<1>8. PICK v : v = IF ~Stopped(Now, n) /\ ~node[j].flag
                      /\ \E d \in Evidence(j) : node[d].outcome # "succeeded"
                   THEN Returned(SettledJudge(Now, j, "blocked"), j, "blocked")
                   ELSE JudgeLooped(Now, j)
  OBVIOUS
<1>9. Becomes(v)
  BY <1>4, <1>8 DEF JudgeDeps
<1>10. Leads(v, n)
  <2>1. CASE v = Returned(SettledJudge(Now, j, "blocked"), j, "blocked")
    <3>1. v = Returned(SettledJudge(Now, Judge[n], "blocked"), Judge[n], "blocked")
          /\ "blocked" \in Settled \ {"succeeded"}
      BY <1>5, <2>1 DEF Settled
    <3>2. v \in World /\ (\A t \in Tasks : TaskOK(v, t)) /\ Frame(Now, v, n) /\ FamOK(v, n, stopping, log)
      BY <1>1, <1>5, <1>7, <3>1, Yields
    <3> QED
      BY <3>2 DEF Leads
  <2>2. CASE v = JudgeLooped(Now, j) /\ (Stopped(Now, n) \/ node[j].flag
                      \/ ~\E d \in Evidence(j) : node[d].outcome # "succeeded")
    <3>1. v = JudgeLooped(Now, Judge[n])
      BY <1>5, <2>2
    <3>2. Excused(Now, Judge[n], stopping) \/ \A d \in Deps[Judge[n]] : d = n \/ Good(Now, d)
      <4>1. Stopped(Now, n) \/ node[j].flag => Excused(Now, j, stopping)
        BY <1>1, <1>3, <1>4 DEF Stopped, Excused
      <4>2. ASSUME ~\E d \in Evidence(j) : node[d].outcome # "succeeded", NEW d \in Deps[j], d # n
            PROVE  Good(Now, d)
        BY <1>1, <1>4, <4>2 DEF Evidence, Good
      <4> QED
        BY <1>5, <2>2, <4>1, <4>2
    <3>3. v \in World /\ (\A t \in Tasks : TaskOK(v, t)) /\ Frame(Now, v, n) /\ FamOK(v, n, stopping, log)
      BY <1>1, <1>2, <1>5, <1>6, <1>7, <3>1, <3>2, JudgeLoops
    <3> QED
      BY <3>3 DEF Leads
  <2> QED
    BY <1>8, <2>1, <2>2
<1> QED
  BY <1>2, <1>5, <1>9, <1>10, Moves DEF Leads

LEMMA VerdictKeeps ==
  ASSUME WInv(Now, stopping, log), NEW n \in Nodes, Verdict(n)
  PROVE  WInv(Now, stopping, log)'
<1>1. /\ Now \in World /\ Now.N = node /\ Now.T = task /\ Now.Q = queue
      /\ node[n] \in NodeRun /\ \A t \in Tasks : TaskOK(Now, t)
  BY Here
<1>2. node[n].pc = "verdict" /\ UNCHANGED <<stopping, log>>
  BY DEF Verdict
<1>3. ~IsJudge(n) /\ FamOK(Now, n, stopping, log) /\ n \in Fam(n)
  BY <1>2, NoJudge, Families
<1>4. MainOK(Now, n) /\ NodeOK(Now, n, stopping) /\ JudgeRests(Now, n, stopping, log)
  BY <1>1, <1>2, <1>3, Rests DEF FamOK
<1>5. PICK late, v : v = Disposed(n, late) /\ Becomes(v)
  BY DEF Verdict
<1>6. \/ v = Halted(Now, n, "cancelled") \/ v = Halted(Now, n, "blocked")
      \/ node[n].says \notin {"cancel", "blocked"} /\
           (v = Accepting(Now, n) \/ v = Rejected(Now, n, node[n].says, late))
  BY <1>5 DEF Disposed
<1>7. v \in World /\ (\A t \in Tasks : TaskOK(v, t)) /\ Frame(Now, v, n) /\ FamOK(v, n, stopping, log)
  <2>1. ASSUME NEW out \in Settled, v = Halted(Now, n, out)
        PROVE  v \in World /\ (\A t \in Tasks : TaskOK(v, t)) /\ Frame(Now, v, n) /\ FamOK(v, n, stopping, log)
    <3>1. Loose(Now, n) /\ Known(Now, n) /\ Now.N[n].outcome # "succeeded"
      BY <1>1, <1>2, <1>4, Parked DEF NodeOK, MainOK
    <3> QED
      BY <1>1, <1>3, <1>4, <2>1, <3>1, Halts
  <2>2. CASE ~GivesUp(node[n]) /\ v = Accepting(Now, n)
    BY <1>1, <1>2, <1>3, <2>2, Accepts
  <2>3. CASE ~GivesUp(node[n]) /\ v = Rejected(Now, n, node[n].says, late)
    BY <1>1, <1>2, <1>3, <2>3, Rejects
  <2> QED
    BY <1>6, <2>1, <2>2, <2>3 DEF Settled, GivesUp
<1> QED
  BY <1>2, <1>3, <1>5, <1>7, Moves

LEMMA AcceptedKeeps ==
  ASSUME WInv(Now, stopping, log), NEW n \in Nodes, Accepted(n)
  PROVE  WInv(Now, stopping, log)'
<1>1. /\ Now \in World /\ Now.N = node /\ Now.T = task /\ Now.Q = queue
      /\ node[n] \in NodeRun /\ \A t \in Tasks : TaskOK(Now, t)
  BY Here
<1>2. node[n].pc = "accept" /\ UNCHANGED <<stopping, log>>
  BY DEF Accepted
<1>3. ~IsJudge(n) /\ FamOK(Now, n, stopping, log) /\ n \in Fam(n)
  BY <1>2, NoJudge, Families
<1>4. MainOK(Now, n) /\ NodeOK(Now, n, stopping) /\ JudgeRests(Now, n, stopping, log)
  BY <1>1, <1>2, <1>3, Rests DEF FamOK
<1>5. PICK out \in Settled : Becomes(SettledNode(Now, n, out))
  BY DEF Accepted, Settled
<1>6. PICK v : v = SettledNode(Now, n, out)
  OBVIOUS
<1>7. Own(Now, n) = {} /\ One(Now, n) /\ Aborted(Now, n) /\ Now.N[n].outcome # "succeeded"
  BY <1>1, <1>2, <1>4 DEF NodeOK, Place, Aborted, MainOK
<1>8. v \in World /\ v.T = Now.T /\ Frame(Now, v, n) /\ FamOK(v, n, stopping, log)
  BY <1>1, <1>3, <1>4, <1>6, <1>7, Settles
<1>9. \A t \in Tasks : TaskOK(v, t)
  BY <1>1, <1>8 DEF TaskOK
<1> QED
  BY <1>2, <1>3, <1>5, <1>6, <1>8, <1>9, Moves

(* A judge delivered its verdict.                                           *)
LEMMA JudgeSpeaks ==
  ASSUME NEW w \in World, NEW l, NEW s, NEW n \in Nodes, OnFloor(w, n, s, l),
         Own(w, Judge[n]) = {}, Quiet(w, Judge[n], s), ~Terminal(w.N[Judge[n]]),
         \A t \in Tasks : TaskOK(w, t), NEW says \in Verdicts,
         NEW v, v = Returned(w, Judge[n], says)
  PROVE  /\ v \in World /\ \A t \in Tasks : TaskOK(v, t)
         /\ Frame(w, v, n) /\ FamOK(v, n, s, l)
<1>1. PICK j \in Nodes : j = Judge[n]
  BY Judged DEF OnFloor
<1>2. /\ j # None /\ j # n /\ Owner(j) = n /\ IsJudge(j) /\ ~IsJudge(n) /\ Fam(n) = {n, j}
      /\ Judge[n] # None
  BY <1>1, Judged DEF OnFloor, Fam
<1>3. /\ w.N[n].pc = "judge" /\ MainOK(w, n) /\ NodeOK(w, n, s) /\ Known(w, n)
      /\ One(w, j) /\ Known(w, j)
      /\ w.N[j].outcome = "succeeded" => Terminal(w.N[j]) \/ w.N[j].reused
  BY <1>1 DEF OnFloor, NodeOK
<1>4. Frame(w, v, n) /\ Handed(w, v, n, says)
  BY <1>2, ReturnIs
<1>5. /\ v \in World /\ v.Q = w.Q /\ v.T = w.T /\ \A t \in Tasks : TaskOK(v, t)
      /\ v.N[n] = [w.N[n] EXCEPT !.pc = "verdict", !.says = says]
      /\ v.N[j] = [w.N[j] EXCEPT !.pc = "idle"]
      /\ \A k \in Nodes : Own(v, k) = Own(w, k) /\ (Known(w, k) => Known(v, k))
  BY <1>1, <1>4 DEF Handed
<1>6. Hears(v, n, s, l, says) /\ v.N[n].flag = w.N[n].flag
  <2>1. Answered(w, v, n, says)
    BY <1>5 DEF Answered
  <2> QED
    BY <1>2, <1>3, <1>4, <1>5, <2>1, OwnerHears
<1>7. /\ NodeOK(v, n, s) /\ MainOK(v, n) /\ Heard(v, n, l)
      /\ v.N[n].pc = "verdict" /\ ~v.N[n].reused
  BY <1>6 DEF Hears
<1>8. w.N[j] \in NodeRun
  BY DEF World
<1>9. /\ v.N[j].pc = "idle" /\ v.N[j].st = w.N[j].st /\ v.N[j].outcome = w.N[j].outcome
      /\ v.N[j].open = w.N[j].open /\ v.N[j].turn = w.N[j].turn
      /\ v.N[j].reused = w.N[j].reused
  BY <1>5, <1>8 DEF NodeRun
<1>10. NodeOK(v, j, s)
  <2>1. Own(v, j) = {} /\ Known(v, j)
    BY <1>1, <1>3, <1>5
  <2>2. ~v.N[j].open /\ v.N[j].turn # "completed"
    BY <1>1, <1>9 DEF Quiet
  <2> QED
    BY <1>9, <2>1, <2>2 DEF NodeOK, One
<1>11. ~Terminal(v.N[j])
  BY <1>1, <1>9 DEF Terminal
<1>12. JudgeOK(v, n, j)
  BY <1>1, <1>3, <1>7, <1>9, <1>11 DEF JudgeOK, Terminal, Settled
<1>13. FamOK(v, n, s, l)
  BY <1>1, <1>2, <1>7, <1>10, <1>11, <1>12 DEF FamOK, Heard
<1> QED
  BY <1>4, <1>5, <1>13

LEMMA JudgeGateKeeps ==
  ASSUME WInv(Now, stopping, log), disk \in Disk, NEW j \in Nodes, JudgeGate(j)
  PROVE  WInv(Now, stopping, log)'
<1>1. /\ Now \in World /\ Now.N = node /\ Now.T = task /\ Now.Q = queue
      /\ node[j] \in NodeRun /\ \A t \in Tasks : TaskOK(Now, t)
  BY Here
<1>2. IsJudge(j) /\ node[j].pc = "gate" /\ FreeIds(Now) # {} /\ UNCHANGED <<stopping, log>>
  BY DEF JudgeGate, HasId
<1>3. PICK n \in Nodes : n = Owner(j)
  BY <1>2, Owned
<1>4. /\ Judge[n] = j /\ ~IsJudge(n) /\ j # None /\ j # n /\ j \in Fam(n)
      /\ FamOK(Now, n, stopping, log)
      /\ node[n].pc = "judge" /\ OnFloor(Now, n, stopping, log) /\ NodeOK(Now, j, stopping)
      /\ \A d \in Deps[j] : d = n \/ Good(Now, d)
  BY <1>2, <1>3, Waits DEF Fam
<1>5. /\ node[j].task \in Tasks /\ task[node[j].task].st \in {"parked", "none"}
      /\ \A t \in Own(Now, j) : t = node[j].task /\ task[t].st = "parked"
      /\ task[node[j].task].st = "none" => Own(Now, j) = {}
      /\ task[node[j].task].st = "parked" => node[j].task \in Own(Now, j)
  BY <1>1, <1>2, <1>4, Parked
<1>6. Quiet(Now, Judge[n], stopping) /\ MayLeave(Now, Judge[n])
  <2>1. ~node[j].open /\ node[j].turn # "completed"
        /\ (node[j].turn = "broken" => Own(Now, j) = {} \/ Excused(Now, j, stopping))
    BY <1>1, <1>2, <1>4 DEF NodeOK
  <2> QED
    BY <1>1, <1>4, <1>5, <2>1 DEF Quiet, MayLeave
<1>7. ~Terminal(node[j])
  BY <1>1, <1>2, <1>4 DEF FamOK, JudgeOK
<1>8. CASE Finds(j) = "missing"
  <2>1. PICK x : x = Released(Now, Judge[n])
    OBVIOUS
  <2>2. /\ x \in World /\ \A t \in Tasks : TaskOK(x, t)
        /\ Frame(Now, x, n) /\ OnFloor(x, n, stopping, log) /\ FreeIds(Now) \subseteq FreeIds(x)
        /\ Quiet(Now, Judge[n], stopping) => Quiet(x, Judge[n], stopping)
        /\ (\A t \in Own(Now, Judge[n]) : Now.N[Judge[n]].task = t /\ Now.T[t].st = "parked") =>
             Own(x, Judge[n]) = {}
    BY <1>1, <1>4, <2>1, FloorReleases
  <2>3. PICK v : v = JudgeLooped(x, Judge[n])
    OBVIOUS
  <2>4. Own(x, Judge[n]) = {}
    BY <1>1, <1>4, <1>5, <2>2
  <2>5. Quiet(x, Judge[n], stopping) /\ MayLeave(x, Judge[n]) /\ FreeIds(x) # {}
    BY <1>2, <1>6, <2>2, <2>4 DEF MayLeave
  <2>6. \A d \in Deps[Judge[n]] : d = n \/ Good(x, d)
    BY <1>4, <2>2, FrameReused, GraphAssumption
  <2>7. v \in World /\ (\A t \in Tasks : TaskOK(v, t)) /\ Frame(x, v, n) /\ FamOK(v, n, stopping, log)
    BY <2>2, <2>3, <2>4, <2>5, <2>6, JudgeLoops
  <2>8. Leads(v, n)
    BY <1>4, <2>2, <2>7, Through
  <2>9. Becomes(v)
    BY <1>4, <1>8, <2>1, <2>3 DEF JudgeGate
  <2> QED
    BY <1>2, <1>4, <2>8, <2>9, Moves DEF Leads
<1>9. CASE Finds(j) # "missing" /\ ~Completes(j)
  <2>1. PICK v : v = Returned(SettledJudge(Now, Judge[n], "cancelled"), Judge[n], "cancel")
    OBVIOUS
  <2>2. Becomes(v)
    BY <1>4, <1>9, <2>1 DEF JudgeGate
  <2>3. Own(Now, j) = {}
    BY <1>5, <1>9, EngineAssumption DEF Completes, Tasks
  <2>4. Leaves(Now, Judge[n]) /\ "cancelled" \in Settled \ {"succeeded"}
    BY <1>4, <2>3 DEF Leaves, Settled
  <2>5. v \in World /\ (\A t \in Tasks : TaskOK(v, t)) /\ Frame(Now, v, n) /\ FamOK(v, n, stopping, log)
    BY <1>1, <1>4, <1>6, <2>1, <2>4, Yields
  <2> QED
    BY <1>2, <1>4, <2>2, <2>5, Moves
<1>10. CASE Finds(j) # "missing" /\ Completes(j)
  <2>1. PICK t \in Own(Now, j) : t = node[j].task
    BY <1>5, <1>10 DEF Completes
  <2>2. PICK says \in Verdicts : says = Finds(j)
    BY <1>10 DEF Finds, Disk
  <2>3. PICK r : r = [node[j] EXCEPT !.verdict = says, !.own = TRUE]
    OBVIOUS
  <2>4. /\ r \in NodeRun /\ r.task = node[j].task /\ r.reused = node[j].reused
        /\ r.outcome = node[j].outcome /\ r.st = node[j].st /\ r.turn = node[j].turn
        /\ r.open = node[j].open /\ r.flag = node[j].flag
    BY <1>1, <2>3 DEF NodeRun
  <2>5. PICK x : x = Drop(Now, t, j, r)
    OBVIOUS
  <2>6. Frame(Now, x, n) /\ Dropped(Now, x, t, j, r)
    BY <1>1, <1>4, <2>1, <2>4, <2>5, DropIs
  <2>7. OnFloor(x, n, stopping, log)
    BY <1>1, <1>4, <2>4, <2>6, DropJudge
  <2>8. /\ x \in World /\ \A y \in Tasks : TaskOK(x, y)
        /\ x.N[j] = r /\ Own(x, j) = Own(Now, j) \ {t}
    BY <2>6 DEF Dropped
  <2>9. Own(x, Judge[n]) = {} /\ ~Terminal(x.N[Judge[n]])
    BY <1>4, <1>5, <1>7, <2>1, <2>4, <2>8 DEF Terminal
  <2>10. Quiet(x, Judge[n], stopping)
    BY <1>1, <1>4, <1>6, <2>4, <2>8, <2>9 DEF Quiet
  <2>11. PICK v : v = Returned(x, Judge[n], says)
    OBVIOUS
  <2>12. v \in World /\ (\A y \in Tasks : TaskOK(v, y)) /\ Frame(x, v, n) /\ FamOK(v, n, stopping, log)
    BY <2>7, <2>8, <2>9, <2>10, <2>11, JudgeSpeaks
  <2>13. Leads(v, n)
    BY <1>4, <2>6, <2>12, Through
  <2>14. x = [Now EXCEPT !.T[node[j].task] = Gone, !.N[j] = [@ EXCEPT !.verdict = Finds(j), !.own = TRUE]]
    BY <1>1, <2>1, <2>2, <2>3, <2>5 DEF Drop, World
  <2>15. Becomes(v)
    BY <1>4, <1>10, <2>2, <2>11, <2>14 DEF JudgeGate
  <2> QED
    BY <1>2, <1>4, <2>13, <2>15, Moves DEF Leads
<1> QED
  BY <1>8, <1>9, <1>10

-----------------------------------------------------------------------------
(* The actions of the tasks, the deadlines and the cancels                  *)

LEMMA EveryNode ==
  ASSUME NEW u, NEW s, NEW l, WInv(u, s, l), NEW k \in Nodes
  PROVE  NodeOK(u, k, s) /\ Heard(u, k, l) /\ Known(u, k) /\ One(u, k)
<1>1. CASE IsJudge(k)
  <2>1. Owner(k) \in Nodes /\ ~IsJudge(Owner(k)) /\ k \in Fam(Owner(k))
    BY <1>1, Owned DEF Fam
  <2> QED
    BY <2>1 DEF WInv, FamOK, NodeOK
<1>2. CASE ~IsJudge(k)
  BY <1>2, Families DEF WInv, FamOK, NodeOK
<1> QED
  BY <1>1, <1>2

(* Nothing of a node is changed that its family looks at.                   *)
Alike(r, q) ==
  /\ q.st = r.st /\ q.outcome = r.outcome /\ q.pc = r.pc /\ q.reused = r.reused /\ q.says = r.says
  /\ q.killed => r.killed \/ r.pc # "accept"

ArmedOK(w, n) == w.N[n].armed => w.N[n].pc = "turn" /\ \E t \in Own(w, n) : w.T[t].st = "turn"

LEMMA StaysOK ==
  ASSUME NEW u, NEW v, NEW s, NEW z, NEW l, WInv(u, s, l), v \in World,
         \A t \in Tasks : TaskOK(v, t), v.Q = u.Q,
         \A k \in Nodes : Alike(u.N[k], v.N[k]) /\ Own(v, k) \subseteq Own(u, k) /\ NodeOK(v, k, z),
         \A k \in Nodes : IsJudge(k) \/ ArmedOK(v, k)
  PROVE  WInv(v, z, l)
<1>1. ASSUME NEW n \in Nodes, ~IsJudge(n) PROVE FamOK(v, n, z, l)
  <2>1. FamOK(u, n, s, l) /\ Fam(n) \subseteq Nodes /\ n \in Fam(n)
    BY <1>1, Families DEF WInv
  <2>2. \A k \in Nodes : Resur(v, k) = Resur(u, k)
    BY Owned DEF Resur, Alike
  <2>3. \A k \in Nodes : Good(u, k) => Good(v, k)
    BY <2>2 DEF Good, Alike
  <2>4. MainOK(v, n)
    <3>1. MainOK(u, n) /\ Alike(u.N[n], v.N[n]) /\ ArmedOK(v, n)
      BY <1>1, <2>1 DEF FamOK
    <3>2. \A d \in Deps[n] : Good(u, d) => Good(v, d)
      BY <2>3, GraphAssumption
    <3> QED
      BY <3>1, <3>2 DEF MainOK, Alike, ArmedOK, Terminal
  <2>5. \A m \in Fam(n) : NodeOK(v, m, z) /\ Heard(v, m, l)
    BY <2>1 DEF FamOK, Heard, Alike, Terminal
  <2>6. ASSUME Judge[n] # None PROVE JudgeOK(v, n, Judge[n])
    <3>1. PICK j \in Nodes : j = Judge[n]
      BY <2>6, Judged
    <3>2. JudgeOK(u, n, j) /\ Alike(u.N[n], v.N[n]) /\ Alike(u.N[j], v.N[j]) /\ Own(v, j) \subseteq Own(u, j)
      BY <2>1, <2>6, <3>1 DEF FamOK
    <3>3. \A d \in Deps[j] : Good(u, d) => Good(v, d)
      BY <2>3, GraphAssumption
    <3>4. Terminal(v.N[j]) = Terminal(u.N[j]) /\ GivesUp(v.N[n]) = GivesUp(u.N[n])
      BY <3>2 DEF Alike, Terminal, GivesUp
    <3>5. JudgeOK(v, n, j)
      BY <3>2, <3>3, <3>4 DEF JudgeOK, Alike
    <3> QED
      BY <3>1, <3>5
  <2> QED
    BY <2>4, <2>5, <2>6 DEF FamOK
<1> QED
  BY <1>1 DEF WInv

(* Nothing happens to the tasks of a node, nor to the node.                 *)
LEMMA Untouched ==
  ASSUME NEW u, NEW v, NEW s, NEW l, WInv(u, s, l), u \in World, NEW k \in Nodes, v.N[k] = u.N[k],
         Own(v, k) = Own(u, k), \A t \in Own(u, k) : v.T[t] = u.T[t],
         \A t \in Tasks : u.T[t].st = "none" => v.T[t].st = "none",
         Excused(u, k, s) => Excused(v, k, s)
  PROVE  NodeOK(v, k, s)
<1>1. NodeOK(u, k, s) /\ Known(u, k)
  BY EveryNode
<1>2. Known(v, k)
  <2>1. u.N[k] \in NodeRun
    BY DEF World
  <2>2. u.N[k].task \in Tasks \cup {0}
    BY <2>1 DEF NodeRun
  <2> QED
    BY <1>1, <2>2 DEF Known
<1> QED
  BY <1>1, <1>2, NodeKeeps

LEMMA NowNode ==
  ASSUME WInv(Now, stopping, log), NEW k \in Nodes
  PROVE  NodeOK(Now, k, stopping) /\ node[k] \in NodeRun /\ (~IsJudge(k) => MainOK(Now, k))
<1>1. NodeOK(Now, k, stopping) /\ node[k] \in NodeRun
  BY EveryNode, Here
<1>2. ~IsJudge(k) => MainOK(Now, k)
  BY DEF WInv, FamOK
<1> QED
  BY <1>1, <1>2

LEMMA TurnStartsKeeps ==
  ASSUME WInv(Now, stopping, log), NEW t \in Tasks, TurnStarts(t)
  PROVE  WInv(Now, stopping, log)' /\ \A k \in Nodes : Alike(node[k], node'[k])
<1>1. /\ Now \in World /\ Now.N = node /\ Now.T = task /\ Now.Q = queue
      /\ \A y \in Tasks : TaskOK(Now, y)
  BY Here
<1>2. node \in [Nodes -> NodeRun] /\ task \in [Tasks -> Task] /\ queue \in Seq(Event)
  BY <1>1 DEF World
<1>3. task[t].st \in {"queued", "warm"} /\ UNCHANGED <<stopping, log, queue>>
  BY DEF TurnStarts
<1>4. PICK n \in Nodes : n = task[t].node
  BY <1>1, <1>3 DEF TaskOK
<1>5. PICK x : x = [task[t] EXCEPT !.st = "turn"]
  OBVIOUS
<1>6. x \in Task /\ x.st = "turn" /\ x.node = n /\ x.old = task[t].old /\ ~x.aborted
  <2>1. task[t] \in Task /\ ~task[t].aborted
    BY <1>1, <1>2, <1>3 DEF TaskOK
  <2> QED
    BY <1>4, <1>5, <2>1 DEF Task
<1>7. PICK r : r = IF task[t].old THEN node[n] ELSE [node[n] EXCEPT !.armed = Timeouts]
  OBVIOUS
<1>8. r \in NodeRun /\ Alike(node[n], r) /\ r.task = node[n].task /\ r.turn = node[n].turn
      /\ r.open = node[n].open /\ r.flag = node[n].flag
  <2>1. node[n] \in NodeRun
    BY <1>2
  <2>2. [node[n] EXCEPT !.armed = Timeouts] \in NodeRun
    BY <2>1, EngineAssumption DEF NodeRun
  <2> QED
    BY <1>7, <2>1, <2>2 DEF NodeRun, Alike
<1>9. PICK v \in World : v = [N |-> [node EXCEPT ![n] = r], T |-> [task EXCEPT ![t] = x], Q |-> queue]
  <2>1. [node EXCEPT ![n] = r] \in [Nodes -> NodeRun] /\ [task EXCEPT ![t] = x] \in [Tasks -> Task]
    BY <1>2, <1>6, <1>8
  <2>2. [N |-> [node EXCEPT ![n] = r], T |-> [task EXCEPT ![t] = x], Q |-> queue] \in World
    BY <1>2, <2>1 DEF World
  <2> QED
    BY <2>2
<1>10. Now' = v
  <2>1. task' = [task EXCEPT ![t] = x]
    BY <1>5 DEF TurnStarts
  <2>2. node' = [node EXCEPT ![n] = r]
    BY <1>2, <1>4, <1>7 DEF TurnStarts
  <2> QED
    BY <1>3, <1>9, <2>1, <2>2 DEF Now
<1>11. /\ v.Q = queue /\ v.N[n] = r /\ \A k \in Nodes \ {n} : v.N[k] = node[k]
       /\ v.T[t] = x /\ \A y \in Tasks \ {t} : v.T[y] = task[y]
  BY <1>2, <1>9
<1>12. \A y \in Tasks : TaskOK(v, y)
  BY <1>1, <1>3, <1>4, <1>6, <1>11 DEF TaskOK
<1>13. \A k \in Nodes : Own(v, k) = Own(Now, k)
  BY <1>1, <1>3, <1>4, <1>6, <1>11 DEF Own
<1>14. \A k \in Nodes : Alike(node[k], v.N[k])
  BY <1>8, <1>11 DEF Alike
<1>15. t \in Own(Now, n) <=> ~task[t].old
  BY <1>1, <1>3, <1>4 DEF Own
<1>16. \A k \in Nodes : v.N[k].flag = node[k].flag
  BY <1>8, <1>11
<1>17. \A k \in Nodes : Excused(Now, k, stopping) => Excused(v, k, stopping)
  BY <1>1, <1>16, Owned DEF Excused
<1>18. ASSUME NEW k \in Nodes, k # n \/ task[t].old PROVE NodeOK(v, k, stopping)
  <2>1. v.N[k] = node[k]
    BY <1>7, <1>11, <1>18
  <2>2. \A y \in Own(Now, k) : v.T[y] = task[y]
    BY <1>4, <1>11, <1>18, <1>1 DEF Own
  <2>3. \A y \in Tasks : task[y].st = "none" => v.T[y].st = "none"
    BY <1>3, <1>11
  <2> QED
    BY <1>1, <1>13, <1>17, <2>1, <2>2, <2>3, Untouched
<1>19. ASSUME ~task[t].old PROVE NodeOK(v, n, stopping)
  <2>1. NodeOK(Now, n, stopping) /\ One(Now, n) /\ Known(Now, n) /\ Place(Now, n, t)
    BY <1>15, <1>19, EveryNode DEF NodeOK
  <2>2. Own(v, n) = {t}
    BY <1>13, <1>15, <1>19, <2>1 DEF One
  <2>3. Place(v, n, t)
    BY <1>1, <1>3, <1>6, <1>8, <1>11, <2>1 DEF Place, Alike
  <2>4. Known(v, n)
    <3>1. CASE node[n].task = t
      BY <1>8, <1>11, <2>2, <3>1 DEF Known
    <3>2. CASE node[n].task # t /\ node[n].task # 0
      <4>1. node[n].task \in Tasks
        BY <1>2, <3>2 DEF NodeRun
      <4>2. task[node[n].task].st = "none"
        BY <1>1, <1>15, <1>19, <2>1, <3>2 DEF Known, One
      <4> QED
        BY <1>8, <1>11, <3>2, <4>1, <4>2 DEF Known
    <3>3. CASE node[n].task = 0
      BY <1>8, <1>11, <3>3 DEF Known
    <3> QED
      BY <3>1, <3>2, <3>3
  <2>5. r.turn # "completed"
    BY <1>1, <1>3, <1>8, <1>15, <1>19, <2>1 DEF NodeOK
  <2>6. r.turn = "broken" => Excused(v, n, stopping)
    BY <1>1, <1>8, <1>15, <1>17, <1>19, <2>1 DEF NodeOK
  <2> QED
    BY <1>1, <1>8, <1>11, <2>1, <2>2, <2>3, <2>4, <2>5, <2>6 DEF NodeOK, One, Alike
<1>20. ASSUME NEW k \in Nodes, ~IsJudge(k) PROVE ArmedOK(v, k)
  <2>1. MainOK(Now, k) /\ NodeOK(Now, k, stopping)
    BY <1>20, NowNode
  <2>2. CASE k = n /\ ~task[t].old
    <3>1. Place(Now, n, t) /\ ~IsJudge(n)
      BY <1>15, <1>20, <2>1, <2>2 DEF NodeOK
    <3>2. node[n].pc = "turn"
      BY <1>1, <1>3, <3>1 DEF Place
    <3> QED
      BY <1>6, <1>8, <1>11, <1>13, <1>15, <2>2, <3>2 DEF ArmedOK, Alike
  <2>3. CASE ~(k = n /\ ~task[t].old)
    <3>1. v.N[k] = node[k] /\ \A y \in Own(Now, k) : v.T[y] = task[y]
      BY <1>1, <1>4, <1>7, <1>11, <2>3 DEF Own
    <3> QED
      BY <1>1, <1>13, <2>1, <3>1 DEF ArmedOK, MainOK
  <2> QED
    BY <2>2, <2>3
<1>21. \A k \in Nodes : NodeOK(v, k, stopping)
  BY <1>18, <1>19
<1>22. WInv(v, stopping, log)
  BY <1>1, <1>11, <1>12, <1>13, <1>14, <1>20, <1>21, StaysOK
<1>23. v.N = node'
  BY <1>10 DEF Now
<1> QED
  BY <1>3, <1>10, <1>14, <1>22, <1>23

LEMMA DeliveredIs ==
  ASSUME NEW r \in NodeRun, NEW result \in {"completed", "broken"}, NEW q, q = Delivered(r, result)
  PROVE  /\ q \in NodeRun /\ Alike(r, q) /\ q.task = r.task /\ q.open = r.open /\ q.flag = r.flag
         /\ q.armed = r.armed /\ q.killed = r.killed
         /\ q.turn = IF r.open /\ r.turn = "none" THEN result ELSE r.turn
<1>1. CASE r.open /\ r.turn = "none"
  BY <1>1 DEF Delivered, NodeRun, Alike
<1>2. CASE ~(r.open /\ r.turn = "none")
  BY <1>2 DEF Delivered, NodeRun, Alike
<1> QED
  BY <1>1, <1>2

LEMMA TurnEndsKeeps ==
  ASSUME WInv(Now, stopping, log), disk \in Disk, NEW t \in Tasks, TurnEnds(t)
  PROVE  /\ WInv(Now, stopping, log)' /\ disk' \in Disk
         /\ \A k \in Nodes : Alike(node[k], node'[k])
<1>1. /\ Now \in World /\ Now.N = node /\ Now.T = task /\ Now.Q = queue
      /\ \A y \in Tasks : TaskOK(Now, y)
  BY Here
<1>2. node \in [Nodes -> NodeRun] /\ task \in [Tasks -> Task] /\ queue \in Seq(Event)
  BY <1>1 DEF World
<1>3. task[t].st = "turn" /\ UNCHANGED <<stopping, log, queue>>
  BY DEF TurnEnds
<1>4. PICK n \in Nodes : n = task[t].node
  BY <1>1, <1>3 DEF TaskOK
<1>5. PICK result \in {"completed", "broken"}, left \in Left(n) :
        /\ disk' = [disk EXCEPT ![n] = left]
        /\ task' = [task EXCEPT ![t] = IF result = "completed" /\ ~@.aborted
                                      THEN [@ EXCEPT !.st = "parked"] ELSE Gone]
        /\ node' = IF task[t].old THEN node
                   ELSE [node EXCEPT ![n] = [Delivered(@, result) EXCEPT !.armed = FALSE]]
  BY <1>4 DEF TurnEnds
<1>6. disk' \in Disk
  <2>1. disk[n] \in [ver : Nat, verdict : Verdicts \cup {None}]
    BY DEF Disk
  <2>2. left \in [ver : Nat, verdict : Verdicts \cup {None}]
    BY <2>1, EngineAssumption DEF Left
  <2> QED
    BY <1>5, <2>2 DEF Disk
<1>7. PICK x : x = IF result = "completed" /\ ~task[t].aborted
                   THEN [task[t] EXCEPT !.st = "parked"] ELSE Gone
  OBVIOUS
<1>8. /\ x \in Task
      /\ x.st = "none" \/ (x.st = "parked" /\ x.node = n /\ x.old = task[t].old /\ ~x.aborted
                           /\ result = "completed" /\ ~task[t].aborted)
      /\ ~x.aborted
  <2>1. task[t] \in Task
    BY <1>2
  <2>2. CASE result = "completed" /\ ~task[t].aborted
    BY <1>4, <1>7, <2>1, <2>2 DEF Task
  <2>3. CASE ~(result = "completed" /\ ~task[t].aborted)
    BY <1>7, <2>3 DEF Task, Gone
  <2> QED
    BY <2>2, <2>3
<1>9. PICK d : d = Delivered(node[n], result)
  OBVIOUS
<1>10. PICK r : r = IF task[t].old THEN node[n] ELSE [d EXCEPT !.armed = FALSE]
  OBVIOUS
<1>11. /\ r \in NodeRun /\ Alike(node[n], r) /\ r.task = node[n].task /\ r.open = node[n].open
       /\ r.flag = node[n].flag
       /\ ~task[t].old => /\ ~r.armed
                          /\ r.turn = IF r.open /\ node[n].turn = "none" THEN result ELSE node[n].turn
  <2>1. node[n] \in NodeRun
    BY <1>2
  <2>2. /\ d \in NodeRun /\ Alike(node[n], d) /\ d.task = node[n].task /\ d.open = node[n].open
        /\ d.flag = node[n].flag
        /\ d.turn = IF node[n].open /\ node[n].turn = "none" THEN result ELSE node[n].turn
    BY <1>9, <2>1, DeliveredIs
  <2>3. PICK e : e = [d EXCEPT !.armed = FALSE]
    OBVIOUS
  <2>4. /\ e \in NodeRun /\ Alike(node[n], e) /\ e.task = d.task /\ e.open = d.open
        /\ e.flag = d.flag /\ e.turn = d.turn /\ ~e.armed
    BY <2>2, <2>3 DEF NodeRun, Alike
  <2>5. Alike(node[n], node[n])
    BY DEF Alike
  <2>6. CASE task[t].old
    BY <1>10, <2>1, <2>5, <2>6
  <2>7. CASE ~task[t].old
    BY <1>10, <2>2, <2>3, <2>4, <2>7
  <2> QED
    BY <2>6, <2>7
<1>12. PICK v \in World : v = [N |-> [node EXCEPT ![n] = r], T |-> [task EXCEPT ![t] = x], Q |-> queue]
  <2>1. [node EXCEPT ![n] = r] \in [Nodes -> NodeRun] /\ [task EXCEPT ![t] = x] \in [Tasks -> Task]
    BY <1>2, <1>8, <1>11
  <2>2. [N |-> [node EXCEPT ![n] = r], T |-> [task EXCEPT ![t] = x], Q |-> queue] \in World
    BY <1>2, <2>1 DEF World
  <2> QED
    BY <2>2
<1>13. Now' = v
  <2>1. task' = [task EXCEPT ![t] = x]
    BY <1>2, <1>5, <1>7
  <2>2. node' = [node EXCEPT ![n] = r]
    BY <1>2, <1>5, <1>9, <1>10
  <2> QED
    BY <1>3, <1>12, <2>1, <2>2 DEF Now
<1>14. /\ v.Q = queue /\ v.N[n] = r /\ \A k \in Nodes \ {n} : v.N[k] = node[k]
       /\ v.T[t] = x /\ \A y \in Tasks \ {t} : v.T[y] = task[y]
  BY <1>2, <1>12
<1>15. \A y \in Tasks : TaskOK(v, y)
  <2>1. TaskOK(v, t)
    BY <1>1, <1>3, <1>4, <1>8, <1>14 DEF TaskOK
  <2> QED
    BY <1>1, <1>14, <2>1 DEF TaskOK
<1>16. \A k \in Nodes : Own(v, k) = IF x.st = "none" THEN Own(Now, k) \ {t} ELSE Own(Now, k)
  BY <1>1, <1>3, <1>4, <1>8, <1>14 DEF Own
<1>17. t \in Own(Now, n) <=> ~task[t].old
  BY <1>1, <1>3, <1>4 DEF Own
<1>18. \A k \in Nodes : Alike(node[k], v.N[k]) /\ v.N[k].flag = node[k].flag
  BY <1>11, <1>14 DEF Alike
<1>19. \A k \in Nodes : Excused(Now, k, stopping) => Excused(v, k, stopping)
  BY <1>1, <1>18, Owned DEF Excused
<1>20. ASSUME NEW k \in Nodes, k # n \/ task[t].old PROVE NodeOK(v, k, stopping)
  <2>1. v.N[k] = node[k]
    BY <1>10, <1>14, <1>20
  <2>2. t \notin Own(Now, k)
    BY <1>1, <1>4, <1>20 DEF Own
  <2>3. Own(v, k) = Own(Now, k) /\ \A y \in Own(Now, k) : v.T[y] = task[y]
    BY <1>14, <1>16, <2>2 DEF Own
  <2>4. \A y \in Tasks : task[y].st = "none" => v.T[y].st = "none"
    BY <1>3, <1>14
  <2> QED
    BY <1>1, <1>19, <2>1, <2>3, <2>4, Untouched
<1>21. ASSUME ~task[t].old PROVE NodeOK(v, n, stopping)
  <2>1. NodeOK(Now, n, stopping) /\ One(Now, n) /\ Known(Now, n) /\ Place(Now, n, t)
    BY <1>17, <1>21, EveryNode DEF NodeOK
  <2>2. Own(v, n) = IF x.st = "none" THEN {} ELSE {t}
    BY <1>16, <1>17, <1>21, <2>1 DEF One
  <2>3. x.st = "parked" => Place(v, n, t)
    BY <1>1, <1>3, <1>8, <1>11, <1>14, <2>1 DEF Place, Alike
  <2>4. Known(v, n)
    <3>1. CASE node[n].task = t
      BY <1>8, <1>11, <1>14, <2>2, <3>1 DEF Known
    <3>2. CASE node[n].task # t /\ node[n].task # 0
      <4>1. node[n].task \in Tasks
        BY <1>2, <3>2 DEF NodeRun
      <4>2. task[node[n].task].st = "none"
        BY <1>1, <1>17, <1>21, <2>1, <3>2 DEF Known, One
      <4> QED
        BY <1>11, <1>14, <3>2, <4>1, <4>2 DEF Known
    <3>3. CASE node[n].task = 0
      BY <1>11, <1>14, <3>3 DEF Known
    <3> QED
      BY <3>1, <3>2, <3>3
  <2>5. node[n].turn # "completed"
    BY <1>1, <1>3, <1>17, <1>21, <2>1 DEF NodeOK
  <2>6. node[n].open => node[n].pc = "turn"
    BY <1>1, <1>3, <2>1 DEF NodeOK, Place
  <2>7. r.turn = "completed" => r.pc = "turn" /\ \A y \in Own(v, n) : v.T[y].st = "parked"
    BY <1>8, <1>11, <1>14, <1>21, <2>2, <2>5, <2>6 DEF Alike
  <2>8. r.turn = "broken" => Own(v, n) = {} \/ Excused(v, n, stopping)
    <3>1. CASE x.st = "none"
      BY <2>2, <3>1
    <3>2. CASE x.st = "parked" /\ r.turn = "broken"
      <4>1. node[n].turn = "broken"
        BY <1>8, <1>11, <1>21, <3>2
      <4> QED
        BY <1>1, <1>17, <1>19, <1>21, <2>1, <4>1 DEF NodeOK
    <3> QED
      BY <1>8, <3>1, <3>2
  <2>9. /\ r.pc \in {"turn", "gate", "judge", "verdict"} => r.task # 0
        /\ r.pc \notin {"plan", "turn"} => ~r.open
    BY <1>1, <1>11, <2>1 DEF NodeOK, Alike
  <2> QED
    BY <1>8, <1>14, <2>2, <2>3, <2>4, <2>7, <2>8, <2>9 DEF NodeOK, One
<1>22. ASSUME NEW k \in Nodes, ~IsJudge(k) PROVE ArmedOK(v, k)
  <2>1. MainOK(Now, k)
    BY <1>22, NowNode
  <2>2. CASE k = n /\ ~task[t].old
    BY <1>11, <1>14, <2>2 DEF ArmedOK
  <2>3. CASE ~(k = n /\ ~task[t].old)
    <3>1. v.N[k] = node[k] /\ t \notin Own(Now, k)
      BY <1>1, <1>4, <1>10, <1>14, <2>3 DEF Own
    <3>2. Own(v, k) = Own(Now, k) /\ \A y \in Own(Now, k) : v.T[y] = task[y]
      BY <1>14, <1>16, <3>1 DEF Own
    <3> QED
      BY <1>1, <2>1, <3>1, <3>2 DEF ArmedOK, MainOK
  <2> QED
    BY <2>2, <2>3
<1>23. \A k \in Nodes : NodeOK(v, k, stopping)
  BY <1>20, <1>21
<1>24. \A k \in Nodes : Own(v, k) \subseteq Own(Now, k)
  BY <1>16
<1>25. WInv(v, stopping, log)
  BY <1>1, <1>14, <1>15, <1>18, <1>22, <1>23, <1>24, StaysOK
<1>26. v.N = node'
  BY <1>13 DEF Now
<1> QED
  BY <1>3, <1>6, <1>13, <1>18, <1>25, <1>26

(* What a cancel, a deadline or an interrupt does to a node, and to a task.  *)
Stirs(r, q) ==
  /\ Alike(r, q) /\ q.task = r.task /\ (q.open => r.open) /\ (q.armed => r.armed)
  /\ (r.flag => q.flag) /\ (q.turn = r.turn \/ q.turn = "broken")

Struck(u, v) == \A y \in Tasks : v.T[y] = u.T[y] \/ v.T[y] = Interrupted(u.T, y)[y]

LEMMA StruckIs ==
  ASSUME NEW u \in World, NEW v, Struck(u, v), NEW y \in Tasks
  PROVE  /\ v.T[y] \in Task
         /\ \/ v.T[y].st = "none"
            \/ /\ v.T[y].node = u.T[y].node /\ v.T[y].old = u.T[y].old
               /\ u.T[y].st # "none" /\ (u.T[y].aborted => v.T[y].aborted)
               /\ v.T[y].aborted => u.T[y].aborted \/ v.T[y].st = "turn"
               /\ v.T[y].st = u.T[y].st \/ (u.T[y].st = "planning" /\ v.T[y].st = "cut")
         /\ u.T[y].st = "none" => v.T[y].st = "none"
         /\ u.T[y].st = "turn" => v.T[y].st = "turn"
<1>1. u.T \in [Tasks -> Task] /\ u.T[y] \in Task
  BY DEF World
<1>2. CASE v.T[y] = u.T[y]
  BY <1>1, <1>2 DEF Task
<1>3. CASE v.T[y] = Interrupted(u.T, y)[y]
  <2>1. /\ Interrupted(u.T, y) \in [Tasks -> Task]
        /\ u.T[y].st = "planning" => v.T[y] = [u.T[y] EXCEPT !.st = "cut"]
        /\ u.T[y].st = "turn" => v.T[y] = [u.T[y] EXCEPT !.aborted = TRUE]
        /\ u.T[y].st \notin {"planning", "turn"} => v.T[y] = Gone
    BY <1>1, <1>3, InterruptIs
  <2>2. v.T[y] \in Task
    BY <1>3, <2>1
  <2>3. CASE u.T[y].st = "planning"
    BY <1>1, <2>1, <2>2, <2>3 DEF Task
  <2>4. CASE u.T[y].st = "turn"
    BY <1>1, <2>1, <2>2, <2>4 DEF Task
  <2>5. CASE u.T[y].st \notin {"planning", "turn"}
    BY <2>1, <2>2, <2>5 DEF Gone
  <2> QED
    BY <2>3, <2>4, <2>5
<1> QED
  BY <1>2, <1>3 DEF Struck

LEMMA StirKeeps ==
  ASSUME NEW u, NEW v, NEW s, NEW z, NEW l, WInv(u, s, l), v \in World, v.Q = u.Q, s => z,
         \A k \in Nodes : Stirs(u.N[k], v.N[k]), Struck(u, v),
         \A k \in Nodes : v.N[k].turn = "broken" /\ u.N[k].turn # "broken" =>
                            Own(v, k) = {} \/ Excused(v, k, z)
  PROVE  WInv(v, z, l)
<1>1. u \in World /\ \A y \in Tasks : TaskOK(u, y)
  BY DEF WInv
<1>2. \A y \in Tasks :
        /\ \/ v.T[y].st = "none"
           \/ /\ v.T[y].node = u.T[y].node /\ v.T[y].old = u.T[y].old
              /\ u.T[y].st # "none" /\ (u.T[y].aborted => v.T[y].aborted)
              /\ v.T[y].aborted => u.T[y].aborted \/ v.T[y].st = "turn"
              /\ v.T[y].st = u.T[y].st \/ (u.T[y].st = "planning" /\ v.T[y].st = "cut")
        /\ u.T[y].st = "none" => v.T[y].st = "none"
        /\ u.T[y].st = "turn" => v.T[y].st = "turn"
        /\ v.T[y].st = "none" => ~v.T[y].aborted
  <2>1. \A y \in Tasks : u.T[y].st # "none" \/ u.T[y].aborted = FALSE
    BY <1>1 DEF TaskOK, World, Task
  <2>2. ASSUME NEW y \in Tasks, v.T[y].st = "none" PROVE ~v.T[y].aborted
    <3>1. u.T \in [Tasks -> Task] /\ u.T[y] \in Task
      BY <1>1 DEF World
    <3>2. CASE v.T[y] = u.T[y]
      BY <2>1, <2>2, <3>2
    <3>3. CASE v.T[y] = Interrupted(u.T, y)[y]
      <4>1. /\ u.T[y].st = "planning" => v.T[y] = [u.T[y] EXCEPT !.st = "cut"]
            /\ u.T[y].st = "turn" => v.T[y] = [u.T[y] EXCEPT !.aborted = TRUE]
            /\ u.T[y].st \notin {"planning", "turn"} => v.T[y] = Gone
        <5>1. u.T \in [Tasks -> Task] /\ y \in Tasks
          BY <3>1
        <5> HIDE DEF WInv, World, Struck, Stirs
        <5> QED
          BY <3>3, <5>1, InterruptIs
      <4>2. u.T[y].st \notin {"planning", "turn"}
        BY <2>2, <3>1, <4>1 DEF Task
      <4> QED
        BY <4>1, <4>2 DEF Gone
    <3> QED
      BY <3>2, <3>3 DEF Struck
  <2> QED
    BY <1>1, <2>2, StruckIs
<1>3. ASSUME NEW y \in Tasks PROVE TaskOK(v, y)
  <2>1. TaskOK(u, y)
    BY <1>1
  <2> QED
    BY <1>2, <2>1 DEF TaskOK
<1>4. \A k \in Nodes : Own(v, k) = {y \in Own(u, k) : v.T[y].st # "none"}
  BY <1>2 DEF Own
<1>5. \A k \in Nodes : Excused(u, k, s) => Excused(v, k, z)
  BY Owned DEF Excused, Stirs
<1>6. ASSUME NEW k \in Nodes PROVE NodeOK(v, k, z)
  <2>1. NodeOK(u, k, s) /\ One(u, k) /\ Known(u, k) /\ Stirs(u.N[k], v.N[k])
    BY EveryNode
  <2>2. One(v, k)
    BY <1>4, <2>1 DEF One
  <2>3. Known(v, k)
    <3>1. u.N[k] \in NodeRun
      BY <1>1 DEF World
    <3>2. u.N[k].task \in Tasks \cup {0}
      BY <3>1 DEF NodeRun
    <3> QED
      BY <1>2, <1>4, <2>1, <3>2 DEF Known, Stirs
  <2>4. ASSUME NEW y \in Own(v, k) PROVE Place(v, k, y)
    <3>1. y \in Tasks /\ y \in Own(u, k) /\ v.T[y].st # "none" /\ Place(u, k, y)
      BY <1>4, <2>1, <2>4 DEF NodeOK, Own
    <3>2. /\ v.T[y].st = u.T[y].st \/ (u.T[y].st = "planning" /\ v.T[y].st = "cut")
          /\ u.T[y].aborted => v.T[y].aborted
      BY <1>2, <3>1
    <3> QED
      BY <2>1, <3>1, <3>2 DEF Place, Stirs, Alike
  <2>5. /\ v.N[k].pc \in {"turn", "gate", "judge", "verdict"} => v.N[k].task # 0
        /\ v.N[k].pc \notin {"plan", "turn"} => ~v.N[k].open
    BY <2>1 DEF NodeOK, Stirs, Alike
  <2>6. v.N[k].turn = "completed" =>
          v.N[k].pc = "turn" /\ \A y \in Own(v, k) : v.T[y].st = "parked"
    <3>1. ASSUME v.N[k].turn = "completed" PROVE u.N[k].turn = "completed"
      BY <2>1, <3>1 DEF Stirs
    <3>2. ASSUME u.N[k].turn = "completed", NEW y \in Own(v, k) PROVE v.T[y].st = "parked"
      <4>1. y \in Tasks /\ y \in Own(u, k) /\ v.T[y].st # "none" /\ u.T[y].st = "parked"
        BY <1>4, <2>1, <3>2 DEF NodeOK, Own
      <4> QED
        BY <1>2, <4>1
    <3> QED
      BY <2>1, <3>1, <3>2 DEF NodeOK, Stirs, Alike
  <2>7. v.N[k].turn = "broken" => Own(v, k) = {} \/ Excused(v, k, z)
    BY <1>4, <1>5, <2>1 DEF NodeOK
  <2> QED
    BY <2>2, <2>3, <2>4, <2>5, <2>6, <2>7 DEF NodeOK
<1>7. ASSUME NEW k \in Nodes, ~IsJudge(k) PROVE ArmedOK(v, k)
  <2>1. MainOK(u, k) /\ Stirs(u.N[k], v.N[k])
    BY <1>7 DEF WInv, FamOK
  <2>2. ASSUME NEW y \in Own(u, k), u.T[y].st = "turn" PROVE y \in Own(v, k) /\ v.T[y].st = "turn"
    BY <1>2, <1>4, <2>2 DEF Own
  <2> QED
    BY <2>1, <2>2 DEF MainOK, ArmedOK, Stirs, Alike
<1>8. \A k \in Nodes : Alike(u.N[k], v.N[k]) /\ Own(v, k) \subseteq Own(u, k)
  BY <1>4 DEF Stirs
<1> QED
  BY <1>3, <1>6, <1>7, <1>8, StaysOK

LEMMA ShutIs ==
  ASSUME NEW r \in NodeRun, NEW q, q = Shut(r)
  PROVE  q \in NodeRun /\ Stirs(r, q)
<1>1. PICK d : d = Delivered(r, "broken")
  OBVIOUS
<1>2. /\ d \in NodeRun /\ Alike(r, d) /\ d.task = r.task /\ d.flag = r.flag
      /\ d.armed = r.armed /\ (d.turn = r.turn \/ d.turn = "broken")
  BY <1>1, DeliveredIs
<1>3. q = [d EXCEPT !.open = FALSE]
  BY <1>1 DEF Shut
<1>4. q \in NodeRun
  BY <1>2, <1>3 DEF NodeRun
<1>5. /\ q.task = d.task /\ ~q.open /\ q.flag = d.flag /\ q.armed = d.armed /\ q.turn = d.turn
      /\ Alike(d, q)
  BY <1>2, <1>3 DEF NodeRun, Alike
<1> QED
  BY <1>2, <1>4, <1>5 DEF Stirs, Alike

(* The nodes and tasks that an action changed, pointwise.                   *)
LEMMA StirNow ==
  ASSUME WInv(Now, stopping, log), UNCHANGED <<queue, log>>, stopping => stopping',
         node' = [k \in Nodes |-> node'[k]], task' = [y \in Tasks |-> task'[y]],
         \A k \in Nodes : node'[k] \in NodeRun /\ Stirs(node[k], node'[k]),
         \A y \in Tasks : task'[y] = task[y] \/ task'[y] = Interrupted(task, y)[y],
         \A k \in Nodes : node'[k].turn = "broken" /\ node[k].turn # "broken" =>
                            Own(Now', k) = {} \/ Excused(Now', k, stopping')
  PROVE  WInv(Now, stopping, log)'
<1>1. /\ Now \in World /\ Now.N = node /\ Now.T = task /\ Now.Q = queue
  BY Here
<1>2. Now'.N = node' /\ Now'.T = task' /\ Now'.Q = queue
  BY DEF Now
<1>3. Struck(Now, Now')
  BY <1>1, <1>2 DEF Struck
<1>4. Now' \in World
  <2>1. \A y \in Tasks : task'[y] \in Task
    BY <1>1, <1>2, <1>3, StruckIs
  <2>2. node' \in [Nodes -> NodeRun] /\ task' \in [Tasks -> Task]
    BY <2>1
  <2>3. queue' \in Seq(Event)
    BY <1>1 DEF World
  <2> QED
    BY <2>2, <2>3 DEF Now, World
<1>5. \A k \in Nodes : Stirs(Now.N[k], Now'.N[k])
  BY <1>1, <1>2
<1>6. WInv(Now', stopping', log)
  BY <1>1, <1>2, <1>3, <1>4, <1>5, StirKeeps
<1> QED
  BY <1>6

LEMMA CancelRunKeeps ==
  ASSUME WInv(Now, stopping, log), CancelRun
  PROVE  WInv(Now, stopping, log)' /\ \A k \in Nodes : Alike(node[k], node'[k])
<1>1. /\ node \in [Nodes -> NodeRun] /\ stopping' = TRUE /\ UNCHANGED <<queue, log>>
  BY Here DEF CancelRun, World
<1>2. node' = [k \in Nodes |-> [Shut(node[k]) EXCEPT !.armed = FALSE]]
  BY DEF CancelRun
<1>3. ASSUME NEW k \in Nodes PROVE node'[k] \in NodeRun /\ Stirs(node[k], node'[k])
  <2>1. PICK q : q = Shut(node[k])
    OBVIOUS
  <2>2. q \in NodeRun /\ Stirs(node[k], q)
    BY <1>1, <2>1, ShutIs
  <2>3. PICK e : e = [q EXCEPT !.armed = FALSE]
    OBVIOUS
  <2>4. e \in NodeRun
    BY <2>2, <2>3 DEF NodeRun
  <2>5. e.task = q.task /\ e.open = q.open /\ e.flag = q.flag /\ ~e.armed /\ e.turn = q.turn /\ Alike(q, e)
    BY <2>2, <2>3 DEF NodeRun, Alike
  <2>6. Stirs(node[k], e)
    BY <2>2, <2>5 DEF Stirs, Alike
  <2> QED
    BY <1>2, <2>1, <2>3, <2>4, <2>6
<1>4. task' = [y \in Tasks |-> task'[y]]
      /\ \A y \in Tasks : task'[y] = task[y] \/ task'[y] = Interrupted(task, y)[y]
  BY DEF CancelRun, AllInterrupted
<1>5. \A k \in Nodes : Excused(Now', k, stopping')
  BY <1>1 DEF Excused
<1> QED
  BY <1>1, <1>2, <1>3, <1>4, <1>5, StirNow DEF Stirs

LEMMA CancelNodeKeeps ==
  ASSUME WInv(Now, stopping, log), NEW n \in Nodes, CancelNode(n)
  PROVE  WInv(Now, stopping, log)' /\ \A k \in Nodes : Alike(node[k], node'[k])
<1>1. /\ node \in [Nodes -> NodeRun] /\ UNCHANGED <<stopping, queue, log>>
  BY Here DEF CancelNode, World
<1>2. PICK S : S = ShutOut(n)
  OBVIOUS
<1>3. node' = [m \in Nodes |-> [(IF m \in S THEN Shut(node[m]) ELSE node[m]) EXCEPT !.flag = @ \/ m = n]]
  BY <1>2 DEF CancelNode
<1>4. ASSUME NEW k \in Nodes
      PROVE  /\ node'[k] \in NodeRun /\ Stirs(node[k], node'[k]) /\ (k = n => node'[k].flag)
             /\ k \notin S => node'[k].turn = node[k].turn
  <2>1. PICK q : q = IF k \in S THEN Shut(node[k]) ELSE node[k]
    OBVIOUS
  <2>2. q \in NodeRun /\ Stirs(node[k], q) /\ (k \notin S => q = node[k])
    <3>1. CASE k \in S
      BY <1>1, <2>1, <3>1, ShutIs
    <3>2. CASE k \notin S
      BY <1>1, <2>1, <3>2 DEF Stirs, Alike
    <3> QED
      BY <3>1, <3>2
  <2>3. PICK b \in BOOLEAN : b = (q.flag \/ k = n)
    OBVIOUS
  <2>4. PICK e : e = [q EXCEPT !.flag = b]
    OBVIOUS
  <2>5. node'[k] = e
    BY <1>3, <2>1, <2>3, <2>4
  <2>6. e \in NodeRun
    BY <2>2, <2>4 DEF NodeRun
  <2>7. e.task = q.task /\ e.open = q.open /\ e.flag = b /\ e.armed = q.armed /\ e.turn = q.turn /\ Alike(q, e)
    BY <2>2, <2>4 DEF NodeRun, Alike
  <2>8. Stirs(node[k], e)
    BY <2>2, <2>3, <2>7 DEF Stirs, Alike
  <2> QED
    BY <2>2, <2>3, <2>5, <2>6, <2>7, <2>8
<1>5. task' = [y \in Tasks |-> task'[y]]
      /\ \A y \in Tasks : task'[y] = task[y] \/ task'[y] = Interrupted(task, y)[y]
  BY DEF CancelNode, AllInterrupted
<1>6. ASSUME NEW k \in S, k \in Nodes PROVE Excused(Now', k, stopping')
  <2>1. CASE k = n
    BY <1>4, <2>1 DEF Excused, Now
  <2>2. CASE k # n
    <3>1. k = Judge[n] /\ k # None
      BY <1>2, <1>6, <2>2, GraphAssumption DEF ShutOut
    <3>2. IsJudge(k) /\ Owner(k) = n
      BY <3>1, Judged
    <3> QED
      BY <1>4, <3>2 DEF Excused, Now
  <2> QED
    BY <2>1, <2>2
<1>7. \A k \in Nodes : node'[k].turn = "broken" /\ node[k].turn # "broken" =>
                            Own(Now', k) = {} \/ Excused(Now', k, stopping')
  BY <1>4, <1>6
<1>8. node' = [k \in Nodes |-> node'[k]]
  BY <1>3
<1> QED
  BY <1>1, <1>4, <1>5, <1>7, <1>8, StirNow DEF Stirs

LEMMA DeadlineKeeps ==
  ASSUME WInv(Now, stopping, log), NEW n \in Nodes, Deadline(n)
  PROVE  WInv(Now, stopping, log)' /\ \A k \in Nodes : Alike(node[k], node'[k])
<1>1. /\ node \in [Nodes -> NodeRun] /\ task \in [Tasks -> Task]
      /\ UNCHANGED <<stopping, queue, log>> /\ node[n].armed
  BY Here DEF Deadline, World
<1>2. node' = [node EXCEPT ![n] = [@ EXCEPT !.armed = FALSE, !.killed = TRUE]]
  BY DEF Deadline
<1>3. node[n].pc # "accept"
  <2>1. CASE IsJudge(n)
    <3>1. Owner(n) \in Nodes /\ ~IsJudge(Owner(n)) /\ Judge[Owner(n)] = n /\ n # None
      BY <2>1, Owned
    <3>2. JudgeOK(Now, Owner(n), n)
      BY <3>1 DEF WInv, FamOK
    <3> QED
      BY <3>2 DEF JudgeOK, Now
  <2>2. CASE ~IsJudge(n)
    <3>1. MainOK(Now, n)
      BY <2>2, NowNode
    <3> QED
      BY <1>1, <3>1 DEF MainOK, Now
  <2> QED
    BY <2>1, <2>2
<1>4. PICK r : r = [node[n] EXCEPT !.armed = FALSE, !.killed = TRUE]
  OBVIOUS
<1>5. r \in NodeRun /\ Stirs(node[n], r) /\ r.turn = node[n].turn
  <2>1. node[n] \in NodeRun
    BY <1>1
  <2> QED
    BY <1>3, <1>4, <2>1 DEF NodeRun, Stirs, Alike
<1>6. \A k \in Nodes : node'[k] = IF k = n THEN r ELSE node[k]
  BY <1>1, <1>2, <1>4
<1>7. \A k \in Nodes : Stirs(node[k], node[k])
  BY DEF Stirs, Alike
<1>8. \A k \in Nodes : node'[k] \in NodeRun /\ Stirs(node[k], node'[k]) /\ node'[k].turn = node[k].turn
  BY <1>1, <1>5, <1>6, <1>7
<1>9. task' = [y \in Tasks |-> task'[y]]
      /\ \A y \in Tasks : task'[y] = task[y] \/ task'[y] = Interrupted(task, y)[y]
  <2>1. task' = Interrupted(task, node[n].task) /\ node[n].task \in Tasks \cup {0}
    BY <1>1 DEF Deadline, NodeRun
  <2>2. CASE node[n].task = 0
    BY <1>1, <2>1, <2>2 DEF Interrupted
  <2>3. CASE node[n].task \in Tasks
    <3>1. PICK y \in Tasks : y = node[n].task
      BY <2>3
    <3>2. /\ Interrupted(task, y) \in [Tasks -> Task]
          /\ \A x \in Tasks : x # y => Interrupted(task, y)[x] = task[x]
      BY <1>1, InterruptIs
    <3> QED
      BY <2>1, <3>1, <3>2
  <2> QED
    BY <2>1, <2>2, <2>3
<1>10. node' = [k \in Nodes |-> node'[k]]
  BY <1>1, <1>2
<1> QED
  BY <1>1, <1>8, <1>9, <1>10, StirNow DEF Stirs

LEMMA InterruptKeeps ==
  ASSUME WInv(Now, stopping, log), NEW t \in Tasks, Interrupt(t)
  PROVE  WInv(Now, stopping, log)' /\ \A k \in Nodes : Alike(node[k], node'[k])
<1>1. /\ Now \in World /\ Now.N = node /\ Now.T = task
      /\ node \in [Nodes -> NodeRun] /\ task \in [Tasks -> Task]
      /\ UNCHANGED <<stopping, queue, log>> /\ task[t].st # "none" /\ ~task[t].old
      /\ task' = Interrupted(task, t) /\ TaskOK(Now, t)
  BY Here DEF Interrupt, World, Live
<1>2. PICK n \in Nodes : n = task[t].node
  BY <1>1 DEF TaskOK
<1>3. /\ task' \in [Tasks -> Task] /\ \A y \in Tasks : y # t => task'[y] = task[y]
      /\ task[t].st \notin {"planning", "turn"} => task'[t] = Gone
  <2>1. /\ Interrupted(task, t) \in [Tasks -> Task]
        /\ \A x \in Tasks : x # t => Interrupted(task, t)[x] = task[x]
        /\ task[t].st \notin {"planning", "turn"} => Interrupted(task, t)[t] = Gone
    BY <1>1, InterruptIs
  <2> QED
    BY <1>1, <2>1
<1>4. \A y \in Tasks : task'[y] = task[y] \/ task'[y] = Interrupted(task, y)[y]
  BY <1>1, <1>3
<1>5. PICK r : r = Delivered(node[n], "broken")
  OBVIOUS
<1>6. r \in NodeRun /\ Stirs(node[n], r)
  <2>1. node[n] \in NodeRun
    BY <1>1
  <2>2. /\ r \in NodeRun /\ Alike(node[n], r) /\ r.task = node[n].task /\ r.open = node[n].open
        /\ r.flag = node[n].flag /\ r.armed = node[n].armed
        /\ r.turn = node[n].turn \/ r.turn = "broken"
    BY <1>5, <2>1, DeliveredIs
  <2> QED
    BY <2>2 DEF Stirs
<1>7. \A k \in Nodes : Stirs(node[k], node[k])
  BY DEF Stirs, Alike
<1>8. CASE task[t].st \in {"queued", "warm"}
  <2>1. node' = [node EXCEPT ![n] = r]
    BY <1>2, <1>5, <1>8 DEF Interrupt
  <2>2. task'[t].st = "none"
    BY <1>3, <1>8 DEF Gone
  <2>3. Own(Now, n) = {t}
    <3>1. t \in Own(Now, n) /\ One(Now, n)
      BY <1>1, <1>2, EveryNode DEF Own
    <3> QED
      BY <3>1 DEF One
  <2>4. Own(Now', n) = {}
    <3>1. Now'.T = task'
      BY DEF Now
    <3> QED
      BY <1>1, <1>3, <2>2, <2>3, <3>1 DEF Own
  <2>5. \A k \in Nodes : node'[k] = IF k = n THEN r ELSE node[k]
    BY <1>1, <2>1
  <2>6. \A k \in Nodes : node'[k] \in NodeRun /\ Stirs(node[k], node'[k])
    BY <1>1, <1>6, <1>7, <2>5
  <2>7. \A k \in Nodes : node'[k].turn = "broken" /\ node[k].turn # "broken" =>
                            Own(Now', k) = {} \/ Excused(Now', k, stopping')
    BY <2>4, <2>5
  <2>8. node' = [k \in Nodes |-> node'[k]] /\ task' = [y \in Tasks |-> task'[y]]
    BY <1>1, <1>3, <2>1
  <2> QED
    BY <1>1, <1>4, <2>6, <2>7, <2>8, StirNow DEF Stirs
<1>9. CASE task[t].st \notin {"queued", "warm"}
  <2>1. node' = node
    BY <1>9 DEF Interrupt
  <2>2. node' = [k \in Nodes |-> node'[k]] /\ task' = [y \in Tasks |-> task'[y]]
    BY <1>1, <1>3, <2>1
  <2> QED
    BY <1>1, <1>4, <1>7, <2>1, <2>2, StirNow DEF Stirs
<1> QED
  BY <1>8, <1>9

-----------------------------------------------------------------------------
(* The journal                                                             *)

(* A set of numbers that is not empty has a least member.                  *)
LEMMA LeastNumber ==
  ASSUME NEW S \in SUBSET Nat, S # {}
  PROVE  \E x \in S : \A y \in S : x <= y
<1>1. \E x \in S : \A y \in S : ~(<<y, x>> \in OpToRel(<, Nat))
  BY NatLessThanWellFounded, WFMin
<1>2. PICK x \in S : \A y \in S : ~(<<y, x>> \in OpToRel(<, Nat))
  BY <1>1
<1>3. \A y \in S : ~(y < x)
  BY <1>2 DEF OpToRel
<1> QED
  BY <1>3

LEMMA LastIs ==
  ASSUME NEW k \in Nat, NEW S \in SUBSET (1 .. k), S # {}
  PROVE  Max(S) \in S /\ \A y \in S : y <= Max(S)
<1>1. PICK D : D = {d \in Nat : \E y \in S : d = k - y}
  OBVIOUS
<1>2. PICK d \in D : \A e \in D : d <= e
  <2>1. PICK y \in S : y \in 1 .. k
    OBVIOUS
  <2>2. k - y \in Nat
    BY <2>1
  <2>3. D # {} /\ D \in SUBSET Nat
    BY <1>1, <2>1, <2>2
  <2> QED
    BY <2>3, LeastNumber
<1>3. PICK x \in S : d = k - x
  BY <1>1, <1>2
<1>4. \A y \in S : x >= y
  <2>1. ASSUME NEW y \in S PROVE x >= y
    <3>1. k - y \in D
      BY <1>1
    <3>2. k - x <= k - y
      BY <1>2, <1>3, <3>1
    <3> QED
      BY <3>2
  <2> QED
    BY <2>1
<1>5. \E z \in S : \A y \in S : z >= y
  BY <1>4
<1>6. Max(S) \in S /\ \A y \in S : Max(S) >= y
  BY <1>5 DEF Max
<1> QED
  BY <1>6

(* What is told of a node last.                                             *)
LEMMA ToldLast ==
  ASSUME NEW events \in Seq(Event), NEW n \in Nodes, Told(events, n) # {}
  PROVE  /\ LastOf(events, n) \in Event
         /\ \E i \in DOMAIN events : LastTells(events, n, i) /\ LastOf(events, n) = events[i]
<1>1. Len(events) \in Nat /\ DOMAIN events = 1 .. Len(events)
      /\ \A i \in DOMAIN events : events[i] \in Event
  BY LenProperties, ElementOfSeq
<1>2. Told(events, n) \in SUBSET (1 .. Len(events))
  BY <1>1 DEF Told
<1>3. PICK i : i = Max(Told(events, n))
  OBVIOUS
<1>4. i \in Told(events, n) /\ \A k \in Told(events, n) : k <= i
  BY <1>1, <1>2, <1>3, LastIs
<1>5. LastTells(events, n, i)
  <2>1. i \in DOMAIN events /\ events[i].id = n
    BY <1>4 DEF Told
  <2>2. ASSUME NEW k \in DOMAIN events, k > i PROVE events[k].id # n
    <3>1. CASE events[k].id = n
      <4>1. k <= i
        BY <1>4, <3>1 DEF Told
      <4> QED
        BY <1>1, <2>1, <2>2, <4>1
    <3> QED
      BY <3>1
  <2> QED
    BY <2>1, <2>2 DEF LastTells
<1>6. LastOf(events, n) = events[i] /\ i \in DOMAIN events
  BY <1>3, <1>4 DEF LastOf, Told
<1> QED
  BY <1>1, <1>5, <1>6

LEMMA ClaimIs ==
  ASSUME NEW e \in Event, NEW before
  PROVE  /\ ClaimAfter(e, before) \in Claim \cup {None}
         /\ ClaimAfter(e, before) # None <=> e.state = "succeeded"
<1>1. CASE e.state # "succeeded"
  BY <1>1 DEF ClaimAfter
<1>2. CASE e.state = "succeeded"
  <2>1. PICK D : D = IF IsJudge(e.id) THEN {} ELSE Deps[e.id]
    OBVIOUS
  <2>2. e.id \in Nodes /\ e.ver \in Nat /\ e.verdict \in Verdicts \cup {None}
    BY DEF Event
  <2>3. D \in SUBSET Nodes
    BY <2>1, <2>2, GraphAssumption
  <2>4. ClaimAfter(e, before) = [ver |-> e.ver, verdict |-> e.verdict, deps |-> D]
    BY <1>2, <2>1 DEF ClaimAfter
  <2>5. ClaimAfter(e, before) \in Claim
    BY <2>2, <2>3, <2>4 DEF Claim
  <2> QED
    BY <1>2, <2>5, EngineAssumption
<1> QED
  BY <1>1, <1>2

(* The journal of a run tells what its events told, and it claims what was   *)
(* told to have succeeded.                                                 *)
LEMMA JournalIs ==
  ASSUME log \in Log, LogSane(log), NEW events \in Seq(Event), NEW j, j = Journal(events)
  PROVE  /\ j \in Log /\ LogSane(j) /\ j.finished = log.finished
         /\ \A n \in Nodes : Told(events, n) = {} => j.last[n] = log.last[n]
         /\ \A n \in Nodes : \A x : Tells(events, log, n, x) => j.last[n] = x
<1>1. PICK last : last = [n \in Nodes |-> IF Told(events, n) = {} THEN log.last[n]
                                          ELSE LastOf(events, n).state]
  OBVIOUS
<1>2. PICK claim : claim = [n \in Nodes |-> IF Told(events, n) = {} THEN log.claim[n]
                                            ELSE ClaimAfter(LastOf(events, n), log.claim[n])]
  OBVIOUS
<1>3. j = [log EXCEPT !.last = last, !.claim = claim]
  BY <1>1, <1>2 DEF Journal, Log
<1>4. ASSUME NEW n \in Nodes
      PROVE  /\ last[n] \in Settled \cup {None} /\ claim[n] \in Claim \cup {None}
             /\ claim[n] # None <=> last[n] = "succeeded"
             /\ Told(events, n) = {} => last[n] = log.last[n]
  <2>1. CASE Told(events, n) = {}
    BY <1>1, <1>2, <2>1 DEF Log, LogSane
  <2>2. CASE Told(events, n) # {}
    <3>1. PICK e \in Event : e = LastOf(events, n)
      BY <2>2, ToldLast
    <3>2. last[n] = e.state /\ claim[n] = ClaimAfter(e, log.claim[n]) /\ e.state \in Settled
      BY <1>1, <1>2, <2>2, <3>1 DEF Event
    <3> QED
      BY <2>2, <3>2, ClaimIs
  <2> QED
    BY <2>1, <2>2
<1>5. last \in [Nodes -> Settled \cup {None}] /\ claim \in [Nodes -> Claim \cup {None}]
  BY <1>1, <1>2, <1>4
<1>6. j.last = last /\ j.claim = claim /\ j.finished = log.finished /\ j \in Log
  BY <1>3, <1>5 DEF Log
<1>7. LogSane(j)
  BY <1>4, <1>6 DEF LogSane
<1>8. ASSUME NEW n \in Nodes, NEW x, Tells(events, log, n, x) PROVE last[n] = x
  <2>1. CASE Told(events, n) = {}
    BY <1>4, <1>8, <2>1 DEF Told, Tells, LastTells
  <2>2. CASE Told(events, n) # {}
    <3>1. PICK i \in DOMAIN events : LastTells(events, n, i) /\ LastOf(events, n) = events[i]
      BY <2>2, ToldLast
    <3>2. PICK k \in DOMAIN events : LastTells(events, n, k) /\ events[k].state = x
      BY <1>8, <3>1 DEF Tells, LastTells
    <3>3. DOMAIN events \subseteq Nat
      BY LenProperties
    <3>4. i = k
      BY <3>1, <3>2, <3>3 DEF LastTells
    <3> QED
      BY <1>1, <2>2, <3>1, <3>2, <3>4
  <2> QED
    BY <2>1, <2>2
<1> QED
  BY <1>4, <1>6, <1>7, <1>8

(* An event for every member of a set, in some order.                       *)
LEMMA SequenceOf ==
  ASSUME NEW E, IsFiniteSet(E), NEW s, s = SetToSeq(E)
  PROVE  s \in Seq(E) /\ \A e \in E : \E i \in DOMAIN s : s[i] = e
<1>1. PICK k \in Nat : k = Cardinality(E)
  BY FS_CardinalityType
<1>2. \E f \in [1 .. k -> E] : IsInjective(f)
  BY <1>1, FS_CardinalityType DEF ExistsBijection, Bijection, Injection
<1>3. s \in [1 .. k -> E] /\ IsInjective(s)
  BY <1>1, <1>2 DEF SetToSeq
<1>4. s \in Injection(1 .. k, E)
  BY <1>3 DEF Injection
<1>5. Cardinality(1 .. k) = k
  <2>1. Cardinality(1 .. k) = IF 1 > k THEN 0 ELSE k - 1 + 1
    BY FS_Interval
  <2> QED
    BY <2>1
<1>6. s \in Surjection(1 .. k, E)
  BY <1>1, <1>4, <1>5, FS_Injection
<1>7. s \in Seq(E) /\ DOMAIN s = 1 .. k
  BY <1>3
<1> QED
  BY <1>6, <1>7 DEF Surjection

(* The claims that verify, with all they rest on, are a set.                *)
LEMMA ValidIs ==
  Valid \subseteq Claimed /\ Valid = {n \in Claimed : Verifies(n) /\ log.claim[n].deps \subseteq Valid}
<1> DEFINE F(S) == {n \in Claimed : Verifies(n) /\ log.claim[n].deps \subseteq S}
<1>1. PICK G \in SUBSET Claimed : G = {n \in Claimed : \E S \in SUBSET Claimed : n \in S /\ S \subseteq F(S)}
  OBVIOUS
<1>2. \A S \in SUBSET Claimed, R \in SUBSET Claimed : S \subseteq R => F(S) \subseteq F(R)
  OBVIOUS
<1>3. \A S \in SUBSET Claimed : S \subseteq F(S) => S \subseteq G
  BY <1>1
<1>4. G \subseteq F(G)
  <2>1. ASSUME NEW n \in G PROVE n \in F(G)
    <3>1. PICK S \in SUBSET Claimed : n \in S /\ S \subseteq F(S)
      BY <1>1, <2>1
    <3>2. S \subseteq G
      BY <1>3, <3>1
    <3> QED
      BY <1>2, <3>1, <3>2
  <2> QED
    BY <2>1
<1>5. F(G) \subseteq F(F(G)) /\ F(G) \in SUBSET Claimed
  BY <1>2, <1>4
<1>6. F(G) \subseteq G
  BY <1>3, <1>5
<1>7. \E S \in SUBSET Claimed : S = F(S)
  BY <1>4, <1>6
<1> QED
  BY <1>7 DEF Valid

(* What a node is when the run is dispatched again.                         *)
LEMMA ResumedIs ==
  ASSUME log \in Log, LogSane(log), NEW n \in Nodes, NEW r, r = Resumed(n)
  PROVE  /\ r \in NodeRun /\ r.pc \in {"end", "idle", "wait"} /\ ~r.open /\ r.turn = "none" /\ r.task = 0
         /\ ~r.armed /\ ~r.killed /\ r.says = None
         /\ r.outcome = "succeeded" => Terminal(r)
         /\ Terminal(r) <=> r.pc = "end"
         /\ r.reused <=> n \in Valid
         /\ n \in Valid => r.st = "succeeded" /\ log.last[n] = "succeeded"
         /\ n \notin Valid /\ Owners(n) \cap Valid # {} => Terminal(r)
         /\ Terminal(r) => n \in Valid \/ Owners(n) \cap Valid # {}
         /\ n \notin Valid => r.st # "succeeded"
         /\ IsJudge(n) => r.pc # "wait"
<1>1. Blank \in NodeRun
  BY DEF Blank, NodeRun
<1>2. CASE n \in Valid
  <2>1. n \in Claimed
    BY <1>2, ValidIs
  <2>2. log.claim[n] \in Claim /\ log.last[n] = "succeeded"
    BY <2>1 DEF Claimed, Log, LogSane
  <2>3. PICK c \in Verdicts \cup {None} : c = log.claim[n].verdict
    BY <2>2 DEF Claim
  <2>4. r = [Blank EXCEPT !.st = "succeeded", !.outcome = "succeeded", !.pc = "end", !.reused = TRUE,
                     !.verdict = c]
    BY <1>2, <2>3 DEF Resumed
  <2>5. r \in NodeRun
    BY <1>1, <2>4 DEF NodeRun, Settled
  <2> QED
    BY <1>2, <2>2, <2>4, <2>5 DEF Blank, Terminal, Settled
<1>3. CASE n \notin Valid /\ Owners(n) \cap Valid # {}
  <2>1. PICK out \in Settled \ {"succeeded"} :
          out = IF log.last[n] \in Settled \ {"succeeded"} THEN log.last[n] ELSE "blocked"
    BY DEF Settled
  <2>2. r = Terminated(Blank, out)
    BY <1>3, <2>1 DEF Resumed
  <2>3. /\ r \in NodeRun /\ Terminal(r) /\ r.st = out /\ r.outcome = out /\ r.pc = "end"
        /\ r.task = 0 /\ ~r.open /\ r.turn = "none" /\ ~r.killed /\ ~r.armed
        /\ r.reused = Blank.reused
    BY <1>1, <2>2, Ends
  <2>4. ~r.reused
    BY <2>3 DEF Blank
  <2>5. r.says = None
    BY <2>2 DEF Terminated, Blank
  <2> QED
    BY <1>3, <2>1, <2>3, <2>4, <2>5
<1>4. CASE n \notin Valid /\ Owners(n) \cap Valid = {}
  <2>1. PICK pc \in {"idle", "wait"} : pc = IF IsJudge(n) THEN "idle" ELSE "wait"
    OBVIOUS
  <2>2. r = [Blank EXCEPT !.pc = pc]
    BY <1>4, <2>1 DEF Resumed
  <2>3. r \in NodeRun
    BY <1>1, <2>2 DEF NodeRun
  <2>4. /\ r.pc = pc /\ ~r.open /\ r.turn = "none" /\ r.task = 0 /\ ~r.armed /\ ~r.killed /\ r.says = None
        /\ r.outcome = None /\ r.st = "pending" /\ ~r.reused
    BY <2>2 DEF Blank
  <2>5. ~Terminal(r)
    BY <2>4 DEF Terminal, Settled
  <2>6. None # "succeeded"
    BY EngineAssumption DEF Settled
  <2> QED
    BY <1>4, <2>1, <2>3, <2>4, <2>5, <2>6
<1> QED
  BY <1>2, <1>3, <1>4

(* A world without events nor tasks of its own.                             *)
LEMMA Starts ==
  ASSUME NEW w \in World, \A t \in Tasks : TaskOK(w, t), \A n \in Nodes : Own(w, n) = {},
         NEW s, NEW n \in Nodes, w.N[n].pc \in {"idle", "wait", "end"}, ~w.N[n].open,
         w.N[n].turn = "none", w.N[n].task = 0
  PROVE  NodeOK(w, n, s)
BY DEF NodeOK, One, Known

LEMMA OldTasks ==
  ASSUME IInv, driver # "on",
         task' = [t \in Tasks |-> IF Live(t) THEN [task[t] EXCEPT !.old = TRUE] ELSE Gone]
  PROVE  /\ task' \in [Tasks -> Task]
         /\ \A t \in Tasks : TaskOK(Now', t)
         /\ \A n \in Nodes : Own(Now', n) = {}
<1>1. WInv(Now, stopping, log) /\ driver \in {"off", "done"}
      /\ (driver = "off" => \A t \in Tasks : task[t].st = "none")
      /\ (driver = "done" => \A n \in Nodes : node[n].pc = "end")
  BY DEF IInv
<1>2. Now.N = node /\ Now.T = task /\ (\A t \in Tasks : TaskOK(Now, t)) /\ task \in [Tasks -> Task]
  BY <1>1, Here DEF World
<1>3. Now'.T = task'
  BY DEF Now
<1>4. ASSUME NEW t \in Tasks
      PROVE  task'[t] \in Task /\ TaskOK(Now', t) /\ (task'[t].st = "none" \/ task'[t].old)
  <2>1. CASE ~Live(t)
    <3>1. task'[t] = Gone
      BY <2>1
    <3> QED
      BY <1>3, <3>1 DEF TaskOK, Gone, Task
  <2>2. CASE Live(t)
    <3>1. task[t] \in Task /\ task'[t] = [task[t] EXCEPT !.old = TRUE]
      BY <1>2, <2>2
    <3>2. /\ task'[t] \in Task /\ task'[t].old /\ task'[t].node = task[t].node
          /\ task'[t].aborted = task[t].aborted /\ task'[t].st = task[t].st
      BY <3>1 DEF Task
    <3>3. TaskOK(Now, t) /\ task[t].st # "none"
      BY <1>2, <2>2 DEF Live
    <3>4. task[t].aborted \/ IsJudge(task[t].node)
      <4>1. CASE task[t].old
        BY <1>2, <3>3, <4>1 DEF TaskOK
      <4>2. CASE ~task[t].old
        <5>1. driver = "done"
          BY <1>1, <3>3
        <5>2. PICK n \in Nodes : n = task[t].node
          BY <1>2, <3>3 DEF TaskOK
        <5>3. t \in Own(Now, n) /\ NodeOK(Now, n, stopping)
          BY <1>1, <1>2, <3>3, <4>2, <5>2, EveryNode DEF Own
        <5>4. Place(Now, n, t) /\ node[n].pc = "end"
          BY <1>1, <5>1, <5>3 DEF NodeOK
        <5> QED
          BY <1>2, <5>2, <5>4 DEF Place
      <4> QED
        BY <4>1, <4>2
    <3>5. TaskOK(Now', t)
      BY <1>2, <1>3, <3>2, <3>3, <3>4 DEF TaskOK
    <3> QED
      BY <3>2, <3>5
  <2> QED
    BY <2>1, <2>2
<1> QED
  BY <1>3, <1>4 DEF Own

(* The judges of what is reused are told to be over.                        *)
Reviews ==
  {[id |-> j, state |-> Resumed(j).st, ver |-> 0, verdict |-> None] : j \in Unreviewed}

LEMMA Reviewed ==
  ASSUME log \in Log, LogSane(log), NEW s, s = SetToSeq(Reviews)
  PROVE  /\ s \in Seq(Event)
         /\ \A n \in Nodes : n \notin Unreviewed => Told(s, n) = {}
         /\ \A n \in Unreviewed : Told(s, n) # {}
         /\ \A n \in Nodes, i \in DOMAIN s : s[i].id = n => s[i].state = Resumed(n).st
<1>1. IsFiniteSet(Unreviewed) /\ Unreviewed \subseteq Nodes
  BY GraphAssumption, FS_Subset DEF Unreviewed
<1>2. PICK f : f = [j \in Unreviewed |-> [id |-> j, state |-> Resumed(j).st, ver |-> 0, verdict |-> None]]
  OBVIOUS
<1>3. f \in Surjection(Unreviewed, Reviews)
  BY <1>2 DEF Surjection, Reviews
<1>4. IsFiniteSet(Reviews)
  BY <1>1, <1>3, FS_Surjection
<1>5. s \in Seq(Reviews) /\ \A e \in Reviews : \E i \in DOMAIN s : s[i] = e
  BY <1>4, SequenceOf
<1>6. ASSUME NEW j \in Unreviewed
      PROVE  [id |-> j, state |-> Resumed(j).st, ver |-> 0, verdict |-> None] \in Event
  <2>1. PICK r : r = Resumed(j)
    OBVIOUS
  <2>2. j \in Nodes /\ j \notin Valid /\ Owners(j) \cap Valid # {}
    BY <1>6 DEF Unreviewed
  <2>3. r.st \in Settled
    BY <2>1, <2>2, ResumedIs DEF Terminal
  <2> QED
    BY <2>1, <2>2, <2>3 DEF Event
<1>7. Reviews \subseteq Event
  BY <1>6 DEF Reviews
<1>8. \A i \in DOMAIN s : s[i] \in Reviews
  BY <1>5, LenProperties, ElementOfSeq
<1>9. \A e \in Reviews : e.id \in Unreviewed /\ e.state = Resumed(e.id).st
  BY DEF Reviews
<1>10. \A n \in Nodes : n \notin Unreviewed => Told(s, n) = {}
  BY <1>8, <1>9 DEF Told
<1>11. ASSUME NEW n \in Unreviewed PROVE Told(s, n) # {}
  <2>1. PICK i \in DOMAIN s : s[i] = [id |-> n, state |-> Resumed(n).st, ver |-> 0, verdict |-> None]
    BY <1>5 DEF Reviews
  <2> QED
    BY <2>1 DEF Told
<1>12. s \in Seq(Event)
  BY <1>5, <1>7, SeqMonotonic
<1> QED
  BY <1>8, <1>9, <1>10, <1>11, <1>12

(* The world of a run that starts: nobody is driven yet.                    *)
Unstarted(w, n) ==
  /\ w.N[n].pc \in {"idle", "wait", "end"} /\ ~w.N[n].open /\ w.N[n].turn = "none"
  /\ w.N[n].task = 0 /\ ~w.N[n].armed /\ w.N[n].says = None /\ Own(w, n) = {}
  /\ Terminal(w.N[n]) <=> w.N[n].pc = "end"
  /\ w.N[n].reused => w.N[n].st = "succeeded"
  /\ w.N[n].st = "succeeded" => w.N[n].reused
  /\ w.N[n].outcome = "succeeded" => Terminal(w.N[n])

LEMMA UnstartedOK ==
  ASSUME NEW w \in World, NEW l, NEW s, \A t \in Tasks : TaskOK(w, t),
         \A n \in Nodes : Unstarted(w, n) /\ Heard(w, n, l) /\ (IsJudge(n) => w.N[n].pc # "wait"),
         \A n \in Nodes : Judge[n] # None /\ Terminal(w.N[n]) => Terminal(w.N[Judge[n]]),
         \A n \in Nodes : Judge[n] # None /\ ~Terminal(w.N[n]) /\ Terminal(w.N[Judge[n]]) =>
                            w.N[Judge[n]].reused
  PROVE  WInv(w, s, l)
<1>1. ASSUME NEW n \in Nodes PROVE NodeOK(w, n, s)
  BY DEF NodeOK, Unstarted, One, Known
<1>2. ASSUME NEW n \in Nodes, ~IsJudge(n) PROVE FamOK(w, n, s, l)
  <2>1. Fam(n) \subseteq Nodes
    BY <1>2, Families
  <2>2. MainOK(w, n)
    BY DEF MainOK, Unstarted, Terminal, Settled
  <2>3. ASSUME Judge[n] # None PROVE JudgeOK(w, n, Judge[n])
    <3>1. PICK j \in Nodes : j = Judge[n]
      BY <2>3, Judged
    <3>2. Unstarted(w, j) /\ Unstarted(w, n)
      OBVIOUS
    <3>3. (Terminal(w.N[n]) => Terminal(w.N[j])) /\ (~Terminal(w.N[n]) /\ Terminal(w.N[j]) => w.N[j].reused)
      BY <2>3, <3>1
    <3>4. /\ w.N[j].pc \in {"idle", "wait", "end"} /\ Own(w, j) = {}
          /\ Terminal(w.N[j]) <=> w.N[j].pc = "end"
          /\ Terminal(w.N[n]) <=> w.N[n].pc = "end"
          /\ w.N[j].reused => w.N[j].st = "succeeded"
          /\ w.N[j].st = "succeeded" => w.N[j].reused
          /\ w.N[j].outcome = "succeeded" => Terminal(w.N[j])
      BY <3>2 DEF Unstarted
    <3>5. w.N[j].pc # "wait"
      BY <3>1, <2>3, Judged
    <3>6. JudgeOK(w, n, j)
      BY <3>3, <3>4, <3>5 DEF JudgeOK
    <3> QED
      BY <3>1, <3>6
  <2> QED
    BY <1>1, <2>1, <2>2, <2>3 DEF FamOK
<1> QED
  BY <1>2 DEF WInv

LEMMA RedispatchKeeps ==
  ASSUME IInv, Redispatch
  PROVE  /\ WInv(Now, stopping, log)' /\ log' \in Log /\ LogSane(log') /\ driver' = "on"
         /\ stopping' = FALSE /\ disk' = disk /\ troubles' = troubles /\ runs' \in 1 .. MaxRuns
<1>1. /\ log \in Log /\ LogSane(log) /\ runs \in 1 .. MaxRuns /\ MaxRuns \in Nat
      /\ driver # "on" /\ driver' = "on" /\ stopping' = FALSE /\ disk' = disk /\ troubles' = troubles
      /\ queue' = <<>> /\ runs' = runs + 1 /\ runs < MaxRuns
  BY EngineAssumption DEF IInv, Redispatch
<1>2. PICK s : s = SetToSeq(Reviews)
  OBVIOUS
<1>3. log' = Journal(s)
  BY <1>2 DEF Redispatch, Reviews
<1>4. /\ s \in Seq(Event)
      /\ \A n \in Nodes : n \notin Unreviewed => Told(s, n) = {}
      /\ \A n \in Unreviewed : Told(s, n) # {}
      /\ \A n \in Nodes, i \in DOMAIN s : s[i].id = n => s[i].state = Resumed(n).st
  BY <1>1, <1>2, Reviewed
<1>5. /\ log' \in Log /\ LogSane(log')
      /\ \A n \in Nodes : Told(s, n) = {} => log'.last[n] = log.last[n]
      /\ \A n \in Nodes : \A x : Tells(s, log, n, x) => log'.last[n] = x
  BY <1>1, <1>3, <1>4, JournalIs
<1>6. node' = [n \in Nodes |-> Resumed(n)]
      /\ task' = [t \in Tasks |-> IF Live(t) THEN [task[t] EXCEPT !.old = TRUE] ELSE Gone]
  BY DEF Redispatch
<1>7. /\ task' \in [Tasks -> Task] /\ \A t \in Tasks : TaskOK(Now', t)
      /\ \A n \in Nodes : Own(Now', n) = {}
  BY <1>1, <1>6, OldTasks
<1>8. Now'.N = node' /\ Now'.T = task' /\ Now'.Q = <<>>
  BY <1>1 DEF Now
<1>9. ASSUME NEW n \in Nodes
      PROVE  /\ node'[n] = Resumed(n) /\ node'[n] \in NodeRun
             /\ node'[n].pc \in {"end", "idle", "wait"} /\ ~node'[n].open
             /\ node'[n].turn = "none" /\ node'[n].task = 0
             /\ ~node'[n].armed /\ node'[n].says = None
             /\ node'[n].outcome = "succeeded" => Terminal(node'[n])
             /\ Terminal(node'[n]) <=> node'[n].pc = "end"
             /\ node'[n].reused <=> n \in Valid
             /\ n \in Valid => node'[n].st = "succeeded" /\ log.last[n] = "succeeded"
             /\ n \notin Valid /\ Owners(n) \cap Valid # {} => Terminal(node'[n])
             /\ Terminal(node'[n]) => n \in Valid \/ Owners(n) \cap Valid # {}
             /\ n \notin Valid => node'[n].st # "succeeded"
             /\ IsJudge(n) => node'[n].pc # "wait"
  <2>1. node'[n] = Resumed(n)
    BY <1>6
  <2> QED
    BY <1>1, <2>1, ResumedIs
<1>10. Now' \in World
  <2>1. node' \in [Nodes -> NodeRun]
    BY <1>6, <1>9
  <2>2. <<>> \in Seq(Event)
    OBVIOUS
  <2> QED
    BY <1>1, <1>7, <2>1, <2>2 DEF Now, World
<1>11. ASSUME NEW n \in Nodes, Terminal(node'[n]) PROVE log'.last[n] = node'[n].st
  <2>1. CASE n \in Valid
    <3>1. n \notin Unreviewed
      BY <2>1 DEF Unreviewed
    <3> QED
      BY <1>4, <1>5, <1>9, <2>1, <3>1
  <2>2. CASE n \notin Valid
    <3>1. n \in Unreviewed
      BY <1>9, <1>11, <2>2 DEF Unreviewed
    <3>2. PICK i \in DOMAIN s : LastTells(s, n, i)
      BY <1>4, <3>1, ToldLast
    <3>3. s[i].state = Resumed(n).st
      BY <1>4, <3>2 DEF LastTells
    <3>4. Tells(s, log, n, Resumed(n).st)
      BY <3>2, <3>3 DEF Tells
    <3> QED
      BY <1>5, <1>9, <3>4
  <2> QED
    BY <2>1, <2>2
<1>12. ASSUME NEW n \in Nodes
       PROVE  Unstarted(Now', n) /\ Heard(Now', n, log') /\ (IsJudge(n) => Now'.N[n].pc # "wait")
  <2>1. Unstarted(Now', n)
    BY <1>7, <1>8, <1>9 DEF Unstarted
  <2>2. DOMAIN Now'.Q = {}
    BY <1>8
  <2>3. Heard(Now', n, log')
    BY <1>8, <1>11, <2>2 DEF Heard, Tells
  <2> QED
    BY <1>8, <1>9, <2>1, <2>3
<1>13. ASSUME NEW n \in Nodes, Judge[n] # None
       PROVE  /\ Terminal(node'[n]) => Terminal(node'[Judge[n]])
              /\ ~Terminal(node'[n]) /\ Terminal(node'[Judge[n]]) => node'[Judge[n]].reused
  <2>1. Judge[n] \in Nodes /\ ~IsJudge(n) /\ Owners(Judge[n]) = {n}
    BY <1>13, Judged, GraphAssumption DEF JudgesFit
  <2>2. Owners(n) = {}
    BY <2>1 DEF IsJudge
  <2>3. Terminal(node'[n]) <=> n \in Valid
    BY <1>9, <2>2 DEF Terminal, Settled
  <2> QED
    BY <1>9, <2>1, <2>3 DEF Terminal, Settled
<1>14. WInv(Now', stopping', log')
  BY <1>7, <1>8, <1>10, <1>12, <1>13, UnstartedOK
<1> QED
  BY <1>1, <1>5, <1>14

(* A node that nobody drives.                                              *)
Idle(r) ==
  /\ r \in NodeRun /\ r.pc \in {"idle", "wait"} /\ ~r.open /\ r.turn = "none"
  /\ r.task = 0 /\ ~r.armed /\ r.says = None /\ r.st = "pending" /\ ~r.reused /\ r.outcome = None

LEMMA BlankIsIdle ==
  /\ Idle(Blank) /\ Blank.pc = "idle"
  /\ \A pc \in {"idle", "wait"} : Idle([Blank EXCEPT !.pc = pc]) /\ [Blank EXCEPT !.pc = pc].pc = pc
<1>1. Blank \in NodeRun
  BY DEF Blank, NodeRun
<1>2. ASSUME NEW pc \in {"idle", "wait"}
      PROVE  Idle([Blank EXCEPT !.pc = pc]) /\ [Blank EXCEPT !.pc = pc].pc = pc
  <2>1. PICK r : r = [Blank EXCEPT !.pc = pc]
    OBVIOUS
  <2>2. r \in NodeRun
    BY <1>1, <2>1 DEF NodeRun
  <2> QED
    BY <2>1, <2>2 DEF Blank, Idle
<1> QED
  BY <1>1, <1>2 DEF Blank, Idle

LEMMA AllIdle ==
  ASSUME NEW w, NEW l, NEW s, w.Q = <<>>, w.T = [t \in Tasks |-> Gone],
         w = [N |-> w.N, T |-> w.T, Q |-> w.Q], w.N = [n \in Nodes |-> w.N[n]],
         \A n \in Nodes : Idle(w.N[n]) /\ (IsJudge(n) => w.N[n].pc # "wait")
  PROVE  WInv(w, s, l)
<1>1. Gone \in Task
  BY DEF Gone, Task
<1>2. w \in World
  <2>1. w.N \in [Nodes -> NodeRun]
    BY DEF Idle
  <2>2. w.T \in [Tasks -> Task] /\ w.Q \in Seq(Event)
    BY <1>1
  <2> QED
    BY <2>1, <2>2 DEF World
<1>3. \A t \in Tasks : TaskOK(w, t) /\ w.T[t].st = "none"
  BY DEF TaskOK, Gone
<1>4. \A n \in Nodes : Own(w, n) = {} /\ ~Terminal(w.N[n])
  BY <1>3 DEF Own, Idle, Terminal, Settled
<1>5. None # "succeeded"
  BY EngineAssumption DEF Settled
<1>6. \A n \in Nodes : Unstarted(w, n) /\ Heard(w, n, l)
  BY <1>4, <1>5 DEF Unstarted, Heard, Idle
<1>7. \A n \in Nodes : Judge[n] # None => ~Terminal(w.N[n]) /\ ~Terminal(w.N[Judge[n]])
  BY <1>4, Judged
<1> QED
  BY <1>2, <1>3, <1>6, <1>7, UnstartedOK

LEMMA CrashKeeps ==
  ASSUME IInv, Crash
  PROVE  IInv'
<1>1. /\ log \in Log /\ LogSane(log) /\ disk \in Disk /\ troubles \in 0 .. MaxTroubles /\ MaxTroubles \in Nat
      /\ runs \in 1 .. MaxRuns /\ WInv(Now, stopping, log)
  BY EngineAssumption DEF IInv
<1>2. /\ driver' = "off" /\ queue' = <<>> /\ stopping' = FALSE /\ disk' = disk /\ runs' = runs
      /\ troubles' = troubles + 1 /\ troubles < MaxTroubles
      /\ node' = [n \in Nodes |-> Blank] /\ task' = [t \in Tasks |-> Gone]
  BY DEF Crash, Strike
<1>3. PICK k \in 0 .. Len(queue) : log' = Journal(SubSeq(queue, 1, k))
  BY DEF Crash
<1>4. PICK Q : Q = SubSeq(queue, 1, k)
  OBVIOUS
<1>5. Q \in Seq(Event)
  <2>1. queue \in Seq(Event)
    BY <1>1, Here DEF World
  <2>2. Len(queue) \in Nat /\ \A i \in 1 .. Len(queue) : queue[i] \in Event
    BY <2>1
  <2>3. k \in Int /\ \A i \in 1 .. k : queue[i] \in Event
    BY <1>3, <2>2
  <2> QED
    BY <1>4, <2>3, SubSeqProperties
<1>6. log' \in Log /\ LogSane(log')
  BY <1>1, <1>3, <1>4, <1>5, JournalIs
<1>7. WInv(Now', stopping', log')
  <2>1. /\ Now'.N = node' /\ Now'.T = task' /\ Now'.Q = queue'
        /\ Now' = [N |-> Now'.N, T |-> Now'.T, Q |-> Now'.Q]
    BY DEF Now
  <2>2. \A n \in Nodes : Idle(node'[n]) /\ node'[n].pc # "wait"
    BY <1>2, BlankIsIdle
  <2>3. node' = [n \in Nodes |-> node'[n]]
    BY <1>2
  <2> QED
    BY <1>2, <2>1, <2>2, <2>3, AllIdle
<1>8. \A t \in Tasks : task'[t].st = "none"
  BY <1>2 DEF Gone
<1>9. troubles' \in 0 .. MaxTroubles
  BY <1>1, <1>2
<1>10. JournalTruth'
  BY <1>2 DEF JournalTruth
<1> QED
  BY <1>1, <1>2, <1>6, <1>7, <1>8, <1>9, <1>10 DEF IInv

LEMMA Initially ==
  ASSUME Init
  PROVE  IInv
<1>1. /\ node = [n \in Nodes |-> [Blank EXCEPT !.pc = IF IsJudge(n) THEN "idle" ELSE "wait"]]
      /\ task = [t \in Tasks |-> Gone] /\ queue = <<>>
  BY DEF Init
<1>2. WInv(Now, stopping, log)
  <2>1. Now.N = node /\ Now.T = task /\ Now.Q = queue /\ Now = [N |-> Now.N, T |-> Now.T, Q |-> Now.Q]
    BY DEF Now
  <2>2. ASSUME NEW n \in Nodes PROVE Idle(node[n]) /\ (IsJudge(n) => node[n].pc # "wait")
    <3>1. PICK pc \in {"idle", "wait"} : pc = IF IsJudge(n) THEN "idle" ELSE "wait"
      OBVIOUS
    <3>2. node[n] = [Blank EXCEPT !.pc = pc]
      BY <1>1, <3>1
    <3> QED
      BY <3>1, <3>2, BlankIsIdle
  <2>3. node = [n \in Nodes |-> node[n]]
    BY <1>1
  <2> QED
    BY <1>1, <2>1, <2>2, <2>3, AllIdle
<1>3. log \in Log /\ LogSane(log)
  <2>1. None # "succeeded"
    BY EngineAssumption DEF Settled
  <2> QED
    BY <2>1 DEF Init, Log, LogSane
<1>4. disk \in Disk
  BY DEF Init, Disk
<1>5. driver = "on" /\ stopping = FALSE /\ runs \in 1 .. MaxRuns /\ troubles \in 0 .. MaxTroubles
  BY EngineAssumption DEF Init
<1> QED
  BY <1>2, <1>3, <1>4, <1>5 DEF IInv, JournalTruth

LEMMA RunEndsKeeps ==
  ASSUME IInv, RunEnds
  PROVE  IInv'
<1>1. /\ log \in Log /\ LogSane(log) /\ WInv(Now, stopping, log) /\ stopping \in BOOLEAN /\ disk \in Disk
      /\ runs \in 1 .. MaxRuns /\ troubles \in 0 .. MaxTroubles
  BY DEF IInv
<1>2. /\ driver' = "done" /\ \A n \in Nodes : IsJudge(n) \/ node[n].pc = "end"
      /\ UNCHANGED <<node, stopping, task, disk, queue, runs, troubles>>
  BY DEF RunEnds
<1>3. /\ Now \in World /\ Now.N = node /\ Now.T = task /\ Now.Q = queue /\ queue \in Seq(Event)
  BY <1>1, Here DEF World
<1>4. PICK j : j = Journal(queue)
  OBVIOUS
<1>5. /\ j \in Log /\ LogSane(j)
      /\ \A n \in Nodes : Told(queue, n) = {} => j.last[n] = log.last[n]
      /\ \A n \in Nodes : \A x : Tells(queue, log, n, x) => j.last[n] = x
  BY <1>1, <1>3, <1>4, JournalIs
<1>6. log' = [j EXCEPT !.finished = Outcome]
  BY <1>4 DEF RunEnds
<1>7. /\ log' \in Log /\ log'.last = j.last /\ log'.claim = j.claim /\ log'.finished = Outcome
  <2>1. Outcome \in {"succeeded", "failed", "cancelled", None}
    BY DEF Outcome
  <2> QED
    BY <1>5, <1>6, <2>1 DEF Log
<1>8. LogSane(log')
  BY <1>5, <1>7 DEF LogSane
<1>9. ASSUME NEW n \in Nodes PROVE node[n].pc = "end" /\ Terminal(node[n])
  <2>1. CASE ~IsJudge(n)
    <3>1. node[n].pc = "end"
      BY <1>2, <2>1
    <3>2. MainOK(Now, n)
      BY <1>1, <2>1, NowNode
    <3> QED
      BY <1>3, <3>1, <3>2 DEF MainOK
  <2>2. CASE IsJudge(n)
    <3>1. PICK o \in Nodes : o = Owner(n) /\ Judge[o] = n /\ ~IsJudge(o) /\ n # None
      BY <2>2, Owned
    <3>2. JudgeOK(Now, o, n)
      BY <1>1, <3>1 DEF WInv, FamOK
    <3>3. node[o].pc = "end"
      BY <1>2, <3>1
    <3> QED
      BY <1>3, <3>2, <3>3 DEF JudgeOK
  <2> QED
    BY <2>1, <2>2
<1>10. ASSUME NEW n \in Nodes PROVE log'.last[n] = node[n].st
  <2>1. Heard(Now, n, log)
    BY <1>1, EveryNode
  <2>2. Tells(queue, log, n, node[n].st)
    BY <1>3, <1>9, <2>1 DEF Heard
  <2> QED
    BY <1>5, <1>7, <2>2
<1>11. WInv(Now, stopping, log')
  <2>1. ASSUME NEW n \in Nodes PROVE Heard(Now, n, log')
    <3>1. Heard(Now, n, log)
      BY <1>1, EveryNode
    <3> QED
      BY <1>3, <1>9, <1>10, <3>1 DEF Heard, Tells
  <2>2. ASSUME NEW n \in Nodes, ~IsJudge(n) PROVE FamOK(Now, n, stopping, log')
    <3>1. Fam(n) \subseteq Nodes /\ FamOK(Now, n, stopping, log)
      BY <1>1, <2>2, Families DEF WInv
    <3> QED
      BY <2>1, <3>1 DEF FamOK
  <2> QED
    BY <1>1, <2>2 DEF WInv
<1>12. Now' = Now
  BY <1>2 DEF Now
<1>13. WInv(Now', stopping', log')
  BY <1>2, <1>11, <1>12
<1>14. JournalTruth'
  <2>1. ASSUME NEW n \in Nodes
        PROVE  log'.last[n] = node'[n].st /\ (log'.claim[n] # None <=> node'[n].st = "succeeded")
    BY <1>2, <1>8, <1>10 DEF LogSane
  <2>2. ASSUME log'.finished = "succeeded", NEW n \in Nodes PROVE log'.claim[n] # None
    <3>1. node[n].st = "succeeded"
      BY <1>7, <2>2 DEF Outcome
    <3> QED
      BY <1>2, <2>1, <3>1
  <2> QED
    BY <2>1, <2>2 DEF JournalTruth
<1>15. \A n \in Nodes : node'[n].pc = "end"
  BY <1>2, <1>9
<1> QED
  BY <1>1, <1>2, <1>7, <1>8, <1>13, <1>14, <1>15 DEF IInv

LEMMA EditKeeps ==
  ASSUME IInv, NEW n \in Nodes, Edit(n)
  PROVE  IInv'
<1>1. /\ UNCHANGED <<driver, node, stopping, task, queue, log, runs>>
      /\ troubles < MaxTroubles /\ troubles' = troubles + 1
      /\ disk' = [disk EXCEPT ![n].ver = @ + 1]
  BY DEF Edit, Strike
<1>2. disk' \in Disk
  <2>1. disk \in Disk /\ disk[n] \in [ver : Nat, verdict : Verdicts \cup {None}]
    BY DEF IInv, Disk
  <2>2. [disk[n] EXCEPT !.ver = @ + 1] \in [ver : Nat, verdict : Verdicts \cup {None}]
    BY <2>1
  <2> QED
    BY <1>1, <2>1, <2>2 DEF Disk
<1>3. troubles' \in 0 .. MaxTroubles
  BY <1>1, EngineAssumption DEF IInv
<1>4. Now' = Now
  BY <1>1 DEF Now
<1> QED
  BY <1>1, <1>2, <1>3, <1>4 DEF IInv, JournalTruth

(* A step of a run that somebody drives.                                    *)
LEMMA DrivenKeeps ==
  ASSUME IInv, driver = "on", UNCHANGED <<driver, log, runs>>, WInv(Now, stopping, log)',
         disk' \in Disk, stopping' \in BOOLEAN, troubles' \in 0 .. MaxTroubles
  PROVE  IInv'
BY DEF IInv, JournalTruth

(* A step of a task, which may go on after its run.                         *)
LEMMA TaskKeeps ==
  ASSUME IInv, UNCHANGED <<driver, log, runs, stopping>>, WInv(Now, stopping, log)', disk' \in Disk,
         troubles' \in 0 .. MaxTroubles, \A k \in Nodes : Alike(node[k], node'[k]), driver # "off"
  PROVE  IInv'
<1>1. JournalTruth'
  BY DEF IInv, JournalTruth, Alike
<1>2. driver' = "done" => \A k \in Nodes : node'[k].pc = "end"
  BY DEF IInv, Alike
<1> QED
  BY <1>1, <1>2 DEF IInv

LEMMA StruckOnce ==
  ASSUME IInv, Strike \/ UNCHANGED troubles
  PROVE  troubles' \in 0 .. MaxTroubles
BY EngineAssumption DEF IInv, Strike

-----------------------------------------------------------------------------
(* The invariant                                                           *)

(* What the nodes do keeps the invariant.                                   *)
LEMMA NodeSteps ==
  ASSUME IInv, NEW n \in Nodes,
         \/ DepsReady(n) \/ PlanReady(n) \/ TurnDelivered(n) \/ Gate(n)
         \/ JudgeDeps(n) \/ JudgeGate(n) \/ Verdict(n) \/ Accepted(n) \/ PlanFails(n)
  PROVE  IInv'
<1>1. WInv(Now, stopping, log) /\ disk \in Disk /\ stopping \in BOOLEAN
  BY DEF IInv
<1>2. driver = "on" /\ UNCHANGED <<driver, log, runs, disk, stopping>> /\ (Strike \/ UNCHANGED troubles)
  BY DEF DepsReady, PlanReady, TurnDelivered, Gate, JudgeDeps, JudgeGate, Verdict, Accepted, PlanFails
<1>3. WInv(Now, stopping, log)'
  <2>1. CASE DepsReady(n)
    BY <1>1, <2>1, DepsReadyKeeps
  <2>2. CASE PlanReady(n)
    BY <1>1, <2>2, PlanReadyKeeps
  <2>3. CASE TurnDelivered(n)
    <3>1. CASE IsJudge(n)
      BY <1>1, <2>3, <3>1, JudgeDelivered
    <3>2. CASE ~IsJudge(n)
      BY <1>1, <2>3, <3>2, MainDelivered
    <3> QED
      BY <3>1, <3>2
  <2>4. CASE Gate(n)
    BY <1>1, <2>4, GateKeeps
  <2>5. CASE JudgeDeps(n)
    BY <1>1, <2>5, JudgeDepsKeeps
  <2>6. CASE JudgeGate(n)
    BY <1>1, <2>6, JudgeGateKeeps
  <2>7. CASE Verdict(n)
    BY <1>1, <2>7, VerdictKeeps
  <2>8. CASE Accepted(n)
    BY <1>1, <2>8, AcceptedKeeps
  <2>9. CASE PlanFails(n)
    BY <1>1, <2>9, PlanFailsKeeps
  <2> QED
    BY <2>1, <2>2, <2>3, <2>4, <2>5, <2>6, <2>7, <2>8, <2>9
<1> QED
  BY <1>1, <1>2, <1>3, DrivenKeeps, StruckOnce

(* What cancels the run or a node, and a deadline.                          *)
LEMMA CancelSteps ==
  ASSUME IInv, CancelRun \/ \E n \in Nodes : CancelNode(n) \/ Deadline(n)
  PROVE  IInv'
<1>1. WInv(Now, stopping, log) /\ disk \in Disk /\ stopping \in BOOLEAN
  BY DEF IInv
<1>2. driver = "on" /\ UNCHANGED <<driver, log, runs, disk>> /\ Strike /\ stopping' \in BOOLEAN
  BY <1>1 DEF CancelRun, CancelNode, Deadline
<1>3. WInv(Now, stopping, log)'
  BY <1>1, CancelRunKeeps, CancelNodeKeeps, DeadlineKeeps
<1> QED
  BY <1>1, <1>2, <1>3, DrivenKeeps, StruckOnce

LEMMA TaskSteps ==
  ASSUME IInv, NEW t \in Tasks, TurnStarts(t) \/ TurnEnds(t) \/ Interrupt(t)
  PROVE  IInv'
<1>1. /\ WInv(Now, stopping, log) /\ disk \in Disk
      /\ driver = "off" => \A y \in Tasks : task[y].st = "none"
  BY DEF IInv
<1>2. task[t].st # "none" /\ UNCHANGED <<driver, log, runs, stopping>>
  BY DEF TurnStarts, TurnEnds, Interrupt, Live
<1>3. driver # "off"
  BY <1>1, <1>2
<1>4. CASE TurnStarts(t)
  <2>1. WInv(Now, stopping, log)' /\ \A k \in Nodes : Alike(node[k], node'[k])
    BY <1>1, <1>4, TurnStartsKeeps
  <2>2. UNCHANGED <<disk, troubles>>
    BY <1>4 DEF TurnStarts
  <2> QED
    BY <1>1, <1>2, <1>3, <2>1, <2>2, TaskKeeps, StruckOnce
<1>5. CASE TurnEnds(t)
  <2>1. WInv(Now, stopping, log)' /\ disk' \in Disk /\ \A k \in Nodes : Alike(node[k], node'[k])
    BY <1>1, <1>5, TurnEndsKeeps
  <2>2. Strike \/ UNCHANGED troubles
    BY <1>5 DEF TurnEnds
  <2> QED
    BY <1>2, <1>3, <2>1, <2>2, TaskKeeps, StruckOnce
<1>6. CASE Interrupt(t)
  <2>1. WInv(Now, stopping, log)' /\ \A k \in Nodes : Alike(node[k], node'[k])
    BY <1>1, <1>6, InterruptKeeps
  <2>2. Strike /\ UNCHANGED disk
    BY <1>6 DEF Interrupt
  <2> QED
    BY <1>1, <1>2, <1>3, <2>1, <2>2, TaskKeeps, StruckOnce
<1> QED
  BY <1>4, <1>5, <1>6

LEMMA Inductive ==
  ASSUME IInv, [Next]_vars
  PROVE  IInv'
<1>1. CASE Redispatch
  <2>1. /\ WInv(Now, stopping, log)' /\ log' \in Log /\ LogSane(log') /\ driver' = "on"
        /\ stopping' = FALSE /\ disk' = disk /\ troubles' = troubles /\ runs' \in 1 .. MaxRuns
    BY <1>1, RedispatchKeeps
  <2> QED
    BY <2>1 DEF IInv, JournalTruth
<1>2. CASE UNCHANGED vars
  <2>1. Now' = Now /\ UNCHANGED <<driver, node, stopping, task, disk, queue, log, runs, troubles>>
    BY <1>2 DEF vars, Now
  <2> QED
    BY <2>1 DEF IInv, JournalTruth
<1>3. CASE RunEnds
  BY <1>3, RunEndsKeeps
<1>4. CASE Crash
  BY <1>4, CrashKeeps
<1>5. CASE \E n \in Nodes : Edit(n)
  BY <1>5, EditKeeps
<1>6. CASE \E n \in Nodes : \/ DepsReady(n) \/ PlanReady(n) \/ TurnDelivered(n) \/ Gate(n)
                            \/ JudgeDeps(n) \/ JudgeGate(n) \/ Verdict(n) \/ Accepted(n) \/ PlanFails(n)
  BY <1>6, NodeSteps
<1>7. CASE CancelRun \/ \E n \in Nodes : CancelNode(n) \/ Deadline(n)
  BY <1>7, CancelSteps
<1>8. CASE \E t \in Tasks : TurnStarts(t) \/ TurnEnds(t) \/ Interrupt(t)
  BY <1>8, TaskSteps
<1> QED
  BY <1>1, <1>2, <1>3, <1>4, <1>5, <1>6, <1>7, <1>8 DEF Next, Reaction, Trouble

(* The invariant of a workflow run, on which the theorems below rest: a node *)
(* has one task at most, where its coroutine awaits it; a judge and the node *)
(* it gates move together; what is settled was told to the journal.         *)
THEOREM Invariant == Spec => []IInv
<1>1. Init => IInv
  BY Initially
<1>2. IInv /\ [Next]_vars => IInv'
  BY Inductive
<1> QED
  BY <1>1, <1>2, PTL DEF Spec

(* A worker that is neither over nor aborted is the one its node waits for:  *)
(* whatever cancels, deadlines, failures and crashes came in between, none  *)
(* is left behind but the worker of a judge that was cancelled while its    *)
(* spawn was planned.                                                      *)
THEOREM NoStrayWorkerHolds == Spec => []NoStrayWorker
<1>1. IInv => NoStrayWorker
  <2> SUFFICES ASSUME IInv, NEW t \in Tasks, Working(t)
               PROVE  Wanted(t) \/ Abandoned(t)
    BY DEF NoStrayWorker
  <2>1. /\ WInv(Now, stopping, log) /\ driver \in {"on", "off", "done"}
        /\ driver = "off" => \A y \in Tasks : task[y].st = "none"
        /\ driver = "done" => \A n \in Nodes : node[n].pc = "end"
    BY DEF IInv
  <2>2. TaskOK(Now, t) /\ Now.T = task /\ Now.N = node
    BY <2>1, Here
  <2>3. task[t].st \in {"planning", "queued", "warm", "turn", "parked"} /\ ~task[t].aborted
    BY DEF Working, Live
  <2>4. PICK n \in Nodes : n = task[t].node
    BY <2>2, <2>3 DEF TaskOK
  <2>5. CASE task[t].old
    BY <2>2, <2>3, <2>5 DEF TaskOK, Abandoned
  <2>6. CASE ~task[t].old
    <3>1. Place(Now, n, t)
      <4>1. t \in Own(Now, n)
        BY <2>2, <2>3, <2>4, <2>6 DEF Own
      <4> QED
        BY <2>1, <4>1, EveryNode DEF NodeOK
    <3>2. CASE node[n].pc = "end"
      BY <2>2, <2>3, <2>4, <3>1, <3>2 DEF Place, Abandoned
    <3>3. CASE node[n].pc # "end"
      <4>1. driver = "on"
        BY <2>1, <2>3, <3>3
      <4> QED
        BY <2>2, <2>3, <2>4, <2>6, <3>1, <3>3, <4>1 DEF Place, Wanted
    <3> QED
      BY <3>2, <3>3
  <2> QED
    BY <2>5, <2>6
<1> QED
  BY <1>1, Invariant, PTL

(* A worker works only on what was accepted, and a judge settles with the   *)
(* node it gates: no retry, judge or resumed run goes past the graph.       *)
THEOREM GraphOrderHolds == Spec => []GraphOrder
<1>1. IInv => StartsOnDone
  <2> SUFFICES ASSUME IInv, NEW t \in Tasks, Working(t), Wanted(t)
               PROVE  /\ \A d \in Deps[task[t].node] :
                           \/ node[d].outcome = "succeeded"
                           \/ Judge[d] = task[t].node \/ Resurrected(d)
                      /\ IsJudge(task[t].node) => node[Owner(task[t].node)].pc = "judge"
    BY DEF StartsOnDone
  <2>1. WInv(Now, stopping, log) /\ Now.N = node /\ Now.T = task /\ TaskOK(Now, t)
    BY Here DEF IInv
  <2>2. PICK n \in Nodes : n = task[t].node
    BY <2>1 DEF TaskOK, Working, Live
  <2>3. node[n].pc \in {"plan", "turn", "gate", "judge", "verdict"}
    BY <2>2 DEF Wanted
  <2>4. \A d \in Nodes : Good(Now, d) => node[d].outcome = "succeeded" \/ Resurrected(d)
    BY <2>1 DEF Good, Resur, Resurrected
  <2>5. Deps[n] \subseteq Nodes
    BY GraphAssumption
  <2>6. CASE ~IsJudge(n)
    <3>1. MainOK(Now, n)
      BY <2>1, <2>6, NowNode
    <3> QED
      BY <2>1, <2>2, <2>3, <2>4, <2>5, <2>6, <3>1 DEF MainOK
  <2>7. CASE IsJudge(n)
    <3>1. PICK o \in Nodes : o = Owner(n) /\ Judge[o] = n /\ ~IsJudge(o) /\ n # None
      BY <2>7, Owned
    <3>2. JudgeOK(Now, o, n)
      BY <2>1, <3>1 DEF WInv, FamOK
    <3>3. node[n].pc \in {"plan", "turn", "gate"}
      BY <2>1, <2>3, <3>2 DEF JudgeOK
    <3> QED
      BY <2>1, <2>2, <2>4, <2>5, <3>1, <3>2, <3>3 DEF JudgeOK
  <2> QED
    BY <2>6, <2>7
<1>2. IInv => JudgeMirrorsOwner
  <2> SUFFICES ASSUME IInv, NEW n \in Nodes, Judge[n] # None
               PROVE  /\ node[n].pc = "end" => Terminal(node[Judge[n]])
                      /\ node[Judge[n]].st = "succeeded" /\ ~node[Judge[n]].reused => node[n].pc = "end"
    BY DEF JudgeMirrorsOwner
  <2>1. WInv(Now, stopping, log) /\ Now.N = node
    BY Here DEF IInv
  <2>2. JudgeOK(Now, n, Judge[n])
    BY <2>1, Judged DEF WInv, FamOK
  <2> QED
    BY <2>1, <2>2 DEF JudgeOK
<1> QED
  BY <1>1, <1>2, Invariant, PTL DEF GraphOrder

(* When the run is over its journal tells what became of each node, and      *)
(* claims exactly what was accepted; every variable has its type.           *)
THEOREM RunIsJournalledHolds == Spec => []RunIsJournalled
<1>1. IInv => RunIsJournalled
  <2> SUFFICES ASSUME IInv PROVE RunIsJournalled
    OBVIOUS
  <2>1. WInv(Now, stopping, log) /\ log \in Log
    BY DEF IInv
  <2>2. node \in [Nodes -> NodeRun] /\ task \in [Tasks -> Task] /\ queue \in Seq(Event)
    BY <2>1, Here DEF World
  <2>3. /\ log.last \in [Nodes -> Settled \cup {None}]
        /\ \A n \in Nodes : log.claim[n] = None \/ log.claim[n] \in Claim
        /\ log.finished \in {"succeeded", "failed", "cancelled", None}
    BY <2>1 DEF Log
  <2> QED
    BY <2>2, <2>3 DEF IInv, RunIsJournalled, TypeOK, Disk
<1> QED
  BY <1>1, Invariant, PTL

-----------------------------------------------------------------------------
(* Who accepts a node                                                      *)

Shape(w) ==
  /\ w = [N |-> w.N, T |-> w.T, Q |-> w.Q] /\ w.N = [m \in Nodes |-> w.N[m]]
  /\ \A m \in Nodes : "st" \in DOMAIN w.N[m]

(* Nobody but a judge succeeds.                                             *)
Denies(u, v) ==
  /\ Shape(v)
  /\ \A m \in Nodes : ~IsJudge(m) /\ v.N[m].st = "succeeded" => u.N[m].st = "succeeded"

LEMMA DeniesOn ==
  ASSUME NEW u, NEW w, NEW v, Denies(u, w), Denies(w, v)
  PROVE  Denies(u, v)
BY DEF Denies

LEMMA DenyItself ==
  ASSUME NEW u, Shape(u)
  PROVE  Denies(u, u)
BY DEF Denies

(* A node that does not become accepted by what is written to it.           *)
LEMMA RowDenies ==
  ASSUME NEW u, Shape(u), NEW n \in Nodes, NEW r, "st" \in DOMAIN r,
         r.st = u.N[n].st \/ r.st # "succeeded" \/ IsJudge(n),
         NEW T, NEW Q, NEW v, v = [N |-> [u.N EXCEPT ![n] = r], T |-> T, Q |-> Q]
  PROVE  Denies(u, v)
<1>1. v.N = [u.N EXCEPT ![n] = r] /\ v.T = T /\ v.Q = Q
  OBVIOUS
<1>2. \A m \in Nodes : v.N[m] = IF m = n THEN r ELSE u.N[m]
  BY <1>1 DEF Shape
<1>3. Shape(v)
  <2>1. v.N = [m \in Nodes |-> v.N[m]]
    BY <1>1 DEF Shape
  <2> QED
    BY <1>1, <1>2, <2>1 DEF Shape
<1> QED
  BY <1>2, <1>3 DEF Denies

LEMMA ReleasedDenies ==
  ASSUME NEW w, Shape(w), NEW n \in Nodes, NEW v, v = Released(w, n)
  PROVE  Denies(w, v)
<1>1. PICK r : r = [w.N[n] EXCEPT !.task = 0]
  OBVIOUS
<1>2. "st" \in DOMAIN r /\ r.st = w.N[n].st
  BY <1>1 DEF Shape
<1>3. v = [N |-> [w.N EXCEPT ![n] = r], T |-> Interrupted(w.T, w.N[n].task), Q |-> w.Q]
  BY <1>1 DEF Released, Shape
<1> QED
  BY <1>2, <1>3, RowDenies

LEMMA EndedRow ==
  ASSUME NEW r, NEW out
  PROVE  "st" \in DOMAIN Terminated(r, out) /\ Terminated(r, out).st = out
BY DEF Terminated, Blank

LEMMA JudgeDenies ==
  ASSUME NEW w, Shape(w), NEW j \in Nodes, IsJudge(j), NEW out, NEW v, v = SettledJudge(w, j, out)
  PROVE  Denies(w, v)
<1>1. CASE Terminal(w.N[j])
  BY <1>1, DenyItself DEF SettledJudge
<1>2. CASE ~Terminal(w.N[j])
  <2>1. PICK r : r = Terminated(w.N[j], out)
    OBVIOUS
  <2>2. PICK e : e = [id |-> j, state |-> out, ver |-> 0, verdict |-> w.N[j].verdict]
    OBVIOUS
  <2>3. v = [N |-> [w.N EXCEPT ![j] = r], T |-> w.T, Q |-> Append(w.Q, e)]
    BY <1>2, <2>1, <2>2 DEF SettledJudge, Shape
  <2> QED
    BY <2>1, <2>3, EndedRow, RowDenies
<1> QED
  BY <1>1, <1>2

LEMMA SettledDenies ==
  ASSUME NEW w, Shape(w), NEW n \in Nodes, NEW out, out # "succeeded", NEW v, v = SettledNode(w, n, out)
  PROVE  Denies(w, v)
<1>1. PICK r : r = Terminated(w.N[n], out)
  OBVIOUS
<1>2. PICK e : e = [id |-> n, state |-> out, ver |-> w.N[n].seen, verdict |-> w.N[n].verdict]
  OBVIOUS
<1>3. PICK x : x = [w EXCEPT !.N[n] = Terminated(@, out), !.Q = Append(@, e)]
  OBVIOUS
<1>4. x = [N |-> [w.N EXCEPT ![n] = r], T |-> w.T, Q |-> Append(w.Q, e)]
  BY <1>1, <1>3 DEF Shape
<1>5. Denies(w, x)
  BY <1>1, <1>4, EndedRow, RowDenies
<1>6. CASE Judge[n] = None
  <2>1. v = x
    BY <1>2, <1>3, <1>6 DEF SettledNode
  <2> QED
    BY <1>5, <2>1
<1>7. CASE Judge[n] # None
  <2>1. v = Mirrored(x, n, out)
    BY <1>2, <1>3, <1>7 DEF SettledNode
  <2>2. PICK o : v = SettledJudge(x, Judge[n], o)
    BY <2>1 DEF Mirrored
  <2>3. Judge[n] \in Nodes /\ IsJudge(Judge[n]) /\ Shape(x)
    BY <1>5, <1>7, Judged DEF Denies
  <2>4. Denies(x, v)
    BY <2>2, <2>3, JudgeDenies
  <2> QED
    BY <1>5, <2>4, DeniesOn
<1> QED
  BY <1>6, <1>7

LEMMA HaltedDenies ==
  ASSUME NEW w, Shape(w), NEW n \in Nodes, NEW out, out # "succeeded", NEW v, v = Halted(w, n, out)
  PROVE  Denies(w, v)
<1>1. PICK x : x = Released(w, n)
  OBVIOUS
<1>2. Denies(w, x) /\ v = SettledNode(x, n, out)
  BY <1>1, ReleasedDenies DEF Halted
<1>3. Denies(x, v)
  BY <1>2, SettledDenies DEF Denies
<1> QED
  BY <1>2, <1>3, DeniesOn

LEMMA SpawnedDenies ==
  ASSUME NEW w, Shape(w), NEW n \in Nodes, NEW v, v = Spawned(w, n)
  PROVE  Denies(w, v)
<1>1. PICK t : t = CHOOSE x \in FreeIds(w) : TRUE
  OBVIOUS
<1>2. PICK r : r = [w.N[n] EXCEPT !.open = TRUE, !.turn = "none", !.pc = "plan", !.says = None, !.seen = 0]
  OBVIOUS
<1>3. "st" \in DOMAIN r /\ r.st = w.N[n].st
  BY <1>2 DEF Shape
<1>4. PICK T : T = [w.T EXCEPT ![t] = [Gone EXCEPT !.node = n, !.st = "planning"]]
  OBVIOUS
<1>5. v = [N |-> [w.N EXCEPT ![n] = r], T |-> T, Q |-> w.Q]
  BY <1>1, <1>2, <1>4 DEF Spawned, Shape
<1> QED
  BY <1>3, <1>5, RowDenies

LEMMA WarmedDenies ==
  ASSUME NEW w, Shape(w), NEW n \in Nodes, NEW v, v = Warmed(w, n)
  PROVE  Denies(w, v)
<1>1. PICK p : p = (w.T[w.N[n].task].st = "parked")
  OBVIOUS
<1>2. PICK r : r = [w.N[n] EXCEPT !.open = TRUE, !.pc = "turn", !.st = "running", !.says = None, !.seen = 0,
                                  !.turn = IF p THEN "none" ELSE "broken"]
  OBVIOUS
<1>3. "st" \in DOMAIN r /\ r.st = "running"
  BY <1>2 DEF Shape
<1>4. PICK T : T = [w.T EXCEPT ![w.N[n].task].st = IF p THEN "warm" ELSE @]
  OBVIOUS
<1>5. v = [N |-> [w.N EXCEPT ![n] = r], T |-> T, Q |-> w.Q]
  BY <1>1, <1>2, <1>4 DEF Warmed, Shape
<1> QED
  BY <1>3, <1>5, RowDenies

LEMMA LoopedDenies ==
  ASSUME NEW w, Shape(w), NEW n \in Nodes, NEW next, Denies(w, next), NEW v, v = Looped(w, n, next)
  PROVE  Denies(w, v)
<1>1. CASE v = Halted(w, n, "cancelled")
  BY <1>1, HaltedDenies
<1>2. CASE v = Halted(w, n, "failed")
  BY <1>2, HaltedDenies
<1> QED
  BY <1>1, <1>2 DEF Looped

LEMMA ReturnedDenies ==
  ASSUME NEW w, Shape(w), NEW j \in Nodes, IsJudge(j), NEW says, NEW v, v = Returned(w, j, says)
  PROVE  Denies(w, v)
<1>1. PICK o \in Nodes : o = Owner(j) /\ o # j
  BY Owned
<1>2. PICK pc : pc = IF Terminal(w.N[j]) THEN "end" ELSE "idle"
  OBVIOUS
<1>3. PICK r : r = [w.N[j] EXCEPT !.pc = pc]
  OBVIOUS
<1>4. PICK q : q = [w.N[o] EXCEPT !.pc = "verdict", !.says = says]
  OBVIOUS
<1>5. "st" \in DOMAIN r /\ r.st = w.N[j].st /\ "st" \in DOMAIN q /\ q.st = w.N[o].st
  BY <1>3, <1>4 DEF Shape
<1>6. PICK x : x = [N |-> [w.N EXCEPT ![j] = r], T |-> w.T, Q |-> w.Q]
  OBVIOUS
<1>7. Denies(w, x)
  BY <1>5, <1>6, RowDenies
<1>8. x.N[o] = w.N[o]
  BY <1>1, <1>6 DEF Shape
<1>9. v = [N |-> [x.N EXCEPT ![o] = q], T |-> x.T, Q |-> x.Q]
  <2>1. v = [w EXCEPT !.N[j].pc = pc, !.N[o] = [@ EXCEPT !.pc = "verdict", !.says = says]]
    BY <1>1, <1>2 DEF Returned
  <2>2. v = [N |-> [[w.N EXCEPT ![j] = r] EXCEPT ![o] = q], T |-> w.T, Q |-> w.Q]
    BY <1>1, <1>3, <1>4, <1>6, <1>8, <2>1 DEF Shape
  <2> QED
    BY <1>6, <2>2
<1>10. Denies(x, v)
  BY <1>5, <1>7, <1>8, <1>9, RowDenies DEF Denies
<1> QED
  BY <1>7, <1>10, DeniesOn

LEMMA GivenUpDenies ==
  ASSUME NEW w, Shape(w), NEW j \in Nodes, IsJudge(j), NEW out, NEW says, NEW v, v = GivenUp(w, j, out, says)
  PROVE  Denies(w, v)
<1>1. PICK x : x = Released(w, j)
  OBVIOUS
<1>2. PICK y : y = SettledJudge(x, j, out)
  OBVIOUS
<1>3. v = Returned(y, j, says)
  BY <1>1, <1>2 DEF GivenUp
<1>4. Denies(w, x)
  BY <1>1, ReleasedDenies
<1>5. Denies(x, y)
  BY <1>2, <1>4, JudgeDenies DEF Denies
<1>6. Denies(y, v)
  BY <1>3, <1>5, ReturnedDenies DEF Denies
<1> QED
  BY <1>4, <1>5, <1>6, DeniesOn

LEMMA JudgeLoopedDenies ==
  ASSUME NEW w, Shape(w), NEW j \in Nodes, IsJudge(j), NEW v, v = JudgeLooped(w, j)
  PROVE  Denies(w, v)
<1>1. CASE v = Spawned(w, j)
  BY <1>1, SpawnedDenies
<1>2. CASE \E out, says : v = GivenUp(w, j, out, says)
  BY <1>2, GivenUpDenies
<1> QED
  BY <1>1, <1>2 DEF JudgeLooped

LEMMA OnwardDenies ==
  ASSUME NEW w, Shape(w), NEW n \in Nodes, NEW v, v = Onward(w, n)
  PROVE  Denies(w, v)
<1>1. CASE IsJudge(n)
  BY <1>1, JudgeLoopedDenies DEF Onward
<1>2. CASE ~IsJudge(n)
  <2>1. PICK next : next = Spawned(w, n)
    OBVIOUS
  <2>2. Denies(w, next) /\ v = Looped(w, n, next)
    BY <1>2, <2>1, SpawnedDenies DEF Onward
  <2> QED
    BY <2>2, LoopedDenies
<1> QED
  BY <1>1, <1>2

LEMMA RejectedDenies ==
  ASSUME NEW w, Shape(w), NEW n \in Nodes, NEW kind, NEW late, NEW v, v = Rejected(w, n, kind, late)
  PROVE  Denies(w, v)
<1>1. CASE v = Halted(w, n, "failed")
  BY <1>1, HaltedDenies
<1>2. CASE v = Looped(w, n, Warmed(w, n))
  <2>1. PICK next : next = Warmed(w, n)
    OBVIOUS
  <2>2. Denies(w, next) /\ v = Looped(w, n, next)
    BY <1>2, <2>1, WarmedDenies
  <2> QED
    BY <2>2, LoopedDenies
<1> QED
  BY <1>1, <1>2 DEF Rejected

LEMMA AcceptingDenies ==
  ASSUME NEW w, Shape(w), NEW n \in Nodes, NEW v, v = Accepting(w, n)
  PROVE  Denies(w, v)
<1>1. CASE v = Halted(w, n, "failed")
  BY <1>1, HaltedDenies
<1>2. CASE v = SettledNode(w, n, "cancelled")
  BY <1>2, SettledDenies
<1>3. CASE v = [w EXCEPT !.T[w.N[n].task] = Gone, !.N[n] = [@ EXCEPT !.pc = "accept", !.verdict = "pass"]]
  <2>1. PICK r : r = [w.N[n] EXCEPT !.pc = "accept", !.verdict = "pass"]
    OBVIOUS
  <2>2. "st" \in DOMAIN r /\ r.st = w.N[n].st
    BY <2>1 DEF Shape
  <2>3. PICK T : T = [w.T EXCEPT ![w.N[n].task] = Gone]
    OBVIOUS
  <2>4. v = [N |-> [w.N EXCEPT ![n] = r], T |-> T, Q |-> w.Q]
    BY <1>3, <2>1, <2>3 DEF Shape
  <2> QED
    BY <2>2, <2>4, RowDenies
<1> QED
  BY <1>1, <1>2, <1>3 DEF Accepting

LEMMA JudgingDenies ==
  ASSUME NEW w, Shape(w), NEW n \in Nodes, Judge[n] # None, NEW v, v = Judging(w, n)
  PROVE  Denies(w, v)
<1>1. PICK j \in Nodes : j = Judge[n] /\ IsJudge(j) /\ j # n
  BY Judged
<1>2. PICK r : r = [w.N[n] EXCEPT !.st = "judging", !.pc = "judge"]
  OBVIOUS
<1>3. PICK q : q = [w.N[j] EXCEPT !.attempt = 0]
  OBVIOUS
<1>4. "st" \in DOMAIN r /\ r.st = "judging" /\ "st" \in DOMAIN q /\ q.st = w.N[j].st
  BY <1>2, <1>3 DEF Shape
<1>5. PICK x : x = [N |-> [w.N EXCEPT ![n] = r], T |-> w.T, Q |-> w.Q]
  OBVIOUS
<1>6. Denies(w, x) /\ x.N[j] = w.N[j]
  BY <1>1, <1>4, <1>5, RowDenies DEF Shape
<1>7. PICK y : y = FloorGiven(w, n)
  OBVIOUS
<1>8. y = [N |-> [x.N EXCEPT ![j] = q], T |-> x.T, Q |-> x.Q]
  <2>1. y = [w EXCEPT !.N[n] = [@ EXCEPT !.st = "judging", !.pc = "judge"], !.N[j].attempt = 0]
    BY <1>1, <1>7 DEF FloorGiven
  <2>2. y = [N |-> [[w.N EXCEPT ![n] = r] EXCEPT ![j] = q], T |-> w.T, Q |-> w.Q]
    BY <1>1, <1>2, <1>3, <1>5, <1>6, <2>1 DEF Shape
  <2> QED
    BY <1>5, <2>2
<1>9. Denies(x, y)
  BY <1>4, <1>6, <1>8, RowDenies DEF Denies
<1>10. Denies(w, y) /\ Shape(y)
  BY <1>6, <1>9, DeniesOn DEF Denies
<1>11. CASE v = JudgeLooped(y, j)
  <2>1. Denies(y, v)
    BY <1>1, <1>10, <1>11, JudgeLoopedDenies
  <2> QED
    BY <1>10, <2>1, DeniesOn
<1>12. CASE v = [y EXCEPT !.N[j].pc = "deps"]
  <2>1. PICK p : p = [y.N[j] EXCEPT !.pc = "deps"]
    OBVIOUS
  <2>2. "st" \in DOMAIN p /\ p.st = y.N[j].st
    BY <1>10, <2>1 DEF Shape
  <2>3. v = [N |-> [y.N EXCEPT ![j] = p], T |-> y.T, Q |-> y.Q]
    BY <1>10, <1>12, <2>1 DEF Shape
  <2>4. Denies(y, v)
    BY <1>10, <2>2, <2>3, RowDenies
  <2> QED
    BY <1>10, <2>4, DeniesOn
<1> QED
  BY <1>1, <1>7, <1>11, <1>12 DEF Judging

(* The nodes of a world that an action makes.                               *)
Denied == \A m \in Nodes : ~IsJudge(m) /\ node'[m].st = "succeeded" => node[m].st = "succeeded"

LEMMA NowShape ==
  ASSUME WInv(Now, stopping, log)
  PROVE  Shape(Now) /\ Now.N = node /\ \A v : Becomes(v) /\ Denies(Now, v) => Denied
<1>1. Now \in World /\ Now.N = node
  BY Here
<1>2. \A m \in Nodes : node[m] \in NodeRun
  BY Here
<1>3. \A m \in Nodes : "st" \in DOMAIN node[m]
  BY <1>2 DEF NodeRun
<1>4. Shape(Now)
  BY <1>1, <1>3 DEF Shape, World
<1> QED
  BY <1>1, <1>4 DEF Becomes, Denies, Denied

LEMMA DepsReadyDenies ==
  ASSUME WInv(Now, stopping, log), NEW n \in Nodes, DepsReady(n)
  PROVE  Denied
<1>1. PICK v : Becomes(v) /\ \/ v = SettledNode(Now, n, "cancelled")
                             \/ v = SettledNode(Now, n, "blocked")
                             \/ v = Onward(Now, n)
  BY DEF DepsReady
<1>2. Denies(Now, v)
  BY <1>1, NowShape, SettledDenies, OnwardDenies
<1> QED
  BY <1>1, <1>2, NowShape

LEMMA PlanDenies ==
  ASSUME WInv(Now, stopping, log), NEW n \in Nodes, PlanReady(n) \/ PlanFails(n)
  PROVE  Denied
<1>1. Now.N = node /\ Now.Q = queue /\ Now.T = task /\ Shape(Now) /\ Now \in World
      /\ node \in [Nodes -> NodeRun]
  BY Here, NowShape DEF World
<1>2. CASE PlanReady(n)
  <2>1. PICK t : node' = [node EXCEPT ![n] = [@ EXCEPT !.task = t, !.st = "running", !.pc = "turn"]]
    BY <1>2 DEF PlanReady
  <2>2. node[n] \in NodeRun
    BY <1>1
  <2>3. [node[n] EXCEPT !.task = t, !.st = "running", !.pc = "turn"].st = "running"
    BY <2>2 DEF NodeRun
  <2>4. \A m \in Nodes : m # n => node'[m] = node[m]
    BY <1>1, <2>1
  <2>5. node'[n].st = "running"
    BY <1>1, <2>1, <2>3
  <2> QED
    BY <2>4, <2>5 DEF Denied
<1>3. CASE PlanFails(n)
  <2>1. PICK t : Becomes(Onward([Now EXCEPT !.T[t] = Gone, !.N[n] = Refused(@)], n))
    BY <1>3 DEF PlanFails
  <2>2. PICK w : w = [Now EXCEPT !.T[t] = Gone, !.N[n] = Refused(@)]
    OBVIOUS
  <2>3. PICK r : r = Refused(node[n])
    OBVIOUS
  <2>4. "st" \in DOMAIN r /\ r.st = node[n].st
    <3>1. node[n] \in NodeRun
      BY <1>1
    <3> QED
      BY <2>3, <3>1 DEF Refused, NodeRun
  <2>5. w = [N |-> [Now.N EXCEPT ![n] = r], T |-> [task EXCEPT ![t] = Gone], Q |-> queue]
    BY <1>1, <2>2, <2>3 DEF Shape
  <2>6. Denies(Now, w)
    BY <1>1, <2>4, <2>5, RowDenies
  <2>7. PICK v : v = Onward(w, n)
    OBVIOUS
  <2>8. Denies(w, v)
    BY <2>6, <2>7, OnwardDenies DEF Denies
  <2> QED
    BY <2>1, <2>2, <2>6, <2>7, <2>8, DeniesOn, NowShape
<1> QED
  BY <1>2, <1>3

LEMMA TurnDenies ==
  ASSUME WInv(Now, stopping, log), NEW n \in Nodes, TurnDelivered(n)
  PROVE  Denied
<1>1. Now.N = node /\ Now.Q = queue /\ Now.T = task /\ Shape(Now) /\ node[n] \in NodeRun
  BY Here, NowShape
<1>2. PICK w : w = [Now EXCEPT !.N[n] = Spent(@)]
  OBVIOUS
<1>3. PICK r : r = Spent(node[n])
  OBVIOUS
<1>4. "st" \in DOMAIN r /\ r.st = node[n].st
  BY <1>1, <1>3 DEF Spent, NodeRun
<1>5. w = [N |-> [Now.N EXCEPT ![n] = r], T |-> task, Q |-> queue]
  BY <1>1, <1>2, <1>3 DEF Shape
<1>6. Denies(Now, w) /\ Shape(w)
  BY <1>1, <1>4, <1>5, RowDenies DEF Denies
<1>7. PICK d : d = [w EXCEPT !.N[n].task = 0]
  OBVIOUS
<1>8. PICK q : q = [w.N[n] EXCEPT !.task = 0]
  OBVIOUS
<1>9. "st" \in DOMAIN q /\ q.st = w.N[n].st
  BY <1>6, <1>8 DEF Shape
<1>10. d = [N |-> [w.N EXCEPT ![n] = q], T |-> w.T, Q |-> w.Q]
  BY <1>6, <1>7, <1>8 DEF Shape
<1>11. Denies(w, d) /\ Shape(d)
  BY <1>6, <1>9, <1>10, RowDenies DEF Denies
<1>12. PICK g : g = [w EXCEPT !.N[n].pc = "gate"]
  OBVIOUS
<1>13. Denies(w, g)
  <2>1. PICK p : p = [w.N[n] EXCEPT !.pc = "gate"]
    OBVIOUS
  <2>2. "st" \in DOMAIN p /\ p.st = w.N[n].st
    BY <1>6, <2>1 DEF Shape
  <2>3. g = [N |-> [w.N EXCEPT ![n] = p], T |-> w.T, Q |-> w.Q]
    BY <1>6, <1>12, <2>1 DEF Shape
  <2> QED
    BY <1>6, <2>2, <2>3, RowDenies
<1>14. PICK v : /\ Becomes(v)
                /\ \/ IsJudge(n) /\ v = GivenUp(w, n, "cancelled", "cancel")
                   \/ v = Halted(w, n, "cancelled") \/ v = g
                   \/ v = SettledNode(d, n, "failed") \/ v = Onward(d, n)
  BY <1>2, <1>7, <1>12 DEF TurnDelivered
<1>15. Denies(w, v)
  <2>1. CASE IsJudge(n) /\ v = GivenUp(w, n, "cancelled", "cancel")
    BY <1>6, <2>1, GivenUpDenies
  <2>2. CASE v = Halted(w, n, "cancelled")
    BY <1>6, <2>2, HaltedDenies
  <2>3. CASE v = SettledNode(d, n, "failed")
    BY <1>11, <2>3, SettledDenies, DeniesOn
  <2>4. CASE v = Onward(d, n)
    BY <1>11, <2>4, OnwardDenies, DeniesOn
  <2> QED
    BY <1>13, <1>14, <2>1, <2>2, <2>3, <2>4
<1> QED
  BY <1>6, <1>14, <1>15, DeniesOn, NowShape

LEMMA GateDenies ==
  ASSUME WInv(Now, stopping, log), NEW n \in Nodes, Gate(n)
  PROVE  Denied
<1>1. Now.N = node /\ Now.Q = queue /\ Now.T = task /\ Shape(Now)
  BY Here, NowShape
<1>2. PICK w : w = [Now EXCEPT !.N[n].seen = disk[n].ver]
  OBVIOUS
<1>3. PICK r : r = [node[n] EXCEPT !.seen = disk[n].ver]
  OBVIOUS
<1>4. "st" \in DOMAIN r /\ r.st = node[n].st
  BY <1>1, <1>3 DEF Shape
<1>5. w = [N |-> [Now.N EXCEPT ![n] = r], T |-> task, Q |-> queue]
  BY <1>1, <1>2, <1>3 DEF Shape
<1>6. Denies(Now, w) /\ Shape(w)
  BY <1>1, <1>4, <1>5, RowDenies DEF Denies
<1>7. PICK late, v : /\ Becomes(v)
                     /\ \/ v = Halted(w, n, "cancelled") \/ v = Rejected(w, n, Failure(n), late)
                        \/ Judge[n] # None /\ v = Judging(w, n)
                        \/ v = Accepting(w, n)
  BY <1>2 DEF Gate
<1>8. Denies(w, v)
  BY <1>6, <1>7, HaltedDenies, RejectedDenies, JudgingDenies, AcceptingDenies
<1> QED
  BY <1>6, <1>7, <1>8, DeniesOn, NowShape

LEMMA VerdictDenies ==
  ASSUME WInv(Now, stopping, log), NEW n \in Nodes, Verdict(n)
  PROVE  Denied
<1>1. PICK late, v : Becomes(v) /\ v = Disposed(n, late)
  BY DEF Verdict
<1>2. \/ v = Halted(Now, n, "cancelled") \/ v = Halted(Now, n, "blocked") \/ v = Accepting(Now, n)
      \/ v = Rejected(Now, n, node[n].says, late)
  BY <1>1 DEF Disposed
<1>3. Denies(Now, v)
  BY <1>2, NowShape, HaltedDenies, RejectedDenies, AcceptingDenies
<1> QED
  BY <1>1, <1>3, NowShape

LEMMA JudgeStepDenies ==
  ASSUME WInv(Now, stopping, log), NEW j \in Nodes, JudgeDeps(j) \/ JudgeGate(j)
  PROVE  Denied
<1>1. Now.N = node /\ Now.Q = queue /\ Now.T = task /\ Shape(Now)
  BY Here, NowShape
<1>2. IsJudge(j)
  <2>1. CASE JudgeDeps(j)
    <3>1. node[j].pc = "deps"
      BY <2>1 DEF JudgeDeps
    <3>2. ~IsJudge(j) => node[j].pc # "deps"
      BY <1>1, NowNode DEF MainOK
    <3> QED
      BY <3>1, <3>2
  <2>2. CASE JudgeGate(j)
    BY <2>2 DEF JudgeGate
  <2> QED
    BY <2>1, <2>2
<1>3. PICK g : g = [Now EXCEPT !.T[node[j].task] = Gone, !.N[j] = [@ EXCEPT !.verdict = Finds(j), !.own = TRUE]]
  OBVIOUS
<1>4. Denies(Now, g)
  <2>1. PICK p : p = [node[j] EXCEPT !.verdict = Finds(j), !.own = TRUE]
    OBVIOUS
  <2>2. "st" \in DOMAIN p
    BY <1>1, <2>1 DEF Shape
  <2>3. PICK T : T = [task EXCEPT ![node[j].task] = Gone]
    OBVIOUS
  <2>4. g = [N |-> [Now.N EXCEPT ![j] = p], T |-> T, Q |-> queue]
    BY <1>1, <1>3, <2>1, <2>3 DEF Shape
  <2> QED
    BY <1>1, <1>2, <2>2, <2>4, RowDenies
<1>5. PICK v, out, says, x : /\ Becomes(v)
                             /\ \/ v = Returned(x, j, says)
                                   /\ (x = SettledJudge(Now, j, out) \/ x = g)
                                \/ v = JudgeLooped(x, j) /\ (x = Now \/ x = Released(Now, j))
  <2>1. CASE JudgeDeps(j)
    BY <2>1 DEF JudgeDeps
  <2>2. CASE JudgeGate(j)
    BY <1>3, <2>2 DEF JudgeGate
  <2> QED
    BY <2>1, <2>2
<1>6. Denies(Now, x) /\ Shape(x)
  <2>1. x = SettledJudge(Now, j, out) \/ x = g \/ x = Now \/ x = Released(Now, j)
    BY <1>5
  <2> QED
    BY <1>1, <1>2, <1>4, <2>1, JudgeDenies, ReleasedDenies, DenyItself DEF Denies
<1>7. Denies(x, v)
  BY <1>2, <1>5, <1>6, ReturnedDenies, JudgeLoopedDenies
<1> QED
  BY <1>5, <1>6, <1>7, DeniesOn, NowShape

(* Whom an accepted node takes with it: nobody but its judge.               *)
LEMMA OthersDenied ==
  ASSUME NEW w, Shape(w), NEW n \in Nodes, NEW out, NEW v, v = SettledNode(w, n, out),
         NEW m \in Nodes, m # n, ~IsJudge(m), v.N[m].st = "succeeded"
  PROVE  w.N[m].st = "succeeded"
<1>1. PICK r : r = Terminated(w.N[n], out)
  OBVIOUS
<1>2. PICK e : e = [id |-> n, state |-> out, ver |-> w.N[n].seen, verdict |-> w.N[n].verdict]
  OBVIOUS
<1>3. PICK x : x = [w EXCEPT !.N[n] = Terminated(@, out), !.Q = Append(@, e)]
  OBVIOUS
<1>4. x = [N |-> [w.N EXCEPT ![n] = r], T |-> w.T, Q |-> Append(w.Q, e)]
  BY <1>1, <1>3 DEF Shape
<1>5. x.N = [w.N EXCEPT ![n] = r] /\ "st" \in DOMAIN r
  BY <1>1, <1>4, EndedRow
<1>6. \A k \in Nodes : x.N[k] = IF k = n THEN r ELSE w.N[k]
  BY <1>5 DEF Shape
<1>7. Shape(x)
  <2>1. x.N = [k \in Nodes |-> x.N[k]]
    BY <1>5 DEF Shape
  <2>2. x = [N |-> x.N, T |-> x.T, Q |-> x.Q]
    BY <1>4
  <2>3. \A k \in Nodes : "st" \in DOMAIN x.N[k]
    BY <1>5, <1>6 DEF Shape
  <2> QED
    BY <2>1, <2>2, <2>3 DEF Shape
<1>8. Denies(x, v)
  <2>1. CASE Judge[n] = None
    <3>1. v = x
      BY <1>2, <1>3, <2>1 DEF SettledNode
    <3> QED
      BY <1>7, <3>1, DenyItself
  <2>2. CASE Judge[n] # None
    <3>1. v = Mirrored(x, n, out)
      BY <1>2, <1>3, <2>2 DEF SettledNode
    <3>2. PICK o : v = SettledJudge(x, Judge[n], o)
      BY <3>1 DEF Mirrored
    <3>3. Judge[n] \in Nodes /\ IsJudge(Judge[n])
      BY <2>2, Judged
    <3> QED
      BY <1>7, <3>2, <3>3, JudgeDenies
  <2> QED
    BY <2>1, <2>2
<1> QED
  BY <1>6, <1>8 DEF Denies

(* A node that is accepted was not stopped.                                 *)
Heeded ==
  \A n \in Nodes : ~IsJudge(n) /\ ~Terminal(node[n]) /\ node'[n].st = "succeeded"
                     => ~stopping /\ ~node[n].flag /\ ~node[n].killed

LEMMA DeniedHeeds ==
  ASSUME Denied
  PROVE  Heeded
BY DEF Denied, Heeded, Terminal, Settled

LEMMA AcceptedHeeds ==
  ASSUME WInv(Now, stopping, log), NEW n \in Nodes, Accepted(n)
  PROVE  Heeded
<1>1. Shape(Now) /\ Now.N = node
  BY NowShape
<1>2. PICK out : out = IF Stopped(Now, n) THEN "cancelled" ELSE "succeeded"
  OBVIOUS
<1>3. PICK v : v = SettledNode(Now, n, out)
  OBVIOUS
<1>4. Becomes(v) /\ node[n].pc = "accept"
  BY <1>2, <1>3 DEF Accepted
<1>5. CASE Stopped(Now, n)
  <2>1. Denies(Now, v)
    BY <1>1, <1>2, <1>3, <1>5, SettledDenies
  <2> QED
    BY <1>4, <2>1, NowShape, DeniedHeeds
<1>6. CASE ~Stopped(Now, n)
  <2>1. ~stopping /\ ~node[n].flag
    BY <1>1, <1>6 DEF Stopped
  <2>2. ~IsJudge(n) => ~node[n].killed
    BY <1>1, <1>4, NowNode DEF MainOK
  <2>3. ASSUME NEW m \in Nodes, m # n, ~IsJudge(m), node'[m].st = "succeeded" PROVE node[m].st = "succeeded"
    <3>1. v.N[m].st = "succeeded"
      BY <1>4, <2>3 DEF Becomes
    <3> QED
      BY <1>1, <1>3, <2>3, <3>1, OthersDenied
  <2> QED
    BY <2>1, <2>2, <2>3 DEF Heeded, Terminal, Settled
<1> QED
  BY <1>5, <1>6

LEMMA AlikeHeeds ==
  ASSUME \A k \in Nodes : Alike(node[k], node'[k])
  PROVE  Heeded
BY DEF Alike, Heeded, Terminal, Settled

LEMMA StepHeeds ==
  ASSUME IInv, Next
  PROVE  Heeded
<1>1. WInv(Now, stopping, log) /\ disk \in Disk
  BY DEF IInv
<1>2. ASSUME NEW n \in Nodes,
             \/ DepsReady(n) \/ PlanReady(n) \/ TurnDelivered(n) \/ Gate(n)
             \/ JudgeDeps(n) \/ JudgeGate(n) \/ Verdict(n) \/ PlanFails(n)
      PROVE  Heeded
  <2>1. Denied
    BY <1>1, <1>2, DepsReadyDenies, PlanDenies, TurnDenies, GateDenies, JudgeStepDenies, VerdictDenies
  <2> QED
    BY <2>1, DeniedHeeds
<1>3. ASSUME NEW n \in Nodes, Accepted(n) PROVE Heeded
  BY <1>1, <1>3, AcceptedHeeds
<1>4. ASSUME CancelRun \/ \E n \in Nodes : CancelNode(n) \/ Deadline(n) PROVE Heeded
  BY <1>1, <1>4, CancelRunKeeps, CancelNodeKeeps, DeadlineKeeps, AlikeHeeds
<1>5. ASSUME NEW t \in Tasks, TurnStarts(t) \/ TurnEnds(t) \/ Interrupt(t) PROVE Heeded
  BY <1>1, <1>5, TurnStartsKeeps, TurnEndsKeeps, InterruptKeeps, AlikeHeeds
<1>6. ASSUME RunEnds \/ \E n \in Nodes : Edit(n) PROVE Heeded
  <2>1. node' = node
    BY <1>6 DEF RunEnds, Edit
  <2> QED
    BY <2>1, AlikeHeeds DEF Alike
<1>7. ASSUME Crash PROVE Heeded
  <2>1. \A n \in Nodes : node'[n].st = "pending"
    BY <1>7 DEF Crash, Blank
  <2> QED
    BY <2>1 DEF Heeded
<1>8. ASSUME Redispatch PROVE Heeded
  <2>1. CASE driver = "off"
    <3>1. ~stopping /\ \A n \in Nodes : ~node[n].flag /\ ~node[n].killed
      BY <2>1 DEF IInv, Blank
    <3> QED
      BY <3>1 DEF Heeded
  <2>2. CASE driver = "done"
    <3>1. \A n \in Nodes : ~IsJudge(n) => Terminal(node[n])
      <4>1. Now.N = node /\ \A n \in Nodes : node[n].pc = "end"
        BY <1>1, <2>2, Here DEF IInv
      <4> QED
        BY <1>1, <4>1, NowNode DEF MainOK
    <3> QED
      BY <3>1 DEF Heeded
  <2> QED
    BY <1>8, <2>1, <2>2 DEF IInv, Redispatch
<1> QED
  BY <1>2, <1>3, <1>4, <1>5, <1>6, <1>7, <1>8 DEF Next, Reaction, Trouble

(* A node that was cancelled, with its run or by itself, or that ran past    *)
(* its deadline is never accepted afterwards.                              *)
THEOREM StoppedStaysStopped == Spec => StoppedNeverAccepted
<1>1. IInv /\ [Next]_vars =>
        [\A n \in Nodes : ~IsJudge(n) /\ ~Terminal(node[n]) /\ node'[n].st = "succeeded"
                            => ~stopping /\ ~node[n].flag /\ ~node[n].killed]_vars
  BY StepHeeds DEF Heeded
<1> QED
  BY <1>1, Invariant, PTL DEF Spec, StoppedNeverAccepted
=============================================================================
