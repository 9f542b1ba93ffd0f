---------------------------- MODULE WorkflowEngine ----------------------------
(***************************************************************************)
(* A workflow run of hotdog (src/extensions/workflows/engine.ts): one       *)
(* coroutine per node that spawns parked task agents, waits for their       *)
(* turns, checks what they wrote and lets a judge decide; a cancel of the   *)
(* run or of a node, a runtime deadline or an interrupt from outside may    *)
(* come at every await.  The journal of the run (run-store.ts) lets a later *)
(* dispatch take up what a killed process left.                            *)
(***************************************************************************)
EXTENDS WorkflowGraph, SequencesExt

CONSTANTS
  MayWrite,    \* the verdicts a worker of the node may write
  Timeouts,    \* workflows.enableRuntimeTimeouts
  MaxTasks,    \* tasks that are alive at a time
  MaxRuns,     \* dispatches of this run id
  MaxTroubles  \* cancels, interrupts, deadlines, failures, edits and crashes, together

Tasks == 1 .. MaxTasks
Verdicts == {"pass", "fail", "reject"}
Settled == {"succeeded", "failed", "blocked", "cancelled"}
Claim == [ver : Nat, verdict : Verdicts \cup {None}, deps : SUBSET Nodes]

ASSUME EngineAssumption ==
  /\ Timeouts \in BOOLEAN /\ MaxTasks \in Nat \ {0} /\ MaxRuns \in Nat \ {0}
  /\ MaxTroubles \in Nat
  /\ MayWrite \in [Nodes -> SUBSET Verdicts]
  /\ None \notin Settled \cup Verdicts /\ None \notin Claim

VARIABLES
  driver,   \* whether a process drives the run: "on", "off" after a crash, "done"
  node,     \* the NodeRun of each node
  stopping, \* #cancelRequested
  task,     \* the tasks of the task manager that belong to this run
  disk,     \* what a node left in the run dir: outputs and verdict file
  queue,    \* the terminal events logged by this dispatch
  log,      \* run.jsonl as its readers fold it
  runs, troubles

vars == <<driver, node, stopping, task, disk, queue, log, runs, troubles>>

(* `open`: the gate of the present attempt still is nr.gate; `turn`: what it *)
(* was given.  `says`: what #runJudge returned to the owner.                *)
NodeRun ==
  [st : {"pending", "running", "judging"} \cup Settled, outcome : Settled \cup {None},
   pc : {"idle", "wait", "plan", "turn", "gate", "deps", "judge", "verdict", "accept", "end"},
   attempt : Nat, task : Tasks \cup {0}, open : BOOLEAN, turn : {"none", "completed", "broken"},
   killed : BOOLEAN, armed : BOOLEAN, flag : BOOLEAN, own : BOOLEAN,
   verdict : Verdicts \cup {None}, says : Verdicts \cup {"blocked", "cancel", None},
   seen : Nat, reused : BOOLEAN]

Blank ==
  [st |-> "pending", outcome |-> None, pc |-> "idle", attempt |-> 0, task |-> 0,
   open |-> FALSE, turn |-> "none", killed |-> FALSE, armed |-> FALSE, flag |-> FALSE,
   own |-> FALSE, verdict |-> None, says |-> None, seen |-> 0, reused |-> FALSE]

(* `cut`: interrupted while its spawn was still planned; `old`: spawned by  *)
(* an earlier dispatch of the run in this process.                         *)
Task == [node : Nodes \cup {None}, aborted : BOOLEAN, old : BOOLEAN,
         st : {"none", "planning", "cut", "queued", "warm", "turn", "parked"}]

Gone == [node |-> None, aborted |-> FALSE, old |-> FALSE, st |-> "none"]

Event == [id : Nodes, state : Settled, ver : Nat, verdict : Verdicts \cup {None}]

(* Every variable has its type.                                            *)
TypeOK ==
  /\ driver \in {"on", "off", "done"} /\ stopping \in BOOLEAN
  /\ node \in [Nodes -> NodeRun]
  /\ task \in [Tasks -> Task]
  /\ disk \in [Nodes -> [ver : Nat, verdict : Verdicts \cup {None}]]
  /\ queue \in Seq(Event)
  /\ log.last \in [Nodes -> Settled \cup {None}]
  /\ \A n \in Nodes : log.claim[n] = None \/ log.claim[n] \in Claim
  /\ log.finished \in {"succeeded", "failed", "cancelled", None}
  /\ runs \in 1 .. MaxRuns /\ troubles \in 0 .. MaxTroubles

Strike == troubles < MaxTroubles /\ troubles' = troubles + 1
Terminal(r) == r.st \in Settled
Live(t) == task[t].st \in {"planning", "queued", "warm", "turn", "parked"}

-----------------------------------------------------------------------------
(* What the handlers do to the nodes N, the tasks T and the logged events Q *)

Now == [N |-> node, T |-> task, Q |-> queue]

Becomes(w) == node' = w.N /\ task' = w.T /\ queue' = w.Q

(* TurnGate.deliver, to the gate that nr.gate names.                       *)
Delivered(r, result) ==
  IF r.open /\ r.turn = "none" THEN [r EXCEPT !.turn = result] ELSE r

(* cancel and cancelNode: deliver a cancelled turn, drop the gate.         *)
Shut(r) == [Delivered(r, "broken") EXCEPT !.open = FALSE]

(* interruptTask: what is queued or parked ends, a turn is aborted.        *)
Interrupted(T, t) ==
  IF t = 0 THEN T
  ELSE [T EXCEPT ![t] =
          CASE @.st = "planning" -> [@ EXCEPT !.st = "cut"]
            [] @.st = "turn" -> [@ EXCEPT !.aborted = TRUE]
            [] OTHER -> Gone]

Released(w, n) ==
  [w EXCEPT !.T = Interrupted(@, w.N[n].task), !.N[n].task = 0]

(* completeTask: only a task that is parked can be released as completed.  *)
Completes(n) == node[n].task # 0 /\ task[node[n].task].st = "parked"

(* toTerminal.  What nobody reads any more is forgotten.                    *)
Terminated(r, out) ==
  [Blank EXCEPT !.st = out, !.outcome = out, !.pc = "end", !.own = r.own, !.flag = r.flag,
                !.reused = r.reused]

SettledJudge(w, j, out) ==
  IF Terminal(w.N[j]) THEN w
  ELSE [w EXCEPT !.N[j] = Terminated(@, out),
                 !.Q = Append(@, [id |-> j, state |-> out, ver |-> 0,
                                  verdict |-> w.N[j].verdict])]

(* Variant: a judge that delivered its verdict is left alone.              *)
MirrorsUndelivered(w, n, out) ==
  IF w.N[Judge[n]].own THEN w
  ELSE SettledJudge(w, Judge[n], IF out = "cancelled" THEN "cancelled" ELSE "blocked")

(* The judge mirror: one that delivered a verdict did its job.             *)
Mirrored(w, n, out) ==
  SettledJudge(w, Judge[n], IF w.N[Judge[n]].own THEN "succeeded"
                            ELSE IF out = "cancelled" THEN "cancelled" ELSE "blocked")

SettledNode(w, n, out) ==
  LET v == [w EXCEPT !.N[n] = Terminated(@, out),
                     !.Q = Append(@, [id |-> n, state |-> out, ver |-> w.N[n].seen,
                                      verdict |-> w.N[n].verdict])]
  IN IF Judge[n] = None THEN v ELSE Mirrored(v, n, out)

(* Variant: the node settles, its task stays.                              *)
HaltKeepsTask(w, n, out) == SettledNode(w, n, out)

Halted(w, n, out) == SettledNode(Released(w, n), n, out)

-----------------------------------------------------------------------------
(* Attempts                                                                *)

(* Bound: an action that may spawn waits for a free id.                    *)
FreeIds(w) == {t \in Tasks : w.T[t].st = "none" /\ \A n \in Nodes : w.N[n].task # t}
HasId == FreeIds(Now) # {}

(* Cold admission: a new task, planned.                                    *)
Spawned(w, n) ==
  LET t == CHOOSE x \in FreeIds(w) : TRUE
  IN [w EXCEPT !.N[n] = [@ EXCEPT !.open = TRUE, !.turn = "none", !.pc = "plan",
                                  !.says = None, !.seen = 0],
               !.T[t] = [Gone EXCEPT !.node = n, !.st = "planning"]]

(* A warm follow-up: the session goes on; one that is over rejects.        *)
Warmed(w, n) ==
  LET t == w.N[n].task
      parked == w.T[t].st = "parked"
  IN [w EXCEPT !.N[n] = [@ EXCEPT !.open = TRUE, !.pc = "turn", !.st = "running",
                                  !.says = None, !.seen = 0,
                                  !.turn = IF parked THEN "none" ELSE "broken"],
               !.T[t].st = IF parked THEN "warm" ELSE @]

Stopped(w, n) == stopping \/ w.N[n].flag

(* The top of #attemptLoop, with what the next attempt would be.           *)
Looped(w, n, next) ==
  IF Stopped(w, n) THEN Halted(w, n, "cancelled")
  ELSE IF w.N[n].attempt >= MaxAttempts[n] THEN Halted(w, n, "failed")
  ELSE next

(* #runJudge returns to its owner.                                         *)
Returned(w, j, says) ==
  [w EXCEPT !.N[j].pc = IF Terminal(w.N[j]) THEN "end" ELSE "idle",
            !.N[Owner(j)] = [@ EXCEPT !.pc = "verdict", !.says = says]]

GivenUp(w, j, out, says) == Returned(SettledJudge(Released(w, j), j, out), j, says)

(* The top of the loop of #runJudge.                                       *)
JudgeLooped(w, j) ==
  IF Stopped(w, Owner(j)) THEN GivenUp(w, j, "cancelled", "cancel")
  ELSE IF w.N[j].flag THEN GivenUp(w, j, "cancelled", "blocked")
  ELSE IF w.N[j].attempt >= MaxAttempts[j] THEN GivenUp(w, j, "failed", "blocked")
  ELSE Spawned(w, j)

Onward(w, n) == IF IsJudge(n) THEN JudgeLooped(w, n) ELSE Looped(w, n, Spawned(w, n))

UpstreamBad(n) == \E d \in Deps[n] : node[d].outcome # "succeeded"

(* #runNode once the dependencies are settled.                             *)
DepsReady(n) ==
  /\ driver = "on" /\ node[n].pc = "wait" /\ HasId
  /\ \A d \in Deps[n] : node[d].outcome # None
  /\ Becomes(IF Stopped(Now, n) THEN SettledNode(Now, n, "cancelled")
             ELSE IF UpstreamBad(n) THEN SettledNode(Now, n, "blocked")
             ELSE Onward(Now, n))
  /\ UNCHANGED <<driver, stopping, disk, log, runs, troubles>>

Planned(n) == {t \in Tasks : task[t].node = n /\ task[t].st \in {"planning", "cut"} /\ ~task[t].old}

(* spawnTask returns its handle; a task that was cut meanwhile is handed    *)
(* back without a start, and tells nobody.                                 *)
PlanReady(n) ==
  /\ driver = "on" /\ node[n].pc = "plan"
  /\ \E t \in Planned(n) :
       /\ task' = IF task[t].st = "cut" THEN task ELSE [task EXCEPT ![t].st = "queued"]
       /\ node' = [node EXCEPT ![n] = [@ EXCEPT !.task = t, !.st = "running", !.pc = "turn"]]
  /\ UNCHANGED <<driver, stopping, disk, queue, log, runs, troubles>>

(* Admission refused: it counts as an attempt.                             *)
Refused(r) == [r EXCEPT !.open = FALSE, !.attempt = @ + 1]

PlanFails(n) ==
  /\ driver = "on" /\ node[n].pc = "plan" /\ HasId /\ Strike
  /\ \E t \in Planned(n) : Becomes(Onward([Now EXCEPT !.T[t] = Gone, !.N[n] = Refused(@)], n))
  /\ UNCHANGED <<driver, stopping, disk, log, runs>>

(* The attempt counts, its gate is closed.                                  *)
Spent(r) == [r EXCEPT !.open = FALSE, !.turn = "none", !.attempt = @ + 1]

(* The turn is over, whatever ended it.                                    *)
TurnDelivered(n) ==
  LET w == [Now EXCEPT !.N[n] = Spent(@)]
      dead == [w EXCEPT !.N[n].task = 0]
  IN
  /\ driver = "on" /\ node[n].pc = "turn" /\ node[n].turn # "none" /\ HasId
  /\ Becomes(
       IF Stopped(w, IF IsJudge(n) THEN Owner(n) ELSE n)
       THEN IF IsJudge(n) THEN GivenUp(w, n, "cancelled", "cancel")
            ELSE Halted(w, n, "cancelled")
       ELSE IF node[n].turn = "completed" THEN [w EXCEPT !.N[n].pc = "gate"]
       ELSE IF node[n].killed /\ ~IsJudge(n) THEN SettledNode(dead, n, "failed")
       ELSE Onward(dead, n))
  /\ UNCHANGED <<driver, stopping, disk, log, runs, troubles>>

-----------------------------------------------------------------------------
(* Gates                                                                   *)

(* What #evaluateGate finds: "missing", or the verdict.                    *)
Finds(n) == IF disk[n].verdict = None THEN "missing" ELSE disk[n].verdict

Failure(n) == IF Finds(n) = "reject" THEN "reject" ELSE "fail"

(* The gate of an attempt failed: the task stays for a warm retry, or the   *)
(* node is done.  The runtime may have run out without a kill.              *)
Rejected(w, n, kind, late) ==
  IF w.N[n].killed \/ late \/ w.N[n].attempt >= MaxAttempts[n] \/ kind \notin RetryOn[n]
  THEN Halted(w, n, "failed")
  ELSE Looped(w, n, Warmed(w, n))

(* The gates are passed: release the task as completed.                    *)
Accepting(w, n) ==
  IF w.N[n].killed THEN Halted(w, n, "failed")
  ELSE IF ~Completes(n) THEN SettledNode(w, n, "cancelled")
  ELSE [w EXCEPT !.T[w.N[n].task] = Gone,
                 !.N[n] = [@ EXCEPT !.pc = "accept", !.verdict = "pass"]]

(* The node waits for its judge, whose attempts are counted anew.           *)
FloorGiven(w, n) ==
  [w EXCEPT !.N[n] = [@ EXCEPT !.st = "judging", !.pc = "judge"], !.N[Judge[n]].attempt = 0]

(* #runJudge up to its first await.                                        *)
Judging(w, n) ==
  IF Deps[Judge[n]] \subseteq {n} THEN JudgeLooped(FloorGiven(w, n), Judge[n])
  ELSE [FloorGiven(w, n) EXCEPT !.N[Judge[n]].pc = "deps"]

Late == IF Timeouts THEN BOOLEAN ELSE {FALSE}

Gate(n) ==
  LET w == [Now EXCEPT !.N[n].seen = disk[n].ver] IN
  /\ driver = "on" /\ node[n].pc = "gate" /\ ~IsJudge(n) /\ HasId
  /\ \E late \in Late :
       Becomes(IF Stopped(w, n) THEN Halted(w, n, "cancelled")
               ELSE IF Finds(n) # "pass" THEN Rejected(w, n, Failure(n), late)
               ELSE IF Judge[n] # None THEN Judging(w, n)
               ELSE Accepting(w, n))
  /\ UNCHANGED <<driver, stopping, disk, log, runs, troubles>>

(* Variant: the judge waits for the node it gates as well.                 *)
EveryDep(j) == Deps[j]

Evidence(j) == Deps[j] \ {Owner(j)}

(* The judge waits for what it depends on besides the node it gates.       *)
JudgeDeps(j) ==
  /\ driver = "on" /\ node[j].pc = "deps" /\ HasId
  /\ \A d \in Evidence(j) : node[d].outcome # None
  /\ Becomes(IF ~Stopped(Now, Owner(j)) /\ ~node[j].flag
                /\ \E d \in Evidence(j) : node[d].outcome # "succeeded"
             THEN Returned(SettledJudge(Now, j, "blocked"), j, "blocked")
             ELSE JudgeLooped(Now, j))
  /\ UNCHANGED <<driver, stopping, disk, log, runs, troubles>>

(* Any verdict passes the gate of the judge; its value is for the owner.   *)
JudgeGate(j) ==
  /\ driver = "on" /\ node[j].pc = "gate" /\ IsJudge(j) /\ HasId
  /\ Becomes(IF Finds(j) = "missing" THEN JudgeLooped(Released(Now, j), j)
             ELSE IF ~Completes(j) THEN Returned(SettledJudge(Now, j, "cancelled"), j, "cancel")
             ELSE Returned([Now EXCEPT !.T[node[j].task] = Gone,
                                       !.N[j] = [@ EXCEPT !.verdict = Finds(j), !.own = TRUE]],
                           j, Finds(j)))
  /\ UNCHANGED <<driver, stopping, disk, log, runs, troubles>>

(* The owner goes on with what its judge said; a cancel outranks it.       *)
Disposed(n, late) ==
  IF Stopped(Now, n) \/ node[n].says = "cancel" THEN Halted(Now, n, "cancelled")
  ELSE CASE node[n].says = "blocked" -> Halted(Now, n, "blocked")
         [] node[n].says = "pass" -> Accepting(Now, n)
         [] OTHER -> Rejected(Now, n, node[n].says, late)

Verdict(n) ==
  /\ driver = "on" /\ node[n].pc = "verdict"
  /\ \E late \in Late : Becomes(Disposed(n, late))
  /\ UNCHANGED <<driver, stopping, disk, log, runs, troubles>>

(* Variant: what was released is accepted.                                 *)
AcceptedAnyway(n) ==
  /\ driver = "on" /\ node[n].pc = "accept"
  /\ Becomes(SettledNode(Now, n, "succeeded"))
  /\ UNCHANGED <<driver, stopping, disk, log, runs, troubles>>

(* The task settled: the node is accepted, unless it was cancelled.        *)
Accepted(n) ==
  /\ driver = "on" /\ node[n].pc = "accept"
  /\ Becomes(SettledNode(Now, n, IF Stopped(Now, n) THEN "cancelled" ELSE "succeeded"))
  /\ UNCHANGED <<driver, stopping, disk, log, runs, troubles>>

-----------------------------------------------------------------------------
(* The tasks                                                               *)

(* The lane has room and the agent is built: onTurnStart arms the deadline. *)
TurnStarts(t) ==
  /\ task[t].st \in {"queued", "warm"}
  /\ task' = [task EXCEPT ![t].st = "turn"]
  /\ node' = IF task[t].old THEN node ELSE [node EXCEPT ![task[t].node].armed = Timeouts]
  /\ UNCHANGED <<driver, stopping, disk, queue, log, runs, troubles>>

(* What a worker may leave behind: nothing, or its outputs and a verdict.   *)
Left(n) == {disk[n]} \cup [ver : {IF IsJudge(n) THEN 0 ELSE disk[n].ver + 1}, verdict : MayWrite[n]]

(* The end of a turn: onTurn disarms and delivers; a completed turn leaves  *)
(* its task parked, unless it was aborted.                                 *)
TurnEnds(t) ==
  LET n == task[t].node IN
  /\ task[t].st = "turn"
  /\ \E result \in {"completed", "broken"}, left \in Left(n) :
       /\ IF result = "completed" \/ task[t].aborted THEN UNCHANGED troubles ELSE Strike
       /\ disk' = [disk EXCEPT ![n] = left]
       /\ task' = [task EXCEPT ![t] = IF result = "completed" /\ ~@.aborted
                                      THEN [@ EXCEPT !.st = "parked"] ELSE Gone]
       /\ node' = IF task[t].old THEN node
                  ELSE [node EXCEPT ![n] = [Delivered(@, result) EXCEPT !.armed = FALSE]]
  /\ UNCHANGED <<driver, stopping, queue, log, runs>>

(* The deadline of a turn: the task is interrupted, the node will fail.    *)
Deadline(n) ==
  /\ driver = "on" /\ node[n].armed /\ ~Terminal(node[n]) /\ Strike
  /\ node' = [node EXCEPT ![n] = [@ EXCEPT !.armed = FALSE, !.killed = TRUE]]
  /\ task' = Interrupted(task, node[n].task)
  /\ UNCHANGED <<driver, stopping, disk, queue, log, runs>>

(* Somebody else interrupts a task: the session that dispatched the run is  *)
(* deleted, or a user stops it.  A task whose spawn is planned has no       *)
(* onTurn yet.                                                             *)
Interrupt(t) ==
  /\ Live(t) /\ ~task[t].old /\ ~task[t].aborted /\ Strike
  /\ task' = Interrupted(task, t)
  /\ node' = IF task[t].st \in {"queued", "warm"}
             THEN [node EXCEPT ![task[t].node] = Delivered(@, "broken")] ELSE node
  /\ UNCHANGED <<driver, stopping, disk, queue, log, runs>>

-----------------------------------------------------------------------------
(* Cancels                                                                 *)

AllInterrupted(ts) ==
  [t \in Tasks |-> IF t \in ts THEN Interrupted(task, t)[t] ELSE task[t]]

CancelRun ==
  /\ driver = "on" /\ ~stopping /\ Strike
  /\ stopping' = TRUE
  /\ node' = [n \in Nodes |-> [Shut(node[n]) EXCEPT !.armed = FALSE]]
  /\ task' = AllInterrupted({node[n].task : n \in {m \in Nodes : ~Terminal(node[m])}})
  /\ UNCHANGED <<driver, disk, queue, log, runs>>

(* The nodes whose turn ends with the cancel of n: a judge that holds the   *)
(* floor goes with its owner.                                              *)
ShutOut(n) ==
  {n} \cup {j \in Nodes : node[n].st = "judging" /\ j = Judge[n] /\ ~Terminal(node[j])}

CancelNode(n) ==
  /\ driver = "on" /\ ~Terminal(node[n]) /\ ~node[n].flag /\ Strike
  /\ node' = [m \in Nodes |-> LET r == IF m \in ShutOut(n) THEN Shut(node[m]) ELSE node[m]
                              IN [r EXCEPT !.flag = @ \/ m = n]]
  /\ task' = AllInterrupted({node[m].task : m \in ShutOut(n)})
  /\ UNCHANGED <<driver, stopping, disk, queue, log, runs>>

-----------------------------------------------------------------------------
(* The journal                                                             *)

(* Variant: a node that fails later keeps its claim.                       *)
ClaimKept(e, before) ==
  IF e.state # "succeeded" THEN before
  ELSE [ver |-> e.ver, verdict |-> e.verdict,
        deps |-> IF IsJudge(e.id) THEN {} ELSE Deps[e.id]]

(* The claim a terminal event leaves; that of a judge holds no dependencies  *)
(* and no files.                                                           *)
ClaimAfter(e, before) ==
  IF e.state # "succeeded" THEN None
  ELSE [ver |-> e.ver, verdict |-> e.verdict,
        deps |-> IF IsJudge(e.id) THEN {} ELSE Deps[e.id]]

Told(events, n) == {i \in DOMAIN events : events[i].id = n}
LastOf(events, n) == events[Max(Told(events, n))]

(* Readers fold the terminal events: the last of a node stands.             *)
Journal(events) ==
  [log EXCEPT
     !.last = [n \in Nodes |-> IF Told(events, n) = {} THEN @[n] ELSE LastOf(events, n).state],
     !.claim = [n \in Nodes |-> IF Told(events, n) = {} THEN @[n]
                                ELSE ClaimAfter(LastOf(events, n), @[n])]]

Outcome ==
  IF stopping THEN "cancelled"
  ELSE IF \A n \in Nodes : node[n].st = "succeeded" THEN "succeeded" ELSE "failed"

RunEnds ==
  /\ driver = "on" /\ \A n \in Nodes : IsJudge(n) \/ node[n].pc = "end"
  /\ driver' = "done"
  /\ log' = [Journal(queue) EXCEPT !.finished = Outcome]
  /\ UNCHANGED <<node, stopping, task, disk, queue, runs, troubles>>

(* The process is killed: the last events may not be on disk.              *)
Crash ==
  /\ driver = "on" /\ runs < MaxRuns /\ Strike
  /\ \E k \in 0 .. Len(queue) : log' = Journal(SubSeq(queue, 1, k))
  /\ driver' = "off" /\ queue' = <<>> /\ stopping' = FALSE
  /\ node' = [n \in Nodes |-> Blank] /\ task' = [t \in Tasks |-> Gone]
  /\ UNCHANGED <<disk, runs>>

(* Somebody changes what a node wrote while nobody drives the run.         *)
Edit(n) ==
  /\ driver # "on" /\ runs < MaxRuns /\ log.claim[n] # None /\ ~IsJudge(n) /\ Strike
  /\ disk' = [disk EXCEPT ![n].ver = @ + 1]
  /\ UNCHANGED <<driver, node, stopping, task, queue, log, runs>>

(* validateClaims, claim by claim.                                         *)
Verifies(n) ==
  /\ IsJudge(n) \/ disk[n].ver = log.claim[n].ver
  /\ disk[n].verdict = log.claim[n].verdict

Claimed == {n \in Nodes : log.claim[n] # None}

Valid == CHOOSE S \in SUBSET Claimed :
           S = {n \in Claimed : Verifies(n) /\ log.claim[n].deps \subseteq S}

(* #resume: what verifies is reused; the judge of a reused node will not be *)
(* driven again.                                                           *)
Resumed(n) ==
  IF n \in Valid
  THEN [Blank EXCEPT !.st = "succeeded", !.outcome = "succeeded", !.pc = "end", !.reused = TRUE,
                     !.verdict = log.claim[n].verdict]
  ELSE IF Owners(n) \cap Valid # {}
  THEN Terminated(Blank, IF log.last[n] \in Settled \ {"succeeded"} THEN log.last[n] ELSE "blocked")
  ELSE [Blank EXCEPT !.pc = IF IsJudge(n) THEN "idle" ELSE "wait"]

Unreviewed == {j \in Nodes \ Valid : Owners(j) \cap Valid # {}}

Redispatch ==
  /\ driver # "on" /\ runs < MaxRuns /\ runs' = runs + 1
  /\ driver' = "on" /\ stopping' = FALSE
  /\ node' = [n \in Nodes |-> Resumed(n)]
  /\ task' = [t \in Tasks |-> IF Live(t) THEN [task[t] EXCEPT !.old = TRUE] ELSE Gone]
  /\ log' = Journal(SetToSeq({[id |-> j, state |-> Resumed(j).st, ver |-> 0, verdict |-> None] :
                                j \in Unreviewed}))
  /\ queue' = <<>>
  /\ UNCHANGED <<disk, troubles>>

-----------------------------------------------------------------------------

Init ==
  /\ driver = "on" /\ stopping = FALSE
  /\ node = [n \in Nodes |-> [Blank EXCEPT !.pc = IF IsJudge(n) THEN "idle" ELSE "wait"]]
  /\ task = [t \in Tasks |-> Gone]
  /\ disk = [n \in Nodes |-> [ver |-> 0, verdict |-> None]]
  /\ queue = <<>>
  /\ log = [last |-> [n \in Nodes |-> None], claim |-> [n \in Nodes |-> None], finished |-> None]
  /\ runs = 1 /\ troubles = 0

(* What goes on by itself.                                                 *)
Reaction ==
  \/ \E n \in Nodes : \/ DepsReady(n) \/ PlanReady(n) \/ TurnDelivered(n) \/ Gate(n)
                      \/ JudgeDeps(n) \/ JudgeGate(n) \/ Verdict(n) \/ Accepted(n)
  \/ \E t \in Tasks : TurnStarts(t) \/ TurnEnds(t)
  \/ RunEnds

Trouble ==
  \/ \E n \in Nodes : PlanFails(n) \/ Deadline(n) \/ CancelNode(n) \/ Edit(n)
  \/ \E t \in Tasks : Interrupt(t)
  \/ CancelRun \/ Crash

Next == Reaction \/ Trouble \/ Redispatch

Spec == Init /\ [][Next]_vars

-----------------------------------------------------------------------------
Working(t) == Live(t) /\ ~task[t].aborted

(* The worker is the one its node waits for.                               *)
Wanted(t) ==
  LET n == node[task[t].node] IN
  /\ driver = "on" /\ ~task[t].old
  /\ \/ task[t].st = "planning" /\ n.pc = "plan"
     \/ n.task = t /\ n.pc \in {"turn", "gate", "judge", "verdict"}

(* A worker whose judge was cancelled while its spawn was planned.         *)
Abandoned(t) == IsJudge(task[t].node) /\ (task[t].old \/ node[task[t].node].flag)

(* A worker that is neither over nor aborted is the one its node waits      *)
(* for: no task of a settled node, of an earlier attempt or of a run that   *)
(* is over keeps a lane of its provider.                                   *)
NoStrayWorker == \A t \in Tasks : Working(t) => Wanted(t) \/ Abandoned(t)

(* A judge of an earlier run that is reused though its node is not.        *)
Resurrected(d) == node[d].reused /\ IsJudge(d) /\ ~node[Owner(d)].reused

(* A worker runs on what is accepted: every dependency of its node          *)
(* succeeded; that of a judge works while its owner waits for the verdict.  *)
StartsOnDone ==
  \A t \in {x \in Tasks : Working(x) /\ Wanted(x)} :
    LET n == task[t].node IN
    /\ \A d \in Deps[n] : \/ node[d].outcome = "succeeded"
                          \/ Judge[d] = n \/ Resurrected(d)
    /\ IsJudge(n) => node[Owner(n)].pc = "judge"

(* A judge settles with the node it gates: it never blocks those who wait   *)
(* for it after its node is done, nor releases them before.                *)
JudgeMirrorsOwner ==
  \A n \in {m \in Nodes : Judge[m] # None} :
    LET j == node[Judge[n]] IN
    /\ node[n].pc = "end" => Terminal(j)
    /\ j.st = "succeeded" /\ ~j.reused => node[n].pc = "end"

(* Nothing starts early and nothing waits for what is over: the order of    *)
(* the graph holds through retries, judges and resumed runs.                *)
GraphOrder == StartsOnDone /\ JudgeMirrorsOwner

(* When the run is over its journal tells what became of each node, and     *)
(* claims exactly what was accepted.                                       *)
JournalTruth ==
  driver = "done" =>
    /\ \A n \in Nodes : /\ log.last[n] = node[n].st
                        /\ log.claim[n] # None <=> node[n].st = "succeeded"
    /\ log.finished = "succeeded" => \A n \in Nodes : log.claim[n] # None

(* So a reader of the journal, and a resume, see the run as it was.         *)
RunIsJournalled == TypeOK /\ JournalTruth

(* Nobody waits for what nobody will do: while a run is not over there is   *)
(* something to do, or a task was interrupted before its spawn returned.   *)
AllSettle ==
  driver = "on" => ENABLED Reaction \/ \E t \in Tasks : task[t].st = "cut"

(* A node that was cancelled, with its run or by itself, or that ran past   *)
(* its deadline is never accepted afterwards.                              *)
StoppedNeverAccepted ==
  [][\A n \in Nodes : ~IsJudge(n) /\ ~Terminal(node[n]) /\ node'[n].st = "succeeded"
                      => ~stopping /\ ~node[n].flag /\ ~node[n].killed]_vars
=============================================================================
