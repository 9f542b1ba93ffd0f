---------------------------- MODULE ToolExecBroker ----------------------------
(***************************************************************************)
(* The tool plane of hotdog: the supervisor's link                         *)
(* (src/core/tool-exec-broker.ts), the broker child with its pool of       *)
(* runners (src/core/tool-exec-broker-main.ts), the runners                *)
(* (src/workers/tool-exec.ts) and the caller that races an answer against  *)
(* the abort of its run (src/core/tool-executor.ts).  Each is a process    *)
(* with one thread; they talk over pipes and see each other die late.      *)
(***************************************************************************)
EXTENDS Naturals, Sequences, FiniteSets

CONSTANTS
  Calls,         \* tool calls the executor sends to the plane
  Sessions,
  SessionOf,     \* the session of each call
  RespawnCap,    \* respawns in a row before the plane is degraded
  WindowDeaths,  \* deaths inside the sliding window that degrade it
  MaxChildren,   \* broker children ever spawned
  MaxEntries,    \* runners ever spawned
  MaxPosts,      \* warm and reap requests
  MaxTroubles,   \* crashes, failed spawns, fence changes, closes and posts, together
  None

Children == 1 .. MaxChildren
Entries == 1 .. MaxEntries
Posts == 1 .. MaxPosts
Fences == {"off", "probe"}

ASSUME PlaneAssumption ==
  /\ SessionOf \in [Calls -> Sessions]
  /\ RespawnCap \in Nat /\ WindowDeaths \in Nat \ {0}
  /\ MaxChildren \in Nat \ {0} /\ MaxEntries \in Nat \ {0} /\ MaxPosts \in Nat
  /\ MaxTroubles \in Nat
  /\ Calls \cap Posts = {}
  /\ None \notin Calls \cup Sessions \cup Fences

VARIABLES
  proc,      \* #proc of the supervisor; #starting is the promise of that child
  promise,   \* the start promise of each child
  hook,      \* whose promise #onReady and #onFatal settle
  crashed, closing, respawns, deaths, degraded,
  pending,   \* the ids of #pending
  waits,     \* the start promise an invoke or a post is awaiting
  fate,      \* how executeViaPlane settled a call
  planned,   \* the fence planned when the call was dispatched
  post,      \* the warm and reap requests
  policy,    \* the effective fence policy of a session
  closers,   \* children whose close() has not returned
  down, up,  \* the pipes between supervisor and child
  child,     \* the broker processes
  ended,     \* children whose stdin has ended
  entry,     \* the pool entries
  runner,    \* their processes
  exec,      \* where a call is between a child and its runner
  lone,      \* crashes of a child since a call last completed
  troubles   \* crashes, failed spawns, fence changes and closes so far

startVars == <<proc, promise, hook, crashed, closing, respawns, deaths, degraded, lone>>
callVars == <<pending, waits, fate, planned, post>>
pipeVars == <<down, up>>
childVars == <<child, ended>>
poolVars == <<entry, runner, exec>>
vars == <<startVars, callVars, pipeVars, childVars, poolVars, policy, closers, troubles>>

Requests == Calls \cup Posts

Frame == [op : {"invoke"}, id : Calls, session : Sessions, fence : Fences]
         \cup [op : {"cancel"}, id : Calls]
         \cup [op : {"warm"}, session : Sessions, fence : Fences]
         \cup [op : {"reap"}, session : Sessions]

Done == [op |-> "done"]

ASSUME SentinelAssumption == None \notin Frame \cup {Done}

Reply == [op : {"ready"}] \cup [op : {"reply"}, id : Calls, ok : BOOLEAN]

Entry == [child : Children \cup {0}, session : Sessions \cup {None}, fence : Fences,
          pending : SUBSET Calls, armed : BOOLEAN, dead : BOOLEAN]

NoEntry == [child |-> 0, session |-> None, fence |-> "off", pending |-> {},
            armed |-> FALSE, dead |-> FALSE]

Nowhere == [at |-> 0, st |-> "none"]

(* A frame counts as read once it is in the pipe of its runner; `lost` is   *)
(* one written to a runner that no longer reads.                           *)
Stages == {"none", "lost", "running", "aborted", "replied"}

(* Every variable has its type.                                            *)
TypeOK ==
  /\ proc \in Children \cup {0} /\ hook \in Children \cup {0}
  /\ promise \in [Children -> {"none", "open", "ready", "failed"}]
  /\ crashed \in BOOLEAN /\ closing \in BOOLEAN /\ degraded \in BOOLEAN
  /\ respawns \in Nat /\ deaths \in Nat /\ lone \in Nat
  /\ pending \subseteq Calls /\ waits \in [Requests -> Children \cup {0}]
  /\ fate \in [Calls -> {"idle", "open", "done", "cancelled", "withdrawn"}]
  /\ planned \in [Calls -> Fences \cup {None}]
  /\ \A p \in Posts : post[p] = None \/ post[p] = Done \/ post[p] \in Frame
  /\ policy \in [Sessions -> Fences] /\ closers \subseteq Children
  /\ \A c \in Children : down[c] \in Seq(Frame) /\ up[c] \subseteq Reply
  /\ child \in [Children -> {"none", "booting", "up", "dead"}]
  /\ ended \subseteq Children
  /\ entry \in [Entries -> Entry]
  /\ runner \in [Entries -> {"none", "up", "draining", "gone"}]
  /\ exec \in [Calls -> [at : Entries \cup {0}, st : Stages]]
  /\ troubles \in 0 .. MaxTroubles

Init ==
  /\ proc = 0 /\ hook = 0 /\ promise = [c \in Children |-> "none"]
  /\ crashed = FALSE /\ closing = FALSE /\ degraded = FALSE
  /\ respawns = 0 /\ deaths = 0 /\ lone = 0
  /\ pending = {} /\ waits = [r \in Requests |-> 0]
  /\ fate = [c \in Calls |-> "idle"]
  /\ planned = [c \in Calls |-> None]
  /\ post = [p \in Posts |-> None]
  /\ policy = [s \in Sessions |-> "probe"] /\ closers = {}
  /\ down = [c \in Children |-> <<>>] /\ up = [c \in Children |-> {}]
  /\ child = [c \in Children |-> "none"] /\ ended = {}
  /\ entry = [e \in Entries |-> NoEntry] /\ runner = [e \in Entries |-> "none"]
  /\ exec = [c \in Calls |-> Nowhere]
  /\ troubles = 0

Spent == troubles + Cardinality({p \in Posts : post[p] # None})
Strike == Spent < MaxTroubles /\ troubles' = troubles + 1

Alive(c) == child[c] \in {"booting", "up"}
Running(e) == runner[e] \in {"up", "draining"}

(* A start that settled resumes its waiters before the supervisor reads    *)
(* another event: promise reactions are microtasks.                        *)
Resumable(r) == waits[r] # 0 /\ promise[waits[r]] # "open"
Quiet == \A r \in Requests : ~Resumable(r)

Settled(cs, how) == [c \in Calls |-> IF c \in cs /\ fate[c] = "open" THEN how ELSE fate[c]]

(* dropEntry: everything pending is answered, the stdin of the runner ends. *)
Dropped(es) ==
  [e \in Entries |-> IF e \in es
                     THEN [entry[e] EXCEPT !.dead = TRUE, !.pending = {}, !.armed = FALSE]
                     ELSE entry[e]]
(* Variant: a dropped entry answers nobody.                                *)
OrphansForgotten(es) == {}

Orphans(es) == UNION {entry[e].pending : e \in es}

(* With a child die its pool and what was in its stdin; the stdin of its    *)
(* runners ends.                                                           *)
Die(c) ==
  /\ child' = [child EXCEPT ![c] = "dead"]
  /\ down' = [down EXCEPT ![c] = <<>>]
  /\ entry' = Dropped({e \in Entries : entry[e].child = c})

-----------------------------------------------------------------------------
(* The supervisor: starting a child                                        *)

(* Variant: only the respawns in a row count.                              *)
CapOfRespawnsOnly == respawns >= RespawnCap

CapReached == respawns >= RespawnCap \/ deaths >= WindowDeaths

(* The start of #ensureStarted up to the spawn: a crash consumes budget.   *)
SpendBudget ==
  /\ crashed' = FALSE
  /\ respawns' = respawns + (IF crashed THEN 1 ELSE 0)

Degrade ==
  /\ ~degraded /\ crashed /\ CapReached
  /\ degraded' = TRUE /\ crashed' = FALSE
  /\ UNCHANGED <<proc, promise, hook, closing, respawns, deaths, lone>>

Refuse == degraded /\ UNCHANGED startVars

Fresh(c) == child[c] = "none" /\ \A d \in Children : d < c => child[d] # "none"

Spawn(c) ==
  /\ Fresh(c) /\ ~degraded /\ ~(crashed /\ CapReached)
  /\ SpendBudget
  /\ closing' = FALSE /\ proc' = c /\ hook' = c
  /\ promise' = [promise EXCEPT ![c] = "open"]
  /\ child' = [child EXCEPT ![c] = "booting"]
  /\ UNCHANGED <<deaths, degraded, lone>>

(* The host cannot spawn: a fault, or the bound on children is reached.    *)
SpawnThrows ==
  /\ ~degraded /\ ~(crashed /\ CapReached)
  /\ Strike \/ (UNCHANGED troubles /\ ~\E c \in Children : Fresh(c))
  /\ SpendBudget
  /\ closing' = FALSE
  /\ UNCHANGED <<proc, promise, hook, deaths, degraded, lone>>

(* #ensureStarted without a child: refused, or the wait for a new one.      *)
NoStart(r) ==
  /\ proc = 0
  /\ \/ (Degrade \/ Refuse) /\ UNCHANGED troubles
     \/ SpawnThrows
  /\ UNCHANGED <<waits, childVars>>

Start(r) ==
  /\ proc = 0
  /\ \E c \in Children : Spawn(c) /\ waits' = [waits EXCEPT ![r] = c]
  /\ UNCHANGED <<ended, troubles>>

AwaitStart(r) ==
  /\ proc # 0 /\ promise[proc] = "open"
  /\ waits' = [waits EXCEPT ![r] = proc]
  /\ UNCHANGED <<startVars, childVars, troubles>>

Started == proc # 0 /\ promise[proc] = "ready"

-----------------------------------------------------------------------------
(* The supervisor: calls                                                   *)

Write(f) == down' = IF proc = 0 \/ ~Alive(proc) THEN down ELSE [down EXCEPT ![proc] = Append(@, f)]

(* invoke past its await.                                                  *)
Dispatch(c) ==
  LET s == SessionOf[c] IN
  /\ pending' = pending \cup {c}
  /\ planned' = [planned EXCEPT ![c] = policy[s]]
  /\ Write([op |-> "invoke", id |-> c, session |-> s, fence |-> policy[s]])

Held == UNCHANGED <<pending, planned, down>>

(* executeViaPlane: a run that is still live invokes.                      *)
Invoke(c) ==
  /\ fate[c] = "idle"
  /\ \/ NoStart(c) /\ Held /\ fate' = [fate EXCEPT ![c] = "done"]
     \/ (Start(c) \/ AwaitStart(c)) /\ Held /\ fate' = [fate EXCEPT ![c] = "open"]
     \/ /\ Started /\ Dispatch(c) /\ fate' = [fate EXCEPT ![c] = "open"]
        /\ UNCHANGED <<startVars, childVars, waits, troubles>>
  /\ UNCHANGED <<post, up, poolVars, policy, closers>>

(* The invoke goes on where the start left it, cancelled or not.  Without a *)
(* child its write throws, after the id went into #pending.                *)
ResumeCall(c) ==
  /\ Resumable(c)
  /\ waits' = [waits EXCEPT ![c] = 0]
  /\ \/ /\ promise[waits[c]] = "ready" /\ Dispatch(c)
        /\ fate' = IF proc = 0 THEN Settled({c}, "done") ELSE fate
     \/ promise[waits[c]] = "failed" /\ Held /\ fate' = Settled({c}, "done")
  /\ UNCHANGED <<startVars, post, up, childVars, poolVars, policy, closers, troubles>>

CancelFrame(c) == Write([op |-> "cancel", id |-> c])

(* The run is aborted: cancel(id), then the caller settles.  `withdrawn` is *)
(* a cancelled call that still awaits the start of the child.              *)
Abort(c) ==
  /\ fate[c] = "open"
  /\ pending' = pending \ {c}
  /\ CancelFrame(c)
  /\ fate' = Settled({c}, IF waits[c] = 0 THEN "cancelled" ELSE "withdrawn")
  /\ UNCHANGED <<startVars, waits, planned, post, up, childVars, poolVars, policy, closers,
                 troubles>>

Sent(p) == post' = [post EXCEPT ![p] = Done]

(* warm, and reap of a plane that has a child: #post.                      *)
Post(p, f) ==
  /\ post[p] = None /\ \A q \in Posts : q < p => post[q] # None
  /\ Spent < MaxTroubles
  /\ f.op = "reap" => proc # 0
  /\ \/ NoStart(p) /\ UNCHANGED down /\ Sent(p)
     \/ (Start(p) \/ AwaitStart(p)) /\ UNCHANGED down /\ post' = [post EXCEPT ![p] = f]
     \/ /\ Started /\ Write(f) /\ Sent(p)
        /\ UNCHANGED <<startVars, childVars, waits, troubles>>
  /\ UNCHANGED <<pending, fate, planned, up, poolVars, policy, closers>>

ResumePost(p) ==
  /\ Resumable(p)
  /\ waits' = [waits EXCEPT ![p] = 0]
  /\ \/ promise[waits[p]] = "ready" /\ Write(post[p])
     \/ promise[waits[p]] = "failed" /\ UNCHANGED down
  /\ Sent(p)
  /\ UNCHANGED <<startVars, pending, fate, planned, up, childVars, poolVars, policy,
                 closers, troubles>>

(* setSessionFencePolicy: in-flight calls keep the fence they were born    *)
(* with.                                                                   *)
SetPolicy(s) ==
  /\ Strike
  /\ policy' = [policy EXCEPT ![s] = IF @ = "off" THEN "probe" ELSE "off"]
  /\ UNCHANGED <<startVars, callVars, pipeVars, childVars, poolVars, closers>>

-----------------------------------------------------------------------------
(* The supervisor: what it hears of a child                                *)

(* Variant: only the calls in flight are rejected.                         *)
StartLeftOpen == promise

(* #onFatal                                                                *)
StartRejected == IF hook = 0 THEN promise ELSE [promise EXCEPT ![hook] = "failed"]

FailAll ==
  /\ proc' = 0 /\ hook' = 0 /\ promise' = StartRejected
  /\ fate' = Settled(pending, "done") /\ pending' = {}

(* #handleDeath: a child that was replaced is none of its business.  The    *)
(* callback of a write to the dead child rejects what this rejects.        *)
HandleDeath ==
  /\ IF closing THEN UNCHANGED <<crashed, deaths, lone>>
     ELSE crashed' = TRUE /\ deaths' = deaths + 1 /\ lone' = lone + 1
  /\ FailAll
  /\ UNCHANGED <<closing, respawns, degraded>>

HearExit ==
  /\ proc # 0 /\ child[proc] = "dead"
  /\ HandleDeath
  /\ UNCHANGED <<waits, planned, post, pipeVars, childVars, poolVars, policy, closers, troubles>>

(* A frame past the limit: the stream cannot be trusted, so it is a death. *)
Overflow ==
  /\ proc # 0 /\ child[proc] = "up" /\ Strike
  /\ Die(proc)
  /\ HandleDeath
  /\ UNCHANGED <<waits, planned, post, up, ended, runner, exec, policy, closers>>

(* #handleLine: the readers of a replaced child stay attached.             *)
HearReady(c) ==
  /\ [op |-> "ready"] \in up[c]
  /\ up' = [up EXCEPT ![c] = @ \ {[op |-> "ready"]}]
  /\ hook' = 0
  /\ promise' = IF hook = 0 THEN promise ELSE [promise EXCEPT ![hook] = "ready"]
  /\ UNCHANGED <<proc, crashed, closing, respawns, deaths, degraded, lone, callVars, down,
                 childVars, poolVars, policy, closers, troubles>>

HearReply(c, f) ==
  /\ [op |-> "ready"] \notin up[c] /\ f \in up[c]
  /\ up' = [up EXCEPT ![c] = @ \ {f}]
  /\ IF f.id \notin pending THEN UNCHANGED <<startVars, fate, pending>>
     ELSE /\ pending' = pending \ {f.id}
          /\ fate' = Settled({f.id}, "done")
          /\ respawns' = (IF f.ok THEN 0 ELSE respawns) /\ lone' = (IF f.ok THEN 0 ELSE lone)
          /\ UNCHANGED <<proc, promise, hook, crashed, closing, deaths, degraded>>
  /\ UNCHANGED <<waits, planned, post, down, childVars, poolVars, policy, closers, troubles>>

(* The oldest death leaves the window.                                     *)
WindowSlides ==
  /\ deaths > 0 /\ deaths' = deaths - 1
  /\ UNCHANGED <<proc, promise, hook, crashed, closing, respawns, degraded, lone, callVars,
                 pipeVars, childVars, poolVars, policy, closers, troubles>>

Close ==
  /\ proc # 0 /\ Strike
  /\ closing' = TRUE /\ proc' = 0
  /\ closers' = closers \cup {proc} /\ ended' = ended \cup {proc}
  /\ UNCHANGED <<promise, hook, crashed, respawns, deaths, degraded, lone, callVars, pipeVars,
                 child, poolVars, policy>>

(* close() after the exit of its child or after 3.5 s.                     *)
CloseReturns(c) ==
  /\ c \in closers /\ closers' = closers \ {c}
  /\ IF Alive(c) THEN Die(c) ELSE UNCHANGED <<child, down, entry>>
  /\ fate' = Settled(pending, "done") /\ pending' = {}
  /\ UNCHANGED <<startVars, waits, planned, post, up, ended, runner, exec, policy, troubles>>

-----------------------------------------------------------------------------
(* The broker child                                                        *)

Boot(c) ==
  /\ child[c] = "booting"
  /\ child' = [child EXCEPT ![c] = "up"]
  /\ up' = [up EXCEPT ![c] = @ \cup {[op |-> "ready"]}]
  /\ UNCHANGED <<startVars, callVars, down, ended, poolVars, policy, closers, troubles>>

Live(c, s) == {e \in Entries : entry[e].child = c /\ entry[e].session = s /\ ~entry[e].dead}

Failures(ids) == [op : {"reply"}, id : ids, ok : {FALSE}]

(* armIdle: a busy entry has no idle timer.                                *)
Arms(ids) == ids = {}

(* Variant: the fence of a frame is not compared.                          *)
ReusedWhateverFence(c, f) == Live(c, f.session)

(* ensureEntry for a frame: the entry of the same fence, or a fresh one in *)
(* the place of the entries it drops.                                      *)
Reused(c, f) == {e \in Live(c, f.session) : entry[e].fence = f.fence}
Replaced(c, f) == Live(c, f.session) \ Reused(c, f)
FreshEntry(e) == runner[e] = "none" /\ \A d \in Entries : d < e => runner[d] # "none"

Placed(c, f, e) ==
  [Dropped(Replaced(c, f)) EXCEPT ![e] =
     IF e \in Reused(c, f) THEN @
     ELSE [child |-> c, session |-> f.session, fence |-> f.fence, pending |-> {},
           armed |-> TRUE, dead |-> FALSE]]

Takes(c, op) == child[c] = "up" /\ down[c] # <<>> /\ Head(down[c]).op = op
Taken(c) == down' = [down EXCEPT ![c] = Tail(@)]
Answer(c, ids) == up' = [up EXCEPT ![c] = @ \cup Failures(ids)]

HostOf(c, f, e) == e \in Reused(c, f) \/ (Reused(c, f) = {} /\ FreshEntry(e))
HostRunner(e) == runner' = IF runner[e] = "none" THEN [runner EXCEPT ![e] = "up"] ELSE runner

(* routeInvoke: the frame is written to the runner, dead or not.           *)
RouteInvoke(c) ==
  /\ Takes(c, "invoke") /\ Taken(c)
  /\ LET f == Head(down[c]) IN
     \E e \in Entries :
       /\ HostOf(c, f, e) /\ HostRunner(e)
       /\ entry' = [Placed(c, f, e) EXCEPT ![e].pending = @ \cup {f.id}, ![e].armed = FALSE]
       /\ exec' = [exec EXCEPT ![f.id] =
                    [at |-> e, st |-> IF runner'[e] = "up" THEN "running" ELSE "lost"]]
       /\ Answer(c, Orphans(Replaced(c, f)))
  /\ UNCHANGED <<startVars, callVars, childVars, policy, closers, troubles>>

Warm(c) ==
  /\ Takes(c, "warm") /\ Taken(c)
  /\ LET f == Head(down[c]) IN
     \E e \in Entries :
       /\ HostOf(c, f, e) /\ HostRunner(e)
       /\ entry' = [Placed(c, f, e) EXCEPT ![e].armed = Arms(Placed(c, f, e)[e].pending)]
       /\ Answer(c, Orphans(Replaced(c, f)))
  /\ UNCHANGED <<startVars, callVars, childVars, exec, policy, closers, troubles>>

(* The spawn of a runner fails: the caller is told, a warm only logged.    *)
RunnerSpawnFails(c) ==
  /\ \E op \in {"invoke", "warm"} : Takes(c, op)
  /\ LET f == Head(down[c]) IN
     /\ Reused(c, f) = {}
     /\ Strike \/ (UNCHANGED troubles /\ ~\E e \in Entries : FreshEntry(e))
     /\ entry' = Dropped(Replaced(c, f))
     /\ Answer(c, Orphans(Replaced(c, f)) \cup (IF f.op = "invoke" THEN {f.id} ELSE {}))
  /\ Taken(c)
  /\ UNCHANGED <<startVars, callVars, childVars, runner, exec, policy, closers>>

(* routeCancel: to the live entry that holds the id, which keeps it; the   *)
(* runner aborts the call.                                                 *)
RouteCancel(c) ==
  /\ Takes(c, "cancel") /\ Taken(c)
  /\ LET i == Head(down[c]).id  e == exec[i].at IN
     exec' = IF /\ exec[i].st = "running" /\ runner[e] = "up"
                /\ entry[e].child = c /\ ~entry[e].dead /\ i \in entry[e].pending
             THEN [exec EXCEPT ![i].st = "aborted"] ELSE exec
  /\ UNCHANGED <<startVars, callVars, up, childVars, entry, runner, policy, closers, troubles>>

Drop(c, es) == entry' = Dropped(es) /\ Answer(c, Orphans(es))

ReapEntries(c) ==
  /\ Takes(c, "reap") /\ Taken(c)
  /\ Drop(c, Live(c, Head(down[c]).session))
  /\ UNCHANGED <<startVars, callVars, childVars, runner, exec, policy, closers, troubles>>

IdleTimer(e) ==
  /\ entry[e].armed /\ child[entry[e].child] = "up"
  /\ Drop(entry[e].child, {e})
  /\ UNCHANGED <<startVars, callVars, down, childVars, runner, exec, policy, closers, troubles>>

HeldWithout(e, i) == entry[e].pending \ {i}

(* relayRunnerLine: only for an id the entry still holds.  Whether the tool *)
(* returned or threw is settled here.                                      *)
Relay(i, ok) ==
  LET e == exec[i].at  held == i \in entry[e].pending IN
  /\ exec[i].st = "replied" /\ child[entry[e].child] = "up"
  /\ exec' = [exec EXCEPT ![i] = Nowhere]
  /\ entry' = IF held THEN [entry EXCEPT ![e].pending = HeldWithout(e, i),
                                         ![e].armed = Arms(HeldWithout(e, i))]
              ELSE entry
  /\ up' = IF held THEN [up EXCEPT ![entry[e].child] = @ \cup
                           {[op |-> "reply", id |-> i, ok |-> ok]}]
           ELSE up
  /\ UNCHANGED <<startVars, callVars, down, childVars, runner, policy, closers, troubles>>

(* The callback of a write to a runner that is gone, held or not.          *)
RunnerWriteError(i) ==
  LET e == exec[i].at IN
  /\ exec[i].st = "lost" /\ child[entry[e].child] = "up"
  /\ exec' = [exec EXCEPT ![i] = Nowhere]
  /\ entry' = [entry EXCEPT ![e].pending = @ \ {i}]
  /\ Answer(entry[e].child, {i})
  /\ UNCHANGED <<startVars, callVars, down, childVars, runner, policy, closers, troubles>>

RunnerExit(e) ==
  /\ runner[e] = "gone" /\ child[entry[e].child] = "up" /\ ~entry[e].dead
  /\ Drop(entry[e].child, {e})
  /\ UNCHANGED <<startVars, callVars, down, childVars, runner, exec, policy, closers, troubles>>

(* The end of stdin: every runner's pipe ends and the child exits.         *)
Leave(c) ==
  /\ child[c] = "up" /\ c \in ended /\ down[c] = <<>>
  /\ Die(c)
  /\ UNCHANGED <<startVars, callVars, up, ended, runner, exec, policy, closers, troubles>>

Crash(c) ==
  /\ Alive(c) /\ Strike
  /\ Die(c)
  /\ UNCHANGED <<startVars, callVars, up, ended, runner, exec, policy, closers>>

-----------------------------------------------------------------------------
(* The runner                                                              *)

RunnerVars ==
  <<startVars, callVars, pipeVars, childVars, entry, policy, closers>>

(* The tool returns or throws; an aborted one may still return.            *)
Finish(i) ==
  /\ exec[i].st \in {"running", "aborted"} /\ Running(exec[i].at)
  /\ exec' = [exec EXCEPT ![i].st = "replied"]
  /\ UNCHANGED <<RunnerVars, runner, troubles>>

At(e, sts) == {i \in Calls : exec[i].at = e /\ exec[i].st \in sts}

(* drain: abort what runs; leave at once when nothing does.                *)
Drain(e) ==
  /\ runner[e] = "up" /\ entry[e].dead
  /\ runner' = [runner EXCEPT ![e] = IF At(e, {"running", "aborted"}) = {} THEN "gone"
                                     ELSE "draining"]
  /\ exec' = [i \in Calls |-> IF i \in At(e, {"running"}) THEN [exec[i] EXCEPT !.st = "aborted"]
                              ELSE exec[i]]
  /\ UNCHANGED <<RunnerVars, troubles>>

Vanish(e) ==
  /\ runner' = [runner EXCEPT ![e] = "gone"]
  /\ exec' = [i \in Calls |-> IF i \in At(e, {"running", "aborted"}) THEN Nowhere ELSE exec[i]]
  /\ UNCHANGED RunnerVars

(* 2.5 s after the drain began, or the kill of dropEntry after 3 s.        *)
DrainTimer(e) == runner[e] = "draining" /\ Vanish(e) /\ UNCHANGED troubles
RunnerCrash(e) == Running(e) /\ Strike /\ Vanish(e)

-----------------------------------------------------------------------------
Supervisor ==
  \/ \E c \in Calls : Invoke(c) \/ Abort(c)
  \/ \E p \in Posts, s \in Sessions :
       \/ \E f \in {policy[s], "off"} : Post(p, [op |-> "warm", session |-> s, fence |-> f])
       \/ Post(p, [op |-> "reap", session |-> s])
  \/ \E s \in Sessions : SetPolicy(s)
  \/ HearExit \/ Overflow
  \/ \E c \in Children : HearReady(c) \/ CloseReturns(c)
                         \/ \E f \in up[c] : f.op = "reply" /\ HearReply(c, f)
  \/ WindowSlides \/ Close

Resume == (\E c \in Calls : ResumeCall(c)) \/ (\E p \in Posts : ResumePost(p))

Broker ==
  \/ \E c \in Children : \/ Boot(c) \/ RouteInvoke(c) \/ Warm(c) \/ RunnerSpawnFails(c)
                         \/ RouteCancel(c) \/ ReapEntries(c) \/ Leave(c) \/ Crash(c)
  \/ \E e \in Entries : IdleTimer(e) \/ RunnerExit(e)
  \/ \E i \in Calls : RunnerWriteError(i) \/ \E ok \in BOOLEAN : Relay(i, ok)

Runner ==
  \/ \E i \in Calls : Finish(i)
  \/ \E e \in Entries : Drain(e) \/ DrainTimer(e) \/ RunnerCrash(e)

Next == (Quiet /\ Supervisor) \/ Resume \/ Broker \/ Runner

Spec == Init /\ [][Next]_vars

(* Every process reacts to what reaches it, and a runner's tool returns     *)
(* (bash and fetch have timeouts); no fairness for users, faults and the   *)
(* idle timer.                                                             *)
Reaction ==
  \/ Resume
  \/ Quiet /\ HearExit
  \/ Quiet /\ \E c \in Children :
       \/ HearReady(c) \/ CloseReturns(c)
       \/ \E f \in up[c] : f.op = "reply" /\ HearReply(c, f)
  \/ \E c \in Children : \/ Boot(c) \/ RouteInvoke(c) \/ Warm(c) \/ RunnerSpawnFails(c)
                         \/ RouteCancel(c) \/ ReapEntries(c) \/ Leave(c)
  \/ \E e \in Entries : RunnerExit(e) \/ Drain(e) \/ DrainTimer(e)
  \/ \E i \in Calls : \/ RunnerWriteError(i) \/ Finish(i) \/ \E ok \in BOOLEAN : Relay(i, ok)

-----------------------------------------------------------------------------
(* Properties                                                              *)

(* An open call in #pending is on its way: its child still has the frame,  *)
(* or an entry that lives holds it, or its answer is in the pipe; when its *)
(* child is gone, an exit or a close that will reject it is still to come. *)
(* A crash, a replacement of the runner, a reap or a failed spawn between  *)
(* any two steps must not leave a caller waiting on nobody.                *)
Carries(d, c) ==
  \/ \E k \in DOMAIN down[d] : down[d][k].op = "invoke" /\ down[d][k].id = c
  \/ \E e \in Entries : entry[e].child = d /\ ~entry[e].dead /\ c \in entry[e].pending
  \/ \E f \in up[d] : f.op = "reply" /\ f.id = c
NoCallLost ==
  \A c \in pending : fate[c] = "open" =>
    \/ proc # 0 /\ (child[proc] = "dead" \/ Carries(proc, c))
    \/ closers # {}

(* The entry that holds a call knows a runner that has it, or that is gone *)
(* and whose exit the broker has not heard of.                             *)
EntryAccounts ==
  \A e \in Entries, c \in Calls :
    (c \in entry[e].pending /\ Alive(entry[e].child)) =>
      \/ exec[c].at = e /\ exec[c].st # "none"
      \/ runner[e] = "gone"

(* A call runs only behind the fence that was planned for it, in a runner  *)
(* of its own session, whatever warmed that runner and however often the   *)
(* policy was changed since.                                               *)
RunsBehindItsFence ==
  \A c \in Calls : exec[c].st \in {"running", "aborted"} =>
    /\ entry[exec[c].at].fence = planned[c]
    /\ entry[exec[c].at].session = SessionOf[c]

(* A session never has two live runners in one child: a replaced one is    *)
(* out of the pool before its successor is in.                             *)
OneRunnerPerKey ==
  \A c \in Children, s \in Sessions : Cardinality(Live(c, s)) <= 1

(* The idle timer of an entry runs exactly while the entry holds no call:  *)
(* a busy runner is never reaped as idle, and an idle one never forgotten. *)
IdleTimerFits ==
  \A e \in Entries : (entry[e].child # 0 /\ ~entry[e].dead /\ Running(e)) =>
    (entry[e].armed <=> entry[e].pending = {})

(* The pool is sound: one runner per session, behind the fence of each call *)
(* it was given, reaped when idle and only then.                            *)
PoolIsSound == RunsBehindItsFence /\ OneRunnerPerKey /\ IdleTimerFits

(* When a call was cancelled after its dispatch and its runner still works *)
(* on it, the cancel frame is on its way, or the runner is being drained.  *)
CancelReaches ==
  \A c \in Calls :
    (fate[c] = "cancelled" /\ exec[c].st = "running") =>
      \/ entry[exec[c].at].dead \/ entry[exec[c].at].child \in ended
      \/ \E d \in Children : \E k \in DOMAIN down[d] : down[d][k] = [op |-> "cancel", id |-> c]

(* No call is forgotten on its way from the supervisor to a runner and      *)
(* back, nor its cancel, whichever process dies between two steps.          *)
CallsAccounted == TypeOK /\ NoCallLost /\ EntryAccounts /\ CancelReaches

(* A plane whose children die without serving a call is not respawned past *)
(* the cap, nor past the deaths the window allows.                         *)
NoCrashLoop ==
  [][(proc' # proc /\ proc' # 0) => (lone <= RespawnCap /\ deaths < WindowDeaths)]_vars

(* Once every process has reacted to all that reached it, every invoke has *)
(* settled, unless the child whose start it awaits was closed, when nobody *)
(* may be left to settle that start; and no runner outlives its place in   *)
(* the pool or its broker.                                                 *)
Abandoned(c) == waits[c] \in ended
AllSettle ==
  ENABLED Reaction \/
    /\ \A c \in Calls : fate[c] = "open" => Abandoned(c)
    /\ \A e \in Entries : entry[e].dead => runner[e] = "gone"
=============================================================================
