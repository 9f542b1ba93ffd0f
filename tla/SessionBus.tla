------------------------------ MODULE SessionBus ------------------------------
(***************************************************************************)
(* One session of hotdog: the message bus with its single consumer         *)
(* (src/core/session/message-bus.ts), the run loop of the agent it drives   *)
(* (src/core/agent.ts), the steering seam between the two, the provider    *)
(* lane a turn waits for (src/core/session/turn-lanes.ts) and the commands *)
(* that rewrite the context.  The process has one thread: a step is the    *)
(* code between two awaits, and users submit, interrupt and cancel between *)
(* any two of them.                                                        *)
(***************************************************************************)
EXTENDS Naturals, Sequences, FiniteSets, SequencesExt

CONSTANTS
  N,              \* submissions, numbered in the order enqueue sees them
  MaxIterations,  \* iterations of one run before the wrap-up call
  MaxInterrupts,  \* interrupts a user sends
  MaxUndos,       \* turns a user undoes
  MaxTakes,       \* times another process takes the slot of the lane
  FsErrors,       \* whether the ledger directory may be unusable
  None

Messages == 1 .. N

ASSUME BusAssumption ==
  /\ N \in Nat /\ MaxIterations \in Nat \ {0}
  /\ MaxInterrupts \in Nat /\ MaxUndos \in Nat /\ MaxTakes \in Nat
  /\ FsErrors \in BOOLEAN
  /\ None \notin Messages

VARIABLES
  fate,        \* what has become of each submission
  queue,       \* the bus queue: [id, piped] items
  current,     \* the item _processMessage works on
  loop,        \* where the run loop stands
  stopped,     \* the abort signal of the bus
  chain,       \* steering submissions whose INPUT pipeline has not finished
  steering,    \* the steering queue of the agent
  pending,     \* the submissions the queue chip counts
  agent,       \* the run of the agent
  ctx,         \* the user messages in the context, in order
  tail,        \* whether the context ends in unanswered tool calls
  snapshot,    \* the context a compaction in flight started from
  undone,      \* messages the user has undone
  crossed,     \* a turn began, or an undo ran, while a compaction was in flight
  lane,        \* who holds the slot of the provider lane
  wait,        \* the abort signal of the wait for that slot
  interrupts,  \* interrupts so far
  takes        \* times another process took the slot

busVars == <<queue, current, loop, stopped>>
steerVars == <<chain, steering, pending>>
ctxVars == <<ctx, tail, snapshot, undone, crossed>>
laneVars == <<lane, wait, takes>>
vars == <<fate, busVars, steerVars, agent, ctxVars, laneVars, interrupts>>

(* `next` is the gap between two items, in which other callbacks may run.   *)
Loops == {"next", "wait", "input", "acquire", "sleep", "unland", "run", "release", "exited"}

(* The awaits of Agent.run: the system prompt, the TURN_START hooks, the   *)
(* hooks that build the request, the request, the PROVIDER_ERROR hooks, the *)
(* response hooks, the tools, and the TURN_END hooks before the next       *)
(* iteration, before the return and in the finally block of a throw.       *)
Phases == {"none", "start", "prep", "build", "llm", "error", "text", "calls",
           "tools", "again", "end", "fail"}

Agent == [
  phase : Phases,
  iter : 0 .. MaxIterations,
  wrap : BOOLEAN,        \* the tools-off call after the iteration cap
  retried : BOOLEAN,     \* this iteration has used its one retry
  cancelled : BOOLEAN,
  killed : BOOLEAN]      \* the controller of the request in flight is aborted

Resting == [phase |-> "none", iter |-> 0, wrap |-> FALSE, retried |-> FALSE,
            cancelled |-> FALSE, killed |-> FALSE]

Item == [id : Messages, piped : BOOLEAN]

(* Every variable has its type.                                            *)
TypeOK ==
  /\ fate \in [Messages -> {"unsent", "open", "heard", "handled", "dropped"}]
  /\ queue \in Seq(Item) /\ current \in Messages \cup {None}
  /\ loop \in Loops /\ stopped \in BOOLEAN
  /\ chain \in Seq(Messages) /\ steering \in Seq(Messages) /\ pending \subseteq Messages
  /\ agent \in Agent
  /\ ctx \in Seq(Messages) /\ tail \in {"settled", "calls"}
  /\ snapshot \in Seq(Messages) \cup {None} /\ undone \subseteq Messages
  /\ crossed \in BOOLEAN
  /\ lane \in {"free", "mine", "other"} /\ wait \in {"none", "live", "aborted"}
  /\ interrupts \in 0 .. MaxInterrupts /\ takes \in 0 .. MaxTakes

Init ==
  /\ fate = [m \in Messages |-> "unsent"]
  /\ queue = <<>> /\ current = None /\ loop = "next" /\ stopped = FALSE
  /\ chain = <<>> /\ steering = <<>> /\ pending = {}
  /\ agent = Resting
  /\ ctx = <<>> /\ tail = "settled" /\ snapshot = None /\ undone = {} /\ crossed = FALSE
  /\ lane = "free" /\ wait = "none" /\ takes = 0
  /\ interrupts = 0

(* #isRunning of the bus, and of the agent: the finally block of a run     *)
(* clears the latter before it awaits the last TURN_END hooks.             *)
Working == loop \in {"input", "acquire", "sleep", "unland", "run", "release"}
Running == agent.phase \notin {"none", "fail"}

Piped(m) == [id |-> m, piped |-> TRUE]
Plain(m) == [id |-> m, piped |-> FALSE]
Settle(ms, how) == fate' = [m \in Messages |-> IF m \in ms THEN how ELSE fate[m]]

(* _wakeWaiter *)
Woken == IF loop = "wait" THEN "next" ELSE loop

-----------------------------------------------------------------------------
(* Submissions                                                             *)

(* enqueue; a steering submission of a working bus goes down the chain.    *)
Submit(m, steer) ==
  /\ fate[m] = "unsent" /\ \A k \in 1 .. m - 1 : fate[k] # "unsent"
  /\ Settle({m}, "open")
  /\ IF steer /\ Working
       THEN /\ chain' = Append(chain, m)
            /\ pending' = pending \cup {m}
            /\ UNCHANGED <<queue, loop>>
       ELSE /\ queue' = Append(queue, Plain(m))
            /\ loop' = Woken
            /\ UNCHANGED <<chain, pending>>
  /\ UNCHANGED <<current, stopped, steering, agent, ctxVars, laneVars, interrupts>>

(* Variant: the idle handoff wakes nobody.                                 *)
SteerUnwoken(m) ==
  IF Running
    THEN /\ steering' = Append(steering, m)
         /\ UNCHANGED <<queue, loop, pending>>
    ELSE /\ queue' = Append(queue, Piped(m))
         /\ pending' = pending \ {m}
         /\ UNCHANGED <<steering, loop>>

(* Agent.steer: parked while a run is in flight, else handed to the bus.   *)
Steer(m) ==
  IF Running
    THEN /\ steering' = Append(steering, m)
         /\ UNCHANGED <<queue, loop, pending>>
    ELSE /\ queue' = Append(queue, Piped(m))
         /\ loop' = Woken
         /\ pending' = pending \ {m}
         /\ UNCHANGED steering

(* #deliverSteering: the INPUT pipeline of the first link of the chain ends. *)
Deliver(handled) ==
  /\ chain # <<>>
  /\ chain' = Tail(chain)
  /\ IF handled
       THEN /\ Settle({Head(chain)}, "handled")
            /\ pending' = pending \ {Head(chain)}
            /\ UNCHANGED <<queue, loop, steering>>
       ELSE /\ Steer(Head(chain))
            /\ UNCHANGED fate
  /\ UNCHANGED <<current, stopped, agent, ctxVars, laneVars, interrupts>>

-----------------------------------------------------------------------------
(* The run loop                                                            *)

(* _messages and the head of _processMessage, up to its first await.       *)
NextItem ==
  /\ loop = "next"
  /\ IF stopped
       THEN loop' = "exited" /\ UNCHANGED <<queue, current, agent, wait, crossed>>
     ELSE IF queue = <<>>
       THEN loop' = "wait" /\ UNCHANGED <<queue, current, agent, wait, crossed>>
     ELSE /\ current' = Head(queue).id
          /\ queue' = Tail(queue)
          /\ agent' = [agent EXCEPT !.cancelled = FALSE]
          /\ crossed' = (crossed \/ snapshot # None)
          /\ loop' = IF Head(queue).piped THEN "acquire" ELSE "input"
          /\ wait' = IF Head(queue).piped THEN "live" ELSE wait
  /\ UNCHANGED <<fate, stopped, steerVars, ctx, tail, snapshot, undone, lane, takes, interrupts>>

(* The turn of the current item is over without a run of the agent.        *)
Drop(how) ==
  /\ Settle({current}, how)
  /\ current' = None /\ loop' = "next" /\ wait' = "none"

(* The INPUT pipeline of an item ends; #acquireLane starts waiting.        *)
InputDone(handled) ==
  /\ loop = "input"
  /\ IF handled THEN Drop("handled")
     ELSE IF stopped THEN Drop("dropped")
     ELSE loop' = "acquire" /\ wait' = "live" /\ UNCHANGED <<fate, current>>
  /\ UNCHANGED <<queue, stopped, steerVars, agent, ctxVars, lane, takes, interrupts>>

(* Agent.run, up to its first await.                                       *)
RunStarts ==
  /\ loop' = "run" /\ wait' = "none"
  /\ agent' = [agent EXCEPT !.phase = "start"]
  /\ UNCHANGED <<fate, current>>

(* acquireTurn gets a lease: an aborted wait hands it straight back.       *)
SlotLands ==
  /\ lane' = "mine"
  /\ IF wait = "aborted"
       THEN loop' = "unland" /\ wait' = "none" /\ UNCHANGED <<fate, current, agent>>
       ELSE RunStarts

(* The ledger answers: a slot, a full lane, or an error that fails open.   *)
AcquireAnswer ==
  /\ loop = "acquire"
  /\ \/ lane = "free" /\ SlotLands
     \/ /\ lane = "other"
        /\ loop' = "sleep"
        /\ UNCHANGED <<fate, current, agent, lane, wait>>
     \/ FsErrors /\ RunStarts /\ UNCHANGED lane
  /\ UNCHANGED <<queue, stopped, steerVars, ctxVars, takes, interrupts>>

(* The retry pause of acquireTurn ends, at its delay or at the abort.      *)
SleepEnds ==
  /\ loop = "sleep"
  /\ IF wait = "aborted" THEN Drop("dropped")
     ELSE loop' = "acquire" /\ UNCHANGED <<fate, current, wait>>
  /\ UNCHANGED <<queue, stopped, steerVars, agent, ctxVars, lane, takes, interrupts>>

(* The slot of an aborted wait is released.                                *)
Unlanded ==
  /\ loop = "unland"
  /\ lane' = "free"
  /\ Drop("dropped")
  /\ UNCHANGED <<queue, stopped, steerVars, agent, ctxVars, takes, interrupts>>

(* takeUndeliveredSteering and the enqueue of what it returns.             *)
HandOff ==
  /\ queue' = queue \o [i \in DOMAIN steering |-> Piped(steering[i])]
  /\ pending' = pending \ Range(steering)
  /\ steering' = <<>>

(* The release of the lane settles, and the turn ends.                     *)
Released ==
  /\ loop = "release"
  /\ lane' = IF lane = "mine" THEN "free" ELSE lane
  /\ HandOff
  /\ current' = None /\ loop' = "next"
  /\ UNCHANGED <<fate, stopped, chain, agent, ctxVars, wait, takes, interrupts>>

-----------------------------------------------------------------------------
(* The run of the agent                                                    *)

Goes(p) == agent' = [agent EXCEPT !.phase = p]

(* run returns or throws: the bus awaits the release of the lane.          *)
RunEnds ==
  /\ agent' = [Resting EXCEPT !.cancelled = agent.cancelled]
  /\ loop' = "release"

(* addMessage of the input, after ensureSystemPrompt.                      *)
HearInput ==
  /\ agent.phase = "start"
  /\ ctx' = Append(ctx, current)
  /\ Settle({current}, "heard")
  /\ agent' = [agent EXCEPT !.phase = "prep", !.iter = 1]
  /\ UNCHANGED <<busVars, steerVars, tail, snapshot, undone, crossed, laneVars, interrupts>>

(* Variant: the drain stands before the check for a cancel.                *)
PrepareDraining ==
  /\ steering' = <<>> /\ pending' = pending \ Range(steering)
  /\ IF agent.cancelled
       THEN Goes("fail") /\ UNCHANGED <<fate, ctx, loop>>
       ELSE /\ ctx' = ctx \o steering
            /\ Settle(Range(steering), "heard")
            /\ Goes("build")
            /\ UNCHANGED loop

(* #prepareIteration after TURN_START: a cancel throws (out of the wrap-up *)
(* call without another TURN_END), else all steering joins the context.    *)
Prepare ==
  IF agent.cancelled
    THEN /\ IF agent.wrap THEN RunEnds ELSE Goes("fail") /\ UNCHANGED loop
         /\ UNCHANGED <<fate, ctx, steering, pending>>
    ELSE /\ ctx' = ctx \o steering
         /\ Settle(Range(steering), "heard")
         /\ steering' = <<>> /\ pending' = pending \ Range(steering)
         /\ Goes("build")
         /\ UNCHANGED loop

Prepared ==
  /\ agent.phase = "prep"
  /\ Prepare
  /\ UNCHANGED <<queue, current, stopped, chain, tail, snapshot, undone, crossed, laneVars, interrupts>>

(* #performLlmCall: a fresh controller, and no look at `cancelled`.        *)
Requests == agent' = [agent EXCEPT !.phase = "llm", !.killed = FALSE]

AgentOnly == UNCHANGED <<fate, busVars, steerVars, ctxVars, laneVars, interrupts>>

Built == agent.phase = "build" /\ Requests /\ AgentOnly

(* The stream completes.  Every event after a cancel throws, so only a     *)
(* request the cancel met in flight can still complete.                    *)
Answered(with) ==
  /\ agent.phase = "llm"
  /\ agent.cancelled => agent.killed
  /\ Goes(IF agent.wrap THEN "end" ELSE with)
  /\ AgentOnly

(* The request throws.  The second failure of an iteration propagates, the *)
(* wrap-up call rethrows a cancellation and swallows every other failure.  *)
RequestFails ==
  /\ agent.phase = "llm"
  /\ \/ /\ ~agent.wrap
        /\ Goes(IF agent.retried THEN "fail" ELSE "error")
        /\ UNCHANGED loop
     \/ agent.wrap /\ Goes("end") /\ UNCHANGED loop
     \/ agent.wrap /\ agent.cancelled /\ RunEnds
  /\ UNCHANGED <<fate, queue, current, stopped, steerVars, ctxVars, laneVars, interrupts>>

(* The PROVIDER_ERROR hooks end: one retry, and none after a cancel.       *)
ErrorHooksEnd(retry) ==
  /\ agent.phase = "error"
  /\ IF retry /\ ~agent.cancelled
       THEN agent' = [agent EXCEPT !.phase = "llm", !.killed = FALSE, !.retried = TRUE]
       ELSE Goes("fail")
  /\ AgentOnly

(* The response hooks of a text answer end; an empty one is asked again.   *)
TextHooksEnd(empty) ==
  /\ agent.phase = "text"
  /\ Goes(IF empty /\ ~agent.cancelled THEN "again" ELSE "end")
  /\ AgentOnly

(* The assistant message with its tool calls enters the context.           *)
CallHooksEnd ==
  /\ agent.phase = "calls"
  /\ tail' = "calls"
  /\ Goes("tools")
  /\ UNCHANGED <<fate, busVars, steerVars, ctx, snapshot, undone, crossed, laneVars, interrupts>>

(* The last tool result is in the context; a tool may end the loop.        *)
ToolsEnd(return) ==
  /\ agent.phase = "tools"
  /\ tail' = "settled"
  /\ Goes(IF return THEN "end" ELSE "again")
  /\ UNCHANGED <<fate, busVars, steerVars, ctx, snapshot, undone, crossed, laneVars, interrupts>>

(* The TURN_END hooks of an iteration end: the next one, the wrap-up call, *)
(* or, for a cancelled run at the cap, the last TURN_END.                  *)
Again ==
  /\ agent.phase = "again"
  /\ agent' = IF agent.iter < MaxIterations
       THEN [agent EXCEPT !.phase = "prep", !.iter = @ + 1, !.retried = FALSE]
     ELSE IF agent.cancelled THEN [agent EXCEPT !.phase = "end"]
     ELSE [agent EXCEPT !.phase = "prep", !.wrap = TRUE, !.retried = FALSE]
  /\ AgentOnly

(* The last TURN_END hooks end, inside the run or in its finally block.    *)
LastTurnEnd ==
  /\ agent.phase \in {"end", "fail"}
  /\ RunEnds
  /\ UNCHANGED <<fate, queue, current, stopped, steerVars, ctxVars, laneVars, interrupts>>

-----------------------------------------------------------------------------
(* Interrupt, cancel and the commands                                      *)

(* Agent.cancel, and the abort of the wait for a slot.                     *)
StopWork ==
  /\ agent' = [agent EXCEPT !.cancelled = TRUE, !.killed = @ \/ agent.phase = "llm"]
  /\ wait' = IF wait = "live" THEN "aborted" ELSE wait

(* interrupt: the queue is cleared, the loop stays.                        *)
Interrupt ==
  /\ interrupts < MaxInterrupts
  /\ interrupts' = interrupts + 1
  /\ StopWork
  /\ Settle({q.id : q \in Range(queue)}, "dropped")
  /\ queue' = <<>>
  /\ loop' = Woken
  /\ UNCHANGED <<current, stopped, steerVars, ctxVars, lane, takes>>

(* cancel: the loop ends after the turn in flight.                         *)
Cancel ==
  /\ ~stopped
  /\ stopped' = TRUE
  /\ StopWork
  /\ loop' = Woken
  /\ UNCHANGED <<fate, queue, current, steerVars, ctxVars, lane, takes, interrupts>>

(* executeCommand of /undo: refused while the bus works.                   *)
Undo ==
  /\ ~Working
  /\ ctx # <<>> /\ Cardinality(undone) < MaxUndos
  /\ ctx' = Front(ctx) /\ undone' = undone \cup {Last(ctx)}
  /\ tail' = "settled"
  /\ crossed' = (crossed \/ snapshot # None)
  /\ UNCHANGED <<fate, busVars, steerVars, agent, snapshot, laneVars, interrupts>>

(* Variant: /compact is not declared to rewrite the session.               *)
CompactStartAnytime ==
  /\ snapshot = None /\ ctx # <<>>
  /\ snapshot' = ctx
  /\ UNCHANGED <<fate, busVars, steerVars, agent, ctx, tail, undone, crossed, laneVars, interrupts>>

(* executeCommand of /compact: the guard, getMessages and the summary call. *)
CompactStart ==
  /\ ~Working
  /\ snapshot = None /\ ctx # <<>>
  /\ snapshot' = ctx
  /\ UNCHANGED <<fate, busVars, steerVars, agent, ctx, tail, undone, crossed, laneVars, interrupts>>

(* The summary call ends: the context becomes a summary and a rest of what *)
(* it was at the start, or stays when the call failed.                     *)
CompactEnd(done) ==
  /\ snapshot # None
  /\ snapshot' = None
  /\ ctx' = IF done THEN snapshot ELSE ctx
  /\ tail' = IF done THEN "settled" ELSE tail
  /\ UNCHANGED <<fate, busVars, steerVars, agent, undone, crossed, laneVars, interrupts>>

(* Another process takes the slot of the lane, and gives it back.          *)
OtherTakes ==
  /\ lane = "free" /\ takes < MaxTakes
  /\ lane' = "other" /\ takes' = takes + 1
  /\ UNCHANGED <<fate, busVars, steerVars, agent, ctxVars, wait, interrupts>>

OtherGives ==
  /\ lane = "other"
  /\ lane' = "free"
  /\ UNCHANGED <<fate, busVars, steerVars, agent, ctxVars, wait, takes, interrupts>>

-----------------------------------------------------------------------------

LoopStep ==
  \/ NextItem
  \/ \E handled \in BOOLEAN : InputDone(handled)
  \/ AcquireAnswer
  \/ SleepEnds
  \/ Unlanded
  \/ Released

AgentStep ==
  \/ HearInput
  \/ Prepared
  \/ Built
  \/ \E with \in {"text", "calls"} : Answered(with)
  \/ RequestFails
  \/ \E retry \in BOOLEAN : ErrorHooksEnd(retry)
  \/ \E empty \in BOOLEAN : TextHooksEnd(empty)
  \/ CallHooksEnd
  \/ \E return \in BOOLEAN : ToolsEnd(return)
  \/ Again
  \/ LastTurnEnd

Deliveries == \E handled \in BOOLEAN : Deliver(handled)

UserStep ==
  \/ \E m \in Messages, steer \in BOOLEAN : Submit(m, steer)
  \/ Interrupt
  \/ Cancel
  \/ Undo
  \/ CompactStart
  \/ \E done \in BOOLEAN : CompactEnd(done)

Next == LoopStep \/ AgentStep \/ Deliveries \/ UserStep \/ OtherTakes \/ OtherGives

Spec == Init /\ [][Next]_vars

(* Every await of the loop and of the run settles: requests, tools and     *)
(* hooks have their own timeouts.  A foreign turn ends.  Users and other   *)
(* processes owe nothing, and so does the summary call of a compaction.    *)
FairSpec ==
  /\ Spec
  /\ WF_vars(LoopStep) /\ WF_vars(AgentStep) /\ WF_vars(Deliveries)
  /\ WF_vars(OtherGives)

-----------------------------------------------------------------------------

Sightings(m) ==
  Cardinality({i \in DOMAIN queue : queue[i].id = m})
  + Cardinality({i \in DOMAIN chain : chain[i] = m})
  + Cardinality({i \in DOMAIN steering : steering[i] = m})
  + (IF current = m THEN 1 ELSE 0)

(* A submission nobody has answered for is in exactly one place, whatever  *)
(* handoffs, interrupts and aborted waits it went through, and one that is *)
(* settled is waiting nowhere: nothing is lost and nothing runs twice      *)
(* (enqueue, steer, takeUndeliveredSteering).  The item whose run has      *)
(* appended it stays current until the run ends.                           *)
NothingLost ==
  \A m \in Messages :
    \/ fate[m] = "open" /\ Sightings(m) = 1
    \/ fate[m] # "open" /\ Sightings(m) = (IF current = m THEN 1 ELSE 0)

(* The loop never sleeps on work: while it awaits its waiter nothing is    *)
(* queued, nothing is parked with the agent and no cancel is unseen        *)
(* (_messages, the handoff after a run).                                   *)
NothingParked ==
  loop = "wait" => queue = <<>> /\ steering = <<>> /\ ~stopped

(* The queue chip counts exactly the submissions the model has not seen    *)
(* and the queue does not hold (#pendingSteers, #settleSteer).             *)
ChipTellsTruth == pending = Range(chain) \cup Range(steering)

(* The slot of the lane is held only by a turn that runs or is about to    *)
(* give it back: no abort of the wait leaks it (acquireTurn).              *)
SlotHeldByTurn == lane = "mine" => loop \in {"unland", "run", "release"}

(* Every submission is accounted for: in one place until it is settled,    *)
(* never where nobody looks, counted by the chip while it is steered; and   *)
(* the slot its turn took goes back.                                       *)
SubmissionsAccounted ==
  TypeOK /\ NothingLost /\ NothingParked /\ ChipTellsTruth /\ SlotHeldByTurn

(* The context holds every message the model was given and the user did    *)
(* not undo, each once: no command rewrites the history under a turn       *)
(* (executeCommand refuses mutatesSession commands while the bus works).   *)
ContextKept ==
  /\ Range(ctx) = {m \in Messages : fate[m] = "heard"} \ undone
  /\ Len(ctx) = Cardinality(Range(ctx))

(* As long as no turn and no undo begins under a compaction, the guard of  *)
(* executeCommand is enough for that.                                      *)
QuietContextKept == crossed \/ ContextKept

(* The context ends in unanswered tool calls exactly while the tools run,  *)
(* so neither steering nor a command lands between a call and its result   *)
(* (steer, #prepareIteration), short of such a compaction.                 *)
ToolsPaired == crossed \/ (tail = "calls" <=> agent.phase = "tools")

(* No turn, steer, undo or compaction breaks the history of another: it    *)
(* holds what the model was given, and each call with its result.          *)
HistoryIntact == QuietContextKept /\ ToolsPaired

(* Every submission is eventually heard, handled or dropped by the user,   *)
(* unless the bus is cancelled: none waits for somebody to send another    *)
(* message (the idle handoff of steer, the handoff after a run).           *)
SubmissionsSettle == \A m \in Messages : fate[m] = "open" ~> (fate[m] # "open" \/ stopped)

(* A cancelled loop ends, wherever the cancel found it.                    *)
LoopExits == stopped ~> loop = "exited"

(* The bus never sleeps on work or on its own end.                         *)
Settles == SubmissionsSettle /\ LoopExits

=============================================================================
