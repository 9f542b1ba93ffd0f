----------------------------- MODULE Compaction -----------------------------
(***************************************************************************)
(* The cuts a session's context takes when it outgrows the window of the    *)
(* model (extensions/compaction): the strategies, which are cuts at the      *)
(* front or, for pass-the-baton, at the tail; where they are tried (before   *)
(* a request, after the provider refused one, on /compact); and the baton,   *)
(* the popped tail that waits for the handoff and is given back to the       *)
(* session that takes over (handoff-tool).                                  *)
(***************************************************************************)
EXTENDS Naturals, Sequences, FiniteSets, FiniteSetsExt, Functions

CONSTANTS
  KeepRecent,    \* settings.keepRecentMessages
  Budget,        \* contextLimit - reserveTokens
  ToolWeight,    \* estimated size of a tool result; any other message is 1
  MaxMessages,   \* bound: messages of the context and the stash
  MaxQueued      \* bound: messages that wait in the bus

(* Of the constants.                                                         *)
CompactionAssumption ==
  /\ KeepRecent \in Nat \ {0} /\ Budget \in Nat \ {0} /\ ToolWeight \in Nat \ {0}
  /\ MaxMessages \in Nat /\ MaxQueued \in Nat

(* Messages by what the cuts tell apart: `call1` and `call2` are assistant   *)
(* messages with one and two tool calls.                                    *)
Messages == {"user", "plan", "call1", "call2", "tool", "text", "summary", "notice", "guard"}
Strategies == {"summarize", "drop", "token-aware", "trim", "pass-the-baton"}

VARIABLES
  context,   \* of the agent; the system prompt is kept apart
  strategy,  \* settings.strategy
  popped,    \* batonStash: the tail, <<>> when there is no entry
  armed,     \* its replayPending
  queue,     \* of the bus: prompts and plans
  stage,     \* where the run waits
  rescued    \* the request at hand is the retry after an overflow

vars == <<context, strategy, popped, armed, queue, stage, rescued>>
baton == <<popped, armed>>

TypeOK ==
  /\ context \in Seq(Messages) /\ popped \in Seq(Messages)
  /\ strategy \in Strategies /\ armed \in BOOLEAN /\ (armed => popped # <<>>)
  /\ queue \in Seq({"user", "plan"}) /\ Len(queue) <= MaxQueued
  /\ stage \in {"idle", "context", "request"} /\ rescued \in BOOLEAN

Init ==
  /\ context = <<>> /\ popped = <<>> /\ armed = FALSE
  /\ strategy \in Strategies
  /\ queue = <<>> /\ stage = "idle" /\ rescued = FALSE

-----------------------------------------------------------------------------
(* estimateContextTokens.                                                   *)
Weight(m) == IF m = "tool" THEN ToolWeight ELSE 1
Tokens(ctx) == SumFunction([i \in DOMAIN ctx |-> Weight(ctx[i])])
Fits(ctx) == Tokens(ctx) <= Budget

First(ctx, n) == SubSeq(ctx, 1, n)
Without(ctx, n) == SubSeq(ctx, n + 1, Len(ctx))  \* slice(n)

(* A cut at the front is backed up until the kept window does not start with *)
(* a tool result, one at the tail until the kept prefix ends on a clean      *)
(* exchange.                                                                *)
BackedUp(ctx, n) == Max({m \in 0 .. n : m = 0 \/ ctx[m + 1] # "tool"})

CleanPrefix(ctx, n) == Max({m \in 0 .. n : m = 0 \/ ctx[m] \notin {"tool", "call1", "call2"}})

(* findFirstKeptIndex: the count reaches 2 * KeepRecent one message before   *)
(* the one it returns.                                                      *)
FirstKept(ctx) ==
  IF Len(ctx) < 2 * KeepRecent THEN 0
  ELSE BackedUp(ctx, Len(ctx) - 2 * KeepRecent + 1)

(* The binary search of trim for the smallest cut that fits.                *)
Search(ctx, last) ==
  LET half[lo \in 1 .. last + 1, hi \in 0 .. last, best \in 0 .. last] ==
        IF lo > hi THEN best
        ELSE LET mid == (lo + hi) \div 2
             IN IF Fits(Without(ctx, mid)) THEN half[lo, mid - 1, mid] ELSE half[mid + 1, hi, best]
  IN half[1, last, 0]   \* 0: none fits

TrimCut(ctx) == BackedUp(ctx, Search(ctx, FirstKept(ctx)))

TokenAwareCut(ctx) ==
  LET fitting == {n \in 0 .. Len(ctx) - 1 : Fits(Without(ctx, n))}
  IN IF fitting = {} THEN 0 ELSE BackedUp(ctx, Min(fitting))

(* The number of messages pass-the-baton keeps.                             *)
BatonKeeps(ctx) == CleanPrefix(ctx, Max({n \in 0 .. Len(ctx) : Fits(First(ctx, n))}))

HasNotice(ctx) == \E i \in DOMAIN ctx : ctx[i] = "notice"

CanCompact(s, ctx) ==
  LET long == Len(ctx) > 2 * KeepRecent
  IN CASE s \in {"summarize", "drop"} -> long
       [] s = "trim" -> long /\ ~Fits(ctx)
       [] s = "token-aware" -> ~Fits(ctx)
       [] s = "pass-the-baton" -> ~HasNotice(ctx) /\ ~Fits(ctx)

(* Whether execute offers a cut.  Trim offers one as soon as some cut fits,  *)
(* though it may be backed up to nothing.                                   *)
Offers(s, ctx) ==
  CASE s \in {"summarize", "drop"} -> FirstKept(ctx) > 0
    [] s = "trim" -> ~Fits(ctx) /\ FirstKept(ctx) > 0 /\ Search(ctx, FirstKept(ctx)) > 0
    [] s = "token-aware" -> TokenAwareCut(ctx) > 0
    [] s = "pass-the-baton" -> ~HasNotice(ctx) /\ BatonKeeps(ctx) \in 1 .. Len(ctx) - 1

(* What replaces the context; some chat templates want the last word to be   *)
(* the user's.                                                              *)
UserTurnGuard(ctx) ==
  IF ctx = <<>> \/ ctx[Len(ctx)] \notin {"call1", "call2", "tool", "text"} THEN ctx
  ELSE Append(ctx, "guard")

Compacted(s, ctx) ==
  CASE s = "drop" -> Without(ctx, FirstKept(ctx))
    [] s = "trim" -> Without(ctx, TrimCut(ctx))
    [] s = "summarize" -> <<"summary">> \o Without(ctx, FirstKept(ctx))
    [] s = "token-aware" -> <<"summary">> \o Without(ctx, TokenAwareCut(ctx))
    [] s = "pass-the-baton" -> Append(First(ctx, BatonKeeps(ctx)), "notice")

(* _performCompaction.  A context that would start with a tool result is     *)
(* refused; nothing is stashed but by the pop.                              *)
Orphaned(s, ctx) == LET cut == Compacted(s, ctx) IN cut # <<>> /\ cut[1] = "tool"
Performs(s, ctx) == Offers(s, ctx) /\ ~Orphaned(s, ctx)

Perform(s) ==
  /\ context' = UserTurnGuard(Compacted(s, context))
  /\ IF s = "pass-the-baton"
     THEN popped' = Without(context, BatonKeeps(context)) /\ armed' = FALSE
     ELSE UNCHANGED baton

DropBaton == popped' = <<>> /\ armed' = FALSE

-----------------------------------------------------------------------------
(* The user and the bus.                                                    *)
Submit ==
  /\ Len(queue) < MaxQueued
  /\ queue' = Append(queue, "user")
  /\ UNCHANGED <<context, strategy, baton, stage, rescued>>

StartTurn ==
  /\ stage = "idle" /\ queue # <<>> /\ Len(context) + Len(popped) < MaxMessages
  /\ context' = Append(context, Head(queue)) /\ queue' = Tail(queue)
  /\ stage' = "context"
  /\ UNCHANGED <<strategy, baton, rescued>>

(* interrupt() of a turn that waits for its lane: the queue is dropped, and  *)
(* no TURN_END tells the extension.                                         *)
InterruptWaiting ==
  /\ stage = "idle" /\ queue # <<>>
  /\ queue' = <<>>
  /\ UNCHANGED <<context, strategy, baton, stage, rescued>>

(* The commands that change the session wait for the run to be over.        *)
Clear ==
  /\ stage = "idle" /\ context # <<>>
  /\ context' = <<>>
  /\ UNCHANGED <<strategy, baton, queue, stage, rescued>>

SetStrategy ==
  /\ stage = "idle"
  /\ strategy' \in Strategies \ {strategy}
  /\ UNCHANGED <<context, baton, queue, stage, rescued>>

CompactNow ==
  /\ stage = "idle" /\ Len(context) > 2
  /\ CanCompact(strategy, context) /\ Performs(strategy, context)
  /\ Perform(strategy)
  /\ UNCHANGED <<strategy, queue, stage, rescued>>

CompactKeep(n) ==
  /\ stage = "idle" /\ Len(context) > 2 /\ n \in 1 .. Len(context)
  /\ context' = UserTurnGuard(Without(context, BackedUp(context, Len(context) - n)))
  /\ UNCHANGED <<strategy, baton, queue, stage, rescued>>

-----------------------------------------------------------------------------
(* The CONTEXT hook: the replay comes first, or the budget is looked at, by  *)
(* the estimate and by what the provider counted last (`told`).              *)
Replay ==
  /\ stage = "context" /\ armed
  /\ context' = context \o popped
  /\ DropBaton
  /\ stage' = "request"
  /\ UNCHANGED <<strategy, queue, rescued>>

Due(told) == Len(context) > 2 * KeepRecent /\ (~Fits(context) \/ told) /\ CanCompact(strategy, context)

CompactFirst(told) ==
  /\ stage = "context" /\ ~armed
  /\ Due(told) /\ Performs(strategy, context)
  /\ Perform(strategy)
  /\ stage' = "request"
  /\ UNCHANGED <<strategy, queue, rescued>>

(* Nothing is due, no strategy offers a cut, or the summary call failed.     *)
LeaveContext ==
  /\ stage = "context" /\ ~armed
  /\ \E told \in BOOLEAN : Due(told) /\ Performs(strategy, context) => strategy \in {"summarize", "token-aware"}
  /\ stage' = "request"
  /\ UNCHANGED <<context, strategy, baton, queue, rescued>>

(* PROVIDER_ERROR: an overflow is answered by the first of the cuts that     *)
(* need no model, once for a request.                                       *)
Chain == <<"pass-the-baton", "trim", "drop">>

Helps(s) == Performs(s, context) /\ (s = "trim" \/ CanCompact(s, context))

Rescue ==
  /\ stage = "request" /\ ~rescued
  /\ \E i \in 1 .. Len(Chain) :
       /\ Helps(Chain[i])
       /\ \A j \in 1 .. i - 1 : ~Helps(Chain[j])
       /\ Perform(Chain[i])
  /\ rescued' = TRUE
  /\ UNCHANGED <<strategy, queue, stage>>

-----------------------------------------------------------------------------
(* The ends of an iteration, with the TURN_END handlers of handoff-tool and  *)
(* of the baton.                                                            *)
Ends == stage' = "idle" /\ rescued' = FALSE

(* Cancelled, failed, out of iterations, or empty: the baton is dropped.     *)
TurnFails ==
  /\ stage # "idle"
  /\ DropBaton /\ Ends
  /\ queue' \in {queue, <<>>}
  /\ UNCHANGED <<context, strategy>>

CallsTools(call, results) ==
  /\ stage = "request" /\ Len(context) + Len(popped) + 1 + Len(results) <= MaxMessages
  /\ context' = context \o <<call>> \o results
  /\ stage' = "context" /\ rescued' = FALSE
  /\ UNCHANGED <<strategy, baton, queue>>

(* The model ends its turn with a text.  Under a notice it is the narrated   *)
(* handoff: the context is cleared, the text restarts the session as a plan, *)
(* and the tail is to follow it.  Without the notice the baton is dropped.   *)
Narrated == popped # <<>> /\ ~armed /\ HasNotice(context)

Completes ==
  /\ stage = "request" /\ Len(context) + Len(popped) < MaxMessages /\ Len(queue) < MaxQueued
  /\ IF Narrated
     THEN /\ context' = <<>> /\ queue' = Append(queue, "plan")
          /\ armed' = TRUE /\ UNCHANGED popped
     ELSE /\ context' = Append(context, "text") /\ UNCHANGED queue
          /\ IF armed THEN UNCHANGED baton ELSE DropBaton
  /\ Ends
  /\ UNCHANGED strategy

(* Variant: armed on the call alone.                                        *)
ArmAnyway == IF popped # <<>> THEN armed' = TRUE ELSE UNCHANGED armed

(* The model calls the handoff tool.  Both handlers start at once: the one   *)
(* of the baton looks for its notice before the other, which awaits the      *)
(* files of the plan first, has cleared the context.                        *)
ArmIfGone == IF popped # <<>> /\ ~HasNotice(context) THEN armed' = TRUE ELSE UNCHANGED armed

HandsOff ==
  /\ stage = "request" /\ Len(queue) < MaxQueued
  /\ ArmIfGone
  /\ context' = <<>> /\ queue' = Append(queue, "plan")
  /\ Ends
  /\ UNCHANGED <<strategy, popped>>

(* The call is refused by the tool, and the run goes on.                     *)
HandoffRefused ==
  /\ stage = "request" /\ Len(context) + Len(popped) + 2 <= MaxMessages
  /\ ArmIfGone
  /\ context' = context \o <<"call1", "tool">>
  /\ stage' = "context" /\ rescued' = FALSE
  /\ UNCHANGED <<strategy, popped, queue>>

Next ==
  \/ Submit \/ StartTurn \/ InterruptWaiting
  \/ Clear \/ SetStrategy \/ CompactNow \/ (\E n \in 1 .. MaxMessages : CompactKeep(n))
  \/ Replay \/ (\E told \in BOOLEAN : CompactFirst(told)) \/ LeaveContext \/ Rescue
  \/ TurnFails \/ CallsTools("call1", <<"tool">>) \/ CallsTools("call2", <<"tool", "tool">>)
  \/ Completes \/ HandsOff \/ HandoffRefused

Spec == Init /\ [][Next]_vars

-----------------------------------------------------------------------------
(* Whatever was cut, popped and given back, every assistant message with     *)
(* tool calls is followed by all its results, and by no other: strict        *)
(* backends refuse anything else.                                           *)
Results(m) == CASE m = "call1" -> 1 [] m = "call2" -> 2 [] OTHER -> 0

ResultsAt(ctx, i) == Max({n \in 0 .. Len(ctx) - i : \A j \in i + 1 .. i + n : ctx[j] = "tool"})

Paired(ctx) ==
  \A i \in DOMAIN ctx :
    IF ctx[i] = "tool" THEN i > 1 /\ ctx[i - 1] \in {"tool", "call1", "call2"}
    ELSE ResultsAt(ctx, i) = Results(ctx[i])

(* A context under a notice is not cut at the tail again, and takes no tail   *)
(* back: the pop would be undone.                                           *)
OneNotice ==
  /\ Cardinality({i \in DOMAIN context : context[i] = "notice"}) <= 1
  /\ ~HasNotice(popped)
  /\ armed => ~HasNotice(context)

(* The search of trim finds the smallest cut that fits, and no cut that needs *)
(* no model reaches into the recent messages.                               *)
CutsAreFair ==
  LET most == FirstKept(context)
      fitting == {n \in 1 .. most : Fits(Without(context, n))}
  IN /\ Search(context, most) = IF fitting = {} THEN 0 ELSE Min(fitting)
     /\ \A s \in {"drop", "trim"} :
          Offers(s, context) => Len(Compacted(s, context)) >= 2 * KeepRecent - 1

(* The cuts of the compaction and the baton (extensions/compaction).        *)
ContextSurvivesCuts == TypeOK /\ Paired(context) /\ Paired(popped) /\ OneNotice /\ CutsAreFair
=============================================================================
