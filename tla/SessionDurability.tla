--------------------------- MODULE SessionDurability ---------------------------
(***************************************************************************)
(* One session of hotdog and its log: the writer that queues, appends and  *)
(* fsyncs (src/extensions/session-log), the turns and tool calls whose      *)
(* records it writes (src/core/agent.ts, tool-executor.ts), the commands   *)
(* that rewrite the context, the death of the process, and the adoption of *)
(* a cold log (src/extensions/websocket/resume.ts, attach.ts).             *)
(*                                                                         *)
(* A step is the code between two awaits.  The disk acts between any two:  *)
(* an append or an fsync succeeds or fails, the process is killed (the file *)
(* keeps what was appended) or the machine loses power (the file keeps any  *)
(* prefix that holds what was fsynced).                                    *)
(***************************************************************************)
EXTENDS SessionLog

CONSTANTS
  MaxPrompts,   \* prompts of the user
  MaxCalls,     \* tool calls of the model
  MaxReplies,   \* replies of the model
  MaxCuts,      \* /undo, /rewind and /clear commands
  MaxFaults,    \* appends and fsyncs that fail
  MaxCrashes,   \* deaths of the process
  MaxEvents,    \* prompts, cuts, faults and crashes together
  AutoCap       \* MAX_CONSECUTIVE_AUTO_RESUMES

Calls == 1 .. MaxCalls

ASSUME DurabilityAssumption ==
  /\ MaxPrompts \in Nat /\ MaxCalls \in Nat /\ MaxReplies \in Nat /\ MaxCuts \in Nat
  /\ MaxFaults \in Nat /\ MaxCrashes \in Nat /\ MaxEvents \in Nat /\ AutoCap \in Nat

VARIABLES
  disk,      \* the whole lines of the log file, session_start lines left out
  synced,    \* how many of them an fsync covers
  torn,      \* the file ends in a line without its newline
  queue,     \* writes dispatched and not settled: [entry, fsync, for]
  syncing,   \* the head of the queue is appended and waits for its fsync
  phase,     \* where the agent stands
  todo,      \* calls of the last reply that have no result yet
  waits,     \* TURN_END handlers that have not settled
  clearing,  \* a TURN_END handler is going to clear the context
  resuming,  \* a continuation turn is queued
  ctx,       \* the messages of the context
  openTurn,  \* the writer believes a turn is open (openTurns)
  failed,    \* calls whose started record did not land (barrierFailures)
  held,      \* resumed questions waiting for an answer
  used,      \* how much of each bound is spent
  ran,       \* calls whose tool ran
  merged,    \* calls whose started record was written behind a torn line
  strays,    \* calls a cut left stranded
  undone,    \* prompts a completed cut removed
  autos,     \* automatic resumes since the session last made progress
  ended,     \* the turn_end record of the latest turn landed
  reopened   \* a turn_started record was written again after it

fileVars == <<disk, synced, torn>>
writerVars == <<queue, syncing>>
turnVars == <<phase, todo, waits, clearing, resuming>>
memoryVars == <<ctx, openTurn, failed, held>>
history == <<ran, merged, strays, undone, autos, ended, reopened>>
vars == <<fileVars, writerVars, turnVars, memoryVars, used, history>>

(* `call` is the gap before a call of the reply, `gate` a finished barrier. *)
Running == {"start", "llm", "call", "barrier", "gate", "exec", "asked", "ending"}
Phases == Running \cup {"down", "adopting", "idle", "cutting"}

Init ==
  /\ disk = <<>> /\ synced = 0 /\ torn = FALSE
  /\ queue = <<>> /\ syncing = FALSE
  /\ phase = "idle" /\ todo = {} /\ waits = {} /\ clearing = FALSE /\ resuming = FALSE
  /\ ctx = <<>> /\ openTurn = FALSE /\ failed = {} /\ held = <<>>
  /\ used = [prompts |-> 0, calls |-> 0, replies |-> 0, cuts |-> 0, faults |-> 0, crashes |-> 0]
  /\ ran = {} /\ merged = {} /\ strays = {} /\ undone = {}
  /\ autos = 0 /\ ended = FALSE /\ reopened = FALSE

Spend(what, bound) ==
  /\ used[what] < bound
  /\ used.prompts + used.cuts + used.faults + used.crashes < MaxEvents
  /\ used' = [used EXCEPT ![what] = @ + 1]

(* Writes.  `for` names who waits for an fsync-class write.                 *)
Plain(entry) == [entry |-> entry, fsync |-> FALSE, for |-> "nobody"]
Durable(entry, for) == [entry |-> entry, fsync |-> TRUE, for |-> for]

Dispatch(writes) == queue' = queue \o writes /\ UNCHANGED syncing

(* addMessage: the context grows and the CONTEXT_MESSAGE handler queues the *)
(* message without anyone waiting for it.                                   *)
Logged(messages) == [i \in DOMAIN messages |-> Plain(messages[i])]

----------------------------------------------------------------------------
(* The writer.  One write at a time, in the order of dispatch.              *)

(* What the handler that waits for the head of the queue does when it      *)
(* settles.  Nobody else runs in between.                                   *)
TurnStartSettles(ok) ==
  /\ openTurn' = (ok \/ openTurn)
  /\ phase' = "llm"
  /\ UNCHANGED <<todo, waits, clearing, resuming, ctx, failed, held, undone, autos, ended>>

(* Variant: a failed record is not remembered.                             *)
BarrierSwallows(ok, id) ==
  /\ failed' = failed
  /\ phase' = "gate"
  /\ UNCHANGED <<todo, waits, clearing, resuming, ctx, openTurn, held, undone, autos, ended>>

BarrierSettles(ok, id) ==
  /\ failed' = IF ok THEN failed \ {id} ELSE failed \cup {id}
  /\ phase' = "gate"
  /\ UNCHANGED <<todo, waits, clearing, resuming, ctx, openTurn, held, undone, autos, ended>>

(* notifyHooks settles when every TURN_END handler has.                     *)
HandlerSettles(handler) ==
  /\ waits' = waits \ {handler}
  /\ phase' = IF waits' = {} THEN "idle" ELSE phase

TurnEndSettles(ok) ==
  /\ openTurn' = (openTurn /\ ~ok)
  /\ ended' = ok
  /\ HandlerSettles("turnEnd")
  /\ UNCHANGED <<todo, clearing, resuming, ctx, failed, held, undone, autos>>

Removed == 1 .. used.prompts \ IdsOf(ctx, "input")

ClearSettles(ok) ==
  /\ HandlerSettles("clear")
  /\ undone' = IF ok THEN undone \cup Removed ELSE undone
  /\ UNCHANGED <<todo, clearing, resuming, ctx, openTurn, failed, held, autos, ended>>

CutSettles(ok) ==
  /\ phase' = "idle"
  /\ undone' = IF ok THEN undone \cup Removed ELSE undone
  /\ UNCHANGED <<todo, waits, clearing, resuming, ctx, openTurn, failed, held, autos, ended>>

(* Variant: the replay reads the whole log, not the epoch.                 *)
RestoreLifetime(log, origin) ==
  /\ ctx' = ReplayEntries(log)
  /\ held' = PendingQuestions(Epoch(log))
  /\ resuming' = (OpenTurn(Epoch(log)) /\ held' = <<>>)
  /\ autos' = IF origin = "auto" THEN autos + 1 ELSE autos
  /\ phase' = "idle"
  /\ UNCHANGED <<todo, waits, clearing, openTurn, failed, undone, ended>>

(* The replay reads the log as it stands, whether the resume_attempt record *)
(* landed or not.  A turn left open continues unless a question is held.    *)
Restore(log, origin) ==
  /\ ctx' = ReplayEntries(Epoch(log))
  /\ held' = PendingQuestions(Epoch(log))
  /\ resuming' = (OpenTurn(Epoch(log)) /\ held' = <<>>)
  /\ autos' = IF origin = "auto" THEN autos + 1 ELSE autos
  /\ phase' = "idle"
  /\ UNCHANGED <<todo, waits, clearing, openTurn, failed, undone, ended>>

NobodySettles ==
  UNCHANGED <<turnVars, memoryVars, undone, autos, ended>>

Settle(write, ok) ==
  CASE write.for = "turnStart" -> TurnStartSettles(ok)
    [] write.for = "barrier"   -> BarrierSettles(ok, write.entry.id)
    [] write.for = "turnEnd"   -> TurnEndSettles(ok)
    [] write.for = "clear"     -> ClearSettles(ok)
    [] write.for = "cut"       -> CutSettles(ok)
    [] write.for = "resume"    -> Restore(disk', write.entry.note)
    [] OTHER                   -> NobodySettles

(* An append behind a line without its newline completes that line, and the *)
(* record is lost with it: no parser reads the two as one.                  *)
AppendLine(entry) ==
  /\ disk' = IF torn \/ entry.src = "session" THEN disk ELSE Append(disk, entry)
  /\ torn' = FALSE
  /\ merged' = IF torn /\ entry.src = "started" THEN merged \cup {entry.id} ELSE merged

WriterAppends ==
  /\ queue # <<>> /\ ~syncing
  /\ AppendLine(Head(queue).entry)
  /\ syncing' = Head(queue).fsync
  /\ queue' = IF Head(queue).fsync THEN queue ELSE Tail(queue)
  /\ UNCHANGED <<synced, turnVars, memoryVars, used, ran, strays, undone, autos, ended, reopened>>

WriterSyncs ==
  /\ syncing
  /\ synced' = Len(disk)
  /\ syncing' = FALSE /\ queue' = Tail(queue)
  /\ UNCHANGED <<disk, torn>>
  /\ Settle(Head(queue), TRUE)
  /\ UNCHANGED <<used, ran, merged, strays, reopened>>

(* A full disk may leave part of the line behind.  One failed write does    *)
(* not stop the ones behind it.                                             *)
AppendFails ==
  /\ queue # <<>> /\ ~syncing
  /\ Spend("faults", MaxFaults)
  /\ torn' \in {torn, TRUE}
  /\ queue' = Tail(queue)
  /\ UNCHANGED <<disk, synced, syncing>>
  /\ Settle(Head(queue), FALSE)
  /\ UNCHANGED <<ran, merged, strays, reopened>>

SyncFails ==
  /\ syncing
  /\ Spend("faults", MaxFaults)
  /\ syncing' = FALSE /\ queue' = Tail(queue)
  /\ UNCHANGED fileVars
  /\ Settle(Head(queue), FALSE)
  /\ UNCHANGED <<ran, merged, strays, reopened>>

----------------------------------------------------------------------------
(* Turns.  A turn begins when its turn_started record is dispatched; the   *)
(* first request waits for it.                                              *)

BeginTurn(messages) ==
  /\ ctx' = ctx \o messages
  /\ Dispatch(Logged(messages) \o <<Durable(Entry("turnStarted", 0), "turnStart")>>)
  /\ phase' = "start"
  /\ ended' = FALSE /\ reopened' = FALSE
  /\ UNCHANGED <<todo, waits, clearing>>

(* Each of the resumed questions gets a result.                            *)
Dismissed == [i \in DOMAIN held |-> ResultEntry(held[i], "tool")]

(* Variant: a prompt does not dismiss the resumed questions.               *)
SendPromptOverHeld ==
  /\ phase = "idle" /\ ~resuming
  /\ Spend("prompts", MaxPrompts)
  /\ BeginTurn(<<Entry("input", used'.prompts)>>)
  /\ held' = <<>>
  /\ autos' = 0
  /\ UNCHANGED <<fileVars, resuming, openTurn, failed, ran, merged, strays, undone>>

(* handleSend: a prompt dismisses the resumed questions, each with a result. *)
SendPrompt ==
  /\ phase = "idle" /\ ~resuming
  /\ Spend("prompts", MaxPrompts)
  /\ BeginTurn(Append(Dismissed, Entry("input", used'.prompts)))
  /\ held' = <<>>
  /\ autos' = 0
  /\ UNCHANGED <<fileVars, resuming, openTurn, failed, ran, merged, strays, undone>>

(* An upload that is rejected dismisses them all the same.                  *)
SendRejected ==
  /\ phase = "idle" /\ held # <<>>
  /\ ctx' = ctx \o Dismissed
  /\ Dispatch(Logged(Dismissed))
  /\ held' = <<>>
  /\ autos' = 0
  /\ UNCHANGED <<fileVars, turnVars, openTurn, failed, used,
                 ran, merged, strays, undone, ended, reopened>>

ContinueTurn ==
  /\ phase = "idle" /\ resuming
  /\ resuming' = FALSE
  /\ BeginTurn(<<>>)
  /\ UNCHANGED <<fileVars, openTurn, failed, held, used, ran, merged, strays, undone, autos>>

(* TURN_END: the session log queues turn_end, and another handler (loop,   *)
(* handoff, the compaction baton) may clear the context.                    *)
EndTurn(writes) ==
  /\ Dispatch(writes \o <<Durable(Entry("turnEnd", 0), "turnEnd")>>)
  /\ phase' = "ending"
  /\ \/ clearing' = FALSE /\ waits' = {"turnEnd"}
     \/ clearing' = TRUE /\ waits' = {"turnEnd", "clear"}

(* The reply and, if it makes calls, the gap before the first of them.      *)
LlmReplies ==
  /\ phase = "llm"
  /\ used.replies < MaxReplies
  /\ \E n \in 0 .. MaxCalls - used.calls :
       LET calls == used.calls + 1 .. used.calls + n
           reply == <<AssistantEntry(calls)>>
       IN  /\ ctx' = ctx \o reply
           /\ used' = [used EXCEPT !.calls = @ + n, !.replies = @ + 1]
           /\ todo' = calls
           /\ \/ /\ n = 0 /\ EndTurn(Logged(reply))
              \/ /\ n > 0 /\ phase' = "call" /\ Dispatch(Logged(reply))
                 /\ UNCHANGED <<waits, clearing>>
  /\ autos' = 0
  /\ UNCHANGED <<fileVars, resuming, openTurn, failed, held,
                 ran, merged, strays, undone, ended, reopened>>

LlmFails ==
  /\ phase = "llm"
  /\ EndTurn(<<>>)
  /\ UNCHANGED <<fileVars, todo, resuming, memoryVars, used,
                 ran, merged, strays, undone, autos, ended, reopened>>

(* Calls run one after the other, in the order of the reply.                *)
Current == First(todo)

DispatchCall ==
  /\ phase = "call"
  /\ Dispatch(<<Durable(Entry("started", Current), "barrier")>>)
  /\ phase' = "barrier"
  /\ UNCHANGED <<fileVars, todo, waits, clearing, resuming, memoryVars, used, history>>

(* The result of the current call; the rest of the reply is next, or, when *)
(* the tool stops the loop, is answered unrun.                              *)
Answered(stop) ==
  LET answers == IF stop THEN InOrder(todo) ELSE <<Current>>
      results == [i \in DOMAIN answers |-> ResultEntry(answers[i], "tool")]
  IN  /\ ctx' = ctx \o results
      /\ todo' = IF stop THEN {} ELSE todo \ {Current}
      /\ \/ stop /\ EndTurn(Logged(results))
         \/ /\ ~stop /\ Dispatch(Logged(results))
            /\ phase' = IF todo' = {} THEN "llm" ELSE "call"
            /\ UNCHANGED <<waits, clearing>>
      /\ autos' = 0

(* A call of an unavailable tool is answered before any record; one that a *)
(* gate blocks, or whose arguments are invalid, after it.  The session log *)
(* blocks a call whose record did not land.                                 *)
AnswerUnrun ==
  /\ phase \in {"call", "gate"}
  /\ Answered(FALSE)
  /\ failed' = IF phase = "gate" THEN failed \ {Current} ELSE failed
  /\ UNCHANGED <<fileVars, resuming, openTurn, held, used,
                 ran, merged, strays, undone, ended, reopened>>

Execute ==
  /\ phase = "gate" /\ Current \notin failed
  /\ phase' = "exec"
  /\ ran' = ran \cup {Current}
  /\ UNCHANGED <<fileVars, writerVars, todo, waits, clearing, resuming, memoryVars, used,
                 merged, strays, undone, autos, ended, reopened>>

(* The question record is dispatched when the question is shown, and not    *)
(* waited for.                                                              *)
AskQuestion ==
  /\ phase = "exec"
  /\ Dispatch(<<Durable(Entry("asked", Current), "nobody")>>)
  /\ phase' = "asked"
  /\ UNCHANGED <<fileVars, todo, waits, clearing, resuming, memoryVars, used, history>>

ToolReturns ==
  /\ phase \in {"exec", "asked"}
  /\ \E stop \in BOOLEAN : (stop => phase = "exec") /\ Answered(stop)
  /\ UNCHANGED <<fileVars, resuming, openTurn, failed, held, used,
                 ran, merged, strays, undone, ended, reopened>>

----------------------------------------------------------------------------
(* Cuts.  The checkpoint is one block of the queue: the reset, the kept    *)
(* messages and, when the writer believes a turn is open, its marker; the  *)
(* last of them is fsynced.                                                 *)

Checkpoint(kept, for) ==
  LET entries == <<Entry("reset", 0)>> \o kept
                 \o (IF openTurn THEN <<Entry("turnStarted", 0)>> ELSE <<>>)
  IN  [i \in DOMAIN entries |->
         IF i = Len(entries) THEN Durable(entries[i], for) ELSE Plain(entries[i])]

Cut ==
  /\ phase = "idle" /\ ~resuming
  /\ Spend("cuts", MaxCuts)
  /\ \E kept \in {<<>>} \cup RewindCuts(ctx)
                 \cup (IF Prompts(ctx) = {} THEN {} ELSE {UndoCut(ctx)}) :
       /\ ctx' = kept
       /\ Dispatch(Checkpoint(kept, "cut"))
       /\ strays' = strays \cup Range(held) \cup Stranded(kept)
  /\ phase' = "cutting"
  /\ autos' = 0
  /\ UNCHANGED <<fileVars, todo, waits, clearing, resuming, openTurn, failed, held,
                 ran, merged, undone, ended, reopened>>

ClearAtTurnEnd ==
  /\ phase = "ending" /\ clearing
  /\ ctx' = <<>>
  /\ Dispatch(Checkpoint(<<>>, "clear"))
  /\ clearing' = FALSE
  /\ reopened' = openTurn
  /\ UNCHANGED <<fileVars, phase, todo, waits, resuming, openTurn, failed, held, used,
                 ran, merged, strays, undone, autos, ended>>

----------------------------------------------------------------------------
(* Death and adoption.                                                      *)

(* What a death leaves of the file.  A kill cuts at most the line being     *)
(* appended; power loss keeps a prefix that holds what was fsynced.         *)
FileSurvives ==
  LET appending == queue # <<>> /\ ~syncing
  IN  \/ /\ UNCHANGED <<disk, synced>>
         /\ torn' \in IF appending THEN {torn, TRUE} ELSE {torn}
      \/ \E n \in synced .. Len(disk) :
           /\ disk' = SubSeq(disk, 1, n) /\ synced' = n
           /\ torn' \in IF n < Len(disk) \/ appending THEN BOOLEAN ELSE {FALSE, torn}

Crash ==
  /\ phase # "down"
  /\ Spend("crashes", MaxCrashes)
  /\ FileSurvives
  /\ phase' = "down"
  /\ queue' = <<>> /\ syncing' = FALSE
  /\ todo' = {} /\ waits' = {} /\ clearing' = FALSE /\ resuming' = FALSE
  /\ ctx' = <<>> /\ openTurn' = FALSE /\ failed' = {} /\ held' = <<>>
  /\ UNCHANGED history

(* Variant: the cap is counted over the epoch, not the whole log.          *)
AdoptPerEpoch ==
  /\ phase = "down"
  /\ Epoch(disk) # <<>>
  /\ \E origin \in {"auto", "manual"} :
       /\ origin = "auto" => ConsecutiveAutoResumes(Epoch(disk)) < AutoCap
       /\ Dispatch(<<Plain(Entry("session", 0)), Durable(ResumeEntry(origin), "resume")>>)
  /\ phase' = "adopting"
  /\ UNCHANGED <<fileVars, todo, waits, clearing, resuming, memoryVars, used, history>>

(* A reconnecting client adopts the log; an automatic resume is refused at *)
(* the cap.  session_start is written, then the resume_attempt record.      *)
Adopt ==
  /\ phase = "down"
  /\ Epoch(disk) # <<>>
  /\ \E origin \in {"auto", "manual"} :
       /\ origin = "auto" => ConsecutiveAutoResumes(disk) < AutoCap
       /\ Dispatch(<<Plain(Entry("session", 0)), Durable(ResumeEntry(origin), "resume")>>)
  /\ phase' = "adopting"
  /\ UNCHANGED <<fileVars, todo, waits, clearing, resuming, memoryVars, used, history>>

(* A held question is answered: its result, then the next question; the    *)
(* last answer queues a continuation.                                       *)
AnswerHeld ==
  /\ phase = "idle" /\ held # <<>>
  /\ LET result == <<ResultEntry(Head(held), "tool")>>
     IN  ctx' = ctx \o result /\ Dispatch(Logged(result))
  /\ held' = Tail(held)
  /\ resuming' = (held' = <<>>)
  /\ autos' = 0
  /\ UNCHANGED <<fileVars, phase, todo, waits, clearing, openTurn, failed, used,
                 ran, merged, strays, undone, ended, reopened>>

Next ==
  \/ WriterAppends \/ WriterSyncs \/ AppendFails \/ SyncFails
  \/ SendPrompt \/ SendRejected \/ ContinueTurn \/ LlmReplies \/ LlmFails
  \/ DispatchCall \/ AnswerUnrun \/ Execute \/ AskQuestion \/ ToolReturns
  \/ Cut \/ ClearAtTurnEnd
  \/ Crash \/ Adopt \/ AnswerHeld

Spec == Init /\ [][Next]_vars

----------------------------------------------------------------------------
(* Properties.                                                              *)

Notes == {"none", "tool", "auto", "manual"} \cup Synthesized
Entries == [src : Conversation \cup Bookkeeping, id : Nat, calls : SUBSET Calls, note : Notes]
Messages == {e \in Entries : IsMessage(e)}
Waiters == {"nobody", "turnStart", "barrier", "turnEnd", "clear", "cut", "resume"}
Writes == [entry : Entries, fsync : BOOLEAN, for : Waiters]

(* Every variable has its type; an fsync covers lines that exist, and only  *)
(* the head of a queue that holds it can be waiting for its fsync.          *)
TypeOK ==
  /\ \A i \in DOMAIN disk : disk[i] \in Entries
  /\ synced \in 0 .. Len(disk) /\ torn \in BOOLEAN
  /\ \A i \in DOMAIN queue : queue[i] \in Writes
  /\ syncing \in BOOLEAN /\ (syncing => queue # <<>> /\ Head(queue).fsync)
  /\ phase \in Phases /\ todo \subseteq Calls
  /\ waits \subseteq {"turnEnd", "clear"} /\ clearing \in BOOLEAN /\ resuming \in BOOLEAN
  /\ \A i \in DOMAIN ctx : ctx[i] \in Messages
  /\ openTurn \in BOOLEAN /\ failed \subseteq Calls /\ Range(held) \subseteq Calls
  /\ used \in [{"prompts", "calls", "replies", "cuts", "faults", "crashes"} -> Nat]
  /\ ran \subseteq Calls /\ merged \subseteq Calls /\ strays \subseteq Calls
  /\ undone \subseteq 1 .. MaxPrompts
  /\ autos \in Nat /\ ended \in BOOLEAN /\ reopened \in BOOLEAN

(* A tool never runs before the power of the machine may be cut: its        *)
(* started record is on the disk and an fsync covers it (the barrier of     *)
(* session-log/index.ts:482-557), whichever writes fail.  The exception is  *)
(* a record that was appended behind a torn line.                           *)
RanIsRecorded ==
  \A id \in ran \ merged :
    \E i \in 1 .. synced : disk[i].src = "started" /\ disk[i].id = id

StartedAboveReset(id) ==
  \E i \in 1 .. EpochStart(disk) : disk[i].src = "started" /\ disk[i].id = id

SaidNeverRan == {ctx[i].id : i \in {j \in DOMAIN ctx : ctx[j].note = "notStarted"}}

(* No resume tells the model that a call which ran never ran and is safe to *)
(* retry (replayEntriesIntoContext, session-log.ts:760-777), over kills,    *)
(* power losses and failed writes; except for a record behind a torn line,  *)
(* and for a call whose record a reset hides.                               *)
NotStartedNeverRan ==
  \A id \in SaidNeverRan \cap ran : id \in merged \/ StartedAboveReset(id)

(* A call that ran is on record before it runs, and no resume offers it for *)
(* a second run.                                                            *)
EffectsRecorded == RanIsRecorded /\ NotStartedNeverRan

(* A request never goes out with a call that has no result, or a result     *)
(* that answers no call: over resumes, held and dismissed questions, blocked *)
(* calls and cuts, as long as no write fails.  The exception is a call that *)
(* a cut separated from its result or its question.                         *)
RequestsAnswerable ==
  phase = "llm" /\ used.faults = 0 => Stranded(ctx) \subseteq strays

(* What a user undid stays undone: no prompt that a completed cut removed   *)
(* comes back with a later resume (the checkpoint of index.ts:403-480),     *)
(* whatever dies when, as long as no write fails.                           *)
CutsArePersisted == used.faults = 0 => IdsOf(ctx, "input") \cap undone = {}

(* The session is not resumed automatically more than AutoCap times without *)
(* progress (session-log.ts:433), wherever the process died, a reset in the *)
(* log or not, as long as no write fails.                                   *)
AutoResumesCapped == used.faults = 0 => autos <= AutoCap

Real(messages) == SelectSeq(messages, LAMBDA m : ~FromHarness(m))
Pending == [i \in DOMAIN queue |-> queue[i].entry]
Coming == IF syncing \/ (torn /\ queue # <<>>) THEN Tail(Pending) ELSE Pending

(* The log tells what the model knows: once the queue drains, a resume       *)
(* would find the messages of the live context, in their order; only the    *)
(* results that a repair makes up may differ.                               *)
LogIsTranscript ==
  phase \in {"idle", "cutting"} \cup Running /\ used.faults = 0 /\ strays = {} =>
    Real(ctx) = Real(ReplayEntries(Epoch(disk \o Coming)))

(* A running turn whose record landed is found open by the next resume,     *)
(* however much of the file power loss takes (index.ts:559-599), as long as *)
(* no write fails.                                                          *)
RunningTurnIsOpen ==
  openTurn /\ used.faults = 0 /\ phase \in Running \ {"start", "ending"} =>
    \A n \in synced .. Len(disk) : OpenTurn(Epoch(SubSeq(disk, 1, n)))

(* A turn whose turn_end landed is not continued by a later resume, unless  *)
(* a handler that cleared the context wrote the open-turn marker after it,  *)
(* as long as no write fails.                                               *)
EndedTurnStaysClosed ==
  ended /\ ~reopened /\ used.faults = 0 => ~OpenTurn(Epoch(disk))

(* The log and the context tell the same story: what the model knows would  *)
(* be replayed, what the user cut would not, and a resume continues the       *)
(* turns that were running, and no other.                                    *)
LogIsFaithful ==
  TypeOK /\ CutsArePersisted /\ LogIsTranscript /\ RunningTurnIsOpen /\ EndedTurnStaysClosed
=============================================================================
