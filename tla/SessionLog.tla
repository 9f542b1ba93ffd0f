------------------------------ MODULE SessionLog ------------------------------
(***************************************************************************)
(* What a session log means: the facts a resume derives from its entries   *)
(* (src/core/session/session-log.ts), the repair that makes the replayed   *)
(* messages answerable (src/core/context/repair.ts) and the cuts a user     *)
(* can make in a context (src/core/context/rewind.ts).  Pure operators over *)
(* sequences; SessionDurability runs them.                                  *)
(*                                                                         *)
(* An entry is [src, id, calls, note]: the channel it was logged under, the *)
(* call (or the prompt, or the turn) it is about, the calls of an           *)
(* assistant message, and what distinguishes two entries of one channel.    *)
(* A message of a context is an entry of a conversation channel.            *)
(***************************************************************************)
EXTENDS Naturals, Sequences, FiniteSets, SequencesExt

Entry(src, id) == [src |-> src, id |-> id, calls |-> {}, note |-> "none"]
AssistantEntry(calls) == [src |-> "llm", id |-> 0, calls |-> calls, note |-> "none"]
ResultEntry(id, note) == [src |-> "result", id |-> id, calls |-> {}, note |-> note]
ResumeEntry(origin) == [src |-> "resume", id |-> 0, calls |-> {}, note |-> origin]

Conversation == {"input", "llm", "result"}
Bookkeeping == {"session", "started", "asked", "turnStarted", "turnEnd", "reset", "resume"}

(* The texts of a synthesized result, all of harness origin.                *)
Synthesized == {"unknown", "notStarted", "interrupted"}
FromHarness(e) == e.note \in Synthesized

(* The calls of a reply are numbered in a row.                              *)
First(calls) == CHOOSE id \in calls : \A other \in calls : id <= other
InOrder(calls) == [n \in 1 .. Cardinality(calls) |-> First(calls) + n - 1]

IdsOf(entries, src) == {entries[i].id : i \in {j \in DOMAIN entries : entries[j].src = src}}

(* The replay reads the entries below the last reset.                       *)
EpochStart(entries) ==
  LET resets == {i \in DOMAIN entries : entries[i].src = "reset"}
  IN  IF resets = {} THEN 0 ELSE CHOOSE i \in resets : \A j \in resets : j <= i

Epoch(entries) == SubSeq(entries, EpochStart(entries) + 1, Len(entries))

(* The last turn is open when no turn_end follows its turn_started.         *)
OpenTurn(entries) ==
  \E i \in DOMAIN entries :
    /\ entries[i].src = "turnStarted"
    /\ \A j \in i + 1 .. Len(entries) : entries[j].src # "turnEnd"

IsProgress(e) == e.src \in Conversation /\ ~FromHarness(e)

ConsecutiveAutoResumes(entries) ==
  Cardinality({i \in DOMAIN entries :
                 /\ entries[i].src = "resume" /\ entries[i].note = "auto"
                 /\ \A j \in i + 1 .. Len(entries) : ~IsProgress(entries[j])})

(* Questions that were asked and have no result, in the order asked.        *)
PendingQuestions(entries) ==
  LET answered == IdsOf(entries, "result")
      Asked(i) == /\ entries[i].src = "asked" /\ entries[i].id \notin answered
                  /\ \A j \in 1 .. i - 1 : entries[j] # entries[i]
  IN  FlattenSeq([i \in DOMAIN entries |-> IF Asked(i) THEN <<entries[i].id>> ELSE <<>>])

----------------------------------------------------------------------------
(* repairToolCalls.  A block is an assistant message and what follows it up *)
(* to the next one.  A result stays when its block's assistant message made *)
(* the call and it is the first to answer it; a call without a result gets  *)
(* one at the end of the block, unless it is held.                          *)

Assistant(ctx, i) ==
  LET before == {k \in 1 .. i : ctx[k].src = "llm"}
  IN  IF before = {} THEN 0 ELSE CHOOSE k \in before : \A j \in before : j <= k

Matches(ctx, i) ==
  LET a == Assistant(ctx, i)
  IN  /\ a # 0
      /\ ctx[i].id \in ctx[a].calls
      /\ \A j \in a + 1 .. i - 1 : ~(ctx[j].src = "result" /\ ctx[j].id = ctx[i].id)

BlockEnd(ctx, a) ==
  CHOOSE e \in a .. Len(ctx) :
    /\ \A j \in a + 1 .. e : ctx[j].src # "llm"
    /\ e < Len(ctx) => ctx[e + 1].src = "llm"

Unanswered(ctx, a) ==
  {id \in ctx[a].calls :
     ~\E j \in a + 1 .. BlockEnd(ctx, a) : ctx[j].src = "result" /\ ctx[j].id = id}

SynthesisFor(id, started) ==
  CASE id \in started -> "unknown"
    [] started # {} /\ id \notin started -> "notStarted"
    [] OTHER -> "interrupted"

Kept(ctx, i) == IF ctx[i].src = "result" /\ ~Matches(ctx, i) THEN <<>> ELSE <<ctx[i]>>

(* What follows the message at i: at the end of a block its missing results, *)
(* in the order of the calls.                                               *)
Answers(ctx, i, held, started) ==
  LET a == Assistant(ctx, i)
      calls == IF a = 0 \/ BlockEnd(ctx, a) # i THEN {} ELSE ctx[a].calls
      Answer(id) == IF id \in Unanswered(ctx, a) \ held
                      THEN <<ResultEntry(id, SynthesisFor(id, started))>> ELSE <<>>
  IN  FlattenSeq([n \in 1 .. Cardinality(calls) |-> Answer(InOrder(calls)[n])])

RepairToolCalls(ctx, held, started) ==
  FlattenSeq([i \in DOMAIN ctx |-> Kept(ctx, i) \o Answers(ctx, i, held, started)])

IsMessage(e) == e.src \in Conversation
MessagesOf(entries) ==
  FlattenSeq([i \in DOMAIN entries |-> IF IsMessage(entries[i]) THEN <<entries[i]>> ELSE <<>>])

(* replayEntriesIntoContext over one epoch.                                 *)
ReplayEntries(entries) ==
  RepairToolCalls(MessagesOf(entries),
                  Range(PendingQuestions(entries)),
                  IdsOf(entries, "started"))

----------------------------------------------------------------------------
(* The cuts of /undo, /rewind and /clear.  Prompts and assistant messages   *)
(* are visible, results are not.                                            *)

IsVisible(e) == e.src \in {"input", "llm"}

(* The end of the run of results that directly follows the message at `at`. *)
AnsweredEnd(ctx, at) ==
  CHOOSE e \in at .. Len(ctx) :
    /\ \A j \in at + 1 .. e :
         /\ ctx[j].src = "result" /\ ctx[j].id \in ctx[at].calls
         /\ \A k \in at + 1 .. j - 1 : ctx[k].id # ctx[j].id
    /\ e < Len(ctx) =>
         \/ ctx[e + 1].src # "result" \/ ctx[e + 1].id \notin ctx[at].calls
         \/ \E k \in at + 1 .. e : ctx[k].id = ctx[e + 1].id

TrimToLastVisible(ctx) ==
  LET visible == {i \in DOMAIN ctx : IsVisible(ctx[i])}
  IN  IF visible = {} THEN ctx
      ELSE SubSeq(ctx, 1, AnsweredEnd(ctx, CHOOSE i \in visible : \A j \in visible : j <= i))

Prompts(ctx) == {i \in DOMAIN ctx : ctx[i].src = "input"}

(* /undo drops the last prompt and everything after it.                     *)
UndoCut(ctx) ==
  LET last == CHOOSE i \in Prompts(ctx) : \A j \in Prompts(ctx) : j <= i
  IN  TrimToLastVisible(SubSeq(ctx, 1, last - 1))

(* /rewind keeps a visible message and its results; a message with an       *)
(* unanswered call, or the newest one, is no cut point.                     *)
RewindCuts(ctx) ==
  {SubSeq(ctx, 1, AnsweredEnd(ctx, i)) :
     i \in {k \in DOMAIN ctx :
              /\ IsVisible(ctx[k])
              /\ \E j \in k + 1 .. Len(ctx) : IsVisible(ctx[j])
              /\ Cardinality(ctx[k].calls) = AnsweredEnd(ctx, k) - k}}

----------------------------------------------------------------------------
(* What an answerable request means, stated apart from the repair: a call   *)
(* is stranded when its block holds no result for it, a result when it does *)
(* not match.                                                               *)
Stranded(ctx) ==
  UNION {Unanswered(ctx, a) : a \in {i \in DOMAIN ctx : ctx[i].src = "llm"}}
  \cup {ctx[i].id : i \in {j \in DOMAIN ctx : ctx[j].src = "result" /\ ~Matches(ctx, j)}}
=============================================================================
