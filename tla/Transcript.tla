------------------------------ MODULE Transcript ------------------------------
(* What one browser tab shows of one live session, and how it gets there: the *)
(* agent's live events, the session log and its writer, the attach burst       *)
(* that replays the log, and the tab's replay cursor, which lets a reconnect   *)
(* send only the tail the tab does not hold.                                  *)
(* Sources: extensions/websocket/{attach,replay,wire-messages}.ts,            *)
(* extensions/webui/ui/{chat,message-list}.ts, core/agent.ts.                 *)
EXTENDS Integers, Sequences, FiniteSets, SequencesExt

CONSTANTS
  Chunks,        \* deltas a reply streams
  MaxMessages,   \* bound: prompts and replies of the session
  MaxLinks,      \* bound: sockets the tab opens
  MaxTroubles,   \* bound: retries of a stream, undos, visits of a cold log, switches, reloads
  MaxLag,        \* bound: the server goes on once fewer frames than this are under way
  MaxAsks,       \* bound: attaches asked for or under way when another is asked for
  None

ASSUME TranscriptAssumption ==
  Chunks \in Nat \ {0} /\ {MaxMessages, MaxLinks, MaxTroubles, MaxLag, MaxAsks} \subseteq Nat

VARIABLES
  agent,    \* [pc, id, parts]: where the run stands; parts: the StreamProcessor's partial text
  made,     \* number of the latest prompt or reply
  log,      \* the entries dispatched to the log writer, in order
  written,  \* how many of them some reader has found in the file
  link,     \* [up, asks]: the tab's socket; asks: switch requests the server has not begun
  flows,    \* the attaches of this socket that await their read of the log
  wire,     \* frames on the way to the tab
  shown,    \* the rows of the message list
  tab,      \* the tab's own state (see Blank)
  links, troubles   \* what is used up of the bounds

vars == <<agent, made, log, written, link, flows, wire, shown, tab, links, troubles>>
serverSide == <<agent, made, log, written, flows>>

---------------------------------------------------------------------------
(* Log entries, frames and rows.  A reply streams its text in Chunks deltas; *)
(* one with a call is followed by its result.                               *)
User(i)        == [kind |-> "user", id |-> i]
Reply(i, call) == [kind |-> "reply", id |-> i, call |-> call]
Result(i)      == [kind |-> "result", id |-> i]
Cut            == [kind |-> "cut"]
FullText       == [k \in 1..Chunks |-> k]

Text(i, parts) == [kind |-> "text", id |-> i, parts |-> parts]
Call(i, done)  == [kind |-> "call", id |-> i, done |-> done]
ColdRow        == [kind |-> "cold"]

Frame(k, i)     == [kind |-> k, id |-> i]
Delta(i, parts) == [kind |-> "chunk", id |-> i, parts |-> parts]
Working(b)      == [kind |-> "working", on |-> b]

(* CONVERSATION_EVENT_TYPES: what makes a transcript dirty.                  *)
IsConversation(f) == f.kind \in {"user", "text", "call", "result", "chunk", "notice"}

(* epochStartIndex: the entries behind the last reset.                      *)
Epoch(es) ==
  LET cuts == {i \in 1..Len(es) : es[i] = Cut}
      start == IF cuts = {} THEN 0 ELSE CHOOSE i \in cuts : \A k \in cuts : k <= i
  IN SubSeq(es, start + 1, Len(es))

(* replayLogSlice, for one entry: calls before the text.                    *)
ReplayFrames(e) ==
  CASE e.kind = "user"   -> <<Frame("user", e.id)>>
    [] e.kind = "reply"  -> (IF e.call THEN <<Frame("call", e.id)>> ELSE <<>>) \o <<Frame("text", e.id)>>
    [] e.kind = "result" -> <<Frame("result", e.id)>>
    [] OTHER             -> <<>>
Replay(es) == FlattenSeq([i \in 1..Len(es) |-> ReplayFrames(es[i])])

---------------------------------------------------------------------------
(* cursor: attachCursor; pending: replayPending; dirty: dirtySinceAttach;    *)
(* viewing: viewedLogId; open: the streaming row, 0 if none; called:         *)
(* hasToolCallsSinceLastAssistant.  The rest is history.  replaced: the rows   *)
(* are not those the cursor was measured for (a cold log or a switch took     *)
(* them, or the tail came for a cursor the tab no longer had, or behind a     *)
(* live event it holds too); missed: the last burst could not contain all     *)
(* that then existed; base: how much of the log it covered.                  *)
Blank == [cursor |-> None, pending |-> FALSE, dirty |-> FALSE, viewing |-> FALSE, open |-> 0, called |-> FALSE,
          replaced |-> FALSE, missed |-> FALSE, base |-> 0]

Init ==
  /\ agent = [pc |-> "idle", id |-> 0, parts |-> <<>>] /\ made = 0
  /\ log = <<>> /\ written = 0
  /\ link = [up |-> FALSE, asks |-> 0] /\ flows = <<>> /\ wire = <<>>
  /\ shown = <<>> /\ tab = Blank
  /\ links = 0 /\ troubles = 0

Trouble == troubles < MaxTroubles /\ troubles' = troubles + 1

(* Channel.write: what the agent emits reaches the socket if it subscribed; *)
(* an attach that still reads notes that something passed it.               *)
Emit(frames) ==
  IF link.up
    THEN /\ wire' = wire \o frames
         /\ flows' = [i \in 1..Len(flows) |->
              [flows[i] EXCEPT !.passed = @ \/ \E k \in 1..Len(frames) : IsConversation(frames[k])]]
    ELSE UNCHANGED <<wire, flows>>

(* What the tab does with a frame does not change the server, so how far the  *)
(* server is ahead matters only at the death of a socket, which loses alike   *)
(* the frames under way and those sent behind it.                            *)
ServerGoesOn == Len(wire) < MaxLag

AgentStep == ServerGoesOn /\ UNCHANGED <<link, shown, tab, links>>

---------------------------------------------------------------------------
(* The agent.                                                               *)

(* A prompt from any client: addMessage dispatches the log entry and the event   *)
(* goes out in the same step.                                               *)
Prompt ==
  /\ agent.pc = "idle" /\ made + 2 <= MaxMessages
  /\ made' = made + 2
  /\ agent' = [pc |-> "streaming", id |-> made + 2, parts |-> <<>>]
  /\ log' = Append(log, User(made + 1))
  /\ Emit(<<Working(TRUE), Frame("user", made + 1)>>)
  /\ UNCHANGED <<written, troubles>> /\ AgentStep

StreamChunk ==
  /\ agent.pc = "streaming" /\ Len(agent.parts) < Chunks
  /\ agent' = [agent EXCEPT !.parts = Append(@, Len(@) + 1)]
  /\ Emit(<<Delta(agent.id, <<Len(agent.parts) + 1>>)>>)
  /\ UNCHANGED <<made, log, written, troubles>> /\ AgentStep

(* The stream broke and is asked for again: the buffers are cleared first.   *)
StreamReset ==
  /\ agent.pc = "streaming" /\ agent.parts # <<>> /\ Trouble
  /\ agent' = [agent EXCEPT !.parts = <<>>]
  /\ Emit(<<Frame("reset", agent.id)>>)
  /\ UNCHANGED <<made, log, written>> /\ AgentStep

(* The reply is assembled and the partial text cleared; the hooks of        *)
(* PROVIDER_RESPONSE run before the message enters the context.             *)
StreamEnds ==
  /\ agent.pc = "streaming" /\ Len(agent.parts) = Chunks
  /\ agent' = [agent EXCEPT !.pc = "assembled", !.parts = <<>>]
  /\ UNCHANGED <<made, log, written, flows, wire, troubles>> /\ AgentStep

CommitCall ==
  /\ agent.pc = "assembled" /\ made < MaxMessages
  /\ log' = Append(log, Reply(agent.id, TRUE))
  /\ agent' = [agent EXCEPT !.pc = "tool"]
  /\ Emit(<<Frame("call", agent.id)>>)
  /\ UNCHANGED <<made, written, troubles>> /\ AgentStep

ToolReturns ==
  /\ agent.pc = "tool"
  /\ log' = Append(log, Result(agent.id))
  /\ made' = made + 1
  /\ agent' = [pc |-> "streaming", id |-> made + 1, parts |-> <<>>]
  /\ Emit(<<Frame("result", agent.id)>>)
  /\ UNCHANGED <<written, troubles>> /\ AgentStep

CommitText ==
  /\ agent.pc = "assembled"
  /\ log' = Append(log, Reply(agent.id, FALSE))
  /\ agent' = [agent EXCEPT !.pc = "ending"]
  /\ UNCHANGED <<made, written, flows, wire, troubles>> /\ AgentStep

TurnEnds ==
  /\ agent.pc = "ending"
  /\ agent' = [agent EXCEPT !.pc = "idle"]
  /\ Emit(<<Working(FALSE)>>)
  /\ UNCHANGED <<made, log, written, troubles>> /\ AgentStep

(* /undo: the reset and the kept messages are dispatched in one block; the     *)
(* command answers when they are written.                                   *)
Undo ==
  /\ agent.pc = "idle" /\ Trouble
  /\ LET ctx == Epoch(log)
         users == {i \in 1..Len(ctx) : ctx[i].kind = "user"}
     IN /\ users # {}
        /\ LET last == CHOOSE i \in users : \A k \in users : k <= i
           IN log' = log \o <<Cut>> \o SubSeq(ctx, 1, last - 1)
  /\ agent' = [agent EXCEPT !.pc = "undoing"]
  /\ UNCHANGED <<made, written, flows, wire>> /\ AgentStep

UndoAnswers ==
  /\ agent.pc = "undoing"
  /\ agent' = [agent EXCEPT !.pc = "idle"]
  /\ written' = Len(log)
  /\ Emit(<<Frame("notice", 0)>>)
  /\ UNCHANGED <<made, log, troubles>> /\ AgentStep

---------------------------------------------------------------------------
(* Attach: attachLiveSession.                                               *)
Flow(cursor) == [cursor |-> cursor, read |-> None, passed |-> FALSE]

(* connectUrl: the cursor rides the upgrade only if the transcript is clean; *)
(* the server attaches the session the tab names, once AUTH passed.          *)
Offerable == tab.cursor # None /\ ~tab.dirty /\ ~tab.pending

Connect ==
  /\ ~link.up /\ links < MaxLinks
  /\ links' = links + 1
  /\ link' = [up |-> TRUE, asks |-> 0]
  /\ flows' = <<Flow(IF Offerable THEN tab.cursor ELSE 0)>>
  /\ UNCHANGED <<agent, made, log, written, wire, shown, tab, troubles>>

(* handleSwitchSession: always cursor 0.                                    *)
SwitchStarts ==
  /\ ServerGoesOn /\ link.up /\ link.asks > 0
  /\ link' = [link EXCEPT !.asks = @ - 1]
  /\ flows' = Append(flows, Flow(0))
  /\ UNCHANGED <<agent, made, log, written, wire, shown, tab, links, troubles>>

(* readSessionEntries finds what the writer has appended by then: at least    *)
(* what an earlier reader or the end of an undo saw.                         *)
ReadLog(i) ==
  /\ ServerGoesOn /\ flows[i].read = None
  /\ written' \in written..Len(log)
  /\ flows' = [flows EXCEPT ![i].read = written']
  /\ UNCHANGED <<agent, made, log, wire, link, shown, tab, links, troubles>>

(* Variant: a reset behind the cursor does not turn the delta into a full      *)
(* replay.                                                                  *)
IsDeltaOverCut(f) == f.cursor > 0 /\ f.cursor <= f.read

IsDelta(f) ==
  f.cursor > 0 /\ f.cursor <= f.read /\ \A i \in f.cursor + 1..f.read : log[i] # Cut

(* Variant: the cursor is reported whatever text the tab holds behind it.      *)
ReportedAnyway(read, partial) == read

(* Behind a partial text the tab holds rows no log index describes: cursor 0.  *)
Reported(read, partial) == IF partial = <<>> THEN read ELSE 0

(* After the read everything is sent in one step: sessionCreated, the slice,  *)
(* the partial text, the cursor and the working state.                       *)
SendBurst(i) ==
  LET f == flows[i]
      full == SubSeq(log, 1, f.read)
      slice == IF IsDelta(f) THEN SubSeq(full, f.cursor + 1, f.read) ELSE Epoch(full)
      partial == IF agent.parts = <<>> THEN <<>> ELSE <<Delta(agent.id, agent.parts)>>
      missed == f.read < Len(log) \/ agent.pc = "assembled"
  IN /\ ServerGoesOn /\ f.read # None
     /\ wire' = wire \o <<[kind |-> "created", from |-> IF IsDelta(f) THEN f.cursor ELSE 0,
                          read |-> f.read, passed |-> f.passed, missed |-> missed]>>
                     \o Replay(slice) \o partial
                     \o <<[kind |-> "cursor", at |-> Reported(f.read, partial)],
                          Working(agent.pc \notin {"idle", "undoing"})>>
     /\ flows' = RemoveAt(flows, i)
     /\ UNCHANGED <<agent, made, log, written, link, shown, tab, links, troubles>>

---------------------------------------------------------------------------
(* The tab: handleServerMessage and the message list.                       *)
Finalized(t) == [t EXCEPT !.open = 0, !.called = FALSE]

(* A transcript frame: dirty unless the burst is still coming in; dropped     *)
(* (LOG_VIEW_SINK) while a cold log is on screen.                           *)
Touched(f) == IF IsConversation(f) /\ ~tab.pending /\ ~tab.viewing THEN [tab EXCEPT !.dirty = TRUE] ELSE tab

(* handleStreamingChunk: a delta behind tool calls opens a row of its own.    *)
AddChunk(f) ==
  LET t == Touched(f) IN
  IF tab.open # 0 /\ ~tab.called
    THEN shown' = [shown EXCEPT ![tab.open].parts = @ \o f.parts] /\ tab' = t
    ELSE shown' = Append(shown, Text(f.id, f.parts)) /\ tab' = [t EXCEPT !.open = Len(shown) + 1, !.called = FALSE]

(* handleStreamReset: the row of the dead attempt goes, whatever is behind it. *)
DropOpenRow(t) ==
  /\ shown' = IF tab.open = 0 THEN shown ELSE RemoveAt(shown, tab.open)
  /\ tab' = Finalized(t)

AddResult(f) ==
  /\ shown' = [i \in 1..Len(shown) |->
       IF shown[i].kind = "call" /\ shown[i].id = f.id THEN Call(f.id, TRUE) ELSE shown[i]]
  /\ tab' = Touched(f)

Show(f) ==
  CASE f.kind = "user"   -> shown' = Append(shown, User(f.id)) /\ tab' = Finalized(Touched(f))
    [] f.kind = "text"   -> shown' = Append(shown, Text(f.id, FullText)) /\ tab' = Finalized(Touched(f))
    [] f.kind = "call"   -> shown' = Append(shown, Call(f.id, FALSE)) /\ tab' = [Finalized(Touched(f)) EXCEPT !.called = TRUE]
    [] f.kind = "result" -> AddResult(f)
    [] f.kind = "chunk"  -> AddChunk(f)
    [] f.kind = "reset"  -> DropOpenRow(Touched(f))
    [] f.kind = "notice" -> tab' = Touched(f) /\ UNCHANGED shown
    [] f.kind = "working" -> tab' = (IF f.on THEN tab ELSE Finalized(tab)) /\ UNCHANGED shown

Take == /\ link.up /\ wire # <<>>
        /\ wire' = Tail(wire)
        /\ UNCHANGED serverSide /\ UNCHANGED <<link, links, troubles>>

(* sessionCreated, with app.onSessionCreated and setSession: only a full      *)
(* replay clears the list.                                                  *)
GetCreated ==
  LET f == Head(wire)
      delta == f.from > 0 IN
  /\ Take /\ f.kind = "created"
  /\ tab' = [tab EXCEPT !.cursor = None, !.pending = TRUE, !.dirty = FALSE, !.viewing = FALSE,
                        !.open = IF delta THEN @ ELSE 0, !.called = delta /\ @,
                        !.replaced = delta /\ (@ \/ f.passed \/ f.from # tab.cursor), !.missed = f.missed, !.base = f.read]
  /\ shown' = IF delta THEN shown ELSE <<>>

GetCursor ==
  LET f == Head(wire) IN
  /\ Take /\ f.kind = "cursor"
  /\ tab' = [tab EXCEPT !.cursor = f.at, !.pending = FALSE]
  /\ UNCHANGED shown

GetEvent ==
  LET f == Head(wire) IN
  /\ Take /\ f.kind \notin {"created", "cursor"}
  /\ IF tab.viewing THEN UNCHANGED <<tab, shown>> ELSE Show(f)

(* logViewed: the cold log replaces the rows (app.onLogViewed).              *)
ViewLog ==
  /\ link.up /\ Trouble
  /\ tab' = [Finalized(tab) EXCEPT !.viewing = TRUE, !.replaced = TRUE]
  /\ shown' = <<ColdRow>>
  /\ UNCHANGED serverSide /\ UNCHANGED <<link, wire, links>>

(* switchSession clears the list at once and asks for a full replay; so do     *)
(* onCloseLogView and, which ends the view before, the death of that log.     *)
SwitchSession(ends) ==
  /\ link.up /\ link.asks + Len(flows) < MaxAsks
  /\ IF tab.viewing THEN UNCHANGED troubles ELSE Trouble /\ ~ends
  /\ link' = [link EXCEPT !.asks = @ + 1]
  /\ tab' = [Finalized(tab) EXCEPT !.viewing = @ /\ ~ends, !.replaced = TRUE]
  /\ shown' = <<>>
  /\ UNCHANGED serverSide /\ UNCHANGED <<wire, links>>

(* The socket dies, with every frame on it.                                 *)
SocketDies ==
  /\ link.up
  /\ link' = [up |-> FALSE, asks |-> 0] /\ flows' = <<>> /\ wire' = <<>>
  /\ UNCHANGED <<agent, made, log, written, shown, tab, links, troubles>>

(* A page reload: sessionStorage keeps the session, nothing keeps the cursor. *)
Reload ==
  /\ Trouble
  /\ link' = [up |-> FALSE, asks |-> 0] /\ flows' = <<>> /\ wire' = <<>>
  /\ shown' = <<>> /\ tab' = Blank
  /\ UNCHANGED <<agent, made, log, written, links>>

Next ==
  \/ Prompt \/ StreamChunk \/ StreamReset \/ StreamEnds \/ CommitCall \/ CommitText \/ ToolReturns \/ TurnEnds
  \/ Undo \/ UndoAnswers
  \/ Connect \/ SwitchStarts
  \/ \E i \in 1..Len(flows) : ReadLog(i) \/ SendBurst(i)
  \/ GetCreated \/ GetCursor \/ GetEvent
  \/ ViewLog \/ (\E ends \in BOOLEAN : SwitchSession(ends)) \/ SocketDies \/ Reload

Spec == Init /\ [][Next]_vars

---------------------------------------------------------------------------
(* What a log looks like on screen.                                          *)
RowsOf(es, e) ==
  CASE e.kind = "user"  -> <<e>>
    [] e.kind = "reply" -> (IF e.call THEN <<Call(e.id, \E i \in 1..Len(es) : es[i] = Result(e.id))>> ELSE <<>>)
                           \o <<Text(e.id, FullText)>>
    [] OTHER            -> <<>>
Rows(es) == FlattenSeq([i \in 1..Len(es) |-> RowsOf(es, es[i])])

IsCall(row) == row.kind = "call"
IsTalk(row) == row.kind # "call"

(* The rows are those of the log: every text once, complete and in order, and *)
(* every call with its result.  (A live reply shows its text before its call, *)
(* a replayed one behind it, so the two kinds are compared apart.)           *)
Shows(es) == SelectSeq(shown, IsTalk) = SelectSeq(Rows(es), IsTalk)
           /\ SelectSeq(shown, IsCall) = SelectSeq(Rows(es), IsCall)

(* A cursor the tab would send says where its transcript ends: the rows are   *)
(* exactly the log up to there, whatever burst a dead socket cut short and    *)
(* whatever retries, undos and partial texts came before, unless the rows     *)
(* were replaced since.                                                      *)
CursorIsExact ==
  Offerable /\ tab.cursor > 0 /\ ~tab.replaced => Shows(Epoch(SubSeq(log, 1, tab.cursor)))

Settled == link.up /\ wire = <<>> /\ flows = <<>> /\ link.asks = 0 /\ agent.pc = "idle" /\ ~tab.viewing

TypeOK ==
  /\ agent.pc \in {"idle", "streaming", "assembled", "tool", "ending", "undoing"} /\ agent.id \in 0..MaxMessages
  /\ made \in 0..MaxMessages /\ links \in 0..MaxLinks /\ troubles \in 0..MaxTroubles
  /\ written \in 0..Len(log) /\ tab.base \in 0..written
  /\ tab.cursor \in {None} \cup 0..written /\ tab.open \in 0..Len(shown)
  /\ tab.open # 0 => shown[tab.open].kind = "text"
  /\ (flows # <<>> \/ wire # <<>> \/ link.asks > 0) => link.up

(* Once everything is delivered the tab shows the log: no reply cut by a dead *)
(* socket or attempt stays half shown, nothing is shown twice, and what was   *)
(* streamed while the tab attached is complete.                             *)
TranscriptIsLog ==
  LET since == SubSeq(log, tab.base + 1, Len(log))
  IN /\ TypeOK
     /\ Settled /\ ~tab.replaced /\ ~tab.missed /\ (\A i \in 1..Len(since) : since[i] # Cut)
          => Shows(Epoch(SubSeq(log, 1, tab.base)) \o since)
=============================================================================
