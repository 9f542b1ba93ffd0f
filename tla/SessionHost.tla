----------------------------- MODULE SessionHost -----------------------------
(***************************************************************************)
(* The sessions of the websocket server and the browser tabs on them        *)
(* (src/extensions/websocket: session-registry.ts, attach.ts, resume.ts,    *)
(* question-input.ts and the message handlers; the tab is the part of       *)
(* webui/ui/chat.ts and message-list.ts that follows sessionCreated, the    *)
(* deletion of a session and the cards of its questions).  A handler runs   *)
(* to its first await in one step; what it awaits is a flow of its socket.  *)
(***************************************************************************)
EXTENDS Naturals, FiniteSets

CONSTANTS
  Sockets,     \* connections, each of a tab of its own; opened once
  Sessions,    \* session ids
  Cold,        \* those with a log and no agent when the server starts
  Holds,       \* questions a cold log was left with
  Prompted,    \* sessions that are sent prompts
  MaxQueue,    \* messages waiting on the bus of a session
  MaxFlows,    \* attaches and creations under way
  MaxTroubles, \* control messages, losses and failures, together
  None

ASSUME HostAssumption ==
  /\ Cold \subseteq Sessions /\ Prompted \subseteq Sessions /\ Holds \in Nat /\ MaxQueue \in Nat \ {0}
  /\ MaxFlows \in Nat /\ MaxTroubles \in Nat /\ None \notin Sessions \cup Sockets
  /\ IsFiniteSet(Sockets)

VARIABLES
  sock,     \* the connection
  act,      \* ws.activeSessionId and activeChannel; on: the channel is in the set of its session
  flows,    \* handlers that wait: for a log (look, burst), an agent (adopt, join, fresh, new), or to fall back
  view,     \* the session of the tab: that of the last sessionCreated it got
  card,     \* the tab shows an open question card
  live,     \* the metadata and agent of a session; raw: its log is not in the agent
  adopt,    \* the pending adoption of a session
  count,    \* its connectedClients
  strays,   \* its channels that no socket knows any more
  logged,   \* sessions with a log
  turn,     \* the turn of its bus
  queue,
  held,     \* resumedHeldQuestions
  pend,     \* the pending question of the bridge: a resumed one, or one of a tool that waits
  dangling, \* question calls of the log without a result
  cont,     \* continuations queued since the session is live
  early,    \* history: sessions that took a prompt which dismissed no question it should have
  twice,    \* history: sessions a channel was removed from when it was gone already
  slipped,  \* history: sockets whose flows crossed, failed or outlived their session or socket
  yanked,   \* history: sockets that got the sessionCreated of another
  troubles

socketVars == <<sock, act, flows, view, card>>
hostVars == <<live, adopt, count, strays, logged>>
turnVars == <<turn, queue, held, pend, dangling, cont>>
historyVars == <<early, twice, slipped, yanked>>
vars == <<socketVars, hostVars, turnVars, historyVars, troubles>>

Flow(w, kind, s, up) == [w |-> w, kind |-> kind, s |-> s, up |-> up]
On(s) == [s |-> s, on |-> TRUE]
Kinds == {"look", "adopt", "join", "burst", "fresh", "new", "fork", "fall"}

TypeOK ==
  /\ sock \in [Sockets -> {"off", "open", "closed"}]
  /\ act \in [Sockets -> [s : Sessions \cup {None}, on : BOOLEAN]]
  /\ flows \subseteq [w : Sockets, kind : Kinds, s : Sessions \cup {None}, up : BOOLEAN]
  /\ view \in [Sockets -> Sessions \cup {None}] /\ card \in [Sockets -> BOOLEAN]
  /\ live \in [Sessions -> {"no", "raw", "ready"}] /\ adopt \in [Sessions -> {"no", "build", "restore"}]
  /\ count \in [Sessions -> Nat] /\ strays \in [Sessions -> Nat] /\ logged \subseteq Sessions
  /\ turn \in [Sessions -> {"idle", "run", "ask"}] /\ queue \in [Sessions -> 0 .. MaxQueue + 1]
  /\ held \in [Sessions -> 0 .. Holds] /\ dangling \in [Sessions -> 0 .. Holds]
  /\ pend \in [Sessions -> {"none", "held", "live"}] /\ cont \in [Sessions -> 0 .. 2]
  /\ early \subseteq Sessions /\ twice \subseteq Sessions
  /\ slipped \subseteq Sockets /\ yanked \subseteq Sockets /\ troubles \in 0 .. MaxTroubles

Open == {w \in Sockets : sock[w] = "open"}
Live == {s \in Sessions : live[s] # "no"}
Quiet(w) == w \in Open /\ \A f \in flows : f.w # w
Viewers(s) == {w \in Open : view[w] = s}
Room(s) == Cardinality({w \in Sockets : act[w] = On(s)}) + strays[s]
Strike == troubles < MaxTroubles /\ troubles' = troubles + 1
Free == Cardinality(flows) < MaxFlows

-----------------------------------------------------------------------------
(* Channels: createChannel and removeChannel                                *)

Leavers(ws, t) == IF live[t] = "no" THEN 0 ELSE Cardinality({w \in ws : act[w].s = t})

(* Clients are counted down to zero.                                        *)
CountDown(n, out) == IF out > n THEN 0 ELSE n - out

(* The sockets ws leave the sessions they are on, and join s (or none): the *)
(* counter goes down even when the channel is in no set any more.           *)
CountAfter(ws, s) ==
  [t \in Sessions |-> CountDown(count[t], Leavers(ws, t)) + (IF t = s THEN Cardinality(ws) ELSE 0)]

GoneTwice(ws) ==
  {t \in Live : \E w \in ws : act[w].s = t /\ ~act[w].on}

(* attachLiveSession up to its read: the old channel goes, the new one comes. *)
Join(ws, s) ==
  /\ act' = [w \in Sockets |-> IF w \in ws THEN On(s) ELSE act[w]]
  /\ count' = CountAfter(ws, s)
  /\ twice' = twice \cup GoneTwice(ws)
  /\ UNCHANGED strays

(* handleCreateSession and onClose: the channel goes, ws.active* stays.     *)
Leave(w) ==
  /\ act' = [act EXCEPT ![w].on = FALSE]
  /\ count' = CountAfter({w}, None)
  /\ twice' = twice \cup GoneTwice({w})
  /\ UNCHANGED strays

(* A creation that ends puts its channel over the one ws has by now.        *)
Overwrite(w, s) ==
  /\ act' = [act EXCEPT ![w] = On(s)]
  /\ count' = [count EXCEPT ![s] = 1]
  /\ strays' = IF act[w].on THEN [strays EXCEPT ![act[w].s] = @ + 1] ELSE strays
  /\ UNCHANGED twice

(* The socket starts a flow: if another of its own is under way they cross. *)
Begins(w, kind, s, up) ==
  /\ Free
  /\ flows' = flows \cup {Flow(w, kind, s, up)}
  /\ slipped' = IF Quiet(w) \/ sock[w] = "off" THEN slipped ELSE slipped \cup {w}
(* A flow goes on as another.                                              *)
Becomes(f, kind, s) ==
  flows' = (flows \ {f}) \cup {[f EXCEPT !.kind = kind, !.s = s]}

(* The tabs ws get a sessionCreated of s and, with it, its pending question. *)
Shows(ws, s, asked) ==
  /\ view' = [w \in Sockets |-> IF w \in ws \cap Open THEN s ELSE view[w]]
  /\ card' = [w \in Sockets |-> IF w \in ws \cap Open THEN asked ELSE card[w]]

-----------------------------------------------------------------------------
(* Attach: onUpgrade and handleAuthMessage, switchSession, loadLog          *)

NoTurnChange == UNCHANGED <<turnVars, early>>

(* With a live session: its channel first, its log next (the burst).        *)
Attach(w, s, up) ==
  /\ live[s] # "no" /\ Join({w}, s) /\ Begins(w, "burst", s, up)
  /\ UNCHANGED <<view, card, live, adopt, logged, yanked>> /\ NoTurnChange

(* attachResumedSession: a live session is attached, a cold one looked for. *)
Resume(w, s, up) ==
  \/ Attach(w, s, up)
  \/ /\ live[s] = "no" /\ Begins(w, "look", s, up)
     /\ UNCHANGED <<act, view, card, hostVars, yanked, twice>> /\ NoTurnChange

(* A tab connects: with the session it remembers, to the most recent one    *)
(* (any: how recent they are is not modelled), or to a fresh one.           *)
Connect(w) ==
  /\ sock[w] = "off" /\ sock' = [sock EXCEPT ![w] = "open"]
  /\ \/ \E s \in logged : Resume(w, s, TRUE)
     \/ \E s \in Live : Attach(w, s, TRUE)
     \/ /\ Live = {} /\ Begins(w, "fresh", None, TRUE)
        /\ UNCHANGED <<act, view, card, hostVars, yanked, twice>> /\ NoTurnChange
  /\ UNCHANGED troubles

SwitchSession(w) ==
  /\ w \in Open /\ Strike /\ \E s \in Sessions : Attach(w, s, FALSE)
  /\ UNCHANGED sock

LoadLog(w) ==
  /\ w \in Open /\ Strike /\ \E s \in logged : Resume(w, s, FALSE)
  /\ UNCHANGED sock

(* The pending question of a session rides at the end of its burst.         *)
Asked(s) == pend[s] # "none"

Burst(f) ==
  /\ f.kind = "burst" /\ flows' = flows \ {f} /\ Shows({f.w}, f.s, Asked(f.s))
  /\ UNCHANGED <<sock, act, hostVars, turnVars, historyVars, troubles>>

(* Variant: an adoption does not look whether another one has ended.        *)
NoLateJoiner(s) == FALSE

(* The session of a late joiner is live by now: it is attached.             *)
LateJoiner(s) == live[s] # "no"

(* adoptSessionLog, once the log is read: join the adoption under way,      *)
(* attach to what is live by now, or adopt.                                 *)
Looked(f) ==
  /\ f.kind = "look"
  /\ \/ /\ adopt[f.s] # "no" /\ Becomes(f, "join", f.s)
        /\ UNCHANGED <<act, view, card, hostVars, twice>>
     \/ /\ adopt[f.s] = "no" /\ LateJoiner(f.s)
        /\ flows' = flows \ {f} /\ Join({f.w}, f.s) /\ Shows({f.w}, f.s, Asked(f.s))
        /\ UNCHANGED <<live, adopt, logged>>
     \/ /\ adopt[f.s] = "no" /\ ~LateJoiner(f.s) /\ Becomes(f, "adopt", f.s)
        /\ adopt' = [adopt EXCEPT ![f.s] = "build"]
        /\ UNCHANGED <<act, view, card, live, count, strays, logged, twice>>
  /\ UNCHANGED <<sock, turnVars, early, slipped, yanked, troubles>>

(* The log is missing or empty, or the session is parked: the fallback.     *)
Refused(f) ==
  /\ f.kind = "look" /\ Becomes(f, "fall", None) /\ Strike
  /\ UNCHANGED <<sock, act, view, card, hostVars, turnVars, historyVars>>

(* fallbackAttach: the most recent session, or a fresh one.                 *)
Fall(f) ==
  /\ f.kind = "fall"
  /\ \/ \E s \in Live :
          /\ Join({f.w}, s) /\ Becomes(f, "burst", s)
     \/ /\ Live = {} /\ Becomes(f, "fresh", None) /\ UNCHANGED <<act, count, strays, twice>>
  /\ UNCHANGED <<sock, view, card, live, adopt, logged, turnVars, early, slipped, yanked, troubles>>

-----------------------------------------------------------------------------
(* Adoption of a cold log                                                  *)

Adopters(s) == {f \in flows : f.kind \in {"adopt", "join"} /\ f.s = s}

(* registry.create: the session is live before its log is in the agent.     *)
Built(s) ==
  /\ adopt[s] = "build" /\ adopt' = [adopt EXCEPT ![s] = "restore"]
  /\ live' = [live EXCEPT ![s] = "raw"]
  /\ count' = [count EXCEPT ![s] = 0] /\ turn' = [turn EXCEPT ![s] = "idle"]
  /\ queue' = [queue EXCEPT ![s] = 0] /\ cont' = [cont EXCEPT ![s] = 0]
  /\ UNCHANGED <<socketVars, strays, logged, held, pend, dangling, historyVars, troubles>>

(* The agent cannot be built, or the log not be replayed (the session then  *)
(* stays live): those who wait fall back, or only get an error.             *)
AdoptFails(s) ==
  /\ adopt[s] # "no" /\ Strike /\ adopt' = [adopt EXCEPT ![s] = "no"]
  /\ flows' = (flows \ Adopters(s)) \cup {Flow(f.w, "fall", None, TRUE) : f \in {g \in Adopters(s) : g.up}}
  /\ UNCHANGED <<sock, act, view, card, live, count, strays, logged, turnVars, historyVars>>

(* A question that waits when a resumed one is injected ends by default.    *)
Injects(s) ==
  /\ held' = [held EXCEPT ![s] = dangling[s]] /\ pend' = [pend EXCEPT ![s] = "held"]
  /\ turn' = [turn EXCEPT ![s] = IF @ = "ask" THEN "run" ELSE @]
Continues(s, n) ==
  /\ queue' = [queue EXCEPT ![s] = @ + n]
  /\ cont' = [cont EXCEPT ![s] = IF @ + n > 2 THEN 2 ELSE @ + n]

(* Variant: whoever waited for the adoption continues the turn.             *)
ContinueAll(s) == Cardinality(Adopters(s))

(* The interrupted turn of the log is continued once, by the adopter.       *)
Continuations(s) == 1

(* The log is in the agent: its adopters attach, each with the burst of the *)
(* log it read; the questions are held and shown to the adopter, or the     *)
(* turn is continued.                                                       *)
Restored(s) ==
  LET ws == {f.w : f \in Adopters(s)}
      first == {f.w : f \in {g \in Adopters(s) : g.kind = "adopt"}}
  IN /\ adopt[s] = "restore" /\ live[s] = "raw"
     /\ adopt' = [adopt EXCEPT ![s] = "no"] /\ live' = [live EXCEPT ![s] = "ready"]
     /\ flows' = flows \ Adopters(s) /\ Join(ws, s)
     /\ view' = [w \in Sockets |-> IF w \in ws \cap Open THEN s ELSE view[w]]
     /\ card' = [w \in Sockets |->
                  IF w \in ws \cap Open THEN Asked(s) \/ (w \in first /\ dangling[s] > 0) ELSE card[w]]
     /\ \/ dangling[s] > 0 /\ Injects(s) /\ UNCHANGED <<queue, cont>>
        \/ dangling[s] = 0 /\ queue[s] < MaxQueue /\ Continues(s, Continuations(s)) /\ UNCHANGED <<turn, held, pend>>
        \/ dangling[s] = 0 /\ UNCHANGED <<turn, queue, cont, held, pend>>
     /\ UNCHANGED <<sock, logged, dangling, early, slipped, yanked, troubles>>

(* The session was deleted meanwhile: the replay went to an agent of none.  *)
RestoredGone(s) ==
  /\ adopt[s] = "restore" /\ live[s] = "no" /\ adopt' = [adopt EXCEPT ![s] = "no"]
  /\ flows' = (flows \ Adopters(s)) \cup {Flow(f.w, "fall", None, TRUE) : f \in Adopters(s)}
  /\ UNCHANGED <<sock, act, view, card, live, count, strays, logged, turnVars, historyVars, troubles>>

-----------------------------------------------------------------------------
(* Fresh sessions: createAndAttachSession, createSession and /fork          *)

CreateSession(w) ==
  /\ w \in Open /\ Strike /\ Begins(w, "new", None, FALSE) /\ Leave(w)
  /\ UNCHANGED <<sock, view, card, live, adopt, logged, turnVars, early, yanked>>

Fork(w) ==
  /\ w \in Open /\ Strike /\ view[w] \in Live /\ turn[view[w]] = "idle" /\ queue[view[w]] = 0
  /\ Begins(w, "fork", view[w], FALSE)
  /\ UNCHANGED <<sock, act, view, card, hostVars, turnVars, early, twice, yanked>>

Fresh(s) == live[s] = "no" /\ s \notin logged /\ adopt[s] = "no"
Registers(s) ==
  /\ live' = [live EXCEPT ![s] = "ready"]
  /\ turn' = [turn EXCEPT ![s] = "idle"] /\ queue' = [queue EXCEPT ![s] = 0]
  /\ cont' = [cont EXCEPT ![s] = 0] /\ logged' = logged \cup {s}
  /\ UNCHANGED <<adopt, held, pend>>

(* Only the socket that asked is told of the fresh session.                 *)
FreshDone(f, s) ==
  /\ f.kind = "fresh" /\ Fresh(s) /\ Registers(s) /\ flows' = flows \ {f}
  /\ Overwrite(f.w, s) /\ Shows({f.w}, s, FALSE)
  /\ UNCHANGED <<sock, dangling, early, slipped, yanked, troubles>>

(* Every tab gets the sessionCreated of a new session or of a fork.         *)
NewDone(f, s) ==
  /\ f.kind \in {"new", "fork"} /\ Fresh(s) /\ Registers(s) /\ flows' = flows \ {f}
  /\ IF f.kind = "new" THEN Overwrite(f.w, s) ELSE Join({f.w}, s)
  /\ IF f.kind = "fork" THEN dangling' = [dangling EXCEPT ![s] = dangling[f.s]] ELSE UNCHANGED dangling
  /\ early' = IF dangling'[s] > 0 THEN early \cup {s} ELSE early
  /\ Shows(Open, s, FALSE) /\ yanked' = yanked \cup (Open \ {f.w})
  /\ UNCHANGED <<sock, slipped, troubles>>

(* The creation fails: a socket that connected is closed, one that asked    *)
(* for a new session stays where it has left.                               *)
CreateFails(f) ==
  /\ f.kind \in {"fresh", "new", "fork"} /\ Strike /\ flows' = flows \ {f}
  /\ IF f.kind = "fresh" /\ f.w \in Open
     THEN /\ sock' = [sock EXCEPT ![f.w] = "closed"] /\ Leave(f.w)
          /\ view' = [view EXCEPT ![f.w] = None] /\ card' = [card EXCEPT ![f.w] = FALSE]
     ELSE UNCHANGED <<sock, act, count, strays, twice, view, card>>
  /\ slipped' = IF f.kind = "fork" THEN slipped ELSE slipped \cup {f.w}
  /\ UNCHANGED <<live, adopt, logged, turnVars, early, yanked>>

-----------------------------------------------------------------------------
(* The end of a socket and of a session                                     *)

(* onClose.  A flow under way goes on and attaches a socket that is closed. *)
Close(w) ==
  /\ w \in Open /\ Strike /\ sock' = [sock EXCEPT ![w] = "closed"] /\ Leave(w)
  /\ view' = [view EXCEPT ![w] = None] /\ card' = [card EXCEPT ![w] = FALSE]
  /\ slipped' = IF Quiet(w) THEN slipped ELSE slipped \cup {w}
  /\ UNCHANGED <<flows, live, adopt, logged, turnVars, early, yanked>>

(* Variant: the channels of a deleted session stay in their map.            *)
KeepsRoom(s) == strays

(* The set of channels goes with the session.                               *)
RoomAfter(s) == [strays EXCEPT ![s] = 0]

(* SessionRegistry.delete; a burst under way still shows the session.       *)
Gone(s) ==
  /\ live' = [live EXCEPT ![s] = "no"] /\ count' = [count EXCEPT ![s] = 0]
  /\ strays' = RoomAfter(s)
  /\ act' = [w \in Sockets |-> IF act[w].s = s THEN [act[w] EXCEPT !.on = FALSE] ELSE act[w]]
  /\ held' = [held EXCEPT ![s] = 0] /\ pend' = [pend EXCEPT ![s] = "none"]
  /\ turn' = [turn EXCEPT ![s] = "idle"] /\ queue' = [queue EXCEPT ![s] = 0]
  /\ cont' = [cont EXCEPT ![s] = 0] /\ early' = early \ {s} /\ twice' = twice \ {s}
  /\ UNCHANGED <<sock, flows, adopt, logged, dangling, yanked>>

Bursting(s) == {f.w : f \in {g \in flows : g.kind = "burst" /\ g.s = s}}

(* Every tab is told that the session is deleted.                           *)
Told(s) ==
  /\ view' = [w \in Sockets |-> IF view[w] = s THEN None ELSE view[w]]
  /\ card' = [w \in Sockets |-> IF view[w] = s THEN FALSE ELSE card[w]]
  /\ slipped' = slipped \cup Bursting(s)

(* deleteSession, and dismissSession of a session whose turn is idle.       *)
Delete(w, s) == w \in Open /\ live[s] # "no" /\ Strike /\ Gone(s) /\ Told(s)

(* The idle session that is reaped has no client by its counter, and no tab *)
(* is told of it.                                                           *)
Reap(s) ==
  /\ live[s] # "no" /\ adopt[s] = "no" /\ count[s] = 0 /\ Strike /\ Gone(s)
  /\ slipped' = slipped \cup (IF s \in twice THEN {w \in Sockets : act[w] = On(s) \/ view[w] = s} ELSE {})
                        \cup Bursting(s)
  /\ UNCHANGED <<view, card>>

-----------------------------------------------------------------------------
(* Prompts, turns and questions                                             *)

Cards(s, shown) == card' = [w \in Sockets |-> IF w \in Viewers(s) THEN shown ELSE card[w]]
NoSocketChange == UNCHANGED <<sock, act, flows, view, live, adopt, count, strays, twice, slipped, yanked, troubles>>

(* Variant: the dismissed calls get no result.                              *)
DismissSilently(s) ==
  /\ held' = [held EXCEPT ![s] = 0] /\ pend' = [pend EXCEPT ![s] = IF held[s] > 0 THEN "none" ELSE @]
  /\ UNCHANGED <<dangling, card>>

(* dismissResumedQuestions: every held call gets an error result.           *)
Dismisses(s) ==
  IF held[s] = 0 THEN UNCHANGED <<held, pend, dangling, card>>
  ELSE /\ held' = [held EXCEPT ![s] = 0] /\ pend' = [pend EXCEPT ![s] = "none"]
       /\ dangling' = [dangling EXCEPT ![s] = @ - held[s]] /\ Cards(s, FALSE)

Enqueues(s) ==
  /\ s \in Prompted /\ queue[s] < MaxQueue /\ queue' = [queue EXCEPT ![s] = @ + 1]
  /\ UNCHANGED <<turn, cont, logged>>

Send(w) ==
  LET s == view[w]
  IN /\ w \in Open /\ s \in Live /\ Dismisses(s) /\ Enqueues(s)
     /\ early' = IF live[s] = "raw" THEN early \cup {s} ELSE early
     /\ NoSocketChange

(* A slash command that expands to a prompt dismisses nothing.              *)
Command(w) ==
  LET s == view[w]
  IN /\ w \in Open /\ s \in Live /\ Enqueues(s)
     /\ early' = IF live[s] = "raw" \/ held[s] > 0 THEN early \cup {s} ELSE early
     /\ UNCHANGED <<held, pend, dangling, card>> /\ NoSocketChange

TurnStarts(s) ==
  /\ live[s] # "no" /\ queue[s] > 0 /\ turn[s] = "idle"
  /\ turn' = [turn EXCEPT ![s] = "run"] /\ queue' = [queue EXCEPT ![s] = @ - 1]
  /\ UNCHANGED <<card, logged, held, pend, dangling, cont, early>> /\ NoSocketChange

TurnEnds(s) ==
  /\ turn[s] = "run" /\ turn' = [turn EXCEPT ![s] = "idle"]
  /\ UNCHANGED <<card, logged, queue, held, pend, dangling, cont, early>> /\ NoSocketChange

(* The result of a held call lands in the log; after the last one the turn  *)
(* is continued.                                                            *)
ResultLands(s) ==
  /\ held' = [held EXCEPT ![s] = @ - 1] /\ dangling' = [dangling EXCEPT ![s] = @ - 1]
  /\ IF held[s] > 1 THEN UNCHANGED <<queue, cont>> ELSE queue[s] < MaxQueue /\ Continues(s, 1)

(* The question tool: a question that waits is cancelled first (the next    *)
(* one of a resumed session is then injected, and overwritten).             *)
Ask(s) ==
  /\ turn[s] = "run" /\ Room(s) > 0
  /\ turn' = [turn EXCEPT ![s] = "ask"] /\ pend' = [pend EXCEPT ![s] = "live"]
  /\ IF pend[s] = "held" THEN ResultLands(s) ELSE UNCHANGED <<held, dangling, queue, cont>>
  /\ card' = [w \in Sockets |-> IF w \in Viewers(s) /\ act[w] = On(s) THEN TRUE ELSE card[w]]
  /\ UNCHANGED <<logged, early>> /\ NoSocketChange

(* The next question is injected.                                           *)
HeldResolves(s) ==
  /\ pend[s] = "held" /\ ResultLands(s)
  /\ pend' = [pend EXCEPT ![s] = IF held[s] > 1 THEN @ ELSE "none"]

LiveResolves(s) ==
  /\ pend[s] = "live" /\ pend' = [pend EXCEPT ![s] = "none"]
  /\ UNCHANGED <<queue, held, dangling, cont>>
Turns(s, next) == turn' = [turn EXCEPT ![s] = IF @ = "ask" THEN next ELSE @]

(* The answer is told to every tab last, after the next question is: it     *)
(* closes the card of that one too.                                         *)
Answer(w) ==
  LET s == view[w]
  IN /\ w \in Open /\ card[w] /\ s \in Live
     /\ HeldResolves(s) \/ LiveResolves(s)
     /\ Turns(s, "run") /\ Cards(s, FALSE) /\ UNCHANGED <<logged, early>> /\ NoSocketChange

(* handleCancel: the turn is interrupted, the question ends by default.     *)
Cancel(w) ==
  LET s == view[w]
  IN /\ w \in Open /\ s \in Live
     /\ turn' = [turn EXCEPT ![s] = "idle"]
     /\ \/ HeldResolves(s)
        \/ LiveResolves(s)
        \/ pend[s] = "none" /\ turn[s] # "idle" /\ UNCHANGED <<pend, queue, held, dangling, cont>>
     /\ IF pend[s] = "held" /\ held[s] > 1 THEN Cards(s, TRUE) ELSE UNCHANGED card
     /\ UNCHANGED <<logged, early>> /\ NoSocketChange

(* The timeout of a live question: defaults, or an interrupt of the turn.   *)
Expire(s) ==
  /\ LiveResolves(s) /\ \E next \in {"run", "idle"} : Turns(s, next)
  /\ UNCHANGED <<card, logged, early>> /\ NoSocketChange

-----------------------------------------------------------------------------
Init ==
  /\ sock = [w \in Sockets |-> "off"] /\ act = [w \in Sockets |-> [s |-> None, on |-> FALSE]]
  /\ flows = {} /\ view = [w \in Sockets |-> None] /\ card = [w \in Sockets |-> FALSE]
  /\ live = [s \in Sessions |-> "no"] /\ adopt = [s \in Sessions |-> "no"]
  /\ count = [s \in Sessions |-> 0] /\ strays = [s \in Sessions |-> 0] /\ logged = Cold
  /\ turn = [s \in Sessions |-> "idle"] /\ queue = [s \in Sessions |-> 0]
  /\ held = [s \in Sessions |-> 0] /\ pend = [s \in Sessions |-> "none"]
  /\ dangling \in {d \in [Sessions -> 0 .. Holds] : \A s \in Sessions \ Cold : d[s] = 0}
  /\ cont = [s \in Sessions |-> 0]
  /\ early = {} /\ twice = {} /\ slipped = {} /\ yanked = {} /\ troubles = 0

Next ==
  \/ \E w \in Sockets :
       \/ Connect(w) \/ SwitchSession(w) \/ LoadLog(w) \/ CreateSession(w) \/ Fork(w) \/ Close(w)
       \/ Send(w) \/ Command(w) \/ Answer(w) \/ Cancel(w)
       \/ \E s \in Sessions : Delete(w, s)
  \/ \E f \in flows :
       \/ Burst(f) \/ Looked(f) \/ Refused(f) \/ Fall(f) \/ CreateFails(f)
       \/ \E s \in Sessions : FreshDone(f, s) \/ NewDone(f, s)
  \/ \E s \in Sessions :
       \/ Built(s) \/ AdoptFails(s) \/ Restored(s) \/ RestoredGone(s) \/ Reap(s)
       \/ TurnStarts(s) \/ TurnEnds(s) \/ Ask(s) \/ Expire(s)

Spec == Init /\ [][Next]_vars

-----------------------------------------------------------------------------
(* connectedClients is the number of channels of a live session, by which   *)
(* the idle ones are reaped, unless a channel was removed from it twice.    *)
CountIsRoom == \A s \in Live \ twice : count[s] = Room(s)

(* A tab whose handlers are over shows the session its socket is subscribed *)
(* to, and that session is live, unless its handlers crossed or failed or   *)
(* another tab's creation was broadcast to it.                              *)
ViewIsSubscribed ==
  \A w \in Sockets \ (slipped \cup yanked) :
    Quiet(w) /\ view[w] # None => act[w] = On(view[w]) /\ view[w] \in Live

(* Rooms, channels and tabs agree on who is where, through creations,       *)
(* deletions, switches, adoptions and sockets that close in between.        *)
RoomsAgree == TypeOK /\ CountIsRoom /\ ViewIsSubscribed

(* A question on which a turn waits can be answered in every such tab.      *)
LiveQuestionHasCard ==
  \A w \in Sockets \ (slipped \cup yanked) :
    Quiet(w) /\ view[w] \in Live /\ pend[view[w]] = "live" => card[w]

(* Every question call the agent holds without a result is one that is held *)
(* and asked, unless a prompt went past it.                                 *)
HeldIsAsked ==
  \A s \in Sessions \ early :
    live[s] = "ready" => held[s] = dangling[s] /\ (held[s] > 0 <=> pend[s] = "held")

(* No question is lost between the turn that waits on it, the bridge that   *)
(* holds it and the tab that shows it.                                      *)
QuestionsReach == HeldIsAsked /\ LiveQuestionHasCard

(* The interrupted turn of a log is continued at most once.                 *)
ContinuedOnce == \A s \in Sessions : cont[s] < 2

(* Whoever takes a log over writes it alone, and goes on where it can.  An   *)
(* agent is put on a log only when none writes to it: "the same id is never  *)
(* adopted twice" (resume.ts).  And "no turn may start on a dangling call"   *)
(* (resume.ts), nor before the log is in the agent, unless a prompt went     *)
(* past the questions or the replay.                                       *)
LogIsTakenOver ==
  [][\A s \in Sessions :
       /\ adopt[s] = "build" /\ adopt'[s] = "restore" => live[s] = "no"
       /\ s \notin early /\ turn[s] = "idle" /\ turn'[s] = "run" =>
            live[s] = "ready" /\ dangling[s] = 0]_vars
=============================================================================
