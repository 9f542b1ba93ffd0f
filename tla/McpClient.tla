------------------------------- MODULE McpClient -------------------------------
(***************************************************************************)
(* One stdio connection to an MCP server: the requests of McpClient           *)
(* (extensions/mcp-client/client.ts), the questions the server asks a human   *)
(* while it works (elicitation.ts), and the discovery of its tools            *)
(* (connection.ts).  The server answers what and when it likes, twice, never,  *)
(* or before it is asked; it may die, and the host may shut the client down.  *)
(***************************************************************************)
EXTENDS Naturals, Sequences, FiniteSets, SequencesExt

CONSTANTS
  Asks,         \* elicitation/create requests the server may send
  Cursors,      \* what a page of tools may name as the next page
  MaxPages,     \* MAX_TOOL_LIST_PAGES
  MaxBuffered,  \* MAX_BUFFERED_RESPONSES
  MaxIds        \* bound: requests of the client

McpAssumption ==
  /\ IsFiniteSet(Asks) /\ MaxPages \in Nat \ {0} /\ MaxBuffered \in Nat /\ MaxIds \in Nat \ {0}

Ids == 1 .. MaxIds
End == "end"    \* the last page names none

VARIABLES
  stage,      \* of connectStdio
  seen,       \* seenCursors
  pages,      \* pages listed
  idCounter,  \* #idCounter
  fate,       \* of each request: how its promise was settled
  pending,    \* #pending
  timers,     \* requests whose timeout is armed
  suspended,  \* #suspendedTimeouts
  handlers,   \* #elicitations: the calls whose handlers they are, pushed in the order of their ids
  ask,        \* questions of the server
  elicitInFlight,
  buffered,   \* #buffered, by id
  reading,    \* the lines of one chunk are handed on, and no promise has gone on yet
  closed,     \* #transportClosed
  cancelled,  \* #cancelled
  destroyed,  \* of the transport
  up          \* the server process

discovery == <<stage, seen, pages>>
questions == <<ask, elicitInFlight>>
ended == <<closed, cancelled, destroyed, up>>
requests == <<idCounter, fate, pending, timers, suspended, handlers>>
vars == <<discovery, requests, questions, buffered, reading, ended>>

TypeOK ==
  /\ stage \in {"initialize", "list", "ready", "refused"}
  /\ seen \subseteq Cursors /\ pages \in 0 .. MaxPages
  /\ idCounter \in 0 .. MaxIds
  /\ fate \in [Ids -> {"none", "waiting", "answered", "failed"}]
  /\ pending \subseteq Ids /\ timers \subseteq Ids /\ suspended \subseteq Ids
  /\ handlers \subseteq Ids /\ buffered \in Seq(Ids)
  /\ ask \in [Asks -> {"none", "held", "answered", "lost"}]
  /\ elicitInFlight \in 0 .. Cardinality(Asks)
  /\ {reading, closed, cancelled, destroyed, up} \subseteq BOOLEAN

(* A chunk that has begun is handed on line by line to its end, whatever    *)
(* its lines do to the connection.                                         *)
Hears == (reading \/ (up /\ ~destroyed)) /\ reading' = TRUE

(* Everything else waits for the end of the chunk.                         *)
Idle == ~reading /\ UNCHANGED reading

-----------------------------------------------------------------------------
(* Requests and their answers                                              *)

(* Variant: the clock of a new request starts whatever a human is asked.    *)
ArmedAnyway(id) == timers' = timers \cup {id} /\ UNCHANGED suspended

(* #armTimeout: not while an elicitation is held.                          *)
Armed(id) ==
  IF elicitInFlight > 0
    THEN suspended' = suspended \cup {id} /\ UNCHANGED timers
    ELSE timers' = timers \cup {id} /\ UNCHANGED suspended

(* _sendRequest, and the handler callTool pushes for a call of a tool.      *)
Issue(isCall) ==
  LET id == idCounter + 1 IN
  /\ id \in Ids /\ idCounter' = id
  /\ IF id \in Range(buffered)
       THEN /\ \E how \in {"answered", "failed"} : fate' = [fate EXCEPT ![id] = how]
            /\ buffered' = RemoveFirst(buffered, id)
            /\ UNCHANGED <<pending, timers, suspended, handlers>>
       ELSE /\ fate' = [fate EXCEPT ![id] = "waiting"]
            /\ pending' = pending \cup {id} /\ Armed(id)
            /\ handlers' = IF isCall THEN handlers \cup {id} ELSE handlers
            /\ UNCHANGED buffered

Call ==
  /\ Idle /\ stage = "ready" /\ ~cancelled /\ ~closed
  /\ Issue(TRUE) /\ UNCHANGED <<discovery, questions, ended>>

(* The promises of requests are settled; their callers have not gone on.    *)
Settle(ids, how) ==
  /\ fate' = [c \in Ids |-> IF c \in ids THEN how ELSE fate[c]]
  /\ pending' = pending \ ids

(* callTool's finally: a caller that goes on takes its handler down.        *)
GoesOn(ids) == handlers' = handlers \ ids

(* #failAllPending                                                         *)
FailAllPending ==
  /\ closed' = TRUE /\ suspended' = {}
  /\ Settle(pending, "failed") /\ timers' = timers \ pending

Flooded == Len(buffered) = MaxBuffered

(* A line with a result or an error.                                       *)
Response(id, how) ==
  /\ Hears
  /\ IF id \in pending
       THEN Settle({id}, how) /\ UNCHANGED <<timers, suspended, buffered, ended>>
       ELSE IF Flooded
       THEN /\ buffered' = <<>> /\ FailAllPending
            /\ destroyed' = TRUE /\ UNCHANGED <<cancelled, up>>
       ELSE /\ buffered' = Append(buffered, id)
            /\ UNCHANGED <<fate, pending, timers, suspended, ended>>
  /\ UNCHANGED <<idCounter, handlers, discovery, questions>>

(* The chunk is read, and the callers it settled go on.  The timer of a      *)
(* request that was answered with an error stays armed, for nobody.        *)
ChunkEnds ==
  /\ reading /\ reading' = FALSE
  /\ GoesOn(Ids \ pending) /\ timers' = {c \in timers : fate[c] # "answered"}
  /\ UNCHANGED <<idCounter, fate, pending, suspended, discovery, questions, buffered, ended>>

Timeout(id) ==
  /\ Idle /\ id \in timers /\ timers' = timers \ {id}
  /\ Settle(pending \cap {id}, "failed") /\ GoesOn(pending \cap {id})
  /\ UNCHANGED <<idCounter, suspended, discovery, questions, buffered, ended>>

-----------------------------------------------------------------------------
(* Questions of the server: #handleServerRequest                           *)

(* What is written to a transport that was destroyed is dropped.            *)
Respond(a) == ask' = [ask EXCEPT ![a] = IF destroyed THEN "lost" ELSE "answered"]

(* Asked while there is no handler: answered with a cancel at once.         *)
AskNobody(a) ==
  /\ Hears /\ ask[a] = "none" /\ handlers = {} /\ Respond(a)
  /\ UNCHANGED <<elicitInFlight, requests, discovery, buffered, ended>>

(* The latest handler asks the human, be its call settled by a line before    *)
(* in the same chunk; the clocks of the pending stop.                      *)
Elicit(a) ==
  /\ Hears /\ ask[a] = "none" /\ handlers # {}
  /\ ask' = [ask EXCEPT ![a] = "held"]
  /\ elicitInFlight' = elicitInFlight + 1
  /\ IF elicitInFlight = 0
       THEN /\ suspended' = suspended \cup (pending \cap timers)
            /\ timers' = timers \ pending
       ELSE UNCHANGED <<suspended, timers>>
  /\ UNCHANGED <<idCounter, fate, pending, handlers, discovery, buffered, ended>>

(* The human answers, declines, or the run of the call is aborted: the      *)
(* clocks start anew with the last of the questions.                       *)
Answer(a) ==
  /\ Idle /\ ask[a] = "held" /\ Respond(a)
  /\ elicitInFlight' = elicitInFlight - 1
  /\ IF elicitInFlight' = 0
       THEN /\ timers' = timers \cup (suspended \cap pending)
            /\ suspended' = {}
       ELSE UNCHANGED <<timers, suspended>>
  /\ UNCHANGED <<idCounter, fate, pending, handlers, discovery, buffered, ended>>

-----------------------------------------------------------------------------
(* The end of the connection                                               *)

ServerDies ==
  /\ Idle /\ up /\ up' = FALSE
  /\ IF cancelled \/ closed
       THEN UNCHANGED <<closed, fate, pending, timers, suspended, handlers>>
       ELSE FailAllPending /\ GoesOn(pending)
  /\ UNCHANGED <<idCounter, cancelled, destroyed, discovery, questions, buffered>>

(* shutdown(): the suspended timeouts are left, their requests are gone.    *)
Ended ==
  /\ cancelled' = TRUE /\ destroyed' = TRUE
  /\ Settle(pending, "failed") /\ GoesOn(pending) /\ timers' = timers \ pending
  /\ buffered' = <<>>
  /\ UNCHANGED <<closed, up, idCounter, suspended>>

Shutdown ==
  /\ Idle /\ stage = "ready" /\ ~cancelled
  /\ Ended /\ UNCHANGED <<discovery, questions>>

-----------------------------------------------------------------------------
(* connectStdio: initialize, then the pages of tools                       *)

(* _sendRequest throws at once when the transport has closed.               *)
Refused ==
  /\ stage' = "refused" /\ Ended /\ UNCHANGED <<seen, questions>>

Lists ==
  /\ ~closed /\ stage' = "list" /\ Issue(FALSE) /\ UNCHANGED ended

(* The request connectStdio waits for.                                     *)
Got(how) == fate[idCounter] = how

Initialized ==
  /\ Idle /\ stage = "initialize" /\ Got("answered")
  /\ \/ closed /\ Refused
     \/ Lists /\ UNCHANGED <<seen, questions>>
  /\ UNCHANGED pages

Listed(next) ==
  /\ Idle /\ stage = "list" /\ Got("answered") /\ pages' = pages + 1
  /\ IF next = End
       THEN stage' = "ready" /\ UNCHANGED <<seen, questions, requests, buffered, ended>>
       ELSE IF pages' >= MaxPages \/ next \in seen \/ closed
       THEN Refused
       ELSE seen' = seen \cup {next} /\ Lists /\ UNCHANGED questions

(* A page brings more tools than the cap allows.                           *)
TooManyTools ==
  /\ Idle /\ stage = "list" /\ Got("answered") /\ pages' = pages + 1 /\ Refused

ConnectFails ==
  /\ Idle /\ stage \in {"initialize", "list"} /\ Got("failed")
  /\ Refused /\ UNCHANGED pages

-----------------------------------------------------------------------------
(* The client is constructed and has sent its initialize.                  *)
Init ==
  /\ stage = "initialize" /\ seen = {} /\ pages = 0
  /\ idCounter = 1 /\ fate = [c \in Ids |-> IF c = 1 THEN "waiting" ELSE "none"]
  /\ pending = {1} /\ timers = {1} /\ suspended = {} /\ handlers = {}
  /\ ask = [a \in Asks |-> "none"] /\ elicitInFlight = 0 /\ buffered = <<>> /\ reading = FALSE
  /\ closed = FALSE /\ cancelled = FALSE /\ destroyed = FALSE /\ up = TRUE

Next ==
  \/ Call
  \/ \E id \in Ids, how \in {"answered", "failed"} : Response(id, how)
  \/ ChunkEnds
  \/ \E id \in Ids : Timeout(id)
  \/ \E a \in Asks : AskNobody(a) \/ Elicit(a) \/ Answer(a)
  \/ ServerDies \/ Shutdown
  \/ Initialized \/ (\E next \in Cursors \cup {End} : Listed(next))
  \/ TooManyTools \/ ConnectFails

Spec == Init /\ [][Next]_vars

-----------------------------------------------------------------------------
Held == {a \in Asks : ask[a] = "held"}

(* "A wedged server must not hang a tool call forever" and "thinking time    *)
(* must not burn" the budget (client.ts): while nothing is asked of a human  *)
(* the clock of every waiting request runs, and while something is no clock  *)
(* runs, and each is kept to be started again.                             *)
ClocksFair ==
  IF Held = {} THEN pending \subseteq timers
  ELSE pending \cap timers = {} /\ pending \subseteq suspended

(* Each caller waits for as long as its request is pending and the          *)
(* connection lives, and all the while its handler is there to put questions *)
(* to a human.  A handler outlives its call by no more than the chunk whose   *)
(* line settled it: between chunks the handlers are those of the calls under *)
(* way, so only a question behind the response in that chunk is late.       *)
CallsSettle ==
  /\ TypeOK /\ elicitInFlight = Cardinality(Held)
  /\ pending = {c \in Ids : fate[c] = "waiting"}
  /\ closed \/ cancelled => pending = {}
  /\ stage = "ready" => pending \subseteq handlers
  /\ stage = "ready" /\ ~reading => handlers = pending

(* What the server sends does not pile up, no page is asked for twice, and   *)
(* a server that could not be connected to is not left running.             *)
ServerContained ==
  /\ Len(buffered) <= MaxBuffered
  /\ stage = "list" => Cardinality(seen) = pages
  /\ stage = "refused" => destroyed
=============================================================================
