-------------------------------- MODULE LlmCall --------------------------------
(***************************************************************************)
(* One call of the model by a turn of the agent: Agent.run around           *)
(* #performLlmCall (core/agent.ts), the retries of the client                *)
(* (core/llm-client/client.ts, retry.ts) and the assembly of the stream     *)
(* (stream-processor.ts).  A request may be refused, stall, break half way   *)
(* or end early; the user may stop the turn at every await.                 *)
(***************************************************************************)
EXTENDS Naturals, Sequences, FiniteSets

CONSTANTS
  MaxRetries,  \* of the configuration
  Chunks       \* events of a complete stream

ASSUME CallAssumption == MaxRetries \in Nat /\ Chunks \in Nat \ {0}

Attempts == 1 + MaxRetries
Requests == 1 .. 2 * Attempts

(* What an error says: http and timeout are the client's own; the others    *)
(* are answers of the backend (`corrupt` one with a 500; with a 400 it goes  *)
(* the way of `overflow`); `raw` was never made an LlmError.                *)
Kinds == {"http", "timeout", "busy", "quota", "overflow", "corrupt", "invalid", "cancelled", "raw"}

VARIABLES
  pc,        \* where the turn waits
  attempt,   \* of this chatStreamCancellable
  again,     \* the call was issued anew by the PROVIDER_ERROR pipeline
  err,       \* the error at hand
  request,   \* number of requests sent
  conn,      \* their sockets, as the backend sees them
  sent,      \* events the backend has sent on each
  text,      \* textParts of the processor
  partial,   \* its replay buffer
  shown,     \* what live clients show of the reply
  cancelled, \* agent.cancelled
  aborted,   \* the host's abort signal
  deaf       \* history: cancel() came when there was no request to abort

vars == <<pc, attempt, again, err, request, conn, sent, text, partial, shown, cancelled, aborted, deaf>>
user == <<cancelled, aborted, deaf>>
output == <<text, partial, shown>>

Fragment == [r : Requests, k : 1 .. Chunks]

TypeOK ==
  /\ pc \in {"prepare", "request", "refusal", "stream", "sleep", "rescue", "answered", "failed"}
  /\ attempt \in 0 .. Attempts /\ again \in BOOLEAN /\ err \in Kinds \cup {"none"}
  /\ request \in 0 .. 2 * Attempts
  /\ conn \in [Requests -> {"none", "asked", "refused", "open", "closed"}]
  /\ sent \in [Requests -> 0 .. Chunks]
  /\ {text, partial, shown} \subseteq Seq(Fragment)
  /\ cancelled \in BOOLEAN /\ aborted \in BOOLEAN /\ deaf \in BOOLEAN

Stopped == cancelled \/ aborted

-----------------------------------------------------------------------------
(* shouldRetryLlmError, for the attempt that failed.                        *)
Transient(kind) == kind \in {"http", "timeout", "busy", "corrupt"}
Retried(kind) == Transient(kind) /\ attempt < Attempts

Closed(r) == [conn EXCEPT ![r] = "closed"]
(* Variant: the socket of a stalled attempt is left to itself.              *)
LeftOpen(r) == conn

(* attemptController.abort() when a stream failed.                         *)
TornDown(r) == Closed(r)

(* The generator has thrown or returned: its finally, and then the handler  *)
(* of the turn, which asks the PROVIDER_ERROR pipeline once.                *)
Throws(kind) ==
  /\ err' = kind
  /\ pc' = IF again THEN "failed" ELSE "rescue"

(* The loop of chatStreamCancellable issues a request.                     *)
Issue(n) ==
  /\ request' = request + 1 /\ attempt' = n
  /\ conn' = [conn EXCEPT ![request + 1] = "asked"]
  /\ pc' = "request"

(* process() starts with empty buffers; nobody tells the live clients.      *)
Emptied == text' = <<>> /\ partial' = <<>> /\ UNCHANGED shown

(* #performLlmCall: a signal that is aborted already cancels the call before *)
(* its first request.                                                      *)
Perform ==
  /\ Emptied
  /\ IF aborted
       THEN /\ cancelled' = TRUE /\ Throws("cancelled")
            /\ UNCHANGED <<attempt, request, conn, aborted, deaf>>
       ELSE Issue(1) /\ UNCHANGED <<err, user>>

Start == pc = "prepare" /\ Perform /\ UNCHANGED <<again, sent>>

-----------------------------------------------------------------------------
(* The request phase: _doRequest                                           *)

Backend == UNCHANGED <<attempt, again, request, output, user>>

Accept ==
  /\ pc = "request" /\ pc' = "stream"
  /\ conn' = [conn EXCEPT ![request] = "open"]
  /\ UNCHANGED <<err, sent>> /\ Backend

Refuse(kind) ==
  /\ pc = "request" /\ pc' = "refusal" /\ err' = kind
  /\ conn' = [conn EXCEPT ![request] = "refused"]
  /\ UNCHANGED sent /\ Backend

RequestFailed(kind) ==
  IF Retried(kind) THEN pc' = "sleep" /\ err' = kind ELSE Throws(kind)

(* The fetch fails or hits the chat timeout.                                *)
RequestBreaks(kind) ==
  /\ pc = "request" /\ conn' = Closed(request) /\ RequestFailed(kind)
  /\ UNCHANGED sent /\ Backend

(* The body of a refusal is read, and the error carries it.                 *)
RefusalRead ==
  /\ pc = "refusal" /\ conn' = Closed(request) /\ RequestFailed(err)
  /\ UNCHANGED sent /\ Backend

(* It cannot be read; nobody classifies that.                              *)
RefusalBreaks ==
  /\ pc = "refusal" /\ conn' = Closed(request) /\ Throws("raw")
  /\ UNCHANGED sent /\ Backend

-----------------------------------------------------------------------------
(* The stream, and what the processor makes of each event                  *)

(* An event of a turn that was cancelled when no request could hear of it.  *)
Cancels ==
  /\ conn' = TornDown(request) /\ Throws("cancelled") /\ UNCHANGED output

Event ==
  LET k == sent[request] + 1 IN
  /\ pc = "stream" /\ k <= Chunks
  /\ sent' = [sent EXCEPT ![request] = k]
  /\ IF cancelled
       THEN Cancels
       ELSE /\ text' = Append(text, [r |-> request, k |-> k])
            /\ partial' = Append(partial, [r |-> request, k |-> k])
            /\ shown' = Append(shown, [r |-> request, k |-> k])
            /\ UNCHANGED <<pc, err, conn>>
  /\ UNCHANGED <<attempt, again, request, user>>

(* The body ends, complete or not: no event has to be the last.             *)
End ==
  /\ pc = "stream" /\ pc' = "answered"
  /\ conn' = Closed(request) /\ partial' = <<>>
  /\ UNCHANGED <<attempt, again, err, request, sent, text, shown, user>>

(* The reset event: buffers first, then the live clients.                   *)
Reset == text' = <<>> /\ partial' = <<>> /\ shown' = <<>>

(* The stream breaks, stalls for the watchdog's time or outlives the chat   *)
(* timeout; or what came is no stream at all.                              *)
StreamBreaks(kind) ==
  /\ pc = "stream" /\ (kind = "invalid" => sent[request] = 0)
  /\ conn' = TornDown(request)
  /\ \/ ~Retried(kind) /\ Throws(kind) /\ UNCHANGED output
     \/ Retried(kind) /\ cancelled /\ Throws("cancelled") /\ UNCHANGED output
     \/ Retried(kind) /\ ~cancelled /\ Reset /\ pc' = "sleep" /\ err' = kind
  /\ UNCHANGED <<attempt, again, request, sent, user>>

(* The backoff, or the server's Retry-After, has passed.                    *)
Wake ==
  /\ pc = "sleep" /\ Issue(attempt + 1)
  /\ UNCHANGED <<again, err, sent, output, user>>

-----------------------------------------------------------------------------
(* The PROVIDER_ERROR pipeline: compaction makes room, tool-call-repair     *)
(* drops corrupt calls, if there is any; the turn is issued once more.      *)
Rescuable(kind) == kind \in {"overflow", "corrupt"}

(* Variant: not looked at after the pipeline.                               *)
NobodyStopped == TRUE

GoesOn == ~Stopped

Rescue(ok) ==
  /\ pc = "rescue"
  /\ IF ok /\ Rescuable(err) /\ GoesOn
       THEN again' = TRUE /\ Perform /\ UNCHANGED sent
       ELSE pc' = "failed" /\ UNCHANGED <<attempt, again, err, request, conn, sent, output, user>>

(* Esc, or the host: the signal of the request rejects what is awaited, and *)
(* ends a sleep; the error body's reader rejects with the bare AbortError.  *)
Interrupted ==
  CASE pc \in {"request", "stream", "sleep"} -> Throws("cancelled") /\ conn' = Closed(request)
    [] pc = "refusal" -> Throws("raw") /\ conn' = Closed(request)
    [] OTHER -> UNCHANGED <<pc, err, conn>>

InCall == pc \in {"request", "refusal", "stream", "sleep"}

Cancel ==
  /\ ~cancelled /\ pc \notin {"answered", "failed"}
  /\ cancelled' = TRUE /\ deaf' = (pc = "prepare")
  /\ Interrupted /\ UNCHANGED <<attempt, again, request, sent, output, aborted>>

HostAbort ==
  /\ ~aborted /\ pc \notin {"answered", "failed"}
  /\ aborted' = TRUE /\ cancelled' = (cancelled \/ InCall)
  /\ Interrupted /\ UNCHANGED <<attempt, again, request, sent, output, deaf>>

-----------------------------------------------------------------------------
Init ==
  /\ pc = "prepare" /\ attempt = 0 /\ again = FALSE /\ err = "none"
  /\ request = 0 /\ conn = [r \in Requests |-> "none"] /\ sent = [r \in Requests |-> 0]
  /\ text = <<>> /\ partial = <<>> /\ shown = <<>>
  /\ cancelled = FALSE /\ aborted = FALSE /\ deaf = FALSE

Next ==
  \/ Start \/ Accept
  \/ \E kind \in {"busy", "quota", "overflow", "corrupt", "invalid"} : Refuse(kind)
  \/ \E kind \in {"http", "timeout"} : RequestBreaks(kind)
  \/ RefusalRead \/ RefusalBreaks
  \/ Event \/ End
  \/ \E kind \in {"http", "timeout", "invalid"} : StreamBreaks(kind)
  \/ Wake
  \/ \E ok \in BOOLEAN : Rescue(ok)
  \/ Cancel \/ HostAbort

Spec == Init /\ [][Next]_vars

-----------------------------------------------------------------------------
Live == {r \in Requests : conn[r] \in {"asked", "refused", "open"}}

(* The backend never works for two requests of a turn at a time, nor for    *)
(* one whose turn waits for nothing: a stalled attempt does not go on as a   *)
(* ghost beside the next ("the retry's new request would OVERLAP the ghost   *)
(* on the same session", client.ts).  And its requests are bounded.         *)
OneGeneration ==
  /\ TypeOK
  /\ Cardinality(Live) = (IF pc \in {"request", "refusal", "stream"} THEN 1 ELSE 0)
  /\ request <= Attempts * (IF again THEN 2 ELSE 1)

(* The answer is one stream: what the last request sent, each fragment once *)
(* and in order, and nothing of the attempts and calls before it; and that  *)
(* is what live clients show and, while it streams, what a client that       *)
(* attaches is sent.                                                       *)
AnswerIsOneStream ==
  /\ pc \in {"stream", "answered"} =>
       text = [k \in 1 .. sent[request] |-> [r |-> request, k |-> k]]
  /\ pc \in {"request", "stream", "sleep", "answered"} => shown = text
  /\ pc \in {"request", "stream", "sleep"} => partial = text

(* A call of the model is one generation at a time and one stream in the      *)
(* end (llm-client/client.ts, stream-processor.ts).                         *)
OneStream == OneGeneration /\ AnswerIsOneStream

(* A turn that was stopped asks no model any more, unless it was cancelled   *)
(* before its request existed; and then it gets no answer either.           *)
StopsAsking ==
  [][/\ request' # request => ~aborted /\ (cancelled => deaf)
     /\ pc # "answered" /\ pc' = "answered" /\ cancelled => text = <<>>]_vars
=============================================================================
