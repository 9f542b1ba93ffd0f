------------------------------ MODULE ToolCalls ------------------------------
(***************************************************************************)
(* The calls of one reply of the model, made one after the other by the     *)
(* ToolExecutor of each agent (core/tool-executor.ts): the TOOL_CALL        *)
(* pipeline with the approvals of the user gate                             *)
(* (extensions/user-gate/index.ts), the attempts of the tool, and the       *)
(* answer every call is owed.  The agents share one human: their questions  *)
(* wait in the process-wide queue of the gate.                              *)
(***************************************************************************)
EXTENDS Naturals, Sequences, FiniteSets

CONSTANTS
  Agents,       \* of the sessions of the process
  Targets,      \* what a call is for: the tool and its extracted values (memoKey)
  Plane,        \* those whose tool runs in the tool exec plane
  MayRule,      \* of each target: the verdicts a configuration may give it
  Replies,      \* of each agent: the batches of calls a reply may bring
  MaxAttempts   \* 1 + maxRetries

ASSUME ToolCallsAssumption ==
  /\ Plane \subseteq Targets /\ MaxAttempts \in Nat \ {0}
  /\ MayRule \in [Targets -> SUBSET {"allow", "ask", "deny"}]
  /\ \A a \in Agents : Replies[a] \subseteq Seq(Targets) \ {<<>>}

VARIABLES
  rules,      \* decide(): what the configured rules say of a call
  batch,      \* toolCalls of the reply
  at,         \* index of the call under way
  stage,      \* where executeSingle waits
  attempts,
  answers,    \* toolResults
  stopped,    \* the signal of the run
  ended,      \* SESSION_END was fired
  queue,      \* of the prompts; the head may be before the human
  grants,     \* sessionGrants
  consent,    \* history: why the user gate let the call pass
  allowed,    \* history: the calls a human said yes to
  ran         \* history: the calls whose tool was entered

toolVars == <<rules, batch, at, stage, attempts, answers, stopped, ended,
          queue, grants, consent, allowed, ran>>
setting == <<rules, batch>>
session == <<stopped, ended>>

Outcomes == {"result", "refused", "skipped"}  \* of the tool, of the executor or a gate, of a stop
Consents == {"none", "rule", "grant", "once", "session"}

ToolTypes ==
  /\ rules \in [Targets -> {"allow", "ask", "deny"}]
  /\ \A a \in Agents : batch[a] \in {<<>>} \cup Replies[a] /\ at[a] \in 1 .. Len(batch[a]) + 1
  /\ stage \in [Agents -> {"idle", "gate", "queued", "asked", "fences", "ready",
                            "running", "backoff"}]
  /\ attempts \in [Agents -> 0 .. MaxAttempts]
  /\ answers \in [Agents -> Seq(Outcomes)]
  /\ stopped \in [Agents -> BOOLEAN] /\ ended \in [Agents -> BOOLEAN]
  /\ queue \in Seq(Agents) /\ grants \in [Agents -> SUBSET Targets]
  /\ consent \in [Agents -> Consents]
  /\ allowed \subseteq Agents \X Nat \X {"once", "session"}
  /\ ran \subseteq [agent : Agents, n : Nat, why : Consents, after : BOOLEAN]

Call(a) == batch[a][at[a]]

ToolInit ==
  /\ rules \in {r \in [Targets -> {"allow", "ask", "deny"}] : \A t \in Targets : r[t] \in MayRule[t]}
  /\ batch = [a \in Agents |-> <<>>] /\ at = [a \in Agents |-> 1]
  /\ stage = [a \in Agents |-> "idle"] /\ attempts = [a \in Agents |-> 0]
  /\ answers = [a \in Agents |-> <<>>]
  /\ stopped = [a \in Agents |-> FALSE] /\ ended = [a \in Agents |-> FALSE]
  /\ queue = <<>> /\ grants = [a \in Agents |-> {}]
  /\ consent = [a \in Agents |-> "none"] /\ allowed = {} /\ ran = {}

To(a, s) == stage' = [stage EXCEPT ![a] = s]

-----------------------------------------------------------------------------
(* The result of a call is written; the loop takes the next call, or answers *)
(* those that are left when the tool asked the loop to stop.                 *)
Left(a) == Len(batch[a]) - at[a]

Closes(a) == attempts' = [attempts EXCEPT ![a] = 0] /\ consent' = [consent EXCEPT ![a] = "none"]

Answer(a, outcome) ==
  /\ answers' = [answers EXCEPT ![a] = Append(@, outcome)]
  /\ at' = [at EXCEPT ![a] = @ + 1]
  /\ To(a, IF Left(a) = 0 THEN "idle" ELSE "gate")
  /\ Closes(a)

AnswerAndStop(a) ==
  /\ answers' = [answers EXCEPT ![a] = Append(@, "result") \o [n \in 1 .. Left(a) |-> "skipped"]]
  /\ at' = [at EXCEPT ![a] = Len(batch[a]) + 1]
  /\ To(a, "idle")
  /\ Closes(a)

(* The reply of the model arrives; the agent makes its calls.               *)
Execute(a) ==
  /\ batch[a] = <<>> /\ ~ended[a] /\ ~stopped[a]
  /\ batch' \in {[batch EXCEPT ![a] = b] : b \in Replies[a]}
  /\ To(a, "gate")
  /\ UNCHANGED <<rules, at, attempts, answers, session, queue, grants, consent, allowed, ran>>

(* A call that never gets to the gates, or not past them: the tool is not    *)
(* offered; it is not registered, or its arguments are not valid.            *)
Refused(a) ==
  /\ stage[a] \in {"gate", "ready"} /\ attempts[a] = 0
  /\ Answer(a, "refused")
  /\ UNCHANGED <<setting, session, queue, grants, allowed, ran>>

-----------------------------------------------------------------------------
(* Variant: a grant is not kept to its session.                             *)
GrantedToAny(a, call) == \E b \in Agents : call \in grants[b]

(* The handler of the user gate: a rule decides, a grant of this session     *)
(* does, or the call takes its turn in the queue of the prompts.             *)
Granted(a, call) == call \in grants[a]

LetPass(a, why) ==
  /\ consent' = [consent EXCEPT ![a] = why]
  /\ To(a, "fences")

RuleDecides(a) ==
  /\ stage[a] = "gate"
  /\ \/ /\ rules[Call(a)] = "allow"
        /\ LetPass(a, "rule") /\ UNCHANGED <<at, answers, attempts>>
     \/ /\ rules[Call(a)] = "deny"
        /\ Answer(a, "refused")
  /\ UNCHANGED <<setting, session, queue, grants, allowed, ran>>

GrantDecides(a) ==
  /\ stage[a] = "gate" /\ rules[Call(a)] = "ask" /\ Granted(a, Call(a))
  /\ LetPass(a, "grant")
  /\ UNCHANGED <<setting, at, attempts, answers, session, queue, grants, allowed, ran>>

EnqueuePrompt(a) ==
  /\ stage[a] = "gate" /\ rules[Call(a)] = "ask" /\ ~Granted(a, Call(a))
  /\ queue' = Append(queue, a)
  /\ To(a, "queued")
  /\ UNCHANGED <<setting, at, attempts, answers, session, grants, consent, allowed, ran>>

(* The turn of a prompt: askUser looks at the signal and for a human.        *)
PromptTurn(a) ==
  /\ stage[a] = "queued" /\ Head(queue) = a
  /\ \/ /\ ~stopped[a]
        /\ To(a, "asked") /\ UNCHANGED <<queue, at, attempts, answers, consent>>
     \/ /\ queue' = Tail(queue)        \* cancelled, or no interactive UI
        /\ Answer(a, "refused")
  /\ UNCHANGED <<setting, session, grants, allowed, ran>>

(* The human answers: yes once, yes for the session, or anything else.       *)
Remember(a, call) == [grants EXCEPT ![a] = @ \cup {call}]

HumanAllows(a, scope) ==
  /\ stage[a] = "asked"
  /\ queue' = Tail(queue)
  /\ grants' = IF scope = "session" THEN Remember(a, Call(a)) ELSE grants
  /\ LetPass(a, scope)
  /\ allowed' = allowed \cup {<<a, at[a], scope>>}
  /\ UNCHANGED <<setting, at, attempts, answers, session, ran>>

HumanDenies(a) ==
  /\ stage[a] = "asked"
  /\ queue' = Tail(queue)
  /\ Answer(a, "refused")
  /\ UNCHANGED <<setting, session, grants, allowed, ran>>

(* The other gates follow the user gate, which is loaded before them: the    *)
(* barrier of the log, the fence of the proxy artifacts (experimental        *)
(* file-watch).  Each has no opinion, blocks, answers in the tool's place, or *)
(* throws, which failOnError makes a refusal of the call.                    *)
FencesPass(a) ==
  /\ stage[a] = "fences"
  /\ To(a, "ready")
  /\ UNCHANGED <<setting, at, attempts, answers, session, queue, grants, consent, allowed, ran>>

FenceStops(a) ==
  /\ stage[a] = "fences"
  /\ Answer(a, "refused")
  /\ UNCHANGED <<setting, session, queue, grants, allowed, ran>>

-----------------------------------------------------------------------------
(* One attempt of the tool.  A call of the plane is not dispatched once the  *)
(* run was cancelled; an inline tool is entered all the same.                *)
MayDispatch(a) == Call(a) \in Plane => ~stopped[a]

Attempt(a) ==
  /\ stage[a] = "ready"
  /\ IF MayDispatch(a)
     THEN /\ To(a, "running")
          /\ attempts' = [attempts EXCEPT ![a] = @ + 1]
          /\ ran' = ran \cup {[agent |-> a, n |-> at[a], why |-> consent[a], after |-> stopped[a]]}
          /\ UNCHANGED <<at, answers, consent>>
     ELSE /\ Answer(a, IF attempts[a] = 0 THEN "refused" ELSE "result")
          /\ UNCHANGED ran
  /\ UNCHANGED <<setting, session, queue, grants, allowed>>

ToolReturns(a) ==
  /\ stage[a] = "running"
  /\ Answer(a, "result") \/ AnswerAndStop(a)   \* TOOL_STOP_LOOP
  /\ UNCHANGED <<setting, session, queue, grants, allowed, ran>>

(* A transient error, with an attempt left: the backoff before the next one. *)
ToolTransient(a) ==
  /\ stage[a] = "running" /\ attempts[a] < MaxAttempts
  /\ To(a, "backoff")
  /\ UNCHANGED <<setting, at, attempts, answers, session, queue, grants, consent, allowed, ran>>

BackoffOver(a) ==
  /\ stage[a] = "backoff"
  /\ To(a, "ready")
  /\ UNCHANGED <<setting, at, attempts, answers, session, queue, grants, consent, allowed, ran>>

(* cancel(): what listens to the signal of the run settles at once: a live   *)
(* prompt towards deny, a call of the plane as an error, the backoff by      *)
(* waking up.  A prompt that waits for its turn does not listen.             *)
Abort(a) ==
  /\ batch[a] # <<>> /\ ~stopped[a]
  /\ stopped' = [stopped EXCEPT ![a] = TRUE]
  /\ queue' = IF stage[a] = "asked" THEN Tail(queue) ELSE queue
  /\ CASE stage[a] = "asked" -> Answer(a, "refused")
       [] stage[a] = "running" /\ Call(a) \in Plane -> Answer(a, "result")
       [] stage[a] = "backoff" -> To(a, "ready") /\ UNCHANGED <<at, attempts, answers, consent>>
       [] OTHER -> UNCHANGED <<stage, at, attempts, answers, consent>>
  /\ UNCHANGED <<setting, ended, grants, allowed, ran>>

(* SESSION_END: the session was deleted, its run cancelled, or its task is   *)
(* over; the gate forgets its grants.                                        *)
SessionEnd(a) ==
  /\ ~ended[a] /\ (stopped[a] \/ stage[a] = "idle")
  /\ ended' = [ended EXCEPT ![a] = TRUE]
  /\ grants' = [grants EXCEPT ![a] = {}]
  /\ UNCHANGED <<setting, at, stage, attempts, answers, stopped, queue, consent, allowed, ran>>

Step(a) ==
  \/ Execute(a) \/ Refused(a) \/ FencesPass(a) \/ FenceStops(a)
  \/ RuleDecides(a) \/ GrantDecides(a) \/ EnqueuePrompt(a) \/ PromptTurn(a)
  \/ HumanAllows(a, "once") \/ HumanAllows(a, "session") \/ HumanDenies(a)
  \/ Attempt(a) \/ ToolReturns(a) \/ ToolTransient(a) \/ BackoffOver(a)
  \/ Abort(a) \/ SessionEnd(a)

ToolNext == \E a \in Agents : Step(a)

ToolSpec == ToolInit /\ [][ToolNext]_toolVars

-----------------------------------------------------------------------------
(* A tool is entered only behind a reason of its own: a rule that allows     *)
(* the call, the human's yes to this very call, or a yes for the session     *)
(* given earlier, in this session, to a call for the same targets.           *)
RunsOnConsent ==
  \A r \in ran :
    LET call == batch[r.agent][r.n]
        granted == \E n \in 1 .. r.n - 1 :
                     <<r.agent, n, "session">> \in allowed /\ batch[r.agent][n] = call
    IN \/ r.why = "rule" /\ rules[call] = "allow"
       \/ r.why = "grant" /\ granted
       \/ r.why \in {"once", "session"} /\ <<r.agent, r.n, r.why>> \in allowed

(* A call of the plane never leaves the process after the cancel of its run. *)
PlaneHearsCancel == \A r \in ran : r.after => batch[r.agent][r.n] \notin Plane

(* Every call gets one answer, in the order of the reply: an idle agent      *)
(* answered them all, and the answer is a result exactly when the tool was    *)
(* entered.                                                                 *)
AnsweredInOrder ==
  \A a \in Agents :
    /\ Len(answers[a]) = at[a] - 1
    /\ stage[a] = "idle" => Len(answers[a]) = Len(batch[a])
    /\ \A n \in 1 .. Len(answers[a]) :
         answers[a][n] = "result" <=> \E r \in ran : r.agent = a /\ r.n = n

(* The human has one question at a time, never one of a cancelled run, and   *)
(* whoever waits in the queue waits once.                                    *)
OneQuestion ==
  /\ \A a \in Agents : stage[a] = "asked" => Head(queue) = a /\ ~stopped[a]
  /\ \A a \in Agents : stage[a] \in {"queued", "asked"} <=> \E i \in 1 .. Len(queue) : queue[i] = a
  /\ \A i, j \in 1 .. Len(queue) : queue[i] = queue[j] => i = j

(* What a dead session was granted is forgotten for good.                   *)
DeadForget == \A a \in Agents : ended[a] => grants[a] = {}

(* The approvals and the answers of the tool executor (tool-executor.ts,     *)
(* user-gate/index.ts).                                                      *)
CallsAreGated ==
  ToolTypes /\ RunsOnConsent /\ PlaneHearsCancel /\ AnsweredInOrder /\ OneQuestion /\ DeadForget
=============================================================================
