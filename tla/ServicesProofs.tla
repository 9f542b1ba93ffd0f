---------------------------- MODULE ServicesProofs ----------------------------
(***************************************************************************)
(* Proofs about the calls of an agent: those of its tools (ToolCalls), for *)
(* any agents, targets, rules, replies and number of attempts, and that of *)
(* its model (LlmCall), for any number of retries and length of stream;    *)
(* about the connection to an MCP server (McpClient), for any number of    *)
(* requests, questions of the server, pages of tools and early answers;    *)
(* and about the row of a session in the index (SessionIndex), for any     *)
(* number of records, derivations, crashes and losses of the index.        *)
(***************************************************************************)
EXTENDS MCServices, FiniteSetTheorems, SequenceTheorems, WellFoundedInduction,
        TLAPS

-----------------------------------------------------------------------------
(* The calls of the tools.                                                 *)

Stages == {"idle", "gate", "queued", "asked", "fences", "ready", "running", "backoff"}
Prompting == {"queued", "asked"}

(* The stages of a call that the user gate let pass.                        *)
Passed == {"fences", "ready", "running", "backoff"}

-----------------------------------------------------------------------------
(* The inductive invariant                                                 *)

Shape ==
  /\ ToolTypes
  /\ batch \in [Agents -> Seq(Targets)] /\ at \in [Agents -> Nat]

(* Where the loop over the calls is: the answers end where the call under    *)
(* way begins, and attempts are counted from the gates to the answer.        *)
Position(a) ==
  /\ stage[a] = "idle" <=> at[a] = Len(batch[a]) + 1
  /\ Len(answers[a]) = at[a] - 1
  /\ attempts[a] > 0 => stage[a] \in {"ready", "running", "backoff"}
  /\ stage[a] \in {"running", "backoff"} => attempts[a] > 0
  /\ stage[a] \in {"ready", "backoff"} => attempts[a] < MaxAttempts

(* A tool was entered for the calls answered with a result, and for the call *)
(* under way once it has made an attempt.                                   *)
Entered(a, n) == \E r \in ran : r.agent = a /\ r.n = n

Entries(a) ==
  /\ \A r \in ran : r.agent = a => r.n \in 1 .. at[a]
  /\ Entered(a, at[a]) <=> attempts[a] > 0
  /\ \A n \in 1 .. Len(answers[a]) : answers[a][n] = "result" <=> Entered(a, n)

(* Why call n of an agent may run.                                          *)
Reason(a, n, why) ==
  \/ why = "rule" /\ rules[batch[a][n]] = "allow"
  \/ /\ why = "grant"
     /\ \E m \in 1 .. n - 1 : <<a, m, "session">> \in allowed /\ batch[a][m] = batch[a][n]
  \/ why \in {"once", "session"} /\ <<a, n, why>> \in allowed

(* The call past the gate, the calls that ran and the grants all go back to   *)
(* a rule or a human's yes; a grant was given to a call at or before this.    *)
Backed(a) ==
  /\ stage[a] \in Passed => Reason(a, at[a], consent[a])
  /\ \A r \in ran : r.agent = a => Reason(a, r.n, r.why)
  /\ \A t \in grants[a] : \E n \in 1 .. at[a] :
       /\ <<a, n, "session">> \in allowed /\ batch[a][n] = t
       /\ n = at[a] => stage[a] \in Passed

Heard(a) == \A r \in ran : r.agent = a /\ r.after => batch[a][r.n] \notin Plane

(* A session that ended has no grants, and no question that could give one.  *)
Ends(a) == ended[a] => grants[a] = {} /\ (stopped[a] \/ stage[a] = "idle")

AgentInv(a) == Position(a) /\ Entries(a) /\ Backed(a) /\ Heard(a) /\ Ends(a)

ToolInv == Shape /\ (\A a \in Agents : AgentInv(a)) /\ OneQuestion

(* The invariant says what the property does.                               *)
LEMMA Gating == ToolInv => CallsAreGated
<1> SUFFICES ASSUME ToolInv PROVE CallsAreGated
  OBVIOUS
<1>1. ToolTypes /\ OneQuestion BY DEF ToolInv, Shape
<1>2. RunsOnConsent
  <2>1. ASSUME NEW r \in ran PROVE Reason(r.agent, r.n, r.why)
    BY DEF ToolInv, Shape, ToolTypes, AgentInv, Backed
  <2>2. QED BY <2>1 DEF RunsOnConsent, Reason
<1>3. PlaneHearsCancel BY DEF ToolInv, Shape, ToolTypes, AgentInv, Heard, PlaneHearsCancel
<1>4. AnsweredInOrder
  <2>1. ASSUME NEW a \in Agents PROVE Position(a) /\ Entries(a) BY DEF ToolInv, AgentInv
  <2>2. ASSUME NEW a \in Agents, stage[a] = "idle" PROVE Len(answers[a]) = Len(batch[a])
    BY <2>1, <2>2 DEF Position, ToolInv, Shape
  <2>3. QED BY <2>1, <2>2 DEF AnsweredInOrder, Position, Entries, Entered
<1>5. DeadForget BY DEF ToolInv, AgentInv, Ends, DeadForget
<1>6. QED BY <1>1, <1>2, <1>3, <1>4, <1>5 DEF CallsAreGated

-----------------------------------------------------------------------------
(* The queue of the prompts                                                *)

(* Nobody enters or leaves the queue: the step moves `a` between stages on   *)
(* the same side, and asks for nobody.                                     *)
LEMMA QueueRests ==
  ASSUME ToolInv, NEW a \in Agents, queue' = queue, stage' \in [Agents -> Stages],
         \A b \in Agents \ {a} : stage'[b] = stage[b] /\ stopped'[b] = stopped[b],
         stage'[a] \in Prompting <=> stage[a] \in Prompting,
         stage'[a] = "asked" => Head(queue) = a /\ ~stopped'[a]
  PROVE  OneQuestion'
BY DEF ToolInv, OneQuestion, Prompting

(* The head of the queue leaves it.                                         *)
LEMMA QueueAdvances ==
  ASSUME ToolInv, NEW a \in Agents, stage[a] \in Prompting, Head(queue) = a, queue' = Tail(queue),
         stage' \in [Agents -> Stages], stage'[a] \notin Prompting,
         \A b \in Agents \ {a} : stage'[b] = stage[b] /\ stopped'[b] = stopped[b]
  PROVE  OneQuestion' /\ queue' \in Seq(Agents)
<1>1. queue \in Seq(Agents) BY DEF ToolInv, Shape, ToolTypes
<1>2. queue # <<>> BY <1>1 DEF ToolInv, OneQuestion, Prompting
<1>3. /\ queue' \in Seq(Agents) /\ Len(queue') = Len(queue) - 1
      /\ \A i \in 1 .. Len(queue') : queue'[i] = queue[i + 1] /\ i + 1 \in 1 .. Len(queue)
  BY <1>1, <1>2
<1>4. queue[1] = a /\ 1 \in 1 .. Len(queue) BY <1>1, <1>2
<1>5. ASSUME NEW i \in 1 .. Len(queue), NEW j \in 1 .. Len(queue), queue[i] = queue[j]
      PROVE  i = j
  BY <1>5 DEF ToolInv, OneQuestion
<1>6. \A i, j \in 1 .. Len(queue') : queue'[i] = queue'[j] => i = j
  <2> SUFFICES ASSUME NEW i \in 1 .. Len(queue'), NEW j \in 1 .. Len(queue'),
                      queue'[i] = queue'[j]
               PROVE  i = j
    OBVIOUS
  <2>1. i + 1 = j + 1 BY <1>3, <1>5
  <2>2. i \in Nat /\ j \in Nat BY <1>1, <1>2, <1>3
  <2>3. QED BY <2>1, <2>2
<1>7. ASSUME NEW b \in Agents
      PROVE  (\E i \in 1 .. Len(queue') : queue'[i] = b)
               <=> b # a /\ \E i \in 1 .. Len(queue) : queue[i] = b
  <2>1. ASSUME NEW i \in 1 .. Len(queue') PROVE queue'[i] # a
    <3>1. i + 1 # 1 BY <1>1, <1>2, <1>3
    <3>2. QED BY <3>1, <1>3, <1>4, <1>5
  <2>2. ASSUME NEW i \in 1 .. Len(queue), queue[i] # a
        PROVE  i - 1 \in 1 .. Len(queue') /\ queue'[i - 1] = queue[i]
    BY <1>1, <1>2, <1>3, <1>4, <2>2
  <2>3. ASSUME NEW i \in 1 .. Len(queue), queue[i] = b, b # a
        PROVE  \E j \in 1 .. Len(queue') : queue'[j] = b
    <3>1. queue[i] # a BY <2>3
    <3>2. i - 1 \in 1 .. Len(queue') /\ queue'[i - 1] = b BY <2>2, <2>3, <3>1
    <3>3. QED BY <3>2
  <2>4. ASSUME NEW i \in 1 .. Len(queue'), queue'[i] = b
        PROVE  b # a /\ \E j \in 1 .. Len(queue) : queue[j] = b
    BY <1>3, <2>1, <2>4
  <2>5. QED BY <2>3, <2>4
<1>8. \A b \in Agents : stage[b] \in Prompting <=> \E i \in 1 .. Len(queue) : queue[i] = b
  BY DEF ToolInv, OneQuestion, Prompting
<1>9. ASSUME NEW b \in Agents
      PROVE  stage'[b] \in Prompting <=> \E i \in 1 .. Len(queue') : queue'[i] = b
  BY <1>7, <1>8
<1>10. ASSUME NEW b \in Agents, stage'[b] = "asked" PROVE FALSE
  BY <1>10 DEF ToolInv, OneQuestion, Prompting
<1>11. QED BY <1>3, <1>6, <1>9, <1>10 DEF OneQuestion, Prompting

(* Somebody who is not in the queue joins it.                               *)
LEMMA QueueGrows ==
  ASSUME ToolInv, NEW a \in Agents, stage[a] \notin Prompting, queue' = Append(queue, a),
         stage' = [stage EXCEPT ![a] = "queued"], UNCHANGED stopped
  PROVE  OneQuestion' /\ queue' \in Seq(Agents)
<1>1. queue \in Seq(Agents) /\ stage \in [Agents -> Stages]
  BY DEF ToolInv, Shape, ToolTypes, Stages
<1>2. /\ queue' \in Seq(Agents) /\ Len(queue') = Len(queue) + 1
      /\ \A i \in 1 .. Len(queue) : queue'[i] = queue[i] /\ i \in 1 .. Len(queue')
      /\ queue'[Len(queue) + 1] = a /\ Len(queue) + 1 \in 1 .. Len(queue')
      /\ \A i \in 1 .. Len(queue') : i \in 1 .. Len(queue) \/ i = Len(queue) + 1
  BY <1>1
<1>3. \A i \in 1 .. Len(queue) : queue[i] # a
  BY DEF ToolInv, OneQuestion, Prompting
<1>4. \A i, j \in 1 .. Len(queue') : queue'[i] = queue'[j] => i = j
  BY <1>2, <1>3 DEF ToolInv, OneQuestion
<1>5. \A b \in Agents : stage'[b] \in Prompting <=> \E i \in 1 .. Len(queue') : queue'[i] = b
  BY <1>1, <1>2 DEF ToolInv, OneQuestion, Prompting
<1>6. ASSUME NEW b \in Agents, stage'[b] = "asked" PROVE Head(queue') = b /\ ~stopped'[b]
  <2>1. stage[b] = "asked" BY <1>1, <1>6
  <2>2. Head(queue) = b /\ queue # <<>> /\ ~stopped[b]
    BY <2>1, <1>1 DEF ToolInv, OneQuestion
  <2>3. QED BY <2>2, <1>1
<1>7. QED BY <1>2, <1>4, <1>5, <1>6 DEF OneQuestion, Prompting
-----------------------------------------------------------------------------
(* What a step of one agent does to the others, and to itself              *)

(* A step of `a` touches nothing of another agent; what it adds to the        *)
(* history is its own.                                                      *)
Apart(a) ==
  /\ \A b \in Agents \ {a} :
       /\ batch'[b] = batch[b] /\ at'[b] = at[b] /\ stage'[b] = stage[b]
       /\ attempts'[b] = attempts[b] /\ answers'[b] = answers[b] /\ consent'[b] = consent[b]
       /\ stopped'[b] = stopped[b] /\ ended'[b] = ended[b] /\ grants'[b] = grants[b]
  /\ rules' = rules /\ allowed \subseteq allowed' /\ ran \subseteq ran'
  /\ \A r \in ran' \ ran : r.agent = a

LEMMA OthersKeep ==
  ASSUME ToolInv, NEW a \in Agents, Apart(a), NEW b \in Agents \ {a}
  PROVE  AgentInv(b)'
<1>1. AgentInv(b) BY DEF ToolInv
<1>2. /\ batch'[b] = batch[b] /\ at'[b] = at[b] /\ stage'[b] = stage[b]
      /\ attempts'[b] = attempts[b] /\ answers'[b] = answers[b] /\ consent'[b] = consent[b]
      /\ stopped'[b] = stopped[b] /\ ended'[b] = ended[b] /\ grants'[b] = grants[b]
      /\ rules' = rules /\ allowed \subseteq allowed'
      /\ \A r \in ran' : r.agent = b <=> r \in ran /\ r.agent = b
      /\ ran \subseteq ran'
  BY DEF Apart
<1>3. Position(b)' BY <1>1, <1>2 DEF AgentInv, Position
<1>4. Entries(b)'
  <2>1. \A n : Entered(b, n)' <=> Entered(b, n) BY <1>2 DEF Entered
  <2>2. QED BY <1>1, <1>2, <2>1 DEF AgentInv, Entries
<1>5. Backed(b)'
  <2>1. ASSUME NEW n, NEW why, Reason(b, n, why) PROVE Reason(b, n, why)'
    BY <1>2, <2>1 DEF Reason
  <2>2. stage'[b] \in Passed => Reason(b, at[b], consent[b])'
    BY <1>1, <1>2, <2>1 DEF AgentInv, Backed
  <2>3. \A r \in ran' : r.agent = b => Reason(b, r.n, r.why)'
    BY <1>1, <1>2, <2>1 DEF AgentInv, Backed
  <2>4. \A t \in grants'[b] : \E n \in 1 .. at'[b] :
           /\ <<b, n, "session">> \in allowed' /\ batch'[b][n] = t
           /\ n = at'[b] => stage'[b] \in Passed
    BY <1>1, <1>2 DEF AgentInv, Backed
  <2>5. QED BY <1>2, <2>2, <2>3, <2>4 DEF Backed, Reason
<1>6. Heard(b)' BY <1>1, <1>2 DEF AgentInv, Heard
<1>7. Ends(b)' BY <1>1, <1>2 DEF AgentInv, Ends
<1>8. QED BY <1>3, <1>4, <1>5, <1>6, <1>7 DEF AgentInv

LEMMA AllKeep ==
  ASSUME ToolInv, NEW a \in Agents, Apart(a), AgentInv(a)', Shape', OneQuestion'
  PROVE  ToolInv'
BY OthersKeep DEF ToolInv

(* The call under way is one of the reply.                                  *)
LEMMA UnderWay ==
  ASSUME ToolInv, NEW a \in Agents, stage[a] # "idle"
  PROVE  /\ at[a] \in 1 .. Len(batch[a]) /\ at[a] + 1 \in 1 .. Len(batch[a]) + 1
         /\ batch[a] \in Seq(Targets) /\ Call(a) \in Targets
         /\ Len(batch[a]) \in Nat /\ at[a] \in Nat /\ at[a] >= 1
<1>1. /\ batch[a] \in Seq(Targets) /\ at[a] \in Nat /\ at[a] \in 1 .. Len(batch[a]) + 1
      /\ at[a] # Len(batch[a]) + 1
  BY DEF ToolInv, Shape, ToolTypes, AgentInv, Position
<1>2. at[a] \in 1 .. Len(batch[a]) BY <1>1
<1>3. QED BY <1>1, <1>2 DEF Call

(* What is left of a prompt, a consent and an attempt when a call is closed.  *)
Rests(a) ==
  /\ UNCHANGED <<setting, ended, grants, allowed, ran>>
  /\ stopped' \in {stopped, [stopped EXCEPT ![a] = TRUE]}

(* An answer keeps the invariant of its agent, and takes it to the next call  *)
(* or to idleness: it is a result exactly when the tool was entered.         *)
LEMMA AnswerKeeps ==
  ASSUME ToolInv, NEW a \in Agents, NEW outcome \in Outcomes,
         stage[a] # "idle", Answer(a, outcome), outcome = "result" <=> attempts[a] > 0,
         Rests(a), queue' \in Seq(Agents)
  PROVE  Shape' /\ Apart(a) /\ AgentInv(a)' /\ stage'[a] \in {"idle", "gate"}
<1>1. /\ at[a] \in 1 .. Len(batch[a]) /\ at[a] + 1 \in 1 .. Len(batch[a]) + 1
      /\ batch[a] \in Seq(Targets) /\ Len(batch[a]) \in Nat /\ at[a] \in Nat /\ at[a] >= 1
  BY UnderWay
<1>2. /\ answers' = [answers EXCEPT ![a] = Append(@, outcome)]
      /\ at' = [at EXCEPT ![a] = @ + 1]
      /\ stage' = [stage EXCEPT ![a] = IF Len(batch[a]) - at[a] = 0 THEN "idle" ELSE "gate"]
      /\ attempts' = [attempts EXCEPT ![a] = 0] /\ consent' = [consent EXCEPT ![a] = "none"]
      /\ UNCHANGED <<rules, batch, ended, grants, allowed, ran>>
      /\ stopped' \in {stopped, [stopped EXCEPT ![a] = TRUE]}
  BY DEF Answer, Closes, To, Left, Rests, setting
<1>3. /\ answers \in [Agents -> Seq(Outcomes)] /\ at \in [Agents -> Nat]
      /\ stage \in [Agents -> Stages] /\ attempts \in [Agents -> 0 .. MaxAttempts]
      /\ consent \in [Agents -> Consents] /\ stopped \in [Agents -> BOOLEAN]
  BY DEF ToolInv, Shape, ToolTypes, Stages
<1>4. Shape'
  <2>1. \A b \in Agents : /\ batch'[b] \in {<<>>} \cup Replies[b]
                          /\ at'[b] \in 1 .. Len(batch'[b]) + 1
    BY <1>1, <1>2, <1>3 DEF ToolInv, Shape, ToolTypes
  <2>2. answers' \in [Agents -> Seq(Outcomes)] BY <1>2, <1>3
  <2>3. at' \in [Agents -> Nat] BY <1>2, <1>3
  <2>4. stage' \in [Agents -> Stages] BY <1>2, <1>3 DEF Stages
  <2>5. attempts' \in [Agents -> 0 .. MaxAttempts] /\ consent' \in [Agents -> Consents]
    BY <1>2, <1>3, ToolCallsAssumption DEF Consents
  <2>6. stopped' \in [Agents -> BOOLEAN] BY <1>2, <1>3
  <2>7. QED
    BY <1>2, <2>1, <2>2, <2>3, <2>4, <2>5, <2>6 DEF ToolInv, Shape, ToolTypes, Stages
<1>5. Apart(a) BY <1>2, <1>3 DEF Apart, ToolInv, Shape, ToolTypes
<1>6. AgentInv(a) BY DEF ToolInv
<1>7. Len(answers[a]) = at[a] - 1 BY <1>6 DEF AgentInv, Position
<1>8. /\ Len(answers'[a]) = at[a] /\ answers'[a][at[a]] = outcome
      /\ \A n \in 1 .. at[a] - 1 : answers'[a][n] = answers[a][n]
  <2>1. answers'[a] = Append(answers[a], outcome) /\ answers[a] \in Seq(Outcomes)
    BY <1>2, <1>3
  <2>2. QED BY <1>1, <1>7, <2>1
<1>9. at'[a] = at[a] + 1 /\ attempts'[a] = 0 /\ stage'[a] \in {"idle", "gate"}
  BY <1>2, <1>3
<1>10. Position(a)'
  <2>1. stage'[a] = "idle" <=> at'[a] = Len(batch'[a]) + 1
    <3>1. batch' = batch BY <1>2
    <3>2. stage'[a] = IF Len(batch[a]) - at[a] = 0 THEN "idle" ELSE "gate" BY <1>2, <1>3
    <3>3. at'[a] = at[a] + 1 BY <1>2, <1>3
    <3>4. QED BY <1>1, <3>1, <3>2, <3>3
  <2>2. QED BY <1>1, <1>8, <1>9, <2>1 DEF Position
<1>11. Entries(a)'
  <2>1. \A n : Entered(a, n)' <=> Entered(a, n) BY <1>2 DEF Entered
  <2>2. \A r \in ran : r.agent = a => r.n \in 1 .. at[a] BY <1>6 DEF AgentInv, Entries
  <2>3. ~Entered(a, at[a] + 1) BY <1>1, <2>2 DEF Entered
  <2>4. \A r \in ran' : r.agent = a => r.n \in 1 .. at'[a] BY <1>1, <1>2, <1>9, <2>2
  <2>5. Entered(a, at[a]) <=> outcome = "result" BY <1>6 DEF AgentInv, Entries
  <2>6. \A n \in 1 .. at[a] - 1 : answers[a][n] = "result" <=> Entered(a, n)
    BY <1>6, <1>7 DEF AgentInv, Entries
  <2>7. \A n \in 1 .. at[a] : n \in 1 .. at[a] - 1 \/ n = at[a] BY <1>1
  <2>8. \A n \in 1 .. at[a] : answers'[a][n] = "result" <=> Entered(a, n)
    BY <1>8, <2>5, <2>6, <2>7
  <2>9. QED BY <1>8, <1>9, <2>1, <2>3, <2>4, <2>8 DEF Entries
<1>12. Backed(a)'
  <2>1. \A r \in ran' : r.agent = a => Reason(a, r.n, r.why)'
    BY <1>2, <1>6 DEF AgentInv, Backed, Reason
  <2>2. \A t \in grants'[a] : \E n \in 1 .. at'[a] :
           /\ <<a, n, "session">> \in allowed' /\ batch'[a][n] = t
           /\ n = at'[a] => stage'[a] \in Passed
    <3> SUFFICES ASSUME NEW t \in grants[a]
                 PROVE  \E n \in 1 .. at[a] + 1 :
                          /\ <<a, n, "session">> \in allowed /\ batch[a][n] = t
                          /\ n = at[a] + 1 => stage'[a] \in Passed
      BY <1>2, <1>9
    <3>1. PICK n \in 1 .. at[a] : <<a, n, "session">> \in allowed /\ batch[a][n] = t
      BY <1>6 DEF AgentInv, Backed
    <3>2. n \in 1 .. at[a] + 1 /\ n # at[a] + 1 BY <1>1
    <3>3. QED BY <3>1, <3>2
  <2>3. QED BY <1>9, <2>1, <2>2 DEF Backed, Passed
<1>13. Heard(a)' BY <1>2, <1>6 DEF AgentInv, Heard
<1>14. Ends(a)'
  <2>1. stopped[a] => stopped'[a] BY <1>2, <1>3
  <2>2. ended'[a] => stopped[a] \/ stage[a] = "idle" BY <1>2, <1>6 DEF AgentInv, Ends
  <2>3. QED BY <1>2, <1>6, <2>1, <2>2 DEF AgentInv, Ends
<1>15. QED BY <1>4, <1>5, <1>9, <1>10, <1>11, <1>12, <1>13, <1>14 DEF AgentInv
(* A tool that stops the loop answers its own call and those that are left.  *)
LEMMA ToolStopKeeps ==
  ASSUME ToolInv, NEW a \in Agents,
         stage[a] = "running", AnswerAndStop(a), Rests(a), UNCHANGED <<stopped, queue>>
  PROVE  Shape' /\ Apart(a) /\ AgentInv(a)' /\ stage'[a] = "idle"
<1>1. /\ at[a] \in 1 .. Len(batch[a]) /\ batch[a] \in Seq(Targets)
      /\ Len(batch[a]) \in Nat /\ at[a] \in Nat /\ at[a] >= 1
  BY UnderWay
<1> DEFINE left == Len(batch[a]) - at[a]
           rest == [n \in 1 .. left |-> "skipped"]
<1>2. /\ answers' = [answers EXCEPT ![a] = Append(@, "result") \o rest]
      /\ at' = [at EXCEPT ![a] = Len(batch[a]) + 1]
      /\ stage' = [stage EXCEPT ![a] = "idle"]
      /\ attempts' = [attempts EXCEPT ![a] = 0] /\ consent' = [consent EXCEPT ![a] = "none"]
      /\ UNCHANGED <<rules, batch, ended, grants, allowed, ran, stopped, queue>>
  BY DEF AnswerAndStop, Closes, To, Left, Rests, setting
<1>3. /\ answers \in [Agents -> Seq(Outcomes)] /\ at \in [Agents -> Nat]
      /\ stage \in [Agents -> Stages] /\ attempts \in [Agents -> 0 .. MaxAttempts]
      /\ consent \in [Agents -> Consents] /\ stopped \in [Agents -> BOOLEAN]
  BY DEF ToolInv, Shape, ToolTypes, Stages
<1>4. AgentInv(a) BY DEF ToolInv
<1>5. left \in Nat /\ rest \in Seq(Outcomes) /\ Len(rest) = left
  <2>1. left \in Nat BY <1>1
  <2>2. \A n \in 1 .. left : "skipped" \in Outcomes BY DEF Outcomes
  <2>3. QED BY <2>1, <2>2
<1>6. /\ answers'[a] \in Seq(Outcomes) /\ Len(answers'[a]) = Len(batch[a])
      /\ \A n \in 1 .. at[a] - 1 : answers'[a][n] = answers[a][n]
      /\ answers'[a][at[a]] = "result"
      /\ \A n \in at[a] + 1 .. Len(batch[a]) : answers'[a][n] = "skipped"
  <2> DEFINE own == Append(answers[a], "result")
  <2>1. answers'[a] = own \o rest /\ "result" \in Outcomes BY <1>2, <1>3 DEF Outcomes
  <2>2. Len(answers[a]) = at[a] - 1 BY <1>4 DEF AgentInv, Position
  <2>3. /\ own \in Seq(Outcomes) /\ Len(own) = at[a] /\ own[at[a]] = "result"
        /\ \A n \in 1 .. at[a] - 1 : own[n] = answers[a][n]
    BY <1>1, <1>3, <2>1, <2>2
  <2> HIDE DEF own, rest
  <2>4. /\ own \o rest \in Seq(Outcomes) /\ Len(own \o rest) = Len(own) + Len(rest)
        /\ \A n \in 1 .. Len(own) + Len(rest) :
             (own \o rest)[n] = IF n <= Len(own) THEN own[n] ELSE rest[n - Len(own)]
    BY <1>5, <2>3, ConcatProperties
  <2>5. \A n \in 1 .. left : rest[n] = "skipped" BY DEF rest
  <2>6. Len(own) + Len(rest) = Len(batch[a]) BY <1>1, <1>5, <2>3
  <2>7. \A n \in 1 .. at[a] : n \in 1 .. Len(batch[a]) /\ n <= Len(own) BY <1>1, <2>3
  <2>8. \A n \in at[a] + 1 .. Len(batch[a]) :
           n \in 1 .. Len(batch[a]) /\ ~(n <= Len(own)) /\ n - Len(own) \in 1 .. left
    BY <1>1, <1>5, <2>3
  <2>9. \A n \in 1 .. at[a] - 1 : n \in 1 .. at[a] BY <1>1
  <2>10. \A n \in 1 .. at[a] : answers'[a][n] = own[n]
    BY <2>1, <2>4, <2>6, <2>7
  <2>11. \A n \in at[a] + 1 .. Len(batch[a]) : answers'[a][n] = "skipped"
    BY <2>1, <2>4, <2>5, <2>6, <2>8
  <2>12. at[a] \in 1 .. at[a] BY <1>1
  <2>13. QED BY <2>1, <2>3, <2>4, <2>6, <2>9, <2>10, <2>11, <2>12
<1>7. Shape'
  <2>1. \A b \in Agents : /\ batch'[b] \in {<<>>} \cup Replies[b]
                          /\ at'[b] \in 1 .. Len(batch'[b]) + 1
    BY <1>1, <1>2, <1>3 DEF ToolInv, Shape, ToolTypes
  <2>2. answers' \in [Agents -> Seq(Outcomes)] BY <1>2, <1>3, <1>6
  <2>3. at' \in [Agents -> Nat] BY <1>1, <1>2, <1>3
  <2>4. stage' \in [Agents -> Stages] BY <1>2, <1>3 DEF Stages
  <2>5. attempts' \in [Agents -> 0 .. MaxAttempts] /\ consent' \in [Agents -> Consents]
    BY <1>2, <1>3, ToolCallsAssumption DEF Consents
  <2>6. QED BY <1>2, <2>1, <2>2, <2>3, <2>4, <2>5 DEF ToolInv, Shape, ToolTypes, Stages
<1>8. Apart(a) BY <1>2, <1>3 DEF Apart, ToolInv, Shape, ToolTypes
<1>9. at'[a] = Len(batch[a]) + 1 /\ attempts'[a] = 0 /\ stage'[a] = "idle"
  BY <1>2, <1>3
<1>10. Position(a)'
  <2>1. Len(batch'[a]) = Len(batch[a]) BY <1>2
  <2>2. Len(answers'[a]) = at'[a] - 1 BY <1>1, <1>6, <1>9
  <2>3. QED BY <1>9, <2>1, <2>2 DEF Position
<1>11. Entries(a)'
  <2>1. \A n : Entered(a, n)' <=> Entered(a, n) BY <1>2 DEF Entered
  <2>2. \A r \in ran : r.agent = a => r.n \in 1 .. at[a] BY <1>4 DEF AgentInv, Entries
  <2>3. \A n \in at[a] + 1 .. Len(batch[a]) + 1 : ~Entered(a, n)
    BY <1>1, <2>2 DEF Entered
  <2>4. \A r \in ran' : r.agent = a => r.n \in 1 .. at'[a] BY <1>1, <1>2, <1>9, <2>2
  <2>5. Entered(a, at[a]) BY <1>4 DEF AgentInv, Entries, Position
  <2>6. \A n \in 1 .. at[a] - 1 : answers[a][n] = "result" <=> Entered(a, n)
    BY <1>4 DEF AgentInv, Entries, Position
  <2>7. \A n \in 1 .. Len(batch[a]) : \/ n \in 1 .. at[a] - 1 \/ n = at[a]
                                      \/ n \in at[a] + 1 .. Len(batch[a])
    BY <1>1
  <2>8. \A n \in at[a] + 1 .. Len(batch[a]) : n \in at[a] + 1 .. Len(batch[a]) + 1
    BY <1>1
  <2>9. \A n \in 1 .. Len(batch[a]) : answers'[a][n] = "result" <=> Entered(a, n)
    BY <1>6, <2>3, <2>5, <2>6, <2>7, <2>8
  <2>10. Len(batch[a]) + 1 \in at[a] + 1 .. Len(batch[a]) + 1 BY <1>1
  <2>11. QED BY <1>6, <1>9, <2>1, <2>3, <2>4, <2>9, <2>10 DEF Entries
<1>12. Backed(a)'
  <2>1. \A r \in ran' : r.agent = a => Reason(a, r.n, r.why)'
    BY <1>2, <1>4 DEF AgentInv, Backed, Reason
  <2>2. \A t \in grants'[a] : \E n \in 1 .. at'[a] :
           /\ <<a, n, "session">> \in allowed' /\ batch'[a][n] = t
           /\ n = at'[a] => stage'[a] \in Passed
    <3> SUFFICES ASSUME NEW t \in grants[a]
                 PROVE  \E n \in 1 .. Len(batch[a]) + 1 :
                          /\ <<a, n, "session">> \in allowed /\ batch[a][n] = t
                          /\ n = Len(batch[a]) + 1 => stage'[a] \in Passed
      BY <1>2, <1>9
    <3>1. PICK n \in 1 .. at[a] : <<a, n, "session">> \in allowed /\ batch[a][n] = t
      BY <1>4 DEF AgentInv, Backed
    <3>2. n \in 1 .. Len(batch[a]) + 1 /\ n # Len(batch[a]) + 1 BY <1>1
    <3>3. QED BY <3>1, <3>2
  <2>3. QED BY <1>9, <2>1, <2>2 DEF Backed, Passed
<1>13. Heard(a)' BY <1>2, <1>4 DEF AgentInv, Heard
<1>14. Ends(a)' BY <1>2, <1>4, <1>9 DEF AgentInv, Ends
<1>15. QED BY <1>7, <1>8, <1>9, <1>10, <1>11, <1>12, <1>13, <1>14 DEF AgentInv
(* A step between two waits of one call: nothing is answered, entered or      *)
(* granted; a call that passes the gate has its reason, and keeps it.        *)
LEMMA MoveKeeps ==
  ASSUME ToolInv, NEW a \in Agents,
         UNCHANGED <<setting, at, attempts, answers, ended, grants, allowed, ran>>,
         queue' \in Seq(Agents), stopped' \in {stopped, [stopped EXCEPT ![a] = TRUE]},
         stage' \in [Agents -> Stages], consent' \in [Agents -> Consents],
         \A b \in Agents \ {a} : stage'[b] = stage[b] /\ consent'[b] = consent[b],
         stage'[a] = "idle" <=> stage[a] = "idle",
         stage[a] \in Passed => stage'[a] \in Passed,
         stage'[a] \in Passed => Reason(a, at[a], consent'[a]),
         attempts[a] > 0 => stage'[a] \in {"ready", "running", "backoff"},
         stage'[a] \in {"running", "backoff"} => attempts[a] > 0,
         stage'[a] \in {"ready", "backoff"} => attempts[a] < MaxAttempts
  PROVE  Shape' /\ Apart(a) /\ AgentInv(a)'
<1>1. AgentInv(a) /\ Shape /\ UNCHANGED <<rules, batch>> BY DEF ToolInv, setting
<1>2. stopped' \in [Agents -> BOOLEAN] /\ (stopped[a] => stopped'[a])
      /\ \A b \in Agents \ {a} : stopped'[b] = stopped[b]
  BY <1>1 DEF Shape, ToolTypes
<1>3. Shape' BY <1>1, <1>2 DEF Shape, ToolTypes, Stages
<1>4. Apart(a) BY <1>1, <1>2 DEF Apart
<1>5. Position(a)' BY <1>1 DEF AgentInv, Position
<1>6. Entries(a)' BY <1>1 DEF AgentInv, Entries, Entered
<1>7. Backed(a)' BY <1>1 DEF AgentInv, Backed, Reason
<1>8. Heard(a)' BY <1>1 DEF AgentInv, Heard
<1>9. Ends(a)' BY <1>1, <1>2 DEF AgentInv, Ends
<1>10. QED BY <1>3, <1>4, <1>5, <1>6, <1>7, <1>8, <1>9 DEF AgentInv

-----------------------------------------------------------------------------
(* Every step keeps the invariant                                          *)

LEMMA ExecuteKeeps ==
  ASSUME ToolInv, NEW a \in Agents, Execute(a)
  PROVE  ToolInv'
<1>1. PICK b \in Replies[a] : batch' = [batch EXCEPT ![a] = b] BY DEF Execute
<1>2. /\ batch[a] = <<>> /\ ~ended[a] /\ stage' = [stage EXCEPT ![a] = "gate"]
      /\ UNCHANGED <<rules, at, attempts, answers, stopped, ended, queue, grants, consent,
                     allowed, ran>>
  BY DEF Execute, To, session
<1>3. b \in Seq(Targets) /\ Len(b) \in Nat /\ Len(b) > 0
  BY ToolCallsAssumption
<1>4. Shape /\ AgentInv(a) BY DEF ToolInv
<1>5. at[a] = 1 BY <1>2, <1>4 DEF Shape, ToolTypes
<1>6. stage[a] = "idle" BY <1>2, <1>4, <1>5 DEF AgentInv, Position
<1>7. attempts[a] = 0 /\ Len(answers[a]) = 0
  BY <1>4, <1>5, <1>6 DEF AgentInv, Position, Shape, ToolTypes
<1>8. \A r \in ran : r.agent # a
  <2>1. ASSUME NEW r \in ran, r.agent = a PROVE Entered(a, 1)
    BY <1>4, <1>5, <2>1 DEF AgentInv, Entries, Entered
  <2>2. QED BY <1>4, <1>5, <1>7, <2>1 DEF AgentInv, Entries
<1>9. grants[a] = {}
  <2>1. \A n \in 1 .. at[a] : n = at[a] BY <1>5
  <2>2. QED BY <1>4, <1>6, <2>1 DEF AgentInv, Backed, Passed, Shape, ToolTypes
<1>10. stage'[a] = "gate" /\ batch'[a] = b BY <1>1, <1>2, <1>4 DEF Shape, ToolTypes
<1>11. Shape'
  <2>1. \A c \in Agents : /\ batch'[c] \in {<<>>} \cup Replies[c]
                          /\ at'[c] \in 1 .. Len(batch'[c]) + 1
    BY <1>1, <1>2, <1>3, <1>4, <1>5 DEF Shape, ToolTypes
  <2>2. batch' \in [Agents -> Seq(Targets)] BY <1>1, <1>3, <1>4 DEF Shape
  <2>3. stage' \in [Agents -> Stages] BY <1>2, <1>4 DEF Stages, Shape, ToolTypes
  <2>4. QED BY <1>2, <1>4, <2>1, <2>2, <2>3 DEF Shape, ToolTypes, Stages
<1>12. Apart(a) BY <1>1, <1>2, <1>4 DEF Apart, Shape, ToolTypes
<1>13. AgentInv(a)'
  <2>1. Position(a)' BY <1>2, <1>3, <1>5, <1>7, <1>10 DEF Position
  <2>2. Entries(a)' BY <1>2, <1>5, <1>7, <1>8 DEF Entries, Entered
  <2>3. Backed(a)' BY <1>2, <1>8, <1>9, <1>10 DEF Backed, Passed
  <2>4. Heard(a)' BY <1>2, <1>8 DEF Heard
  <2>5. Ends(a)' BY <1>2, <1>4 DEF Ends
  <2>6. QED BY <2>1, <2>2, <2>3, <2>4, <2>5 DEF AgentInv
<1>14. OneQuestion'
  <2>1. stage[a] \notin Prompting /\ stage'[a] \notin Prompting /\ stage'[a] # "asked"
    BY <1>6, <1>10 DEF Prompting
  <2>2. stage' \in [Agents -> Stages] BY <1>11 DEF Shape, ToolTypes, Stages
  <2>3. \A c \in Agents \ {a} : stage'[c] = stage[c] /\ stopped'[c] = stopped[c]
    BY <1>12 DEF Apart
  <2>4. QED BY <1>2, <2>1, <2>2, <2>3, QueueRests
<1>15. QED BY <1>11, <1>12, <1>13, <1>14, AllKeep

(* An answer given outside the queue, and one given at its head.             *)
LEMMA AnswersKeep ==
  ASSUME ToolInv, NEW a \in Agents, NEW outcome \in Outcomes,
         stage[a] # "idle", Answer(a, outcome), outcome = "result" <=> attempts[a] > 0,
         Rests(a),
         \/ queue' = queue /\ stage[a] \notin Prompting
         \/ queue' = Tail(queue) /\ stage[a] \in Prompting /\ Head(queue) = a
  PROVE  ToolInv'
<1>1. queue' \in Seq(Agents)
  <2>1. CASE queue' = queue BY <2>1 DEF ToolInv, Shape, ToolTypes
  <2>2. CASE queue' = Tail(queue) /\ stage[a] \in Prompting /\ Head(queue) = a
    <3>1. queue \in Seq(Agents) /\ queue # <<>>
      BY <2>2 DEF ToolInv, Shape, ToolTypes, OneQuestion, Prompting
    <3>2. QED BY <2>2, <3>1
  <2>3. QED BY <2>1, <2>2
<1>2. Shape' /\ Apart(a) /\ AgentInv(a)' /\ stage'[a] \in {"idle", "gate"}
  BY <1>1, AnswerKeeps
<1>3. /\ stage' \in [Agents -> Stages] /\ stage'[a] \notin Prompting /\ stage'[a] # "asked"
      /\ \A b \in Agents \ {a} : stage'[b] = stage[b] /\ stopped'[b] = stopped[b]
  BY <1>2 DEF Apart, Shape, ToolTypes, Stages, Prompting
<1>4. OneQuestion' BY <1>3, QueueRests, QueueAdvances
<1>5. QED BY <1>2, <1>4, AllKeep

(* A step between two waits outside the queue.                              *)
LEMMA MovesKeep ==
  ASSUME ToolInv, NEW a \in Agents, NEW to \in Stages, stage' = [stage EXCEPT ![a] = to],
         UNCHANGED <<setting, at, attempts, answers, session, queue, grants, allowed, ran>>,
         consent' \in [Agents -> Consents],
         \A b \in Agents \ {a} : consent'[b] = consent[b],
         stage[a] \notin Prompting \cup {"idle"}, to \in Passed,
         Reason(a, at[a], consent'[a]),
         attempts[a] > 0 => to \in {"ready", "running", "backoff"},
         to \in {"running", "backoff"} => attempts[a] > 0,
         to \in {"ready", "backoff"} => attempts[a] < MaxAttempts
  PROVE  ToolInv'
<1>1. /\ stage' \in [Agents -> Stages] /\ stage'[a] = to
      /\ \A b \in Agents \ {a} : stage'[b] = stage[b]
      /\ queue' \in Seq(Agents) /\ stopped' = stopped /\ ended' = ended
  BY DEF ToolInv, Shape, ToolTypes, Stages, session
<1>2. to \notin Prompting \cup {"idle"} /\ to # "asked" BY DEF Passed, Prompting
<1>3. Shape' /\ Apart(a) /\ AgentInv(a)' BY <1>1, <1>2, MoveKeeps
<1>4. OneQuestion' BY <1>1, <1>2, QueueRests
<1>5. QED BY <1>3, <1>4, AllKeep
LEMMA RefusalsKeep ==
  ASSUME ToolInv, NEW a \in Agents,
         Refused(a) \/ HumanDenies(a) \/ FenceStops(a)
  PROVE  ToolInv'
<1>1. "refused" \in Outcomes BY DEF Outcomes
<1>2. Answer(a, "refused") /\ Rests(a) /\ stage[a] # "idle" /\ ~(attempts[a] > 0)
  BY DEF Refused, HumanDenies, FenceStops, Rests, session, ToolInv, AgentInv, Position
<1>3. \/ queue' = queue /\ stage[a] \notin Prompting
      \/ queue' = Tail(queue) /\ stage[a] \in Prompting /\ Head(queue) = a
  BY DEF Refused, HumanDenies, FenceStops, Prompting, ToolInv, OneQuestion
<1>4. QED BY <1>1, <1>2, <1>3, AnswersKeep

LEMMA RuleKeeps ==
  ASSUME ToolInv, NEW a \in Agents, RuleDecides(a)
  PROVE  ToolInv'
<1>1. /\ stage[a] = "gate" /\ ~(attempts[a] > 0) /\ stage[a] \notin Prompting \cup {"idle"}
      /\ UNCHANGED <<setting, session, queue, grants, allowed, ran>>
  BY DEF RuleDecides, Prompting, ToolInv, AgentInv, Position
<1>2. CASE rules[Call(a)] = "allow" /\ LetPass(a, "rule") /\ UNCHANGED <<at, answers, attempts>>
  <2>1. /\ consent' = [consent EXCEPT ![a] = "rule"] /\ stage' = [stage EXCEPT ![a] = "fences"]
        /\ consent \in [Agents -> Consents]
    BY <1>2 DEF LetPass, To, ToolInv, Shape, ToolTypes
  <2>2. "fences" \in Stages /\ "fences" \in Passed /\ "rule" \in Consents
    BY DEF Stages, Passed, Consents
  <2>3. Reason(a, at[a], consent'[a]) BY <1>2, <2>1 DEF Reason, Call
  <2>4. QED BY <1>1, <1>2, <2>1, <2>2, <2>3, MovesKeep
<1>3. CASE Answer(a, "refused")
  <2>1. Rests(a) /\ "refused" \in Outcomes BY <1>1 DEF Rests, session, Outcomes
  <2>2. QED BY <1>1, <1>3, <2>1, AnswersKeep
<1>4. QED BY <1>2, <1>3 DEF RuleDecides

(* A grant of this session was given to an earlier call for the same targets. *)
LEMMA GrantKeeps ==
  ASSUME ToolInv, NEW a \in Agents, GrantDecides(a)
  PROVE  ToolInv'
<1>1. /\ stage[a] = "gate" /\ ~(attempts[a] > 0) /\ stage[a] \notin Prompting \cup {"idle"}
      /\ UNCHANGED <<setting, at, attempts, answers, session, queue, grants, allowed, ran>>
      /\ consent' = [consent EXCEPT ![a] = "grant"] /\ stage' = [stage EXCEPT ![a] = "fences"]
      /\ consent \in [Agents -> Consents]
  BY DEF GrantDecides, LetPass, To, Prompting, ToolInv, AgentInv, Position, Shape, ToolTypes
<1>2. Call(a) \in grants[a] BY DEF GrantDecides, Granted
<1>3. PICK n \in 1 .. at[a] : /\ <<a, n, "session">> \in allowed /\ batch[a][n] = Call(a)
                              /\ n = at[a] => stage[a] \in Passed
  BY <1>2 DEF ToolInv, AgentInv, Backed
<1>4. n \in 1 .. at[a] - 1 BY <1>1, <1>3 DEF Passed, ToolInv, Shape
<1>5. Reason(a, at[a], consent'[a]) BY <1>1, <1>3, <1>4 DEF Reason, Call
<1>6. "fences" \in Stages /\ "fences" \in Passed /\ "grant" \in Consents
  BY DEF Stages, Passed, Consents
<1>7. QED BY <1>1, <1>5, <1>6, MovesKeep

LEMMA EnqueueKeeps ==
  ASSUME ToolInv, NEW a \in Agents, EnqueuePrompt(a)
  PROVE  ToolInv'
<1>1. /\ stage[a] = "gate" /\ ~(attempts[a] > 0)
      /\ queue' = Append(queue, a) /\ stage' = [stage EXCEPT ![a] = "queued"]
      /\ UNCHANGED <<setting, at, attempts, answers, stopped, ended, grants, consent, allowed, ran>>
      /\ consent \in [Agents -> Consents]
  BY DEF EnqueuePrompt, To, session, ToolInv, AgentInv, Position, Shape, ToolTypes
<1>2. OneQuestion' /\ queue' \in Seq(Agents) BY <1>1, QueueGrows DEF Prompting
<1>3. stage' \in [Agents -> Stages] /\ stage'[a] = "queued"
      /\ \A b \in Agents \ {a} : stage'[b] = stage[b]
  BY <1>1 DEF ToolInv, Shape, ToolTypes, Stages
<1>4. Shape' /\ Apart(a) /\ AgentInv(a)' BY <1>1, <1>2, <1>3, MoveKeeps DEF Passed
<1>5. QED BY <1>2, <1>4, AllKeep

LEMMA TurnKeeps ==
  ASSUME ToolInv, NEW a \in Agents, PromptTurn(a)
  PROVE  ToolInv'
<1>1. /\ stage[a] = "queued" /\ Head(queue) = a /\ ~(attempts[a] > 0)
      /\ UNCHANGED <<setting, stopped, ended, grants, allowed, ran>>
      /\ consent \in [Agents -> Consents] /\ queue \in Seq(Agents)
  BY DEF PromptTurn, session, ToolInv, AgentInv, Position, Shape, ToolTypes
<1>2. CASE /\ ~stopped[a] /\ To(a, "asked")
           /\ UNCHANGED <<queue, at, attempts, answers, consent>>
  <2>1. /\ stage' \in [Agents -> Stages] /\ stage'[a] = "asked"
        /\ \A b \in Agents \ {a} : stage'[b] = stage[b]
    BY <1>2 DEF To, ToolInv, Shape, ToolTypes, Stages
  <2>2. Shape' /\ Apart(a) /\ AgentInv(a)' BY <1>1, <1>2, <2>1, MoveKeeps DEF Passed
  <2>3. OneQuestion' BY <1>1, <1>2, <2>1, QueueRests DEF Prompting
  <2>4. QED BY <2>2, <2>3, AllKeep
<1>3. CASE queue' = Tail(queue) /\ Answer(a, "refused")
  <2>1. Rests(a) /\ "refused" \in Outcomes /\ stage[a] \in Prompting
    BY <1>1 DEF Rests, setting, Outcomes, Prompting
  <2>2. QED BY <1>1, <1>3, <2>1, AnswersKeep
<1>4. QED BY <1>2, <1>3 DEF PromptTurn

(* The human's yes is the reason of the call, and of the grant it leaves; a   *)
(* session that ended is stopped or idle, and asks nobody.                  *)
LEMMA AllowKeeps ==
  ASSUME ToolInv, NEW a \in Agents, NEW scope \in {"once", "session"}, HumanAllows(a, scope)
  PROVE  ToolInv'
<1>1. /\ stage[a] = "asked" /\ ~(attempts[a] > 0) /\ queue' = Tail(queue)
      /\ grants' = IF scope = "session" THEN [grants EXCEPT ![a] = @ \cup {Call(a)}] ELSE grants
      /\ consent' = [consent EXCEPT ![a] = scope] /\ stage' = [stage EXCEPT ![a] = "fences"]
      /\ allowed' = allowed \cup {<<a, at[a], scope>>}
      /\ UNCHANGED <<rules, batch, at, attempts, answers, stopped, ended, ran>>
  BY DEF HumanAllows, LetPass, To, Remember, setting, session, ToolInv, AgentInv, Position
<1>2. Shape /\ AgentInv(a) BY DEF ToolInv
<1>3. Head(queue) = a /\ ~stopped[a] BY <1>1 DEF ToolInv, OneQuestion
<1>4. /\ at[a] \in 1 .. Len(batch[a]) /\ at[a] \in Nat /\ at[a] >= 1 /\ Call(a) \in Targets
  BY <1>1, UnderWay
<1>5. /\ stage' \in [Agents -> Stages] /\ stage'[a] = "fences" /\ stage'[a] \notin Prompting
      /\ \A b \in Agents \ {a} : stage'[b] = stage[b] /\ stopped'[b] = stopped[b]
  BY <1>1, <1>2 DEF Shape, ToolTypes, Stages, Prompting
<1>6. OneQuestion' /\ queue' \in Seq(Agents)
  BY <1>1, <1>3, <1>5, QueueAdvances DEF Prompting
<1>7. consent'[a] = scope BY <1>1, <1>2 DEF Shape, ToolTypes
<1>8. Shape'
  <2>1. grants' \in [Agents -> SUBSET Targets] BY <1>1, <1>2, <1>4 DEF Shape, ToolTypes
  <2>2. allowed' \subseteq Agents \X Nat \X {"once", "session"}
    BY <1>1, <1>2, <1>4 DEF Shape, ToolTypes
  <2>3. consent' \in [Agents -> Consents] BY <1>1, <1>2 DEF Shape, ToolTypes, Consents
  <2>4. QED BY <1>1, <1>2, <1>5, <1>6, <2>1, <2>2, <2>3 DEF Shape, ToolTypes, Stages
<1>9. Apart(a) BY <1>1, <1>2 DEF Apart, Shape, ToolTypes
<1>10. Position(a)' BY <1>1, <1>2, <1>5 DEF AgentInv, Position
<1>11. Entries(a)' BY <1>1, <1>2 DEF AgentInv, Entries, Entered
<1>12. Backed(a)'
  <2>1. Reason(a, at[a], consent[a])' BY <1>1, <1>7 DEF Reason
  <2>2. \A r \in ran' : r.agent = a => Reason(a, r.n, r.why)'
    BY <1>1, <1>2 DEF AgentInv, Backed, Reason
  <2>3. \A t \in grants'[a] : \E n \in 1 .. at'[a] :
           <<a, n, "session">> \in allowed' /\ batch'[a][n] = t
    <3> SUFFICES ASSUME NEW t \in grants'[a]
                 PROVE  \E n \in 1 .. at[a] : <<a, n, "session">> \in allowed' /\ batch[a][n] = t
      BY <1>1
    <3>1. CASE t \in grants[a] BY <1>1, <1>2, <3>1 DEF AgentInv, Backed
    <3>2. CASE t \notin grants[a]
      <4>1. scope = "session" /\ t = Call(a) BY <1>1, <1>2, <3>2 DEF Shape, ToolTypes
      <4>2. at[a] \in 1 .. at[a] BY <1>4
      <4>3. QED BY <1>1, <4>1, <4>2 DEF Call
    <3>3. QED BY <3>1, <3>2
  <2>4. QED BY <1>5, <2>1, <2>2, <2>3 DEF Backed, Passed
<1>13. Heard(a)' BY <1>1, <1>2 DEF AgentInv, Heard
<1>14. Ends(a)' BY <1>1, <1>2, <1>3 DEF AgentInv, Ends
<1>15. QED BY <1>6, <1>8, <1>9, <1>10, <1>11, <1>12, <1>13, <1>14, AllKeep DEF AgentInv

LEMMA PassKeeps ==
  ASSUME ToolInv, NEW a \in Agents,
         FencesPass(a) \/ ToolTransient(a) \/ BackoffOver(a)
  PROVE  ToolInv'
<1>1. PICK to \in {"ready", "backoff"} :
        /\ stage' = [stage EXCEPT ![a] = to]
        /\ attempts[a] > 0 => to \in {"ready", "running", "backoff"}
        /\ to \in {"running", "backoff"} => attempts[a] > 0
        /\ to \in {"ready", "backoff"} => attempts[a] < MaxAttempts
  <2>1. Position(a) /\ attempts[a] \in 0 .. MaxAttempts BY DEF ToolInv, AgentInv, Shape, ToolTypes
  <2>2. QED
    BY <2>1, ToolCallsAssumption DEF FencesPass, ToolTransient, BackoffOver, To, Position
<1>2. /\ UNCHANGED <<setting, at, attempts, answers, session, queue, grants, consent, allowed, ran>>
      /\ stage[a] \in Passed /\ stage[a] \notin Prompting \cup {"idle"}
      /\ consent \in [Agents -> Consents]
  BY DEF FencesPass, ToolTransient, BackoffOver, Passed, Prompting, ToolInv, Shape, ToolTypes
<1>3. Reason(a, at[a], consent[a]) BY <1>2 DEF ToolInv, AgentInv, Backed
<1>4. to \in Stages /\ to \in Passed BY DEF Stages, Passed
<1>5. QED BY <1>1, <1>2, <1>3, <1>4, MovesKeep
(* A tool is entered with the reason the gate left; one of the plane only     *)
(* when its run was not cancelled.                                          *)
LEMMA EnterKeeps ==
  ASSUME ToolInv, NEW a \in Agents, Attempt(a), MayDispatch(a)
  PROVE  ToolInv'
<1> DEFINE run == [agent |-> a, n |-> at[a], why |-> consent[a], after |-> stopped[a]]
<1>1. /\ stage[a] = "ready" /\ stage' = [stage EXCEPT ![a] = "running"]
      /\ attempts' = [attempts EXCEPT ![a] = @ + 1] /\ ran' = ran \cup {run}
      /\ UNCHANGED <<rules, batch, at, answers, stopped, ended, queue, grants, consent, allowed>>
  BY DEF Attempt, To, setting, session
<1>2. Shape /\ AgentInv(a) BY DEF ToolInv
<1>3. at[a] \in 1 .. Len(batch[a]) /\ at[a] \in Nat /\ at[a] >= 1
  BY <1>1, UnderWay
<1>4. /\ attempts[a] \in Nat /\ MaxAttempts \in Nat /\ attempts[a] < MaxAttempts
      /\ attempts'[a] = attempts[a] + 1 /\ Len(answers[a]) = at[a] - 1
  BY <1>1, <1>2, ToolCallsAssumption DEF Shape, ToolTypes, AgentInv, Position
<1>5. /\ stage' \in [Agents -> Stages] /\ stage'[a] = "running"
      /\ \A b \in Agents \ {a} : stage'[b] = stage[b] /\ stopped'[b] = stopped[b]
  BY <1>1, <1>2 DEF Shape, ToolTypes, Stages
<1>6. run.agent = a /\ run.n = at[a] /\ run.why = consent[a] /\ run.after = stopped[a]
  OBVIOUS
<1>7. Shape'
  <2>1. attempts' \in [Agents -> 0 .. MaxAttempts] BY <1>1, <1>2, <1>4 DEF Shape, ToolTypes
  <2>2. run \in [agent : Agents, n : Nat, why : Consents, after : BOOLEAN]
    BY <1>2, <1>3 DEF Shape, ToolTypes
  <2>3. ran' \subseteq [agent : Agents, n : Nat, why : Consents, after : BOOLEAN]
    BY <1>1, <1>2, <2>2 DEF Shape, ToolTypes
  <2>4. QED BY <1>1, <1>2, <1>5, <2>1, <2>3 DEF Shape, ToolTypes, Stages
<1> HIDE DEF run
<1>8. Apart(a) BY <1>1, <1>2, <1>6 DEF Apart, Shape, ToolTypes
<1>9. Position(a)' BY <1>1, <1>2, <1>4, <1>5 DEF AgentInv, Position
<1>10. Entries(a)'
  <2>1. ran' = ran \cup {run} BY <1>1
  <2>2. \A r \in ran' : r.agent = a => r.n \in 1 .. at[a]
    <3>1. at[a] \in 1 .. at[a] BY <1>3
    <3>2. QED BY <1>2, <1>6, <2>1, <3>1 DEF AgentInv, Entries
  <2>3. \A n : Entered(a, n)' <=> Entered(a, n) \/ n = at[a]
    BY <1>6, <2>1 DEF Entered
  <2>4. \A n \in 1 .. Len(answers[a]) : n # at[a] BY <1>3, <1>4
  <2>5. \A n \in 1 .. Len(answers[a]) : answers[a][n] = "result" <=> Entered(a, n)'
    BY <1>2, <2>3, <2>4 DEF AgentInv, Entries
  <2>6. Entered(a, at[a])' /\ attempts'[a] > 0 BY <1>1, <1>4, <2>3
  <2>7. QED BY <1>1, <2>2, <2>5, <2>6 DEF Entries
<1>11. Backed(a)'
  <2>1. Reason(a, at[a], consent[a]) /\ stage[a] \in Passed
    BY <1>1, <1>2 DEF AgentInv, Backed, Passed
  <2>2. \A n, why : Reason(a, n, why)' <=> Reason(a, n, why) BY <1>1 DEF Reason
  <2>3. \A r \in ran' : r.agent = a => Reason(a, r.n, r.why)
    BY <1>1, <1>2, <1>6, <2>1 DEF AgentInv, Backed
  <2>4. Reason(a, at[a], consent[a])' /\ stage'[a] \in Passed
    BY <1>1, <1>5, <2>1 DEF Reason, Passed
  <2>5. QED BY <1>1, <1>2, <2>1, <2>2, <2>3, <2>4 DEF AgentInv, Backed
<1>12. Heard(a)'
  <2>1. run.after => batch[a][run.n] \notin Plane
    BY <1>2, <1>6 DEF MayDispatch, Call, Shape, ToolTypes
  <2>2. QED BY <1>1, <1>2, <2>1 DEF AgentInv, Heard
<1>13. Ends(a)' BY <1>1, <1>2 DEF AgentInv, Ends
<1>14. OneQuestion' BY <1>1, <1>5, QueueRests DEF Prompting
<1>15. QED BY <1>7, <1>8, <1>9, <1>10, <1>11, <1>12, <1>13, <1>14, AllKeep DEF AgentInv

LEMMA AttemptKeeps ==
  ASSUME ToolInv, NEW a \in Agents, Attempt(a)
  PROVE  ToolInv'
<1>1. CASE MayDispatch(a) BY <1>1, EnterKeeps
<1>2. CASE ~MayDispatch(a)
  <2> DEFINE outcome == IF attempts[a] = 0 THEN "refused" ELSE "result"
  <2>1. /\ stage[a] = "ready" /\ Answer(a, outcome) /\ Rests(a) /\ queue' = queue
        /\ attempts[a] \in 0 .. MaxAttempts
    BY <1>2 DEF Attempt, Rests, session, ToolInv, Shape, ToolTypes
  <2>2. outcome \in Outcomes /\ (outcome = "result" <=> attempts[a] > 0)
    BY <2>1, ToolCallsAssumption DEF Outcomes
  <2>3. stage[a] # "idle" /\ stage[a] \notin Prompting BY <2>1 DEF Prompting
  <2> HIDE DEF outcome
  <2>4. QED BY <2>1, <2>2, <2>3, AnswersKeep
<1>3. QED BY <1>1, <1>2

LEMMA ReturnKeeps ==
  ASSUME ToolInv, NEW a \in Agents, ToolReturns(a)
  PROVE  ToolInv'
<1>1. /\ stage[a] = "running" /\ stage[a] \notin Prompting \cup {"idle"} /\ attempts[a] > 0
      /\ Rests(a) /\ UNCHANGED <<stopped, queue>>
  BY DEF ToolReturns, Rests, session, Prompting, ToolInv, AgentInv, Position
<1>2. CASE Answer(a, "result")
  <2>1. "result" \in Outcomes BY DEF Outcomes
  <2>2. QED BY <1>1, <1>2, <2>1, AnswersKeep
<1>3. CASE AnswerAndStop(a)
  <2>1. Shape' /\ Apart(a) /\ AgentInv(a)' /\ stage'[a] = "idle" BY <1>1, <1>3, ToolStopKeeps
  <2>2. /\ stage' \in [Agents -> Stages] /\ stage'[a] \notin Prompting
        /\ \A b \in Agents \ {a} : stage'[b] = stage[b]
    BY <2>1 DEF Apart, Shape, ToolTypes, Stages, Prompting
  <2>3. OneQuestion' BY <1>1, <2>1, <2>2, QueueRests
  <2>4. QED BY <2>1, <2>3, AllKeep
<1>4. QED BY <1>2, <1>3 DEF ToolReturns

(* The cancel settles what listens to it; a prompt that waits its turn stays  *)
(* in the queue, and is not asked any more.                                 *)
LEMMA AbortKeeps ==
  ASSUME ToolInv, NEW a \in Agents, Abort(a)
  PROVE  ToolInv'
<1>1. /\ ~stopped[a] /\ stopped' = [stopped EXCEPT ![a] = TRUE]
      /\ UNCHANGED <<setting, ended, grants, allowed, ran>>
      /\ queue' = IF stage[a] = "asked" THEN Tail(queue) ELSE queue
      /\ stage \in [Agents -> Stages] /\ consent \in [Agents -> Consents]
      /\ stopped \in [Agents -> BOOLEAN] /\ queue \in Seq(Agents) /\ AgentInv(a)
  BY DEF Abort, ToolInv, Shape, ToolTypes, Stages
<1>2. Rests(a) BY <1>1 DEF Rests
<1>3. CASE stage[a] = "asked"
  <2>1. Answer(a, "refused") /\ ~(attempts[a] > 0) /\ Head(queue) = a /\ "refused" \in Outcomes
    BY <1>1, <1>3 DEF Abort, AgentInv, Position, ToolInv, OneQuestion, Outcomes
  <2>2. QED BY <1>1, <1>2, <1>3, <2>1, AnswersKeep DEF Prompting
<1>4. CASE stage[a] = "running" /\ Call(a) \in Plane
  <2>1. Answer(a, "result") /\ attempts[a] > 0 /\ "result" \in Outcomes
    BY <1>1, <1>4 DEF Abort, AgentInv, Position, Outcomes
  <2>2. QED BY <1>1, <1>2, <1>4, <2>1, AnswersKeep DEF Prompting
<1>5. CASE stage[a] # "asked" /\ ~(stage[a] = "running" /\ Call(a) \in Plane)
  <2>1. /\ UNCHANGED <<at, attempts, answers, consent>> /\ queue' = queue
        /\ \/ stage[a] = "backoff" /\ stage' = [stage EXCEPT ![a] = "ready"]
           \/ stage[a] # "backoff" /\ stage' = stage
    BY <1>1, <1>5 DEF Abort, To
  <2>2. /\ stage' \in [Agents -> Stages]
        /\ \A b \in Agents \ {a} : stage'[b] = stage[b] /\ stopped'[b] = stopped[b]
        /\ \/ stage[a] = "backoff" /\ stage'[a] = "ready"
           \/ stage[a] # "backoff" /\ stage'[a] = stage[a]
    BY <1>1, <2>1 DEF Stages
  <2>3. /\ stage'[a] = "idle" <=> stage[a] = "idle"
        /\ stage[a] \in Passed <=> stage'[a] \in Passed
        /\ stage'[a] \in Prompting <=> stage[a] \in Prompting /\ stage'[a] # "asked"
    BY <1>5, <2>2 DEF Passed, Prompting
  <2>4. /\ attempts[a] > 0 => stage'[a] \in {"ready", "running", "backoff"}
        /\ stage'[a] \in {"running", "backoff"} => attempts[a] > 0
        /\ stage'[a] \in {"ready", "backoff"} => attempts[a] < MaxAttempts
    BY <1>1, <2>2 DEF AgentInv, Position
  <2>5. stage'[a] \in Passed => Reason(a, at[a], consent[a])
    BY <1>1, <2>3 DEF AgentInv, Backed
  <2>6. Shape' /\ Apart(a) /\ AgentInv(a)'
    BY <1>1, <2>1, <2>2, <2>3, <2>4, <2>5, MoveKeeps
  <2>7. OneQuestion' BY <1>5, <2>1, <2>2, <2>3, QueueRests
  <2>8. QED BY <2>6, <2>7, AllKeep
<1>6. QED BY <1>3, <1>4, <1>5

LEMMA ToolEndKeeps ==
  ASSUME ToolInv, NEW a \in Agents, SessionEnd(a)
  PROVE  ToolInv'
<1>1. /\ (stopped[a] \/ stage[a] = "idle") /\ ended' = [ended EXCEPT ![a] = TRUE] /\ grants' = [grants EXCEPT ![a] = {}]
      /\ UNCHANGED <<rules, batch, at, stage, attempts, answers, stopped, queue, consent,
                     allowed, ran>>
  BY DEF SessionEnd, setting
<1>2. Shape /\ AgentInv(a) BY DEF ToolInv
<1>3. Shape' BY <1>1, <1>2 DEF Shape, ToolTypes
<1>4. Apart(a) BY <1>1, <1>2 DEF Apart, Shape, ToolTypes
<1>5. grants'[a] = {} BY <1>1, <1>2 DEF Shape, ToolTypes
<1>6. Position(a)' /\ Entries(a)' /\ Heard(a)'
  BY <1>1, <1>2 DEF AgentInv, Position, Entries, Entered, Heard
<1>7. Backed(a)' BY <1>1, <1>2, <1>5 DEF AgentInv, Backed, Reason
<1>8. Ends(a)' BY <1>1, <1>5 DEF Ends
<1>9. OneQuestion' BY <1>1 DEF ToolInv, OneQuestion
<1>10. QED BY <1>3, <1>4, <1>6, <1>7, <1>8, <1>9, AllKeep DEF AgentInv

LEMMA ToolNextKeeps == ToolInv /\ [ToolNext]_toolVars => ToolInv'
<1> SUFFICES ASSUME ToolInv, [ToolNext]_toolVars PROVE ToolInv'
  OBVIOUS
<1>1. ASSUME NEW a \in Agents, Step(a) PROVE ToolInv'
  <2>1. CASE Execute(a) BY <2>1, ExecuteKeeps
  <2>2. CASE Refused(a) \/ HumanDenies(a) \/ FenceStops(a) BY <2>2, RefusalsKeep
  <2>3. CASE RuleDecides(a) \/ GrantDecides(a) BY <2>3, RuleKeeps, GrantKeeps
  <2>4. CASE EnqueuePrompt(a) \/ PromptTurn(a) BY <2>4, EnqueueKeeps, TurnKeeps
  <2>5. CASE HumanAllows(a, "once") \/ HumanAllows(a, "session") BY <2>5, AllowKeeps
  <2>6. CASE FencesPass(a) \/ ToolTransient(a) \/ BackoffOver(a) BY <2>6, PassKeeps
  <2>7. CASE Attempt(a) \/ ToolReturns(a) BY <2>7, AttemptKeeps, ReturnKeeps
  <2>8. CASE Abort(a) \/ SessionEnd(a) BY <2>8, AbortKeeps, ToolEndKeeps
  <2>9. QED BY <1>1, <2>1, <2>2, <2>3, <2>4, <2>5, <2>6, <2>7, <2>8 DEF Step
<1>2. CASE UNCHANGED toolVars
  <2>1. Shape' BY <1>2 DEF toolVars, ToolInv, Shape, ToolTypes
  <2>2. OneQuestion' BY <1>2 DEF toolVars, ToolInv, OneQuestion
  <2>3. ASSUME NEW a \in Agents PROVE AgentInv(a)'
    <3>1. AgentInv(a) BY DEF ToolInv
    <3>2. Position(a)' /\ Entries(a)' /\ Heard(a)' /\ Ends(a)'
      BY <1>2, <3>1 DEF toolVars, AgentInv, Position, Entries, Entered, Heard, Ends
    <3>3. Backed(a)' BY <1>2, <3>1 DEF toolVars, AgentInv, Backed, Reason
    <3>4. QED BY <3>2, <3>3 DEF AgentInv
  <2>4. QED BY <2>1, <2>2, <2>3 DEF ToolInv
<1>3. QED BY <1>1, <1>2 DEF ToolNext

LEMMA ToolInitHolds == ToolInit => ToolInv
<1> SUFFICES ASSUME ToolInit PROVE ToolInv
  OBVIOUS
<1>1. /\ batch = [a \in Agents |-> <<>>] /\ at = [a \in Agents |-> 1]
      /\ stage = [a \in Agents |-> "idle"] /\ attempts = [a \in Agents |-> 0]
      /\ answers = [a \in Agents |-> <<>>] /\ queue = <<>> /\ allowed = {} /\ ran = {}
      /\ ended = [a \in Agents |-> FALSE] /\ grants = [a \in Agents |-> {}]
  BY DEF ToolInit
<1>2. <<>> \in Seq(Targets) /\ <<>> \in Seq(Outcomes) /\ <<>> \in Seq(Agents) /\ Len(<<>>) = 0
  OBVIOUS
<1>3. Shape
  BY <1>2, ToolCallsAssumption DEF Shape, ToolTypes, ToolInit, Consents
<1>4. ASSUME NEW a \in Agents PROVE AgentInv(a)
  BY <1>1, <1>2 DEF AgentInv, Position, Entries, Entered, Backed, Heard, Ends, Passed
<1>5. OneQuestion BY <1>1, <1>2 DEF OneQuestion
<1>6. QED BY <1>3, <1>4, <1>5 DEF ToolInv

-----------------------------------------------------------------------------

(* Whatever the rules, the replies of the model, the human and the cancels:   *)
(* a tool runs only behind a reason of its own, a call of the plane never     *)
(* after the cancel, every call has one answer in its turn, the human has one *)
(* question at a time and a dead session no grants (tool-executor.ts,         *)
(* user-gate/index.ts).                                                      *)
THEOREM Gated == ToolSpec => []CallsAreGated
<1>1. ToolInit => ToolInv BY ToolInitHolds
<1>2. ToolInv /\ [ToolNext]_toolVars => ToolInv' BY ToolNextKeeps
<1>3. QED BY <1>1, <1>2, Gating, PTL DEF ToolSpec

-----------------------------------------------------------------------------
(* The call of the model.                                                  *)

USE CallAssumption DEF Attempts, Requests

(* What a stop leaves alone.                                                *)
Asking == {"request", "refusal", "stream"}

(* The first n fragments of a request.                                      *)
Stream(r, n) == [k \in 1 .. n |-> [r |-> r, k |-> k]]

-----------------------------------------------------------------------------
(* The inductive invariant                                                 *)

(* Every attempt is one request: the first call has made as many requests as  *)
(* attempts, the second no more than its own and those of the first.         *)
Counted ==
  /\ ~again => request = attempt
  /\ again => request <= Attempts + attempt
  /\ pc = "prepare" => request = 0
  /\ pc \in {"prepare", "rescue"} => ~again
  /\ pc = "sleep" => attempt < Attempts
  /\ pc \in Asking \cup {"answered"} => request \in Requests

(* The only socket the backend still serves is that of the request the turn  *)
(* waits for; the requests to come have sent nothing, nor has one that waits. *)
OneSocket ==
  /\ Live = IF pc \in Asking THEN {request} ELSE {}
  /\ \A r \in Requests : r > request => sent[r] = 0
  /\ pc \in {"request", "refusal"} => sent[request] = 0

(* What the buffers hold while the turn goes on; a call may be issued anew    *)
(* only after a refusal, which nobody has seen anything of.                  *)
OneText ==
  /\ pc \in {"stream", "answered"} => text = Stream(request, sent[request])
  /\ pc \in {"prepare", "request", "refusal", "sleep"} => text = <<>>
  /\ pc \in {"prepare", "request", "refusal", "sleep", "stream", "answered"} => shown = text
  /\ pc \in {"prepare", "request", "refusal", "sleep", "stream"} => partial = text
  /\ pc = "rescue" /\ Rescuable(err) => shown = <<>>
  /\ pc = "refusal" => err \in Kinds

(* A turn that asks was not stopped, or stopped before it could hear of it;   *)
(* and then it takes no event.                                              *)
Heeded ==
  /\ InCall => ~aborted
  /\ InCall \/ pc = "prepare" => (cancelled => deaf)
  /\ pc = "stream" /\ cancelled => text = <<>>

LlmInv == TypeOK /\ Counted /\ OneSocket /\ OneText /\ Heeded

(* The invariant says what the property does.                               *)
LEMMA OneIsOne == LlmInv => OneStream
<1> SUFFICES ASSUME LlmInv PROVE OneStream
  OBVIOUS
<1>1. Cardinality(Live) = (IF pc \in {"request", "refusal", "stream"} THEN 1 ELSE 0)
  BY FS_Singleton, FS_EmptySet DEF LlmInv, OneSocket, Asking
<1>2. request <= Attempts * (IF again THEN 2 ELSE 1)
  <2>1. request \in Nat /\ attempt \in Nat /\ attempt <= Attempts /\ Attempts \in Nat
    BY DEF LlmInv, TypeOK
  <2>2. request <= IF again THEN Attempts + Attempts ELSE Attempts
    BY <2>1 DEF LlmInv, Counted, TypeOK
  <2>3. QED BY <2>1, <2>2
<1>3. AnswerIsOneStream
  BY DEF LlmInv, OneText, AnswerIsOneStream, Stream
<1>4. QED BY <1>1, <1>2, <1>3 DEF OneStream, OneGeneration, LlmInv

-----------------------------------------------------------------------------
(* The sockets                                                             *)

(* Whatever settles the request under way closes its socket.                 *)
LEMMA Settles ==
  ASSUME LlmInv, pc \in Asking, NEW state \in {"refused", "closed"},
         conn' = [conn EXCEPT ![request] = state]
  PROVE  /\ conn' \in [Requests -> {"none", "asked", "refused", "open", "closed"}]
         /\ Live' = IF state = "closed" THEN {} ELSE {request}
  BY DEF LlmInv, TypeOK, OneSocket, Live, Asking, Counted

(* A new request has the only live socket.                                  *)
LEMMA Reasks ==
  ASSUME LlmInv, pc \notin Asking, request + 1 \in Requests,
         conn' = [conn EXCEPT ![request + 1] = "asked"]
  PROVE  /\ conn' \in [Requests -> {"none", "asked", "refused", "open", "closed"}]
         /\ Live' = {request + 1}
  BY DEF LlmInv, TypeOK, OneSocket, Live

(* What a step that throws must leave well typed.                           *)
BufferTypes ==
  /\ sent \in [Requests -> 0 .. Chunks] /\ text \in Seq(Fragment) /\ partial \in Seq(Fragment)
  /\ cancelled \in BOOLEAN /\ aborted \in BOOLEAN /\ deaf \in BOOLEAN

(* A call that throws ends the turn, or goes to the rescue of the first call. *)
LEMMA ThrowsKeep ==
  ASSUME LlmInv, NEW kind \in Kinds, Throws(kind), UNCHANGED <<attempt, again, request>>,
         pc # "rescue", request \in Nat,
         conn' \in [Requests -> {"none", "asked", "refused", "open", "closed"}], Live' = {},
         BufferTypes', UNCHANGED shown,
         \A r \in Requests : r # request => sent'[r] = sent[r],
         Rescuable(kind) => shown = <<>>
  PROVE  LlmInv'
<1>1. pc' \in {"rescue", "failed"} /\ err' = kind /\ (pc' = "rescue" => ~again)
  BY DEF Throws
<1>2. TypeOK' BY <1>1 DEF LlmInv, TypeOK, BufferTypes
<1>3. Counted' BY <1>1 DEF LlmInv, TypeOK, Counted, Asking
<1>4. OneSocket' BY <1>1 DEF LlmInv, TypeOK, OneSocket, Asking
<1>5. OneText' BY <1>1 DEF OneText, Rescuable
<1>6. Heeded' BY <1>1 DEF Heeded, InCall
<1>7. QED BY <1>2, <1>3, <1>4, <1>5, <1>6 DEF LlmInv

(* A request is issued with empty buffers, by a turn that may ask.           *)
LEMMA IssueKeeps ==
  ASSUME LlmInv, NEW n \in 1 .. Attempts, Issue(n), UNCHANGED <<err, sent, user>>,
         pc \notin Asking, request + 1 \in Requests,
         again' \in BOOLEAN, again' => request + 1 <= Attempts + n, ~again' => request + 1 = n,
         text' = <<>>, partial' = <<>>, shown' = <<>>,
         ~aborted, cancelled => deaf
  PROVE  LlmInv'
<1>1. /\ request' = request + 1 /\ attempt' = n /\ pc' = "request"
      /\ conn' \in [Requests -> {"none", "asked", "refused", "open", "closed"}]
      /\ Live' = {request + 1} /\ UNCHANGED <<err, sent, cancelled, aborted, deaf>>
  BY Reasks DEF Issue, user
<1>2. <<>> \in Seq(Fragment) OBVIOUS
<1>3. TypeOK' BY <1>1, <1>2 DEF LlmInv, TypeOK
<1>4. Counted' BY <1>1 DEF Counted, Asking
<1>5. OneSocket' BY <1>1 DEF LlmInv, TypeOK, OneSocket, Asking
<1>6. OneText' BY <1>1 DEF OneText
<1>7. Heeded' BY <1>1 DEF Heeded
<1>8. QED BY <1>3, <1>4, <1>5, <1>6, <1>7 DEF LlmInv
-----------------------------------------------------------------------------
(* Every step keeps the invariant                                          *)

LEMMA StartKeeps ==
  ASSUME LlmInv, Start
  PROVE  LlmInv'
<1>1. /\ pc = "prepare" /\ Perform /\ UNCHANGED <<again, sent>> /\ ~again
      /\ request = 0 /\ attempt = 0 /\ text' = <<>> /\ partial' = <<>> /\ shown' = <<>>
      /\ <<>> \in Seq(Fragment) /\ pc \notin Asking
  BY DEF Start, Perform, Emptied, LlmInv, Counted, OneText, Asking
<1>2. CASE aborted
  <2>1. /\ cancelled' = TRUE /\ Throws("cancelled") /\ "cancelled" \in Kinds
        /\ UNCHANGED <<attempt, request, conn, aborted, deaf>> /\ ~Rescuable("cancelled")
    BY <1>1, <1>2 DEF Perform, Kinds, Rescuable
  <2>2. /\ Live' = {} /\ shown' = shown
        /\ conn' \in [Requests -> {"none", "asked", "refused", "open", "closed"}]
    BY <1>1, <2>1 DEF LlmInv, TypeOK, OneSocket, OneText, Live
  <2>3. BufferTypes' BY <1>1, <2>1 DEF BufferTypes, LlmInv, TypeOK
  <2>4. QED BY <1>1, <2>1, <2>2, <2>3, ThrowsKeep
<1>3. CASE ~aborted
  <2>1. Issue(1) /\ UNCHANGED <<err, user>> BY <1>1, <1>3 DEF Perform
  <2>2. 1 \in 1 .. Attempts /\ request + 1 \in Requests BY <1>1
  <2>3. cancelled => deaf BY <1>1 DEF LlmInv, Heeded
  <2>4. QED BY <1>1, <1>3, <2>1, <2>2, <2>3, IssueKeeps DEF LlmInv, TypeOK
<1>4. QED BY <1>2, <1>3

LEMMA AnsweredKeep ==
  ASSUME LlmInv, Accept \/ \E kind \in {"busy", "quota", "overflow", "corrupt", "invalid"} : Refuse(kind)
  PROVE  LlmInv'
<1>1. /\ pc = "request" /\ request \in Requests
      /\ UNCHANGED <<attempt, again, request, sent, text, partial, shown, cancelled, aborted, deaf>>
      /\ \/ pc' = "stream" /\ err' = err /\ conn' = [conn EXCEPT ![request] = "open"]
         \/ pc' = "refusal" /\ err' \in Kinds /\ conn' = [conn EXCEPT ![request] = "refused"]
  BY DEF Accept, Refuse, Backend, output, user, Kinds, LlmInv, Counted, Asking
<1>2. /\ conn' \in [Requests -> {"none", "asked", "refused", "open", "closed"}]
      /\ Live' = {request}
  BY <1>1 DEF LlmInv, TypeOK, OneSocket, Live, Asking
<1>3. TypeOK' BY <1>1, <1>2 DEF LlmInv, TypeOK
<1>4. Counted' BY <1>1 DEF LlmInv, Counted, Asking
<1>5. OneSocket' BY <1>1, <1>2 DEF LlmInv, OneSocket, Asking
<1>6. OneText'
  <2>1. text = <<>> /\ sent[request] = 0 BY <1>1 DEF LlmInv, OneText, OneSocket
  <2>2. Stream(request, 0) = <<>> BY DEF Stream
  <2>3. QED BY <1>1, <2>1, <2>2 DEF LlmInv, OneText, Stream
<1>7. Heeded' BY <1>1 DEF LlmInv, Heeded, InCall, OneText
<1>8. QED BY <1>3, <1>4, <1>5, <1>6, <1>7 DEF LlmInv

(* A request that failed before its stream is tried again, or throws.         *)
LEMMA FailureKeeps ==
  ASSUME LlmInv, NEW kind \in Kinds, pc \in {"request", "refusal"}, conn' = Closed(request),
         RequestFailed(kind), UNCHANGED sent, Backend
  PROVE  LlmInv'
<1>1. /\ UNCHANGED <<attempt, again, request, sent, text, partial, shown, cancelled, aborted, deaf>>
      /\ pc \in Asking /\ text = <<>> /\ shown = <<>>
  BY DEF Backend, output, user, Asking, LlmInv, OneText
<1>2. /\ conn' \in [Requests -> {"none", "asked", "refused", "open", "closed"}] /\ Live' = {}
  BY <1>1, Settles DEF Closed
<1>3. CASE Retried(kind)
  <2>1. pc' = "sleep" /\ err' = kind /\ attempt < Attempts
    BY <1>3 DEF RequestFailed, Retried
  <2>2. TypeOK' BY <1>1, <1>2, <2>1 DEF LlmInv, TypeOK
  <2>3. Counted' BY <1>1, <2>1 DEF LlmInv, Counted, Asking
  <2>4. OneSocket' BY <1>1, <1>2, <2>1 DEF LlmInv, OneSocket, Asking
  <2>5. OneText' BY <1>1, <2>1 DEF LlmInv, OneText
  <2>6. Heeded' BY <1>1, <2>1 DEF LlmInv, Heeded, InCall
  <2>7. QED BY <2>2, <2>3, <2>4, <2>5, <2>6 DEF LlmInv
<1>4. CASE ~Retried(kind)
  <2>1. Throws(kind) BY <1>4 DEF RequestFailed
  <2>2. BufferTypes' /\ request \in Nat BY <1>1 DEF BufferTypes, LlmInv, TypeOK
  <2>3. QED BY <1>1, <1>2, <2>1, <2>2, ThrowsKeep
<1>5. QED BY <1>3, <1>4

LEMMA RefusalKeeps ==
  ASSUME LlmInv, RefusalRead \/ RefusalBreaks
  PROVE  LlmInv'
<1>1. CASE RefusalRead
  BY <1>1, FailureKeeps DEF RefusalRead, LlmInv, OneText
<1>2. CASE RefusalBreaks
  <2>1. /\ pc = "refusal" /\ Throws("raw") /\ "raw" \in Kinds /\ ~Rescuable("raw")
        /\ UNCHANGED <<attempt, again, request, sent, text, partial, shown, cancelled, aborted, deaf>>
    BY <1>2 DEF RefusalBreaks, Backend, output, user, Kinds, Rescuable
  <2>2. Live' = {} /\ conn' \in [Requests -> {"none", "asked", "refused", "open", "closed"}]
    BY <1>2, <2>1, Settles DEF RefusalBreaks, Closed, Asking
  <2>3. pc # "rescue" /\ BufferTypes' /\ request \in Nat BY <2>1 DEF BufferTypes, LlmInv, TypeOK
  <2>4. QED BY <2>1, <2>2, <2>3, ThrowsKeep
<1>3. QED BY <1>1, <1>2

(* Another fragment makes the stream of n a stream of n + 1.                 *)
LEMMA StreamGrows ==
  ASSUME NEW r \in Requests, NEW n \in Nat, n + 1 <= Chunks
  PROVE  /\ Append(Stream(r, n), [r |-> r, k |-> n + 1]) = Stream(r, n + 1)
         /\ Stream(r, n + 1) \in Seq(Fragment)
<1>1. \A k \in 1 .. n + 1 : [r |-> r, k |-> k] \in Fragment BY DEF Fragment
<1>2. Stream(r, n + 1) \in Seq(Fragment) BY <1>1 DEF Stream
<1>3. Stream(r, n) \in Seq(Fragment) /\ Len(Stream(r, n)) = n BY <1>1 DEF Stream
<1>4. Append(Stream(r, n), [r |-> r, k |-> n + 1]) = Stream(r, n + 1)
  BY <1>1, <1>3 DEF Stream
<1>5. QED BY <1>2, <1>4

LEMMA EventKeeps ==
  ASSUME LlmInv, Event
  PROVE  LlmInv'
<1> DEFINE k == sent[request] + 1
<1>1. /\ pc = "stream" /\ k <= Chunks /\ sent' = [sent EXCEPT ![request] = k]
      /\ UNCHANGED <<attempt, again, request, cancelled, aborted, deaf>>
      /\ request \in Requests /\ sent[request] \in Nat /\ pc \in Asking
  BY DEF Event, user, LlmInv, TypeOK, Counted, Asking
<1>2. sent' \in [Requests -> 0 .. Chunks] /\ sent'[request] = k
      /\ \A r \in Requests : r # request => sent'[r] = sent[r]
  BY <1>1 DEF LlmInv, TypeOK
<1>3. CASE cancelled
  <2>1. /\ conn' = [conn EXCEPT ![request] = "closed"] /\ Throws("cancelled")
        /\ UNCHANGED <<text, partial, shown>> /\ "cancelled" \in Kinds /\ ~Rescuable("cancelled")
    BY <1>3 DEF Event, Cancels, TornDown, Closed, output, Kinds, Rescuable
  <2>2. Live' = {} /\ conn' \in [Requests -> {"none", "asked", "refused", "open", "closed"}]
    BY <1>1, <2>1, Settles
  <2>3. BufferTypes' BY <1>1, <1>2, <2>1 DEF BufferTypes, LlmInv, TypeOK
  <2>4. QED BY <1>1, <1>2, <2>1, <2>2, <2>3, ThrowsKeep
<1>4. CASE ~cancelled
  <2>1. /\ text' = Append(text, [r |-> request, k |-> k])
        /\ partial' = text' /\ shown' = text' /\ UNCHANGED <<pc, err, conn>>
    BY <1>1, <1>4 DEF Event, LlmInv, OneText
  <2>2. text' = Stream(request, k) /\ text' \in Seq(Fragment)
    BY <1>1, <2>1, StreamGrows DEF LlmInv, OneText
  <2>3. TypeOK' BY <1>1, <1>2, <2>1, <2>2 DEF LlmInv, TypeOK
  <2>4. Counted' BY <1>1, <2>1 DEF LlmInv, Counted
  <2>5. OneSocket' BY <1>1, <1>2, <2>1 DEF LlmInv, OneSocket, Live
  <2>6. OneText' BY <1>1, <1>2, <2>1, <2>2 DEF OneText
  <2>7. Heeded' BY <1>1, <1>4, <2>1 DEF LlmInv, Heeded, InCall
  <2>8. QED BY <2>3, <2>4, <2>5, <2>6, <2>7 DEF LlmInv
<1>5. QED BY <1>3, <1>4

LEMMA LlmEndKeeps ==
  ASSUME LlmInv, End
  PROVE  LlmInv'
<1>1. /\ pc = "stream" /\ pc' = "answered" /\ partial' = <<>> /\ pc \in Asking
      /\ conn' = [conn EXCEPT ![request] = "closed"] /\ <<>> \in Seq(Fragment)
      /\ UNCHANGED <<attempt, again, err, request, sent, text, shown, cancelled, aborted, deaf>>
  BY DEF End, Closed, user, Asking
<1>2. Live' = {} /\ conn' \in [Requests -> {"none", "asked", "refused", "open", "closed"}]
  BY <1>1, Settles
<1>3. TypeOK' BY <1>1, <1>2 DEF LlmInv, TypeOK
<1>4. Counted' BY <1>1 DEF LlmInv, Counted, Asking
<1>5. OneSocket' BY <1>1, <1>2 DEF LlmInv, OneSocket, Asking
<1>6. OneText' BY <1>1 DEF LlmInv, OneText, Stream
<1>7. Heeded' BY <1>1 DEF Heeded, InCall
<1>8. QED BY <1>3, <1>4, <1>5, <1>6, <1>7 DEF LlmInv

LEMMA BreakKeeps ==
  ASSUME LlmInv, NEW kind \in {"http", "timeout", "invalid"}, StreamBreaks(kind)
  PROVE  LlmInv'
<1>1. /\ pc = "stream" /\ pc \in Asking /\ conn' = [conn EXCEPT ![request] = "closed"]
      /\ UNCHANGED <<attempt, again, request, sent, cancelled, aborted, deaf>>
      /\ kind \in Kinds /\ ~Rescuable(kind) /\ "cancelled" \in Kinds /\ ~Rescuable("cancelled")
      /\ <<>> \in Seq(Fragment)
  BY DEF StreamBreaks, TornDown, Closed, user, Kinds, Rescuable, Asking
<1>2. Live' = {} /\ conn' \in [Requests -> {"none", "asked", "refused", "open", "closed"}]
  BY <1>1, Settles
<1>3. ASSUME NEW thrown \in Kinds, ~Rescuable(thrown), Throws(thrown), UNCHANGED output
      PROVE  LlmInv'
  <2>1. BufferTypes' /\ shown' = shown /\ request \in Nat
    BY <1>1, <1>3 DEF output, BufferTypes, LlmInv, TypeOK
  <2>2. QED BY <1>1, <1>2, <1>3, <2>1, ThrowsKeep
<1>4. CASE Retried(kind) /\ ~cancelled
  <2>1. /\ text' = <<>> /\ partial' = <<>> /\ shown' = <<>> /\ pc' = "sleep" /\ err' = kind
        /\ attempt < Attempts
    BY <1>4 DEF StreamBreaks, Reset, Retried
  <2>2. TypeOK' BY <1>1, <1>2, <2>1 DEF LlmInv, TypeOK
  <2>3. Counted' BY <1>1, <2>1 DEF LlmInv, Counted, Asking
  <2>4. OneSocket' BY <1>1, <1>2, <2>1 DEF LlmInv, OneSocket, Asking
  <2>5. OneText' BY <2>1 DEF OneText
  <2>6. Heeded' BY <1>1, <1>4, <2>1 DEF LlmInv, Heeded, InCall
  <2>7. QED BY <2>2, <2>3, <2>4, <2>5, <2>6 DEF LlmInv
<1>5. QED BY <1>1, <1>3, <1>4 DEF StreamBreaks

LEMMA WakeKeeps ==
  ASSUME LlmInv, Wake
  PROVE  LlmInv'
<1>1. /\ pc = "sleep" /\ Issue(attempt + 1) /\ UNCHANGED <<again, err, sent, text, partial, shown, user>>
      /\ text = <<>> /\ partial = <<>> /\ shown = <<>> /\ attempt < Attempts /\ pc \notin Asking
      /\ ~aborted /\ (cancelled => deaf)
  BY DEF Wake, output, LlmInv, OneText, Counted, Heeded, InCall, Asking
<1>2. /\ attempt \in Nat /\ request \in Nat /\ attempt + 1 \in 1 .. Attempts
      /\ request + 1 \in Requests /\ again \in BOOLEAN
      /\ (again => request + 1 <= Attempts + (attempt + 1))
      /\ (~again => request + 1 = attempt + 1)
  BY <1>1 DEF LlmInv, TypeOK, Counted
<1>3. QED BY <1>1, <1>2, IssueKeeps

(* The second call follows a refusal of the first, which nobody saw.          *)
LEMMA RescueKeeps ==
  ASSUME LlmInv, NEW ok \in BOOLEAN, Rescue(ok)
  PROVE  LlmInv'
<1>1. pc = "rescue" /\ ~again /\ pc \notin Asking
  BY DEF Rescue, LlmInv, Counted, Asking
<1>2. CASE ok /\ Rescuable(err) /\ GoesOn
  <2>1. /\ again' = TRUE /\ ~aborted /\ ~cancelled /\ Issue(1) /\ UNCHANGED <<err, user, sent>>
        /\ text' = <<>> /\ partial' = <<>> /\ shown' = <<>>
    BY <1>1, <1>2 DEF Rescue, Perform, Emptied, GoesOn, Stopped, LlmInv, OneText
  <2>2. /\ 1 \in 1 .. Attempts /\ request + 1 \in Requests /\ request + 1 <= Attempts + 1
    BY <1>1 DEF LlmInv, TypeOK, Counted
  <2>3. QED BY <1>1, <2>1, <2>2, IssueKeeps
<1>3. CASE ~(ok /\ Rescuable(err) /\ GoesOn)
  <2>1. pc' = "failed" /\ UNCHANGED <<attempt, again, err, request, conn, sent, text, partial, shown,
                                      cancelled, aborted, deaf>>
    BY <1>3 DEF Rescue, output, user
  <2>2. TypeOK' BY <2>1 DEF LlmInv, TypeOK
  <2>3. Counted' BY <2>1 DEF LlmInv, Counted, Asking
  <2>4. OneSocket' BY <1>1, <2>1 DEF LlmInv, OneSocket, Asking, Live
  <2>5. OneText' /\ Heeded' BY <2>1 DEF OneText, Heeded, InCall
  <2>6. QED BY <2>2, <2>3, <2>4, <2>5 DEF LlmInv
<1>4. QED BY <1>2, <1>3

(* A stop settles what is awaited; between the calls it is only noted.        *)
LEMMA LlmStopKeeps ==
  ASSUME LlmInv, Cancel \/ HostAbort
  PROVE  LlmInv'
<1>1. /\ pc \notin {"answered", "failed"} /\ Interrupted
      /\ UNCHANGED <<attempt, again, request, sent, text, partial, shown>>
      /\ cancelled' \in BOOLEAN /\ aborted' \in BOOLEAN /\ deaf' \in BOOLEAN
  BY DEF Cancel, HostAbort, output, LlmInv, TypeOK
<1>2. CASE InCall
  <2>1. PICK kind \in {"cancelled", "raw"} : Throws(kind) /\ conn' = [conn EXCEPT ![request] = "closed"]
    BY <1>1, <1>2 DEF Interrupted, InCall, Closed
  <2>2. kind \in Kinds /\ ~Rescuable(kind) BY DEF Kinds, Rescuable
  <2>3. Live' = {} /\ conn' \in [Requests -> {"none", "asked", "refused", "open", "closed"}]
    <3>1. CASE pc \in Asking BY <2>1, <3>1, Settles
    <3>2. CASE pc = "sleep" BY <2>1, <3>2 DEF LlmInv, TypeOK, OneSocket, Live, Asking
    <3>3. QED BY <1>2, <3>1, <3>2 DEF InCall, Asking
  <2>4. BufferTypes' /\ request \in Nat /\ pc # "rescue"
    BY <1>1, <1>2 DEF BufferTypes, LlmInv, TypeOK, InCall
  <2>5. QED BY <1>1, <2>1, <2>2, <2>3, <2>4, ThrowsKeep
<1>3. CASE ~InCall
  <2>1. UNCHANGED <<pc, err, conn>> BY <1>1, <1>3 DEF Interrupted, InCall
  <2>2. TypeOK' BY <1>1, <2>1 DEF LlmInv, TypeOK
  <2>3. Counted' BY <1>1, <2>1 DEF LlmInv, Counted
  <2>4. OneSocket' BY <1>1, <2>1 DEF LlmInv, OneSocket, Live
  <2>5. OneText' BY <1>1, <2>1 DEF LlmInv, OneText
  <2>6. Heeded'
    BY <1>1, <1>3, <2>1 DEF LlmInv, Heeded, InCall, Cancel, HostAbort
  <2>7. QED BY <2>2, <2>3, <2>4, <2>5, <2>6 DEF LlmInv
<1>4. QED BY <1>2, <1>3

LEMMA LlmNextKeeps == LlmInv /\ [Next]_vars => LlmInv'
<1> SUFFICES ASSUME LlmInv, [Next]_vars PROVE LlmInv'
  OBVIOUS
<1>1. ASSUME NEW kind \in {"http", "timeout"}, RequestBreaks(kind) PROVE LlmInv'
  BY <1>1, FailureKeeps DEF RequestBreaks, Kinds
<1>2. CASE UNCHANGED vars
  <2>1. TypeOK' BY <1>2 DEF vars, LlmInv, TypeOK
  <2>2. Counted' BY <1>2 DEF vars, LlmInv, Counted
  <2>3. OneSocket' BY <1>2 DEF vars, LlmInv, OneSocket, Live
  <2>4. OneText' /\ Heeded' BY <1>2 DEF vars, LlmInv, OneText, Heeded, InCall
  <2>5. QED BY <2>1, <2>2, <2>3, <2>4 DEF LlmInv
<1>3. QED
  BY <1>1, <1>2, StartKeeps, AnsweredKeep, RefusalKeeps, EventKeeps, LlmEndKeeps, BreakKeeps,
     WakeKeeps, RescueKeeps, LlmStopKeeps DEF Next

LEMMA LlmInitHolds == Init => LlmInv
<1> SUFFICES ASSUME Init PROVE LlmInv
  OBVIOUS
<1>1. TypeOK
  <2>1. <<>> \in Seq(Fragment) OBVIOUS
  <2>2. conn \in [Requests -> {"none", "asked", "refused", "open", "closed"}]
    BY DEF Init
  <2>3. sent \in [Requests -> 0 .. Chunks] BY DEF Init
  <2>4. /\ pc = "prepare" /\ attempt = 0 /\ request = 0 /\ again = FALSE /\ err = "none"
        /\ text = <<>> /\ partial = <<>> /\ shown = <<>>
        /\ cancelled = FALSE /\ aborted = FALSE /\ deaf = FALSE
    BY DEF Init
  <2>5. 0 \in 0 .. Attempts /\ 0 \in 0 .. 2 * Attempts OBVIOUS
  <2>6. QED BY <2>1, <2>2, <2>3, <2>4, <2>5 DEF TypeOK
<1>2. Counted /\ OneSocket /\ OneText /\ Heeded
  BY DEF Init, Counted, OneSocket, OneText, Heeded, Live, Asking, InCall
<1>3. QED BY <1>1, <1>2 DEF LlmInv

-----------------------------------------------------------------------------

(* Through every refusal, stall, retry, rescue and stop of a call there is one *)
(* socket at most, and the buffers hold the stream of its request.           *)
THEOREM LlmInvariant == Spec => []LlmInv
<1>1. QED BY LlmInitHolds, LlmNextKeeps, PTL DEF Spec

(* A call of the model is one generation at a time, within the configured     *)
(* number of requests, and one stream in the end, for the processor, for the  *)
(* clients that watch and for one that attaches.                            *)
THEOREM OneGenerationOneStream == Spec => []OneStream
<1>1. QED BY LlmInvariant, OneIsOne, PTL

(* A turn that was stopped sends no request any more, unless the stop came     *)
(* before there was a request to abort; and then it is not answered.         *)
THEOREM StoppedTurnsAreSilent == Spec => StopsAsking
<1> DEFINE Silent == /\ request' # request => ~aborted /\ (cancelled => deaf)
                     /\ pc # "answered" /\ pc' = "answered" /\ cancelled => text = <<>>
<1>1. ASSUME LlmInv, [Next]_vars PROVE [Silent]_vars
  <2>1. CASE Start
    BY <1>1, <2>1 DEF Start, Perform, Issue, Throws, LlmInv, Heeded
  <2>2. CASE Wake BY <1>1, <2>2 DEF Wake, Issue, LlmInv, Heeded, InCall
  <2>3. ASSUME NEW ok \in BOOLEAN, Rescue(ok) PROVE Silent
    BY <2>3 DEF Rescue, Perform, Issue, Throws, GoesOn, Stopped
  <2>4. CASE End BY <1>1, <2>4 DEF End, LlmInv, Heeded
  <2>5. CASE Event BY <2>5 DEF Event, Cancels, Throws
  <2>6. ASSUME NEW kind \in {"http", "timeout", "invalid"}, StreamBreaks(kind) PROVE Silent
    BY <2>6 DEF StreamBreaks, Throws
  <2>7. CASE Accept \/ RefusalRead \/ RefusalBreaks
    BY <2>7 DEF Accept, RefusalRead, RefusalBreaks, RequestFailed, Throws, Backend
  <2>8. ASSUME NEW kind, Refuse(kind) \/ RequestBreaks(kind) PROVE Silent
    BY <2>8 DEF Refuse, RequestBreaks, RequestFailed, Throws, Backend
  <2>9. CASE Cancel \/ HostAbort
    BY <2>9 DEF Cancel, HostAbort, Interrupted, Throws
  <2>10. QED
    BY <1>1, <2>1, <2>2, <2>3, <2>4, <2>5, <2>6, <2>7, <2>8, <2>9 DEF Next
<1>2. QED BY <1>1, LlmInvariant, PTL DEF Spec, StopsAsking

-----------------------------------------------------------------------------
(* The connection to an MCP server.                                        *)

HIDE CallAssumption DEF Attempts, Requests

(* The instance has its own names for what FiniteSets defines.              *)
LEMMA SameFinite ==
  ASSUME NEW S
  PROVE  Mcp!IsFiniteSet(S) <=> IsFiniteSet(S)
  BY Zenon DEF Mcp!IsFiniteSet, IsFiniteSet

LEMMA SameCount ==
  ASSUME NEW S
  PROVE  Mcp!Cardinality(S) = Cardinality(S)
  BY Zenon DEF Mcp!Cardinality, Cardinality

LEMMA McpEmptySet ==
  /\ Mcp!IsFiniteSet({}) /\ Mcp!Cardinality({}) = 0
  /\ \A S : Mcp!IsFiniteSet(S) => (Mcp!Cardinality(S) = 0 <=> S = {})
  BY SameFinite, SameCount, FS_EmptySet

LEMMA McpCardinalityType ==
  ASSUME NEW S, Mcp!IsFiniteSet(S)
  PROVE  Mcp!Cardinality(S) \in Nat
  BY SameFinite, SameCount, FS_CardinalityType

LEMMA McpSubsets ==
  ASSUME NEW S, Mcp!IsFiniteSet(S), NEW T \in SUBSET S
  PROVE  Mcp!IsFiniteSet(T) /\ Mcp!Cardinality(T) <= Mcp!Cardinality(S)
  BY SameFinite, SameCount, FS_Subset

LEMMA McpAddElement ==
  ASSUME NEW S, NEW x, Mcp!IsFiniteSet(S), x \notin S
  PROVE  Mcp!IsFiniteSet(S \cup {x}) /\ Mcp!Cardinality(S \cup {x}) = Mcp!Cardinality(S) + 1
  BY SameFinite, SameCount, FS_AddElement

LEMMA McpRemoveElement ==
  ASSUME NEW S, NEW x \in S, Mcp!IsFiniteSet(S)
  PROVE  Mcp!Cardinality(S \ {x}) = Mcp!Cardinality(S) - 1
  BY SameFinite, SameCount, FS_RemoveElement

(* While it connects the client has one request at most, the one awaited.   *)
McpConnecting ==
  mcpStage \in {"initialize", "list"} =>
    /\ pending \subseteq {idCounter} /\ handlers = {} /\ ~mcpCancelled
    /\ mcpStage = "initialize" => seen = {} /\ pages = 0
    /\ mcpStage = "list" => Mcp!Cardinality(seen) = pages /\ pages < MaxPages

McpWaiting ==
  /\ pending = {c \in Mcp!Ids : fate[c] = "waiting"}
  /\ closed \/ mcpCancelled => pending = {}
  /\ mcpStage = "ready" => pending \subseteq handlers
  /\ mcpStage = "ready" /\ ~reading => handlers = pending

HumansAsked == elicitInFlight = Mcp!Cardinality(Mcp!Held)

McpInv ==
  /\ Mcp!TypeOK /\ idCounter > 0 /\ timers \subseteq 1 .. idCounter /\ pending \subseteq 1 .. idCounter
  /\ McpConnecting /\ McpWaiting /\ HumansAsked /\ Mcp!ClocksFair
  /\ Mcp!IsFiniteSet(seen) /\ Len(buffered) <= MaxBuffered
  /\ mcpStage = "refused" => destroyed /\ mcpCancelled

LEMMA HeldFinite ==
  ASSUME Mcp!TypeOK
  PROVE  /\ Mcp!IsFiniteSet(Mcp!Held) /\ Mcp!Cardinality(Mcp!Held) \in 0 .. Mcp!Cardinality(Asks)
         /\ Mcp!Held = {} <=> Mcp!Cardinality(Mcp!Held) = 0
<1>1. Mcp!Held \subseteq Asks /\ Mcp!IsFiniteSet(Asks)
  BY PartsAssumption DEF Mcp!Held, Mcp!McpAssumption
<1> QED
  BY <1>1, McpSubsets, McpCardinalityType, McpEmptySet

(* A set of ids that is not empty has a least one.                          *)
LEMMA LeastNumber ==
  ASSUME NEW S \in SUBSET Nat, S # {}
  PROVE  \E x \in S : \A y \in S : x <= y
<1>1. \E x \in S : \A y \in S : ~(<<y, x>> \in OpToRel(<, Nat))
  BY NatLessThanWellFounded, WFMin
<1>2. PICK x \in S : \A y \in S : ~(<<y, x>> \in OpToRel(<, Nat))  BY <1>1
<1>3. \A y \in S : ~(y < x)  BY <1>2 DEF OpToRel
<1> QED  BY <1>3

LEMMA RemoveFirstFacts ==
  ASSUME NEW S, NEW s \in Seq(S), NEW e
  PROVE  Mcp!RemoveFirst(s, e) \in Seq(S) /\ Len(Mcp!RemoveFirst(s, e)) <= Len(s)
<1> DEFINE I == {i \in 1 .. Len(s) : s[i] = e}
<1>1. CASE I = {}
  BY <1>1 DEF Mcp!RemoveFirst
<1>2. CASE I # {}
  <2>1. \E m \in I : \A n \in I : m <= n
    <3>1. I \in SUBSET Nat
      OBVIOUS
    <3> HIDE DEF I
    <3> QED
      BY <1>2, <3>1, LeastNumber
  <2>2. Mcp!Min(I) \in I
    BY <2>1 DEF Mcp!Min
  <2>3. Mcp!SelectInSeq(s, LAMBDA v : v = e) = Mcp!Min(I)
    BY <1>2 DEF Mcp!SelectInSeq
  <2>4. Mcp!RemoveFirst(s, e) = SubSeq(s, 1, Mcp!Min(I) - 1) \o SubSeq(s, Mcp!Min(I) + 1, Len(s))
    BY <1>2, <2>3 DEF Mcp!RemoveFirst, Mcp!RemoveAt
  <2>5. PICK k \in 1 .. Len(s) : k = Mcp!Min(I)
    BY <2>2
  <2> DEFINE a == SubSeq(s, 1, k - 1)  b == SubSeq(s, k + 1, Len(s))
  <2>6. Len(s) \in Nat /\ k \in Int /\ k - 1 \in Int /\ k + 1 \in Int /\ 1 \in Int /\ \A i \in 1 .. Len(s) : s[i] \in S
    OBVIOUS
  <2>7. a \in Seq(S) /\ Len(a) = k - 1
    <3>1. \A i \in 1 .. k - 1 : s[i] \in S
      BY <2>6
    <3>2. a \in Seq(S) /\ Len(a) = IF 1 <= k - 1 THEN k - 1 - 1 + 1 ELSE 0
      BY <2>6, <3>1, SubSeqProperties
    <3> QED
      BY <2>6, <3>2
  <2>8. b \in Seq(S) /\ Len(b) = Len(s) - k
    <3>1. \A i \in k + 1 .. Len(s) : s[i] \in S
      BY <2>6
    <3>2. b \in Seq(S) /\ Len(b) = IF k + 1 <= Len(s) THEN Len(s) - (k + 1) + 1 ELSE 0
      BY <2>6, <3>1, SubSeqProperties
    <3> QED
      BY <2>6, <3>2
  <2> HIDE DEF a, b
  <2>9. a \o b \in Seq(S) /\ Len(a \o b) = Len(a) + Len(b)
    BY <2>7, <2>8, ConcatProperties
  <2>10. Mcp!RemoveFirst(s, e) = a \o b
    BY <2>4, <2>5 DEF a, b
  <2> QED
    BY <2>6, <2>7, <2>8, <2>9, <2>10
<1> QED
  BY <1>1, <1>2

(* The fields that a step of the connection moves.                          *)

(* The promises of requests are settled: nothing else moves.                *)
LEMMA SettleFacts ==
  ASSUME Mcp!TypeOK, McpWaiting, NEW ids \in SUBSET pending, NEW how \in {"answered", "failed"}, Mcp!Settle(ids, how)
  PROVE  /\ fate' \in [Mcp!Ids -> {"none", "waiting", "answered", "failed"}]
         /\ pending' = pending \ ids
         /\ pending' = {c \in Mcp!Ids : fate'[c] = "waiting"}
<1>1. fate' = [c \in Mcp!Ids |-> IF c \in ids THEN how ELSE fate[c]] /\ pending' = pending \ ids
  BY DEF Mcp!Settle
<1>2. \A c \in Mcp!Ids : fate'[c] = "waiting" <=> c \notin ids /\ fate[c] = "waiting"
  BY <1>1
<1> QED
  BY <1>1, <1>2 DEF Mcp!TypeOK, McpWaiting

(* A new request: buffered answers end it at once, or it waits.             *)
LEMMA IssueFacts ==
  ASSUME McpInv, NEW isCall \in BOOLEAN, Mcp!Issue(isCall)
  PROVE  /\ idCounter' = idCounter + 1 /\ idCounter' \in Mcp!Ids
         /\ fate' \in [Mcp!Ids -> {"none", "waiting", "answered", "failed"}]
         /\ pending' = {c \in Mcp!Ids : fate'[c] = "waiting"}
         /\ buffered' \in Seq(Mcp!Ids) /\ Len(buffered') <= MaxBuffered
         /\ timers' \subseteq 1 .. idCounter' /\ pending' \subseteq 1 .. idCounter' /\ suspended' \subseteq Mcp!Ids
         /\ \/ pending' = pending /\ handlers' = handlers
            \/ pending' = pending \cup {idCounter'} /\ handlers' = IF isCall THEN handlers \cup {idCounter'} ELSE handlers
         /\ elicitInFlight = 0 => (pending \subseteq timers => pending' \subseteq timers')
         /\ elicitInFlight > 0 => (pending \cap timers = {} /\ pending \subseteq suspended =>
                                     pending' \cap timers' = {} /\ pending' \subseteq suspended')
<1> DEFINE id == idCounter + 1
<1>1. id \in Mcp!Ids /\ idCounter' = id /\ id \notin 1 .. idCounter /\ 1 .. idCounter \subseteq 1 .. id /\ idCounter \in Nat /\ id \in 1 .. id
  BY PartsAssumption DEF Mcp!Issue, McpInv, Mcp!TypeOK, Mcp!Ids, Mcp!McpAssumption
<1>2. /\ fate \in [Mcp!Ids -> {"none", "waiting", "answered", "failed"}] /\ pending \subseteq Mcp!Ids /\ timers \subseteq 1 .. idCounter
      /\ suspended \subseteq Mcp!Ids /\ pending \subseteq 1 .. idCounter /\ pending = {c \in Mcp!Ids : fate[c] = "waiting"}
      /\ buffered \in Seq(Mcp!Ids) /\ Len(buffered) <= MaxBuffered /\ MaxBuffered \in Nat /\ elicitInFlight \in Nat
  BY PartsAssumption DEF McpInv, Mcp!TypeOK, McpWaiting, Mcp!McpAssumption
<1> HIDE DEF id
<1>3. CASE /\ \E how \in {"answered", "failed"} : fate' = [fate EXCEPT ![id] = how]
           /\ buffered' = Mcp!RemoveFirst(buffered, id)
           /\ UNCHANGED <<pending, timers, suspended, handlers>>
  <2>1. fate' \in [Mcp!Ids -> {"none", "waiting", "answered", "failed"}] /\ \A c \in Mcp!Ids : fate'[c] = "waiting" <=> c # id /\ fate[c] = "waiting"
    BY <1>1, <1>2, <1>3
  <2>2. pending' = {c \in Mcp!Ids : fate'[c] = "waiting"}
    BY <1>1, <1>2, <1>3, <2>1
  <2>3. buffered' \in Seq(Mcp!Ids) /\ Len(buffered') <= MaxBuffered
    <3>1. Mcp!RemoveFirst(buffered, id) \in Seq(Mcp!Ids) /\ Len(Mcp!RemoveFirst(buffered, id)) <= Len(buffered) /\ Len(buffered) \in Nat
      BY <1>2, RemoveFirstFacts
    <3>2. Len(Mcp!RemoveFirst(buffered, id)) \in Nat
      BY <3>1
    <3> QED
      BY <1>2, <1>3, <3>1, <3>2
  <2>4. timers' \subseteq 1 .. id /\ pending' \subseteq 1 .. id /\ suspended' \subseteq Mcp!Ids
    BY <1>1, <1>2, <1>3
  <2>5. UNCHANGED <<pending, timers, suspended, handlers>>
    BY <1>3
  <2>6. timers' \subseteq 1 .. idCounter' /\ pending' \subseteq 1 .. idCounter' /\ idCounter' \in Mcp!Ids
    BY <1>1, <2>4
  <2>7. idCounter' = idCounter + 1
    BY <1>1 DEF id
  <2>8. /\ elicitInFlight = 0 => (pending \subseteq timers => pending' \subseteq timers')
        /\ elicitInFlight > 0 => (pending \cap timers = {} /\ pending \subseteq suspended =>
                                     pending' \cap timers' = {} /\ pending' \subseteq suspended')
    BY <2>5
  <2>9. pending' = pending /\ handlers' = handlers
    BY <2>5
  <2> QED
    BY <2>1, <2>2, <2>3, <2>4, <2>6, <2>7, <2>8, <2>9, Zenon
<1>4. CASE /\ fate' = [fate EXCEPT ![id] = "waiting"]
           /\ pending' = pending \cup {id} /\ Mcp!Armed(id)
           /\ handlers' = IF isCall THEN handlers \cup {id} ELSE handlers
           /\ UNCHANGED buffered
  <2>1. fate' \in [Mcp!Ids -> {"none", "waiting", "answered", "failed"}] /\ \A c \in Mcp!Ids : fate'[c] = "waiting" <=> c = id \/ fate[c] = "waiting"
    BY <1>1, <1>2, <1>4
  <2>2. pending' = {c \in Mcp!Ids : fate'[c] = "waiting"}
    BY <1>1, <1>2, <1>4, <2>1
  <2>3. IF elicitInFlight > 0 THEN suspended' = suspended \cup {id} /\ timers' = timers
                              ELSE timers' = timers \cup {id} /\ suspended' = suspended
    BY <1>4 DEF Mcp!Armed
  <2>4. id \notin timers /\ id \in pending'
    BY <1>1, <1>2, <1>4
  <2>5. timers' \subseteq 1 .. id /\ pending' \subseteq 1 .. id /\ suspended' \subseteq Mcp!Ids
    BY <1>1, <1>2, <1>4, <2>3
  <2>6. elicitInFlight = 0 => (pending \subseteq timers => pending' \subseteq timers')
    BY <1>4, <2>3
  <2>7. elicitInFlight > 0 => (pending \cap timers = {} /\ pending \subseteq suspended =>
                                 pending' \cap timers' = {} /\ pending' \subseteq suspended')
    BY <1>4, <2>3, <2>4
  <2>8. pending' = pending \cup {idCounter'} /\ handlers' = IF isCall THEN handlers \cup {idCounter'} ELSE handlers
    BY <1>1, <1>4
  <2>9. idCounter' \in Mcp!Ids /\ idCounter' = id /\ buffered' \in Seq(Mcp!Ids) /\ Len(buffered') <= MaxBuffered
    BY <1>1, <1>2, <1>4
  <2>10. timers' \subseteq 1 .. idCounter' /\ pending' \subseteq 1 .. idCounter'
    BY <2>5, <2>9
  <2>11. idCounter' = idCounter + 1
    BY <1>1 DEF id
  <2> QED
    BY <2>1, <2>2, <2>5, <2>6, <2>7, <2>8, <2>9, <2>10, <2>11, Zenon
<1> QED
  BY <1>3, <1>4 DEF Mcp!Issue, id

(* What an invariant of the connection takes, conjunct by conjunct.         *)
LEMMA QuestionsStay ==
  ASSUME Mcp!TypeOK, HumansAsked, UNCHANGED Mcp!questions
  PROVE  /\ Mcp!Held' = Mcp!Held /\ HumansAsked'
         /\ ask' \in [Asks -> {"none", "held", "answered", "lost"}] /\ elicitInFlight' \in 0 .. Mcp!Cardinality(Asks)
  BY DEF Mcp!Held, HumansAsked, Mcp!questions, Mcp!TypeOK

(* Promises are settled, by a line of a chunk or with their callers going on  *)
(* at once, and the clocks of the others stay as they are.                  *)
LEMMA SettleKeeps ==
  ASSUME McpInv, NEW ids \in SUBSET pending, NEW how \in {"answered", "failed"}, Mcp!Settle(ids, how),
         timers' \subseteq timers, suspended' \subseteq suspended,
         \A c \in pending' : (c \in timers => c \in timers') /\ (c \in suspended => c \in suspended'),
         \/ reading' = TRUE /\ UNCHANGED handlers
         \/ Mcp!Idle /\ Mcp!GoesOn(ids),
         UNCHANGED <<idCounter, Mcp!questions, seen>>,
         buffered' \in Seq(Mcp!Ids), Len(buffered') <= MaxBuffered,
         {closed', mcpCancelled', destroyed', up'} \subseteq BOOLEAN,
         closed' \/ mcpCancelled' => closed \/ mcpCancelled \/ pending' = {},
         destroyed => destroyed',
         \/ UNCHANGED <<mcpStage, pages>> /\ (mcpStage \in {"initialize", "list"} => ~mcpCancelled') /\ (mcpCancelled => mcpCancelled')
         \/ mcpStage' = "refused" /\ destroyed' /\ mcpCancelled' /\ pages' \in 0 .. MaxPages
  PROVE  McpInv'
<1>1. /\ fate' \in [Mcp!Ids -> {"none", "waiting", "answered", "failed"}]
      /\ pending' = pending \ ids
      /\ pending' = {c \in Mcp!Ids : fate'[c] = "waiting"}
  BY SettleFacts DEF McpInv
<1>0. \/ reading' = TRUE /\ handlers' = handlers
      \/ reading' = FALSE /\ ~reading /\ handlers' = handlers \ ids
  BY DEF McpInv, Mcp!TypeOK, Mcp!Idle, Mcp!GoesOn
<1>2. Mcp!Held' = Mcp!Held /\ HumansAsked' /\ ask' \in [Asks -> {"none", "held", "answered", "lost"}] /\ elicitInFlight' \in 0 .. Mcp!Cardinality(Asks)
  BY QuestionsStay DEF McpInv
<1>3. Mcp!TypeOK'
  BY <1>0, <1>1, <1>2 DEF McpInv, Mcp!TypeOK
<1>4. idCounter' > 0 /\ timers' \subseteq 1 .. idCounter' /\ pending' \subseteq 1 .. idCounter'
  BY <1>1 DEF McpInv
<1>5. McpWaiting'
  BY <1>0, <1>1 DEF McpInv, McpWaiting
<1>6. McpConnecting'
  BY <1>0, <1>1 DEF McpInv, McpConnecting
<1>7. Mcp!ClocksFair'
  BY <1>1, <1>2 DEF McpInv, Mcp!ClocksFair
<1> QED
  BY <1>2, <1>3, <1>4, <1>5, <1>6, <1>7 DEF McpInv

(* A request is sent, of a tool or of the handshake.                        *)
LEMMA McpIssueKeeps ==
  ASSUME McpInv, NEW isCall \in BOOLEAN, Mcp!Issue(isCall), Mcp!Idle, UNCHANGED <<Mcp!questions, Mcp!ended>>, ~closed, ~mcpCancelled,
         \/ isCall /\ mcpStage = "ready" /\ UNCHANGED Mcp!discovery
         \/ /\ ~isCall /\ mcpStage \in {"initialize", "list"} /\ fate[idCounter] # "waiting"
            /\ mcpStage' = "list" /\ seen' \subseteq Cursors /\ Mcp!IsFiniteSet(seen')
            /\ Mcp!Cardinality(seen') = pages' /\ pages' \in 0 .. MaxPages - 1
  PROVE  McpInv'
<1>1. /\ idCounter' = idCounter + 1 /\ idCounter' \in Mcp!Ids
      /\ fate' \in [Mcp!Ids -> {"none", "waiting", "answered", "failed"}]
      /\ pending' = {c \in Mcp!Ids : fate'[c] = "waiting"}
      /\ buffered' \in Seq(Mcp!Ids) /\ Len(buffered') <= MaxBuffered
      /\ timers' \subseteq 1 .. idCounter' /\ pending' \subseteq 1 .. idCounter' /\ suspended' \subseteq Mcp!Ids
      /\ \/ pending' = pending /\ handlers' = handlers
         \/ pending' = pending \cup {idCounter'} /\ handlers' = IF isCall THEN handlers \cup {idCounter'} ELSE handlers
      /\ elicitInFlight = 0 => (pending \subseteq timers => pending' \subseteq timers')
      /\ elicitInFlight > 0 => (pending \cap timers = {} /\ pending \subseteq suspended =>
                                  pending' \cap timers' = {} /\ pending' \subseteq suspended')
  BY IssueFacts
<1>2. Mcp!Held' = Mcp!Held /\ HumansAsked' /\ ask' \in [Asks -> {"none", "held", "answered", "lost"}] /\ elicitInFlight' \in 0 .. Mcp!Cardinality(Asks)
  BY QuestionsStay DEF McpInv
<1>3. Mcp!Ids \subseteq 0 .. MaxIds /\ idCounter' > 0 /\ 0 .. MaxPages - 1 \subseteq 0 .. MaxPages
      /\ \A n \in 0 .. MaxPages - 1 : n < MaxPages
  BY PartsAssumption, <1>1 DEF Mcp!McpAssumption, Mcp!Ids
<1>4. UNCHANGED <<reading, closed, mcpCancelled, destroyed, up>> /\ ~reading
  BY DEF Mcp!ended, Mcp!Idle
<1>5. handlers' \subseteq Mcp!Ids /\ pending' \subseteq Mcp!Ids /\ timers' \subseteq Mcp!Ids
  <2>1. 1 .. idCounter' \subseteq Mcp!Ids
    BY PartsAssumption, <1>1 DEF Mcp!Ids, Mcp!McpAssumption
  <2> QED
    BY <1>1, <2>1 DEF McpInv, Mcp!TypeOK
<1>6. mcpStage' \in {"initialize", "list", "ready", "refused"} /\ seen' \subseteq Cursors /\ pages' \in 0 .. MaxPages /\ Mcp!IsFiniteSet(seen')
  BY <1>3 DEF McpInv, Mcp!TypeOK, Mcp!discovery
<1>7. Mcp!TypeOK'
  <2>1. {reading', closed', mcpCancelled', destroyed', up'} \subseteq BOOLEAN
    BY <1>4 DEF McpInv, Mcp!TypeOK
  <2>2. idCounter' \in 0 .. MaxIds
    BY <1>1, <1>3
  <2> QED
    BY <1>1, <1>2, <1>5, <1>6, <2>1, <2>2 DEF Mcp!TypeOK
<1>9. McpWaiting' /\ McpConnecting'
  <2>1. CASE isCall /\ mcpStage = "ready" /\ UNCHANGED Mcp!discovery
    <3>1. mcpStage' = "ready" /\ handlers = pending /\ handlers' = pending'
      BY <1>1, <1>4, <2>1 DEF McpInv, McpWaiting, Mcp!discovery
    <3> QED
      BY <1>1, <1>4, <3>1 DEF McpWaiting, McpConnecting
  <2>2. CASE /\ ~isCall /\ mcpStage \in {"initialize", "list"} /\ fate[idCounter] # "waiting"
             /\ mcpStage' = "list" /\ Mcp!Cardinality(seen') = pages' /\ pages' \in 0 .. MaxPages - 1
    <3>1. pending = {} /\ handlers = {}
      BY <2>2 DEF McpInv, McpWaiting, McpConnecting
    <3>2. pending' \subseteq {idCounter'} /\ handlers' = {}
      BY <1>1, <2>2, <3>1
    <3>3. McpConnecting'
      BY <1>3, <1>4, <2>2, <3>2 DEF McpConnecting
    <3>4. McpWaiting'
      BY <1>1, <1>4, <2>2 DEF McpWaiting
    <3> QED
      BY <3>3, <3>4
  <2> QED
    BY <2>1, <2>2
<1>10. Mcp!ClocksFair'
  <2>1. elicitInFlight = 0 <=> Mcp!Held = {}
    BY HeldFinite DEF McpInv, HumansAsked
  <2>2. elicitInFlight = 0 \/ elicitInFlight > 0
    BY PartsAssumption, McpCardinalityType DEF McpInv, Mcp!TypeOK, Mcp!McpAssumption
  <2> QED
    BY <1>1, <1>2, <2>1, <2>2 DEF McpInv, Mcp!ClocksFair
<1>11. mcpStage' = "refused" => destroyed' /\ mcpCancelled'
  BY <1>4 DEF Mcp!discovery
<1> QED
  BY <1>1, <1>2, <1>3, <1>6, <1>7, <1>9, <1>10, <1>11 DEF McpInv

LEMMA ResponseKeeps ==
  ASSUME McpInv, NEW id \in Mcp!Ids, NEW how \in {"answered", "failed"}, Mcp!Response(id, how)
  PROVE  McpInv'
<1>0. /\ buffered \in Seq(Mcp!Ids) /\ Len(buffered) <= MaxBuffered /\ {closed, mcpCancelled, destroyed, up} \subseteq BOOLEAN
      /\ timers \subseteq Mcp!Ids /\ suspended \subseteq Mcp!Ids
  BY DEF McpInv, Mcp!TypeOK
<1>1. UNCHANGED <<idCounter, handlers, Mcp!questions, seen, mcpStage, pages>> /\ reading' = TRUE
      /\ (mcpStage \in {"initialize", "list"} => ~mcpCancelled)
  BY DEF Mcp!Response, Mcp!Hears, Mcp!discovery, McpInv, McpConnecting
<1>2. CASE /\ id \in pending /\ Mcp!Settle({id}, how)
           /\ UNCHANGED <<timers, suspended, buffered, Mcp!ended>>
  <2>1. UNCHANGED <<closed, mcpCancelled, destroyed, up>> /\ {id} \in SUBSET pending /\ pending' = pending \ {id}
    BY <1>2 DEF Mcp!ended, Mcp!Settle
  <2> QED
    BY <1>0, <1>1, <1>2, <2>1, SettleKeeps
<1>3. CASE /\ buffered' = <<>> /\ Mcp!FailAllPending
           /\ destroyed' = TRUE /\ UNCHANGED <<mcpCancelled, up>>
  <2>1. /\ closed' = TRUE /\ suspended' = {} /\ Mcp!Settle(pending, "failed") /\ timers' = timers \ pending
        /\ pending' = {}
    BY <1>3 DEF Mcp!FailAllPending, Mcp!Settle
  <2>2. buffered' \in Seq(Mcp!Ids) /\ Len(buffered') <= MaxBuffered
    BY PartsAssumption, <1>3 DEF Mcp!McpAssumption
  <2> QED
    BY <1>0, <1>1, <1>3, <2>1, <2>2, SettleKeeps
<1>4. CASE /\ Len(buffered) # MaxBuffered /\ buffered' = Append(buffered, id)
           /\ UNCHANGED <<fate, pending, timers, suspended, Mcp!ended>>
  <2>1. buffered' \in Seq(Mcp!Ids) /\ Len(buffered') <= MaxBuffered
    BY PartsAssumption, <1>0, <1>4 DEF Mcp!McpAssumption
  <2>2. UNCHANGED <<closed, mcpCancelled, destroyed, up>>
    BY <1>4 DEF Mcp!ended
  <2>3. Mcp!Held' = Mcp!Held /\ HumansAsked' /\ ask' \in [Asks -> {"none", "held", "answered", "lost"}] /\ elicitInFlight' \in 0 .. Mcp!Cardinality(Asks)
    BY <1>1, QuestionsStay DEF McpInv
  <2>4. Mcp!TypeOK'
    BY <1>1, <1>4, <2>1, <2>2, <2>3 DEF McpInv, Mcp!TypeOK
  <2>5. McpWaiting' /\ McpConnecting' /\ Mcp!ClocksFair'
    BY <1>1, <1>4, <2>2, <2>3 DEF McpInv, McpWaiting, McpConnecting, Mcp!ClocksFair
  <2> QED
    BY <1>1, <1>4, <2>1, <2>2, <2>3, <2>4, <2>5 DEF McpInv
<1> QED
  BY <1>2, <1>3, <1>4 DEF Mcp!Response, Mcp!Flooded

LEMMA TimeoutKeeps ==
  ASSUME McpInv, NEW id \in Mcp!Ids, Mcp!Timeout(id)
  PROVE  McpInv'
<1>0. /\ buffered \in Seq(Mcp!Ids) /\ Len(buffered) <= MaxBuffered /\ {closed, mcpCancelled, destroyed, up} \subseteq BOOLEAN
  BY DEF McpInv, Mcp!TypeOK
<1>1. /\ timers' = timers \ {id} /\ Mcp!Settle(pending \cap {id}, "failed") /\ Mcp!GoesOn(pending \cap {id}) /\ Mcp!Idle /\ pending' = pending \ (pending \cap {id})
      /\ UNCHANGED <<idCounter, suspended, Mcp!questions, buffered, mcpStage, seen, pages, closed, mcpCancelled, destroyed, up>>
  BY DEF Mcp!Timeout, Mcp!discovery, Mcp!ended, Mcp!Settle
<1>2. mcpStage \in {"initialize", "list"} => ~mcpCancelled
  BY DEF McpInv, McpConnecting
<1>3. \A c \in pending' : (c \in timers => c \in timers') /\ (c \in suspended => c \in suspended')
  BY <1>1
<1>4. (pending \cap {id}) \in SUBSET pending /\ timers' \subseteq timers
  BY <1>1
<1> QED
  BY <1>0, <1>1, <1>2, <1>3, <1>4, SettleKeeps

(* The callers that a chunk settled go on.                                  *)
LEMMA ChunkEndsKeeps ==
  ASSUME McpInv, Mcp!ChunkEnds
  PROVE  McpInv'
<1>1. /\ reading' = FALSE /\ handlers' = handlers \ (Mcp!Ids \ pending)
      /\ timers' = {c \in timers : fate[c] # "answered"}
      /\ UNCHANGED <<idCounter, fate, pending, suspended, Mcp!questions, buffered>>
      /\ UNCHANGED <<mcpStage, seen, pages, closed, mcpCancelled, destroyed, up>>
  BY DEF Mcp!ChunkEnds, Mcp!GoesOn, Mcp!discovery, Mcp!ended
<1>2. Mcp!Held' = Mcp!Held /\ HumansAsked' /\ ask' \in [Asks -> {"none", "held", "answered", "lost"}] /\ elicitInFlight' \in 0 .. Mcp!Cardinality(Asks)
  BY <1>1, QuestionsStay DEF McpInv
<1>3. Mcp!TypeOK'
  BY <1>1, <1>2 DEF McpInv, Mcp!TypeOK
<1>4. McpWaiting'
  <2>1. handlers' = handlers \cap pending
    BY <1>1 DEF McpInv, Mcp!TypeOK
  <2> QED
    BY <1>1, <2>1 DEF McpInv, McpWaiting
<1>5. McpConnecting'
  BY <1>1 DEF McpInv, McpConnecting
<1>6. Mcp!ClocksFair'
  <2>1. \A c \in pending : fate[c] # "answered"
    BY DEF McpInv, McpWaiting
  <2> QED
    BY <1>1, <1>2, <2>1 DEF McpInv, Mcp!ClocksFair
<1> QED
  BY <1>1, <1>2, <1>3, <1>4, <1>5, <1>6 DEF McpInv

(* The human is asked, answers, or is not there to be asked.                *)
LEMMA HeldChanges ==
  ASSUME Mcp!TypeOK, HumansAsked, NEW a \in Asks, NEW word, ask' = [ask EXCEPT ![a] = word]
  PROVE  /\ word = "held" /\ ask[a] # "held" => Mcp!Held' = Mcp!Held \cup {a} /\ Mcp!Cardinality(Mcp!Held') = elicitInFlight + 1
         /\ word # "held" /\ ask[a] # "held" => Mcp!Held' = Mcp!Held
         /\ word # "held" /\ ask[a] = "held" => a \in Mcp!Held /\ Mcp!Held' = Mcp!Held \ {a} /\ Mcp!Cardinality(Mcp!Held') = elicitInFlight - 1
<1>1. \A b \in Asks : ask'[b] = IF b = a THEN word ELSE ask[b]
  BY DEF Mcp!TypeOK
<1>2. Mcp!IsFiniteSet(Mcp!Held) /\ elicitInFlight = Mcp!Cardinality(Mcp!Held)
  BY HeldFinite DEF HumansAsked
<1>3. CASE word = "held" /\ ask[a] # "held"
  <2>1. Mcp!Held' = Mcp!Held \cup {a} /\ a \notin Mcp!Held
    BY <1>1, <1>3 DEF Mcp!Held
  <2>2. Mcp!Cardinality(Mcp!Held \cup {a}) = Mcp!Cardinality(Mcp!Held) + 1
    BY <1>2, <2>1, McpAddElement
  <2>3. Mcp!Cardinality(Mcp!Held') = Mcp!Cardinality(Mcp!Held \cup {a})
    BY <2>1, Zenon
  <2> QED
    BY <1>2, <1>3, <2>1, <2>2, <2>3
<1>4. CASE word # "held" /\ ask[a] # "held"
  BY <1>1, <1>4 DEF Mcp!Held
<1>5. CASE word # "held" /\ ask[a] = "held"
  <2>1. Mcp!Held' = Mcp!Held \ {a} /\ a \in Mcp!Held
    BY <1>1, <1>5 DEF Mcp!Held
  <2>2. Mcp!Cardinality(Mcp!Held \ {a}) = Mcp!Cardinality(Mcp!Held) - 1
    BY <1>2, <2>1, McpRemoveElement
  <2>3. Mcp!Cardinality(Mcp!Held') = Mcp!Cardinality(Mcp!Held \ {a})
    BY <2>1, Zenon
  <2> QED
    BY <1>2, <1>5, <2>1, <2>2, <2>3
<1> QED
  BY <1>3, <1>4, <1>5

LEMMA McpAskKeeps ==
  ASSUME McpInv, NEW a \in Asks, Mcp!AskNobody(a) \/ Mcp!Elicit(a) \/ Mcp!Answer(a)
  PROVE  McpInv'
<1>0. /\ UNCHANGED <<idCounter, fate, pending, handlers, Mcp!discovery, buffered, Mcp!ended>>
      /\ UNCHANGED <<mcpStage, seen, pages, closed, mcpCancelled, destroyed, up>>
  BY DEF Mcp!AskNobody, Mcp!Elicit, Mcp!Answer, Mcp!requests, Mcp!discovery, Mcp!ended
<1>8. reading' \in BOOLEAN /\ (~reading' => ~reading)
  BY DEF Mcp!AskNobody, Mcp!Elicit, Mcp!Answer, Mcp!Hears, Mcp!Idle, McpInv, Mcp!TypeOK
<1>1. \E word \in {"none", "held", "answered", "lost"} : ask' = [ask EXCEPT ![a] = word]
  BY DEF Mcp!AskNobody, Mcp!Elicit, Mcp!Answer, Mcp!Respond
<1>2. ask' \in [Asks -> {"none", "held", "answered", "lost"}]
  BY <1>1 DEF McpInv, Mcp!TypeOK
<1>3. Mcp!TypeOK /\ HumansAsked /\ timers \subseteq 1 .. idCounter /\ pending \subseteq 1 .. idCounter
      /\ timers \subseteq Mcp!Ids /\ suspended \subseteq Mcp!Ids /\ pending \subseteq Mcp!Ids
  BY DEF McpInv, Mcp!TypeOK
<1>4. elicitInFlight \in Nat /\ (elicitInFlight = 0 <=> Mcp!Held = {})
  <2>1. elicitInFlight \in Nat
    BY PartsAssumption, McpCardinalityType DEF McpInv, Mcp!TypeOK, Mcp!McpAssumption
  <2> QED
    BY <1>3, <2>1, HeldFinite DEF HumansAsked
<1>5. /\ HumansAsked' /\ Mcp!ClocksFair'
      /\ timers' \subseteq timers \cup pending /\ suspended' \subseteq suspended \cup pending
  <2>1. CASE Mcp!AskNobody(a)
    <3>1. PICK word \in {"answered", "lost"} : ask' = [ask EXCEPT ![a] = word] /\ word # "held" /\ ask[a] # "held"
      BY <2>1 DEF Mcp!AskNobody, Mcp!Respond
    <3>2. Mcp!TypeOK /\ HumansAsked
      BY <1>3
    <3> HIDE <2>1
    <3>3. Mcp!Held' = Mcp!Held
      BY <3>1, <3>2, HeldChanges, Zenon
    <3> QED
      BY <1>0, <1>3, <2>1, <3>3 DEF Mcp!AskNobody, Mcp!requests, HumansAsked, Mcp!ClocksFair, McpInv
  <2>2. CASE Mcp!Elicit(a)
    <3>1. Mcp!Held' = Mcp!Held \cup {a} /\ Mcp!Cardinality(Mcp!Held') = elicitInFlight + 1
      BY <1>3, <2>2, HeldChanges DEF Mcp!Elicit
    <3>2. CASE elicitInFlight = 0
      <4>1. suspended' = suspended \cup (pending \cap timers) /\ timers' = timers \ pending /\ pending' = pending
        BY <2>2, <3>2 DEF Mcp!Elicit
      <4>2. pending \subseteq timers
        BY <1>4, <3>2 DEF McpInv, Mcp!ClocksFair
      <4>3. Mcp!ClocksFair'
        BY <3>1, <4>1, <4>2 DEF Mcp!ClocksFair
      <4> QED
        BY <2>2, <3>1, <4>1, <4>3 DEF Mcp!Elicit, HumansAsked
    <3>3. CASE elicitInFlight # 0
      <4>1. UNCHANGED <<suspended, timers, pending>>
        BY <2>2, <3>3 DEF Mcp!Elicit
      <4>2. pending \cap timers = {} /\ pending \subseteq suspended
        BY <1>4, <3>3 DEF McpInv, Mcp!ClocksFair
      <4>3. Mcp!ClocksFair'
        BY <3>1, <4>1, <4>2 DEF Mcp!ClocksFair
      <4> QED
        BY <2>2, <3>1, <4>1, <4>3 DEF Mcp!Elicit, HumansAsked
    <3> QED
      BY <3>2, <3>3
  <2>3. CASE Mcp!Answer(a)
    <3>1. PICK word \in {"answered", "lost"} : ask[a] = "held" /\ ask' = [ask EXCEPT ![a] = word]
      BY <2>3 DEF Mcp!Answer, Mcp!Respond
    <3>2. a \in Mcp!Held /\ Mcp!Held' = Mcp!Held \ {a} /\ Mcp!Cardinality(Mcp!Held') = elicitInFlight - 1
      BY <1>3, <3>1, HeldChanges
    <3>3. pending \cap timers = {} /\ pending \subseteq suspended /\ elicitInFlight' = elicitInFlight - 1
      BY <2>3, <3>2 DEF McpInv, Mcp!ClocksFair, Mcp!Answer
    <3>4. (elicitInFlight' = 0) <=> (Mcp!Held' = {})
      <4>1. Mcp!IsFiniteSet(Mcp!Held')
        BY <1>3, <3>2, HeldFinite, McpSubsets
      <4> QED
        BY <3>2, <3>3, <4>1, McpEmptySet
    <3>5. CASE elicitInFlight' = 0
      <4>1. timers' = timers \cup (suspended \cap pending) /\ suspended' = {} /\ pending' = pending
        BY <2>3, <3>5 DEF Mcp!Answer
      <4>2. Mcp!ClocksFair'
        BY <3>3, <3>4, <3>5, <4>1 DEF Mcp!ClocksFair
      <4> QED
        BY <3>2, <3>3, <4>1, <4>2 DEF HumansAsked
    <3>6. CASE elicitInFlight' # 0
      <4>1. UNCHANGED <<suspended, timers, pending>>
        BY <2>3, <3>6 DEF Mcp!Answer
      <4>2. Mcp!ClocksFair'
        BY <3>3, <3>4, <3>6, <4>1 DEF Mcp!ClocksFair
      <4> QED
        BY <3>2, <3>3, <4>1, <4>2 DEF HumansAsked
    <3> QED
      BY <3>5, <3>6
  <2> QED
    BY <2>1, <2>2, <2>3
<1>6. Mcp!TypeOK'
  <2>1. elicitInFlight' \in 0 .. Mcp!Cardinality(Asks)
    <3>1. Mcp!Held' \subseteq Asks /\ Mcp!IsFiniteSet(Asks)
      BY PartsAssumption DEF Mcp!Held, Mcp!McpAssumption
    <3>2. Mcp!Cardinality(Mcp!Held') \in 0 .. Mcp!Cardinality(Asks)
      BY <3>1, McpSubsets, McpCardinalityType
    <3> QED
      BY <1>5, <3>2 DEF HumansAsked
  <2> QED
    BY <1>0, <1>2, <1>3, <1>5, <1>8, <2>1 DEF Mcp!TypeOK
<1>7. McpWaiting' /\ McpConnecting'
  BY <1>0, <1>8 DEF McpInv, McpWaiting, McpConnecting
<1> QED
  BY <1>0, <1>3, <1>5, <1>6, <1>7 DEF McpInv

LEMMA McpEndKeeps ==
  ASSUME McpInv, Mcp!ServerDies \/ Mcp!Shutdown
  PROVE  McpInv'
<1>0. /\ buffered \in Seq(Mcp!Ids) /\ Len(buffered) <= MaxBuffered /\ {closed, mcpCancelled, destroyed, up} \subseteq BOOLEAN
      /\ <<>> \in Seq(Mcp!Ids) /\ Len(<<>>) <= MaxBuffered
  BY PartsAssumption DEF McpInv, Mcp!TypeOK, Mcp!McpAssumption
<1>1. mcpStage \in {"initialize", "list"} => ~mcpCancelled
  BY DEF McpInv, McpConnecting
<1>2. CASE Mcp!ServerDies /\ Mcp!FailAllPending /\ Mcp!GoesOn(pending)
  <2>1. /\ closed' = TRUE /\ suspended' = {} /\ Mcp!Settle(pending, "failed") /\ timers' = timers \ pending
        /\ pending' = {} /\ Mcp!Idle
    BY <1>2 DEF Mcp!ServerDies, Mcp!FailAllPending, Mcp!Settle
  <2>2. up' = FALSE /\ UNCHANGED <<idCounter, mcpCancelled, destroyed, Mcp!questions, buffered, mcpStage, seen, pages>>
    BY <1>2 DEF Mcp!ServerDies, Mcp!discovery
  <2> QED
    BY <1>0, <1>1, <1>2, <2>1, <2>2, SettleKeeps
<1>3. CASE Mcp!ServerDies /\ UNCHANGED <<closed, fate, pending, timers, suspended, handlers>>
  <2>1. up' = FALSE /\ UNCHANGED <<reading, idCounter, mcpCancelled, destroyed, Mcp!questions, buffered, mcpStage, seen, pages>>
    BY <1>3 DEF Mcp!ServerDies, Mcp!Idle, Mcp!discovery
  <2>2. Mcp!Held' = Mcp!Held /\ HumansAsked' /\ ask' \in [Asks -> {"none", "held", "answered", "lost"}] /\ elicitInFlight' \in 0 .. Mcp!Cardinality(Asks)
    BY <2>1, QuestionsStay DEF McpInv
  <2>3. Mcp!TypeOK' /\ McpWaiting' /\ McpConnecting' /\ Mcp!ClocksFair'
    BY <1>3, <2>1, <2>2 DEF McpInv, Mcp!TypeOK, McpWaiting, McpConnecting, Mcp!ClocksFair
  <2> QED
    BY <1>3, <2>1, <2>2, <2>3 DEF McpInv
<1>4. CASE Mcp!Shutdown
  <2>1. /\ mcpCancelled' = TRUE /\ destroyed' = TRUE /\ Mcp!Settle(pending, "failed") /\ Mcp!GoesOn(pending) /\ Mcp!Idle /\ timers' = timers \ pending
        /\ buffered' = <<>> /\ UNCHANGED <<closed, up, idCounter, suspended, Mcp!questions, mcpStage, seen, pages>>
        /\ mcpStage = "ready" /\ pending' = {}
    BY <1>4 DEF Mcp!Shutdown, Mcp!Ended, Mcp!discovery, Mcp!Settle
  <2> QED
    BY <1>0, <1>1, <2>1, SettleKeeps
<1> QED
  BY <1>2, <1>3, <1>4 DEF Mcp!ServerDies

LEMMA RefusedKeeps ==
  ASSUME McpInv, mcpStage \in {"initialize", "list"}, Mcp!Refused, Mcp!Idle, pages' \in 0 .. MaxPages
  PROVE  McpInv'
<1>0. {closed, mcpCancelled, destroyed, up} \subseteq BOOLEAN /\ <<>> \in Seq(Mcp!Ids) /\ Len(<<>>) <= MaxBuffered
  BY PartsAssumption DEF McpInv, Mcp!TypeOK, Mcp!McpAssumption
<1>1. /\ mcpCancelled' = TRUE /\ destroyed' = TRUE /\ Mcp!Settle(pending, "failed") /\ Mcp!GoesOn(pending) /\ timers' = timers \ pending
      /\ buffered' = <<>> /\ UNCHANGED <<closed, up, idCounter, suspended, Mcp!questions, seen>>
      /\ mcpStage' = "refused" /\ pending' = {}
  BY DEF Mcp!Refused, Mcp!Ended, Mcp!Settle
<1> QED
  BY <1>0, <1>1, SettleKeeps

LEMMA ConnectKeeps ==
  ASSUME McpInv, Mcp!Initialized \/ (\E next \in Cursors \cup {Mcp!End} : Mcp!Listed(next)) \/ Mcp!TooManyTools \/ Mcp!ConnectFails
  PROVE  McpInv'
<1>0. mcpStage \in {"initialize", "list"} /\ ~mcpCancelled /\ pages \in 0 .. MaxPages /\ pages' \in {pages, pages + 1}
  BY DEF Mcp!Initialized, Mcp!Listed, Mcp!TooManyTools, Mcp!ConnectFails, McpInv, Mcp!TypeOK, McpConnecting
<1>1. MaxPages \in Nat \ {0} /\ pages \in Nat
  BY PartsAssumption, <1>0 DEF Mcp!McpAssumption
<1>7. Mcp!Idle
  BY DEF Mcp!Initialized, Mcp!Listed, Mcp!TooManyTools, Mcp!ConnectFails
<1>2. mcpStage = "list" => pages < MaxPages /\ Mcp!Cardinality(seen) = pages
  BY DEF McpInv, McpConnecting
<1>3. mcpStage = "initialize" => seen = {} /\ pages = 0
  BY DEF McpInv, McpConnecting
<1>4. CASE Mcp!Refused
  <2>1. pages' \in 0 .. MaxPages
    <3>1. CASE mcpStage = "list"
      BY <1>0, <1>1, <1>2, <3>1
    <3>2. CASE mcpStage = "initialize"
      BY <1>0, <1>1, <1>3, <3>2
    <3> QED
      BY <1>0, <3>1, <3>2
  <2> QED
    BY <1>0, <1>4, <1>7, <2>1, RefusedKeeps
<1>5. CASE Mcp!Initialized /\ Mcp!Lists
  <2>1. /\ Mcp!Issue(FALSE) /\ UNCHANGED <<Mcp!questions, Mcp!ended, seen, pages>> /\ ~closed /\ mcpStage' = "list"
        /\ fate[idCounter] # "waiting" /\ mcpStage = "initialize"
    BY <1>5 DEF Mcp!Initialized, Mcp!Lists, Mcp!Got
  <2>2. seen' = {} /\ pages' = 0 /\ Mcp!IsFiniteSet({}) /\ Mcp!Cardinality({}) = 0 /\ 0 \in 0 .. MaxPages - 1
    BY <1>1, <1>3, <2>1, McpEmptySet
  <2> QED
    BY <1>0, <1>7, <2>1, <2>2, McpIssueKeeps
<1>6. ASSUME NEW next \in Cursors \cup {Mcp!End}, Mcp!Listed(next) PROVE McpInv'
  <2>0. mcpStage = "list" /\ fate[idCounter] = "answered" /\ pages' = pages + 1
    BY <1>6 DEF Mcp!Listed, Mcp!Got
  <2>1. CASE mcpStage' = "ready" /\ UNCHANGED <<seen, Mcp!questions, Mcp!requests, buffered, Mcp!ended>>
    <3>1. UNCHANGED <<idCounter, fate, pending, timers, suspended, handlers, reading, closed, mcpCancelled, destroyed, up>>
      BY <1>7, <2>1 DEF Mcp!requests, Mcp!ended, Mcp!Idle
    <3>2. pending = {} /\ handlers = {}
      BY <2>0 DEF McpInv, McpWaiting, McpConnecting
    <3>3. Mcp!Held' = Mcp!Held /\ HumansAsked' /\ ask' \in [Asks -> {"none", "held", "answered", "lost"}] /\ elicitInFlight' \in 0 .. Mcp!Cardinality(Asks)
      BY <2>1, QuestionsStay DEF McpInv
    <3>4. pages' \in 0 .. MaxPages
      BY <1>1, <1>2, <2>0
    <3>5. Mcp!TypeOK'
      BY <2>1, <3>1, <3>3, <3>4 DEF McpInv, Mcp!TypeOK
    <3>6. McpWaiting' /\ McpConnecting' /\ Mcp!ClocksFair'
      BY <2>1, <3>1, <3>2, <3>3 DEF McpInv, McpWaiting, McpConnecting, Mcp!ClocksFair
    <3> QED
      BY <2>1, <3>1, <3>3, <3>5, <3>6 DEF McpInv
  <2>2. CASE Mcp!Refused
    BY <1>4, <2>2
  <2>3. CASE /\ ~(pages' >= MaxPages \/ next \in seen \/ closed) /\ next # Mcp!End
             /\ seen' = seen \cup {next} /\ Mcp!Lists /\ UNCHANGED Mcp!questions
    <3>1. Mcp!Issue(FALSE) /\ UNCHANGED <<Mcp!questions, Mcp!ended>> /\ ~closed /\ mcpStage' = "list"
      BY <2>3 DEF Mcp!Lists
    <3>2. Mcp!IsFiniteSet(seen) /\ seen \subseteq Cursors /\ next \in Cursors /\ next \notin seen
      BY <2>3 DEF McpInv, Mcp!TypeOK
    <3>3. Mcp!IsFiniteSet(seen \cup {next}) /\ Mcp!Cardinality(seen \cup {next}) = Mcp!Cardinality(seen) + 1
      BY <3>2, McpAddElement
    <3>4. pages' \in 0 .. MaxPages - 1
      BY <1>1, <2>0, <2>3
    <3>5. Mcp!Cardinality(seen') = pages' /\ Mcp!IsFiniteSet(seen') /\ seen' \subseteq Cursors
      <4>1. Mcp!Cardinality(seen') = Mcp!Cardinality(seen \cup {next}) /\ Mcp!IsFiniteSet(seen')
        BY <2>3, <3>3, Zenon
      <4> QED
        BY <1>2, <2>0, <2>3, <3>2, <3>3, <4>1
    <3> QED
      BY <1>0, <1>7, <2>0, <3>1, <3>4, <3>5, McpIssueKeeps
  <2> QED
    BY <1>6, <2>1, <2>2, <2>3 DEF Mcp!Listed
<1> QED
  BY <1>4, <1>5, <1>6 DEF Mcp!Initialized, Mcp!TooManyTools, Mcp!ConnectFails

LEMMA McpCallKeeps ==
  ASSUME McpInv, Mcp!Call
  PROVE  McpInv'
<1>1. Mcp!Issue(TRUE) /\ mcpStage = "ready" /\ UNCHANGED <<Mcp!questions, Mcp!ended, Mcp!discovery>> /\ ~closed /\ ~mcpCancelled /\ Mcp!Idle
  BY DEF Mcp!Call
<1> QED
  BY <1>1, McpIssueKeeps

LEMMA McpInitHolds == Mcp!Init => McpInv
<1> SUFFICES ASSUME Mcp!Init PROVE McpInv
  OBVIOUS
<1>1. 1 \in Mcp!Ids /\ MaxIds \in Nat /\ 1 \in 0 .. MaxIds /\ MaxPages \in Nat \ {0} /\ MaxBuffered \in Nat /\ Mcp!IsFiniteSet(Asks)
  BY PartsAssumption DEF Mcp!McpAssumption, Mcp!Ids
<1>2. Mcp!Held = {} /\ Mcp!Cardinality(Mcp!Held) = 0 /\ Mcp!Cardinality(Asks) \in Nat /\ Mcp!IsFiniteSet({})
  BY <1>1, McpEmptySet, McpCardinalityType DEF Mcp!Init, Mcp!Held
<1>3. Mcp!TypeOK
  <2>1. buffered \in Seq(Mcp!Ids) /\ Len(buffered) = 0
    BY DEF Mcp!Init
  <2>2. 0 \in 0 .. Mcp!Cardinality(Asks) /\ 0 \in 0 .. MaxPages
    BY <1>1, <1>2
  <2>3. /\ fate \in [Mcp!Ids -> {"none", "waiting", "answered", "failed"}]
        /\ ask \in [Asks -> {"none", "held", "answered", "lost"}]
    BY DEF Mcp!Init
  <2> QED
    BY <1>1, <2>1, <2>2, <2>3 DEF Mcp!Init, Mcp!TypeOK
<1>4. pending = {c \in Mcp!Ids : fate[c] = "waiting"}
  BY <1>1 DEF Mcp!Init
<1> QED
  BY <1>1, <1>2, <1>3, <1>4 DEF Mcp!Init, McpInv, McpConnecting, McpWaiting, HumansAsked, Mcp!ClocksFair

LEMMA McpNextKeeps == McpInv /\ [Mcp!Next]_mcp => McpInv'
<1> SUFFICES ASSUME McpInv, [Mcp!Next]_mcp PROVE McpInv'
  OBVIOUS
<1>1. CASE UNCHANGED mcp
  <2>1. /\ UNCHANGED <<mcpStage, seen, pages, idCounter, fate, pending, timers, suspended, handlers>>
        /\ UNCHANGED <<ask, elicitInFlight, buffered, reading, closed, mcpCancelled, destroyed, up>>
    BY <1>1 DEF mcp
  <2> QED
    BY <2>1 DEF McpInv, Mcp!TypeOK, McpConnecting, McpWaiting, HumansAsked, Mcp!ClocksFair, Mcp!Held
<1> QED
  BY <1>1, McpCallKeeps, ResponseKeeps, ChunkEndsKeeps, TimeoutKeeps, McpAskKeeps, McpEndKeeps, ConnectKeeps DEF Mcp!Next

LEMMA McpSays == McpInv => Mcp!CallsSettle /\ Mcp!ClocksFair /\ Mcp!ServerContained
  BY DEF McpInv, HumansAsked, McpWaiting, McpConnecting, Mcp!CallsSettle, Mcp!ServerContained

(* The callers of an MCP connection are settled: each waits for as long as its *)
(* request is pending, the clocks of the pending run or are kept to run again, *)
(* never while a human is asked, and what the server can make it keep is      *)
(* bounded, for any number of requests, questions, pages and early answers.   *)
THEOREM CallersAreSettled == ServicesSpec => []CallsSettle
<1>1. ServicesInit => McpInv
  BY McpInitHolds DEF ServicesInit
<1>2. ASSUME McpInv, [ServicesNext]_<<part, vars, toolVars, cuts, mcp, index>> PROVE McpInv'
  <2>1. CASE TalksMcp
    BY <1>2, <2>1, McpNextKeeps DEF TalksMcp
  <2>2. CASE UNCHANGED mcp
    BY <1>2, <2>2, McpNextKeeps
  <2>3. CASE CallsModel \/ CallsTools \/ CutsContext \/ Indexes
    BY <2>2, <2>3 DEF CallsModel, CallsTools, CutsContext, Indexes
  <2>4. QED
    BY <1>2, <2>1, <2>2, <2>3 DEF ServicesNext
<1>3. McpInv => CallsSettle
  BY McpSays DEF CallsSettle
<1>4. QED
  BY <1>1, <1>2, <1>3, PTL DEF ServicesSpec

-----------------------------------------------------------------------------
(* The row of a session in the index.  Since a call is started once, asks    *)
(* and returns only while it is open, and a reset comes only when none is,   *)
(* what is open in the epoch is what was started and not answered at all.    *)

StartedBy(es, n) == {es[i].id : i \in {k \in 1 .. n : es[k].src = "started"}}
AskedBy(es, n) == {es[i].id : i \in {k \in 1 .. n : es[k].src = "asked"}}
AnsweredBy(es, n) == {es[i].id : i \in {k \in 1 .. n : es[k].src = "result"}}
OpenBy(es, n) == StartedBy(es, n) \ AnsweredBy(es, n)
WaitingBy(es, n) == AskedBy(es, n) \ AnsweredBy(es, n)
AttemptsBy(es, n) == Index!Cardinality({k \in 1 .. n : es[k].src = "resume"})

IndexEntries ==
  [src : Index!Conversation \cup Index!Bookkeeping, id : Calls \cup {0},
   calls : {{}}, note : {"none", "auto", "manual"}]

(* The entry at i fits what is below it.                                    *)
Follows(es, i) ==
  /\ es[i].src = "started" => es[i].id \in Calls \ StartedBy(es, i - 1)
  /\ es[i].src \in {"asked", "result"} => es[i].id \in OpenBy(es, i - 1)
  /\ es[i].src = "reset" => OpenBy(es, i - 1) = {}

Orderly(es) == es \in Seq(IndexEntries) /\ \A i \in 1 .. Len(es) : Follows(es, i)

LogSane ==
  /\ Orderly(log) /\ Len(log) \in 1 .. MaxRecords /\ log[1].src = "session"
  /\ ~Index!OpenTurn(log) => OpenBy(log, Len(log)) = {}

(* What a row says that accounts for n entries of the log.                  *)
Tells(es, r, n) ==
  /\ Index!Ids(r.open) = OpenBy(es, n)
  /\ \A o \in r.open : o[2] = "question" => o[1] \in AskedBy(es, n)
  /\ r.resumes = AttemptsBy(es, n)
  /\ r.state = "awaiting" => WaitingBy(es, n) # {}

(* The record on disk, whose hook goes on, may not be in the row yet.        *)
Behind == landed # 0 /\ landed \notin row.seen
Told == IF Behind THEN Len(log) - 1 ELSE Len(log)
Due == IF landed # 0 /\ log[landed].src = "resume" THEN 1 ELSE 0

RowTold ==
  row # NoRow =>
    /\ row.size <= Len(log) /\ row.seen \subseteq 1 .. Len(log)
    /\ row.resumes + Due <= AttemptsBy(log, Len(log)) + 1
    /\ Index!Mirrored \subseteq row.seen \cup {landed} /\ ~row.twice => Tells(log, row, Told)

(* A derivation for a record began when this was the last one.              *)
JobsRead ==
  \A j \in jobs :
    /\ j.size <= Len(log) /\ j.read <= Len(log)
    /\ j.read # 0 => j.size <= j.read
    /\ j.for \in 1 .. MaxRecords => j.for = j.size

Landing ==
  /\ landed # 0 => landed = Len(log) /\ log[landed].src \in Index!Kinds
  /\ phase \in {"down", "boot"} => landed = 0
  /\ phase = "down" => jobs = {}

(* Who has missed a record is astray, not fresh, or about to be derived.     *)
RowFresh ==
  row # NoRow =>
    /\ landed # 0 /\ row.size = Len(log) => landed \in row.seen
    /\ ~row.astray /\ jobs = {} /\ phase \in {"cold", "up"} =>
         Index!Mirrored \subseteq row.seen \cup {landed}
    /\ ~row.astray /\ row.size = Len(log) /\ phase \in {"down", "boot"} =>
         Index!Mirrored \subseteq row.seen

IndexInv == Index!TypeOK /\ LogSane /\ RowTold /\ JobsRead /\ Landing /\ RowFresh

-----------------------------------------------------------------------------
LEMMA IndexCount ==
  ASSUME NEW S
  PROVE  Index!Cardinality(S) = Cardinality(S)
  BY Zenon DEF Index!Cardinality, Cardinality

LEMMA LastOf ==
  ASSUME NEW n \in Nat, NEW S \in SUBSET (1 .. n), S # {}
  PROVE  \E x \in S : \A y \in S : y <= x
<1> DEFINE T == {n - x : x \in S}
<1>1. T \in SUBSET Nat /\ T # {}
  <2>1. \A x \in S : n - x \in Nat  OBVIOUS
  <2> QED  BY <2>1
<1>3. PICK t \in T : \A y \in T : t <= y
  BY <1>1, LeastNumber
<1>4. PICK x \in S : t = n - x  OBVIOUS
<1>5. ASSUME NEW y \in S PROVE y <= x
  <2>1. n - y \in T  OBVIOUS
  <2> QED  BY <1>3, <1>4, <2>1
<1> QED  BY <1>5

LEMMA EpochIds ==
  ASSUME NEW S, NEW es \in Seq(S)
  PROVE  \E s \in 0 .. Len(es) :
           /\ s # 0 => es[s].src = "reset"
           /\ \A i \in 1 .. Len(es) : es[i].src = "reset" => i <= s
           /\ \A src : Index!IdsOf(Index!Epoch(es), src) =
                         {es[i].id : i \in {k \in s + 1 .. Len(es) : es[k].src = src}}
<1> DEFINE resets == {i \in DOMAIN es : es[i].src = "reset"}
           s == Index!EpochStart(es)
           below == Index!Epoch(es)
<1>1. Len(es) \in Nat /\ DOMAIN es = 1 .. Len(es)  OBVIOUS
<1>2. /\ s \in 0 .. Len(es)
      /\ s # 0 => es[s].src = "reset"
      /\ \A i \in 1 .. Len(es) : es[i].src = "reset" => i <= s
  <2>1. CASE resets = {}  BY <1>1, <2>1 DEF Index!EpochStart
  <2>2. CASE resets # {}
    <3>1. \E i \in resets : \A j \in resets : j <= i  BY <1>1, <2>2, LastOf
    <3>2. s \in resets /\ \A j \in resets : j <= s  BY <2>2, <3>1 DEF Index!EpochStart
    <3> QED  BY <1>1, <3>2
  <2> QED  BY <2>1, <2>2
<1>3. below = SubSeq(es, s + 1, Len(es))  BY DEF Index!Epoch
<1> HIDE DEF s, below
<1>4. /\ DOMAIN below = 1 .. Len(es) - s
      /\ \A i \in 1 .. Len(es) - s : below[i] = es[s + i]
  <2>1. \A i \in s + 1 .. Len(es) : es[i] \in S  BY <1>1, <1>2
  <2>2. s + 1 \in Int /\ Len(es) \in Int  BY <1>1, <1>2
  <2>3. below \in Seq(S)  BY <1>3, <2>1, <2>2, SubSeqProperties
  <2>4. Len(below) = Len(es) - s
    <3> DEFINE n == Len(es)
               m == Len(SubSeq(es, s + 1, Len(es)))
    <3>1. n \in Nat /\ s \in 0 .. n  BY <1>1, <1>2
    <3>2. m = IF s + 1 <= n THEN n - (s + 1) + 1 ELSE 0  BY <2>1, <2>2, SubSeqProperties
    <3> HIDE DEF n, m
    <3>3. m = n - s  BY <3>1, <3>2
    <3> QED  BY <1>3, <3>3 DEF n, m
  <2>5. ASSUME NEW i \in 1 .. Len(es) - s PROVE below[i] = es[s + i]
    <3>1. i \in 1 .. Len(es) - (s + 1) + 1 /\ (s + 1) + i - 1 = s + i  BY <1>1, <1>2
    <3>2. SubSeq(es, s + 1, Len(es))[i] = es[(s + 1) + i - 1]
      BY <2>1, <2>2, <3>1, SubSeqProperties
    <3> QED  BY <1>3, <3>1, <3>2
  <2> QED  BY <2>3, <2>4, <2>5
<1>5. ASSUME NEW src
      PROVE  Index!IdsOf(below, src) = {es[i].id : i \in {k \in s + 1 .. Len(es) : es[k].src = src}}
  <2>1. ASSUME NEW c \in Index!IdsOf(below, src)
        PROVE  c \in {es[i].id : i \in {k \in s + 1 .. Len(es) : es[k].src = src}}
    <3>1. PICK i \in DOMAIN below : below[i].src = src /\ c = below[i].id
      BY <2>1 DEF Index!IdsOf
    <3>2. i \in 1 .. Len(es) - s  BY <1>4, <3>1
    <3>3. s + i \in s + 1 .. Len(es)  BY <1>1, <1>2, <3>2
    <3>4. below[i] = es[s + i]  BY <1>4, <3>2
    <3> QED  BY <3>1, <3>3, <3>4
  <2>2. ASSUME NEW i \in s + 1 .. Len(es), es[i].src = src
        PROVE  es[i].id \in Index!IdsOf(below, src)
    <3>1. i - s \in 1 .. Len(es) - s /\ s + (i - s) = i  BY <1>1, <1>2
    <3>2. i - s \in DOMAIN below /\ below[i - s] = es[i]  BY <1>4, <3>1
    <3> QED  BY <2>2, <3>2 DEF Index!IdsOf
  <2> QED  BY <2>1, <2>2
<1> QED  BY <1>2, <1>5 DEF below

LEMMA PrefixIs ==
  ASSUME NEW S, NEW es \in Seq(S), NEW n \in 0 .. Len(es)
  PROVE  /\ SubSeq(es, 1, n) \in Seq(S) /\ Len(SubSeq(es, 1, n)) = n
         /\ \A i \in 1 .. n : SubSeq(es, 1, n)[i] = es[i]
<1>1. \A i \in 1 .. n : es[i] \in S  OBVIOUS
<1> QED  BY <1>1, SubSeqProperties

LEMMA WholeIs ==
  ASSUME NEW S, NEW es \in Seq(S)
  PROVE  SubSeq(es, 1, Len(es)) = es
BY SubSeqProperties

(* A call starts, asks and returns once, in that order.                     *)
LEMMA OrderFacts ==
  ASSUME NEW es, Orderly(es), NEW i \in 1 .. Len(es)
  PROVE  /\ es[i].src = "started" =>
              \A k \in 1 .. i : ~(es[k].src = "result" /\ es[k].id = es[i].id)
         /\ es[i].src \in {"asked", "result"} =>
              /\ \E m \in 1 .. i - 1 : es[m].src = "started" /\ es[m].id = es[i].id
              /\ \A k \in 1 .. i - 1 : ~(es[k].src = "result" /\ es[k].id = es[i].id)
<1>1. Len(es) \in Nat /\ \A k \in 1 .. Len(es) : Follows(es, k)  BY DEF Orderly
<1>2. ASSUME es[i].src = "started", NEW k \in 1 .. i, es[k].src = "result", es[k].id = es[i].id
      PROVE  FALSE
  <2>1. k \in 1 .. Len(es) /\ k # i  BY <1>1, <1>2
  <2>2. es[i].id \in OpenBy(es, k - 1)  BY <1>1, <1>2, <2>1 DEF Follows
  <2>3. PICK m \in 1 .. k - 1 : es[m].src = "started" /\ es[m].id = es[i].id
    BY <2>2 DEF OpenBy, StartedBy
  <2>4. m \in 1 .. i - 1  BY <1>1, <2>1
  <2>5. es[i].id \notin StartedBy(es, i - 1)  BY <1>1, <1>2 DEF Follows
  <2> QED  BY <2>3, <2>4, <2>5 DEF StartedBy
<1>3. ASSUME es[i].src \in {"asked", "result"}
      PROVE  /\ \E m \in 1 .. i - 1 : es[m].src = "started" /\ es[m].id = es[i].id
             /\ \A k \in 1 .. i - 1 : ~(es[k].src = "result" /\ es[k].id = es[i].id)
  <2>1. es[i].id \in OpenBy(es, i - 1)  BY <1>1, <1>3 DEF Follows
  <2> QED  BY <2>1 DEF OpenBy, StartedBy, AnsweredBy
<1> QED  BY <1>2, <1>3

(* What a derivation finds open, and asking, in a prefix of a log.          *)
LEMMA OpenIs ==
  ASSUME NEW es, Orderly(es), NEW n \in 0 .. Len(es)
  PROVE  /\ Index!OpenIds(SubSeq(es, 1, n)) = OpenBy(es, n)
         /\ Index!Asking(SubSeq(es, 1, n)) = WaitingBy(es, n)
         /\ OpenBy(es, n) \subseteq Index!IdsOf(Index!Epoch(SubSeq(es, 1, n)), "started")
<1> DEFINE p == SubSeq(es, 1, n)
           In(src) == Index!IdsOf(Index!Epoch(p), src)
<1>1. /\ p \in Seq(IndexEntries) /\ Len(p) = n /\ \A i \in 1 .. n : p[i] = es[i]
      /\ n \in Nat /\ Len(es) \in Nat
  BY PrefixIs DEF Orderly
<1>2. PICK s \in 0 .. n :
        /\ s # 0 => p[s].src = "reset"
        /\ \A i \in 1 .. n : p[i].src = "reset" => i <= s
        /\ \A src : In(src) = {p[i].id : i \in {k \in s + 1 .. n : p[k].src = src}}
  <2> HIDE DEF p
  <2>1. PICK s \in 0 .. Len(p) :
          /\ s # 0 => p[s].src = "reset"
          /\ \A i \in 1 .. Len(p) : p[i].src = "reset" => i <= s
          /\ \A src : In(src) = {p[i].id : i \in {k \in s + 1 .. Len(p) : p[k].src = src}}
    BY <1>1, EpochIds
  <2>2. Len(p) = n  BY <1>1
  <2> HIDE DEF In
  <2> QED  BY <2>1, <2>2
<1> HIDE DEF p
<1>3. /\ s # 0 => es[s].src = "reset"
      /\ \A src : In(src) = {es[i].id : i \in {k \in s + 1 .. n : es[k].src = src}}
  <2>1. s # 0 => s \in 1 .. n  BY <1>1
  <2>2. ASSUME NEW src PROVE In(src) = {es[i].id : i \in {k \in s + 1 .. n : es[k].src = src}}
    <3>1. In(src) = {p[i].id : i \in {k \in s + 1 .. n : p[k].src = src}}  BY <1>2
    <3>2. \A k \in s + 1 .. n : p[k] = es[k]  BY <1>1
    <3> HIDE DEF In
    <3> QED  BY <3>1, <3>2
  <2> QED  BY <1>1, <1>2, <2>1, <2>2
<1> HIDE DEF In
<1>4. \A i \in 1 .. n : Follows(es, i)  BY <1>1 DEF Orderly
<1>5. s # 0 => OpenBy(es, s - 1) = {}
  <2> HAVE s # 0
  <2>1. s \in 1 .. n  BY <1>1
  <2> QED  BY <1>3, <1>4, <2>1 DEF Follows
<1>6. ASSUME NEW i \in 1 .. n, es[i].src = "started"
      PROVE  \A k \in 1 .. i : ~(es[k].src = "result" /\ es[k].id = es[i].id)
  BY <1>1, <1>6, OrderFacts
<1>7. ASSUME NEW i \in 1 .. n, es[i].src \in {"asked", "result"}
      PROVE  /\ \E m \in 1 .. i - 1 : es[m].src = "started" /\ es[m].id = es[i].id
             /\ \A k \in 1 .. i - 1 : ~(es[k].src = "result" /\ es[k].id = es[i].id)
  BY <1>1, <1>7, OrderFacts
(* Who is open when the epoch begins is not open there: no one is.          *)
<1>8. ASSUME NEW c, c \notin AnsweredBy(es, n),
             NEW i \in 1 .. n, es[i].id = c, es[i].src \in {"started", "asked"}
      PROVE  i \in s + 1 .. n
  <2> SUFFICES ASSUME i <= s PROVE FALSE  BY <1>1
  <2>1. s # 0 /\ i # s /\ i \in 1 .. s - 1 /\ s - 1 \in 1 .. n  BY <1>1, <1>3, <1>8
  <2>2. \E m \in 1 .. s - 1 : es[m].src = "started" /\ es[m].id = c
    <3>1. CASE es[i].src = "started"  BY <1>8, <2>1, <3>1
    <3>2. CASE es[i].src = "asked"
      <4>1. PICK m \in 1 .. i - 1 : es[m].src = "started" /\ es[m].id = c  BY <1>7, <1>8, <3>2
      <4>2. m \in 1 .. s - 1  BY <1>1, <2>1
      <4> QED  BY <4>1, <4>2
    <3> QED  BY <1>8, <3>1, <3>2
  <2>3. c \notin AnsweredBy(es, s - 1)
    <3>1. 1 .. s - 1 \subseteq 1 .. n  BY <1>1, <2>1
    <3> QED  BY <1>8, <3>1 DEF AnsweredBy
  <2>4. c \in OpenBy(es, s - 1)  BY <2>2, <2>3 DEF OpenBy, StartedBy
  <2> QED  BY <1>5, <2>1, <2>4
<1>9. In("result") \subseteq AnsweredBy(es, n)
  <2>1. s + 1 .. n \subseteq 1 .. n  BY <1>1
  <2> QED  BY <1>3, <2>1 DEF AnsweredBy
(* Who asks or starts in the epoch has no result above it.                  *)
<1>10. ASSUME NEW i \in s + 1 .. n, es[i].src \in {"started", "asked"}, es[i].id \notin In("result")
       PROVE  es[i].id \in OpenBy(es, n)
  <2>1. i \in 1 .. n  BY <1>1
  <2>2. es[i].id \notin AnsweredBy(es, n)
    <3> SUFFICES ASSUME NEW k \in 1 .. n, es[k].src = "result", es[k].id = es[i].id PROVE FALSE
      BY DEF AnsweredBy
    <3>1. k \in 1 .. i - 1
      <4>1. k \notin s + 1 .. n  BY <1>3, <1>10
      <4> QED  BY <1>1, <4>1
    <3> QED  BY <1>1, <1>6, <1>7, <1>10, <2>1, <3>1
  <2>3. es[i].id \in StartedBy(es, n)
    <3>1. CASE es[i].src = "started"  BY <2>1, <3>1 DEF StartedBy
    <3>2. CASE es[i].src = "asked"
      <4>1. PICK m \in 1 .. i - 1 : es[m].src = "started" /\ es[m].id = es[i].id
        BY <1>7, <2>1, <3>2
      <4>2. m \in 1 .. n  BY <1>1, <2>1
      <4> QED  BY <4>1, <4>2 DEF StartedBy
    <3> QED  BY <1>10, <3>1, <3>2
  <2> QED  BY <2>2, <2>3 DEF OpenBy
<1>11. OpenBy(es, n) \subseteq In("started")
  <2> SUFFICES ASSUME NEW c \in OpenBy(es, n) PROVE c \in In("started")  OBVIOUS
  <2>1. PICK i \in 1 .. n : es[i].src = "started" /\ es[i].id = c  BY DEF OpenBy, StartedBy
  <2>2. i \in s + 1 .. n  BY <1>8, <2>1 DEF OpenBy
  <2> QED  BY <1>3, <2>1, <2>2
<1>12. (In("started") \cup In("asked")) \ In("result") = OpenBy(es, n)
  <2>1. ASSUME NEW c \in (In("started") \cup In("asked")) \ In("result") PROVE c \in OpenBy(es, n)
    <3>1. PICK i \in s + 1 .. n : es[i].src \in {"started", "asked"} /\ es[i].id = c  BY <1>3, <2>1
    <3> QED  BY <1>10, <2>1, <3>1
  <2>2. ASSUME NEW c \in OpenBy(es, n) PROVE c \in In("started") \ In("result")
    BY <1>9, <1>11, <2>2 DEF OpenBy
  <2> QED  BY <2>1, <2>2
<1>13. In("asked") \ In("result") = WaitingBy(es, n)
  <2>1. ASSUME NEW c \in In("asked") \ In("result") PROVE c \in WaitingBy(es, n)
    <3>1. PICK i \in s + 1 .. n : es[i].src = "asked" /\ es[i].id = c  BY <1>3, <2>1
    <3>2. c \in OpenBy(es, n)  BY <1>10, <2>1, <3>1
    <3>3. i \in 1 .. n  BY <1>1
    <3> QED  BY <3>1, <3>2, <3>3 DEF WaitingBy, OpenBy, AskedBy
  <2>2. ASSUME NEW c \in WaitingBy(es, n) PROVE c \in In("asked") \ In("result")
    <3>1. PICK i \in 1 .. n : es[i].src = "asked" /\ es[i].id = c  BY <2>2 DEF WaitingBy, AskedBy
    <3>2. i \in s + 1 .. n  BY <1>8, <2>2, <3>1 DEF WaitingBy
    <3> QED  BY <1>3, <1>9, <2>2, <3>1, <3>2 DEF WaitingBy
  <2> QED  BY <2>1, <2>2
<1> QED  BY <1>11, <1>12, <1>13 DEF Index!OpenIds, Index!Asking, In, p

-----------------------------------------------------------------------------
(* One entry more.                                                         *)

LEMMA ByStep ==
  ASSUME NEW es, NEW n \in Nat \ {0}
  PROVE  /\ StartedBy(es, n) = StartedBy(es, n - 1) \cup (IF es[n].src = "started" THEN {es[n].id} ELSE {})
         /\ AskedBy(es, n) = AskedBy(es, n - 1) \cup (IF es[n].src = "asked" THEN {es[n].id} ELSE {})
         /\ AnsweredBy(es, n) = AnsweredBy(es, n - 1) \cup (IF es[n].src = "result" THEN {es[n].id} ELSE {})
<1>1. 1 .. n = (1 .. n - 1) \cup {n}  OBVIOUS
<1> DEFINE Of(src, m) == {es[i].id : i \in {k \in 1 .. m : es[k].src = src}}
<1>2. ASSUME NEW src
      PROVE  Of(src, n) = Of(src, n - 1) \cup (IF es[n].src = src THEN {es[n].id} ELSE {})
  BY <1>1
<1> QED  BY <1>2 DEF StartedBy, AskedBy, AnsweredBy

LEMMA QuietStep ==
  ASSUME NEW es, NEW n \in Nat, es[n + 1].src \notin {"started", "asked", "result"}
  PROVE  /\ StartedBy(es, n + 1) = StartedBy(es, n) /\ AskedBy(es, n + 1) = AskedBy(es, n)
         /\ AnsweredBy(es, n + 1) = AnsweredBy(es, n)
<1>1. 1 .. n + 1 = (1 .. n) \cup {n + 1}  OBVIOUS
<1>2. ASSUME NEW src \in {"started", "asked", "result"}
      PROVE  {k \in 1 .. n + 1 : es[k].src = src} = {k \in 1 .. n : es[k].src = src}
  BY <1>1
<1> QED  BY <1>2 DEF StartedBy, AskedBy, AnsweredBy

LEMMA AttemptsStep ==
  ASSUME NEW es, NEW n \in Nat
  PROVE  /\ AttemptsBy(es, n) \in 0 .. n
         /\ n # 0 => AttemptsBy(es, n) =
                       AttemptsBy(es, n - 1) + (IF es[n].src = "resume" THEN 1 ELSE 0)
<1> DEFINE At(m) == {k \in 1 .. m : es[k].src = "resume"}
<1>1. ASSUME NEW m \in Nat PROVE IsFiniteSet(At(m)) /\ Cardinality(At(m)) \in 0 .. m
  <2>1. IsFiniteSet(1 .. m) /\ Cardinality(1 .. m) = m  BY FS_Interval
  <2>2. IsFiniteSet(At(m)) /\ Cardinality(At(m)) <= m  BY <2>1, FS_Subset
  <2> QED  BY <2>2, FS_CardinalityType
<1>2. ASSUME n # 0
      PROVE  Cardinality(At(n)) = Cardinality(At(n - 1)) + (IF es[n].src = "resume" THEN 1 ELSE 0)
  <2>1. n - 1 \in Nat /\ 1 .. n = (1 .. n - 1) \cup {n} /\ n \notin 1 .. n - 1  BY <1>2
  <2>2. CASE es[n].src = "resume"
    <3>1. At(n) = At(n - 1) \cup {n} /\ n \notin At(n - 1)  BY <2>1, <2>2
    <3>2. IsFiniteSet(At(n - 1))  BY <1>1, <2>1
    <3> HIDE DEF At
    <3> QED  BY <2>2, <3>1, <3>2, FS_AddElement
  <2>3. CASE es[n].src # "resume"
    <3>1. At(n) = At(n - 1)  BY <2>1, <2>3
    <3>2. Cardinality(At(n - 1)) \in Nat  BY <1>1, <2>1
    <3> HIDE DEF At
    <3> QED  BY <2>3, <3>1, <3>2
  <2> QED  BY <2>2, <2>3
<1>3. \A m : AttemptsBy(es, m) = Cardinality(At(m))  BY IndexCount DEF AttemptsBy
<1> HIDE DEF At
<1> QED  BY <1>1, <1>2, <1>3

(* A log that grows says of its old entries what it said.                   *)
LEMMA BySame ==
  ASSUME NEW es, NEW fs, NEW n \in Nat, \A i \in 1 .. n : es[i] = fs[i]
  PROVE  /\ StartedBy(es, n) = StartedBy(fs, n) /\ AskedBy(es, n) = AskedBy(fs, n)
         /\ AnsweredBy(es, n) = AnsweredBy(fs, n) /\ OpenBy(es, n) = OpenBy(fs, n)
         /\ WaitingBy(es, n) = WaitingBy(fs, n) /\ AttemptsBy(es, n) = AttemptsBy(fs, n)
<1>1. \A src : {k \in 1 .. n : es[k].src = src} = {k \in 1 .. n : fs[k].src = src}  OBVIOUS
<1> DEFINE Of(gs, src) == {gs[i].id : i \in {k \in 1 .. n : gs[k].src = src}}
<1>2. \A src : Of(es, src) = Of(fs, src)  OBVIOUS
<1>3. /\ StartedBy(es, n) = StartedBy(fs, n) /\ AskedBy(es, n) = AskedBy(fs, n)
      /\ AnsweredBy(es, n) = AnsweredBy(fs, n)
  BY <1>2 DEF StartedBy, AskedBy, AnsweredBy
<1>4. AttemptsBy(es, n) = AttemptsBy(fs, n)
  <2>1. {k \in 1 .. n : es[k].src = "resume"} = {k \in 1 .. n : fs[k].src = "resume"}  BY <1>1
  <2> QED  BY <2>1 DEF AttemptsBy
<1> QED  BY <1>3, <1>4 DEF OpenBy, WaitingBy

-----------------------------------------------------------------------------
(* A record applied to a row.                                              *)

States == {"idle", "awaiting", "interrupted", "parked"}
RowShape ==
  [size : Nat, state : States, open : SUBSET (Calls \X {"started", "question"}),
   resumes : Nat, seen : SUBSET Nat, twice : BOOLEAN, astray : BOOLEAN]

LEMMA MirrorIs ==
  ASSUME NEW r \in RowShape, NEW i \in 1 .. Len(log), Orderly(log),
         log[i].src \in Index!Kinds \ {"reset"}
  PROVE  LET m == Index!Mirrors(r, i)
             e == log[i]
             left == {o \in r.open : o[1] # e.id}
             Opened(kind) == IF e.id \in Index!Ids(r.open) THEN r.open ELSE r.open \cup {<<e.id, kind>>}
         IN  /\ m \in RowShape
             /\ m.size = r.size /\ m.seen = r.seen /\ m.twice = r.twice /\ m.astray = r.astray
             /\ m.resumes = r.resumes + (IF e.src = "resume" THEN 1 ELSE 0)
             /\ e.src = "started" => m.open = Opened("started") /\ m.state = r.state
             /\ e.src = "asked" => m.open = Opened("question") /\ m.state = "awaiting"
             /\ e.src = "result" =>
                  /\ m.open = left
                  /\ m.state = "awaiting" => \E o \in left : o[2] = "question"
             /\ e.src = "resume" => m.open = r.open /\ (m.state = "awaiting" => r.state = "awaiting")
<1> DEFINE e == log[i]
           left == {o \in r.open : o[1] # e.id}
           Opened(kind) == IF e.id \in Index!Ids(r.open) THEN r.open ELSE r.open \cup {<<e.id, kind>>}
<1>1. Follows(log, i) /\ \A k \in 1 .. Len(log) : log[k] \in IndexEntries  BY DEF Orderly
<1>2. e.src \in {"started", "asked"} => e.id \in Calls
  <2>1. CASE e.src = "started"  BY <1>1, <2>1 DEF Follows
  <2>2. CASE e.src = "asked"
    <3>1. PICK m \in 1 .. i - 1 : log[m].src = "started" /\ log[m].id = e.id
      BY <1>1, <2>2 DEF Follows, OpenBy, StartedBy
    <3>2. m \in 1 .. Len(log)  OBVIOUS
    <3>3. Follows(log, m)  BY <3>2 DEF Orderly
    <3> QED  BY <3>1, <3>3 DEF Follows
  <2> QED  BY <2>1, <2>2
<1>3. CASE e.src = "started"
  <2>1. Index!Mirrors(r, i) = [r EXCEPT !.open = Opened("started")]  BY <1>3 DEF Index!Mirrors
  <2>2. Opened("started") \in SUBSET (Calls \X {"started", "question"})  BY <1>2, <1>3 DEF RowShape
  <2> HIDE DEF Opened, left
  <2>3. [r EXCEPT !.open = Opened("started")] \in RowShape  BY <2>2 DEF RowShape
  <2> QED  BY <1>3, <2>1, <2>3 DEF RowShape, Opened, left
<1>4. CASE e.src = "asked"
  <2>1. Index!Mirrors(r, i) = [r EXCEPT !.open = Opened("question"), !.state = "awaiting"]
    BY <1>4 DEF Index!Mirrors
  <2>2. Opened("question") \in SUBSET (Calls \X {"started", "question"})  BY <1>2, <1>4 DEF RowShape
  <2> HIDE DEF Opened, left
  <2>3. [r EXCEPT !.open = Opened("question"), !.state = "awaiting"] \in RowShape
    BY <2>2 DEF RowShape, States
  <2> QED  BY <1>4, <2>1, <2>3 DEF RowShape, Opened, left
<1>5. CASE e.src = "result"
  <2> DEFINE st == IF \E o \in left : o[2] = "question" THEN "awaiting" ELSE "idle"
  <2>1. Index!Mirrors(r, i) = [r EXCEPT !.open = left, !.state = st]  BY <1>5 DEF Index!Mirrors
  <2>2. left \in SUBSET (Calls \X {"started", "question"}) /\ st \in States
    BY DEF RowShape, States
  <2>3. st = "awaiting" => \E o \in left : o[2] = "question"  OBVIOUS
  <2> HIDE DEF Opened, left, st
  <2>4. [r EXCEPT !.open = left, !.state = st] \in RowShape  BY <2>2 DEF RowShape
  <2> DEFINE m == Index!Mirrors(r, i)
  <2>5. /\ m.size = r.size /\ m.seen = r.seen /\ m.twice = r.twice /\ m.astray = r.astray
        /\ m.resumes = r.resumes /\ m.open = left /\ m.state = st /\ m \in RowShape
    BY <2>1, <2>4 DEF RowShape
  <2>6. r.resumes + 0 = r.resumes  BY DEF RowShape
  <2> HIDE DEF m
  <2> QED  BY <1>5, <2>3, <2>5, <2>6 DEF m, left
<1>6. CASE e.src = "resume"
  <2> DEFINE st == IF Index!ConsecutiveAutoResumes(SubSeq(log, 1, i)) >= AutoCap THEN "parked" ELSE r.state
  <2>1. Index!Mirrors(r, i) = [r EXCEPT !.resumes = r.resumes + 1, !.state = st]
    BY <1>6 DEF Index!Mirrors
  <2>2. st \in States /\ (st = "awaiting" => r.state = "awaiting")  BY DEF RowShape, States
  <2> HIDE DEF Opened, left, st
  <2> DEFINE n == r.resumes + 1
  <2>3. n \in Nat  BY DEF RowShape
  <2> HIDE DEF n
  <2>4. [r EXCEPT !.resumes = n, !.state = st] \in RowShape  BY <2>2, <2>3 DEF RowShape
  <2> QED  BY <1>6, <2>1, <2>2, <2>4 DEF RowShape, n
<1> QED  BY <1>3, <1>4, <1>5, <1>6 DEF Index!Kinds

LEMMA IdsAdd ==
  ASSUME NEW S, NEW id, NEW kind
  PROVE  Index!Ids(S \cup {<<id, kind>>}) = Index!Ids(S) \cup {id}
<1>1. ASSUME NEW x \in Index!Ids(S \cup {<<id, kind>>}) PROVE x \in Index!Ids(S) \cup {id}
  <2>1. PICK o \in S \cup {<<id, kind>>} : x = o[1]  BY <1>1 DEF Index!Ids
  <2> QED  BY <2>1 DEF Index!Ids
<1>2. Index!Ids(S) \subseteq Index!Ids(S \cup {<<id, kind>>})  BY DEF Index!Ids
<1>3. id \in Index!Ids(S \cup {<<id, kind>>})
  <2>1. <<id, kind>> \in S \cup {<<id, kind>>} /\ id = <<id, kind>>[1]  OBVIOUS
  <2> QED  BY <2>1 DEF Index!Ids
<1> QED  BY <1>1, <1>2, <1>3

LEMMA MirrorNext ==
  ASSUME Orderly(log), NEW r \in RowShape, NEW n \in 1 .. Len(log),
         log[n].src \in Index!Kinds \ {"reset"}, Tells(log, r, n - 1)
  PROVE  Tells(log, Index!Mirrors(r, n), n)
<1> DEFINE m == Index!Mirrors(r, n)
           e == log[n]
           id == e.id
<1>1. /\ m.resumes = r.resumes + (IF e.src = "resume" THEN 1 ELSE 0)
      /\ e.src = "started" => /\ m.open = IF id \in Index!Ids(r.open) THEN r.open ELSE r.open \cup {<<id, "started">>}
                              /\ m.state = r.state
      /\ e.src = "asked" => m.open = IF id \in Index!Ids(r.open) THEN r.open ELSE r.open \cup {<<id, "question">>}
      /\ e.src = "result" =>
           /\ m.open = {o \in r.open : o[1] # id}
           /\ m.state = "awaiting" => \E o \in r.open : o[1] # id /\ o[2] = "question"
      /\ e.src = "resume" => m.open = r.open /\ (m.state = "awaiting" => r.state = "awaiting")
  BY MirrorIs
<1> HIDE DEF m
<1>2. /\ n \in Nat \ {0} /\ Follows(log, n)
      /\ StartedBy(log, n) = StartedBy(log, n - 1) \cup (IF e.src = "started" THEN {id} ELSE {})
      /\ AskedBy(log, n) = AskedBy(log, n - 1) \cup (IF e.src = "asked" THEN {id} ELSE {})
      /\ AnsweredBy(log, n) = AnsweredBy(log, n - 1) \cup (IF e.src = "result" THEN {id} ELSE {})
      /\ AttemptsBy(log, n) = AttemptsBy(log, n - 1) + (IF e.src = "resume" THEN 1 ELSE 0)
  BY ByStep, AttemptsStep DEF Orderly
<1>3. /\ {o[1] : o \in r.open} = OpenBy(log, n - 1)
      /\ \A o \in r.open : o[2] = "question" => o[1] \in AskedBy(log, n - 1)
      /\ r.resumes = AttemptsBy(log, n - 1)
      /\ r.state = "awaiting" => WaitingBy(log, n - 1) # {}
  BY DEF Tells, Index!Ids
<1>4. e.src = "started" => id \notin AnsweredBy(log, n)
  <2> HAVE e.src = "started"
  <2>1. \A k \in 1 .. n : ~(log[k].src = "result" /\ log[k].id = id)  BY OrderFacts
  <2> QED  BY <2>1 DEF AnsweredBy
<1>5. e.src \in {"asked", "result"} => id \in OpenBy(log, n - 1)  BY <1>2 DEF Follows
<1>6. m.resumes = AttemptsBy(log, n)  BY <1>1, <1>2, <1>3
<1>7. CASE e.src = "started"
  <2>1. Index!Ids(m.open) = OpenBy(log, n - 1) \cup {id}
    <3>0. Index!Ids(r.open) = OpenBy(log, n - 1)  BY DEF Tells
    <3>1. CASE id \in OpenBy(log, n - 1)
      <4>1. m.open = r.open  BY <1>1, <1>7, <3>0, <3>1
      <4> QED  BY <3>0, <3>1, <4>1
    <3>2. CASE id \notin OpenBy(log, n - 1)
      <4>1. m.open = r.open \cup {<<id, "started">>}  BY <1>1, <1>7, <3>0, <3>2
      <4>2. Index!Ids(r.open \cup {<<id, "started">>}) = Index!Ids(r.open) \cup {id}  BY IdsAdd
      <4>3. Index!Ids(m.open) = Index!Ids(r.open \cup {<<id, "started">>})  BY <4>1
      <4> QED  BY <3>0, <4>2, <4>3
    <3> QED  BY <3>1, <3>2
  <2>2. OpenBy(log, n) = OpenBy(log, n - 1) \cup {id}  BY <1>2, <1>4, <1>7 DEF OpenBy
  <2>3. \A o \in m.open : o[2] = "question" => o[1] \in AskedBy(log, n)  BY <1>1, <1>2, <1>3, <1>7
  <2>4. m.state = "awaiting" => WaitingBy(log, n) # {}  BY <1>1, <1>2, <1>3, <1>7 DEF WaitingBy
  <2> QED  BY <1>6, <2>1, <2>2, <2>3, <2>4 DEF Tells, m
<1>8. CASE e.src = "asked"
  <2>1. m.open = r.open  BY <1>1, <1>3, <1>5, <1>8 DEF Index!Ids
  <2>2. OpenBy(log, n) = OpenBy(log, n - 1)  BY <1>2, <1>8 DEF OpenBy
  <2>3. \A o \in m.open : o[2] = "question" => o[1] \in AskedBy(log, n)  BY <1>2, <1>3, <2>1
  <2>4. id \in WaitingBy(log, n)  BY <1>2, <1>5, <1>8 DEF WaitingBy, OpenBy
  <2> QED  BY <1>3, <1>6, <2>1, <2>2, <2>3, <2>4 DEF Tells, Index!Ids, m
<1>9. CASE e.src = "result"
  <2>1. {o[1] : o \in m.open} = OpenBy(log, n - 1) \ {id}  BY <1>1, <1>3, <1>9
  <2>2. OpenBy(log, n) = OpenBy(log, n - 1) \ {id}  BY <1>2, <1>9 DEF OpenBy
  <2>3. \A o \in m.open : o[2] = "question" => o[1] \in AskedBy(log, n)  BY <1>1, <1>2, <1>3, <1>9
  <2>4. m.state = "awaiting" => WaitingBy(log, n) # {}
    <3> HAVE m.state = "awaiting"
    <3>1. PICK o \in r.open : o[1] # id /\ o[2] = "question"  BY <1>1, <1>9
    <3>2. o[1] \in AskedBy(log, n) /\ o[1] \in OpenBy(log, n - 1)  BY <1>2, <1>3, <3>1
    <3> QED  BY <1>2, <1>9, <3>1, <3>2 DEF WaitingBy, OpenBy
  <2> QED  BY <1>6, <2>1, <2>2, <2>3, <2>4 DEF Tells, Index!Ids, m
<1>10. CASE e.src = "resume"
  <2>1. OpenBy(log, n) = OpenBy(log, n - 1) /\ WaitingBy(log, n) = WaitingBy(log, n - 1)
        /\ AskedBy(log, n) = AskedBy(log, n - 1)
    BY <1>2, <1>10 DEF OpenBy, WaitingBy
  <2>2. m.open = r.open /\ (m.state = "awaiting" => r.state = "awaiting")  BY <1>1, <1>10
  <2> QED  BY <1>3, <1>6, <2>1, <2>2 DEF Tells, Index!Ids, m
<1> QED  BY <1>7, <1>8, <1>9, <1>10 DEF Index!Kinds

(* A record that the row accounts for already changes nothing, unless the    *)
(* call was answered since.                                                 *)
LEMMA MirrorAgain ==
  ASSUME Orderly(log), NEW r \in RowShape, NEW n \in 0 .. Len(log), NEW i \in 1 .. n,
         Index!Again(log[i]), \A k \in 1 .. n : ~Index!Undone(k, i), Tells(log, r, n)
  PROVE  Tells(log, Index!Mirrors(r, i), n)
<1> DEFINE m == Index!Mirrors(r, i)
           e == log[i]
           id == e.id
<1>0. n \in Nat /\ i \in 1 .. Len(log) /\ Len(log) \in Nat /\ e.src \in {"started", "asked", "result"}
  BY DEF Index!Again, Orderly
<1>1. /\ m.resumes = r.resumes
      /\ e.src = "started" => /\ m.open = IF id \in Index!Ids(r.open) THEN r.open ELSE r.open \cup {<<id, "started">>}
                              /\ m.state = r.state
      /\ e.src = "asked" => m.open = IF id \in Index!Ids(r.open) THEN r.open ELSE r.open \cup {<<id, "question">>}
      /\ e.src = "result" =>
           /\ m.open = {o \in r.open : o[1] # id}
           /\ m.state = "awaiting" => \E o \in r.open : o[1] # id /\ o[2] = "question"
  <2>1. e.src \in Index!Kinds \ {"reset"} /\ e.src # "resume"  BY <1>0 DEF Index!Kinds
  <2>2. r.resumes \in Nat  BY DEF RowShape
  <2>3. m.resumes = r.resumes + (IF e.src = "resume" THEN 1 ELSE 0)  BY <1>0, <2>1, MirrorIs
  <2>4. m.resumes = r.resumes  BY <2>1, <2>2, <2>3
  <2> QED  BY <1>0, <2>1, <2>4, MirrorIs
<1> HIDE DEF m
<1>2. /\ {o[1] : o \in r.open} = OpenBy(log, n)
      /\ \A o \in r.open : o[2] = "question" => o[1] \in AskedBy(log, n)
      /\ r.resumes = AttemptsBy(log, n)
      /\ r.state = "awaiting" => WaitingBy(log, n) # {}
  BY DEF Tells, Index!Ids
<1>3. \A k \in i + 1 .. n : ~(log[k].src = "result" /\ log[k].id = id)
  BY <1>0 DEF Index!Undone
<1>4. e.src \in {"started", "asked"} => id \in OpenBy(log, n)
  <2> HAVE e.src \in {"started", "asked"}
  <2>1. \A k \in 1 .. i : ~(log[k].src = "result" /\ log[k].id = id)
    <3>1. \A k \in 1 .. i - 1 : ~(log[k].src = "result" /\ log[k].id = id)
      <4>1. 1 .. i - 1 \subseteq 1 .. i  BY <1>0
      <4> QED  BY <1>0, <4>1, OrderFacts
    <3> QED  BY <1>0, <3>1
  <2>2. \A k \in 1 .. n : ~(log[k].src = "result" /\ log[k].id = id)  BY <1>0, <1>3, <2>1
  <2>3. \E k \in 1 .. n : log[k].src = "started" /\ log[k].id = id
    <3>1. CASE e.src = "started"  BY <3>1
    <3>2. CASE e.src = "asked"
      <4>1. PICK k \in 1 .. i - 1 : log[k].src = "started" /\ log[k].id = id  BY <1>0, <3>2, OrderFacts
      <4>2. k \in 1 .. n  BY <1>0
      <4> QED  BY <4>1, <4>2
    <3> QED  BY <3>1, <3>2
  <2> QED  BY <2>2, <2>3 DEF OpenBy, StartedBy, AnsweredBy
<1>5. CASE e.src = "started"
  <2>1. m.open = r.open /\ m.state = r.state  BY <1>1, <1>2, <1>4, <1>5 DEF Index!Ids
  <2> QED  BY <1>1, <1>2, <2>1 DEF Tells, Index!Ids, m
<1>6. CASE e.src = "asked"
  <2>1. m.open = r.open  BY <1>1, <1>2, <1>4, <1>6 DEF Index!Ids
  <2>2. id \in WaitingBy(log, n)  BY <1>4, <1>6 DEF WaitingBy, OpenBy, AskedBy
  <2> QED  BY <1>1, <1>2, <2>1, <2>2 DEF Tells, Index!Ids, m
<1>7. CASE e.src = "result"
  <2>1. id \notin OpenBy(log, n)  BY <1>0, <1>7 DEF OpenBy, AnsweredBy
  <2>2. m.open = r.open  BY <1>1, <1>2, <1>7, <2>1
  <2>3. m.state = "awaiting" => WaitingBy(log, n) # {}
    <3> HAVE m.state = "awaiting"
    <3>1. PICK o \in r.open : o[1] # id /\ o[2] = "question"  BY <1>1, <1>7
    <3> QED  BY <1>2, <3>1 DEF WaitingBy, OpenBy
  <2> QED  BY <1>1, <1>2, <2>2, <2>3 DEF Tells, Index!Ids, m
<1> QED  BY <1>0, <1>5, <1>6, <1>7

(* A call whose record is applied behind its result is open again, as it was *)
(* before that result.                                                     *)
LEMMA MirrorReopens ==
  ASSUME Orderly(log), NEW r \in RowShape, NEW n \in 1 .. Len(log), NEW i \in 1 .. n,
         Index!Again(log[i]), Index!Undone(n, i),
         \A k \in 1 .. n - 1 : ~Index!Undone(k, i), Tells(log, r, n)
  PROVE  Tells(log, Index!Mirrors(r, i), n - 1)
<1> DEFINE m == Index!Mirrors(r, i)
           e == log[i]
           id == e.id
<1>0. /\ n \in Nat \ {0} /\ i \in 1 .. Len(log) /\ Len(log) \in Nat /\ i \in 1 .. n - 1
      /\ log[n].src = "result" /\ log[n].id = id
  BY DEF Index!Undone, Orderly
<1>1. e.src \in {"started", "asked"}
  <2>1. \A k \in 1 .. n - 1 : ~(log[k].src = "result" /\ log[k].id = log[n].id)  BY <1>0, OrderFacts
  <2> QED  BY <1>0, <2>1 DEF Index!Again
<1>2. /\ m.resumes = r.resumes
      /\ e.src = "started" => /\ m.open = IF id \in Index!Ids(r.open) THEN r.open ELSE r.open \cup {<<id, "started">>}
                              /\ m.state = r.state
      /\ e.src = "asked" => m.open = IF id \in Index!Ids(r.open) THEN r.open ELSE r.open \cup {<<id, "question">>}
  <2>1. e.src \in Index!Kinds \ {"reset"} /\ e.src # "resume"  BY <1>1 DEF Index!Kinds
  <2>2. r.resumes \in Nat  BY DEF RowShape
  <2>3. m.resumes = r.resumes + (IF e.src = "resume" THEN 1 ELSE 0)  BY <1>0, <2>1, MirrorIs
  <2>4. m.resumes = r.resumes  BY <2>1, <2>2, <2>3
  <2> QED  BY <1>0, <2>1, <2>4, MirrorIs
<1> HIDE DEF m
<1>3. /\ {o[1] : o \in r.open} = OpenBy(log, n)
      /\ \A o \in r.open : o[2] = "question" => o[1] \in AskedBy(log, n)
      /\ r.resumes = AttemptsBy(log, n)
      /\ r.state = "awaiting" => WaitingBy(log, n) # {}
  BY DEF Tells, Index!Ids
<1>4. /\ StartedBy(log, n) = StartedBy(log, n - 1) /\ AskedBy(log, n) = AskedBy(log, n - 1)
      /\ AnsweredBy(log, n) = AnsweredBy(log, n - 1) \cup {id}
      /\ AttemptsBy(log, n) = AttemptsBy(log, n - 1)
  <2>1. AttemptsBy(log, n - 1) \in 0 .. n - 1  BY <1>0, AttemptsStep
  <2>2. AttemptsBy(log, n) = AttemptsBy(log, n - 1) + (IF log[n].src = "resume" THEN 1 ELSE 0)
    BY <1>0, AttemptsStep
  <2>3. AttemptsBy(log, n) = AttemptsBy(log, n - 1)  BY <1>0, <2>1, <2>2
  <2>4. /\ StartedBy(log, n) = StartedBy(log, n - 1) \cup (IF log[n].src = "started" THEN {log[n].id} ELSE {})
        /\ AskedBy(log, n) = AskedBy(log, n - 1) \cup (IF log[n].src = "asked" THEN {log[n].id} ELSE {})
        /\ AnsweredBy(log, n) = AnsweredBy(log, n - 1) \cup (IF log[n].src = "result" THEN {log[n].id} ELSE {})
    BY <1>0, ByStep
  <2> QED  BY <1>0, <2>3, <2>4
<1>5. id \in OpenBy(log, n - 1)
  <2>1. Follows(log, n)  BY <1>0 DEF Orderly
  <2> QED  BY <1>0, <2>1 DEF Follows
<1>6. OpenBy(log, n) = OpenBy(log, n - 1) \ {id} /\ WaitingBy(log, n) \subseteq WaitingBy(log, n - 1)
  BY <1>4 DEF OpenBy, WaitingBy
<1>7. Index!Ids(m.open) = OpenBy(log, n - 1)
  <2>1. id \notin Index!Ids(r.open)  BY <1>3, <1>6 DEF Index!Ids
  <2>2. m.open = r.open \cup {<<id, "started">>} \/ m.open = r.open \cup {<<id, "question">>}
    BY <1>1, <1>2, <2>1
  <2>3. /\ Index!Ids(r.open \cup {<<id, "started">>}) = Index!Ids(r.open) \cup {id}
        /\ Index!Ids(r.open \cup {<<id, "question">>}) = Index!Ids(r.open) \cup {id}
    BY IdsAdd
  <2>4. \/ Index!Ids(m.open) = Index!Ids(r.open \cup {<<id, "started">>})
        \/ Index!Ids(m.open) = Index!Ids(r.open \cup {<<id, "question">>})
    BY <2>2
  <2> QED  BY <1>5, <1>6, <2>3, <2>4 DEF Tells
<1>8. e.src = "asked" => id \in WaitingBy(log, n - 1)
  <2> HAVE e.src = "asked"
  <2>1. id \in AskedBy(log, n - 1)  BY <1>0 DEF AskedBy
  <2> QED  BY <1>5, <2>1 DEF WaitingBy, OpenBy
<1>9. \A o \in m.open : o[2] = "question" => o[1] \in AskedBy(log, n - 1)
  BY <1>1, <1>2, <1>3, <1>4, <1>8 DEF WaitingBy
<1>10. m.state = "awaiting" => WaitingBy(log, n - 1) # {}
  BY <1>1, <1>2, <1>3, <1>6, <1>8
<1> QED  BY <1>2, <1>3, <1>4, <1>7, <1>9, <1>10 DEF Tells, m

(* Entries that no hook mirrors say nothing to a row.                       *)
LEMMA QuietTells ==
  ASSUME NEW r, NEW n \in 0 .. Len(log), NEW m \in 0 .. n, Len(log) \in Nat,
         \A k \in m + 1 .. n : log[k].src \notin Index!Kinds
  PROVE  /\ StartedBy(log, n) = StartedBy(log, m) /\ AskedBy(log, n) = AskedBy(log, m)
         /\ AnsweredBy(log, n) = AnsweredBy(log, m) /\ OpenBy(log, n) = OpenBy(log, m)
         /\ AttemptsBy(log, n) = AttemptsBy(log, m)
         /\ Tells(log, r, m) <=> Tells(log, r, n)
<1> DEFINE Of(src, x) == {k \in 1 .. x : log[k].src = src}
<1>1. ASSUME NEW src \in Index!Kinds PROVE Of(src, n) = Of(src, m)
  <2>1. \A k \in 1 .. n : k \in 1 .. m \/ k \in m + 1 .. n  OBVIOUS
  <2>2. 1 .. m \subseteq 1 .. n  OBVIOUS
  <2> QED  BY <2>1, <2>2
<1>2. /\ Of("started", n) = Of("started", m) /\ Of("asked", n) = Of("asked", m)
      /\ Of("result", n) = Of("result", m) /\ Of("resume", n) = Of("resume", m)
  BY <1>1 DEF Index!Kinds
<1>3. /\ StartedBy(log, n) = StartedBy(log, m) /\ AskedBy(log, n) = AskedBy(log, m)
      /\ AnsweredBy(log, n) = AnsweredBy(log, m) /\ AttemptsBy(log, n) = AttemptsBy(log, m)
  BY <1>2 DEF StartedBy, AskedBy, AnsweredBy, AttemptsBy
<1> QED  BY <1>3 DEF Tells, OpenBy, WaitingBy

-----------------------------------------------------------------------------
(* A derivation.                                                           *)

LEMMA RowIsShape == IndexInv /\ row # NoRow => row \in Index!Rows /\ row \in RowShape
  BY DEF IndexInv, Index!TypeOK, Index!Rows, RowShape, States

LEMMA DerivedTells ==
  ASSUME IndexInv, NEW j \in jobs, j.read # 0
  PROVE  LET d == Index!Derived(j)
         IN  /\ d \in RowShape /\ Tells(log, d, j.read)
             /\ d.size = j.size /\ d.seen = 1 .. j.read /\ ~d.twice
             /\ d.resumes <= AttemptsBy(log, Len(log))
<1> DEFINE p == SubSeq(log, 1, j.read)
           d == Index!Derived(j)
           kind(c) == IF c \in Index!IdsOf(Index!Epoch(p), "started") THEN "started" ELSE "question"
<1>1. /\ Orderly(log) /\ j.size \in Nat /\ j.read \in 1 .. Len(log) /\ Len(log) \in Nat
      /\ j.size <= Len(log)
  <2>1. Orderly(log) /\ Len(log) \in Nat  BY DEF IndexInv, LogSane, Orderly
  <2>2. j.size \in 1 .. MaxRecords /\ j.read \in 0 .. MaxRecords
    BY DEF IndexInv, Index!TypeOK, Index!Jobs
  <2>3. MaxRecords \in Nat  BY PartsAssumption DEF Index!IndexAssumption
  <2> QED  BY <2>1, <2>2, <2>3 DEF IndexInv, JobsRead
<1>2. /\ Index!OpenIds(p) = OpenBy(log, j.read) /\ Index!Asking(p) = WaitingBy(log, j.read)
      /\ OpenBy(log, j.read) \subseteq Index!IdsOf(Index!Epoch(p), "started")
  BY <1>1, OpenIs
<1>3. /\ p \in Seq(IndexEntries) /\ Len(p) = j.read /\ \A i \in 1 .. j.read : p[i] = log[i]
  <2>1. log \in Seq(IndexEntries) /\ j.read \in 0 .. Len(log)  BY <1>1 DEF Orderly
  <2> QED  BY <2>1, PrefixIs
<1>4. Index!Attempts(p) = AttemptsBy(log, j.read)
  <2>1. DOMAIN p = 1 .. j.read  BY <1>1, <1>3
  <2>2. {i \in DOMAIN p : p[i].src = "resume"} = {i \in 1 .. j.read : log[i].src = "resume"}
    BY <1>3, <2>1
  <2> HIDE DEF p
  <2> QED  BY <2>2 DEF Index!Attempts, AttemptsBy
<1>5. /\ d.size = j.size /\ d.state = Index!DerivedState(p) /\ d.open = Index!DerivedOpen(p)
      /\ d.resumes = Index!Attempts(p) /\ d.seen = 1 .. j.read /\ d.twice = FALSE /\ d.astray = FALSE
      /\ d = [size |-> j.size, state |-> Index!DerivedState(p), open |-> Index!DerivedOpen(p),
              resumes |-> Index!Attempts(p), seen |-> 1 .. j.read, twice |-> FALSE, astray |-> FALSE]
  BY DEF Index!Derived, Index!SizeRead
<1> HIDE DEF p, d
<1>6. Index!DerivedState(p) \in States /\ (Index!DerivedState(p) = "awaiting" => WaitingBy(log, j.read) # {})
  BY <1>2 DEF Index!DerivedState, States
<1>7. Index!DerivedOpen(p) = {<<c, "started">> : c \in OpenBy(log, j.read)}
  <2>1. Index!DerivedOpen(p) = {<<c, kind(c)>> : c \in OpenBy(log, j.read)}
    BY <1>2 DEF Index!DerivedOpen
  <2>2. \A c \in OpenBy(log, j.read) : kind(c) = "started"  BY <1>2
  <2> HIDE DEF kind
  <2> QED  BY <2>1, <2>2
<1>8. OpenBy(log, j.read) \subseteq Calls
  <2> SUFFICES ASSUME NEW c \in OpenBy(log, j.read) PROVE c \in Calls  OBVIOUS
  <2>1. PICK i \in 1 .. j.read : log[i].src = "started" /\ log[i].id = c  BY DEF OpenBy, StartedBy
  <2>2. i \in 1 .. Len(log)  BY <1>1
  <2>3. Follows(log, i)  BY <1>1, <2>2 DEF Orderly
  <2> QED  BY <2>1, <2>3 DEF Follows
<1>9. AttemptsBy(log, j.read) \in Nat  BY <1>1, AttemptsStep
<1>10. d \in RowShape
  <2>1. Index!DerivedOpen(p) \in SUBSET (Calls \X {"started", "question"})  BY <1>7, <1>8
  <2>2. 1 .. j.read \in SUBSET Nat  BY <1>1
  <2> QED  BY <1>1, <1>4, <1>5, <1>6, <1>9, <2>1, <2>2 DEF RowShape
<1>11. Tells(log, d, j.read)
  <2>1. Index!Ids(d.open) = OpenBy(log, j.read)
    <3>1. \A c \in OpenBy(log, j.read) : <<c, "started">> \in d.open /\ <<c, "started">>[1] = c
      BY <1>5, <1>7
    <3>2. \A o \in d.open : o[1] \in OpenBy(log, j.read)  BY <1>5, <1>7
    <3> QED  BY <3>1, <3>2 DEF Index!Ids
  <2>2. \A o \in d.open : o[2] # "question"  BY <1>5, <1>7
  <2> QED  BY <1>4, <1>5, <1>6, <2>1, <2>2 DEF Tells
<1>12. AttemptsBy(log, j.read) <= AttemptsBy(log, Len(log))
  <2>1. {k \in 1 .. j.read : log[k].src = "resume"} \subseteq {k \in 1 .. Len(log) : log[k].src = "resume"}
    BY <1>1
  <2>2. IsFiniteSet({k \in 1 .. Len(log) : log[k].src = "resume"})
    <3>1. IsFiniteSet(1 .. Len(log))  BY <1>1, FS_Interval
    <3> QED  BY <3>1, FS_Subset
  <2>3. Cardinality({k \in 1 .. j.read : log[k].src = "resume"})
          <= Cardinality({k \in 1 .. Len(log) : log[k].src = "resume"})
    BY <2>1, <2>2, FS_Subset
  <2> QED  BY <2>3, IndexCount DEF AttemptsBy
<1> QED  BY <1>4, <1>5, <1>10, <1>11, <1>12 DEF d

(* The row a derivation writes accounts for what it read, or, when it opens a *)
(* call again whose result is on disk, for all but that.                    *)
LEMMA WrittenTells ==
  ASSUME IndexInv, NEW j \in jobs, j.read # 0
  PROVE  LET w == Index!Written(j)
             anew == j.for \in DOMAIN log /\ Index!Again(log[j.for])
         IN  /\ w \in RowShape /\ w.size = j.size /\ ~w.twice
             /\ w.resumes <= AttemptsBy(log, Len(log))
             /\ w.seen \subseteq 1 .. j.read
             /\ \A k \in 1 .. j.read : k \notin w.seen => anew /\ Index!Undone(k, j.for)
             /\ (\A k \in 1 .. j.read : k \in w.seen) => Tells(log, w, j.read)
             /\ (\A k \in 1 .. j.read - 1 : k \in w.seen) /\ j.read \notin w.seen => Tells(log, w, j.read - 1)
<1> DEFINE w == Index!Written(j)
           d == Index!Derived(j)
           i == j.for
           anew == i \in DOMAIN log /\ Index!Again(log[i])
<1>1. /\ d \in RowShape /\ Tells(log, d, j.read)
      /\ d.size = j.size /\ d.seen = 1 .. j.read /\ ~d.twice
      /\ d.resumes <= AttemptsBy(log, Len(log))
  BY DerivedTells
<1>2. /\ Orderly(log) /\ Len(log) \in Nat /\ MaxRecords \in Nat /\ DOMAIN log = 1 .. Len(log)
      /\ Len(log) <= MaxRecords
      /\ j.size \in Nat /\ j.read \in 1 .. Len(log) /\ j.size <= j.read
      /\ i \in 1 .. MaxRecords => i = j.size
  <2>1. Orderly(log) /\ Len(log) \in Nat /\ DOMAIN log = 1 .. Len(log)
    BY DEF IndexInv, LogSane, Orderly
  <2>2. j.size \in 1 .. MaxRecords /\ j.read \in 0 .. MaxRecords
    BY DEF IndexInv, Index!TypeOK, Index!Jobs
  <2>3. MaxRecords \in Nat  BY PartsAssumption DEF Index!IndexAssumption
  <2> QED  BY <2>1, <2>2, <2>3 DEF IndexInv, JobsRead, LogSane
<1> HIDE DEF d
<1>3. CASE ~anew
  <2>1. w = d  BY <1>3 DEF Index!Written, d
  <2> QED  BY <1>1, <1>3, <2>1, <1>2
<1>4. CASE anew
  <2> DEFINE m == Index!Mirrors(d, i)
             s == {k \in m.seen : ~Index!Undone(k, i)} \cup {i}
  <2>1. i \in 1 .. j.read /\ i \in 1 .. Len(log)  BY <1>2, <1>4
  <2>2. w = [m EXCEPT !.seen = s]  BY <1>4 DEF Index!Written, Index!Applied, d
  <2>3. log[i].src \in Index!Kinds \ {"reset"} /\ log[i].src # "resume"
    BY <1>4 DEF Index!Again, Index!Kinds
  <2>4. /\ m \in RowShape /\ m.size = d.size /\ m.seen = d.seen /\ m.twice = d.twice
        /\ m.resumes = d.resumes + (IF log[i].src = "resume" THEN 1 ELSE 0)
    BY <1>1, <1>2, <2>1, <2>3, MirrorIs
  <2>5. m.resumes = d.resumes
    <3>1. d.resumes \in Nat  BY <1>1 DEF RowShape
    <3> QED  BY <2>3, <2>4, <3>1
  <2> HIDE DEF m
  <2>6. s = {k \in 1 .. j.read : ~Index!Undone(k, i)}
    <3>1. ~Index!Undone(i, i)  BY <1>2, <2>1 DEF Index!Undone
    <3> QED  BY <1>1, <2>1, <2>4, <3>1
  <2> HIDE DEF s
  <2>7. s \in SUBSET Nat  BY <1>2, <2>6
  <2>8. /\ w \in RowShape /\ w.size = m.size /\ w.twice = m.twice /\ w.resumes = m.resumes
        /\ w.seen = s /\ w.open = m.open /\ w.state = m.state
    BY <2>2, <2>4, <2>7 DEF RowShape
  <2>9. ASSUME \A k \in 1 .. j.read : k \in s PROVE Tells(log, m, j.read)
    <3>1. \A k \in 1 .. j.read : ~Index!Undone(k, i)  BY <2>6, <2>9
    <3>2. j.read \in 0 .. Len(log)  BY <1>2
    <3> QED  BY <1>1, <1>2, <1>4, <2>1, <3>1, <3>2, MirrorAgain DEF m
  <2>10. ASSUME \A k \in 1 .. j.read - 1 : k \in s, j.read \notin s PROVE Tells(log, m, j.read - 1)
    <3>1. \A k \in 1 .. j.read - 1 : ~Index!Undone(k, i)  BY <2>6, <2>10
    <3>2. Index!Undone(j.read, i)  BY <1>2, <2>6, <2>10
    <3> QED  BY <1>1, <1>2, <1>4, <2>1, <3>1, <3>2, MirrorReopens DEF m
  <2>11. \A n : Tells(log, m, n) => Tells(log, w, n)  BY <2>8 DEF Tells
  <2> HIDE DEF w
  <2> QED  BY <1>1, <1>4, <2>4, <2>5, <2>6, <2>8, <2>9, <2>10, <2>11 DEF w
<1> QED  BY <1>3, <1>4

-----------------------------------------------------------------------------
(* The steps.                                                              *)

LEMMA GrowFacts ==
  ASSUME LogSane, NEW e \in IndexEntries
  PROVE  LET es == Append(log, e)
             n == Len(log)
         IN  /\ n \in Nat \ {0} /\ es \in Seq(IndexEntries) /\ Len(es) = n + 1 /\ es[n + 1] = e
             /\ \A i \in 1 .. n : es[i] = log[i]
             /\ StartedBy(es, n) = StartedBy(log, n) /\ OpenBy(es, n) = OpenBy(log, n)
             /\ OpenBy(es, n + 1) =
                  (StartedBy(log, n) \cup (IF e.src = "started" THEN {e.id} ELSE {}))
                     \ (AnsweredBy(log, n) \cup (IF e.src = "result" THEN {e.id} ELSE {}))
             /\ Index!OpenTurn(es) <=>
                  e.src = "turnStarted" \/ (Index!OpenTurn(log) /\ e.src # "turnEnd")
<1> DEFINE es == Append(log, e)
           n == Len(log)
<1>1. /\ n \in Nat \ {0} /\ es \in Seq(IndexEntries) /\ Len(es) = n + 1 /\ es[n + 1] = e
      /\ \A i \in 1 .. n : es[i] = log[i]
      /\ DOMAIN es = 1 .. n + 1 /\ DOMAIN log = 1 .. n
  BY DEF LogSane, Orderly
<1> HIDE DEF es, n
<1>2. /\ StartedBy(es, n) = StartedBy(log, n) /\ OpenBy(es, n) = OpenBy(log, n)
      /\ AnsweredBy(es, n) = AnsweredBy(log, n)
  BY <1>1, BySame
<1>3. OpenBy(es, n + 1) =
        (StartedBy(log, n) \cup (IF e.src = "started" THEN {e.id} ELSE {}))
           \ (AnsweredBy(log, n) \cup (IF e.src = "result" THEN {e.id} ELSE {}))
  <2>1. n + 1 \in Nat \ {0} /\ n + 1 - 1 = n  BY <1>1
  <2>2. /\ StartedBy(es, n + 1) = StartedBy(es, n) \cup (IF e.src = "started" THEN {e.id} ELSE {})
        /\ AnsweredBy(es, n + 1) = AnsweredBy(es, n) \cup (IF e.src = "result" THEN {e.id} ELSE {})
    BY <1>1, <2>1, ByStep
  <2> QED  BY <1>2, <2>2 DEF OpenBy
<1>4. Index!OpenTurn(es) <=> e.src = "turnStarted" \/ (Index!OpenTurn(log) /\ e.src # "turnEnd")
  <2>1. ASSUME e.src = "turnStarted" PROVE Index!OpenTurn(es)
    <3>1. n + 1 \in DOMAIN es /\ n + 1 + 1 .. n + 1 = {}  BY <1>1
    <3> QED  BY <1>1, <2>1, <3>1 DEF Index!OpenTurn
  <2>2. ASSUME Index!OpenTurn(log), e.src # "turnEnd" PROVE Index!OpenTurn(es)
    <3>1. PICK i \in 1 .. n : /\ log[i].src = "turnStarted"
                              /\ \A k \in i + 1 .. n : log[k].src # "turnEnd"
      BY <1>1, <2>2 DEF Index!OpenTurn, n
    <3>2. \A k \in i + 1 .. n + 1 : es[k].src # "turnEnd"
      <4>1. \A k \in i + 1 .. n + 1 : k = n + 1 \/ (k \in i + 1 .. n /\ k \in 1 .. n)  BY <1>1
      <4> QED  BY <1>1, <2>2, <3>1, <4>1
    <3>3. i \in DOMAIN es /\ es[i].src = "turnStarted"  BY <1>1, <3>1
    <3> QED  BY <1>1, <3>2, <3>3 DEF Index!OpenTurn
  <2>3. ASSUME Index!OpenTurn(es), e.src # "turnStarted" PROVE Index!OpenTurn(log) /\ e.src # "turnEnd"
    <3>1. PICK i \in 1 .. n + 1 : /\ es[i].src = "turnStarted"
                                  /\ \A k \in i + 1 .. n + 1 : es[k].src # "turnEnd"
      BY <1>1, <2>3 DEF Index!OpenTurn
    <3>2. i \in 1 .. n /\ n + 1 \in i + 1 .. n + 1  BY <1>1, <2>3, <3>1
    <3>3. \A k \in i + 1 .. n : k \in i + 1 .. n + 1 /\ es[k] = log[k]  BY <1>1, <3>2
    <3>4. i \in DOMAIN log /\ log[i].src = "turnStarted"  BY <1>1, <3>1, <3>2
    <3> QED  BY <1>1, <3>1, <3>2, <3>3, <3>4 DEF Index!OpenTurn, n
  <2> QED  BY <2>1, <2>2, <2>3
<1> QED  BY <1>1, <1>2, <1>3, <1>4 DEF es, n

LEMMA IndexConstants ==
  MaxRecords \in Nat \ {0} /\ MaxJobs \in Nat /\ MaxSearches \in Nat /\ MaxTroubles \in Nat
  BY PartsAssumption DEF Index!IndexAssumption

LEMMA AppendKeeps ==
  ASSUME IndexInv, NEW e \in IndexEntries, Index!Appends(e),
         phase \in {"cold", "up"}, phase' = "up",
         e.src = "started" => e.id \in Calls \ StartedBy(log, Len(log)),
         e.src \in {"asked", "result"} => e.id \in OpenBy(log, Len(log)),
         e.src = "reset" => OpenBy(log, Len(log)) = {},
         ~Index!OpenTurn(Append(log, e)) => OpenBy(Append(log, e), Len(log) + 1) = {}
  PROVE  IndexInv'
<1> DEFINE n == Len(log)
<1>1. /\ landed = 0 /\ n < MaxRecords /\ log' = Append(log, e)
      /\ landed' = IF e.src \in Index!Kinds THEN n + 1 ELSE 0
      /\ UNCHANGED <<row, jobs, searches, troubles>>
  BY DEF Index!Appends, Index!budget
<1>2. /\ n \in Nat \ {0} /\ log' \in Seq(IndexEntries) /\ Len(log') = n + 1 /\ log'[n + 1] = e
      /\ \A i \in 1 .. n : log'[i] = log[i]
      /\ StartedBy(log', n) = StartedBy(log, n) /\ OpenBy(log', n) = OpenBy(log, n)
      /\ DOMAIN log' = 1 .. n + 1 /\ DOMAIN log = 1 .. n
  BY <1>1, GrowFacts DEF IndexInv, LogSane, Orderly
<1>3. MaxRecords \in Nat \ {0}  BY IndexConstants
<1> HIDE DEF n
<1>4. Index!TypeOK'
  <2>1. landed' \in 0 .. MaxRecords  BY <1>1, <1>2, <1>3 DEF n
  <2> QED  BY <1>1, <1>2, <2>1 DEF IndexInv, Index!TypeOK, IndexEntries
<1>5. LogSane'
  <2>1. ASSUME NEW i \in 1 .. n + 1 PROVE Follows(log', i)
    <3>1. CASE i = n + 1
      <4>1. n + 1 - 1 = n  BY <1>2
      <4> QED  BY <1>2, <3>1, <4>1 DEF Follows, n
    <3>2. CASE i # n + 1
      <4>1. i \in 1 .. n /\ i - 1 \in Nat /\ \A k \in 1 .. i - 1 : log[k] = log'[k]  BY <1>2, <3>2
      <4>2. StartedBy(log', i - 1) = StartedBy(log, i - 1) /\ OpenBy(log', i - 1) = OpenBy(log, i - 1)
        BY <4>1, BySame
      <4>3. Follows(log, i)  BY <4>1 DEF IndexInv, LogSane, Orderly, n
      <4> QED  BY <1>2, <4>1, <4>2, <4>3 DEF Follows
    <3> QED  BY <3>1, <3>2
  <2>2. Orderly(log')  BY <1>2, <2>1 DEF Orderly
  <2>3. n + 1 \in 1 .. MaxRecords /\ 1 \in 1 .. n  BY <1>1, <1>2, <1>3 DEF n
  <2>4. log'[1].src = "session"  BY <1>2, <2>3 DEF IndexInv, LogSane
  <2>5. ~Index!OpenTurn(log') => OpenBy(log', n + 1) = {}  BY <1>1 DEF n
  <2>6. LogSane' <=> /\ Orderly(log') /\ Len(log') \in 1 .. MaxRecords /\ log'[1].src = "session"
                     /\ ~Index!OpenTurn(log') => OpenBy(log', Len(log')) = {}
    BY DEF LogSane, Orderly, Follows, StartedBy, OpenBy, AnsweredBy, Index!OpenTurn
  <2> QED  BY <1>2, <2>2, <2>3, <2>4, <2>5, <2>6
<1>6. Index!Mirrored' = Index!Mirrored \cup (IF e.src \in Index!Kinds THEN {n + 1} ELSE {})
  <2>1. Index!Mirrored' = {i \in 1 .. n + 1 : log'[i].src \in Index!Kinds}
    BY <1>2 DEF Index!Mirrored, Index!Kinds
  <2>2. Index!Mirrored = {i \in 1 .. n : log[i].src \in Index!Kinds}  BY <1>2 DEF Index!Mirrored
  <2>3. 1 .. n + 1 = (1 .. n) \cup {n + 1}  BY <1>2
  <2> QED  BY <1>2, <2>1, <2>2, <2>3
<1>7. Index!Mirrored \subseteq 1 .. n  BY <1>2 DEF Index!Mirrored
<1>8. RowTold'
  <2> SUFFICES ASSUME row # NoRow
               PROVE  /\ row.size <= n + 1 /\ row.seen \subseteq 1 .. n + 1
                      /\ row.resumes + Due' <= AttemptsBy(log', n + 1) + 1
                      /\ Index!Mirrored' \subseteq row.seen \cup {landed'} /\ ~row.twice => Tells(log, row, Told)'
    <3>1. Tells(log, row, Told)' <=> Tells(log, row, Told)'  OBVIOUS
    <3>2. AttemptsBy(log', Len(log')) = AttemptsBy(log, Len(log))'  OBVIOUS
    <3> QED  BY <1>1, <1>2, <3>2 DEF RowTold
  <2>1. row \in RowShape /\ row.size <= n /\ row.seen \subseteq 1 .. n /\ row.resumes + Due <= AttemptsBy(log, n) + 1
    BY RowIsShape DEF IndexInv, RowTold, n
  <2>2. Due = 0 /\ Due' = IF e.src = "resume" THEN 1 ELSE 0
    <3>1. Due' = IF landed' # 0 /\ log'[landed'].src = "resume" THEN 1 ELSE 0  BY DEF Due
    <3>2. CASE e.src \in Index!Kinds
      <4>1. landed' = n + 1 /\ landed' # 0 /\ log'[landed'] = e  BY <1>1, <1>2, <3>2
      <4> QED  BY <1>1, <3>1, <4>1 DEF Due
    <3>3. CASE e.src \notin Index!Kinds
      <4>1. landed' = 0 /\ e.src # "resume"  BY <1>1, <3>3 DEF Index!Kinds
      <4> QED  BY <1>1, <3>1, <4>1 DEF Due
    <3> QED  BY <3>2, <3>3
  <2>3. /\ AttemptsBy(log', n) = AttemptsBy(log, n) /\ AttemptsBy(log, n) \in Nat
        /\ AttemptsBy(log', n + 1) = AttemptsBy(log', n) + (IF e.src = "resume" THEN 1 ELSE 0)
    <3>1. n \in Nat /\ n + 1 \in Nat /\ n + 1 # 0 /\ n + 1 - 1 = n  BY <1>2
    <3>2. AttemptsBy(log', n) = AttemptsBy(log, n)  BY <1>2, <3>1, BySame
    <3>3. AttemptsBy(log, n) \in 0 .. n  BY <3>1, AttemptsStep
    <3>4. AttemptsBy(log', n + 1) = AttemptsBy(log', n + 1 - 1) + (IF log'[n + 1].src = "resume" THEN 1 ELSE 0)
      BY <3>1, AttemptsStep
    <3> QED  BY <1>2, <3>1, <3>2, <3>3, <3>4
  <2>4. row.resumes + Due' <= AttemptsBy(log', n + 1) + 1
    <3>1. row.resumes \in Nat  BY <2>1 DEF RowShape
    <3> QED  BY <2>1, <2>2, <2>3, <3>1
  <2>5. row.size <= n + 1 /\ row.seen \subseteq 1 .. n + 1
    <3>1. row.size \in Nat  BY <2>1 DEF RowShape
    <3> QED  BY <1>2, <2>1, <3>1
  <2>6. ASSUME Index!Mirrored' \subseteq row.seen \cup {landed'}, ~row.twice
        PROVE  Tells(log, row, Told)'
    <3>1. Index!Mirrored \subseteq row.seen \cup {landed}
      <4>1. \A k \in Index!Mirrored : k # landed'  BY <1>1, <1>2, <1>7
      <4> QED  BY <1>6, <2>6, <4>1
    <3>2. Tells(log, row, n)
      <4>1. Told = n  BY <1>1 DEF Told, Behind, n
      <4> QED  BY <2>6, <3>1, <4>1 DEF IndexInv, RowTold
    <3>3. /\ OpenBy(log', n) = OpenBy(log, n) /\ AskedBy(log', n) = AskedBy(log, n)
          /\ WaitingBy(log', n) = WaitingBy(log, n) /\ AttemptsBy(log', n) = AttemptsBy(log, n)
          /\ StartedBy(log', n) = StartedBy(log, n) /\ AnsweredBy(log', n) = AnsweredBy(log, n)
      BY <1>2, BySame
    <3>4. CASE e.src \in Index!Kinds
      <4>1. Told' = n
        <5>1. landed' = n + 1 /\ landed' # 0 /\ landed' \notin row'.seen  BY <1>1, <1>2, <2>1, <3>4
        <5>2. Behind'  BY <5>1 DEF Behind
        <5> QED  BY <1>2, <5>2 DEF Told
      <4>2. Tells(log, row, Told)' <=>
              /\ Index!Ids(row.open) = OpenBy(log', n)
              /\ \A o \in row.open : o[2] = "question" => o[1] \in AskedBy(log', n)
              /\ row.resumes = AttemptsBy(log', n)
              /\ row.state = "awaiting" => WaitingBy(log', n) # {}
        BY <1>1, <4>1 DEF Tells
      <4> QED  BY <3>2, <3>3, <4>2 DEF Tells
    <3>5. CASE e.src \notin Index!Kinds
      <4>1. Told' = n + 1
        <5>1. landed' = 0  BY <1>1, <3>5
        <5>2. ~Behind'  BY <5>1 DEF Behind
        <5> QED  BY <1>2, <5>2 DEF Told
      <4>2. Tells(log, row, Told)' <=>
              /\ Index!Ids(row.open) = OpenBy(log', n + 1)
              /\ \A o \in row.open : o[2] = "question" => o[1] \in AskedBy(log', n + 1)
              /\ row.resumes = AttemptsBy(log', n + 1)
              /\ row.state = "awaiting" => WaitingBy(log', n + 1) # {}
        BY <1>1, <4>1 DEF Tells
      <4>3. /\ StartedBy(log', n + 1) = StartedBy(log', n) /\ AskedBy(log', n + 1) = AskedBy(log', n)
            /\ AnsweredBy(log', n + 1) = AnsweredBy(log', n) /\ AttemptsBy(log', n + 1) = AttemptsBy(log', n)
        <5>1. e.src \notin {"started", "asked", "result", "resume"}  BY <3>5 DEF Index!Kinds
        <5>2. n + 1 \in Nat \ {0} /\ n + 1 - 1 = n  BY <1>2
        <5>3. /\ StartedBy(log', n + 1) = StartedBy(log', n) /\ AskedBy(log', n + 1) = AskedBy(log', n)
              /\ AnsweredBy(log', n + 1) = AnsweredBy(log', n)
          BY <1>2, <5>1, QuietStep
        <5>4. AttemptsBy(log', n + 1) = AttemptsBy(log', n)  BY <2>3, <5>1
        <5> QED  BY <1>2, <5>1, <5>2, <5>3, <5>4
      <4> QED  BY <3>2, <3>3, <4>2, <4>3 DEF Tells, OpenBy, WaitingBy
    <3> QED  BY <3>4, <3>5
  <2> QED  BY <2>4, <2>5, <2>6
<1>9. JobsRead'
  <2> SUFFICES ASSUME NEW j \in jobs
               PROVE  /\ j.size <= n + 1 /\ j.read <= n + 1
                      /\ j.read # 0 => j.size <= j.read
                      /\ j.for \in 1 .. MaxRecords => j.for = j.size
    BY <1>1, <1>2 DEF JobsRead
  <2>1. j.size \in Nat /\ j.read \in Nat  BY <1>3 DEF IndexInv, Index!TypeOK, Index!Jobs
  <2> QED  BY <1>2, <2>1 DEF IndexInv, JobsRead, n
<1>10. Landing'
  BY <1>1, <1>2 DEF Landing, Index!Kinds
<1>11. RowFresh'
  <2> SUFFICES ASSUME row # NoRow
               PROVE  /\ ~(row.size = n + 1)
                      /\ ~row.astray /\ jobs = {} => Index!Mirrored' \subseteq row.seen \cup {landed'}
    BY <1>1, <1>2 DEF RowFresh
  <2>1. row.size <= n /\ row.size \in Nat  BY RowIsShape DEF IndexInv, RowTold, RowShape, n
  <2>2. ~row.astray /\ jobs = {} => Index!Mirrored \subseteq row.seen \cup {landed}
    BY DEF IndexInv, RowFresh
  <2>3. 0 \notin Index!Mirrored  BY <1>7
  <2> QED  BY <1>1, <1>2, <1>6, <2>1, <2>2, <2>3
<1> QED  BY <1>4, <1>5, <1>8, <1>9, <1>10, <1>11 DEF IndexInv

LEMMA WhatLogSays ==
  ASSUME LogSane
  PROVE  /\ Index!OpenIds(log) = OpenBy(log, Len(log)) /\ Index!Asking(log) = WaitingBy(log, Len(log))
         /\ Index!IdsOf(log, "started") = StartedBy(log, Len(log))
<1>1. /\ Orderly(log) /\ Len(log) \in 0 .. Len(log) /\ log \in Seq(IndexEntries)
      /\ DOMAIN log = 1 .. Len(log)
  BY DEF LogSane, Orderly
<1>2. SubSeq(log, 1, Len(log)) = log  BY <1>1, WholeIs
<1>3. /\ Index!OpenIds(SubSeq(log, 1, Len(log))) = OpenBy(log, Len(log))
      /\ Index!Asking(SubSeq(log, 1, Len(log))) = WaitingBy(log, Len(log))
  BY <1>1, OpenIs
<1>4. Index!IdsOf(log, "started") = StartedBy(log, Len(log))
  BY <1>1 DEF Index!IdsOf, StartedBy
<1> QED  BY <1>2, <1>3, <1>4

LEMMA LogKeeps ==
  ASSUME IndexInv,
         \/ Index!Prompt \/ Index!Reply \/ Index!TurnEnds \/ Index!Rewinds \/ Index!Resumes
         \/ \E c \in Calls : Index!Starts(c) \/ Index!Queries(c) \/ Index!Returns(c)
  PROVE  IndexInv'
<1> DEFINE n == Len(log)
<1>1. /\ Index!OpenIds(log) = OpenBy(log, n) /\ Index!Asking(log) = WaitingBy(log, n)
      /\ Index!IdsOf(log, "started") = StartedBy(log, n)
  BY WhatLogSays DEF IndexInv
<1>2. ~Index!OpenTurn(log) => OpenBy(log, n) = {}  BY DEF IndexInv, LogSane
<1>3. OpenBy(log, n) = StartedBy(log, n) \ AnsweredBy(log, n)  BY DEF OpenBy
<1>4. ASSUME NEW e \in IndexEntries
      PROVE  /\ OpenBy(Append(log, e), n + 1) =
                  (StartedBy(log, n) \cup (IF e.src = "started" THEN {e.id} ELSE {}))
                     \ (AnsweredBy(log, n) \cup (IF e.src = "result" THEN {e.id} ELSE {}))
             /\ Index!OpenTurn(Append(log, e)) <=>
                  e.src = "turnStarted" \/ (Index!OpenTurn(log) /\ e.src # "turnEnd")
  BY GrowFacts DEF IndexInv
<1> HIDE DEF n
(* An entry that is none of a call, and begins or ends no turn, or ends one. *)
<1>5. ASSUME NEW e \in IndexEntries, Index!Appends(e), phase \in {"cold", "up"}, phase' = "up",
             e.src \notin {"started", "asked", "result"},
             e.src \in {"turnEnd", "reset"} => OpenBy(log, n) = {}
      PROVE  IndexInv'
  <2>1. ~Index!OpenTurn(Append(log, e)) => OpenBy(Append(log, e), n + 1) = {}
    <3> HAVE ~Index!OpenTurn(Append(log, e))
    <3>1. OpenBy(Append(log, e), n + 1) = OpenBy(log, n)  BY <1>3, <1>4, <1>5
    <3>2. OpenBy(log, n) = {}  BY <1>2, <1>4, <1>5
    <3> QED  BY <3>1, <3>2
  <2> QED  BY <1>5, <2>1, AppendKeeps DEF n
(* An entry of a call that is open, or starts, in a turn that goes on.       *)
<1>6. ASSUME NEW e \in IndexEntries, Index!Appends(e), phase = "up", phase' = "up",
             e.src \in {"started", "asked", "result"},
             Index!OpenTurn(log) \/ OpenBy(log, n) # {},
             e.src = "started" => e.id \in Calls \ StartedBy(log, n),
             e.src # "started" => e.id \in OpenBy(log, n)
      PROVE  IndexInv'
  <2>1. Index!OpenTurn(Append(log, e))  BY <1>2, <1>4, <1>6
  <2> QED  BY <1>6, <2>1, AppendKeeps DEF n
<1>7. ASSUME NEW src \in {"turnStarted", "input", "turnEnd", "reset"}
      PROVE  Index!Entry(src, 0) \in IndexEntries /\ Index!Entry(src, 0).src = src
  BY DEF IndexEntries, Index!Entry, Index!Conversation, Index!Bookkeeping
<1>8. ASSUME NEW c \in Calls, NEW src \in {"started", "asked"}
      PROVE  Index!Entry(src, c) \in IndexEntries /\ Index!Entry(src, c).src = src /\ Index!Entry(src, c).id = c
  BY DEF IndexEntries, Index!Entry, Index!Conversation, Index!Bookkeeping
<1>9. CASE Index!Prompt
  <2>1. /\ Index!Entry("turnStarted", 0) \in IndexEntries
        /\ Index!Entry("turnStarted", 0).src = "turnStarted"
    BY <1>7
  <2> QED  BY <1>5, <1>9, <2>1 DEF Index!Prompt, Index!Lands
<1>10. CASE Index!Reply
  <2>1. Index!Entry("input", 0) \in IndexEntries /\ Index!Entry("input", 0).src = "input"  BY <1>7
  <2> QED  BY <1>5, <1>10, <2>1 DEF Index!Reply, Index!Lands
<1>11. CASE Index!TurnEnds
  <2>1. Index!Entry("turnEnd", 0) \in IndexEntries /\ Index!Entry("turnEnd", 0).src = "turnEnd"  BY <1>7
  <2> QED  BY <1>1, <1>5, <1>11, <2>1 DEF Index!TurnEnds, Index!Lands
<1>12. CASE Index!Rewinds
  <2>1. Index!Entry("reset", 0) \in IndexEntries /\ Index!Entry("reset", 0).src = "reset"  BY <1>7
  <2> QED  BY <1>2, <1>5, <1>12, <2>1 DEF Index!Rewinds, Index!Lands
<1>13. CASE Index!Resumes
  <2>1. PICK origin \in {"auto", "manual"} :
          /\ phase = "cold" /\ phase' = "up" /\ Index!Appends(Index!ResumeEntry(origin))
    BY <1>13 DEF Index!Resumes
  <2>2. Index!ResumeEntry(origin) \in IndexEntries /\ Index!ResumeEntry(origin).src = "resume"
    BY DEF IndexEntries, Index!ResumeEntry, Index!Conversation, Index!Bookkeeping
  <2> QED  BY <1>5, <2>1, <2>2
<1>14. ASSUME NEW c \in Calls, Index!Starts(c) PROVE IndexInv'
  <2>1. /\ Index!Entry("started", c) \in IndexEntries /\ Index!Entry("started", c).src = "started"
        /\ Index!Entry("started", c).id = c
    BY <1>8
  <2> QED  BY <1>1, <1>6, <1>14, <2>1 DEF Index!Starts, Index!Lands
<1>15. ASSUME NEW c \in Calls, Index!Queries(c) PROVE IndexInv'
  <2>1. /\ Index!Entry("asked", c) \in IndexEntries /\ Index!Entry("asked", c).src = "asked"
        /\ Index!Entry("asked", c).id = c
    BY <1>8
  <2> QED  BY <1>1, <1>6, <1>15, <2>1 DEF Index!Queries, Index!Running, Index!Lands
<1>16. ASSUME NEW c \in Calls, Index!Returns(c) PROVE IndexInv'
  <2>1. /\ Index!ResultEntry(c, "none") \in IndexEntries /\ Index!ResultEntry(c, "none").src = "result"
        /\ Index!ResultEntry(c, "none").id = c
    BY DEF IndexEntries, Index!ResultEntry, Index!Conversation, Index!Bookkeeping
  <2> QED  BY <1>1, <1>6, <1>16, <2>1 DEF Index!Returns, Index!Running, Index!Lands
<1> QED  BY <1>9, <1>10, <1>11, <1>12, <1>13, <1>14, <1>15, <1>16

-----------------------------------------------------------------------------
(* Steps that leave the log alone.                                         *)

LEMMA IndexFacts ==
  ASSUME IndexInv
  PROVE  /\ Len(log) \in 1 .. MaxRecords /\ MaxRecords \in Nat /\ Len(log) \in Nat
         /\ DOMAIN log = 1 .. Len(log) /\ Orderly(log)
         /\ Index!Mirrored \subseteq 1 .. Len(log) /\ 0 \notin Index!Mirrored
         /\ landed # 0 => landed = Len(log) /\ landed \in Index!Mirrored
         /\ AttemptsBy(log, Len(log)) \in Nat /\ AttemptsBy(log, Len(log)) + 1 <= Len(log)
         /\ Due \in {0, 1}
<1>1. /\ Len(log) \in 1 .. MaxRecords /\ MaxRecords \in Nat /\ Len(log) \in Nat
      /\ DOMAIN log = 1 .. Len(log) /\ Orderly(log) /\ log[1].src = "session"
  BY IndexConstants DEF IndexInv, LogSane, Orderly
<1>2. Index!Mirrored \subseteq 1 .. Len(log) /\ 0 \notin Index!Mirrored
  BY <1>1 DEF Index!Mirrored
<1>3. landed # 0 => landed = Len(log) /\ landed \in Index!Mirrored
  BY <1>1 DEF IndexInv, Landing, Index!Mirrored
<1>4. AttemptsBy(log, Len(log)) \in Nat /\ AttemptsBy(log, Len(log)) + 1 <= Len(log)
  <2> DEFINE n == Len(log)
             resumed == {k \in 1 .. n : log[k].src = "resume"}
  <2>1. n \in Nat \ {0}  BY <1>1
  <2>2. resumed \subseteq 2 .. n
    <3>1. \A k \in resumed : k # 1  BY <1>1
    <3> QED  BY <2>1, <3>1
  <2> HIDE DEF n
  <2>3. IsFiniteSet(2 .. n) /\ Cardinality(2 .. n) = n - 1  BY <2>1, FS_Interval
  <2> HIDE DEF resumed
  <2>4. Cardinality(resumed) <= n - 1  BY <2>2, <2>3, FS_Subset
  <2>5. AttemptsBy(log, n) = Cardinality(resumed)  BY IndexCount DEF AttemptsBy, resumed
  <2>6. AttemptsBy(log, n) \in 0 .. n  BY <2>1, AttemptsStep
  <2> QED  BY <2>1, <2>4, <2>5, <2>6 DEF n
<1> QED  BY <1>1, <1>2, <1>3, <1>4 DEF Due

LEMMA StillFacts ==
  ASSUME IndexInv, UNCHANGED log
  PROVE  /\ LogSane' /\ Index!Mirrored' = Index!Mirrored
         /\ RowTold' <=>
              (row' # NoRow =>
                 /\ row'.size <= Len(log) /\ row'.seen \subseteq 1 .. Len(log)
                 /\ row'.resumes + Due' <= AttemptsBy(log, Len(log)) + 1
                 /\ Index!Mirrored \subseteq row'.seen \cup {landed'} /\ ~row'.twice =>
                      Tells(log, row', Told'))
         /\ Told' = IF landed' # 0 /\ landed' \notin row'.seen THEN Len(log) - 1 ELSE Len(log)
         /\ Due' = IF landed' # 0 /\ log[landed'].src = "resume" THEN 1 ELSE 0
         /\ RowFresh' <=>
              (row' # NoRow =>
                 /\ landed' # 0 /\ row'.size = Len(log) => landed' \in row'.seen
                 /\ ~row'.astray /\ jobs' = {} /\ phase' \in {"cold", "up"} =>
                      Index!Mirrored \subseteq row'.seen \cup {landed'}
                 /\ ~row'.astray /\ row'.size = Len(log) /\ phase' \in {"down", "boot"} =>
                      Index!Mirrored \subseteq row'.seen)
<1>1. Index!Mirrored' = Index!Mirrored  BY DEF Index!Mirrored, Index!Kinds
<1>2. LogSane'
  <2>1. /\ Orderly(log') /\ Len(log') \in 1 .. MaxRecords /\ log'[1].src = "session"
        /\ ~Index!OpenTurn(log') => OpenBy(log', Len(log')) = {}
    BY DEF IndexInv, LogSane
  <2>2. LogSane' <=> /\ Orderly(log') /\ Len(log') \in 1 .. MaxRecords /\ log'[1].src = "session"
                     /\ ~Index!OpenTurn(log') => OpenBy(log', Len(log')) = {}
    BY DEF LogSane, Orderly, Follows, StartedBy, OpenBy, AnsweredBy, Index!OpenTurn
  <2> QED  BY <2>1, <2>2
<1>3. Told' = IF landed' # 0 /\ landed' \notin row'.seen THEN Len(log) - 1 ELSE Len(log)
  BY DEF Told, Behind
<1>4. Due' = IF landed' # 0 /\ log[landed'].src = "resume" THEN 1 ELSE 0
  BY DEF Due
<1>5. RowTold' <=>
        (row' # NoRow =>
           /\ row'.size <= Len(log) /\ row'.seen \subseteq 1 .. Len(log)
           /\ row'.resumes + Due' <= AttemptsBy(log, Len(log)) + 1
           /\ Index!Mirrored \subseteq row'.seen \cup {landed'} /\ ~row'.twice =>
                Tells(log, row', Told'))
  <2>1. AttemptsBy(log, Len(log))' = AttemptsBy(log, Len(log))  OBVIOUS
  <2>2. Tells(log, row, Told)' <=> Tells(log, row', Told')  OBVIOUS
  <2> QED  BY <1>1, <2>1, <2>2 DEF RowTold
<1>6. RowFresh' <=>
        (row' # NoRow =>
           /\ landed' # 0 /\ row'.size = Len(log) => landed' \in row'.seen
           /\ ~row'.astray /\ jobs' = {} /\ phase' \in {"cold", "up"} =>
                Index!Mirrored \subseteq row'.seen \cup {landed'}
           /\ ~row'.astray /\ row'.size = Len(log) /\ phase' \in {"down", "boot"} =>
                Index!Mirrored \subseteq row'.seen)
  BY <1>1 DEF RowFresh
<1> QED  BY <1>1, <1>2, <1>3, <1>4, <1>5, <1>6

(* A row whose marks alone change says what it said.                        *)
LEMMA TellsOf ==
  ASSUME NEW es, NEW r, NEW w, NEW n, w.open = r.open, w.resumes = r.resumes, w.state = r.state
  PROVE  Tells(es, r, n) <=> Tells(es, w, n)
BY DEF Tells

(* Once its hook is done a record counts as told, if nothing was missed.     *)
LEMMA HookDone ==
  ASSUME IndexInv, row # NoRow, Index!Mirrored \subseteq row.seen, ~row.twice
  PROVE  Tells(log, row, Len(log))
<1>1. Index!Mirrored \subseteq row.seen \cup {landed}  OBVIOUS
<1>2. ~Behind  BY IndexFacts DEF Behind
<1>3. Tells(log, row, Told)  BY <1>1 DEF IndexInv, RowTold
<1>4. Told = Len(log)  BY <1>2 DEF Told
<1> QED  BY <1>3, <1>4

LEMMA FailsKeep == ASSUME IndexInv, Index!CommitFails PROVE IndexInv'
<1> DEFINE n == Len(log)
<1>1. /\ phase = "up" /\ landed # 0 /\ landed' = 0
      /\ troubles < MaxTroubles /\ troubles' = troubles + 1
      /\ row' = IF row = NoRow THEN NoRow ELSE [row EXCEPT !.astray = TRUE]
      /\ UNCHANGED <<log, jobs, phase, searches>>
  BY DEF Index!CommitFails
<1>2. /\ n \in 1 .. MaxRecords /\ n \in Nat /\ MaxRecords \in Nat /\ 0 \notin Index!Mirrored
      /\ AttemptsBy(log, n) \in Nat /\ Due \in {0, 1}
  BY IndexFacts
<1> HIDE DEF n
<1>3. row # NoRow => /\ row' \in Index!Rows
                     /\ row'.size = row.size /\ row'.seen = row.seen /\ row'.twice = row.twice
                     /\ row'.open = row.open /\ row'.resumes = row.resumes /\ row'.state = row.state
                     /\ row'.astray = TRUE
  BY <1>1, RowIsShape DEF Index!Rows
<1>4. Index!TypeOK'
  <2>1. troubles' \in 0 .. MaxTroubles  BY <1>1, IndexConstants DEF IndexInv, Index!TypeOK
  <2>2. row' \in Index!Rows \cup {NoRow}  BY <1>1, <1>3
  <2>3. landed' \in 0 .. MaxRecords  BY <1>1, <1>2
  <2> QED  BY <1>1, <2>1, <2>2, <2>3 DEF IndexInv, Index!TypeOK
<1>5. RowTold'
  <2> SUFFICES ASSUME row # NoRow
               PROVE  /\ row'.size <= n /\ row'.seen \subseteq 1 .. n
                      /\ row'.resumes + Due' <= AttemptsBy(log, n) + 1
                      /\ Index!Mirrored \subseteq row'.seen \cup {landed'} /\ ~row'.twice =>
                           Tells(log, row', Told')
    BY <1>1, StillFacts DEF n
  <2>1. /\ row.size <= n /\ row.seen \subseteq 1 .. n
        /\ row.resumes + Due <= AttemptsBy(log, n) + 1 /\ row.resumes \in Nat
    BY RowIsShape DEF IndexInv, RowTold, n, RowShape
  <2>2. Due' = 0 /\ Told' = n  BY <1>1, StillFacts DEF n
  <2>3. ASSUME Index!Mirrored \subseteq row'.seen \cup {landed'}, ~row'.twice
        PROVE  Tells(log, row', Told')
    <3>1. Index!Mirrored \subseteq row.seen /\ ~row.twice  BY <1>1, <1>2, <1>3, <2>3
    <3>2. Tells(log, row, n)  BY <3>1, HookDone DEF n
    <3> QED  BY <1>3, <2>2, <3>2 DEF Tells
  <2>4. row'.resumes + Due' <= AttemptsBy(log, n) + 1  BY <1>2, <1>3, <2>1, <2>2
  <2> QED  BY <1>3, <2>1, <2>3, <2>4
<1>6. RowFresh'
  <2>1. row' # NoRow => row'.astray  BY <1>1, <1>3
  <2> QED  BY <1>1, <2>1, StillFacts
<1>7. JobsRead' /\ Landing'
  BY <1>1 DEF IndexInv, JobsRead, Landing
<1> QED  BY <1>1, <1>4, <1>5, <1>6, <1>7, StillFacts DEF IndexInv

(* A row that stays, while its record's hook goes on or ends.                *)
LEMMA RowStays ==
  ASSUME IndexInv, UNCHANGED <<log, row>>,
         landed' = landed \/ landed' = 0
  PROVE  RowTold'
<1> DEFINE n == Len(log)
<1>1. /\ n \in Nat /\ 0 \notin Index!Mirrored /\ AttemptsBy(log, n) \in Nat /\ Due \in {0, 1}
  BY IndexFacts
<1> HIDE DEF n
<1> SUFFICES ASSUME row # NoRow
             PROVE  /\ row.size <= n /\ row.seen \subseteq 1 .. n
                    /\ row.resumes + Due' <= AttemptsBy(log, n) + 1
                    /\ Index!Mirrored \subseteq row.seen \cup {landed'} /\ ~row.twice =>
                         Tells(log, row, Told')
  <2>1. Tells(log, row, Told') <=> Tells(log, row', Told')  BY DEF Tells
  <2> QED  BY <2>1, StillFacts DEF n
<1>2. /\ row.size <= n /\ row.seen \subseteq 1 .. n
      /\ row.resumes + Due <= AttemptsBy(log, n) + 1 /\ row.resumes \in Nat
      /\ Index!Mirrored \subseteq row.seen \cup {landed} /\ ~row.twice => Tells(log, row, Told)
  BY RowIsShape DEF IndexInv, RowTold, n, RowShape
<1>3. CASE landed' = landed
  <2>1. Due' = Due /\ Told' = Told  BY <1>3, StillFacts DEF Due, Told, Behind
  <2> QED  BY <1>2, <1>3, <2>1
<1>4. CASE landed' = 0
  <2>1. Due' = 0 /\ Told' = n  BY <1>4, StillFacts DEF n
  <2>2. row.resumes + Due' <= AttemptsBy(log, n) + 1  BY <1>1, <1>2, <2>1
  <2>3. Index!Mirrored \subseteq row.seen \cup {landed'} => Index!Mirrored \subseteq row.seen
    BY <1>1, <1>4
  <2> QED  BY <1>2, <2>1, <2>2, <2>3, HookDone DEF n
<1> QED  BY <1>3, <1>4

LEMMA StatFacts ==
  ASSUME IndexInv, NEW for \in 0 .. Index!Search, for \in 1 .. MaxRecords => for = Len(log)
  PROVE  LET j == Index!Stat(for)
         IN  /\ j \in Index!Jobs /\ j.size = Len(log) /\ j.read = 0 /\ j.for = for
             /\ j.size <= Len(log) /\ j.read <= Len(log)
             /\ j.for \in 1 .. MaxRecords => j.for = j.size
<1> DEFINE n == Len(log)
<1>1. n \in 1 .. MaxRecords /\ n \in Nat /\ MaxRecords \in Nat  BY IndexFacts
<1> HIDE DEF n
<1>2. Index!Stat(for) = [for |-> for, size |-> n, read |-> 0]  BY DEF Index!Stat, n
<1>3. 0 \in 0 .. MaxRecords /\ 0 <= n  BY <1>1
<1>4. [for |-> for, size |-> n, read |-> 0] \in Index!Jobs  BY <1>1, <1>3 DEF Index!Jobs
<1> QED  BY <1>1, <1>2, <1>3, <1>4 DEF n

LEMMA SyncsKeep ==
  ASSUME IndexInv,
         \/ Index!SearchLooks \/ Index!LoseIndex \/ Index!Reconcile
         \/ \E j \in jobs : Index!ReadLog(j)
         \/ Index!CommitPoint /\ (row = NoRow \/ log[landed].src = "reset")
  PROVE  IndexInv'
<1> DEFINE n == Len(log)
<1>1. n \in 1 .. MaxRecords /\ n \in Nat /\ MaxRecords \in Nat /\ 0 \notin Index!Mirrored
      /\ (landed # 0 => landed = n)
  BY IndexFacts
<1> HIDE DEF n
<1>2. 0 \in 0 .. Index!Search /\ MaxRecords + 1 \in 0 .. Index!Search /\ Index!Search = MaxRecords + 1
      /\ 0 \notin 1 .. MaxRecords /\ MaxRecords + 1 \notin 1 .. MaxRecords
  BY <1>1 DEF Index!Search
<1>3. ASSUME NEW for \in 0 .. Index!Search, for \in 1 .. MaxRecords => for = n,
             jobs' = jobs \cup {Index!Stat(for)} \/ jobs' = {Index!Stat(for)}, UNCHANGED log
      PROVE  JobsRead' /\ jobs' \subseteq Index!Jobs
  <2>1. /\ Index!Stat(for) \in Index!Jobs /\ Index!Stat(for).size <= n /\ Index!Stat(for).read = 0
        /\ Index!Stat(for).read <= n
        /\ Index!Stat(for).for \in 1 .. MaxRecords => Index!Stat(for).for = Index!Stat(for).size
    BY <1>3, StatFacts DEF n
  <2>2. jobs \subseteq Index!Jobs /\ JobsRead  BY DEF IndexInv, Index!TypeOK
  <2>3. \A j \in jobs' : j \in jobs \/ j = Index!Stat(for)  BY <1>3
  <2> QED  BY <1>3, <2>1, <2>2, <2>3 DEF JobsRead, n
<1>4. CASE Index!SearchLooks
  <2>1. /\ phase \in {"cold", "up"} /\ searches < MaxSearches /\ searches' = searches + 1
        /\ jobs' = jobs \cup {Index!Stat(MaxRecords + 1)}
        /\ UNCHANGED <<log, row, landed, phase, troubles>>
    BY <1>4 DEF Index!SearchLooks, Index!Search
  <2>2. JobsRead' /\ jobs' \subseteq Index!Jobs  BY <1>2, <1>3, <2>1
  <2>3. searches' \in 0 .. MaxSearches  BY <2>1, IndexConstants DEF IndexInv, Index!TypeOK
  <2>4. Index!TypeOK'  BY <2>1, <2>2, <2>3 DEF IndexInv, Index!TypeOK
  <2>5. Landing'  BY <2>1 DEF IndexInv, Landing
  <2>6. RowFresh'  BY <2>1, StillFacts DEF IndexInv, RowFresh
  <2> QED  BY <2>1, <2>2, <2>4, <2>5, <2>6, RowStays, StillFacts DEF IndexInv
<1>5. CASE Index!LoseIndex
  <2>1. /\ troubles < MaxTroubles /\ troubles' = troubles + 1 /\ row' = NoRow
        /\ UNCHANGED <<log, searches, landed, jobs, phase>>
    BY <1>5 DEF Index!LoseIndex, Index!Trouble
  <2>2. troubles' \in 0 .. MaxTroubles  BY <2>1, IndexConstants DEF IndexInv, Index!TypeOK
  <2>3. Index!TypeOK'  BY <2>1, <2>2 DEF IndexInv, Index!TypeOK
  <2>4. JobsRead' /\ Landing'  BY <2>1 DEF IndexInv, JobsRead, Landing
  <2> QED  BY <2>1, <2>3, <2>4, StillFacts DEF IndexInv
<1>6. CASE Index!Reconcile
  <2>1. /\ phase = "down" /\ UNCHANGED <<log, row, landed, searches, troubles>>
        /\ IF Index!Fresh THEN phase' = "cold" /\ UNCHANGED jobs
           ELSE phase' = "boot" /\ jobs' = {Index!Stat(0)}
    BY <1>6 DEF Index!Reconcile, Index!budget, Index!Boot
  <2>2. landed = 0 /\ jobs = {}  BY <2>1 DEF IndexInv, Landing
  <2>3. JobsRead' /\ jobs' \subseteq Index!Jobs
    <3>1. CASE Index!Fresh  BY <2>1, <2>2, <3>1 DEF JobsRead
    <3>2. CASE ~Index!Fresh  BY <1>2, <1>3, <2>1, <3>2
    <3> QED  BY <3>1, <3>2
  <2>4. Index!TypeOK'  BY <2>1, <2>3 DEF IndexInv, Index!TypeOK
  <2>5. Landing'  BY <2>1, <2>2 DEF Landing
  <2>6. RowFresh'  BY <2>1, <2>2, StillFacts DEF IndexInv, RowFresh, Index!Fresh
  <2> QED  BY <2>1, <2>3, <2>4, <2>5, <2>6, RowStays, StillFacts DEF IndexInv
<1>7. ASSUME NEW j \in jobs, Index!ReadLog(j) PROVE IndexInv'
  <2> DEFINE r == [j EXCEPT !.read = n]
  <2>1. /\ jobs' = (jobs \ {j}) \cup {r}
        /\ UNCHANGED <<log, row, landed, phase, searches, troubles>>
    BY <1>7 DEF Index!ReadLog, Index!budget, n
  <2>2. j \in Index!Jobs /\ jobs \subseteq Index!Jobs  BY DEF IndexInv, Index!TypeOK
  <2>3. r \in Index!Jobs /\ r.for = j.for /\ r.size = j.size /\ r.read = n
    BY <1>1, <2>2 DEF Index!Jobs
  <2>4. r.size <= n /\ (r.for \in 1 .. MaxRecords => r.for = r.size)
    BY <2>3 DEF IndexInv, JobsRead, n
  <2> HIDE DEF r
  <2>5. JobsRead'
    <3>1. \A k \in jobs' : k \in jobs \/ k = r  BY <2>1
    <3> QED  BY <1>1, <2>1, <2>3, <2>4, <3>1 DEF IndexInv, JobsRead, n
  <2>6. jobs' \subseteq Index!Jobs /\ jobs' # {}  BY <2>1, <2>2, <2>3
  <2>7. Index!TypeOK'  BY <2>1, <2>6 DEF IndexInv, Index!TypeOK
  <2>8. Landing'  BY <2>1 DEF IndexInv, Landing
  <2>9. RowFresh'  BY <2>1, <2>6, StillFacts DEF IndexInv, RowFresh
  <2> QED  BY <2>1, <2>5, <2>7, <2>8, <2>9, RowStays, StillFacts DEF IndexInv
<1>8. CASE Index!CommitPoint /\ (row = NoRow \/ log[landed].src = "reset")
  <2>1. /\ phase = "up" /\ landed # 0 /\ landed' = 0
        /\ jobs' = jobs \cup {Index!Stat(landed)}
        /\ UNCHANGED <<log, row, phase, searches, troubles>>
    BY <1>8 DEF Index!CommitPoint, Index!budget
  <2>2. landed = n /\ landed \in 0 .. Index!Search  BY <1>1, <1>2, <2>1
  <2>3. JobsRead' /\ jobs' \subseteq Index!Jobs  BY <1>3, <2>1, <2>2
  <2>4. landed' \in 0 .. MaxRecords  BY <1>1, <2>1
  <2>5. Index!TypeOK'  BY <2>1, <2>3, <2>4 DEF IndexInv, Index!TypeOK
  <2>6. Landing'  BY <2>1 DEF Landing
  <2>7. RowFresh'  BY <2>1, StillFacts
  <2> QED  BY <2>1, <2>3, <2>5, <2>6, <2>7, RowStays, StillFacts DEF IndexInv
<1> QED  BY <1>4, <1>5, <1>6, <1>7, <1>8

LEMMA StampKeeps ==
  ASSUME IndexInv, Index!CommitPoint, row # NoRow, log[landed].src # "reset"
  PROVE  IndexInv'
<1> DEFINE n == Len(log)
           m == Index!Mirrors(row, n)
           e == log[n]
           a == Index!Applied(row, n)
<1>1. /\ phase = "up" /\ landed # 0 /\ landed = n /\ landed' = 0
      /\ row' = Index!Stamped(row, n)
      /\ UNCHANGED <<log, jobs, phase, searches, troubles>>
  BY IndexFacts DEF Index!CommitPoint, Index!budget
<1>2. /\ n \in 1 .. MaxRecords /\ n \in Nat /\ MaxRecords \in Nat /\ 0 \notin Index!Mirrored
      /\ Orderly(log) /\ n \in Index!Mirrored
      /\ AttemptsBy(log, n) \in Nat /\ AttemptsBy(log, n) + 1 <= n
  BY <1>1, IndexFacts
<1>3. e.src \in Index!Kinds \ {"reset"}  BY <1>1 DEF IndexInv, Landing
<1>4. /\ row \in RowShape /\ row \in Index!Rows /\ row.size <= n /\ row.seen \subseteq 1 .. n
      /\ row.resumes + Due <= AttemptsBy(log, n) + 1 /\ row.resumes \in Nat
      /\ Index!Mirrored \subseteq row.seen \cup {landed} /\ ~row.twice => Tells(log, row, Told)
  BY RowIsShape DEF IndexInv, RowTold, RowShape
<1>5. /\ m \in RowShape /\ m.size = row.size /\ m.seen = row.seen /\ m.twice = row.twice
      /\ m.astray = row.astray
      /\ m.resumes = row.resumes + (IF e.src = "resume" THEN 1 ELSE 0)
  <2>1. n \in 1 .. Len(log)  BY <1>2
  <2>2. log[n].src \in Index!Kinds \ {"reset"}  BY <1>3
  <2> QED  BY <1>2, <1>4, <2>1, <2>2, MirrorIs
<1> DEFINE told == {k \in m.seen : ~Index!Undone(k, n)} \cup {n}
           two == m.twice \/ (e.src = "resume" /\ n \in row.seen)
<1>6. row' = [[m EXCEPT !.seen = told] EXCEPT !.size = n, !.twice = two]
  <2>1. a = [m EXCEPT !.seen = told]  BY DEF Index!Applied
  <2>2. Index!Stamped(row, n) =
          [a EXCEPT !.size = n, !.twice = a.twice \/ (e.src = "resume" /\ n \in row.seen)]
    BY DEF Index!Stamped
  <2>3. a.twice = m.twice  BY <1>5, <2>1 DEF RowShape
  <2> HIDE DEF a, m, told
  <2> QED  BY <1>1, <2>1, <2>2, <2>3
<1> HIDE DEF m
<1>7. told = row.seen \cup {n}
  <2>1. \A k \in row.seen : ~Index!Undone(k, n)  BY <1>2, <1>4 DEF Index!Undone
  <2> QED  BY <1>5, <2>1
<1>8. two = (row.twice \/ (e.src = "resume" /\ n \in row.seen))  BY <1>5
<1> HIDE DEF told, two
<1>9. told \in SUBSET Nat /\ two \in BOOLEAN  BY <1>2, <1>4, <1>7, <1>8 DEF RowShape
<1>10. /\ row' \in RowShape /\ row'.size = n /\ row'.seen = told /\ row'.twice = two
       /\ row'.astray = row.astray /\ row'.open = m.open /\ row'.resumes = m.resumes
       /\ row'.state = m.state
  BY <1>2, <1>5, <1>6, <1>9 DEF RowShape
<1>11. Due = IF e.src = "resume" THEN 1 ELSE 0  BY <1>1 DEF Due
<1>12. row'.resumes <= AttemptsBy(log, n) + 1 /\ row'.resumes \in 0 .. MaxRecords
  BY <1>2, <1>4, <1>5, <1>10, <1>11
<1>13. row' \in Index!Rows
  <2>1. row'.seen \subseteq 1 .. MaxRecords  BY <1>2, <1>4, <1>7, <1>10
  <2> HIDE DEF n
  <2> QED  BY <1>2, <1>10, <1>12, <2>1 DEF Index!Rows, RowShape, States
<1>14. Index!Mirrored \subseteq row'.seen /\ ~row'.twice => Tells(log, row', n)
  <2> SUFFICES ASSUME Index!Mirrored \subseteq row'.seen, ~row'.twice PROVE Tells(log, row', n)
    OBVIOUS
  <2>1. Tells(log, row, Told)  BY <1>1, <1>4, <1>7, <1>8, <1>10
  <2>2. CASE n \notin row.seen
    <3>1. Told = n - 1  BY <1>1, <2>2 DEF Told, Behind
    <3>2. n \in 1 .. Len(log) /\ Tells(log, row, n - 1)  BY <1>2, <2>1, <3>1
    <3>3. Tells(log, m, n)  BY <1>2, <1>3, <1>4, <3>2, MirrorNext DEF m
    <3> QED  BY <1>10, <3>3 DEF Tells
  <2>3. CASE n \in row.seen
    <3>1. Told = n  BY <1>1, <2>3 DEF Told, Behind
    <3>2. Index!Again(e)  BY <1>3, <1>8, <1>10, <2>3 DEF Index!Again, Index!Kinds
    <3>3. \A k \in 1 .. n : ~Index!Undone(k, n)  BY <1>2 DEF Index!Undone
    <3>4. n \in 0 .. Len(log) /\ n \in 1 .. n /\ Tells(log, row, n)  BY <1>2, <2>1, <3>1
    <3>5. Tells(log, m, n)  BY <1>2, <1>4, <3>2, <3>3, <3>4, MirrorAgain DEF m
    <3> QED  BY <1>10, <3>5 DEF Tells
  <2> QED  BY <2>2, <2>3
<1> HIDE DEF n, e
<1>15. RowTold'
  <2>1. Due' = 0 /\ Told' = n  BY <1>1, StillFacts DEF n
  <2>2. row'.resumes + Due' <= AttemptsBy(log, n) + 1  BY <1>12, <2>1
  <2>3. row'.size <= n /\ row'.seen \subseteq 1 .. n  BY <1>2, <1>4, <1>7, <1>10
  <2>4. Index!Mirrored \subseteq row'.seen \cup {landed'} => Index!Mirrored \subseteq row'.seen
    BY <1>1, <1>2
  <2>5. ASSUME row' # NoRow, Index!Mirrored \subseteq row'.seen \cup {landed'}, ~row'.twice
        PROVE  Tells(log, row', Told')
    BY <1>14, <2>1, <2>4, <2>5
  <2> QED  BY <1>1, <2>2, <2>3, <2>5, StillFacts DEF n
<1>16. RowFresh'
  <2>1. ~row.astray /\ jobs = {} => Index!Mirrored \subseteq row.seen \cup {landed}
    BY <1>1 DEF IndexInv, RowFresh
  <2>2. ~row'.astray /\ jobs' = {} => Index!Mirrored \subseteq row'.seen \cup {landed'}
    BY <1>1, <1>7, <1>10, <2>1
  <2> QED  BY <1>1, <2>2, StillFacts
<1>17. Index!TypeOK'
  <2>1. landed' \in 0 .. MaxRecords  BY <1>1, <1>2
  <2> QED  BY <1>1, <1>13, <2>1 DEF IndexInv, Index!TypeOK
<1>18. JobsRead' /\ Landing'  BY <1>1 DEF IndexInv, JobsRead, Landing
<1> QED  BY <1>1, <1>15, <1>16, <1>17, <1>18, StillFacts DEF IndexInv

LEMMA CrashKeeps == ASSUME IndexInv, Index!Crash PROVE IndexInv'
<1> DEFINE n == Len(log)
<1>1. /\ troubles < MaxTroubles /\ troubles' = troubles + 1 /\ phase # "down" /\ phase' = "down"
      /\ landed' = 0 /\ jobs' = {} /\ UNCHANGED <<log, searches>>
      /\ row' = IF Index!Fresh /\ jobs # {} THEN [row EXCEPT !.astray = TRUE] ELSE row
  BY DEF Index!Crash, Index!Trouble
<1>2. /\ n \in 1 .. MaxRecords /\ n \in Nat /\ MaxRecords \in Nat /\ 0 \notin Index!Mirrored
      /\ AttemptsBy(log, n) \in Nat /\ Due \in {0, 1}
  BY IndexFacts
<1> HIDE DEF n
<1>3. row # NoRow =>
        /\ row' \in Index!Rows
        /\ row'.size = row.size /\ row'.seen = row.seen /\ row'.twice = row.twice
        /\ row'.open = row.open /\ row'.resumes = row.resumes /\ row'.state = row.state
        /\ ~row'.astray => row' = row /\ ~(Index!Fresh /\ jobs # {})
  BY <1>1, RowIsShape DEF Index!Rows
<1>4. row = NoRow => row' = NoRow  BY <1>1 DEF Index!Fresh
<1>5. Index!TypeOK'
  <2>1. troubles' \in 0 .. MaxTroubles  BY <1>1, IndexConstants DEF IndexInv, Index!TypeOK
  <2>2. row' \in Index!Rows \cup {NoRow}  BY <1>3, <1>4
  <2>3. landed' \in 0 .. MaxRecords  BY <1>1, <1>2
  <2> QED  BY <1>1, <2>1, <2>2, <2>3 DEF IndexInv, Index!TypeOK
<1>6. RowTold'
  <2> SUFFICES ASSUME row # NoRow
               PROVE  /\ row'.size <= n /\ row'.seen \subseteq 1 .. n
                      /\ row'.resumes + Due' <= AttemptsBy(log, n) + 1
                      /\ Index!Mirrored \subseteq row'.seen \cup {landed'} /\ ~row'.twice =>
                           Tells(log, row', Told')
    BY <1>1, <1>4, StillFacts DEF n
  <2>1. /\ row.size <= n /\ row.seen \subseteq 1 .. n
        /\ row.resumes + Due <= AttemptsBy(log, n) + 1 /\ row.resumes \in Nat
    BY RowIsShape DEF IndexInv, RowTold, n, RowShape
  <2>2. Due' = 0 /\ Told' = n  BY <1>1, StillFacts DEF n
  <2>3. ASSUME Index!Mirrored \subseteq row'.seen \cup {landed'}, ~row'.twice
        PROVE  Tells(log, row', Told')
    <3>1. Index!Mirrored \subseteq row.seen /\ ~row.twice  BY <1>1, <1>2, <1>3, <2>3
    <3>2. Tells(log, row, n)  BY <3>1, HookDone DEF n
    <3> QED  BY <1>3, <2>2, <3>2 DEF Tells
  <2>4. row'.resumes + Due' <= AttemptsBy(log, n) + 1  BY <1>2, <1>3, <2>1, <2>2
  <2> QED  BY <1>3, <2>1, <2>3, <2>4
<1>7. RowFresh'
  <2> SUFFICES ASSUME row # NoRow, ~row'.astray, row'.size = n
               PROVE  Index!Mirrored \subseteq row'.seen
    BY <1>1, <1>4, StillFacts DEF n
  <2>1. row' = row /\ jobs = {} /\ ~row.astray /\ row.size = n
    BY <1>3 DEF Index!Fresh, n
  <2>2. landed # 0 => landed \in row.seen  BY <2>1 DEF IndexInv, RowFresh, n
  <2>3. phase \in {"cold", "up", "boot"}  BY <1>1 DEF IndexInv, Index!TypeOK
  <2>4. Index!Mirrored \subseteq row.seen \cup {landed}
    BY <2>1, <2>3 DEF IndexInv, RowFresh, n
  <2> QED  BY <1>2, <2>1, <2>2, <2>4
<1>8. JobsRead' /\ Landing'  BY <1>1 DEF JobsRead, Landing
<1> QED  BY <1>1, <1>5, <1>6, <1>7, <1>8, StillFacts DEF IndexInv

LEMMA WriteKeeps == ASSUME IndexInv, NEW j \in jobs, Index!WriteRow(j) PROVE IndexInv'
<1> DEFINE n == Len(log)
           w == Index!Written(j)
           i == j.for
           anew == i \in DOMAIN log /\ Index!Again(log[i])
           lost == ~(Index!Mirrored \subseteq w.seen \cup {landed})
<1>1. /\ j.read # 0 /\ jobs' = jobs \ {j}
      /\ row' = [w EXCEPT !.astray = lost]
      /\ phase' = IF i = 0 THEN "cold" ELSE phase
      /\ UNCHANGED <<log, landed, searches, troubles>>
  BY DEF Index!WriteRow, Index!budget, Index!Boot
<1>2. /\ n \in 1 .. MaxRecords /\ n \in Nat /\ MaxRecords \in Nat /\ 0 \notin Index!Mirrored
      /\ Index!Mirrored \subseteq 1 .. n /\ DOMAIN log = 1 .. n
      /\ AttemptsBy(log, n) \in Nat /\ AttemptsBy(log, n) + 1 <= n /\ Due \in {0, 1}
      /\ landed # 0 => landed = n /\ landed \in Index!Mirrored
  BY IndexFacts
<1>3. /\ w \in RowShape /\ w.size = j.size /\ ~w.twice
      /\ w.resumes <= AttemptsBy(log, n)
      /\ w.seen \subseteq 1 .. j.read
      /\ \A k \in 1 .. j.read : k \notin w.seen => anew /\ Index!Undone(k, i)
      /\ (\A k \in 1 .. j.read : k \in w.seen) => Tells(log, w, j.read)
      /\ (\A k \in 1 .. j.read - 1 : k \in w.seen) /\ j.read \notin w.seen => Tells(log, w, j.read - 1)
  BY <1>1, WrittenTells
<1> HIDE DEF n, w
<1>4. /\ j.size \in 1 .. MaxRecords /\ j.read \in Nat /\ j.read \in 1 .. n /\ j.size <= j.read
      /\ i \in 1 .. MaxRecords => i = j.size
  <2>1. j \in Index!Jobs  BY DEF IndexInv, Index!TypeOK
  <2>2. j.size \in 1 .. MaxRecords /\ j.read \in Nat  BY <1>2, <2>1 DEF Index!Jobs
  <2>3. /\ j.read <= n /\ (j.read # 0 => j.size <= j.read) /\ (i \in 1 .. MaxRecords => i = j.size)
    BY DEF IndexInv, JobsRead, n
  <2> QED  BY <1>1, <1>2, <2>2, <2>3
<1>5. /\ row' \in RowShape /\ row'.size = j.size /\ row'.seen = w.seen /\ row'.twice = w.twice
      /\ row'.open = w.open /\ row'.resumes = w.resumes /\ row'.state = w.state
      /\ row'.astray = lost
  <2>1. lost \in BOOLEAN  OBVIOUS
  <2> HIDE DEF lost
  <2> QED  BY <1>1, <1>3, <2>1 DEF RowShape
<1>6. row' \in Index!Rows
  <2>1. w.resumes \in 0 .. MaxRecords
    <3>1. w.resumes \in Nat  BY <1>3 DEF RowShape
    <3> QED  BY <1>2, <1>3, <3>1
  <2>2. w.seen \subseteq 1 .. MaxRecords  BY <1>2, <1>3, <1>4
  <2> QED  BY <1>4, <1>5, <2>1, <2>2 DEF Index!Rows, RowShape, States
<1>7. Index!TypeOK'
  <2>1. phase' \in {"up", "boot", "cold", "down"}  BY <1>1 DEF IndexInv, Index!TypeOK
  <2> QED  BY <1>1, <1>6, <2>1 DEF IndexInv, Index!TypeOK
<1>8. JobsRead'  BY <1>1 DEF IndexInv, JobsRead
<1>9. Landing'  BY <1>1 DEF IndexInv, Landing
(* What it read and does not account for is the result on disk.             *)
<1>10. ASSUME NEW k \in 1 .. j.read, k \notin w.seen, ~lost
       PROVE  k = n /\ landed = n /\ j.read = n
  <2>1. log[k].src = "result"  BY <1>3, <1>10 DEF Index!Undone
  <2>2. k \in Index!Mirrored
    <3>1. k \in 1 .. n  BY <1>2, <1>4
    <3> QED  BY <1>2, <2>1, <3>1 DEF Index!Mirrored, Index!Kinds
  <2>3. k = landed /\ landed # 0  BY <1>2, <1>10, <2>2
  <2> QED  BY <1>2, <1>4, <2>3
<1>11. ASSUME ~lost, NEW told \in {n - 1, n},
              told = IF landed # 0 /\ landed \notin w.seen THEN n - 1 ELSE n
       PROVE  Tells(log, w, told)
  <2>1. CASE \A k \in 1 .. j.read : k \in w.seen
    <3>1. Tells(log, w, j.read)  BY <1>3, <2>1
    <3>2. j.read \in 0 .. told /\ told \in 0 .. n
      <4>1. landed # 0 /\ landed \notin w.seen => j.read # n  BY <1>2, <1>4, <2>1
      <4> QED  BY <1>2, <1>4, <1>11, <4>1
    <3>3. ASSUME NEW k \in j.read + 1 .. told PROVE log[k].src \notin Index!Kinds
      <4> SUFFICES ASSUME log[k].src \in Index!Kinds PROVE FALSE  OBVIOUS
      <4>1. k \in 1 .. n /\ k \notin w.seen  BY <1>2, <1>3, <1>4, <3>2
      <4>2. k \in Index!Mirrored  BY <1>2, <4>1 DEF Index!Mirrored
      <4>3. k = landed /\ landed # 0 /\ landed \notin w.seen  BY <1>2, <1>11, <4>1, <4>2
      <4>4. told = n - 1 /\ k = n  BY <1>2, <1>11, <4>3
      <4> QED  BY <1>2, <1>4, <4>4
    <3>4. told \in 0 .. Len(log) /\ Len(log) \in Nat  BY <1>2, <3>2 DEF n
    <3> QED  BY <3>1, <3>2, <3>3, <3>4, QuietTells
  <2>2. CASE \E k \in 1 .. j.read : k \notin w.seen
    <3>1. landed = n /\ j.read = n /\ \A k \in 1 .. n : k \notin w.seen => k = n
      BY <1>10, <1>11, <2>2
    <3>2. n \notin w.seen /\ landed # 0  BY <1>2, <2>2, <3>1
    <3>3. told = n - 1  BY <1>11, <3>1, <3>2
    <3>4. \A k \in 1 .. j.read - 1 : k \in w.seen  BY <1>2, <3>1
    <3> QED  BY <1>3, <3>1, <3>2, <3>3, <3>4
  <2> QED  BY <2>1, <2>2
<1>12. RowTold'
  <2>1. /\ Told' = IF landed # 0 /\ landed \notin w.seen THEN n - 1 ELSE n
        /\ Due' = Due
    BY <1>1, <1>5, StillFacts DEF n, Due
  <2>2. row'.resumes + Due' <= AttemptsBy(log, n) + 1
    <3>1. w.resumes \in Nat  BY <1>3 DEF RowShape
    <3> QED  BY <1>2, <1>3, <1>5, <2>1, <3>1
  <2>3. row'.size <= n /\ row'.seen \subseteq 1 .. n  BY <1>2, <1>3, <1>4, <1>5
  <2>4. ASSUME Index!Mirrored \subseteq row'.seen \cup {landed'} PROVE Tells(log, row', Told')
    <3>1. ~lost  BY <1>1, <1>5, <2>4
    <3>2. Told' \in {n - 1, n}  BY <2>1
    <3>3. Tells(log, w, Told')  BY <1>11, <2>1, <3>1, <3>2
    <3> QED  BY <1>5, <3>3 DEF Tells
  <2> QED  BY <1>1, <2>2, <2>3, <2>4, StillFacts DEF n
<1>13. RowFresh'
  <2>1. ASSUME landed' # 0, row'.size = n PROVE landed' \in row'.seen
    <3> SUFFICES ASSUME n \notin w.seen PROVE FALSE  BY <1>1, <1>2, <1>5, <2>1
    <3>1. j.size = n /\ j.read = n  BY <1>2, <1>4, <1>5, <2>1
    <3>2. anew /\ Index!Undone(n, i)  BY <1>2, <1>3, <3>1
    <3>3. i \in 1 .. MaxRecords /\ n > i  BY <1>2, <3>2 DEF Index!Undone
    <3> QED  BY <1>2, <1>4, <3>1, <3>3
  <2>2. ~row'.astray => Index!Mirrored \subseteq row'.seen \cup {landed'}  BY <1>1, <1>5
  <2>3. phase' \in {"down", "boot"} => landed' = 0  BY <1>9 DEF Landing
  <2>4. ~row'.astray /\ phase' \in {"down", "boot"} => Index!Mirrored \subseteq row'.seen
    BY <1>2, <2>2, <2>3
  <2> QED  BY <1>1, <2>1, <2>2, <2>4, StillFacts DEF n
<1> QED  BY <1>1, <1>7, <1>8, <1>9, <1>12, <1>13, StillFacts DEF IndexInv

-----------------------------------------------------------------------------
(* The invariant of the index.                                             *)

LEMMA IndexInitHolds == Index!Init => IndexInv
<1> SUFFICES ASSUME Index!Init PROVE IndexInv  OBVIOUS
<1> DEFINE e == Index!Entry("session", 0)
<1>1. /\ log = <<e>> /\ row = NoRow /\ landed = 0 /\ jobs = {} /\ phase = "up"
      /\ searches = 0 /\ troubles = 0
  BY DEF Index!Init
<1>2. e \in IndexEntries /\ e.src = "session"
  BY DEF IndexEntries, Index!Entry, Index!Conversation, Index!Bookkeeping
<1> HIDE DEF e
<1>3. log \in Seq(IndexEntries) /\ Len(log) = 1 /\ log[1] = e /\ DOMAIN log = 1 .. 1
  BY <1>1, <1>2
<1>4. MaxRecords \in Nat \ {0} /\ MaxJobs \in Nat /\ MaxSearches \in Nat /\ MaxTroubles \in Nat
  BY IndexConstants
<1>5. Index!TypeOK
  <2>1. landed \in 0 .. MaxRecords /\ searches \in 0 .. MaxSearches /\ troubles \in 0 .. MaxTroubles
    BY <1>1, <1>4
  <2> QED  BY <1>1, <1>3, <2>1 DEF Index!TypeOK, IndexEntries
<1>6. LogSane
  <2>1. \A i \in 1 .. Len(log) : Follows(log, i)  BY <1>2, <1>3 DEF Follows
  <2>2. OpenBy(log, Len(log)) = {}  BY <1>2, <1>3 DEF OpenBy, StartedBy
  <2> QED  BY <1>2, <1>3, <1>4, <2>1, <2>2 DEF LogSane, Orderly
<1> QED  BY <1>1, <1>5, <1>6 DEF IndexInv, RowTold, JobsRead, Landing, RowFresh

LEMMA IndexNextKeeps == IndexInv /\ [Index!Next]_index => IndexInv'
<1> SUFFICES ASSUME IndexInv, [Index!Next]_index PROVE IndexInv'  OBVIOUS
<1>1. CASE UNCHANGED index
  <2>1. UNCHANGED <<log, row, landed, jobs, phase, searches, troubles>>  BY <1>1 DEF index
  <2>2. Index!TypeOK' /\ JobsRead' /\ Landing'
    BY <2>1 DEF IndexInv, Index!TypeOK, JobsRead, Landing
  <2>3. RowTold'  BY <2>1, RowStays
  <2>4. RowFresh'  BY <2>1, StillFacts DEF IndexInv, RowFresh
  <2> QED  BY <2>1, <2>2, <2>3, <2>4, StillFacts DEF IndexInv
<1>2. ASSUME Index!CommitPoint PROVE IndexInv'
  <2>1. CASE row = NoRow \/ log[landed].src = "reset"  BY <1>2, <2>1, SyncsKeep
  <2>2. CASE row # NoRow /\ log[landed].src # "reset"  BY <1>2, <2>2, StampKeeps
  <2> QED  BY <2>1, <2>2
<1>3. CASE Index!Next
  BY <1>2, <1>3, LogKeeps, FailsKeep, SyncsKeep, CrashKeeps, WriteKeeps DEF Index!Next
<1> QED  BY <1>1, <1>3

LEMMA IndexSays == IndexInv => Index!MirrorTellsLog /\ Index!FreshMissedNothing
<1> SUFFICES ASSUME IndexInv PROVE Index!MirrorTellsLog /\ Index!FreshMissedNothing  OBVIOUS
<1>1. ASSUME row # NoRow, Index!Mirrored \subseteq row.seen, ~row.twice
      PROVE  /\ Index!Ids(row.open) = Index!OpenIds(log)
             /\ row.resumes = Index!Attempts(log)
             /\ row.state = "awaiting" => Index!Asking(log) # {}
  <2>1. Tells(log, row, Len(log))  BY <1>1, HookDone
  <2>2. Index!OpenIds(log) = OpenBy(log, Len(log)) /\ Index!Asking(log) = WaitingBy(log, Len(log))
    BY WhatLogSays DEF IndexInv
  <2>3. Index!Attempts(log) = AttemptsBy(log, Len(log))
    <3>1. DOMAIN log = 1 .. Len(log)  BY IndexFacts
    <3> QED  BY <3>1 DEF Index!Attempts, AttemptsBy
  <2> QED  BY <2>1, <2>2, <2>3 DEF Tells
<1>2. Index!FreshMissedNothing
  <2>1. 0 \notin Index!Mirrored  BY IndexFacts
  <2> QED  BY <2>1 DEF IndexInv, RowFresh, Index!FreshMissedNothing, Index!Fresh
<1> QED  BY <1>1, <1>2 DEF IndexInv, Index!MirrorTellsLog

(* The row of a session in the index can be derived from its log: a row that *)
(* missed no record says what a scan of the log says, and at rest one that    *)
(* looks fresh and is not astray missed none, for any calls, any cap of       *)
(* resumes and any number of records, derivations, crashes and losses.       *)
THEOREM RowsAreDerivable == ServicesSpec => []MirrorIsDerivable
<1>1. ServicesInit => IndexInv
  BY IndexInitHolds DEF ServicesInit
<1>2. ASSUME IndexInv, [ServicesNext]_<<part, vars, toolVars, cuts, mcp, index>> PROVE IndexInv'
  <2>1. CASE Indexes
    BY <1>2, <2>1, IndexNextKeeps DEF Indexes
  <2>2. CASE UNCHANGED index
    BY <1>2, <2>2, IndexNextKeeps
  <2>3. CASE CallsModel \/ CallsTools \/ CutsContext \/ TalksMcp
    BY <2>2, <2>3 DEF CallsModel, CallsTools, CutsContext, TalksMcp
  <2>4. QED
    BY <1>2, <2>1, <2>2, <2>3 DEF ServicesNext
<1>3. IndexInv => MirrorIsDerivable
  BY IndexSays DEF MirrorIsDerivable
<1>4. QED
  BY <1>1, <1>2, <1>3, PTL DEF ServicesSpec
=============================================================================
