--------------------------- MODULE DurabilityProofs ---------------------------
(***************************************************************************)
(* Proofs about what hotdog keeps in files over the death of a process: the *)
(* log of a session (SessionDurability), for any prompts, calls, faults and *)
(* crashes, and the directory of a workflow run (WorkflowRunDir), for any   *)
(* processes, dispatches, rounds and kills.                                *)
(***************************************************************************)
EXTENDS SessionDurability, WorkflowRunDir, FiniteSetTheorems, SequenceTheorems,
        WellFoundedInduction, TLAPS

-----------------------------------------------------------------------------
(* Sequences and their parts.                                              *)

LEMMA LeastNumber ==
  ASSUME NEW S \in SUBSET Nat, S # {}
  PROVE  \E x \in S : \A y \in S : x <= y
<1>1. \E x \in S : \A y \in S : ~(<<y, x>> \in OpToRel(<, Nat))
  BY NatLessThanWellFounded, WFMin
<1>2. PICK x \in S : \A y \in S : ~(<<y, x>> \in OpToRel(<, Nat))  BY <1>1
<1>3. \A y \in S : ~(y < x)  BY <1>2 DEF OpToRel
<1> QED  BY <1>3

LEMMA GreatestNumber ==
  ASSUME NEW n \in Nat, NEW S \in SUBSET (1 .. n), S # {}
  PROVE  \E x \in S : \A y \in S : y <= x
<1> DEFINE T == {n - x : x \in S}
<1>1. T \in SUBSET Nat /\ T # {}
  <2>1. \A x \in S : n - x \in Nat  OBVIOUS
  <2> QED  BY <2>1
<1>2. PICK t \in T : \A y \in T : t <= y  BY <1>1, LeastNumber
<1>3. PICK x \in S : t = n - x  OBVIOUS
<1>4. ASSUME NEW y \in S PROVE y <= x
  <2>1. n - y \in T  OBVIOUS
  <2> QED  BY <1>2, <1>3, <2>1
<1> QED  BY <1>4

LEMMA FirstIsMember ==
  ASSUME NEW S \in SUBSET Nat, S # {}
  PROVE  First(S) \in S /\ \A y \in S : First(S) <= y
BY LeastNumber DEF First

(* The parts of a sequence are joined into a sequence of their elements.    *)
LEMMA FlattenExists ==
  ASSUME NEW parts, NEW n \in Nat
  PROVE  \E f : f = [i \in 1 .. n |-> IF i = 1 THEN parts[i] ELSE f[i - 1] \o parts[i]]
<1> DEFINE Upto(m, f) == f = [i \in 1 .. m |-> IF i = 1 THEN parts[i] ELSE f[i - 1] \o parts[i]]
           Stuck == {m \in Nat : ~(\E f : Upto(m, f))}
<1> SUFFICES ASSUME Stuck # {} PROVE FALSE  OBVIOUS
<1>1. PICK m \in Stuck : \A k \in Stuck : m <= k
  <2>1. Stuck \in SUBSET Nat  OBVIOUS
  <2> QED  BY <2>1, LeastNumber
<1>2. m # 0
  <2>1. Upto(0, [i \in 1 .. 0 |-> parts[i]])  OBVIOUS
  <2> QED  BY <1>1, <2>1
<1>3. PICK f : Upto(m - 1, f)
  <2>1. m \in Nat  BY <1>1
  <2>2. m - 1 \in Nat /\ ~(m <= m - 1)  BY <1>2, <2>1
  <2>3. m - 1 \notin Stuck
    <3> HIDE DEF Stuck
    <3> QED  BY <1>1, <2>2
  <2> QED  BY <2>2, <2>3
<1> DEFINE g == [i \in 1 .. m |-> IF i < m THEN f[i]
                                  ELSE IF i = 1 THEN parts[i] ELSE f[i - 1] \o parts[i]]
<1>4. \A i \in 1 .. m - 1 : f[i] = IF i = 1 THEN parts[i] ELSE f[i - 1] \o parts[i]
  BY <1>3
<1>5. ASSUME NEW i \in 1 .. m
      PROVE  g[i] = IF i = 1 THEN parts[i] ELSE g[i - 1] \o parts[i]
  <2>1. i \in Nat /\ m \in Nat  BY <1>1
  <2>2. i # 1 => g[i - 1] = f[i - 1]  BY <2>1
  <2>3. CASE i < m
    <3>1. i \in 1 .. m - 1 /\ g[i] = f[i]  BY <2>1, <2>3
    <3> QED  BY <1>4, <2>2, <3>1
  <2>4. CASE ~(i < m)
    <3>1. g[i] = IF i = 1 THEN parts[i] ELSE f[i - 1] \o parts[i]  BY <2>4
    <3> QED  BY <2>2, <3>1
  <2> QED  BY <2>3, <2>4
<1>6. g = [i \in 1 .. m |-> g[i]]  OBVIOUS
<1> HIDE DEF g
<1>7. Upto(m, g)  BY <1>5, <1>6
<1> QED  BY <1>1, <1>7

LEMMA FlattenIsSeq ==
  ASSUME NEW S, NEW n \in Nat, NEW parts \in [1 .. n -> Seq(S)]
  PROVE  FlattenSeq(parts) \in Seq(S)
<1> DEFINE Upto(f) == f = [i \in 1 .. n |-> IF i = 1 THEN parts[i] ELSE f[i - 1] \o parts[i]]
           r == CHOOSE f : Upto(f)
<1>1. DOMAIN parts = 1 .. n /\ parts \in Seq(Seq(S))  OBVIOUS
<1>2. Len(parts) = n  BY <1>1
<1>3. CASE n = 0
  <2>1. parts = <<>>  BY <1>1, <1>2, <1>3
  <2> QED  BY <2>1 DEF FlattenSeq
<1>4. CASE n # 0
  <2>1. Upto(r)
    <3>1. \E f : Upto(f)  BY FlattenExists
    <3> QED  BY <3>1
  <2>2. FlattenSeq(parts) = r[n]  BY <1>2, <1>4 DEF FlattenSeq
  <2> HIDE DEF r
  <2>3. \A i \in 1 .. n : r[i] = IF i = 1 THEN parts[i] ELSE r[i - 1] \o parts[i]  BY <2>1
  <2> DEFINE Bad == {i \in 1 .. n : r[i] \notin Seq(S)}
  <2>4. Bad = {}
    <3> SUFFICES ASSUME Bad # {} PROVE FALSE  OBVIOUS
    <3>1. PICK i \in Bad : \A j \in Bad : i <= j
      <4>1. Bad \in SUBSET Nat  OBVIOUS
      <4> QED  BY <4>1, LeastNumber
    <3>2. i \in 1 .. n /\ r[i] \notin Seq(S)  BY <3>1
    <3>3. i # 1 => r[i - 1] \in Seq(S)
      <4>1. i # 1 => i - 1 \in 1 .. n /\ ~(i <= i - 1)  BY <3>2
      <4> QED  BY <3>1, <4>1
    <3>4. parts[i] \in Seq(S)  BY <3>2
    <3>5. i # 1 => r[i - 1] \o parts[i] \in Seq(S)  BY <3>3, <3>4, ConcatProperties
    <3> QED  BY <2>3, <3>2, <3>4, <3>5
  <2> QED  BY <1>4, <2>2, <2>4
<1> QED  BY <1>3, <1>4

(* The epoch of a log is what lies below its last reset.                    *)
LEMMA EpochFacts ==
  ASSUME NEW S, NEW entries \in Seq(S)
  PROVE  /\ EpochStart(entries) \in 0 .. Len(entries)
         /\ EpochStart(entries) # 0 => entries[EpochStart(entries)].src = "reset"
         /\ \A i \in 1 .. Len(entries) : entries[i].src = "reset" => i <= EpochStart(entries)
         /\ Epoch(entries) \in Seq(S)
         /\ Len(Epoch(entries)) = Len(entries) - EpochStart(entries)
         /\ \A i \in 1 .. Len(Epoch(entries)) : Epoch(entries)[i] = entries[EpochStart(entries) + i]
<1> DEFINE resets == {i \in DOMAIN entries : entries[i].src = "reset"}
           s == EpochStart(entries)
<1>1. Len(entries) \in Nat /\ DOMAIN entries = 1 .. Len(entries)  OBVIOUS
<1>2. /\ s \in 0 .. Len(entries)
      /\ s # 0 => entries[s].src = "reset"
      /\ \A i \in 1 .. Len(entries) : entries[i].src = "reset" => i <= s
  <2>1. CASE resets = {}  BY <1>1, <2>1 DEF EpochStart
  <2>2. CASE resets # {}
    <3>1. \E i \in resets : \A j \in resets : j <= i  BY <1>1, <2>2, GreatestNumber
    <3>2. s \in resets /\ \A j \in resets : j <= s  BY <2>2, <3>1 DEF EpochStart
    <3> QED  BY <1>1, <3>2
  <2> QED  BY <2>1, <2>2
<1>3. Epoch(entries) = SubSeq(entries, s + 1, Len(entries))  BY DEF Epoch
<1> HIDE DEF s
<1>4. \A i \in s + 1 .. Len(entries) : entries[i] \in S  BY <1>1, <1>2
<1>5. /\ Epoch(entries) \in Seq(S)
      /\ Len(Epoch(entries)) = Len(entries) - s
      /\ \A i \in 1 .. Len(Epoch(entries)) : Epoch(entries)[i] = entries[s + i]
  <2>1. s + 1 \in Int /\ Len(entries) \in Int  BY <1>1, <1>2
  <2>2. /\ SubSeq(entries, s + 1, Len(entries)) \in Seq(S)
        /\ Len(SubSeq(entries, s + 1, Len(entries))) =
             IF s + 1 <= Len(entries) THEN Len(entries) - (s + 1) + 1 ELSE 0
        /\ \A i \in 1 .. Len(entries) - (s + 1) + 1 :
             SubSeq(entries, s + 1, Len(entries))[i] = entries[(s + 1) + i - 1]
    BY <2>1, <1>4, SubSeqProperties
  <2>3. Len(Epoch(entries)) = Len(entries) - s
    <3> DEFINE n == Len(entries)
               m == Len(SubSeq(entries, s + 1, Len(entries)))
    <3>1. n \in Nat /\ s \in 0 .. n  BY <1>1, <1>2
    <3>2. m = IF s + 1 <= n THEN n - (s + 1) + 1 ELSE 0  BY <2>2
    <3> HIDE DEF n, m
    <3>3. m = n - s  BY <3>1, <3>2
    <3> QED  BY <1>3, <3>3 DEF n, m
  <2>4. ASSUME NEW i \in 1 .. Len(Epoch(entries)) PROVE Epoch(entries)[i] = entries[s + i]
    <3>1. i \in 1 .. Len(entries) - (s + 1) + 1 /\ (s + 1) + i - 1 = s + i  BY <1>1, <1>2, <2>3
    <3> QED  BY <1>3, <2>2, <3>1
  <2> QED  BY <1>3, <2>2, <2>3, <2>4
<1> QED  BY <1>2, <1>5 DEF s

LEMMA MessagesAreIn ==
  ASSUME NEW S, NEW T, NEW entries \in Seq(T),
         \A i \in 1 .. Len(entries) : IsMessage(entries[i]) => entries[i] \in S
  PROVE  MessagesOf(entries) \in Seq(S)
<1> DEFINE parts == [i \in DOMAIN entries |->
                       IF IsMessage(entries[i]) THEN <<entries[i]>> ELSE <<>>]
<1>1. Len(entries) \in Nat /\ DOMAIN entries = 1 .. Len(entries)  OBVIOUS
<1>2. parts \in [1 .. Len(entries) -> Seq(S)]  BY <1>1
<1>3. MessagesOf(entries) = FlattenSeq(parts)  BY DEF MessagesOf
<1> HIDE DEF parts
<1> QED  BY <1>1, <1>2, <1>3, FlattenIsSeq

LEMMA QuestionsAreIn ==
  ASSUME NEW S, NEW T, NEW entries \in Seq(T),
         \A i \in 1 .. Len(entries) : entries[i].src = "asked" => entries[i].id \in S
  PROVE  PendingQuestions(entries) \in Seq(S)
<1> DEFINE Asked(i) == /\ entries[i].src = "asked" /\ entries[i].id \notin IdsOf(entries, "result")
                       /\ \A j \in 1 .. i - 1 : entries[j] # entries[i]
           parts == [i \in DOMAIN entries |-> IF Asked(i) THEN <<entries[i].id>> ELSE <<>>]
<1>1. Len(entries) \in Nat /\ DOMAIN entries = 1 .. Len(entries)  OBVIOUS
<1>2. \A i \in 1 .. Len(entries) : Asked(i) => entries[i].id \in S  OBVIOUS
<1>3. PendingQuestions(entries) = FlattenSeq(parts)  BY DEF PendingQuestions
<1> HIDE DEF Asked
<1>4. parts \in [1 .. Len(entries) -> Seq(S)]  BY <1>1, <1>2
<1> HIDE DEF parts
<1> QED  BY <1>1, <1>3, <1>4, FlattenIsSeq

(* A repair keeps messages and adds answers to the calls of messages.       *)
LEMMA RepairIsIn ==
  ASSUME NEW S, NEW messages \in Seq(S), NEW questions, NEW started,
         \A e \in S : IsFiniteSet(e.calls),
         \A e \in S : \A id \in e.calls : ResultEntry(id, SynthesisFor(id, started)) \in S
  PROVE  RepairToolCalls(messages, questions, started) \in Seq(S)
<1>1. Len(messages) \in Nat /\ DOMAIN messages = 1 .. Len(messages)  OBVIOUS
<1>2. ASSUME NEW i \in 1 .. Len(messages)
      PROVE  Answers(messages, i, questions, started) \in Seq(S)
  <2> DEFINE a == Assistant(messages, i)
             calls == IF a = 0 \/ BlockEnd(messages, a) # i THEN {} ELSE messages[a].calls
             Answer(id) == IF id \in Unanswered(messages, a) \ questions
                             THEN <<ResultEntry(id, SynthesisFor(id, started))>> ELSE <<>>
             parts == [n \in 1 .. Cardinality(calls) |-> Answer(InOrder(calls)[n])]
  <2>1. a = 0 \/ messages[a] \in S
    <3> DEFINE before == {k \in 1 .. i : messages[k].src = "llm"}
    <3>1. CASE before = {}  BY <3>1 DEF Assistant
    <3>2. CASE before # {}
      <4>1. i \in Nat /\ before \in SUBSET (1 .. i)  BY <1>1
      <4>2. \E k \in before : \A j \in before : j <= k  BY <3>2, <4>1, GreatestNumber
      <4>3. a \in before  BY <3>2, <4>2 DEF Assistant
      <4>4. a \in 1 .. Len(messages)  BY <1>1, <4>3
      <4> QED  BY <4>4
    <3> QED  BY <3>1, <3>2
  <2>2. Cardinality(calls) \in Nat  BY <2>1, FS_CardinalityType, FS_EmptySet
  <2>3. ASSUME NEW id PROVE Answer(id) \in Seq(S) \/ a = 0
    <3>1. CASE a # 0 /\ id \in Unanswered(messages, a) \ questions
      <4>1. id \in messages[a].calls  BY <3>1 DEF Unanswered
      <4>2. ResultEntry(id, SynthesisFor(id, started)) \in S  BY <2>1, <3>1, <4>1
      <4> QED  BY <3>1, <4>2
    <3>2. CASE ~(id \in Unanswered(messages, a) \ questions)  BY <3>2
    <3> QED  BY <3>1, <3>2
  <2>4. a = 0 => Cardinality(calls) = 0  BY FS_EmptySet
  <2>5. Answers(messages, i, questions, started) = FlattenSeq(parts)  BY DEF Answers
  <2> HIDE DEF Answer, calls, a
  <2>6. parts \in [1 .. Cardinality(calls) -> Seq(S)]  BY <2>2, <2>3, <2>4
  <2> HIDE DEF parts
  <2> QED  BY <2>2, <2>5, <2>6, FlattenIsSeq
<1>3. ASSUME NEW i \in 1 .. Len(messages) PROVE Kept(messages, i) \in Seq(S)
  BY DEF Kept
<1> DEFINE parts == [i \in DOMAIN messages |->
                       Kept(messages, i) \o Answers(messages, i, questions, started)]
<1>4. \A i \in 1 .. Len(messages) :
        Kept(messages, i) \o Answers(messages, i, questions, started) \in Seq(S)
  BY <1>2, <1>3, ConcatProperties
<1>5. parts \in [1 .. Len(messages) -> Seq(S)]  BY <1>1, <1>4
<1>6. RepairToolCalls(messages, questions, started) = FlattenSeq(parts)  BY DEF RepairToolCalls
<1> HIDE DEF parts
<1> QED  BY <1>1, <1>5, <1>6, FlattenIsSeq

LEMMA ReplayIsIn ==
  ASSUME NEW S, NEW T, NEW entries \in Seq(T),
         \A i \in 1 .. Len(entries) : IsMessage(entries[i]) => entries[i] \in S,
         \A e \in S : IsFiniteSet(e.calls),
         \A e \in S : \A id \in e.calls :
           ResultEntry(id, SynthesisFor(id, IdsOf(entries, "started"))) \in S
  PROVE  ReplayEntries(entries) \in Seq(S)
<1>1. MessagesOf(entries) \in Seq(S)  BY MessagesAreIn
<1> QED  BY <1>1, RepairIsIn DEF ReplayEntries

(* A cut is a prefix of the context.                                        *)
LEMMA AnsweredEndIsIn ==
  ASSUME NEW S, NEW messages \in Seq(S), NEW at \in 1 .. Len(messages)
  PROVE  AnsweredEnd(messages, at) \in at .. Len(messages)
<1> DEFINE n == Len(messages)
           Stop(j) == \/ messages[j].src # "result" \/ messages[j].id \notin messages[at].calls
                      \/ \E k \in at + 1 .. j - 1 : messages[k].id = messages[j].id
           ends == {e \in at .. n : e < n => Stop(e + 1)}
           Ends(e) == /\ \A j \in at + 1 .. e :
                           /\ messages[j].src = "result" /\ messages[j].id \in messages[at].calls
                           /\ \A k \in at + 1 .. j - 1 : messages[k].id # messages[j].id
                      /\ e < n =>
                           \/ messages[e + 1].src # "result"
                           \/ messages[e + 1].id \notin messages[at].calls
                           \/ \E k \in at + 1 .. e : messages[k].id = messages[e + 1].id
<1>1. n \in Nat /\ at \in Nat  OBVIOUS
<1>2. n \in ends  BY <1>1
<1>3. PICK e \in ends : \A f \in ends : e <= f
  <2>1. ends \in SUBSET Nat  BY <1>1
  <2> HIDE DEF ends
  <2> QED  BY <1>2, <2>1, LeastNumber
<1>4. e \in at .. n /\ (e < n => Stop(e + 1))  BY <1>3
<1>5. ASSUME NEW j \in at + 1 .. e PROVE ~Stop(j)
  <2>1. j - 1 \in at .. n /\ j - 1 < n /\ ~(e <= j - 1) /\ (j - 1) + 1 = j  BY <1>1, <1>4
  <2>2. j - 1 \notin ends
    <3> HIDE DEF ends
    <3> QED  BY <1>3, <2>1
  <2>3. ~Stop((j - 1) + 1)
    <3> HIDE DEF Stop
    <3> QED  BY <2>1, <2>2
  <2> HIDE DEF Stop
  <2> QED  BY <2>1, <2>3
<1>6. (e + 1) - 1 = e  BY <1>1, <1>4
<1>7. Ends(e)  BY <1>4, <1>5, <1>6
<1>8. AnsweredEnd(messages, at) = CHOOSE x \in at .. n : Ends(x)  BY DEF AnsweredEnd
<1> HIDE DEF Ends
<1> QED  BY <1>4, <1>7, <1>8

LEMMA PrefixIsIn ==
  ASSUME NEW S, NEW s \in Seq(S), NEW n \in 0 .. Len(s)
  PROVE  SubSeq(s, 1, n) \in Seq(S) /\ Len(SubSeq(s, 1, n)) = n
         /\ \A i \in 1 .. n : SubSeq(s, 1, n)[i] = s[i]
<1>1. \A i \in 1 .. n : s[i] \in S  OBVIOUS
<1>2. 1 \in Int /\ n \in Int /\ n - 1 + 1 = n /\ (1 <= n \/ n = 0)  OBVIOUS
<1>3. /\ SubSeq(s, 1, n) \in Seq(S)
      /\ Len(SubSeq(s, 1, n)) = IF 1 <= n THEN n - 1 + 1 ELSE 0
      /\ \A i \in 1 .. n - 1 + 1 : SubSeq(s, 1, n)[i] = s[1 + i - 1]
  BY <1>1, <1>2, SubSeqProperties
<1>4. \A i \in 1 .. n : 1 + i - 1 = i  OBVIOUS
<1>5. Len(SubSeq(s, 1, n)) = n  BY <1>2, <1>3
<1>6. \A i \in 1 .. n : SubSeq(s, 1, n)[i] = s[i]  BY <1>2, <1>3, <1>4
<1> QED  BY <1>3, <1>5, <1>6

LEMMA RewindIsIn ==
  ASSUME NEW S, NEW messages \in Seq(S), NEW kept \in RewindCuts(messages)
  PROVE  kept \in Seq(S)
<1>1. PICK i \in DOMAIN messages : kept = SubSeq(messages, 1, AnsweredEnd(messages, i))
  BY DEF RewindCuts
<1>2. i \in 1 .. Len(messages) /\ Len(messages) \in Nat  OBVIOUS
<1>3. AnsweredEnd(messages, i) \in i .. Len(messages)  BY <1>2, AnsweredEndIsIn
<1>4. AnsweredEnd(messages, i) \in 0 .. Len(messages)  BY <1>2, <1>3
<1> QED  BY <1>1, <1>4, PrefixIsIn

LEMMA TrimIsIn ==
  ASSUME NEW S, NEW messages \in Seq(S)
  PROVE  TrimToLastVisible(messages) \in Seq(S)
<1> DEFINE visible == {i \in DOMAIN messages : IsVisible(messages[i])}
           last == CHOOSE i \in visible : \A j \in visible : j <= i
<1>1. Len(messages) \in Nat /\ DOMAIN messages = 1 .. Len(messages)  OBVIOUS
<1>2. CASE visible = {}  BY <1>2 DEF TrimToLastVisible
<1>3. CASE visible # {}
  <2>1. \E i \in visible : \A j \in visible : j <= i  BY <1>1, <1>3, GreatestNumber
  <2>2. last \in visible  BY <2>1
  <2>3. last \in 1 .. Len(messages)  BY <1>1, <2>2
  <2>4. TrimToLastVisible(messages) = SubSeq(messages, 1, AnsweredEnd(messages, last))
    BY <1>3 DEF TrimToLastVisible
  <2> HIDE DEF last
  <2>5. AnsweredEnd(messages, last) \in last .. Len(messages)  BY <2>3, AnsweredEndIsIn
  <2>6. AnsweredEnd(messages, last) \in 0 .. Len(messages)  BY <1>1, <2>3, <2>5
  <2> QED  BY <2>4, <2>6, PrefixIsIn
<1> QED  BY <1>2, <1>3

LEMMA UndoIsIn ==
  ASSUME NEW S, NEW messages \in Seq(S), Prompts(messages) # {}
  PROVE  UndoCut(messages) \in Seq(S)
<1> DEFINE last == CHOOSE i \in Prompts(messages) : \A j \in Prompts(messages) : j <= i
<1>1. Len(messages) \in Nat /\ DOMAIN messages = 1 .. Len(messages)  OBVIOUS
<1>2. Prompts(messages) \in SUBSET (1 .. Len(messages))  BY <1>1 DEF Prompts
<1>3. \E i \in Prompts(messages) : \A j \in Prompts(messages) : j <= i
  BY <1>1, <1>2, GreatestNumber
<1>4. last \in 1 .. Len(messages)  BY <1>2, <1>3
<1>5. UndoCut(messages) = TrimToLastVisible(SubSeq(messages, 1, last - 1))  BY DEF UndoCut
<1> HIDE DEF last
<1>6. last - 1 \in 0 .. Len(messages)  BY <1>1, <1>4
<1>7. SubSeq(messages, 1, last - 1) \in Seq(S)  BY <1>6, PrefixIsIn
<1> QED  BY <1>5, <1>7, TrimIsIn

-----------------------------------------------------------------------------
(* The inductive invariant.                                                *)

Typed ==
  /\ disk \in Seq(Entries) /\ held \in Seq(Nat)
  /\ synced \in 0 .. Len(disk) /\ torn \in BOOLEAN /\ syncing \in BOOLEAN
  /\ phase \in Phases /\ todo \subseteq Calls
  /\ waits \subseteq {"turnEnd", "clear"} /\ clearing \in BOOLEAN
  /\ openTurn \in BOOLEAN
  /\ used \in [{"prompts", "calls", "replies", "cuts", "faults", "crashes"} -> Nat]
  /\ autos \in Nat

Calling == {"call", "barrier", "gate", "exec", "asked"}

(* A reply's calls are open exactly while they run; a handler that is going *)
(* to clear the context is waited for.                                      *)
TurnInv ==
  /\ phase \in Calling <=> todo # {}
  /\ todo \subseteq 1 .. used.calls
  /\ phase = "down" => queue = <<>>
  /\ clearing => phase = "ending" /\ "clear" \in waits

(* An entry knows the calls made so far.  One that says a call never ran is *)
(* not about a call that may still run; if it ran after all, its record was *)
(* lost behind a torn line or lies above a reset that is older than m.      *)
Known(e) ==
  e.calls \subseteq 1 .. used.calls /\ (e.note = "notStarted" => e.id \in 1 .. used.calls)

AboveReset(id, m) ==
  \E i, r \in 1 .. m :
    i < r /\ disk[i].src = "started" /\ disk[i].id = id /\ disk[r].src = "reset"

Backed(e, m) ==
  e.note = "notStarted" =>
    e.id \notin todo /\ (e.id \in ran => e.id \in merged \/ AboveReset(e.id, m))

Sound(e) == Known(e) /\ Backed(e, Len(disk))
SoundMessages == {e \in Messages : Sound(e)}
SoundWrites ==
  {w \in Writes : /\ Sound(w.entry)
                  /\ w.entry.src = "started" <=> w.for = "barrier"
                  /\ w.for # "nobody" => w.fsync
                  /\ w.for = "resume" => w.entry.src = "resume"}

LogInv ==
  /\ \A i \in 1 .. Len(disk) : Known(disk[i]) /\ Backed(disk[i], i)
  /\ queue \in Seq(SoundWrites)
  /\ ctx \in Seq(SoundMessages)

(* The phase in which somebody waits for a write: nobody else writes then,  *)
(* but at the end of a turn, when several handlers do.                      *)
AwaitedIn == [turnStart |-> "start", barrier |-> "barrier", cut |-> "cutting",
              resume |-> "adopting", turnEnd |-> "ending", clear |-> "ending"]
Handlers == {"turnEnd", "clear"}

Awaits ==
  {h \in Waiters \ {"nobody"} : /\ phase = AwaitedIn[h]
                                /\ h \in Handlers => h \in waits
                                /\ h = "clear" => ~clearing}

AwaitInv ==
  /\ syncing => queue # <<>> /\ queue[1].fsync
  /\ \A i \in 1 .. Len(queue) : queue[i].for # "nobody" =>
       /\ queue[i].for \in Awaits
       /\ \A j \in 1 .. Len(queue) : queue[j].for = queue[i].for => j = i
       /\ queue[i].for \notin Handlers => i = Len(queue)

(* The barrier in the queue is that of the current call.  Its record is in  *)
(* the file before anybody waits for the fsync.                            *)
RecordedBelow(id, m) == \E i \in 1 .. m : disk[i].src = "started" /\ disk[i].id = id
Recorded(id, m) == id \in merged \/ RecordedBelow(id, m)

BarrierInv ==
  /\ \A i \in 1 .. Len(queue) : queue[i].for = "barrier" =>
       /\ queue[i].entry.id = Current
       /\ syncing /\ i = 1 => Recorded(Current, Len(disk))
  /\ phase = "gate" /\ Current \notin failed => Recorded(Current, synced)

(* An adoption writes the session line and the attempt, and nothing else.   *)
AdoptInv ==
  phase = "adopting" =>
    /\ queue # <<>> /\ queue[Len(queue)].for = "resume"
    /\ Len(queue) = 1 \/ (Len(queue) = 2 /\ queue[1].entry.src = "session" /\ ~queue[1].fsync)

(* The automatic resumes since the last progress are on the disk, whatever  *)
(* power loss takes, and nothing in the queue is going to end their row.    *)
IsAuto(e) == e.src = "resume" /\ e.note = "auto"
AutosOf(n) == {i \in 1 .. n : IsAuto(disk[i]) /\ \A j \in i + 1 .. n : ~IsProgress(disk[j])}

CapInv ==
  /\ autos <= AutoCap
  /\ \A n \in synced .. Len(disk) : autos <= Cardinality(AutosOf(n))
  /\ autos > 0 => \A i \in 1 .. Len(queue) : ~IsProgress(queue[i].entry)
  /\ \A i \in 1 .. Len(queue) : queue[i].for = "resume" /\ queue[i].entry.note = "auto" =>
       autos < AutoCap /\ (syncing => autos < Cardinality(AutosOf(Len(disk))))
  /\ torn => phase = "down" \/ (phase = "adopting" /\ Len(queue) = 2)

AutoInv == used.faults = 0 => CapInv

IInv ==
  /\ Typed /\ TurnInv /\ LogInv /\ AwaitInv /\ BarrierInv /\ RanIsRecorded
  /\ AdoptInv /\ AutoInv

-----------------------------------------------------------------------------
(* What the invariant says.                                                *)

LEMMA AutosAreCounted ==
  ASSUME NEW S, NEW entries \in Seq(S)
  PROVE  ConsecutiveAutoResumes(entries) =
           Cardinality({i \in 1 .. Len(entries) :
                          /\ IsAuto(entries[i])
                          /\ \A j \in i + 1 .. Len(entries) : ~IsProgress(entries[j])})
<1>1. DOMAIN entries = 1 .. Len(entries)  OBVIOUS
<1> QED  BY <1>1 DEF ConsecutiveAutoResumes, IsAuto

LEMMA InvariantIsSafe ==
  IInv => EffectsRecorded /\ AutoResumesCapped
<1> SUFFICES ASSUME IInv PROVE EffectsRecorded /\ AutoResumesCapped  OBVIOUS
<1>1. RanIsRecorded /\ AutoResumesCapped  BY DEF IInv, AutoInv, CapInv, AutoResumesCapped
<1>2. ASSUME NEW id \in SaidNeverRan \cap ran, id \notin merged
      PROVE  StartedAboveReset(id)
  <2>1. PICK j \in DOMAIN ctx : ctx[j].note = "notStarted" /\ id = ctx[j].id
    BY DEF SaidNeverRan
  <2>2. ctx[j] \in SoundMessages  BY <2>1 DEF IInv, LogInv
  <2>3. AboveReset(id, Len(disk))  BY <1>2, <2>1, <2>2 DEF SoundMessages, Sound, Backed
  <2>4. PICK i, r \in 1 .. Len(disk) :
          i < r /\ disk[i].src = "started" /\ disk[i].id = id /\ disk[r].src = "reset"
    BY <2>3 DEF AboveReset
  <2>5. disk \in Seq(Entries)  BY DEF IInv, Typed
  <2>6. EpochStart(disk) \in 0 .. Len(disk) /\ r <= EpochStart(disk)
    BY <2>4, <2>5, EpochFacts
  <2>7. i \in 1 .. EpochStart(disk)  BY <2>4, <2>5, <2>6
  <2> QED  BY <2>4, <2>7 DEF StartedAboveReset
<1> QED  BY <1>1, <1>2 DEF EffectsRecorded, NotStartedNeverRan

LEMMA InvariantInit == Init => IInv
<1> SUFFICES ASSUME Init PROVE IInv  OBVIOUS
<1>1. Typed
  <2>1. used \in [{"prompts", "calls", "replies", "cuts", "faults", "crashes"} -> Nat]
    BY DEF Init
  <2>2. disk \in Seq(Entries) /\ held \in Seq(Nat)
    BY DEF Init
  <2>3. synced \in 0 .. Len(disk)  BY DEF Init
  <2> QED  BY <2>1, <2>2, <2>3 DEF Init, Typed, Phases, Running
<1>2. TurnInv /\ AwaitInv /\ BarrierInv /\ AdoptInv /\ RanIsRecorded
  BY DEF Init, TurnInv, AwaitInv, BarrierInv, AdoptInv, RanIsRecorded, Calling
<1>3. LogInv  BY DEF Init, LogInv
<1>4. AutoInv
  <2>1. AutosOf(0) = {}  BY DEF AutosOf
  <2>2. synced .. Len(disk) = {0}  BY DEF Init
  <2>3. Cardinality(AutosOf(0)) = 0  BY <2>1, FS_EmptySet
  <2> QED  BY <2>2, <2>3, DurabilityAssumption DEF Init, AutoInv, CapInv
<1> QED  BY <1>1, <1>2, <1>3, <1>4 DEF IInv

-----------------------------------------------------------------------------
(* What a step leaves as it was.                                           *)

LEMMA SoundKeeps ==
  ASSUME Typed, TurnInv, LogInv,
         used'.calls \in Nat, used.calls <= used'.calls,
         todo' \subseteq todo \cup (used.calls + 1 .. used'.calls),
         ran' \subseteq ran \cup todo, merged \subseteq merged',
         Len(disk') \in Nat, Len(disk) <= Len(disk'),
         \A i \in 1 .. Len(disk) : disk'[i] = disk[i]
  PROVE  /\ \A e : Sound(e) => Sound(e)'
         /\ SoundMessages \subseteq SoundMessages'
         /\ SoundWrites \subseteq SoundWrites'
         /\ \A i \in 1 .. Len(disk) : (Known(disk[i]) /\ Backed(disk[i], i))'
<1>1. Len(disk) \in Nat /\ used.calls \in Nat  BY DEF Typed
<1>2. ASSUME NEW e, Known(e) PROVE Known(e)'
  BY <1>1, <1>2 DEF Known
<1>3. ASSUME NEW id, NEW m \in 0 .. Len(disk), AboveReset(id, m) PROVE AboveReset(id, m)'
  BY <1>1, <1>3 DEF AboveReset
<1>4. ASSUME NEW e, NEW m \in 0 .. Len(disk), Known(e), Backed(e, m), e.note = "notStarted"
      PROVE  e.id \notin todo' /\ (e.id \in ran' => e.id \in merged' \/ AboveReset(e.id, m)')
  <2>1. e.id \in 1 .. used.calls /\ e.id \notin todo  BY <1>4 DEF Known, Backed
  <2>2. e.id \notin todo'  BY <1>1, <2>1
  <2>3. e.id \in ran' => e.id \in ran  BY <2>1
  <2>4. e.id \in ran => e.id \in merged \/ AboveReset(e.id, m)  BY <1>4 DEF Backed
  <2>5. AboveReset(e.id, m) => AboveReset(e.id, m)'  BY <1>3
  <2> QED  BY <2>2, <2>3, <2>4, <2>5
<1>5. ASSUME NEW e, Sound(e) PROVE Sound(e)'
  <2>1. Known(e) /\ Backed(e, Len(disk))  BY <1>5 DEF Sound
  <2>2. Len(disk) \in 0 .. Len(disk)  BY <1>1
  <2>3. ASSUME NEW m, m = Len(disk), AboveReset(e.id, m)' PROVE AboveReset(e.id, Len(disk))'
    BY <1>1, <2>3 DEF AboveReset
  <2>4. e.note = "notStarted" =>
          e.id \notin todo' /\ (e.id \in ran' => e.id \in merged' \/ AboveReset(e.id, Len(disk))')
    <3> SUFFICES ASSUME NEW m, m = Len(disk)
                 PROVE  e.note = "notStarted" =>
                          e.id \notin todo' /\ (e.id \in ran' => e.id \in merged' \/ AboveReset(e.id, m)')
      BY <2>3
    <3> QED  BY <1>4, <2>1, <2>2
  <2>5. Backed(e, Len(disk))'  BY <2>4 DEF Backed
  <2> QED  BY <1>2, <2>1, <2>5 DEF Sound
<1>6. SoundMessages \subseteq SoundMessages'  BY <1>5 DEF SoundMessages
<1>7. SoundWrites \subseteq SoundWrites'  BY <1>5 DEF SoundWrites
<1>8. ASSUME NEW i \in 1 .. Len(disk) PROVE (Known(disk[i]) /\ Backed(disk[i], i))'
  <2> SUFFICES ASSUME NEW e, e = disk[i] PROVE Known(e)' /\ Backed(e, i)'
    BY DEF Known, Backed
  <2>1. Known(e) /\ Backed(e, i)  BY DEF LogInv
  <2>2. i \in 0 .. Len(disk)  BY <1>1
  <2>3. e.note = "notStarted" =>
          e.id \notin todo' /\ (e.id \in ran' => e.id \in merged' \/ AboveReset(e.id, i)')
    BY <1>4, <2>1, <2>2
  <2> QED  BY <1>2, <2>1, <2>3 DEF Backed
<1> QED  BY <1>5, <1>6, <1>7, <1>8

LEMMA CurrentIsCall ==
  ASSUME Typed, TurnInv, phase \in Calling
  PROVE  Current \in todo /\ Current \in Nat /\ Current \in Calls /\ \A id \in todo : Current <= id
<1>1. todo \in SUBSET Nat /\ todo # {} /\ todo \subseteq Calls  BY DEF Typed, TurnInv, Calls
<1>2. Current \in todo /\ \A id \in todo : Current <= id  BY <1>1, FirstIsMember DEF Current
<1> QED  BY <1>1, <1>2

(* Somebody dispatches writes, and nobody waits for an older one, but for a *)
(* turn_end at the end of a turn.                                          *)
Writing ==
  /\ UNCHANGED <<disk, synced, torn, syncing, ran, merged>>
  /\ used'.calls \in Nat /\ used.calls <= used'.calls /\ used'.faults = used.faults
  /\ todo' \subseteq todo \cup (used.calls + 1 .. used'.calls)
  /\ phase \notin {"start", "barrier", "cutting", "adopting", "down"}
  /\ phase' \notin {"gate", "adopting"}

LEMMA DispatchKeeps ==
  ASSUME IInv, Writing, NEW writes \in Seq(SoundWrites'), queue' = queue \o writes,
         phase = "ending" =>
           /\ phase' = "ending" /\ waits' = waits /\ clearing
           /\ \A j \in 1 .. Len(writes) : writes[j].for # "turnEnd",
         \A i \in 1 .. Len(writes) : writes[i].for # "nobody" =>
           /\ i = Len(writes) /\ writes[i].for \in Awaits' /\ writes[i].for # "resume"
           /\ writes[i].for = "barrier" => writes[i].entry.id = Current',
         autos' = 0 \/ (autos' = autos /\ \A j \in 1 .. Len(writes) : ~IsProgress(writes[j].entry))
  PROVE  /\ SoundMessages \subseteq SoundMessages'
         /\ \A i \in 1 .. Len(disk') : (Known(disk[i]) /\ Backed(disk[i], i))'
         /\ queue' \in Seq(SoundWrites')
         /\ AwaitInv' /\ BarrierInv' /\ RanIsRecorded' /\ AdoptInv' /\ AutoInv'
<1> USE DEF Writing
<1> DEFINE n == Len(queue)
           m == Len(writes)
<1>1. /\ Typed /\ TurnInv /\ LogInv /\ AwaitInv /\ BarrierInv /\ RanIsRecorded
      /\ AdoptInv /\ AutoInv
  BY DEF IInv
<1>2. /\ SoundMessages \subseteq SoundMessages'
      /\ SoundWrites \subseteq SoundWrites'
      /\ \A i \in 1 .. Len(disk) : (Known(disk[i]) /\ Backed(disk[i], i))'
  <2>1. Len(disk') \in Nat /\ Len(disk) <= Len(disk')  BY <1>1 DEF Typed
  <2> QED  BY <1>1, <2>1, SoundKeeps
<1>3. queue \in Seq(SoundWrites) /\ queue \in Seq(SoundWrites')  BY <1>1, <1>2, SeqMonotonic DEF LogInv
<1>4. n \in Nat /\ m \in Nat  BY <1>3
<1>5. /\ queue' \in Seq(SoundWrites') /\ Len(queue') = n + m
      /\ \A i \in 1 .. n + m : queue'[i] = IF i <= n THEN queue[i] ELSE writes[i - n]
  BY <1>3, ConcatProperties
<1> HIDE DEF n, m
<1>6. ASSUME NEW i \in 1 .. n PROVE i \in 1 .. n + m /\ queue'[i] = queue[i]
  <2>1. i \in 1 .. n + m /\ i <= n  BY <1>4
  <2> QED  BY <1>5, <2>1
<1>7. \A i \in 1 .. n + m : i \in 1 .. n \/ (i - n \in 1 .. m /\ ~(i <= n) /\ queue'[i] = writes[i - n])
  BY <1>4, <1>5
<1>8. ASSUME NEW i \in 1 .. n, queue[i].for # "nobody"
      PROVE  queue[i].for = "turnEnd" /\ phase = "ending" /\ "turnEnd" \in waits
  <2>1. queue[i].for \in Awaits  BY <1>1, <1>8 DEF AwaitInv, n
  <2>2. queue[i].for \in Waiters /\ phase = AwaitedIn[queue[i].for]  BY <2>1 DEF Awaits
  <2>3. queue[i].for \in Handlers /\ phase = "ending"
    BY <1>8, <2>2 DEF AwaitedIn, Waiters, Handlers
  <2>4. queue[i].for # "clear"  BY <2>1, <2>3 DEF Awaits
  <2> QED  BY <2>1, <2>3, <2>4 DEF Awaits, Handlers
<1>9. ASSUME NEW i \in 1 .. m PROVE writes[i] \in SoundWrites'  BY DEF m
<1>10. AwaitInv'
  <2>1. syncing' => queue' # <<>> /\ queue'[1].fsync
    <3> SUFFICES ASSUME syncing PROVE queue' # <<>> /\ queue'[1].fsync  OBVIOUS
    <3>1. queue # <<>> /\ queue[1].fsync  BY <1>1 DEF AwaitInv
    <3>2. 1 \in 1 .. n  BY <1>3, <1>4, <3>1 DEF n
    <3>3. queue'[1] = queue[1] /\ 1 \in 1 .. n + m  BY <1>6, <3>2
    <3> QED  BY <1>5, <3>1, <3>3
  <2>2. ASSUME NEW i \in 1 .. n + m, queue'[i].for # "nobody"
        PROVE  /\ queue'[i].for \in Awaits'
               /\ \A j \in 1 .. n + m : queue'[j].for = queue'[i].for => j = i
               /\ queue'[i].for \notin Handlers => i = n + m
    <3>1. CASE i \in 1 .. n
      <4>1. queue'[i] = queue[i]  BY <1>6, <3>1
      <4>2. queue[i].for = "turnEnd" /\ phase = "ending" /\ "turnEnd" \in waits
        BY <1>8, <2>2, <3>1, <4>1
      <4>3. queue'[i].for \in Awaits'
        BY <4>1, <4>2 DEF Awaits, AwaitedIn, Handlers, Waiters
      <4>4. ASSUME NEW j \in 1 .. n + m, queue'[j].for = queue'[i].for PROVE j = i
        <5>1. j \in 1 .. n
          <6> SUFFICES ASSUME j \notin 1 .. n PROVE FALSE  OBVIOUS
          <6>1. j - n \in 1 .. m /\ queue'[j] = writes[j - n]  BY <1>7
          <6> QED  BY <4>1, <4>2, <4>4, <6>1 DEF m
        <5>2. queue'[j] = queue[j]  BY <1>6, <5>1
        <5>3. queue[j].for = queue[i].for /\ queue[i].for # "nobody"
          BY <4>1, <4>2, <4>4, <5>2
        <5> QED  BY <1>1, <3>1, <5>1, <5>3 DEF AwaitInv, n
      <4> QED  BY <4>1, <4>2, <4>3, <4>4 DEF Handlers
    <3>2. CASE i \notin 1 .. n
      <4>1. i - n \in 1 .. m /\ queue'[i] = writes[i - n]  BY <1>7, <3>2
      <4>2. i - n = m /\ writes[i - n].for \in Awaits'  BY <2>2, <4>1 DEF m
      <4>3. i = n + m  BY <1>4, <4>2
      <4>4. ASSUME NEW j \in 1 .. n + m, queue'[j].for = queue'[i].for PROVE j = i
        <5>1. CASE j \in 1 .. n
          <6>1. queue'[j] = queue[j]  BY <1>6, <5>1
          <6>2. queue[j].for = "turnEnd" /\ phase = "ending"  BY <1>8, <2>2, <4>4, <5>1, <6>1
          <6>3. writes[i - n].for # "turnEnd"  BY <4>1, <6>2 DEF m
          <6> QED  BY <4>1, <4>4, <6>1, <6>2, <6>3
        <5>2. CASE j \notin 1 .. n
          <6>1. j - n \in 1 .. m /\ queue'[j] = writes[j - n]  BY <1>7, <5>2
          <6>2. j - n = m  BY <2>2, <4>4, <6>1 DEF m
          <6> QED  BY <1>4, <4>3, <6>2
        <5> QED  BY <5>1, <5>2
      <4> QED  BY <4>1, <4>2, <4>3, <4>4
    <3> QED  BY <3>1, <3>2
  <2> QED  BY <1>5, <2>1, <2>2 DEF AwaitInv
<1>11. BarrierInv'
  <2>1. ASSUME NEW i \in 1 .. n + m, queue'[i].for = "barrier"
        PROVE  queue'[i].entry.id = Current' /\ ~(syncing' /\ i = 1)
    <3>1. i \notin 1 .. n
      <4> SUFFICES ASSUME i \in 1 .. n PROVE FALSE  OBVIOUS
      <4>1. queue[i].for = "barrier"  BY <1>6, <2>1
      <4> QED  BY <1>8, <4>1
    <3>2. i - n \in 1 .. m /\ queue'[i] = writes[i - n]  BY <1>7, <3>1
    <3>3. queue'[i].entry.id = Current'  BY <2>1, <3>2 DEF m
    <3>4. ~(syncing /\ i = 1)
      <4>1. syncing => queue # <<>>  BY <1>1 DEF AwaitInv
      <4>2. syncing => 1 \in 1 .. n  BY <1>3, <1>4, <4>1 DEF n
      <4> QED  BY <3>1, <4>2
    <3> QED  BY <3>3, <3>4
  <2> QED  BY <1>5, <2>1 DEF BarrierInv
<1>12. RanIsRecorded'  BY <1>1 DEF RanIsRecorded
<1>13. AdoptInv'  BY DEF AdoptInv
<1>14. AutoInv'
  <2> SUFFICES ASSUME used.faults = 0 PROVE CapInv'  BY DEF AutoInv
  <2>1. CapInv  BY <1>1 DEF AutoInv
  <2>2. \A k : AutosOf(k)' = AutosOf(k)  BY DEF AutosOf
  <2>3. autos' <= autos /\ autos' \in Nat /\ autos \in Nat  BY <1>1 DEF Typed
  <2>4. autos' <= AutoCap  BY <2>1, <2>3, DurabilityAssumption DEF CapInv
  <2>5. ASSUME NEW k \in synced' .. Len(disk') PROVE autos' <= Cardinality(AutosOf(k)')
    <3>1. autos <= Cardinality(AutosOf(k))  BY <2>1 DEF CapInv
    <3>2. Cardinality(AutosOf(k)) \in Nat
      <4>1. k \in Nat /\ AutosOf(k) \subseteq 1 .. k  BY <1>1 DEF AutosOf, Typed
      <4>2. 1 \in Int /\ k \in Int  BY <4>1
      <4>3. IsFiniteSet(1 .. k)  BY <4>2, FS_Interval
      <4> QED  BY <4>1, <4>3, FS_Subset, FS_CardinalityType
    <3> QED  BY <2>2, <2>3, <3>1, <3>2
  <2>6. autos' > 0 => \A i \in 1 .. n + m : ~IsProgress(queue'[i].entry)
    <3> SUFFICES ASSUME autos' > 0, NEW i \in 1 .. n + m PROVE ~IsProgress(queue'[i].entry)
      OBVIOUS
    <3>1. autos' = autos /\ \A j \in 1 .. m : ~IsProgress(writes[j].entry)  BY DEF m
    <3>2. \A j \in 1 .. n : ~IsProgress(queue[j].entry)  BY <2>1, <3>1 DEF CapInv, n
    <3> QED  BY <1>6, <1>7, <3>1, <3>2
  <2>7. \A i \in 1 .. n + m : queue'[i].for # "resume"
    <3> SUFFICES ASSUME NEW i \in 1 .. n + m, queue'[i].for = "resume" PROVE FALSE  OBVIOUS
    <3>1. CASE i \in 1 .. n  BY <1>6, <1>8, <3>1
    <3>2. CASE i \notin 1 .. n
      <4>1. i - n \in 1 .. m /\ queue'[i] = writes[i - n]  BY <1>7, <3>2
      <4> QED  BY <4>1 DEF m
    <3> QED  BY <3>1, <3>2
  <2>8. ~torn'  BY <2>1 DEF CapInv
  <2> QED  BY <1>5, <2>2, <2>4, <2>5, <2>6, <2>7, <2>8 DEF CapInv, IsProgress, FromHarness
<1> QED  BY <1>2, <1>5, <1>10, <1>11, <1>12, <1>13, <1>14

LEMMA NewMessage ==
  ASSUME NEW e \in Messages, e.note # "notStarted", e.calls \subseteq 1 .. used'.calls
  PROVE  e \in SoundMessages'
BY DEF SoundMessages, Sound, Known, Backed

LEMMA NewWrite ==
  ASSUME NEW w \in Writes, w.entry.note # "notStarted", w.entry.calls \subseteq 1 .. used'.calls,
         w.entry.src = "started" <=> w.for = "barrier",
         w.for # "nobody" => w.fsync, w.for = "resume" => w.entry.src = "resume"
  PROVE  w \in SoundWrites'
BY DEF SoundWrites, Sound, Known, Backed

LEMMA PlainWrite ==
  ASSUME NEW e \in SoundMessages'
  PROVE  Plain(e) \in SoundWrites' /\ Plain(e).for = "nobody" /\ Plain(e).entry = e
<1>1. e \in Entries /\ e.src \in Conversation  BY DEF SoundMessages, Messages, IsMessage
<1>2. Plain(e) \in Writes  BY <1>1 DEF Plain, Writes, Waiters
<1> QED  BY <1>1, <1>2 DEF Plain, SoundWrites, SoundMessages, Sound, Known, Backed, Conversation

LEMMA LoggedWrites ==
  ASSUME NEW messages \in Seq(SoundMessages')
  PROVE  /\ Logged(messages) \in Seq(SoundWrites')
         /\ Len(Logged(messages)) = Len(messages)
         /\ \A i \in 1 .. Len(messages) :
              Logged(messages)[i].for = "nobody" /\ Logged(messages)[i].entry = messages[i]
<1>1. Len(messages) \in Nat /\ DOMAIN messages = 1 .. Len(messages)  OBVIOUS
<1>2. Logged(messages) = [i \in 1 .. Len(messages) |-> Plain(messages[i])]  BY <1>1 DEF Logged
<1>3. \A i \in 1 .. Len(messages) : messages[i] \in SoundMessages'  OBVIOUS
<1>4. \A i \in 1 .. Len(messages) :
        /\ Plain(messages[i]) \in SoundWrites'
        /\ Plain(messages[i]).for = "nobody" /\ Plain(messages[i]).entry = messages[i]
  BY <1>3, PlainWrite
<1> QED  BY <1>1, <1>2, <1>4

(* Messages join the context and are queued, and one more write may follow. *)
Closes(last) ==
  /\ last \in Seq(SoundWrites') /\ Len(last) <= 1
  /\ \A i \in 1 .. Len(last) :
       /\ ~IsProgress(last[i].entry)
       /\ last[i].for # "nobody" =>
            /\ last[i].for \in Awaits' /\ last[i].for # "resume"
            /\ last[i].for = "barrier" => last[i].entry.id = Current'

LEMMA TalkKeeps ==
  ASSUME IInv, Writing, Typed', TurnInv', phase # "ending",
         NEW messages \in Seq(SoundMessages'), ctx' = ctx \o messages,
         NEW last, Closes(last), queue' = queue \o (Logged(messages) \o last),
         autos' = 0 \/ (autos' = autos /\ messages = <<>>)
  PROVE  IInv'
<1> DEFINE logged == Logged(messages)
           writes == logged \o last
           m == Len(messages)
           k == Len(last)
<1>1. /\ logged \in Seq(SoundWrites') /\ Len(logged) = m
      /\ \A i \in 1 .. m : logged[i].for = "nobody" /\ logged[i].entry = messages[i]
  BY LoggedWrites
<1>0. /\ last \in Seq(SoundWrites') /\ k <= 1
      /\ \A i \in 1 .. k :
           /\ ~IsProgress(last[i].entry)
           /\ last[i].for # "nobody" =>
                /\ last[i].for \in Awaits' /\ last[i].for # "resume"
                /\ last[i].for = "barrier" => last[i].entry.id = Current'
  BY DEF Closes
<1>2. m \in Nat /\ k \in Nat  BY <1>0
<1> HIDE DEF logged
<1>3. /\ writes \in Seq(SoundWrites') /\ Len(writes) = m + k
      /\ \A i \in 1 .. m + k : writes[i] = IF i <= m THEN logged[i] ELSE last[i - m]
  BY <1>0, <1>1, ConcatProperties
<1>4. queue' = queue \o writes  BY DEF logged
<1> HIDE DEF writes, m, k
<1>5. ASSUME NEW i \in 1 .. m + k
      PROVE  \/ i \in 1 .. m /\ writes[i].for = "nobody" /\ writes[i].entry = messages[i]
             \/ i = m + k /\ k = 1 /\ writes[i] = last[1]
  <2>1. CASE i <= m
    <3>1. i \in 1 .. m  BY <1>2, <2>1
    <3> QED  BY <1>1, <1>3, <2>1, <3>1
  <2>2. CASE ~(i <= m)
    <3>1. k = 1 /\ i = m + k /\ i - m = 1  BY <1>0, <1>2, <2>2
    <3> QED  BY <1>3, <2>2, <3>1
  <2> QED  BY <2>1, <2>2
<1>6. \A i \in 1 .. Len(writes) : writes[i].for # "nobody" =>
        /\ i = Len(writes) /\ writes[i].for \in Awaits' /\ writes[i].for # "resume"
        /\ writes[i].for = "barrier" => writes[i].entry.id = Current'
  BY <1>0, <1>3, <1>5
<1>7. autos' = 0 \/ (autos' = autos /\ \A j \in 1 .. Len(writes) : ~IsProgress(writes[j].entry))
  <2> SUFFICES ASSUME autos' # 0, NEW j \in 1 .. Len(writes) PROVE ~IsProgress(writes[j].entry)
    OBVIOUS
  <2>1. m = 0  BY DEF m
  <2>2. k = 1 /\ writes[j] = last[1]  BY <1>3, <1>5, <2>1
  <2> QED  BY <1>0, <2>2
<1>8. /\ SoundMessages \subseteq SoundMessages'
      /\ \A i \in 1 .. Len(disk') : (Known(disk[i]) /\ Backed(disk[i], i))'
      /\ queue' \in Seq(SoundWrites')
      /\ AwaitInv' /\ BarrierInv' /\ RanIsRecorded' /\ AdoptInv' /\ AutoInv'
  BY <1>3, <1>4, <1>6, <1>7, DispatchKeeps
<1>9. ctx \in Seq(SoundMessages')  BY <1>8, SeqMonotonic DEF IInv, LogInv
<1>10. ctx' \in Seq(SoundMessages')  BY <1>9, ConcatProperties
<1>11. LogInv'  BY <1>8, <1>10 DEF LogInv
<1> QED  BY <1>8, <1>11 DEF IInv

-----------------------------------------------------------------------------
(* Turns.                                                                  *)

LEMMA EntriesAre ==
  /\ \A id \in Nat : Entry("input", id) \in Messages
  /\ \A id \in Nat, src \in Bookkeeping : Entry(src, id) \in Entries
  /\ \A calls \in SUBSET Calls : AssistantEntry(calls) \in Messages
  /\ \A id \in Nat : ResultEntry(id, "tool") \in Messages
BY DEF Entry, AssistantEntry, ResultEntry, Messages, Entries, IsMessage, Conversation,
       Bookkeeping, Notes, Synthesized

LEMMA ResultIsSound ==
  ASSUME NEW id \in Nat
  PROVE  ResultEntry(id, "tool") \in SoundMessages'
<1>1. ResultEntry(id, "tool") \in Messages  BY EntriesAre
<1>2. ResultEntry(id, "tool").note # "notStarted" /\ ResultEntry(id, "tool").calls = {}
  BY DEF ResultEntry
<1> QED  BY <1>1, <1>2, NewMessage

LEMMA InputIsSound ==
  ASSUME NEW id \in Nat
  PROVE  Entry("input", id) \in SoundMessages'
<1>1. Entry("input", id) \in Messages  BY EntriesAre
<1>2. Entry("input", id).note # "notStarted" /\ Entry("input", id).calls = {}
  BY DEF Entry
<1> QED  BY <1>1, <1>2, NewMessage

LEMMA NothingCloses == Closes(<<>>)
BY DEF Closes

(* A record of the log that somebody may wait for.                         *)
LEMMA RecordCloses ==
  ASSUME NEW src \in Bookkeeping \ {"resume"}, NEW id \in Nat, NEW for \in Waiters \ {"resume"},
         src = "started" <=> for = "barrier",
         for # "nobody" => for \in Awaits', for = "barrier" => id = Current'
  PROVE  Closes(<<Durable(Entry(src, id), for)>>)
<1> DEFINE w == Durable(Entry(src, id), for)
<1>1. w \in Writes  BY EntriesAre DEF Durable, Writes
<1>2. /\ w.entry.note # "notStarted" /\ w.entry.calls = {} /\ w.entry.src = src /\ w.entry.id = id
      /\ w.for = for /\ w.fsync
  BY DEF Durable, Entry
<1>3. w \in SoundWrites'  BY <1>1, <1>2, NewWrite
<1>4. ~IsProgress(w.entry)  BY <1>2 DEF IsProgress, Bookkeeping, Conversation
<1> HIDE DEF w
<1>5. <<w>> \in Seq(SoundWrites') /\ Len(<<w>>) = 1 /\ <<w>>[1] = w  BY <1>3
<1>6. \A i \in 1 .. Len(<<w>>) : <<w>>[i] = w  BY <1>5
<1>7. Closes(<<w>>)  BY <1>2, <1>4, <1>5, <1>6 DEF Closes
<1> QED  BY <1>7 DEF w

LEMMA DismissedIsIn ==
  ASSUME Typed
  PROVE  Dismissed \in Seq(SoundMessages')
<1>1. Len(held) \in Nat /\ DOMAIN held = 1 .. Len(held)  BY DEF Typed
<1>2. \A i \in 1 .. Len(held) : held[i] \in Nat  BY DEF Typed
<1>3. \A i \in 1 .. Len(held) : ResultEntry(held[i], "tool") \in SoundMessages'
  BY <1>2, ResultIsSound
<1> QED  BY <1>1, <1>3 DEF Dismissed

LEMMA SendPromptKeeps == IInv /\ SendPrompt => IInv'
<1> SUFFICES ASSUME IInv, SendPrompt PROVE IInv'  OBVIOUS
<1>1. Typed /\ TurnInv  BY DEF IInv
<1> DEFINE messages == Append(Dismissed, Entry("input", used'.prompts))
           last == <<Durable(Entry("turnStarted", 0), "turnStart")>>
<1>2. /\ used' \in [{"prompts", "calls", "replies", "cuts", "faults", "crashes"} -> Nat]
      /\ used'.calls = used.calls /\ used'.faults = used.faults /\ used.calls \in Nat
      /\ used'.prompts \in Nat
  BY <1>1 DEF SendPrompt, Spend, Typed
<1>3. /\ phase = "idle" /\ phase' = "start" /\ autos' = 0 /\ held' = <<>>
      /\ ctx' = ctx \o messages /\ queue' = queue \o (Logged(messages) \o last)
      /\ UNCHANGED <<disk, synced, torn, syncing, ran, merged, todo, waits, clearing, openTurn>>
  BY DEF SendPrompt, BeginTurn, Dispatch, fileVars
<1>4. messages \in Seq(SoundMessages')
  BY <1>1, <1>2, DismissedIsIn, InputIsSound, AppendProperties
<1>5. Typed'  BY <1>1, <1>2, <1>3 DEF Typed, Phases, Running
<1>6. TurnInv'  BY <1>1, <1>2, <1>3 DEF TurnInv, Calling
<1>7. Writing  BY <1>2, <1>3 DEF Writing
<1>8. Closes(last)
  <2>1. "turnStart" \in Awaits'  BY <1>3 DEF Awaits, AwaitedIn, Handlers, Waiters
  <2> QED  BY <2>1, RecordCloses DEF Bookkeeping, Waiters
<1>9. phase # "ending"  BY <1>3
<1> HIDE DEF messages, last
<1> QED  BY <1>3, <1>4, <1>5, <1>6, <1>7, <1>8, <1>9, TalkKeeps

LEMMA SendRejectedKeeps == IInv /\ SendRejected => IInv'
<1> SUFFICES ASSUME IInv, SendRejected PROVE IInv'  OBVIOUS
<1>1. Typed /\ TurnInv  BY DEF IInv
<1>2. /\ phase = "idle" /\ phase' = "idle" /\ autos' = 0 /\ held' = <<>>
      /\ ctx' = ctx \o Dismissed /\ queue' = queue \o Logged(Dismissed)
      /\ UNCHANGED <<disk, synced, torn, syncing, ran, merged, todo, waits, clearing, openTurn, used>>
  BY DEF SendRejected, Dispatch, fileVars, turnVars
<1>3. Dismissed \in Seq(SoundMessages')  BY <1>1, DismissedIsIn
<1>4. Logged(Dismissed) \o <<>> = Logged(Dismissed)  BY <1>3, LoggedWrites, ConcatEmptySeq
<1>5. Typed'  BY <1>1, <1>2 DEF Typed, Phases, Running
<1>6. TurnInv'  BY <1>1, <1>2 DEF TurnInv, Calling
<1>7. Writing  BY <1>1, <1>2 DEF Writing, Typed
<1>8. phase # "ending" /\ queue' = queue \o (Logged(Dismissed) \o <<>>)  BY <1>2, <1>4
<1> QED  BY <1>2, <1>3, <1>5, <1>6, <1>7, <1>8, NothingCloses, TalkKeeps

(* A step that says nothing adds no message.                               *)
LEMMA Silence ==
  ASSUME IInv
  PROVE  /\ <<>> \in Seq(SoundMessages') /\ ctx = ctx \o <<>>
         /\ \A last : Closes(last) => last = Logged(<<>>) \o last
<1>1. ctx \in Seq(SoundMessages)  BY DEF IInv, LogInv
<1>2. Logged(<<>>) = <<>>  BY DEF Logged
<1>3. ASSUME NEW last, Closes(last) PROVE last = Logged(<<>>) \o last
  <2>1. last \in Seq(SoundWrites')  BY <1>3 DEF Closes
  <2> QED  BY <1>2, <2>1, ConcatEmptySeq
<1> QED  BY <1>1, <1>3, ConcatEmptySeq

LEMMA ContinueTurnKeeps == IInv /\ ContinueTurn => IInv'
<1> SUFFICES ASSUME IInv, ContinueTurn PROVE IInv'  OBVIOUS
<1>1. Typed /\ TurnInv  BY DEF IInv
<1> DEFINE last == <<Durable(Entry("turnStarted", 0), "turnStart")>>
<1>2. /\ phase = "idle" /\ phase' = "start"
      /\ ctx' = ctx \o <<>> /\ queue' = queue \o (Logged(<<>>) \o last)
      /\ UNCHANGED <<disk, synced, torn, syncing, ran, merged, todo, waits, clearing, openTurn,
                     used, held, autos>>
  BY DEF ContinueTurn, BeginTurn, Dispatch, fileVars
<1>3. Typed'  BY <1>1, <1>2 DEF Typed, Phases, Running
<1>4. TurnInv'  BY <1>1, <1>2 DEF TurnInv, Calling
<1>5. Writing  BY <1>1, <1>2 DEF Writing, Typed
<1>6. Closes(last)
  <2>1. "turnStart" \in Awaits'  BY <1>2 DEF Awaits, AwaitedIn, Handlers, Waiters
  <2> QED  BY <2>1, RecordCloses DEF Bookkeeping, Waiters
<1>7. phase # "ending"  BY <1>2
<1> HIDE DEF last
<1> QED  BY <1>2, <1>3, <1>4, <1>5, <1>6, <1>7, Silence, TalkKeeps

LEMMA EndTurnIs ==
  ASSUME NEW logged, EndTurn(logged)
  PROVE  LET last == <<Durable(Entry("turnEnd", 0), "turnEnd")>>
         IN  /\ queue' = queue \o (logged \o last) /\ Closes(last) /\ syncing' = syncing
             /\ phase' = "ending" /\ clearing' \in BOOLEAN /\ (clearing' => "clear" \in waits')
             /\ waits' \subseteq Handlers
<1>1. /\ phase' = "ending" /\ "turnEnd" \in waits' /\ waits' \subseteq Handlers
      /\ clearing' \in BOOLEAN /\ (clearing' => "clear" \in waits')
  BY DEF EndTurn, Handlers
<1>2. "turnEnd" \in Awaits'  BY <1>1 DEF Awaits, AwaitedIn, Handlers, Waiters
<1>3. Closes(<<Durable(Entry("turnEnd", 0), "turnEnd")>>)
  BY <1>2, RecordCloses DEF Bookkeeping, Waiters
<1> QED  BY <1>1, <1>3 DEF EndTurn, Dispatch

LEMMA LlmFailsKeeps == IInv /\ LlmFails => IInv'
<1> SUFFICES ASSUME IInv, LlmFails PROVE IInv'  OBVIOUS
<1>1. Typed /\ TurnInv  BY DEF IInv
<1> DEFINE last == <<Durable(Entry("turnEnd", 0), "turnEnd")>>
<1>2. /\ phase = "llm" /\ EndTurn(<<>>)
      /\ UNCHANGED <<disk, synced, torn, ran, merged, todo, openTurn, used, held, ctx, autos>>
  BY DEF LlmFails, fileVars, memoryVars
<1>3. /\ queue' = queue \o (<<>> \o last) /\ Closes(last) /\ syncing' = syncing
      /\ phase' = "ending" /\ clearing' \in BOOLEAN /\ (clearing' => "clear" \in waits')
      /\ waits' \subseteq Handlers
  BY <1>2, EndTurnIs
<1>4. Typed'  BY <1>1, <1>2, <1>3 DEF Typed, Phases, Running, Handlers
<1>5. TurnInv'  BY <1>1, <1>2, <1>3 DEF TurnInv, Calling
<1>6. Writing  BY <1>1, <1>2, <1>3 DEF Writing, Typed
<1>7. queue' = queue \o (Logged(<<>>) \o last)
  <2>1. Logged(<<>>) = <<>>  BY DEF Logged
  <2> QED  BY <1>3, <2>1
<1>8. phase # "ending" /\ autos' = autos /\ ctx' = ctx \o <<>>  BY <1>2, Silence
<1> HIDE DEF last
<1> QED  BY <1>3, <1>4, <1>5, <1>6, <1>7, <1>8, Silence, TalkKeeps

LEMMA LlmRepliesKeeps == IInv /\ LlmReplies => IInv'
<1> SUFFICES ASSUME IInv, LlmReplies PROVE IInv'  OBVIOUS
<1>1. Typed /\ TurnInv /\ used.calls \in Nat  BY DEF IInv, Typed
<1>2. PICK n \in 0 .. MaxCalls - used.calls :
        LET calls == used.calls + 1 .. used.calls + n
            reply == <<AssistantEntry(calls)>>
        IN  /\ ctx' = ctx \o reply
            /\ used' = [used EXCEPT !.calls = @ + n, !.replies = @ + 1]
            /\ todo' = calls
            /\ \/ n = 0 /\ EndTurn(Logged(reply))
               \/ /\ n > 0 /\ phase' = "call" /\ Dispatch(Logged(reply))
                  /\ UNCHANGED <<waits, clearing>>
  BY DEF LlmReplies
<1> DEFINE calls == used.calls + 1 .. used.calls + n
           reply == <<AssistantEntry(calls)>>
           last == <<Durable(Entry("turnEnd", 0), "turnEnd")>>
<1>3. /\ phase = "llm" /\ autos' = 0
      /\ ctx' = ctx \o reply /\ used' = [used EXCEPT !.calls = @ + n, !.replies = @ + 1]
      /\ todo' = calls
      /\ UNCHANGED <<disk, synced, torn, ran, merged, openTurn, held>>
  BY <1>2 DEF LlmReplies, fileVars
<1>4. n \in Nat /\ calls \in SUBSET Calls /\ MaxCalls \in Nat
  <2>1. MaxCalls \in Nat  BY DurabilityAssumption
  <2>2. n \in Nat /\ used.calls + n <= MaxCalls  BY <1>1, <1>2, <2>1
  <2> QED  BY <1>1, <2>1, <2>2 DEF Calls
<1>5. /\ used' \in [{"prompts", "calls", "replies", "cuts", "faults", "crashes"} -> Nat]
      /\ used'.calls = used.calls + n /\ used'.faults = used.faults
  <2> DEFINE K == {"prompts", "calls", "replies", "cuts", "faults", "crashes"}
  <2>1. used \in [K -> Nat] /\ "calls" \in K /\ "replies" \in K  BY <1>1 DEF Typed
  <2>2. used.calls + n \in Nat /\ used.replies + 1 \in Nat  BY <1>4, <2>1
  <2>3. used' = [[used EXCEPT !.calls = used.calls + n] EXCEPT !.replies = used.replies + 1]
    BY <1>3, <2>1
  <2> QED  BY <2>1, <2>2, <2>3
<1>6. reply \in Seq(SoundMessages')
  <2> DEFINE e == AssistantEntry(calls)
  <2>1. e \in Messages  BY <1>4, EntriesAre
  <2>2. e.note = "none" /\ e.calls = calls  BY DEF AssistantEntry
  <2>3. calls \subseteq 1 .. used'.calls  BY <1>1, <1>4, <1>5
  <2>4. e \in SoundMessages'  BY <2>1, <2>2, <2>3, NewMessage
  <2> QED  BY <2>4
<1>7. ASSUME syncing' = syncing, phase' \notin {"gate", "adopting"} PROVE Writing
  BY <1>1, <1>3, <1>4, <1>5, <1>7 DEF Writing
<1>8. phase # "ending"  BY <1>3
<1>9. CASE n = 0 /\ EndTurn(Logged(reply))
  <2>1. /\ queue' = queue \o (Logged(reply) \o last) /\ Closes(last) /\ syncing' = syncing
        /\ phase' = "ending" /\ clearing' \in BOOLEAN /\ (clearing' => "clear" \in waits')
        /\ waits' \subseteq Handlers
    BY <1>9, EndTurnIs
  <2>2. calls = {}  BY <1>1, <1>9
  <2>3. Typed'  BY <1>1, <1>3, <1>4, <1>5, <2>1 DEF Typed, Phases, Running, Handlers
  <2>4. TurnInv'  BY <1>3, <2>1, <2>2 DEF TurnInv, Calling
  <2>5. Writing  BY <1>7, <2>1
  <2> HIDE DEF reply, last
  <2> QED  BY <1>3, <1>6, <1>8, <2>1, <2>3, <2>4, <2>5, TalkKeeps
<1>10. CASE n > 0 /\ phase' = "call" /\ Dispatch(Logged(reply)) /\ UNCHANGED <<waits, clearing>>
  <2>1. queue' = queue \o Logged(reply) /\ syncing' = syncing  BY <1>10 DEF Dispatch
  <2>2. Logged(reply) \o <<>> = Logged(reply)  BY <1>6, LoggedWrites, ConcatEmptySeq
  <2>3. used.calls + 1 \in calls  BY <1>1, <1>4, <1>10
  <2>4. Typed'  BY <1>1, <1>3, <1>4, <1>5, <1>10, <2>1 DEF Typed, Phases, Running
  <2>5. TurnInv'
    <3>1. calls # {} /\ calls \subseteq 1 .. used'.calls  BY <1>1, <1>4, <1>5, <2>3
    <3>2. ~clearing'  BY <1>1, <1>3, <1>10 DEF TurnInv
    <3> QED  BY <1>3, <1>10, <3>1, <3>2 DEF TurnInv, Calling
  <2>6. Writing  BY <1>7, <1>10, <2>1
  <2>7. queue' = queue \o (Logged(reply) \o <<>>)  BY <2>1, <2>2
  <2> HIDE DEF reply
  <2> QED  BY <1>3, <1>6, <1>8, <2>4, <2>5, <2>6, <2>7, NothingCloses, TalkKeeps
<1> QED  BY <1>2, <1>9, <1>10

-----------------------------------------------------------------------------
(* Tool calls.                                                             *)

LEMMA DispatchCallKeeps == IInv /\ DispatchCall => IInv'
<1> SUFFICES ASSUME IInv, DispatchCall PROVE IInv'  OBVIOUS
<1>1. Typed /\ TurnInv  BY DEF IInv
<1> DEFINE last == <<Durable(Entry("started", Current), "barrier")>>
<1>2. /\ phase = "call" /\ phase' = "barrier" /\ queue' = queue \o last
      /\ UNCHANGED <<disk, synced, torn, syncing, ran, merged, todo, waits, clearing, openTurn,
                     used, held, autos, ctx>>
  BY DEF DispatchCall, Dispatch, fileVars, memoryVars, history
<1>3. Typed'  BY <1>1, <1>2 DEF Typed, Phases, Running
<1>4. TurnInv'  BY <1>1, <1>2 DEF TurnInv, Calling
<1>5. Writing  BY <1>1, <1>2 DEF Writing, Typed
<1>6. Closes(last)
  <2>1. "barrier" \in Awaits'  BY <1>2 DEF Awaits, AwaitedIn, Handlers, Waiters
  <2>2. Current \in Nat  BY <1>1, <1>2, CurrentIsCall DEF Calling
  <2>3. Current' = Current  BY <1>2 DEF Current
  <2> QED  BY <2>1, <2>2, <2>3, RecordCloses DEF Bookkeeping, Waiters
<1>7. phase # "ending"  BY <1>2
<1> HIDE DEF last
<1>8. queue' = queue \o (Logged(<<>>) \o last) /\ ctx' = ctx \o <<>>
  BY <1>2, <1>6, Silence
<1> QED  BY <1>2, <1>3, <1>4, <1>5, <1>6, <1>7, <1>8, Silence, TalkKeeps

LEMMA AskQuestionKeeps == IInv /\ AskQuestion => IInv'
<1> SUFFICES ASSUME IInv, AskQuestion PROVE IInv'  OBVIOUS
<1>1. Typed /\ TurnInv  BY DEF IInv
<1> DEFINE last == <<Durable(Entry("asked", Current), "nobody")>>
<1>2. /\ phase = "exec" /\ phase' = "asked" /\ queue' = queue \o last
      /\ UNCHANGED <<disk, synced, torn, syncing, ran, merged, todo, waits, clearing, openTurn,
                     used, held, autos, ctx>>
  BY DEF AskQuestion, Dispatch, fileVars, memoryVars, history
<1>3. Typed'  BY <1>1, <1>2 DEF Typed, Phases, Running
<1>4. TurnInv'  BY <1>1, <1>2 DEF TurnInv, Calling
<1>5. Writing  BY <1>1, <1>2 DEF Writing, Typed
<1>6. Closes(last)
  <2>1. Current \in Nat  BY <1>1, <1>2, CurrentIsCall DEF Calling
  <2> QED  BY <2>1, RecordCloses DEF Bookkeeping, Waiters
<1>7. phase # "ending"  BY <1>2
<1> HIDE DEF last
<1>8. queue' = queue \o (Logged(<<>>) \o last) /\ ctx' = ctx \o <<>>
  BY <1>2, <1>6, Silence
<1> QED  BY <1>2, <1>3, <1>4, <1>5, <1>6, <1>7, <1>8, Silence, TalkKeeps

(* A result, or when the loop stops the results of all calls that are left. *)
LEMMA AnsweredKeeps ==
  ASSUME IInv, phase \in Calling \ {"barrier"}, NEW stop \in BOOLEAN, Answered(stop),
         UNCHANGED <<fileVars, openTurn, held, used, ran, merged>>
  PROVE  IInv'
<1>1. Typed /\ TurnInv  BY DEF IInv
<1> DEFINE answers == IF stop THEN InOrder(todo) ELSE <<Current>>
           results == [i \in DOMAIN answers |-> ResultEntry(answers[i], "tool")]
           last == <<Durable(Entry("turnEnd", 0), "turnEnd")>>
<1>2. /\ ctx' = ctx \o results /\ autos' = 0
      /\ todo' = IF stop THEN {} ELSE todo \ {Current}
      /\ \/ stop /\ EndTurn(Logged(results))
         \/ /\ ~stop /\ Dispatch(Logged(results))
            /\ phase' = IF todo' = {} THEN "llm" ELSE "call"
            /\ UNCHANGED <<waits, clearing>>
  BY DEF Answered
<1>3. UNCHANGED <<disk, synced, torn, openTurn, held, used, ran, merged>>  BY DEF fileVars
<1>4. Current \in Nat  BY <1>1, CurrentIsCall
<1>5. results \in Seq(SoundMessages')
  <2>1. CASE stop
    <3>1. IsFiniteSet(todo)
      <4>1. MaxCalls \in Nat /\ 1 \in Int /\ MaxCalls \in Int  BY DurabilityAssumption
      <4>2. IsFiniteSet(Calls)  BY <4>1, FS_Interval DEF Calls
      <4> QED  BY <1>1, <4>2, FS_Subset DEF Typed
    <3>2. Cardinality(todo) \in Nat  BY <3>1, FS_CardinalityType
    <3>3. answers = [n \in 1 .. Cardinality(todo) |-> Current + n - 1]
      BY <2>1 DEF InOrder, Current
    <3>4. \A n \in 1 .. Cardinality(todo) : Current + n - 1 \in Nat  BY <1>4, <3>2
    <3>5. \A n \in 1 .. Cardinality(todo) :
            ResultEntry(Current + n - 1, "tool") \in SoundMessages'
      BY <3>4, ResultIsSound
    <3>6. results = [n \in 1 .. Cardinality(todo) |-> ResultEntry(Current + n - 1, "tool")]
      BY <3>3
    <3> HIDE DEF results, answers
    <3> QED  BY <3>2, <3>5, <3>6
  <2>2. CASE ~stop
    <3>1. ResultEntry(Current, "tool") \in SoundMessages'  BY <1>4, ResultIsSound
    <3>2. answers = <<Current>>  BY <2>2
    <3>3. results = <<ResultEntry(Current, "tool")>>  BY <3>2
    <3> HIDE DEF results, answers
    <3> QED  BY <3>1, <3>3
  <2> QED  BY <2>1, <2>2
<1> HIDE DEF answers, results
<1>6. todo' \subseteq todo  BY <1>2
<1>7. phase # "ending"  BY DEF Calling
<1>8. ASSUME syncing' = syncing, phase' \notin {"gate", "adopting"} PROVE Writing
  BY <1>1, <1>3, <1>6, <1>8 DEF Writing, Typed, Calling
<1>9. CASE stop /\ EndTurn(Logged(results))
  <2>1. /\ queue' = queue \o (Logged(results) \o last) /\ Closes(last) /\ syncing' = syncing
        /\ phase' = "ending" /\ clearing' \in BOOLEAN /\ (clearing' => "clear" \in waits')
        /\ waits' \subseteq Handlers
    BY <1>9, EndTurnIs
  <2>2. Typed'  BY <1>1, <1>2, <1>3, <1>6, <2>1 DEF Typed, Phases, Running, Handlers
  <2>3. TurnInv'  BY <1>2, <1>9, <2>1 DEF TurnInv, Calling
  <2>4. Writing  BY <1>8, <2>1
  <2> HIDE DEF last
  <2> QED  BY <1>2, <1>5, <1>7, <2>1, <2>2, <2>3, <2>4, TalkKeeps
<1>10. CASE /\ ~stop /\ Dispatch(Logged(results))
            /\ phase' = IF todo' = {} THEN "llm" ELSE "call"
            /\ UNCHANGED <<waits, clearing>>
  <2>1. queue' = queue \o Logged(results) /\ syncing' = syncing  BY <1>10 DEF Dispatch
  <2>2. Logged(results) \o <<>> = Logged(results)  BY <1>5, LoggedWrites, ConcatEmptySeq
  <2>3. Typed'  BY <1>1, <1>2, <1>3, <1>6, <1>10, <2>1 DEF Typed, Phases, Running
  <2>4. TurnInv'
    <3>1. todo' \subseteq 1 .. used'.calls  BY <1>1, <1>3, <1>6 DEF TurnInv
    <3>2. ~clearing'  BY <1>1, <1>7, <1>10 DEF TurnInv
    <3> QED  BY <1>10, <3>1, <3>2 DEF TurnInv, Calling
  <2>5. Writing  BY <1>8, <1>10, <2>1
  <2>6. queue' = queue \o (Logged(results) \o <<>>)  BY <2>1, <2>2
  <2> QED  BY <1>2, <1>5, <1>7, <2>3, <2>4, <2>5, <2>6, NothingCloses, TalkKeeps
<1> QED  BY <1>2, <1>9, <1>10

LEMMA AnswerUnrunKeeps == IInv /\ AnswerUnrun => IInv'
<1> SUFFICES ASSUME IInv, AnswerUnrun PROVE IInv'  OBVIOUS
<1>1. phase \in Calling \ {"barrier"}  BY DEF AnswerUnrun, Calling
<1>2. Answered(FALSE)  BY DEF AnswerUnrun
<1>3. UNCHANGED <<fileVars, openTurn, held, used, ran, merged>>  BY DEF AnswerUnrun
<1> QED  BY <1>1, <1>2, <1>3, AnsweredKeeps

LEMMA ToolReturnsKeeps == IInv /\ ToolReturns => IInv'
<1> SUFFICES ASSUME IInv, ToolReturns PROVE IInv'  OBVIOUS
<1>1. phase \in Calling \ {"barrier"}  BY DEF ToolReturns, Calling
<1>2. PICK stop \in BOOLEAN : Answered(stop)  BY DEF ToolReturns
<1>3. UNCHANGED <<fileVars, openTurn, held, used, ran, merged>>  BY DEF ToolReturns
<1> QED  BY <1>1, <1>2, <1>3, AnsweredKeeps

LEMMA AnswerHeldKeeps == IInv /\ AnswerHeld => IInv'
<1> SUFFICES ASSUME IInv, AnswerHeld PROVE IInv'  OBVIOUS
<1>1. Typed /\ TurnInv  BY DEF IInv
<1> DEFINE result == <<ResultEntry(Head(held), "tool")>>
<1>2. /\ phase = "idle" /\ phase' = "idle" /\ held # <<>> /\ held' = Tail(held) /\ autos' = 0
      /\ ctx' = ctx \o result /\ queue' = queue \o Logged(result)
      /\ UNCHANGED <<disk, synced, torn, syncing, ran, merged, todo, waits, clearing, openTurn, used>>
  BY DEF AnswerHeld, Dispatch, fileVars
<1>3. Head(held) \in Nat /\ Tail(held) \in Seq(Nat)  BY <1>1, <1>2, HeadTailProperties DEF Typed
<1>4. result \in Seq(SoundMessages')  BY <1>3, ResultIsSound
<1> HIDE DEF result
<1>5. Logged(result) \o <<>> = Logged(result)  BY <1>4, LoggedWrites, ConcatEmptySeq
<1>6. Typed'  BY <1>1, <1>2, <1>3 DEF Typed, Phases, Running
<1>7. TurnInv'  BY <1>1, <1>2 DEF TurnInv, Calling
<1>8. Writing  BY <1>1, <1>2 DEF Writing, Typed
<1>9. phase # "ending" /\ queue' = queue \o (Logged(result) \o <<>>)  BY <1>2, <1>5
<1> QED  BY <1>2, <1>4, <1>6, <1>7, <1>8, <1>9, NothingCloses, TalkKeeps

LEMMA ExecuteKeeps == IInv /\ Execute => IInv'
<1> SUFFICES ASSUME IInv, Execute PROVE IInv'  OBVIOUS
<1>1. /\ Typed /\ TurnInv /\ LogInv /\ AwaitInv /\ BarrierInv /\ RanIsRecorded
      /\ AdoptInv /\ AutoInv
  BY DEF IInv
<1>2. /\ phase = "gate" /\ Current \notin failed /\ phase' = "exec" /\ ran' = ran \cup {Current}
      /\ UNCHANGED <<disk, synced, torn, queue, syncing, todo, waits, clearing, ctx, openTurn, held,
                     used, merged, autos>>
  BY DEF Execute, fileVars, writerVars, memoryVars
<1>3. Current \in todo /\ Current \in Calls  BY <1>1, <1>2, CurrentIsCall DEF Calling
<1>4. Typed'  BY <1>1, <1>2 DEF Typed, Phases, Running
<1>5. TurnInv'  BY <1>1, <1>2 DEF TurnInv, Calling
<1>6. LogInv'
  <2>1. Len(disk) \in Nat /\ used.calls \in Nat  BY <1>1 DEF Typed
  <2>2. /\ SoundMessages \subseteq SoundMessages' /\ SoundWrites \subseteq SoundWrites'
        /\ \A i \in 1 .. Len(disk) : (Known(disk[i]) /\ Backed(disk[i], i))'
    BY <1>1, <1>2, <1>3, <2>1, SoundKeeps
  <2>3. queue \in Seq(SoundWrites') /\ ctx \in Seq(SoundMessages')
    BY <1>1, <2>2, SeqMonotonic DEF LogInv
  <2> QED  BY <1>2, <2>2, <2>3 DEF LogInv
<1>7. \A i \in 1 .. Len(queue) : queue[i].for = "nobody"
  <2> SUFFICES ASSUME NEW i \in 1 .. Len(queue), queue[i].for # "nobody" PROVE FALSE  OBVIOUS
  <2>1. queue[i].for \in Awaits  BY <1>1 DEF AwaitInv
  <2> QED  BY <1>2, <2>1 DEF Awaits, AwaitedIn, Waiters
<1>8. AwaitInv'  BY <1>1, <1>2, <1>7 DEF AwaitInv
<1>9. BarrierInv'  BY <1>2, <1>7 DEF BarrierInv
<1>10. RanIsRecorded'
  <2>1. Recorded(Current, synced)  BY <1>1, <1>2 DEF BarrierInv
  <2>2. ASSUME NEW id \in ran' \ merged'
        PROVE  \E i \in 1 .. synced' : disk'[i].src = "started" /\ disk'[i].id = id
    <3>1. CASE id \in ran  BY <1>1, <1>2, <2>2, <3>1 DEF RanIsRecorded
    <3>2. CASE id = Current
      <4>1. RecordedBelow(id, synced)  BY <1>2, <2>1, <2>2, <3>2 DEF Recorded
      <4> QED  BY <1>2, <4>1 DEF RecordedBelow
    <3> QED  BY <1>2, <2>2, <3>1, <3>2
  <2> QED  BY <2>2 DEF RanIsRecorded
<1>11. AdoptInv'  BY <1>2 DEF AdoptInv
<1>12. AutoInv'
  <2>1. \A k : AutosOf(k)' = AutosOf(k)  BY <1>2 DEF AutosOf
  <2> QED  BY <1>1, <1>2, <1>7, <2>1 DEF AutoInv, CapInv
<1> QED  BY <1>4, <1>5, <1>6, <1>8, <1>9, <1>10, <1>11, <1>12 DEF IInv

-----------------------------------------------------------------------------
(* Cuts.                                                                   *)

LEMMA CheckpointIs ==
  ASSUME NEW K \in SUBSET SoundMessages', NEW kept \in Seq(K), NEW for \in {"cut", "clear"},
         NEW writes, writes = Checkpoint(kept, for)
  PROVE  /\ writes \in Seq(SoundWrites')
         /\ \A i \in 1 .. Len(writes) :
              writes[i].for # "nobody" => i = Len(writes) /\ writes[i].for = for
         /\ K = {} => \A i \in 1 .. Len(writes) : ~IsProgress(writes[i].entry)
<1> DEFINE marks == {Entry("reset", 0), Entry("turnStarted", 0)}
           S == K \cup marks
           tail == IF openTurn THEN <<Entry("turnStarted", 0)>> ELSE <<>>
           entries == <<Entry("reset", 0)>> \o kept \o tail
           n == Len(entries)
<1>1. ASSUME NEW e \in marks
      PROVE  e \in Entries /\ e.note = "none" /\ e.calls = {} /\ e.src \in {"reset", "turnStarted"}
  <2>1. e \in Entries  BY EntriesAre DEF Bookkeeping
  <2> QED  BY <2>1 DEF Entry
<1>2. ASSUME NEW e \in S
      PROVE  /\ Durable(e, for) \in SoundWrites' /\ Durable(e, for).for = for
             /\ Durable(e, for).entry = e
             /\ Plain(e) \in SoundWrites' /\ Plain(e).for = "nobody" /\ Plain(e).entry = e
  <2>1. e \in Entries /\ e.src # "started"
    BY <1>1 DEF SoundMessages, Messages, IsMessage, Conversation
  <2>2. Durable(e, for) \in Writes /\ Plain(e) \in Writes
    BY <2>1 DEF Durable, Plain, Writes, Waiters
  <2>3. CASE e \in marks
    <3>1. e.note # "notStarted" /\ e.calls \subseteq 1 .. used'.calls  BY <1>1, <2>3
    <3> HIDE DEF marks
    <3> QED  BY <2>1, <2>2, <3>1, NewWrite DEF Durable, Plain
  <2>4. CASE e \in K
    <3>1. e \in SoundMessages'  BY <2>4
    <3> HIDE DEF S
    <3> QED  BY <2>1, <2>2, <3>1 DEF Durable, Plain, SoundWrites, SoundMessages, Sound, Known, Backed
  <2> QED  BY <2>3, <2>4
<1>3. entries \in Seq(S)
  <2>0. Entry("reset", 0) \in S /\ Entry("turnStarted", 0) \in S  OBVIOUS
  <2>1. <<Entry("reset", 0)>> \in Seq(S) /\ tail \in Seq(S)
    <3> HIDE DEF S, marks
    <3>1. <<Entry("reset", 0)>> \in Seq(S) /\ <<Entry("turnStarted", 0)>> \in Seq(S) /\ <<>> \in Seq(S)
      BY <2>0
    <3> QED  BY <3>1
  <2>2. kept \in Seq(S)  BY SeqMonotonic
  <2> HIDE DEF S, tail
  <2>3. <<Entry("reset", 0)>> \o kept \in Seq(S)  BY <2>1, <2>2, ConcatProperties
  <2> QED  BY <2>1, <2>3, ConcatProperties
<1>4. writes = [i \in DOMAIN entries |->
                  IF i = n THEN Durable(entries[i], for) ELSE Plain(entries[i])]
  BY DEF Checkpoint
<1>5. ASSUME K = {}, NEW e \in S PROVE ~IsProgress(e)
  BY <1>1, <1>5 DEF IsProgress, Conversation
<1> HIDE DEF S, entries
<1>6. n \in Nat /\ DOMAIN entries = 1 .. n /\ \A i \in 1 .. n : entries[i] \in S  BY <1>3
<1> HIDE DEF n
<1>7. /\ DOMAIN writes = 1 .. n
      /\ \A i \in 1 .. n : writes[i] = IF i = n THEN Durable(entries[i], for) ELSE Plain(entries[i])
  BY <1>4, <1>6
<1>8. \A i \in 1 .. n : writes[i] \in SoundWrites'  BY <1>2, <1>6, <1>7
<1>9. writes = [i \in 1 .. n |-> writes[i]]  BY <1>4, <1>6
<1>10. writes \in Seq(SoundWrites')  BY <1>6, <1>8, <1>9
<1>11. Len(writes) = n  BY <1>6, <1>7, <1>10
<1>12. ASSUME NEW i \in 1 .. n, writes[i].for # "nobody" PROVE i = n /\ writes[i].for = for
  BY <1>2, <1>6, <1>7, <1>12
<1>13. ASSUME K = {}, NEW i \in 1 .. n PROVE ~IsProgress(writes[i].entry)
  <2>1. writes[i].entry = entries[i] /\ entries[i] \in S  BY <1>2, <1>6, <1>7
  <2> QED  BY <1>5, <1>13, <2>1
<1> QED  BY <1>10, <1>11, <1>12, <1>13

LEMMA CutKeeps == IInv /\ Cut => IInv'
<1> SUFFICES ASSUME IInv, Cut PROVE IInv'  OBVIOUS
<1>1. Typed /\ TurnInv /\ LogInv  BY DEF IInv
<1>2. PICK kept \in {<<>>} \cup RewindCuts(ctx)
                    \cup (IF Prompts(ctx) = {} THEN {} ELSE {UndoCut(ctx)}) :
        ctx' = kept /\ Dispatch(Checkpoint(kept, "cut"))
  BY DEF Cut
<1>3. /\ phase = "idle" /\ phase' = "cutting" /\ autos' = 0
      /\ queue' = queue \o Checkpoint(kept, "cut")
      /\ UNCHANGED <<disk, synced, torn, syncing, ran, merged, todo, waits, clearing, openTurn, held>>
  BY <1>2 DEF Cut, Dispatch, fileVars
<1>4. /\ used' \in [{"prompts", "calls", "replies", "cuts", "faults", "crashes"} -> Nat]
      /\ used'.calls = used.calls /\ used'.faults = used.faults /\ used.calls \in Nat
  BY <1>1 DEF Cut, Spend, Typed
<1>5. Typed'  BY <1>1, <1>3, <1>4 DEF Typed, Phases, Running
<1>6. TurnInv'  BY <1>1, <1>3, <1>4 DEF TurnInv, Calling
<1>7. Writing  BY <1>3, <1>4 DEF Writing
<1>8. kept \in Seq(SoundMessages)
  <2>1. ctx \in Seq(SoundMessages)  BY <1>1 DEF LogInv
  <2>2. CASE kept = <<>>  BY <2>2
  <2>3. CASE kept \in RewindCuts(ctx)  BY <2>1, <2>3, RewindIsIn
  <2>4. CASE Prompts(ctx) # {} /\ kept = UndoCut(ctx)  BY <2>1, <2>4, UndoIsIn
  <2> QED  BY <1>2, <2>2, <2>3, <2>4
<1>9. SoundMessages \subseteq SoundMessages'
  <2>1. Len(disk) \in Nat  BY <1>1 DEF Typed
  <2> QED  BY <1>1, <1>3, <1>4, <2>1, SoundKeeps
<1>10. kept \in Seq(SoundMessages')  BY <1>8, <1>9, SeqMonotonic
<1> DEFINE writes == Checkpoint(kept, "cut")
<1>11. /\ writes \in Seq(SoundWrites')
       /\ \A i \in 1 .. Len(writes) :
            writes[i].for # "nobody" => i = Len(writes) /\ writes[i].for = "cut"
  BY <1>10, CheckpointIs
<1>12. "cut" \in Awaits'  BY <1>3 DEF Awaits, AwaitedIn, Handlers, Waiters
<1>13. queue' = queue \o writes /\ phase # "ending"  BY <1>3
<1> HIDE DEF writes
<1>14. \A i \in 1 .. Len(writes) : writes[i].for # "nobody" =>
         /\ i = Len(writes) /\ writes[i].for \in Awaits' /\ writes[i].for # "resume"
         /\ writes[i].for = "barrier" => writes[i].entry.id = Current'
  BY <1>11, <1>12
<1>15. /\ \A i \in 1 .. Len(disk') : (Known(disk[i]) /\ Backed(disk[i], i))'
       /\ queue' \in Seq(SoundWrites')
       /\ AwaitInv' /\ BarrierInv' /\ RanIsRecorded' /\ AdoptInv' /\ AutoInv'
  BY <1>3, <1>7, <1>11, <1>13, <1>14, DispatchKeeps
<1>16. LogInv'  BY <1>2, <1>10, <1>15 DEF LogInv
<1> QED  BY <1>5, <1>6, <1>15, <1>16 DEF IInv

LEMMA ClearAtTurnEndKeeps == IInv /\ ClearAtTurnEnd => IInv'
<1> SUFFICES ASSUME IInv, ClearAtTurnEnd PROVE IInv'  OBVIOUS
<1>1. Typed /\ TurnInv /\ LogInv  BY DEF IInv
<1>2. /\ phase = "ending" /\ clearing /\ ctx' = <<>> /\ clearing' = FALSE
      /\ queue' = queue \o Checkpoint(<<>>, "clear")
      /\ UNCHANGED <<disk, synced, torn, syncing, ran, merged, phase, todo, waits, openTurn, held,
                     used, autos>>
  BY DEF ClearAtTurnEnd, Dispatch, fileVars
<1>3. Typed'  BY <1>1, <1>2 DEF Typed, Phases, Running
<1>4. TurnInv'  BY <1>1, <1>2 DEF TurnInv, Calling
<1>5. Writing  BY <1>1, <1>2 DEF Writing, Typed
<1> DEFINE writes == Checkpoint(<<>>, "clear")
<1>6. /\ writes \in Seq(SoundWrites')
      /\ \A i \in 1 .. Len(writes) :
           writes[i].for # "nobody" => i = Len(writes) /\ writes[i].for = "clear"
      /\ \A i \in 1 .. Len(writes) : ~IsProgress(writes[i].entry)
  <2>1. <<>> \in Seq({}) /\ {} \in SUBSET SoundMessages'  OBVIOUS
  <2> QED  BY <2>1, CheckpointIs
<1>7. "clear" \in Awaits'
  <2>1. "clear" \in waits  BY <1>1, <1>2 DEF TurnInv
  <2> QED  BY <1>2, <2>1 DEF Awaits, AwaitedIn, Handlers, Waiters
<1>8. queue' = queue \o writes  BY <1>2
<1> HIDE DEF writes
<1>9. \A i \in 1 .. Len(writes) : writes[i].for # "nobody" =>
        /\ i = Len(writes) /\ writes[i].for \in Awaits' /\ writes[i].for # "resume"
        /\ writes[i].for = "barrier" => writes[i].entry.id = Current'
  BY <1>6, <1>7
<1>10. phase = "ending" =>
         /\ phase' = "ending" /\ waits' = waits /\ clearing
         /\ \A j \in 1 .. Len(writes) : writes[j].for # "turnEnd"
  BY <1>2, <1>6
<1>11. /\ \A i \in 1 .. Len(disk') : (Known(disk[i]) /\ Backed(disk[i], i))'
       /\ queue' \in Seq(SoundWrites')
       /\ AwaitInv' /\ BarrierInv' /\ RanIsRecorded' /\ AdoptInv' /\ AutoInv'
  BY <1>2, <1>5, <1>6, <1>8, <1>9, <1>10, DispatchKeeps
<1>12. LogInv'  BY <1>2, <1>11 DEF LogInv
<1> QED  BY <1>3, <1>4, <1>11, <1>12 DEF IInv

-----------------------------------------------------------------------------
(* Adoption.                                                               *)

LEMMA AutosAreFinite ==
  ASSUME NEW n \in Nat
  PROVE  AutosOf(n) \subseteq 1 .. n /\ IsFiniteSet(AutosOf(n)) /\ Cardinality(AutosOf(n)) \in Nat
<1>1. AutosOf(n) \subseteq 1 .. n  BY DEF AutosOf
<1>2. 1 \in Int /\ n \in Int  OBVIOUS
<1>3. IsFiniteSet(1 .. n)  BY <1>2, FS_Interval
<1> QED  BY <1>1, <1>3, FS_Subset, FS_CardinalityType

LEMMA LaterAutosAreFinite ==
  ASSUME NEW n \in Nat
  PROVE  IsFiniteSet(AutosOf(n)') /\ Cardinality(AutosOf(n)') \in Nat
<1>1. AutosOf(n)' \subseteq 1 .. n  BY DEF AutosOf
<1>2. 1 \in Int /\ n \in Int  OBVIOUS
<1>3. IsFiniteSet(1 .. n)  BY <1>2, FS_Interval
<1> QED  BY <1>1, <1>3, FS_Subset, FS_CardinalityType

LEMMA AdoptKeeps == IInv /\ Adopt => IInv'
<1> SUFFICES ASSUME IInv, Adopt PROVE IInv'  OBVIOUS
<1>1. /\ Typed /\ TurnInv /\ LogInv /\ AwaitInv /\ BarrierInv /\ RanIsRecorded
      /\ AdoptInv /\ AutoInv
  BY DEF IInv
<1>2. PICK origin \in {"auto", "manual"} :
        /\ origin = "auto" => ConsecutiveAutoResumes(disk) < AutoCap
        /\ Dispatch(<<Plain(Entry("session", 0)), Durable(ResumeEntry(origin), "resume")>>)
  BY DEF Adopt
<1> DEFINE first == Plain(Entry("session", 0))
           second == Durable(ResumeEntry(origin), "resume")
<1>3. /\ phase = "down" /\ phase' = "adopting"
      /\ UNCHANGED <<disk, synced, torn, syncing, todo, waits, clearing, ctx, openTurn, held, used,
                     ran, merged, autos>>
  BY <1>2 DEF Adopt, Dispatch, fileVars, memoryVars, history
<1>4. queue = <<>> /\ ~syncing  BY <1>1, <1>3 DEF TurnInv, AwaitInv
<1>5. /\ first \in SoundWrites' /\ first.for = "nobody" /\ ~first.fsync
      /\ first.entry.src = "session" /\ ~IsProgress(first.entry)
  <2>1. Entry("session", 0) \in Entries  BY EntriesAre DEF Bookkeeping
  <2>2. first \in Writes  BY <2>1 DEF Plain, Writes, Waiters
  <2>3. /\ first.entry.note # "notStarted" /\ first.entry.calls = {}
        /\ first.entry.src = "session" /\ first.for = "nobody" /\ ~first.fsync
    BY DEF Plain, Entry
  <2>4. ~IsProgress(first.entry)  BY <2>3 DEF IsProgress, Conversation
  <2> HIDE DEF first
  <2> QED  BY <2>2, <2>3, <2>4, NewWrite
<1>6. /\ second \in SoundWrites' /\ second.for = "resume" /\ second.entry.note = origin
      /\ ~IsProgress(second.entry)
  <2>1. ResumeEntry(origin) \in Entries
    BY DEF ResumeEntry, Entries, Bookkeeping, Notes, Synthesized
  <2>2. second \in Writes  BY <2>1 DEF Durable, Writes, Waiters
  <2>3. /\ second.entry.note = origin /\ second.entry.calls = {}
        /\ second.entry.src = "resume" /\ second.for = "resume" /\ second.fsync
    BY DEF Durable, ResumeEntry
  <2>4. ~IsProgress(second.entry)  BY <2>3 DEF IsProgress, Conversation
  <2> HIDE DEF second
  <2> QED  BY <2>2, <2>3, <2>4, NewWrite
<1>7. queue' = queue \o <<first, second>>  BY <1>2 DEF Dispatch
<1> HIDE DEF first, second
<1>8. queue' = <<first, second>>
  <2>1. <<first, second>> \in Seq(SoundWrites')  BY <1>5, <1>6
  <2> QED  BY <1>4, <1>7, <2>1, ConcatEmptySeq
<1>9. /\ queue' \in Seq(SoundWrites') /\ Len(queue') = 2 /\ queue'[1] = first /\ queue'[2] = second
      /\ 1 .. Len(queue') = {1, 2}
  BY <1>5, <1>6, <1>8
<1>10. Typed'  BY <1>1, <1>3 DEF Typed, Phases
<1>11. TurnInv'  BY <1>1, <1>3 DEF TurnInv, Calling
<1>12. LogInv'
  <2>1. Len(disk) \in Nat /\ used.calls \in Nat  BY <1>1 DEF Typed
  <2>2. /\ SoundMessages \subseteq SoundMessages'
        /\ \A i \in 1 .. Len(disk) : (Known(disk[i]) /\ Backed(disk[i], i))'
    BY <1>1, <1>3, <2>1, SoundKeeps
  <2>3. ctx \in Seq(SoundMessages')  BY <1>1, <2>2, SeqMonotonic DEF LogInv
  <2> QED  BY <1>3, <1>9, <2>2, <2>3 DEF LogInv
<1>13. "resume" \in Awaits'  BY <1>3 DEF Awaits, AwaitedIn, Handlers, Waiters
<1>14. AwaitInv'  BY <1>3, <1>4, <1>5, <1>6, <1>9, <1>13 DEF AwaitInv
<1>15. BarrierInv'  BY <1>3, <1>5, <1>6, <1>9 DEF BarrierInv
<1>16. RanIsRecorded'  BY <1>1, <1>3 DEF RanIsRecorded
<1>17. AdoptInv'
  <2>1. queue' # <<>> /\ queue'[Len(queue')].for = "resume"  BY <1>6, <1>8, <1>9
  <2>2. queue'[1].entry.src = "session" /\ ~queue'[1].fsync  BY <1>5, <1>9
  <2> QED  BY <1>9, <2>1, <2>2 DEF AdoptInv
<1>18. AutoInv'
  <2> SUFFICES ASSUME used.faults = 0 PROVE CapInv'  BY <1>3 DEF AutoInv
  <2>1. CapInv  BY <1>1 DEF AutoInv
  <2>2. \A k : AutosOf(k)' = AutosOf(k)  BY <1>3 DEF AutosOf
  <2>3. origin = "auto" => autos < AutoCap
    <3> SUFFICES ASSUME ConsecutiveAutoResumes(disk) < AutoCap PROVE autos < AutoCap  BY <1>2
    <3>1. disk \in Seq(Entries) /\ Len(disk) \in Nat /\ synced \in 0 .. Len(disk) /\ autos \in Nat
      BY <1>1 DEF Typed
    <3>2. Len(disk) \in synced .. Len(disk)  BY <3>1
    <3>3. autos <= Cardinality(AutosOf(Len(disk)))  BY <2>1, <3>2 DEF CapInv
    <3>4. ConsecutiveAutoResumes(disk) = Cardinality(AutosOf(Len(disk)))
      BY <3>1, AutosAreCounted DEF AutosOf
    <3>5. Cardinality(AutosOf(Len(disk))) \in Nat  BY <3>1, AutosAreFinite
    <3> QED  BY <3>1, <3>3, <3>4, <3>5, DurabilityAssumption
  <2>4. \A i \in 1 .. Len(queue') : ~IsProgress(queue'[i].entry)  BY <1>5, <1>6, <1>9
  <2>5. \A i \in 1 .. Len(queue') : queue'[i].for = "resume" /\ queue'[i].entry.note = "auto" =>
          autos < AutoCap
    BY <1>5, <1>6, <1>9, <2>3
  <2>6. \A k \in synced' .. Len(disk') : autos' <= Cardinality(AutosOf(k)')
    BY <1>3, <2>1, <2>2 DEF CapInv
  <2> QED  BY <1>3, <1>4, <1>9, <2>1, <2>4, <2>5, <2>6 DEF CapInv, IsProgress, FromHarness
<1> QED  BY <1>10, <1>11, <1>12, <1>14, <1>15, <1>16, <1>17, <1>18 DEF IInv

-----------------------------------------------------------------------------
(* Death.                                                                  *)

LEMMA CrashKeeps == IInv /\ Crash => IInv'
<1> SUFFICES ASSUME IInv, Crash PROVE IInv'  OBVIOUS
<1>1. /\ Typed /\ TurnInv /\ LogInv /\ AwaitInv /\ BarrierInv /\ RanIsRecorded
      /\ AdoptInv /\ AutoInv
  BY DEF IInv
<1>2. /\ phase' = "down" /\ queue' = <<>> /\ syncing' = FALSE /\ todo' = {} /\ waits' = {}
      /\ clearing' = FALSE /\ ctx' = <<>> /\ openTurn' = FALSE /\ held' = <<>>
      /\ UNCHANGED <<ran, merged, autos>>
  BY DEF Crash, history
<1>3. /\ used' \in [{"prompts", "calls", "replies", "cuts", "faults", "crashes"} -> Nat]
      /\ used'.calls = used.calls /\ used'.faults = used.faults
  BY <1>1 DEF Crash, Spend, Typed
<1>4. disk \in Seq(Entries) /\ Len(disk) \in Nat /\ synced \in 0 .. Len(disk)  BY <1>1 DEF Typed
<1>5. \E n \in synced .. Len(disk) :
        /\ disk' \in Seq(Entries) /\ Len(disk') = n /\ \A i \in 1 .. n : disk'[i] = disk[i]
        /\ synced' \in synced .. n
  <2>1. CASE UNCHANGED <<disk, synced>>
    <3>1. Len(disk) \in synced .. Len(disk) /\ synced \in synced .. Len(disk)  BY <1>4
    <3> QED  BY <1>4, <2>1, <3>1
  <2>2. CASE \E n \in synced .. Len(disk) : disk' = SubSeq(disk, 1, n) /\ synced' = n
    <3>1. PICK n \in synced .. Len(disk) : disk' = SubSeq(disk, 1, n) /\ synced' = n  BY <2>2
    <3>2. n \in 0 .. Len(disk) /\ n \in synced .. n  BY <1>4
    <3> QED  BY <1>4, <3>1, <3>2, PrefixIsIn
  <2> QED  BY <2>1, <2>2 DEF Crash, FileSurvives
<1>6. PICK n \in synced .. Len(disk) :
        /\ disk' \in Seq(Entries) /\ Len(disk') = n /\ \A i \in 1 .. n : disk'[i] = disk[i]
        /\ synced' \in synced .. n
  BY <1>5
<1>7. torn' \in BOOLEAN  BY <1>1 DEF Crash, FileSurvives, Typed
<1>8. Typed'
  <2>1. synced' \in 0 .. Len(disk')  BY <1>4, <1>6
  <2>2. held' \in Seq(Nat) /\ todo' \subseteq Calls /\ waits' \subseteq {"turnEnd", "clear"}
    BY <1>2
  <2>3. syncing' \in BOOLEAN /\ clearing' \in BOOLEAN /\ openTurn' \in BOOLEAN /\ phase' \in Phases
    BY <1>2 DEF Phases
  <2>4. autos' \in Nat  BY <1>1, <1>2 DEF Typed
  <2>5. disk' \in Seq(Entries)  BY <1>6
  <2> QED  BY <1>3, <1>7, <2>1, <2>2, <2>3, <2>4, <2>5 DEF Typed
<1>9. TurnInv'  BY <1>2 DEF TurnInv, Calling
<1>10. LogInv'
  <2>1. ASSUME NEW i \in 1 .. n PROVE (Known(disk[i]) /\ Backed(disk[i], i))'
    <3> SUFFICES ASSUME NEW e, e = disk[i] PROVE Known(e)' /\ Backed(e, i)'
      <4>1. disk'[i] = disk[i]  BY <1>6
      <4> QED  BY <4>1 DEF Known, Backed
    <3>1. i \in 1 .. Len(disk)  BY <1>4
    <3>2. Known(e) /\ Backed(e, i)  BY <1>1, <3>1 DEF LogInv
    <3>3. AboveReset(e.id, i) => AboveReset(e.id, i)'
      <4>1. \A j \in 1 .. i : disk'[j] = disk[j]  BY <1>4, <1>6
      <4> QED  BY <4>1 DEF AboveReset
    <3> QED  BY <1>2, <1>3, <3>2, <3>3 DEF Known, Backed
  <2> QED  BY <1>2, <1>6, <2>1 DEF LogInv
<1>11. AwaitInv' /\ BarrierInv' /\ AdoptInv'  BY <1>2 DEF AwaitInv, BarrierInv, AdoptInv
<1>12. RanIsRecorded'
  <2> SUFFICES ASSUME NEW id \in ran \ merged
               PROVE  \E i \in 1 .. synced' : disk'[i].src = "started" /\ disk'[i].id = id
    BY <1>2 DEF RanIsRecorded
  <2>1. PICK i \in 1 .. synced : disk[i].src = "started" /\ disk[i].id = id
    BY <1>1 DEF RanIsRecorded
  <2>2. i \in 1 .. synced' /\ i \in 1 .. n  BY <1>4, <1>6
  <2> QED  BY <1>6, <2>1, <2>2
<1>13. AutoInv'
  <2> SUFFICES ASSUME used.faults = 0 PROVE CapInv'  BY <1>3 DEF AutoInv
  <2>1. CapInv  BY <1>1 DEF AutoInv
  <2>2. ASSUME NEW k \in synced' .. n PROVE autos <= Cardinality(AutosOf(k)')
    <3>1. k \in synced .. Len(disk) /\ k \in Nat  BY <1>4, <1>6
    <3>2. \A j \in 1 .. k : disk'[j] = disk[j]  BY <1>4, <1>6, <3>1
    <3>3. AutosOf(k)' = AutosOf(k)
      <4>1. \A i \in 1 .. k : \A j \in i + 1 .. k : j \in 1 .. k  BY <3>1
      <4> QED  BY <3>2, <4>1 DEF AutosOf, IsAuto, IsProgress, FromHarness
    <3> QED  BY <2>1, <3>1, <3>3 DEF CapInv
  <2> QED  BY <1>2, <1>6, <2>1, <2>2 DEF CapInv
<1> QED  BY <1>8, <1>9, <1>10, <1>11, <1>12, <1>13 DEF IInv

-----------------------------------------------------------------------------
(* The writer.                                                             *)

(* What is behind the head of the queue.                                   *)
LEMMA TailIs ==
  ASSUME NEW S, NEW s \in Seq(S), s # <<>>
  PROVE  /\ Len(s) \in Nat /\ 1 \in 1 .. Len(s) /\ Head(s) = s[1] /\ s[1] \in S
         /\ Tail(s) \in Seq(S) /\ Len(Tail(s)) = Len(s) - 1
         /\ \A i \in 1 .. Len(s) - 1 : i + 1 \in 1 .. Len(s) /\ Tail(s)[i] = s[i + 1]
<1>1. Len(s) \in Nat /\ Len(s) # 0  BY EmptySeq
<1>2. Head(s) \in S /\ Tail(s) \in Seq(S) /\ Len(Tail(s)) = Len(s) - 1
  BY HeadTailProperties
<1>3. \A i \in 1 .. Len(Tail(s)) : Tail(s)[i] = s[i + 1]  BY HeadTailProperties
<1> QED  BY <1>1, <1>2, <1>3

(* A record that is no progress leaves the row of automatic resumes.       *)
LEMMA AppendedAutos ==
  ASSUME NEW n \in Nat, disk \in Seq(Entries), n = Len(disk), NEW e, disk' = Append(disk, e),
         ~IsProgress(e)
  PROVE  Cardinality(AutosOf(n + 1)') >= Cardinality(AutosOf(n)) + (IF IsAuto(e) THEN 1 ELSE 0)
<1>1. /\ disk'[n + 1] = e /\ \A i \in 1 .. n : disk'[i] = disk[i]
  OBVIOUS
<1> DEFINE old == AutosOf(n)
           new == AutosOf(n + 1)'
<1>2. /\ old \subseteq 1 .. n /\ IsFiniteSet(old) /\ Cardinality(old) \in Nat
  BY AutosAreFinite
<1>3. \A i \in 1 .. n + 1 : i \in 1 .. n \/ i = n + 1  OBVIOUS
<1>4. old \subseteq new
  <2> SUFFICES ASSUME NEW i \in old PROVE i \in new  OBVIOUS
  <2>1. i \in 1 .. n /\ IsAuto(disk[i]) /\ \A j \in i + 1 .. n : ~IsProgress(disk[j])
    BY <1>2 DEF AutosOf
  <2>2. i \in 1 .. n + 1 /\ IsAuto(disk'[i])  BY <1>1, <2>1
  <2>3. ASSUME NEW j \in i + 1 .. n + 1 PROVE ~IsProgress(disk'[j])
    <3>1. CASE j = n + 1  BY <1>1, <3>1
    <3>2. CASE j # n + 1
      <4>1. j \in i + 1 .. n /\ j \in 1 .. n  BY <2>1, <3>2
      <4> QED  BY <1>1, <2>1, <4>1
    <3> QED  BY <3>1, <3>2
  <2> QED  BY <2>2, <2>3 DEF AutosOf, IsAuto, IsProgress, FromHarness
<1>5. IsFiniteSet(new)
  <2>1. n + 1 \in Nat  OBVIOUS
  <2> QED  BY <2>1, LaterAutosAreFinite
<1>6. CASE ~IsAuto(e)
  <2>1. Cardinality(old) <= Cardinality(new)  BY <1>4, <1>5, FS_Subset
  <2>2. Cardinality(new) \in Nat  BY <1>5, FS_CardinalityType
  <2> QED  BY <1>2, <1>6, <2>1, <2>2
<1>7. CASE IsAuto(e)
  <2>1. n + 1 \in new
    <3>1. n + 1 \in 1 .. n + 1 /\ IsAuto(disk'[n + 1])  BY <1>1, <1>7
    <3>2. \A j \in n + 1 + 1 .. n + 1 : FALSE  OBVIOUS
    <3> QED  BY <3>1, <3>2 DEF AutosOf, IsAuto
  <2>2. n + 1 \notin old  BY <1>2
  <2>3. old \cup {n + 1} \subseteq new  BY <1>4, <2>1
  <2>4. Cardinality(old \cup {n + 1}) = Cardinality(old) + 1  BY <1>2, <2>2, FS_AddElement
  <2>5. Cardinality(old \cup {n + 1}) <= Cardinality(new)  BY <1>5, <2>3, FS_Subset
  <2>6. Cardinality(new) \in Nat  BY <1>5, FS_CardinalityType
  <2> QED  BY <1>2, <1>7, <2>4, <2>5, <2>6
<1> QED  BY <1>6, <1>7

LEMMA WriterAppendsKeeps == IInv /\ WriterAppends => IInv'
<1> SUFFICES ASSUME IInv, WriterAppends PROVE IInv'  OBVIOUS
<1>1. /\ Typed /\ TurnInv /\ LogInv /\ AwaitInv /\ BarrierInv /\ RanIsRecorded
      /\ AdoptInv /\ AutoInv
  BY DEF IInv
<1>2. PICK w, e, n : w = Head(queue) /\ e = w.entry /\ n = Len(disk)  OBVIOUS
<1>3. /\ queue # <<>> /\ ~syncing /\ torn' = FALSE /\ syncing' = w.fsync
      /\ disk' = (IF torn \/ e.src = "session" THEN disk ELSE Append(disk, e))
      /\ merged' = (IF torn /\ e.src = "started" THEN merged \cup {e.id} ELSE merged)
      /\ queue' = (IF w.fsync THEN queue ELSE Tail(queue))
      /\ UNCHANGED <<synced, phase, todo, waits, clearing, ctx, openTurn, failed, held, used, ran,
                     autos>>
  BY <1>2 DEF WriterAppends, AppendLine, turnVars, memoryVars
<1>4. queue \in Seq(SoundWrites)  BY <1>1 DEF LogInv
<1>5. /\ Len(queue) \in Nat /\ 1 \in 1 .. Len(queue) /\ w = queue[1] /\ w \in SoundWrites
      /\ Tail(queue) \in Seq(SoundWrites) /\ Len(Tail(queue)) = Len(queue) - 1
      /\ \A i \in 1 .. Len(queue) - 1 : i + 1 \in 1 .. Len(queue) /\ Tail(queue)[i] = queue[i + 1]
  BY <1>2, <1>3, <1>4, TailIs
<1>6. /\ w \in Writes /\ e \in Entries /\ Sound(e) /\ w.fsync \in BOOLEAN
      /\ (e.src = "started" <=> w.for = "barrier")
      /\ (w.for # "nobody" => w.fsync) /\ (w.for = "resume" => e.src = "resume")
  BY <1>2, <1>5 DEF SoundWrites, Writes
<1>7. /\ disk \in Seq(Entries) /\ n \in Nat /\ synced \in 0 .. n /\ used.calls \in Nat /\ autos \in Nat
  BY <1>1, <1>2 DEF Typed
<1>8. /\ disk' \in Seq(Entries) /\ Len(disk') \in {n, n + 1}
      /\ \A i \in 1 .. n : disk'[i] = disk[i]
      /\ Len(disk') = n + 1 => disk' = Append(disk, e) /\ disk'[n + 1] = e
  BY <1>2, <1>3, <1>6, <1>7
<1>9. phase # "down"  BY <1>1, <1>3 DEF TurnInv
<1>10. /\ SoundMessages \subseteq SoundMessages' /\ SoundWrites \subseteq SoundWrites'
       /\ \A i \in 1 .. n : (Known(disk[i]) /\ Backed(disk[i], i))'
       /\ Sound(e)'
  <2>1. Len(disk') \in Nat /\ Len(disk) <= Len(disk') /\ merged \subseteq merged'
    BY <1>2, <1>3, <1>7, <1>8
  <2>2. /\ \A f : Sound(f) => Sound(f)'
        /\ SoundMessages \subseteq SoundMessages' /\ SoundWrites \subseteq SoundWrites'
        /\ \A i \in 1 .. Len(disk) : (Known(disk[i]) /\ Backed(disk[i], i))'
    BY <1>1, <1>2, <1>3, <1>7, <1>8, <2>1, SoundKeeps
  <2> QED  BY <1>2, <1>6, <2>2
<1>11. /\ queue' \in Seq(SoundWrites)
       /\ w.fsync => queue' = queue
       /\ ~w.fsync => /\ w.for = "nobody" /\ Len(queue') = Len(queue) - 1
                      /\ \A i \in 1 .. Len(queue') : i + 1 \in 1 .. Len(queue) /\ queue'[i] = queue[i + 1]
  BY <1>3, <1>4, <1>5, <1>6
<1>12. Typed'
  <2>1. synced' \in 0 .. Len(disk')  BY <1>3, <1>7, <1>8
  <2> QED  BY <1>1, <1>3, <1>6, <1>8, <2>1 DEF Typed
<1>13. TurnInv'  BY <1>1, <1>3, <1>9 DEF TurnInv
<1>14. LogInv'
  <2>1. ASSUME NEW i \in 1 .. Len(disk') PROVE (Known(disk[i]) /\ Backed(disk[i], i))'
    <3>1. CASE i \in 1 .. n  BY <1>10, <3>1
    <3>2. CASE i \notin 1 .. n
      <4>1. i = n + 1 /\ Len(disk') = i /\ disk'[i] = e  BY <1>7, <1>8, <3>2
      <4>2. Known(e)' /\ AboveReset(e.id, Len(disk))' = AboveReset(e.id, i)'
        BY <1>10, <4>1 DEF Sound, AboveReset
      <4>3. Known(disk[i])'  BY <4>1, <4>2 DEF Known
      <4>4. Backed(disk[i], i)'
        <5>1. Backed(e, Len(disk))'  BY <1>10 DEF Sound
        <5>2. Backed(e, i)'  BY <4>2, <5>1 DEF Backed
        <5> QED  BY <4>1, <5>2 DEF Backed
      <4> QED  BY <4>3, <4>4
    <3> QED  BY <3>1, <3>2
  <2>2. queue' \in Seq(SoundWrites')  BY <1>10, <1>11, SeqMonotonic
  <2>3. ctx \in Seq(SoundMessages')  BY <1>1, <1>10, SeqMonotonic DEF LogInv
  <2> QED  BY <1>3, <2>1, <2>2, <2>3 DEF LogInv
<1>15. Awaits' = Awaits  BY <1>3 DEF Awaits
<1>16. AwaitInv'
  <2>1. CASE w.fsync  BY <1>1, <1>3, <1>5, <1>11, <1>15, <2>1 DEF AwaitInv
  <2>2. CASE ~w.fsync
    <3>1. ~syncing'  BY <1>3, <2>2
    <3>2. ASSUME NEW i \in 1 .. Len(queue'), queue'[i].for # "nobody"
          PROVE  /\ queue'[i].for \in Awaits'
                 /\ \A j \in 1 .. Len(queue') : queue'[j].for = queue'[i].for => j = i
                 /\ queue'[i].for \notin Handlers => i = Len(queue')
      <4>1. i + 1 \in 1 .. Len(queue) /\ queue'[i] = queue[i + 1]  BY <1>11, <2>2
      <4>2. /\ queue[i + 1].for \in Awaits
            /\ \A j \in 1 .. Len(queue) : queue[j].for = queue[i + 1].for => j = i + 1
            /\ queue[i + 1].for \notin Handlers => i + 1 = Len(queue)
        BY <1>1, <3>2, <4>1 DEF AwaitInv
      <4>3. ASSUME NEW j \in 1 .. Len(queue'), queue'[j].for = queue'[i].for PROVE j = i
        <5>1. j + 1 \in 1 .. Len(queue) /\ queue'[j] = queue[j + 1]  BY <1>11, <2>2
        <5>2. j + 1 = i + 1  BY <4>1, <4>2, <4>3, <5>1
        <5> QED  BY <5>2
      <4>4. i + 1 = Len(queue) => i = Len(queue')
        <5>1. Len(queue) \in Nat /\ Len(queue') = Len(queue) - 1  BY <1>5, <1>11, <2>2
        <5>2. i \in Nat  OBVIOUS
        <5> QED  BY <5>1, <5>2
      <4> QED  BY <1>15, <4>1, <4>2, <4>3, <4>4
    <3> QED  BY <3>1, <3>2 DEF AwaitInv
  <2> QED  BY <2>1, <2>2
<1>17. Current' = Current  BY <1>3 DEF Current
<1>18. BarrierInv'
  <2>1. ASSUME NEW i \in 1 .. Len(queue'), queue'[i].for = "barrier"
        PROVE  /\ queue'[i].entry.id = Current'
               /\ syncing' /\ i = 1 => Recorded(Current, Len(disk))'
    <3>1. CASE ~w.fsync
      <4>1. i + 1 \in 1 .. Len(queue) /\ queue'[i] = queue[i + 1]  BY <1>11, <3>1
      <4> QED  BY <1>1, <1>3, <1>17, <2>1, <3>1, <4>1 DEF BarrierInv
    <3>2. CASE w.fsync
      <4>1. queue' = queue  BY <1>11, <3>2
      <4>2. queue'[i].entry.id = Current'  BY <1>1, <1>17, <2>1, <4>1 DEF BarrierInv
      <4>3. ASSUME i = 1 PROVE Recorded(Current, Len(disk))'
        <5>1. e.src = "started" /\ e.id = Current'  BY <1>2, <1>5, <1>6, <2>1, <4>1, <4>2, <4>3
        <5>2. CASE torn  BY <1>3, <5>1, <5>2 DEF Recorded
        <5>3. CASE ~torn
          <6>1. disk' = Append(disk, e)  BY <1>3, <5>1, <5>3
          <6>2. Len(disk') = n + 1 /\ n + 1 \in 1 .. Len(disk') /\ disk'[n + 1] = e
            BY <1>2, <1>7, <6>1
          <6> QED  BY <5>1, <6>2 DEF Recorded, RecordedBelow
        <5> QED  BY <5>2, <5>3
      <4> QED  BY <4>2, <4>3
    <3> QED  BY <1>6, <3>1, <3>2
  <2>2. phase' = "gate" /\ Current' \notin failed' => Recorded(Current, synced)'
    <3> SUFFICES ASSUME Recorded(Current, synced) PROVE Recorded(Current, synced)'
      BY <1>1, <1>3, <1>17 DEF BarrierInv
    <3>1. CASE Current \in merged  BY <1>3, <1>17, <3>1 DEF Recorded
    <3>2. CASE RecordedBelow(Current, synced)
      <4>1. PICK i \in 1 .. synced : disk[i].src = "started" /\ disk[i].id = Current
        BY <3>2 DEF RecordedBelow
      <4>2. disk'[i] = disk[i]  BY <1>7, <1>8
      <4> QED  BY <1>3, <1>17, <4>1, <4>2 DEF Recorded, RecordedBelow
    <3> QED  BY <3>1, <3>2 DEF Recorded
  <2> QED  BY <2>1, <2>2 DEF BarrierInv
<1>19. RanIsRecorded'
  <2> SUFFICES ASSUME NEW id \in ran' \ merged'
               PROVE  \E i \in 1 .. synced' : disk'[i].src = "started" /\ disk'[i].id = id
    BY DEF RanIsRecorded
  <2>1. id \in ran \ merged  BY <1>3
  <2>2. PICK i \in 1 .. synced : disk[i].src = "started" /\ disk[i].id = id
    BY <1>1, <2>1 DEF RanIsRecorded
  <2>3. disk'[i] = disk[i]  BY <1>7, <1>8
  <2> QED  BY <1>3, <2>2, <2>3
<1>20. AdoptInv'
  <2> SUFFICES ASSUME phase = "adopting", ~w.fsync
               PROVE  /\ queue' # <<>> /\ queue'[Len(queue')].for = "resume" /\ Len(queue') = 1
    BY <1>1, <1>3, <1>11 DEF AdoptInv
  <2>1. queue[Len(queue)].for = "resume" /\ (Len(queue) = 1 \/ Len(queue) = 2)
    BY <1>1 DEF AdoptInv
  <2>2. Len(queue) = 2  BY <1>5, <1>11, <2>1
  <2>3. Len(queue') = 1 /\ 1 \in 1 .. Len(queue')  BY <1>11, <2>2
  <2>4. queue'[1] = queue[2]  BY <1>11, <2>3
  <2> QED  BY <2>1, <2>2, <2>3, <2>4
<1>21. AutoInv'
  <2> SUFFICES ASSUME used.faults = 0 PROVE CapInv'  BY <1>3 DEF AutoInv
  <2>1. CapInv  BY <1>1 DEF AutoInv
  <2>2. ASSUME NEW k \in 0 .. n PROVE AutosOf(k)' = AutosOf(k)
    <3>1. \A j \in 1 .. k : disk'[j] = disk[j]  BY <1>7, <1>8
    <3>2. \A i \in 1 .. k : \A j \in i + 1 .. k : j \in 1 .. k  OBVIOUS
    <3> QED  BY <3>1, <3>2 DEF AutosOf, IsAuto, IsProgress, FromHarness
  <2>3. Cardinality(AutosOf(n)) \in Nat  BY <1>7, AutosAreFinite
  <2>4. autos <= Cardinality(AutosOf(n))
    <3>1. n \in synced .. n  BY <1>7
    <3> QED  BY <1>2, <2>1, <3>1 DEF CapInv
  <2>5. ASSUME NEW k \in synced .. Len(disk') PROVE autos <= Cardinality(AutosOf(k)')
    <3>1. CASE k <= n
      <4>1. k \in synced .. Len(disk) /\ k \in 0 .. n  BY <1>2, <1>7, <1>8, <3>1
      <4> QED  BY <2>1, <2>2, <4>1 DEF CapInv
    <3>2. CASE ~(k <= n)
      <4>1. k = n + 1 /\ disk' = Append(disk, e)  BY <1>7, <1>8, <3>2
      <4>2. CASE IsProgress(e)
        <5>1. autos = 0  BY <1>2, <1>5, <1>7, <2>1, <4>2 DEF CapInv
        <5>2. k \in Nat /\ Cardinality(AutosOf(k)') \in Nat
          <6>1. k \in Nat  BY <1>7, <4>1
          <6> QED  BY <6>1, LaterAutosAreFinite
        <5> QED  BY <5>1, <5>2
      <4>3. CASE ~IsProgress(e)
        <5>1. Cardinality(AutosOf(n + 1)') >= Cardinality(AutosOf(n)) + (IF IsAuto(e) THEN 1 ELSE 0)
          BY <1>2, <1>7, <4>1, <4>3, AppendedAutos
        <5>2. k \in Nat /\ Cardinality(AutosOf(k)') \in Nat
          <6>1. k \in Nat  BY <1>7, <4>1
          <6> QED  BY <6>1, LaterAutosAreFinite
        <5> QED  BY <1>7, <2>3, <2>4, <4>1, <5>1, <5>2
      <4> QED  BY <4>2, <4>3
    <3> QED  BY <3>1, <3>2
  <2>6. autos > 0 => \A i \in 1 .. Len(queue') : ~IsProgress(queue'[i].entry)
    <3> SUFFICES ASSUME autos > 0, NEW i \in 1 .. Len(queue') PROVE ~IsProgress(queue'[i].entry)
      OBVIOUS
    <3>1. \E j \in 1 .. Len(queue) : queue'[i] = queue[j]  BY <1>6, <1>11
    <3> QED  BY <2>1, <3>1 DEF CapInv
  <2>7. ASSUME NEW i \in 1 .. Len(queue'), queue'[i].for = "resume", queue'[i].entry.note = "auto"
        PROVE  autos < AutoCap /\ (syncing' => autos < Cardinality(AutosOf(Len(disk))'))
    <3>1. \E j \in 1 .. Len(queue) : queue'[i] = queue[j]  BY <1>6, <1>11
    <3>2. autos < AutoCap  BY <2>1, <2>7, <3>1 DEF CapInv
    <3>3. ASSUME w.fsync PROVE autos < Cardinality(AutosOf(Len(disk))')
      <4>1. queue' = queue  BY <1>11, <3>3
      <4>2. i \in 1 .. Len(queue) /\ queue[i].for = "resume"  BY <2>7, <4>1
      <4>3. "resume" \in Awaits /\ i = Len(queue)
        BY <1>1, <4>2 DEF AwaitInv, Handlers
      <4>4. phase = "adopting"  BY <4>3 DEF Awaits, AwaitedIn
      <4>5. Len(queue) = 1  BY <1>1, <1>5, <3>3, <4>4 DEF AdoptInv
      <4>6. e.src = "resume" /\ e.note = "auto"  BY <1>2, <1>5, <1>6, <2>7, <4>1, <4>3, <4>5
      <4>7. ~torn  BY <1>9, <2>1, <4>5 DEF CapInv
      <4>8. disk' = Append(disk, e)  BY <1>3, <4>6, <4>7
      <4>9. IsAuto(e) /\ ~IsProgress(e)  BY <4>6 DEF IsAuto, IsProgress, Conversation
      <4>10. Cardinality(AutosOf(n + 1)') >= Cardinality(AutosOf(n)) + 1
        BY <1>2, <1>7, <4>8, <4>9, AppendedAutos
      <4>11. Len(disk') = n + 1  BY <1>2, <1>7, <4>8
      <4>12. AutosOf(Len(disk))' = AutosOf(n + 1)'  BY <4>11 DEF AutosOf
      <4>13. n + 1 \in Nat /\ Cardinality(AutosOf(n + 1)') \in Nat
        <5>1. n + 1 \in Nat  BY <1>7
        <5> QED  BY <5>1, LaterAutosAreFinite
      <4> QED  BY <1>7, <2>3, <2>4, <4>10, <4>12, <4>13
    <3> QED  BY <1>3, <3>2, <3>3
  <2>8. \A k \in synced' .. Len(disk') : autos' <= Cardinality(AutosOf(k)')  BY <1>3, <2>5
  <2> QED  BY <1>3, <2>1, <2>6, <2>7, <2>8 DEF CapInv, IsProgress, FromHarness
<1> QED  BY <1>12, <1>13, <1>14, <1>16, <1>18, <1>19, <1>20, <1>21 DEF IInv

(* The head of the queue settles: nobody but its waiter runs, and only a    *)
(* failed write is a fault.                                                 *)
Settling(ok) ==
  /\ queue # <<>> /\ queue' = Tail(queue) /\ syncing' = FALSE
  /\ UNCHANGED <<disk, ran, merged>>
  /\ torn' \in BOOLEAN /\ synced' \in synced .. Len(disk)
  /\ used' \in [{"prompts", "calls", "replies", "cuts", "faults", "crashes"} -> Nat]
  /\ used'.calls = used.calls
  /\ IF ok THEN syncing /\ synced' = Len(disk) /\ torn' = torn /\ used'.faults = used.faults
           ELSE used'.faults # 0

LEMMA HeadIs ==
  ASSUME IInv, queue # <<>>
  PROVE  /\ queue[1] \in SoundWrites /\ Head(queue) = queue[1] /\ phase # "down"
         /\ queue[1].for # "nobody" => queue[1].for \in Awaits
         /\ queue[1].for \notin Handlers \cup {"nobody"} => Len(queue) = 1
         /\ queue[1].for \in Waiters
<1>1. TurnInv /\ LogInv /\ AwaitInv  BY DEF IInv
<1>2. /\ 1 \in 1 .. Len(queue) /\ Head(queue) = queue[1] /\ queue[1] \in SoundWrites
  BY <1>1, TailIs DEF LogInv
<1>3. queue[1].for \in Waiters  BY <1>2 DEF SoundWrites, Writes
<1> QED  BY <1>1, <1>2, <1>3 DEF TurnInv, AwaitInv

LEMMA SettlingKnows ==
  ASSUME IInv, NEW ok \in BOOLEAN, Settling(ok), todo' = todo
  PROVE  /\ SoundMessages \subseteq SoundMessages'
         /\ SoundWrites \subseteq SoundWrites'
         /\ \A i \in 1 .. Len(disk) : (Known(disk[i]) /\ Backed(disk[i], i))'
         /\ ctx \in Seq(SoundMessages')
<1>1. Typed /\ TurnInv /\ LogInv  BY DEF IInv
<1>2. Len(disk) \in Nat /\ used.calls \in Nat  BY <1>1 DEF Typed
<1>3. /\ SoundMessages \subseteq SoundMessages'
      /\ SoundWrites \subseteq SoundWrites'
      /\ \A i \in 1 .. Len(disk) : (Known(disk[i]) /\ Backed(disk[i], i))'
  BY <1>1, <1>2, SoundKeeps DEF Settling
<1> QED  BY <1>1, <1>3, SeqMonotonic DEF LogInv

LEMMA SettlingKeeps ==
  ASSUME IInv, NEW ok \in BOOLEAN, Settling(ok), todo' = todo,
         Typed', TurnInv', ctx' \in Seq(SoundMessages'),
         \A i \in 2 .. Len(queue) : queue[i].for # "nobody" => queue[i].for \in Awaits',
         phase' = "gate" /\ Current \notin failed' => Recorded(Current, synced'),
         phase' = "adopting" => phase = "adopting" /\ queue[1].for # "resume",
         \/ autos' = autos
         \/ /\ autos' = autos + 1 /\ Len(queue) = 1
            /\ queue[1].for = "resume" /\ queue[1].entry.note = "auto"
  PROVE  IInv'
<1> USE DEF Settling
<1>1. /\ Typed /\ TurnInv /\ LogInv /\ AwaitInv /\ BarrierInv /\ RanIsRecorded
      /\ AdoptInv /\ AutoInv
  BY DEF IInv
<1>2. /\ SoundWrites \subseteq SoundWrites'
      /\ \A i \in 1 .. Len(disk) : (Known(disk[i]) /\ Backed(disk[i], i))'
  BY SettlingKnows
<1>3. /\ queue[1] \in SoundWrites /\ phase # "down"
      /\ queue[1].for # "nobody" => queue[1].for \in Awaits
      /\ queue[1].for \notin Handlers \cup {"nobody"} => Len(queue) = 1
  BY HeadIs
<1>4. /\ Len(queue) \in Nat /\ 1 \in 1 .. Len(queue)
      /\ queue' \in Seq(SoundWrites) /\ Len(queue') = Len(queue) - 1
      /\ \A i \in 1 .. Len(queue) - 1 : i + 1 \in 1 .. Len(queue) /\ queue'[i] = queue[i + 1]
  BY <1>1, TailIs DEF LogInv
<1>5. PICK m \in Nat : Len(queue) = m  BY <1>4
<1>6. /\ Len(queue') = m - 1
      /\ \A i \in 1 .. m - 1 : i + 1 \in 1 .. m /\ i + 1 \in 2 .. m /\ queue'[i] = queue[i + 1]
  BY <1>4, <1>5
<1>7. synced \in 0 .. Len(disk) /\ Len(disk) \in Nat /\ autos \in Nat  BY <1>1 DEF Typed
<1>8. LogInv'
  <2>1. queue' \in Seq(SoundWrites')  BY <1>2, <1>4, SeqMonotonic
  <2> QED  BY <1>2, <2>1 DEF LogInv
<1>9. AwaitInv'
  <2> SUFFICES ASSUME NEW i \in 1 .. m - 1, queue'[i].for # "nobody"
               PROVE  /\ queue'[i].for \in Awaits'
                      /\ \A j \in 1 .. m - 1 : queue'[j].for = queue'[i].for => j = i
                      /\ queue'[i].for \notin Handlers => i = m - 1
    BY <1>6 DEF AwaitInv
  <2>1. i + 1 \in 1 .. m /\ i + 1 \in 2 .. m /\ queue'[i] = queue[i + 1]  BY <1>6
  <2>2. /\ \A j \in 1 .. m : queue[j].for = queue[i + 1].for => j = i + 1
        /\ queue[i + 1].for \notin Handlers => i + 1 = m
    BY <1>1, <1>5, <2>1 DEF AwaitInv
  <2>3. queue'[i].for \in Awaits'  BY <1>5, <2>1
  <2>4. ASSUME NEW j \in 1 .. m - 1, queue'[j].for = queue'[i].for PROVE j = i
    <3>1. j + 1 \in 1 .. m /\ queue'[j] = queue[j + 1]  BY <1>6
    <3>2. j + 1 = i + 1  BY <2>1, <2>2, <2>4, <3>1
    <3> QED  BY <3>2
  <2>5. queue'[i].for \notin Handlers => i = m - 1
    <3>1. queue'[i].for \notin Handlers => i + 1 = m  BY <2>1, <2>2
    <3>2. i + 1 = m => i = m - 1  OBVIOUS
    <3> QED  BY <3>1, <3>2
  <2> QED  BY <2>3, <2>4, <2>5
<1>10. Current' = Current  BY DEF Current
<1>11. BarrierInv'
  <2>1. ASSUME NEW i \in 1 .. m - 1, queue'[i].for = "barrier"
        PROVE  queue'[i].entry.id = Current'
    <3>1. i + 1 \in 1 .. m /\ queue'[i] = queue[i + 1]  BY <1>6
    <3> QED  BY <1>1, <1>5, <1>10, <2>1, <3>1 DEF BarrierInv
  <2>2. phase' = "gate" /\ Current' \notin failed' => Recorded(Current, synced)'
    BY <1>10 DEF Recorded, RecordedBelow
  <2> QED  BY <1>6, <2>1, <2>2 DEF BarrierInv
<1>12. RanIsRecorded'
  <2> SUFFICES ASSUME NEW id \in ran \ merged
               PROVE  \E i \in 1 .. synced' : disk[i].src = "started" /\ disk[i].id = id
    BY DEF RanIsRecorded
  <2>1. PICK i \in 1 .. synced : disk[i].src = "started" /\ disk[i].id = id
    BY <1>1 DEF RanIsRecorded
  <2>2. i \in 1 .. synced'  BY <1>7
  <2> QED  BY <2>1, <2>2
<1>13. AdoptInv'
  <2> SUFFICES ASSUME phase = "adopting", queue[1].for # "resume"
               PROVE  queue' # <<>> /\ queue'[m - 1].for = "resume" /\ m - 1 = 1
    BY <1>6 DEF AdoptInv
  <2>1. m = 2 /\ queue[2].for = "resume"  BY <1>1, <1>5 DEF AdoptInv
  <2>2. 1 \in 1 .. m - 1 /\ queue'[1] = queue[2]
    <3>1. 1 \in 1 .. m - 1 /\ 1 + 1 = 2  BY <2>1
    <3>2. queue'[1] = queue[1 + 1]  BY <1>6, <3>1
    <3> QED  BY <3>1, <3>2
  <2>3. queue' # <<>>
    <3>1. Len(queue') = 1  BY <1>6, <2>1
    <3>2. queue' = <<>> => Len(queue') = Len(<<>>)  OBVIOUS
    <3>3. Len(<<>>) = 0  OBVIOUS
    <3>4. 0 # 1  OBVIOUS
    <3> QED  BY <3>1, <3>2, <3>3, <3>4, Zenon
  <2>4. m - 1 = 1  BY <2>1
  <2> QED  BY <2>1, <2>2, <2>3, <2>4
<1>14. AutoInv'
  <2> SUFFICES ASSUME used'.faults = 0 PROVE CapInv'  BY DEF AutoInv
  <2>1. ok /\ syncing /\ synced' = Len(disk) /\ torn' = torn /\ used.faults = 0  OBVIOUS
  <2>2. CapInv  BY <1>1, <2>1 DEF AutoInv
  <2>3. queue[1].fsync  BY <1>1, <2>1 DEF AwaitInv
  <2>4. ~torn
    <3>1. torn => phase = "adopting" /\ m = 2  BY <1>3, <1>5, <2>2 DEF CapInv
    <3>2. phase = "adopting" /\ m = 2 => ~queue[1].fsync  BY <1>1, <1>5 DEF AdoptInv
    <3> QED  BY <2>3, <3>1, <3>2
  <2>5. AutosOf(Len(disk))' = AutosOf(Len(disk))  BY DEF AutosOf
  <2>6. Cardinality(AutosOf(Len(disk))) \in Nat  BY <1>7, AutosAreFinite
  <2>7. autos' <= AutoCap /\ autos' <= Cardinality(AutosOf(Len(disk)))
    <3>1. autos <= AutoCap  BY <2>2 DEF CapInv
    <3>2. autos <= Cardinality(AutosOf(Len(disk)))
      <4>1. Len(disk) \in synced .. Len(disk)  BY <1>7
      <4> QED  BY <2>2, <4>1 DEF CapInv
    <3>3. CASE autos' = autos  BY <3>1, <3>2, <3>3
    <3>4. CASE autos' = autos + 1 /\ queue[1].for = "resume" /\ queue[1].entry.note = "auto"
      <4>1. autos < AutoCap /\ autos < Cardinality(AutosOf(Len(disk)))
        BY <1>4, <2>1, <2>2, <3>4 DEF CapInv
      <4> QED  BY <1>7, <2>6, <3>4, <4>1, DurabilityAssumption
    <3> QED  BY <3>3, <3>4
  <2>8. synced' .. Len(disk') = {Len(disk)}  BY <1>7, <2>1
  <2>9. ASSUME NEW i \in 1 .. m - 1
        PROVE  /\ autos' > 0 => ~IsProgress(queue'[i].entry)
               /\ queue'[i].for = "resume" /\ queue'[i].entry.note = "auto" => autos' < AutoCap
    <3>1. i + 1 \in 1 .. m /\ queue'[i] = queue[i + 1] /\ m # 1  BY <1>6
    <3>2. autos' = autos  BY <1>5, <3>1
    <3>3. autos > 0 => ~IsProgress(queue[i + 1].entry)  BY <1>5, <2>2, <3>1 DEF CapInv
    <3>4. queue[i + 1].for = "resume" /\ queue[i + 1].entry.note = "auto" => autos < AutoCap
      BY <1>5, <2>2, <3>1 DEF CapInv
    <3> QED  BY <3>1, <3>2, <3>3, <3>4
  <2>10. \A k \in synced' .. Len(disk') : autos' <= Cardinality(AutosOf(k)')
    <3> SUFFICES autos' <= Cardinality(AutosOf(Len(disk))')  BY <2>8 DEF AutosOf
    <3> QED  BY <2>5, <2>7
  <2>11. \A i \in 1 .. Len(queue') : autos' > 0 => ~IsProgress(queue'[i].entry)
    BY <1>6, <2>9
  <2> QED  BY <1>6, <2>1, <2>4, <2>7, <2>9, <2>10, <2>11 DEF CapInv, IsProgress, FromHarness
<1> QED  BY <1>8, <1>9, <1>11, <1>12, <1>13, <1>14 DEF IInv

LEMMA SettlingTyped ==
  ASSUME Typed, NEW ok \in BOOLEAN, Settling(ok), phase' \in Phases, UNCHANGED <<todo, clearing>>,
         waits' \subseteq waits, openTurn' \in BOOLEAN, held' \in Seq(Nat), autos' \in Nat
  PROVE  Typed'
<1>1. /\ UNCHANGED disk /\ syncing' = FALSE /\ torn' \in BOOLEAN /\ synced' \in synced .. Len(disk)
      /\ used' \in [{"prompts", "calls", "replies", "cuts", "faults", "crashes"} -> Nat]
  BY DEF Settling
<1>2. synced' \in 0 .. Len(disk')  BY <1>1 DEF Typed
<1> QED  BY <1>1, <1>2 DEF Typed

LEMMA NobodyKeeps ==
  ASSUME IInv, NEW ok \in BOOLEAN, Settling(ok), queue[1].for = "nobody", NobodySettles
  PROVE  IInv'
<1>1. Typed /\ TurnInv /\ AwaitInv /\ BarrierInv  BY DEF IInv
<1>2. UNCHANGED <<phase, todo, waits, clearing, ctx, openTurn, failed, held, autos>>
  BY DEF NobodySettles, turnVars, memoryVars
<1>3. queue # <<>> /\ used'.calls = used.calls /\ UNCHANGED <<disk, merged>>
      /\ synced' \in synced .. Len(disk)
  BY DEF Settling
<1>4. phase # "down"  BY <1>3, HeadIs
<1>5. Typed'
  <2>1. /\ phase' \in Phases /\ waits' \subseteq waits /\ openTurn' \in BOOLEAN
        /\ held' \in Seq(Nat) /\ autos' \in Nat
    BY <1>1, <1>2 DEF Typed
  <2> QED  BY <1>1, <1>2, <2>1, SettlingTyped
<1>6. TurnInv'  BY <1>1, <1>2, <1>3, <1>4 DEF TurnInv
<1>7. ctx' \in Seq(SoundMessages')  BY <1>2, SettlingKnows
<1>8. ASSUME NEW i \in 2 .. Len(queue), queue[i].for # "nobody" PROVE queue[i].for \in Awaits'
  <2>1. i \in 1 .. Len(queue)  OBVIOUS
  <2>2. queue[i].for \in Awaits  BY <1>1, <1>8, <2>1 DEF AwaitInv
  <2> QED  BY <1>2, <2>2 DEF Awaits
<1>9. phase' = "gate" /\ Current \notin failed' => Recorded(Current, synced')
  <2> SUFFICES ASSUME Recorded(Current, synced) PROVE Recorded(Current, synced')
    BY <1>1, <1>2 DEF BarrierInv
  <2>1. \A i \in 1 .. synced : i \in 1 .. synced'  BY <1>1, <1>3 DEF Typed
  <2> QED  BY <2>1 DEF Recorded, RecordedBelow
<1> QED  BY <1>2, <1>5, <1>6, <1>7, <1>8, <1>9, SettlingKeeps

LEMMA OneKeeps ==
  ASSUME IInv, NEW ok \in BOOLEAN, Settling(ok), queue[1].for \in {"turnStart", "cut"},
         phase' \in {"llm", "idle"}, openTurn' \in BOOLEAN,
         UNCHANGED <<todo, waits, clearing, ctx, held, autos>>
  PROVE  IInv'
<1>1. Typed /\ TurnInv  BY DEF IInv
<1>2. queue # <<>> /\ used'.calls = used.calls  BY DEF Settling
<1>3. queue[1].for \in Awaits /\ Len(queue) = 1  BY <1>2, HeadIs DEF Handlers
<1>4. phase \in {"start", "cutting"}  BY <1>3 DEF Awaits, AwaitedIn
<1>5. Typed'
  <2>1. phase' \in Phases  BY DEF Phases, Running
  <2> QED  BY <1>1, <2>1, SettlingTyped DEF Typed
<1>6. TurnInv'  BY <1>1, <1>2, <1>4 DEF TurnInv, Calling
<1>7. ctx' \in Seq(SoundMessages')  BY SettlingKnows
<1>8. 2 .. Len(queue) = {}  BY <1>3
<1> QED  BY <1>5, <1>6, <1>7, <1>8, SettlingKeeps

LEMMA BarrierKeeps ==
  ASSUME IInv, NEW ok \in BOOLEAN, Settling(ok), queue[1].for = "barrier",
         BarrierSettles(ok, queue[1].entry.id)
  PROVE  IInv'
<1>1. Typed /\ TurnInv /\ LogInv /\ BarrierInv  BY DEF IInv
<1>2. /\ failed' = (IF ok THEN failed \ {queue[1].entry.id} ELSE failed \cup {queue[1].entry.id})
      /\ phase' = "gate" /\ UNCHANGED <<todo, waits, clearing, ctx, openTurn, held, autos>>
  BY DEF BarrierSettles
<1>3. queue # <<>> /\ used'.calls = used.calls  BY DEF Settling
<1>4. queue[1].for \in Awaits /\ Len(queue) = 1  BY <1>3, HeadIs DEF Handlers
<1>5. phase = "barrier"  BY <1>4 DEF Awaits, AwaitedIn
<1>6. Typed'
  <2>1. /\ phase' \in Phases /\ waits' \subseteq waits /\ openTurn' \in BOOLEAN
        /\ held' \in Seq(Nat) /\ autos' \in Nat
    BY <1>1, <1>2 DEF Typed, Phases, Running
  <2> QED  BY <1>1, <1>2, <2>1, SettlingTyped
<1>7. TurnInv'  BY <1>1, <1>2, <1>3, <1>5 DEF TurnInv, Calling
<1>8. ctx' \in Seq(SoundMessages')  BY <1>2, SettlingKnows
<1>9. 2 .. Len(queue) = {}  BY <1>4
<1>10. phase' = "gate" /\ Current \notin failed' => Recorded(Current, synced')
  <2>1. 1 \in 1 .. Len(queue)  BY <1>4
  <2>2. /\ queue[1].entry.id = Current
        /\ syncing => Recorded(Current, Len(disk))
    BY <1>1, <2>1 DEF BarrierInv
  <2>3. Current \notin failed' => ok  BY <1>2, <2>2
  <2>4. ok => syncing /\ synced' = Len(disk)  BY DEF Settling
  <2> QED  BY <2>2, <2>3, <2>4
<1> QED  BY <1>2, <1>6, <1>7, <1>8, <1>9, <1>10, SettlingKeeps

LEMMA HandlerKeeps ==
  ASSUME IInv, NEW ok \in BOOLEAN, Settling(ok), NEW h \in Handlers, queue[1].for = h,
         HandlerSettles(h), openTurn' \in BOOLEAN,
         UNCHANGED <<todo, clearing, ctx, held, autos>>
  PROVE  IInv'
<1>1. Typed /\ TurnInv /\ AwaitInv  BY DEF IInv
<1>2. waits' = waits \ {h} /\ phase' = IF waits' = {} THEN "idle" ELSE phase
  BY DEF HandlerSettles
<1>3. queue # <<>> /\ used'.calls = used.calls  BY DEF Settling
<1>4. h \in Awaits  BY <1>3, HeadIs DEF Handlers
<1>5. phase = "ending" /\ h \in waits /\ (h = "clear" => ~clearing)
  BY <1>4 DEF Awaits, AwaitedIn, Handlers
<1>6. Typed'
  <2>1. /\ phase' \in Phases /\ waits' \subseteq waits
        /\ held' \in Seq(Nat) /\ autos' \in Nat
    BY <1>1, <1>2 DEF Typed, Phases
  <2> QED  BY <1>1, <2>1, SettlingTyped
<1>7. TurnInv'
  <2>1. clearing => "clear" \in waits' /\ phase' = "ending"
    BY <1>1, <1>2, <1>5 DEF TurnInv
  <2> QED  BY <1>1, <1>2, <1>3, <1>5, <2>1 DEF TurnInv, Calling
<1>8. ctx' \in Seq(SoundMessages')  BY SettlingKnows
<1>9. ASSUME NEW i \in 2 .. Len(queue), queue[i].for # "nobody" PROVE queue[i].for \in Awaits'
  <2>1. queue \in Seq(SoundWrites)  BY DEF IInv, LogInv
  <2>2. Len(queue) \in Nat  BY <2>1
  <2>3. i \in 1 .. Len(queue) /\ 1 \in 1 .. Len(queue) /\ i # 1  BY <2>2
  <2>4. queue[i].for \in Awaits  BY <1>1, <1>9, <2>3 DEF AwaitInv
  <2>5. queue[i].for # h  BY <1>1, <1>9, <2>3 DEF AwaitInv
  <2>6. queue[i].for \in Handlers /\ queue[i].for \in waits
    BY <1>5, <2>4 DEF Awaits, AwaitedIn, Handlers, Waiters
  <2>7. queue[i].for \in waits' /\ phase' = "ending"  BY <1>2, <1>5, <2>5, <2>6
  <2> QED  BY <1>5, <2>4, <2>7 DEF Awaits
<1>10. phase' \notin {"gate", "adopting"}  BY <1>2, <1>5
<1> QED  BY <1>6, <1>7, <1>8, <1>9, <1>10, SettlingKeeps

(* The replay says of no call that it never ran, but of those whose record  *)
(* was lost or lies above the reset.                                        *)
LEMMA ReplayIsSound ==
  ASSUME IInv, NEW ok \in BOOLEAN, Settling(ok), todo' = todo, todo = {}
  PROVE  ReplayEntries(Epoch(disk)) \in Seq(SoundMessages')
<1>1. Typed /\ RanIsRecorded  BY DEF IInv
<1>2. disk \in Seq(Entries) /\ Len(disk) \in Nat /\ synced \in 0 .. Len(disk)  BY <1>1 DEF Typed
<1>3. UNCHANGED <<disk, ran, merged>> /\ used'.calls = used.calls  BY DEF Settling
<1> DEFINE s == EpochStart(disk)
           entries == Epoch(disk)
           S == SoundMessages'
<1>4. /\ s \in 0 .. Len(disk) /\ (s # 0 => disk[s].src = "reset")
      /\ entries \in Seq(Entries) /\ Len(entries) = Len(disk) - s
      /\ \A i \in 1 .. Len(entries) : entries[i] = disk[s + i]
  BY <1>2, EpochFacts
<1> HIDE DEF s, entries
<1>5. ASSUME NEW i \in 1 .. Len(entries), IsMessage(entries[i]) PROVE entries[i] \in S
  <2>1. s + i \in 1 .. Len(disk) /\ entries[i] = disk[s + i]  BY <1>2, <1>4
  <2>2. (Known(disk[s + i]) /\ Backed(disk[s + i], s + i))'
    <3>1. \A k \in 1 .. Len(disk) : (Known(disk[k]) /\ Backed(disk[k], k))'  BY SettlingKnows
    <3> SUFFICES ASSUME NEW k \in 1 .. Len(disk), k = s + i
                 PROVE  Known(disk[s + i])' /\ Backed(disk[s + i], s + i)'
      BY <2>1
    <3>2. s' = s  BY <1>3 DEF s
    <3>3. Known(disk[k])' /\ Backed(disk[k], k)'  BY <3>1
    <3> QED  BY <3>2, <3>3 DEF Known, Backed
  <2>3. PICK e : e = entries[i]  OBVIOUS
  <2>4. e \in Messages
    <3>1. e \in Entries  BY <1>4, <2>3
    <3> QED  BY <1>5, <2>3, <3>1 DEF Messages
  <2>5. PICK k \in 1 .. Len(disk) : k = s + i /\ disk[k] = e  BY <2>1, <2>3
  <2>6. Known(e)' /\ Backed(e, k)'
    <3>1. Known(disk[k])' /\ Backed(disk[k], k)'  BY SettlingKnows
    <3> QED  BY <1>3, <2>5, <3>1 DEF Known, Backed
  <2>7. AboveReset(e.id, k)' => AboveReset(e.id, Len(disk))'
    <3>1. \A j \in 1 .. k : j \in 1 .. Len(disk)  BY <1>2
    <3> QED  BY <1>3, <3>1 DEF AboveReset
  <2>8. Sound(e)'  BY <2>6, <2>7 DEF Sound, Backed
  <2> QED  BY <2>3, <2>4, <2>8 DEF SoundMessages
<1>6. ASSUME NEW e \in S
      PROVE  e.calls \subseteq 1 .. used.calls /\ e.calls \subseteq Calls /\ IsFiniteSet(e.calls)
  <2>1. e.calls \subseteq 1 .. used.calls /\ e.calls \subseteq Calls
    BY <1>3 DEF SoundMessages, Sound, Known, Messages, Entries
  <2>2. MaxCalls \in Nat /\ 1 \in Int /\ MaxCalls \in Int  BY DurabilityAssumption
  <2>3. IsFiniteSet(Calls)  BY <2>2, FS_Interval DEF Calls
  <2> QED  BY <2>1, <2>3, FS_Subset
<1>7. ASSUME NEW e \in S, NEW id \in e.calls
      PROVE  ResultEntry(id, SynthesisFor(id, IdsOf(entries, "started"))) \in S
  <2>0. PICK started, note, r :
          /\ started = IdsOf(entries, "started") /\ note = SynthesisFor(id, started)
          /\ r = ResultEntry(id, note)
    OBVIOUS
  <2>1. id \in Nat /\ id \in 1 .. used.calls  BY <1>6 DEF Calls
  <2>2. note \in Synthesized  BY <2>0 DEF SynthesisFor, Synthesized
  <2>3. note = "notStarted" => id \notin started  BY <2>0 DEF SynthesisFor
  <2>4. r.id = id /\ r.note = note /\ r.calls = {} /\ r.src = "result"  BY <2>0 DEF ResultEntry
  <2>5. r \in Messages
    BY <2>0, <2>1, <2>2 DEF ResultEntry, Messages, Entries, IsMessage, Conversation, Notes
  <2>6. ASSUME id \notin started, id \in ran, id \notin merged PROVE AboveReset(id, Len(disk))
    <3>1. PICK i \in 1 .. synced : disk[i].src = "started" /\ disk[i].id = id
      BY <1>1, <2>6 DEF RanIsRecorded
    <3>2. i \in 1 .. Len(disk)  BY <1>2
    <3>3. i <= s
      <4> SUFFICES ASSUME ~(i <= s) PROVE FALSE  OBVIOUS
      <4>1. i - s \in 1 .. Len(entries) /\ s + (i - s) = i  BY <1>2, <1>4, <3>2
      <4>2. entries[i - s] = disk[i]  BY <1>4, <4>1
      <4>3. DOMAIN entries = 1 .. Len(entries)  BY <1>4
      <4>4. id \in started  BY <3>1, <4>1, <4>2, <4>3, <2>0 DEF IdsOf
      <4> QED  BY <2>6, <4>4
    <3>4. s \in 1 .. Len(disk) /\ s # 0  BY <1>2, <1>4, <3>2, <3>3
    <3>5. i # s /\ disk[s].src = "reset"  BY <1>4, <3>1, <3>4
    <3>6. i < s  BY <1>4, <3>2, <3>3, <3>5
    <3> QED  BY <3>1, <3>2, <3>4, <3>5, <3>6 DEF AboveReset
  <2>7. Known(r)'  BY <1>3, <2>1, <2>4 DEF Known
  <2>8. AboveReset(id, Len(disk))' = AboveReset(id, Len(disk))  BY <1>3 DEF AboveReset
  <2>9. Backed(r, Len(disk))'
    <3> SUFFICES ASSUME note = "notStarted", id \in ran, id \notin merged
                 PROVE  AboveReset(id, Len(disk))'
      BY <1>3, <2>4 DEF Backed
    <3> QED  BY <2>3, <2>6, <2>8
  <2>10. r \in S  BY <2>5, <2>7, <2>9 DEF SoundMessages, Sound
  <2> QED  BY <2>0, <2>10
<1> HIDE DEF S
<1>8. ReplayEntries(entries) \in Seq(S)  BY <1>4, <1>5, <1>6, <1>7, ReplayIsIn
<1> QED  BY <1>8 DEF S, entries

LEMMA RestoreKeeps ==
  ASSUME IInv, NEW ok \in BOOLEAN, Settling(ok), queue[1].for = "resume",
         Restore(disk', queue[1].entry.note)
  PROVE  IInv'
<1>1. Typed /\ TurnInv /\ LogInv  BY DEF IInv
<1>2. /\ ctx' = ReplayEntries(Epoch(disk)) /\ held' = PendingQuestions(Epoch(disk))
      /\ autos' = (IF queue[1].entry.note = "auto" THEN autos + 1 ELSE autos)
      /\ phase' = "idle" /\ UNCHANGED <<todo, waits, clearing, openTurn>>
  BY DEF Restore, Settling
<1>3. queue # <<>> /\ used'.calls = used.calls  BY DEF Settling
<1>4. queue[1].for \in Awaits /\ Len(queue) = 1  BY <1>3, HeadIs DEF Handlers
<1>5. phase = "adopting"  BY <1>4 DEF Awaits, AwaitedIn
<1>6. todo = {}  BY <1>1, <1>5 DEF TurnInv, Calling
<1>7. held' \in Seq(Nat)
  <2>1. Epoch(disk) \in Seq(Entries)  BY <1>1, EpochFacts DEF Typed
  <2>2. \A i \in 1 .. Len(Epoch(disk)) : Epoch(disk)[i] \in Entries  BY <2>1
  <2>3. \A i \in 1 .. Len(Epoch(disk)) : Epoch(disk)[i].id \in Nat  BY <2>2 DEF Entries
  <2> QED  BY <1>2, <2>1, <2>3, QuestionsAreIn
<1>8. Typed'
  <2>1. phase' \in Phases /\ waits' \subseteq waits /\ openTurn' \in BOOLEAN /\ autos' \in Nat
    BY <1>1, <1>2 DEF Typed, Phases
  <2> QED  BY <1>1, <1>2, <1>7, <2>1, SettlingTyped
<1>9. TurnInv'  BY <1>1, <1>2, <1>3, <1>5, <1>6 DEF TurnInv, Calling
<1>10. ctx' \in Seq(SoundMessages')  BY <1>2, <1>6, ReplayIsSound
<1>11. 2 .. Len(queue) = {}  BY <1>4
<1>12. \/ autos' = autos
       \/ /\ autos' = autos + 1 /\ Len(queue) = 1
          /\ queue[1].for = "resume" /\ queue[1].entry.note = "auto"
  BY <1>2, <1>4
<1> QED  BY <1>2, <1>8, <1>9, <1>10, <1>11, <1>12, SettlingKeeps

LEMMA SettleKeeps ==
  ASSUME IInv, NEW ok \in BOOLEAN, Settling(ok), Settle(Head(queue), ok)
  PROVE  IInv'
<1>1. Typed /\ queue # <<>>  BY DEF IInv, Settling
<1>2. queue[1].for \in Waiters /\ Head(queue) = queue[1]  BY <1>1, HeadIs
<1>3. CASE queue[1].for = "nobody"
  <2>1. NobodySettles  BY <1>2, <1>3 DEF Settle
  <2> QED  BY <1>3, <2>1, NobodyKeeps
<1>4. CASE queue[1].for = "turnStart"
  <2>1. TurnStartSettles(ok)  BY <1>2, <1>4 DEF Settle
  <2>2. /\ phase' \in {"llm", "idle"} /\ openTurn' \in BOOLEAN
        /\ UNCHANGED <<todo, waits, clearing, ctx, held, autos>>
    BY <1>1, <2>1 DEF TurnStartSettles, Typed
  <2> QED  BY <1>4, <2>2, OneKeeps
<1>5. CASE queue[1].for = "barrier"
  <2>1. BarrierSettles(ok, queue[1].entry.id)  BY <1>2, <1>5 DEF Settle
  <2> QED  BY <1>5, <2>1, BarrierKeeps
<1>6. CASE queue[1].for = "turnEnd"
  <2>1. TurnEndSettles(ok)  BY <1>2, <1>6 DEF Settle
  <2>2. /\ HandlerSettles("turnEnd") /\ openTurn' \in BOOLEAN
        /\ UNCHANGED <<todo, clearing, ctx, held, autos>>
    BY <1>1, <2>1 DEF TurnEndSettles, Typed
  <2>3. "turnEnd" \in Handlers  BY DEF Handlers
  <2> QED  BY <1>6, <2>2, <2>3, HandlerKeeps
<1>7. CASE queue[1].for = "clear"
  <2>1. ClearSettles(ok)  BY <1>2, <1>7 DEF Settle
  <2>2. /\ HandlerSettles("clear") /\ openTurn' \in BOOLEAN
        /\ UNCHANGED <<todo, clearing, ctx, held, autos>>
    BY <1>1, <2>1 DEF ClearSettles, Typed
  <2>3. "clear" \in Handlers  BY DEF Handlers
  <2> QED  BY <1>7, <2>2, <2>3, HandlerKeeps
<1>8. CASE queue[1].for = "cut"
  <2>1. CutSettles(ok)  BY <1>2, <1>8 DEF Settle
  <2>2. /\ phase' \in {"llm", "idle"} /\ openTurn' \in BOOLEAN
        /\ UNCHANGED <<todo, waits, clearing, ctx, held, autos>>
    BY <1>1, <2>1 DEF CutSettles, Typed
  <2> QED  BY <1>8, <2>2, OneKeeps
<1>9. CASE queue[1].for = "resume"
  <2>1. Restore(disk', queue[1].entry.note)  BY <1>2, <1>9 DEF Settle
  <2> QED  BY <1>9, <2>1, RestoreKeeps
<1> QED  BY <1>2, <1>3, <1>4, <1>5, <1>6, <1>7, <1>8, <1>9 DEF Waiters

LEMMA WriterSyncsKeeps == IInv /\ WriterSyncs => IInv'
<1> SUFFICES ASSUME IInv, WriterSyncs PROVE IInv'  OBVIOUS
<1>1. Typed /\ AwaitInv  BY DEF IInv
<1>2. queue # <<>> /\ syncing  BY <1>1 DEF WriterSyncs, AwaitInv
<1>3. Len(disk) \in synced .. Len(disk)  BY <1>1 DEF Typed
<1>4. Settling(TRUE)  BY <1>1, <1>2, <1>3 DEF WriterSyncs, Settling, Typed
<1>5. Settle(Head(queue), TRUE)  BY DEF WriterSyncs
<1> QED  BY <1>4, <1>5, SettleKeeps

LEMMA FaultIs ==
  ASSUME Typed, Spend("faults", MaxFaults)
  PROVE  /\ used' \in [{"prompts", "calls", "replies", "cuts", "faults", "crashes"} -> Nat]
         /\ used'.calls = used.calls /\ used'.faults # 0
<1>1. used.faults \in Nat  BY DEF Typed
<1> QED  BY <1>1 DEF Typed, Spend

LEMMA AppendFailsKeeps == IInv /\ AppendFails => IInv'
<1> SUFFICES ASSUME IInv, AppendFails PROVE IInv'  OBVIOUS
<1>1. Typed  BY DEF IInv
<1>2. /\ queue # <<>> /\ queue' = Tail(queue) /\ syncing' = FALSE
      /\ UNCHANGED <<disk, synced, ran, merged>> /\ torn' \in BOOLEAN
  BY <1>1 DEF AppendFails, Typed
<1>3. synced' \in synced .. Len(disk)  BY <1>1, <1>2 DEF Typed
<1>4. Spend("faults", MaxFaults) /\ Settle(Head(queue), FALSE)  BY DEF AppendFails
<1>5. Settling(FALSE)  BY <1>1, <1>2, <1>3, <1>4, FaultIs DEF Settling
<1> QED  BY <1>4, <1>5, SettleKeeps

LEMMA SyncFailsKeeps == IInv /\ SyncFails => IInv'
<1> SUFFICES ASSUME IInv, SyncFails PROVE IInv'  OBVIOUS
<1>1. Typed /\ AwaitInv  BY DEF IInv
<1>2. /\ queue # <<>> /\ queue' = Tail(queue) /\ syncing' = FALSE
      /\ UNCHANGED <<disk, synced, ran, merged>> /\ torn' \in BOOLEAN
  BY <1>1 DEF SyncFails, fileVars, Typed, AwaitInv
<1>3. synced' \in synced .. Len(disk)  BY <1>1, <1>2 DEF Typed
<1>4. Spend("faults", MaxFaults) /\ Settle(Head(queue), FALSE)  BY DEF SyncFails
<1>5. Settling(FALSE)  BY <1>1, <1>2, <1>3, <1>4, FaultIs DEF Settling
<1> QED  BY <1>4, <1>5, SettleKeeps

-----------------------------------------------------------------------------
LEMMA StutterKeeps == IInv /\ UNCHANGED vars => IInv'
<1> SUFFICES ASSUME IInv, UNCHANGED vars PROVE IInv'  OBVIOUS
<1>1. UNCHANGED <<disk, synced, torn, queue, syncing, phase, todo, waits, clearing, ctx, openTurn,
                  failed, held, used, ran, merged, autos>>
  BY DEF vars, fileVars, writerVars, turnVars, memoryVars, history
<1>2. Typed' /\ TurnInv' /\ RanIsRecorded' /\ AdoptInv'
  BY <1>1 DEF IInv, Typed, TurnInv, RanIsRecorded, AdoptInv
<1>3. AwaitInv' /\ BarrierInv'
  BY <1>1 DEF IInv, AwaitInv, Awaits, BarrierInv, Current, Recorded, RecordedBelow
<1>4. LogInv'
  BY <1>1 DEF IInv, LogInv, SoundMessages, SoundWrites, Sound, Known, Backed, AboveReset
<1>5. AutoInv'
  BY <1>1 DEF IInv, AutoInv, CapInv, AutosOf
<1> QED  BY <1>2, <1>3, <1>4, <1>5 DEF IInv

(* Every step of the writer, of a turn, of a cut, of a death and of an      *)
(* adoption keeps what the log, the queue and the context say of the calls. *)
THEOREM LogInvariant == Spec => []IInv
<1>1. ASSUME IInv, [Next]_vars PROVE IInv'
  BY <1>1, WriterAppendsKeeps, WriterSyncsKeeps, AppendFailsKeeps, SyncFailsKeeps,
     SendPromptKeeps, SendRejectedKeeps, ContinueTurnKeeps, LlmRepliesKeeps, LlmFailsKeeps,
     DispatchCallKeeps, AnswerUnrunKeeps, ExecuteKeeps, AskQuestionKeeps, ToolReturnsKeeps,
     CutKeeps, ClearAtTurnEndKeeps, CrashKeeps, AdoptKeeps, AnswerHeldKeeps, StutterKeeps
  DEF Next
<1> QED  BY <1>1, InvariantInit, PTL DEF Spec

(* A call that ran is on record before it runs, whatever fails or dies      *)
(* (session-log/index.ts:482-557), and no resume tells the model that it    *)
(* never ran (session-log.ts:760-777): for every number of prompts, calls,  *)
(* faults and crashes.                                                      *)
THEOREM EffectsAreRecorded == Spec => []EffectsRecorded
<1>1. IInv => EffectsRecorded  BY InvariantIsSafe
<1> QED  BY <1>1, LogInvariant, PTL

(* As long as no write fails, the session is not resumed automatically more *)
(* than AutoCap times without progress (session-log.ts:433), wherever the   *)
(* process dies and however much of the file a power loss takes.            *)
THEOREM AutoResumesAreCapped == Spec => []AutoResumesCapped
<1>1. IInv => AutoResumesCapped  BY InvariantIsSafe
<1> QED  BY <1>1, LogInvariant, PTL

-----------------------------------------------------------------------------
(* The directory of a workflow run.                                        *)

USE RunDirAssumption

-----------------------------------------------------------------------------
(* The inductive invariant                                                 *)

(* A flow past the registry, from the claim of run() to its finally.        *)
InRun(f) == pc[f] \in {"open", "drive", "leave"}

(* The registry of a process names the one flow of it that is in run().     *)
Registered ==
  \A f \in Flows : /\ InRun(f) => stage[f] = "run"
                   /\ stage[f] = "run" => active[Home[f]] = f

(* Only a claim about to put a rival's marker back holds one.               *)
AsideToPutBack == \A f \in Flows : aside[f] # None => pc[f] = "restore"

(* The marker names whoever is in run(), from the claim to the finally,     *)
(* unless it is displaced: between the claim and the first journal line too. *)
MarkerNamesRun == \A f \in Flows : InRun(f) => owner = Home[f] \/ Displaced(Home[f])

RunDirInv == RunDirTypeOK /\ Registered /\ AsideToPutBack /\ MarkerNamesRun

(* The invariant says that a directory has one writer: two drivers in two    *)
(* processes cannot both be named by one marker, and whoever holds one of    *)
(* their markers is at "restore" and so neither of them.                    *)
LEMMA Exclusion == RunDirInv => ClaimsExclude
<1> SUFFICES ASSUME RunDirInv PROVE ClaimsExclude
  OBVIOUS
<1>1. MarkerNamesDriver BY DEF RunDirInv, MarkerNamesRun, MarkerNamesDriver, InRun, Drives
<1>2. OnePerProcess BY DEF RunDirInv, Registered, OnePerProcess, InRun, Drives
<1>3. DoubleOnlyAstray
  <2> SUFFICES ASSUME NEW f \in Flows, NEW g \in Flows,
                      Drives(f), Drives(g), Home[f] # Home[g]
               PROVE  \/ {Home[f], Home[g]} \cap astray # {}
                      \/ \E x \in Flows \ {f, g} : aside[x] \in {Home[f], Home[g]}
    BY DEF DoubleOnlyAstray
  <2>1. PICK p \in {Home[f], Home[g]} : Displaced(p) BY <1>1 DEF MarkerNamesDriver
  <2>2. CASE p \in astray BY <2>2
  <2>3. CASE p \notin astray
    <3>1. PICK x \in Flows : aside[x] = p BY <2>1, <2>3 DEF Displaced
    <3>2. p # None BY DEF RunDirInv
    <3>3. pc[x] = "restore" BY <3>1, <3>2 DEF RunDirInv, AsideToPutBack
    <3>4. x \notin {f, g} BY <3>3 DEF Drives
    <3>5. QED BY <3>1, <3>4
  <2>4. QED BY <2>2, <2>3
<1>4. QED BY <1>1, <1>2, <1>3 DEF RunDirInv, ClaimsExclude

-----------------------------------------------------------------------------
(* How the control of a claim moves                                        *)

(* What every end of a step of f does to the flows: it moves f, it may      *)
(* register f where nothing is, or take f out of the registry.             *)
Moved(f) ==
  /\ pc' \in [Flows -> {"idle", "read", "discard", "restore", "create", "fresh", "reread",
                        "corrupt", "open", "drive", "leave"}]
  /\ round' \in [Flows -> 1 .. Rounds] /\ stage' \in [Flows -> {"tool", "run"}]
  /\ active' \in [Procs -> Flows \cup {None}]
  /\ \A g \in Flows \ {f} : pc'[g] = pc[g] /\ stage'[g] = stage[g]
  /\ Registered'

LEMMA FailsMoves ==
  ASSUME RunDirTypeOK, Registered, NEW f \in Flows, Fails(f)
  PROVE  Moved(f) /\ pc'[f] = "idle"
  BY DEF RunDirTypeOK, Registered, Fails, At, Moved, InRun

LEMMA ClaimsMoves ==
  ASSUME RunDirTypeOK, Registered, NEW f \in Flows, Claims(f)
  PROVE  Moved(f) /\ pc'[f] \in {"idle", "read", "open"}
<1>1. CASE stage[f] = "run" /\ Goes(f, "open")
  BY <1>1 DEF RunDirTypeOK, Registered, Goes, Same, At, Moved, InRun
<1>2. CASE Fails(f) BY <1>2, FailsMoves
<1>3. CASE stage[f] = "tool" /\ active[Home[f]] = None /\ ~Fails(f)
  <2>1. /\ active' = [active EXCEPT ![Home[f]] = f]
        /\ stage' = [stage EXCEPT ![f] = "run"] /\ round' = [round EXCEPT ![f] = 1]
        /\ pc' = [pc EXCEPT ![f] = "read"]
    BY <1>3 DEF Claims, At
  <2>2. f # None /\ Home[f] \in Procs OBVIOUS
  <2>3. QED BY <1>3, <2>1, <2>2 DEF RunDirTypeOK, Registered, Moved, InRun
<1>4. QED BY <1>1, <1>2, <1>3 DEF Claims

LEMMA AgainMoves ==
  ASSUME RunDirTypeOK, Registered, NEW f \in Flows, Again(f)
  PROVE  Moved(f) /\ pc'[f] \in {"idle", "read"}
<1>1. CASE Fails(f) BY <1>1, FailsMoves
<1>2. CASE ~Fails(f)
  BY <1>2 DEF RunDirTypeOK, Registered, Again, At, Moved, InRun
<1>3. QED BY <1>1, <1>2

LEMMA GoesMoves ==
  ASSUME RunDirTypeOK, Registered, NEW f \in Flows,
         NEW where \in {"read", "discard", "restore", "create", "fresh", "reread",
                        "corrupt", "drive", "leave"},
         where \in {"drive", "leave"} => InRun(f), Goes(f, where)
  PROVE  Moved(f) /\ pc'[f] = where
  BY DEF RunDirTypeOK, Registered, Goes, Same, At, Moved, InRun

-----------------------------------------------------------------------------
(* Every step keeps the invariant                                          *)

(* A step of f that leaves the markers alone, or that leaves every flow but  *)
(* f its marker or its excuse, keeps the invariant.                        *)
LEMMA MovedKeeps ==
  ASSUME RunDirInv, NEW f \in Flows, Moved(f),
         owner' \in Procs \cup {Dead, None}, aside' \in [Flows -> Procs \cup {Dead, None}],
         astray' \subseteq Procs, journal' \in [finished : BOOLEAN, skipped : BOOLEAN,
                  last : {"node", "resumed", "interrupted", "finished"}],
         UNCHANGED bookVars, troubles' \in 0 .. MaxTroubles,
         \A g \in Flows \ {f} : aside'[g] = aside[g],
         aside'[f] # None => pc'[f] = "restore",
         \A g \in Flows : InRun(g)' /\ (InRun(g) \/ g = f)
                            => owner' = Home[g] \/ Displaced(Home[g])'
  PROVE  RunDirInv'
<1>1. RunDirTypeOK' BY DEF RunDirInv, RunDirTypeOK, Moved, bookVars
<1>2. AsideToPutBack' BY DEF RunDirInv, AsideToPutBack, Moved
<1>3. MarkerNamesRun'
  <2>1. ASSUME NEW g \in Flows \ {f}, InRun(g)' PROVE InRun(g)
    BY <2>1 DEF Moved, InRun
  <2>2. QED BY <2>1 DEF MarkerNamesRun
<1>4. QED BY <1>1, <1>2, <1>3 DEF RunDirInv, Moved

LEMMA DispatchRunKeeps ==
  ASSUME RunDirInv, NEW f \in Flows, DispatchRun(f)
  PROVE  RunDirInv'
<1>1. Moved(f) /\ pc'[f] = "read" BY GoesMoves DEF DispatchRun, RunDirInv
<1>2. /\ UNCHANGED <<owner, aside, astray, journal, bookVars>> /\ pc[f] = "idle"
      /\ troubles' \in 0 .. MaxTroubles
  BY DEF DispatchRun, Strike, RunDirInv, RunDirTypeOK
<1>3. QED
  BY <1>1, <1>2, MovedKeeps DEF RunDirInv, RunDirTypeOK, AsideToPutBack, MarkerNamesRun, InRun, Displaced

LEMMA ReadKeeps ==
  ASSUME RunDirInv, NEW f \in Flows, Read(f)
  PROVE  RunDirInv'
<1>1. Moved(f) /\ pc'[f] \in {"fresh", "discard", "idle", "read", "open"}
  BY GoesMoves, ClaimsMoves, FailsMoves DEF Read, RunDirInv
<1>2. ASSUME InRun(f)' PROVE owner = Home[f]
  BY <1>2, GoesMoves, FailsMoves DEF Read, RunDirInv, InRun
<1>3. UNCHANGED <<owner, aside, astray, journal, bookVars, troubles>> /\ aside[f] = None
  BY DEF Read, Calm, RunDirInv, AsideToPutBack
<1>4. QED
  BY <1>1, <1>2, <1>3, MovedKeeps DEF RunDirInv, RunDirTypeOK, MarkerNamesRun, InRun, Displaced

(* Whatever a claim finds and moves aside, the flow whose marker it is has   *)
(* an excuse: the marker is aside, or gone for good with the process alive.  *)
LEMMA DiscardsKeep ==
  ASSUME RunDirInv, NEW f \in Flows, NEW foul \in BOOLEAN,
         pc[f] \in {"discard", "corrupt"}, Discards(f, foul), Strays(f), Calm
  PROVE  RunDirInv'
<1>1. UNCHANGED <<journal, bookVars, troubles>> /\ aside[f] = None
  BY DEF Calm, RunDirInv, AsideToPutBack
<1>2. /\ Moved(f) /\ pc'[f] \in {"create", "restore", "idle", "read", "open"}
      /\ astray' = astray \cup ({owner} \cap {Home[f]}) /\ astray' \subseteq Procs
  BY GoesMoves, ClaimsMoves, AgainMoves DEF Discards, Strays, RunDirInv, RunDirTypeOK
<1>3. CASE owner = None
  <2>1. UNCHANGED <<owner, aside>> /\ pc'[f] \in {"idle", "read"} /\ astray' = astray
    BY <1>2, <1>3, AgainMoves DEF Discards, RunDirInv
  <2>2. QED
    BY <1>1, <1>2, <2>1, MovedKeeps DEF RunDirInv, RunDirTypeOK, MarkerNamesRun, InRun, Displaced
<1>4. CASE owner # None /\ owner \notin Procs \ {Home[f]}
  <2>1. owner' = None /\ UNCHANGED aside BY <1>4 DEF Discards
  <2>2. InRun(f)' => owner = Home[f]
    BY <1>4, GoesMoves, AgainMoves DEF Discards, RunDirInv, InRun
  <2>3. ASSUME NEW g \in Flows, InRun(g) PROVE Displaced(Home[g])'
    <3>1. owner = Home[g] => Home[g] \in astray' BY <1>2, <1>4
    <3>2. Displaced(Home[g]) => Displaced(Home[g])' BY <1>2, <2>1 DEF Displaced
    <3>3. QED BY <2>3, <3>1, <3>2 DEF RunDirInv, MarkerNamesRun, Displaced
  <2>4. InRun(f)' => Displaced(Home[f])' BY <1>2, <2>2 DEF Displaced
  <2>5. QED
    BY <1>1, <1>2, <2>1, <2>3, <2>4, MovedKeeps DEF RunDirInv, RunDirTypeOK
<1>5. CASE owner \in Procs \ {Home[f]}
  <2>1. owner' = None /\ aside' = [aside EXCEPT ![f] = owner] /\ pc'[f] = "restore"
    BY <1>5, GoesMoves DEF Discards, RunDirInv
  <2>2. ASSUME NEW g \in Flows, InRun(g) PROVE Displaced(Home[g])'
    <3>1. CASE Displaced(Home[g])
      BY <1>1, <1>2, <2>1, <3>1 DEF Displaced, RunDirInv, RunDirTypeOK
    <3>2. CASE owner = Home[g]
      BY <2>1, <3>2 DEF Displaced, RunDirInv, RunDirTypeOK
    <3>3. QED BY <2>2, <3>1, <3>2 DEF RunDirInv, MarkerNamesRun
  <2>3. ~InRun(f)' BY <2>1 DEF InRun
  <2>4. QED
    BY <1>1, <1>2, <2>1, <2>2, <2>3, MovedKeeps DEF RunDirInv, RunDirTypeOK
<1>6. QED BY <1>3, <1>4, <1>5

LEMMA PutBackKeeps ==
  ASSUME RunDirInv, NEW f \in Flows, PutBack(f)
  PROVE  RunDirInv'
<1>1. /\ Moved(f) /\ pc'[f] \in {"idle", "read"}
      /\ UNCHANGED <<journal, bookVars, troubles>>
      /\ owner' = IF owner = None THEN aside[f] ELSE owner
      /\ aside' = [aside EXCEPT ![f] = None]
      /\ astray' = IF owner = None THEN astray ELSE astray \cup ({aside[f]} \cap Procs)
  BY AgainMoves DEF PutBack, Restored, Calm, RunDirInv
<1>2. ASSUME NEW g \in Flows, InRun(g) PROVE owner' = Home[g] \/ Displaced(Home[g])'
  <2>1. owner = Home[g] \/ Displaced(Home[g]) BY <1>2 DEF RunDirInv, MarkerNamesRun
  <2>2. CASE owner = Home[g] \/ Home[g] \in astray BY <1>1, <2>2 DEF Displaced
  <2>3. CASE \E x \in Flows : aside[x] = Home[g]
    <3>1. PICK x \in Flows : aside[x] = Home[g] BY <2>3
    <3>2. CASE x = f BY <1>1, <3>1, <3>2 DEF Displaced
    <3>3. CASE x # f BY <1>1, <3>1, <3>3 DEF Displaced, RunDirInv, RunDirTypeOK
    <3>4. QED BY <3>2, <3>3
  <2>4. QED BY <2>1, <2>2, <2>3 DEF Displaced
<1>3. ~InRun(f)' BY <1>1 DEF InRun
<1>4. QED BY <1>1, <1>2, <1>3, MovedKeeps DEF RunDirInv, RunDirTypeOK

LEMMA CreateKeeps ==
  ASSUME RunDirInv, NEW f \in Flows, Create(f)
  PROVE  RunDirInv'
<1>1. UNCHANGED <<aside, journal, bookVars, troubles>> /\ aside[f] = None
  BY DEF Create, Calm, RunDirInv, AsideToPutBack
<1>2. CASE owner = None /\ owner' = Home[f] /\ astray' = astray \ {Home[f]} /\ Claims(f)
  <2>1. Moved(f) BY <1>2, ClaimsMoves DEF RunDirInv
  <2>2. QED
    BY <1>1, <1>2, <2>1, MovedKeeps DEF RunDirInv, RunDirTypeOK, MarkerNamesRun, Displaced
<1>3. CASE UNCHANGED <<owner, astray>> /\ (Goes(f, "reread") \/ Again(f))
  <2>1. Moved(f) /\ ~InRun(f)' BY <1>3, GoesMoves, AgainMoves DEF RunDirInv, InRun
  <2>2. QED
    BY <1>1, <1>3, <2>1, MovedKeeps DEF RunDirInv, RunDirTypeOK, MarkerNamesRun, Displaced
<1>4. QED BY <1>2, <1>3 DEF Create

LEMMA RereadKeeps ==
  ASSUME RunDirInv, NEW f \in Flows, Reread(f)
  PROVE  RunDirInv'
<1>1. Moved(f) /\ ~InRun(f)'
  BY GoesMoves, AgainMoves DEF Reread, RunDirInv, InRun
<1>2. UNCHANGED <<owner, aside, astray, journal, bookVars, troubles>> /\ aside[f] = None
  BY DEF Reread, Calm, RunDirInv, AsideToPutBack
<1>3. QED
  BY <1>1, <1>2, MovedKeeps DEF RunDirInv, RunDirTypeOK, MarkerNamesRun, Displaced

LEMMA RunKeeps ==
  ASSUME RunDirInv, NEW f \in Flows, Open(f) \/ Finish(f)
  PROVE  RunDirInv'
<1>1. Moved(f) /\ InRun(f)
  BY GoesMoves DEF Open, Finish, RunDirInv, InRun
<1>2. UNCHANGED <<owner, aside, astray, bookVars>> /\ aside[f] = None
  BY DEF Open, Finish, RunDirInv, AsideToPutBack
<1>3. /\ journal' \in [finished : BOOLEAN, skipped : BOOLEAN,
                       last : {"node", "resumed", "interrupted", "finished"}]
      /\ troubles' \in 0 .. MaxTroubles
  <2>1. CASE Open(f) BY <2>1 DEF Open, Strike, RunDirInv, RunDirTypeOK
  <2>2. CASE Finish(f) BY <2>2 DEF Finish, RunDirInv, RunDirTypeOK
  <2>3. QED BY <2>1, <2>2
<1>4. QED
  BY <1>1, <1>2, <1>3, MovedKeeps DEF RunDirInv, RunDirTypeOK, MarkerNamesRun, Displaced

(* The finally takes the marker whoever's it is: nobody else of the process  *)
(* is in run(), and a rival that was named is then astray.                 *)
LEMMA LeaveKeeps ==
  ASSUME RunDirInv, NEW f \in Flows, Leave(f)
  PROVE  RunDirInv'
<1>1. Moved(f) /\ ~InRun(f)' BY FailsMoves DEF Leave, RunDirInv, InRun
<1>2. /\ owner' = None /\ UNCHANGED <<aside, journal, bookVars, troubles>> /\ aside[f] = None
      /\ astray' = (astray \cup ({owner} \cap Procs)) \ {Home[f]}
  BY DEF Leave, Calm, RunDirInv, AsideToPutBack
<1>3. ASSUME NEW g \in Flows \ {f}, InRun(g) PROVE Displaced(Home[g])'
  <2>1. Home[g] # Home[f]
    BY <1>3 DEF Leave, RunDirInv, Registered, InRun
  <2>2. QED BY <1>2, <1>3, <2>1 DEF RunDirInv, MarkerNamesRun, Displaced
<1>4. QED BY <1>1, <1>2, <1>3, MovedKeeps DEF RunDirInv, RunDirTypeOK

(* A process dies with its flows; what they took of others is lost.         *)
LEMMA KillKeeps ==
  ASSUME RunDirInv, NEW p \in Procs, Kill(p)
  PROVE  RunDirInv'
<1> DEFINE mine == {f \in Flows : Home[f] = p}
<1>1. /\ owner' = Gone(p, owner) /\ active' = [active EXCEPT ![p] = None]
      /\ aside' = [f \in Flows |-> IF f \in mine THEN None ELSE Gone(p, aside[f])]
      /\ pc' = [f \in Flows |-> IF f \in mine THEN "idle" ELSE pc[f]]
      /\ round' = [f \in Flows |-> IF f \in mine THEN 1 ELSE round[f]]
      /\ stage' = [f \in Flows |-> IF f \in mine THEN "tool" ELSE stage[f]]
      /\ scan' = [scan EXCEPT ![p] = "due"] /\ retire' = [retire EXCEPT ![p] = "idle"]
      /\ astray' = (astray \cup ({aside[f] : f \in mine} \cap Procs)) \ {p}
      /\ UNCHANGED journal /\ troubles' \in 0 .. MaxTroubles
  BY DEF Kill, Strike, RunDirInv, RunDirTypeOK
<1>2. RunDirTypeOK'
  <2>1. owner' \in Procs \cup {Dead, None} BY <1>1 DEF Gone, RunDirInv, RunDirTypeOK
  <2>2. aside' \in [Flows -> Procs \cup {Dead, None}] BY <1>1 DEF Gone, RunDirInv, RunDirTypeOK
  <2>3. active' \in [Procs -> Flows \cup {None}] /\ astray' \subseteq Procs
    BY <1>1 DEF RunDirInv, RunDirTypeOK
  <2>4. round' \in [Flows -> 1 .. Rounds] BY <1>1 DEF RunDirInv, RunDirTypeOK
  <2>5. stage' \in [Flows -> {"tool", "run"}] BY <1>1 DEF RunDirInv, RunDirTypeOK
  <2>6. /\ scan' \in [Procs -> {"due", "owner", "mark", "idle"}]
        /\ retire' \in [Procs -> {"owner", "append", "idle"}]
    BY <1>1 DEF RunDirInv, RunDirTypeOK
  <2>7. pc' \in [Flows -> {"idle", "read", "discard", "restore", "create", "fresh", "reread",
                           "corrupt", "open", "drive", "leave"}]
    BY <1>1 DEF RunDirInv, RunDirTypeOK
  <2>8. QED BY <1>1, <2>1, <2>2, <2>3, <2>4, <2>5, <2>6, <2>7 DEF RunDirInv, RunDirTypeOK
<1>3. Registered' BY <1>1 DEF RunDirInv, RunDirTypeOK, Registered, InRun
<1>4. AsideToPutBack' BY <1>1 DEF RunDirInv, AsideToPutBack, Gone
<1>5. MarkerNamesRun'
  <2> SUFFICES ASSUME NEW g \in Flows, InRun(g)'
               PROVE  owner' = Home[g] \/ Displaced(Home[g])'
    BY DEF MarkerNamesRun
  <2>1. InRun(g) /\ Home[g] # p BY <1>1 DEF InRun
  <2>2. owner = Home[g] \/ Displaced(Home[g]) BY <2>1 DEF RunDirInv, MarkerNamesRun
  <2>3. CASE owner = Home[g] BY <1>1, <2>1, <2>3 DEF Gone
  <2>4. CASE Home[g] \in astray BY <1>1, <2>1, <2>4 DEF Displaced
  <2>5. CASE \E x \in Flows : aside[x] = Home[g]
    <3>1. PICK x \in Flows : aside[x] = Home[g] BY <2>5
    <3>2. CASE x \in mine BY <1>1, <2>1, <3>1, <3>2 DEF Displaced
    <3>3. CASE x \notin mine
      <4>1. aside'[x] = Home[g] BY <1>1, <2>1, <3>1, <3>3 DEF Gone
      <4>2. QED BY <4>1 DEF Displaced
    <3>4. QED BY <3>2, <3>3
  <2>6. QED BY <2>2, <2>3, <2>4, <2>5 DEF Displaced
<1>6. QED BY <1>2, <1>3, <1>4, <1>5 DEF RunDirInv

(* The scans, the skips and the driver's work touch the books only.         *)
LEMMA BooksKeep ==
  ASSUME RunDirInv, UNCHANGED claimVars, RunDirTypeOK'
  PROVE  RunDirInv'
BY DEF RunDirInv, Registered, AsideToPutBack, MarkerNamesRun, InRun, Displaced, claimVars

LEMMA OthersKeep ==
  ASSUME RunDirInv, NEW p \in Procs,
         \/ ScanJournal(p) \/ ScanOwner(p) \/ Mark(p)
         \/ Skip(p) \/ SkipOwner(p) \/ SkipAppend(p)
  PROVE  RunDirInv'
<1>1. UNCHANGED claimVars
  BY DEF ScanJournal, ScanOwner, Mark, Skip, SkipOwner, SkipAppend
<1>2. RunDirTypeOK'
  <2> USE DEF Books, claimVars, RunDirInv, RunDirTypeOK
  <2>1. CASE ScanJournal(p) BY <2>1 DEF ScanJournal
  <2>2. CASE ScanOwner(p) BY <2>2 DEF ScanOwner
  <2>3. CASE Mark(p) BY <2>3 DEF Mark
  <2>4. CASE Skip(p) BY <2>4 DEF Skip, Strike
  <2>5. CASE SkipOwner(p) BY <2>5 DEF SkipOwner
  <2>6. CASE SkipAppend(p) BY <2>6 DEF SkipAppend
  <2>7. QED BY <2>1, <2>2, <2>3, <2>4, <2>5, <2>6
<1>3. QED BY <1>1, <1>2, BooksKeep

LEMMA RunDirNextKeeps == RunDirInv /\ [RunDirNext]_runDirVars => RunDirInv'
<1> SUFFICES ASSUME RunDirInv, [RunDirNext]_runDirVars PROVE RunDirInv'
  OBVIOUS
<1>1. ASSUME NEW f \in Flows, Discard(f) \/ Corrupt(f) PROVE RunDirInv'
  BY <1>1, DiscardsKeep DEF Discard, Corrupt
<1>2. ASSUME NEW f \in Flows, Work(f) PROVE RunDirInv'
  <2>1. UNCHANGED claimVars /\ RunDirTypeOK'
    BY <1>2 DEF Work, RunDirInv, RunDirTypeOK, claimVars, bookVars
  <2>2. QED BY <2>1, BooksKeep
<1>3. CASE UNCHANGED runDirVars
  <2>1. RunDirTypeOK' BY <1>3 DEF runDirVars, claimVars, bookVars, RunDirInv, RunDirTypeOK
  <2>2. QED BY <1>3, <2>1, BooksKeep DEF runDirVars
<1>4. QED
  BY <1>1, <1>2, <1>3, DispatchRunKeeps, ReadKeeps, PutBackKeeps, CreateKeeps, RereadKeeps,
     RunKeeps, LeaveKeeps, KillKeeps, OthersKeep DEF RunDirNext

LEMMA RunDirInitHolds == RunDirInit => RunDirInv
BY DEF RunDirInit, RunDirInv, RunDirTypeOK, Registered, AsideToPutBack, MarkerNamesRun, InRun, Displaced

-----------------------------------------------------------------------------

(* Through every interleaving of claims, crashes, scans and skips, the flow  *)
(* that is past a claim is the one its process registers, and the marker     *)
(* names its process unless that marker was displaced.                     *)
THEOREM RunDirInvariant == RunDirSpec => []RunDirInv
<1>1. QED BY RunDirInitHolds, RunDirNextKeeps, PTL DEF RunDirSpec

(* A run directory has one writer, and its marker names it, but for a marker *)
(* that was lost or is in the hands of a third dispatch (claimRunDir).      *)
THEOREM OneWriter == RunDirSpec => []ClaimsExclude
<1>1. QED BY RunDirInvariant, Exclusion, PTL

(* Only a run whose driver is gone, or lost its marker, is judged lost.     *)
THEOREM LostIsLost == RunDirSpec => JudgedLostWhenLost
<1> DEFINE Judged == \E p \in Procs : \/ scan[p] = "owner" /\ scan'[p] = "mark"
                                      \/ retire[p] = "owner" /\ retire'[p] = "append"
           Lost == \A f \in Flows : Drives(f) => Displaced(Home[f])
<1>1. ASSUME RunDirInv, [RunDirNext]_runDirVars PROVE [Judged => Lost]_runDirVars
  <2> SUFFICES ASSUME NEW p \in Procs,
                      \/ scan[p] = "owner" /\ scan'[p] = "mark"
                      \/ retire[p] = "owner" /\ retire'[p] = "append"
               PROVE  Lost
    OBVIOUS
  <2>1. ASSUME NEW f \in Flows,
               \/ DispatchRun(f) \/ Read(f) \/ Discard(f) \/ PutBack(f) \/ Create(f)
               \/ Reread(f) \/ Corrupt(f) \/ Open(f) \/ Work(f) \/ Finish(f) \/ Leave(f)
        PROVE  UNCHANGED bookVars
    BY <2>1 DEF DispatchRun, Read, Discard, PutBack, Create, Reread, Corrupt, Open, Work, Finish,
                Leave, Calm, bookVars
  <2>2. ASSUME NEW q \in Procs, ScanJournal(q) \/ Mark(q) \/ Skip(q) \/ SkipAppend(q) \/ Kill(q)
        PROVE  /\ scan'[p] = "mark" => scan[p] = "mark"
               /\ retire'[p] = "append" => retire[p] = "append"
    <3> USE DEF Books, RunDirInv, RunDirTypeOK
    <3>1. CASE ScanJournal(q) BY <3>1 DEF ScanJournal
    <3>2. CASE Mark(q) BY <3>2 DEF Mark
    <3>3. CASE Skip(q) BY <3>3 DEF Skip
    <3>4. CASE SkipAppend(q) BY <3>4 DEF SkipAppend
    <3>5. CASE Kill(q) BY <3>5 DEF Kill
    <3>6. QED BY <2>2, <3>1, <3>2, <3>3, <3>4, <3>5
  <2>3. ASSUME NEW q \in Procs, ScanOwner(q) \/ SkipOwner(q) PROVE ~LiveOwner
    <3> USE DEF Books, RunDirInv, RunDirTypeOK
    <3>1. CASE ScanOwner(q) BY <1>1, <3>1 DEF ScanOwner
    <3>2. CASE SkipOwner(q) BY <1>1, <3>2 DEF SkipOwner
    <3>3. QED BY <2>3, <3>1, <3>2
  <2>4. ~LiveOwner
    BY <1>1, <2>1, <2>2, <2>3 DEF RunDirNext, runDirVars, bookVars
  <2>5. QED BY <1>1, <2>4 DEF LiveOwner, RunDirInv, MarkerNamesRun, InRun, Drives
<1>2. QED BY <1>1, RunDirInvariant, PTL DEF RunDirSpec, JudgedLostWhenLost
=============================================================================
