--------------------------- MODULE SessionBusProofs ---------------------------
(***************************************************************************)
(* Proofs about SessionBus: no submission is lost or run twice between the *)
(* queue, the steering chain, the agent and the turn, and no turn, steer,  *)
(* undo or compaction breaks the history of another, for every number of   *)
(* submissions, iterations, interrupts, undos and foreign turns.           *)
(***************************************************************************)
EXTENDS SessionBus, FiniteSetTheorems, SequenceTheorems, TLAPS

-----------------------------------------------------------------------------
(* The invariant.                                                          *)

Distinct(s) == \A i, j \in DOMAIN s : s[i] = s[j] => i = j
Ids(q) == [i \in DOMAIN q |-> q[i].id]
Queued == Range(Ids(queue))
Placed == Queued \cup Range(chain) \cup Range(steering)
Heard == {m \in Messages : fate[m] = "heard"}

(* No submission is in two places, or in one twice.                        *)
Apart ==
  /\ Distinct(Ids(queue)) /\ Distinct(chain) /\ Distinct(steering)
  /\ Queued \cap Range(chain) = {} /\ Queued \cap Range(steering) = {}
  /\ Range(chain) \cap Range(steering) = {}

(* What is in a place is open, and what is open is in a place or current.  *)
Located ==
  /\ \A m \in Placed : fate[m] = "open" /\ m # current
  /\ \A m \in Messages : fate[m] = "open" => m \in Placed \cup {current}

(* The item of a turn is open until the run appends it, and the agent runs *)
(* exactly then; what was parked with it is taken back after the run.      *)
TurnInv ==
  /\ current # None <=> Working
  /\ agent.phase # "none" <=> loop = "run"
  /\ loop \in {"input", "acquire", "sleep", "unland"} \/ agent.phase = "start" =>
       fate[current] = "open"
  /\ loop = "release" \/ agent.phase \notin {"none", "start"} => fate[current] = "heard"
  /\ steering # <<>> => loop \in {"run", "release"}

(* Until a turn or an undo crosses a compaction, that starts and ends with *)
(* the same context, while nobody works.                                   *)
ContextInv ==
  ~crossed =>
    /\ Range(ctx) = Heard \ undone /\ Distinct(ctx) /\ undone \subseteq Heard
    /\ tail = "calls" <=> agent.phase = "tools"
    /\ snapshot # None => ~Working /\ snapshot = ctx

IInv ==
  /\ TypeOK /\ Apart /\ Located /\ TurnInv /\ ContextInv
  /\ NothingParked /\ ChipTellsTruth /\ SlotHeldByTurn

-----------------------------------------------------------------------------
(* Sequences: members and repetitions.                                     *)

LEMMA EmptyMembers == Range(<<>>) = {} /\ Distinct(<<>>)
  BY DEF Range, Distinct

LEMMA AppendMembers ==
  ASSUME NEW S, NEW s \in Seq(S), NEW x \in S
  PROVE  /\ Append(s, x) \in Seq(S)
         /\ Range(Append(s, x)) = Range(s) \cup {x}
         /\ Distinct(s) /\ x \notin Range(s) => Distinct(Append(s, x))
<1> DEFINE a == Append(s, x)
<1>1. /\ a \in Seq(S) /\ Len(a) = Len(s) + 1
      /\ \A i \in 1 .. Len(s) : a[i] = s[i]
      /\ a[Len(s) + 1] = x
  BY AppendProperties
<1>2. Len(s) \in Nat /\ DOMAIN s = 1 .. Len(s) /\ DOMAIN a = 1 .. Len(s) + 1
  BY <1>1, LenProperties
<1> HIDE DEF a
<1>3. Range(a) = Range(s) \cup {x}
  <2>1. \A i \in DOMAIN a : a[i] \in Range(s) \cup {x}
    <3> SUFFICES ASSUME NEW i \in 1 .. Len(s) + 1 PROVE a[i] \in Range(s) \cup {x}  BY <1>2
    <3>1. CASE i = Len(s) + 1  BY <1>1, <3>1
    <3>2. CASE i \in 1 .. Len(s)  BY <1>1, <1>2, <3>2 DEF Range
    <3> QED  BY <1>2, <3>1, <3>2
  <2>2. \A i \in DOMAIN s : i \in DOMAIN a /\ a[i] = s[i]  BY <1>1, <1>2
  <2>3. Len(s) + 1 \in DOMAIN a  BY <1>2
  <2> QED  BY <1>1, <2>1, <2>2, <2>3 DEF Range
<1>4. ASSUME Distinct(s), x \notin Range(s) PROVE Distinct(a)
  <2> SUFFICES ASSUME NEW i \in DOMAIN a, NEW j \in DOMAIN a, a[i] = a[j] PROVE i = j
    BY DEF Distinct
  <2>1. \A k \in 1 .. Len(s) : a[k] \in Range(s)  BY <1>1, <1>2 DEF Range
  <2>2. CASE i = Len(s) + 1
    <3>1. j \notin 1 .. Len(s)  BY <1>1, <1>4, <2>1, <2>2
    <3> QED  BY <1>2, <2>2, <3>1
  <2>3. CASE j = Len(s) + 1
    <3>1. i \notin 1 .. Len(s)  BY <1>1, <1>4, <2>1, <2>3
    <3> QED  BY <1>2, <2>3, <3>1
  <2>4. CASE i \in 1 .. Len(s) /\ j \in 1 .. Len(s)
    BY <1>1, <1>2, <1>4, <2>4 DEF Distinct
  <2> QED  BY <1>2, <2>2, <2>3, <2>4
<1> QED  BY <1>1, <1>3, <1>4 DEF a

LEMMA TailMembers ==
  ASSUME NEW S, NEW s \in Seq(S), s # <<>>
  PROVE  /\ Tail(s) \in Seq(S) /\ Head(s) \in S
         /\ Range(s) = Range(Tail(s)) \cup {Head(s)}
         /\ Distinct(s) => Distinct(Tail(s)) /\ Head(s) \notin Range(Tail(s))
<1> DEFINE t == Tail(s)
<1>1. /\ t \in Seq(S) /\ Len(t) = Len(s) - 1 /\ Head(s) \in S
      /\ \A i \in 1 .. Len(t) : t[i] = s[i + 1]
  BY HeadTailProperties
<1>2. /\ Len(s) \in Nat /\ DOMAIN s = 1 .. Len(s) /\ DOMAIN t = 1 .. Len(s) - 1
      /\ Len(s) # 0
  BY <1>1, LenProperties, EmptySeq
<1>3. Head(s) = s[1]  OBVIOUS
<1> HIDE DEF t
<1>4. \A i \in DOMAIN t : i + 1 \in DOMAIN s /\ i + 1 # 1 /\ t[i] = s[i + 1]
  BY <1>1, <1>2
<1>5. \A i \in DOMAIN s : i = 1 \/ (i - 1 \in DOMAIN t /\ s[i] = t[i - 1])
  BY <1>1, <1>2
<1>6. Range(s) = Range(t) \cup {Head(s)}
  <2>1. 1 \in DOMAIN s  BY <1>2
  <2> QED  BY <1>3, <1>4, <1>5, <2>1 DEF Range
<1>7. ASSUME Distinct(s) PROVE Distinct(t) /\ Head(s) \notin Range(t)
  <2>1. \A i, j \in DOMAIN t : t[i] = t[j] => i = j
    <3> SUFFICES ASSUME NEW i \in DOMAIN t, NEW j \in DOMAIN t, t[i] = t[j] PROVE i = j
      OBVIOUS
    <3>1. i + 1 = j + 1  BY <1>4, <1>7 DEF Distinct
    <3> QED  BY <1>2, <3>1
  <2>2. \A i \in DOMAIN t : t[i] # s[1]
    <3>1. 1 \in DOMAIN s  BY <1>2
    <3> QED  BY <1>4, <1>7, <3>1 DEF Distinct
  <2> QED  BY <1>3, <2>1, <2>2 DEF Distinct, Range
<1> QED  BY <1>1, <1>6, <1>7 DEF t

LEMMA FrontMembers ==
  ASSUME NEW S, NEW s \in Seq(S), s # <<>>
  PROVE  /\ Front(s) \in Seq(S) /\ Last(s) \in S
         /\ Range(s) = Range(Front(s)) \cup {Last(s)}
         /\ Distinct(s) => Distinct(Front(s)) /\ Last(s) \notin Range(Front(s))
<1> DEFINE t == SubSeq(s, 1, Len(s) - 1)
<1>1. /\ Len(s) \in Nat /\ DOMAIN s = 1 .. Len(s) /\ Len(s) # 0
      /\ \A i \in 1 .. Len(s) : s[i] \in S
  BY LenProperties, EmptySeq, ElementOfSeq
<1>2. /\ t \in Seq(S) /\ Len(t) = Len(s) - 1
      /\ \A i \in 1 .. Len(s) - 1 : t[i] = s[i]
  <2>1. /\ 1 \in Int /\ Len(s) - 1 \in Int
        /\ \A i \in 1 .. Len(s) - 1 : s[i] \in S
    BY <1>1
  <2>2. /\ t \in Seq(S)
        /\ Len(t) = (IF 1 <= Len(s) - 1 THEN Len(s) - 1 - 1 + 1 ELSE 0)
        /\ \A i \in 1 .. Len(s) - 1 - 1 + 1 : t[i] = s[1 + i - 1]
    BY <2>1, SubSeqProperties
  <2> HIDE DEF t
  <2>3. Len(t) = Len(s) - 1
    <3>1. CASE 1 <= Len(s) - 1  BY <1>1, <2>2, <3>1
    <3>2. CASE ~(1 <= Len(s) - 1)
      <4>1. Len(s) - 1 = 0  BY <1>1, <3>2
      <4> QED  BY <2>2, <3>2, <4>1
    <3> QED  BY <3>1, <3>2
  <2>4. ASSUME NEW i \in 1 .. Len(s) - 1 PROVE t[i] = s[i]
    <3>1. i \in 1 .. Len(s) - 1 - 1 + 1 /\ 1 + i - 1 = i  BY <1>1
    <3> QED  BY <2>2, <3>1
  <2> QED  BY <2>2, <2>3, <2>4
<1>3. DOMAIN t = 1 .. Len(s) - 1  BY <1>2, LenProperties
<1>4. Front(s) = t /\ Last(s) = s[Len(s)]  BY DEF Front, Last
<1> HIDE DEF t
<1>5. \A i \in DOMAIN t : i \in DOMAIN s /\ i # Len(s) /\ t[i] = s[i]  BY <1>1, <1>2, <1>3
<1>6. \A i \in DOMAIN s : i = Len(s) \/ (i \in DOMAIN t /\ s[i] = t[i])  BY <1>1, <1>2, <1>3
<1>7. Len(s) \in DOMAIN s  BY <1>1
<1>8. Range(s) = Range(t) \cup {s[Len(s)]}  BY <1>5, <1>6, <1>7 DEF Range
<1>9. Distinct(s) => Distinct(t) /\ s[Len(s)] \notin Range(t)
  BY <1>5, <1>7 DEF Distinct, Range
<1> QED  BY <1>1, <1>2, <1>4, <1>7, <1>8, <1>9

LEMMA ConcatMembers ==
  ASSUME NEW S, NEW s \in Seq(S), NEW t \in Seq(S)
  PROVE  /\ s \o t \in Seq(S)
         /\ Range(s \o t) = Range(s) \cup Range(t)
         /\ Distinct(s) /\ Distinct(t) /\ Range(s) \cap Range(t) = {} => Distinct(s \o t)
<1> DEFINE c == s \o t
<1>1. /\ c \in Seq(S) /\ Len(c) = Len(s) + Len(t)
      /\ \A i \in 1 .. Len(s) + Len(t) : c[i] = IF i <= Len(s) THEN s[i] ELSE t[i - Len(s)]
  BY ConcatProperties
<1>2. /\ Len(s) \in Nat /\ Len(t) \in Nat
      /\ DOMAIN s = 1 .. Len(s) /\ DOMAIN t = 1 .. Len(t)
      /\ DOMAIN c = 1 .. Len(s) + Len(t)
  BY <1>1, LenProperties
<1>3. Range(c) = Range(s) \cup Range(t)  BY RangeConcatenation
<1> HIDE DEF c
<1>4. \A i \in DOMAIN c : \/ i \in DOMAIN s /\ c[i] = s[i]
                          \/ i - Len(s) \in DOMAIN t /\ c[i] = t[i - Len(s)]
  BY <1>1, <1>2
<1>5. ASSUME Distinct(s), Distinct(t), Range(s) \cap Range(t) = {} PROVE Distinct(c)
  <2> SUFFICES ASSUME NEW i \in DOMAIN c, NEW j \in DOMAIN c, c[i] = c[j] PROVE i = j
    BY DEF Distinct
  <2>1. CASE i \in DOMAIN s /\ c[i] = s[i] /\ j \in DOMAIN s /\ c[j] = s[j]
    BY <1>5, <2>1 DEF Distinct
  <2>2. CASE /\ i - Len(s) \in DOMAIN t /\ c[i] = t[i - Len(s)]
             /\ j - Len(s) \in DOMAIN t /\ c[j] = t[j - Len(s)]
    <3>1. i - Len(s) = j - Len(s)  BY <1>5, <2>2 DEF Distinct
    <3> QED  BY <1>2, <3>1
  <2>3. ASSUME NEW k \in DOMAIN s, NEW l \in DOMAIN t PROVE s[k] # t[l]
    BY <1>5 DEF Range
  <2> QED  BY <1>4, <2>1, <2>2, <2>3
<1> QED  BY <1>1, <1>3, <1>5 DEF c

(* The places at which a sequence without repetitions shows an element.    *)
LEMMA Occurrences ==
  ASSUME NEW S, NEW s \in Seq(S), Distinct(s), NEW m
  PROVE  Cardinality({i \in DOMAIN s : s[i] = m}) = IF m \in Range(s) THEN 1 ELSE 0
<1>1. CASE m \in Range(s)
  <2>1. PICK k \in DOMAIN s : s[k] = m  BY <1>1 DEF Range
  <2>2. {i \in DOMAIN s : s[i] = m} = {k}  BY <2>1 DEF Distinct
  <2> QED  BY <1>1, <2>2, FS_Singleton
<1>2. CASE m \notin Range(s)
  <2>1. {i \in DOMAIN s : s[i] = m} = {}  BY <1>2 DEF Range
  <2> QED  BY <1>2, <2>1, FS_EmptySet
<1> QED  BY <1>1, <1>2

(* Such a sequence is as long as its members are many.                     *)
LEMMA DistinctLength ==
  ASSUME NEW S, NEW s \in Seq(S), Distinct(s)
  PROVE  Len(s) = Cardinality(Range(s))
<1>1. Len(s) \in Nat /\ DOMAIN s = 1 .. Len(s) /\ s \in [1 .. Len(s) -> S]
  BY LenProperties
<1>2. s \in [1 .. Len(s) -> Range(s)]  BY <1>1 DEF Range
<1>3. s \in Surjection(1 .. Len(s), Range(s)) /\ s \in Injection(1 .. Len(s), Range(s))
  BY <1>1, <1>2 DEF Surjection, Injection, IsInjective, Range, Distinct
<1>4. IsFiniteSet(1 .. Len(s)) /\ Cardinality(1 .. Len(s)) = Len(s)
  BY <1>1, FS_Interval
<1> QED  BY <1>3, <1>4, FS_Surjection

-----------------------------------------------------------------------------
(* The submissions of the queue.                                           *)

LEMMA IdsType ==
  ASSUME NEW q \in Seq(Item)
  PROVE  /\ Ids(q) \in Seq(Messages) /\ Len(Ids(q)) = Len(q)
         /\ DOMAIN q = 1 .. Len(q) /\ \A i \in 1 .. Len(q) : Ids(q)[i] = q[i].id
         /\ q = <<>> <=> Ids(q) = <<>>
<1>1. Len(q) \in Nat /\ DOMAIN q = 1 .. Len(q) /\ \A i \in 1 .. Len(q) : q[i] \in Item
  BY LenProperties, ElementOfSeq
<1>2. \A i \in 1 .. Len(q) : q[i].id \in Messages  BY <1>1 DEF Item
<1>3. Ids(q) = [i \in 1 .. Len(q) |-> q[i].id]  BY <1>1 DEF Ids
<1>4. Ids(q) \in Seq(Messages) /\ Len(Ids(q)) = Len(q)  BY <1>1, <1>2, <1>3
<1>5. q = <<>> <=> Ids(q) = <<>>  BY <1>1, <1>4, EmptySeq
<1> QED  BY <1>1, <1>3, <1>4, <1>5

LEMMA IdsAppend ==
  ASSUME NEW q \in Seq(Item), NEW it \in Item
  PROVE  Append(q, it) \in Seq(Item) /\ Ids(Append(q, it)) = Append(Ids(q), it.id)
<1> DEFINE a == Append(q, it)  b == Append(Ids(q), it.id)
<1>1. /\ a \in Seq(Item) /\ Len(a) = Len(q) + 1
      /\ \A i \in 1 .. Len(q) : a[i] = q[i]
      /\ a[Len(q) + 1] = it
  BY AppendProperties
<1>2. it.id \in Messages /\ Ids(q) \in Seq(Messages) /\ Len(Ids(q)) = Len(q) /\ Len(q) \in Nat
  BY IdsType, LenProperties DEF Item
<1>3. /\ b \in Seq(Messages) /\ Len(b) = Len(q) + 1
      /\ \A i \in 1 .. Len(q) : b[i] = Ids(q)[i]
      /\ b[Len(q) + 1] = it.id
  BY <1>2, AppendProperties
<1> HIDE DEF a, b
<1>4. \A i \in 1 .. Len(q) + 1 : Ids(a)[i] = b[i]
  BY <1>1, <1>2, <1>3, IdsType
<1>5. Ids(a) \in Seq(Messages) /\ Len(Ids(a)) = Len(q) + 1  BY <1>1, IdsType
<1>6. Ids(a) = b  BY <1>3, <1>4, <1>5, SeqEqual
<1> QED  BY <1>1, <1>6 DEF a, b

LEMMA IdsTail ==
  ASSUME NEW q \in Seq(Item), q # <<>>
  PROVE  /\ Tail(q) \in Seq(Item) /\ Head(q) \in Item
         /\ Ids(Tail(q)) = Tail(Ids(q)) /\ Head(Ids(q)) = Head(q).id
<1> DEFINE a == Tail(q)  b == Tail(Ids(q))
<1>1. /\ a \in Seq(Item) /\ Len(a) = Len(q) - 1 /\ Head(q) \in Item
      /\ \A i \in 1 .. Len(a) : a[i] = q[i + 1]
  BY HeadTailProperties
<1>2. /\ Ids(q) \in Seq(Messages) /\ Len(Ids(q)) = Len(q) /\ Ids(q) # <<>>
      /\ Len(q) \in Nat /\ Len(q) # 0 /\ \A i \in 1 .. Len(q) : Ids(q)[i] = q[i].id
  BY IdsType, LenProperties, EmptySeq
<1>3. /\ b \in Seq(Messages) /\ Len(b) = Len(q) - 1
      /\ \A i \in 1 .. Len(b) : b[i] = Ids(q)[i + 1]
  BY <1>2, HeadTailProperties
<1>4. Head(q) = q[1] /\ Head(Ids(q)) = Ids(q)[1]  OBVIOUS
<1> HIDE DEF a, b
<1>5. /\ Ids(a) \in Seq(Messages) /\ Len(Ids(a)) = Len(a)
      /\ \A i \in 1 .. Len(a) : Ids(a)[i] = a[i].id
  BY <1>1, IdsType
<1>6. ASSUME NEW i \in 1 .. Len(a) PROVE Ids(a)[i] = b[i]
  <2>1. i \in 1 .. Len(b) /\ i + 1 \in 1 .. Len(q)  BY <1>1, <1>2, <1>3
  <2>2. Ids(a)[i] = q[i + 1].id  BY <1>1, <1>5
  <2> QED  BY <1>2, <1>3, <2>1, <2>2
<1>7. Ids(a) = b  BY <1>1, <1>3, <1>5, <1>6, SeqEqual
<1>8. Head(Ids(q)) = Head(q).id  BY <1>2, <1>4
<1> QED  BY <1>1, <1>7, <1>8 DEF a, b

LEMMA IdsConcat ==
  ASSUME NEW q \in Seq(Item), NEW s \in Seq(Messages)
  PROVE  /\ q \o [i \in DOMAIN s |-> Piped(s[i])] \in Seq(Item)
         /\ Ids(q \o [i \in DOMAIN s |-> Piped(s[i])]) = Ids(q) \o s
<1> DEFINE p == [i \in DOMAIN s |-> Piped(s[i])]
           a == q \o p
           b == Ids(q) \o s
<1>1. Len(s) \in Nat /\ DOMAIN s = 1 .. Len(s) /\ \A i \in 1 .. Len(s) : s[i] \in Messages
  BY LenProperties, ElementOfSeq
<1>2. \A i \in 1 .. Len(s) : Piped(s[i]) \in Item /\ Piped(s[i]).id = s[i]
  BY <1>1 DEF Piped, Item
<1>3. p \in Seq(Item) /\ Len(p) = Len(s) /\ \A i \in 1 .. Len(s) : p[i].id = s[i]
  BY <1>1, <1>2
<1> HIDE DEF p
<1>4. /\ a \in Seq(Item) /\ Len(a) = Len(q) + Len(s)
      /\ \A i \in 1 .. Len(q) + Len(s) : a[i] = IF i <= Len(q) THEN q[i] ELSE p[i - Len(q)]
  <2>1. /\ q \o p \in Seq(Item) /\ Len(q \o p) = Len(q) + Len(p)
        /\ \A i \in 1 .. Len(q) + Len(p) :
             (q \o p)[i] = IF i <= Len(q) THEN q[i] ELSE p[i - Len(q)]
    BY <1>3, ConcatProperties
  <2> QED  BY <1>3, <2>1
<1>5. Ids(q) \in Seq(Messages) /\ Len(Ids(q)) = Len(q) /\ Len(q) \in Nat
      /\ \A i \in 1 .. Len(q) : Ids(q)[i] = q[i].id
  BY IdsType, LenProperties
<1>6. /\ b \in Seq(Messages) /\ Len(b) = Len(q) + Len(s)
      /\ \A i \in 1 .. Len(q) + Len(s) : b[i] = IF i <= Len(q) THEN Ids(q)[i] ELSE s[i - Len(q)]
  <2> DEFINE I == Ids(q)
  <2>1. I \in Seq(Messages) /\ Len(I) = Len(q)  BY <1>5
  <2> HIDE DEF I
  <2>2. /\ I \o s \in Seq(Messages) /\ Len(I \o s) = Len(I) + Len(s)
        /\ \A i \in 1 .. Len(I) + Len(s) :
             (I \o s)[i] = IF i <= Len(I) THEN I[i] ELSE s[i - Len(I)]
    BY <2>1, ConcatProperties
  <2>3. /\ I \o s \in Seq(Messages) /\ Len(I \o s) = Len(q) + Len(s)
        /\ \A i \in 1 .. Len(q) + Len(s) :
             (I \o s)[i] = IF i <= Len(q) THEN I[i] ELSE s[i - Len(q)]
    BY <2>1, <2>2
  <2> QED  BY <2>3 DEF I
<1> HIDE DEF a, b
<1>7. /\ Ids(a) \in Seq(Messages) /\ Len(Ids(a)) = Len(a)
      /\ \A i \in 1 .. Len(a) : Ids(a)[i] = a[i].id
  BY <1>4, IdsType
<1>8. \A i \in 1 .. Len(q) + Len(s) : Ids(a)[i] = b[i]
  <2> SUFFICES ASSUME NEW i \in 1 .. Len(q) + Len(s) PROVE Ids(a)[i] = b[i]  OBVIOUS
  <2>1. CASE i <= Len(q)
    <3>1. i \in 1 .. Len(q)  BY <1>5, <2>1
    <3> QED  BY <1>4, <1>5, <1>6, <1>7, <2>1, <3>1
  <2>2. CASE ~(i <= Len(q))
    <3>1. i - Len(q) \in 1 .. Len(s)  BY <1>1, <1>5, <2>2
    <3> QED  BY <1>3, <1>4, <1>6, <1>7, <2>2, <3>1
  <2> QED  BY <2>1, <2>2
<1>9. Ids(a) = b  BY <1>4, <1>6, <1>7, <1>8, SeqEqual
<1> QED  BY <1>4, <1>9 DEF a, b, p

-----------------------------------------------------------------------------
(* What the invariant says of a state.                                     *)

LEMMA CurrentFacts ==
  ASSUME IInv, current # None
  PROVE  current \in Messages /\ fate[current] \in {"open", "heard"} /\ current \notin Placed
<1>1. Working /\ current \in Messages  BY DEF IInv, TypeOK, TurnInv
<1>2. loop \in {"input", "acquire", "sleep", "unland", "run", "release"}  BY <1>1 DEF Working
<1>3. fate[current] \in {"open", "heard"}  BY <1>2 DEF IInv, TurnInv
<1> QED  BY <1>1, <1>3 DEF IInv, Located

LEMMA PlacedFacts ==
  ASSUME IInv
  PROVE  /\ Queued \subseteq Messages /\ Range(chain) \subseteq Messages
         /\ Range(steering) \subseteq Messages
         /\ \A m \in Placed : m \in Messages /\ m \notin Heard
<1>1. Ids(queue) \in Seq(Messages) /\ chain \in Seq(Messages) /\ steering \in Seq(Messages)
  BY IdsType DEF IInv, TypeOK
<1>2. /\ Queued \subseteq Messages /\ Range(chain) \subseteq Messages
      /\ Range(steering) \subseteq Messages
  BY <1>1, RangeOfSeq DEF Queued
<1> QED  BY <1>2 DEF Placed, Heard, IInv, Located

LEMMA AgentFacts ==
  ASSUME IInv
  PROVE  /\ agent \in Agent /\ agent.phase \in Phases
         /\ agent.cancelled \in BOOLEAN /\ agent.killed \in BOOLEAN
         /\ agent.wrap \in BOOLEAN /\ agent.retried \in BOOLEAN
         /\ agent.iter \in Nat /\ agent.iter <= MaxIterations
  BY BusAssumption DEF IInv, TypeOK, Agent

(* Frames: what a step that leaves a part alone owes to it.                *)
LEMMA PlacesStay ==
  ASSUME IInv, UNCHANGED <<fate, queue, current, chain, steering>>
  PROVE  Apart' /\ Located'
  BY DEF IInv, Apart, Located, Placed, Queued

LEMMA ContextStays ==
  ASSUME IInv, UNCHANGED ctxVars, Heard' = Heard, Working' => Working,
         agent.phase = "tools" <=> agent'.phase = "tools"
  PROVE  ContextInv'
<1>1. UNCHANGED <<ctx, tail, snapshot, undone, crossed>>  BY DEF ctxVars
<1> QED  BY <1>1 DEF IInv, ContextInv

-----------------------------------------------------------------------------
(* Steps that only the agent sees.                                         *)

LEMMA AgentMoves ==
  ASSUME IInv, AgentOnly, agent' \in Agent,
         agent.phase \notin {"none", "start"}, agent'.phase \notin {"none", "start"},
         agent.phase = "tools" <=> agent'.phase = "tools"
  PROVE  IInv'
<1>0. UNCHANGED <<fate, queue, current, loop, stopped, chain, steering, pending,
                  ctx, tail, snapshot, undone, crossed, lane, wait, takes, interrupts>>
  BY DEF AgentOnly, busVars, steerVars, ctxVars, laneVars
<1>1. TypeOK'  BY <1>0 DEF IInv, TypeOK
<1>2. Apart' /\ Located'  BY <1>0, PlacesStay
<1>3. TurnInv'  BY <1>0 DEF IInv, TurnInv, Working
<1>4. ContextInv'
  <2>1. Heard' = Heard /\ Working' = Working  BY <1>0 DEF Heard, Working
  <2>2. UNCHANGED ctxVars  BY <1>0 DEF ctxVars
  <2> QED  BY <2>1, <2>2, ContextStays
<1>5. NothingParked' /\ ChipTellsTruth' /\ SlotHeldByTurn'
  BY <1>0 DEF IInv, NothingParked, ChipTellsTruth, SlotHeldByTurn
<1> QED  BY <1>1, <1>2, <1>3, <1>4, <1>5 DEF IInv

LEMMA RequestSteps ==
  ASSUME IInv, \/ Built \/ \E with \in {"text", "calls"} : Answered(with)
               \/ \E retry \in BOOLEAN : ErrorHooksEnd(retry)
               \/ \E empty \in BOOLEAN : TextHooksEnd(empty)
               \/ Again
  PROVE  IInv'
<1> USE AgentFacts
<1>1. CASE Built
  <2>1. AgentOnly /\ agent.phase = "build"  BY <1>1 DEF Built
  <2>2. agent' \in Agent /\ agent'.phase = "llm"  BY <1>1 DEF Built, Requests, Agent, Phases
  <2> QED  BY <2>1, <2>2, AgentMoves
<1>2. ASSUME NEW with \in {"text", "calls"}, Answered(with) PROVE IInv'
  <2>1. AgentOnly /\ agent.phase = "llm"  BY <1>2 DEF Answered
  <2>2. agent' \in Agent /\ agent'.phase \in {"end", "text", "calls"}
    BY <1>2 DEF Answered, Goes, Agent, Phases
  <2> QED  BY <2>1, <2>2, AgentMoves
<1>3. ASSUME NEW retry \in BOOLEAN, ErrorHooksEnd(retry) PROVE IInv'
  <2>1. AgentOnly /\ agent.phase = "error"  BY <1>3 DEF ErrorHooksEnd
  <2>2. agent' \in Agent /\ agent'.phase \in {"llm", "fail"}
    BY <1>3 DEF ErrorHooksEnd, Goes, Agent, Phases
  <2> QED  BY <2>1, <2>2, AgentMoves
<1>4. ASSUME NEW empty \in BOOLEAN, TextHooksEnd(empty) PROVE IInv'
  <2>1. AgentOnly /\ agent.phase = "text"  BY <1>4 DEF TextHooksEnd
  <2>2. agent' \in Agent /\ agent'.phase \in {"again", "end"}
    BY <1>4 DEF TextHooksEnd, Goes, Agent, Phases
  <2> QED  BY <2>1, <2>2, AgentMoves
<1>5. CASE Again
  <2>1. AgentOnly /\ agent.phase = "again"  BY <1>5 DEF Again
  <2>2. agent' \in Agent /\ agent'.phase \in {"prep", "end"}
    <3>1. CASE agent.iter < MaxIterations
      <4>1. agent.iter + 1 \in 0 .. MaxIterations  BY <3>1, BusAssumption
      <4>2. agent' = [agent EXCEPT !.phase = "prep", !.iter = @ + 1, !.retried = FALSE]
        BY <1>5, <3>1 DEF Again
      <4> QED  BY <4>1, <4>2 DEF Agent, Phases
    <3>2. CASE ~(agent.iter < MaxIterations)
      BY <1>5, <3>2 DEF Again, Agent, Phases
    <3> QED  BY <3>1, <3>2
  <2> QED  BY <2>1, <2>2, AgentMoves
<1> QED  BY <1>1, <1>2, <1>3, <1>4, <1>5

(* The calls and their results enter the context.                          *)
LEMMA ToolSteps ==
  ASSUME IInv, CallHooksEnd \/ \E return \in BOOLEAN : ToolsEnd(return)
  PROVE  IInv'
<1>0. /\ UNCHANGED <<fate, queue, current, loop, stopped, chain, steering, pending,
                     ctx, snapshot, undone, crossed, lane, wait, takes, interrupts>>
      /\ agent.phase \in {"calls", "tools"}
      /\ tail' \in {"settled", "calls"}
      /\ tail' = "calls" <=> agent'.phase = "tools"
      /\ agent'.phase \in {"tools", "end", "again"}
  BY AgentFacts DEF CallHooksEnd, ToolsEnd, Goes, busVars, steerVars, laneVars, Agent
<1>1. agent' \in Agent  BY AgentFacts DEF CallHooksEnd, ToolsEnd, Goes, Agent, Phases
<1>2. TypeOK'  BY <1>0, <1>1 DEF IInv, TypeOK
<1>3. Apart' /\ Located'  BY <1>0, PlacesStay
<1>4. TurnInv'  BY <1>0 DEF IInv, TurnInv, Working
<1>5. ContextInv'
  <2>1. Heard' = Heard /\ Working' = Working  BY <1>0 DEF Heard, Working
  <2> QED  BY <1>0, <2>1 DEF IInv, ContextInv
<1>6. NothingParked' /\ ChipTellsTruth' /\ SlotHeldByTurn'
  BY <1>0 DEF IInv, NothingParked, ChipTellsTruth, SlotHeldByTurn
<1> QED  BY <1>2, <1>3, <1>4, <1>5, <1>6 DEF IInv

(* The run returns or throws.                                              *)
LEMMA RunEndsStep ==
  ASSUME IInv, agent.phase \notin {"none", "start", "tools"}, RunEnds,
         UNCHANGED <<fate, queue, current, stopped, steerVars, ctxVars, laneVars, interrupts>>
  PROVE  IInv'
<1>0. /\ UNCHANGED <<fate, queue, current, stopped, chain, steering, pending,
                     ctx, tail, snapshot, undone, crossed, lane, wait, takes, interrupts>>
      /\ loop' = "release" /\ loop = "run"
  BY DEF RunEnds, steerVars, ctxVars, laneVars, IInv, TurnInv
<1>1. agent' \in Agent /\ agent'.phase = "none"
  <2>1. agent' = [phase |-> "none", iter |-> 0, wrap |-> FALSE, retried |-> FALSE,
                  cancelled |-> agent.cancelled, killed |-> FALSE]
    BY DEF RunEnds, Resting
  <2>2. 0 \in 0 .. MaxIterations /\ "none" \in Phases /\ agent.cancelled \in BOOLEAN
    BY BusAssumption, AgentFacts DEF Phases
  <2> QED  BY <2>1, <2>2 DEF Agent
<1>2. TypeOK'  BY <1>0, <1>1 DEF IInv, TypeOK, Loops
<1>3. Apart' /\ Located'  BY <1>0, PlacesStay
<1>4. TurnInv'  BY <1>0, <1>1 DEF IInv, TurnInv, Working
<1>5. ContextInv'
  <2>1. Heard' = Heard /\ Working  BY <1>0 DEF Heard, Working
  <2>2. UNCHANGED ctxVars  BY <1>0 DEF ctxVars
  <2> QED  BY <1>1, <2>1, <2>2, ContextStays
<1>6. NothingParked' /\ ChipTellsTruth' /\ SlotHeldByTurn'
  BY <1>0 DEF IInv, NothingParked, ChipTellsTruth, SlotHeldByTurn
<1> QED  BY <1>2, <1>3, <1>4, <1>5, <1>6 DEF IInv

LEMMA EndingSteps ==
  ASSUME IInv, RequestFails \/ LastTurnEnd
  PROVE  IInv'
<1>1. CASE LastTurnEnd  BY <1>1, RunEndsStep DEF LastTurnEnd
<1>2. CASE RequestFails
  <2>1. CASE RunEnds  BY <1>2, <2>1, RunEndsStep DEF RequestFails
  <2>2. CASE ~RunEnds
    <3>1. /\ AgentOnly /\ agent.phase = "llm"
          /\ \E p \in {"fail", "error", "end"} : agent' = [agent EXCEPT !.phase = p]
      BY <1>2, <2>2 DEF RequestFails, Goes, AgentOnly, busVars
    <3>2. agent' \in Agent /\ agent'.phase \in {"fail", "error", "end"}
      BY <3>1, AgentFacts DEF Agent, Phases
    <3> QED  BY <3>1, <3>2, AgentMoves
  <2> QED  BY <2>1, <2>2
<1> QED  BY <1>1, <1>2

-----------------------------------------------------------------------------
(* The run loop.                                                           *)

(* A turn that ends before its run takes its item out of the open ones.    *)
LEMMA DropStep ==
  ASSUME IInv, loop \in {"input", "sleep", "unland"},
         NEW how \in {"handled", "dropped"}, Drop(how),
         lane' \in {"free", "mine", "other"}, lane' # "mine",
         UNCHANGED <<queue, stopped, steerVars, agent, ctxVars, takes, interrupts>>
  PROVE  IInv'
<1>0. /\ UNCHANGED <<queue, stopped, chain, steering, pending, agent,
                     ctx, tail, snapshot, undone, crossed, takes, interrupts>>
      /\ loop' = "next" /\ current' = None /\ wait' = "none"
      /\ fate' = [m \in Messages |-> IF m = current THEN how ELSE fate[m]]
  BY DEF Drop, Settle, steerVars, ctxVars
<1>1. /\ current # None /\ current \in Messages /\ current \notin Placed /\ Working
      /\ fate[current] = "open"
  <2>1. Working  BY DEF Working
  <2>2. current # None  BY <2>1 DEF IInv, TurnInv
  <2> QED  BY <2>1, <2>2, CurrentFacts DEF IInv, TurnInv
<1>2. /\ \A m \in Messages : m # current => fate'[m] = fate[m]
      /\ fate'[current] = how
  BY <1>0, <1>1
<1>3. TypeOK'  BY <1>0 DEF IInv, TypeOK, Loops
<1>4. Apart' /\ Located'
  <2>1. Apart' /\ Placed' = Placed  BY <1>0 DEF IInv, Apart, Placed, Queued
  <2>2. \A m \in Placed : m \in Messages /\ m # None  BY PlacedFacts, BusAssumption
  <2> QED  BY <1>0, <1>1, <1>2, <2>1, <2>2 DEF IInv, Located
<1>5. TurnInv'  BY <1>0 DEF IInv, TurnInv, Working
<1>6. ContextInv'
  <2>1. Heard' = Heard  BY <1>1, <1>2 DEF Heard
  <2> QED  BY <1>0, <1>1, <2>1, ContextStays DEF ctxVars
<1>7. NothingParked' /\ ChipTellsTruth' /\ SlotHeldByTurn'
  BY <1>0 DEF IInv, NothingParked, ChipTellsTruth, SlotHeldByTurn
<1> QED  BY <1>3, <1>4, <1>5, <1>6, <1>7 DEF IInv

(* A turn that goes on with the same item, before its run or into it.      *)
Onward ==
  /\ \/ loop' \in {"acquire", "sleep", "unland"} /\ agent' = agent
     \/ loop' = "run" /\ agent' = [agent EXCEPT !.phase = "start"]
  /\ lane' = "mine" => loop' \in {"unland", "run"}

LEMMA TurnMoves ==
  ASSUME IInv, loop \in {"input", "acquire", "sleep", "unland"},
         Onward,
         lane' \in {"free", "mine", "other"}, wait' \in {"none", "live", "aborted"},
         UNCHANGED <<fate, queue, current, stopped, steerVars, ctxVars, takes, interrupts>>
  PROVE  IInv'
<1>0. UNCHANGED <<fate, queue, current, stopped, chain, steering, pending,
                  ctx, tail, snapshot, undone, crossed, takes, interrupts>>
  BY DEF steerVars, ctxVars
<1>1. agent' \in Agent /\ agent.phase = "none"
      /\ agent'.phase = IF loop' = "run" THEN "start" ELSE "none"
  <2>1. agent.phase = "none"  BY DEF IInv, TurnInv
  <2>2. CASE agent' = agent /\ loop' \in {"acquire", "sleep", "unland"}  BY <2>1, <2>2, AgentFacts
  <2>3. CASE agent' = [agent EXCEPT !.phase = "start"] /\ loop' = "run"
    BY <2>1, <2>3, AgentFacts DEF Agent, Phases
  <2> QED  BY <2>1, <2>2, <2>3 DEF Onward
<1>2. /\ Working /\ Working' /\ loop' \in {"acquire", "sleep", "unland", "run"}
      /\ lane' = "mine" => loop' \in {"unland", "run"}
  BY DEF Working, Onward
<1>3. TypeOK'  BY <1>0, <1>1, <1>2 DEF IInv, TypeOK, Loops
<1>4. Apart' /\ Located'  BY <1>0, PlacesStay
<1>5. TurnInv'  BY <1>0, <1>1, <1>2 DEF IInv, TurnInv
<1>6. ContextInv'
  <2>1. Heard' = Heard /\ UNCHANGED ctxVars  BY <1>0 DEF Heard, ctxVars
  <2> QED  BY <1>1, <1>2, <2>1, ContextStays
<1>7. NothingParked' /\ ChipTellsTruth' /\ SlotHeldByTurn'
  BY <1>0, <1>2 DEF IInv, NothingParked, ChipTellsTruth, SlotHeldByTurn
<1> QED  BY <1>3, <1>4, <1>5, <1>6, <1>7 DEF IInv

LEMMA WaitingSteps ==
  ASSUME IInv, \/ \E handled \in BOOLEAN : InputDone(handled)
               \/ AcquireAnswer \/ SleepEnds \/ Unlanded
  PROVE  IInv'
<1>0. /\ lane \in {"free", "mine", "other"} /\ wait \in {"none", "live", "aborted"}
      /\ lane = "mine" => loop \in {"unland", "run", "release"}
  BY DEF IInv, TypeOK, SlotHeldByTurn
<1>1. ASSUME NEW handled \in BOOLEAN, InputDone(handled) PROVE IInv'
  <2>1. /\ loop = "input" /\ lane' = lane
        /\ UNCHANGED <<queue, stopped, steerVars, agent, ctxVars, takes, interrupts>>
    BY <1>1 DEF InputDone
  <2>2. CASE Drop("handled")  BY <1>0, <2>1, <2>2, DropStep
  <2>3. CASE Drop("dropped")  BY <1>0, <2>1, <2>3, DropStep
  <2>4. CASE loop' = "acquire" /\ wait' = "live" /\ UNCHANGED <<fate, current>>
    <3>1. Onward  BY <1>0, <2>1, <2>4 DEF Onward
    <3> QED  BY <1>0, <2>1, <2>4, <3>1, TurnMoves
  <2> QED  BY <1>1, <2>2, <2>3, <2>4 DEF InputDone
<1>2. CASE AcquireAnswer
  <2>1. /\ loop = "acquire"
        /\ UNCHANGED <<queue, stopped, steerVars, ctxVars, takes, interrupts>>
    BY <1>2 DEF AcquireAnswer
  <2>2. CASE RunStarts /\ lane' \in {lane, "mine"}
    <3>1. /\ loop' = "run" /\ wait' = "none" /\ UNCHANGED <<fate, current>>
          /\ agent' = [agent EXCEPT !.phase = "start"]
      BY <2>2 DEF RunStarts
    <3>2. Onward /\ lane' \in {"free", "mine", "other"}  BY <1>0, <2>2, <3>1 DEF Onward
    <3> QED  BY <2>1, <3>1, <3>2, TurnMoves
  <2>3. CASE /\ lane' = "mine" /\ loop' = "unland" /\ wait' = "none"
             /\ UNCHANGED <<fate, current, agent>>
    <3>1. Onward  BY <2>3 DEF Onward
    <3> QED  BY <2>1, <2>3, <3>1, TurnMoves
  <2>4. CASE loop' = "sleep" /\ UNCHANGED <<fate, current, agent, lane, wait>>
    <3>1. Onward  BY <1>0, <2>1, <2>4 DEF Onward
    <3> QED  BY <1>0, <2>1, <2>4, <3>1, TurnMoves
  <2> QED  BY <1>2, <2>2, <2>3, <2>4 DEF AcquireAnswer, SlotLands
<1>3. CASE SleepEnds
  <2>1. /\ loop = "sleep" /\ lane' = lane
        /\ UNCHANGED <<queue, stopped, steerVars, agent, ctxVars, takes, interrupts>>
    BY <1>3 DEF SleepEnds
  <2>2. CASE Drop("dropped")  BY <1>0, <2>1, <2>2, DropStep
  <2>3. CASE loop' = "acquire" /\ UNCHANGED <<fate, current, wait>>
    <3>1. Onward  BY <1>0, <2>1, <2>3 DEF Onward
    <3> QED  BY <1>0, <2>1, <2>3, <3>1, TurnMoves
  <2> QED  BY <1>3, <2>2, <2>3 DEF SleepEnds
<1>4. CASE Unlanded
  BY <1>4, DropStep DEF Unlanded
<1> QED  BY <1>1, <1>2, <1>3, <1>4

(* The loop sleeps, exits, or takes the first item of the queue.           *)
LEMMA NextItemStep ==
  ASSUME IInv, NextItem
  PROVE  IInv'
<1>0. /\ loop = "next"
      /\ UNCHANGED <<fate, stopped, chain, steering, pending, ctx, tail, snapshot, undone,
                     lane, takes, interrupts>>
  BY DEF NextItem, steerVars
<1>1. ~Working /\ current = None /\ steering = <<>> /\ agent.phase = "none"
  BY <1>0 DEF IInv, TurnInv, Working
<1>2. CASE /\ loop' = "exited" \/ (loop' = "wait" /\ queue = <<>> /\ ~stopped)
           /\ UNCHANGED <<queue, current, agent, wait, crossed>>
  <2>1. ~Working'  BY <1>2 DEF Working
  <2>2. TypeOK'  BY <1>0, <1>2 DEF IInv, TypeOK, Loops
  <2>3. Apart' /\ Located'  BY <1>0, <1>2, PlacesStay
  <2>4. TurnInv'  BY <1>0, <1>1, <1>2, <2>1 DEF IInv, TurnInv
  <2>5. ContextInv'
    <3>1. Heard' = Heard /\ UNCHANGED ctxVars  BY <1>0, <1>2 DEF Heard, ctxVars
    <3> QED  BY <1>2, <2>1, <3>1, ContextStays
  <2>6. NothingParked' /\ ChipTellsTruth' /\ SlotHeldByTurn'
    BY <1>0, <1>1, <1>2 DEF IInv, NothingParked, ChipTellsTruth, SlotHeldByTurn
  <2> QED  BY <2>2, <2>3, <2>4, <2>5, <2>6 DEF IInv
<1>3. CASE queue # <<>> /\ ~stopped
  <2>1. /\ current' = Head(queue).id /\ queue' = Tail(queue)
        /\ agent' = [agent EXCEPT !.cancelled = FALSE]
        /\ crossed' = (crossed \/ snapshot # None)
        /\ loop' \in {"acquire", "input"} /\ wait' \in {"live", wait}
    BY <1>3 DEF NextItem
  <2>2. queue \in Seq(Item)  BY DEF IInv, TypeOK
  <2>3. /\ Tail(queue) \in Seq(Item) /\ Head(queue).id = Head(Ids(queue))
        /\ Ids(Tail(queue)) = Tail(Ids(queue))
        /\ Ids(queue) \in Seq(Messages) /\ Ids(queue) # <<>>
    BY <1>3, <2>2, IdsTail, IdsType
  <2>4. Distinct(Ids(queue))  BY DEF IInv, Apart
  <2>5. /\ current' \in Messages /\ Queued = Queued' \cup {current'}
        /\ current' \notin Queued' /\ Distinct(Ids(queue)')
    <3> DEFINE I == Ids(queue)
    <3>1. I \in Seq(Messages) /\ I # <<>> /\ Distinct(I)  BY <2>3, <2>4
    <3> HIDE DEF I
    <3>2. /\ Head(I) \in Messages /\ Range(I) = Range(Tail(I)) \cup {Head(I)}
          /\ Distinct(Tail(I)) /\ Head(I) \notin Range(Tail(I))
      BY <3>1, TailMembers
    <3>3. Ids(queue)' = Tail(I) /\ current' = Head(I)  BY <2>1, <2>3 DEF I, Ids
    <3> QED  BY <3>2, <3>3 DEF Queued, I
  <2>6. agent' \in Agent /\ agent'.phase = "none"
    BY <1>1, <2>1, AgentFacts DEF Agent
  <2>7. Working' /\ current' # None  BY <2>1, <2>5, BusAssumption DEF Working
  <2>8. fate[current'] = "open"  BY <2>5 DEF IInv, Located, Placed
  <2>9. TypeOK'
    <3>1. crossed' \in BOOLEAN /\ wait' \in {"none", "live", "aborted"}
      BY <2>1 DEF IInv, TypeOK
    <3>2. queue' \in Seq(Item) /\ loop' \in Loops /\ current' \in Messages
      BY <2>1, <2>3, <2>5 DEF Loops
    <3> QED  BY <1>0, <2>6, <3>1, <3>2 DEF IInv, TypeOK
  <2>10. Apart' /\ Located'
    <3>1. Apart'  BY <1>0, <2>5 DEF IInv, Apart
    <3>2. Located'
      <4>1. /\ Placed = Placed' \cup {current'} /\ current' \notin Placed'
        BY <1>0, <2>5 DEF Placed, IInv, Apart
      <4>2. \A m \in Messages : m # current  BY <1>1, BusAssumption
      <4> QED  BY <1>0, <4>1, <4>2 DEF IInv, Located
    <3> QED  BY <3>1, <3>2
  <2>11. TurnInv'  BY <1>0, <1>1, <2>1, <2>6, <2>7, <2>8 DEF IInv, TurnInv
  <2>12. ContextInv'
    <3> SUFFICES ASSUME ~crossed' PROVE ContextInv'  BY DEF ContextInv
    <3>1. ~crossed /\ snapshot = None  BY <2>1
    <3>2. Heard' = Heard  BY <1>0 DEF Heard
    <3> QED  BY <1>0, <1>1, <2>6, <3>1, <3>2 DEF IInv, ContextInv
  <2>13. NothingParked' /\ ChipTellsTruth' /\ SlotHeldByTurn'
    BY <1>0, <2>1 DEF IInv, NothingParked, ChipTellsTruth, SlotHeldByTurn
  <2> QED  BY <2>9, <2>10, <2>11, <2>12, <2>13 DEF IInv
<1> QED  BY <1>2, <1>3 DEF NextItem, IInv, TypeOK

(* The release settles: what the run left undelivered joins the queue.     *)
LEMMA ReleasedStep ==
  ASSUME IInv, Released
  PROVE  IInv'
<1>0. /\ loop = "release" /\ loop' = "next" /\ current' = None
      /\ queue' = queue \o [i \in DOMAIN steering |-> Piped(steering[i])]
      /\ pending' = pending \ Range(steering) /\ steering' = <<>>
      /\ lane' = IF lane = "mine" THEN "free" ELSE lane
      /\ UNCHANGED <<fate, stopped, chain, agent, ctx, tail, snapshot, undone, crossed,
                     wait, takes, interrupts>>
  BY DEF Released, HandOff, ctxVars
<1>1. /\ Working /\ ~Working' /\ agent.phase = "none" /\ fate[current] = "heard"
  BY <1>0 DEF IInv, TurnInv, Working
<1>2. queue \in Seq(Item) /\ steering \in Seq(Messages)  BY DEF IInv, TypeOK
<1>3. queue' \in Seq(Item) /\ Ids(queue)' = Ids(queue) \o steering
  BY <1>0, <1>2, IdsConcat
<1>4. Ids(queue) \in Seq(Messages)  BY <1>2, IdsType
<1>5. Queued' = Queued \cup Range(steering) /\ Distinct(Ids(queue)')
  BY <1>2, <1>3, <1>4, ConcatMembers DEF Queued, IInv, Apart
<1>6. Range(steering') = {} /\ Distinct(steering')  BY <1>0, EmptyMembers
<1>7. TypeOK'
  <2>1. /\ lane' \in {"free", "mine", "other"} /\ loop' \in Loops
        /\ pending' \subseteq Messages
    BY <1>0 DEF IInv, TypeOK, Loops
  <2>2. steering' \in Seq(Messages)  BY <1>0, EmptySeq
  <2> QED  BY <1>0, <1>3, <2>1, <2>2 DEF IInv, TypeOK
<1>8. Apart'  BY <1>0, <1>5, <1>6 DEF IInv, Apart
<1>9. Located'
  <2>1. Placed' = Placed  BY <1>0, <1>5, <1>6 DEF Placed
  <2>2. \A m \in Messages : m # None  BY BusAssumption
  <2>3. \A m \in Placed : m \in Messages  BY PlacedFacts
  <2> QED  BY <1>0, <1>1, <2>1, <2>2, <2>3 DEF IInv, Located
<1>10. TurnInv'  BY <1>0, <1>1 DEF IInv, TurnInv
<1>11. ContextInv'
  <2>1. Heard' = Heard /\ UNCHANGED ctxVars  BY <1>0 DEF Heard, ctxVars
  <2> QED  BY <1>0, <1>1, <2>1, ContextStays
<1>12. ChipTellsTruth'
  <2>1. pending' = (Range(chain) \cup Range(steering)) \ Range(steering)
    BY <1>0 DEF IInv, ChipTellsTruth
  <2>2. Range(chain) \cap Range(steering) = {}  BY DEF IInv, Apart
  <2> QED  BY <1>0, <1>6, <2>1, <2>2 DEF ChipTellsTruth
<1>13. NothingParked' /\ SlotHeldByTurn'
  BY <1>0 DEF IInv, NothingParked, SlotHeldByTurn
<1> QED  BY <1>7, <1>8, <1>9, <1>10, <1>11, <1>12, <1>13 DEF IInv

-----------------------------------------------------------------------------
(* The messages that the model is given.                                   *)

(* Messages that come into the context, from the turn or from steering.    *)
LEMMA ContextGrows ==
  ASSUME IInv, NEW s \in Seq(Messages), Distinct(s), Range(s) \cap Heard = {},
         ctx' = ctx \o s, Heard' = Heard \cup Range(s), Working, Working',
         UNCHANGED <<tail, snapshot, undone, crossed>>,
         agent.phase # "tools", agent'.phase # "tools"
  PROVE  ContextInv'
<1> SUFFICES ASSUME ~crossed PROVE ContextInv'  BY DEF ContextInv
<1>1. /\ Range(ctx) = Heard \ undone /\ Distinct(ctx) /\ undone \subseteq Heard
      /\ tail = "calls" <=> agent.phase = "tools"
      /\ snapshot = None
  BY DEF IInv, ContextInv
<1>2. ctx \in Seq(Messages)  BY DEF IInv, TypeOK
<1>3. Range(ctx) \cap Range(s) = {}  BY <1>1
<1>4. Range(ctx') = Range(ctx) \cup Range(s) /\ Distinct(ctx')
  BY <1>1, <1>2, <1>3, ConcatMembers
<1>5. Range(ctx') = Heard' \ undone /\ undone \subseteq Heard'  BY <1>1, <1>4
<1>6. tail' # "calls"  BY <1>1
<1> QED  BY <1>1, <1>4, <1>5, <1>6 DEF ContextInv

(* The run appends the item of its turn.                                   *)
LEMMA HearInputStep ==
  ASSUME IInv, HearInput
  PROVE  IInv'
<1>0. /\ agent.phase = "start" /\ ctx' = Append(ctx, current)
      /\ fate' = [m \in Messages |-> IF m = current THEN "heard" ELSE fate[m]]
      /\ agent' = [agent EXCEPT !.phase = "prep", !.iter = 1]
      /\ UNCHANGED <<queue, current, loop, stopped, chain, steering, pending,
                     tail, snapshot, undone, crossed, lane, wait, takes, interrupts>>
  BY DEF HearInput, Settle, busVars, steerVars, laneVars
<1>1. loop = "run" /\ Working /\ current # None /\ fate[current] = "open"
  <2>1. loop = "run"  BY <1>0 DEF IInv, TurnInv
  <2>2. Working  BY <2>1 DEF Working
  <2> QED  BY <1>0, <2>1, <2>2 DEF IInv, TurnInv
<1>2. current \in Messages /\ current \notin Placed  BY <1>1, CurrentFacts
<1>3. fate'[current] = "heard" /\ \A m \in Messages : m # current => fate'[m] = fate[m]
  BY <1>0, <1>2
<1>4. agent' \in Agent /\ agent'.phase = "prep"
  <2>1. 1 \in 0 .. MaxIterations  BY BusAssumption
  <2> QED  BY <1>0, <2>1, AgentFacts DEF Agent, Phases
<1>5. ctx \in Seq(Messages)  BY DEF IInv, TypeOK
<1>6. TypeOK'
  <2>1. ctx' \in Seq(Messages)  BY <1>0, <1>2, <1>5, AppendProperties
  <2> QED  BY <1>0, <1>4, <2>1 DEF IInv, TypeOK
<1>7. Apart' /\ Located'
  <2>1. Apart' /\ Placed' = Placed  BY <1>0 DEF IInv, Apart, Placed, Queued
  <2>2. \A m \in Placed : m \in Messages  BY PlacedFacts
  <2> QED  BY <1>0, <1>2, <1>3, <2>1, <2>2 DEF IInv, Located
<1>8. TurnInv'  BY <1>0, <1>1, <1>3, <1>4 DEF IInv, TurnInv, Working
<1>9. ContextInv'
  <2>1. Heard' = Heard \cup {current}  BY <1>2, <1>3 DEF Heard
  <2>2. current \notin Heard  BY <1>1 DEF Heard
  <2> DEFINE s == <<current>>
  <2>3. s \in Seq(Messages) /\ Range(s) = {current} /\ Distinct(s) /\ ctx' = ctx \o s
    BY <1>0, <1>2, <1>5, AppendIsConcat DEF Range, Distinct
  <2> HIDE DEF s
  <2>4. Working'  BY <1>0, <1>1 DEF Working
  <2> QED  BY <1>0, <1>1, <1>4, <2>1, <2>2, <2>3, <2>4, ContextGrows
<1>10. NothingParked' /\ ChipTellsTruth' /\ SlotHeldByTurn'
  BY <1>0 DEF IInv, NothingParked, ChipTellsTruth, SlotHeldByTurn
<1> QED  BY <1>6, <1>7, <1>8, <1>9, <1>10 DEF IInv

(* An iteration takes the parked steering into the context, or throws.     *)
LEMMA PreparedStep ==
  ASSUME IInv, Prepared
  PROVE  IInv'
<1>0. /\ agent.phase = "prep"
      /\ UNCHANGED <<queue, current, stopped, chain, tail, snapshot, undone, crossed,
                     lane, wait, takes, interrupts>>
  BY DEF Prepared, laneVars
<1>1. loop = "run" /\ Working /\ fate[current] = "heard"
  BY <1>0 DEF IInv, TurnInv, Working
<1>2. CASE agent.cancelled /\ RunEnds /\ UNCHANGED <<fate, ctx, steering, pending>>
  BY <1>0, <1>2, RunEndsStep DEF ctxVars, steerVars, laneVars
<1>3. CASE agent.cancelled /\ Goes("fail") /\ UNCHANGED <<loop, fate, ctx, steering, pending>>
  <2>1. AgentOnly  BY <1>0, <1>3 DEF AgentOnly, busVars, ctxVars, steerVars, laneVars
  <2>2. agent' \in Agent /\ agent'.phase = "fail"
    BY <1>3, AgentFacts DEF Goes, Agent, Phases
  <2> QED  BY <1>0, <2>1, <2>2, AgentMoves
<1>4. CASE ~agent.cancelled
  <2>0. /\ ctx' = ctx \o steering /\ steering' = <<>> /\ loop' = loop
        /\ fate' = [m \in Messages |-> IF m \in Range(steering) THEN "heard" ELSE fate[m]]
        /\ pending' = pending \ Range(steering)
        /\ agent' = [agent EXCEPT !.phase = "build"]
    BY <1>4 DEF Prepared, Prepare, Settle, Goes
  <2>1. ctx \in Seq(Messages) /\ steering \in Seq(Messages) /\ Distinct(steering)
    BY DEF IInv, TypeOK, Apart
  <2>2. agent' \in Agent /\ agent'.phase = "build"
    BY <2>0, AgentFacts DEF Agent, Phases
  <2>3. Range(steering') = {} /\ Distinct(steering')  BY <2>0, EmptyMembers
  <2>4. Range(steering) \subseteq Messages /\ \A m \in Range(steering) : m \in Placed
    BY PlacedFacts DEF Placed
  <2>5. /\ \A m \in Range(steering) : fate'[m] = "heard"
        /\ \A m \in Messages \ Range(steering) : fate'[m] = fate[m]
    BY <2>0, <2>4
  <2>6. TypeOK'
    <3>1. ctx' \in Seq(Messages) /\ steering' \in Seq(Messages)
      BY <2>0, <2>1, ConcatProperties, EmptySeq
    <3>2. fate' \in [Messages -> {"unsent", "open", "heard", "handled", "dropped"}]
      BY <2>0 DEF IInv, TypeOK
    <3>3. pending' \subseteq Messages  BY <2>0 DEF IInv, TypeOK
    <3> QED  BY <1>0, <2>0, <2>2, <3>1, <3>2, <3>3 DEF IInv, TypeOK
  <2>7. Apart'  BY <1>0, <2>3 DEF IInv, Apart, Queued
  <2>8. Located'
    <3>1. Placed = Placed' \cup Range(steering) /\ Placed' \cap Range(steering) = {}
      BY <1>0, <2>3 DEF Placed, Queued, IInv, Apart
    <3>2. \A m \in Placed : m \in Messages  BY PlacedFacts
    <3> QED  BY <1>0, <2>5, <3>1, <3>2 DEF IInv, Located
  <2>9. TurnInv'
    <3>1. current # None  BY <1>1 DEF IInv, TurnInv
    <3>2. current \in Messages /\ current \notin Range(steering)
      BY <3>1, CurrentFacts DEF Placed
    <3>3. fate'[current] = "heard"  BY <1>1, <2>5, <3>2
    <3> QED  BY <1>0, <1>1, <2>0, <2>2, <3>3 DEF IInv, TurnInv, Working
  <2>10. ContextInv'
    <3>1. Range(steering) \cap Heard = {}  BY <2>4, PlacedFacts
    <3>2. Heard' = Heard \cup Range(steering)  BY <2>4, <2>5 DEF Heard
    <3>3. Working'  BY <1>1, <2>0 DEF Working
    <3> QED  BY <1>0, <1>1, <2>0, <2>1, <2>2, <3>1, <3>2, <3>3, ContextGrows
  <2>11. ChipTellsTruth'
    <3>1. pending' = (Range(chain) \cup Range(steering)) \ Range(steering)
      BY <2>0 DEF IInv, ChipTellsTruth
    <3>2. Range(chain) \cap Range(steering) = {}  BY DEF IInv, Apart
    <3> QED  BY <1>0, <2>3, <3>1, <3>2 DEF ChipTellsTruth
  <2>12. NothingParked' /\ SlotHeldByTurn'
    BY <1>0, <1>1, <2>0 DEF IInv, NothingParked, SlotHeldByTurn
  <2> QED  BY <2>6, <2>7, <2>8, <2>9, <2>10, <2>11, <2>12 DEF IInv
<1> QED  BY <1>2, <1>3, <1>4 DEF Prepared, Prepare

-----------------------------------------------------------------------------
(* Users.                                                                  *)

(* Nothing about a working bus changes when its waiter is woken.           *)
LEMMA WokenFacts ==
  ASSUME IInv, loop' = Woken
  PROVE  /\ loop' \in Loops /\ loop' # "wait" /\ Working' = Working
         /\ \A l \in Loops \ {"next", "wait"} : loop' = l <=> loop = l
  BY DEF Woken, Working, Loops, IInv, TypeOK

(* A step that leaves the item of the turn, its fate and the phase alone.  *)
LEMMA TurnStays ==
  ASSUME IInv, loop' = Woken \/ loop' = loop, current' = current, steering' = steering,
         agent'.phase = agent.phase, current # None => fate'[current] = fate[current]
  PROVE  TurnInv'
<1>1. /\ Working' = Working
      /\ \A l \in Loops \ {"next", "wait"} : loop' = l <=> loop = l
  BY WokenFacts DEF Working
<1>2. loop = "run" <=> loop' = "run"  BY <1>1 DEF Loops
<1>3. loop = "release" <=> loop' = "release"  BY <1>1 DEF Loops
<1>4. loop \in {"input", "acquire", "sleep", "unland"}
      <=> loop' \in {"input", "acquire", "sleep", "unland"}
  BY <1>1 DEF Loops
<1>5. ASSUME loop' \in {"input", "acquire", "sleep", "unland"} \/ agent'.phase = "start"
      PROVE  fate'[current'] = "open"
  <2>1. fate[current] = "open"  BY <1>4, <1>5 DEF IInv, TurnInv
  <2>2. Working
    <3>1. CASE agent'.phase = "start"
      <4>1. loop = "run"  BY <3>1 DEF IInv, TurnInv
      <4> QED  BY <4>1 DEF Working
    <3>2. CASE loop' \in {"input", "acquire", "sleep", "unland"}
      BY <1>4, <3>2 DEF Working
    <3> QED  BY <1>5, <3>1, <3>2
  <2>3. current # None  BY <2>2 DEF IInv, TurnInv
  <2> QED  BY <2>1, <2>3
<1>6. ASSUME loop' = "release" \/ agent'.phase \notin {"none", "start"}
      PROVE  fate'[current'] = "heard"
  <2>1. fate[current] = "heard"  BY <1>3, <1>6 DEF IInv, TurnInv
  <2>2. loop \in {"run", "release"}  BY <1>3, <1>6 DEF IInv, TurnInv
  <2>3. current # None  BY <2>2 DEF IInv, TurnInv, Working
  <2> QED  BY <2>1, <2>3
<1>7. current' # None <=> Working'  BY <1>1 DEF IInv, TurnInv
<1>8. agent'.phase # "none" <=> loop' = "run"  BY <1>2 DEF IInv, TurnInv
<1>9. steering' # <<>> => loop' \in {"run", "release"}
  BY <1>2, <1>3 DEF IInv, TurnInv
<1> QED  BY <1>5, <1>6, <1>7, <1>8, <1>9 DEF TurnInv

LEMMA SubmitStep ==
  ASSUME IInv, NEW m \in Messages, NEW steer \in BOOLEAN, Submit(m, steer)
  PROVE  IInv'
<1>0. /\ fate[m] = "unsent"
      /\ fate' = [k \in Messages |-> IF k = m THEN "open" ELSE fate[k]]
      /\ UNCHANGED <<current, stopped, steering, agent, ctx, tail, snapshot, undone, crossed,
                     lane, wait, takes, interrupts>>
  BY DEF Submit, Settle, ctxVars, laneVars
<1>1. fate'[m] = "open" /\ \A k \in Messages : k # m => fate'[k] = fate[k]  BY <1>0
<1>2. m \notin Placed /\ m # current /\ m # None
  <2>1. m # None  BY BusAssumption
  <2>2. m # current  BY <1>0, <2>1, CurrentFacts
  <2> QED  BY <1>0, <2>1, <2>2 DEF IInv, Located
<1>3. Heard' = Heard  BY <1>0, <1>1 DEF Heard
<1>4. current # None => fate'[current] = fate[current]
  BY <1>1, <1>2, CurrentFacts
<1>5. fate' \in [Messages -> {"unsent", "open", "heard", "handled", "dropped"}]
  BY <1>0 DEF IInv, TypeOK
<1>6. \A k \in Placed : k \in Messages  BY PlacedFacts
<1>7. CASE steer /\ Working
  <2>1. /\ chain' = Append(chain, m) /\ pending' = pending \cup {m}
        /\ UNCHANGED <<queue, loop>>
    BY <1>7 DEF Submit
  <2>2. chain \in Seq(Messages) /\ Distinct(chain)  BY DEF IInv, TypeOK, Apart
  <2>3. m \notin Range(chain)  BY <1>2 DEF Placed
  <2>4. chain' \in Seq(Messages) /\ Range(chain') = Range(chain) \cup {m} /\ Distinct(chain')
    BY <2>1, <2>2, <2>3, AppendMembers
  <2>5. TypeOK'  BY <1>0, <1>5, <2>1, <2>4 DEF IInv, TypeOK
  <2>6. Apart'
    <3>1. m \notin Queued /\ m \notin Range(steering)  BY <1>2 DEF Placed
    <3>2. Queued' = Queued /\ Ids(queue)' = Ids(queue)  BY <2>1 DEF Queued, Ids
    <3> QED  BY <1>0, <2>1, <2>4, <3>1, <3>2 DEF IInv, Apart
  <2>7. Located'
    <3>1. Placed' = Placed \cup {m}  BY <1>0, <2>1, <2>4 DEF Placed, Queued
    <3> QED  BY <1>0, <1>1, <1>2, <1>6, <3>1 DEF IInv, Located
  <2>8. TurnInv'  BY <1>0, <1>4, <2>1, TurnStays
  <2>9. ContextInv'
    <3>1. Working' = Working  BY <2>1 DEF Working
    <3> QED  BY <1>0, <1>3, <3>1, ContextStays DEF ctxVars
  <2>10. NothingParked' /\ ChipTellsTruth' /\ SlotHeldByTurn'
    BY <1>0, <2>1, <2>4 DEF IInv, NothingParked, ChipTellsTruth, SlotHeldByTurn
  <2> QED  BY <2>5, <2>6, <2>7, <2>8, <2>9, <2>10 DEF IInv
<1>8. CASE ~(steer /\ Working)
  <2>1. queue' = Append(queue, Plain(m)) /\ loop' = Woken /\ UNCHANGED <<chain, pending>>
    BY <1>8 DEF Submit
  <2>2. Plain(m) \in Item /\ Plain(m).id = m /\ queue \in Seq(Item)
    BY DEF Plain, Item, IInv, TypeOK
  <2>3. /\ queue' \in Seq(Item) /\ Ids(queue)' = Append(Ids(queue), m)
        /\ Ids(queue) \in Seq(Messages)
    BY <2>1, <2>2, IdsAppend, IdsType
  <2>4. Queued' = Queued \cup {m} /\ Distinct(Ids(queue)')
    <3>1. m \notin Queued /\ Distinct(Ids(queue))  BY <1>2 DEF Placed, IInv, Apart
    <3> QED  BY <2>3, <3>1, AppendMembers DEF Queued
  <2>5. TypeOK'  BY <1>0, <1>5, <2>1, <2>3, WokenFacts DEF IInv, TypeOK
  <2>6. Apart'
    <3>1. m \notin Range(chain) /\ m \notin Range(steering)  BY <1>2 DEF Placed
    <3> QED  BY <1>0, <2>1, <2>4, <3>1 DEF IInv, Apart
  <2>7. Located'
    <3>1. Placed' = Placed \cup {m}  BY <1>0, <2>1, <2>4 DEF Placed
    <3> QED  BY <1>0, <1>1, <1>2, <1>6, <3>1 DEF IInv, Located
  <2>8. TurnInv'  BY <1>0, <1>4, <2>1, TurnStays
  <2>9. ContextInv'
    <3>1. Working' = Working  BY <2>1, WokenFacts
    <3> QED  BY <1>0, <1>3, <3>1, ContextStays DEF ctxVars
  <2>10. NothingParked' /\ ChipTellsTruth'
    BY <1>0, <2>1, WokenFacts DEF IInv, NothingParked, ChipTellsTruth
  <2>11. SlotHeldByTurn'  BY <1>0, <2>1 DEF IInv, SlotHeldByTurn, Woken
  <2> QED  BY <2>5, <2>6, <2>7, <2>8, <2>9, <2>10, <2>11 DEF IInv
<1> QED  BY <1>7, <1>8

(* The INPUT pipeline of the first steering submission ends.               *)
LEMMA DeliverStep ==
  ASSUME IInv, NEW handled \in BOOLEAN, Deliver(handled)
  PROVE  IInv'
<1> DEFINE m == Head(chain)
<1>0. /\ chain # <<>> /\ chain' = Tail(chain)
      /\ UNCHANGED <<current, stopped, agent, ctx, tail, snapshot, undone, crossed,
                     lane, wait, takes, interrupts>>
  BY DEF Deliver, ctxVars, laneVars
<1>1. chain \in Seq(Messages) /\ Distinct(chain)  BY DEF IInv, TypeOK, Apart
<1>2. /\ m \in Messages /\ chain' \in Seq(Messages) /\ Distinct(chain')
      /\ Range(chain) = Range(chain') \cup {m} /\ m \notin Range(chain')
  BY <1>0, <1>1, TailMembers
<1>3. IF handled
        THEN /\ fate' = [k \in Messages |-> IF k = m THEN "handled" ELSE fate[k]]
             /\ pending' = pending \ {m} /\ UNCHANGED <<queue, loop, steering>>
        ELSE Steer(m) /\ UNCHANGED fate
  BY DEF Deliver, Settle
<1> HIDE DEF m
<1>4. /\ m \in Placed /\ fate[m] = "open" /\ m # current
      /\ m \notin Queued /\ m \notin Range(steering)
  BY <1>2 DEF Placed, IInv, Located, Apart
<1>5. \A k \in Placed : k \in Messages  BY PlacedFacts
<1>6. CASE handled
  <2>1. /\ fate'[m] = "handled" /\ \A k \in Messages : k # m => fate'[k] = fate[k]
        /\ fate' \in [Messages -> {"unsent", "open", "heard", "handled", "dropped"}]
        /\ pending' = pending \ {m} /\ UNCHANGED <<queue, loop, steering>>
    BY <1>2, <1>3, <1>6 DEF IInv, TypeOK
  <2>2. TypeOK'  BY <1>0, <1>2, <2>1 DEF IInv, TypeOK
  <2>3. Queued' = Queued /\ Ids(queue)' = Ids(queue)  BY <2>1 DEF Queued, Ids
  <2>4. Apart'  BY <1>2, <2>1, <2>3 DEF IInv, Apart
  <2>5. Located'
    <3>1. Placed = Placed' \cup {m} /\ m \notin Placed'
      BY <1>2, <1>4, <2>1, <2>3 DEF Placed
    <3> QED  BY <1>0, <1>5, <2>1, <3>1 DEF IInv, Located
  <2>6. TurnInv'
    <3>1. current # None => fate'[current] = fate[current]
      BY <1>4, <2>1, CurrentFacts
    <3> QED  BY <1>0, <2>1, <3>1, TurnStays
  <2>7. ContextInv'
    <3>1. Heard' = Heard /\ Working' = Working  BY <1>4, <2>1 DEF Heard, Working
    <3> QED  BY <1>0, <3>1, ContextStays DEF ctxVars
  <2>8. ChipTellsTruth'  BY <1>2, <1>4, <2>1 DEF IInv, ChipTellsTruth
  <2>9. NothingParked' /\ SlotHeldByTurn'
    BY <1>0, <2>1 DEF IInv, NothingParked, SlotHeldByTurn
  <2> QED  BY <2>2, <2>4, <2>5, <2>6, <2>7, <2>8, <2>9 DEF IInv
<1>7. CASE ~handled /\ Running
  <2>1. /\ steering' = Append(steering, m) /\ UNCHANGED <<queue, loop, pending, fate>>
        /\ agent.phase # "none"
    BY <1>3, <1>7 DEF Steer, Running
  <2>2. steering \in Seq(Messages) /\ Distinct(steering)  BY DEF IInv, TypeOK, Apart
  <2>3. /\ steering' \in Seq(Messages) /\ Distinct(steering')
        /\ Range(steering') = Range(steering) \cup {m}
    BY <1>2, <1>4, <2>1, <2>2, AppendMembers
  <2>4. TypeOK'  BY <1>0, <1>2, <2>1, <2>3 DEF IInv, TypeOK
  <2>5. Queued' = Queued /\ Ids(queue)' = Ids(queue)  BY <2>1 DEF Queued, Ids
  <2>6. Apart'  BY <1>2, <1>4, <2>3, <2>5 DEF IInv, Apart
  <2>7. Located'
    <3>1. Placed' = Placed  BY <1>2, <2>3, <2>5 DEF Placed
    <3> QED  BY <1>0, <2>1, <3>1 DEF IInv, Located
  <2>8. TurnInv'  BY <1>0, <2>1 DEF IInv, TurnInv, Working
  <2>9. ContextInv'
    <3>1. Heard' = Heard /\ Working' = Working  BY <2>1 DEF Heard, Working
    <3> QED  BY <1>0, <3>1, ContextStays DEF ctxVars
  <2>10. ChipTellsTruth'  BY <1>2, <2>1, <2>3 DEF IInv, ChipTellsTruth
  <2>11. NothingParked' /\ SlotHeldByTurn'
    BY <1>0, <2>1 DEF IInv, TurnInv, NothingParked, SlotHeldByTurn
  <2> QED  BY <2>4, <2>6, <2>7, <2>8, <2>9, <2>10, <2>11 DEF IInv
<1>8. CASE ~handled /\ ~Running
  <2>1. /\ queue' = Append(queue, Piped(m)) /\ loop' = Woken
        /\ pending' = pending \ {m} /\ UNCHANGED <<steering, fate>>
    BY <1>3, <1>8 DEF Steer
  <2>2. Piped(m) \in Item /\ Piped(m).id = m /\ queue \in Seq(Item)
    BY <1>2 DEF Piped, Item, IInv, TypeOK
  <2>3. /\ queue' \in Seq(Item) /\ Ids(queue)' = Append(Ids(queue), m)
        /\ Ids(queue) \in Seq(Messages)
    BY <2>1, <2>2, IdsAppend, IdsType
  <2>4. Queued' = Queued \cup {m} /\ Distinct(Ids(queue)')
    <3>1. Distinct(Ids(queue))  BY DEF IInv, Apart
    <3> QED  BY <1>2, <1>4, <2>3, <3>1, AppendMembers DEF Queued
  <2>5. TypeOK'
    <3>1. pending' \subseteq Messages  BY <2>1 DEF IInv, TypeOK
    <3> QED  BY <1>0, <1>2, <2>1, <2>3, <3>1, WokenFacts DEF IInv, TypeOK
  <2>6. Apart'  BY <1>2, <1>4, <2>1, <2>4 DEF IInv, Apart
  <2>7. Located'
    <3>1. Placed' = Placed  BY <1>2, <2>1, <2>4 DEF Placed
    <3> QED  BY <1>0, <2>1, <3>1 DEF IInv, Located
  <2>8. TurnInv'  BY <1>0, <2>1, TurnStays
  <2>9. ContextInv'
    <3>1. Heard' = Heard /\ Working' = Working  BY <2>1, WokenFacts DEF Heard
    <3> QED  BY <1>0, <3>1, ContextStays DEF ctxVars
  <2>10. ChipTellsTruth'  BY <1>2, <1>4, <2>1 DEF IInv, ChipTellsTruth
  <2>11. NothingParked'  BY <2>1, WokenFacts DEF NothingParked
  <2>12. SlotHeldByTurn'  BY <1>0, <2>1 DEF IInv, SlotHeldByTurn, Woken
  <2> QED  BY <2>5, <2>6, <2>7, <2>8, <2>9, <2>10, <2>11, <2>12 DEF IInv
<1> QED  BY <1>6, <1>7, <1>8

LEMMA StopFacts ==
  ASSUME IInv, StopWork
  PROVE  /\ agent' \in Agent /\ agent'.phase = agent.phase
         /\ wait' \in {"none", "live", "aborted"}
<1>1. agent' = [agent EXCEPT !.cancelled = TRUE, !.killed = agent.killed \/ agent.phase = "llm"]
  BY AgentFacts DEF StopWork
<1>2. (agent.killed \/ agent.phase = "llm") \in BOOLEAN  OBVIOUS
<1>3. agent' \in Agent /\ agent'.phase = agent.phase
  BY <1>1, <1>2, AgentFacts DEF Agent
<1> QED  BY <1>3 DEF StopWork, IInv, TypeOK

(* The queue is dropped; the turn and the steering stay.                   *)
LEMMA InterruptStep ==
  ASSUME IInv, Interrupt
  PROVE  IInv'
<1>0. /\ interrupts < MaxInterrupts /\ interrupts' = interrupts + 1 /\ StopWork
      /\ fate' = [m \in Messages |-> IF m \in {q.id : q \in Range(queue)} THEN "dropped" ELSE fate[m]]
      /\ queue' = <<>> /\ loop' = Woken
      /\ UNCHANGED <<current, stopped, chain, steering, pending, ctx, tail, snapshot, undone,
                     crossed, lane, takes>>
  BY DEF Interrupt, Settle, steerVars, ctxVars
<1>1. {q.id : q \in Range(queue)} = Queued  BY DEF Queued, Ids, Range
<1>2. /\ \A m \in Queued : fate'[m] = "dropped"
      /\ \A m \in Messages \ Queued : fate'[m] = fate[m]
  BY <1>0, <1>1, PlacedFacts
<1>3. queue' \in Seq(Item) /\ Queued' = {} /\ Distinct(Ids(queue)')
  <2>1. queue' \in Seq(Item)  BY <1>0, EmptySeq
  <2>2. Ids(queue') = <<>>  BY <1>0, <2>1, IdsType
  <2>3. Ids(queue)' = <<>>  BY <2>2 DEF Ids
  <2> QED  BY <2>1, <2>3, EmptyMembers DEF Queued
<1>4. TypeOK'
  <2>1. interrupts' \in 0 .. MaxInterrupts  BY <1>0, BusAssumption DEF IInv, TypeOK
  <2>2. fate' \in [Messages -> {"unsent", "open", "heard", "handled", "dropped"}]
    BY <1>0 DEF IInv, TypeOK
  <2> QED  BY <1>0, <1>3, <2>1, <2>2, StopFacts, WokenFacts DEF IInv, TypeOK
<1>5. Apart'  BY <1>0, <1>3 DEF IInv, Apart
<1>6. Located'
  <2>1. Placed = Placed' \cup Queued /\ Placed' \cap Queued = {}
    BY <1>0, <1>3 DEF Placed, IInv, Apart
  <2>2. \A m \in Placed : m \in Messages  BY PlacedFacts
  <2> QED  BY <1>0, <1>2, <2>1, <2>2 DEF IInv, Located
<1>7. TurnInv'
  <2>1. current # None => fate'[current] = fate[current]
    BY <1>2, CurrentFacts DEF Placed
  <2> QED  BY <1>0, <2>1, StopFacts, TurnStays
<1>8. ContextInv'
  <2>1. \A m \in Queued : m \in Messages /\ m \notin Heard  BY PlacedFacts DEF Placed
  <2>2. Heard' = Heard  BY <1>2, <2>1 DEF Heard
  <2> QED  BY <1>0, <2>2, StopFacts, WokenFacts, ContextStays DEF ctxVars
<1>9. NothingParked' /\ ChipTellsTruth'
  BY <1>0, WokenFacts DEF IInv, NothingParked, ChipTellsTruth
<1>10. SlotHeldByTurn'  BY <1>0 DEF IInv, SlotHeldByTurn, Woken
<1> QED  BY <1>4, <1>5, <1>6, <1>7, <1>8, <1>9, <1>10 DEF IInv

LEMMA CancelStep ==
  ASSUME IInv, Cancel
  PROVE  IInv'
<1>0. /\ stopped' = TRUE /\ StopWork /\ loop' = Woken
      /\ UNCHANGED <<fate, queue, current, chain, steering, pending, ctx, tail, snapshot,
                     undone, crossed, lane, takes, interrupts>>
  BY DEF Cancel, steerVars, ctxVars
<1>1. TypeOK'  BY <1>0, StopFacts, WokenFacts DEF IInv, TypeOK
<1>2. Apart' /\ Located'  BY <1>0, PlacesStay
<1>3. TurnInv'  BY <1>0, StopFacts, TurnStays
<1>4. ContextInv'
  <2>1. Heard' = Heard  BY <1>0 DEF Heard
  <2> QED  BY <1>0, <2>1, StopFacts, WokenFacts, ContextStays DEF ctxVars
<1>5. NothingParked' /\ ChipTellsTruth'
  BY <1>0, WokenFacts DEF IInv, NothingParked, ChipTellsTruth
<1>6. SlotHeldByTurn'  BY <1>0 DEF IInv, SlotHeldByTurn, Woken
<1> QED  BY <1>1, <1>2, <1>3, <1>4, <1>5, <1>6 DEF IInv

(* A command of an idle bus, or the end of one, rewrites the context.      *)
LEMMA ContextRewritten ==
  ASSUME IInv, ctx' \in Seq(Messages), tail' \in {"settled", "calls"},
         snapshot' \in Seq(Messages) \cup {None}, undone' \subseteq Messages,
         crossed' \in BOOLEAN, ContextInv',
         UNCHANGED <<fate, busVars, steerVars, agent, laneVars, interrupts>>
  PROVE  IInv'
<1>0. UNCHANGED <<fate, queue, current, loop, stopped, chain, steering, pending, agent,
                  lane, wait, takes, interrupts>>
  BY DEF busVars, steerVars, laneVars
<1>1. TypeOK'  BY <1>0 DEF IInv, TypeOK
<1>2. Apart' /\ Located'  BY <1>0, PlacesStay
<1>3. TurnInv'  BY <1>0 DEF IInv, TurnInv, Working
<1>4. NothingParked' /\ ChipTellsTruth' /\ SlotHeldByTurn'
  BY <1>0 DEF IInv, NothingParked, ChipTellsTruth, SlotHeldByTurn
<1> QED  BY <1>1, <1>2, <1>3, <1>4 DEF IInv

LEMMA UndoStep ==
  ASSUME IInv, Undo
  PROVE  IInv'
<1>0. /\ ~Working /\ ctx # <<>>
      /\ ctx' = Front(ctx) /\ undone' = undone \cup {Last(ctx)} /\ tail' = "settled"
      /\ crossed' = (crossed \/ snapshot # None)
      /\ UNCHANGED <<fate, loop, agent, snapshot>>
      /\ UNCHANGED <<fate, busVars, steerVars, agent, laneVars, interrupts>>
  BY DEF Undo, busVars
<1>1. ctx \in Seq(Messages)  BY DEF IInv, TypeOK
<1>2. /\ ctx' \in Seq(Messages) /\ Last(ctx) \in Messages
      /\ Range(ctx) = Range(ctx') \cup {Last(ctx)}
      /\ Distinct(ctx) => Distinct(ctx') /\ Last(ctx) \notin Range(ctx')
  BY <1>0, <1>1, FrontMembers
<1>3. ContextInv'
  <2> SUFFICES ASSUME ~crossed' PROVE ContextInv'  BY DEF ContextInv
  <2>1. ~crossed /\ snapshot' = None  BY <1>0
  <2>2. /\ Range(ctx) = Heard \ undone /\ Distinct(ctx) /\ undone \subseteq Heard
    BY <2>1 DEF IInv, ContextInv
  <2>3. Heard' = Heard  BY <1>0 DEF Heard
  <2>4. Range(ctx') = Heard' \ undone' /\ Distinct(ctx') /\ undone' \subseteq Heard'
    BY <1>0, <1>2, <2>2, <2>3
  <2>5. agent'.phase # "tools"  BY <1>0 DEF IInv, TurnInv, Working
  <2> QED  BY <1>0, <2>1, <2>4, <2>5 DEF ContextInv
<1>4. undone' \subseteq Messages /\ crossed' \in BOOLEAN /\ snapshot' \in Seq(Messages) \cup {None}
  BY <1>0, <1>2 DEF IInv, TypeOK
<1> QED  BY <1>0, <1>2, <1>3, <1>4, ContextRewritten

LEMMA CompactSteps ==
  ASSUME IInv, CompactStart \/ \E done \in BOOLEAN : CompactEnd(done)
  PROVE  IInv'
<1>0. /\ UNCHANGED <<fate, loop, agent, undone, crossed>>
      /\ UNCHANGED <<fate, busVars, steerVars, agent, laneVars, interrupts>>
  BY DEF CompactStart, CompactEnd, busVars
<1>1. /\ ctx \in Seq(Messages) /\ tail \in {"settled", "calls"}
      /\ snapshot \in Seq(Messages) \cup {None} /\ undone' \subseteq Messages
      /\ crossed' \in BOOLEAN
  BY <1>0 DEF IInv, TypeOK
<1>2. Heard' = Heard /\ Working' = Working  BY <1>0 DEF Heard, Working
<1>3. CASE CompactStart
  <2>1. ~Working /\ snapshot' = ctx /\ ctx' = ctx /\ tail' = tail  BY <1>3 DEF CompactStart
  <2>2. ContextInv'  BY <1>0, <1>2, <2>1 DEF IInv, ContextInv
  <2> QED  BY <1>0, <1>1, <2>1, <2>2, ContextRewritten
<1>4. ASSUME NEW done \in BOOLEAN, CompactEnd(done) PROVE IInv'
  <2>1. /\ snapshot # None /\ snapshot' = None
        /\ ctx' = IF done THEN snapshot ELSE ctx
        /\ tail' = IF done THEN "settled" ELSE tail
    BY <1>4 DEF CompactEnd
  <2>2. ContextInv'
    <3> SUFFICES ASSUME ~crossed PROVE ContextInv'  BY <1>0 DEF ContextInv
    <3>1. /\ Range(ctx) = Heard \ undone /\ Distinct(ctx) /\ undone \subseteq Heard
          /\ tail = "calls" <=> agent.phase = "tools"
          /\ ~Working /\ snapshot = ctx
      BY <2>1 DEF IInv, ContextInv
    <3>2. agent.phase # "tools"  BY <3>1 DEF IInv, TurnInv, Working
    <3>3. ctx' = ctx /\ tail' # "calls"  BY <2>1, <3>1, <3>2
    <3> QED  BY <1>0, <1>2, <2>1, <3>1, <3>2, <3>3 DEF ContextInv
  <2>3. ctx' \in Seq(Messages) /\ tail' \in {"settled", "calls"}
    <3>1. snapshot \in Seq(Messages)  BY <1>1, <2>1
    <3> QED  BY <1>1, <2>1, <3>1
  <2> QED  BY <1>0, <1>1, <2>1, <2>2, <2>3, ContextRewritten
<1> QED  BY <1>3, <1>4

(* Another process uses the lane.                                          *)
LEMMA OtherSteps ==
  ASSUME IInv, OtherTakes \/ OtherGives
  PROVE  IInv'
<1>0. /\ UNCHANGED <<fate, queue, current, loop, stopped, chain, steering, pending, agent,
                     ctx, tail, snapshot, undone, crossed, wait, interrupts>>
      /\ lane' \in {"other", "free"}
      /\ takes' = takes \/ (takes < MaxTakes /\ takes' = takes + 1)
  BY DEF OtherTakes, OtherGives, busVars, steerVars, ctxVars
<1>1. TypeOK'
  <2>1. takes' \in 0 .. MaxTakes  BY <1>0, BusAssumption DEF IInv, TypeOK
  <2> QED  BY <1>0, <2>1 DEF IInv, TypeOK
<1>2. Apart' /\ Located'  BY <1>0, PlacesStay
<1>3. TurnInv'  BY <1>0 DEF IInv, TurnInv, Working
<1>4. ContextInv'
  <2>1. Heard' = Heard /\ Working' = Working /\ UNCHANGED ctxVars
    BY <1>0 DEF Heard, Working, ctxVars
  <2> QED  BY <1>0, <2>1, ContextStays
<1>5. NothingParked' /\ ChipTellsTruth' /\ SlotHeldByTurn'
  BY <1>0 DEF IInv, NothingParked, ChipTellsTruth, SlotHeldByTurn
<1> QED  BY <1>1, <1>2, <1>3, <1>4, <1>5 DEF IInv

-----------------------------------------------------------------------------
(* The specification.                                                      *)

LEMMA InitInv == Init => IInv
<1> SUFFICES ASSUME Init PROVE IInv  OBVIOUS
<1>1. /\ queue = <<>> /\ chain = <<>> /\ steering = <<>> /\ ctx = <<>>
      /\ current = None /\ loop = "next" /\ pending = {} /\ undone = {}
      /\ agent = Resting /\ agent.phase = "none" /\ snapshot = None /\ tail = "settled"
      /\ lane = "free" /\ fate = [m \in Messages |-> "unsent"]
  BY DEF Init, Resting
<1>2. TypeOK
  <2>1. Resting \in Agent
    <3>1. 0 \in 0 .. MaxIterations /\ "none" \in Phases  BY BusAssumption DEF Phases
    <3> QED  BY <3>1 DEF Resting, Agent
  <2>2. /\ <<>> \in Seq(Item) /\ <<>> \in Seq(Messages)
        /\ 0 \in 0 .. MaxInterrupts /\ 0 \in 0 .. MaxTakes
    BY EmptySeq, BusAssumption
  <2> QED  BY <1>1, <2>1, <2>2 DEF Init, TypeOK, Loops
<1>3. Queued = {} /\ Distinct(Ids(queue))
  <2>1. <<>> \in Seq(Item)  BY EmptySeq
  <2>2. Ids(queue) = <<>>  BY <1>1, <2>1, IdsType
  <2> QED  BY <2>2, EmptyMembers DEF Queued
<1>4. Apart  BY <1>1, <1>3, EmptyMembers DEF Apart
<1>5. Located
  <2>1. Placed = {}  BY <1>1, <1>3, EmptyMembers DEF Placed
  <2>2. \A m \in Messages : fate[m] # "open"  BY <1>1
  <2> QED  BY <2>1, <2>2 DEF Located
<1>6. TurnInv  BY <1>1 DEF TurnInv, Working
<1>7. ContextInv
  <2>1. Heard = {}  BY <1>1 DEF Heard
  <2> QED  BY <1>1, <2>1, EmptyMembers DEF ContextInv
<1>8. NothingParked /\ ChipTellsTruth /\ SlotHeldByTurn
  BY <1>1, EmptyMembers DEF NothingParked, ChipTellsTruth, SlotHeldByTurn
<1> QED  BY <1>2, <1>4, <1>5, <1>6, <1>7, <1>8 DEF IInv

LEMMA StutterStep ==
  ASSUME IInv, UNCHANGED vars
  PROVE  IInv'
<1>0. UNCHANGED <<fate, queue, current, loop, stopped, chain, steering, pending, agent,
                  ctx, tail, snapshot, undone, crossed, lane, wait, takes, interrupts>>
  BY DEF vars, busVars, steerVars, ctxVars, laneVars
<1>1. TypeOK'  BY <1>0 DEF IInv, TypeOK
<1>2. Apart' /\ Located'  BY <1>0, PlacesStay
<1>3. TurnInv'  BY <1>0 DEF IInv, TurnInv, Working
<1>4. ContextInv'
  <2>1. Heard' = Heard /\ Working' = Working /\ UNCHANGED ctxVars
    BY <1>0 DEF Heard, Working, ctxVars
  <2> QED  BY <1>0, <2>1, ContextStays
<1>5. NothingParked' /\ ChipTellsTruth' /\ SlotHeldByTurn'
  BY <1>0 DEF IInv, NothingParked, ChipTellsTruth, SlotHeldByTurn
<1> QED  BY <1>1, <1>2, <1>3, <1>4, <1>5 DEF IInv

LEMMA Step == IInv /\ [Next]_vars => IInv'
<1> SUFFICES ASSUME IInv, [Next]_vars PROVE IInv'  OBVIOUS
<1>1. CASE LoopStep
  BY <1>1, NextItemStep, WaitingSteps, ReleasedStep DEF LoopStep
<1>2. CASE AgentStep
  <2>1. CASE HearInput  BY <2>1, HearInputStep
  <2>2. CASE Prepared  BY <2>2, PreparedStep
  <2>3. CASE \/ Built \/ \E with \in {"text", "calls"} : Answered(with)
             \/ \E retry \in BOOLEAN : ErrorHooksEnd(retry)
             \/ \E empty \in BOOLEAN : TextHooksEnd(empty)
             \/ Again
    BY <2>3, RequestSteps
  <2>4. CASE CallHooksEnd \/ \E return \in BOOLEAN : ToolsEnd(return)  BY <2>4, ToolSteps
  <2>5. CASE RequestFails \/ LastTurnEnd  BY <2>5, EndingSteps
  <2> QED  BY <1>2, <2>1, <2>2, <2>3, <2>4, <2>5 DEF AgentStep
<1>3. CASE Deliveries  BY <1>3, DeliverStep DEF Deliveries
<1>4. CASE UserStep
  BY <1>4, SubmitStep, InterruptStep, CancelStep, UndoStep, CompactSteps DEF UserStep
<1>5. CASE OtherTakes \/ OtherGives  BY <1>5, OtherSteps
<1>6. CASE UNCHANGED vars  BY <1>6, StutterStep
<1> QED  BY <1>1, <1>2, <1>3, <1>4, <1>5, <1>6 DEF Next

(* The inductive invariant: every submission is in one place or settled,   *)
(* the item of a turn is open until its run hears it, and a compaction in  *)
(* flight that nobody crossed still holds the context it started from.     *)
THEOREM Invariant == Spec => []IInv
<1> QED  BY InitInv, Step, PTL DEF Spec

LEMMA InvNothingLost == IInv => NothingLost
<1> SUFFICES ASSUME IInv, NEW m \in Messages
             PROVE  \/ fate[m] = "open" /\ Sightings(m) = 1
                    \/ fate[m] # "open" /\ Sightings(m) = (IF current = m THEN 1 ELSE 0)
  BY DEF NothingLost
<1> DEFINE Is(s) == IF m \in Range(s) THEN 1 ELSE 0
<1>1. /\ Ids(queue) \in Seq(Messages) /\ Distinct(Ids(queue))
      /\ chain \in Seq(Messages) /\ Distinct(chain)
      /\ steering \in Seq(Messages) /\ Distinct(steering)
  BY IdsType DEF IInv, TypeOK, Apart
<1>2. Cardinality({i \in DOMAIN queue : queue[i].id = m}) = Is(Ids(queue))
  <2>1. {i \in DOMAIN queue : queue[i].id = m} = {i \in DOMAIN Ids(queue) : Ids(queue)[i] = m}
    BY DEF Ids
  <2> QED  BY <1>1, <2>1, Occurrences
<1>3. Cardinality({i \in DOMAIN chain : chain[i] = m}) = Is(chain)  BY <1>1, Occurrences
<1>4. Cardinality({i \in DOMAIN steering : steering[i] = m}) = Is(steering)
  BY <1>1, Occurrences
<1>5. Sightings(m) = Is(Ids(queue)) + Is(chain) + Is(steering) + (IF current = m THEN 1 ELSE 0)
  BY <1>2, <1>3, <1>4 DEF Sightings
<1>6. /\ ~(m \in Range(Ids(queue)) /\ m \in Range(chain))
      /\ ~(m \in Range(Ids(queue)) /\ m \in Range(steering))
      /\ ~(m \in Range(chain) /\ m \in Range(steering))
  BY DEF IInv, Apart, Queued
<1>7. m \in Placed <=> m \in Range(Ids(queue)) \/ m \in Range(chain) \/ m \in Range(steering)
  BY DEF Placed, Queued
<1>8. CASE m \in Placed
  <2>1. fate[m] = "open" /\ m # current  BY <1>8 DEF IInv, Located
  <2> QED  BY <1>5, <1>6, <1>7, <1>8, <2>1
<1>9. CASE m \notin Placed
  <2>1. fate[m] = "open" => m = current  BY <1>9 DEF IInv, Located
  <2> QED  BY <1>5, <1>7, <1>9, <2>1
<1> QED  BY <1>8, <1>9

(* No submission is lost or run twice, none waits where nobody looks, the  *)
(* chip counts the steered ones, and the slot of a turn goes back: in      *)
(* every handoff between queue, chain, agent and turn, whatever is         *)
(* interrupted or cancelled (enqueue, steer, takeUndeliveredSteering,      *)
(* acquireTurn).                                                           *)
THEOREM SubmissionsSafe == Spec => []SubmissionsAccounted
<1>1. IInv => SubmissionsAccounted  BY InvNothingLost DEF SubmissionsAccounted, IInv
<1> QED  BY <1>1, Invariant, PTL

(* The context holds each message that the model was given and no undo     *)
(* took back, once, and calls with their results, unless a turn or an undo *)
(* began under a compaction (#prepareIteration, executeCommand).           *)
THEOREM HistorySafe == Spec => []HistoryIntact
<1>1. IInv => HistoryIntact
  <2> SUFFICES ASSUME IInv, ~crossed PROVE ContextKept /\ (tail = "calls" <=> agent.phase = "tools")
    BY DEF HistoryIntact, QuietContextKept, ToolsPaired
  <2>1. /\ Range(ctx) = Heard \ undone /\ Distinct(ctx)
        /\ tail = "calls" <=> agent.phase = "tools"
    BY DEF IInv, ContextInv
  <2>2. Len(ctx) = Cardinality(Range(ctx))  BY <2>1, DistinctLength DEF IInv, TypeOK
  <2> QED  BY <2>1, <2>2 DEF ContextKept, Heard
<1> QED  BY <1>1, Invariant, PTL
=============================================================================
