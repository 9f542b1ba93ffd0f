-------------------------- MODULE LaneLedgerProofs --------------------------
(* Proofs about LaneLedger, for any processes, workers, hosts, capacity    *)
(* and faults.                                                             *)
EXTENDS LaneLedger, FiniteSetTheorems, TLAPS

USE LaneAssumption, NoneAssumption DEF FaultKinds

(* A new token is one of the worker's own that nothing mentions yet.       *)
LEMMA FreshTokenIsNew ==
  ASSUME NEW w \in Workers, FreshTokens(w) # {}
  PROVE  FreshToken(w) \in Tokens /\ FreshToken(w)[1] = w /\ FreshToken(w) \notin InUse
  BY DEF FreshTokens, FreshToken

(* Every lane has a slot 0, where each acquire starts.                     *)
LEMMA SlotZero == 0 \in Slots
  BY DEF Slots

WorkerTypes ==
  /\ pc \in [Workers -> PCs] /\ at \in [Workers -> Slots]
  /\ token \in [Workers -> Tokens \cup {None}]
  /\ judged \in [Workers -> Tokens \cup {None}]
  /\ registered \subseteq Tokens
  /\ held \in [Procs -> SUBSET (Tokens \X Slots)]

(* Giving up an acquire leaves the worker well typed.                      *)
LEMMA GiveUpType ==
  ASSUME TypeOK, NEW w \in Workers, NEW next \in PCs, GiveUp(w, next)
  PROVE  WorkerTypes'
  BY SlotZero DEF TypeOK, GiveUp, WorkerTypes

(* How an acquire that finds its slot taken goes on.                       *)
LEMMA NextSlotType ==
  ASSUME TypeOK, NEW w \in Workers, NextSlot(w)
  PROVE  WorkerTypes'
<1>1. CASE at[w] = Cap - 1
  <2>1. GiveUp(w, "polling") BY <1>1 DEF NextSlot
  <2>2. QED BY <2>1, GiveUpType DEF PCs
<1>2. CASE at[w] # Cap - 1
  <2>1. at[w] + 1 \in Slots /\ "create" \in PCs
    BY <1>2 DEF TypeOK, Slots, PCs, Acquiring, NextSlot
  <2>2. /\ pc' = [pc EXCEPT ![w] = "create"] /\ at' = [at EXCEPT ![w] = @ + 1]
        /\ judged' = [judged EXCEPT ![w] = None] /\ UNCHANGED <<token, registered, held>>
    BY <1>2 DEF NextSlot
  <2>3. QED BY <2>1, <2>2 DEF TypeOK, WorkerTypes
<1>3. QED BY <1>1, <1>2

(* Winning a slot leaves the worker and the heartbeat table well typed.    *)
LEMMA WonType ==
  ASSUME TypeOK, NEW w \in Workers, token[w] # None, Won(w)
  PROVE  WorkerTypes'
<1>1. "holding" \in PCs BY DEF PCs
<1>2. <<token[w], at[w]>> \in Tokens \X Slots BY DEF TypeOK
<1>3. held' \in [Procs -> SUBSET (Tokens \X Slots)] BY <1>2 DEF TypeOK, Won
<1>4. QED BY <1>1, <1>3 DEF TypeOK, Won, WorkerTypes

(* Every step keeps the ledger well typed.                                 *)
LEMMA TypingStep ==
  ASSUME TypeOK, TokenInv, [Next]_vars
  PROVE  TypeOK'
<1> USE DEF TypeOK
<1>a. ASSUME NEW w \in Workers, pc[w] \in Acquiring PROVE token[w] # None
  BY <1>a DEF TokenInv, Acquiring
<1>1. ASSUME NEW w \in Workers, StartAcquire(w) PROVE TypeOK'
  BY <1>1, FreshTokenIsNew DEF StartAcquire, fsVars, ghostVars, PCs, Acquiring
<1>2. ASSUME NEW w \in Workers, Acquire(w) PROVE TypeOK'
  <2>1. CASE Create(w)
    <3>1. token[w] # None BY <1>a, <2>1 DEF Create, Acquiring
    <3>2. CASE WriteSlot(at[w], token[w]) /\ Won(w)
      BY <2>1, <3>1, <3>2, WonType DEF Create, WriteSlot, WorkerTypes, ghostVars
    <3>3. CASE Goto(w, "read") /\ UNCHANGED fsVars
      BY <2>1, <3>3 DEF Create, Goto, fsVars, ghostVars, PCs, Acquiring
    <3>4. QED BY <2>1, <3>2, <3>3 DEF Create
  <2>2. CASE Recreate(w)
    <3>1. CASE slot[at[w]] = None /\ WriteSlot(at[w], token[w]) /\ Won(w)
      <4>1. token[w] # None BY <1>a, <2>2 DEF Recreate, Acquiring
      <4>2. QED BY <2>2, <3>1, <4>1, WonType DEF Recreate, WriteSlot, WorkerTypes, ghostVars
    <3>2. CASE NextSlot(w) /\ UNCHANGED fsVars
      BY <2>2, <3>2, NextSlotType DEF WorkerTypes, Recreate, fsVars, ghostVars
    <3>3. QED BY <2>2, <3>1, <3>2 DEF Recreate
  <2>3. CASE Read(w)
    BY <2>3 DEF Read, Goto, fsVars, ghostVars, PCs, Acquiring
  <2>4. CASE Judge(w)
    <3>1. CASE NextSlot(w)
      BY <2>4, <3>1, NextSlotType DEF WorkerTypes, Judge, fsVars, ghostVars
    <3>2. CASE Goto(w, "verify")
      BY <2>4, <3>2 DEF Judge, Goto, fsVars, ghostVars, PCs, Acquiring
    <3>3. QED BY <2>4, <3>1, <3>2 DEF Judge
  <2>5. CASE Verify(w)
    <3>1. CASE NextSlot(w)
      BY <2>5, <3>1, NextSlotType DEF WorkerTypes, Verify, fsVars, ghostVars
    <3>2. CASE Goto(w, "rename")
      BY <2>5, <3>2 DEF Verify, Goto, fsVars, ghostVars, PCs, Acquiring
    <3>3. QED BY <2>5, <3>1, <3>2 DEF Verify
  <2>6. CASE RenameClaim(w)
    BY <2>6 DEF RenameClaim, WriteSlot, Goto, PCs, Acquiring
  <2>7. CASE ReadBack(w)
    <3>1. CASE NextSlot(w)
      BY <2>7, <3>1, NextSlotType DEF WorkerTypes, ReadBack, fsVars, ghostVars
    <3>2. CASE Won(w)
      <4>1. token[w] # None BY <1>a, <2>7 DEF ReadBack, Acquiring
      <4>2. QED BY <2>7, <3>2, <4>1, WonType DEF ReadBack, WorkerTypes, fsVars, ghostVars
    <3>3. QED BY <2>7, <3>1, <3>2 DEF ReadBack
  <2>8. QED
    BY <1>2, <2>1, <2>2, <2>3, <2>4, <2>5, <2>6, <2>7 DEF Acquire
<1>3. ASSUME NEW w \in Workers, StartRelease(w) PROVE TypeOK'
  BY <1>3 DEF StartRelease, fsVars, ghostVars, PCs, Releasing
<1>4. ASSUME NEW w \in Workers, Release(w) PROVE TypeOK'
  <2>1. "idle" \in PCs /\ "relrm" \in PCs BY DEF PCs, Releasing
  <2>2. CASE ReleaseRead(w)
    <3>1. CASE Goto(w, "relrm")
      BY <2>1, <2>2, <3>1 DEF ReleaseRead, Goto, fsVars, ghostVars
    <3>2. CASE GiveUp(w, "idle")
      BY <2>1, <2>2, <3>2, GiveUpType DEF ReleaseRead, WorkerTypes, fsVars, ghostVars
    <3>3. QED BY <2>2, <3>1, <3>2 DEF ReleaseRead
  <2>3. CASE ReleaseRm(w)
    BY <2>1, <2>3, GiveUpType DEF ReleaseRm, RemoveSlot, WriteSlot, WorkerTypes, ghostVars
  <2>4. QED BY <1>4, <2>2, <2>3 DEF Release
<1>5. ASSUME NEW p \in Procs, BeatRead(p) PROVE TypeOK'
  <2>1. PICK h \in held[p] :
          /\ held' \in {held, [held EXCEPT ![p] = @ \ {h}]}
          /\ registered' \in {registered, registered \ {h[1]}}
          /\ beat' \in {beat, [beat EXCEPT ![p] = h]}
    BY <1>5 DEF BeatRead
  <2>2. held' \in [Procs -> SUBSET (Tokens \X Slots)] BY <2>1
  <2>3. beat' \in [Procs -> (Tokens \X Slots) \cup {None}] BY <2>1
  <2>4. QED BY <1>5, <2>1, <2>2, <2>3 DEF BeatRead, fsVars, workerVars, ghostVars
<1>6. ASSUME NEW p \in Procs, BeatTouch(p) PROVE TypeOK'
  BY <1>6 DEF BeatTouch, workerVars, ghostVars
<1>7. ASSUME NEW p \in Procs, SweepStat(p) PROVE TypeOK'
  BY <1>7 DEF SweepStat, fsVars, workerVars, ghostVars
<1>8. ASSUME NEW p \in Procs, SweepRm(p) PROVE TypeOK'
  BY <1>8 DEF SweepRm, RemoveSlot, WriteSlot, workerVars
<1>9. ASSUME NEW s \in Slots, Expire(s) PROVE TypeOK'
  <2>1. Owned(s) \in BOOLEAN BY DEF Owned
  <2>2. QED BY <1>9, <2>1 DEF Expire, procVars, workerVars
<1>10. ASSUME NEW p \in Procs, Stall(p) \/ Resume(p) PROVE TypeOK'
  BY <1>10 DEF Stall, Resume, Fault, fsVars, workerVars, ghostVars
<1>11. ASSUME NEW p \in Procs, Crash(p) PROVE TypeOK'
  BY <1>11 DEF Crash, Fault, fsVars, ghostVars, PCs, Slots
<1>12. ASSUME NEW w \in Workers, Leak(w) \/ IoError(w) PROVE TypeOK'
  <2>1. "idle" \in PCs BY DEF PCs
  <2>2. QED
    BY <1>12, <2>1, GiveUpType DEF Leak, IoError, Fault, WorkerTypes, fsVars, ghostVars
<1>13. ASSUME NEW w \in Workers, ReadError(w) PROVE TypeOK'
  <2>1. CASE NextSlot(w)
    BY <1>13, <2>1, NextSlotType DEF WorkerTypes, ReadError, Fault, fsVars, ghostVars
  <2>2. CASE Goto(w, "recreate")
    BY <1>13, <2>2 DEF ReadError, Fault, Goto, fsVars, ghostVars, PCs, Acquiring
  <2>3. QED BY <1>13, <2>1, <2>2 DEF ReadError
<1>14. CASE UNCHANGED vars
  BY <1>14 DEF vars, fsVars, procVars, workerVars, ghostVars
<1>15. QED
  BY <1>1, <1>2, <1>3, <1>4, <1>5, <1>6, <1>7, <1>8, <1>9, <1>10, <1>11, <1>12, <1>13, <1>14
  DEF Next, Step, Environment

(* Every step keeps tokens with their workers.                             *)
LEMMA TokenStep ==
  ASSUME TypeOK, TokenInv, [Next]_vars
  PROVE  TokenInv'
<1> USE DEF TypeOK, TokenInv
<1>1. ASSUME NEW w \in Workers, StartAcquire(w) PROVE TokenInv'
  BY <1>1, FreshTokenIsNew DEF StartAcquire, Up, fsVars, ghostVars
<1>2. ASSUME NEW w \in Workers, NextSlot(w), pc[w] \in Acquiring, UNCHANGED status PROVE TokenInv'
  BY <1>2 DEF NextSlot, GiveUp, Acquiring
<1>3. ASSUME NEW w \in Workers, Won(w), Up(w), pc[w] \in Acquiring, UNCHANGED status PROVE TokenInv'
  BY <1>3 DEF Won, Up, Acquiring
<1>4. ASSUME NEW w \in Workers, Acquire(w) PROVE TokenInv'
  BY <1>4, <1>2, <1>3 DEF Acquire, Create, Recreate, Read, Judge, Verify, RenameClaim, ReadBack,
    Goto, Up, Acquiring
<1>5. ASSUME NEW w \in Workers, StartRelease(w) \/ Release(w) PROVE TokenInv'
  BY <1>5 DEF StartRelease, Release, ReleaseRead, ReleaseRm, Goto, GiveUp, Up
<1>6. ASSUME NEW p \in Procs, BeatRead(p) \/ BeatTouch(p) \/ SweepStat(p) \/ SweepRm(p)
      PROVE TokenInv'
  BY <1>6 DEF BeatRead, BeatTouch, SweepStat, SweepRm, workerVars
<1>7. ASSUME NEW s \in Slots, Expire(s) PROVE TokenInv'
  BY <1>7 DEF Expire, workerVars, procVars
<1>8. ASSUME NEW p \in Procs, Stall(p) \/ Resume(p) PROVE TokenInv'
  BY <1>8 DEF Stall, Resume, Fault, workerVars
<1>9. ASSUME NEW p \in Procs, Crash(p) PROVE TokenInv'
  BY <1>9 DEF Crash, Fault, WorkersIn
<1>10. ASSUME NEW w \in Workers, Leak(w) \/ IoError(w) PROVE TokenInv'
  BY <1>10 DEF Leak, IoError, Fault, GiveUp, Up
<1>11. ASSUME NEW w \in Workers, ReadError(w) PROVE TokenInv'
  BY <1>11, <1>2 DEF ReadError, Fault, Goto, Up, Acquiring
<1>12. CASE UNCHANGED vars
  BY <1>12 DEF vars, procVars, workerVars
<1>13. QED
  BY <1>1, <1>4, <1>5, <1>6, <1>7, <1>8, <1>9, <1>10, <1>11, <1>12 DEF Next, Step, Environment

(* The empty ledger is well typed.                                         *)
LEMMA InitTyped == Init => TypeOK /\ TokenInv
<1>1. Init => TypeOK
  <2>1. 0 \in 0 .. MaxFaults /\ "idle" \in PCs BY DEF PCs
  <2>2. SUFFICES ASSUME Init PROVE TypeOK OBVIOUS
  <2>3. /\ slot \in [Slots -> Tokens \cup {None}] /\ age \in [Slots -> {"fresh", "quiet", "stale"}]
        /\ status \in [Procs -> {"up", "stalled", "dead"}] /\ registered \subseteq Tokens
    BY <2>2 DEF Init
  <2>4. /\ held \in [Procs -> SUBSET (Tokens \X Slots)]
        /\ beat \in [Procs -> (Tokens \X Slots) \cup {None}]
        /\ sweep \in [Procs -> (Slots \X Tokens) \cup {None}]
    BY <2>2 DEF Init
  <2>5. /\ pc \in [Workers -> PCs] /\ at \in [Workers -> Slots]
        /\ token \in [Workers -> Tokens \cup {None}] /\ judged \in [Workers -> Tokens \cup {None}]
    BY <2>2, <2>1, SlotZero DEF Init
  <2>6. QED BY <2>1, <2>2, <2>3, <2>4, <2>5 DEF Init, TypeOK
<1>2. Init => TokenInv BY DEF Init, TokenInv
<1>3. QED BY <1>1, <1>2

(* Type correctness of the ledger, and no registration in processSlots     *)
(* without a live lease, whatever the faults.                              *)
THEOREM Typing == Spec => [](TypeOK /\ TokenInv)
<1>1. Init => TypeOK /\ TokenInv BY InitTyped
<1>2. TypeOK /\ TokenInv /\ [Next]_vars => (TypeOK /\ TokenInv)'
  BY TypingStep, TokenStep
<1>3. QED BY <1>1, <1>2, PTL DEF Spec

(* The table of live leases never outgrows the leases that are live.       *)
THEOREM NoGhosts == Spec => []NoGhostRegistration
<1>1. TokenInv => NoGhostRegistration BY DEF TokenInv, NoGhostRegistration
<1>2. QED BY <1>1, Typing, PTL
-----------------------------------------------------------------------------
(* Heartbeats                                                              *)

(* A new token is in nobody's heartbeat table.                             *)
LEMMA FreshIsUnmentioned ==
  ASSUME TypeOK, NEW w \in Workers, FreshTokens(w) # {}
  PROVE  /\ \A v \in Workers : token[v] # FreshToken(w) /\ judged[v] # FreshToken(w)
         /\ \A s \in Slots : slot[s] # FreshToken(w)
         /\ \A p \in Procs : \A h \in held[p] : h[1] # FreshToken(w)
         /\ \A p \in Procs : sweep[p] # None => sweep[p][2] # FreshToken(w)
<1>1. FreshToken(w) \notin InUse BY FreshTokenIsNew
<1>2. ASSUME NEW p \in Procs, NEW h \in held[p] PROVE h[1] # FreshToken(w)
  <2>1. h \in UNION {held[q] : q \in Procs} OBVIOUS
  <2>2. QED BY <1>1, <2>1 DEF InUse
<1>3. QED BY <1>1, <1>2 DEF InUse

(* Every step keeps a heartbeat on the slot its holder holds.              *)
LEMMA HeldStep ==
  ASSUME TypeOK, TokenInv, HeldInv, [Next]_vars
  PROVE  HeldInv'
<1> USE DEF TypeOK, HeldInv
<1>1. ASSUME NEW w \in Workers, StartAcquire(w) PROVE HeldInv'
  BY <1>1, FreshIsUnmentioned DEF StartAcquire
<1>2. ASSUME NEW w \in Workers, NextSlot(w), pc[w] # "holding" PROVE HeldInv'
  <2>1. \A v \in Workers : token'[v] # None => token'[v] = token[v]
    BY <1>2 DEF NextSlot, GiveUp
  <2>2. held' = held BY <1>2 DEF NextSlot, GiveUp
  <2>3. \A v \in Workers : v # w => pc'[v] = pc[v] /\ at'[v] = at[v]
    BY <1>2 DEF NextSlot, GiveUp
  <2>4. \A p \in Procs : \A h \in held[p] : h[1] # token[w] /\ h[1] # None
    BY <1>2
  <2>5. QED BY <2>1, <2>2, <2>3, <2>4
<1>3. ASSUME NEW w \in Workers, Won(w), pc[w] \in Acquiring PROVE HeldInv'
  <2>1. token[w] \in Tokens /\ PidOf(token[w]) = ProcOf[w]
    BY <1>3 DEF TokenInv, Acquiring, PidOf
  <2>2. \A v \in Workers : token[v] = token[w] => v = w
    BY <2>1 DEF TokenInv
  <2>3. QED BY <1>3, <2>1, <2>2 DEF Won
<1>4. ASSUME NEW w \in Workers, NEW label, Goto(w, label), pc[w] # "holding" PROVE HeldInv'
  BY <1>4 DEF Goto
<1>5. ASSUME NEW w \in Workers, Acquire(w) PROVE HeldInv'
  <2>1. pc[w] \in Acquiring /\ pc[w] # "holding"
    BY <1>5 DEF Acquire, Create, Recreate, Read, Judge, Verify, RenameClaim, ReadBack, Acquiring
  <2>2. NextSlot(w) \/ Won(w) \/ (\E label : Goto(w, label))
        \/ (pc' = [pc EXCEPT ![w] = "stat"] /\ UNCHANGED <<at, token, held>>)
    BY <1>5 DEF Acquire, Create, Recreate, Read, Judge, Verify, RenameClaim, ReadBack
  <2>3. QED BY <1>2, <1>3, <1>4, <2>1, <2>2
<1>6. ASSUME NEW w \in Workers, NEW label, GiveUp(w, label) PROVE HeldInv'
  BY <1>6 DEF GiveUp
<1>7. ASSUME NEW w \in Workers, StartRelease(w) PROVE HeldInv'
  <2>1. \A p \in Procs : held'[p] \subseteq held[p] BY <1>7 DEF StartRelease
  <2>2. \A p \in Procs : \A h \in held'[p] : h[1] # token[w]
    BY <1>7, <2>1 DEF StartRelease, TokenInv, PidOf
  <2>3. QED BY <1>7, <2>1, <2>2 DEF StartRelease
<1>8. ASSUME NEW w \in Workers, Release(w) PROVE HeldInv'
  BY <1>8, <1>4, <1>6 DEF Release, ReleaseRead, ReleaseRm
<1>9. ASSUME NEW p \in Procs, BeatRead(p) PROVE HeldInv'
  <2>1. \A q \in Procs : held'[q] \subseteq held[q] BY <1>9 DEF BeatRead
  <2>2. QED BY <1>9, <2>1 DEF BeatRead, workerVars
<1>10. ASSUME NEW p \in Procs, BeatTouch(p) \/ SweepStat(p) \/ SweepRm(p) PROVE HeldInv'
  BY <1>10 DEF BeatTouch, SweepStat, SweepRm, workerVars
<1>11. ASSUME NEW s \in Slots, Expire(s) PROVE HeldInv'
  BY <1>11 DEF Expire, workerVars, procVars
<1>12. ASSUME NEW p \in Procs, Stall(p) \/ Resume(p) PROVE HeldInv'
  BY <1>12 DEF Stall, Resume, workerVars
<1>13. ASSUME NEW p \in Procs, Crash(p) PROVE HeldInv'
  <2>1. \A q \in Procs : held'[q] \subseteq held[q] BY <1>13 DEF Crash
  <2>2. \A v \in Workers : token'[v] # None => token'[v] = token[v] /\ pc'[v] = pc[v] /\ at'[v] = at[v]
    BY <1>13 DEF Crash
  <2>3. QED BY <2>1, <2>2
<1>14. ASSUME NEW w \in Workers, Leak(w) \/ IoError(w) PROVE HeldInv'
  BY <1>14, <1>6 DEF Leak, IoError
<1>15. ASSUME NEW w \in Workers, ReadError(w) PROVE HeldInv'
  BY <1>15, <1>2, <1>4 DEF ReadError
<1>16. CASE UNCHANGED vars
  BY <1>16 DEF vars, procVars, workerVars
<1>17. QED
  BY <1>1, <1>5, <1>7, <1>8, <1>9, <1>10, <1>11, <1>12, <1>13, <1>14, <1>15, <1>16
  DEF Next, Step, Environment
-----------------------------------------------------------------------------
(* A lease only moves on: its worker keeps it at the same slot, and then   *)
(* does not fall back from standing there, or takes it to a later one.     *)

Moves(v) ==
  \/ at'[v] > at[v]
  \/ at'[v] = at[v] /\ (pc[v] \in Standing => pc'[v] \in Standing)

Mentioned(m) ==
  \/ \E s \in Slots : m = slot[s]
  \/ \E w \in Workers : m = judged[w]
  \/ \E p \in Procs : sweep[p] # None /\ m = sweep[p][2]

Advance ==
  \A v \in Workers : token'[v] # None =>
    IF token'[v] = token[v] THEN Moves(v) ELSE ~Mentioned(token'[v])

(* A worker keeps its token while it moves forward through the slots, and  *)
(* a token it had before is never its token again.                         *)
LEMMA AdvanceStep ==
  ASSUME TypeOK, TokenInv, [Next]_vars
  PROVE  Advance
<1> USE DEF TypeOK
<1> at \in [Workers -> Int] BY DEF Slots
<1>1. ASSUME NEW w \in Workers, StartAcquire(w) PROVE Advance
  BY <1>1, FreshIsUnmentioned, FreshTokenIsNew
  DEF StartAcquire, Advance, Moves, Mentioned, TokenInv
<1>2. ASSUME NEW w \in Workers, NextSlot(w) PROVE Advance
  BY <1>2 DEF NextSlot, GiveUp, Advance, Moves
<1>3. ASSUME NEW w \in Workers, Won(w) PROVE Advance
  BY <1>3 DEF Won, Advance, Moves, Standing
<1>4. ASSUME NEW w \in Workers, NEW label, Goto(w, label),
             pc[w] \in Standing => label \in Standing
      PROVE  Advance
  BY <1>4 DEF Goto, Advance, Moves
<1>5. ASSUME NEW w \in Workers, NEW label, GiveUp(w, label) PROVE Advance
  BY <1>5 DEF GiveUp, Advance, Moves
<1>6. ASSUME NEW w \in Workers, Acquire(w) PROVE Advance
  <2>1. CASE Create(w)
    BY <2>1, <1>3, <1>4 DEF Create, Standing, Releasing
  <2>2. CASE Recreate(w)
    BY <2>2, <1>2, <1>3 DEF Recreate
  <2>3. CASE Read(w)
    BY <2>3 DEF Read, Goto, Advance, Moves, Standing, Releasing
  <2>4. CASE Judge(w)
    BY <2>4, <1>2, <1>4 DEF Judge, Standing, Releasing
  <2>5. CASE Verify(w)
    BY <2>5, <1>2, <1>4 DEF Verify, Standing, Releasing
  <2>6. CASE RenameClaim(w)
    BY <2>6, <1>4 DEF RenameClaim, Standing, Releasing
  <2>7. CASE ReadBack(w)
    BY <2>7, <1>2, <1>3 DEF ReadBack
  <2>8. QED
    BY <1>6, <2>1, <2>2, <2>3, <2>4, <2>5, <2>6, <2>7 DEF Acquire
<1>7. ASSUME NEW w \in Workers, StartRelease(w) PROVE Advance
  BY <1>7 DEF StartRelease, Advance, Moves, Standing, Releasing
<1>8. ASSUME NEW w \in Workers, Release(w) PROVE Advance
  BY <1>8, <1>4, <1>5 DEF Release, ReleaseRead, ReleaseRm, Standing, Releasing
<1>9. ASSUME UNCHANGED workerVars PROVE Advance
  BY <1>9 DEF workerVars, Advance, Moves
<1>10. ASSUME NEW p \in Procs, Crash(p) PROVE Advance
  BY <1>10 DEF Crash, Advance, Moves
<1>11. ASSUME NEW w \in Workers, ReadError(w) PROVE Advance
  BY <1>11, <1>2, <1>4 DEF ReadError, Standing, Releasing
<1>12. ASSUME NEW w \in Workers, Leak(w) \/ IoError(w) PROVE Advance
  BY <1>12, <1>5 DEF Leak, IoError
<1>13. QED
  BY <1>1, <1>6, <1>7, <1>8, <1>9, <1>10, <1>11, <1>12
  DEF Next, Step, Environment, BeatRead, BeatTouch, SweepStat, SweepRm, Expire, Stall, Resume, vars

(* PastOrStanding and Gone of the next state, of markers of either state.   *)
PastOrStandingNext(m, s) ==
  \A w \in Workers : token'[w] = m => at'[w] > s \/ (at'[w] = s /\ pc'[w] \in Standing)
GoneNext(m, s) == \A w \in Workers : token'[w] = m => at'[w] > s

(* Once a worker stands at or beyond a slot it stays there.                *)
LEMMA PastIsStable ==
  ASSUME TypeOK, TypeOK', Advance, NEW m \in Tokens, NEW s \in Slots, Mentioned(m)
  PROVE  /\ PastOrStanding(m, s) => PastOrStandingNext(m, s)
         /\ Gone(m, s) => GoneNext(m, s)
<1>1. \A v \in Workers : token'[v] = m => token[v] = m /\ Moves(v)
  BY DEF Advance
<1>2. at \in [Workers -> Int] /\ at' \in [Workers -> Int] /\ s \in Int BY DEF TypeOK, Slots
<1>3. PastOrStanding(m, s) => PastOrStandingNext(m, s)
  BY <1>1, <1>2 DEF PastOrStanding, PastOrStandingNext, Moves
<1>4. Gone(m, s) => GoneNext(m, s)
  BY <1>1, <1>2 DEF Gone, GoneNext, Moves
<1>5. QED BY <1>3, <1>4

-----------------------------------------------------------------------------
(* What a step does to the slots and to the markers workers judged         *)

SlotStep ==
  \A s \in Slots :
    \/ slot'[s] \in {slot[s], None}
    \/ \E w \in Workers :
         slot'[s] = token[w] /\ token'[w] = token[w] /\ at'[w] = s /\ pc'[w] \in Standing

JudgedStep ==
  \A w \in Workers :
    \/ judged'[w] = None
    \/ judged'[w] = judged[w] /\ at'[w] = at[w]
    \/ judged'[w] = slot[at[w]] /\ at'[w] = at[w]

(* How a step changes slot files and the markers workers have read.        *)
LEMMA SlotAndJudgedStep ==
  ASSUME TypeOK, TokenInv, [Next]_vars
  PROVE  SlotStep /\ JudgedStep
<1> USE DEF TypeOK
<1>1. ASSUME NEW w \in Workers, NextSlot(w) PROVE JudgedStep
  BY <1>1 DEF NextSlot, GiveUp, JudgedStep
<1>2. ASSUME NEW w \in Workers, Won(w) PROVE JudgedStep
  BY <1>2 DEF Won, JudgedStep
<1>3. ASSUME NEW w \in Workers, NEW label, Goto(w, label) PROVE JudgedStep
  BY <1>3 DEF Goto, JudgedStep
<1>4. ASSUME NEW w \in Workers, NEW label, GiveUp(w, label) PROVE JudgedStep
  BY <1>4 DEF GiveUp, JudgedStep
<1>5. ASSUME UNCHANGED slot PROVE SlotStep
  BY <1>5 DEF SlotStep
<1>6. ASSUME NEW s \in Slots, RemoveSlot(s) PROVE SlotStep
  BY <1>6 DEF RemoveSlot, WriteSlot, SlotStep
<1>7. ASSUME NEW w \in Workers, WriteSlot(at[w], token[w]), UNCHANGED <<token, at>>,
             pc'[w] \in Standing
      PROVE  SlotStep
  BY <1>7 DEF WriteSlot, SlotStep
<1>8. ASSUME NEW w \in Workers, Acquire(w) PROVE SlotStep /\ JudgedStep
  <2>1. CASE Create(w) \/ Recreate(w)
    BY <2>1, <1>1, <1>2, <1>3, <1>5, <1>7 DEF Create, Recreate, Won, fsVars, Standing
  <2>2. CASE Read(w)
    <3>1. JudgedStep BY <2>2, <1>3 DEF Read, JudgedStep
    <3>2. SlotStep BY <2>2, <1>5 DEF Read, fsVars
    <3>3. QED BY <3>1, <3>2
  <2>3. CASE Judge(w) \/ Verify(w) \/ ReadBack(w)
    BY <2>3, <1>1, <1>2, <1>3, <1>5 DEF Judge, Verify, ReadBack, fsVars
  <2>4. CASE RenameClaim(w)
    BY <2>4, <1>3, <1>7 DEF RenameClaim, Goto, Standing
  <2>5. QED BY <1>8, <2>1, <2>2, <2>3, <2>4 DEF Acquire
<1>9. ASSUME NEW w \in Workers, Release(w) PROVE SlotStep /\ JudgedStep
  BY <1>9, <1>3, <1>4, <1>5, <1>6 DEF Release, ReleaseRead, ReleaseRm, fsVars
<1>10. ASSUME NEW w \in Workers, StartAcquire(w) \/ StartRelease(w) PROVE SlotStep /\ JudgedStep
  BY <1>10, <1>5 DEF StartAcquire, StartRelease, fsVars, JudgedStep
<1>11. ASSUME UNCHANGED workerVars PROVE JudgedStep
  BY <1>11 DEF workerVars, JudgedStep
<1>12. ASSUME NEW p \in Procs, Crash(p) PROVE SlotStep /\ JudgedStep
  BY <1>12, <1>5 DEF Crash, fsVars, JudgedStep
<1>13. ASSUME NEW p \in Procs, SweepRm(p) PROVE SlotStep
  BY <1>13, <1>6 DEF SweepRm
<1>14. ASSUME NEW w \in Workers, Leak(w) \/ IoError(w) \/ ReadError(w) PROVE SlotStep /\ JudgedStep
  BY <1>14, <1>1, <1>3, <1>4, <1>5 DEF Leak, IoError, ReadError, fsVars
<1>15. QED
  BY <1>5, <1>8, <1>9, <1>10, <1>11, <1>12, <1>13, <1>14
  DEF Next, Step, Environment, BeatRead, BeatTouch, SweepStat, SweepRm, Expire, Stall, Resume,
    vars, fsVars

(* A marker in a slot file belongs to a worker that stands there or beyond. *)
LEMMA MarkerStep ==
  ASSUME TypeOK, TokenInv, MarkerInv, [Next]_vars
  PROVE  MarkerInv'
<1>1. Advance /\ SlotStep /\ JudgedStep BY AdvanceStep, SlotAndJudgedStep
<1>2. TypeOK' /\ TokenInv' BY TypingStep, TokenStep
<1>3. ASSUME NEW s \in Slots, slot'[s] # None PROVE PastOrStandingNext(slot'[s], s)
  <2>1. CASE slot'[s] = slot[s]
    BY <1>1, <1>2, <1>3, <2>1, PastIsStable DEF MarkerInv, Mentioned, TypeOK
  <2>2. CASE \E w \in Workers :
               slot'[s] = token[w] /\ token'[w] = token[w] /\ at'[w] = s /\ pc'[w] \in Standing
    BY <1>2, <1>3, <2>2 DEF PastOrStandingNext, TokenInv
  <2>3. QED BY <1>1, <1>3, <2>1, <2>2 DEF SlotStep
<1>4. ASSUME NEW w \in Workers, judged'[w] # None PROVE PastOrStandingNext(judged'[w], at'[w])
  <2>1. CASE judged'[w] = judged[w] /\ at'[w] = at[w]
    BY <1>1, <1>2, <1>4, <2>1, PastIsStable DEF MarkerInv, Mentioned, TypeOK
  <2>2. CASE judged'[w] = slot[at[w]] /\ at'[w] = at[w]
    BY <1>1, <1>2, <1>4, <2>2, PastIsStable DEF MarkerInv, Mentioned, TypeOK
  <2>3. QED BY <1>1, <1>4, <2>1, <2>2 DEF JudgedStep
<1>5. QED
  BY <1>3, <1>4 DEF MarkerInv, PastOrStanding, PastOrStandingNext, Standing, Releasing
-----------------------------------------------------------------------------
(* Ownership, while nothing went blind and no live lease lapsed            *)

Calm == ~blind /\ ~lapsed

(* Blind reclaims and lapses are never forgotten.                          *)
LEMMA CalmStep ==
  ASSUME TypeOK, [Next]_vars, Calm'
  PROVE  Calm
  BY DEF TypeOK, Calm, Next, Step, Acquire, Release, Environment, StartAcquire, Create, Read,
    Recreate, Judge, Verify, RenameClaim, ReadBack, StartRelease, ReleaseRead, ReleaseRm, BeatRead,
    BeatTouch, SweepStat, SweepRm, Expire, Stall, Resume, Crash, Leak, IoError, ReadError,
    vars, ghostVars

Stand == \A w \in Workers : pc[w] \in Standing => slot[at[w]] = token[w]

(* In a calm step, whoever stands at a slot keeps its marker there.        *)
LEMMA StandStep ==
  ASSUME TypeOK, TokenInv, OwnerInv, [Next]_vars, Calm, Calm'
  PROVE  Stand'
<1> Standing' = Standing BY DEF Standing, Releasing
<1> USE DEF TypeOK, Stand
<1>a. /\ Stand
      /\ \A w \in Workers : pc[w] \in {"verify", "rename"} => Gone(judged[w], at[w])
      /\ \A p \in Procs : sweep[p] # None => Gone(sweep[p][2], sweep[p][1])
  BY DEF OwnerInv, Calm
<1>b. \A v, w \in Workers : v # w /\ token[v] = token[w] => token[v] = None
  BY DEF TokenInv
<1>c. \A w \in Workers : pc[w] \in Standing => token[w] # None
  BY DEF TokenInv, Standing, Releasing
<1>1. ASSUME NEW w \in Workers, NextSlot(w), UNCHANGED slot PROVE Stand'
  BY <1>1, <1>a DEF NextSlot, GiveUp, Standing, Releasing
<1>2. ASSUME NEW w \in Workers, NEW label, Goto(w, label), UNCHANGED slot,
             label \in Standing => pc[w] \in Standing
      PROVE  Stand'
  BY <1>2, <1>a DEF Goto
<1>3. ASSUME NEW w \in Workers, NEW label, GiveUp(w, label), UNCHANGED slot, label \notin Standing
      PROVE  Stand'
  BY <1>3, <1>a DEF GiveUp
<1>4. ASSUME NEW w \in Workers, WriteSlot(at[w], token[w]), UNCHANGED <<token, at>>,
             \A v \in Workers \ {w} : pc'[v] = pc[v],
             \A v \in Workers \ {w} : pc[v] \in Standing => at[v] # at[w]
      PROVE  Stand'
  BY <1>4, <1>a DEF WriteSlot
<1>5. ASSUME NEW w \in Workers, Create(w) \/ Recreate(w) PROVE Stand'
  <2>1. CASE slot[at[w]] = None /\ WriteSlot(at[w], token[w]) /\ Won(w)
    BY <2>1, <1>4, <1>a, <1>c DEF Won
  <2>2. CASE slot[at[w]] # None /\ UNCHANGED slot
    BY <1>5, <2>2, <1>1, <1>2 DEF Create, Recreate, Standing, Releasing
  <2>3. QED BY <1>5, <2>1, <2>2 DEF Create, Recreate, fsVars
<1>6. ASSUME NEW w \in Workers, Read(w) \/ Judge(w) \/ Verify(w) PROVE Stand'
  <2>1. CASE Read(w)
    <3>1. pc' = [pc EXCEPT ![w] = pc'[w]] /\ pc'[w] \notin Standing /\ UNCHANGED <<at, token, slot>>
      BY <2>1 DEF Read, Goto, fsVars, Standing, Releasing
    <3>2. QED BY <3>1, <1>a
  <2>2. CASE Judge(w) \/ Verify(w)
    BY <2>2, <1>1, <1>2 DEF Judge, Verify, fsVars, Standing, Releasing
  <2>3. QED BY <1>6, <2>1, <2>2
<1>7. ASSUME NEW w \in Workers, RenameClaim(w) PROVE Stand'
  <2>1. slot[at[w]] \in {judged[w], None} /\ Gone(judged[w], at[w])
    BY <1>7, <1>a DEF RenameClaim, Calm
  <2>2. ASSUME NEW v \in Workers \ {w}, pc[v] \in Standing, at[v] = at[w] PROVE FALSE
    <3>1. token[v] = judged[w] BY <2>1, <2>2, <1>a, <1>c
    <3>2. at[v] > at[w] BY <2>1, <3>1 DEF Gone
    <3>3. QED BY <2>2, <3>2 DEF Slots
  <2>3. QED BY <1>7, <2>2, <1>4 DEF RenameClaim, Goto
<1>8. ASSUME NEW w \in Workers, ReadBack(w) PROVE Stand'
  <2>1. CASE slot[at[w]] = token[w] /\ Won(w)
    BY <1>8, <2>1, <1>a DEF ReadBack, Won, fsVars
  <2>2. CASE NextSlot(w)
    BY <1>8, <2>2, <1>1 DEF ReadBack, fsVars
  <2>3. QED BY <1>8, <2>1, <2>2 DEF ReadBack
<1>9. ASSUME NEW w \in Workers, StartAcquire(w) PROVE Stand'
  BY <1>9, <1>a DEF StartAcquire, fsVars, Standing, Releasing
<1>10. ASSUME NEW w \in Workers, StartRelease(w) PROVE Stand'
  BY <1>10, <1>a DEF StartRelease, fsVars, Standing, Releasing
<1>11. ASSUME NEW w \in Workers, ReleaseRead(w) PROVE Stand'
  BY <1>11, <1>2, <1>3 DEF ReleaseRead, fsVars, Standing, Releasing
<1>12. ASSUME NEW w \in Workers, ReleaseRm(w) PROVE Stand'
  <2>1. slot[at[w]] = token[w] /\ pc[w] \in Standing
    BY <1>12, <1>a DEF ReleaseRm, Standing, Releasing
  <2>2. \A v \in Workers \ {w} : pc[v] \in Standing => at[v] # at[w]
    BY <2>1, <1>a, <1>b, <1>c
  <2>3. QED
    BY <1>12, <2>2, <1>a DEF ReleaseRm, RemoveSlot, WriteSlot, GiveUp, Standing, Releasing
<1>13. ASSUME NEW p \in Procs, SweepRm(p) PROVE Stand'
  <2>1. /\ sweep[p] \in Slots \X Tokens /\ slot[sweep[p][1]] \in {sweep[p][2], None}
        /\ Gone(sweep[p][2], sweep[p][1])
    BY <1>13, <1>a DEF SweepRm, Calm
  <2>2. ASSUME NEW v \in Workers, pc[v] \in Standing, at[v] = sweep[p][1] PROVE FALSE
    <3>1. token[v] = sweep[p][2] BY <2>1, <2>2, <1>a, <1>c
    <3>2. at[v] > sweep[p][1] BY <2>1, <3>1 DEF Gone
    <3>3. QED BY <2>2, <3>2 DEF Slots
  <2>3. QED BY <1>13, <2>1, <2>2, <1>a DEF SweepRm, RemoveSlot, WriteSlot, workerVars
<1>14. ASSUME UNCHANGED <<slot, workerVars>> PROVE Stand'
  BY <1>14, <1>a DEF workerVars
<1>15. ASSUME NEW p \in Procs, Crash(p) PROVE Stand'
  BY <1>15, <1>a DEF Crash, fsVars, Standing, Releasing
<1>16. ASSUME NEW w \in Workers, Leak(w) \/ IoError(w) PROVE Stand'
  BY <1>16, <1>3 DEF Leak, IoError, fsVars, Standing, Releasing
<1>17. ASSUME NEW w \in Workers, ReadError(w) PROVE Stand'
  BY <1>17, <1>1, <1>2 DEF ReadError, fsVars, Standing, Releasing
<1>18. QED
  BY <1>5, <1>6, <1>7, <1>8, <1>9, <1>10, <1>11, <1>12, <1>13, <1>14, <1>15, <1>16, <1>17
  DEF Next, Step, Acquire, Release, Environment, BeatRead, BeatTouch, SweepStat, Expire, Stall,
    Resume, vars, fsVars

Registered == \A w \in Workers : token[w] # None => token[w] \in registered

(* In a calm step, every token in use stays in the watchdog table.         *)
LEMMA RegisteredStep ==
  ASSUME TypeOK, TokenInv, HeldInv, OwnerInv, [Next]_vars, Calm
  PROVE  Registered'
<1> USE DEF TypeOK, Registered
<1>a. Registered /\ Stand
  BY DEF OwnerInv, Calm, Stand
<1>b. \A v, w \in Workers : v # w /\ token[v] = token[w] => token[v] = None
  BY DEF TokenInv
<1>1. ASSUME NEW w \in Workers, NEW label, GiveUp(w, label) PROVE Registered'
  BY <1>1, <1>a, <1>b DEF GiveUp
<1>2. ASSUME NEW w \in Workers, NextSlot(w) \/ Won(w) PROVE Registered'
  BY <1>2, <1>1, <1>a DEF NextSlot, Won
<1>3. ASSUME UNCHANGED <<token, registered>> PROVE Registered'
  BY <1>3, <1>a
<1>4. ASSUME NEW w \in Workers, Acquire(w) PROVE Registered'
  BY <1>4, <1>2, <1>3 DEF Acquire, Create, Recreate, Read, Judge, Verify, RenameClaim, ReadBack, Goto
<1>5. ASSUME NEW w \in Workers, StartAcquire(w) PROVE Registered'
  BY <1>5, <1>a DEF StartAcquire
<1>6. ASSUME NEW w \in Workers, Release(w) PROVE Registered'
  BY <1>6, <1>1, <1>3 DEF Release, ReleaseRead, ReleaseRm, Goto
<1>7. ASSUME NEW p \in Procs, BeatRead(p) PROVE Registered'
  <2>1. PICK h \in held[p] :
          \/ registered' = registered
          \/ registered' = registered \ {h[1]} /\ slot[h[2]] # h[1]
    BY <1>7 DEF BeatRead
  <2>2. \A v \in Workers : token[v] = h[1] => pc[v] \in Standing /\ at[v] = h[2]
    BY DEF HeldInv, Standing
  <2>3. token' = token BY <1>7 DEF BeatRead, workerVars
  <2>4. QED BY <2>1, <2>2, <2>3, <1>a DEF Stand
<1>8. ASSUME NEW p \in Procs, Crash(p) PROVE Registered'
  BY <1>8, <1>a, <1>b DEF Crash, WorkersIn
<1>9. ASSUME NEW w \in Workers, Leak(w) \/ IoError(w) PROVE Registered'
  BY <1>9, <1>1 DEF Leak, IoError
<1>10. ASSUME NEW w \in Workers, ReadError(w) PROVE Registered'
  BY <1>10, <1>2, <1>3 DEF ReadError, Goto
<1>11. QED
  BY <1>3, <1>4, <1>5, <1>6, <1>7, <1>8, <1>9, <1>10
  DEF Next, Step, Environment, StartRelease, BeatTouch, SweepStat, SweepRm, Expire, Stall, Resume,
    vars, procVars, workerVars

Aged == \A s \in Slots : slot[s] # None /\ age[s] # "fresh" => ~Owned(s)

(* In a calm step, only slots without an owner have aged.                  *)
LEMMA AgedStep ==
  ASSUME TypeOK, TypeOK', TokenInv, MarkerInv, OwnerInv, [Next]_vars, Calm, Calm'
  PROVE  Aged'
<1> Standing' = Standing BY DEF Standing, Releasing
<1>1. Aged /\ Advance BY AdvanceStep DEF OwnerInv, Aged, Calm
<1>2. SUFFICES ASSUME NEW s \in Slots, slot'[s] # None, age'[s] # "fresh", NEW w \in Workers,
                      pc'[w] \in Standing, at'[w] = s, slot'[s] = token'[w]
               PROVE  FALSE
  BY DEF Aged, Owned
<1>3. slot'[s] = slot[s] /\ (age[s] # "fresh" \/ ~Owned(s))
  <2>1. ASSUME NEW r \in Slots, NEW m, WriteSlot(r, m) PROVE slot'[s] = slot[s] /\ age'[s] = age[s]
    BY <2>1, <1>2 DEF WriteSlot, TypeOK
  <2>2. ASSUME NEW r \in Slots, Expire(r) PROVE slot' = slot /\ (age'[s] = age[s] \/ ~Owned(s))
    <3>1. age' = [age EXCEPT ![r] = IF @ = "fresh" THEN "quiet" ELSE "stale"] /\ slot' = slot
      BY <2>2 DEF Expire
    <3>2. ~Owned(r)
      BY <2>2 DEF Expire, Calm
    <3>3. QED BY <3>1, <3>2 DEF TypeOK
  <2>3. ASSUME NEW p \in Procs, BeatTouch(p) PROVE slot' = slot /\ age'[s] = age[s]
    BY <2>3, <1>2 DEF BeatTouch, TypeOK
  <2>4. \A v \in Workers : at[v] \in Slots BY DEF TypeOK
  <2>5. ASSUME NEW p \in Procs, SweepRm(p) PROVE sweep[p][1] \in Slots
    BY <2>5 DEF SweepRm, TypeOK
  <2>6. slot'[s] = slot[s] /\ (age'[s] = age[s] \/ ~Owned(s))
    BY <2>1, <2>2, <2>3, <2>4, <2>5
    DEF Next, Step, Acquire, Release, Environment, StartAcquire, Create, Read, Recreate, Judge,
      Verify, RenameClaim, ReadBack, StartRelease, ReleaseRead, ReleaseRm, BeatRead, SweepStat,
      SweepRm, Stall, Resume, Crash, Leak, IoError, ReadError, RemoveSlot, vars, fsVars
  <2>7. QED BY <2>6, <1>2
<1>4. token'[w] = token[w] /\ Moves(w)
  BY <1>1, <1>2, <1>3 DEF Advance, Mentioned
<1>5. at[w] > s \/ (at[w] = s /\ pc[w] \in Standing)
  BY <1>2, <1>3, <1>4 DEF MarkerInv, PastOrStanding
<1>6. at[w] = s /\ pc[w] \in Standing
  BY <1>2, <1>4, <1>5 DEF Moves, TypeOK, Slots
<1>7. Owned(s) BY <1>2, <1>3, <1>4, <1>6 DEF Owned
<1>8. QED BY <1>1, <1>2, <1>3, <1>7 DEF Aged

(* A marker judged free belongs to nobody any more: its process has no     *)
(* lease with its token, or is dead, or the slot aged.                     *)
LEMMA JudgedFreeIsGone ==
  ASSUME TypeOK, TokenInv, MarkerInv, OwnerInv, Calm, NEW w \in Workers, judged[w] # None,
         slot[at[w]] # None, ~Occupied(ProcOf[w], judged[w], age[at[w]] = "fresh")
  PROVE  Gone(judged[w], at[w])
<1>1. SUFFICES ASSUME NEW v \in Workers, token[v] = judged[w] PROVE at[v] > at[w]
  BY DEF Gone
<1>2. at[v] > at[w] \/ (at[v] = at[w] /\ pc[v] \in Standing)
  BY <1>1 DEF MarkerInv, PastOrStanding
<1>3. SUFFICES ASSUME at[v] = at[w], pc[v] \in Standing PROVE FALSE
  BY <1>2
<1>4. token[v] \in registered /\ slot[at[w]] = token[v] /\ Stand /\ Aged
  BY <1>1, <1>3 DEF OwnerInv, Calm, Stand, Aged
<1>5. age[at[w]] = "fresh"
  <2>1. Owned(at[w]) BY <1>3, <1>4 DEF Owned
  <2>2. QED BY <1>4, <2>1 DEF Aged, TypeOK
<1>6. PidOf(judged[w]) = ProcOf[v] /\ pc[v] # "gone"
  BY <1>1, <1>3 DEF TokenInv, PidOf, Standing, Releasing
<1>7. PidAlive(ProcOf[v])
  BY <1>6 DEF PidAlive, TokenInv
<1>8. QED BY <1>1, <1>4, <1>5, <1>6, <1>7 DEF Occupied

JudgedGone == \A w \in Workers : pc[w] \in {"verify", "rename"} => Gone(judged[w], at[w])

(* In a calm step, a marker about to be replaced has no owner left.        *)
LEMMA JudgedGoneStep ==
  ASSUME TypeOK, TypeOK', TokenInv, MarkerInv, OwnerInv, [Next]_vars, Calm
  PROVE  JudgedGone'
<1>1. JudgedGone /\ Advance BY AdvanceStep DEF OwnerInv, JudgedGone, Calm
<1>2. SUFFICES ASSUME NEW w \in Workers, pc'[w] \in {"verify", "rename"}
               PROVE  GoneNext(judged'[w], at'[w])
  BY DEF JudgedGone, Gone, GoneNext
<1>3. judged'[w] = judged[w] /\ at'[w] = at[w]
      /\ (pc[w] \in {"verify", "rename"} \/ Judge(w))
  <2>1. ASSUME NEW v \in Workers, NextSlot(v)
        PROVE  pc'[w] = pc[w] /\ judged'[w] = judged[w] /\ at'[w] = at[w]
    BY <2>1, <1>2 DEF NextSlot, GiveUp, TypeOK
  <2>2. ASSUME NEW v \in Workers, Won(v)
        PROVE  pc'[w] = pc[w] /\ judged'[w] = judged[w] /\ at'[w] = at[w]
    BY <2>2, <1>2 DEF Won, TypeOK
  <2>3. ASSUME NEW v \in Workers, NEW label \in {"idle", "polling"}, GiveUp(v, label)
        PROVE  pc'[w] = pc[w] /\ judged'[w] = judged[w] /\ at'[w] = at[w]
    BY <2>3, <1>2 DEF GiveUp, TypeOK
  <2>4. ASSUME NEW v \in Workers, Acquire(v)
        PROVE  judged'[w] = judged[w] /\ at'[w] = at[w]
               /\ (pc[w] \in {"verify", "rename"} \/ Judge(w))
    <3>1. CASE Judge(v) /\ Goto(v, "verify")
      BY <3>1, <1>2 DEF Goto, TypeOK
    <3>2. CASE Read(v)
      BY <3>2, <1>2 DEF Read, Goto, TypeOK
    <3>3. CASE Verify(v) /\ Goto(v, "rename")
      BY <3>3, <1>2 DEF Verify, Goto, TypeOK
    <3>4. CASE NextSlot(v) \/ Won(v)
      BY <3>4, <2>1, <2>2, <1>2
    <3>5. CASE \E label \in {"read", "readback"} : Goto(v, label)
      BY <3>5, <1>2 DEF Goto, TypeOK
    <3>6. QED
      BY <2>4, <3>1, <3>2, <3>3, <3>4, <3>5
      DEF Acquire, Create, Recreate, Judge, Verify, RenameClaim, ReadBack
  <2>5. ASSUME NEW v \in Workers, StartAcquire(v) \/ StartRelease(v) \/ Release(v) \/ ReadError(v)
        PROVE  pc'[w] = pc[w] /\ judged'[w] = judged[w] /\ at'[w] = at[w]
    BY <2>5, <2>1, <2>3, <1>2
    DEF StartAcquire, StartRelease, Release, ReleaseRead, ReleaseRm, ReadError, Goto, TypeOK
  <2>6. ASSUME NEW v \in Workers, Leak(v) \/ IoError(v)
        PROVE  pc'[w] = pc[w] /\ judged'[w] = judged[w] /\ at'[w] = at[w]
    BY <2>6, <2>3 DEF Leak, IoError
  <2>7. ASSUME NEW p \in Procs, Crash(p)
        PROVE  pc'[w] = pc[w] /\ judged'[w] = judged[w] /\ at'[w] = at[w]
    BY <2>7, <1>2 DEF Crash, TypeOK
  <2>8. QED
    BY <1>2, <2>4, <2>5, <2>6, <2>7
    DEF Next, Step, Environment, BeatRead, BeatTouch, SweepStat, SweepRm, Expire, Stall, Resume,
      vars, workerVars
<1>4. judged[w] \in Tokens /\ at[w] \in Slots /\ Mentioned(judged[w])
  <2>1. judged[w] # None BY <1>3 DEF TokenInv, Judge
  <2>2. QED BY <2>1 DEF TypeOK, Mentioned
<1>5. Gone(judged[w], at[w])
  <2>1. CASE pc[w] \in {"verify", "rename"} BY <2>1, <1>1 DEF JudgedGone
  <2>2. CASE Judge(w) /\ pc[w] \notin {"verify", "rename"}
    <3>1. Goto(w, "verify") \/ NextSlot(w) BY <2>2 DEF Judge
    <3>2. ~NextSlot(w) BY <1>2, <2>2 DEF NextSlot, GiveUp, TypeOK
    <3>3. slot[at[w]] # None /\ ~Occupied(ProcOf[w], judged[w], age[at[w]] = "fresh")
      BY <2>2, <3>2 DEF Judge
    <3>4. QED BY <1>4, <3>3, JudgedFreeIsGone
  <2>3. QED BY <1>3, <2>1, <2>2
<1>6. QED BY <1>1, <1>3, <1>4, <1>5, PastIsStable

SweepGone == \A p \in Procs : sweep[p] # None => Gone(sweep[p][2], sweep[p][1])

(* In a calm step, a marker about to be swept has no owner left.           *)
LEMMA SweepGoneStep ==
  ASSUME TypeOK, TypeOK', TokenInv, MarkerInv, OwnerInv, [Next]_vars, Calm
  PROVE  SweepGone'
<1>1. SweepGone /\ Aged /\ Stand /\ Advance
  BY AdvanceStep DEF OwnerInv, SweepGone, Aged, Stand, Calm
<1>2. SUFFICES ASSUME NEW p \in Procs, sweep'[p] # None
               PROVE  GoneNext(sweep'[p][2], sweep'[p][1])
  BY DEF SweepGone, Gone, GoneNext
<1>3. CASE sweep'[p] = sweep[p]
  <2>1. sweep[p] \in Slots \X Tokens BY <1>2, <1>3 DEF TypeOK
  <2>2. sweep[p][1] \in Slots /\ sweep[p][2] \in Tokens /\ Mentioned(sweep[p][2])
        /\ Gone(sweep[p][2], sweep[p][1])
    BY <1>1, <1>2, <1>3, <2>1 DEF SweepGone, Mentioned
  <2>3. QED BY <1>1, <1>3, <2>2, PastIsStable
<1>4. ASSUME NEW s \in Slots, slot[s] # None, age[s] = "stale", sweep'[p] = <<s, slot[s]>>
      PROVE  GoneNext(sweep'[p][2], sweep'[p][1])
  <2>1. ASSUME NEW v \in Workers, token[v] = slot[s] PROVE at[v] > s
    <3>1. ~Owned(s) BY <1>1, <1>4 DEF Aged
    <3>2. QED BY <1>4, <2>1, <3>1 DEF MarkerInv, PastOrStanding, Owned
  <2>2. slot[s] \in Tokens /\ Mentioned(slot[s]) /\ Gone(slot[s], s)
    BY <1>4, <2>1 DEF TypeOK, Mentioned, Gone
  <2>3. QED BY <1>1, <1>4, <2>2, PastIsStable
<1>5. sweep' = sweep \/ (\E q \in Procs : SweepStat(q) \/ SweepRm(q) \/ Crash(q))
  BY DEF Next, Step, Acquire, Release, Environment, StartAcquire, Create, Read, Recreate, Judge,
    Verify, RenameClaim, ReadBack, StartRelease, ReleaseRead, ReleaseRm, BeatRead, BeatTouch,
    Expire, Stall, Resume, Leak, IoError, ReadError, vars, procVars
<1>6. ASSUME NEW q \in Procs, SweepStat(q) PROVE GoneNext(sweep'[p][2], sweep'[p][1])
  BY <1>3, <1>4, <1>6 DEF SweepStat, TypeOK
<1>7. ASSUME NEW q \in Procs, SweepRm(q) \/ Crash(q) PROVE sweep'[p] = sweep[p]
  BY <1>2, <1>7 DEF SweepRm, Crash, TypeOK
<1>8. QED BY <1>3, <1>5, <1>6, <1>7

(* Every step keeps the ownership invariant.                               *)
LEMMA OwnerStep ==
  ASSUME LedgerInv, [Next]_vars
  PROVE  OwnerInv'
<1>1. TypeOK' /\ TokenInv' BY TypingStep, TokenStep DEF LedgerInv
<1>2. SUFFICES ASSUME Calm' PROVE (Stand /\ Registered /\ Aged /\ JudgedGone /\ SweepGone)'
  BY DEF OwnerInv, Calm, Stand, Registered, Aged, JudgedGone, SweepGone
<1>3. Calm BY <1>2, CalmStep DEF LedgerInv
<1>4. QED
  BY <1>1, <1>2, <1>3, StandStep, RegisteredStep, AgedStep, JudgedGoneStep, SweepGoneStep
  DEF LedgerInv

(* The inductive invariant holds under every fault the ledger may meet.    *)
THEOREM LedgerInvariant == Spec => []LedgerInv
<1>1. Init => LedgerInv
  <2>1. SUFFICES ASSUME Init PROVE LedgerInv OBVIOUS
  <2>2. TypeOK /\ TokenInv BY <2>1, InitTyped
  <2>3. HeldInv BY <2>1 DEF Init, HeldInv
  <2>4. MarkerInv BY <2>1 DEF Init, MarkerInv
  <2>5. OwnerInv BY <2>1 DEF Init, OwnerInv, Standing, Releasing
  <2>6. QED BY <2>2, <2>3, <2>4, <2>5 DEF LedgerInv
<1>2. LedgerInv /\ [Next]_vars => LedgerInv'
  BY TypingStep, TokenStep, HeldStep, MarkerStep, OwnerStep DEF LedgerInv
<1>3. QED BY <1>1, <1>2, PTL DEF Spec
-----------------------------------------------------------------------------
(* What follows for the lane                                               *)

(* Workers standing at pairwise different slots are at most Cap many.      *)
LEMMA AtMostCap ==
  ASSUME at \in [Workers -> Slots], NEW S \in SUBSET Workers,
         \A v, w \in S : at[v] = at[w] => v = w
  PROVE  IsFiniteSet(S) /\ Cardinality(S) <= Cap
<1> DEFINE f == [w \in S |-> at[w]]
<1>1. f \in Injection(S, Slots)
  BY DEF Injection, IsInjective
<1>2. IsFiniteSet(Slots) /\ Cardinality(Slots) = Cap
  BY FS_Interval DEF Slots
<1>3. QED BY <1>1, <1>2, FS_Injection

(* In a calm state two holders hold two slots.                             *)
LEMMA HoldersApart ==
  ASSUME LedgerInv, Calm
  PROVE  \A v, w \in Workers : pc[v] \in Standing /\ pc[w] \in Standing /\ at[v] = at[w] => v = w
<1>1. Stand BY DEF LedgerInv, OwnerInv, Calm, Stand
<1>2. QED BY <1>1 DEF LedgerInv, TokenInv, Stand, Standing, Releasing

(* A lane never admits more than Cap turns, however its processes crash,   *)
(* leak leases or meet filesystem errors, unless a reclaim or a sweep hit  *)
(* a marker it had not judged or a suspended process outlived its lease.   *)
THEOREM LaneNeverOverAdmits == Spec => []LaneBound
<1>1. LedgerInv => LaneBound
  <2>1. SUFFICES ASSUME LedgerInv, Calm PROVE Cardinality(Holders) <= Cap
    BY DEF LaneBound, Calm
  <2>2. \A v, w \in Holders : at[v] = at[w] => v = w
    BY <2>1, HoldersApart DEF Holders, Standing
  <2>3. QED BY <2>1, <2>2, AtMostCap DEF Holders, LedgerInv, TypeOK
<1>2. QED BY <1>1, LedgerInvariant, PTL
-----------------------------------------------------------------------------
(* Without faults the ledger implements a counting semaphore               *)

(* Without faults every marker keeps its owner.                            *)
LEMMA FaultFreeStep ==
  ASSUME Faults = {}, LedgerInv, FaultFreeInv, [Next]_vars
  PROVE  FaultFreeInv'
<1> Standing' = Standing BY DEF Standing, Releasing
<1>a. TypeOK /\ TokenInv /\ Calm /\ Stand /\ Aged /\ JudgedGone
  BY DEF LedgerInv, FaultFreeInv, Calm, OwnerInv, Stand, Aged, JudgedGone
<1>b. /\ \A p \in Procs : status[p] = "up" /\ sweep[p] = None
      /\ \A s \in Slots : slot[s] # None => Owned(s)
      /\ \A w \in Workers : pc[w] \notin {"rename", "readback"}
  BY DEF FaultFreeInv
<1>c. \A kind : ~Fault(kind)
  BY DEF Fault
<1>d. \A p \in Procs : ~SweepStat(p) /\ ~SweepRm(p)
  BY <1>a, <1>b DEF SweepStat, SweepRm, Aged
<1>e. \A w \in Workers : ~RenameClaim(w) /\ ~ReadBack(w)
  BY <1>b DEF RenameClaim, ReadBack
<1>f. \A w \in Workers : pc[w] = "verify" => slot[at[w]] # judged[w]
  <2>1. SUFFICES ASSUME NEW w \in Workers, pc[w] = "verify", slot[at[w]] = judged[w] PROVE FALSE
    OBVIOUS
  <2>2. at[w] \in Slots /\ slot[at[w]] # None
    BY <1>a, <2>1 DEF TypeOK, TokenInv
  <2>3. PICK v \in Workers : at[v] = at[w] /\ token[v] = judged[w]
    BY <1>b, <2>1, <2>2 DEF Owned
  <2>4. at[v] > at[w] BY <1>a, <2>1, <2>3 DEF JudgedGone, Gone
  <2>5. QED BY <2>2, <2>3, <2>4 DEF Slots
<1>1. ~blind' /\ ~lapsed'
  <2>1. ASSUME NEW s \in Slots, Expire(s) PROVE lapsed' = lapsed /\ blind' = blind
    <3>1. PidOf(slot[s]) \in Procs BY <1>a, <2>1 DEF Expire, TypeOK, Tokens, PidOf
    <3>2. ~Owned(s) BY <1>b, <2>1, <3>1 DEF Expire
    <3>3. QED BY <1>a, <2>1, <3>2 DEF Expire, TypeOK
  <2>2. UNCHANGED <<blind, lapsed>>
    BY <1>c, <1>d, <1>e, <2>1
    DEF Next, Step, Acquire, Release, Environment, StartAcquire, Create, Read, Recreate, Judge,
      Verify, StartRelease, ReleaseRead, ReleaseRm, BeatRead, BeatTouch, Stall, Resume, Crash,
      Leak, IoError, ReadError, vars, ghostVars
  <2>3. QED BY <1>a, <2>2 DEF Calm
<1>2. UNCHANGED <<status, sweep>>
  BY <1>a, <1>b, <1>c, <1>d
  DEF Next, Step, Acquire, Release, Environment, StartAcquire, Create, Read, Recreate, Judge, Verify,
    RenameClaim, ReadBack, StartRelease, ReleaseRead, ReleaseRm, BeatRead, BeatTouch, Expire, Stall,
    Resume, Crash, Leak, IoError, ReadError, vars, procVars, TypeOK
<1>3. ASSUME NEW w \in Workers, pc[w] \in Standing
      PROVE  \/ token'[w] = token[w] /\ at'[w] = at[w] /\ pc'[w] \in Standing
             \/ ReleaseRm(w)
  <2>1. ASSUME NEW v \in Workers, Acquire(v) \/ StartAcquire(v)
        PROVE  v # w /\ token'[w] = token[w] /\ at'[w] = at[w] /\ pc'[w] = pc[w]
    <3>1. pc[v] \notin Standing
      BY <1>b, <2>1 DEF Acquire, StartAcquire, Create, Read, Recreate, Judge, Verify, RenameClaim,
        ReadBack, Standing, Releasing
    <3>2. token'[w] = token[w] /\ at'[w] = at[w] /\ pc'[w] = pc[w]
      BY <1>3, <1>a, <2>1, <3>1 DEF Acquire, StartAcquire, Create, Read, Recreate, Judge, Verify,
        RenameClaim, ReadBack, NextSlot, GiveUp, Won, Goto, TypeOK
    <3>3. QED BY <1>3, <3>1, <3>2
  <2>2. ASSUME NEW v \in Workers, StartRelease(v) \/ ReleaseRead(v)
        PROVE  token'[w] = token[w] /\ at'[w] = at[w] /\ pc'[w] \in Standing
    <3>1. CASE StartRelease(v)
      BY <1>3, <1>a, <3>1 DEF StartRelease, Standing, Releasing, TypeOK
    <3>2. CASE ReleaseRead(v)
      <4>1. slot[at[v]] = token[v] BY <1>a, <3>2 DEF ReleaseRead, Stand, Standing, Releasing
      <4>2. QED BY <1>3, <1>a, <3>2, <4>1 DEF ReleaseRead, Goto, Standing, Releasing, TypeOK
    <3>3. QED BY <2>2, <3>1, <3>2
  <2>3. ASSUME NEW v \in Workers, v # w, ReleaseRm(v)
        PROVE  token'[w] = token[w] /\ at'[w] = at[w] /\ pc'[w] = pc[w]
    BY <1>a, <2>3 DEF ReleaseRm, GiveUp, TypeOK
  <2>4. QED
    BY <1>3, <1>c, <2>1, <2>2, <2>3
    DEF Next, Step, Release, Environment, BeatRead, BeatTouch, SweepStat, SweepRm, Expire, Stall,
      Resume, Crash, Leak, IoError, ReadError, vars, workerVars
<1>4. ASSUME NEW s \in Slots, slot'[s] # None PROVE Owned(s)'
  <2>1. CASE slot'[s] = slot[s]
    <3>1. PICK w \in Workers : pc[w] \in Standing /\ at[w] = s /\ slot[s] = token[w]
      BY <1>4, <1>b, <2>1 DEF Owned
    <3>2. ~ReleaseRm(w)
      BY <1>4, <1>a, <3>1 DEF ReleaseRm, RemoveSlot, WriteSlot, TypeOK
    <3>3. QED BY <1>3, <2>1, <3>1, <3>2 DEF Owned
  <2>2. CASE slot'[s] # slot[s]
    BY <1>4, <1>a, <2>2, SlotAndJudgedStep DEF SlotStep, Owned
  <2>3. QED BY <2>1, <2>2
<1>5. ASSUME NEW w \in Workers PROVE pc'[w] \notin {"rename", "readback"}
  <2>1. \A v \in Workers : Verify(v) => NextSlot(v)
    BY <1>f DEF Verify
  <2>2. ASSUME NEW v \in Workers, Acquire(v) PROVE pc'[w] \notin {"rename", "readback"}
    BY <1>a, <1>b, <1>e, <2>1, <2>2
    DEF Acquire, Create, Read, Recreate, Judge, NextSlot, GiveUp, Won, Goto, TypeOK
  <2>3. ASSUME NEW v \in Workers, StartAcquire(v) \/ StartRelease(v) \/ Release(v)
        PROVE  pc'[w] \notin {"rename", "readback"}
    BY <1>a, <1>b, <2>3
    DEF StartAcquire, StartRelease, Release, ReleaseRead, ReleaseRm, Goto, GiveUp, TypeOK
  <2>4. QED
    BY <1>b, <1>c, <2>2, <2>3
    DEF Next, Step, Environment, BeatRead, BeatTouch, SweepStat, SweepRm, Expire, Stall, Resume,
      Crash, Leak, IoError, ReadError, vars, workerVars
<1>6. QED BY <1>b, <1>1, <1>2, <1>4, <1>5 DEF FaultFreeInv

(* Without faults every step takes a slot, gives one back, or does neither. *)
LEMMA SemaphoreStep ==
  ASSUME Faults = {}, LedgerInv, FaultFreeInv, [Next]_vars
  PROVE  [Semaphore!Next]_Holders
<1>a. TypeOK /\ TokenInv /\ Calm /\ Stand
  BY DEF LedgerInv, FaultFreeInv, Calm, OwnerInv, Stand
<1>1. ASSUME NEW w \in Workers, slot[at[w]] = None, Won(w), pc[w] # "holding"
      PROVE  Semaphore!Take(w)
  <2>1. Holders' = Holders \cup {w} BY <1>1, <1>a DEF Won, Holders, TypeOK
  <2>2. \A v \in Holders : at[v] # at[w]
    BY <1>1, <1>a DEF Holders, Stand, Standing, TokenInv
  <2>3. \A u, v \in Holders \cup {w} : at[u] = at[v] => u = v
    BY <2>2, <1>a, HoldersApart DEF Holders, Standing
  <2>4. /\ IsFiniteSet(Holders \cup {w}) /\ Cardinality(Holders \cup {w}) <= Cap
    BY <2>3, <1>a, AtMostCap DEF Holders, TypeOK
  <2>5. IsFiniteSet(Holders) BY <2>4, FS_Subset
  <2>6. Cardinality(Holders \cup {w}) = Cardinality(Holders) + 1 /\ Cardinality(Holders) \in Nat
    BY <2>5, <1>1, FS_AddElement, FS_CardinalityType DEF Holders
  <2>7. Cardinality(Holders) < Cap BY <2>4, <2>6
  <2>8. w \notin Holders BY <1>1 DEF Holders
  <2>9. Semaphore!Cardinality(Holders) = Cardinality(Holders)
    BY DEF Semaphore!Cardinality, Cardinality
  <2>10. QED BY <2>1, <2>7, <2>8, <2>9 DEF Semaphore!Take
<1>2. ASSUME NEW w \in Workers, NEW label, label # "holding", pc[w] # "holding",
             pc' = [pc EXCEPT ![w] = label]
      PROVE  Holders' = Holders
  BY <1>2, <1>a DEF Holders, TypeOK
<1>3. ASSUME NEW w \in Workers, NextSlot(w), pc[w] # "holding" PROVE Holders' = Holders
  BY <1>3, <1>2 DEF NextSlot, GiveUp
<1>4. ASSUME NEW w \in Workers, Acquire(w) PROVE Semaphore!Take(w) \/ Holders' = Holders
  <2>1. CASE Create(w)
    BY <2>1, <1>1, <1>2 DEF Create, Goto
  <2>2. CASE Recreate(w)
    BY <2>2, <1>1, <1>3 DEF Recreate
  <2>3. CASE Read(w) \/ Judge(w) \/ Verify(w)
    BY <2>3, <1>2, <1>3 DEF Read, Judge, Verify, Goto
  <2>4. ~RenameClaim(w) /\ ~ReadBack(w)
    BY DEF FaultFreeInv, RenameClaim, ReadBack
  <2>5. QED BY <1>4, <2>1, <2>2, <2>3, <2>4 DEF Acquire
<1>5. ASSUME NEW w \in Workers, StartAcquire(w) \/ Release(w) PROVE Holders' = Holders
  BY <1>5, <1>2 DEF StartAcquire, Release, ReleaseRead, ReleaseRm, Goto, GiveUp
<1>6. ASSUME NEW w \in Workers, StartRelease(w) PROVE Semaphore!Give(w)
  BY <1>6, <1>a DEF StartRelease, Semaphore!Give, Holders, TypeOK
<1>7. ASSUME UNCHANGED pc PROVE Holders' = Holders
  BY <1>7 DEF Holders
<1>8. \A kind : ~Fault(kind) BY DEF Fault
<1>9. QED
  BY <1>4, <1>5, <1>6, <1>7, <1>8
  DEF Next, Step, Environment, BeatRead, BeatTouch, SweepStat, SweepRm, Expire, Stall, Resume,
    Crash, Leak, IoError, ReadError, vars, workerVars, Semaphore!Next

(* In the absence of faults every behaviour of the ledger is one of a      *)
(* counting semaphore of capacity Cap.                                     *)
THEOREM ImplementsSemaphore == Faults = {} /\ Spec => RefinesSemaphore
<1>1. Init => FaultFreeInv
  BY DEF Init, FaultFreeInv
<1>2. Faults = {} /\ LedgerInv /\ FaultFreeInv /\ [Next]_vars => FaultFreeInv'
  BY FaultFreeStep
<1>3. Init => Semaphore!Init
  BY DEF Init, Holders, Semaphore!Init
<1>4. Faults = {} /\ LedgerInv /\ FaultFreeInv /\ [Next]_vars => [Semaphore!Next]_Holders
  BY SemaphoreStep
<1>5. SUFFICES ASSUME Faults = {} PROVE Spec => RefinesSemaphore
  OBVIOUS
<1>6. QED
  BY <1>1, <1>2, <1>3, <1>4, <1>5, LedgerInvariant, PTL DEF Spec, RefinesSemaphore, Semaphore!Spec
=============================================================================
