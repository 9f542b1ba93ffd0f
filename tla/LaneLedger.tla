----------------------------- MODULE LaneLedger -----------------------------
(***************************************************************************)
(* The cross-process slot ledger of one provider lane                      *)
(* (src/core/session/lane-ledger.ts): Cap numbered files in a directory    *)
(* that any number of hotdog processes share, used as a counting           *)
(* semaphore.  A step is one filesystem call together with the code that   *)
(* runs, without another await, when it returns.  Lanes are independent    *)
(* directories, so one is enough.                                          *)
(*                                                                         *)
(* Time is the age of a slot file: its mtime is "fresh" while a heartbeat  *)
(* refreshed it within leaseMs, then "quiet", and "stale" once it passed   *)
(* staleMs.  A file ages only when nobody refreshes it: heartbeatMs (15 s) *)
(* is far below leaseMs (120 s), so the slot of a process that is neither  *)
(* dead nor suspended never goes quiet.                                    *)
(***************************************************************************)
EXTENDS Naturals, FiniteSets

CONSTANTS
  Procs,      \* hotdog processes sharing the ledger directory
  Workers,    \* callers of acquire: task agents and session turns
  Serials,    \* the random part of a lease token
  Hosts,      \* host names
  ProcOf,     \* the process a worker runs in
  HostOf,     \* the host name a process writes into its markers
  Recycled,   \* dead processes whose pid an unrelated program reuses
  Cap,        \* slots of the lane
  Faults,     \* the kinds of fault that may strike
  MaxFaults,  \* how many faults a behaviour may contain
  None        \* no marker, no token

FaultKinds == {"crash", "stall", "leak", "io"}

ASSUME LaneAssumption ==
  /\ ProcOf \in [Workers -> Procs]
  /\ HostOf \in [Procs -> Hosts]
  /\ Recycled \subseteq Procs
  /\ Cap \in Nat \ {0}
  /\ Faults \subseteq FaultKinds
  /\ MaxFaults \in Nat

Slots == 0 .. Cap - 1

(* A lease token names its caller and is otherwise random.  A SlotMarker is *)
(* its token: the pid and the host name follow from the caller's process.  *)
Tokens == Workers \X Serials
ASSUME NoneAssumption ==
  None \notin Tokens /\ None \notin Tokens \X Slots /\ None \notin Slots \X Tokens

PidOf(m) == ProcOf[m[1]]

VARIABLES
  slot,       \* the marker in each slot file, None when the file is absent
  age,        \* how long ago the slot file was last written or touched
  status,     \* of each process: "up", "stalled" (suspended), "dead"
  registered, \* tokens with a reachable lease object in some processSlots
  held,       \* <<token, slot>> pairs each process heartbeats (#held)
  beat,       \* the pair whose marker #beatAll just read, before its utimes
  sweep,      \* the slot sweepStale is about to rm and the marker it saw
  pc,         \* where each worker stands
  at,         \* the slot each worker looks at or holds
  token,      \* the token of each worker's lease
  judged,     \* judgedRaw: the marker each worker read
  faults,     \* faults so far
  blind,      \* history: a reclaim or a sweep hit a marker it had not judged
  lapsed      \* history: a slot of a live lease went quiet

fsVars == <<slot, age>>
procVars == <<status, registered, held, beat, sweep>>
workerVars == <<pc, at, token, judged>>
ghostVars == <<blind, lapsed>>
vars == <<fsVars, procVars, workerVars, faults, ghostVars>>

Acquiring == {"create", "read", "recreate", "stat", "verify", "rename", "readback"}
Releasing == {"relread", "relrm"}
Standing == {"readback", "holding"} \cup Releasing
PCs == {"idle", "polling", "holding", "gone"} \cup Acquiring \cup Releasing

(* Every variable has its type.                                            *)
TypeOK ==
  /\ slot \in [Slots -> Tokens \cup {None}]
  /\ age \in [Slots -> {"fresh", "quiet", "stale"}]
  /\ status \in [Procs -> {"up", "stalled", "dead"}]
  /\ registered \subseteq Tokens
  /\ held \in [Procs -> SUBSET (Tokens \X Slots)]
  /\ beat \in [Procs -> (Tokens \X Slots) \cup {None}]
  /\ sweep \in [Procs -> (Slots \X Tokens) \cup {None}]
  /\ pc \in [Workers -> PCs]
  /\ at \in [Workers -> Slots]
  /\ token \in [Workers -> Tokens \cup {None}]
  /\ judged \in [Workers -> Tokens \cup {None}]
  /\ faults \in 0 .. MaxFaults
  /\ blind \in BOOLEAN /\ lapsed \in BOOLEAN

Init ==
  /\ slot = [s \in Slots |-> None]
  /\ age = [s \in Slots |-> "fresh"]
  /\ status = [p \in Procs |-> "up"]
  /\ registered = {}
  /\ held = [p \in Procs |-> {}]
  /\ beat = [p \in Procs |-> None]
  /\ sweep = [p \in Procs |-> None]
  /\ pc = [w \in Workers |-> "idle"]
  /\ at = [w \in Workers |-> 0]
  /\ token = [w \in Workers |-> None]
  /\ judged = [w \in Workers |-> None]
  /\ faults = 0
  /\ blind = FALSE /\ lapsed = FALSE

-----------------------------------------------------------------------------
(* What a process can tell about a marker                                  *)

(* Everything that can still mention a token: tokens are random, so a new  *)
(* one differs from all of these.                                          *)
InUse ==
  {token[w] : w \in Workers} \cup registered
    \cup {slot[s] : s \in Slots} \cup {judged[w] : w \in Workers}
    \cup {h[1] : h \in UNION {held[p] : p \in Procs}}
    \cup {beat[p][1] : p \in {p \in Procs : beat[p] # None}}
    \cup {sweep[p][2] : p \in {p \in Procs : sweep[p] # None}}

FreshTokens(w) == {t \in Tokens : t[1] = w /\ t \notin InUse}
FreshToken(w) == CHOOSE t \in FreshTokens(w) : TRUE

PidAlive(p) == status[p] # "dead" \/ p \in Recycled

(* #occupied: our own markers by the watchdog table, any other by its      *)
(* heartbeat first and, on this host, by its pid.                          *)
Occupied(p, m, fresh) ==
  IF PidOf(m) = p
    THEN m \in registered
    ELSE fresh /\ (HostOf[PidOf(m)] # HostOf[p] \/ PidAlive(PidOf(m)))

Up(w) == status[ProcOf[w]] = "up"

-----------------------------------------------------------------------------
(* acquire(lane, cap)                                                      *)

(* Variant: the token is not registered before the files are touched.      *)
StartAcquireUnregistered(w) ==
  /\ Up(w) /\ pc[w] \in {"idle", "polling"}
  /\ FreshTokens(w) # {}
  /\ token' = [token EXCEPT ![w] = FreshToken(w)]
  /\ pc' = [pc EXCEPT ![w] = "create"]
  /\ UNCHANGED <<fsVars, status, registered, held, beat, sweep, at, judged, faults, ghostVars>>

(* The worker's caller asks for a turn, or its retry timer fired.  The     *)
(* lease is registered before any file is written.                         *)
StartAcquire(w) ==
  /\ Up(w) /\ pc[w] \in {"idle", "polling"}
  /\ FreshTokens(w) # {}
  /\ token' = [token EXCEPT ![w] = FreshToken(w)]
  /\ registered' = registered \cup {FreshToken(w)}
  /\ pc' = [pc EXCEPT ![w] = "create"]
  /\ UNCHANGED <<fsVars, status, held, beat, sweep, at, judged, faults, ghostVars>>

(* won(path): the heartbeat of the new lease starts.                       *)
Won(w) ==
  /\ pc' = [pc EXCEPT ![w] = "holding"]
  /\ judged' = [judged EXCEPT ![w] = None]
  /\ held' = [held EXCEPT ![ProcOf[w]] = @ \cup {<<token[w], at[w]>>}]
  /\ UNCHANGED <<token, at, registered>>

(* The end of acquire without a slot: the finally block drops the          *)
(* registration; `next` is where the caller goes.                          *)
GiveUp(w, next) ==
  /\ pc' = [pc EXCEPT ![w] = next]
  /\ judged' = [judged EXCEPT ![w] = None]
  /\ token' = [token EXCEPT ![w] = None]
  /\ at' = [at EXCEPT ![w] = 0]
  /\ registered' = registered \ {token[w]}
  /\ UNCHANGED held

(* `continue`: the next slot, or null after the last one.                  *)
NextSlot(w) ==
  \/ /\ at[w] < Cap - 1
     /\ pc' = [pc EXCEPT ![w] = "create"]
     /\ at' = [at EXCEPT ![w] = @ + 1]
     /\ judged' = [judged EXCEPT ![w] = None]
     /\ UNCHANGED <<token, registered, held>>
  \/ at[w] = Cap - 1 /\ GiveUp(w, "polling")

Goto(w, label) ==
  /\ pc' = [pc EXCEPT ![w] = label]
  /\ UNCHANGED <<at, token, judged, registered, held>>

WriteSlot(s, m) ==
  /\ slot' = [slot EXCEPT ![s] = m]
  /\ age' = [age EXCEPT ![s] = "fresh"]

RemoveSlot(s) == WriteSlot(s, None)

(* Both createExclusive calls: the first one falls through to the read,    *)
(* the second one gives the slot up.                                       *)
Create(w) ==
  /\ Up(w) /\ pc[w] = "create"
  /\ \/ slot[at[w]] = None /\ WriteSlot(at[w], token[w]) /\ Won(w)
     \/ slot[at[w]] # None /\ Goto(w, "read") /\ UNCHANGED fsVars
  /\ UNCHANGED <<status, beat, sweep, faults, ghostVars>>

Recreate(w) ==
  /\ Up(w) /\ pc[w] = "recreate"
  /\ \/ slot[at[w]] = None /\ WriteSlot(at[w], token[w]) /\ Won(w)
     \/ slot[at[w]] # None /\ NextSlot(w) /\ UNCHANGED fsVars
  /\ UNCHANGED <<status, beat, sweep, faults, ghostVars>>

Read(w) ==
  /\ Up(w) /\ pc[w] = "read"
  /\ \/ slot[at[w]] = None /\ Goto(w, "recreate")
     \/ /\ slot[at[w]] # None
        /\ judged' = [judged EXCEPT ![w] = slot[at[w]]]
        /\ pc' = [pc EXCEPT ![w] = "stat"]
        /\ UNCHANGED <<at, token, registered, held>>
  /\ UNCHANGED <<fsVars, status, beat, sweep, faults, ghostVars>>

(* The stat and the verdict it feeds.                                      *)
Judge(w) ==
  LET vanished == slot[at[w]] = None
      taken == Occupied(ProcOf[w], judged[w], age[at[w]] = "fresh")
  IN /\ Up(w) /\ pc[w] = "stat"
     /\ \/ (vanished \/ taken) /\ NextSlot(w)
        \/ ~vanished /\ ~taken /\ Goto(w, "verify")
     /\ UNCHANGED <<fsVars, status, beat, sweep, faults, ghostVars>>

-----------------------------------------------------------------------------
(* #reclaimInPlace: the temporary claiming marker is private to its writer, *)
(* so writing it is part of the verdict's step.                            *)

Verify(w) ==
  /\ Up(w) /\ pc[w] = "verify"
  /\ \/ slot[at[w]] = judged[w] /\ Goto(w, "rename")
     \/ slot[at[w]] # judged[w] /\ NextSlot(w)
  /\ UNCHANGED <<fsVars, status, beat, sweep, faults, ghostVars>>

RenameClaim(w) ==
  /\ Up(w) /\ pc[w] = "rename"
  /\ WriteSlot(at[w], token[w])
  /\ blind' = (blind \/ slot[at[w]] \notin {judged[w], None})
  /\ Goto(w, "readback")
  /\ UNCHANGED <<status, beat, sweep, faults, lapsed>>

ReadBack(w) ==
  /\ Up(w) /\ pc[w] = "readback"
  /\ \/ slot[at[w]] = token[w] /\ Won(w)
     \/ slot[at[w]] # token[w] /\ NextSlot(w)
  /\ UNCHANGED <<fsVars, status, beat, sweep, faults, ghostVars>>

-----------------------------------------------------------------------------
(* release(lease)                                                          *)

(* Variant: the token is unregistered before the unlink.                   *)
StartReleaseUnregistering(w) ==
  /\ Up(w) /\ pc[w] = "holding"
  /\ pc' = [pc EXCEPT ![w] = "relread"]
  /\ held' = [held EXCEPT ![ProcOf[w]] = {h \in @ : h[1] # token[w]}]
  /\ registered' = registered \ {token[w]}
  /\ UNCHANGED <<fsVars, status, beat, sweep, at, token, judged, faults, ghostVars>>

StartRelease(w) ==
  /\ Up(w) /\ pc[w] = "holding"
  /\ pc' = [pc EXCEPT ![w] = "relread"]
  /\ held' = [held EXCEPT ![ProcOf[w]] = {h \in @ : h[1] # token[w]}]
  /\ UNCHANGED <<fsVars, status, registered, beat, sweep, at, token, judged, faults, ghostVars>>

ReleaseRead(w) ==
  /\ Up(w) /\ pc[w] = "relread"
  /\ \/ slot[at[w]] = token[w] /\ Goto(w, "relrm")
     \/ slot[at[w]] # token[w] /\ GiveUp(w, "idle")
  /\ UNCHANGED <<fsVars, status, beat, sweep, faults, ghostVars>>

(* The rm removes whatever file stands at the path by now; only then is    *)
(* the token unregistered.                                                 *)
ReleaseRm(w) ==
  /\ Up(w) /\ pc[w] = "relrm"
  /\ RemoveSlot(at[w])
  /\ GiveUp(w, "idle")
  /\ UNCHANGED <<status, beat, sweep, faults, ghostVars>>

-----------------------------------------------------------------------------
(* #beatAll: one held pair at a time, the `#beating` flag keeps passes of  *)
(* one process from overlapping.                                           *)

(* Variant: the beat renews a slot whose lease nobody holds any more.      *)
BeatReadGhost(p) ==
  /\ status[p] = "up" /\ beat[p] = None
  /\ \E h \in held[p] :
       IF slot[h[2]] = h[1]
         THEN beat' = [beat EXCEPT ![p] = h] /\ UNCHANGED held
         ELSE held' = [held EXCEPT ![p] = @ \ {h}] /\ UNCHANGED beat
  /\ UNCHANGED <<fsVars, status, registered, sweep, workerVars, faults, ghostVars>>

BeatRead(p) ==
  /\ status[p] = "up" /\ beat[p] = None
  /\ \E h \in held[p] :
          \/ /\ h[1] \notin registered
             /\ held' = [held EXCEPT ![p] = @ \ {h}]
             /\ UNCHANGED <<registered, beat>>
          \/ /\ h[1] \in registered /\ slot[h[2]] = None
             /\ held' = [held EXCEPT ![p] = @ \ {h}]
             /\ UNCHANGED <<registered, beat>>
          \/ /\ h[1] \in registered /\ slot[h[2]] \notin {None, h[1]}
             /\ held' = [held EXCEPT ![p] = @ \ {h}]
             /\ registered' = registered \ {h[1]}
             /\ UNCHANGED beat
          \/ /\ h[1] \in registered /\ slot[h[2]] = h[1]
             /\ beat' = [beat EXCEPT ![p] = h]
             /\ UNCHANGED <<held, registered>>
  /\ UNCHANGED <<fsVars, status, sweep, workerVars, faults, ghostVars>>

(* The utimes lands on whatever marker stands there by now.                *)
BeatTouch(p) ==
  /\ status[p] = "up" /\ beat[p] # None
  /\ age' = [age EXCEPT ![beat[p][2]] = "fresh"]
  /\ beat' = [beat EXCEPT ![p] = None]
  /\ UNCHANGED <<slot, status, registered, held, sweep, workerVars, faults, ghostVars>>

-----------------------------------------------------------------------------
(* sweepStale: the last stat before the rm, and the rm.                    *)

(* Variant: the sweep does not look at the age of a file.                  *)
SweepStatAnyAge(p) ==
  /\ status[p] = "up" /\ sweep[p] = None
  /\ \E s \in Slots :
       /\ slot[s] # None
       /\ \A h \in held[p] : h[2] # s
       /\ sweep' = [sweep EXCEPT ![p] = <<s, slot[s]>>]
  /\ UNCHANGED <<fsVars, status, registered, held, beat, workerVars, faults, ghostVars>>

SweepStat(p) ==
  /\ status[p] = "up" /\ sweep[p] = None
  /\ \E s \in Slots :
       /\ slot[s] # None /\ age[s] = "stale"
       /\ \A h \in held[p] : h[2] # s
       /\ sweep' = [sweep EXCEPT ![p] = <<s, slot[s]>>]
  /\ UNCHANGED <<fsVars, status, registered, held, beat, workerVars, faults, ghostVars>>

SweepRm(p) ==
  /\ status[p] = "up" /\ sweep[p] # None
  /\ RemoveSlot(sweep[p][1])
  /\ blind' = (blind \/ slot[sweep[p][1]] \notin {sweep[p][2], None})
  /\ sweep' = [sweep EXCEPT ![p] = None]
  /\ UNCHANGED <<status, registered, held, beat, workerVars, faults, lapsed>>

-----------------------------------------------------------------------------
(* The environment: time, suspended and dying processes, lost handles, a   *)
(* failing filesystem.                                                     *)

Fault(kind) ==
  /\ kind \in Faults /\ faults < MaxFaults
  /\ faults' = faults + 1

(* Someone's lease stands in slot s.                                       *)
Owned(s) == \E w \in Workers :
  pc[w] \in Standing /\ at[w] = s /\ slot[s] = token[w]

(* A slot nobody refreshes gets older.                                     *)
Expire(s) ==
  /\ slot[s] # None /\ age[s] # "stale"
  /\ status[PidOf(slot[s])] = "up" => ~Owned(s)
  /\ age' = [age EXCEPT ![s] = IF @ = "fresh" THEN "quiet" ELSE "stale"]
  /\ lapsed' = (lapsed \/ Owned(s))
  /\ UNCHANGED <<slot, procVars, workerVars, faults, blind>>

Stall(p) ==
  /\ Fault("stall") /\ status[p] = "up"
  /\ status' = [status EXCEPT ![p] = "stalled"]
  /\ UNCHANGED <<fsVars, registered, held, beat, sweep, workerVars, ghostVars>>

Resume(p) ==
  /\ status[p] = "stalled"
  /\ status' = [status EXCEPT ![p] = "up"]
  /\ UNCHANGED <<fsVars, registered, held, beat, sweep, workerVars, faults, ghostVars>>

WorkersIn(p) == {w \in Workers : ProcOf[w] = p}

Crash(p) ==
  /\ Fault("crash") /\ status[p] # "dead"
  /\ status' = [status EXCEPT ![p] = "dead"]
  /\ registered' = registered \ {token[w] : w \in WorkersIn(p)}
  /\ held' = [held EXCEPT ![p] = {}]
  /\ beat' = [beat EXCEPT ![p] = None]
  /\ sweep' = [sweep EXCEPT ![p] = None]
  /\ pc' = [w \in Workers |-> IF ProcOf[w] = p THEN "gone" ELSE pc[w]]
  /\ at' = [w \in Workers |-> IF ProcOf[w] = p THEN 0 ELSE at[w]]
  /\ token' = [w \in Workers |-> IF ProcOf[w] = p THEN None ELSE token[w]]
  /\ judged' = [w \in Workers |-> IF ProcOf[w] = p THEN None ELSE judged[w]]
  /\ UNCHANGED <<fsVars, ghostVars>>

(* A holder drops its lease object without releasing it: the WeakRef in    *)
(* processSlots reads undefined from then on.                              *)
Leak(w) ==
  /\ Fault("leak") /\ Up(w) /\ pc[w] = "holding"
  /\ GiveUp(w, "idle")
  /\ UNCHANGED <<fsVars, status, beat, sweep, ghostVars>>

(* A filesystem call rejects: acquire throws through its finally block (its *)
(* caller fails open); a failed rm leaves the file and still unregisters.  *)
IoError(w) ==
  /\ Fault("io") /\ Up(w)
  /\ pc[w] \in {"create", "recreate", "stat", "rename", "relread", "relrm"}
  /\ GiveUp(w, "idle")
  /\ UNCHANGED <<fsVars, status, beat, sweep, ghostVars>>

(* #readSafe reads a transient error as an absent file.                    *)
ReadError(w) ==
  /\ Fault("io") /\ Up(w)
  /\ \/ pc[w] = "read" /\ Goto(w, "recreate")
     \/ pc[w] \in {"verify", "readback"} /\ NextSlot(w)
  /\ UNCHANGED <<fsVars, status, beat, sweep, ghostVars>>

-----------------------------------------------------------------------------
Acquire(w) ==
  \/ Create(w) \/ Read(w) \/ Recreate(w) \/ Judge(w)
  \/ Verify(w) \/ RenameClaim(w) \/ ReadBack(w)

Release(w) == ReleaseRead(w) \/ ReleaseRm(w)

Step(w) == StartAcquire(w) \/ Acquire(w) \/ StartRelease(w) \/ Release(w)

Environment ==
  \/ \E s \in Slots : Expire(s)
  \/ \E p \in Procs : Stall(p) \/ Resume(p) \/ Crash(p)
  \/ \E w \in Workers : Leak(w) \/ IoError(w) \/ ReadError(w)

Next ==
  \/ \E w \in Workers : Step(w)
  \/ \E p \in Procs : BeatRead(p) \/ BeatTouch(p) \/ SweepStat(p) \/ SweepRm(p)
  \/ Environment

Spec == Init /\ [][Next]_vars

(* An acquire or release that started runs on, a full lane is polled again *)
(* after lanesRetryMs, the heartbeat timer fires, time passes.  No turn is *)
(* assumed to end, no suspended process to wake up.                        *)
Fairness ==
  /\ \A w \in Workers :
       /\ WF_vars(Acquire(w)) /\ WF_vars(Release(w))
       /\ WF_vars(pc[w] = "polling" /\ StartAcquire(w))
  /\ \A p \in Procs : WF_vars(BeatRead(p)) /\ WF_vars(BeatTouch(p))
  /\ \A s \in Slots : WF_vars(Expire(s))

FairSpec == Spec /\ Fairness

-----------------------------------------------------------------------------
(* Properties                                                              *)

Holders == {w \in Workers : pc[w] = "holding"}

(* While no reclaim and no sweep hit a marker other than the one it judged  *)
(* (the windows the comments of lane-ledger.ts accept) and no suspended    *)
(* process outlived its lease, crashes, leaks and filesystem errors never  *)
(* admit more than Cap turns: those are the only ways to over-admit.       *)
LaneBound == ~blind /\ ~lapsed => Cardinality(Holders) <= Cap

(* processSlots keeps no entry for a lease nobody can release, or a broken *)
(* state dir would grow it by one entry per retry.                         *)
NoGhostRegistration == registered \subseteq {token[w] : w \in Workers}

Semaphore == INSTANCE LaneSemaphore WITH inUse <- Holders

(* Without faults acquire and release implement the counting semaphore     *)
(* LaneSemaphore, however many processes race for the slots.               *)
RefinesSemaphore == Semaphore!Spec

Waiting == {w \in Workers : Up(w) /\ pc[w] \in Acquiring \cup {"polling"}}

(* The lane never wedges: it cannot be that, from some point on, turns     *)
(* wait for the lane while no live process holds one of its slots.         *)
NoWedge == []<>(Waiting # {} => \E w \in Holders : Up(w))

-----------------------------------------------------------------------------
(* The inductive strengthening of LaneBound                                *)

(* A token names its worker, which has one exactly while it acquires,      *)
(* holds or releases; a dead process has no worker left.                   *)
TokenInv ==
  /\ \A w \in Workers :
       /\ token[w] = None <=> pc[w] \in {"idle", "polling", "gone"}
       /\ token[w] # None => token[w][1] = w
       /\ judged[w] # None => pc[w] \in {"stat", "verify", "rename", "readback"}
       /\ pc[w] \in {"stat", "verify", "rename"} => judged[w] # None
       /\ status[ProcOf[w]] = "dead" => pc[w] = "gone"
  /\ registered \subseteq {token[w] : w \in Workers}

(* The heartbeat of a lease names the slot its holder holds.               *)
HeldInv ==
  \A p \in Procs : \A h \in held[p] :
    /\ PidOf(h[1]) = p
    /\ \A w \in Workers : token[w] = h[1] => pc[w] = "holding" /\ at[w] = h[2]

(* The marker m of slot s is not one its worker can still come to own.     *)
Gone(m, s) == \A w \in Workers : token[w] = m => at[w] > s
PastOrStanding(m, s) ==
  \A w \in Workers : token[w] = m => at[w] > s \/ (at[w] = s /\ pc[w] \in Standing)

MarkerInv ==
  /\ \A s \in Slots : slot[s] # None => PastOrStanding(slot[s], s)
  /\ \A w \in Workers : judged[w] # None => PastOrStanding(judged[w], at[w])

(* While nothing went blind and no live lease lapsed: whoever stands at a  *)
(* slot has its marker there and is registered, an aged slot belongs to    *)
(* nobody, and whoever is about to overwrite or delete judged a dead one.  *)
OwnerInv ==
  ~blind /\ ~lapsed =>
    /\ \A w \in Workers : pc[w] \in Standing => slot[at[w]] = token[w]
    /\ \A w \in Workers : token[w] # None => token[w] \in registered
    /\ \A s \in Slots : slot[s] # None /\ age[s] # "fresh" => ~Owned(s)
    /\ \A w \in Workers : pc[w] \in {"verify", "rename"} => Gone(judged[w], at[w])
    /\ \A p \in Procs : sweep[p] # None => Gone(sweep[p][2], sweep[p][1])

(* The inductive invariant of acquire, release, the heartbeat and the sweep *)
(* under faults.                                                           *)
LedgerInv == TypeOK /\ TokenInv /\ HeldInv /\ MarkerInv /\ OwnerInv

(* Without faults, every marker has an owner, so nothing is ever reclaimed *)
(* or swept.                                                               *)
FaultFreeInv ==
  Faults = {} =>
    /\ ~blind /\ ~lapsed
    /\ \A p \in Procs : status[p] = "up" /\ sweep[p] = None
    /\ \A s \in Slots : slot[s] # None => Owned(s)
    /\ \A w \in Workers : pc[w] \notin {"rename", "readback"}
=============================================================================
