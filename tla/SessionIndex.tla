------------------------------ MODULE SessionIndex ------------------------------
(***************************************************************************)
(* The row of a session in the index (core/session/session-index.ts), which   *)
(* mirrors its log: the hooks of the log writer (extensions/session-log)       *)
(* apply one record each at its commit point, and a rewind, a search or the    *)
(* reconcile of a boot derive the whole row from the log.  Index writes fail,  *)
(* the index is lost, and the process dies between any two steps.             *)
(***************************************************************************)
EXTENDS SessionLog

CONSTANTS
  Calls,        \* ids of tool calls
  AutoCap,      \* MAX_CONSECUTIVE_AUTO_RESUMES
  MaxRecords,   \* bound: records of the log
  MaxJobs,      \* bound: derivations under way
  MaxSearches,  \* bound: searches
  MaxTroubles,  \* bound: failed writes, crashes, losses of the index
  NoRow

(* Of the constants.                                                         *)
IndexAssumption ==
  /\ MaxRecords \in Nat \ {0} /\ MaxJobs \in Nat /\ MaxSearches \in Nat /\ MaxTroubles \in Nat

VARIABLES
  log,       \* the records on disk
  row,       \* the row of the session, with its open calls
  landed,    \* the record on disk whose hook goes on, or 0
  jobs,      \* syncSessionFromLog under way
  phase,     \* of the process: "down", "boot" while it reconciles, "cold"
             \* until it takes the session up again, "up"
  searches, troubles

vars == <<log, row, landed, jobs, phase, searches, troubles>>
budget == <<searches, troubles>>

(* What a sync is for, when it is not for a record.                         *)
Boot == 0
Search == MaxRecords + 1
Jobs == [for : 0 .. Search, size : 1 .. MaxRecords, read : 0 .. MaxRecords]

(* `seen`, `twice` and `astray` are history: the records the row accounts     *)
(* for, whether an attempt was counted a second time, and whether a record     *)
(* was lost by a write that failed, a sync that a mirror overtook, or one      *)
(* that a crash cut short after a mirror had stamped the row.                *)
Rows ==
  [size : 1 .. MaxRecords, state : {"idle", "awaiting", "interrupted", "parked"},
   open : SUBSET (Calls \X {"started", "question"}), resumes : 0 .. MaxRecords,
   seen : SUBSET (1 .. MaxRecords), twice : BOOLEAN, astray : BOOLEAN]

TypeOK ==
  /\ log \in Seq([src : Conversation \cup Bookkeeping, id : Calls \cup {0},
                  calls : {{}}, note : {"none", "auto", "manual"}])
  /\ row \in Rows \cup {NoRow}
  /\ landed \in 0 .. MaxRecords /\ jobs \subseteq Jobs
  /\ phase \in {"up", "boot", "cold", "down"}
  /\ searches \in 0 .. MaxSearches /\ troubles \in 0 .. MaxTroubles

-----------------------------------------------------------------------------
(* What a log says                                                         *)

(* deriveSessionState, over the facts of the epoch and the lifetime count.   *)
OpenIds(entries) ==
  (IdsOf(Epoch(entries), "started") \cup IdsOf(Epoch(entries), "asked"))
     \ IdsOf(Epoch(entries), "result")

Asking(entries) == IdsOf(Epoch(entries), "asked") \ IdsOf(Epoch(entries), "result")

DerivedState(entries) ==
  CASE ConsecutiveAutoResumes(entries) >= AutoCap -> "parked"
    [] Asking(entries) # {} -> "awaiting"
    [] OpenTurn(Epoch(entries)) \/ OpenIds(entries) # {} -> "interrupted"
    [] OTHER -> "idle"

Attempts(entries) == Cardinality({i \in DOMAIN entries : entries[i].src = "resume"})

(* A call that was started keeps that kind when it asks.                    *)
DerivedOpen(entries) ==
  {<<c, IF c \in IdsOf(Epoch(entries), "started") THEN "started" ELSE "question">> :
     c \in OpenIds(entries)}

-----------------------------------------------------------------------------
(* The writer: a record lands, and its hook goes on                        *)

Kinds == {"started", "asked", "result", "resume", "reset"}

Appends(e) ==
  /\ landed = 0 /\ Len(log) < MaxRecords
  /\ log' = Append(log, e)
  /\ landed' = IF e.src \in Kinds THEN Len(log) + 1 ELSE 0
  /\ UNCHANGED <<row, jobs, budget>>

Lands(e) == phase = "up" /\ Appends(e) /\ UNCHANGED phase

Running(c) == c \in OpenIds(log)

Prompt == ~OpenTurn(log) /\ Lands(Entry("turnStarted", 0))
Reply == OpenTurn(log) /\ Lands(Entry("input", 0))
Starts(c) == OpenTurn(log) /\ c \notin IdsOf(log, "started") /\ Lands(Entry("started", c))
Queries(c) == Running(c) /\ c \notin Asking(log) /\ Lands(Entry("asked", c))
Returns(c) == Running(c) /\ Lands(ResultEntry(c, "none"))
TurnEnds == OpenTurn(log) /\ OpenIds(log) = {} /\ Lands(Entry("turnEnd", 0))
Rewinds == ~OpenTurn(log) /\ IdsOf(Epoch(log), "input") # {} /\ Lands(Entry("reset", 0))

(* A session that was cut off is resumed by itself, up to the cap.          *)
Resumes ==
  LET auto == OpenTurn(log) /\ ConsecutiveAutoResumes(log) < AutoCap IN
  /\ phase = "cold" /\ phase' = "up"
  /\ Appends(ResumeEntry(IF auto THEN "auto" ELSE "manual"))

-----------------------------------------------------------------------------
(* A commit point: one record mirrored in one transaction                  *)

Ids(open) == {o[1] : o \in open}

Mirrors(r, i) ==
  LET e == log[i]
      Opened(kind) == IF e.id \in Ids(r.open) THEN r.open ELSE r.open \cup {<<e.id, kind>>}
      left == {o \in r.open : o[1] # e.id}
  IN CASE e.src = "started" -> [r EXCEPT !.open = Opened("started")]
       [] e.src = "asked" -> [r EXCEPT !.open = Opened("question"), !.state = "awaiting"]
       [] e.src = "result" ->
            [r EXCEPT !.open = left,
                      !.state = IF \E o \in left : o[2] = "question" THEN "awaiting" ELSE "idle"]
       [] e.src = "resume" ->
            [r EXCEPT !.resumes = @ + 1,
                      !.state = IF ConsecutiveAutoResumes(SubSeq(log, 1, i)) >= AutoCap
                                  THEN "parked" ELSE @]

Mirrored == {i \in DOMAIN log : log[i].src \in Kinds}

(* A call that is mirrored again after its result is open again.            *)
Undone(k, i) == k > i /\ log[k].src = "result" /\ log[k].id = log[i].id

Applied(r, i) ==
  [Mirrors(r, i) EXCEPT !.seen = {k \in @ : ~Undone(k, i)} \cup {i}]

(* The size of the file is taken as the row's, whatever else it gained.      *)
Stamped(r, i) ==
  [Applied(r, i) EXCEPT !.size = Len(log),
                        !.twice = @ \/ (log[i].src = "resume" /\ i \in r.seen)]

(* idempotentOnMissing                                                     *)
Again(e) == e.src \in {"started", "asked", "result"}

Stat(for) == [for |-> for, size |-> Len(log), read |-> 0]

CommitPoint ==
  /\ phase = "up" /\ landed # 0 /\ landed' = 0 /\ Cardinality(jobs) < MaxJobs
  /\ IF row = NoRow \/ log[landed].src = "reset"
       THEN jobs' = jobs \cup {Stat(landed)} /\ UNCHANGED row
       ELSE row' = Stamped(row, landed) /\ UNCHANGED jobs
  /\ UNCHANGED <<log, phase, budget>>

(* safeIndex: the failure is logged, the row keeps its old size.            *)
CommitFails ==
  /\ phase = "up" /\ landed # 0 /\ landed' = 0
  /\ troubles < MaxTroubles /\ troubles' = troubles + 1
  /\ row' = IF row = NoRow THEN NoRow ELSE [row EXCEPT !.astray = TRUE]
  /\ UNCHANGED <<log, jobs, phase, searches>>

-----------------------------------------------------------------------------
(* syncSessionFromLog: stat, read, write                                   *)

ReadLog(j) ==
  /\ j \in jobs /\ j.read = 0
  /\ jobs' = (jobs \ {j}) \cup {[j EXCEPT !.read = Len(log)]}
  /\ UNCHANGED <<log, row, landed, phase, budget>>

(* Variant: the size is taken when the row is written.                      *)
SizeNow(j) == Len(log)

SizeRead(j) == j.size

Derived(j) ==
  LET entries == SubSeq(log, 1, j.read) IN
  [size |-> SizeRead(j), state |-> DerivedState(entries), open |-> DerivedOpen(entries),
   resumes |-> Attempts(entries), seen |-> 1 .. j.read, twice |-> FALSE, astray |-> FALSE]

Written(j) ==
  IF j.for \in DOMAIN log /\ Again(log[j.for]) THEN Applied(Derived(j), j.for) ELSE Derived(j)

WriteRow(j) ==
  /\ j \in jobs /\ j.read # 0 /\ jobs' = jobs \ {j}
  /\ row' = [Written(j) EXCEPT !.astray = ~(Mirrored \subseteq Written(j).seen \cup {landed})]
  /\ phase' = IF j.for = Boot THEN "cold" ELSE phase
  /\ UNCHANGED <<log, landed, budget>>

(* The staleness marker.                                                   *)
Fresh == row # NoRow /\ row.size = Len(log)

(* searchSessionCorpora: a row that is not fresh is derived anew.           *)
SearchLooks ==
  /\ phase \in {"cold", "up"} /\ searches < MaxSearches /\ searches' = searches + 1
  /\ ~Fresh /\ Cardinality(jobs) < MaxJobs
  /\ jobs' = jobs \cup {Stat(Search)}
  /\ UNCHANGED <<log, row, landed, phase, troubles>>

-----------------------------------------------------------------------------
(* Trouble                                                                 *)

Trouble == troubles < MaxTroubles /\ troubles' = troubles + 1 /\ UNCHANGED <<log, searches>>

Crash ==
  /\ Trouble /\ phase # "down" /\ phase' = "down"
  /\ landed' = 0 /\ jobs' = {}
  /\ row' = IF Fresh /\ jobs # {} THEN [row EXCEPT !.astray = TRUE] ELSE row

(* The file is deleted, or found corrupt and moved aside.                   *)
LoseIndex == Trouble /\ row # NoRow /\ row' = NoRow /\ UNCHANGED <<landed, jobs, phase>>

(* reconcileSessionIndex: stat only, for a row that is fresh.               *)
Reconcile ==
  /\ phase = "down"
  /\ IF Fresh THEN phase' = "cold" /\ UNCHANGED jobs
     ELSE phase' = "boot" /\ jobs' = {Stat(Boot)}
  /\ UNCHANGED <<log, row, landed, budget>>

-----------------------------------------------------------------------------
Init ==
  /\ log = <<Entry("session", 0)>> /\ row = NoRow
  /\ landed = 0 /\ jobs = {} /\ phase = "up" /\ searches = 0 /\ troubles = 0

Next ==
  \/ Prompt \/ Reply \/ TurnEnds \/ Rewinds \/ Resumes
  \/ \E c \in Calls : Starts(c) \/ Queries(c) \/ Returns(c)
  \/ CommitPoint \/ CommitFails
  \/ \E j \in jobs : ReadLog(j) \/ WriteRow(j)
  \/ SearchLooks \/ Crash \/ LoseIndex \/ Reconcile

Spec == Init /\ [][Next]_vars

-----------------------------------------------------------------------------
(* A row that missed no record says what a scan of the log would: the same   *)
(* calls are open, as many attempts counted, and it waits for a human only   *)
(* when the log does ("every fact in this index is re-derivable from a log    *)
(* scan", session-index.ts).                                               *)
MirrorTellsLog ==
  /\ TypeOK
  /\ row # NoRow /\ Mirrored \subseteq row.seen /\ ~row.twice =>
       /\ Ids(row.open) = OpenIds(log)
       /\ row.resumes = Attempts(log)
       /\ row.state = "awaiting" => Asking(log) # {}

(* A reconcile reads what changed and nothing else, so at rest a row as long *)
(* as its log has missed nothing, wherever the process died and the index    *)
(* was lost ("the next reconcile repairs the row from the log"); except while *)
(* it is astray.                                                           *)
FreshMissedNothing ==
  Fresh /\ phase \in {"cold", "up"} /\ landed = 0 /\ jobs = {} /\ ~row.astray =>
    Mirrored \subseteq row.seen
=============================================================================
