---------------------------- MODULE WorkflowRunDir ----------------------------
(***************************************************************************)
(* The directory of a workflow run, shared by the hotdog processes of a     *)
(* host (src/extensions/workflows/run-store.ts, workflow-tools.ts and the   *)
(* frame of WorkflowRun.run in engine.ts): the marker .owner, claimed with  *)
(* exclusive creates and renames by whoever wants to drive the run, and     *)
(* run.jsonl, to which the driver, the scan of a starting process and the   *)
(* skip of a manager append.  Every await of a claim is a step.            *)
(***************************************************************************)
EXTENDS Naturals, FiniteSets

CONSTANTS
  Procs,       \* processes of the host; one that dies starts again
  Starting,    \* those that have just started when the run is found
  Flows,       \* dispatches that may be under way at a time
  Home,        \* the process of each
  Rounds,      \* rounds of claimRunDir, 4 in the code
  MaxTroubles, \* dispatches, skips, kills and refused resumes, together
  Dead, None

ASSUME RunDirAssumption ==
  /\ Starting \subseteq Procs /\ Home \in [Flows -> Procs] /\ Rounds \in Nat \ {0} /\ MaxTroubles \in Nat
  /\ Dead \notin Procs \cup Flows \cup {None} /\ None \notin Procs \cup Flows

VARIABLES
  owner,    \* whom .owner names; Dead is a process that is no more
  aside,    \* the marker a claim has moved aside and not put back yet
  pc, round,
  stage,    \* "tool": the claim of workflow_dispatch, "run": that of run()
  active,   \* the entry of the run registry of a process that is neither finished nor crashed
  journal,  \* run.jsonl
  scan,     \* the scan of a process that has just started
  retire,   \* the skip under way in a process
  astray,   \* processes that live and whose marker is gone for good
  troubles

claimVars == <<owner, aside, pc, round, stage, active, astray>>
bookVars == <<scan, retire>>
runDirVars == <<claimVars, journal, bookVars, troubles>>

RunDirTypeOK ==
  /\ owner \in Procs \cup {Dead, None} /\ aside \in [Flows -> Procs \cup {Dead, None}]
  /\ pc \in [Flows -> {"idle", "read", "discard", "restore", "create", "fresh", "reread",
                       "corrupt", "open", "drive", "leave"}]
  /\ round \in [Flows -> 1 .. Rounds] /\ stage \in [Flows -> {"tool", "run"}]
  /\ active \in [Procs -> Flows \cup {None}]
  /\ journal \in [finished : BOOLEAN, skipped : BOOLEAN,
                  last : {"node", "resumed", "interrupted", "finished"}]
  /\ scan \in [Procs -> {"due", "owner", "mark", "idle"}]
  /\ retire \in [Procs -> {"owner", "append", "idle"}]
  /\ astray \subseteq Procs /\ troubles \in 0 .. MaxTroubles

Strike == troubles < MaxTroubles /\ troubles' = troubles + 1
Calm == UNCHANGED <<journal, bookVars, troubles>>

-----------------------------------------------------------------------------
(* claimRunDir: each operator is the rest of a step, up to the next await   *)

At(f, where) == pc' = [pc EXCEPT ![f] = where]
Same == UNCHANGED <<round, stage, active>>
Goes(f, where) == At(f, where) /\ Same

(* The dispatch fails; a registered run has crashed.                       *)
Fails(f) ==
  /\ At(f, "idle")
  /\ active' = IF stage[f] = "run" THEN [active EXCEPT ![Home[f]] = None] ELSE active
  /\ round' = [round EXCEPT ![f] = 1] /\ stage' = [stage EXCEPT ![f] = "tool"]

(* The claim of the tool succeeded: the run is registered, unless another   *)
(* dispatch was faster, and claims again; then it may read the journal.     *)
Claims(f) ==
  \/ stage[f] = "run" /\ Goes(f, "open")
  \/ stage[f] = "tool" /\ active[Home[f]] # None /\ Fails(f)
  \/ /\ stage[f] = "tool" /\ active[Home[f]] = None
     /\ active' = [active EXCEPT ![Home[f]] = f]
     /\ stage' = [stage EXCEPT ![f] = "run"] /\ round' = [round EXCEPT ![f] = 1]
     /\ At(f, "read")

Again(f) ==
  \/ round[f] = Rounds /\ Fails(f)
  \/ /\ round[f] < Rounds /\ round' = [round EXCEPT ![f] = @ + 1]
     /\ At(f, "read") /\ UNCHANGED <<stage, active>>

(* workflow_dispatch with a run_id, once the registry does not refuse it.   *)
DispatchRun(f) ==
  /\ pc[f] = "idle" /\ active[Home[f]] = None /\ scan[Home[f]] = "idle" /\ Strike
  /\ Goes(f, "read")
  /\ UNCHANGED <<owner, aside, astray, journal, bookVars>>

Read(f) ==
  /\ pc[f] = "read"
  /\ \/ owner = None /\ Goes(f, "fresh")
     \/ owner = Home[f] /\ Claims(f)
     \/ owner = Dead /\ Goes(f, "discard")
     \/ owner \in Procs \ {Home[f]} /\ Fails(f)
  /\ UNCHANGED <<owner, aside, astray>> /\ Calm

(* The marker that another dispatch of this process created is not put back. *)
Strays(f) == astray' = astray \cup ({owner} \cap {Home[f]})

(* Variant: what was moved aside is not looked at.                         *)
BlindDiscard(f, foul) ==
  \/ owner = None /\ Again(f) /\ UNCHANGED <<owner, aside>>
  \/ owner # None /\ owner' = None /\ UNCHANGED aside /\ Goes(f, "create")

(* discardOwnerFile and what its caller makes of the marker it moved; a     *)
(* foul one was taken for the rest of a crashed writer.                    *)
Discards(f, foul) ==
  \/ owner = None /\ Again(f) /\ UNCHANGED <<owner, aside>>
  \/ /\ owner # None /\ owner' = None
     /\ \/ owner = Dead /\ UNCHANGED aside /\ (IF foul THEN Again(f) ELSE Goes(f, "create"))
        \/ owner = Home[f] /\ UNCHANGED aside /\ Claims(f)
        \/ /\ owner \in Procs \ {Home[f]}
           /\ aside' = [aside EXCEPT ![f] = owner] /\ Goes(f, "restore")

Discard(f) == pc[f] = "discard" /\ Discards(f, FALSE) /\ Strays(f) /\ Calm

(* The claim of a live rival is put back, unless somebody else came first.  *)
Restored(f) == IF owner = None THEN aside[f] ELSE owner

PutBack(f) ==
  /\ pc[f] = "restore"
  /\ owner' = Restored(f)
  /\ aside' = [aside EXCEPT ![f] = None]
  /\ astray' = IF owner = None THEN astray ELSE astray \cup ({aside[f]} \cap Procs)
  /\ Again(f) /\ Calm

Create(f) ==
  /\ pc[f] \in {"create", "fresh"}
  /\ \/ owner = None /\ owner' = Home[f] /\ astray' = astray \ {Home[f]} /\ Claims(f)
     \/ owner # None /\ UNCHANGED <<owner, astray>>
        /\ IF pc[f] = "fresh" THEN Goes(f, "reread") ELSE Again(f)
  /\ UNCHANGED aside /\ Calm

(* There was a marker and it cannot be read: corrupt, or gone meanwhile.    *)
Reread(f) ==
  /\ pc[f] = "reread"
  /\ IF owner = None THEN Goes(f, "corrupt") ELSE Again(f)
  /\ UNCHANGED <<owner, aside, astray>> /\ Calm

Corrupt(f) == pc[f] = "corrupt" /\ Discards(f, TRUE) /\ Strays(f) /\ Calm

-----------------------------------------------------------------------------
(* The frame of run()                                                      *)

(* The journal is read and taken up; or it is that of another graph.       *)
Open(f) ==
  /\ pc[f] = "open"
  /\ \/ /\ journal' = [journal EXCEPT !.last = "resumed"]
        /\ Goes(f, "drive") /\ UNCHANGED troubles
     \/ Goes(f, "leave") /\ Strike /\ UNCHANGED journal
  /\ UNCHANGED <<owner, aside, astray, bookVars>>

Work(f) ==
  /\ pc[f] = "drive" /\ journal.last # "node"
  /\ journal' = [journal EXCEPT !.last = "node"]
  /\ UNCHANGED <<claimVars, bookVars, troubles>>

Finish(f) ==
  /\ pc[f] = "drive"
  /\ journal' = [journal EXCEPT !.finished = TRUE, !.last = "finished"]
  /\ Goes(f, "leave")
  /\ UNCHANGED <<owner, aside, astray, bookVars, troubles>>

(* The finally of run(): whatever marker there is, it goes.                *)
Leave(f) ==
  /\ pc[f] = "leave"
  /\ owner' = None /\ Fails(f)
  /\ astray' = (astray \cup ({owner} \cap Procs)) \ {Home[f]}
  /\ UNCHANGED aside /\ Calm

(* A process is killed; another one starts and will scan.                  *)
Gone(p, m) == IF m = p THEN Dead ELSE m

Kill(p) ==
  LET mine == {f \in Flows : Home[f] = p} IN
  /\ Strike
  /\ owner' = Gone(p, owner)
  /\ aside' = [f \in Flows |-> IF f \in mine THEN None ELSE Gone(p, aside[f])]
  /\ pc' = [f \in Flows |-> IF f \in mine THEN "idle" ELSE pc[f]]
  /\ round' = [f \in Flows |-> IF f \in mine THEN 1 ELSE round[f]]
  /\ stage' = [f \in Flows |-> IF f \in mine THEN "tool" ELSE stage[f]]
  /\ active' = [active EXCEPT ![p] = None]
  /\ scan' = [scan EXCEPT ![p] = "due"] /\ retire' = [retire EXCEPT ![p] = "idle"]
  /\ astray' = (astray \cup ({aside[f] : f \in mine} \cap Procs)) \ {p}
  /\ UNCHANGED journal

-----------------------------------------------------------------------------
(* The other writers of the journal                                        *)

Books(v, p, where) == v' = [v EXCEPT ![p] = where]

(* scanRunDirForInterruption reads the journal, and then the marker.       *)
ScanJournal(p) ==
  /\ scan[p] = "due"
  /\ Books(scan, p, IF journal.finished \/ journal.last = "interrupted" THEN "idle" ELSE "owner")
  /\ UNCHANGED <<claimVars, journal, retire, troubles>>

(* Variant: whoever owns the run, it is interrupted.                       *)
Ownerless == FALSE

LiveOwner == owner \in Procs

ScanOwner(p) ==
  /\ scan[p] = "owner"
  /\ Books(scan, p, IF LiveOwner THEN "idle" ELSE "mark")
  /\ UNCHANGED <<claimVars, journal, retire, troubles>>

(* markInterruptedRuns                                                     *)
Mark(p) ==
  /\ scan[p] = "mark" /\ Books(scan, p, "idle")
  /\ journal' = [journal EXCEPT !.last = "interrupted"]
  /\ UNCHANGED <<claimVars, retire, troubles>>

(* workflow_control skip, which judges with the rules of the scan.         *)
Skip(p) ==
  /\ retire[p] = "idle" /\ scan[p] = "idle" /\ ~journal.finished /\ Strike
  /\ Books(retire, p, "owner")
  /\ UNCHANGED <<claimVars, journal, scan>>

SkipOwner(p) ==
  /\ retire[p] = "owner"
  /\ Books(retire, p, IF LiveOwner THEN "idle" ELSE "append")
  /\ UNCHANGED <<claimVars, journal, scan, troubles>>

SkipAppend(p) ==
  /\ retire[p] = "append" /\ Books(retire, p, "idle")
  /\ journal' = [finished |-> TRUE, skipped |-> TRUE, last |-> "finished"]
  /\ UNCHANGED <<claimVars, scan, troubles>>

-----------------------------------------------------------------------------

(* A run whose process was killed while nodes were at work.                *)
RunDirInit ==
  /\ owner = Dead /\ aside = [f \in Flows |-> None]
  /\ pc = [f \in Flows |-> "idle"] /\ round = [f \in Flows |-> 1]
  /\ stage = [f \in Flows |-> "tool"] /\ active = [p \in Procs |-> None]
  /\ journal = [finished |-> FALSE, skipped |-> FALSE, last |-> "node"]
  /\ scan = [p \in Procs |-> IF p \in Starting THEN "due" ELSE "idle"] /\ retire = [p \in Procs |-> "idle"]
  /\ astray = {} /\ troubles = 0

RunDirNext ==
  \/ \E f \in Flows : \/ DispatchRun(f) \/ Read(f) \/ Discard(f) \/ PutBack(f) \/ Create(f)
                      \/ Reread(f) \/ Corrupt(f) \/ Open(f) \/ Work(f) \/ Finish(f) \/ Leave(f)
  \/ \E p \in Procs : \/ Kill(p) \/ ScanJournal(p) \/ ScanOwner(p) \/ Mark(p)
                      \/ Skip(p) \/ SkipOwner(p) \/ SkipAppend(p)

RunDirSpec == RunDirInit /\ [][RunDirNext]_runDirVars

-----------------------------------------------------------------------------
Drives(f) == pc[f] = "drive"

(* Two processes write one journal, and the files of one run, only when the *)
(* marker of one was lost, or is in the hands of a third dispatch: every     *)
(* other race of readers, reclaimers, creators and dying owners has a single *)
(* winner.                                                                 *)
DoubleOnlyAstray ==
  \A f, g \in Flows :
    Drives(f) /\ Drives(g) /\ Home[f] # Home[g]
      => LET two == {Home[f], Home[g]} IN
         two \cap astray # {} \/ \E x \in Flows \ {f, g} : aside[x] \in two

(* In a process a run is driven once, whatever became of the marker: of the *)
(* dispatches that claimed it together one passes the registry.             *)
OnePerProcess ==
  \A f, g \in Flows : Drives(f) /\ Drives(g) /\ Home[f] = Home[g] => f = g

(* The marker names who drives, unless it was lost or is in the hands of a  *)
(* reclaimer that has yet to put it back.                                  *)
Displaced(p) == p \in astray \/ \E x \in Flows : aside[x] = p

MarkerNamesDriver == \A f \in Flows : Drives(f) => owner = Home[f] \/ Displaced(Home[f])

(* A run directory has one writer, within a process and across processes,   *)
(* but for those losses, and its marker says which.                         *)
ClaimsExclude == RunDirTypeOK /\ DoubleOnlyAstray /\ OnePerProcess /\ MarkerNamesDriver

(* A start-up scan or a skip decides that a run is lost, from two reads of  *)
(* two files, only when nobody drives it or when its marker is displaced.   *)
JudgedLostWhenLost ==
  [][(\E p \in Procs : \/ scan[p] = "owner" /\ scan'[p] = "mark"
                       \/ retire[p] = "owner" /\ retire'[p] = "append")
     => \A f \in Flows : Drives(f) => Displaced(Home[f])]_runDirVars
=============================================================================
