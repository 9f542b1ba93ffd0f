------------------------------ MODULE MCServices ------------------------------
(* One instance of each of five parts that share no state: the call of a     *)
(* model, the calls of its tools, the cuts of the context, the connection to *)
(* an MCP server and the row of a session in the index.  A behaviour is a    *)
(* behaviour of one of them; the others rest.                               *)
EXTENDS LlmCall, ToolCalls, TLC

CONSTANTS Asks, Cursors, MaxPages, MaxBuffered, MaxIds
CONSTANTS main, asked
CONSTANTS KeepRecent, Budget, ToolWeight, MaxMessages, MaxQueued
CONSTANTS Calls, AutoCap, MaxRecords, MaxJobs, MaxSearches, MaxTroubles, NoRow

VARIABLES
  mcpStage, seen, pages, idCounter, fate, pending, timers, suspended, handlers,
  ask, elicitInFlight, buffered, reading, closed, mcpCancelled, destroyed, up
VARIABLES context, strategy, popped, armed, inbox, runStage, rescued
VARIABLES log, row, landed, jobs, phase, searches, troubles

VARIABLE part  \* the service that runs

(* One agent makes two calls, the others one; what `asked` names is always    *)
(* asked for, any verdict may be configured for the rest.                   *)
TwoOrOne == [a \in Agents |-> IF a = main THEN [1 .. 2 -> Targets] ELSE {<<asked>>}]
AskedAsks == [t \in Targets |-> IF t = asked THEN {"ask"} ELSE {"allow", "ask", "deny"}]

Cuts == INSTANCE Compaction WITH stage <- runStage, queue <- inbox
Mcp == INSTANCE McpClient WITH stage <- mcpStage, cancelled <- mcpCancelled
Index == INSTANCE SessionIndex
ASSUME PartsAssumption ==
  Cuts!CompactionAssumption /\ Mcp!McpAssumption /\ Index!IndexAssumption

(* The calls of the log, and the questions of the MCP server, are alike.     *)
Alike == Permutations(Calls) \cup Permutations(Asks)

ServicesInit ==
  /\ part \in {"llm", "tools", "cuts", "mcp", "index"}
  /\ Init /\ ToolInit /\ Cuts!Init /\ Mcp!Init /\ Index!Init
  /\ part # "tools" => \A t \in Targets : rules[t] = "ask"
  /\ part # "cuts" => strategy = "summarize"

cuts == <<context, strategy, popped, armed, inbox, runStage, rescued>>
mcp == <<mcpStage, seen, pages, idCounter, fate, pending, timers, suspended, handlers,
         ask, elicitInFlight, buffered, reading, closed, mcpCancelled, destroyed, up>>
index == <<log, row, landed, jobs, phase, searches, troubles>>

CallsModel == part = "llm" /\ Next /\ UNCHANGED <<part, toolVars, cuts, mcp, index>>
CallsTools == part = "tools" /\ ToolNext /\ UNCHANGED <<part, vars, cuts, mcp, index>>
CutsContext == part = "cuts" /\ Cuts!Next /\ UNCHANGED <<part, vars, toolVars, mcp, index>>
TalksMcp == part = "mcp" /\ Mcp!Next /\ UNCHANGED <<part, vars, toolVars, cuts, index>>
Indexes == part = "index" /\ Index!Next /\ UNCHANGED <<part, vars, toolVars, cuts, mcp>>

ServicesNext == CallsModel \/ CallsTools \/ CutsContext \/ TalksMcp \/ Indexes

ServicesSpec == ServicesInit /\ [][ServicesNext]_<<part, vars, toolVars, cuts, mcp, index>>

-----------------------------------------------------------------------------
(* The properties of the parts that are instances, looked at while they run:  *)
(* at rest they stay in their initial state.                                *)

(* What is cut from a context, popped and given back leaves it one a backend  *)
(* accepts (extensions/compaction).                                         *)
ContextSurvivesCuts == part = "cuts" => Cuts!ContextSurvivesCuts

(* The callers of an MCP connection are settled by clocks that never burn     *)
(* while a human thinks and always run otherwise, and what its server can    *)
(* make it keep is bounded (mcp-client/client.ts, connection.ts).           *)
CallsSettle == part = "mcp" => Mcp!CallsSettle /\ Mcp!ClocksFair /\ Mcp!ServerContained

(* The row of a session can be derived from its log: a row that missed       *)
(* nothing says what the log says, and one that looks fresh missed nothing   *)
(* (session-index.ts).                                                     *)
MirrorIsDerivable == part = "index" => Index!MirrorTellsLog /\ Index!FreshMissedNothing
=============================================================================
