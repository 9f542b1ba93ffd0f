SPECIFICATION ServicesSpec
CONSTANTS
 MaxRetries = 2
 Chunks = 3
 Asks = {x, y}
 Cursors = {c, d}
 MaxPages = 3
 MaxBuffered = 2
 MaxIds = 5
 Agents = {main, worker}
 main = main
 Targets = {asked, ruled}
 asked = asked
 Plane = {asked}
 MaxAttempts = 2
 Replies <- TwoOrOne
 MayRule <- AskedAsks
 KeepRecent = 1
 Budget = 4
 ToolWeight = 2
 MaxMessages = 6
 MaxQueued = 1
 Calls = {c1, c2}
 AutoCap = 2
 MaxRecords = 6
 MaxJobs = 2
 MaxSearches = 1
 MaxTroubles = 2
 NoRow = NoRow
INVARIANTS OneStream CallsAreGated ContextSurvivesCuts CallsSettle MirrorIsDerivable
PROPERTIES StopsAsking
SYMMETRY Alike
CHECK_DEADLOCK FALSE
