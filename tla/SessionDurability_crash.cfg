SPECIFICATION Spec
CONSTANTS
  MaxPrompts = 2
  MaxCalls = 2
  MaxReplies = 2
  MaxCuts = 1
  MaxFaults = 1
  MaxCrashes = 2
  MaxEvents = 3
  AutoCap = 1
CHECK_DEADLOCK FALSE
INVARIANTS EffectsRecorded RequestsAnswerable LogIsFaithful AutoResumesCapped
