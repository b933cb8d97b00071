SPECIFICATION Spec
CONSTANTS
  c1 = c1
  h1 = h1
  h2 = h2
  Callers = {c1}
  Handlers = {h1, h2}
  Kinds = {"action_only", "unlinked", "linked"}
  Readings <- Telling
  MaxRequests = 1
  MaxOthers = 1
  MaxReadings = 1
  MaxPasses = 1
  MaxFailures = 1
  MaxCrashes = 1
CONSTRAINT TwoDisturbances
SYMMETRY Symmetry
CHECK_DEADLOCK FALSE
INVARIANTS ShownHasEvidence NewestEvidence SavedWhenQuiet CommandsNoticed
PROPERTY FeedbackWins
