SPECIFICATION Spec
CONSTANTS
  MaxAttempts = 2
  MaxDeaths = 2
  MaxLag = 5
INVARIANTS
  CompletedIsSaved
  SummaryIsJournal
  TimelineFollows
CHECK_DEADLOCK FALSE
