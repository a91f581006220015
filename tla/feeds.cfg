\* One ingestion after another, the brokers' books moving at every step.
SPECIFICATION Spec
CONSTANTS
  None = None
  LongTermDays = 1
  MaxDay = 2
  MaxEvents = 5
  MaxRuns = 2
  Happenings <- MCHappenings
  Window = 1
  SendAttempts = 2
  PollAttempts = 2
INVARIANTS
  EventsKeptOnce
  ReaderIsTheBook
PROPERTIES
  OutageKeepsLastGood
CHECK_DEADLOCK FALSE
