\* Two workers; a change the fingerprint sees and one it misses.
SPECIFICATION FairSpec
CONSTANTS
  r1 = r1
  r2 = r2
  Requests = {r1, r2}
  seen = seen
  missed = missed
  Changes = {seen, missed}
  Visible = {seen}
  TTL = 1
  LockExpire = 1
  MaxCompute = 1
  MaxCalls <- TwiceAndOnce
INVARIANTS
  NoStaleAnswer
  MissedChangesShowInTime
  SingleFlight
PROPERTIES
  EveryCallEnds
