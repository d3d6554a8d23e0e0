SPECIFICATION MCSpec
CONSTANTS
  Server <- MCServer
  Hash <- MCHash
  c1 = c1
  b1 = b1
  Caller = {c1, c2}
  Block = {b1, b2}
  Value = {zero, v}
  Zero = zero
  Null = null
  Junk = junk
  Pending = pending
  NoCall = nocall
  Length = {1, 2, 3}
  Threshold = 2
  Op = {"malloc", "free", "read", "write", "send", "fetch"}
  MaxInfo = 2
  MaxSmr = 2
  MaxLosses = 1
INVARIANTS WorkIsLive NothingLeaks BuffersAreExclusive EntriesAreFound
PROPERTIES OneMemory Answered
CHECK_DEADLOCK FALSE
