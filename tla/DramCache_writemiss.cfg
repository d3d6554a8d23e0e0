SPECIFICATION MCSpec
CONSTANTS
  BankNum = 2
  Bank <- MCBank
  CacheSize = 1
  Word = {w1}
  Val = {zero, a}
  Zero = zero
  Thread = {t1}
  Flusher = flusher
  Free = free
INVARIANT WriteTakesEffect
CHECK_DEADLOCK FALSE
