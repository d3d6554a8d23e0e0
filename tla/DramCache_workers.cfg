SPECIFICATION MCSpec
CONSTANTS
  BankNum = 2
  Bank <- MCBank
  CacheSize = 1
  Word = {w1}
  Val = {zero, a}
  Zero = zero
  Thread = {t1, t2}
  Flusher = flusher
  Free = free
INVARIANTS SlotDiscipline CleanIsRemote SingleIsCurrent
PROPERTIES Hidden SettlesClean
CHECK_DEADLOCK FALSE
