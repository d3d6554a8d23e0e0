SPECIFICATION MCSpec
CONSTANTS
    ServerNum = 1
    MaxAttempt = 4
    Faults = {"crash", "lose", "fail", "error", "start", "accept"}
    MaxFault = 2
    Watchers = {None, Taken}
    Destroys = TRUE
    None = None
    Taken = Taken
  INVARIANTS ServerLists OneRecovery LoopRuns ConnectedIsUsable KindsAgree
PROPERTY RecoveryEnds
CHECK_DEADLOCK FALSE
