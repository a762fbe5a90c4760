SPECIFICATION AuditSpec
CONSTANTS
  MaxSlots = 1
  Limits = {1}
  Runtimes = {"rust", "python"}
  MaxTxns = 3
  MaxFiles = 3
  MaxCrashes = 0
  MaxFaults = 1
  MaxBytes = 1
  MaxAge = 0
  Tails = {}
  MaxRecords = 4
  MaxTime = 0
PROPERTY AckAfterRotation
