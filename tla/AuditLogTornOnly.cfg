SPECIFICATION AuditSpec
CONSTANTS
  MaxSlots = 1
  Limits = {1}
  Runtimes = {"rust", "python"}
  MaxTxns = 1
  MaxFiles = 2
  MaxCrashes = 1
  MaxFaults = 0
  MaxBytes = 3
  MaxAge = 0
  Tails = {"torn"}
  MaxRecords = 2
  MaxTime = 0
PROPERTY TornTailTruncated
