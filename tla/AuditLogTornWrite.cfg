SPECIFICATION AuditSpec
CONSTANTS
  MaxSlots = 1
  Limits = {1}
  Runtimes = {"rust", "python"}
  MaxTxns = 2
  MaxFiles = 3
  MaxCrashes = 1
  MaxFaults = 1
  MaxBytes = 3
  MaxAge = 0
  Tails = {"torn"}
  MaxRecords = 3
  MaxTime = 0
PROPERTY OneLinePerSuccess
