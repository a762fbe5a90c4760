SPECIFICATION AuditSpec
CONSTANTS
  MaxSlots = 2
  Limits = {1, 2}
  Runtimes = {"rust", "python"}
  MaxTxns = 2
  MaxFiles = 3
  MaxCrashes = 1
  MaxFaults = 1
  MaxBytes = 2
  MaxAge = 2
  Tails = {}
  MaxRecords = 4
  MaxTime = 2
INVARIANT AckedRecordsSurvive
PROPERTIES LogIsDurable YoungRecordsKept ExpiredRemoved
