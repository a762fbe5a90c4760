SPECIFICATION FairAuditSpec
CONSTANTS
  MaxSlots = 2
  Limits = {2}
  Runtimes = {"rust", "python"}
  MaxTxns = 3
  MaxFiles = 4
  MaxCrashes = 2
  MaxFaults = 0
  MaxBytes = 2
  MaxAge = 0
  Tails = {"torn", "whole", "cut"}
  MaxRecords = 6
  MaxTime = 0
INVARIANTS AuditTypeOK RetentionHonoured CorruptExplained
PROPERTIES LogIsDurable AppendReturns
