SPECIFICATION Spec
CONSTANTS
  MaxSlots = 1
  Limits = {1}
  Runtimes = {"rust", "python"}
  MaxTxns = 2
  MaxFiles = 3
  MaxCrashes = 1
  MaxFaults = 0
INVARIANT InterruptedRotationRecovers
