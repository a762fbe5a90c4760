SPECIFICATION Spec
CONSTANTS
  MaxSlots = 2
  Limits = {1, 2}
  Runtimes = {"rust", "python"}
  MaxTxns = 3
  MaxFiles = 4
  MaxCrashes = 2
  MaxFaults = 2
INVARIANTS TypeOK NothingLost RefusedOnlyForTemporary
PROPERTIES RotationIsAtomic TransactionRespected
