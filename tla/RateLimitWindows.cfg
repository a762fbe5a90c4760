SPECIFICATION QuotaSpec
CONSTANTS
  Callers = {"t1", "t2"}
  Keys = {"short", "long"}
  Window <- TwoWindows
  Quota <- QuotaOne
  Anchor <- Together
  MaxKeys = 1
  MaxTime = 4
INVARIANT QuotaHeld
