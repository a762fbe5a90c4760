SPECIFICATION HostSpec
CONSTANTS
  Fields = {"agent", "tool"}
  Values = {"x", "y"}
  Rules <- SomeRules
  Calls <- SomeCalls
  Defaults = {"allow", "deny"}
  MaxRules = 3
  Policies <- SomePolicies
  Lines <- SomeLines
  MaxLines = 3
  MaxClock = 3
  Threads = {t1, t2, t3}
  PolicyTexts = {"p", "q"}
  First = "p"
  Verdict <- OneAllows
  MaxCalls = 4
  MaxFaults = 1
  Callers = {"t1", "t2"}
  Keys = {"a", "b", "c"}
  Window <- SameWindow
  Quota <- MixedQuota
  Anchor <- OneLater
  MaxKeys = 2
  MaxTime = 4
SYMMETRY AnyThread
INVARIANTS
  SimTypeOK ResolvesAsSpecified QuotaOfWinnerOnly TraceAcceptedExactly ReportsAsSpecified ChangedForAReason
  StoreTypeOK ActivationsInOrder DecidedByPolicyInForce AuditedBeforeReturn OutcomesFollow NoDeadlock
  QuotaTypeOK QuotaHeld
PROPERTIES
  ClosedStaysSilent ThrottledOnlyWhenSpent FullOnlyWithActiveKeys RefusedOnlyBehindOther
\* A resolution ends, and so does a simulation; the host may stop calling.
\* NoDeadlock shows that nothing else stops in the policy store.
CHECK_DEADLOCK FALSE
