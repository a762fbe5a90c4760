SPECIFICATION SimSpec
CONSTANTS
  Fields = {"agent", "tool"}
  Values = {"x", "y"}
  Rules <- SomeRules
  Calls <- SomeCalls
  Defaults = {"allow", "deny"}
  MaxRules = 0
  Policies <- SomePolicies
  Lines <- SomeLines
  MaxLines = 3
  MaxClock = 2
INVARIANTS TraceFormatKept
\* A resolution ends, and so does a simulation.
CHECK_DEADLOCK FALSE
