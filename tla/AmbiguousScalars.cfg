SPECIFICATION Spec
CONSTANTS
  MaxDepth = 2
  MaxNodes = 3
  NodeInputs <- SomeNodes
  Instants = {1, 2}
  Strings = {"a", "y", "bot", "x", "2026-08-11T12:00:00Z"}
  Entries <- SomeEntries
  Names = {"bot"}
  Defaults = {"deny"}
  MaxLimit = 2
  MaxRules = 1
  MaxOffered = 4
INVARIANTS AmbiguousRefused
\* A parse ends, and so does an evaluation.
CHECK_DEADLOCK FALSE
