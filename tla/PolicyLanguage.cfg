SPECIFICATION LanguageSpec
CONSTANTS
  MaxDepth = 2
  MaxNodes = 3
  NodeInputs <- SomeNodes
  Instants = {1, 2}
  Strings = {"a", "y", "bot", "x", "2026-08-11T12:00:00Z"}
  Entries <- SomeEntries
  Names = {"bot"}
  Defaults = {"deny"}
  MaxLimit = 2
  MaxRules = 2
  MaxOffered = 4
  Symbols <- SomeSymbols
  Letters <- SomeLetters
  MaxPattern = 4
  MaxText = 3
INVARIANTS
  TypeOK ExactlyValidAccepted LoadedAsWritten ConditionLimitsExact ConditionMeaning
  OnlyWellFormedAccepted ArgsMatchIsSearch PathPatternIsGlob
\* A parse ends, and so does an evaluation.
CHECK_DEADLOCK FALSE
