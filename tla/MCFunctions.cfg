\* The engine's functions over bounded inputs.
SPECIFICATION FunctionsSpec
CONSTANTS
  a = a  b = b
  Definitions <- GraphsAndFields
  Known <- KnownTypes
  Chars <- LetterSet
  Cases <- MCCases
  Loggers = {g1, g2}
  MinSecret = 2
  MaxLine = 4
  MaxTask = 5
INVARIANTS ValidateExact TransitiveNeedsExact SecretsStayOut NoFragments CapHolds
CHECK_DEADLOCK FALSE
