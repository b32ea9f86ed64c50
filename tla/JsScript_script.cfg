SPECIFICATION Spec
CONSTANTS
  Identifiers <- MCIdentifiers
  Literals = {"0", "1", "2", "3", "4", "5", "6", "7", "8", "9", "'1'", "'2'", "''", "'a'"}
  Constructors <- MCConstructors
  Numerals <- MCNumerals
  StringOrder <- MCStringOrder
  LiteralValues <- MCLiteralValues
  Names <- MCNames
  MaxNodes = 80
  Leaves <- MCLeaves
  Wraps <- MCWraps
  MaxDepth = 3
  Oracles <- MCOracles
  Fuel = 12
  Expressions <- MCExpressions
  OperatorLiterals <- MCOperatorLiterals
  CharOrder <- MCCharOrder
  Cells = {c1, c2, c3}
  Locals = {v1, v2, v3}
  Pointers = {"p"}
  Second = 10
  Texts <- MCTexts
  JsonValues <- MCJsonValues
  Moments <- MCMoments
  Spans <- MCSpans
  ZonesBehind <- MCZonesBehind
  ZoneChanges <- MCZoneChanges
  Pauses = {0, 4, 11}
  Distances <- MCDistances
  MaxAsked = 4
  DatesMade <- MCDatesMade
  DateArguments <- MCDateArguments
  MaxSet = 2
  Files <- MCFiles
  MainFile <- MCMainFile
  PropertyNames <- MCPropertyNames
  NameNumbers <- MCNameNumbers
  PropertyValues = {"v", "w"}
  MaxChain = 3
  MaxLength = 3
INVARIANTS ProgramsMeanWhatEcmaSays ScopesBalanced ExpressionsParseBack InbuiltOperandsPresent OperatorsAsEcma TokensAsEcma ValuesReadBack RefCountsExact TimesConvert ZoneFresh FilesInPlace HostPropertiesHold ArraysAreSequences ExternalsAsOne
CHECK_DEADLOCK FALSE
