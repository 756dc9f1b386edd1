SPECIFICATION Spec
CONSTANTS
  sa = sa
  sb = sb
  Figures = 4
  MinExponent <- MCMinExponent
  MaxExponent = 3
  Decimals <- MCDecimals
  FloatFigures = 2
  OraNumbers <- MCOraNumbers
  Operands <- MCOperands
  Arguments <- MCArguments
  FieldValues <- MCFieldValues
  Moments <- MCMoments
  Months <- MCMonths
  Durations <- MCDurations
  PartsPerSecond = 20
  KeptParts = 10
  SessionOffset <- MCSessionOffset
  Elements = 2
  UnitModulus = 2
  Magic = 175
  AttrIntegers <- MCAttrIntegers
  Strings = {sa, sb}
  EmptyString = sa
  TypeNames <- MCTypeNames
  Schema <- MCSchema
  Scalars <- MCScalars
  Nesting = 5
  Unsupported = "ref"
  PointerSize = 8
  ObjectType = "line"
  ScalarValues = {sa, sb}
  Assignments <- MCAssignments
  Nil = Nil
  Refused = Refused
  ObjectElements = 2
  Words <- MCWords
  EmptyWord <- MCEmptyWord
  NlsRatios = {1, 3}
  Lengths = {0, 1, 2, 5}
  NoLength = NoLength
  DefaultLength = 3
  Header = 4
  NilWord = NilWord
  UnknownWord = UnknownWord
  Reader = {r1, r2, r3}
  SocketsInUse = SocketsInUse
  NotWalking = NotWalking
  HandleElements = 2
  Objects = 4
  MaxRows = 3
  MaxKept = 1
  Unmade = Unmade
  Freed = Freed
  SettingValues <- MCSettingValues
  Caller = {t1, t2}
  Connection = {c1, c2}
  short = short
  long = long
  Code = {short, long}
  TooManyCursors = short
  TextLength <- MCTextLength
  BufferStart = 6
  Expand = 4
  Spare = 2
  MaxBuffer = 18
  NoCode = NoCode
  NoHandle = NoHandle
  NoError = NoError
INVARIANTS
  ReadsNearest
  RoundTrip
  NumbersAgree
  DatesInOrder
  TimesKept
  AttributeKept
  StringKept
  HandlesKept
  LayoutFits
  ObjectHoldsAssigned
  EntriesFound
  SettingsInEffect
  ReportsOwnError
PROPERTY CancelledReadsEnd
CHECK_DEADLOCK FALSE
