SPECIFICATION Spec
CONSTANTS
  Nil = Nil
  NoAnswer = NoAnswer
  Raised = Raised
  Ended = Ended
  Null = Null
  Zero = Zero
  NoBind = NoBind
  NoSize = NoSize
  Unset = Unset
  Column = {k1, k2}
  PrefetchRows = 2
  MaxRows = 3
  MaxExecutions = 2
  Key = {k1, k2}
  Bind = {b1, b2, b3}
  Value = {v1, v2}
  MaxLen = 2
  Resizes = 2
  InitialChunk = 1
  MaxChunk = 2
  Letter = {x, y}
  MaxBytes = 5
  NullText = NullText
  Unknown = Unknown
SYMMETRY Symmetry
INVARIANTS
  FetchesAsAgreed
  RowsAsAssigned
  HeldBuffersInUse
  LongTextKept
PROPERTIES
  ImplementsRowStream
