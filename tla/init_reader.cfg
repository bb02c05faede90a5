SPECIFICATION Spec
CONSTANTS
  Files <- MCFiles
  Missing = Missing
  ParseLimit = 2
  MaxAny = 3
  MaxData = 6
  MaxTable = 5
INVARIANT TokenExact
INVARIANT DeliveredRight
PROPERTY ReaderEnds
