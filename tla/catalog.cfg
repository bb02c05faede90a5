SPECIFICATION Spec
CONSTANTS
  Names = {"t", "long"}
  Lower <- MCLower
  TooLong = {"long"}
  Types = {"INT4", "CHAR20000", "CHAR40000"}
  NoSuchType = "NONE"
  Comparable = {"INT4"}
  Layout <- MCLayout
  MaxFieldId = 2
  MaxColumns = 3
  ColumnLists <- TableArgs
  LongColumns = {0, 2}
  KeyLists <- KeyArgs
  OpFuncs = {"default", "suitable"}
  FirstOid = 3
  MaxOid = 5
  FileLimit = 3
  GrowthSizes = {}
INVARIANT OneObjectPerOid
INVARIANT DescsAsMade
INVARIANT MadeTablesUsable
INVARIANT IndexesMatchTables
INVARIANT IndexDescsAsMade
