SPECIFICATION Spec
CONSTANTS
  InitFiles <- MCInitFiles
  MinTypes = {"BOOL", "OID"}
  MaxRecords = 5
  NoIndex = TRUE
  Paths = {"a", "b"}
  MaxLost = 1
INVARIANT TabfidsRight
 
 
 
