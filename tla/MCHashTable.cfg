CONSTANTS
  Key <- MCKey
  FirstKey = 0
  LastKey = 3
  NumBuckets = 2
  HashOf <- MCHashOf
  MinEntries = 1
  MaxEntries = 4
  AllocPortion = 2
  Margin = 1
  SortedHeaderSize = 5
  MinRefresh = 2
  MaxRefresh = 4
SPECIFICATION Spec
INVARIANTS
  CellsAccounted
  SortedByKey
  NextIsNext
PROPERTIES
  StoreSpec
  MarginKept
