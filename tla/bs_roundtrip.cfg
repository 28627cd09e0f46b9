CONSTANTS
  U64s <- MCU64s
  UintWidths <- MCUintWidths
  I64s <- MCI64s
  IntWidths <- MCIntWidths64
  Amounts <- MCAmounts
  VarLens <- MCVarLens
  VarInts <- MCVarIntsEdge
  Payloads <- MCPayloads
  SnakePayloads <- MCSnake
  Addresses <- MCAddressesStd
  RefCell <- MCRefCell
  CellArgs <- MCCellArgs
  SliceSkips <- MCSliceSkips
  MaxFields = 2
  DebugAssertions = FALSE
SPECIFICATION Spec
INVARIANT ReadBackMatches
