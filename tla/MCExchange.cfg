SPECIFICATION ExchangeSpec
CONSTANTS
  Garbage = Garbage
  SignBit = 36
  Reserved = 8
  Queries <- MCQueries
  ParamValues <- MCParamValues
  PagingStates <- MCPagingStates
  PageSizes = {0, 100}
  MaxValues = 2
  Columns <- MCColumns
  CellSizes <- MCCellSizes
  SizeValues = 1048576
  MaxColumns = 2
  MaxRows = 2
  Errors <- MCErrors
  Supported <- MCSupported
CHECK_DEADLOCK FALSE
INVARIANT FrameFilled
INVARIANT ReadBack
INVARIANT ParsedAsSent
INVARIANT RowsExact
INVARIANT CursorInBuffer
INVARIANT AnswerAsSent
