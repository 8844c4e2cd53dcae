SPECIFICATION PrepareSpec
CONSTANTS
  Garbage = Garbage
  SignBit = 36
  Reserved = 8
  Queries <- MCQueries
  ParamValues <- MCParamValues
  PagingStates <- MCPagingStates
  PageSizes = {0, 100}
  MaxValues = 2
INVARIANT QueryValueAsTested
