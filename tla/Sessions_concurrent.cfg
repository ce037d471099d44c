SPECIFICATION FairSpec
CONSTANTS
  c1 = c1
  c2 = c2
  nopage = nopage
  NoPage = nopage
  Connections <- MCTwo
  PAGE_SIZE = 11
  Columns <- MCColumns
  MaxStatements = 4
CHECK_DEADLOCK FALSE
INVARIANT TypeOK
INVARIANT PinsBalanced
INVARIANT ActiveTransactions
INVARIANT ScanCountsRows
INVARIANT TuplesReadable
PROPERTY StatementsAnswered
