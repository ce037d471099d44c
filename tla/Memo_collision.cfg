SPECIFICATION ChainSpec
CONSTANTS
  Hash <- MCHash
  MaxGroups = 25
  ChainLength = 23
  PlanOperators = {"LOGICAL_GET", "LOGICAL_FILTER", "LOGICAL_JOIN"}
CHECK_DEADLOCK FALSE
INVARIANT AnswerHoldsExpression
