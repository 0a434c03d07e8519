\* A vote that may change the amount, under every policy of two rules.
SPECIFICATION PolicySpec
CONSTANTS
  Limit = 1
  Amounts = {0, 1, 2}
  MaxRules = 2
INVARIANTS EditedInputIsEvaluated
CHECK_DEADLOCK FALSE
