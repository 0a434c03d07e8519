\* A verification that lists fewer events than there are.
SPECIFICATION Spec
CONSTANTS
  Ids = {e1, e2, e3}
  Orders = {"insertion", "timestamp"}
  VerifyLimit = 2
  MaxTime = 1
  MaxQueue = 1
  MaxFaults = 0
INVARIANTS UntamperedVerifies
