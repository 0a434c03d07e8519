\* Two calls repeat an approval and the report of a prepared action.
SPECIFICATION PreparedSpec
CONSTANTS
  StoreCalls = {c1, c2}
  Bodies = {1, 2, 3}
  Succeeding = {1, 2}
  Preparing = {1}
INVARIANT ReplayReconciles
CHECK_DEADLOCK FALSE
