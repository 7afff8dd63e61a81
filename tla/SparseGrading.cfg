SPECIFICATION GradingSpec
CONSTANTS MaxGradings = 2
INVARIANT SparsePassOnOwnTensors
CHECK_DEADLOCK FALSE
