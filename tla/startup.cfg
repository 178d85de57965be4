SPECIFICATION Spec
CONSTANTS
  Workers = {w1, w2}
  NumPorts = 3
  Width = 3
  MaxCount = 3
INVARIANTS StartSound FaultOnlyOnSmallMachines NeverOverReported
PROPERTY StartCompletes
CHECK_DEADLOCK FALSE
