SPECIFICATION FairSpec
CONSTANTS
  Callers = {"reader"}
  Captures = {c1, c2, c3}
  NoCapture = NoCapture
  Happens = {"restore fails", "process fails"}
PROPERTY ActivationReturns
CHECK_DEADLOCK FALSE
