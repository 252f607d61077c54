CONSTANTS
  p1 = p1
  p2 = p2
  p3 = p3
  Process = {p1, p2, p3}
  Operations <- OneRequest
  BlockingThreads = 3
SPECIFICATION Spec
PROPERTIES
  EveryOperationEnds
  RequestsNeedNoStorage
CHECK_DEADLOCK FALSE
