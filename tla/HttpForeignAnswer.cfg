SPECIFICATION Spec
CONSTANTS
  Requests = {1, 2}
  Contexts = {1}
  NoContext = NoContext
  Buffers = {1, 2}
  NoBuffer = NoBuffer
INVARIANT OwnAnswer
CHECK_DEADLOCK FALSE
