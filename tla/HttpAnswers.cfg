SPECIFICATION MCSpec
CONSTANTS
  Requests = {1, 2, 3}
  Contexts = {1, 2}
  NoContext = NoContext
  Buffers = {1, 2}
  NoBuffer = NoBuffer
INVARIANT AnswerComplete
 
PROPERTY GoroutinesEnd
CHECK_DEADLOCK FALSE
