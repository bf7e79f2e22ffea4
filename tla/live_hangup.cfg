SPECIFICATION Spec
CONSTANTS
  c1 = c1
  c2 = c2
  c3 = c3
  Conn = {c1, c2}
  Trusted = {c1, c2}
  MaxRequests = 1
  NoConn = NoConn
  NoRequest = NoRequest
INVARIANT AnswersTheAsker
CHECK_DEADLOCK FALSE
