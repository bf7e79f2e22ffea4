SPECIFICATION FairSpec
CONSTANTS
  c1 = c1
  c2 = c2
  c3 = c3
  Conn = {c1, c2, c3}
  Trusted = {c1, c2}
  MaxRequests = 2
  NoConn = NoConn
  NoRequest = NoRequest
INVARIANT OneAsker
INVARIANT OneAnswer
PROPERTY TurnedAwayOnlyIfTaken
PROPERTY Answered
CHECK_DEADLOCK FALSE
