SPECIFICATION Spec
CONSTANTS
  m1 = m1
  m2 = m2
  h1 = h1
  h2 = h2
  s1 = s1
  Idle = Idle
  Msg <- MCMsg
  Session <- MCSession
  SessionOf <- MCSessionOf
  Handler <- OneHandler
PROPERTIES
  ConfirmedStopIsRecorded
