SPECIFICATION OutboxSpec
CONSTANTS
  Typed = 2
  MaxAutoAttempts = 1
  MaxReplies = 1
  TextOf <- MCSameText
PROPERTY TextIsKept
CHECK_DEADLOCK FALSE
