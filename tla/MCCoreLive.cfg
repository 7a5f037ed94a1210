SPECIFICATION CoreFairSpec
CONSTANTS
  restart = restart
  env = env
  repair = repair
  medic = medic
  w1 = w1
  w2 = w2
  Null = Null
  Repair <- MCRepair
  Writer <- OneWriter
  RepairOf <- OneRepairOf
  m1 = m1
  m2 = m2
  h1 = h1
  h2 = h2
  s1 = s1
  Idle = Idle
  Msg <- MCMsg
  Session <- MCSession
  SessionOf <- MCSessionOf
  Op <- LiveOp
  Handler <- OneHandler
PROPERTIES
  QueuedIsGranted
  ExpiredSettles
  ImplementsFifoMutex
  AdmittedSettles
