\* Run, Stop and an explicit Register or Deregister race with the two tasks.
CONSTANTS
  r1 = r1
  s1 = s1
  p1 = p1
  p2 = p2
  u1 = u1
  Starters = {}
  Stoppers = {p1}
  Runners = {r1}
  Users = {u1}
  Registrar = Registrar
  Heartbeat = Heartbeat
  NoOne = NoOne
  Configs <- AllConfigs
  ErrorsBuffer = 1
  MaxFaults = 1
  MaxUserCalls = 1
SPECIFICATION FairSpec
INVARIANTS TypeOK QuietAfterDone DeregistrationIsLast
PROPERTIES StoppedIsTerminal OnlyAbandonedRegistersAfterStop ImplementsContract CallsReturn SelfHealing
CHECK_DEADLOCK FALSE
