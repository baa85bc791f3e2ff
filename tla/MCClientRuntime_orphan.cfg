\* Claim: Stop deregisters a service the agent knows.
CONSTANTS
  r1 = r1
  s1 = s1
  p1 = p1
  p2 = p2
  u1 = u1
  Starters = {s1}
  Stoppers = {p1}
  Runners = {}
  Users = {}
  Registrar = Registrar
  Heartbeat = Heartbeat
  NoOne = NoOne
  Configs <- DefaultConfigs
  ErrorsBuffer = 1
  MaxFaults = 1
  MaxUserCalls = 0
SPECIFICATION FairSpec
PROPERTY DeregistersKnownService
CHECK_DEADLOCK FALSE
