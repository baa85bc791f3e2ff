CONSTANTS
  w1 = w1
  w2 = w2
  base = base
  derived = derived
  registrar = registrar
  Callers = {w1, w2}
  Registrar = registrar
  Clients <- TestClients
  Asks <- TestAsks
  Names = {base, derived}
  Tags = {"a", "b"}
  MaxCalls = 5
  Interval = 2
  Burst = 1
  MaxGrants = 3
  MaxTime = 3
  ServiceIDs = {"web"}
  Definitions = {"def"}
  MaxWrites = 1
  MaxFaults = 1
SPECIFICATION Spec
INVARIANTS TypeOK NobodyWaitsInVain Paced AskedAsBuilt
CHECK_DEADLOCK FALSE
