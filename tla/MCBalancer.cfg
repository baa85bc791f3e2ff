SPECIFICATION FairSpec
INVARIANTS TypeOK NoWatchIsLost ClosedIsQuiet
PROPERTIES EjectionsSurvive CloseFinishes
CONSTANTS
  payments = payments
  i1 = i1
  i2 = i2
  c1 = c1
  c2 = c2
  closer = closer
  Services = {payments}
  Instances = {i1, i2}
  Callers = {c1, c2}
  Closers = {closer}
  Janitor = Janitor
  NoOne = NoOne
  NoWatch = NoWatch
  MaxWatches = 2
  Options <- AllOptions
  MaxClock = 2
