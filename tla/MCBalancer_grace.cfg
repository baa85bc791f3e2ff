SPECIFICATION FairSpec
PROPERTY GraceBridgesGaps
CONSTANTS
  payments = payments
  i1 = i1
  i2 = i2
  c1 = c1
  c2 = c2
  closer = closer
  Services = {payments}
  Instances = {i1, i2}
  Callers = {c1}
  Closers = {closer}
  Janitor = Janitor
  NoOne = NoOne
  NoWatch = NoWatch
  MaxWatches = 1
  Options <- GraceOptions
  MaxClock = 2
