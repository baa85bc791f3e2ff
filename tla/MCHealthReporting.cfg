\* One HTTP probe, the heartbeat and the registrar; two changes, one slow answer, one loss.
CONSTANTS
  p1 = p1
  Heartbeat = Heartbeat
  Registrar = Registrar
  Hung = Hung
  NoCall = NoCall
  Probes = {p1}
  Statuses <- UpOrDown
  NumCalls = 4
  MaxChanges = 1
  MaxFaults = 1
SPECIFICATION FairSpec
INVARIANTS TypeOK OneExecution PushIsReported
PROPERTIES  ProbesEnd CheckConverges
CHECK_DEADLOCK FALSE
