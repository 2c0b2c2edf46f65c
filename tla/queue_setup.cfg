SPECIFICATION FairSpec
CONSTANTS
  w1 = w1
  w2 = w2
  q1 = q1
  q2 = q2
  ack = ack
  pending = pending
  v0 = v0
  v1 = v1
  v2 = v2
  old = old
  new = new
  Unset = Unset
  None = None
  Workers = {w1, w2}
  Queues <- MCQueues
  Settings = {ack, pending}
  Values = {v0, v1, v2}
  Builds = {old, new}
  Declared <- MCDeclared
  StreamOf <- MCStreamOf
  Defaults <- MCDefaults
  Inboxes = {1, 2, 3, 4}
  OldStreams <- MCOldStreams
  OldSettings <- MCOldSettings
  MaxAttempts = 2
  StaleAfter = 2
  Disturbances = 2
INVARIANTS NeverMixed RolloutLands SomebodyHears OnDeclaredKind
PROPERTIES StartupEnds LossIsVisible
