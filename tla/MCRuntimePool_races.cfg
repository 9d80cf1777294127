\* Two threads race, and a child is forked at any moment, initialisers included; it may
\* exit, and so may its parent.
CONSTANTS
  p1 = p1
  p2 = p2
  t1 = t1
  t2 = t2
  Proc = {p1, p2}
  Root = p1
  Thread = {t1, t2}
  ThreadsOf <- MCThreadsOf
  Pid = {1, 2}
  Options <- MCOptions
  Environments <- MCEnvironments
  LogicalCpus = 3
  None = None
  Failed = Failed
  Gone = Gone
CHECK_DEADLOCK FALSE
SPECIFICATION FairSpec
INVARIANTS TypeOK SettingsAgree PoolMatchesSettings OwnPoolOnly
PROPERTIES FixedOnce CallsReturn
