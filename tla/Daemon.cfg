SPECIFICATION Spec
CONSTANTS
  Pids = {p1, p2}
  NoPid = nopid
  Terminals = {t1, t2}
  Polls = 1
CHECK_DEADLOCK FALSE
INVARIANTS DaemonIsNamed
PROPERTIES StartedMeansServing StopEnds
