SPECIFICATION FairSpec
CONSTANTS
  Callers = {loop, usage, pick}
  Loop = loop
  Usage = usage
  Tokens = {t1, t2, t3, t4, t5, t6}
  NoToken = none
CHECK_DEADLOCK FALSE
INVARIANTS TypeOK KeepsNewestToken NeverSendsSpentToken
PROPERTY AccountRecovers
