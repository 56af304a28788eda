CONSTANTS
  Workers = {w1, w2}
  Callers = {c1, c2}
SPECIFICATION FairSpec
INVARIANT NoLostWakeup
PROPERTY ImplementsProtocol
PROPERTY ResumeReleases
PROPERTY ShutdownReleased
CHECK_DEADLOCK FALSE
