SPECIFICATION FairSpec
CONSTANTS
  Users = {u1}
  NoUser = nobody
  AckTimeout = 1
  ConsentTimeout = 1
  MaxSession = 2
  IdleTimeout = 1
  Sessions = {s1}
  Callers = {c1}
  Timers = {t1}
  Explored = {"verdicts", "verdict"}
  Features = {"frame"}
  Qualities = {"min", "medium"}
  DefaultQuality = "medium"
  ClaimTtl = 1
  MaxQueue = 1
  MaxRestarts = 1
INVARIANTS
  GateSound
  
  NothingOutlivesSession
PROPERTIES
  KeepsContract
  EverySessionCloses
CHECK_DEADLOCK FALSE
