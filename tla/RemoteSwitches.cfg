SPECIFICATION Spec
CONSTANTS
  Users = {}
  NoUser = nobody
  AckTimeout = 1
  ConsentTimeout = 1
  MaxSession = 1
  IdleTimeout = 1
  Sessions = {s1}
  Callers = {c1, c2}
  Timers = {t1}
  Explored = {}
  Features = {"frame", "input", "recording", "audio", "quality", "lost"}
  Qualities = {"min", "medium"}
  DefaultQuality = "medium"
  ClaimTtl = 1
  MaxQueue = 1
  MaxRestarts = 1
INVARIANTS
  TypeOK
  
  ControlHonest
CHECK_DEADLOCK FALSE
SYMMETRY CallersAlike
