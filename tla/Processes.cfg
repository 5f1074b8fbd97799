SPECIFICATION FairSpec
CONSTANTS
  Daemons = {d1, d2}
  Crons = {c}
  Calls = {s1, s2}
  s = s
  Servers = {s}
  ServerOf <- MCServerOf
  MaxTally = 1
  NoOne = NoOne
INVARIANTS OnePoller OneSync
PROPERTIES ExitsForCause ShutdownTerminates KeepsTicking
