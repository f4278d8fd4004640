\* Two mount commands, the second detached, with every fault: who is told to stop ends, and
\* who starts comes to an end of it.
CONSTANTS
  None = None
  Torn = Torn
  Command = Command
  Daemons = {1, 2}
  Detached = {2}
  MaxLogins = 1
  MaxRefreshes = 0
  MaxCrashes = 1
  MaxUnmounts = 1
  MaxStuck = 1
SPECIFICATION FairSpec
PROPERTY ShutdownEnds
 
CONSTRAINT Quiet
CHECK_DEADLOCK FALSE
