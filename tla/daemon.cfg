\* Three mount commands with a crash, an unmount from outside or a process nothing ends, and
\* two with a login, a logout, refreshes and the tray's check.
CONSTANTS
  None = None
  Torn = Torn
  Command = Command
  Daemons = {1, 2, 3}
  Detached = {}
  MaxLogins = 2
  MaxRefreshes = 1
  MaxCrashes = 1
  MaxUnmounts = 1
  MaxStuck = 1
SPECIFICATION Spec
INVARIANT TypeOK
INVARIANT MountsAreLocked
INVARIANT NoMountRobbed
INVARIANT Findable
INVARIANT SessionRestorable
INVARIANT LoggedInCurrent
PROPERTY TakeTurns
CONSTRAINT DaemonBound
VIEW DaemonView
CHECK_DEADLOCK FALSE
