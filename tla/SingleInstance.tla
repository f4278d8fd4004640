--------------------------- MODULE SingleInstance ---------------------------
(***************************************************************************)
(* What the lock of internal/state and the order of a daemon's shutdown are *)
(* there for: processes that serve a mountpoint take turns.  A process has  *)
(* one turn at most, and the mountpoint shows its file system during that    *)
(* turn only.                                                               *)
(***************************************************************************)
CONSTANTS Processes, None

VARIABLES
  serving,  \* whose turn it is
  shown,    \* whose file system answers at the mountpoint
  ended     \* processes whose turn is over, or that went without one

vars == <<serving, shown, ended>>

Init == serving = None /\ shown = None /\ ended = {}

Begin(p) ==
  /\ serving = None /\ p \notin ended
  /\ serving' = p
  /\ UNCHANGED <<shown, ended>>

Show ==
  /\ serving # None /\ shown = None
  /\ shown' = serving
  /\ UNCHANGED <<serving, ended>>

Hide ==
  /\ shown' = None
  /\ UNCHANGED <<serving, ended>>

\* A turn ends, by its own end or by a crash, and with it the answers.
End ==
  /\ serving # None
  /\ ended' = ended \cup {serving}
  /\ serving' = None /\ shown' = None

\* A process that finds another one's turn, or fails before its own, goes without.
Leave(p) ==
  /\ p # serving
  /\ ended' = ended \cup {p}
  /\ UNCHANGED <<serving, shown>>

Next == (\E p \in Processes : Begin(p) \/ Leave(p)) \/ Show \/ Hide \/ End

Spec == Init /\ [][Next]_vars
=============================================================================
