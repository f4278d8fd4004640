------------------------------ MODULE MCDaemon ------------------------------
(***************************************************************************)
(* Instances of Daemon for TLC.                                             *)
(***************************************************************************)
EXTENDS Daemon, TLC

Faults == budget.crashes + budget.unmounts + Cardinality(stuck)

\* Nothing happened to the session.
SessionQuiet == /\ stamp = 0 /\ savesLost = {} /\ command = "idle"
                /\ check.pc = "idle" /\ ~check.checked
                /\ \A p \in Daemons : ~Saving(p)

Unchecked == check.pc = "idle" /\ ~check.checked

\* Mount commands alone: the search does not go on past a late removal, which the
\* properties except, and has three faults with two daemons, two with a third that comes after
\* one of them died, and none with three at once.
ThirdFaults == IF "dead" \in {pc[1], pc[2]} THEN 2 ELSE 0
Quiet == SessionQuiet /\ late = {} /\ (3 \in Daemons /\ pc[3] # "new" => Faults <= ThirdFaults)

\* The session's own steps, beside a daemon that serves, or beside a second one that does
\* not come to serve; ...
Sessions ==
  /\ Unchecked /\ Faults = 0 /\ savesLost = {} /\ pc[3] = "new"
  /\ \/ pc[2] = "new" /\ signal[1] = "none" /\ pc[1] # "waiting"
     \/ /\ pc[1] = "dead" /\ pc[2] \in {"new", "dead"} \cup Starting \cup Loading \cup Opening
        /\ signal[2] = "none" /\ ~told[2] /\ launcher[2] # "mounted"

\* ... and with the tray's check.
Checks == pc[1] \in {"new", "restoring"} /\ pc[2] = "new" /\ Faults = 0

DaemonBound == Quiet \/ Sessions \/ Checks

\* What a dead process, or one that is past the use of it, had in its memory tells no two
\* states apart.
Live(what, p, over) == IF pc[p] \in over \cup {"new", "dead"} THEN None ELSE what[p]
DaemonView == <<[p \in Daemons |-> <<pc[p], Live(victim, p, Places \ Starting),
                   Live(signal, p, {}), Live(told, p, {"exiting"}),
                   Live(publisher, p, {}), Live(api, p, {}), mem[p],
                   Alive(p) /\ p \in left>>],
                launcher, stuck \cap {p \in Daemons : Alive(p)},
                status, sock, lock, mounts, budget, robbed, late, sessionVars, Faults>>
=============================================================================
