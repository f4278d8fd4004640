------------------------------- MODULE Daemon -------------------------------
(***************************************************************************)
(* The life of the mount daemon: cmd/proton-drive-fs (runMount, its         *)
(* launcher, stopPreviousDaemon, unmount), internal/state (the lock and the *)
(* status file), internal/api (the socket) and fusefs.Mount, composed with  *)
(* the session they share (Session).                                        *)
(*                                                                         *)
(* A daemon is a process with one life; a mount started again is another    *)
(* one.  One mountpoint is modelled; the mounts at it are a stack, the one  *)
(* on top first.  What a daemon serves is in the other modules, and so is   *)
(* what its flush uploads: here a flush takes as long as it takes.          *)
(*                                                                         *)
(* Time: a deadline may pass whenever what it limits has not happened.      *)
(***************************************************************************)
EXTENDS Session, Sequences

CONSTANTS
  Detached,     \* the daemons that mountDetached starts; the others run in the foreground
  MaxCrashes,   \* bound: processes that are killed, run out of memory or panic
  MaxUnmounts,  \* bound: unmounts from outside
  MaxStuck      \* bound: processes in a sleep that SIGKILL does not end

ASSUME DaemonAssumption ==
  /\ Daemons \subseteq Nat \ {0} /\ Detached \subseteq Daemons
  /\ MaxCrashes \in Nat /\ MaxUnmounts \in Nat /\ MaxStuck \in Nat

VARIABLES
  pc,        \* where runMount and fusefs.Mount stand in each daemon
  launcher,  \* what mountDetached told the user, for a daemon it started
  victim,    \* the previous daemon that stopPreviousDaemon found
  signal,    \* external: the signal sent to each process that it has not got yet
  told,      \* the daemon's context is cancelled
  publisher, \* its publishStatus: not begun, running, or ended
  api,       \* its api.Server: not begun, listening, or closed
  lock,      \* mount.lock: the process that holds it
  status,    \* status.json: the pid in it
  sock,      \* api.sock: the process that made it
  mounts,    \* external: the FUSE mounts at the mountpoint
  left,      \* daemons whose shutdown goroutine is past its Unmount
  stuck,     \* external: processes no signal ends
  budget,    \* bound: crashes and unmounts so far
  robbed,    \* history: live daemons whose mount another daemon detached
  late       \* history: daemons whose status, socket or mount one past its turn took or held

procVars == <<pc, launcher, victim, signal, told, publisher, api, left, stuck>>
fileVars == <<lock, status, sock>>
pastVars == <<budget, robbed, late>>
daemonVars == <<procVars, fileVars, mounts, pastVars>>
vars == <<daemonVars, sessionVars>>

-----------------------------------------------------------------------------
(* Places.                                                                   *)

Starting == {"starting", "finding", "stopping", "killing", "locking"}
\* Holding the lock, before signal.NotifyContext and after it.
Loading  == {"loading", "restoring"}
Opening  == {"opening", "attaching"}
\* In fusefs.Mount once the file system is attached.
Serving  == {"listening", "serving", "flushing", "unmounting", "waiting", "finishing"}
Places   == {"new", "dead", "returning", "exiting"} \cup Starting \cup Loading \cup Opening
            \cup Serving

Alive(p) == pc[p] \notin {"new", "dead"}
\* It can take a step.
Runs(p)  == Alive(p) /\ p \notin stuck
Owned    == Loading \cup Opening \cup Serving \cup {"returning"}

\* The kernel answers for the mount on top with an error once its daemon is gone.
DeadMount == mounts # <<>> /\ ~Alive(Head(mounts))

DaemonTypeOK ==
  /\ pc \in [Daemons -> Places]
  /\ launcher \in [Daemons -> {"none", "polling", "mounted", "failed"}]
  /\ victim \in [Daemons -> Daemons \cup {None}]
  /\ signal \in [Daemons -> {"none", "term", "kill"}]
  /\ told \in [Daemons -> BOOLEAN]
  /\ publisher \in [Daemons -> {"off", "ready", "on", "done"}]
  /\ api \in [Daemons -> {"off", "on", "done"}]
  /\ {lock, status, sock} \subseteq Daemons \cup {None}
  /\ mounts \in Seq(Daemons)
  /\ left \subseteq Daemons /\ stuck \subseteq Daemons
  /\ budget \in [crashes : 0 .. MaxCrashes, unmounts : 0 .. MaxUnmounts]
  /\ robbed \subseteq Daemons /\ late \subseteq Daemons

TypeOK == DaemonTypeOK /\ SessionTypeOK

Init ==
  /\ pc = [p \in Daemons |-> "new"]
  /\ launcher = [p \in Daemons |-> "none"]
  /\ victim = [p \in Daemons |-> None]
  /\ signal = [p \in Daemons |-> "none"]
  /\ told = [p \in Daemons |-> FALSE]
  /\ publisher = [p \in Daemons |-> "off"]
  /\ api = [p \in Daemons |-> "off"]
  /\ lock = None /\ status = None /\ sock = None
  /\ mounts = <<>>
  /\ left = {} /\ stuck = {}
  /\ budget = [crashes |-> 0, unmounts |-> 0]
  /\ robbed = {} /\ late = {}
  /\ SessionInit

Goto(p, where) == pc' = [pc EXCEPT ![p] = where]

\* The process p ends.  The kernel takes its lock, its memory and its goroutines with it,
\* and leaves what it had on disk, and its mount.
Ends(p) ==
  /\ Goto(p, "dead")
  /\ lock' = IF lock = p THEN None ELSE lock
  /\ publisher' = [publisher EXCEPT ![p] = "done"]
  /\ api' = [api EXCEPT ![p] = "done"]
  /\ ForgetSession(p)
  /\ UNCHANGED <<server, file, stamp, command, check, wanted>>

-----------------------------------------------------------------------------
(* mountDetached, and the start of runMount up to stopPreviousDaemon.        *)

\* A mount command, in the foreground (as the systemd unit runs it) or detached.  Both the
\* launcher and the daemon stat the mountpoint first.
Launch(p) ==
  /\ pc[p] = "new" /\ \A q \in Daemons : pc[q] = "new" => p <= q
  /\ IF DeadMount
     THEN Goto(p, "dead") /\ UNCHANGED launcher
     ELSE /\ Goto(p, "starting")
          /\ launcher' = [launcher EXCEPT ![p] = IF p \in Detached THEN "polling" ELSE "none"]
  /\ UNCHANGED <<victim, signal, told, publisher, api, left, stuck, fileVars, mounts,
                 pastVars, sessionVars>>

\* The loop of mountDetached: any mount of ours at the mountpoint will do, ...
PollSeesMount(p) ==
  /\ launcher[p] = "polling" /\ mounts # <<>>
  /\ launcher' = [launcher EXCEPT ![p] = "mounted"]
  /\ UNCHANGED <<pc, victim, signal, told, publisher, api, left, stuck, fileVars, mounts,
                 pastVars, sessionVars>>

\* ... the child's exit and the deadline end it.
PollGivesUp(p) ==
  /\ launcher[p] = "polling" /\ mounts = <<>>
  /\ launcher' = [launcher EXCEPT ![p] = "failed"]
  /\ UNCHANGED <<pc, victim, signal, told, publisher, api, left, stuck, fileVars, mounts,
                 pastVars, sessionVars>>

StatMountpoint(p) ==
  /\ pc[p] = "starting" /\ Runs(p)
  /\ IF DeadMount
     THEN Ends(p)
     ELSE Goto(p, "finding") /\ UNCHANGED <<lock, publisher, api, sessionVars>>
  /\ UNCHANGED <<launcher, victim, signal, told, left, stuck, status, sock, mounts, pastVars>>

\* stopPreviousDaemon asks the status file for a daemon.  It must be alive, and gets SIGTERM.
FindPrevious(p) ==
  /\ pc[p] = "finding" /\ Runs(p)
  /\ IF status # None /\ status # p /\ Alive(status)
     THEN /\ victim' = [victim EXCEPT ![p] = status]
          /\ signal' = [signal EXCEPT ![status] = IF @ = "kill" THEN @ ELSE "term"]
          /\ Goto(p, "stopping")
     ELSE Goto(p, "locking") /\ UNCHANGED <<victim, signal>>
  /\ UNCHANGED <<launcher, told, publisher, api, left, stuck, fileVars, mounts, pastVars,
                 sessionVars>>

\* Waits for the exit with no deadline.
WrongStopTimeout(p) ==
  /\ pc[p] \in {"stopping", "killing"} /\ Runs(p)
  /\ pc[p] = "stopping" /\ Alive(victim[p])
  /\ signal' = [signal EXCEPT ![victim[p]] = "kill"]
  /\ Goto(p, "killing")
  /\ UNCHANGED <<launcher, victim, told, publisher, api, left, stuck, fileVars, mounts, pastVars,
                 sessionVars>>

\* After five seconds SIGKILL, and after two more it goes on without.
StopTimeout(p) ==
  /\ pc[p] \in {"stopping", "killing"} /\ Runs(p)
  /\ Alive(victim[p])
  /\ IF pc[p] = "stopping"
     THEN signal' = [signal EXCEPT ![victim[p]] = "kill"] /\ Goto(p, "killing")
     ELSE Goto(p, "locking") /\ UNCHANGED signal
  /\ UNCHANGED <<launcher, victim, told, publisher, api, left, stuck, fileVars, mounts, pastVars,
                 sessionVars>>

SeesExit(p) ==
  /\ pc[p] \in {"stopping", "killing"} /\ Runs(p)
  /\ ~Alive(victim[p])
  /\ Goto(p, "locking")
  /\ UNCHANGED <<launcher, victim, signal, told, publisher, api, left, stuck, fileVars, mounts,
                 pastVars, sessionVars>>

-----------------------------------------------------------------------------
(* runMount from the lock to the mount.                                      *)

\* Somebody else's lock is no obstacle.
WrongAcquireLock(p) ==
  /\ pc[p] = "locking" /\ Runs(p)
  /\ lock' = p /\ Goto(p, "loading")
  /\ UNCHANGED <<publisher, api, sessionVars>>
  /\ UNCHANGED <<launcher, victim, signal, told, left, stuck, status, sock, mounts, pastVars>>

\* flock with LOCK_NB.  Whoever does not get it exits.
AcquireLock(p) ==
  /\ pc[p] = "locking" /\ Runs(p)
  /\ IF lock = None
     THEN lock' = p /\ Goto(p, "loading") /\ UNCHANGED <<publisher, api, sessionVars>>
     ELSE Ends(p)
  /\ UNCHANGED <<launcher, victim, signal, told, left, stuck, status, sock, mounts, pastVars>>

\* A file that is there will do.
WrongLoad(p) ==
  /\ pc[p] = "loading" /\ Runs(p)
  /\ IF file # None
     THEN /\ LoadSession(p) /\ Goto(p, "restoring")
          /\ UNCHANGED <<lock, publisher, api, server, file, stamp, saver, command, check,
                         wanted, savesLost>>
     ELSE Ends(p)
  /\ UNCHANGED <<launcher, victim, signal, told, left, stuck, status, sock, mounts, pastVars>>

\* auth.Load.  Without a terminal a mount without a session exits.
Load(p) ==
  /\ pc[p] = "loading" /\ Runs(p)
  /\ IF Loadable
     THEN /\ LoadSession(p) /\ Goto(p, "restoring")
          /\ UNCHANGED <<lock, publisher, api, server, file, stamp, saver, command, check,
                         wanted, savesLost>>
     ELSE Ends(p)
  /\ UNCHANGED <<launcher, victim, signal, told, left, stuck, status, sock, mounts, pastVars>>

\* session.Client and drive.Open: Proton must accept the tokens and answer.  drive.Open has
\* the daemon's context, and the block cache is opened with it.
Restore(p) ==
  /\ \/ pc[p] = "restoring" /\ Goto(p, "opening")
     \/ pc[p] = "opening" /\ ~told[p] /\ Goto(p, "attaching")
  /\ Runs(p) /\ Accepted(mem[p])
  /\ UNCHANGED <<launcher, victim, signal, told, publisher, api, left, stuck, fileVars, mounts,
                 pastVars, sessionVars>>

StartFails(p) ==
  /\ pc[p] \in {"restoring"} \cup Opening /\ Runs(p)
  /\ Ends(p)
  /\ UNCHANGED <<launcher, victim, signal, told, left, stuck, status, sock, mounts, pastVars>>

\* fs.Mount, which fusermount refuses over a dead mount.
Attach(p) ==
  /\ pc[p] = "attaching" /\ Runs(p) /\ ~DeadMount
  /\ mounts' = <<p>> \o mounts
  /\ Goto(p, "listening")
  /\ UNCHANGED <<launcher, victim, signal, told, publisher, api, left, stuck, fileVars, budget,
                 robbed, late, sessionVars>>

\* A socket nobody answers on any more: the process is gone, or its server closed.
Answers(q) == q # None /\ Alive(q) /\ api[q] = "on"

\* What an earlier daemon left stays.
WrongSocketFree == sock = None
\* removeStaleSocket makes way for net.Listen.
SocketFree == ~Answers(sock)

\* api.Start, and Mount's goroutines.
StartApi(p) ==
  /\ pc[p] = "listening" /\ Runs(p)
  /\ IF SocketFree
     THEN sock' = p /\ api' = [api EXCEPT ![p] = "on"] /\ UNCHANGED late
     ELSE /\ late' = IF Answers(sock) THEN late \cup {p} ELSE late
          /\ UNCHANGED <<sock, api>>
  /\ publisher' = [publisher EXCEPT ![p] = "ready"]
  /\ Goto(p, "serving")
  /\ UNCHANGED <<launcher, victim, signal, told, left, stuck, lock, status, mounts, budget,
                 robbed, sessionVars>>

-----------------------------------------------------------------------------
(* What runs beside a serving daemon.                                        *)

\* The live daemon other than p that made a file p takes.
Other(p, owner) == {q \in {owner} \ {None, p} : Alive(q)}

\* publishStatus writes the snapshot, by rename, at once and then as it changes; ...
Publish(p) ==
  /\ \/ publisher[p] = "ready"
     \/ publisher[p] = "on" /\ ~told[p]
  /\ Runs(p)
  /\ publisher' = [publisher EXCEPT ![p] = "on"]
  /\ status' = p
  /\ late' = late \cup Other(p, status)
  /\ UNCHANGED <<pc, launcher, victim, signal, told, api, left, stuck, lock, sock, mounts, budget,
                 robbed, sessionVars>>

\* ... and removes it when the context is done, whoever wrote it.
RemoveStatus(p) ==
  /\ publisher[p] = "on" /\ told[p] /\ Runs(p)
  /\ publisher' = [publisher EXCEPT ![p] = "done"]
  /\ status' = None
  /\ late' = late \cup Other(p, status)
  /\ UNCHANGED <<pc, launcher, victim, signal, told, api, left, stuck, lock, sock, mounts, budget,
                 robbed, sessionVars>>

\* Server.Close, then.
CloseApi(p) ==
  /\ api[p] = "on" /\ told[p] /\ Runs(p)
  /\ api' = [api EXCEPT ![p] = "done"]
  /\ sock' = None
  /\ late' = late \cup Other(p, sock)
  /\ UNCHANGED <<pc, launcher, victim, signal, told, publisher, left, stuck, lock, status, mounts,
                 budget, robbed, sessionVars>>

\* The event poll: Proton refuses the tokens for good, and OnAuthFailed stops the mount.
AuthFails(p) ==
  /\ pc[p] = "serving" /\ Runs(p) /\ ~Accepted(mem[p])
  /\ ~told[p] /\ told' = [told EXCEPT ![p] = TRUE]
  /\ UNCHANGED <<pc, launcher, victim, signal, publisher, api, left, stuck, fileVars, mounts,
                 pastVars, sessionVars>>

-----------------------------------------------------------------------------
(* fusefs.Mount's end, and runMount's.                                       *)

\* fusermount -u: the mount on top goes, whose ever it is.
Detach(p) ==
  /\ mounts # <<>>
  /\ mounts' = Tail(mounts)
  /\ robbed' = robbed \cup {q \in {Head(mounts)} \ {p} : pc[q] \in Serving}

BeginFlush(p) ==
  /\ pc[p] = "serving" /\ told[p] /\ Runs(p)
  /\ Goto(p, "flushing")
  /\ UNCHANGED <<launcher, victim, signal, told, publisher, api, left, stuck, fileVars, mounts,
                 pastVars, sessionVars>>

FlushDone(p) ==
  /\ pc[p] = "flushing" /\ Runs(p)
  /\ Goto(p, "unmounting")
  /\ UNCHANGED <<launcher, victim, signal, told, publisher, api, left, stuck, fileVars, mounts,
                 pastVars, sessionVars>>

\* Unmount, at once or lazily, or not at all; the server ends at once only in the first case.
Unmount(p) ==
  /\ pc[p] = "unmounting" /\ Runs(p)
  /\ \/ Detach(p) /\ \E then \in {"finishing", "waiting"} : Goto(p, then)
     \/ UNCHANGED <<mounts, robbed>> /\ Goto(p, "waiting")
  /\ left' = left \cup {p}
  /\ UNCHANGED <<launcher, victim, signal, told, publisher, api, stuck, fileVars, budget,
                 late, sessionVars>>

\* When the server ended first, the goroutine may come to its Unmount later, up to the end of
\* the process: after the lock was given back the mount on top may be the next daemon's.
LateUnmount(p) ==
  /\ pc[p] \in {"finishing", "returning", "exiting"} /\ told[p] /\ p \notin left /\ Runs(p)
  /\ mounts # <<>> /\ mounts' = Tail(mounts)
  /\ left' = left \cup {p}
  /\ late' = late \cup Other(p, Head(mounts))
  /\ UNCHANGED <<pc, launcher, victim, signal, told, publisher, api, stuck, fileVars, budget,
                 robbed, sessionVars>>

\* The lock is given back as soon as the server ended.
WrongServerUnlocks(p) ==
  /\ pc[p] \in {"serving", "flushing", "unmounting", "waiting"} /\ Runs(p)
  /\ pc[p] = "waiting" \/ \A i \in DOMAIN mounts : mounts[i] # p
  /\ lock' = None /\ Goto(p, "finishing")
  /\ UNCHANGED <<launcher, victim, signal, told, publisher, api, left, stuck, status, sock,
                 mounts, pastVars, sessionVars>>

\* Waits for the server with no deadline.
WrongServerWait(p) ==
  /\ pc[p] \in {"serving", "flushing", "unmounting", "waiting"} /\ Runs(p)
  /\ \A i \in DOMAIN mounts : mounts[i] # p
  /\ Goto(p, "finishing")
  /\ UNCHANGED <<launcher, victim, signal, told, publisher, api, left, stuck, fileVars, mounts,
                 pastVars, sessionVars>>

\* server.Wait returns because the mount is gone, or, once it was unmounted, after five
\* seconds without it.
ServerEnds(p) ==
  /\ pc[p] \in {"serving", "flushing", "unmounting", "waiting"} /\ Runs(p)
  /\ pc[p] = "waiting" \/ \A i \in DOMAIN mounts : mounts[i] # p
  /\ Goto(p, "finishing")
  /\ UNCHANGED <<launcher, victim, signal, told, publisher, api, left, stuck, fileVars, mounts,
                 pastVars, sessionVars>>

\* flushListings, and the safety net: what is still at the mountpoint is unmounted lazily.
Finish(p) ==
  /\ pc[p] = "finishing" /\ Runs(p)
  /\ Detach(p) \/ UNCHANGED <<mounts, robbed>>
  /\ Goto(p, "returning")
  /\ UNCHANGED <<launcher, victim, signal, told, publisher, api, left, stuck, fileVars, budget,
                 late, sessionVars>>

\* runMount's deferred calls: the context is cancelled, then the lock given back.
Return(p) ==
  /\ pc[p] = "returning" /\ Runs(p)
  /\ told' = [told EXCEPT ![p] = TRUE]
  /\ lock' = IF lock = p THEN None ELSE lock
  /\ Goto(p, "exiting")
  /\ UNCHANGED <<launcher, victim, signal, publisher, api, left, stuck, status, sock, mounts,
                 pastVars, sessionVars>>

Exit(p) ==
  /\ pc[p] = "exiting" /\ Runs(p)
  /\ Ends(p)
  /\ UNCHANGED <<launcher, victim, signal, told, left, stuck, status, sock, mounts, pastVars>>

-----------------------------------------------------------------------------
(* Signals, users, and what goes wrong.                                      *)

\* SIGTERM cancels the context between signal.NotifyContext and its stop, and ends the
\* process outside of that, as SIGKILL does always.
GetsSignal(p) ==
  /\ signal[p] # "none" /\ Runs(p)
  /\ signal' = [signal EXCEPT ![p] = "none"]
  /\ IF signal[p] = "term" /\ pc[p] \in Opening \cup Serving
     THEN /\ told' = [told EXCEPT ![p] = TRUE]
          /\ UNCHANGED <<pc, lock, publisher, api, sessionVars>>
     ELSE Ends(p) /\ UNCHANGED told
  /\ UNCHANGED <<launcher, victim, left, stuck, status, sock, mounts, pastVars>>

\* Ctrl-C, systemd, or Quit in the tray.
UserStops(p) ==
  /\ Alive(p) /\ signal[p] = "none" /\ ~told[p]
  /\ signal' = [signal EXCEPT ![p] = "term"]
  /\ UNCHANGED <<pc, launcher, victim, told, publisher, api, left, stuck, fileVars, mounts,
                 pastVars, sessionVars>>

\* "unmount", plain, lazy or forced: the mount on top goes, and the daemon learns of it as
\* soon as nobody uses it any more.
UserUnmounts ==
  /\ mounts # <<>> /\ budget.unmounts < MaxUnmounts
  /\ mounts' = Tail(mounts)
  /\ budget' = [budget EXCEPT !.unmounts = @ + 1]
  /\ UNCHANGED <<procVars, fileVars, robbed, late, sessionVars>>

Crash(p) ==
  /\ Runs(p) /\ budget.crashes < MaxCrashes
  /\ Ends(p)
  /\ budget' = [budget EXCEPT !.crashes = @ + 1]
  /\ UNCHANGED <<launcher, victim, signal, told, left, stuck, status, sock, mounts, robbed,
                 late>>

GetsStuck(p) ==
  /\ pc[p] \in Serving /\ p \notin stuck /\ Cardinality(stuck) < MaxStuck
  /\ stuck' = stuck \cup {p}
  /\ UNCHANGED <<pc, launcher, victim, signal, told, publisher, api, left, fileVars, mounts,
                 pastVars, sessionVars>>

\* The session's own steps.
SessionStep ==
  /\ \/ \E p \in Daemons : Runs(p) /\ (Refresh(p) \/ DaemonSaves(p))
     \/ Login \/ LoginSaves \/ Logout \/ LogoutRemoves \/ CommandKilled
     \/ CheckStat \/ CheckLoad
  /\ UNCHANGED daemonVars

-----------------------------------------------------------------------------
StartStep(p) == StatMountpoint(p) \/ FindPrevious(p) \/ StopTimeout(p) \/ SeesExit(p)
                \/ AcquireLock(p) \/ Load(p) \/ Restore(p) \/ StartFails(p) \/ Attach(p)
                \/ StartApi(p)
ServeStep(p) == Publish(p) \/ RemoveStatus(p) \/ CloseApi(p) \/ AuthFails(p) \/ LateUnmount(p)
EndStep(p)   == BeginFlush(p) \/ FlushDone(p) \/ Unmount(p) \/ ServerEnds(p) \/ Finish(p)
                \/ Return(p) \/ Exit(p)
PollStep(p)  == PollSeesMount(p) \/ PollGivesUp(p)
OutsideStep(p) == Launch(p) \/ GetsSignal(p) \/ UserStops(p) \/ Crash(p) \/ GetsStuck(p)

Next ==
  \/ \E p \in Daemons : StartStep(p) \/ ServeStep(p) \/ EndStep(p) \/ PollStep(p)
                        \/ OutsideStep(p)
  \/ UserUnmounts
  \/ SessionStep

Spec == Init /\ [][Next]_vars

\* A process that can run runs, and signals arrive.  Nothing is assumed of users, of Proton,
\* of what goes wrong, or of the goroutines beside the mount.
Fairness ==
  \A p \in Daemons : /\ WF_vars(StartStep(p)) /\ WF_vars(EndStep(p))
                      /\ WF_vars(PollStep(p)) /\ WF_vars(GetsSignal(p))

FairSpec == Spec /\ Fairness

-----------------------------------------------------------------------------
(* Properties.                                                               *)

\* A daemon between its lock and the end of fusefs.Mount holds the lock, and of the mounts
\* at the mountpoint at most one is served: no two daemons write the disk's caches at once.
\* (state.AcquireLock, and the place of lockFile.Close among runMount's deferred calls.)
Served(i) == pc[mounts[i]] \in Owned
MountsAreLocked ==
  /\ \A p \in Daemons : pc[p] \in Owned => lock = p
  /\ \A i, j \in DOMAIN mounts : Served(i) /\ Served(j) => i = j

\* No daemon in its turn detaches the mount of another one, although it unmounts by the path
\* and looks a second time after its server ended.  (fusefs.Mount's shutdown and safety net.)
NoMountRobbed == robbed = {}

\* The next mount finds a serving daemon by its status file, and the tray by its socket,
\* whatever its predecessors left behind or remove late.  (publishStatus, api.Start.)
Findable ==
  \A p \in Daemons \ late :
    (pc[p] = "serving" /\ ~told[p]) => /\ publisher[p] = "on" => status = p
                                       /\ api[p] = "on" /\ sock = p

\* Whoever is told to stop ends, unless no signal can end it: busy mounts, unmounts that
\* fail and a server that stays do not hold a shutdown up for ever.  (fusefs.Mount.)
ShutdownEnds ==
  \A p \in Daemons : (Alive(p) /\ told[p]) ~> (~Alive(p) \/ p \in stuck)

\* Every mount command comes to serve or to an end, even behind a daemon that nothing ends,
\* and its launcher to an answer.  (stopPreviousDaemon, AcquireLock, mountDetached.)
MountDecides ==
  \A p \in Daemons :
    /\ pc[p] \in Starting ~> (pc[p] \in Serving \/ ~Alive(p))
    /\ launcher[p] = "polling" ~> launcher[p] # "polling"

\* Daemons take turns (SingleInstance), with a turn from the lock to the end of
\* fusefs.Mount, whatever crashes, is stopped late or is unmounted from outside.
Turn  == {p \in Daemons : pc[p] \in Owned}
Front == {p \in Turn : mounts # <<>> /\ Head(mounts) = p}
Over  == {p \in Daemons : pc[p] \in {"exiting", "dead"}}
The(S) == IF S = {} THEN None ELSE CHOOSE p \in S : TRUE
Single == INSTANCE SingleInstance WITH
            Processes <- Daemons, serving <- The(Turn), shown <- The(Front), ended <- Over
TakeTurns == Single!Spec
=============================================================================
