---------------------------- MODULE DaemonProofs ----------------------------
(***************************************************************************)
(* Proofs about Daemon for any number of mount commands, logins, refreshes, *)
(* crashes, unmounts and stuck processes: the daemons that serve hold the   *)
(* lock, none detaches another's mount, each is found by its status file    *)
(* and socket, and daemons take turns as SingleInstance says.               *)
(* Then about the session file they share with login, logout and the tray.  *)
(***************************************************************************)
EXTENDS Daemon, SequenceTheorems, TLAPS

(***************************************************************************)
(* The places in the words the prover needs.                                *)
(***************************************************************************)

USE DEF Starting, Loading, Opening, Serving

LEMMA DaemonIsNotNone == \A p \in Daemons : p # None
BY SessionAssumption, DaemonAssumption

(***************************************************************************)
(* The lock and the mounts.  A daemon has its mount from the end of         *)
(* "attaching" on; the lock is held exactly for its turn.                   *)
(***************************************************************************)

Mounted == Serving \cup {"returning", "exiting", "dead"}

Inside    == /\ pc \in [Daemons -> Places] /\ mounts \in Seq(Daemons)
             /\ lock \in Daemons \cup {None}
LockIsTurn  == \A p \in Daemons : pc[p] \in Owned <=> lock = p
MountedOnce == \A i, j \in DOMAIN mounts : mounts[i] = mounts[j] => i = j
MountsHad   == \A i \in DOMAIN mounts : pc[mounts[i]] \in Mounted

LockInv == Inside /\ LockIsTurn /\ MountedOnce /\ MountsHad /\ NoMountRobbed

LEMMA LockInit == Init => LockInv
BY DaemonIsNotNone DEF Init, LockInv, Inside, LockIsTurn, MountedOnce, MountsHad, NoMountRobbed,
   Owned, Places

\* A mount below the one on top.
LEMMA BelowTheTop ==
  ASSUME Inside, mounts # <<>>
  PROVE  /\ Head(mounts) \in Daemons /\ Tail(mounts) \in Seq(Daemons)
         /\ \A i \in DOMAIN Tail(mounts) :
              i + 1 \in DOMAIN mounts /\ Tail(mounts)[i] = mounts[i + 1]
         /\ Head(mounts) = mounts[1] /\ 1 \in DOMAIN mounts
         /\ DOMAIN mounts \subseteq Nat /\ DOMAIN Tail(mounts) \subseteq Nat
BY DEF Inside

LEMMA TopGoes ==
  ASSUME LockInv, mounts # <<>>, mounts' = Tail(mounts), NEW pcs \in [Daemons -> Places],
         \A p \in Daemons : pc[p] \in Mounted => pcs[p] \in Mounted
  PROVE  /\ mounts' \in Seq(Daemons) /\ MountedOnce'
         /\ \A i \in DOMAIN mounts' : pcs[mounts'[i]] \in Mounted
<1>1. \A i \in DOMAIN mounts' : /\ i \in Nat /\ i + 1 \in DOMAIN mounts
                                /\ mounts'[i] = mounts[i + 1] /\ mounts[i + 1] \in Daemons
  BY BelowTheTop DEF LockInv, Inside
<1>2. MountedOnce'
  BY <1>1 DEF LockInv, MountedOnce
<1> QED
  BY <1>1, <1>2, BelowTheTop DEF LockInv, MountsHad

\* A daemon that moves on within its turn, or outside of it, and may lose what is on top.
LEMMA Moves ==
  ASSUME LockInv, NEW p \in Daemons, NEW where \in Places, Goto(p, where),
         pc[p] \in Owned <=> where \in Owned,
         pc[p] \in Mounted => where \in Mounted,
         lock' = lock, robbed' = robbed,
         mounts' = mounts \/ (mounts # <<>> /\ mounts' = Tail(mounts))
  PROVE  LockInv'
<1>1. pc' \in [Daemons -> Places] /\ \A q \in Daemons : pc'[q] = IF q = p THEN where ELSE pc[q]
  BY DEF LockInv, Inside, Goto
<1>2. \A q \in Daemons : pc[q] \in Mounted => pc'[q] \in Mounted
  BY <1>1
<1>3. LockIsTurn'
  BY <1>1 DEF LockInv, LockIsTurn
<1>4. NoMountRobbed'
  BY DEF LockInv, NoMountRobbed
<1>5. CASE mounts' = mounts
  <2>1. MountsHad' /\ MountedOnce'
    BY <1>2, <1>5 DEF LockInv, Inside, MountsHad, MountedOnce
  <2> QED
    BY <1>1, <1>3, <1>4, <1>5, <2>1 DEF LockInv, Inside
<1>6. CASE mounts # <<>> /\ mounts' = Tail(mounts)
  <2>1. mounts' \in Seq(Daemons) /\ MountedOnce' /\ MountsHad'
    BY <1>1, <1>2, <1>6, TopGoes DEF MountsHad
  <2> QED
    BY <1>1, <1>3, <1>4, <2>1 DEF LockInv, Inside
<1> QED
  BY <1>5, <1>6

\* Nobody moves, and the mount on top may go.
LEMMA Rests ==
  ASSUME LockInv, UNCHANGED <<pc, lock, robbed>>,
         mounts' = mounts \/ (mounts # <<>> /\ mounts' = Tail(mounts))
  PROVE  LockInv'
<1>1. CASE mounts' = mounts
  BY <1>1 DEF LockInv, Inside, LockIsTurn, MountedOnce, MountsHad, NoMountRobbed
<1>2. CASE mounts # <<>> /\ mounts' = Tail(mounts)
  <2>1. mounts' \in Seq(Daemons) /\ MountedOnce' /\ MountsHad'
    BY <1>2, TopGoes DEF MountsHad, LockInv, Inside
  <2> QED
    BY <2>1 DEF LockInv, Inside, LockIsTurn, NoMountRobbed
<1> QED
  BY <1>1, <1>2

\* A process that ends takes its lock with it and leaves its mount.
LEMMA EndsKeepsLock ==
  ASSUME LockInv, NEW p \in Daemons, Ends(p), mounts' = mounts, robbed' = robbed
  PROVE  LockInv'
<1>1. pc' \in [Daemons -> Places] /\ \A q \in Daemons : pc'[q] = IF q = p THEN "dead" ELSE pc[q]
  BY DEF LockInv, Inside, Ends, Goto, Places
<1>2. lock' = IF lock = p THEN None ELSE lock
  BY DEF Ends
<1>3. LockIsTurn'
  BY <1>1, <1>2, DaemonIsNotNone DEF LockInv, LockIsTurn, Owned
<1>4. MountsHad' /\ MountedOnce'
  BY <1>1 DEF LockInv, Inside, MountsHad, MountedOnce, Mounted
<1> QED
  BY <1>1, <1>2, <1>3, <1>4 DEF LockInv, Inside, NoMountRobbed

\* The mount that a daemon detaches in its turn is its own, or that of a daemon past its turn.
LEMMA DetachKeepsRobbed ==
  ASSUME LockInv, NEW p \in Daemons, pc[p] \in Owned, Detach(p)
  PROVE  robbed' = robbed /\ mounts # <<>> /\ mounts' = Tail(mounts)
<1>1. Head(mounts) \in Daemons
  BY BelowTheTop DEF Detach, LockInv
<1>2. pc[Head(mounts)] \in Serving => Head(mounts) = p
  BY <1>1 DEF LockInv, LockIsTurn, Owned
<1> QED
  BY <1>2 DEF Detach

LEMMA AttachKeepsLock ==
  ASSUME LockInv, NEW p \in Daemons, Attach(p)
  PROVE  LockInv'
<1>1. pc' \in [Daemons -> Places]
      /\ \A q \in Daemons : pc'[q] = IF q = p THEN "listening" ELSE pc[q]
  BY DEF LockInv, Inside, Attach, Goto, Places
<1>2. mounts \in Seq(Daemons) /\ mounts' = <<p>> \o mounts
  BY DEF LockInv, Inside, Attach
<1>3. /\ mounts' \in Seq(Daemons) /\ DOMAIN mounts' = 1 .. Len(mounts) + 1
      /\ mounts'[1] = p /\ \A i \in DOMAIN mounts' : i # 1 => mounts'[i] = mounts[i - 1]
  BY <1>2
<1>4. \A i \in DOMAIN mounts : mounts[i] # p
  BY DEF LockInv, MountsHad, Attach, Mounted
<1>5. \A i \in DOMAIN mounts' : i # 1 => i - 1 \in DOMAIN mounts
  BY <1>2, <1>3
<1>6. MountedOnce'
  BY <1>3, <1>4, <1>5 DEF LockInv, MountedOnce
<1>7. MountsHad'
  <2> SUFFICES ASSUME NEW i \in DOMAIN mounts' PROVE pc'[mounts'[i]] \in Mounted
    BY DEF MountsHad
  <2>1. CASE i = 1
    BY <1>1, <1>3, <2>1 DEF Mounted
  <2>2. CASE i # 1
    BY <1>1, <1>2, <1>3, <1>4, <1>5, <2>2 DEF LockInv, MountsHad
  <2> QED
    BY <2>1, <2>2
<1>8. LockIsTurn'
  BY <1>1 DEF LockInv, LockIsTurn, Attach, fileVars, Owned
<1> QED
  BY <1>1, <1>3, <1>6, <1>7, <1>8 DEF LockInv, Inside, NoMountRobbed, Attach, fileVars

LEMMA StartKeepsLock ==
  ASSUME LockInv, NEW p \in Daemons, StartStep(p)
  PROVE  LockInv'
<1>1. CASE StatMountpoint(p)
  <2>1. CASE DeadMount
    BY <1>1, <2>1, EndsKeepsLock DEF StatMountpoint, pastVars
  <2>2. CASE ~DeadMount
    BY <1>1, <2>2, Moves DEF StatMountpoint, pastVars, Places, Owned, Mounted
  <2> QED
    BY <2>1, <2>2
<1>2. CASE FindPrevious(p)
  BY <1>2, Moves DEF FindPrevious, pastVars, fileVars, Places, Owned, Mounted
<1>3. CASE StopTimeout(p)
  BY <1>3, Moves DEF StopTimeout, pastVars, fileVars, Places, Owned, Mounted
<1>4. CASE SeesExit(p)
  BY <1>4, Moves DEF SeesExit, pastVars, fileVars, Places, Owned, Mounted
<1>5. CASE AcquireLock(p)
  <2>1. CASE lock = None
    <3>1. pc' \in [Daemons -> Places]
          /\ \A q \in Daemons : pc'[q] = IF q = p THEN "loading" ELSE pc[q]
      BY <1>5, <2>1 DEF LockInv, Inside, AcquireLock, Goto, Places
    <3>2. LockIsTurn'
      BY <1>5, <2>1, <3>1, DaemonIsNotNone DEF LockInv, LockIsTurn, AcquireLock, Owned
    <3>3. MountsHad' /\ MountedOnce'
      BY <1>5, <2>1, <3>1 DEF LockInv, Inside, MountsHad, MountedOnce, AcquireLock, Mounted
    <3> QED
      BY <1>5, <2>1, <3>1, <3>2, <3>3 DEF LockInv, Inside, NoMountRobbed, AcquireLock, pastVars
  <2>2. CASE lock # None
    BY <1>5, <2>2, EndsKeepsLock DEF AcquireLock, pastVars
  <2> QED
    BY <2>1, <2>2
<1>6. CASE Load(p)
  <2>1. CASE Loadable
    BY <1>6, <2>1, Moves DEF Load, pastVars, Places, Owned, Mounted
  <2>2. CASE ~Loadable
    BY <1>6, <2>2, EndsKeepsLock DEF Load, pastVars
  <2> QED
    BY <2>1, <2>2
<1>7. CASE Restore(p)
  BY <1>7, Moves DEF Restore, pastVars, fileVars, Places, Owned, Mounted
<1>8. CASE StartFails(p)
  BY <1>8, EndsKeepsLock DEF StartFails, pastVars
<1>9. CASE Attach(p)
  BY <1>9, AttachKeepsLock
<1>10. CASE StartApi(p)
  BY <1>10, Moves DEF StartApi, Places, Owned, Mounted
<1> QED
  BY <1>1, <1>2, <1>3, <1>4, <1>5, <1>6, <1>7, <1>8, <1>9, <1>10 DEF StartStep

LEMMA ServeKeepsLock ==
  ASSUME LockInv, NEW p \in Daemons, ServeStep(p) \/ PollStep(p)
  PROVE  LockInv'
BY Rests DEF ServeStep, PollStep, Publish, RemoveStatus, CloseApi, AuthFails, LateUnmount,
   PollSeesMount, PollGivesUp, pastVars, fileVars

LEMMA EndKeepsLock ==
  ASSUME LockInv, NEW p \in Daemons, EndStep(p)
  PROVE  LockInv'
<1>1. CASE BeginFlush(p)
  BY <1>1, Moves DEF BeginFlush, pastVars, fileVars, Places, Owned, Mounted
<1>2. CASE FlushDone(p)
  BY <1>2, Moves DEF FlushDone, pastVars, fileVars, Places, Owned, Mounted
<1>3. CASE Unmount(p)
  <2>1. PICK then \in {"finishing", "waiting"} : Goto(p, then)
    BY <1>3 DEF Unmount
  <2>2. robbed' = robbed /\ (mounts' = mounts \/ (mounts # <<>> /\ mounts' = Tail(mounts)))
    BY <1>3, DetachKeepsRobbed DEF Unmount, Owned
  <2>3. pc[p] = "unmounting" /\ lock' = lock
    BY <1>3 DEF Unmount, fileVars
  <2> QED
    BY <2>1, <2>2, <2>3, Moves DEF Places, Owned, Mounted
<1>4. CASE ServerEnds(p)
  BY <1>4, Moves DEF ServerEnds, pastVars, fileVars, Places, Owned, Mounted
<1>5. CASE Finish(p)
  <2>1. robbed' = robbed /\ (mounts' = mounts \/ (mounts # <<>> /\ mounts' = Tail(mounts)))
    BY <1>5, DetachKeepsRobbed DEF Finish, Owned
  <2>2. pc[p] = "finishing" /\ Goto(p, "returning") /\ lock' = lock
    BY <1>5 DEF Finish, fileVars
  <2> QED
    BY <2>1, <2>2, Moves DEF Places, Owned, Mounted
<1>6. CASE Return(p)
  <2>1. pc' \in [Daemons -> Places]
        /\ \A q \in Daemons : pc'[q] = IF q = p THEN "exiting" ELSE pc[q]
    BY <1>6 DEF LockInv, Inside, Return, Goto, Places
  <2>2. LockIsTurn'
    BY <1>6, <2>1, DaemonIsNotNone DEF LockInv, LockIsTurn, Return, Owned
  <2>3. MountsHad' /\ MountedOnce'
    BY <1>6, <2>1 DEF LockInv, Inside, MountsHad, MountedOnce, Return, Mounted
  <2> QED
    BY <1>6, <2>1, <2>2, <2>3 DEF LockInv, Inside, NoMountRobbed, Return, pastVars
<1>7. CASE Exit(p)
  BY <1>7, EndsKeepsLock DEF Exit, pastVars
<1> QED
  BY <1>1, <1>2, <1>3, <1>4, <1>5, <1>6, <1>7 DEF EndStep

LEMMA OutsideKeepsLock ==
  ASSUME LockInv, NEW p \in Daemons, OutsideStep(p)
  PROVE  LockInv'
<1>1. CASE Launch(p)
  BY <1>1, Moves DEF Launch, pastVars, fileVars, Places, Owned, Mounted
<1>2. CASE GetsSignal(p)
  <2>1. CASE signal[p] = "term" /\ pc[p] \in Opening \cup Serving
    BY <1>2, <2>1, Rests DEF GetsSignal, pastVars
  <2>2. CASE ~(signal[p] = "term" /\ pc[p] \in Opening \cup Serving)
    <3>1. Ends(p)
      BY <1>2, <2>2 DEF GetsSignal
    <3> QED
      BY <1>2, <3>1, EndsKeepsLock DEF GetsSignal, pastVars
  <2> QED
    BY <2>1, <2>2
<1>3. CASE UserStops(p)
  BY <1>3, Rests DEF UserStops, pastVars, fileVars
<1>4. CASE Crash(p)
  BY <1>4, EndsKeepsLock DEF Crash
<1>5. CASE GetsStuck(p)
  BY <1>5, Rests DEF GetsStuck, pastVars, fileVars
<1> QED
  BY <1>1, <1>2, <1>3, <1>4, <1>5 DEF OutsideStep

LEMMA LockStep == LockInv /\ [Next]_vars => LockInv'
<1> SUFFICES ASSUME LockInv, [Next]_vars PROVE LockInv'
  OBVIOUS
<1>1. CASE \E p \in Daemons : StartStep(p) \/ ServeStep(p) \/ EndStep(p) \/ PollStep(p)
                              \/ OutsideStep(p)
  BY <1>1, StartKeepsLock, ServeKeepsLock, EndKeepsLock, OutsideKeepsLock
<1>2. CASE UserUnmounts
  BY <1>2, Rests DEF UserUnmounts, procVars, fileVars
<1>3. CASE SessionStep
  BY <1>3, Rests DEF SessionStep, daemonVars, procVars, fileVars, pastVars
<1>4. CASE UNCHANGED vars
  BY <1>4, Rests DEF vars, daemonVars, procVars, fileVars, pastVars
<1> QED
  BY <1>1, <1>2, <1>3, <1>4 DEF Next

LEMMA LockAlways == Spec => []LockInv
<1> QED
  BY LockInit, LockStep, PTL DEF Spec

\* A daemon between its lock and the end of fusefs.Mount holds the lock, and at most one
\* mount is served, whatever is started, killed, stuck or unmounted from outside.
THEOREM ServersHoldTheLock == Spec => []MountsAreLocked
<1>1. LockInv => MountsAreLocked
  BY DEF LockInv, Inside, LockIsTurn, MountedOnce, MountsAreLocked, Served
<1> QED
  BY <1>1, LockAlways, PTL

\* No daemon detaches the mount of another one.
THEOREM NobodyRobbed == Spec => []NoMountRobbed
<1>1. LockInv => NoMountRobbed
  BY DEF LockInv
<1> QED
  BY <1>1, LockAlways, PTL

(***************************************************************************)
(* The status file and the socket.  A publisher and a server run from       *)
(* StartApi to the end of the process; a file that does not name its daemon *)
(* any more was taken by one on its way out, which "late" remembers.        *)
(***************************************************************************)

Running == {"serving", "flushing", "unmounting", "waiting", "finishing", "returning", "exiting"}

FoundTypes == /\ pc \in [Daemons -> Places] /\ told \in [Daemons -> BOOLEAN]
              /\ publisher \in [Daemons -> {"off", "ready", "on", "done"}]
              /\ api \in [Daemons -> {"off", "on", "done"}]
BesideMount == \A p \in Daemons :
                 publisher[p] \in {"ready", "on"} \/ api[p] = "on" => pc[p] \in Running
StatusShown == \A p \in Daemons \ late : publisher[p] = "on" => status = p
SocketShown == \A p \in Daemons \ late : api[p] = "on" => sock = p
ApiServes   == \A p \in Daemons \ late : pc[p] = "serving" /\ ~told[p] => api[p] = "on"

FoundInv == FoundTypes /\ BesideMount /\ StatusShown /\ SocketShown /\ ApiServes

LEMMA FoundInit == Init => FoundInv
BY DEF Init, FoundInv, FoundTypes, BesideMount, StatusShown, SocketShown, ApiServes, Places

\* A daemon that moves on and leaves what runs beside it alone.
LEMMA FoundMoves ==
  ASSUME FoundInv, NEW p \in Daemons, NEW where \in Places, Goto(p, where),
         where # "serving", pc[p] \in Running => where \in Running,
         told' = told \/ \E q \in Daemons : told' = [told EXCEPT ![q] = TRUE],
         UNCHANGED <<publisher, api, status, sock, late>>
  PROVE  FoundInv'
<1>1. pc' \in [Daemons -> Places] /\ \A q \in Daemons : pc'[q] = IF q = p THEN where ELSE pc[q]
  BY DEF FoundInv, FoundTypes, Goto
<1>2. told' \in [Daemons -> BOOLEAN] /\ \A q \in Daemons : told[q] => told'[q]
  BY DEF FoundInv, FoundTypes
<1> QED
  BY <1>1, <1>2 DEF FoundInv, FoundTypes, BesideMount, StatusShown, SocketShown, ApiServes

\* Nobody moves, and a daemon may be told to stop.
LEMMA FoundRests ==
  ASSUME FoundInv,
         told' = told \/ \E q \in Daemons : told' = [told EXCEPT ![q] = TRUE],
         UNCHANGED <<pc, publisher, api, status, sock, late>>
  PROVE  FoundInv'
<1>1. told' \in [Daemons -> BOOLEAN] /\ \A q \in Daemons : told[q] => told'[q]
  BY DEF FoundInv, FoundTypes
<1> QED
  BY <1>1 DEF FoundInv, FoundTypes, BesideMount, StatusShown, SocketShown, ApiServes

LEMMA EndsKeepsFound ==
  ASSUME FoundInv, NEW p \in Daemons, Ends(p), UNCHANGED <<told, status, sock, late>>
  PROVE  FoundInv'
<1>1. pc' \in [Daemons -> Places] /\ \A q \in Daemons : pc'[q] = IF q = p THEN "dead" ELSE pc[q]
  BY DEF FoundInv, FoundTypes, Ends, Goto, Places
<1>2. /\ publisher' \in [Daemons -> {"off", "ready", "on", "done"}]
      /\ \A q \in Daemons : publisher'[q] = IF q = p THEN "done" ELSE publisher[q]
      /\ api' \in [Daemons -> {"off", "on", "done"}]
      /\ \A q \in Daemons : api'[q] = IF q = p THEN "done" ELSE api[q]
  BY DEF FoundInv, FoundTypes, Ends
<1> QED
  BY <1>1, <1>2 DEF FoundInv, FoundTypes, BesideMount, StatusShown, SocketShown, ApiServes

LEMMA StartApiKeepsFound ==
  ASSUME FoundInv, NEW p \in Daemons, StartApi(p)
  PROVE  FoundInv'
<1>1. pc' \in [Daemons -> Places]
      /\ \A q \in Daemons : pc'[q] = IF q = p THEN "serving" ELSE pc[q]
  BY DEF FoundInv, FoundTypes, StartApi, Goto, Places
<1>2. /\ publisher' \in [Daemons -> {"off", "ready", "on", "done"}]
      /\ \A q \in Daemons : publisher'[q] = IF q = p THEN "ready" ELSE publisher[q]
      /\ pc[p] = "listening" /\ told' = told /\ status' = status
  BY DEF FoundInv, FoundTypes, StartApi
<1>3. CASE SocketFree
  <2>1. /\ api' \in [Daemons -> {"off", "on", "done"}]
        /\ \A q \in Daemons : api'[q] = IF q = p THEN "on" ELSE api[q]
        /\ sock' = p /\ late' = late
    BY <1>3 DEF FoundInv, FoundTypes, StartApi
  <2>2. \A q \in Daemons \ late : api[q] = "on" => q = p
    BY <1>3, DaemonIsNotNone
       DEF FoundInv, BesideMount, SocketShown, SocketFree, Answers, Alive, Running
  <2> QED
    BY <1>1, <1>2, <2>1, <2>2
       DEF FoundInv, FoundTypes, BesideMount, StatusShown, SocketShown, ApiServes, Running
<1>4. CASE ~SocketFree
  <2>1. api' = api /\ sock' = sock /\ late' = late \cup {p}
    BY <1>4 DEF StartApi, SocketFree
  <2> QED
    BY <1>1, <1>2, <2>1
       DEF FoundInv, FoundTypes, BesideMount, StatusShown, SocketShown, ApiServes, Running
<1> QED
  BY <1>3, <1>4

\* Who else has the file keeps it, or is remembered.
LEMMA OthersRemembered ==
  ASSUME FoundInv, NEW p \in Daemons, NEW q \in Daemons, q # p
  PROVE  /\ (publisher[q] = "on" /\ q \notin late \cup Other(p, status)) => FALSE
         /\ (api[q] = "on" /\ q \notin late \cup Other(p, sock)) => FALSE
BY DaemonIsNotNone DEF FoundInv, BesideMount, StatusShown, SocketShown, Other, Alive, Running

LEMMA ServeKeepsFound ==
  ASSUME FoundInv, NEW p \in Daemons, ServeStep(p) \/ PollStep(p)
  PROVE  FoundInv'
<1>1. CASE Publish(p)
  <2>1. /\ publisher' \in [Daemons -> {"off", "ready", "on", "done"}]
        /\ \A q \in Daemons : publisher'[q] = IF q = p THEN "on" ELSE publisher[q]
        /\ publisher[p] \in {"ready", "on"} /\ status' = p
        /\ late' = late \cup Other(p, status)
        /\ UNCHANGED <<pc, told, api, sock>>
    BY <1>1 DEF FoundInv, FoundTypes, Publish
  <2> QED
    BY <2>1, OthersRemembered
       DEF FoundInv, FoundTypes, BesideMount, StatusShown, SocketShown, ApiServes
<1>2. CASE RemoveStatus(p)
  <2>1. /\ publisher' \in [Daemons -> {"off", "ready", "on", "done"}]
        /\ \A q \in Daemons : publisher'[q] = IF q = p THEN "done" ELSE publisher[q]
        /\ late' = late \cup Other(p, status)
        /\ UNCHANGED <<pc, told, api, sock>>
    BY <1>2 DEF FoundInv, FoundTypes, RemoveStatus
  <2> QED
    BY <2>1, OthersRemembered
       DEF FoundInv, FoundTypes, BesideMount, StatusShown, SocketShown, ApiServes
<1>3. CASE CloseApi(p)
  <2>1. /\ api' \in [Daemons -> {"off", "on", "done"}]
        /\ \A q \in Daemons : api'[q] = IF q = p THEN "done" ELSE api[q]
        /\ told[p] /\ late' = late \cup Other(p, sock)
        /\ UNCHANGED <<pc, told, publisher, status>>
    BY <1>3 DEF FoundInv, FoundTypes, CloseApi
  <2> QED
    BY <2>1, OthersRemembered
       DEF FoundInv, FoundTypes, BesideMount, StatusShown, SocketShown, ApiServes
<1>4. CASE AuthFails(p)
  BY <1>4, FoundRests DEF AuthFails, fileVars, pastVars
<1>5. CASE PollStep(p)
  BY <1>5, FoundRests DEF PollStep, PollSeesMount, PollGivesUp, fileVars, pastVars
<1>6. CASE LateUnmount(p)
  <2>1. /\ UNCHANGED <<pc, told, publisher, api, status, sock>>
        /\ late' = late \cup Other(p, Head(mounts))
    BY <1>6 DEF LateUnmount, fileVars
  <2> QED
    BY <2>1 DEF FoundInv, FoundTypes, BesideMount, StatusShown, SocketShown, ApiServes
<1> QED
  BY <1>1, <1>2, <1>3, <1>4, <1>5, <1>6 DEF ServeStep

LEMMA StartKeepsFound ==
  ASSUME FoundInv, NEW p \in Daemons, StartStep(p)
  PROVE  FoundInv'
<1>1. CASE StatMountpoint(p)
  <2>1. CASE DeadMount
    BY <1>1, <2>1, EndsKeepsFound DEF StatMountpoint, pastVars
  <2>2. CASE ~DeadMount
    BY <1>1, <2>2, FoundMoves DEF StatMountpoint, pastVars, Places, Running
  <2> QED
    BY <2>1, <2>2
<1>2. CASE FindPrevious(p)
  BY <1>2, FoundMoves DEF FindPrevious, pastVars, fileVars, Places, Running
<1>3. CASE StopTimeout(p)
  BY <1>3, FoundMoves DEF StopTimeout, pastVars, fileVars, Places, Running
<1>4. CASE SeesExit(p)
  BY <1>4, FoundMoves DEF SeesExit, pastVars, fileVars, Places, Running
<1>5. CASE AcquireLock(p)
  <2>1. CASE lock = None
    BY <1>5, <2>1, FoundMoves DEF AcquireLock, pastVars, Places, Running
  <2>2. CASE lock # None
    BY <1>5, <2>2, EndsKeepsFound DEF AcquireLock, pastVars
  <2> QED
    BY <2>1, <2>2
<1>6. CASE Load(p)
  <2>1. CASE Loadable
    BY <1>6, <2>1, FoundMoves DEF Load, pastVars, Places, Running
  <2>2. CASE ~Loadable
    BY <1>6, <2>2, EndsKeepsFound DEF Load, pastVars
  <2> QED
    BY <2>1, <2>2
<1>7. CASE Restore(p)
  BY <1>7, FoundMoves DEF Restore, pastVars, fileVars, Places, Running
<1>8. CASE StartFails(p)
  BY <1>8, EndsKeepsFound DEF StartFails, pastVars
<1>9. CASE Attach(p)
  BY <1>9, FoundMoves DEF Attach, fileVars, Places, Running
<1>10. CASE StartApi(p)
  BY <1>10, StartApiKeepsFound
<1> QED
  BY <1>1, <1>2, <1>3, <1>4, <1>5, <1>6, <1>7, <1>8, <1>9, <1>10 DEF StartStep

LEMMA EndKeepsFound ==
  ASSUME FoundInv, NEW p \in Daemons, EndStep(p)
  PROVE  FoundInv'
<1>1. CASE BeginFlush(p) \/ FlushDone(p)
  BY <1>1, FoundMoves DEF BeginFlush, FlushDone, pastVars, fileVars, Places, Running
<1>2. CASE Unmount(p)
  <2>1. PICK then \in {"finishing", "waiting"} : Goto(p, then)
    BY <1>2 DEF Unmount
  <2> QED
    BY <1>2, <2>1, FoundMoves DEF Unmount, fileVars, Places, Running
<1>3. CASE ServerEnds(p)
  BY <1>3, FoundMoves DEF ServerEnds, pastVars, fileVars, Places, Running
<1>4. CASE Finish(p)
  BY <1>4, FoundMoves DEF Finish, fileVars, Places, Running
<1>5. CASE Return(p)
  BY <1>5, FoundMoves DEF Return, pastVars, Places, Running
<1>6. CASE Exit(p)
  BY <1>6, EndsKeepsFound DEF Exit, pastVars
<1> QED
  BY <1>1, <1>2, <1>3, <1>4, <1>5, <1>6 DEF EndStep

LEMMA OutsideKeepsFound ==
  ASSUME FoundInv, NEW p \in Daemons, OutsideStep(p)
  PROVE  FoundInv'
<1>1. CASE Launch(p)
  BY <1>1, FoundMoves DEF Launch, pastVars, fileVars, Places, Running
<1>2. CASE GetsSignal(p)
  <2>1. CASE signal[p] = "term" /\ pc[p] \in Opening \cup Serving
    BY <1>2, <2>1, FoundRests DEF GetsSignal, pastVars
  <2>2. CASE ~(signal[p] = "term" /\ pc[p] \in Opening \cup Serving)
    <3>1. Ends(p) /\ told' = told
      BY <1>2, <2>2 DEF GetsSignal
    <3> QED
      BY <1>2, <3>1, EndsKeepsFound DEF GetsSignal, pastVars
  <2> QED
    BY <2>1, <2>2
<1>3. CASE UserStops(p)
  BY <1>3, FoundRests DEF UserStops, pastVars, fileVars
<1>4. CASE Crash(p)
  BY <1>4, EndsKeepsFound DEF Crash
<1>5. CASE GetsStuck(p)
  BY <1>5, FoundRests DEF GetsStuck, pastVars, fileVars
<1> QED
  BY <1>1, <1>2, <1>3, <1>4, <1>5 DEF OutsideStep

LEMMA FoundStep == FoundInv /\ [Next]_vars => FoundInv'
<1> SUFFICES ASSUME FoundInv, [Next]_vars PROVE FoundInv'
  OBVIOUS
<1>1. CASE \E p \in Daemons : StartStep(p) \/ ServeStep(p) \/ EndStep(p) \/ PollStep(p)
                              \/ OutsideStep(p)
  BY <1>1, StartKeepsFound, ServeKeepsFound, EndKeepsFound, OutsideKeepsFound
<1>2. CASE UserUnmounts
  BY <1>2, FoundRests DEF UserUnmounts, procVars, fileVars
<1>3. CASE SessionStep
  BY <1>3, FoundRests DEF SessionStep, daemonVars, procVars, fileVars, pastVars
<1>4. CASE UNCHANGED vars
  BY <1>4, FoundRests DEF vars, daemonVars, procVars, fileVars, pastVars
<1> QED
  BY <1>1, <1>2, <1>3, <1>4 DEF Next

\* Whatever its predecessors left behind, a serving daemon is found by its status file and
\* by its socket, except after what a daemon on its way out removed or held.
THEOREM ServersAreFound == Spec => []Findable
<1>1. FoundInv => Findable
  BY DEF FoundInv, StatusShown, SocketShown, ApiServes, Findable
<1>2. Spec => []FoundInv
  BY FoundInit, FoundStep, PTL DEF Spec
<1> QED
  BY <1>1, <1>2, PTL

(***************************************************************************)
(* Daemons take turns.  The lock's holder is the one whose turn it is, so a *)
(* step that leaves the lock, the mounts and who is past its turn alone is  *)
(* a stutter of SingleInstance.                                             *)
(***************************************************************************)

Shown == IF lock # None /\ mounts # <<>> /\ Head(mounts) = lock THEN lock ELSE None

Mapped == The(Turn) = lock /\ The(Front) = Shown

LEMMA TurnIsLock == LockInv => Mapped
<1> SUFFICES ASSUME LockInv PROVE Mapped
  OBVIOUS
<1>1. CASE lock = None
  <2>1. Turn = {} /\ Front = {}
    BY <1>1, DaemonIsNotNone DEF LockInv, LockIsTurn, Turn, Front
  <2> QED
    BY <1>1, <2>1 DEF Mapped, The, Shown
<1>2. CASE lock # None
  <2>1. lock \in Daemons
    BY <1>2 DEF LockInv, Inside
  <2>2. Turn = {lock}
    BY <2>1 DEF LockInv, LockIsTurn, Turn
  <2>3. Front = IF mounts # <<>> /\ Head(mounts) = lock THEN {lock} ELSE {}
    BY <2>2 DEF Front
  <2>4. The({lock}) = lock /\ The({}) = None
    BY DEF The
  <2> QED
    BY <1>2, <2>2, <2>3, <2>4 DEF Mapped, Shown
<1> QED
  BY <1>1, <1>2

LEMMA TurnIsLockNext == LockInv' => Mapped'
BY TurnIsLock, PTL

LEMMA TurnsInit == Init => Single!Init
<1> SUFFICES ASSUME Init PROVE Single!Init
  OBVIOUS
<1>1. LockInv /\ lock = None /\ mounts = <<>>
  BY LockInit DEF Init
<1>2. Over = {}
  BY DEF Init, Over
<1> QED
  BY <1>1, <1>2, TurnIsLock DEF Single!Init, Mapped, Shown

\* Who moves within its turn, or before it.
LEMMA MovesIsStutter ==
  ASSUME LockInv, LockInv', NEW p \in Daemons, NEW where \in Places, Goto(p, where),
         (pc[p] \in {"exiting", "dead"}) <=> (where \in {"exiting", "dead"}),
         lock' = lock,
         mounts' = mounts \/ (mounts # <<>> /\ mounts' = Tail(mounts))
  PROVE  Single!Next \/ UNCHANGED Single!vars
<1>1. \A q \in Daemons : pc'[q] = IF q = p THEN where ELSE pc[q]
  BY DEF LockInv, Inside, Goto
<1>2. Over' = Over
  BY <1>1 DEF Over
<1>3. /\ The(Turn) = lock /\ The(Turn)' = lock
      /\ The(Front) = Shown /\ The(Front)' = Shown'
  BY TurnIsLock, TurnIsLockNext DEF Mapped
<1>4. Shown' = Shown \/ Shown' = None \/ (Shown' = lock /\ lock # None /\ Shown = None)
  BY DEF Shown
<1> QED
  BY <1>2, <1>3, <1>4 DEF Single!Next, Single!Show, Single!Hide, Single!vars

LEMMA RestsIsStutter ==
  ASSUME LockInv, LockInv', UNCHANGED <<pc, lock>>
  PROVE  Single!Next \/ UNCHANGED Single!vars
<1>1. Over' = Over
  BY DEF Over
<1>2. /\ The(Turn) = lock /\ The(Turn)' = lock
      /\ The(Front) = Shown /\ The(Front)' = Shown'
  BY TurnIsLock, TurnIsLockNext DEF Mapped
<1>3. Shown' = Shown \/ Shown' = None \/ (Shown' = lock /\ lock # None /\ Shown = None)
  BY DEF Shown
<1> QED
  BY <1>1, <1>2, <1>3 DEF Single!Next, Single!Show, Single!Hide, Single!vars

\* The end of a turn, or of a process that has none.
LEMMA LeavesIsStep ==
  ASSUME LockInv, LockInv', NEW p \in Daemons, NEW where \in {"exiting", "dead"},
         Goto(p, where), mounts' = mounts,
         lock' = IF lock = p THEN None ELSE lock
  PROVE  Single!Next \/ UNCHANGED Single!vars
<1>1. \A q \in Daemons : pc'[q] = IF q = p THEN where ELSE pc[q]
  BY DEF LockInv, Inside, Goto
<1>2. Over' = Over \cup {p}
  BY <1>1 DEF Over
<1>3. /\ The(Turn) = lock /\ The(Turn)' = lock'
      /\ The(Front) = Shown /\ The(Front)' = Shown'
  BY TurnIsLock, TurnIsLockNext DEF Mapped
<1>4. CASE lock = p
  <2>1. lock # None /\ lock' = None /\ Shown' = None
    BY <1>4, DaemonIsNotNone DEF Shown
  <2> QED
    BY <1>2, <1>3, <1>4, <2>1 DEF Single!Next, Single!End
<1>5. CASE lock # p
  <2>1. lock' = lock /\ Shown' = Shown
    BY <1>5 DEF Shown
  <2> QED
    BY <1>2, <1>3, <1>5, <2>1 DEF Single!Next, Single!Leave
<1> QED
  BY <1>4, <1>5

LEMMA EndsIsStep ==
  ASSUME LockInv, LockInv', NEW p \in Daemons, Ends(p), mounts' = mounts
  PROVE  Single!Next \/ UNCHANGED Single!vars
BY LeavesIsStep DEF Ends

LEMMA AttachIsStep ==
  ASSUME LockInv, LockInv', NEW p \in Daemons, Attach(p)
  PROVE  Single!Next \/ UNCHANGED Single!vars
<1>1. pc[p] = "attaching" /\ lock' = lock /\ mounts' = <<p>> \o mounts
  BY DEF Attach, fileVars
<1>2. \A q \in Daemons : pc'[q] = IF q = p THEN "listening" ELSE pc[q]
  BY DEF LockInv, Inside, Attach, Goto
<1>3. Over' = Over
  BY <1>1, <1>2 DEF Over
<1>4. lock = p /\ p # None
  BY <1>1, DaemonIsNotNone DEF LockInv, LockIsTurn, Owned
<1>5. mounts' # <<>> /\ Head(mounts') = p
  BY <1>1 DEF LockInv, Inside
<1>6. \A i \in DOMAIN mounts : mounts[i] # p
  BY <1>1 DEF LockInv, MountsHad, Mounted
<1>7. Shown = None /\ Shown' = p
  BY <1>1, <1>4, <1>5, <1>6, BelowTheTop DEF Shown, LockInv
<1>8. /\ The(Turn) = lock /\ The(Turn)' = lock'
      /\ The(Front) = Shown /\ The(Front)' = Shown'
  BY TurnIsLock, TurnIsLockNext DEF Mapped
<1> QED
  BY <1>1, <1>3, <1>4, <1>7, <1>8 DEF Single!Next, Single!Show

LEMMA StartIsStep ==
  ASSUME LockInv, LockInv', NEW p \in Daemons, StartStep(p)
  PROVE  Single!Next \/ UNCHANGED Single!vars
<1>1. CASE StatMountpoint(p)
  <2>1. CASE DeadMount
    BY <1>1, <2>1, EndsIsStep DEF StatMountpoint
  <2>2. CASE ~DeadMount
    BY <1>1, <2>2, MovesIsStutter DEF StatMountpoint, Places
  <2> QED
    BY <2>1, <2>2
<1>2. CASE FindPrevious(p)
  BY <1>2, MovesIsStutter DEF FindPrevious, fileVars, Places
<1>3. CASE StopTimeout(p)
  BY <1>3, MovesIsStutter DEF StopTimeout, fileVars, Places
<1>4. CASE SeesExit(p)
  BY <1>4, MovesIsStutter DEF SeesExit, fileVars, Places
<1>5. CASE AcquireLock(p)
  <2>1. CASE lock = None
    <3>1. \A q \in Daemons : pc'[q] = IF q = p THEN "loading" ELSE pc[q]
      BY <1>5, <2>1 DEF LockInv, Inside, AcquireLock, Goto
    <3>2. Over' = Over /\ p \notin Over
      BY <1>5, <3>1 DEF Over, AcquireLock
    <3>3. lock' = p /\ mounts' = mounts
      BY <1>5, <2>1 DEF AcquireLock
    <3>4. \A i \in DOMAIN mounts : mounts[i] # p
      BY <1>5 DEF AcquireLock, LockInv, MountsHad, Mounted
    <3>5. Shown = None /\ Shown' = None
      BY <2>1, <3>3, <3>4, BelowTheTop DEF Shown, LockInv
    <3>6. /\ The(Turn) = lock /\ The(Turn)' = lock'
          /\ The(Front) = Shown /\ The(Front)' = Shown'
      BY TurnIsLock, TurnIsLockNext DEF Mapped
    <3>7. Single!Begin(p)
      BY <2>1, <3>2, <3>3, <3>5, <3>6 DEF Single!Begin
    <3> QED
      BY <3>7 DEF Single!Next
  <2>2. CASE lock # None
    BY <1>5, <2>2, EndsIsStep DEF AcquireLock
  <2> QED
    BY <2>1, <2>2
<1>6. CASE Load(p)
  <2>1. CASE Loadable
    BY <1>6, <2>1, MovesIsStutter DEF Load, Places
  <2>2. CASE ~Loadable
    BY <1>6, <2>2, EndsIsStep DEF Load
  <2> QED
    BY <2>1, <2>2
<1>7. CASE Restore(p)
  BY <1>7, MovesIsStutter DEF Restore, fileVars, Places
<1>8. CASE StartFails(p)
  BY <1>8, EndsIsStep DEF StartFails
<1>9. CASE Attach(p)
  BY <1>9, AttachIsStep
<1>10. CASE StartApi(p)
  BY <1>10, MovesIsStutter DEF StartApi, Places
<1> QED
  BY <1>1, <1>2, <1>3, <1>4, <1>5, <1>6, <1>7, <1>8, <1>9, <1>10 DEF StartStep

LEMMA ServeIsStep ==
  ASSUME LockInv, LockInv', NEW p \in Daemons, ServeStep(p) \/ PollStep(p)
  PROVE  Single!Next \/ UNCHANGED Single!vars
BY RestsIsStutter DEF ServeStep, PollStep, Publish, RemoveStatus, CloseApi, AuthFails,
   LateUnmount, PollSeesMount, PollGivesUp, fileVars

LEMMA EndIsStep ==
  ASSUME LockInv, LockInv', NEW p \in Daemons, EndStep(p)
  PROVE  Single!Next \/ UNCHANGED Single!vars
<1>1. CASE BeginFlush(p) \/ FlushDone(p)
  BY <1>1, MovesIsStutter DEF BeginFlush, FlushDone, fileVars, Places
<1>2. CASE Unmount(p)
  <2>1. PICK then \in {"finishing", "waiting"} : Goto(p, then)
    BY <1>2 DEF Unmount
  <2> QED
    BY <1>2, <2>1, MovesIsStutter DEF Unmount, Detach, fileVars, Places
<1>3. CASE ServerEnds(p)
  BY <1>3, MovesIsStutter DEF ServerEnds, fileVars, Places
<1>4. CASE Finish(p)
  BY <1>4, MovesIsStutter DEF Finish, Detach, fileVars, Places
<1>5. CASE Return(p)
  BY <1>5, LeavesIsStep DEF Return
<1>6. CASE Exit(p)
  BY <1>6, EndsIsStep DEF Exit
<1> QED
  BY <1>1, <1>2, <1>3, <1>4, <1>5, <1>6 DEF EndStep

LEMMA OutsideIsStep ==
  ASSUME LockInv, LockInv', NEW p \in Daemons, OutsideStep(p)
  PROVE  Single!Next \/ UNCHANGED Single!vars
<1>1. CASE Launch(p)
  <2>1. lock # p /\ lock' = lock /\ mounts' = mounts
    BY <1>1 DEF Launch, LockInv, LockIsTurn, Owned, fileVars
  <2>2. CASE DeadMount
    BY <1>1, <2>1, <2>2, LeavesIsStep DEF Launch
  <2>3. CASE ~DeadMount
    BY <1>1, <2>1, <2>3, MovesIsStutter DEF Launch, Places
  <2> QED
    BY <2>2, <2>3
<1>2. CASE GetsSignal(p)
  <2>1. CASE signal[p] = "term" /\ pc[p] \in Opening \cup Serving
    BY <1>2, <2>1, RestsIsStutter DEF GetsSignal
  <2>2. CASE ~(signal[p] = "term" /\ pc[p] \in Opening \cup Serving)
    <3>1. Ends(p)
      BY <1>2, <2>2 DEF GetsSignal
    <3> QED
      BY <1>2, <3>1, EndsIsStep DEF GetsSignal
  <2> QED
    BY <2>1, <2>2
<1>3. CASE UserStops(p)
  BY <1>3, RestsIsStutter DEF UserStops, fileVars
<1>4. CASE Crash(p)
  BY <1>4, EndsIsStep DEF Crash
<1>5. CASE GetsStuck(p)
  BY <1>5, RestsIsStutter DEF GetsStuck, fileVars
<1> QED
  BY <1>1, <1>2, <1>3, <1>4, <1>5 DEF OutsideStep

LEMMA TurnsStep ==
  ASSUME LockInv, LockInv', [Next]_vars
  PROVE  [Single!Next]_(Single!vars)
<1>1. CASE \E p \in Daemons : StartStep(p) \/ ServeStep(p) \/ EndStep(p) \/ PollStep(p)
                              \/ OutsideStep(p)
  BY <1>1, StartIsStep, ServeIsStep, EndIsStep, OutsideIsStep
<1>2. CASE UserUnmounts
  BY <1>2, RestsIsStutter DEF UserUnmounts, procVars, fileVars
<1>3. CASE SessionStep
  BY <1>3, RestsIsStutter DEF SessionStep, daemonVars, procVars, fileVars
<1>4. CASE UNCHANGED vars
  BY <1>4, RestsIsStutter DEF vars, daemonVars, procVars, fileVars
<1> QED
  BY <1>1, <1>2, <1>3, <1>4 DEF Next

\* The daemons of one mountpoint take turns, one each, and the mountpoint shows the file
\* system of the one whose turn it is: Daemon implements SingleInstance.
THEOREM DaemonsTakeTurns == Spec => TakeTurns
<1>1. Spec => Single!Init
  BY TurnsInit, PTL DEF Spec
<1>2. LockInv /\ LockInv' /\ [Next]_vars => [Single!Next]_(Single!vars)
  BY TurnsStep
<1> QED
  BY <1>1, <1>2, LockAlways, PTL DEF Spec, TakeTurns, Single!Spec

(***************************************************************************)
(* The session that the daemons share with login, logout and the tray.      *)
(***************************************************************************)

USE DEF Starting, Loading, Opening, Serving

(***************************************************************************)
(* Types of the daemons' part.                                              *)
(***************************************************************************)

LEMMA DaemonTypeInit == Init => DaemonTypeOK
BY DaemonAssumption DEF Init, DaemonTypeOK, Places

LEMMA TypeIsInside == DaemonTypeOK => Inside
BY DEF DaemonTypeOK, Inside

\* The top of the mounts, and what is below it.
LEMMA TopTypes ==
  ASSUME DaemonTypeOK, mounts # <<>>
  PROVE  Head(mounts) \in Daemons /\ Tail(mounts) \in Seq(Daemons)
BY TypeIsInside, BelowTheTop

LEMMA EndsKeepsType ==
  ASSUME DaemonTypeOK, NEW p \in Daemons, Ends(p)
  PROVE  /\ pc' \in [Daemons -> Places] /\ lock' \in Daemons \cup {None}
         /\ publisher' \in [Daemons -> {"off", "ready", "on", "done"}]
         /\ api' \in [Daemons -> {"off", "on", "done"}]
BY DEF DaemonTypeOK, Ends, Goto, Places

LEMMA StartKeepsType ==
  ASSUME DaemonTypeOK, NEW p \in Daemons, StartStep(p)
  PROVE  DaemonTypeOK'
<1>1. CASE StatMountpoint(p)
  <2>1. CASE DeadMount
    BY <1>1, <2>1, EndsKeepsType DEF StatMountpoint, DaemonTypeOK, pastVars
  <2>2. CASE ~DeadMount
    BY <1>1, <2>2 DEF StatMountpoint, DaemonTypeOK, pastVars, Goto, Places
  <2> QED
    BY <2>1, <2>2
<1>2. CASE FindPrevious(p)
  <2>1. CASE status # None /\ status # p /\ Alive(status)
    <3>1. status \in Daemons
      BY <2>1 DEF DaemonTypeOK
    <3>2. /\ victim' = [victim EXCEPT ![p] = status]
          /\ signal' = [signal EXCEPT ![status] = IF @ = "kill" THEN @ ELSE "term"]
          /\ pc' = [pc EXCEPT ![p] = "stopping"]
      BY <1>2, <2>1 DEF FindPrevious, Goto
    <3> QED
      BY <1>2, <3>1, <3>2 DEF FindPrevious, DaemonTypeOK, pastVars, fileVars, Places
  <2>2. CASE ~(status # None /\ status # p /\ Alive(status))
    BY <1>2, <2>2 DEF FindPrevious, DaemonTypeOK, pastVars, fileVars, Goto, Places
  <2> QED
    BY <2>1, <2>2
<1>3. CASE StopTimeout(p)
  BY <1>3 DEF StopTimeout, DaemonTypeOK, pastVars, fileVars, Goto, Places
<1>4. CASE SeesExit(p)
  BY <1>4 DEF SeesExit, DaemonTypeOK, pastVars, fileVars, Goto, Places
<1>5. CASE AcquireLock(p)
  <2>1. CASE lock = None
    BY <1>5, <2>1 DEF AcquireLock, DaemonTypeOK, pastVars, Goto, Places
  <2>2. CASE lock # None
    BY <1>5, <2>2, EndsKeepsType DEF AcquireLock, DaemonTypeOK, pastVars
  <2> QED
    BY <2>1, <2>2
<1>6. CASE Load(p)
  <2>1. CASE Loadable
    BY <1>6, <2>1 DEF Load, DaemonTypeOK, pastVars, Goto, Places
  <2>2. CASE ~Loadable
    BY <1>6, <2>2, EndsKeepsType DEF Load, DaemonTypeOK, pastVars
  <2> QED
    BY <2>1, <2>2
<1>7. CASE Restore(p)
  BY <1>7 DEF Restore, DaemonTypeOK, pastVars, fileVars, Goto, Places
<1>8. CASE StartFails(p)
  BY <1>8, EndsKeepsType DEF StartFails, DaemonTypeOK, pastVars
<1>9. CASE Attach(p)
  BY <1>9 DEF Attach, DaemonTypeOK, fileVars, Goto, Places
<1>10. CASE StartApi(p)
  BY <1>10 DEF StartApi, DaemonTypeOK, Goto, Places
<1> QED
  BY <1>1, <1>2, <1>3, <1>4, <1>5, <1>6, <1>7, <1>8, <1>9, <1>10 DEF StartStep

LEMMA ServeKeepsType ==
  ASSUME DaemonTypeOK, NEW p \in Daemons, ServeStep(p) \/ PollStep(p)
  PROVE  DaemonTypeOK'
<1>1. \A owner : Other(p, owner) \subseteq {owner}
  BY DEF Other
<1>2. status # None => status \in Daemons
  BY DEF DaemonTypeOK
<1>3. sock # None => sock \in Daemons
  BY DEF DaemonTypeOK
<1>4. Other(p, status) \subseteq Daemons /\ Other(p, sock) \subseteq Daemons
  BY <1>2, <1>3 DEF Other
<1>5. CASE Publish(p) \/ RemoveStatus(p)
  BY <1>4, <1>5 DEF Publish, RemoveStatus, DaemonTypeOK
<1>6. CASE CloseApi(p)
  BY <1>4, <1>6 DEF CloseApi, DaemonTypeOK
<1>7. CASE AuthFails(p)
  BY <1>7 DEF AuthFails, DaemonTypeOK, fileVars, pastVars
<1>8. CASE LateUnmount(p)
  <2>1. Other(p, Head(mounts)) \subseteq Daemons /\ Tail(mounts) \in Seq(Daemons)
    BY <1>1, <1>8, TopTypes DEF LateUnmount
  <2> QED
    BY <1>8, <2>1 DEF LateUnmount, DaemonTypeOK, fileVars
<1>9. CASE PollSeesMount(p) \/ PollGivesUp(p)
  <2>1. CASE PollSeesMount(p)
    BY <2>1 DEF PollSeesMount, DaemonTypeOK, fileVars, pastVars
  <2>2. CASE PollGivesUp(p)
    BY <2>2 DEF PollGivesUp, DaemonTypeOK, fileVars, pastVars
  <2> QED
    BY <1>9, <2>1, <2>2
<1> QED
  BY <1>5, <1>6, <1>7, <1>8, <1>9 DEF ServeStep, PollStep

LEMMA DetachKeepsType ==
  ASSUME DaemonTypeOK, NEW p \in Daemons,
         Detach(p) \/ UNCHANGED <<mounts, robbed>>
  PROVE  mounts' \in Seq(Daemons) /\ robbed' \subseteq Daemons
<1>1. CASE Detach(p)
  <2>1. Head(mounts) \in Daemons /\ Tail(mounts) \in Seq(Daemons)
    BY <1>1, TopTypes DEF Detach
  <2> QED
    BY <1>1, <2>1 DEF Detach, DaemonTypeOK
<1> QED
  BY <1>1 DEF DaemonTypeOK

LEMMA EndKeepsType ==
  ASSUME DaemonTypeOK, NEW p \in Daemons, EndStep(p)
  PROVE  DaemonTypeOK'
<1>1. CASE BeginFlush(p) \/ FlushDone(p) \/ ServerEnds(p)
  <2>1. CASE BeginFlush(p)
    BY <2>1 DEF BeginFlush, DaemonTypeOK, pastVars, fileVars, Goto, Places
  <2>2. CASE FlushDone(p)
    BY <2>2 DEF FlushDone, DaemonTypeOK, pastVars, fileVars, Goto, Places
  <2>3. CASE ServerEnds(p)
    BY <2>3 DEF ServerEnds, DaemonTypeOK, pastVars, fileVars, Goto, Places
  <2> QED
    BY <1>1, <2>1, <2>2, <2>3
<1>2. CASE Unmount(p)
  <2>1. PICK then \in {"finishing", "waiting"} : Goto(p, then)
    BY <1>2 DEF Unmount
  <2>2. mounts' \in Seq(Daemons) /\ robbed' \subseteq Daemons
    BY <1>2, DetachKeepsType DEF Unmount
  <2>3. pc' \in [Daemons -> Places]
    BY <2>1 DEF DaemonTypeOK, Goto, Places
  <2> QED
    BY <1>2, <2>2, <2>3 DEF Unmount, DaemonTypeOK, fileVars
<1>3. CASE Finish(p)
  <2>1. mounts' \in Seq(Daemons) /\ robbed' \subseteq Daemons
    BY <1>3, DetachKeepsType DEF Finish
  <2> QED
    BY <1>3, <2>1 DEF Finish, DaemonTypeOK, fileVars, Goto, Places
<1>4. CASE Return(p)
  <2>1. PICK t \in BOOLEAN : t = TRUE
    OBVIOUS
  <2>2. told' = [told EXCEPT ![p] = t]
    BY <1>4, <2>1 DEF Return
  <2> QED
    BY <1>4, <2>2 DEF Return, DaemonTypeOK, pastVars, Goto, Places
<1>5. CASE Exit(p)
  BY <1>5, EndsKeepsType DEF Exit, DaemonTypeOK, pastVars
<1> QED
  BY <1>1, <1>2, <1>3, <1>4, <1>5 DEF EndStep

Budgets == [crashes : 0 .. MaxCrashes, unmounts : 0 .. MaxUnmounts]

LEMMA BudgetGrows ==
  ASSUME DaemonTypeOK
  PROVE  /\ budget.crashes < MaxCrashes => [budget EXCEPT !.crashes = @ + 1] \in Budgets
         /\ budget.unmounts < MaxUnmounts => [budget EXCEPT !.unmounts = @ + 1] \in Budgets
<1>1. budget \in Budgets /\ MaxCrashes \in Nat /\ MaxUnmounts \in Nat
  BY DaemonAssumption DEF DaemonTypeOK, Budgets
<1>2. budget.crashes < MaxCrashes => budget.crashes + 1 \in 0 .. MaxCrashes
  BY <1>1 DEF Budgets
<1>3. budget.unmounts < MaxUnmounts => budget.unmounts + 1 \in 0 .. MaxUnmounts
  BY <1>1 DEF Budgets
<1> QED
  BY <1>1, <1>2, <1>3 DEF Budgets

LEMMA OutsideKeepsType ==
  ASSUME DaemonTypeOK, NEW p \in Daemons, OutsideStep(p)
  PROVE  DaemonTypeOK'
<1>1. CASE Launch(p)
  BY <1>1 DEF Launch, DaemonTypeOK, pastVars, fileVars, Goto, Places
<1>2. CASE GetsSignal(p)
  <2>1. CASE signal[p] = "term" /\ pc[p] \in Opening \cup Serving
    <3>1. PICK t \in BOOLEAN : t = TRUE
      OBVIOUS
    <3>2. told' = [told EXCEPT ![p] = t]
      BY <1>2, <2>1, <3>1 DEF GetsSignal
    <3> QED
      BY <1>2, <2>1, <3>2 DEF GetsSignal, DaemonTypeOK, pastVars
  <2>2. CASE ~(signal[p] = "term" /\ pc[p] \in Opening \cup Serving)
    <3>1. Ends(p) /\ told' = told
      BY <1>2, <2>2 DEF GetsSignal
    <3> QED
      BY <1>2, <3>1, EndsKeepsType DEF GetsSignal, DaemonTypeOK, pastVars
  <2> QED
    BY <2>1, <2>2
<1>3. CASE UserStops(p)
  BY <1>3 DEF UserStops, DaemonTypeOK, pastVars, fileVars
<1>4. CASE Crash(p)
  <2>1. budget' \in Budgets
    BY <1>4, BudgetGrows DEF Crash
  <2> QED
    BY <1>4, <2>1, EndsKeepsType DEF Crash, DaemonTypeOK, Budgets
<1>5. CASE GetsStuck(p)
  BY <1>5 DEF GetsStuck, DaemonTypeOK, pastVars, fileVars
<1> QED
  BY <1>1, <1>2, <1>3, <1>4, <1>5 DEF OutsideStep

LEMMA DaemonTypeStep == DaemonTypeOK /\ [Next]_vars => DaemonTypeOK'
<1> SUFFICES ASSUME DaemonTypeOK, [Next]_vars PROVE DaemonTypeOK'
  OBVIOUS
<1>1. CASE \E p \in Daemons : StartStep(p) \/ ServeStep(p) \/ EndStep(p) \/ PollStep(p)
                              \/ OutsideStep(p)
  BY <1>1, StartKeepsType, ServeKeepsType, EndKeepsType, OutsideKeepsType
<1>2. CASE UserUnmounts
  <2>1. mounts' \in Seq(Daemons)
    BY <1>2, TopTypes DEF UserUnmounts
  <2>2. budget' \in Budgets
    BY <1>2, BudgetGrows DEF UserUnmounts
  <2> QED
    BY <1>2, <2>1, <2>2 DEF UserUnmounts, DaemonTypeOK, procVars, fileVars, Budgets
<1>3. CASE SessionStep \/ UNCHANGED vars
  BY <1>3 DEF SessionStep, vars, daemonVars, procVars, fileVars, pastVars, DaemonTypeOK
<1> QED
  BY <1>1, <1>2, <1>3 DEF Next

(***************************************************************************)
(* What a step may do to the session: nothing, forget it, load it, or one   *)
(* of the session's own steps.  A daemon has tokens from "restoring" on.    *)
(***************************************************************************)

Blanks == Starting \cup {"new", "loading", "dead"}

SessionRests == /\ UNCHANGED sessionVars
                /\ \A p \in Daemons : pc'[p] \in Blanks => pc[p] \in Blanks
SessionGone(p) == /\ ForgetSession(p) /\ UNCHANGED <<server, file, stamp, command, check, wanted>>
                  /\ pc' = [pc EXCEPT ![p] = "dead"]
SessionTaken(p) == /\ pc[p] = "loading" /\ Loadable /\ LoadSession(p)
                   /\ UNCHANGED <<server, file, stamp, saver, command, check, wanted, savesLost>>
                   /\ pc' = [pc EXCEPT ![p] = "restoring"]

SessionChange == SessionRests \/ (\E p \in Daemons : SessionGone(p) \/ SessionTaken(p))

LEMMA EndsForgets == ASSUME NEW p, Ends(p) PROVE SessionGone(p)
BY DEF Ends, Goto, SessionGone

\* A daemon that moves on with the session it has, or without one.
LEMMA MovesRests ==
  ASSUME DaemonTypeOK, NEW p \in Daemons, NEW where, Goto(p, where),
         where \in Blanks => pc[p] \in Blanks, UNCHANGED sessionVars
  PROVE  SessionRests
BY DEF DaemonTypeOK, Goto, SessionRests

LEMMA StartChanges ==
  ASSUME DaemonTypeOK, NEW p \in Daemons, StartStep(p)
  PROVE  SessionChange
<1>1. CASE StatMountpoint(p)
  <2>1. CASE DeadMount
    BY <1>1, <2>1, EndsForgets DEF StatMountpoint, SessionChange
  <2>2. CASE ~DeadMount
    BY <1>1, <2>2, MovesRests DEF StatMountpoint, SessionChange, Blanks
  <2> QED
    BY <2>1, <2>2
<1>2. CASE FindPrevious(p)
  BY <1>2, MovesRests DEF FindPrevious, SessionChange, Blanks
<1>3. CASE StopTimeout(p)
  BY <1>3, MovesRests DEF StopTimeout, SessionChange, Blanks
<1>4. CASE SeesExit(p)
  BY <1>4, MovesRests DEF SeesExit, SessionChange, Blanks
<1>5. CASE AcquireLock(p)
  <2>1. CASE lock = None
    BY <1>5, <2>1, MovesRests DEF AcquireLock, SessionChange, Blanks
  <2>2. CASE lock # None
    BY <1>5, <2>2, EndsForgets DEF AcquireLock, SessionChange
  <2> QED
    BY <2>1, <2>2
<1>6. CASE Load(p)
  <2>1. CASE Loadable
    <3>1. SessionTaken(p)
      BY <1>6, <2>1 DEF Load, Goto, SessionTaken
    <3> QED
      BY <3>1 DEF SessionChange
  <2>2. CASE ~Loadable
    BY <1>6, <2>2, EndsForgets DEF Load, SessionChange
  <2> QED
    BY <2>1, <2>2
<1>7. CASE Restore(p)
  BY <1>7, MovesRests DEF Restore, SessionChange, Blanks
<1>8. CASE StartFails(p)
  BY <1>8, EndsForgets DEF StartFails, SessionChange
<1>9. CASE Attach(p)
  BY <1>9, MovesRests DEF Attach, SessionChange, Blanks
<1>10. CASE StartApi(p)
  BY <1>10, MovesRests DEF StartApi, SessionChange, Blanks
<1> QED
  BY <1>1, <1>2, <1>3, <1>4, <1>5, <1>6, <1>7, <1>8, <1>9, <1>10 DEF StartStep

LEMMA ServeChanges ==
  ASSUME NEW p \in Daemons, ServeStep(p) \/ PollStep(p)
  PROVE  SessionChange
BY DEF ServeStep, PollStep, Publish, RemoveStatus, CloseApi, AuthFails, LateUnmount,
   PollSeesMount, PollGivesUp, SessionChange, SessionRests

LEMMA EndChanges ==
  ASSUME DaemonTypeOK, NEW p \in Daemons, EndStep(p)
  PROVE  SessionChange
<1>1. CASE BeginFlush(p) \/ FlushDone(p) \/ ServerEnds(p)
  BY <1>1, MovesRests DEF BeginFlush, FlushDone, ServerEnds, SessionChange, Blanks
<1>2. CASE Unmount(p)
  <2>1. PICK then \in {"finishing", "waiting"} : Goto(p, then)
    BY <1>2 DEF Unmount
  <2> QED
    BY <1>2, <2>1, MovesRests DEF Unmount, SessionChange, Blanks
<1>3. CASE Finish(p) \/ Return(p)
  BY <1>3, MovesRests DEF Finish, Return, SessionChange, Blanks
<1>4. CASE Exit(p)
  BY <1>4, EndsForgets DEF Exit, SessionChange
<1> QED
  BY <1>1, <1>2, <1>3, <1>4 DEF EndStep

LEMMA OutsideChanges ==
  ASSUME DaemonTypeOK, NEW p \in Daemons, OutsideStep(p)
  PROVE  SessionChange
<1>1. CASE Launch(p)
  BY <1>1, MovesRests DEF Launch, SessionChange, Blanks
<1>2. CASE GetsSignal(p)
  <2>1. CASE signal[p] = "term" /\ pc[p] \in Opening \cup Serving
    BY <1>2, <2>1 DEF GetsSignal, SessionChange, SessionRests
  <2>2. CASE ~(signal[p] = "term" /\ pc[p] \in Opening \cup Serving)
    <3>1. Ends(p)
      BY <1>2, <2>2 DEF GetsSignal
    <3> QED
      BY <3>1, EndsForgets DEF SessionChange
  <2> QED
    BY <2>1, <2>2
<1>3. CASE UserStops(p)
  BY <1>3 DEF UserStops, SessionChange, SessionRests
<1>4. CASE Crash(p)
  BY <1>4, EndsForgets DEF Crash, SessionChange
<1>5. CASE GetsStuck(p)
  BY <1>5 DEF GetsStuck, SessionChange, SessionRests
<1> QED
  BY <1>1, <1>2, <1>3, <1>4, <1>5 DEF OutsideStep

LEMMA NextChanges ==
  ASSUME DaemonTypeOK, [Next]_vars
  PROVE  SessionChange \/ SessionStep
<1>1. CASE \E p \in Daemons : StartStep(p) \/ ServeStep(p) \/ EndStep(p) \/ PollStep(p)
                              \/ OutsideStep(p)
  BY <1>1, StartChanges, ServeChanges, EndChanges, OutsideChanges
<1>2. CASE UserUnmounts
  BY <1>2 DEF UserUnmounts, procVars, SessionChange, SessionRests
<1>3. CASE UNCHANGED vars
  BY <1>3 DEF vars, daemonVars, procVars, SessionChange, SessionRests
<1> QED
  BY <1>1, <1>2, <1>3 DEF Next

(***************************************************************************)
(* Types of the session's part.                                             *)
(***************************************************************************)

LEMMA SpecialIsNoToken ==
  /\ None \notin Tokens /\ Torn \notin Tokens /\ None # Torn
  /\ None \notin Nat /\ None \notin Uids /\ Command \notin Daemons
BY SessionAssumption DEF Uids

LEMMA SessionTypeInit == Init => SessionTypeOK
BY SessionAssumption DEF Init, SessionInit, SessionTypeOK, Uids, Tokens, NoSave, SaveRaces

SaveStates == [pc : {"idle", "open", "write"}, tokens : Tokens, unlinked : BOOLEAN]

LEMMA NoSaveType == NoSave \in SaveStates
BY SessionAssumption DEF NoSave, SaveStates, Tokens, Uids

\* What each of the session's steps may do to a save.
LEMMA BeginSaveType ==
  ASSUME SessionTypeOK, NEW w \in Writers, NEW t \in Tokens, BeginSave(w, t)
  PROVE  saver' \in [Writers -> SaveStates]
<1>1. PICK b \in BOOLEAN : b = FALSE
  OBVIOUS
<1>2. saver' = [saver EXCEPT ![w] = [pc |-> "open", tokens |-> t, unlinked |-> b]]
  BY <1>1 DEF BeginSave
<1>3. [pc |-> "open", tokens |-> t, unlinked |-> b] \in SaveStates
  BY DEF SaveStates
<1> QED
  BY <1>2, <1>3 DEF SessionTypeOK, SaveStates

LEMMA SavesType ==
  ASSUME SessionTypeOK, NEW w \in Writers, SaveOpens(w) \/ SaveWrites(w)
  PROVE  /\ saver' \in [Writers -> SaveStates] /\ stamp' \in Nat
         /\ file' \in Tokens \cup {None, Torn}
<1>1. CASE SaveOpens(w)
  BY <1>1 DEF SaveOpens, SessionTypeOK, SaveStates
<1>2. CASE SaveWrites(w)
  <2>1. saver[w].tokens \in Tokens
    BY DEF SessionTypeOK
  <2>2. Written(w) \subseteq Tokens \cup {None, Torn}
    BY <2>1 DEF Written, SessionTypeOK
  <2> QED
    BY <1>2, <2>2, NoSaveType DEF SaveWrites, SessionTypeOK, SaveStates
<1> QED
  BY <1>1, <1>2

LEMMA RefreshType ==
  ASSUME SessionTypeOK, NEW p \in Daemons, Refresh(p)
  PROVE  SessionTypeOK'
<1>1. mem[p] \in Tokens /\ mem[p].uid \in Uids /\ mem[p].gen \in 0 .. MaxRefreshes
  BY DEF Refresh, SessionTypeOK, Tokens
<1>2. /\ mem[p].gen + 1 \in 0 .. MaxRefreshes
      /\ server[mem[p].uid].gen + 1 \in 0 .. MaxRefreshes
  BY <1>1, SessionAssumption DEF Refresh, Accepted
<1>3. server' \in [Uids -> [is : {"unused", "live", "revoked"}, gen : 0 .. MaxRefreshes]]
  BY <1>1, <1>2 DEF Refresh, SessionTypeOK
<1>4. [mem[p] EXCEPT !.gen = mem[p].gen + 1] \in Tokens
  BY <1>1, <1>2 DEF Tokens
<1>5. mem' = [mem EXCEPT ![p] = [mem[p] EXCEPT !.gen = mem[p].gen + 1]]
  BY DEF Refresh
<1>6. mem' \in [Daemons -> Tokens \cup {None}] /\ mem'[p] \in Tokens
  BY <1>4, <1>5 DEF SessionTypeOK
<1>7. saver' \in [Writers -> SaveStates]
  BY <1>6, BeginSaveType DEF Refresh, Writers
<1> QED
  BY <1>3, <1>6, <1>7 DEF Refresh, SessionTypeOK, SaveStates

LEMMA LoginType ==
  ASSUME SessionTypeOK, Login
  PROVE  SessionTypeOK'
<1>1. PICK u \in Uids, revokes \in BOOLEAN :
        /\ server' = [v \in Uids |->
             CASE v = u -> [is |-> "live", gen |-> 0]
               [] v # u /\ revokes /\ server[v].is = "live" ->
                    [server[v] EXCEPT !.is = "revoked"]
               [] OTHER -> server[v]]
        /\ BeginSave(Command, [uid |-> u, gen |-> 0])
  BY DEF Login
<1>2. 0 \in 0 .. MaxRefreshes
  BY SessionAssumption
<1>3. server' \in [Uids -> [is : {"unused", "live", "revoked"}, gen : 0 .. MaxRefreshes]]
  BY <1>1, <1>2 DEF SessionTypeOK
<1>4. saver' \in [Writers -> SaveStates]
  BY <1>1, <1>2, BeginSaveType DEF Tokens, Writers
<1> QED
  BY <1>3, <1>4 DEF Login, SessionTypeOK, SaveStates

LEMMA CheckType ==
  ASSUME SessionTypeOK, CheckStat \/ CheckLoad
  PROVE  SessionTypeOK'
<1> DEFINE Checks == [pc : {"idle", "load"}, checked : BOOLEAN, seen : Nat, loggedIn : BOOLEAN,
                      answer : BOOLEAN, at : Nat \cup {None}]
<1>1. check \in Checks /\ stamp \in Nat
  BY DEF SessionTypeOK
<1>2. ASSUME NEW b \in BOOLEAN PROVE Answer(b) \in Checks
  BY <1>1 DEF Answer
<1>3. PICK yes \in BOOLEAN, no \in BOOLEAN, there \in BOOLEAN :
        yes = TRUE /\ no = FALSE /\ there = Loadable
  BY DEF Loadable
<1>4. CASE CheckStat
  <2>1. /\ [Answer(no) EXCEPT !.checked = no] \in Checks
        /\ Answer(check.loggedIn) \in Checks
        /\ [check EXCEPT !.pc = "load", !.seen = stamp] \in Checks
    <3>1. Answer(no) \in Checks /\ check.loggedIn \in BOOLEAN
      BY <1>1, <1>2
    <3>2. Answer(check.loggedIn) \in Checks
      BY <1>2, <3>1
    <3> QED
      BY <1>1, <3>1, <3>2
  <2>2. check' \in Checks
    BY <1>3, <1>4, <2>1 DEF CheckStat
  <2> QED
    BY <1>4, <2>2 DEF CheckStat, SessionTypeOK
<1>5. CASE CheckLoad
  <2>1. check' = [Answer(there) EXCEPT !.checked = yes, !.loggedIn = there]
    BY <1>3, <1>5 DEF CheckLoad
  <2>2. check' \in Checks
    BY <1>2, <2>1
  <2> QED
    BY <1>5, <2>2 DEF CheckLoad, SessionTypeOK
<1> QED
  BY <1>4, <1>5

LEMMA SessionStepType ==
  ASSUME SessionTypeOK, SessionStep
  PROVE  SessionTypeOK'
<1>1. CASE \E p \in Daemons : Refresh(p)
  BY <1>1, RefreshType
<1>2. ASSUME NEW p \in Daemons, DaemonSaves(p) PROVE SessionTypeOK'
  <2>1. savesLost' \subseteq SaveRaces
    BY <1>2 DEF DaemonSaves, Crossed, SessionTypeOK, SaveRaces
  <2> QED
    BY <1>2, <2>1, SavesType DEF DaemonSaves, SessionTypeOK, SaveStates, Writers
<1>3. CASE Login
  BY <1>3, LoginType
<1>4. CASE LoginSaves
  <2>1. savesLost' \subseteq SaveRaces /\ wanted' \in Uids \cup {None}
    BY <1>4 DEF LoginSaves, SessionTypeOK, SaveRaces, Writers, Tokens
  <2> QED
    BY <1>4, <2>1, SavesType DEF LoginSaves, SessionTypeOK, SaveStates, Writers
<1>5. CASE Logout
  <2>1. file \in Tokens /\ file.uid \in Uids
    BY <1>5 DEF Logout, Loadable, SessionTypeOK, Tokens
  <2>2. PICK revoked \in BOOLEAN :
          server' = [server EXCEPT ![file.uid].is = IF revoked THEN "revoked" ELSE @]
    BY <1>5 DEF Logout
  <2> QED
    BY <1>5, <2>1, <2>2 DEF Logout, SessionTypeOK
<1>6. CASE LogoutRemoves
  <2>1. savesLost' \subseteq SaveRaces
    BY <1>6 DEF LogoutRemoves, SessionTypeOK, SaveRaces
  <2>2. \A w \in Writers : \E b \in BOOLEAN :
          b = (saver[w].pc = "write") /\ saver'[w] = [saver[w] EXCEPT !.unlinked = b]
    BY <1>6 DEF LogoutRemoves
  <2>3. saver' \in [Writers -> SaveStates]
    <3>1. ASSUME NEW w \in Writers PROVE saver'[w] \in SaveStates
      BY <2>2 DEF SessionTypeOK, SaveStates
    <3>2. saver' = [w \in Writers |-> saver'[w]]
      BY <1>6 DEF LogoutRemoves
    <3> QED
      BY <3>1, <3>2
  <2> QED
    BY <1>6, <2>1, <2>3 DEF LogoutRemoves, SessionTypeOK, SaveStates
<1>7. CASE CommandKilled
  BY <1>7, NoSaveType DEF CommandKilled, SessionTypeOK, SaveRaces, SaveStates, Writers
<1>8. CASE CheckStat \/ CheckLoad
  BY <1>8, CheckType
<1> QED
  BY <1>1, <1>2, <1>3, <1>4, <1>5, <1>6, <1>7, <1>8 DEF SessionStep

LEMMA SessionChangeType ==
  ASSUME SessionTypeOK, SessionChange
  PROVE  SessionTypeOK'
<1>1. CASE SessionRests
  BY <1>1 DEF SessionRests, sessionVars, SessionTypeOK
<1>2. ASSUME NEW p \in Daemons, SessionGone(p) PROVE SessionTypeOK'
  BY <1>2, NoSaveType
     DEF SessionGone, ForgetSession, SessionTypeOK, SaveRaces, SaveStates, Writers
<1>3. ASSUME NEW p \in Daemons, SessionTaken(p) PROVE SessionTypeOK'
  BY <1>3 DEF SessionTaken, LoadSession, Loadable, SessionTypeOK
<1> QED
  BY <1>1, <1>2, <1>3 DEF SessionChange

LEMMA TypeStep == TypeOK /\ [Next]_vars => TypeOK'
BY DaemonTypeStep, NextChanges, SessionChangeType, SessionStepType DEF TypeOK

\* Every variable of a daemon's life and of the session keeps its type: no step of one
\* process leaves another one at a place, with a victim or with tokens that do not exist.
THEOREM DaemonTypes == Spec => []TypeOK
<1>1. Init => TypeOK
  BY DaemonTypeInit, SessionTypeInit DEF TypeOK
<1> QED
  BY <1>1, TypeStep, PTL DEF Spec

(***************************************************************************)
(* The tray's answers.  Every change of the file moves the stamp on, so an  *)
(* answer or a cached one whose stamp is the file's is about the file as it *)
(* is.                                                                      *)
(***************************************************************************)

CheckedBefore == /\ check.at \in Nat => check.at <= stamp
                 /\ check.seen <= stamp
CacheCurrent  == check.pc = "idle" /\ check.checked /\ check.seen = stamp
                   => check.loggedIn = Loadable

CheckInv == TypeOK /\ CheckedBefore /\ CacheCurrent /\ LoggedInCurrent

LEMMA FileMoves ==
  ASSUME SessionChange \/ SessionStep
  PROVE  \/ UNCHANGED <<file, stamp, check>>
         \/ stamp' = stamp + 1 /\ check' = check
         \/ UNCHANGED <<file, stamp>> /\ (CheckStat \/ CheckLoad)
<1>1. CASE SessionChange
  BY <1>1 DEF SessionChange, SessionRests, sessionVars, SessionGone, SessionTaken
<1>2. CASE SessionStep
  BY <1>2 DEF SessionStep, Refresh, DaemonSaves, SaveOpens, SaveWrites, Login, LoginSaves, Logout,
     LogoutRemoves, CommandKilled, CheckStat, CheckLoad
<1> QED
  BY <1>1, <1>2

LEMMA CheckInit == Init => CheckInv
<1> SUFFICES ASSUME Init PROVE CheckInv
  OBVIOUS
<1>1. TypeOK
  BY DaemonTypeInit, SessionTypeInit DEF TypeOK
<1>2. stamp = 0 /\ check.seen = 0 /\ check.at = None /\ ~check.checked
  BY DEF Init, SessionInit
<1> QED
  BY <1>1, <1>2, SpecialIsNoToken DEF CheckInv, CheckedBefore, CacheCurrent, LoggedInCurrent

LEMMA CheckStep == CheckInv /\ [Next]_vars => CheckInv'
<1> SUFFICES ASSUME CheckInv, [Next]_vars PROVE CheckInv'
  OBVIOUS
<1>1. TypeOK'
  BY TypeStep DEF CheckInv
<1>2. stamp \in Nat /\ check.seen \in Nat /\ check.at \in Nat \cup {None}
  BY DEF CheckInv, TypeOK, SessionTypeOK
<1>3. SessionChange \/ SessionStep
  BY NextChanges DEF CheckInv, TypeOK
<1>4. CASE UNCHANGED <<file, stamp, check>>
  BY <1>1, <1>4 DEF CheckInv, CheckedBefore, CacheCurrent, LoggedInCurrent, Loadable
<1>5. CASE stamp' = stamp + 1 /\ check' = check
  BY <1>1, <1>2, <1>5, SpecialIsNoToken DEF CheckInv, CheckedBefore, CacheCurrent, LoggedInCurrent
<1>6. CASE UNCHANGED <<file, stamp>> /\ (CheckStat \/ CheckLoad)
  <2>1. check \in [pc : {"idle", "load"}, checked : BOOLEAN, seen : Nat, loggedIn : BOOLEAN,
                   answer : BOOLEAN, at : Nat \cup {None}]
    BY DEF CheckInv, TypeOK, SessionTypeOK
  <2>2. Loadable' = Loadable
    BY <1>6 DEF Loadable
  <2>3. CASE CheckStat /\ file = None
    <3>1. PICK no \in BOOLEAN : no = FALSE
      OBVIOUS
    <3>2. check' = [Answer(no) EXCEPT !.checked = no]
      BY <2>3, <3>1 DEF CheckStat
    <3>3. /\ check'.at = stamp /\ check'.answer = no /\ check'.checked = no
          /\ check'.seen = check.seen
      <4>1. Answer(no) = [check EXCEPT !.pc = "idle", !.answer = no, !.at = stamp]
        BY <3>1 DEF Answer
      <4> QED
        BY <2>1, <3>2, <4>1
    <3> QED
      BY <1>1, <1>2, <1>6, <2>2, <2>3, <3>1, <3>3
         DEF CheckInv, CheckedBefore, CacheCurrent, LoggedInCurrent, Loadable
  <2>4. CASE CheckStat /\ file # None /\ check.checked /\ check.seen = stamp
    <3>1. check' = Answer(check.loggedIn) /\ check.pc = "idle"
      BY <2>4 DEF CheckStat
    <3>2. /\ check'.at = stamp /\ check'.answer = check.loggedIn
          /\ check'.seen = check.seen /\ check'.loggedIn = check.loggedIn
      BY <2>1, <3>1 DEF Answer
    <3> QED
      BY <1>1, <1>2, <1>6, <2>2, <2>4, <3>1, <3>2
         DEF CheckInv, CheckedBefore, CacheCurrent, LoggedInCurrent
  <2>5. CASE CheckStat /\ file # None /\ ~(check.checked /\ check.seen = stamp)
    <3>1. check' = [check EXCEPT !.pc = "load", !.seen = stamp]
      BY <2>5 DEF CheckStat
    <3>2. check'.pc = "load" /\ check'.seen = stamp /\ check'.at = check.at
          /\ check'.answer = check.answer
      BY <2>1, <3>1
    <3> QED
      BY <1>1, <1>2, <1>6, <2>2, <3>2
         DEF CheckInv, CheckedBefore, CacheCurrent, LoggedInCurrent
  <2>6. CASE CheckLoad
    <3>1. check' = [Answer(Loadable) EXCEPT !.checked = TRUE, !.loggedIn = Loadable]
      BY <2>6 DEF CheckLoad
    <3>2. /\ check'.at = stamp /\ check'.answer = Loadable
          /\ check'.seen = check.seen /\ check'.loggedIn = Loadable
      BY <2>1, <3>1 DEF Answer
    <3> QED
      BY <1>1, <1>2, <1>6, <2>2, <3>2
         DEF CheckInv, CheckedBefore, CacheCurrent, LoggedInCurrent
  <2> QED
    BY <1>6, <2>3, <2>4, <2>5, <2>6
<1> QED
  BY <1>3, <1>4, <1>5, <1>6, FileMoves

\* The tray's answer agrees with the session file until that changes again, whoever changes
\* it between the look at its time and size and the load.
THEOREM AnswersAreCurrent == Spec => []LoggedInCurrent
<1>1. CheckInv => LoggedInCurrent
  BY DEF CheckInv
<1> QED
  BY <1>1, CheckInit, CheckStep, PTL DEF Spec

(***************************************************************************)
(* Who has which tokens.  Proton issued every token there is, a login's     *)
(* session is nobody else's until the file has it, and a daemon that saves  *)
(* is the only one with the newest tokens of its session.                   *)
(***************************************************************************)

Blank == \A p \in Daemons : pc[p] \in Blanks => mem[p] = None /\ ~Saving(p)

Issued(t) == server[t.uid].is # "unused" /\ t.gen <= server[t.uid].gen

TokensIssued ==
  /\ file \in Tokens => Issued(file)
  /\ \A p \in Daemons : mem[p] \in Tokens => Issued(mem[p])
  /\ wanted \in Uids => server[wanted].is # "unused"

NewestSaved ==
  \A p \in Daemons : Saving(p) =>
    /\ mem[p] = saver[p].tokens
    /\ saver[p].tokens.gen = server[saver[p].tokens.uid].gen
    /\ file # saver[p].tokens
    /\ \A q \in Daemons \ {p} : mem[q] # saver[p].tokens

Fresh(u) ==
  /\ server[u].is # "unused" /\ server[u].gen = 0
  /\ wanted # u
  /\ file \in Tokens => file.uid # u
  /\ \A p \in Daemons : mem[p] \in Tokens => mem[p].uid # u

LoginIsNew ==
  /\ Saving(Command) <=> command = "login"
  /\ \A u \in Uids : Saving(Command) /\ saver[Command].tokens.uid = u =>
       saver[Command].tokens.gen = 0 /\ Fresh(u)

(***************************************************************************)
(* The file.  Unless a save crossed another change of the file, or was cut  *)
(* short, the file is as it should be, or whoever makes it so is under way.  *)
(***************************************************************************)

OpensLinked == \A w \in Writers : saver[w].unlinked => saver[w].pc = "write"

FileIsRight == IF wanted = None THEN file = None
               ELSE file = [uid |-> wanted, gen |-> server[wanted].gen]
SavesWanted == \E p \in Daemons : Saving(p) /\ saver[p].tokens.uid = wanted
Writes(w)   == saver[w].pc = "write"

NothingCrossed ==
  savesLost = {} =>
    /\ FileIsRight \/ SavesWanted \/ \E w \in Writers : Writes(w)
    /\ \A w \in Writers : Writes(w) => ~saver[w].unlinked /\ file = Torn
    /\ \A p \in Daemons : Writes(p) => saver[p].tokens.uid = wanted /\ ~Writes(Command)

TokensInv  == Blank /\ TokensIssued /\ NewestSaved /\ LoginIsNew
FileInv    == OpensLinked /\ NothingCrossed
SessionInv == TypeOK /\ TokensInv /\ FileInv

LEMMA TokenFields ==
  /\ \A t \in Tokens : t.uid \in Uids /\ t.gen \in Nat
  /\ \A s, t \in Tokens : s.uid = t.uid /\ s.gen = t.gen => s = t
BY DEF Tokens

LEMMA SessionTypes ==
  ASSUME TypeOK
  PROVE  /\ \A u \in Uids : server[u].gen \in Nat
         /\ file \in Tokens \cup {None, Torn}
         /\ \A p \in Daemons : mem[p] \in Tokens \cup {None}
         /\ \A w \in Writers : saver[w].tokens \in Tokens
         /\ wanted \in Uids \cup {None}
         /\ Daemons \subseteq Writers /\ Command \in Writers
BY SessionAssumption DEF TypeOK, SessionTypeOK, Writers

LEMMA SessionInvInit == Init => SessionInv
<1> SUFFICES ASSUME Init PROVE SessionInv
  OBVIOUS
<1>1. TypeOK
  BY DaemonTypeInit, SessionTypeInit DEF TypeOK
<1>2. /\ file = [uid |-> 1, gen |-> 0] /\ wanted = 1 /\ 1 \in Uids /\ command = "idle"
      /\ server[1] = [is |-> "live", gen |-> 0]
      /\ \A p \in Daemons : mem[p] = None
      /\ \A w \in Writers : saver[w].pc = "idle" /\ ~saver[w].unlinked
  BY SessionAssumption DEF Init, SessionInit, NoSave, Uids
<1>3. TokensInv
  BY <1>1, <1>2, SpecialIsNoToken, SessionTypes
     DEF TokensInv, Blank, TokensIssued, Issued, NewestSaved, LoginIsNew, Saving
<1>4. FileInv
  BY <1>1, <1>2, SpecialIsNoToken, SessionTypes
     DEF FileInv, OpensLinked, NothingCrossed, FileIsRight, Writes
<1> QED
  BY <1>1, <1>3, <1>4 DEF SessionInv

\* Only the owner of the newest tokens of a session is let refresh them, so a daemon that
\* saves meanwhile saves those of another session.
LEMMA RefreshKeepsSession ==
  ASSUME SessionInv, NEW p \in Daemons, Refresh(p), UNCHANGED pc
  PROVE  TokensInv' /\ FileInv'
<1>0. PICK u \in Uids, g \in 0 .. MaxRefreshes : u = mem[p].uid /\ g = mem[p].gen
  BY SessionTypes DEF SessionInv, Refresh, Tokens
<1> DEFINE new == [uid |-> u, gen |-> g + 1]
<1>1. /\ TypeOK /\ mem[p] \in Tokens /\ ~Saving(p) /\ g \in Nat
      /\ new \in Tokens /\ new \notin {None, Torn}
  BY <1>0, SessionTypes, SpecialIsNoToken, SessionAssumption DEF SessionInv, Refresh, Tokens
<1>2. server[u].gen = g /\ server[u].is = "live"
  BY <1>0 DEF Refresh, Accepted
<1>3. /\ \A v \in Uids : server'[v].is = server[v].is
      /\ \A v \in Uids : server'[v].gen = IF v = u THEN g + 1 ELSE server[v].gen
  BY <1>0, <1>1, <1>2 DEF Refresh, TypeOK, SessionTypeOK
<1>4. \A q \in Daemons : mem'[q] = IF q = p THEN new ELSE mem[q]
  BY <1>0, <1>1 DEF Refresh, TypeOK, SessionTypeOK, Tokens
<1>5. \A w \in Writers : saver'[w] = IF w = p THEN [pc |-> "open", tokens |-> new,
                                                   unlinked |-> FALSE] ELSE saver[w]
  BY <1>1, <1>4, SessionTypes DEF Refresh, BeginSave, TypeOK, SessionTypeOK
<1>6. UNCHANGED <<file, stamp, command, wanted, savesLost, pc>>
  BY DEF Refresh
<1>7. p \in Writers /\ p # Command /\ Daemons \subseteq Writers /\ Command \in Writers
  BY <1>1, SessionTypes, SpecialIsNoToken
<1>8. \A q \in Daemons : q # p /\ Saving(q) => saver[q].tokens.uid # u
  <2> SUFFICES ASSUME NEW q \in Daemons, q # p, Saving(q), saver[q].tokens.uid = u PROVE FALSE
    OBVIOUS
  <2>1. saver[q].tokens = mem[p]
    BY <1>0, <1>1, <1>2, <1>7, SessionTypes, TokenFields DEF SessionInv, TokensInv, NewestSaved
  <2> QED
    BY <2>1 DEF SessionInv, TokensInv, NewestSaved
<1>9. Blank'
  BY <1>1, <1>4, <1>5, <1>6, <1>7, SpecialIsNoToken DEF SessionInv, TokensInv, Blank, Saving
<1>10. TokensIssued'
  <2>1. \A t \in Tokens : Issued(t) => Issued(t)'
    BY <1>1, <1>2, <1>3, TokenFields DEF Issued
  <2>2. Issued(new)'
    BY <1>1, <1>2, <1>3 DEF Issued
  <2> QED
    BY <1>1, <1>3, <1>4, <1>6, <2>1, <2>2, SessionTypes
       DEF SessionInv, TokensInv, TokensIssued, Issued
<1>11. NewestSaved'
  <2> SUFFICES ASSUME NEW q \in Daemons, Saving(q)'
               PROVE  /\ mem'[q] = saver'[q].tokens
                      /\ saver'[q].tokens.gen = server'[saver'[q].tokens.uid].gen
                      /\ file' # saver'[q].tokens
                      /\ \A r \in Daemons \ {q} : mem'[r] # saver'[q].tokens
    BY DEF NewestSaved
  <2>1. CASE q = p
    <3>1. saver'[q].tokens = new /\ mem'[q] = new /\ new.uid = u /\ new.gen = g + 1
      BY <1>4, <1>5, <1>7, <2>1
    <3>2. \A t \in Tokens : Issued(t) => t # new
      BY <1>1, <1>2, <3>1 DEF Issued
    <3> QED
      BY <1>1, <1>3, <1>4, <1>6, <2>1, <3>1, <3>2, SessionTypes
         DEF SessionInv, TokensInv, TokensIssued
  <2>2. CASE q # p
    <3>1. saver'[q] = saver[q] /\ Saving(q) /\ mem'[q] = mem[q] /\ saver[q].tokens \in Tokens
      BY <1>1, <1>4, <1>5, <1>7, <2>2, SessionTypes DEF Saving
    <3>2. saver[q].tokens.uid # u /\ saver[q].tokens.uid \in Uids
      BY <1>8, <2>2, <3>1, TokenFields
    <3>3. saver[q].tokens # new
      BY <3>2
    <3> QED
      BY <1>3, <1>4, <1>6, <3>1, <3>2, <3>3 DEF SessionInv, TokensInv, NewestSaved
  <2> QED
    BY <2>1, <2>2
<1>12. LoginIsNew'
  <2>1. saver'[Command] = saver[Command]
    BY <1>5, <1>7
  <2>2. \A v \in Uids : Fresh(v) => Fresh(v)'
    BY <1>0, <1>1, <1>3, <1>4, <1>6 DEF Fresh
  <2> QED
    BY <1>6, <2>1, <2>2 DEF SessionInv, TokensInv, LoginIsNew, Saving
<1>13. OpensLinked'
  BY <1>5, <1>7 DEF SessionInv, FileInv, OpensLinked
<1>14. NothingCrossed'
  <2> SUFFICES ASSUME savesLost = {} PROVE NothingCrossed'
    BY <1>6 DEF NothingCrossed
  <2>1. \A w \in Writers : Writes(w)' <=> Writes(w)
    BY <1>1, <1>5 DEF Writes, Saving
  <2>2. \A w \in Writers : Writes(w) => saver'[w] = saver[w]
    BY <1>1, <1>5 DEF Writes, Saving
  <2>3. SavesWanted => SavesWanted'
    BY <1>1, <1>5, <1>6, <1>7 DEF SavesWanted, Saving
  <2>4. FileIsRight => FileIsRight' \/ SavesWanted'
    <3>1. CASE wanted = u
      BY <1>5, <1>6, <1>7, <3>1 DEF SavesWanted, Saving
    <3>2. CASE wanted # u
      BY <1>1, <1>3, <1>6, <3>2, SessionTypes DEF FileIsRight
    <3> QED
      BY <3>1, <3>2
  <2> QED
    BY <1>6, <1>7, <2>1, <2>2, <2>3, <2>4 DEF SessionInv, FileInv, NothingCrossed
<1> QED
  BY <1>9, <1>10, <1>11, <1>12, <1>13, <1>14 DEF TokensInv, FileInv

\* A save of a daemon.
LEMMA DaemonSavesKeepsSession ==
  ASSUME SessionInv, NEW p \in Daemons, DaemonSaves(p), UNCHANGED pc
  PROVE  TokensInv' /\ FileInv'
<1>1. /\ TypeOK /\ Saving(p) /\ p \in Writers /\ p # Command
      /\ Daemons \subseteq Writers /\ Command \in Writers
  BY SessionTypes, SpecialIsNoToken
     DEF SessionInv, DaemonSaves, SaveOpens, SaveWrites, Saving
<1>2. UNCHANGED <<server, mem, command, wanted, pc>>
  BY DEF DaemonSaves
<1>3. PICK t \in Tokens : t = saver[p].tokens /\ t = mem[p]
  BY <1>1, SessionTypes DEF SessionInv, TokensInv, NewestSaved
<1>4. \A q \in Writers \ {p} : saver'[q] = saver[q]
  BY <1>1 DEF DaemonSaves, SaveOpens, SaveWrites, TypeOK, SessionTypeOK
<1>5. \/ /\ SaveOpens(p) /\ Writes(p)' /\ saver'[p].tokens = t
         /\ saver'[p].unlinked = saver[p].unlinked /\ saver[p].pc = "open" /\ file' = Torn
      \/ /\ SaveWrites(p) /\ Writes(p) /\ ~Saving(p)' /\ ~saver'[p].unlinked
         /\ file' \in Written(p)
  <2>1. CASE SaveOpens(p)
    BY <1>1, <1>3, <2>1 DEF SaveOpens, Writes, TypeOK, SessionTypeOK
  <2>2. CASE SaveWrites(p)
    BY <1>1, <2>2 DEF SaveWrites, NoSave, Writes, Saving, TypeOK, SessionTypeOK
  <2> QED
    BY <2>1, <2>2 DEF DaemonSaves
<1>6. Written(p) \subseteq {file, t, Torn}
  BY <1>3 DEF Written
<1>7. file' = Torn \/ file' = file \/ file' = t
  BY <1>5, <1>6
<1>8. \A q \in Daemons : Saving(q)' => Saving(q) /\ saver'[q].tokens = saver[q].tokens
  BY <1>1, <1>3, <1>4, <1>5 DEF Saving
<1>9. Blank'
  BY <1>2, <1>8 DEF SessionInv, TokensInv, Blank
<1>10. TokensIssued'
  BY <1>2, <1>3, <1>7, SpecialIsNoToken DEF SessionInv, TokensInv, TokensIssued, Issued
<1>11. NewestSaved'
  <2> SUFFICES ASSUME NEW q \in Daemons, Saving(q)'
               PROVE  /\ mem'[q] = saver'[q].tokens
                      /\ saver'[q].tokens.gen = server'[saver'[q].tokens.uid].gen
                      /\ file' # saver'[q].tokens
                      /\ \A r \in Daemons \ {q} : mem'[r] # saver'[q].tokens
    BY DEF NewestSaved
  <2>1. /\ Saving(q) /\ saver'[q].tokens = saver[q].tokens /\ saver[q].tokens \in Tokens
        /\ file # saver[q].tokens /\ \A r \in Daemons \ {q} : mem[r] # saver[q].tokens
    BY <1>1, <1>8, SessionTypes DEF SessionInv, TokensInv, NewestSaved
  <2>2. file' # saver[q].tokens
    BY <1>3, <1>5, <1>7, <2>1, SpecialIsNoToken
  <2> QED
    BY <1>2, <2>1, <2>2 DEF SessionInv, TokensInv, NewestSaved
<1>12. LoginIsNew'
  BY <1>1, <1>2, <1>3, <1>4, <1>7, SpecialIsNoToken
     DEF SessionInv, TokensInv, LoginIsNew, Fresh, Saving
<1>13. OpensLinked'
  BY <1>4, <1>5 DEF SessionInv, FileInv, OpensLinked, Writes
<1>14. NothingCrossed'
  <2> SUFFICES ASSUME savesLost' = {} PROVE NothingCrossed'
    BY DEF NothingCrossed
  <2>1. savesLost = {} /\ command = "idle" /\ t.uid = wanted
    BY <1>3 DEF DaemonSaves, Crossed
  <2>2. ~Saving(Command) /\ ~Writes(Command)
    BY <2>1 DEF SessionInv, TokensInv, LoginIsNew, Saving, Writes
  <2>3. \A q \in Daemons \ {p} : ~Writes(q)
    <3>1. SUFFICES ASSUME NEW q \in Daemons \ {p}, Writes(q) PROVE FALSE
      OBVIOUS
    <3>2. saver[q].tokens.uid = wanted /\ Saving(q)
      BY <2>1, <3>1 DEF SessionInv, FileInv, NothingCrossed, Writes, Saving
    <3>3. saver[q].tokens = t
      BY <1>1, <1>3, <2>1, <3>1, <3>2, SessionTypes, TokenFields
         DEF SessionInv, TokensInv, NewestSaved
    <3> QED
      BY <1>3, <3>1, <3>2, <3>3 DEF SessionInv, TokensInv, NewestSaved
  <2>4. \A q \in Writers \ {p} : ~Writes(q) /\ ~Writes(q)'
    BY <1>4, <2>2, <2>3 DEF Writes, Writers
  <2>5. CASE SaveOpens(p)
    <3>1. ~saver[p].unlinked
      BY <1>1, <1>5, <2>5 DEF SessionInv, FileInv, OpensLinked, SaveOpens
    <3> QED
      BY <1>1, <1>2, <1>3, <1>5, <2>1, <2>4, <2>5, <3>1
         DEF NothingCrossed, SaveOpens, SaveWrites, Writes
  <2>6. CASE SaveWrites(p)
    <3>1. ~saver[p].unlinked /\ file = Torn
      BY <1>1, <2>1, <2>6 DEF SessionInv, FileInv, NothingCrossed, SaveWrites, Writes
    <3>2. file' = t
      BY <1>3, <2>6, <3>1 DEF SaveWrites, Written, Loadable
    <3>3. t.gen = server[t.uid].gen /\ wanted # None
      BY <1>1, <1>3, <2>1, TokenFields, SpecialIsNoToken DEF SessionInv, TokensInv, NewestSaved
    <3>4. t = [uid |-> wanted, gen |-> server[wanted].gen]
      BY <2>1, <3>3 DEF Tokens
    <3>5. FileIsRight'
      BY <1>2, <3>2, <3>3, <3>4 DEF FileIsRight
    <3>6. ~Writes(p)'
      BY <1>5, <2>6 DEF SaveOpens, SaveWrites, Writes, Saving
    <3> QED
      BY <1>1, <2>4, <3>5, <3>6 DEF NothingCrossed
  <2> QED
    BY <2>5, <2>6 DEF DaemonSaves
<1> QED
  BY <1>9, <1>10, <1>11, <1>12, <1>13, <1>14 DEF TokensInv, FileInv

\* A login gets a session that nobody has tokens of.
LEMMA LoginKeepsSession ==
  ASSUME SessionInv, Login, UNCHANGED pc
  PROVE  TokensInv' /\ FileInv'
<1>1. /\ TypeOK /\ Daemons \subseteq Writers /\ Command \in Writers /\ Command \notin Daemons
      /\ wanted \in Uids \cup {None} /\ None \notin Uids
  BY SessionTypes, SpecialIsNoToken DEF SessionInv
<1>2. PICK u \in Uids, revokes \in BOOLEAN :
        /\ server[u].is = "unused"
        /\ server' = [v \in Uids |->
             CASE v = u -> [is |-> "live", gen |-> 0]
               [] v # u /\ revokes /\ server[v].is = "live" ->
                    [server[v] EXCEPT !.is = "revoked"]
               [] OTHER -> server[v]]
        /\ BeginSave(Command, [uid |-> u, gen |-> 0])
  BY DEF Login
<1>3. /\ server'[u].is = "live" /\ server'[u].gen = 0
      /\ \A v \in Uids \ {u} : server'[v].gen = server[v].gen
      /\ \A v \in Uids \ {u} : server[v].is # "unused" => server'[v].is # "unused"
  BY <1>1, <1>2 DEF TypeOK, SessionTypeOK
<1>4. UNCHANGED <<file, stamp, mem, wanted, savesLost, pc>> /\ command' = "login"
      /\ command = "idle"
  BY DEF Login
<1>5. \A w \in Writers \ {Command} : saver'[w] = saver[w]
  BY <1>1, <1>2 DEF BeginSave, TypeOK, SessionTypeOK
<1>6. saver'[Command] = [pc |-> "open", tokens |-> [uid |-> u, gen |-> 0], unlinked |-> FALSE]
  BY <1>1, <1>2 DEF BeginSave, TypeOK, SessionTypeOK
<1>7. /\ wanted # u
      /\ file \in Tokens => file.uid # u
      /\ \A p \in Daemons : mem[p] \in Tokens => mem[p].uid # u
  BY <1>2, SpecialIsNoToken DEF SessionInv, TokensInv, TokensIssued, Issued
<1>8. Blank'
  BY <1>1, <1>4, <1>5 DEF SessionInv, TokensInv, Blank, Saving
<1>9. TokensIssued'
  BY <1>1, <1>3, <1>4, <1>7, TokenFields DEF SessionInv, TokensInv, TokensIssued, Issued
<1>10. NewestSaved'
  <2> SUFFICES ASSUME NEW q \in Daemons, Saving(q)'
               PROVE  /\ mem'[q] = saver'[q].tokens
                      /\ saver'[q].tokens.gen = server'[saver'[q].tokens.uid].gen
                      /\ file' # saver'[q].tokens
                      /\ \A r \in Daemons \ {q} : mem'[r] # saver'[q].tokens
    BY DEF NewestSaved
  <2>1. saver'[q] = saver[q] /\ Saving(q) /\ mem[q] = saver[q].tokens /\ mem[q] \in Tokens
    BY <1>1, <1>5, SessionTypes DEF SessionInv, TokensInv, NewestSaved, Saving
  <2>2. saver[q].tokens.uid \in Uids \ {u}
    BY <1>7, <2>1, TokenFields
  <2> QED
    BY <1>3, <1>4, <2>1, <2>2 DEF SessionInv, TokensInv, NewestSaved
<1>11. LoginIsNew'
  BY <1>3, <1>4, <1>6, <1>7 DEF LoginIsNew, Saving, Fresh
<1>12. OpensLinked'
  BY <1>5, <1>6 DEF SessionInv, FileInv, OpensLinked
<1>13. NothingCrossed'
  <2>1. ~Writes(Command) /\ ~Writes(Command)'
    BY <1>4, <1>6 DEF SessionInv, TokensInv, LoginIsNew, Saving, Writes
  <2>2. \A w \in Writers : Writes(w)' => Writes(w) /\ saver'[w] = saver[w]
    BY <1>5, <2>1 DEF Writes
  <2>3. \A w \in Writers : Writes(w) => Writes(w)'
    BY <1>5, <2>1 DEF Writes
  <2>4. SavesWanted => SavesWanted'
    BY <1>1, <1>4, <1>5 DEF SavesWanted, Saving
  <2>5. FileIsRight => FileIsRight'
    BY <1>1, <1>3, <1>4, <1>7 DEF FileIsRight
  <2> QED
    BY <1>1, <1>4, <2>1, <2>2, <2>3, <2>4, <2>5 DEF SessionInv, FileInv, NothingCrossed
<1> QED
  BY <1>8, <1>9, <1>10, <1>11, <1>12, <1>13 DEF TokensInv, FileInv

LEMMA LoginSavesKeepsSession ==
  ASSUME SessionInv, LoginSaves, UNCHANGED pc
  PROVE  TokensInv' /\ FileInv'
<1>1. /\ TypeOK /\ Daemons \subseteq Writers /\ Command \in Writers /\ Command \notin Daemons
      /\ command = "login" /\ Saving(Command)
  BY SessionTypes, SpecialIsNoToken DEF SessionInv, TokensInv, LoginIsNew, LoginSaves
<1>2. UNCHANGED <<server, mem, pc>>
  BY DEF LoginSaves
<1>3. PICK t \in Tokens, u \in Uids : t = saver[Command].tokens /\ u = t.uid
  BY <1>1, SessionTypes, TokenFields
<1>4. t.gen = 0 /\ Fresh(u) /\ server[u].gen = 0 /\ server[u].is # "unused"
  BY <1>1, <1>3 DEF SessionInv, TokensInv, LoginIsNew, Fresh
<1>5. \A q \in Daemons : saver'[q] = saver[q]
  BY <1>1 DEF LoginSaves, SaveOpens, SaveWrites, TypeOK, SessionTypeOK
<1>6. \/ /\ SaveOpens(Command) /\ Writes(Command)' /\ saver'[Command].tokens = t
         /\ saver'[Command].unlinked = saver[Command].unlinked /\ file' = Torn
         /\ saver[Command].pc = "open" /\ UNCHANGED <<command, wanted>>
      \/ /\ SaveWrites(Command) /\ Writes(Command) /\ ~Saving(Command)'
         /\ ~saver'[Command].unlinked /\ file' \in Written(Command)
         /\ command' = "idle" /\ wanted' = u
  <2>1. CASE SaveOpens(Command)
    BY <1>1, <1>3, <2>1 DEF LoginSaves, SaveOpens, Writes, TypeOK, SessionTypeOK
  <2>2. CASE SaveWrites(Command)
    BY <1>1, <1>3, <2>2 DEF LoginSaves, SaveWrites, NoSave, Writes, Saving, TypeOK, SessionTypeOK
  <2> QED
    BY <2>1, <2>2 DEF LoginSaves
<1>7. file' = Torn \/ file' = file \/ file' = t
  BY <1>3, <1>6 DEF Written
<1>8. Blank'
  BY <1>2, <1>5 DEF SessionInv, TokensInv, Blank, Saving
<1>9. TokensIssued'
  BY <1>2, <1>3, <1>4, <1>6, <1>7, SpecialIsNoToken
     DEF SessionInv, TokensInv, TokensIssued, Issued
<1>10. NewestSaved'
  <2> SUFFICES ASSUME NEW q \in Daemons, Saving(q)'
               PROVE  /\ mem'[q] = saver'[q].tokens
                      /\ saver'[q].tokens.gen = server'[saver'[q].tokens.uid].gen
                      /\ file' # saver'[q].tokens
                      /\ \A r \in Daemons \ {q} : mem'[r] # saver'[q].tokens
    BY DEF NewestSaved
  <2>1. saver'[q] = saver[q] /\ Saving(q) /\ mem[q] = saver[q].tokens /\ mem[q] \in Tokens
    BY <1>1, <1>5, SessionTypes DEF SessionInv, TokensInv, NewestSaved, Saving
  <2>2. saver[q].tokens # t /\ saver[q].tokens # Torn
    BY <1>3, <1>4, <2>1, SpecialIsNoToken DEF Fresh
  <2> QED
    BY <1>2, <1>7, <2>1, <2>2 DEF SessionInv, TokensInv, NewestSaved
<1>11. LoginIsNew'
  <2>1. CASE SaveOpens(Command)
    <3>1. /\ Saving(Command)' /\ saver'[Command].tokens = t /\ UNCHANGED <<command, wanted>>
          /\ file' = Torn
      BY <1>6, <2>1 DEF SaveOpens, SaveWrites, Saving, Writes
    <3> QED
      BY <1>1, <1>2, <1>3, <1>4, <3>1, SpecialIsNoToken DEF LoginIsNew, Fresh
  <2>2. CASE SaveWrites(Command)
    BY <1>6, <2>2 DEF LoginIsNew, SaveOpens, SaveWrites
  <2> QED
    BY <2>1, <2>2 DEF LoginSaves
<1>12. OpensLinked'
  BY <1>5, <1>6 DEF SessionInv, FileInv, OpensLinked, Writes, Writers
<1>13. NothingCrossed'
  <2> SUFFICES ASSUME savesLost' = {} PROVE NothingCrossed'
    BY DEF NothingCrossed
  <2>1. savesLost = {} /\ \A p \in Daemons : ~Saving(p)
    BY DEF LoginSaves
  <2>2. \A p \in Daemons : ~Writes(p)'
    BY <1>5, <2>1 DEF Saving, Writes
  <2>3. CASE SaveOpens(Command)
    <3>1. /\ Writes(Command)' /\ file' = Torn /\ ~saver'[Command].unlinked
      BY <1>1, <1>6, <2>3 DEF SaveOpens, SaveWrites, SessionInv, FileInv, OpensLinked
    <3> QED
      BY <1>1, <2>2, <3>1 DEF NothingCrossed, Writers, Writes
  <2>4. CASE SaveWrites(Command)
    <3>1. ~saver[Command].unlinked /\ file = Torn
      BY <1>1, <2>1, <2>4 DEF SessionInv, FileInv, NothingCrossed, SaveWrites, Writes
    <3>2. file' = t /\ wanted' = u /\ ~Writes(Command)'
      BY <1>3, <1>6, <2>4, <3>1
         DEF SaveOpens, SaveWrites, Written, Loadable, Writes, Saving
    <3>3. t = [uid |-> u, gen |-> server[u].gen]
      BY <1>3, <1>4 DEF Tokens
    <3>4. FileIsRight'
      BY <1>2, <1>3, <3>2, <3>3, SpecialIsNoToken DEF FileIsRight
    <3> QED
      BY <2>2, <3>2, <3>4 DEF NothingCrossed, Writers
  <2> QED
    BY <2>3, <2>4 DEF LoginSaves
<1> QED
  BY <1>8, <1>9, <1>10, <1>11, <1>12, <1>13 DEF TokensInv, FileInv

LEMMA LogoutKeepsSession ==
  ASSUME SessionInv, Logout, UNCHANGED pc
  PROVE  TokensInv' /\ FileInv'
<1>1. /\ TypeOK /\ file \in Tokens /\ file.uid \in Uids /\ None \notin Uids
      /\ Daemons \subseteq Writers /\ \A w \in Writers : saver[w].tokens.uid \in Uids
  BY SessionTypes, TokenFields, SpecialIsNoToken DEF SessionInv, Logout, Loadable
<1>2. UNCHANGED <<file, stamp, mem, saver, wanted, savesLost, pc>>
      /\ command = "idle" /\ command' = "logout"
  BY DEF Logout
<1>3. /\ \A v \in Uids : server'[v].gen = server[v].gen
      /\ \A v \in Uids : server[v].is # "unused" => server'[v].is # "unused"
  BY <1>1 DEF Logout, TypeOK, SessionTypeOK
<1>4. Blank'
  BY <1>2 DEF SessionInv, TokensInv, Blank, Saving
<1>5. TokensIssued'
  BY <1>2, <1>3, TokenFields DEF SessionInv, TokensInv, TokensIssued, Issued
<1>6. NewestSaved'
  BY <1>1, <1>2, <1>3 DEF SessionInv, TokensInv, NewestSaved, Saving
<1>7. LoginIsNew'
  BY <1>2 DEF SessionInv, TokensInv, LoginIsNew, Saving
<1>8. OpensLinked'
  BY <1>2 DEF SessionInv, FileInv, OpensLinked
<1>9. FileIsRight => FileIsRight'
  BY <1>1, <1>2, <1>3, SessionTypes DEF FileIsRight
<1>10. NothingCrossed'
  BY <1>2, <1>9 DEF SessionInv, FileInv, NothingCrossed, SavesWanted, Writes, Saving
<1> QED
  BY <1>4, <1>5, <1>6, <1>7, <1>8, <1>10 DEF TokensInv, FileInv

LEMMA LogoutRemovesKeepsSession ==
  ASSUME SessionInv, LogoutRemoves, UNCHANGED pc
  PROVE  TokensInv' /\ FileInv'
<1>1. /\ TypeOK /\ Daemons \subseteq Writers /\ Command \in Writers
  BY SessionTypes DEF SessionInv
<1>2. UNCHANGED <<server, mem, pc>> /\ file' = None /\ wanted' = None
      /\ command = "logout" /\ command' = "idle"
  BY DEF LogoutRemoves
<1>3. /\ \A w \in Writers : saver'[w].pc = saver[w].pc /\ saver'[w].tokens = saver[w].tokens
      /\ \A w \in Writers : saver'[w].unlinked => saver[w].pc = "write"
  <2> SUFFICES ASSUME NEW w \in Writers
               PROVE  /\ saver'[w].pc = saver[w].pc /\ saver'[w].tokens = saver[w].tokens
                      /\ saver'[w].unlinked => saver[w].pc = "write"
    OBVIOUS
  <2>1. saver'[w] = [saver[w] EXCEPT !.unlinked = saver[w].pc = "write"]
    BY DEF LogoutRemoves
  <2>2. saver[w] \in [pc : {"idle", "open", "write"}, tokens : Tokens, unlinked : BOOLEAN]
    BY <1>1 DEF TypeOK, SessionTypeOK
  <2> QED
    BY ZenonT(30), <2>1, <2>2
<1>4. ~Saving(Command)
  BY <1>2 DEF SessionInv, TokensInv, LoginIsNew
<1>5. Blank'
  BY <1>1, <1>2, <1>3 DEF SessionInv, TokensInv, Blank, Saving
<1>6. TokensIssued'
  BY <1>2, SpecialIsNoToken DEF SessionInv, TokensInv, TokensIssued, Issued
<1>7. NewestSaved'
  BY <1>1, <1>2, <1>3, SessionTypes, SpecialIsNoToken
     DEF SessionInv, TokensInv, NewestSaved, Saving
<1>8. LoginIsNew'
  BY <1>1, <1>2, <1>3, <1>4 DEF LoginIsNew, Saving
<1>9. OpensLinked'
  BY <1>3 DEF OpensLinked
<1>10. NothingCrossed'
  <2> SUFFICES ASSUME savesLost' = {} PROVE NothingCrossed'
    BY DEF NothingCrossed
  <2>1. \A p \in Daemons : ~Saving(p)
    BY DEF LogoutRemoves
  <2>2. \A w \in Writers : ~Writes(w)'
    BY <1>3, <1>4, <2>1 DEF Writes, Saving, Writers
  <2> QED
    BY <1>1, <1>2, <2>2 DEF NothingCrossed, FileIsRight
<1> QED
  BY <1>5, <1>6, <1>7, <1>8, <1>9, <1>10 DEF TokensInv, FileInv

LEMMA KilledKeepsSession ==
  ASSUME SessionInv, CommandKilled, UNCHANGED pc
  PROVE  TokensInv' /\ FileInv'
<1>1. /\ TypeOK /\ Daemons \subseteq Writers /\ Command \in Writers /\ Command \notin Daemons
  BY SessionTypes, SpecialIsNoToken DEF SessionInv
<1>2. UNCHANGED <<server, file, mem, wanted, pc>> /\ command' = "idle" /\ savesLost' # {}
  BY DEF CommandKilled
<1>3. /\ \A q \in Daemons : saver'[q] = saver[q]
      /\ ~Saving(Command)' /\ ~saver'[Command].unlinked
  BY <1>1 DEF CommandKilled, NoSave, Saving, TypeOK, SessionTypeOK
<1>4. Blank' /\ TokensIssued' /\ NewestSaved'
  BY <1>2, <1>3 DEF SessionInv, TokensInv, Blank, TokensIssued, Issued, NewestSaved, Saving
<1>5. LoginIsNew'
  BY <1>2, <1>3 DEF LoginIsNew
<1>6. OpensLinked' /\ NothingCrossed'
  BY <1>1, <1>2, <1>3 DEF SessionInv, FileInv, OpensLinked, NothingCrossed, Writers
<1> QED
  BY <1>4, <1>5, <1>6 DEF TokensInv, FileInv

\* A process takes the save it was in with it.
LEMMA GoneKeepsSession ==
  ASSUME SessionInv, NEW p \in Daemons, SessionGone(p)
  PROVE  TokensInv' /\ FileInv'
<1>1. /\ TypeOK /\ Daemons \subseteq Writers /\ Command \in Writers /\ p # Command
  BY SessionTypes, SpecialIsNoToken DEF SessionInv
<1>2. UNCHANGED <<server, file, command, wanted>>
  BY DEF SessionGone
<1>3. \A q \in Daemons : mem'[q] = IF q = p THEN None ELSE mem[q]
  BY <1>1 DEF SessionGone, ForgetSession, TypeOK, SessionTypeOK
<1>4. /\ \A w \in Writers \ {p} : saver'[w] = saver[w]
      /\ ~Saving(p)' /\ ~Writes(p)' /\ ~saver'[p].unlinked
  BY <1>1 DEF SessionGone, ForgetSession, NoSave, Saving, Writes, TypeOK, SessionTypeOK
<1>5. \A q \in Daemons : pc'[q] \in Blanks => q = p \/ pc[q] \in Blanks
  BY <1>1 DEF SessionGone, TypeOK, DaemonTypeOK
<1>6. Blank'
  BY <1>1, <1>3, <1>4, <1>5 DEF SessionInv, TokensInv, Blank, Saving
<1>7. TokensIssued'
  BY <1>2, <1>3, SpecialIsNoToken DEF SessionInv, TokensInv, TokensIssued, Issued
<1>8. NewestSaved'
  BY <1>1, <1>2, <1>3, <1>4, SessionTypes, SpecialIsNoToken
     DEF SessionInv, TokensInv, NewestSaved, Saving
<1>9. LoginIsNew'
  BY <1>1, <1>2, <1>3, <1>4, SpecialIsNoToken
     DEF SessionInv, TokensInv, LoginIsNew, Fresh, Saving
<1>10. OpensLinked'
  BY <1>4 DEF SessionInv, FileInv, OpensLinked
<1>11. NothingCrossed'
  <2> SUFFICES ASSUME savesLost' = {} PROVE NothingCrossed'
    BY DEF NothingCrossed
  <2>1. savesLost = {} /\ ~Saving(p)
    BY DEF SessionGone, ForgetSession
  <2>2. \A w \in Writers : Writes(w)' <=> Writes(w)
    BY <1>4, <2>1 DEF Writes, Saving
  <2>3. \A w \in Writers : Writes(w)' => saver'[w] = saver[w]
    BY <1>4
  <2>4. SavesWanted => SavesWanted'
    BY <1>1, <1>2, <1>4, <2>1 DEF SavesWanted, Saving
  <2>5. FileIsRight => FileIsRight'
    BY <1>2 DEF FileIsRight
  <2> QED
    BY <1>1, <1>2, <2>1, <2>2, <2>3, <2>4, <2>5 DEF SessionInv, FileInv, NothingCrossed
<1> QED
  BY <1>6, <1>7, <1>8, <1>9, <1>10, <1>11 DEF TokensInv, FileInv

\* A mount takes what the file has.
LEMMA TakenKeepsSession ==
  ASSUME SessionInv, NEW p \in Daemons, SessionTaken(p)
  PROVE  TokensInv' /\ FileInv'
<1>1. /\ TypeOK /\ Daemons \subseteq Writers /\ file \in Tokens /\ ~Saving(p)
  BY SessionTypes DEF SessionInv, SessionTaken, Loadable, TokensInv, Blank, Blanks
<1>2. UNCHANGED <<server, file, saver, command, wanted, savesLost>>
  BY DEF SessionTaken
<1>3. \A q \in Daemons : mem'[q] = IF q = p THEN file ELSE mem[q]
  BY <1>1 DEF SessionTaken, LoadSession, TypeOK, SessionTypeOK
<1>4. \A q \in Daemons : pc'[q] \in Blanks => q # p /\ pc[q] \in Blanks
  BY <1>1 DEF SessionTaken, TypeOK, DaemonTypeOK, Blanks
<1>5. Blank'
  BY <1>2, <1>3, <1>4 DEF SessionInv, TokensInv, Blank, Saving
<1>6. TokensIssued'
  BY <1>1, <1>2, <1>3 DEF SessionInv, TokensInv, TokensIssued, Issued
<1>7. NewestSaved'
  BY <1>1, <1>2, <1>3 DEF SessionInv, TokensInv, NewestSaved, Saving
<1>8. LoginIsNew'
  BY <1>1, <1>2, <1>3 DEF SessionInv, TokensInv, LoginIsNew, Fresh, Saving
<1>9. FileInv'
  BY <1>2 DEF SessionInv, FileInv, OpensLinked, NothingCrossed, FileIsRight, SavesWanted, Writes,
     Saving
<1> QED
  BY <1>5, <1>6, <1>7, <1>8, <1>9 DEF TokensInv

LEMMA RestsKeepsSession ==
  ASSUME SessionInv, UNCHANGED <<server, file, mem, saver, command, wanted, savesLost>>,
         \A p \in Daemons : pc'[p] \in Blanks => pc[p] \in Blanks
  PROVE  TokensInv' /\ FileInv'
<1>1. Blank'
  BY DEF SessionInv, TokensInv, Blank, Saving
<1>2. TokensIssued' /\ NewestSaved' /\ LoginIsNew'
  BY DEF SessionInv, TokensInv, TokensIssued, Issued, NewestSaved, LoginIsNew, Fresh, Saving
<1>3. FileInv'
  BY DEF SessionInv, FileInv, OpensLinked, NothingCrossed, FileIsRight, SavesWanted, Writes,
     Saving
<1> QED
  BY <1>1, <1>2, <1>3 DEF TokensInv

LEMMA SessionInvStep == SessionInv /\ [Next]_vars => SessionInv'
<1> SUFFICES ASSUME SessionInv, [Next]_vars PROVE SessionInv'
  OBVIOUS
<1>1. TypeOK'
  BY TypeStep DEF SessionInv
<1>2. CASE SessionRests
  BY <1>1, <1>2, RestsKeepsSession DEF SessionRests, sessionVars, SessionInv
<1>3. CASE \E p \in Daemons : SessionGone(p) \/ SessionTaken(p)
  BY <1>1, <1>3, GoneKeepsSession, TakenKeepsSession DEF SessionInv
<1>4. CASE SessionStep
  <2>1. UNCHANGED pc
    BY <1>4 DEF SessionStep, daemonVars, procVars
  <2>2. CASE CheckStat \/ CheckLoad
    BY <1>1, <2>1, <2>2, RestsKeepsSession DEF CheckStat, CheckLoad, SessionInv
  <2> QED
    BY <1>1, <1>4, <2>1, <2>2, RefreshKeepsSession, DaemonSavesKeepsSession, LoginKeepsSession,
       LoginSavesKeepsSession, LogoutKeepsSession, LogoutRemovesKeepsSession, KilledKeepsSession
       DEF SessionStep, SessionInv
<1> QED
  BY <1>2, <1>3, <1>4, NextChanges DEF SessionInv, TypeOK, SessionChange

\* With no save and no command under way the file has the newest tokens of the last login,
\* or is gone after a logout, whichever daemons refreshed and saved, unless one of the races
\* that savesLost names took place.
THEOREM SessionIsRestorable == Spec => []SessionRestorable
<1>1. SessionInv => SessionRestorable
  <2> SUFFICES ASSUME SessionInv, savesLost = {}, \A w \in Writers : ~Saving(w)
               PROVE  FileIsRight
    BY DEF SessionRestorable, FileIsRight
  <2>1. (\A w \in Writers : ~Writes(w)) /\ ~SavesWanted
    BY SessionTypes DEF SessionInv, Writes, Saving, SavesWanted
  <2> QED
    BY <2>1 DEF SessionInv, FileInv, NothingCrossed
<1> QED
  BY <1>1, SessionInvInit, SessionInvStep, PTL DEF Spec
=============================================================================
