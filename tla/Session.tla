------------------------------ MODULE Session ------------------------------
(***************************************************************************)
(* internal/auth: the session file, the tokens a daemon holds in memory,    *)
(* the commands login and logout, and the tray's check whether somebody is  *)
(* logged in.  The tokens of a session are its UID and the number of times  *)
(* they were refreshed.  The key password, which has a keyring or a field   *)
(* of the file to live in, is left out.                                     *)
(*                                                                         *)
(* os.WriteFile truncates the file and then writes it, so a save is two     *)
(* steps and a reader between them finds a torn file.                       *)
(*                                                                         *)
(* The actions here leave the daemons' life alone; Daemon composes them     *)
(* with it.                                                                 *)
(***************************************************************************)
EXTENDS Integers, FiniteSets

CONSTANTS
  Daemons,      \* processes that run "mount -foreground", one life each
  None,
  Command,      \* the process of login or logout
  Torn,         \* the content of a file that was truncated or mixed up
  MaxLogins,    \* bound: logins, the one at the start included
  MaxRefreshes  \* bound: refreshes of the tokens of one session

Uids    == 1 .. MaxLogins
Tokens  == [uid : Uids, gen : 0 .. MaxRefreshes]
Writers == Daemons \cup {Command}

ASSUME SessionAssumption ==
  /\ MaxLogins \in Nat \ {0} /\ MaxRefreshes \in Nat
  /\ None # Torn /\ {None, Torn} \cap (Tokens \cup Nat \cup Writers) = {}
  /\ Command \notin Daemons

VARIABLES
  server,      \* external: per session whether Proton accepts it, and its newest tokens
  file,        \* session.json
  stamp,       \* its mtime and size: a number that every change of the file moves on
  mem,         \* the tokens in each daemon's Session
  saver,       \* the Save each process is in
  command,     \* the login or logout that runs
  check,       \* LoggedInCheck: its cache, where it stands, and its last answer
  wanted,      \* history: the session of the last login that ended, None after a logout
  savesLost    \* history: the races a save took part in

sessionVars == <<server, file, stamp, mem, saver, command, check, wanted, savesLost>>

NoSave == [pc |-> "idle", tokens |-> [uid |-> 1, gen |-> 0], unlinked |-> FALSE]

\* killedMidSave: the process died with refreshed tokens it had not saved.  crossedSave: a
\* daemon saved while a login or logout did.  olderSession: a daemon saved the tokens of a
\* session that a login or logout had replaced.
SaveRaces == {"killedMidSave", "crossedSave", "olderSession"}

SessionTypeOK ==
  /\ server \in [Uids -> [is : {"unused", "live", "revoked"}, gen : 0 .. MaxRefreshes]]
  /\ file \in Tokens \cup {None, Torn}
  /\ stamp \in Nat
  /\ mem \in [Daemons -> Tokens \cup {None}]
  /\ saver \in [Writers -> [pc : {"idle", "open", "write"}, tokens : Tokens,
                            unlinked : BOOLEAN]]
  /\ command \in {"idle", "login", "logout"}
  /\ check \in [pc : {"idle", "load"}, checked : BOOLEAN, seen : Nat, loggedIn : BOOLEAN,
                answer : BOOLEAN, at : Nat \cup {None}]
  /\ wanted \in Uids \cup {None}
  /\ savesLost \subseteq SaveRaces

SessionInit ==
  /\ server = [u \in Uids |-> [is |-> IF u = 1 THEN "live" ELSE "unused", gen |-> 0]]
  /\ file = [uid |-> 1, gen |-> 0]
  /\ stamp = 0
  /\ mem = [p \in Daemons |-> None]
  /\ saver = [w \in Writers |-> NoSave]
  /\ command = "idle"
  /\ check = [pc |-> "idle", checked |-> FALSE, seen |-> 0, loggedIn |-> FALSE,
              answer |-> FALSE, at |-> None]
  /\ wanted = 1
  /\ savesLost = {}

\* Load finds a session it can parse.
Loadable == file \notin {None, Torn}
Accepted(t) == server[t.uid].is = "live" /\ server[t.uid].gen = t.gen
Saving(w) == saver[w].pc # "idle"

-----------------------------------------------------------------------------
(* Save.                                                                    *)

BeginSave(w, t) == saver' = [saver EXCEPT ![w] = [pc |-> "open", tokens |-> t,
                                                  unlinked |-> FALSE]]

\* What a daemon's save does to the file of somebody else.
Crossed(p) ==
  savesLost' = savesLost
    \cup (IF command # "idle" THEN {"crossedSave"} ELSE {})
    \cup (IF saver[p].tokens.uid # wanted THEN {"olderSession"} ELSE {})

\* os.WriteFile opens the file with O_TRUNC, creating it when it is gone.
SaveOpens(w) ==
  /\ saver[w].pc = "open"
  /\ saver' = [saver EXCEPT ![w].pc = "write"]
  /\ file' = Torn /\ stamp' = stamp + 1

\* What it leaves in the file.  Over a whole content, which another writer put there
\* meanwhile, a shorter one leaves the tail of that.
Written(w) ==
  CASE saver[w].unlinked -> {file}
    [] ~saver[w].unlinked /\ Loadable -> {saver[w].tokens, Torn}
    [] OTHER -> {saver[w].tokens}

SaveWrites(w) ==
  /\ saver[w].pc = "write"
  /\ file' \in Written(w)
  /\ stamp' = stamp + 1
  /\ saver' = [saver EXCEPT ![w] = NoSave]

DaemonSaves(p) ==
  /\ SaveOpens(p) \/ SaveWrites(p)
  /\ Crossed(p)
  /\ UNCHANGED <<server, mem, command, check, wanted>>

-----------------------------------------------------------------------------
(* Client's AuthHandler.  go-proton-api calls it under the lock it refreshes *)
(* with (external), so the saves of one process follow one another.          *)

\* The handler saves before it stores the new tokens.
WrongRefresh(p) ==
  /\ mem[p] # None /\ Accepted(mem[p]) /\ ~Saving(p)
  /\ mem[p].gen < MaxRefreshes
  /\ server' = [server EXCEPT ![mem[p].uid].gen = @ + 1]
  /\ mem' = [mem EXCEPT ![p].gen = @ + 1]
  /\ BeginSave(p, mem[p])
  /\ UNCHANGED <<file, stamp, command, check, wanted, savesLost>>

Refresh(p) ==
  /\ mem[p] # None /\ Accepted(mem[p]) /\ ~Saving(p)
  /\ mem[p].gen < MaxRefreshes
  /\ server' = [server EXCEPT ![mem[p].uid].gen = @ + 1]
  /\ mem' = [mem EXCEPT ![p].gen = @ + 1]
  /\ BeginSave(p, mem'[p])
  /\ UNCHANGED <<file, stamp, command, check, wanted, savesLost>>

\* Load, by the mount.
LoadSession(p) == mem' = [mem EXCEPT ![p] = file]

\* The process ends: its memory goes, and a save it was in.
ForgetSession(p) ==
  /\ mem' = [mem EXCEPT ![p] = None]
  /\ saver' = [saver EXCEPT ![p] = NoSave]
  /\ savesLost' = IF Saving(p) THEN savesLost \cup {"killedMidSave"} ELSE savesLost

-----------------------------------------------------------------------------
(* The commands login and logout.                                           *)

\* Proton may end the older sessions of the account with it (external).
Login ==
  /\ command = "idle"
  /\ \E u \in Uids, revokes \in BOOLEAN :
       /\ server[u].is = "unused" /\ \A v \in Uids : server[v].is = "unused" => u <= v
       /\ server' = [v \in Uids |->
            CASE v = u -> [is |-> "live", gen |-> 0]
              [] v # u /\ revokes /\ server[v].is = "live" -> [server[v] EXCEPT !.is = "revoked"]
              [] OTHER -> server[v]]
       /\ BeginSave(Command, [uid |-> u, gen |-> 0])
  /\ command' = "login"
  /\ UNCHANGED <<file, stamp, mem, check, wanted, savesLost>>

LoginSaves ==
  /\ command = "login"
  /\ SaveOpens(Command) \/ SaveWrites(Command)
  /\ LET ends == saver[Command].pc = "write" IN
     /\ command' = IF ends THEN "idle" ELSE command
     /\ wanted' = IF ends THEN saver[Command].tokens.uid ELSE wanted
  /\ savesLost' = IF \E p \in Daemons : Saving(p) THEN savesLost \cup {"crossedSave"}
                  ELSE savesLost
  /\ UNCHANGED <<server, mem, check>>

\* Logout asks Proton to end the session of the file, which may fail, ...
Logout ==
  /\ command = "idle" /\ Loadable
  /\ \E revoked \in BOOLEAN :
       server' = [server EXCEPT ![file.uid].is = IF revoked THEN "revoked" ELSE @]
  /\ command' = "logout"
  /\ UNCHANGED <<file, stamp, mem, saver, check, wanted, savesLost>>

\* ... and removes the file in either case.
LogoutRemoves ==
  /\ command = "logout"
  /\ file' = None /\ stamp' = stamp + 1
  /\ saver' = [w \in Writers |-> [saver[w] EXCEPT !.unlinked = saver[w].pc = "write"]]
  /\ command' = "idle" /\ wanted' = None
  /\ savesLost' = IF \E p \in Daemons : Saving(p) THEN savesLost \cup {"crossedSave"}
                  ELSE savesLost
  /\ UNCHANGED <<server, mem, check>>

\* The command is interrupted.
CommandKilled ==
  /\ command # "idle"
  /\ command' = "idle"
  /\ saver' = [saver EXCEPT ![Command] = NoSave]
  /\ savesLost' = savesLost \cup {"killedMidSave"}
  /\ UNCHANGED <<server, file, stamp, mem, check, wanted>>

-----------------------------------------------------------------------------
(* LoggedInCheck, which a tray calls every few seconds.                      *)

\* An answer, and when it was given.
Answer(b) == [check EXCEPT !.pc = "idle", !.answer = b, !.at = stamp]

\* The cache is good for as long as the file is there.
WrongCheckStat ==
  /\ check.pc = "idle"
  /\ check' = CASE file = None -> [Answer(FALSE) EXCEPT !.checked = FALSE]
                [] file # None /\ check.checked -> Answer(check.loggedIn)
                [] OTHER -> [check EXCEPT !.pc = "load", !.seen = stamp]
  /\ UNCHANGED <<server, file, stamp, mem, saver, command, wanted, savesLost>>

\* A missing file is logged out, an unchanged one is what it was.
CheckStat ==
  /\ check.pc = "idle"
  /\ check' = CASE file = None -> [Answer(FALSE) EXCEPT !.checked = FALSE]
                [] file # None /\ check.checked /\ check.seen = stamp -> Answer(check.loggedIn)
                [] OTHER -> [check EXCEPT !.pc = "load", !.seen = stamp]
  /\ UNCHANGED <<server, file, stamp, mem, saver, command, wanted, savesLost>>

\* Load, whose result is kept under what Stat said before it.
CheckLoad ==
  /\ check.pc = "load"
  /\ check' = [Answer(Loadable) EXCEPT !.checked = TRUE, !.loggedIn = Loadable]
  /\ UNCHANGED <<server, file, stamp, mem, saver, command, wanted, savesLost>>

-----------------------------------------------------------------------------
(* Properties.                                                               *)

\* With no save and no command under way, the session file holds the newest tokens of the
\* last login, so that the next mount is let in; after a logout there is no file.
\* (auth.Client's handler against Save, Login and Logout.)
SessionRestorable ==
  (command = "idle" /\ savesLost = {} /\ \A w \in Writers : ~Saving(w)) =>
    IF wanted = None THEN file = None
    ELSE file = [uid |-> wanted, gen |-> server[wanted].gen]

\* What the tray answers agrees with the file until that changes again, although it loads
\* the session only when the file's mtime or size changed, and both may change while it
\* does.  (auth.LoggedInCheck.)
LoggedInCurrent == check.at = stamp => check.answer = Loadable
=============================================================================
