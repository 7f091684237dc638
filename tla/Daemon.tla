------------------------------- MODULE Daemon -------------------------------
(***************************************************************************)
(* The life of the capture process: who starts it, which one captures,     *)
(* and what `start`, `stop`, `autostart` and `uninstall` make of it        *)
(* (internal/capture/daemon.go, teams.go).  One watcher holds the lock     *)
(* (instancelock.go); any other registers its directory with it and exits  *)
(* with 0, unless it was spawned to replace the holder (handoff.go).       *)
(* Four files say which process captures: watch.lock carries the pid that  *)
(* holds it, supervisor.json the pid that `start` spawned, the pidfile     *)
(* the one that polls, watch-runtime.json the build that took the lock     *)
(* (watch_runtime.go).  The platform's supervisor starts the job at login, *)
(* and again when it fails (internal/service).                             *)
(*                                                                         *)
(* A process is a pid; when it is gone the system may give the number to   *)
(* another program.  There are two builds: a process of the old one may    *)
(* find the new one on disk, and every command is of the new one.          *)
(***************************************************************************)
EXTENDS Integers, Sequences, FiniteSets, SequencesExt

CONSTANTS
  MaxPid,       \* how many processes a behaviour may have
  MaxRoots,     \* maxCaptureRoots
  Within,       \* pathWithin: the pairs <<d, r>> such that root r covers directory d
  Commands,     \* the terminals commands are given in
  Home, Tree,   \* the directory of the job, and that of each terminal
  Environments  \* the conditions a behaviour may have, with the commands that are given

ConditionKinds ==
  { "mac", "linux", "windows", \* the platform: exactly one
    "installed",   \* autostart is enabled when the behaviour begins
    "crash",       \* a process of ours may be killed, once
    "update",      \* a process of an old build may find the new one on disk
    "login",       \* the machine may be started again, once
    "reuse",       \* pids of processes that are gone are used again, one by another program
    "unrecorded",  \* watch-runtime.json may fail to be written
    "unregistered",\* so may capture-roots.json
    "unreachable", \* the supervisor may fail to be reached
    "probe" }      \* the lock may be probed while a process tries to take it

CommandKinds == {"start", "watch", "stop", "enable", "repair", "disable", "uninstall"}

NoPid == 0
Pids == 1..MaxPid
Dirs == {Home} \cup {Tree[c] : c \in Commands}

ASSUME DaemonAssumption ==
  /\ MaxPid \in Nat /\ MaxRoots \in Nat \ {0}
  /\ Within \subseteq Dirs \X Dirs
  /\ \A d \in Dirs : <<d, d>> \in Within
  /\ \A e \in Environments :
       /\ e.conditions \subseteq ConditionKinds
       /\ Cardinality(e.conditions \cap {"mac", "linux", "windows"}) = 1
       /\ e.before \in {"nothing", "start", "watch", "service"}
       /\ e.script \in [Commands -> Seq(CommandKinds)]

VARIABLES
  allowed,    \* what may still happen in this behaviour
  \* The processes of capture.
  at,         \* where each stands
  old,        \* is it of the old build
  marked,     \* was it spawned to replace the holder of the lock (EnvHandoff)
  dir,        \* the directory it would capture
  holder,     \* the process that holds the lock
  probed,     \* does a probe hold it
  \* The files.
  stamp,      \* the pid in watch.lock
  supervisor, \* the pid in supervisor.json
  pidfile,    \* the pid in claude-watcher.json, codex-watcher.json alike
  runtime,    \* watch-runtime.json: a pid and whether its build is the old one
  roots,      \* capture-roots.json
  \* The platform's supervisor.
  service,    \* is the unit there, is its program of the old build, is the job loaded,
              \* its pid, is it due to be started again
  \* The commands.
  todo,       \* those still to be given in each terminal
  cmd,        \* the one that runs there
  \* History.
  calm        \* has a `stop` reported that capture stopped, and nothing been asked for since

process == <<at, old, marked, dir, holder>>
files   == <<stamp, supervisor, pidfile, runtime>>
vars == <<allowed, process, probed, files, roots, service, todo, cmd, calm>>

-----------------------------------------------------------------------------
(* The processes.                                                           *)

Stages == { "unused",    \* not started yet
            "launched",  \* before it tries the lock
            "waiting",   \* spawned to replace the holder, it polls the lock
            "locked",    \* holds the lock and has stamped it
            "booting",   \* before its watchers write the pidfile
            "capturing",
            "leaving",   \* signalled while capturing
            "handing",   \* has spawned its replacement, before it exits
            "gone",
            "other" }    \* gone, and the number is that of another program
Ours == {"launched", "waiting", "locked", "booting", "capturing", "leaving", "handing"}

Alive(p)  == p # NoPid /\ at[p] \in Ours \cup {"other"}  \* processExists
IsOurs(p) == p # NoPid /\ at[p] \in Ours                 \* pidLooksLikeOurs

\* A number that nothing names any more may be used again.
Named(p) == \/ p \in {stamp, supervisor, pidfile, service.job}
            \/ runtime # <<>> /\ runtime[1] = p
            \/ \E c \in Commands : p \in cmd[c].targets \cup {cmd[c].child, cmd[c].pid, cmd[c].stale}
Free(p)  == at[p] = "unused" \/ ("reuse" \in allowed /\ at[p] = "gone" /\ ~Named(p))
Fresh(p) == Free(p) /\ \A q \in Pids : q < p => ~Free(q)
\* The processes after p has been launched.
Launched(stages, p) == [stages EXCEPT ![p] = "launched"]

\* SIGINT or SIGTERM: the watchers of a process that captures return; before they listen it dies at once.
Signalled(stages, S) ==
  [p \in Pids |-> IF p \notin S \/ stages[p] \notin Ours THEN stages[p]
                  ELSE IF stages[p] \in {"capturing", "leaving"} THEN "leaving" ELSE "gone"]
Killed(stages, S) == [p \in Pids |-> IF p \in S /\ stages[p] \in Ours THEN "gone" ELSE stages[p]]
\* A lock outlives no process that holds it.
HolderIn(stages) == IF holder # NoPid /\ stages[holder] \notin Ours THEN NoPid ELSE holder

\* watchRunning: the lock tells whether a watcher lives, its pid is for display.
WatchRunning == holder # NoPid
\* RunningCapture: the build is believed when its pid is the one that holds the lock.
RunsOld == WatchRunning /\ runtime # <<>> /\ runtime[1] = stamp /\ runtime[2]

\* Mutant: keeps the roots that the new one covers.
RegisteredBeside(rs, d) == LET kept == Append(rs, d) IN SubSeq(kept, Max({1, Len(kept) - MaxRoots + 1}), Len(kept))
\* RegisterCaptureRoot, under its lock: a root that covers d stays, one that d covers goes.
Covered(rs, d) == \E i \in 1..Len(rs) : <<d, rs[i]>> \in Within
Registered(rs, d) ==
  IF Covered(rs, d) THEN rs
  ELSE LET kept == Append(SelectSeq(rs, LAMBDA r : <<r, d>> \notin Within), d)
       IN  SubSeq(kept, Max({1, Len(kept) - MaxRoots + 1}), Len(kept))
RegisterRoot(d) == \/ roots' = Registered(roots, d)
                   \/ "unregistered" \in allowed /\ UNCHANGED roots

-----------------------------------------------------------------------------
(* The platform's supervisor (internal/service).                            *)

Platform == CHOOSE k \in {"mac", "linux", "windows"} : k \in allowed
Job == service.job

\* Status: launchctl print, systemctl is-active, schtasks /Query.
Loaded == CASE Platform = "mac"     -> service.loaded
            [] Platform = "linux"   -> IsOurs(Job)
            [] Platform = "windows" -> service.installed

\* The job after processes have failed: KeepAlive and Restart=on-failure revive it, Task Scheduler does not.
AfterFailure(s, S) ==
  IF s.job \notin S THEN s
  ELSE [s EXCEPT !.job = NoPid, !.due = s.loaded /\ Platform # "windows"]
\* An exit with 0 is not a failure.
AfterExit(s, p) == IF s.job = p THEN [s EXCEPT !.job = NoPid] ELSE s

\* The supervisor starts the job again, or at login.
Respawn(p) ==
  /\ service.due /\ Fresh(p)
  /\ at' = Launched(at, p)
  /\ old' = [old EXCEPT ![p] = service.old]
  /\ dir' = [dir EXCEPT ![p] = Home]
  /\ service' = [service EXCEPT !.due = FALSE, !.job = p]
  /\ UNCHANGED <<allowed, marked, holder, probed, files, roots, todo, cmd, calm>>

\* Stop: bootout, systemctl stop, schtasks /End.  The job is told to end and is not revived.
Disarmed == [service EXCEPT !.loaded = FALSE, !.due = FALSE]
\* Disable removes the unit as well; schtasks /Delete leaves the job running.
Removed == [Disarmed EXCEPT !.installed = FALSE]

-----------------------------------------------------------------------------
(* RunTeamsWatch.                                                           *)

TakeLock(p) ==
  /\ at[p] \in {"launched", "waiting"} /\ holder = NoPid /\ ~probed
  /\ holder' = p /\ stamp' = p
  /\ at' = [at EXCEPT ![p] = "locked"]
  /\ UNCHANGED <<allowed, old, marked, dir, probed, supervisor, pidfile, runtime, roots, service, todo, cmd, calm>>

\* The lock is taken, and this process was spawned to replace the holder: it polls (awaitWatchLock).
AwaitLock(p) ==
  /\ at[p] = "launched" /\ marked[p] /\ (holder # NoPid \/ probed)
  /\ at' = [at EXCEPT ![p] = "waiting"]
  /\ UNCHANGED <<allowed, old, marked, dir, holder, probed, files, roots, service, todo, cmd, calm>>

\* Mutant: a process spawned to replace the holder bows out of the lock as any other does.
GivesUpAlways(p) == at[p] \in {"launched", "waiting"}
\* The lock is taken, by the poll's end too: hand the directory over and exit with 0.
\* The process that spawned this one exits long before handoffLockWait has passed.
GivesUp(p) == \/ at[p] = "launched" /\ ~marked[p]
              \/ at[p] = "waiting" /\ holder # NoPid /\ at[holder] # "handing"
BowOut(p) ==
  /\ holder # NoPid \/ probed
  /\ GivesUp(p)
  /\ RegisterRoot(dir[p])
  /\ at' = [at EXCEPT ![p] = "gone"]
  /\ service' = AfterExit(service, p)
  /\ UNCHANGED <<allowed, old, marked, dir, holder, probed, files, todo, cmd, calm>>

\* recordWatchRuntime, best effort.
Record(p) ==
  /\ at[p] = "locked"
  /\ at' = [at EXCEPT ![p] = "booting"]
  /\ \/ runtime' = <<p, old[p]>>
     \/ "unrecorded" \in allowed /\ UNCHANGED runtime
  /\ UNCHANGED <<allowed, old, marked, dir, holder, probed, stamp, supervisor, pidfile, roots, service, todo, cmd, calm>>

\* The pidfile names a process that lives: the watchers refuse to run.
Rival(p) == Alive(pidfile) /\ pidfile # p

\* RunClaudeWatcher, RunCodexWatcher, RunCursorWatcher write their pidfiles; one that is stale is cleared.
Boot(p) ==
  /\ at[p] = "booting" /\ ~Rival(p)
  /\ pidfile' = p
  /\ at' = [at EXCEPT ![p] = "capturing"]
  /\ UNCHANGED <<allowed, old, marked, dir, holder, probed, stamp, supervisor, runtime, roots, service, todo, cmd, calm>>

\* The first watcher that returns ends the process; its error is the exit code.
BootFails(p) ==
  /\ at[p] = "booting" /\ Rival(p)
  /\ at' = [at EXCEPT ![p] = "gone"]
  /\ holder' = NoPid
  /\ runtime' = <<>>
  /\ service' = AfterFailure(service, {p})
  /\ UNCHANGED <<allowed, old, marked, dir, probed, stamp, supervisor, pidfile, roots, todo, cmd, calm>>

\* Every poll saves the watcher state, and with it the pid.
Heartbeat(p) ==
  /\ at[p] = "capturing" /\ pidfile # p
  /\ pidfile' = p
  /\ UNCHANGED <<allowed, process, probed, stamp, supervisor, runtime, roots, service, todo, cmd, calm>>

\* A signal ends the poll loop: the deferred calls clear the pidfile and the record, then drop the lock.
Leave(p) ==
  /\ at[p] = "leaving"
  /\ at' = [at EXCEPT ![p] = "gone"]
  /\ holder' = IF holder = p THEN NoPid ELSE holder
  /\ pidfile' = NoPid /\ runtime' = <<>>
  /\ service' = AfterExit(service, p)
  /\ UNCHANGED <<allowed, old, marked, dir, probed, stamp, supervisor, roots, todo, cmd, calm>>

\* The update is on disk where this build was.  On unix the new one replaces the image of this
\* process, and the lock is dropped with it.
Reexec(p) ==
  /\ "update" \in allowed /\ Platform # "windows"
  /\ at[p] = "capturing" /\ old[p]
  /\ old' = [old EXCEPT ![p] = FALSE]
  /\ at' = Launched(at, p)
  /\ holder' = NoPid
  /\ service' = [service EXCEPT !.old = FALSE]
  /\ UNCHANGED <<allowed, marked, dir, probed, files, roots, todo, cmd, calm>>

\* On windows a process of the new build is spawned, and this one exits.
Spawn(p, q) ==
  /\ "update" \in allowed /\ Platform = "windows"
  /\ at[p] = "capturing" /\ old[p] /\ Fresh(q)
  /\ at' = [Launched(at, q) EXCEPT ![p] = "handing"]
  /\ old' = [old EXCEPT ![q] = FALSE]
  /\ marked' = [marked EXCEPT ![q] = TRUE]
  /\ dir' = [dir EXCEPT ![q] = dir[p]]
  /\ service' = [service EXCEPT !.old = FALSE]
  /\ UNCHANGED <<allowed, holder, probed, files, roots, todo, cmd, calm>>

\* os.Exit runs no deferred call: the files stay as they are.
HandOver(p) ==
  /\ at[p] = "handing"
  /\ at' = [at EXCEPT ![p] = "gone"]
  /\ holder' = IF holder = p THEN NoPid ELSE holder
  /\ service' = AfterExit(service, p)
  /\ UNCHANGED <<allowed, old, marked, dir, probed, files, roots, todo, cmd, calm>>

-----------------------------------------------------------------------------
(* The commands.                                                            *)

Idle == [kind |-> "none", pc |-> "idle", targets |-> {}, child |-> NoPid, pid |-> NoPid,
         stale |-> NoPid, behind |-> NoPid, again |-> FALSE, warned |-> FALSE, alone |-> TRUE]

In(c, pc) == cmd[c].pc = pc
Goto(c, pc) == cmd' = [cmd EXCEPT ![c].pc = pc]
Done(c) == cmd' = [cmd EXCEPT ![c] = Idle]

First(kind) == CASE kind = "start"               -> "check"
                 [] kind = "watch"               -> "launch"
                 [] kind = "stop"                -> "collect"
                 [] kind \in {"enable","repair"} -> "bootout"
                 [] kind \in {"disable", "uninstall"} -> "disable"
Give(c) ==
  /\ In(c, "idle") /\ todo[c] # <<>>
  /\ cmd' = [d \in Commands |->
               IF d # c THEN [cmd[d] EXCEPT !.alone = @ /\ In(d, "idle")]
               ELSE [Idle EXCEPT !.kind = Head(todo[c]), !.pc = First(Head(todo[c])),
                                 !.alone = \A e \in Commands \ {c} : In(e, "idle")]]
  /\ todo' = [todo EXCEPT ![c] = Tail(@)]
  /\ calm' = (calm /\ Head(todo[c]) \in {"stop", "disable", "uninstall"})
  /\ UNCHANGED <<allowed, process, probed, files, roots, service>>

(* start: StartDaemon.                                                      *)

\* DaemonStatus, then watchRunning: is there capture already.
Check(c) ==
  /\ In(c, "check")
  /\ LET pid == IF Alive(supervisor) THEN supervisor ELSE IF WatchRunning THEN stamp ELSE NoPid
     IN  cmd' = [cmd EXCEPT ![c].pid = pid, ![c].pc = IF pid = NoPid THEN "spawn" ELSE "found"]
  /\ supervisor' = IF Alive(supervisor) THEN supervisor ELSE NoPid
  /\ UNCHANGED <<allowed, process, probed, stamp, pidfile, runtime, roots, service, todo, calm>>

\* Mutant: takes any capture that runs for the restart.
AnyCapture(c) == cmd[c].pid # NoPid
\* restartConfirmed: the process that was to go does not hold the lock.
RestartConfirmed(c) == cmd[c].pid # cmd[c].stale

\* StartTeamsDaemon on a capture that runs: one of an older build is stopped and started again, once.
StartTeamsDaemon(c) ==
  IF cmd[c].again
  THEN IF RestartConfirmed(c) THEN Goto(c, "rearm") ELSE Done(c)
  ELSE IF RunsOld
  THEN cmd' = [cmd EXCEPT ![c].stale = cmd[c].pid, ![c].behind = holder, ![c].pc = "collect"]
  ELSE Goto(c, "rearm")

\* StartDaemon on a capture that runs: widen it by this directory.
Found(c) ==
  /\ In(c, "found")
  /\ RegisterRoot(Tree[c])
  /\ StartTeamsDaemon(c)
  /\ UNCHANGED <<allowed, process, probed, files, service, todo, calm>>

\* A detached child, of the build the command is of.
StartChild(c, p) ==
  /\ In(c, "spawn") /\ Fresh(p)
  /\ RegisterRoot(Tree[c])
  /\ at' = Launched(at, p)
  /\ old' = [old EXCEPT ![p] = FALSE]
  /\ dir' = [dir EXCEPT ![p] = Tree[c]]
  /\ cmd' = [cmd EXCEPT ![c].child = p, ![c].pc = "save"]
  /\ UNCHANGED <<allowed, marked, holder, probed, files, service, todo, calm>>

SaveState(c) ==
  /\ In(c, "save")
  /\ supervisor' = cmd[c].child
  /\ Goto(c, "rearm")
  /\ UNCHANGED <<allowed, process, probed, stamp, pidfile, runtime, roots, service, todo, calm>>

\* rearmAutostart: a unit that is installed and not loaded is enabled again, nothing else is touched.
Rearm(c) ==
  /\ In(c, "rearm")
  /\ IF service.installed /\ ~Loaded THEN Goto(c, "bootout") ELSE Done(c)
  /\ UNCHANGED <<allowed, process, probed, files, roots, service, todo, calm>>

\* watch in the foreground: the terminal is taken until it captures or bows out.
Watch(c, p) ==
  /\ In(c, "launch") /\ Fresh(p)
  /\ at' = Launched(at, p)
  /\ old' = [old EXCEPT ![p] = FALSE]
  /\ dir' = [dir EXCEPT ![p] = Tree[c]]
  /\ cmd' = [cmd EXCEPT ![c].child = p, ![c].pc = "foreground"]
  /\ UNCHANGED <<allowed, marked, holder, probed, files, roots, service, todo, calm>>

Foreground(c) ==
  /\ In(c, "foreground") /\ at[cmd[c].child] \notin {"launched", "locked", "booting"}
  /\ Done(c)
  /\ UNCHANGED <<allowed, process, probed, files, roots, service, todo, calm>>

(* stop: StopTeamsDaemon.                                                   *)

\* Which processes are live and ours, before the supervisor ends the one it owns.
Collect(c) ==
  /\ In(c, "collect")
  /\ cmd' = [cmd EXCEPT ![c].targets = {p \in {supervisor, pidfile} : IsOurs(p)}, ![c].pc = "disarm"]
  /\ UNCHANGED <<allowed, process, probed, files, roots, service, todo, calm>>

\* The supervisor's own end of its job: a signal, or no more than that on windows.
JobEnded == IF Platform = "windows" THEN Killed(at, {Job}) ELSE Signalled(at, {Job})
EndJob == at' = JobEnded /\ holder' = HolderIn(JobEnded)

\* Manager.Stop, best effort; nothing when the unit is not there.
StopService ==
  IF service.installed THEN EndJob /\ service' = Disarmed
  ELSE UNCHANGED <<at, holder, service>>
Disarm(c) ==
  /\ In(c, "disarm")
  /\ \/ /\ StopService
        /\ Goto(c, "signal")
     \/ /\ "unreachable" \in allowed /\ service.installed
        /\ cmd' = [cmd EXCEPT ![c].pc = "signal", ![c].warned = TRUE]
        /\ UNCHANGED <<at, holder, service>>
  /\ UNCHANGED <<allowed, old, marked, dir, probed, files, roots, todo, calm>>

\* bootout and systemctl stop return when the job is gone.
JobSettled(c) == cmd[c].warned \/ service.loaded \/ Platform = "windows" \/ ~IsOurs(Job)

\* signalAndWaitForExit: SIGINT, which windows does not know.
Signal(c) ==
  /\ In(c, "signal") /\ JobSettled(c)
  /\ LET after == IF Platform = "windows" THEN at ELSE Signalled(at, cmd[c].targets)
     IN  /\ at' = after
         /\ holder' = HolderIn(after)
         /\ service' = AfterFailure(service, {p \in cmd[c].targets : at[p] # "gone" /\ after[p] = "gone"})
  /\ Goto(c, "await")
  /\ UNCHANGED <<allowed, old, marked, dir, probed, files, roots, todo, calm>>

\* A process that has not left within shutdownGrace is killed.
Await(c) ==
  /\ In(c, "await")
  /\ LET left == {p \in cmd[c].targets : IsOurs(p)}
         after == Killed(at, left)
     IN  /\ at' = after
         /\ holder' = HolderIn(after)
         /\ service' = AfterFailure(service, left)
  /\ Goto(c, "clear")
  /\ UNCHANGED <<allowed, old, marked, dir, probed, files, roots, todo, calm>>

Clear(c) ==
  /\ In(c, "clear")
  /\ supervisor' = NoPid /\ pidfile' = NoPid /\ runtime' = <<>>
  /\ Goto(c, "report")
  /\ UNCHANGED <<allowed, process, probed, stamp, roots, service, todo, calm>>

\* What is reported is what the lock says now; a start goes on to spawn the new build.
Report(c) ==
  /\ In(c, "report")
  /\ IF cmd[c].kind = "start"
     THEN cmd' = [cmd EXCEPT ![c].pc = "check", ![c].again = TRUE] /\ UNCHANGED calm
     ELSE /\ Done(c)
          /\ calm' = (~WatchRunning /\ ~cmd[c].warned /\ cmd[c].alone)
  /\ UNCHANGED <<allowed, process, probed, files, roots, service, todo>>

(* autostart, uninstall.                                                    *)

\* launchctl bootout ends the job that is loaded; the other platforms leave it alone.
Bootout(c) ==
  /\ In(c, "bootout")
  /\ IF cmd[c].kind = "repair" /\ ~service.installed THEN Done(c) /\ UNCHANGED <<at, holder, service>>
     ELSE /\ Goto(c, "bootstrap")
          /\ IF Platform = "mac" THEN EndJob /\ service' = [Disarmed EXCEPT !.installed = TRUE, !.old = FALSE]
             ELSE UNCHANGED <<at, holder>> /\ service' = [service EXCEPT !.installed = TRUE, !.old = FALSE]
  /\ UNCHANGED <<allowed, old, marked, dir, probed, files, roots, todo, calm>>

\* bootstrap and kickstart, enable --now, /Run: a job that runs is left to run.
Bootstrap(c, p) ==
  /\ In(c, "bootstrap") /\ Fresh(p) /\ (Platform = "mac" => ~IsOurs(Job))
  /\ \/ /\ ~IsOurs(Job)
        /\ at' = Launched(at, p)
        /\ old' = [old EXCEPT ![p] = service.old]
        /\ dir' = [dir EXCEPT ![p] = Home]
        /\ service' = [service EXCEPT !.loaded = TRUE, !.due = FALSE, !.job = p]
     \/ /\ IsOurs(Job)
        /\ service' = [service EXCEPT !.loaded = TRUE]
        /\ UNCHANGED <<at, old, dir>>
     \/ "unreachable" \in allowed /\ UNCHANGED <<at, old, dir, service>>
  /\ Done(c)
  /\ UNCHANGED <<allowed, marked, holder, probed, files, roots, todo, calm>>

\* autostart disable, and the first step of uninstall: an error does not end it.
Disable(c) ==
  /\ In(c, "disable")
  /\ \/ /\ service.installed
        /\ IF Platform = "windows" THEN UNCHANGED <<at, holder>> ELSE EndJob
        /\ service' = Removed
     \/ (~service.installed \/ "unreachable" \in allowed) /\ UNCHANGED <<at, holder, service>>
  /\ IF cmd[c].kind = "uninstall" THEN Goto(c, "collect") ELSE Done(c)
  /\ UNCHANGED <<allowed, old, marked, dir, probed, files, roots, todo, calm>>

-----------------------------------------------------------------------------
(* The machine.                                                             *)

Crash(p) ==
  /\ "crash" \in allowed /\ IsOurs(p)
  /\ allowed' = allowed \ {"crash"}
  /\ at' = Killed(at, {p})
  /\ holder' = HolderIn(Killed(at, {p}))
  /\ service' = AfterFailure(service, {p})
  /\ UNCHANGED <<old, marked, dir, probed, files, roots, todo, cmd, calm>>

\* The machine is started again: a unit that is installed is loaded and its job started.
Login ==
  /\ "login" \in allowed
  /\ allowed' = allowed \ {"login"}
  /\ at' = Killed(at, Pids) /\ holder' = NoPid /\ probed' = FALSE
  /\ service' = [service EXCEPT !.loaded = @ \/ service.installed, !.job = NoPid, !.due = service.installed]
  /\ cmd' = [c \in Commands |-> Idle]
  /\ calm' = FALSE
  /\ UNCHANGED <<old, marked, dir, files, roots, todo>>

Reuse(p) ==
  /\ "reuse" \in allowed /\ at[p] = "gone" /\ \A q \in Pids : at[q] # "other"
  /\ at' = [at EXCEPT ![p] = "other"]
  /\ UNCHANGED <<allowed, old, marked, dir, holder, probed, files, roots, service, todo, cmd, calm>>

\* watchLockHeld, by status, doctor, start or stop: a probe that finds the lock free holds it for a moment.
Probe ==
  /\ "probe" \in allowed /\ ~probed /\ holder = NoPid
  /\ allowed' = allowed \ {"probe"}
  /\ probed' = TRUE
  /\ UNCHANGED <<process, files, roots, service, todo, cmd, calm>>
ProbeEnds ==
  /\ probed
  /\ probed' = FALSE
  /\ UNCHANGED <<allowed, process, files, roots, service, todo, cmd, calm>>

-----------------------------------------------------------------------------
(* A daemon of the old build captures when the behaviour begins, started by a command, in the foreground, *)
(* or as the job; or nothing does.                                          *)
InitWith(e) ==
  LET runs == e.before # "nothing"
      first == IF runs THEN 1 ELSE NoPid
  IN  /\ allowed = e.conditions
      /\ at = [p \in Pids |-> IF p = first THEN "capturing" ELSE "unused"]
      /\ old = [p \in Pids |-> TRUE]
      /\ marked = [p \in Pids |-> FALSE]
      /\ dir = [p \in Pids |-> Home]
      /\ holder = first /\ stamp = first /\ pidfile = first
      /\ supervisor = IF e.before = "start" THEN 1 ELSE NoPid
      /\ runtime = IF runs THEN <<1, TRUE>> ELSE <<>>
      /\ roots = IF e.before = "start" THEN <<Home>> ELSE <<>>
      /\ service = [installed |-> "installed" \in e.conditions, old |-> TRUE, loaded |-> "installed" \in e.conditions,
                    job |-> IF e.before = "service" THEN 1 ELSE NoPid, due |-> FALSE]
      /\ todo = e.script
      /\ cmd = [c \in Commands |-> Idle]
      /\ probed = FALSE /\ calm = FALSE

Init == \E e \in Environments : InitWith(e)

CommandStep(c) ==
  \/ Check(c) \/ Found(c) \/ SaveState(c) \/ Rearm(c) \/ Foreground(c)
  \/ \E p \in Pids : StartChild(c, p) \/ Watch(c, p) \/ Bootstrap(c, p)
  \/ Collect(c) \/ Disarm(c) \/ Signal(c) \/ Await(c) \/ Clear(c) \/ Report(c)
  \/ Bootout(c) \/ Disable(c)

ProcessStep(p) ==
  \/ TakeLock(p) \/ AwaitLock(p) \/ Record(p) \/ Boot(p) \/ BootFails(p)
  \/ Leave(p) \/ HandOver(p)

Next ==
  \/ \E c \in Commands : CommandStep(c) \/ Give(c)
  \/ \E p \in Pids : \/ ProcessStep(p) \/ BowOut(p) \/ Heartbeat(p) \/ Reexec(p) \/ Respawn(p)
                     \/ Crash(p) \/ Reuse(p)
                     \/ \E q \in Pids : Spawn(p, q)
  \/ Login \/ Probe \/ ProbeEnds

\* A process runs on once it is started, so does a command; a supervisor does what it promises.
Fairness ==
  /\ \A c \in Commands : WF_vars(CommandStep(c))
  /\ \A p \in Pids : WF_vars(ProcessStep(p)) /\ WF_vars(BowOut(p)) /\ WF_vars(Respawn(p))
  /\ WF_vars(ProbeEnds)

Spec == Init /\ [][Next]_vars /\ Fairness

-----------------------------------------------------------------------------
(* Properties.                                                              *)

\* Every variable has its type, and the holder of the lock is a process of ours that lives.
TypeOK ==
  /\ at \in [Pids -> Stages]
  /\ old \in [Pids -> BOOLEAN] /\ marked \in [Pids -> BOOLEAN] /\ dir \in [Pids -> Dirs]
  /\ {holder, stamp, supervisor, pidfile, service.job} \subseteq Pids \cup {NoPid}
  /\ runtime = <<>> \/ runtime \in Pids \X BOOLEAN
  /\ WatchRunning => at[holder] \in Ours \ {"launched", "waiting"} /\ stamp = holder
  /\ Len(roots) <= MaxRoots
  /\ \A i, j \in 1..Len(roots) : i # j => <<roots[i], roots[j]>> \notin Within

\* A start that goes on after it has replaced an older build has replaced it: the process that
\* captured with that build does not hold the lock any more (restartConfirmed).
RestartHonest ==
  [][\A c \in Commands : In(c, "found") /\ cmd[c].again /\ cmd'[c].pc = "rearm" => holder # cmd[c].behind]_vars

\* What stop reported as stopped does not come back by itself: not from a supervisor that takes the
\* kill for a crash, not from a process that was on its way (StopTeamsDaemon).
StopSticks == calm => ~WatchRunning

\* start takes capture down only for a build that is older than its own: never for a record that
\* another process left behind, and for its own only while a process that has replaced its image has
\* yet to record the new one (RunningCapture, staleCapture).
OlderOnly ==
  [][\A c \in Commands : In(c, "found") /\ cmd'[c].pc = "collect" => old[holder] \/ at[holder] = "locked"]_vars

\* Capture is owed when a process is being replaced and when the supervisor has to revive its job.
Owed == \/ service.due
        \/ \E p \in Pids : at[p] = "handing" \/ (at[p] = "launched" /\ pidfile = p)
Capturing == \E p \in Pids : at[p] = "capturing"
Stopping == \E c \in Commands : cmd[c].pc \in {"collect", "disarm", "signal", "await", "clear", "disable", "bootout"}

\* What is owed is paid: after an update, a crash of the job or a login something captures, unless
\* a command asks for the opposite (awaitWatchLock, KeepAlive, Restart=on-failure).
Returns == Owed ~> (Capturing \/ Stopping)

\* A process that bows out of the lock leaves its directory with a watcher that holds it
\* (RunTeamsWatch).
HandedOver ==
  [][\A p \in Pids : at[p] \in {"launched", "waiting"} /\ at'[p] = "gone" /\ todo' = todo /\ cmd' = cmd
                     /\ allowed' = allowed => WatchRunning]_vars

\* What the commands report is so: what stop has stopped stays down, and a start replaces a
\* daemon that is to be replaced, no other, and says so only when it has (StartTeamsDaemon,
\* StopTeamsDaemon).
ReportsTrue == []StopSticks /\ RestartHonest /\ OlderOnly
=============================================================================
