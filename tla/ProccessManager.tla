--------------------------- MODULE ProccessManager ---------------------------
(***************************************************************************)
(* The class ProccessManager: it owns the supervised programs, launches    *)
(* and signals their processes, reaps the dead ones and applies reloads.   *)
(*                                                                         *)
(* Each method that changes state is an action here; Taskmaster decides    *)
(* when one is called.  The kernel's side of the calls is modelled by two  *)
(* tables: procs, the children of the daemon (fork, kill, waitid), and     *)
(* fds, the open pidfds (pidfd_open, close).  Both kinds of number are     *)
(* taken back by the kernel and handed out again.                          *)
(*                                                                         *)
(* Programs are indexed by name: m_programs as a function whose value is   *)
(* NoProgram for the names it does not hold.                               *)
(*                                                                         *)
(* The definitions named X_Something are variants of X with a seeded bug.  *)
(* Nothing uses them: PROJECT.json names the property each one breaks.     *)
(***************************************************************************)
EXTENDS Program

CONSTANTS
    Names,          \* names a config file may give to a program
    NoProgram,      \* m_programs has no program of this name
    Free,           \* a pid that no child of the daemon holds
    ExitCodes,      \* codes a process may exit with
    BySignal,       \* the outcome of a process that a signal killed
    Faults          \* what may fail: "launch" (pipe2 or fork), "pidfd"
                    \* (pidfd_open), "log" (the log, while a file is reloaded)

\* When both a pidfd and the log fail, launch ends before started(): the process
\* it made is lost.  This double fault is left out.
ASSUME FaultsAssumption ==
    Faults \subseteq {"launch", "pidfd"} \/ Faults \subseteq {"launch", "log"}
ASSUME ValuesAssumption ==
    /\ NoProgram \notin Program
    /\ BySignal \notin ExitCodes

VARIABLES
    programs,       \* m_programs
    procs,          \* the children of the daemon that it has not reaped
    fds             \* the process an open pidfd refers to, NoPid when closed

mgrVars == <<programs, procs, fds>>

\* A child runs the command of one program until it exits; it is then a zombie
\* until it is waited for.  `asked' is the hardest signal sent to it.
Proc ==
    [owner  : Names,
     status : {"alive", "zombie"},
     asked  : {"none", "stop", "kill"},
     how    : ExitCodes \cup {BySignal}]

ASSUME FreeAssumption == Free \notin Proc

MgrTypeOK ==
    /\ programs \in [Names -> Program \cup {NoProgram}]
    /\ procs \in [Pids -> Proc \cup {Free}]
    /\ fds \in [Fds -> Pids \cup {NoPid}]

MgrInit ==
    /\ programs = [n \in Names |-> NoProgram]
    /\ procs = [q \in Pids |-> Free]
    /\ fds = [d \in Fds |-> NoPid]

Known == {n \in Names : programs[n] # NoProgram}
Alive(q) == procs[q] # Free /\ procs[q].status = "alive"
Zombie(q) == procs[q] # Free /\ procs[q].status = "zombie"

hasLivePrograms_IgnoresStopping == \E n \in Known : Up(programs[n])
hasLivePrograms == \E n \in Known : Live(programs[n])

\* kill(2): nothing happens to a process that is already dead.
Signalled(table, targets, ask) ==
    [q \in Pids |->
        IF /\ q \in targets /\ table[q] # Free
           /\ table[q].status = "alive" /\ table[q].asked # "kill"
        THEN [table[q] EXCEPT !.asked = ask]
        ELSE table[q]]

-----------------------------------------------------------------------------
(* Launch *)

NewProc(n) ==
    [owner |-> n, status |-> "alive", asked |-> "none", how |-> BySignal]

\* What fork and pidfd_open return to the programs in L when they are launched,
\* in whatever order: pidOf[n] = NoPid when no process was created.  A cmd of
\* blanks, a failing pipe2 or fork, and a full process table end in the same
\* state.  A pidfd that one launch closes may serve the next.
LaunchResults(progs, table, open, L, pidOf, fdOf) ==
    /\ \A n \in L :
        \/ /\ pidOf[n] = NoPid /\ fdOf[n] = NoFd
           /\ \/ "launch" \in Faults
              \/ progs[n].cfg.cmd = BlankCmd
              \/ \A q \in Pids : table[q] # Free \/ \E m \in L : pidOf[m] = q
        \/ /\ pidOf[n] # NoPid
           /\ progs[n].cfg.cmd # BlankCmd
           /\ table[pidOf[n]] = Free
           /\ fdOf[n] = NoFd => "pidfd" \in Faults
           /\ fdOf[n] # NoFd =>
                \/ open[fdOf[n]] = NoPid
                \/ \E m \in L \ {n} : pidOf[m] # NoPid /\ progs[m].pidfd = fdOf[n]
    /\ \A m, n \in L :
        m # n => /\ pidOf[m] = pidOf[n] => pidOf[m] = NoPid
                 /\ fdOf[m] = fdOf[n] => fdOf[m] = NoFd

Launched(p, q, d) == IF q = NoPid THEN SetFatalError(p) ELSE Started(p, q, d)

\* launch() on each program of L.  progs, table and open are programs, procs
\* and fds as the calling method has left them.  Moving the new ProcessIO into
\* a program closes the pidfd it had.
Launch(progs, table, open, L) ==
    \E pidOf \in [L -> Pids \cup {NoPid}], fdOf \in [L -> Fds \cup {NoFd}] :
        /\ LaunchResults(progs, table, open, L, pidOf, fdOf)
        /\ programs' = [n \in Names |->
             IF n \in L THEN Launched(progs[n], pidOf[n], fdOf[n])
                        ELSE progs[n]]
        /\ procs' = [q \in Pids |->
             IF \E n \in L : pidOf[n] = q
             THEN NewProc(CHOOSE n \in L : pidOf[n] = q)
             ELSE table[q]]
        /\ fds' = [d \in Fds |->
             IF \E n \in L : fdOf[n] = d
             THEN pidOf[CHOOSE n \in L : fdOf[n] = d]
             ELSE IF \E n \in L : pidOf[n] # NoPid /\ progs[n].pidfd = d
                  THEN NoPid
                  ELSE open[d]]

-----------------------------------------------------------------------------
(* Manager lifecycle *)

Autostarting(f) == {n \in DOMAIN f : f[n].autostart}

\* f is the parsed configuration file: a function from names to configurations.
startManager(f) ==
    Launch([n \in Names |-> IF n \in DOMAIN f THEN NewProgram(f[n])
                                              ELSE NoProgram],
           procs, fds, Autostarting(f))

\* The state change and the signal that stop, restart, reload and shutdown share.
StopAndSignal(S) ==
    /\ programs' = [n \in Names |-> IF n \in S THEN Stopping(programs[n])
                                               ELSE programs[n]]
    /\ procs' = Signalled(procs, {programs[n].pid : n \in S}, "stop")
    /\ UNCHANGED fds

stopAllPrograms == StopAndSignal({n \in Known : Up(programs[n])})

-----------------------------------------------------------------------------
(* Process death *)

shouldRestart_IgnoresNever(p, how) ==
    p.cfg.autorestart = "unexpected" => how \notin p.cfg.exitcodes

shouldRestart(p, how) ==
    /\ p.cfg.autorestart # "never"
    /\ p.cfg.autorestart = "unexpected" => how \notin p.cfg.exitcodes

Reap_KeepsPidfd(n, p, again) ==
    Launch([programs EXCEPT ![n] = p],
           [procs EXCEPT ![fds[programs[n].pidfd]] = Free],
           fds, IF again THEN {n} ELSE {})

\* What every death has in common: the zombie is reaped and its pidfd closed,
\* p is what becomes of the program, and it is launched again or not.
Reap(n, p, again) ==
    Launch([programs EXCEPT ![n] = ClosePidFd(p)],
           [procs EXCEPT ![fds[programs[n].pidfd]] = Free],
           [fds EXCEPT ![programs[n].pidfd] = NoPid],
           IF again THEN {n} ELSE {})

handleStoppedDeath_ByPolicy(n) ==
    LET p == ApplyPendingConfig(Stopped(programs[n]))
        how == procs[fds[programs[n].pidfd]].how
    IN  /\ programs[n].state = "Stopping"
        /\ Reap(n, SetPendingRestart(p, FALSE),
                p.pendingRestart \/ shouldRestart(p, how))

handleStoppedDeath_DropsConfig(n) ==
    LET p == Stopped(programs[n])
        q == IF p.pendingRestart THEN ApplyPendingConfig(p) ELSE p
    IN  /\ programs[n].state = "Stopping"
        /\ Reap(n, SetPendingRestart(q, FALSE), p.pendingRestart)

handleStoppedDeath(n) ==
    LET p == ApplyPendingConfig(Stopped(programs[n]))
    IN  /\ programs[n].state = "Stopping"
        /\ Reap(n, SetPendingRestart(p, FALSE), p.pendingRestart)

handleStartFailure(n) ==
    LET p == IncRestartNum(Exited(programs[n]))
        giveUp == p.restarts >= p.cfg.startretries
    IN  /\ programs[n].state # "Stopping"
        /\ ~StartWindowPassed(programs[n])
        /\ Reap(n, IF giveUp THEN SetFatalError(p) ELSE p, ~giveUp)

handleStableDeath_NotExited(n) ==
    /\ programs[n].state # "Stopping"
    /\ StartWindowPassed(programs[n])
    /\ Reap(n, programs[n],
            shouldRestart(programs[n], procs[fds[programs[n].pidfd]].how))

handleStableDeath(n) ==
    /\ programs[n].state # "Stopping"
    /\ StartWindowPassed(programs[n])
    /\ Reap(n, Exited(programs[n]),
            shouldRestart(programs[n], procs[fds[programs[n].pidfd]].how))

\* waitid is called without WNOHANG: it returns only when the process is dead.
handleDeath(n) ==
    /\ Zombie(fds[programs[n].pidfd])
    /\ \/ handleStoppedDeath(n)
       \/ handleStartFailure(n)
       \/ handleStableDeath(n)

WatchedBy_UpOnly(d) ==
    {n \in Known : programs[n].pidfd = d /\ Up(programs[n])}

WatchedBy(d) == {n \in Known : programs[n].pidfd = d}

\* A ProcessExited event on descriptor d: ignored when no program has it now.
handleEvent(d) ==
    \/ \E n \in WatchedBy(d) : handleDeath(n)
    \/ WatchedBy(d) = {} /\ UNCHANGED mgrVars

-----------------------------------------------------------------------------
(* Timers *)

Confirmed(p) ==
    IF p.state = "Starting" /\ StartWindowPassed(p)
    THEN ResetRestarts(SetRunning(p))
    ELSE p

StopOverdue_NotRestarting ==
    {n \in Known : /\ programs[n].state = "Stopping"
                   /\ StopWindowPassed(programs[n])
                   /\ ~programs[n].pendingRestart}

StopOverdue ==
    {n \in Known : programs[n].state = "Stopping" /\ StopWindowPassed(programs[n])}

Removable_EvenLive == {n \in Known : programs[n].pendingRemoval}

\* Neither confirmStarted nor checkStopTimeouts makes a program live or not.
Removable == {n \in Known : programs[n].pendingRemoval /\ ~Live(programs[n])}

\* confirmStarted, checkStopTimeouts and removeMarkedPrograms, in this order.
checkTimers ==
    /\ programs' = [n \in Names |->
         IF n \in Removable THEN NoProgram
         ELSE IF n \in Known THEN Confirmed(programs[n])
         ELSE NoProgram]
    /\ procs' = Signalled(procs, {programs[n].pid : n \in StopOverdue}, "kill")
    /\ fds' = [d \in Fds |->
         IF \E n \in Removable : programs[n].pidfd = d THEN NoPid ELSE fds[d]]

-----------------------------------------------------------------------------
(* Commands *)

startProccess_OverStarting(n) ==
    IF n \in Known /\ programs[n].state # "Running"
    THEN Launch(programs, procs, fds, {n})
    ELSE UNCHANGED mgrVars

startProccess(n) ==
    IF n \in Known /\ ~Up(programs[n])
    THEN Launch(programs, procs, fds, {n})
    ELSE UNCHANGED mgrVars

stopProccess(n) ==
    IF n \in Known /\ Up(programs[n])
    THEN StopAndSignal({n})
    ELSE UNCHANGED mgrVars

restartProccess_AtOnce(n) ==
    IF n \in Known THEN Launch(programs, procs, fds, {n})
                   ELSE UNCHANGED mgrVars

restartProccess_NoSignal(n) ==
    IF n \in Known /\ Up(programs[n])
    THEN /\ programs' = [programs EXCEPT
                          ![n] = Stopping(SetPendingRestart(@, TRUE))]
         /\ UNCHANGED <<procs, fds>>
    ELSE startProccess(n)

restartProccess(n) ==
    IF n \in Known /\ Up(programs[n])
    THEN /\ programs' = [programs EXCEPT
                          ![n] = Stopping(SetPendingRestart(@, TRUE))]
         /\ procs' = Signalled(procs, {programs[n].pid}, "stop")
         /\ UNCHANGED fds
    ELSE startProccess(n)

-----------------------------------------------------------------------------
(* Reload *)

\* Of the programs in S: those the file no longer has, has otherwise, has first.
Removed(f, S) == (Known \cap S) \ DOMAIN f
Changed(f, S) == {n \in Known \cap S \cap DOMAIN f : f[n] # programs[n].cfg}
Added(f, S) == (DOMAIN f \cap S) \ Known

StopIfUp(p) == IF Up(p) THEN Stopping(p) ELSE p

Reconfigured_IdleLater(p, c) ==
    IF Live(p)
    THEN StopIfUp(SetPendingRestart(SetPendingConfig(p, c), c.autostart))
    ELSE SetPendingConfig(p, c)

Reconfigured_AtOnce(p, c) ==
    IF Live(p)
    THEN StopIfUp(SetPendingRestart(ApplyPendingConfig(SetPendingConfig(p, c)), c.autostart))
    ELSE ApplyPendingConfig(SetPendingConfig(p, c))

\* A program whose configuration changed takes the new one now, or when the
\* process that runs under the old one is dead.
Reconfigured(p, c) ==
    IF Live(p)
    THEN StopIfUp(SetPendingRestart(SetPendingConfig(p, c), c.autostart))
    ELSE ApplyPendingConfig(SetPendingConfig(p, c))

\* reloadManager as far as the programs of S, of which those of U are put in
\* place and not launched.
Reloaded(f, S, U) ==
    LET stopped == {n \in Removed(f, S) \cup Changed(f, S) : Up(programs[n])}
        idle == {n \in Changed(f, S) : ~Live(programs[n])}
    IN  Launch([n \in Names |->
                  IF n \in Removed(f, S)
                  THEN StopIfUp(SetPendingRemoval(programs[n], TRUE))
                  ELSE IF n \in Changed(f, S) THEN Reconfigured(programs[n], f[n])
                  ELSE IF n \in Added(f, S) THEN NewProgram(f[n])
                  ELSE programs[n]],
               Signalled(procs, {programs[n].pid : n \in stopped}, "stop"),
               fds,
               (Autostarting(f) \cap (idle \cup Added(f, S))) \ U)

reloadManager(f) == Reloaded(f, Names, {})

\* The log throws: each program is logged before it is touched, a new one once
\* it is in place, and one whose launch fails before it is made fatal.  The
\* programs of the file come after those the manager holds.
reloadCutShort(f, S) ==
    /\ "log" \in Faults
    /\ S \subseteq Known \/ Known \subseteq S
    /\ \E U \in SUBSET S :
        /\ \A m, n \in U : m = n
        /\ \A n \in U \cap Known :
            "launch" \in Faults \/ (n \in DOMAIN f /\ f[n].cmd = BlankCmd)
        /\ Reloaded(f, S, U)

-----------------------------------------------------------------------------
(* The processes and the clock *)

Die(q, how) ==
    /\ Alive(q)
    /\ procs' = [procs EXCEPT ![q].status = "zombie", ![q].asked = "none",
                              ![q].how = how]
    /\ UNCHANGED <<programs, fds>>

\* The time points of two programs were taken at different instants, so their
\* whole seconds elapse at different instants too.
Age(n) ==
    /\ n \in Known
    /\ programs' = [programs EXCEPT ![n] = Aged(@)]
    /\ UNCHANGED <<procs, fds>>
=============================================================================
