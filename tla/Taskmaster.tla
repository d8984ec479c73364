----------------------------- MODULE Taskmaster ------------------------------
(***************************************************************************)
(* The daemon: Taskmaster::run, its epoll loop, and the handlers it calls. *)
(*                                                                         *)
(* The daemon is one thread.  An iteration of the loop tests whether to    *)
(* leave, takes a batch of events, handles them one by one, runs the       *)
(* timers and, the first time it finds a shutdown requested, signals every *)
(* program.  Processes exit and time passes between any two of its steps.  *)
(***************************************************************************)
EXTENDS ProccessManager, FiniteSets

CONSTANTS
    Files,          \* the valid config files the operator may write
    Commands,       \* what clients ask for
    Signals,        \* the signals the operator sends to the daemon
    MaxLines,       \* bound: commands that arrive in one batch
    MaxStrays,      \* bound: numbers that stray exit events of one batch have
    ShutdownLimit,  \* the 30 seconds of shutdownTimedOut, scaled
    PatientOperator \* TRUE when the operator waits for stops to complete

ASSUME FilesAssumption ==
    \A f \in Files : DOMAIN f \subseteq Names /\ f \in [DOMAIN f -> Configs]

ASSUME DaemonAssumption ==
    /\ Commands \subseteq {"start", "stop", "restart", "reload", "shutdown",
                           "other"}
    /\ Signals \subseteq {"TERM", "HUP"}
    /\ MaxLines \in Nat
    /\ MaxStrays \in Nat
    /\ ShutdownLimit \in Nat
    /\ PatientOperator \in BOOLEAN

VARIABLES
    pc,             \* where the daemon is in main and in the loop of run
    exits,          \* exits reported by the batch, still to be handled
    strays,         \* other ProcessExited events of the batch, of no exit
    lines,          \* client commands of the batch still to be handled
    signal,         \* the batch holds a SignalReceived event
    shuttingDown,   \* m_shutting_down
    signalsSent,    \* signals_sent
    shutdownAge,    \* seconds since m_shutdown_start, saturated
    loaded,         \* history: what the config files loaded so far ask for
    heldDown        \* history: programs whose last accepted order was a stop

loopVars == <<exits, strays, lines, signal, shuttingDown, signalsSent, shutdownAge>>
history == <<loaded, heldDown>>
vars == <<programs, procs, fds, pc, exits, strays, lines, signal, shuttingDown,
          signalsSent, shutdownAge, loaded, heldDown>>

NoFile == [n \in {} |-> NoConfig]
PartialFiles == UNION {[S -> Configs] : S \in SUBSET Names}

(* Type invariant: every variable keeps the shape it has in the code. *)
TypeOK ==
    /\ MgrTypeOK
    /\ pc \in {"init", "top", "dispatch", "stopall", "exited"}
    /\ exits \subseteq Fds
    /\ strays \subseteq Fds
    /\ lines \in 0 .. MaxLines
    /\ signal \in BOOLEAN
    /\ shuttingDown \in BOOLEAN
    /\ signalsSent \in BOOLEAN
    /\ shutdownAge \in 0 .. ShutdownLimit
    /\ loaded \in PartialFiles
    /\ heldDown \subseteq Names

Init ==
    /\ MgrInit
    /\ pc = "init"
    /\ exits = {} /\ strays = {} /\ lines = 0 /\ signal = FALSE
    /\ shuttingDown = FALSE /\ signalsSent = FALSE /\ shutdownAge = 0
    /\ loaded = NoFile /\ heldDown = {}

-----------------------------------------------------------------------------
(* Start of the daemon *)

LoadFirst ==
    /\ pc = "init"
    /\ \E f \in Files :
        /\ startManager(f)
        /\ loaded' = f
    /\ pc' = "top"
    /\ UNCHANGED <<loopVars, heldDown>>

\* loadProgramsConf throws and main returns: there is no config to run.
RefuseFirst ==
    /\ pc = "init"
    /\ pc' = "exited"
    /\ UNCHANGED <<mgrVars, loopVars, history>>

-----------------------------------------------------------------------------
(* The top of the loop *)

shutdownTimedOut_Never == FALSE     \* seeded bug: no limit
shutdownTimedOut == shutdownAge >= ShutdownLimit

LeaveIdle ==
    /\ pc = "top" /\ shuttingDown /\ ~hasLivePrograms
    /\ pc' = "exited"
    /\ UNCHANGED <<mgrVars, loopVars, history>>

LeaveOnTimeout ==
    /\ pc = "top" /\ shuttingDown /\ hasLivePrograms /\ shutdownTimedOut
    /\ pc' = "exited"
    /\ UNCHANGED <<mgrVars, loopVars, history>>

\* epoll_wait reports every open pidfd whose process is dead.  EventLoop types an
\* event by its number: a closed pipe that a forked child still holds is reported
\* as the exit of whatever process the pidfd of that number is for now.  An empty
\* batch is the timeout of one second.
Wait ==
    /\ pc = "top"
    /\ shuttingDown => hasLivePrograms /\ ~shutdownTimedOut
    /\ exits' = {d \in Fds : fds[d] # NoPid /\ Zombie(fds[d])}
    /\ strays' \in {S \in SUBSET Fds : Cardinality(S) <= MaxStrays}
    /\ lines' \in (IF Commands = {} THEN {0} ELSE 0 .. MaxLines)
    /\ signal' \in (IF Signals = {} THEN {FALSE} ELSE BOOLEAN)
    /\ pc' = "dispatch"
    /\ UNCHANGED <<mgrVars, shuttingDown, signalsSent, shutdownAge, history>>

-----------------------------------------------------------------------------
(* The batch: the order of the events is the kernel's and the clients' *)

HandleExit(d) ==
    /\ pc = "dispatch" /\ d \in exits
    /\ handleEvent(d)
    /\ exits' = exits \ {d}
    /\ UNCHANGED <<pc, strays, lines, signal, shuttingDown, signalsSent,
                   shutdownAge, history>>

\* Events of one number look the same, so the exit that is among them is taken
\* first.  While the process is alive the daemon stays in waitid, which is as if
\* it came to this event later; a number may have several stale registrations.
HandleStray(d) ==
    /\ pc = "dispatch" /\ d \in strays \ exits
    /\ handleEvent(d)
    /\ strays' \in {strays, strays \ {d}}
    /\ UNCHANGED <<pc, exits, lines, signal, shuttingDown, signalsSent,
                   shutdownAge, history>>

\* The programs of S are now as the file f has them.
Follows(f, S) ==
    /\ loaded' = [n \in (DOMAIN f \cap S) \cup (DOMAIN loaded \ S) |->
                    IF n \in S THEN f[n] ELSE loaded[n]]
    /\ heldDown' = {n \in heldDown :
         n \in S => n \in Known \cap DOMAIN f /\ f[n] = programs[n].cfg}

\* What is thrown is caught: a file that does not parse leaves the manager as it
\* is, a log that fails leaves it between two files.
doReload ==
    \/ /\ PatientOperator =>
            \A n \in Known : /\ programs[n].state # "Stopping"
                             /\ ~programs[n].pendingRemoval
       /\ \E f \in Files :
            \/ reloadManager(f) /\ Follows(f, Names)
            \/ \E S \in SUBSET Names : reloadCutShort(f, S) /\ Follows(f, S)
    \/ UNCHANGED <<mgrVars, history>>

handleSignal ==
    /\ pc = "dispatch" /\ signal
    /\ signal' = FALSE
    /\ \/ /\ "TERM" \in Signals
          /\ shuttingDown' = TRUE
          /\ UNCHANGED <<mgrVars, history>>
       \/ /\ "HUP" \in Signals
          /\ doReload
          /\ UNCHANGED shuttingDown
    /\ UNCHANGED <<pc, exits, strays, lines, signalsSent, shutdownAge>>

\* One line of handleClientMessage; executeCommand is a disjunct per command.
ClientLine(command) ==
    /\ pc = "dispatch" /\ lines > 0 /\ command \in Commands
    /\ lines' = lines - 1
    /\ UNCHANGED <<pc, exits, strays, signal, signalsSent, shutdownAge>>

\* A patient operator reads the status, and waits for a stop to complete and
\* for a program that left the config file to be gone.
MayStart(n) ==
    PatientOperator /\ n \in Known =>
        programs[n].state # "Stopping" /\ ~programs[n].pendingRemoval

StartCommand ==
    /\ ClientLine("start")
    /\ \E n \in Names :
        /\ MayStart(n)
        /\ startProccess(n)
        /\ heldDown' = heldDown \ {n}
    /\ UNCHANGED <<shuttingDown, loaded>>

StopCommand ==
    /\ ClientLine("stop")
    /\ \E n \in Names :
        /\ stopProccess(n)
        /\ heldDown' = IF n \in Known /\ Up(programs[n]) THEN heldDown \cup {n}
                                                         ELSE heldDown
    /\ UNCHANGED <<shuttingDown, loaded>>

RestartCommand ==
    /\ ClientLine("restart")
    /\ \E n \in Names :
        /\ MayStart(n)
        /\ restartProccess(n)
        /\ heldDown' = heldDown \ {n}
    /\ UNCHANGED <<shuttingDown, loaded>>

ReloadCommand ==
    /\ ClientLine("reload")
    /\ doReload
    /\ UNCHANGED shuttingDown

ShutdownCommand ==
    /\ ClientLine("shutdown")
    /\ shuttingDown' = TRUE
    /\ UNCHANGED <<mgrVars, history>>

\* status, help, a blank line, a command that does not exist.
OtherCommand ==
    /\ ClientLine("other")
    /\ UNCHANGED <<mgrVars, shuttingDown, history>>

-----------------------------------------------------------------------------
(* The end of an iteration *)

RunTimers ==
    /\ pc = "dispatch" /\ exits = {} /\ strays = {} /\ lines = 0 /\ ~signal
    /\ checkTimers
    /\ pc' = IF shuttingDown /\ ~signalsSent THEN "stopall" ELSE "top"
    /\ UNCHANGED <<loopVars, history>>

BeginShutdown ==
    /\ pc = "stopall"
    /\ stopAllPrograms
    /\ shutdownAge' = 0
    /\ signalsSent' = TRUE
    /\ pc' = "top"
    /\ UNCHANGED <<exits, strays, lines, signal, shuttingDown, history>>

-----------------------------------------------------------------------------
(* The world around the daemon, for as long as the daemon runs *)

ProcessDies(q) ==
    /\ pc # "exited"
    /\ \E how \in ExitCodes \cup {BySignal} : Die(q, how)
    /\ UNCHANGED <<pc, loopVars, history>>

ProgramSecond(n) ==
    /\ pc # "exited"
    /\ Age(n)
    /\ UNCHANGED <<pc, loopVars, history>>

ShutdownSecond ==
    /\ pc # "exited" /\ signalsSent /\ shutdownAge < ShutdownLimit
    /\ shutdownAge' = shutdownAge + 1
    /\ UNCHANGED <<mgrVars, pc, exits, strays, lines, signal, shuttingDown,
                   signalsSent, history>>

Terminated == pc = "exited" /\ UNCHANGED vars

Daemon ==
    \/ LoadFirst \/ RefuseFirst
    \/ LeaveIdle \/ LeaveOnTimeout \/ Wait
    \/ \E d \in Fds : HandleExit(d) \/ HandleStray(d)
    \/ handleSignal
    \/ StartCommand \/ StopCommand \/ RestartCommand \/ ReloadCommand
    \/ ShutdownCommand \/ OtherCommand
    \/ RunTimers \/ BeginShutdown

Next ==
    \/ Daemon
    \/ \E q \in Pids : ProcessDies(q)
    \/ \E n \in Names : ProgramSecond(n)
    \/ ShutdownSecond
    \/ Terminated

Spec == Init /\ [][Next]_vars

\* The daemon thread is scheduled, the clock advances, and the kernel ends a
\* process that was sent SIGKILL.  Nothing else is promised: a process may
\* ignore its stop signal, an operator may never ask for anything.
Killed(q) == Alive(q) /\ procs[q].asked = "kill" /\ ProcessDies(q)

FairSpec ==
    /\ Spec
    /\ WF_vars(Daemon)
    /\ \A n \in Names : WF_vars(ProgramSecond(n))
    /\ WF_vars(ShutdownSecond)
    /\ \A q \in Pids : WF_vars(Killed(q))

-----------------------------------------------------------------------------
(* Safety, whatever the operator does *)

(* The pid a stop, a reload, a shutdown or the stop timer would signal is a    *)
(* child of the daemon that runs this program, never a number the kernel has   *)
(* taken back and given to another process (kill in stopProccess,              *)
(* restartProccess, reloadManager, stopAllPrograms, checkStopTimeouts).        *)
OwnsChild ==
    \A n \in Known :
        Live(programs[n]) =>
            /\ programs[n].pid # NoPid
            /\ procs[programs[n].pid] # Free
            /\ procs[programs[n].pid].owner = n

(* The pidfd of a program refers to that program's latest process, and that    *)
(* process is not reaped yet: handleDeath, reached through findByPidFd, reads  *)
(* and reaps the right process even when a descriptor number was used before.  *)
WatchesOwnChild ==
    \A n \in Known :
        programs[n].pidfd # NoFd =>
            /\ fds[programs[n].pidfd] = programs[n].pid
            /\ programs[n].pid # NoPid
            /\ procs[programs[n].pid] # Free
            /\ procs[programs[n].pid].owner = n

(* A program shown as stopping has a process that was really told to stop, or  *)
(* is dead; one shown as starting or running has one that was not told         *)
(* (stopping() and kill are always called together).                           *)
StoppingIffAsked ==
    \A n \in Known :
        Live(programs[n]) /\ Alive(programs[n].pid) =>
            (programs[n].state = "Stopping"
                <=> procs[programs[n].pid].asked # "none")

-----------------------------------------------------------------------------
(* Safety, when the operator waits for stops to complete *)

(* No child is ever lost: each one, alive or waiting to be reaped, is the      *)
(* process of a live program.  So a program never has two processes, and a     *)
(* daemon that leaves because nothing is live leaves nothing behind.           *)
EveryChildTracked ==
    \A q \in Pids :
        procs[q] # Free =>
            \E n \in Known : Live(programs[n]) /\ programs[n].pid = q

(* An exit that was reported and not handled at once, because the batch held   *)
(* other deaths, orders or a reload before it, still finds the dead process it *)
(* is about, never one launched meanwhile under the same pidfd number          *)
(* (findByPidFd, the blocking waitid of handleDeath).  It says nothing of an   *)
(* event that is not of an exit.                                               *)
LateExitsFindTheDead ==
    \A d \in exits : \A n \in WatchedBy(d) : Zombie(fds[d])

\* The configuration a program has, or takes when its process is dead.
NextConfig(p) == IF p.pendingConfig = NoConfig THEN p.cfg ELSE p.pendingConfig

(* The daemon holds exactly the programs of the file it loaded last, each      *)
(* under the configuration that file gives it, except for the processes it is  *)
(* stopping in order to get there (reloadManager, handleStoppedDeath,          *)
(* removeMarkedPrograms).  After a reload that the log cut short each program  *)
(* is as one of the two files has it, as a whole.                              *)
FollowsLoadedFile ==
    /\ \A n \in DOMAIN loaded :
        /\ n \in Known
        /\ ~programs[n].pendingRemoval
        /\ NextConfig(programs[n]) = loaded[n]
        /\ programs[n].state # "Stopping" => programs[n].pendingConfig = NoConfig
    /\ \A n \in Known \ DOMAIN loaded :
        programs[n].pendingRemoval /\ ~Up(programs[n])

(* A program that was stopped on request stays down: no restart policy, retry, *)
(* timer or reload that leaves it unchanged launches it again.                 *)
StopSticks ==
    \A n \in heldDown \cap Known : programs[n].state \in {"Stopping", "Stopped"}

(* A daemon that leaves because nothing is live leaves no process behind.      *)
CleanExit ==
    pc = "exited" /\ shutdownAge < ShutdownLimit => \A q \in Pids : ~Alive(q)

-----------------------------------------------------------------------------
(* What a step may never do *)

(* A program with autorestart "never" that was up long enough to count as      *)
(* started is launched again only on an order, not by its own death.           *)
NeverMeansNever ==
    [][\A n \in Known :
        /\ programs[n].state \in {"Running", "Exited"}
        /\ programs[n].cfg.autorestart = "never"
        /\ loaded' = loaded /\ lines' = lines
        => programs'[n] = NoProgram \/ programs'[n].state # "Starting"]_vars

(* A process is supervised, and stopped, under the configuration it was        *)
(* launched with: however often the file changes or loses its program, the     *)
(* program is neither reconfigured nor taken out while the process is alive    *)
(* (the pending configuration and removal of reloadManager).                   *)
KeepsItsConfig ==
    [][\A n \in Known :
        Live(programs[n]) /\ Alive(programs[n].pid) =>
            /\ programs'[n] # NoProgram
            /\ programs'[n].cfg = programs[n].cfg]_vars

-----------------------------------------------------------------------------
(* What the documentation says, and the code does not do *)

(* DEVLOG.MD on restartProccess: the new process comes up only when the old    *)
(* one is dead, "nunca se solapan", they never overlap.                        *)
OneProcessPerProgram ==
    \A q, r \in Pids :
        Alive(q) /\ Alive(r) /\ procs[q].owner = procs[r].owner => q = r

(* README.md on shutdown: "stop the daemon and all its programs".  A process   *)
(* that is still alive when the daemon leaves was at least told to stop.       *)
SignalledBeforeExit ==
    pc = "exited" => \A q \in Pids : Alive(q) => procs[q].asked # "none"

(* DEVLOG.MD on reload: modified programs "ya se reinician con la config       *)
(* nueva", are restarted with the new configuration.  So once every stop a     *)
(* reload began has completed, each program has the configuration of the file  *)
(* that was loaded last, and no program is there but those of that file.       *)
SettledMatchesFile ==
    /\ pc = "top"
    /\ \A n \in Known :
        programs[n].state # "Stopping" /\ ~programs[n].pendingRemoval
    => /\ Known = DOMAIN loaded
       /\ \A n \in Known : programs[n].cfg = loaded[n]

(* README.md: startretries is how many times to retry a failed start.  A       *)
(* program goes from starting to fatal only when that many retries were made   *)
(* (m_restarts counts the failed starts, each of them retried so far).         *)
RetriesBeforeFatal ==
    [][\A n \in Known :
        programs[n].state = "Starting" /\ programs'[n] # NoProgram
        /\ programs'[n].state = "Fatal"
        => programs[n].restarts >= programs[n].cfg.startretries]_vars

-----------------------------------------------------------------------------
(* Liveness *)

\* The daemon would hear of the death of this program's process.
Watched(n) == n \in Known /\ programs[n].pidfd # NoFd

(* Every stop of a process the daemon watches completes: the process dies by   *)
(* itself, or the stop window passes and it is killed.  (With no pidfd the     *)
(* daemon never hears of the death, and the program stays as it is.)           *)
StopsComplete ==
    \A n \in Names :
        (Watched(n) /\ programs[n].state = "Stopping")
            ~> (n \in Known => programs[n].state # "Stopping") \/ pc = "exited"

(* A requested shutdown ends with the daemon gone.                             *)
ShutdownCompletes == shuttingDown ~> pc = "exited"

(* No zombie is left: every dead child that is watched is waited for.          *)
DeadAreReaped ==
    \A q \in Pids :
        (Zombie(q) /\ \E d \in Fds : fds[d] = q) ~> ~Zombie(q) \/ pc = "exited"
=============================================================================
