---------------------------- MODULE PatientProofs ----------------------------
(***************************************************************************)
(* Theorems about a daemon whose operator is patient: one that gives no    *)
(* start, restart or reload while a stop it concerns is under way.  No     *)
(* child is lost then, an exit that is handled late still finds the dead   *)
(* process it is about, and a daemon that leaves because nothing is live   *)
(* leaves nothing behind.                                                  *)
(***************************************************************************)
EXTENDS TaskmasterProofs

NothingRuns ==
    /\ \A q \in Pids : procs[q] = Free
    /\ \A d \in Fds : fds[d] = NoPid

\* The events of the batch belong to the invariant: an event outlives the moment
\* epoll_wait reported it, and what makes it safe to handle later is that its
\* descriptor is neither closed nor given to another process before that.
PatientInv ==
    /\ IInv
    /\ Clean(exits, programs, procs, fds)
    /\ exits # {} => pc = "dispatch"
    /\ pc = "init" => NothingRuns
    /\ pc = "exited" /\ shutdownAge < ShutdownLimit =>
         \A q \in Pids : procs[q] = Free

LEMMA InitPatient == Init => PatientInv
<1> SUFFICES ASSUME Init PROVE PatientInv
  OBVIOUS
<1>1. IInv
  BY InitInv
<1>2. NothingRuns
  BY DEF Init, MgrInit, NothingRuns
<1>3. Clean(exits, programs, procs, fds)
  BY <1>2 DEF Init, MgrInit, NothingRuns, Clean, Tracked, IdleUnwatched,
              AllWatched, AllDead
<1>4. exits = {} /\ pc = "init"
  BY DEF Init
<1> QED
  BY <1>1, <1>2, <1>3, <1>4 DEF PatientInv

\* Most steps of the loop: the daemon stays inside an iteration and hands the
\* manager a call after which it is as clean as before.
LEMMA StaysPatient ==
    ASSUME PatientInv, IInv', StaysClean, exits' = exits,
           pc \in {"top", "dispatch", "stopall"}, pc' \in {"top", "dispatch", "stopall"},
           exits = {} \/ pc' = "dispatch"
    PROVE  PatientInv'
<1>1. exits \in SUBSET Fds
  BY DEF PatientInv, IInv, LoopTypeOK
<1>2. Clean(exits', programs', procs', fds')
  BY <1>1 DEF PatientInv, StaysClean
<1> QED
  BY <1>2 DEF PatientInv

LEMMA DoReloadClean ==
    ASSUME IInv, doReload PROVE StaysClean
<1>1. CASE UNCHANGED <<mgrVars, history>>
  BY <1>1, UnchangedStaysClean
<1>2. CASE \E f \in Files : \/ reloadManager(f)
                            \/ \E S \in SUBSET Names : reloadCutShort(f, S)
  <2>1. PICK f \in Files : \/ reloadManager(f)
                           \/ \E S \in SUBSET Names : reloadCutShort(f, S)
    BY <1>2
  <2>2. DOMAIN f \subseteq Names /\ f \in [DOMAIN f -> Configs]
    BY FilesAssumption
  <2> QED
    BY <2>1, <2>2, ReloadManagerInv DEF IInv
<1> QED
  BY <1>1, <1>2 DEF doReload

LEMMA WaitPatient ==
    ASSUME PatientInv, IInv', Wait PROVE PatientInv'
<1>1. AllDead(exits', procs', fds')
  <2>1. UNCHANGED <<procs, fds>>
    BY DEF Wait, mgrVars
  <2> QED
    BY <2>1 DEF Wait, AllDead, Zombie
<1>2. Tracked(programs', procs') /\ IdleUnwatched(programs') /\ AllWatched(programs', fds')
  <2>1. UNCHANGED <<programs, procs, fds>>
    BY DEF Wait, mgrVars
  <2> QED
    BY <2>1 DEF PatientInv, Clean, Tracked, IdleUnwatched, AllWatched
<1>3. pc' = "dispatch"
  BY DEF Wait
<1> QED
  BY <1>1, <1>2, <1>3 DEF PatientInv, Clean

\* An event that is not of an exit gets through waitid only when the process is
\* dead, and names no number that an exit still to be handled names.
LEMMA HandleExitPatient ==
    ASSUME PatientInv, IInv', NEW d \in Fds, HandleExit(d) \/ HandleStray(d)
    PROVE  PatientInv'
<1>1. Handles(d) /\ exits' = exits \ {d}
  BY HandleEventInv DEF HandleExit, HandleStray, PatientInv, IInv
<1>2. exits \in SUBSET Fds
  BY DEF PatientInv, IInv, LoopTypeOK
<1>3. Clean(exits', programs', procs', fds')
  BY <1>1, <1>2 DEF PatientInv, Handles
<1>4. pc' = "dispatch"
  BY DEF HandleExit, HandleStray
<1> QED
  BY <1>3, <1>4 DEF PatientInv

\* The daemon leaves: nothing of what is about processes changes.
LEMMA LeavePatient ==
    ASSUME PatientInv, IInv', UNCHANGED mgrVars, UNCHANGED exits, exits = {},
           pc' = "exited",
           shutdownAge' < ShutdownLimit => \A q \in Pids : procs[q] = Free
    PROVE  PatientInv'
<1>1. UNCHANGED <<programs, procs, fds>>
  BY DEF mgrVars
<1>2. Clean(exits', programs', procs', fds')
  BY <1>1 DEF PatientInv
<1> QED
  BY <1>1, <1>2 DEF PatientInv

\* A step of the world: time passes, or a process dies.
LEMMA WorldPatient ==
    ASSUME PatientInv, IInv', StaysClean, UNCHANGED <<pc, exits, fds>>,
           pc # "exited", pc = "init" => UNCHANGED procs
    PROVE  PatientInv'
<1>1. exits \in SUBSET Fds
  BY DEF PatientInv, IInv, LoopTypeOK
<1>2. Clean(exits', programs', procs', fds')
  BY <1>1 DEF PatientInv, StaysClean
<1> QED
  BY <1>2 DEF PatientInv, NothingRuns

LEMMA NextPatient ==
    PatientOperator /\ PatientInv /\ [Next]_vars => PatientInv'
<1> SUFFICES ASSUME PatientOperator, PatientInv, [Next]_vars PROVE PatientInv'
  OBVIOUS
<1>0. IInv /\ MgrInv /\ IInv'
  BY NextInv DEF PatientInv, IInv
<1>1. CASE LoadFirst
  <2>1. PICK f \in Files : startManager(f)
    BY <1>1 DEF LoadFirst
  <2>2. DOMAIN f \subseteq Names /\ f \in [DOMAIN f -> Configs]
    BY FilesAssumption
  <2>3. exits' = {} /\ pc' = "top" /\ NothingRuns
    BY <1>1 DEF LoadFirst, loopVars, PatientInv
  <2>4. Clean({}, programs', procs', fds')
    BY <1>0, <2>1, <2>2, <2>3, StartManagerClean DEF NothingRuns
  <2> QED
    BY <1>0, <2>3, <2>4 DEF PatientInv
<1>2. CASE RefuseFirst
  BY <1>0, <1>2, LeavePatient DEF RefuseFirst, PatientInv, NothingRuns, loopVars
<1>3. CASE LeaveIdle
  <2>1. \A q \in Pids : procs[q] = Free
    BY <1>3 DEF LeaveIdle, hasLivePrograms, PatientInv, Clean, Tracked, Known
  <2> QED
    BY <1>0, <1>3, <2>1, LeavePatient DEF LeaveIdle, PatientInv, loopVars
<1>4. CASE LeaveOnTimeout
  <2>1. ~(shutdownAge' < ShutdownLimit)
    BY <1>0, <1>4, DaemonAssumption
    DEF LeaveOnTimeout, shutdownTimedOut, loopVars, IInv, LoopTypeOK
  <2> QED
    BY <1>0, <1>4, <2>1, LeavePatient DEF LeaveOnTimeout, PatientInv, loopVars
<1>5. CASE Wait
  BY <1>0, <1>5, WaitPatient
<1>6. ASSUME NEW d \in Fds, HandleExit(d) \/ HandleStray(d) PROVE PatientInv'
  BY <1>0, <1>6, HandleExitPatient
<1>7. CASE handleSignal
  <2>1. StaysClean
    BY <1>0, <1>7, DoReloadClean, UnchangedStaysClean DEF handleSignal
  <2> QED
    BY <1>0, <1>7, <2>1, StaysPatient DEF handleSignal
<1>8. ASSUME NEW command, ClientLine(command), StaysClean PROVE PatientInv'
  BY <1>0, <1>8, StaysPatient DEF ClientLine
<1>9. CASE StartCommand
  <2>1. PICK n \in Names : MayStart(n) /\ startProccess(n)
    BY <1>9 DEF StartCommand
  <2>2. StaysClean
    BY <1>0, <2>1, StartProccessClean DEF MayStart
  <2> QED
    BY <1>8, <1>9, <2>2 DEF StartCommand
<1>10. CASE StopCommand
  <2>1. PICK n \in Names : stopProccess(n)
    BY <1>10 DEF StopCommand
  <2>2. StaysClean
    <3>1. CASE UNCHANGED mgrVars
      BY <3>1, UnchangedStaysClean
    <3>2. CASE n \in Known /\ Up(programs[n]) /\ StopAndSignal({n})
      BY <1>0, <3>2, StopAndSignalInv
    <3> QED
      BY <2>1, <3>1, <3>2 DEF stopProccess
  <2> QED
    BY <1>8, <1>10, <2>2 DEF StopCommand
<1>11. CASE RestartCommand
  <2>1. PICK n \in Names : MayStart(n) /\ restartProccess(n)
    BY <1>11 DEF RestartCommand
  <2>2. StaysClean
    BY <1>0, <2>1, RestartProccessInv DEF MayStart
  <2> QED
    BY <1>8, <1>11, <2>2 DEF RestartCommand
<1>12. CASE ReloadCommand
  BY <1>0, <1>8, <1>12, DoReloadClean DEF ReloadCommand
<1>13. CASE ShutdownCommand
  BY <1>8, <1>13, UnchangedStaysClean DEF ShutdownCommand
<1>14. CASE OtherCommand
  BY <1>8, <1>14, UnchangedStaysClean DEF OtherCommand
<1>15. CASE RunTimers
  <2>1. StaysClean
    BY <1>0, <1>15, CheckTimersInv DEF RunTimers
  <2>2. exits = {} /\ UNCHANGED exits /\ pc = "dispatch" /\ pc' \in {"stopall", "top"}
    BY <1>15 DEF RunTimers, loopVars
  <2> QED
    BY <1>0, <2>1, <2>2, StaysPatient
<1>16. CASE BeginShutdown
  <2>1. StaysClean
    BY <1>0, <1>16, StopAndSignalInv DEF BeginShutdown, stopAllPrograms
  <2>2. exits = {} /\ UNCHANGED exits /\ pc = "stopall" /\ pc' = "top"
    BY <1>16 DEF BeginShutdown, PatientInv
  <2> QED
    BY <1>0, <2>1, <2>2, StaysPatient
<1>17. ASSUME NEW q \in Pids, ProcessDies(q) PROVE PatientInv'
  <2>1. PICK how \in ExitCodes \cup {BySignal} : Die(q, how)
    BY <1>17 DEF ProcessDies
  <2>2. StaysClean
    BY <1>0, <2>1, DieInv
  <2>3. UNCHANGED fds /\ pc # "init"
    BY <2>1 DEF Die, Alive, PatientInv, NothingRuns
  <2> QED
    BY <1>0, <1>17, <2>2, <2>3, WorldPatient DEF ProcessDies, loopVars
<1>18. ASSUME NEW n \in Names, ProgramSecond(n) PROVE PatientInv'
  <2>1. StaysClean
    BY <1>0, <1>18, AgeInv DEF ProgramSecond
  <2>2. UNCHANGED <<procs, fds>>
    BY <1>18 DEF ProgramSecond, Age
  <2> QED
    BY <1>0, <1>18, <2>1, <2>2, WorldPatient DEF ProgramSecond, loopVars
<1>19. CASE ShutdownSecond
  <2>1. StaysClean
    BY <1>19, UnchangedStaysClean DEF ShutdownSecond
  <2> QED
    BY <1>0, <1>19, <2>1, WorldPatient DEF ShutdownSecond, mgrVars
<1>20. CASE UNCHANGED vars
  BY <1>0, <1>20 DEF vars, PatientInv, NothingRuns
<1> QED
  BY <1>1, <1>2, <1>3, <1>4, <1>5, <1>6, <1>7, <1>9, <1>10, <1>11, <1>12,
     <1>13, <1>14, <1>15, <1>16, <1>17, <1>18, <1>19, <1>20
  DEF Next, Daemon, Terminated

LEMMA PatientInvariance == PatientOperator /\ Spec => []PatientInv
<1>1. PatientOperator => [](PatientOperator)
  OBVIOUS
<1> QED
  BY InitPatient, NextPatient, <1>1, PTL DEF Spec

(* No child is lost, for any number of programs and processes, when the        *)
(* operator waits for stops to complete: startProccess and restartProccess     *)
(* never replace the pid of a process that is not reaped, and erasing a        *)
(* program (removeMarkedPrograms) never forgets one.                           *)
THEOREM NoChildLost == PatientOperator /\ Spec => []EveryChildTracked
<1>1. PatientInv => EveryChildTracked
  BY DEF PatientInv, Clean, Tracked, EveryChildTracked, Known
<1> QED
  BY <1>1, PatientInvariance, PTL

(* An exit handled late, after commands, reloads, other deaths and stray       *)
(* events of the same batch, still finds the dead process behind its           *)
(* descriptor, or no program at all: nothing is launched under a number that   *)
(* an exit waiting to be handled names (findByPidFd, handleDeath).             *)
THEOREM LateExits == PatientOperator /\ Spec => []LateExitsFindTheDead
<1>1. PatientInv => LateExitsFindTheDead
  BY DEF PatientInv, Clean, AllDead, Zombie, LateExitsFindTheDead
<1> QED
  BY <1>1, PatientInvariance, PTL

(* A daemon that leaves its loop because hasLivePrograms is false has reaped   *)
(* every process it started, however the stops and deaths of the shutdown      *)
(* interleaved.                                                                *)
THEOREM LeavesNothing == PatientOperator /\ Spec => []CleanExit
<1>1. PatientInv => CleanExit
  BY DEF PatientInv, CleanExit, Alive
<1> QED
  BY <1>1, PatientInvariance, PTL

-----------------------------------------------------------------------------
(* What every program is, next to the file loaded last and the last orders *)

\* p, the program of name n, is as the file wants it or on its way there; it is
\* down for good if it is held down.  Two conjuncts make this inductive: only the
\* end of a stop restarts a program by order, and a running program has outlived
\* its start window, so that its death is not taken for a failed start.
Fits(p, n, wanted, held) ==
    IF p = NoProgram THEN n \notin DOMAIN wanted
    ELSE /\ n \in DOMAIN wanted =>
              /\ ~p.pendingRemoval
              /\ NextConfig(p) = wanted[n]
              /\ p.state # "Stopping" => p.pendingConfig = NoConfig
         /\ n \notin DOMAIN wanted =>
              p.pendingRemoval /\ ~Up(p) /\ ~p.pendingRestart
         /\ p.pendingRestart => p.state = "Stopping"
         /\ p.state = "Running" => StartWindowPassed(p)
         /\ n \in held => p.state \in {"Stopping", "Stopped"} /\ ~p.pendingRestart

OrderInv ==
    /\ PatientInv
    /\ \A n \in Names : Fits(programs[n], n, loaded, heldDown)
    /\ pc = "init" => Known = {} /\ heldDown = {}

\* A program under the configuration the file gives it, with nothing pending.
Ready(p, c) ==
    /\ p \in Program
    /\ p.cfg = c /\ p.pendingConfig = NoConfig
    /\ ~p.pendingRemoval /\ ~p.pendingRestart

LEMMA LaunchesFits ==
    ASSUME NEW n \in Names, NEW wanted, NEW held, NEW p,
           n \in DOMAIN wanted, n \notin held, Ready(p, wanted[n]), Launches(n, p)
    PROVE  Fits(programs'[n], n, wanted, held)
<1>1. CASE programs'[n] = SetFatalError(p)
  <2>1. SetFatalError(p) \in Program
    BY TransitionType DEF Ready
  <2> QED
    BY <1>1, <2>1, ValuesAssumption
    DEF Fits, Ready, SetFatalError, NextConfig, Program
<1>2. ASSUME NEW q \in Pids, NEW d \in Fds \cup {NoFd}, programs'[n] = Started(p, q, d)
      PROVE  Fits(programs'[n], n, wanted, held)
  <2>1. Started(p, q, d) \in Program
    BY StartedType DEF Ready
  <2> QED
    BY <1>2, <2>1, ValuesAssumption DEF Fits, Ready, Started, NextConfig, Program
<1> QED
  BY <1>1, <1>2 DEF Launches

\* A program that is down, under the configuration the file gives it.
LEMMA DownFits ==
    ASSUME NEW n, NEW wanted, NEW held, NEW p,
           n \in DOMAIN wanted, Ready(p, wanted[n]), p.state # "Running",
           n \in held => p.state \in {"Stopping", "Stopped"}
    PROVE  Fits(p, n, wanted, held)
  BY ValuesAssumption DEF Fits, Ready, NextConfig

\* A stop by itself leaves a program as the file has it, and held down if it is
\* not to be restarted.
LEMMA StoppingFits ==
    ASSUME NEW n, NEW wanted, NEW held, NEW p \in Program, Up(p),
           n \in DOMAIN wanted, ~p.pendingRemoval, NextConfig(p) = wanted[n],
           n \in held => ~p.pendingRestart
    PROVE  Fits(Stopping(p), n, wanted, held)
<1>1. Stopping(p) \in Program
  BY TransitionType
<1> QED
  BY <1>1, ValuesAssumption DEF Fits, Stopping, NextConfig, Program

LEMMA DeathFits ==
    ASSUME NEW n \in Names, programs[n] \in Program, Live(programs[n]),
           NEW wanted, NEW held, Fits(programs[n], n, wanted, held),
           StoppedDeath(n) \/ FailedStart(n) \/ StableDeath(n)
    PROVE  Fits(programs'[n], n, wanted, held)
<1> DEFINE p == programs[n]
<1>0. p # NoProgram
  BY ValuesAssumption
<1>1. CASE StoppedDeath(n)
  <2> DEFINE r == SetPendingRestart(ApplyPendingConfig(Stopped(p)), FALSE)
  <2>1. r \in Program
    BY DeadTypes
  <2>2. /\ r.cfg = NextConfig(p) /\ r.pendingConfig = NoConfig
        /\ r.pendingRestart = FALSE /\ r.pendingRemoval = p.pendingRemoval
        /\ r.state = "Stopped"
    BY DEF SetPendingRestart, ApplyPendingConfig, Stopped, NextConfig, Program
  <2>3. p.state = "Stopping" /\ Ends(n, r, p.pendingRestart)
    BY <1>1 DEF StoppedDeath
  <2> HIDE DEF r
  <2> DEFINE k == ClosePidFd(r)
  <2>4. /\ k \in Program
        /\ k.cfg = NextConfig(p) /\ k.pendingConfig = NoConfig
        /\ k.pendingRestart = FALSE /\ k.pendingRemoval = p.pendingRemoval
        /\ k.state = "Stopped"
    BY <2>1, <2>2, TransitionType DEF ClosePidFd, Program
  <2> HIDE DEF k
  <2>5. CASE p.pendingRestart
    <3>1. n \in DOMAIN wanted /\ n \notin held /\ Launches(n, k)
      BY <1>0, <2>3, <2>5 DEF Fits, Ends, k
    <3>2. Ready(k, wanted[n])
      BY <1>0, <2>4, <3>1 DEF Fits, Ready
    <3> QED
      BY <3>1, <3>2, LaunchesFits
  <2>6. CASE ~p.pendingRestart
    <3>1. programs'[n] = k
      BY <2>3, <2>6 DEF Ends, k
    <3> QED
      BY <1>0, <2>4, <3>1, ValuesAssumption DEF Fits, NextConfig, Up
  <2> QED
    BY <2>5, <2>6
<1>2. CASE FailedStart(n) \/ StableDeath(n)
  <2>1. /\ n \in DOMAIN wanted /\ n \notin held
        /\ ~p.pendingRemoval /\ ~p.pendingRestart
        /\ p.pendingConfig = NoConfig /\ p.cfg = wanted[n]
    BY <1>0, <1>2 DEF FailedStart, StableDeath, Fits, Live, Up, NextConfig
  <2>2. ASSUME NEW r \in {Exited(p), IncRestartNum(Exited(p)),
                          SetFatalError(IncRestartNum(Exited(p)))}
        PROVE  Ready(ClosePidFd(r), wanted[n]) /\ ClosePidFd(r).state # "Running"
    <3>1. r \in Program
      BY DeadTypes
    <3>2. /\ r.cfg = p.cfg /\ r.pendingConfig = p.pendingConfig
          /\ r.pendingRemoval = p.pendingRemoval
          /\ r.pendingRestart = p.pendingRestart
          /\ r.state \in {"Exited", "Fatal"}
      BY DEF Exited, IncRestartNum, SetFatalError, Program
    <3>3. ClosePidFd(r) \in Program
      BY <3>1, TransitionType
    <3> QED
      BY <2>1, <3>1, <3>2, <3>3 DEF Ready, ClosePidFd, Program
  <2>3. \E r \in {Exited(p), IncRestartNum(Exited(p)),
                  SetFatalError(IncRestartNum(Exited(p)))} :
          programs'[n] = ClosePidFd(r) \/ Launches(n, ClosePidFd(r))
    BY <1>2 DEF FailedStart, StableDeath, Ends
  <2> QED
    BY <2>1, <2>2, <2>3, DownFits, LaunchesFits
<1> QED
  BY <1>1, <1>2

\* What the patience of the operator means to a reload.
LEMMA SettledFits ==
    ASSUME OrderInv, NEW n \in Known,
           programs[n].state # "Stopping", ~programs[n].pendingRemoval
    PROVE  n \in DOMAIN loaded /\ Ready(programs[n], loaded[n])
<1>1. /\ n \in Names /\ programs[n] # NoProgram /\ programs[n] \in Program
      /\ Fits(programs[n], n, loaded, heldDown)
  BY DEF Known, OrderInv, PatientInv, IInv, MgrInv, MgrTypeOK
<1> QED
  BY <1>1 DEF Fits, NextConfig, Ready

LEMMA ReloadedFits ==
    ASSUME OrderInv, NEW f \in Files, NEW S \in SUBSET Names, NEW U,
           \A n \in Known : programs[n].state # "Stopping" /\ ~programs[n].pendingRemoval,
           Reloaded(f, S, U), Follows(f, S), NEW n \in Names
    PROVE  Fits(programs'[n], n, loaded', heldDown')
<1> USE DEF OrderInv, PatientInv, IInv
<1> DEFINE p == programs[n]
<1>1. DOMAIN f \subseteq Names /\ f \in [DOMAIN f -> Configs]
  BY FilesAssumption
<1>2. /\ n \in DOMAIN loaded' <=> IF n \in S THEN n \in DOMAIN f ELSE n \in DOMAIN loaded
      /\ n \in DOMAIN loaded' => loaded'[n] = IF n \in S THEN f[n] ELSE loaded[n]
      /\ n \in heldDown' => /\ n \in heldDown
                            /\ n \in S => n \in Known \cap DOMAIN f /\ f[n] = p.cfg
  BY DEF Follows
<1>3. /\ n \in Removed(f, S) <=> n \in Known /\ n \in S /\ n \notin DOMAIN f
      /\ n \in Changed(f, S) <=> n \in Known /\ n \in S /\ n \in DOMAIN f /\ f[n] # p.cfg
      /\ n \in Added(f, S) <=> n \notin Known /\ n \in S /\ n \in DOMAIN f
  BY DEF Removed, Changed, Added
<1>4. /\ n \in Removed(f, S) => programs'[n] = StopIfUp(SetPendingRemoval(p, TRUE))
      /\ n \in Changed(f, S) =>
           \/ programs'[n] = Reconfigured(p, f[n])
           \/ ~Live(p) /\ Launches(n, Reconfigured(p, f[n]))
      /\ n \in Added(f, S) =>
           programs'[n] = NewProgram(f[n]) \/ Launches(n, NewProgram(f[n]))
      /\ n \notin Removed(f, S) \cup Changed(f, S) \cup Added(f, S) => programs'[n] = p
  BY <1>1, ReloadedEach
<1>5. n \in Known => /\ n \in DOMAIN loaded /\ Ready(p, loaded[n])
                     /\ p \in Program /\ p # NoProgram /\ p.state # "Stopping"
  BY SettledFits DEF Known, MgrInv, MgrTypeOK
<1>6. Fits(p, n, loaded, heldDown)
  OBVIOUS
<1>7. CASE n \in Removed(f, S)
  <2> DEFINE r == SetPendingRemoval(p, TRUE)
  <2>1. /\ r \in Program /\ r.pendingRemoval /\ ~r.pendingRestart
        /\ r.state = p.state /\ r.startAge = p.startAge /\ r.cfg = p.cfg
    BY <1>3, <1>5, <1>7, TransitionType DEF SetPendingRemoval, Ready, Program
  <2> HIDE DEF r
  <2>2. /\ StopIfUp(r) \in Program /\ StopIfUp(r).pendingRemoval
        /\ ~StopIfUp(r).pendingRestart /\ ~Up(StopIfUp(r))
    BY <2>1, StopIfUpType DEF StopIfUp, Stopping, Up, Program
  <2>3. programs'[n] = StopIfUp(r)
    BY <1>4, <1>7 DEF r
  <2> QED
    BY <1>2, <1>3, <1>7, <2>2, <2>3, ValuesAssumption DEF Fits, Up
<1>8. CASE n \in Changed(f, S)
  <2> DEFINE c == f[n]
             s == SetPendingConfig(p, c)
             r == SetPendingRestart(s, c.autostart)
             a == ApplyPendingConfig(s)
  <2>1. c \in Configs /\ c # NoConfig /\ c.autostart \in BOOLEAN
    BY <1>1, <1>3, <1>8, ConfigsAssumption, SentinelsAssumption
  <2>2. /\ s \in Program /\ s.pendingConfig = c /\ s.state = p.state
        /\ ~s.pendingRemoval /\ ~s.pendingRestart
    BY <1>3, <1>5, <1>8, <2>1, TransitionType DEF SetPendingConfig, Ready, Program
  <2>3. /\ n \in DOMAIN loaded' /\ loaded'[n] = c /\ n \notin heldDown'
    BY <1>2, <1>3, <1>8
  <2> HIDE DEF c, s
  <2>4. CASE Up(p)
    <3>1. /\ r \in Program /\ Up(r) /\ ~r.pendingRemoval /\ NextConfig(r) = c
      BY <2>1, <2>2, <2>4, TransitionType DEF SetPendingRestart, Up, NextConfig, Program
    <3>2. programs'[n] = Stopping(r)
      <4>1. Live(p)
        BY <2>4 DEF Up, Live
      <4> QED
        BY <1>4, <1>8, <3>1, <4>1 DEF Reconfigured, StopIfUp, c, s
    <3> HIDE DEF r
    <3> QED
      BY <2>3, <3>1, <3>2, StoppingFits
  <2>5. CASE ~Up(p)
    <3>1. /\ a.cfg = c /\ a.pendingConfig = NoConfig /\ a.state = s.state
          /\ a.pendingRemoval = s.pendingRemoval /\ a.pendingRestart = s.pendingRestart
          /\ a \in Program
      BY <2>1, <2>2, ApplyPendingConfigType DEF ApplyPendingConfig, Program
    <3>2. Ready(a, c) /\ a.state # "Running"
      BY <2>2, <2>5, <3>1 DEF Ready, Up
    <3>3. programs'[n] = a \/ Launches(n, a)
      <4>1. ~Live(p)
        BY <1>3, <1>5, <1>8, <2>5 DEF Up, Live
      <4> QED
        BY <1>4, <1>8, <4>1 DEF Reconfigured, c, s
    <3> HIDE DEF a
    <3> QED
      BY <2>3, <3>2, <3>3, DownFits, LaunchesFits
  <2> QED
    BY <2>4, <2>5
<1>9. CASE n \in Added(f, S)
  <2> DEFINE r == NewProgram(f[n])
  <2>1. f[n] \in Configs
    BY <1>1, <1>3, <1>9
  <2>2. Ready(r, f[n]) /\ r.state = "Stopped"
    BY <2>1, NewProgramType DEF Ready, NewProgram
  <2>3. n \in DOMAIN loaded' /\ loaded'[n] = f[n] /\ n \notin heldDown'
    BY <1>2, <1>3, <1>9
  <2>4. programs'[n] = r \/ Launches(n, r)
    BY <1>4, <1>9
  <2> HIDE DEF r
  <2> QED
    BY <2>2, <2>3, <2>4, DownFits, LaunchesFits
<1>10. CASE n \notin Removed(f, S) \cup Changed(f, S) \cup Added(f, S)
  <2>1. programs'[n] = p
    BY <1>4, <1>10
  <2>2. CASE n \in Known
    <3>1. n \in DOMAIN loaded' /\ loaded'[n] = loaded[n]
      BY <1>2, <1>3, <1>5, <1>10, <2>2 DEF Ready
    <3> QED
      BY <1>2, <1>5, <1>6, <2>1, <2>2, <3>1 DEF Fits
  <2>3. CASE n \notin Known
    <3>1. p = NoProgram /\ n \notin DOMAIN loaded
      BY <1>6, <2>3 DEF Known, Fits
    <3> QED
      BY <1>2, <1>3, <1>10, <2>1, <2>3, <3>1 DEF Fits
  <2> QED
    BY <2>2, <2>3
<1> QED
  BY <1>7, <1>8, <1>9, <1>10

LEMMA DoReloadFits ==
    ASSUME PatientOperator, OrderInv, doReload, NEW n \in Names
    PROVE  Fits(programs'[n], n, loaded', heldDown')
<1>1. CASE UNCHANGED <<mgrVars, history>>
  BY <1>1 DEF mgrVars, history, OrderInv
<1>2. ASSUME NEW f \in Files, NEW S \in SUBSET Names, NEW U,
             Reloaded(f, S, U), Follows(f, S),
             \A m \in Known : programs[m].state # "Stopping" /\ ~programs[m].pendingRemoval
      PROVE  Fits(programs'[n], n, loaded', heldDown')
  BY <1>2, ReloadedFits
<1> QED
  BY <1>1, <1>2 DEF doReload, reloadManager, reloadCutShort

LEMMA StopFits ==
    ASSUME OrderInv, NEW n \in Names,
           n \in Known /\ Up(programs[n]) /\ programs'[n] = Stopping(programs[n])
    PROVE  \A held : Fits(programs'[n], n, loaded, held)
<1>1. /\ programs[n] # NoProgram /\ programs[n] \in Program
      /\ Fits(programs[n], n, loaded, heldDown)
  BY DEF Known, OrderInv, PatientInv, IInv, MgrInv, MgrTypeOK
<1>2. /\ n \in DOMAIN loaded /\ ~programs[n].pendingRemoval
      /\ NextConfig(programs[n]) = loaded[n] /\ ~programs[n].pendingRestart
  BY <1>1 DEF Fits, Up
<1> QED
  BY <1>1, <1>2, StoppingFits

\* A start or a restart of n, which is up, or down and settled.
LEMMA StartFits ==
    ASSUME OrderInv, PatientOperator, NEW m \in Names, NEW n \in Names, MayStart(m),
           startProccess(m) \/ restartProccess(m), heldDown' = heldDown \ {m}
    PROVE  Fits(programs'[n], n, loaded, heldDown')
<1> USE DEF OrderInv, PatientInv, IInv
<1> DEFINE p == programs[n]
<1>1. Fits(p, n, loaded, heldDown)
  OBVIOUS
<1>2. CASE Still(n)
  BY <1>1, <1>2 DEF Still, Fits
<1>3. CASE n = m /\ n \in Known /\ ~Up(p) /\ Launches(n, p)
  <2>1. n \in DOMAIN loaded /\ Ready(p, loaded[n])
    BY <1>3, SettledFits DEF MayStart
  <2> QED
    BY <1>3, <2>1, LaunchesFits
<1>4. CASE n = m /\ n \in Known /\ Up(p) /\ programs'[n] = Stopping(SetPendingRestart(p, TRUE))
  <2> DEFINE r == SetPendingRestart(p, TRUE)
  <2>1. p # NoProgram /\ p \in Program
    BY <1>4 DEF Known, MgrInv, MgrTypeOK
  <2>2. /\ r \in Program /\ Up(r) /\ NextConfig(r) = NextConfig(p)
        /\ r.pendingRemoval = p.pendingRemoval
    BY <1>4, <2>1, TransitionType DEF SetPendingRestart, Up, NextConfig, Program
  <2>3. n \in DOMAIN loaded /\ ~p.pendingRemoval /\ NextConfig(p) = loaded[n]
    BY <1>1, <1>4, <2>1 DEF Fits
  <2>4. programs'[n] = Stopping(r) /\ n \notin heldDown'
    BY <1>4
  <2> HIDE DEF r
  <2> QED
    BY <2>2, <2>3, <2>4, StoppingFits
<1> QED
  BY <1>2, <1>3, <1>4, StartProccessEach, RestartProccessEach DEF startProccess, restartProccess

LEMMA CheckTimersFits ==
    ASSUME OrderInv, checkTimers, NEW n \in Names
    PROVE  Fits(programs'[n], n, loaded, heldDown)
<1>1. Fits(programs[n], n, loaded, heldDown) /\ MgrInv
  BY DEF OrderInv, PatientInv, IInv
<1>2. IF n \in Removable \/ n \notin Known THEN programs'[n] = NoProgram
      ELSE programs'[n] = Confirmed(programs[n])
  BY <1>1, CheckTimersEach
<1>3. CASE n \in Removable
  <2>1. programs[n] # NoProgram /\ programs[n].pendingRemoval
    BY <1>3 DEF Removable, Known
  <2>2. n \notin DOMAIN loaded
    BY <1>1, <2>1 DEF Fits
  <2> QED
    BY <1>2, <1>3, <2>2 DEF Fits
<1>4. CASE n \notin Known
  <2>1. programs[n] = NoProgram /\ programs'[n] = NoProgram
    BY <1>2, <1>4 DEF Known
  <2> QED
    BY <1>1, <2>1
<1>5. CASE n \in Known \ Removable
  <2>1. /\ programs[n] # NoProgram /\ programs[n] \in Program
        /\ programs'[n] = Confirmed(programs[n])
    BY <1>1, <1>2, <1>5 DEF Known, MgrInv, MgrTypeOK
  <2>2. Confirmed(programs[n]) \in Program
    BY <2>1, ConfirmedType
  <2>3. CASE Confirmed(programs[n]) = programs[n]
    BY <1>1, <2>1, <2>3
  <2>4. CASE programs[n].state = "Starting" /\ StartWindowPassed(programs[n])
    BY <1>1, <2>1, <2>2, <2>4, ValuesAssumption
    DEF Confirmed, SetRunning, ResetRestarts, StartWindowPassed, Fits, NextConfig,
        Up, Program
  <2> QED
    BY <2>3, <2>4 DEF Confirmed
<1> QED
  BY <1>3, <1>4, <1>5

LEMMA AgedFits ==
    ASSUME NEW p \in Program, NEW n, NEW wanted, NEW held, Fits(p, n, wanted, held)
    PROVE  Fits(Aged(p), n, wanted, held)
<1>1. p # NoProgram /\ Aged(p) # NoProgram
  BY AgedType, ValuesAssumption
<1>2. Aged(p) = [p EXCEPT !.startAge = Aged(p).startAge, !.stopAge = Aged(p).stopAge]
  BY DEF Aged, Program
<1>3. StartWindowPassed(p) => StartWindowPassed(Aged(p))
  <2>1. p.startAge \in Int /\ p.cfg.starttime \in Int
    BY BoundsAssumption, ConfigsAssumption DEF Program
  <2>2. Aged(p).cfg = p.cfg /\ Aged(p).startAge \in {p.startAge, p.startAge + 1}
    BY DEF Aged, Older, Program
  <2> QED
    BY <2>1, <2>2 DEF StartWindowPassed
<1>4. /\ Aged(p).state = p.state /\ Aged(p).pendingRemoval = p.pendingRemoval
      /\ Aged(p).pendingRestart = p.pendingRestart
      /\ Aged(p).pendingConfig = p.pendingConfig /\ Aged(p).cfg = p.cfg
  BY DEF Aged, Program
<1> QED
  BY <1>1, <1>3, <1>4 DEF Fits, NextConfig, Up

LEMMA NextFits ==
    ASSUME PatientOperator, OrderInv, [Next]_vars, NEW n \in Names
    PROVE  Fits(programs'[n], n, loaded', heldDown')
<1> USE DEF OrderInv, PatientInv, IInv
<1>0. Fits(programs[n], n, loaded, heldDown)
  OBVIOUS
<1>1. CASE LoadFirst
  <2>1. PICK f \in Files : startManager(f) /\ loaded' = f
    BY <1>1 DEF LoadFirst
  <2>2. DOMAIN f \subseteq Names /\ f \in [DOMAIN f -> Configs]
    BY FilesAssumption
  <2>3. heldDown' = {}
    BY <1>1 DEF LoadFirst
  <2>4. ASSUME n \in DOMAIN f
        PROVE  Ready(NewProgram(f[n]), f[n]) /\ NewProgram(f[n]).state = "Stopped"
    BY <2>2, <2>4, NewProgramType DEF Ready, NewProgram
  <2>5. CASE n \in DOMAIN f
    <3>1. programs'[n] = NewProgram(f[n]) \/ Launches(n, NewProgram(f[n]))
      BY <2>1, <2>2, <2>5, StartManagerEach
    <3>2. n \in DOMAIN loaded' /\ loaded'[n] = f[n]
      BY <2>1, <2>5
    <3> QED
      BY <2>3, <2>4, <2>5, <3>1, <3>2, DownFits, LaunchesFits
  <2>6. CASE n \notin DOMAIN f
    BY <2>1, <2>2, <2>6, StartManagerEach DEF Autostarting, Fits
  <2> QED
    BY <2>5, <2>6
<1>2. CASE UNCHANGED <<mgrVars, history>>
  BY <1>0, <1>2 DEF mgrVars, history
<1>3. ASSUME NEW d \in Fds, HandleExit(d) \/ HandleStray(d)
      PROVE  Fits(programs'[n], n, loaded', heldDown')
  <2>1. UNCHANGED <<loaded, heldDown>> /\ handleEvent(d)
    BY <1>3 DEF HandleExit, HandleStray, history
  <2>2. CASE Still(n)
    BY <1>0, <2>1, <2>2 DEF Still
  <2>3. CASE /\ n \in Known /\ programs[n].pidfd # NoFd
             /\ StoppedDeath(n) \/ FailedStart(n) \/ StableDeath(n)
    <3>1. programs[n] \in Program /\ Live(programs[n])
      BY <2>3 DEF Known, MgrInv, MgrTypeOK, Clean, IdleUnwatched
    <3> QED
      BY <1>0, <2>1, <2>3, <3>1, DeathFits
  <2> QED
    BY <2>1, <2>2, <2>3, HandleEventEach DEF Known
<1>4. CASE doReload
  BY <1>4, DoReloadFits
<1>5. CASE StartCommand \/ RestartCommand
  <2>1. PICK m \in Names : /\ MayStart(m) /\ heldDown' = heldDown \ {m}
                           /\ startProccess(m) \/ restartProccess(m)
    BY <1>5 DEF StartCommand, RestartCommand
  <2>2. UNCHANGED loaded
    BY <1>5 DEF StartCommand, RestartCommand
  <2> QED
    BY <2>1, <2>2, StartFits
<1>6. CASE StopCommand
  <2>1. PICK m \in Names :
          /\ stopProccess(m)
          /\ heldDown' = IF m \in Known /\ Up(programs[m]) THEN heldDown \cup {m}
                                                           ELSE heldDown
    BY <1>6 DEF StopCommand
  <2>2. UNCHANGED loaded
    BY <1>6 DEF StopCommand
  <2>3. CASE ~(m \in Known /\ Up(programs[m]))
    BY <1>0, <2>1, <2>2, <2>3 DEF stopProccess, mgrVars
  <2>4. CASE m \in Known /\ Up(programs[m])
    <3>1. IF n \in {m} THEN programs'[n] = Stopping(programs[n]) ELSE Still(n)
      BY <2>1, <2>4, StopAndSignalEach DEF stopProccess
    <3>2. CASE n = m
      BY <2>2, <2>4, <3>1, <3>2, StopFits
    <3>3. CASE n # m
      BY <1>0, <2>1, <2>2, <2>4, <3>1, <3>3 DEF Still, Fits
    <3> QED
      BY <3>2, <3>3
  <2> QED
    BY <2>3, <2>4
<1>7. CASE RunTimers
  BY <1>7, CheckTimersFits DEF RunTimers, history
<1>8. CASE BeginShutdown
  <2> DEFINE up == {m \in Known : Up(programs[m])}
  <2>1. UNCHANGED <<loaded, heldDown>> /\ StopAndSignal(up)
    BY <1>8 DEF BeginShutdown, stopAllPrograms, history
  <2>2. IF n \in up THEN programs'[n] = Stopping(programs[n]) ELSE Still(n)
    BY <2>1, StopAndSignalEach
  <2> QED
    BY <1>0, <2>1, <2>2, StopFits DEF Still
<1>9. ASSUME NEW q \in Pids, ProcessDies(q)
      PROVE  Fits(programs'[n], n, loaded', heldDown')
  BY <1>0, <1>9 DEF ProcessDies, Die, history
<1>10. ASSUME NEW m \in Names, ProgramSecond(m)
       PROVE  Fits(programs'[n], n, loaded', heldDown')
  <2>1. UNCHANGED <<loaded, heldDown>> /\ Age(m)
    BY <1>10 DEF ProgramSecond, history
  <2>2. n # m => programs'[n] = programs[n]
    BY <2>1, AgeEach DEF Still
  <2>3. n = m => programs'[n] = Aged(programs[n]) /\ programs[n] \in Program
    BY <2>1, AgeEach DEF Known, MgrInv, MgrTypeOK
  <2> QED
    BY <1>0, <2>1, <2>2, <2>3, AgedFits
<1> QED
  BY <1>1, <1>2, <1>3, <1>4, <1>5, <1>6, <1>7, <1>8, <1>9, <1>10
  DEF Next, Daemon, Terminated, RefuseFirst, LeaveIdle, LeaveOnTimeout, Wait,
      handleSignal, ReloadCommand, ShutdownCommand, OtherCommand, ShutdownSecond,
      vars, mgrVars, history

LEMMA NextOrder == PatientOperator /\ OrderInv /\ [Next]_vars => OrderInv'
<1> SUFFICES ASSUME PatientOperator, OrderInv, [Next]_vars PROVE OrderInv'
  OBVIOUS
<1>1. PatientInv'
  BY NextPatient DEF OrderInv
<1>2. \A n \in Names : Fits(programs'[n], n, loaded', heldDown')
  BY NextFits
<1>3. ASSUME pc' = "init" PROVE Known' = {} /\ heldDown' = {}
  <2>1. /\ pc = "init"
        /\ ~LoadFirst /\ ~RefuseFirst /\ ~LeaveIdle /\ ~LeaveOnTimeout /\ ~Wait
        /\ \A d \in Fds : ~HandleExit(d) /\ ~HandleStray(d)
        /\ ~handleSignal /\ \A c : ~ClientLine(c)
        /\ ~RunTimers /\ ~BeginShutdown
    BY <1>3 DEF Next, Daemon, Terminated, LoadFirst, RefuseFirst, LeaveIdle,
                LeaveOnTimeout, Wait, HandleExit, HandleStray, handleSignal,
                ClientLine,
                StartCommand, StopCommand, RestartCommand, ReloadCommand,
                ShutdownCommand, OtherCommand, RunTimers, BeginShutdown,
                ProcessDies, ProgramSecond, ShutdownSecond, loopVars, vars
  <2>2. Known = {} /\ heldDown = {}
    BY <2>1 DEF OrderInv
  <2>3. UNCHANGED <<programs, heldDown>>
    BY <2>1, <2>2
    DEF Next, Daemon, Terminated, StartCommand, StopCommand, RestartCommand,
        ReloadCommand, ShutdownCommand, OtherCommand, ProcessDies, Die,
        ProgramSecond, Age, ShutdownSecond, mgrVars, history, vars
  <2> QED
    BY <2>2, <2>3 DEF Known
<1> QED
  BY <1>1, <1>2, <1>3 DEF OrderInv

LEMMA OrderInvariance == PatientOperator /\ Spec => []OrderInv
<1>1. Init => OrderInv
  <2> SUFFICES ASSUME Init PROVE OrderInv
    OBVIOUS
  <2>1. DOMAIN loaded = {}
    BY DEF Init, NoFile
  <2> QED
    BY <2>1, InitPatient DEF Init, MgrInit, OrderInv, Fits, Known
<1>2. PatientOperator => [](PatientOperator)
  OBVIOUS
<1> QED
  BY <1>1, <1>2, NextOrder, PTL DEF Spec

(* Whatever reloads, cut short by the log or not, stops, deaths, retries and   *)
(* timers come between, each program of the files loaded so far is there under *)
(* the configuration they give it or becomes that when its stop completes, and *)
(* every other program is on its way out.                                      *)
THEOREM LoadedFileFollowed == PatientOperator /\ Spec => []FollowsLoadedFile
<1>1. OrderInv => FollowsLoadedFile
  <2> SUFFICES ASSUME OrderInv PROVE FollowsLoadedFile
    OBVIOUS
  <2>1. DOMAIN loaded \subseteq Names
    BY DEF OrderInv, PatientInv, IInv, LoopTypeOK, PartialFiles
  <2> QED
    BY <2>1 DEF OrderInv, Fits, FollowsLoadedFile, Known
<1> QED
  BY <1>1, OrderInvariance, PTL

(* A program that was stopped on request stays down until it is asked for      *)
(* again, by a command or by a file that changes it: no restart that was still *)
(* pending, policy or retry brings it back.                                    *)
THEOREM StoppedStaysDown == PatientOperator /\ Spec => []StopSticks
<1>1. OrderInv => StopSticks
  BY DEF OrderInv, PatientInv, IInv, LoopTypeOK, Fits, StopSticks, Known
<1> QED
  BY <1>1, OrderInvariance, PTL

-----------------------------------------------------------------------------
(* A death of a program with autorestart "never" *)

\* The program of n is left alone, or comes out of the step not starting.
NotStarting(n) == programs'[n] = NoProgram \/ programs'[n].state # "Starting"

\* Such a program runs or has exited; nothing but an order launches it.
LEMMA NeverByDeath ==
    ASSUME OrderInv, NEW n \in Known,
           programs[n].state \in {"Running", "Exited"},
           programs[n].cfg.autorestart = "never",
           programs[n].pidfd # NoFd,
           StoppedDeath(n) \/ FailedStart(n) \/ StableDeath(n)
    PROVE  NotStarting(n)
<1>1. /\ n \in Names /\ programs[n] # NoProgram /\ programs[n] \in Program
      /\ Fits(programs[n], n, loaded, heldDown)
      /\ Live(programs[n])
  BY DEF Known, OrderInv, PatientInv, IInv, MgrInv, MgrTypeOK, Clean, IdleUnwatched
<1>2. programs[n].state = "Running" /\ StartWindowPassed(programs[n])
  BY <1>1 DEF Fits, Live
<1>3. PICK how : Ends(n, Exited(programs[n]), shouldRestart(programs[n], how))
  BY <1>2 DEF StoppedDeath, FailedStart, StableDeath
<1>4. programs'[n] = ClosePidFd(Exited(programs[n]))
  BY <1>3 DEF shouldRestart, Ends
<1> QED
  BY <1>1, <1>4 DEF NotStarting, ClosePidFd, Exited, Program

\* A file that leaves what was loaded as it was changes no settled program.
LEMMA NeverByReload ==
    ASSUME PatientOperator, OrderInv, doReload, loaded' = loaded, NEW n \in Known
    PROVE  programs'[n] = programs[n]
<1>1. CASE UNCHANGED <<mgrVars, history>>
  BY <1>1 DEF mgrVars
<1>2. ASSUME NEW f \in Files, NEW S \in SUBSET Names, NEW U,
             Reloaded(f, S, U), Follows(f, S),
             \A m \in Known : programs[m].state # "Stopping" /\ ~programs[m].pendingRemoval
      PROVE  programs'[n] = programs[n]
  <2>1. n \in DOMAIN loaded /\ Ready(programs[n], loaded[n])
    BY <1>2, SettledFits
  <2>2. n \in DOMAIN loaded' <=> IF n \in S THEN n \in DOMAIN f ELSE n \in DOMAIN loaded
    BY <1>2 DEF Follows
  <2>3. n \in S => n \in DOMAIN f /\ loaded'[n] = f[n]
    BY <1>2, <2>1, <2>2 DEF Follows
  <2>4. n \notin Removed(f, S) \cup Changed(f, S) \cup Added(f, S)
    BY <2>1, <2>3 DEF Removed, Changed, Added, Ready
  <2>5. DOMAIN f \subseteq Names /\ n \in Names
    BY FilesAssumption DEF Known
  <2> QED
    BY <1>2, <2>4, <2>5, ReloadedEach DEF OrderInv, PatientInv, IInv
<1> QED
  BY <1>1, <1>2 DEF doReload, reloadManager, reloadCutShort

(* A program with autorestart "never" that was up long enough to count as      *)
(* started is not launched by its own death, a timer, or a reload of the file  *)
(* it already follows: its death is always taken for that of a stable program, *)
(* never for a failed start that is to be tried again (handleDeath).           *)
THEOREM NeverRestartedByItself == PatientOperator /\ Spec => NeverMeansNever
<1>1. ASSUME PatientOperator, OrderInv, [Next]_vars, NEW n \in Known,
             programs[n].state \in {"Running", "Exited"},
             programs[n].cfg.autorestart = "never",
             loaded' = loaded, lines' = lines
      PROVE  NotStarting(n)
  <2>0. /\ MgrInv /\ n \in Names /\ programs[n] \in Program
        /\ programs[n] # NoProgram /\ lines \in Int
    BY <1>1, DaemonAssumption
    DEF OrderInv, PatientInv, IInv, LoopTypeOK, MgrInv, MgrTypeOK, Known
  <2>1. ASSUME Still(n) PROVE NotStarting(n)
    BY <1>1, <2>0, <2>1 DEF Still, NotStarting
  <2>2. CASE LoadFirst
    BY <1>1, <2>2 DEF LoadFirst, OrderInv
  <2>3. CASE UNCHANGED mgrVars
    BY <2>0, <2>1, <2>3, UnchangedEach
  <2>4. ASSUME NEW d \in Fds, HandleExit(d) \/ HandleStray(d)
        PROVE  NotStarting(n)
    BY <1>1, <2>0, <2>1, <2>4, HandleEventEach, NeverByDeath
    DEF HandleExit, HandleStray
  <2>5. CASE handleSignal
    <3>1. CASE doReload
      BY <1>1, <3>1, NeverByReload DEF NotStarting
    <3> QED
      BY <2>3, <2>5, <3>1 DEF handleSignal
  <2>6. ASSUME NEW c, ClientLine(c) PROVE FALSE
    BY <1>1, <2>0, <2>6 DEF ClientLine
  <2>7. CASE RunTimers
    <3>1. checkTimers
      BY <2>7 DEF RunTimers
    <3>2. programs'[n] = NoProgram \/ programs'[n] = Confirmed(programs[n])
      BY <2>0, <3>1, CheckTimersEach
    <3>3. Confirmed(programs[n]) = programs[n]
      BY <1>1 DEF Confirmed
    <3> QED
      BY <1>1, <3>2, <3>3 DEF NotStarting
  <2>8. CASE BeginShutdown
    <3> DEFINE up == {m \in Known : Up(programs[m])}
    <3>1. StopAndSignal(up)
      BY <2>8 DEF BeginShutdown, stopAllPrograms
    <3>2. programs'[n] = Stopping(programs[n]) \/ Still(n)
      BY <2>0, <3>1, StopAndSignalEach
    <3>3. Stopping(programs[n]).state = "Stopping"
      BY <2>0 DEF Stopping, Program
    <3> QED
      BY <2>1, <3>2, <3>3 DEF NotStarting
  <2>9. ASSUME NEW q \in Pids, ProcessDies(q) PROVE NotStarting(n)
    BY <1>1, <2>9 DEF ProcessDies, Die, NotStarting
  <2>10. ASSUME NEW m \in Names, ProgramSecond(m) PROVE NotStarting(n)
    <3>1. programs'[n] = Aged(programs[n]) \/ Still(n)
      BY <2>0, <2>10, AgeEach DEF ProgramSecond
    <3>2. Aged(programs[n]).state = programs[n].state
      BY <2>0 DEF Aged, Program
    <3> QED
      BY <1>1, <2>1, <3>1, <3>2 DEF NotStarting
  <2> QED
    BY <1>1, <2>2, <2>3, <2>4, <2>5, <2>6, <2>7, <2>8, <2>9, <2>10
    DEF Next, Daemon, Terminated, RefuseFirst, LeaveIdle, LeaveOnTimeout, Wait,
        StartCommand, StopCommand, RestartCommand, ReloadCommand, ShutdownCommand,
        OtherCommand, ShutdownSecond, vars, mgrVars
<1>2. PatientOperator /\ OrderInv /\ [Next]_vars =>
        [\A n \in Known :
          /\ programs[n].state \in {"Running", "Exited"}
          /\ programs[n].cfg.autorestart = "never"
          /\ loaded' = loaded /\ lines' = lines
          => programs'[n] = NoProgram \/ programs'[n].state # "Starting"]_vars
  BY <1>1 DEF NotStarting
<1>3. PatientOperator => [](PatientOperator)
  OBVIOUS
<1> QED
  BY <1>2, <1>3, OrderInvariance, PTL DEF Spec, NeverMeansNever
=============================================================================
