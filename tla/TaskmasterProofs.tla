-------------------------- MODULE TaskmasterProofs ---------------------------
(***************************************************************************)
(* Theorems about the daemon, for every set of programs, configurations    *)
(* and files, for every operator and every number of processes.            *)
(***************************************************************************)
EXTENDS Taskmaster, ManagerProofs

LoopTypeOK ==
    /\ pc \in {"init", "top", "dispatch", "stopall", "exited"}
    /\ exits \subseteq Fds
    /\ strays \subseteq Fds
    /\ lines \in 0 .. MaxLines
    /\ signal \in BOOLEAN
    /\ shuttingDown \in BOOLEAN
    /\ signalsSent \in BOOLEAN
    /\ shutdownAge \in 0 .. ShutdownLimit
    /\ loaded \in PartialFiles
    /\ heldDown \subseteq Names

IInv == LoopTypeOK /\ MgrInv

LEMMA InitInv == Init => IInv
<1> SUFFICES ASSUME Init PROVE IInv
  OBVIOUS
<1>1. LoopTypeOK
  <2>1. 0 \in 0 .. MaxLines /\ 0 \in 0 .. ShutdownLimit
    BY DaemonAssumption
  <2>2. NoFile \in [{} -> Configs]
    BY DEF NoFile
  <2>3. NoFile \in PartialFiles
    BY <2>2 DEF PartialFiles
  <2> QED
    BY <2>1, <2>3 DEF Init, LoopTypeOK
<1>2. MgrTypeOK
  BY DEF Init, MgrInit, MgrTypeOK
<1>3. Consistent(programs, procs, fds)
  BY DEF Init, MgrInit, Consistent
<1> QED
  BY <1>1, <1>2, <1>3 DEF IInv, MgrInv

LEMMA UnchangedMgr == MgrInv /\ UNCHANGED mgrVars => MgrInv'
  BY DEF mgrVars, MgrInv, MgrTypeOK, Consistent, Holds

LEMMA FileIsPartial ==
    ASSUME NEW f \in Files PROVE f \in PartialFiles
<1>1. DOMAIN f \in SUBSET Names /\ f \in [DOMAIN f -> Configs]
  BY FilesAssumption
<1> QED
  BY <1>1 DEF PartialFiles

LEMMA FollowsPartial ==
    ASSUME NEW f \in Files, NEW S \in SUBSET Names, LoopTypeOK, Follows(f, S)
    PROVE  loaded' \in PartialFiles /\ heldDown' \subseteq Names
<1>1. DOMAIN f \in SUBSET Names /\ f \in [DOMAIN f -> Configs]
  BY FilesAssumption
<1>2. PICK D \in SUBSET Names : loaded \in [D -> Configs]
  BY DEF LoopTypeOK, PartialFiles
<1>3. DOMAIN loaded = D
  BY <1>2
<1> DEFINE E == (DOMAIN f \cap S) \cup (DOMAIN loaded \ S)
<1>4. loaded' \in [E -> Configs] /\ E \in SUBSET Names
  BY <1>1, <1>2, <1>3 DEF Follows
<1>5. heldDown' \subseteq Names
  BY DEF Follows, LoopTypeOK
<1> QED
  BY <1>4, <1>5 DEF PartialFiles

LEMMA DoReloadInv ==
    ASSUME IInv, doReload
    PROVE  MgrInv' /\ loaded' \in PartialFiles /\ heldDown' \subseteq Names
<1>1. CASE UNCHANGED <<mgrVars, history>>
  <2>1. UNCHANGED mgrVars /\ UNCHANGED <<loaded, heldDown>>
    BY <1>1 DEF history
  <2> QED
    BY <2>1, UnchangedMgr DEF IInv, LoopTypeOK
<1>2. ASSUME NEW f \in Files, NEW S \in SUBSET Names,
             reloadManager(f) \/ reloadCutShort(f, S), Follows(f, S)
      PROVE  MgrInv' /\ loaded' \in PartialFiles /\ heldDown' \subseteq Names
  <2>1. DOMAIN f \subseteq Names /\ f \in [DOMAIN f -> Configs]
    BY FilesAssumption
  <2> QED
    BY <1>2, <2>1, ReloadManagerInv, FollowsPartial DEF IInv
<1> QED
  BY <1>1, <1>2 DEF doReload

LEMMA NextInv == IInv /\ [Next]_vars => IInv'
<1> SUFFICES ASSUME IInv, [Next]_vars PROVE IInv'
  OBVIOUS
<1> USE DEF IInv
<1>1. CASE LoadFirst
  <2>1. PICK f \in Files : startManager(f) /\ loaded' = f
    BY <1>1 DEF LoadFirst
  <2>2. DOMAIN f \subseteq Names /\ f \in [DOMAIN f -> Configs]
    BY FilesAssumption
  <2>3. MgrInv'
    BY <2>1, <2>2, StartManagerInv
  <2>4. loaded' \in PartialFiles
    BY <2>1, FileIsPartial
  <2> QED
    BY <1>1, <2>1, <2>3, <2>4 DEF LoadFirst, LoopTypeOK, loopVars
<1>2. CASE RefuseFirst
  BY <1>2, UnchangedMgr DEF RefuseFirst, LoopTypeOK, loopVars, history
<1>3. CASE LeaveIdle
  BY <1>3, UnchangedMgr DEF LeaveIdle, LoopTypeOK, loopVars, history
<1>4. CASE LeaveOnTimeout
  BY <1>4, UnchangedMgr DEF LeaveOnTimeout, LoopTypeOK, loopVars, history
<1>5. CASE Wait
  <2>1. lines' \in 0 .. MaxLines
    BY <1>5, DaemonAssumption DEF Wait
  <2>2. signal' \in BOOLEAN
    BY <1>5 DEF Wait
  <2>3. MgrInv'
    BY <1>5, UnchangedMgr DEF Wait
  <2> QED
    BY <1>5, <2>1, <2>2, <2>3 DEF Wait, LoopTypeOK, history
<1>6. ASSUME NEW d \in Fds, HandleExit(d) \/ HandleStray(d) PROVE IInv'
  BY <1>6, HandleEventInv DEF HandleExit, HandleStray, LoopTypeOK, history
<1>7. CASE handleSignal
  <2>1. CASE UNCHANGED <<mgrVars, history>> /\ shuttingDown' = TRUE
    BY <1>7, <2>1, UnchangedMgr DEF handleSignal, LoopTypeOK, history
  <2>2. CASE doReload /\ UNCHANGED shuttingDown
    BY <1>7, <2>2, DoReloadInv DEF handleSignal, LoopTypeOK
  <2> QED
    BY <1>7, <2>1, <2>2 DEF handleSignal
<1>8. ASSUME NEW command, ClientLine(command) PROVE lines' \in 0 .. MaxLines
  BY <1>8, DaemonAssumption DEF ClientLine, LoopTypeOK
<1>9. CASE StartCommand
  <2>1. MgrInv' /\ heldDown' \subseteq Names
    BY <1>9, StartProccessInv DEF StartCommand, LoopTypeOK
  <2> QED
    BY <1>8, <1>9, <2>1 DEF StartCommand, ClientLine, LoopTypeOK
<1>10. CASE StopCommand
  <2>1. PICK n \in Names :
          /\ stopProccess(n)
          /\ heldDown' = IF n \in Known /\ Up(programs[n]) THEN heldDown \cup {n}
                                                           ELSE heldDown
    BY <1>10 DEF StopCommand
  <2>2. MgrInv'
    <3>1. CASE UNCHANGED mgrVars
      BY <3>1, UnchangedMgr
    <3>2. CASE n \in Known /\ Up(programs[n]) /\ StopAndSignal({n})
      BY <3>2, StopAndSignalInv
    <3> QED
      BY <2>1, <3>1, <3>2 DEF stopProccess
  <2> QED
    BY <1>8, <1>10, <2>1, <2>2 DEF StopCommand, ClientLine, LoopTypeOK
<1>11. CASE RestartCommand
  <2>1. MgrInv' /\ heldDown' \subseteq Names
    BY <1>11, RestartProccessInv DEF RestartCommand, LoopTypeOK
  <2> QED
    BY <1>8, <1>11, <2>1 DEF RestartCommand, ClientLine, LoopTypeOK
<1>12. CASE ReloadCommand
  <2>1. MgrInv' /\ loaded' \in PartialFiles /\ heldDown' \subseteq Names
    BY <1>12, DoReloadInv DEF ReloadCommand
  <2> QED
    BY <1>8, <1>12, <2>1 DEF ReloadCommand, ClientLine, LoopTypeOK
<1>13. CASE ShutdownCommand
  BY <1>8, <1>13, UnchangedMgr
  DEF ShutdownCommand, ClientLine, LoopTypeOK, history
<1>14. CASE OtherCommand
  BY <1>8, <1>14, UnchangedMgr DEF OtherCommand, ClientLine, LoopTypeOK, history
<1>15. CASE RunTimers
  BY <1>15, CheckTimersInv DEF RunTimers, LoopTypeOK, loopVars, history
<1>16. CASE BeginShutdown
  <2>1. MgrInv'
    BY <1>16, StopAndSignalInv DEF BeginShutdown, stopAllPrograms
  <2>2. 0 \in 0 .. ShutdownLimit
    BY DaemonAssumption
  <2> QED
    BY <1>16, <2>1, <2>2 DEF BeginShutdown, LoopTypeOK, history
<1>17. ASSUME NEW q \in Pids, ProcessDies(q) PROVE IInv'
  BY <1>17, DieInv DEF ProcessDies, LoopTypeOK, loopVars, history
<1>18. ASSUME NEW n \in Names, ProgramSecond(n) PROVE IInv'
  BY <1>18, AgeInv DEF ProgramSecond, LoopTypeOK, loopVars, history
<1>19. CASE ShutdownSecond
  <2>1. shutdownAge' \in 0 .. ShutdownLimit
    BY <1>19, DaemonAssumption DEF ShutdownSecond, LoopTypeOK
  <2> QED
    BY <1>19, <2>1, UnchangedMgr DEF ShutdownSecond, LoopTypeOK, history
<1>20. CASE UNCHANGED vars
  BY <1>20, UnchangedMgr DEF vars, mgrVars, LoopTypeOK
<1> QED
  BY <1>1, <1>2, <1>3, <1>4, <1>5, <1>6, <1>7, <1>9, <1>10, <1>11, <1>12,
     <1>13, <1>14, <1>15, <1>16, <1>17, <1>18, <1>19, <1>20
  DEF Next, Daemon, Terminated

LEMMA Invariance == Spec => []IInv
  BY InitInv, NextInv, PTL DEF Spec

(* Every variable keeps its type, whatever the operator, the processes and the *)
(* kernel do.                                                                  *)
THEOREM TypeCorrect == Spec => []TypeOK
<1>1. IInv => TypeOK
  BY DEF IInv, LoopTypeOK, MgrInv, TypeOK
<1> QED
  BY <1>1, Invariance, PTL

(* No kill ever reaches a process that is not the program's own: pids may be   *)
(* handed out again as soon as a child is reaped, and the daemon keeps m_pid.  *)
THEOREM SignalsOnlyOwnChildren == Spec => []OwnsChild
<1>1. IInv => OwnsChild
  BY DEF IInv, MgrInv, Consistent, Holds, OwnsChild, Known
<1> QED
  BY <1>1, Invariance, PTL

(* Every open pidfd is that of the program's latest, unreaped process, even    *)
(* though descriptor numbers are used again.                                   *)
THEOREM WatchesOnlyOwnChildren == Spec => []WatchesOwnChild
<1>1. IInv => WatchesOwnChild
  BY DEF IInv, MgrInv, Consistent, Holds, WatchesOwnChild, Known
<1> QED
  BY <1>1, Invariance, PTL

-----------------------------------------------------------------------------
(* What a program shows, and what its process was told *)

\* The process of n, as long as it is alive, was told to stop exactly when n is
\* shown as stopping.
Honest(n) ==
    programs[n] # NoProgram /\ Live(programs[n])
        /\ procs[programs[n].pid].status = "alive"
    => (programs[n].state = "Stopping" <=> procs[programs[n].pid].asked # "none")

HonestInv == IInv /\ \A n \in Names : Honest(n)

LEMMA StillHonest ==
    ASSUME NEW n \in Names, Honest(n), Still(n) PROVE Honest(n)'
  BY DEF Honest, Still

LEMMA IdleHonest ==
    ASSUME NEW n \in Names,
           programs'[n] = NoProgram \/ ~Live(programs'[n])
    PROVE  Honest(n)'
  BY DEF Honest

LEMMA LaunchesHonest ==
    ASSUME NEW n \in Names, NEW p \in Program, Launches(n, p) PROVE Honest(n)'
<1>1. CASE programs'[n] = SetFatalError(p)
  BY <1>1, IdleHonest DEF SetFatalError, Live, Program
<1>2. ASSUME NEW q \in Pids, NEW d \in Fds \cup {NoFd},
             programs'[n] = Started(p, q, d), procs'[q] = NewProc(n)
      PROVE  Honest(n)'
  <2>1. programs'[n].pid = q /\ programs'[n].state = "Starting"
    BY <1>2 DEF Started, Program
  <2> QED
    BY <1>2, <2>1 DEF Honest, NewProc
<1> QED
  BY <1>1, <1>2 DEF Launches

LEMMA EndsHonest ==
    ASSUME NEW n \in Names, NEW p \in Program, ~Live(p), NEW again, Ends(n, p, again)
    PROVE  Honest(n)'
<1>1. ClosePidFd(p) \in Program /\ ~Live(ClosePidFd(p))
  BY TransitionType DEF ClosePidFd, Live, Program
<1> QED
  BY <1>1, IdleHonest, LaunchesHonest DEF Ends

\* A program that is shown as stopping from now on, or was before.
LEMMA AskedHonest ==
    ASSUME MgrInv, NEW n \in Names, programs[n] # NoProgram, Live(programs[n]),
           programs'[n].pid = programs[n].pid, programs'[n].state = "Stopping",
           NEW ask \in {"stop", "kill"}, IsAsked(n, ask)
    PROVE  Honest(n)'
<1> DEFINE q == programs[n].pid
<1>1. procs[q] \in Proc
  BY LiveProcess
<1>2. procs'[q].status = "alive" => procs'[q].asked # "none"
  BY <1>1 DEF IsAsked, Asked, Proc
<1> QED
  BY <1>2 DEF Honest

LEMMA DoReloadHonest ==
    ASSUME HonestInv, doReload, NEW n \in Names PROVE Honest(n)'
<1> USE DEF HonestInv, IInv
<1>1. CASE UNCHANGED <<mgrVars, history>>
  BY <1>1, UnchangedEach, StillHonest
<1>2. ASSUME NEW f \in Files, NEW S \in SUBSET Names, NEW U, Reloaded(f, S, U)
      PROVE  Honest(n)'
  <2>1. DOMAIN f \subseteq Names /\ f \in [DOMAIN f -> Configs]
    BY FilesAssumption
  <2> DEFINE touched == Removed(f, S) \cup Changed(f, S)
  <2>2. n \in touched => n \in Known
    BY DEF Removed, Changed
  <2>3. ASSUME n \in touched PROVE Honest(n)'
    <3>1. programs[n] # NoProgram /\ programs[n] \in Program
      BY <2>2, <2>3 DEF Known, MgrInv, MgrTypeOK
    <3>2. n \in Changed(f, S) =>
            f[n] \in Configs /\ f[n].autostart \in BOOLEAN
      BY <2>1, ConfigsAssumption DEF Changed
    <3> DEFINE r == SetPendingRemoval(programs[n], TRUE)
               s == SetPendingConfig(programs[n], f[n])
               t == SetPendingRestart(s, f[n].autostart)
               a == ApplyPendingConfig(s)
    <3>3. /\ r \in Program /\ r.pid = programs[n].pid /\ r.state = programs[n].state
      BY <3>1, TransitionType DEF SetPendingRemoval, Program
    <3>4. n \in Changed(f, S) =>
            /\ s \in Program /\ s.pid = programs[n].pid /\ s.state = programs[n].state
            /\ t \in Program /\ t.pid = programs[n].pid /\ t.state = programs[n].state
            /\ a \in Program /\ a.state = programs[n].state
      <4>1. n \in Changed(f, S) =>
              s \in Program /\ s.pid = programs[n].pid /\ s.state = programs[n].state
        BY <3>1, <3>2, TransitionType DEF SetPendingConfig, Program
      <4>2. n \in Changed(f, S) =>
              t \in Program /\ t.pid = programs[n].pid /\ t.state = programs[n].state
        BY <3>2, <4>1, TransitionType DEF SetPendingRestart, Program
      <4>3. n \in Changed(f, S) => a \in Program /\ a.state = programs[n].state
        BY <4>1, ApplyPendingConfigType DEF ApplyPendingConfig, Program
      <4> QED
        BY <4>1, <4>2, <4>3
    <3> HIDE DEF r, s, t, a
    <3>5. n \in Removed(f, S) => programs'[n] = StopIfUp(r)
      BY <1>2, <2>1, ReloadedEach DEF r
    <3>6. n \in Changed(f, S) =>
            \/ Live(programs[n]) /\ programs'[n] = StopIfUp(t)
            \/ ~Live(programs[n]) /\ (programs'[n] = a \/ Launches(n, a))
      BY <1>2, <2>1, ReloadedEach DEF Reconfigured, a, s, t
    <3>7. CASE Up(programs[n])
      <4>1. Live(programs[n]) /\ IsAsked(n, "stop")
        BY <1>2, <2>1, <2>2, <2>3, <3>7, ReloadedEach DEF Up, Live
      <4>2. programs'[n].pid = programs[n].pid /\ programs'[n].state = "Stopping"
        BY <2>3, <3>3, <3>4, <3>5, <3>6, <3>7, <4>1 DEF StopIfUp, Stopping, Up, Program
      <4> QED
        BY <3>1, <4>1, <4>2, AskedHonest
    <3>8. CASE Live(programs[n]) /\ ~Up(programs[n])
      <4>1. procs'[programs[n].pid] = procs[programs[n].pid]
        BY <1>2, <2>1, <2>2, <2>3, <3>8, ReloadedEach
      <4>2. /\ programs'[n].pid = programs[n].pid
            /\ programs'[n].state = programs[n].state
        BY <2>3, <3>3, <3>4, <3>5, <3>6, <3>8 DEF StopIfUp, Up
      <4> QED
        BY <3>1, <3>8, <4>1, <4>2 DEF Honest
    <3>9. CASE ~Live(programs[n])
      <4>1. n \in Removed(f, S) => ~Live(StopIfUp(r))
        BY <3>3, <3>9 DEF StopIfUp, Up, Live
      <4>2. n \in Changed(f, S) => ~Live(a)
        BY <3>4, <3>9 DEF Live
      <4> QED
        BY <2>3, <3>4, <3>5, <3>6, <3>9, <4>1, <4>2, IdleHonest, LaunchesHonest
    <3> QED
      BY <3>7, <3>8, <3>9 DEF Up, Live
  <2>4. ASSUME n \in Added(f, S) PROVE Honest(n)'
    <3>1. NewProgram(f[n]) \in Program /\ ~Live(NewProgram(f[n]))
      <4>1. f[n] \in Configs
        BY <2>1, <2>4 DEF Added
      <4> QED
        BY <4>1, NewProgramType DEF NewProgram, Live
    <3>2. programs'[n] = NewProgram(f[n]) \/ Launches(n, NewProgram(f[n]))
      BY <1>2, <2>1, <2>4, ReloadedEach
    <3> QED
      BY <3>1, <3>2, IdleHonest, LaunchesHonest
  <2>5. ASSUME n \notin touched, n \notin Added(f, S) PROVE Honest(n)'
    <3>1. programs'[n] = programs[n]
      BY <1>2, <2>1, <2>5, ReloadedEach
    <3>2. n \in Known /\ Live(programs[n]) =>
            procs'[programs[n].pid] = procs[programs[n].pid]
      BY <1>2, <2>1, <2>5, ReloadedEach
    <3>3. Still(n)
      BY <3>1, <3>2 DEF Still, Known
    <3> QED
      BY <3>3, StillHonest
  <2> QED
    BY <2>3, <2>4, <2>5
<1> QED
  BY <1>1, <1>2 DEF doReload, reloadManager, reloadCutShort

LEMMA StopHonest ==
    ASSUME HonestInv, NEW S, S \subseteq {m \in Known : Up(programs[m])},
           StopAndSignal(S), NEW n \in Names
    PROVE  Honest(n)'
<1> USE DEF HonestInv, IInv
<1>1. CASE n \notin S
  BY <1>1, StopAndSignalEach, StillHonest
<1>2. CASE n \in S
  <2>1. /\ programs[n] # NoProgram /\ Live(programs[n])
        /\ programs[n] \in Program
    BY <1>2 DEF Known, Up, Live, MgrInv, MgrTypeOK
  <2>2. programs'[n] = Stopping(programs[n]) /\ IsAsked(n, "stop")
    BY <1>2, StopAndSignalEach
  <2>3. programs'[n].pid = programs[n].pid /\ programs'[n].state = "Stopping"
    BY <2>1, <2>2 DEF Stopping, Program
  <2> QED
    BY <2>1, <2>2, <2>3, AskedHonest
<1> QED
  BY <1>1, <1>2

LEMMA HandleEventHonest ==
    ASSUME HonestInv, NEW d \in Fds, handleEvent(d), NEW n \in Names
    PROVE  Honest(n)'
<1> USE DEF HonestInv, IInv
<1>1. CASE Still(n)
  BY <1>1, StillHonest
<1>2. CASE n \in Known /\ (StoppedDeath(n) \/ FailedStart(n) \/ StableDeath(n))
  <2>1. programs[n] \in Program
    BY <1>2 DEF Known, MgrInv, MgrTypeOK
  <2>2. \E p \in Program : \E again : ~Live(p) /\ Ends(n, p, again)
    BY <1>2, <2>1, DeadTypes DEF StoppedDeath, FailedStart, StableDeath
  <2> QED
    BY <2>2, EndsHonest
<1> QED
  BY <1>1, <1>2, HandleEventEach DEF Known

LEMMA CheckTimersHonest ==
    ASSUME HonestInv, checkTimers, NEW n \in Names PROVE Honest(n)'
<1> USE DEF HonestInv, IInv
<1>1. CASE n \in Removable \/ n \notin Known
  BY <1>1, CheckTimersEach, IdleHonest
<1>2. CASE n \in Known /\ n \notin Removable
  <2>1. programs[n] # NoProgram /\ programs[n] \in Program
    BY <1>2 DEF Known, MgrInv, MgrTypeOK
  <2>2. programs'[n] = Confirmed(programs[n])
    BY <1>2, CheckTimersEach
  <2>3. /\ programs'[n].pid = programs[n].pid
        /\ Live(programs'[n]) <=> Live(programs[n])
        /\ programs'[n].state = "Stopping" <=> programs[n].state = "Stopping"
    BY <2>1, <2>2 DEF Confirmed, SetRunning, ResetRestarts, Live, Program
  <2>4. CASE ~Live(programs[n])
    BY <2>3, <2>4, IdleHonest
  <2>5. CASE Live(programs[n]) /\ n \in StopOverdue
    <3>1. IsAsked(n, "kill") /\ programs[n].state = "Stopping"
      BY <1>2, <2>5, CheckTimersEach DEF StopOverdue
    <3> QED
      BY <2>1, <2>3, <2>5, <3>1, AskedHonest
  <2>6. CASE Live(programs[n]) /\ n \notin StopOverdue
    <3>1. procs'[programs[n].pid] = procs[programs[n].pid]
      BY <1>2, <2>6, CheckTimersEach
    <3> QED
      BY <2>1, <2>3, <2>6, <3>1 DEF Honest
  <2> QED
    BY <2>4, <2>5, <2>6
<1> QED
  BY <1>1, <1>2

LEMMA RestartHonest ==
    ASSUME HonestInv, NEW m \in Names, startProccess(m) \/ restartProccess(m),
           NEW n \in Names
    PROVE  Honest(n)'
<1> USE DEF HonestInv, IInv
<1>1. CASE Still(n)
  BY <1>1, StillHonest
<1>2. CASE n \in Known /\ Launches(n, programs[n])
  BY <1>2, LaunchesHonest DEF Known, MgrInv, MgrTypeOK
<1>3. CASE /\ n \in Known /\ Up(programs[n])
           /\ programs'[n] = Stopping(SetPendingRestart(programs[n], TRUE))
           /\ IsAsked(n, "stop")
  <2>1. /\ programs[n] # NoProgram /\ Live(programs[n])
        /\ programs[n] \in Program
    BY <1>3 DEF Known, Up, Live, MgrInv, MgrTypeOK
  <2>2. programs'[n].pid = programs[n].pid /\ programs'[n].state = "Stopping"
    BY <1>3, <2>1 DEF Stopping, SetPendingRestart, Program
  <2> QED
    BY <1>3, <2>1, <2>2, AskedHonest
<1> QED
  BY <1>1, <1>2, <1>3, StartProccessEach, RestartProccessEach

LEMMA NextHonest == HonestInv /\ [Next]_vars => HonestInv'
<1> SUFFICES ASSUME HonestInv, [Next]_vars, NEW n \in Names PROVE Honest(n)'
  BY NextInv DEF HonestInv
<1>0. MgrInv /\ Honest(n)
  BY DEF HonestInv, IInv
<1>1. CASE LoadFirst
  <2>1. PICK f \in Files : startManager(f)
    BY <1>1 DEF LoadFirst
  <2>2. DOMAIN f \subseteq Names /\ f \in [DOMAIN f -> Configs]
    BY FilesAssumption
  <2>3. n \in DOMAIN f => NewProgram(f[n]) \in Program /\ ~Live(NewProgram(f[n]))
    BY <2>2, NewProgramType DEF NewProgram, Live
  <2> QED
    BY <2>1, <2>2, <2>3, StartManagerEach, IdleHonest, LaunchesHonest DEF Autostarting
<1>2. CASE UNCHANGED mgrVars
  BY <1>0, <1>2, UnchangedEach, StillHonest
<1>3. ASSUME NEW d \in Fds, HandleExit(d) \/ HandleStray(d) PROVE Honest(n)'
  BY <1>3, HandleEventHonest DEF HandleExit, HandleStray
<1>4. CASE handleSignal
  BY <1>2, <1>4, DoReloadHonest DEF handleSignal
<1>5. CASE StartCommand \/ RestartCommand
  BY <1>5, RestartHonest DEF StartCommand, RestartCommand
<1>6. CASE StopCommand
  <2>1. PICK m \in Names : stopProccess(m)
    BY <1>6 DEF StopCommand
  <2> QED
    BY <1>2, <2>1, StopHonest DEF stopProccess
<1>7. CASE ReloadCommand
  BY <1>7, DoReloadHonest DEF ReloadCommand
<1>8. CASE RunTimers
  BY <1>8, CheckTimersHonest DEF RunTimers
<1>9. CASE BeginShutdown
  BY <1>9, StopHonest DEF BeginShutdown, stopAllPrograms
<1>10. ASSUME NEW q \in Pids, ProcessDies(q) PROVE Honest(n)'
  <2>1. PICK how \in ExitCodes \cup {BySignal} : Die(q, how)
    BY <1>10 DEF ProcessDies
  <2> QED
    BY <1>0, <2>1, DieEach DEF Honest
<1>11. ASSUME NEW m \in Names, ProgramSecond(m) PROVE Honest(n)'
  <2>1. CASE n # m
    BY <1>0, <1>11, <2>1, AgeEach, StillHonest DEF ProgramSecond
  <2>2. CASE n = m
    <3>1. /\ programs'[n] = Aged(programs[n]) /\ procs' = procs
          /\ programs[n] # NoProgram /\ programs[n] \in Program
      BY <1>0, <1>11, <2>2, AgeEach DEF ProgramSecond, Known, MgrInv, MgrTypeOK
    <3>2. /\ programs'[n].pid = programs[n].pid
          /\ programs'[n].state = programs[n].state
      BY <3>1 DEF Aged, Program
    <3> QED
      BY <1>0, <3>1, <3>2 DEF Honest, Live
  <2> QED
    BY <2>1, <2>2
<1> QED
  BY <1>1, <1>2, <1>3, <1>4, <1>5, <1>6, <1>7, <1>8, <1>9, <1>10, <1>11
  DEF Next, Daemon, Terminated, RefuseFirst, LeaveIdle, LeaveOnTimeout, Wait,
      ShutdownCommand, OtherCommand, ShutdownSecond, vars, mgrVars

LEMMA HonestInvariance == Spec => []HonestInv
<1>1. Init => HonestInv
  BY InitInv DEF Init, MgrInit, HonestInv, Honest
<1> QED
  BY <1>1, NextHonest, PTL DEF Spec

(* A program is shown as stopping exactly when its process, if it still lives, *)
(* was told to stop, whatever the operator does: stopping() and kill are never *)
(* called one without the other, a relaunch begins untold, and no signal meant *)
(* for one program reaches another.                                            *)
THEOREM ShownAsTold == Spec => []StoppingIffAsked
<1>1. HonestInv => StoppingIffAsked
  BY DEF HonestInv, Honest, StoppingIffAsked, Known, Alive
<1> QED
  BY <1>1, HonestInvariance, PTL

-----------------------------------------------------------------------------
(* The configuration of a process *)

EmptyAtFirst == pc = "init" => Known = {}

LEMMA InitiallyEmpty == Spec => []EmptyAtFirst
<1>1. Init => EmptyAtFirst
  BY DEF Init, MgrInit, EmptyAtFirst, Known
<1>2. EmptyAtFirst /\ [Next]_vars => EmptyAtFirst'
  <2> SUFFICES ASSUME EmptyAtFirst, [Next]_vars, pc' = "init" PROVE Known' = {}
    BY DEF EmptyAtFirst
  <2>1. pc = "init" /\ \A m \in Names : m \notin Known
    BY DEF Next, Daemon, LoadFirst, RefuseFirst, LeaveIdle, LeaveOnTimeout, Wait,
           HandleExit, HandleStray, handleSignal, ClientLine, StartCommand, StopCommand,
           RestartCommand, ReloadCommand, ShutdownCommand, OtherCommand, RunTimers,
           BeginShutdown, ProcessDies, ProgramSecond, ShutdownSecond, Terminated, vars,
           EmptyAtFirst
  <2>2. programs' = programs
    BY <2>1 DEF Next, Daemon, LoadFirst, RefuseFirst, LeaveIdle, LeaveOnTimeout, Wait,
           HandleExit, HandleStray, handleSignal, ClientLine, StartCommand, StopCommand,
           RestartCommand, ReloadCommand, ShutdownCommand, OtherCommand, RunTimers,
           BeginShutdown, ProcessDies, ProgramSecond, ShutdownSecond, Terminated, vars,
           Die, Age, mgrVars
  <2> QED
    BY <2>1, <2>2 DEF Known
<1> QED
  BY <1>1, <1>2, PTL DEF Spec

\* n has a live process, and is still there under the same configuration.
Runs(n) == n \in Known /\ Live(programs[n]) /\ Alive(programs[n].pid)
SameConfig(n) == programs'[n] # NoProgram /\ programs'[n].cfg = programs[n].cfg

LEMMA RunsTypes ==
    ASSUME MgrInv, NEW n \in Names, Runs(n)
    PROVE  programs[n] # NoProgram /\ programs[n] \in Program /\ NoProgram \notin Program
  BY ValuesAssumption DEF Runs, Known, MgrInv, MgrTypeOK

LEMMA LaunchesSame ==
    ASSUME MgrInv, NEW n \in Names, Runs(n), Launches(n, programs[n]) PROVE SameConfig(n)
<1>1. programs[n] \in Program /\ NoProgram \notin Program
  BY RunsTypes
<1>2. CASE programs'[n] = SetFatalError(programs[n])
  <2>1. SetFatalError(programs[n]) \in Program /\ SetFatalError(programs[n]).cfg = programs[n].cfg
    BY <1>1, TransitionType DEF SetFatalError, Program
  <2> QED
    BY <1>1, <1>2, <2>1 DEF SameConfig
<1>3. ASSUME NEW q \in Pids, NEW d \in Fds \cup {NoFd}, programs'[n] = Started(programs[n], q, d)
      PROVE  SameConfig(n)
  <2>1. Started(programs[n], q, d) \in Program /\ Started(programs[n], q, d).cfg = programs[n].cfg
    BY <1>1, StartedType DEF Started, Program
  <2> QED
    BY <1>1, <1>3, <2>1 DEF SameConfig
<1> QED
  BY <1>2, <1>3 DEF Launches

LEMMA ReloadSame ==
    ASSUME MgrInv, doReload, NEW n \in Names, Runs(n) PROVE SameConfig(n)
<1>0. programs[n] # NoProgram /\ programs[n] \in Program /\ NoProgram \notin Program
  BY RunsTypes
<1>1. CASE UNCHANGED <<mgrVars, history>>
  BY <1>0, <1>1 DEF mgrVars, SameConfig
<1>2. ASSUME NEW f \in Files, NEW S \in SUBSET Names, NEW U, Reloaded(f, S, U)
      PROVE  SameConfig(n)
  <2>1. DOMAIN f \subseteq Names /\ f \in [DOMAIN f -> Configs]
    BY FilesAssumption
  <2>2. Live(programs[n]) /\ n \notin Added(f, S)
    BY DEF Runs, Added
  <2>3. CASE n \in Removed(f, S)
    <3> DEFINE r == SetPendingRemoval(programs[n], TRUE)
    <3>1. r \in Program /\ r.cfg = programs[n].cfg
      BY <1>0, TransitionType DEF SetPendingRemoval, Program
    <3>2. StopIfUp(r) \in Program /\ StopIfUp(r).cfg = r.cfg
      BY <3>1, StopIfUpType DEF StopIfUp, Stopping, Program
    <3>3. programs'[n] = StopIfUp(r)
      BY <1>2, <2>1, <2>3, ReloadedEach
    <3> QED
      BY <1>0, <3>1, <3>2, <3>3 DEF SameConfig
  <2>4. CASE n \in Changed(f, S)
    <3> DEFINE s == SetPendingConfig(programs[n], f[n])
               r == SetPendingRestart(s, f[n].autostart)
    <3>0. f[n] \in Configs /\ f[n].autostart \in BOOLEAN
      BY <2>1, <2>4, ConfigsAssumption DEF Changed
    <3>1. s \in Program /\ s.cfg = programs[n].cfg
      BY <1>0, <3>0, TransitionType DEF SetPendingConfig, Program
    <3>2. r \in Program /\ r.cfg = programs[n].cfg
      BY <3>0, <3>1, TransitionType DEF SetPendingRestart, Program
    <3>3. StopIfUp(r) \in Program /\ StopIfUp(r).cfg = r.cfg
      BY <3>2, StopIfUpType DEF StopIfUp, Stopping, Program
    <3>4. programs'[n] = StopIfUp(r)
      BY <1>2, <2>1, <2>2, <2>4, ReloadedEach DEF Reconfigured
    <3> QED
      BY <1>0, <3>2, <3>3, <3>4 DEF SameConfig
  <2>5. CASE n \notin Removed(f, S) \cup Changed(f, S)
    BY <1>0, <1>2, <2>1, <2>2, <2>5, ReloadedEach DEF SameConfig
  <2> QED
    BY <2>3, <2>4, <2>5
<1> QED
  BY <1>1, <1>2 DEF doReload, reloadManager, reloadCutShort

LEMMA EventSame ==
    ASSUME MgrInv, NEW d \in Fds, handleEvent(d), NEW n \in Names, Runs(n)
    PROVE  SameConfig(n)
<1>0. programs[n] # NoProgram
  BY RunsTypes
<1>1. CASE Still(n)
  BY <1>0, <1>1 DEF Still, SameConfig
\* The program whose death is handled has no live process.
<1>2. ASSUME programs[n].pidfd # NoFd, Zombie(fds[programs[n].pidfd]) PROVE FALSE
  <2>1. fds[programs[n].pidfd] = programs[n].pid
    BY <1>0, <1>2 DEF MgrInv, Consistent
  <2> QED
    BY <1>2, <2>1 DEF Runs, Alive, Zombie
<1> QED
  BY <1>1, <1>2, HandleEventEach

LEMMA NextSame ==
    ASSUME IInv, EmptyAtFirst, [Next]_vars, NEW n \in Names, Runs(n)
    PROVE  SameConfig(n)
<1>0. /\ MgrInv /\ pc # "init"
      /\ programs[n] # NoProgram /\ programs[n] \in Program /\ NoProgram \notin Program
  BY RunsTypes DEF IInv, EmptyAtFirst, Runs
<1>1. CASE programs' = programs
  BY <1>0, <1>1 DEF SameConfig
<1>2. ASSUME NEW d \in Fds, HandleExit(d) \/ HandleStray(d) PROVE SameConfig(n)
  BY <1>0, <1>2, EventSame DEF HandleExit, HandleStray
<1>3. CASE handleSignal \/ ReloadCommand
  BY <1>0, <1>1, <1>3, ReloadSame DEF handleSignal, ReloadCommand, mgrVars
<1>4. ASSUME NEW S, S \subseteq {m \in Known : Up(programs[m])}, StopAndSignal(S)
      PROVE  SameConfig(n)
  <2>1. Stopping(programs[n]) \in Program /\ Stopping(programs[n]).cfg = programs[n].cfg
    BY <1>0, TransitionType DEF Stopping, Program
  <2> QED
    BY <1>0, <1>4, <2>1, StopAndSignalEach DEF Still, SameConfig
<1>5. CASE StartCommand \/ RestartCommand
  <2>1. PICK m \in Names : startProccess(m) \/ restartProccess(m)
    BY <1>5 DEF StartCommand, RestartCommand
  <2>2. \/ Still(n) \/ Launches(n, programs[n])
        \/ programs'[n] = Stopping(SetPendingRestart(programs[n], TRUE))
    BY <1>0, <2>1, StartProccessEach, RestartProccessEach
  <2> DEFINE r == SetPendingRestart(programs[n], TRUE)
  <2>3. r \in Program /\ r.cfg = programs[n].cfg
    BY <1>0, TransitionType DEF SetPendingRestart, Program
  <2>4. Stopping(r) \in Program /\ Stopping(r).cfg = r.cfg
    BY <2>3, TransitionType DEF Stopping, Program
  <2> QED
    BY <1>0, <2>2, <2>3, <2>4, LaunchesSame DEF Still, SameConfig
<1>6. CASE StopCommand
  <2>1. PICK m \in Names : stopProccess(m)
    BY <1>6 DEF StopCommand
  <2> QED
    BY <1>1, <1>4, <2>1 DEF stopProccess, mgrVars
<1>7. CASE RunTimers
  <2>1. n \in Known /\ n \notin Removable
    BY DEF Runs, Removable
  <2>2. programs'[n] = Confirmed(programs[n])
    BY <1>0, <1>7, <2>1, CheckTimersEach DEF RunTimers
  <2>3. Confirmed(programs[n]) \in Program /\ Confirmed(programs[n]).cfg = programs[n].cfg
    BY <1>0, ConfirmedType DEF Confirmed, SetRunning, ResetRestarts, Program
  <2> QED
    BY <1>0, <2>2, <2>3 DEF SameConfig
<1>8. CASE BeginShutdown
  BY <1>4, <1>8 DEF BeginShutdown, stopAllPrograms
<1>9. ASSUME NEW m \in Names, ProgramSecond(m) PROVE SameConfig(n)
  <2>1. programs'[n] = programs[n] \/ programs'[n] = Aged(programs[n])
    BY <1>0, <1>9, AgeEach DEF ProgramSecond, Still
  <2>2. Aged(programs[n]) \in Program /\ Aged(programs[n]).cfg = programs[n].cfg
    BY <1>0, AgedType DEF Aged, Program
  <2> QED
    BY <1>0, <2>1, <2>2 DEF SameConfig
<1>10. ASSUME NEW q \in Pids, ProcessDies(q) PROVE SameConfig(n)
  BY <1>1, <1>10 DEF ProcessDies, Die
<1> QED
  BY <1>0, <1>1, <1>2, <1>3, <1>5, <1>6, <1>7, <1>8, <1>9, <1>10
  DEF Next, Daemon, Terminated, LoadFirst, RefuseFirst, LeaveIdle, LeaveOnTimeout, Wait,
      ShutdownCommand, OtherCommand, ShutdownSecond, vars, mgrVars

(* What a reload changes reaches a program only when the process it has is     *)
(* dead, for every file, number of reloads and operator: reloadManager leaves  *)
(* the configuration of a live program alone, removeMarkedPrograms takes out   *)
(* no live one, and handleStoppedDeath is about the process that died.         *)
THEOREM UnderItsConfig == Spec => KeepsItsConfig
<1>1. IInv /\ EmptyAtFirst /\ [Next]_vars =>
        [\A n \in Known :
           Live(programs[n]) /\ Alive(programs[n].pid) =>
             /\ programs'[n] # NoProgram
             /\ programs'[n].cfg = programs[n].cfg]_vars
  BY NextSame DEF Runs, SameConfig, Known
<1> QED
  BY <1>1, Invariance, InitiallyEmpty, PTL DEF Spec, KeepsItsConfig
=============================================================================
