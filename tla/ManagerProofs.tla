---------------------------- MODULE ManagerProofs ----------------------------
(***************************************************************************)
(* What one call of ProccessManager preserves.  The methods all end in     *)
(* launch() or in no launch at all, so the heart is LaunchConsistent: if a *)
(* method leaves the programs and the kernel's tables consistent, launching*)
(* leaves them consistent too.                                             *)
(***************************************************************************)
EXTENDS ProccessManager, TLAPS

\* The process that a program holds by its number, by its pidfd, or both, is an
\* unreaped child that runs this program.
Holds(table, n, q) == q # NoPid /\ table[q] # Free /\ table[q].owner = n

Consistent(progs, table, open) ==
    \A n \in Names : progs[n] # NoProgram =>
        /\ Live(progs[n]) => Holds(table, n, progs[n].pid)
        /\ progs[n].pidfd # NoFd =>
             open[progs[n].pidfd] = progs[n].pid /\ Holds(table, n, progs[n].pid)

Typed(progs, table, open) ==
    /\ progs \in [Names -> Program \cup {NoProgram}]
    /\ table \in [Pids -> Proc \cup {Free}]
    /\ open \in [Fds -> Pids \cup {NoPid}]

MgrInv == MgrTypeOK /\ Consistent(programs, procs, fds)

\* What holds besides for an operator who waits for stops to complete: no child
\* is lost, no pidfd is left open or replaced while it is open, and the events
\* of the batch are about dead processes.
Tracked(progs, table) ==
    \A q \in Pids : table[q] # Free =>
        \E n \in Names : progs[n] # NoProgram /\ Live(progs[n]) /\ progs[n].pid = q

IdleUnwatched(progs) ==
    \A n \in Names : progs[n] # NoProgram /\ progs[n].pidfd # NoFd => Live(progs[n])

AllWatched(progs, open) ==
    \A d \in Fds : open[d] # NoPid =>
        \E n \in Names : progs[n] # NoProgram /\ progs[n].pidfd = d

AllDead(events, table, open) ==
    \A d \in events : /\ open[d] # NoPid
                      /\ table[open[d]] # Free
                      /\ table[open[d]].status = "zombie"

Clean(events, progs, table, open) ==
    /\ Tracked(progs, table)
    /\ IdleUnwatched(progs)
    /\ AllWatched(progs, open)
    /\ AllDead(events, table, open)

\* A step after which the daemon is as clean as before.
StaysClean ==
    \A events \in SUBSET Fds :
        Clean(events, programs, procs, fds) => Clean(events, programs', procs', fds')

-----------------------------------------------------------------------------
(* The operators of Program keep a record a program *)

LEMMA ZeroIsWithinBounds == 0 \in 0 .. MaxAge /\ 0 \in 0 .. MaxRestarts
  BY BoundsAssumption

LEMMA NewProgramType ==
    ASSUME NEW c \in Configs PROVE NewProgram(c) \in Program
  BY ZeroIsWithinBounds DEF NewProgram, Program, State

LEMMA StartedType ==
    ASSUME NEW p \in Program, NEW q \in Pids, NEW d \in Fds \cup {NoFd}
    PROVE  Started(p, q, d) \in Program
  BY ZeroIsWithinBounds DEF Started, Program, State

LEMMA TransitionType ==
    ASSUME NEW p \in Program
    PROVE  /\ SetRunning(p) \in Program
           /\ Exited(p) \in Program
           /\ Stopping(p) \in Program
           /\ Stopped(p) \in Program
           /\ SetFatalError(p) \in Program
           /\ ResetRestarts(p) \in Program
           /\ ClosePidFd(p) \in Program
           /\ \A b \in BOOLEAN : /\ SetPendingRestart(p, b) \in Program
                                 /\ SetPendingRemoval(p, b) \in Program
           /\ \A c \in Configs : SetPendingConfig(p, c) \in Program
<1>1. /\ SetRunning(p) \in Program
      /\ Exited(p) \in Program
      /\ Stopped(p) \in Program
      /\ SetFatalError(p) \in Program
  BY DEF SetRunning, Exited, Stopped, SetFatalError, Program, State
<1>2. Stopping(p) \in Program /\ ResetRestarts(p) \in Program
  BY ZeroIsWithinBounds DEF Stopping, ResetRestarts, Program, State
<1>3. ClosePidFd(p) \in Program
  BY DEF ClosePidFd, Program
<1>4. ASSUME NEW b \in BOOLEAN
      PROVE  SetPendingRestart(p, b) \in Program /\ SetPendingRemoval(p, b) \in Program
  BY DEF SetPendingRestart, SetPendingRemoval, Program
<1>5. ASSUME NEW c \in Configs PROVE SetPendingConfig(p, c) \in Program
  BY DEF SetPendingConfig, Program
<1> QED
  BY <1>1, <1>2, <1>3, <1>4, <1>5

LEMMA IncRestartNumType ==
    ASSUME NEW p \in Program PROVE IncRestartNum(p) \in Program
  BY BoundsAssumption DEF IncRestartNum, Program, State

LEMMA ApplyPendingConfigType ==
    ASSUME NEW p \in Program PROVE ApplyPendingConfig(p) \in Program
  BY DEF ApplyPendingConfig, Program, State

LEMMA AgedType ==
    ASSUME NEW p \in Program PROVE Aged(p) \in Program
<1>1. \A a \in 0 .. MaxAge : Older(a) \in 0 .. MaxAge
  BY BoundsAssumption DEF Older
<1> QED
  BY <1>1 DEF Aged, Program, State

LEMMA ConfirmedType ==
    ASSUME NEW p \in Program PROVE Confirmed(p) \in Program
<1>1. SetRunning(p) \in Program
  BY TransitionType
<1>2. ResetRestarts(SetRunning(p)) \in Program
  BY <1>1, TransitionType
<1> QED
  BY <1>2 DEF Confirmed

-----------------------------------------------------------------------------
(* The kernel's tables *)

LEMMA SignalledTable ==
    ASSUME NEW table \in [Pids -> Proc \cup {Free}], NEW targets,
           NEW ask \in {"stop", "kill"}
    PROVE  /\ Signalled(table, targets, ask) \in [Pids -> Proc \cup {Free}]
           /\ \A n, q : q \in Pids \cup {NoPid} =>
                (Holds(table, n, q) => Holds(Signalled(table, targets, ask), n, q))
<1> DEFINE after == Signalled(table, targets, ask)
<1>1. ASSUME NEW q \in Pids
      PROVE  /\ after[q] \in Proc \cup {Free}
             /\ table[q] # Free => after[q] # Free /\ after[q].owner = table[q].owner
  <2>1. CASE table[q] = Free
    BY <2>1 DEF Signalled
  <2>2. CASE table[q] # Free
    <3>1. table[q] \in Proc
      BY <2>2
    <3>2. [table[q] EXCEPT !.asked = ask] \in Proc
      BY <3>1 DEF Proc
    <3>3. after[q] \in Proc
      BY <3>1, <3>2 DEF Signalled
    <3>4. after[q].owner = table[q].owner
      BY <3>1 DEF Signalled, Proc
    <3> QED
      BY <3>3, <3>4, FreeAssumption
  <2> QED
    BY <2>1, <2>2
<1>2. after \in [Pids -> Proc \cup {Free}]
  BY <1>1 DEF Signalled
<1> QED
  BY <1>1, <1>2, SentinelsAssumption DEF Holds

\* Nothing about who exists, and who is dead, is changed by the step from table
\* to table2.
SameDead(table, table2) ==
    \A q \in Pids :
        /\ table2[q] # Free => table[q] # Free
        /\ table[q] # Free /\ table[q].status = "zombie" =>
             table2[q] # Free /\ table2[q].status = "zombie"

LEMMA SignalledDead ==
    ASSUME NEW table \in [Pids -> Proc \cup {Free}], NEW targets,
           NEW ask \in {"stop", "kill"}
    PROVE  SameDead(table, Signalled(table, targets, ask))
<1> SUFFICES ASSUME NEW q \in Pids
             PROVE  /\ Signalled(table, targets, ask)[q] # Free => table[q] # Free
                    /\ table[q] # Free /\ table[q].status = "zombie" =>
                         Signalled(table, targets, ask)[q] = table[q]
  BY DEF SameDead
<1> QED
  BY DEF Signalled

-----------------------------------------------------------------------------
(* Launching *)

LEMMA LaunchConsistent ==
    ASSUME NEW progs, NEW table, NEW open, NEW L,
           Typed(progs, table, open),
           L \subseteq {n \in Names : progs[n] # NoProgram},
           Consistent(progs, table, open),
           Launch(progs, table, open, L)
    PROVE  MgrInv'
<1>1. PICK pidOf \in [L -> Pids \cup {NoPid}], fdOf \in [L -> Fds \cup {NoFd}] :
        /\ LaunchResults(progs, table, open, L, pidOf, fdOf)
        /\ programs' = [n \in Names |->
             IF n \in L THEN Launched(progs[n], pidOf[n], fdOf[n]) ELSE progs[n]]
        /\ procs' = [q \in Pids |->
             IF \E n \in L : pidOf[n] = q
             THEN NewProc(CHOOSE n \in L : pidOf[n] = q)
             ELSE table[q]]
        /\ fds' = [d \in Fds |->
             IF \E n \in L : fdOf[n] = d
             THEN pidOf[CHOOSE n \in L : fdOf[n] = d]
             ELSE IF \E n \in L : pidOf[n] # NoPid /\ progs[n].pidfd = d
                  THEN NoPid
                  ELSE open[d]]
  BY DEF Launch
<1> DEFINE Gets(n) == n \in L /\ pidOf[n] # NoPid
<1>2. \A n \in L : n \in Names /\ progs[n] \in Program
  BY DEF Typed
<1>3. \A n : Gets(n) =>
        /\ pidOf[n] \in Pids /\ table[pidOf[n]] = Free
        /\ fdOf[n] \in Fds \cup {NoFd}
        /\ fdOf[n] # NoFd => \/ open[fdOf[n]] = NoPid
                             \/ \E m \in L : /\ pidOf[m] # NoPid
                                             /\ progs[m].pidfd = fdOf[n]
  BY <1>1 DEF LaunchResults
<1>4. \A m, n \in L :
        /\ pidOf[m] = pidOf[n] /\ pidOf[m] # NoPid => m = n
        /\ fdOf[m] = fdOf[n] /\ fdOf[m] # NoFd => m = n
        /\ pidOf[m] = NoPid => fdOf[m] = NoFd
  BY <1>1 DEF LaunchResults
<1>5. MgrTypeOK'
  <2>1. ASSUME NEW n \in Names PROVE programs'[n] \in Program \cup {NoProgram}
    <3>1. CASE Gets(n)
      BY <1>1, <1>2, <1>3, <3>1, StartedType DEF Launched
    <3>2. CASE n \in L /\ ~Gets(n)
      BY <1>1, <1>2, <3>2, TransitionType DEF Launched
    <3>3. CASE n \notin L
      BY <1>1, <3>3 DEF Typed
    <3> QED
      BY <3>1, <3>2, <3>3
  <2>2. ASSUME NEW q \in Pids PROVE procs'[q] \in Proc \cup {Free}
    <3>1. CASE \E n \in L : pidOf[n] = q
      <4>1. (CHOOSE n \in L : pidOf[n] = q) \in Names
        BY <1>2, <3>1
      <4> QED
        BY <1>1, <3>1, <4>1 DEF NewProc, Proc
    <3>2. CASE ~\E n \in L : pidOf[n] = q
      BY <1>1, <3>2 DEF Typed
    <3> QED
      BY <3>1, <3>2
  <2>3. ASSUME NEW d \in Fds PROVE fds'[d] \in Pids \cup {NoPid}
    <3>1. CASE \E n \in L : fdOf[n] = d
      <4>1. (CHOOSE n \in L : fdOf[n] = d) \in L
        BY <3>1
      <4> QED
        BY <1>1, <3>1, <4>1
    <3>2. CASE ~\E n \in L : fdOf[n] = d
      BY <1>1, <3>2 DEF Typed
    <3> QED
      BY <3>1, <3>2
  <2>4. /\ programs' = [n \in Names |-> programs'[n]]
        /\ procs' = [q \in Pids |-> procs'[q]]
        /\ fds' = [d \in Fds |-> fds'[d]]
    BY <1>1
  <2> QED
    BY <2>1, <2>2, <2>3, <2>4 DEF MgrTypeOK
<1>6. ASSUME NEW n \in Names, Gets(n)
      PROVE  /\ programs'[n].pid = pidOf[n] /\ programs'[n].pidfd = fdOf[n]
             /\ Holds(procs', n, pidOf[n])
             /\ fdOf[n] # NoFd => fds'[fdOf[n]] = pidOf[n]
  <2>1. /\ programs'[n] = Started(progs[n], pidOf[n], fdOf[n])
        /\ progs[n] \in Program
    BY <1>1, <1>2, <1>6 DEF Launched
  <2>2. programs'[n].pid = pidOf[n] /\ programs'[n].pidfd = fdOf[n]
    BY <2>1 DEF Started, Program
  <2>3. (CHOOSE m \in L : pidOf[m] = pidOf[n]) = n
    BY <1>4, <1>6
  <2>4. procs'[pidOf[n]] = NewProc(n)
    BY <1>1, <1>3, <1>6, <2>3
  <2>5. Holds(procs', n, pidOf[n])
    <3>1. NewProc(n) \in Proc /\ NewProc(n).owner = n
      BY DEF NewProc, Proc
    <3> QED
      BY <1>6, <2>4, <3>1, FreeAssumption DEF Holds
  <2>6. ASSUME fdOf[n] # NoFd PROVE fds'[fdOf[n]] = pidOf[n]
    <3>1. (CHOOSE m \in L : fdOf[m] = fdOf[n]) = n
      BY <1>4, <1>6, <2>6
    <3> QED
      BY <1>1, <1>3, <1>6, <2>6, <3>1
  <2> QED
    BY <2>2, <2>5, <2>6
<1>7. ASSUME NEW n \in Names, progs[n] # NoProgram, ~Gets(n)
      PROVE  /\ Live(programs'[n]) => Live(progs[n])
             /\ programs'[n].pid = progs[n].pid
             /\ programs'[n].pidfd = progs[n].pidfd
  <2>1. progs[n] \in Program
    BY <1>7 DEF Typed
  <2>2. CASE n \in L
    <3>1. programs'[n] = SetFatalError(progs[n])
      BY <1>1, <1>7, <2>2 DEF Launched
    <3> QED
      BY <2>1, <3>1 DEF SetFatalError, Live, Program
  <2>3. CASE n \notin L
    BY <1>1, <2>3
  <2> QED
    BY <2>2, <2>3
<1>8. ASSUME NEW n \in Names, NEW q \in Pids \cup {NoPid}, Holds(table, n, q)
      PROVE  Holds(procs', n, q)
  <2>1. ~\E m \in L : pidOf[m] = q
    BY <1>3, <1>8 DEF Holds
  <2> QED
    BY <1>1, <1>8, <2>1 DEF Holds
<1>9. ASSUME NEW n \in Names, progs[n] # NoProgram, ~Gets(n), progs[n].pidfd # NoFd
      PROVE  fds'[progs[n].pidfd] = progs[n].pid
  <2> DEFINE d == progs[n].pidfd
  <2>1. /\ d \in Fds
        /\ open[d] = progs[n].pid
        /\ Holds(table, n, progs[n].pid)
    BY <1>9 DEF Typed, Consistent, Program
  <2>2. ASSUME NEW m \in L, pidOf[m] # NoPid, progs[m].pidfd = d PROVE FALSE
    <3>1. m \in Names /\ progs[m] # NoProgram
      BY <1>2, ValuesAssumption
    <3>2. open[d] = progs[m].pid /\ Holds(table, m, progs[m].pid)
      BY <1>9, <2>2, <3>1 DEF Consistent
    <3>3. m = n
      BY <2>1, <3>2 DEF Holds
    <3> QED
      BY <1>9, <2>2, <3>3
  <2>3. ~\E m \in L : fdOf[m] = d
    BY <1>3, <1>4, <2>1, <2>2, <1>9 DEF Holds
  <2> QED
    BY <1>1, <2>1, <2>2, <2>3
<1>10. ASSUME NEW n \in Names, programs'[n] # NoProgram
       PROVE  /\ Live(programs'[n]) => Holds(procs', n, programs'[n].pid)
              /\ programs'[n].pidfd # NoFd =>
                   /\ fds'[programs'[n].pidfd] = programs'[n].pid
                   /\ Holds(procs', n, programs'[n].pid)
  <2>1. CASE Gets(n)
    BY <1>6, <2>1
  <2>2. CASE ~Gets(n)
    <3>1. progs[n] # NoProgram /\ progs[n] \in Program
      BY <1>1, <1>2, <1>10, ValuesAssumption DEF Typed
    <3>2. progs[n].pid \in Pids \cup {NoPid}
      BY <3>1 DEF Program
    <3>3. /\ Live(progs[n]) => Holds(table, n, progs[n].pid)
          /\ progs[n].pidfd # NoFd => Holds(table, n, progs[n].pid)
      BY <3>1 DEF Consistent
    <3> QED
      BY <1>7, <1>8, <1>9, <2>2, <3>1, <3>2, <3>3
  <2> QED
    BY <2>1, <2>2
<1> QED
  BY <1>5, <1>10 DEF MgrInv, Consistent

LEMMA LaunchClean ==
    ASSUME NEW progs, NEW table, NEW open, NEW L, NEW events \in SUBSET Fds,
           Typed(progs, table, open),
           L \subseteq {n \in Names : progs[n] # NoProgram},
           \A n \in L : ~Live(progs[n]),
           Clean(events, progs, table, open),
           Launch(progs, table, open, L)
    PROVE  Clean(events, programs', procs', fds')
<1>1. PICK pidOf \in [L -> Pids \cup {NoPid}], fdOf \in [L -> Fds \cup {NoFd}] :
        /\ LaunchResults(progs, table, open, L, pidOf, fdOf)
        /\ programs' = [n \in Names |->
             IF n \in L THEN Launched(progs[n], pidOf[n], fdOf[n]) ELSE progs[n]]
        /\ procs' = [q \in Pids |->
             IF \E n \in L : pidOf[n] = q
             THEN NewProc(CHOOSE n \in L : pidOf[n] = q)
             ELSE table[q]]
        /\ fds' = [d \in Fds |->
             IF \E n \in L : fdOf[n] = d
             THEN pidOf[CHOOSE n \in L : fdOf[n] = d]
             ELSE IF \E n \in L : pidOf[n] # NoPid /\ progs[n].pidfd = d
                  THEN NoPid
                  ELSE open[d]]
  BY DEF Launch
<1>2. \A n \in L : /\ n \in Names /\ progs[n] # NoProgram /\ progs[n] \in Program
                   /\ progs[n].pidfd = NoFd
  BY DEF Typed, Clean, IdleUnwatched
<1>3. \A n \in L :
        /\ pidOf[n] # NoPid => pidOf[n] \in Pids /\ table[pidOf[n]] = Free
        /\ fdOf[n] # NoFd => pidOf[n] # NoPid /\ open[fdOf[n]] = NoPid
  BY <1>1, <1>2 DEF LaunchResults
<1>4. \A d \in Fds : open[d] # NoPid => fds'[d] = open[d]
  BY <1>1, <1>2, <1>3, SentinelsAssumption
<1>5. \A q \in Pids : table[q] # Free => procs'[q] = table[q]
  BY <1>1, <1>3, SentinelsAssumption
<1>6. ASSUME NEW n \in L
      PROVE  /\ programs'[n] # NoProgram
             /\ pidOf[n] # NoPid => /\ Live(programs'[n])
                                    /\ programs'[n].pid = pidOf[n]
                                    /\ programs'[n].pidfd = fdOf[n]
             /\ pidOf[n] = NoPid => programs'[n].pidfd = NoFd
  <2>1. programs'[n] = Launched(progs[n], pidOf[n], fdOf[n])
    BY <1>1, <1>2
  <2>2. CASE pidOf[n] = NoPid
    <3>1. programs'[n] = SetFatalError(progs[n])
      BY <2>1, <2>2 DEF Launched
    <3>2. SetFatalError(progs[n]) \in Program /\ SetFatalError(progs[n]).pidfd = NoFd
      BY <1>2, TransitionType DEF SetFatalError, Program
    <3> QED
      BY <2>2, <3>1, <3>2, ValuesAssumption
  <2>3. CASE pidOf[n] # NoPid
    <3>1. programs'[n] = Started(progs[n], pidOf[n], fdOf[n])
      BY <2>1, <2>3 DEF Launched
    <3>2. Started(progs[n], pidOf[n], fdOf[n]) \in Program
      BY <1>2, <1>3, <2>3, StartedType
    <3>3. /\ Live(programs'[n])
          /\ programs'[n].pid = pidOf[n]
          /\ programs'[n].pidfd = fdOf[n]
      BY <1>2, <3>1 DEF Started, Live, Program
    <3> QED
      BY <2>3, <3>1, <3>2, <3>3, ValuesAssumption
  <2> QED
    BY <2>2, <2>3
<1>7. \A n \in Names : n \notin L => programs'[n] = progs[n]
  BY <1>1
<1>8. Tracked(programs', procs')
  <2> SUFFICES ASSUME NEW q \in Pids, procs'[q] # Free
               PROVE  \E n \in Names : /\ programs'[n] # NoProgram
                                       /\ Live(programs'[n])
                                       /\ programs'[n].pid = q
    BY DEF Tracked
  <2>1. CASE \E n \in L : pidOf[n] = q
    BY <1>2, <1>6, <2>1, SentinelsAssumption
  <2>2. CASE ~\E n \in L : pidOf[n] = q
    <3>1. table[q] # Free
      BY <1>1, <2>2
    <3>2. PICK n \in Names : progs[n] # NoProgram /\ Live(progs[n]) /\ progs[n].pid = q
      BY <3>1 DEF Clean, Tracked
    <3>3. programs'[n] = progs[n]
      BY <1>7, <3>2
    <3> QED
      BY <3>2, <3>3
  <2> QED
    BY <2>1, <2>2
<1>9. IdleUnwatched(programs')
  <2> SUFFICES ASSUME NEW n \in Names, programs'[n] # NoProgram,
                      programs'[n].pidfd # NoFd
               PROVE  Live(programs'[n])
    BY DEF IdleUnwatched
  <2>1. CASE n \in L
    BY <1>6, <2>1
  <2>2. CASE n \notin L
    BY <1>7, <2>2 DEF Clean, IdleUnwatched
  <2> QED
    BY <2>1, <2>2
<1>10. AllWatched(programs', fds')
  <2> SUFFICES ASSUME NEW d \in Fds, fds'[d] # NoPid
               PROVE  \E n \in Names : programs'[n] # NoProgram /\ programs'[n].pidfd = d
    BY DEF AllWatched
  <2>1. CASE \E n \in L : fdOf[n] = d
    BY <1>2, <1>3, <1>6, <2>1, SentinelsAssumption
  <2>2. CASE ~\E n \in L : fdOf[n] = d
    <3>1. open[d] # NoPid
      BY <1>1, <2>2
    <3>2. PICK n \in Names : progs[n] # NoProgram /\ progs[n].pidfd = d
      BY <3>1 DEF Clean, AllWatched
    <3>3. n \notin L
      BY <1>2, <3>2, SentinelsAssumption
    <3> QED
      BY <1>7, <3>2, <3>3
  <2> QED
    BY <2>1, <2>2
<1>11. AllDead(events, procs', fds')
  <2> SUFFICES ASSUME NEW d \in events
               PROVE  /\ fds'[d] # NoPid
                      /\ procs'[fds'[d]] # Free
                      /\ procs'[fds'[d]].status = "zombie"
    BY DEF AllDead
  <2>1. d \in Fds /\ open[d] # NoPid /\ open[d] \in Pids \cup {NoPid}
    BY DEF Clean, AllDead, Typed
  <2>2. table[open[d]] # Free /\ table[open[d]].status = "zombie"
    BY DEF Clean, AllDead
  <2> QED
    BY <1>4, <1>5, <2>1, <2>2
<1> QED
  BY <1>8, <1>9, <1>10, <1>11 DEF Clean

-----------------------------------------------------------------------------
(* Steps that leave every program the process it had, or without one *)

\* p has the process of its earlier self o, and is live if o was.
SameProcess(p, o) ==
    p.pid = o.pid /\ p.pidfd = o.pidfd /\ (Live(p) <=> Live(o))

NoProcess(p) == p.pidfd = NoFd /\ ~Live(p)

LEMMA SameProcessConsistent ==
    ASSUME NEW progs, NEW table, NEW open, NEW progs2, NEW table2,
           progs \in [Names -> Program \cup {NoProgram}],
           Consistent(progs, table, open),
           \A n \in Names : progs2[n] # NoProgram =>
             \/ progs[n] # NoProgram /\ SameProcess(progs2[n], progs[n])
             \/ NoProcess(progs2[n]),
           \A n \in Names, q \in Pids \cup {NoPid} :
             Holds(table, n, q) => Holds(table2, n, q)
    PROVE  Consistent(progs2, table2, open)
<1> SUFFICES ASSUME NEW n \in Names, progs2[n] # NoProgram
             PROVE  /\ Live(progs2[n]) => Holds(table2, n, progs2[n].pid)
                    /\ progs2[n].pidfd # NoFd =>
                         /\ open[progs2[n].pidfd] = progs2[n].pid
                         /\ Holds(table2, n, progs2[n].pid)
  BY DEF Consistent
<1>1. CASE NoProcess(progs2[n])
  BY <1>1 DEF NoProcess
<1>2. CASE progs[n] # NoProgram /\ SameProcess(progs2[n], progs[n])
  <2>1. progs[n].pid \in Pids \cup {NoPid}
    BY <1>2 DEF Program
  <2> QED
    BY <1>2, <2>1 DEF SameProcess, Consistent
<1> QED
  BY <1>1, <1>2

LEMMA SameProcessClean ==
    ASSUME NEW progs, NEW table, NEW open, NEW progs2, NEW table2,
           NEW events \in SUBSET Fds,
           open \in [Fds -> Pids \cup {NoPid}],
           Clean(events, progs, table, open),
           \A n \in Names : progs[n] # NoProgram /\ Live(progs[n]) =>
             progs2[n] # NoProgram /\ SameProcess(progs2[n], progs[n]),
           \A n \in Names : progs2[n] # NoProgram =>
             \/ progs[n] # NoProgram /\ SameProcess(progs2[n], progs[n])
             \/ NoProcess(progs2[n]),
           SameDead(table, table2)
    PROVE  Clean(events, progs2, table2, open)
<1>1. Tracked(progs2, table2)
  BY DEF Clean, Tracked, SameProcess, SameDead
<1>2. IdleUnwatched(progs2)
  BY DEF Clean, IdleUnwatched, SameProcess, NoProcess
<1>3. AllWatched(progs2, open)
  <2> SUFFICES ASSUME NEW d \in Fds, open[d] # NoPid
               PROVE  \E n \in Names : progs2[n] # NoProgram /\ progs2[n].pidfd = d
    BY DEF AllWatched
  <2>1. PICK n \in Names : progs[n] # NoProgram /\ progs[n].pidfd = d
    BY DEF Clean, AllWatched
  <2>2. Live(progs[n])
    BY <2>1, SentinelsAssumption DEF Clean, IdleUnwatched
  <2> QED
    BY <2>1, <2>2 DEF SameProcess
<1>4. AllDead(events, table2, open)
  BY DEF Clean, AllDead, SameDead
<1> QED
  BY <1>1, <1>2, <1>3, <1>4 DEF Clean

LEMMA SameProcessStaysClean ==
    ASSUME MgrInv, UNCHANGED fds, SameDead(procs, procs'),
           \A n \in Names :
             /\ programs'[n] # NoProgram <=> programs[n] # NoProgram
             /\ programs[n] # NoProgram => SameProcess(programs'[n], programs[n])
    PROVE  StaysClean
  BY SameProcessClean DEF StaysClean, MgrInv, MgrTypeOK

LEMMA UnchangedStaysClean == UNCHANGED mgrVars => StaysClean
  BY DEF mgrVars, StaysClean, Clean, Tracked, IdleUnwatched, AllWatched, AllDead

LEMMA TransitionProcess ==
    ASSUME NEW p \in Program
    PROVE  /\ SameProcess(Confirmed(p), p)
           /\ SameProcess(Aged(p), p)
           /\ SameProcess(StopIfUp(p), p)
           /\ Live(p) => SameProcess(Stopping(p), p)
           /\ SameProcess(ApplyPendingConfig(p), p)
           /\ \A b : /\ SameProcess(SetPendingRestart(p, b), p)
                     /\ SameProcess(SetPendingRemoval(p, b), p)
           /\ \A c : SameProcess(SetPendingConfig(p, c), p)
<1>1. SameProcess(Confirmed(p), p)
  BY DEF Confirmed, SetRunning, ResetRestarts, SameProcess, Live, Program
<1>2. SameProcess(Aged(p), p)
  BY DEF Aged, SameProcess, Live, Program
<1>3. SameProcess(StopIfUp(p), p) /\ (Live(p) => SameProcess(Stopping(p), p))
  BY DEF StopIfUp, Stopping, SameProcess, Live, Up, Program
<1>4. SameProcess(ApplyPendingConfig(p), p)
  BY DEF ApplyPendingConfig, SameProcess, Live, Program
<1>5. ASSUME NEW b
      PROVE  /\ SameProcess(SetPendingRestart(p, b), p)
             /\ SameProcess(SetPendingRemoval(p, b), p)
  BY DEF SetPendingRestart, SetPendingRemoval, SameProcess, Live, Program
<1>6. ASSUME NEW c PROVE SameProcess(SetPendingConfig(p, c), p)
  BY DEF SetPendingConfig, SameProcess, Live, Program
<1> QED
  BY <1>1, <1>2, <1>3, <1>4, <1>5, <1>6

LEMMA StopIfUpType ==
    ASSUME NEW p \in Program PROVE StopIfUp(p) \in Program
  BY TransitionType DEF StopIfUp

-----------------------------------------------------------------------------
(* Start, stop and restart *)

LEMMA StartManagerInv ==
    ASSUME MgrInv, NEW f, DOMAIN f \subseteq Names, f \in [DOMAIN f -> Configs],
           startManager(f)
    PROVE  MgrInv'
<1> DEFINE progs == [n \in Names |-> IF n \in DOMAIN f THEN NewProgram(f[n])
                                                       ELSE NoProgram]
<1>1. \A n \in DOMAIN f : NewProgram(f[n]) \in Program
  BY NewProgramType
<1>2. Typed(progs, procs, fds)
  BY <1>1 DEF Typed, MgrInv, MgrTypeOK
<1>3. Autostarting(f) \subseteq {n \in Names : progs[n] # NoProgram}
  BY <1>1, ValuesAssumption DEF Autostarting
<1>4. Consistent(progs, procs, fds)
  BY DEF Consistent, NewProgram, Live
<1>5. Launch(progs, procs, fds, Autostarting(f))
  BY DEF startManager
<1> HIDE DEF progs
<1> QED
  BY <1>2, <1>3, <1>4, <1>5, LaunchConsistent

LEMMA StartManagerClean ==
    ASSUME MgrInv, NEW f, DOMAIN f \subseteq Names, f \in [DOMAIN f -> Configs],
           \A q \in Pids : procs[q] = Free, \A d \in Fds : fds[d] = NoPid,
           startManager(f)
    PROVE  Clean({}, programs', procs', fds')
<1> DEFINE progs == [n \in Names |-> IF n \in DOMAIN f THEN NewProgram(f[n])
                                                       ELSE NoProgram]
<1>1. \A n \in DOMAIN f : NewProgram(f[n]) \in Program
  BY NewProgramType
<1>2. Typed(progs, procs, fds)
  BY <1>1 DEF Typed, MgrInv, MgrTypeOK
<1>3. /\ Autostarting(f) \subseteq {n \in Names : progs[n] # NoProgram}
      /\ \A n \in Autostarting(f) : ~Live(progs[n])
  BY <1>1, ValuesAssumption DEF Autostarting, NewProgram, Live
<1>4. Clean({}, progs, procs, fds)
  BY DEF Clean, Tracked, IdleUnwatched, AllWatched, AllDead, NewProgram
<1>5. Launch(progs, procs, fds, Autostarting(f))
  BY DEF startManager
<1> HIDE DEF progs
<1> QED
  BY <1>2, <1>3, <1>4, <1>5, LaunchClean

LEMMA StopAndSignalInv ==
    ASSUME MgrInv, NEW S, S \subseteq {n \in Known : Up(programs[n])},
           StopAndSignal(S)
    PROVE  MgrInv' /\ StaysClean
<1>1. \A n \in S : n \in Names /\ programs[n] \in Program /\ Live(programs[n])
  BY DEF Known, Up, Live, MgrInv, MgrTypeOK
<1>2. programs' \in [Names -> Program \cup {NoProgram}]
  BY <1>1, TransitionType DEF StopAndSignal, MgrInv, MgrTypeOK
<1>3. \A n \in Names :
        /\ programs'[n] # NoProgram <=> programs[n] # NoProgram
        /\ programs[n] # NoProgram => SameProcess(programs'[n], programs[n])
  <2> SUFFICES ASSUME NEW n \in Names
               PROVE  /\ programs'[n] # NoProgram <=> programs[n] # NoProgram
                      /\ programs[n] # NoProgram =>
                           SameProcess(programs'[n], programs[n])
    OBVIOUS
  <2>1. CASE n \in S
    BY <1>1, <2>1, TransitionType, TransitionProcess, ValuesAssumption
    DEF StopAndSignal
  <2>2. CASE n \notin S
    BY <2>2 DEF StopAndSignal, SameProcess
  <2> QED
    BY <2>1, <2>2
<1>4. /\ procs' \in [Pids -> Proc \cup {Free}]
      /\ \A n \in Names, q \in Pids \cup {NoPid} :
            Holds(procs, n, q) => Holds(procs', n, q)
  BY SignalledTable DEF StopAndSignal, MgrInv, MgrTypeOK
<1>5. Consistent(programs', procs', fds)
  BY <1>3, <1>4, SameProcessConsistent DEF MgrInv, MgrTypeOK
<1>6. UNCHANGED fds
  BY DEF StopAndSignal
<1>7. SameDead(procs, procs')
  BY SignalledDead DEF StopAndSignal, MgrInv, MgrTypeOK
<1>8. StaysClean
  BY <1>3, <1>6, <1>7, SameProcessStaysClean
<1> QED
  BY <1>2, <1>4, <1>5, <1>6, <1>8 DEF MgrInv, MgrTypeOK, Consistent

LEMMA StartProccessInv ==
    ASSUME MgrInv, NEW n \in Names, startProccess(n)
    PROVE  MgrInv'
<1>1. CASE UNCHANGED mgrVars
  BY <1>1 DEF mgrVars, MgrInv, MgrTypeOK, Consistent, Holds
<1>2. CASE n \in Known /\ Launch(programs, procs, fds, {n})
  <2>1. Typed(programs, procs, fds)
    BY DEF Typed, MgrInv, MgrTypeOK
  <2>2. {n} \subseteq {m \in Names : programs[m] # NoProgram}
    BY <1>2 DEF Known
  <2> QED
    BY <1>2, <2>1, <2>2, LaunchConsistent DEF MgrInv
<1> QED
  BY <1>1, <1>2 DEF startProccess

LEMMA StartProccessClean ==
    ASSUME MgrInv, NEW n \in Names, startProccess(n),
           n \in Known => programs[n].state # "Stopping"
    PROVE  StaysClean
<1>1. CASE UNCHANGED mgrVars
  BY <1>1, UnchangedStaysClean
<1>2. CASE n \in Known /\ ~Up(programs[n]) /\ Launch(programs, procs, fds, {n})
  <2>1. Typed(programs, procs, fds)
    BY DEF Typed, MgrInv, MgrTypeOK
  <2>2. /\ {n} \subseteq {m \in Names : programs[m] # NoProgram}
        /\ \A m \in {n} : ~Live(programs[m])
    BY <1>2 DEF Known, Up, Live
  <2> QED
    BY <1>2, <2>1, <2>2, LaunchClean DEF StaysClean
<1> QED
  BY <1>1, <1>2 DEF startProccess

LEMMA RestartProccessInv ==
    ASSUME MgrInv, NEW n \in Names, restartProccess(n)
    PROVE  /\ MgrInv'
           /\ (n \in Known => programs[n].state # "Stopping") => StaysClean
<1>1. CASE startProccess(n)
  BY <1>1, StartProccessInv, StartProccessClean
<1>2. CASE n \in Known /\ Up(programs[n]) /\ ~startProccess(n)
  <2> DEFINE p == SetPendingRestart(programs[n], TRUE)
  <2>1. programs[n] \in Program /\ Live(programs[n])
    BY <1>2 DEF Known, Up, Live, MgrInv, MgrTypeOK
  <2>2. p \in Program /\ Stopping(p) \in Program
    BY <2>1, TransitionType
  <2>3. Live(p) /\ SameProcess(p, programs[n])
    <3>1. p.state = programs[n].state
      BY <2>1 DEF SetPendingRestart, Program
    <3> QED
      BY <2>1, <3>1, TransitionProcess DEF Live
  <2>4. SameProcess(Stopping(p), programs[n])
    BY <2>2, <2>3, TransitionProcess DEF SameProcess
  <2>5. /\ programs' = [programs EXCEPT ![n] = Stopping(p)]
        /\ procs' = Signalled(procs, {programs[n].pid}, "stop")
        /\ UNCHANGED fds
    BY <1>2 DEF restartProccess
  <2> HIDE DEF p
  <2>6. programs' \in [Names -> Program \cup {NoProgram}]
    BY <2>2, <2>5 DEF MgrInv, MgrTypeOK
  <2>7. \A m \in Names :
          /\ programs'[m] # NoProgram <=> programs[m] # NoProgram
          /\ programs[m] # NoProgram => SameProcess(programs'[m], programs[m])
    BY <2>1, <2>2, <2>4, <2>5, ValuesAssumption DEF SameProcess, MgrInv, MgrTypeOK
  <2>8. /\ procs' \in [Pids -> Proc \cup {Free}]
        /\ \A m \in Names, q \in Pids \cup {NoPid} :
              Holds(procs, m, q) => Holds(procs', m, q)
    BY <2>5, SignalledTable DEF MgrInv, MgrTypeOK
  <2>9. Consistent(programs', procs', fds)
    BY <2>7, <2>8, SameProcessConsistent DEF MgrInv, MgrTypeOK
  <2>10. SameDead(procs, procs')
    BY <2>5, SignalledDead DEF MgrInv, MgrTypeOK
  <2>11. StaysClean
    BY <2>5, <2>7, <2>10, SameProcessStaysClean
  <2> QED
    BY <2>5, <2>6, <2>8, <2>9, <2>11 DEF MgrInv, MgrTypeOK, Consistent
<1> QED
  BY <1>1, <1>2 DEF restartProccess
-----------------------------------------------------------------------------
(* Deaths *)

\* A step that handles the event of d.
Handles(d) ==
    \A events \in SUBSET Fds :
        Clean(events, programs, procs, fds) =>
            Clean(events \ {d}, programs', procs', fds')

\* The process behind the pidfd of n is reaped; n becomes p, which is not live.
LEMMA ReapInv ==
    ASSUME MgrInv, NEW n \in Known, NEW p \in Program, NEW again \in BOOLEAN,
           programs[n].pidfd # NoFd, ~Live(p), Reap(n, p, again)
    PROVE  MgrInv' /\ Handles(programs[n].pidfd)
<1> DEFINE d == programs[n].pidfd
           progs == [programs EXCEPT ![n] = ClosePidFd(p)]
           table == [procs EXCEPT ![fds[d]] = Free]
           open == [fds EXCEPT ![d] = NoPid]
           L == IF again THEN {n} ELSE {}
<1>1. /\ n \in Names /\ programs[n] # NoProgram /\ programs[n] \in Program
      /\ d \in Fds
      /\ programs \in [Names -> Program \cup {NoProgram}]
      /\ procs \in [Pids -> Proc \cup {Free}]
      /\ fds \in [Fds -> Pids \cup {NoPid}]
  BY DEF Known, MgrInv, MgrTypeOK, Program
<1>2. fds[d] = programs[n].pid /\ Holds(procs, n, fds[d])
  BY <1>1 DEF MgrInv, Consistent
<1>3. Typed(progs, table, open)
  BY <1>1, TransitionType DEF Typed
<1>4. ClosePidFd(p) \in Program /\ ~Live(ClosePidFd(p)) /\ ClosePidFd(p).pidfd = NoFd
  BY TransitionType DEF ClosePidFd, Live, Program
<1>5. Consistent(progs, table, open)
  <2> SUFFICES ASSUME NEW m \in Names, progs[m] # NoProgram
               PROVE  /\ Live(progs[m]) => Holds(table, m, progs[m].pid)
                      /\ progs[m].pidfd # NoFd =>
                           /\ open[progs[m].pidfd] = progs[m].pid
                           /\ Holds(table, m, progs[m].pid)
    BY DEF Consistent
  <2>1. CASE m = n
    BY <1>1, <1>4, <2>1
  <2>2. CASE m # n
    <3>1. progs[m] = programs[m] /\ programs[m] \in Program
      BY <1>1, <2>2
    <3>2. Holds(procs, m, programs[m].pid) => Holds(table, m, programs[m].pid)
      BY <1>1, <1>2, <2>2, <3>1 DEF Holds, Program
    <3>3. /\ Live(programs[m]) => Holds(procs, m, programs[m].pid)
          /\ programs[m].pidfd # NoFd =>
               /\ fds[programs[m].pidfd] = programs[m].pid
               /\ Holds(procs, m, programs[m].pid)
      BY <3>1 DEF MgrInv, Consistent
    <3>4. programs[m].pidfd # NoFd => programs[m].pidfd # d
      BY <1>2, <2>2, <3>3 DEF Holds
    <3>5. programs[m].pidfd # NoFd => open[programs[m].pidfd] = fds[programs[m].pidfd]
      BY <1>1, <3>1, <3>4 DEF Program
    <3> QED
      BY <3>1, <3>2, <3>3, <3>5
  <2> QED
    BY <2>1, <2>2
<1>6. L \subseteq {m \in Names : progs[m] # NoProgram}
  BY <1>1, <1>4, ValuesAssumption
<1>7. Launch(progs, table, open, L)
  BY DEF Reap
<1>8. ASSUME NEW events \in SUBSET Fds, Clean(events, programs, procs, fds)
      PROVE  Clean(events \ {d}, progs, table, open)
  <2>1. \A m \in Names : m # n => progs[m] = programs[m]
    BY <1>1
  <2>2. progs[n].pidfd = NoFd /\ ~Live(progs[n])
    BY <1>1, <1>4
  <2>3. Tracked(progs, table)
    <3> SUFFICES ASSUME NEW q \in Pids, table[q] # Free
                 PROVE  \E m \in Names : /\ progs[m] # NoProgram
                                         /\ Live(progs[m])
                                         /\ progs[m].pid = q
      BY DEF Tracked
    <3>1. q # fds[d] /\ procs[q] # Free
      BY <1>1
    <3>2. PICK m \in Names : /\ programs[m] # NoProgram
                            /\ Live(programs[m])
                            /\ programs[m].pid = q
      BY <1>8, <3>1 DEF Clean, Tracked
    <3>3. m # n
      BY <1>2, <3>1, <3>2
    <3> QED
      BY <2>1, <3>2, <3>3
  <2>4. IdleUnwatched(progs)
    BY <1>8, <2>1, <2>2 DEF Clean, IdleUnwatched
  <2>5. AllWatched(progs, open)
    <3> SUFFICES ASSUME NEW e \in Fds, open[e] # NoPid
                 PROVE  \E m \in Names : progs[m] # NoProgram /\ progs[m].pidfd = e
      BY DEF AllWatched
    <3>1. e # d /\ fds[e] # NoPid
      BY <1>1
    <3>2. PICK m \in Names : programs[m] # NoProgram /\ programs[m].pidfd = e
      BY <1>8, <3>1 DEF Clean, AllWatched
    <3> QED
      BY <2>1, <3>1, <3>2
  <2>6. AllDead(events \ {d}, table, open)
    <3> SUFFICES ASSUME NEW e \in events, e # d
                 PROVE  /\ open[e] # NoPid
                        /\ table[open[e]] # Free
                        /\ table[open[e]].status = "zombie"
      BY DEF AllDead
    <3>1. /\ e \in Fds /\ fds[e] # NoPid /\ fds[e] \in Pids
          /\ procs[fds[e]] # Free /\ procs[fds[e]].status = "zombie"
      BY <1>1, <1>8 DEF Clean, AllDead
    <3>2. PICK m \in Names : programs[m] # NoProgram /\ programs[m].pidfd = e
      BY <1>8, <3>1 DEF Clean, AllWatched
    <3>3. fds[e] = programs[m].pid /\ Holds(procs, m, programs[m].pid)
      BY <3>1, <3>2, SentinelsAssumption DEF MgrInv, Consistent
    <3>4. fds[e] # fds[d]
      BY <1>2, <3>2, <3>3 DEF Holds
    <3> QED
      BY <1>1, <3>1, <3>4
  <2> QED
    BY <2>3, <2>4, <2>5, <2>6 DEF Clean
<1>9. \A m \in L : ~Live(progs[m])
  BY <1>1, <1>4
<1> HIDE DEF progs, table, open, L
<1>10. Handles(d)
  <2> SUFFICES ASSUME NEW events \in SUBSET Fds, Clean(events, programs, procs, fds)
               PROVE  Clean(events \ {d}, programs', procs', fds')
    BY DEF Handles
  <2>1. Clean(events \ {d}, progs, table, open)
    BY <1>8
  <2> HIDE DEF d
  <2> QED
    BY <1>3, <1>6, <1>7, <1>9, <2>1, LaunchClean
<1> QED
  BY <1>3, <1>5, <1>6, <1>7, <1>10, LaunchConsistent

LEMMA HandleDeathInv ==
    ASSUME MgrInv, NEW n \in Known, programs[n].pidfd # NoFd, handleDeath(n)
    PROVE  MgrInv' /\ Handles(programs[n].pidfd)
<1>1. programs[n] \in Program
  BY DEF Known, MgrInv, MgrTypeOK
<1>2. CASE handleStoppedDeath(n)
  <2> DEFINE s == Stopped(programs[n])
             p == ApplyPendingConfig(s)
             r == SetPendingRestart(p, FALSE)
  <2>1. s \in Program /\ ~Live(s)
    BY <1>1, TransitionType DEF Stopped, Live, Program
  <2>2. p \in Program /\ ~Live(p)
    BY <2>1, ApplyPendingConfigType, TransitionProcess DEF SameProcess
  <2>3. r \in Program /\ ~Live(r)
    BY <2>2, TransitionType, TransitionProcess DEF SameProcess
  <2>4. p.pendingRestart \in BOOLEAN
    BY <2>2 DEF Program
  <2>5. Reap(n, r, p.pendingRestart)
    BY <1>2 DEF handleStoppedDeath
  <2> HIDE DEF p, r
  <2> QED
    BY <2>3, <2>4, <2>5, ReapInv
<1>3. CASE handleStartFailure(n)
  <2> DEFINE e == Exited(programs[n])
             p == IncRestartNum(e)
             giveUp == p.restarts >= p.cfg.startretries
             r == IF giveUp THEN SetFatalError(p) ELSE p
  <2>1. e \in Program /\ ~Live(e)
    BY <1>1, TransitionType DEF Exited, Live, Program
  <2>2. p \in Program /\ ~Live(p)
    BY <2>1, IncRestartNumType DEF IncRestartNum, Live, Program
  <2>3. SetFatalError(p) \in Program /\ ~Live(SetFatalError(p))
    BY <2>2, TransitionType DEF SetFatalError, Live, Program
  <2>4. r \in Program /\ ~Live(r)
    BY <2>2, <2>3
  <2>5. Reap(n, r, ~giveUp)
    BY <1>3 DEF handleStartFailure
  <2> HIDE DEF r, giveUp
  <2> QED
    BY <2>4, <2>5, ReapInv
<1>4. CASE handleStableDeath(n)
  <2> DEFINE e == Exited(programs[n])
             again == shouldRestart(programs[n], procs[fds[programs[n].pidfd]].how)
  <2>1. e \in Program /\ ~Live(e)
    BY <1>1, TransitionType DEF Exited, Live, Program
  <2>2. again \in BOOLEAN
    BY DEF shouldRestart
  <2>3. Reap(n, e, again)
    BY <1>4 DEF handleStableDeath
  <2> HIDE DEF e, again
  <2> QED
    BY <2>1, <2>2, <2>3, ReapInv
<1> QED
  BY <1>2, <1>3, <1>4 DEF handleDeath

LEMMA HandleEventInv ==
    ASSUME MgrInv, NEW d \in Fds, handleEvent(d)
    PROVE  MgrInv' /\ Handles(d)
<1>1. CASE UNCHANGED mgrVars
  <2>1. MgrInv'
    BY <1>1 DEF mgrVars, MgrInv, MgrTypeOK, Consistent, Holds
  <2>2. StaysClean
    BY <1>1, UnchangedStaysClean
  <2>3. Handles(d)
    BY <2>2 DEF StaysClean, Handles, Clean, AllDead
  <2> QED
    BY <2>1, <2>3
<1>2. CASE \E n \in WatchedBy(d) : handleDeath(n)
  BY <1>2, HandleDeathInv, SentinelsAssumption DEF WatchedBy
<1> QED
  BY <1>1, <1>2 DEF handleEvent

-----------------------------------------------------------------------------
(* Timers, reload, and the world *)

LEMMA CheckTimersInv ==
    ASSUME MgrInv, checkTimers
    PROVE  MgrInv' /\ StaysClean
<1> DEFINE open == [d \in Fds |->
         IF \E n \in Removable : programs[n].pidfd = d THEN NoPid ELSE fds[d]]
<1>1. /\ programs \in [Names -> Program \cup {NoProgram}]
      /\ fds \in [Fds -> Pids \cup {NoPid}]
      /\ fds' = open
  BY DEF checkTimers, MgrInv, MgrTypeOK
<1>2. ASSUME NEW n \in Names
      PROVE  /\ programs'[n] \in Program \cup {NoProgram}
             /\ programs'[n] # NoProgram =>
                  /\ n \notin Removable
                  /\ programs[n] # NoProgram
                  /\ SameProcess(programs'[n], programs[n])
  <2>1. CASE n \in Known \ Removable
    <3>1. programs'[n] = Confirmed(programs[n]) /\ programs[n] \in Program
      BY <1>1, <2>1 DEF checkTimers, Known
    <3> QED
      BY <2>1, <3>1, ConfirmedType, TransitionProcess, ValuesAssumption DEF Known
  <2>2. CASE n \notin Known \ Removable
    BY <2>2 DEF checkTimers
  <2> QED
    BY <2>1, <2>2
<1>3. programs' \in [Names -> Program \cup {NoProgram}]
  BY <1>2 DEF checkTimers
<1>4. /\ procs' \in [Pids -> Proc \cup {Free}]
      /\ \A n \in Names, q \in Pids \cup {NoPid} :
            Holds(procs, n, q) => Holds(procs', n, q)
  BY SignalledTable DEF checkTimers, MgrInv, MgrTypeOK
<1>5. Consistent(programs', procs', fds)
  BY <1>1, <1>2, <1>4, SameProcessConsistent DEF MgrInv
<1>6. fds' \in [Fds -> Pids \cup {NoPid}]
  BY <1>1
<1>7. ASSUME NEW n \in Names, programs'[n] # NoProgram, programs'[n].pidfd # NoFd
      PROVE  fds'[programs'[n].pidfd] = fds[programs'[n].pidfd]
  <2>1. /\ programs[n] # NoProgram /\ programs[n] \in Program /\ n \notin Removable
        /\ programs'[n].pidfd = programs[n].pidfd
        /\ programs[n].pidfd \in Fds
    BY <1>1, <1>2, <1>7 DEF SameProcess, Program
  <2>2. fds[programs[n].pidfd] = programs[n].pid /\ Holds(procs, n, programs[n].pid)
    BY <1>7, <2>1 DEF MgrInv, Consistent
  <2>3. ASSUME NEW m \in Removable, programs[m].pidfd = programs[n].pidfd PROVE FALSE
    <3>1. m \in Names /\ programs[m] # NoProgram
      BY DEF Removable, Known
    <3>2. fds[programs[n].pidfd] = programs[m].pid /\ Holds(procs, m, programs[m].pid)
      BY <1>7, <2>1, <2>3, <3>1 DEF MgrInv, Consistent
    <3> QED
      BY <2>1, <2>2, <3>2 DEF Holds
  <2> QED
    BY <1>1, <2>1, <2>3
<1>8. StaysClean
  <2> SUFFICES ASSUME NEW events \in SUBSET Fds, Clean(events, programs, procs, fds)
               PROVE  Clean(events, programs', procs', fds')
    BY DEF StaysClean
  <2>1. \A n \in Removable : programs[n].pidfd = NoFd
    BY DEF Removable, Known, Clean, IdleUnwatched
  <2>2. fds' = fds
    BY <1>1, <2>1, SentinelsAssumption
  <2>3. ASSUME NEW n \in Names, programs[n] # NoProgram, Live(programs[n])
        PROVE  programs'[n] # NoProgram /\ SameProcess(programs'[n], programs[n])
    <3>1. programs'[n] = Confirmed(programs[n]) /\ programs[n] \in Program
      BY <1>1, <2>3 DEF checkTimers, Removable, Known
    <3> QED
      BY <3>1, ConfirmedType, TransitionProcess, ValuesAssumption
  <2>4. SameDead(procs, procs')
    BY SignalledDead DEF checkTimers, MgrInv, MgrTypeOK
  <2>5. Clean(events, programs', procs', fds)
    BY <1>1, <1>2, <2>3, <2>4, SameProcessClean
  <2> QED
    BY <2>2, <2>5
<1> QED
  BY <1>3, <1>4, <1>5, <1>6, <1>7, <1>8 DEF MgrInv, MgrTypeOK, Consistent

LEMMA ReloadedInv ==
    ASSUME MgrInv, NEW f, DOMAIN f \subseteq Names, f \in [DOMAIN f -> Configs],
           NEW S \in SUBSET Names, NEW U, Reloaded(f, S, U)
    PROVE  MgrInv' /\ StaysClean
<1> DEFINE stopped == {n \in Removed(f, S) \cup Changed(f, S) : Up(programs[n])}
           targets == {programs[n].pid : n \in stopped}
           table == Signalled(procs, targets, "stop")
           progs == [n \in Names |->
                       IF n \in Removed(f, S)
                       THEN StopIfUp(SetPendingRemoval(programs[n], TRUE))
                       ELSE IF n \in Changed(f, S) THEN Reconfigured(programs[n], f[n])
                       ELSE IF n \in Added(f, S) THEN NewProgram(f[n])
                       ELSE programs[n]]
           L == (Autostarting(f) \cap
                  ({n \in Changed(f, S) : ~Live(programs[n])} \cup Added(f, S))) \ U
<1>1. /\ programs \in [Names -> Program \cup {NoProgram}]
      /\ procs \in [Pids -> Proc \cup {Free}]
      /\ fds \in [Fds -> Pids \cup {NoPid}]
      /\ Consistent(programs, procs, fds)
  BY DEF MgrInv, MgrTypeOK
<1>2. ASSUME NEW n \in Removed(f, S)
      PROVE  /\ progs[n] \in Program
             /\ programs[n] # NoProgram /\ SameProcess(progs[n], programs[n])
  <2>1. n \in Names /\ programs[n] # NoProgram /\ programs[n] \in Program
    BY <1>1 DEF Removed, Known
  <2> DEFINE p == SetPendingRemoval(programs[n], TRUE)
  <2>2. p \in Program /\ SameProcess(p, programs[n])
    BY <2>1, TransitionType, TransitionProcess
  <2>3. StopIfUp(p) \in Program /\ SameProcess(StopIfUp(p), p)
    BY <2>2, StopIfUpType, TransitionProcess
  <2> QED
    BY <2>1, <2>2, <2>3 DEF SameProcess
<1>3. ASSUME NEW n \in Changed(f, S)
      PROVE  /\ progs[n] \in Program
             /\ programs[n] # NoProgram /\ SameProcess(progs[n], programs[n])
  <2>1. /\ n \in Names /\ programs[n] # NoProgram /\ programs[n] \in Program
        /\ f[n] \in Configs /\ f[n].autostart \in BOOLEAN
    BY <1>1, ConfigsAssumption DEF Changed, Known
  <2> DEFINE p == SetPendingConfig(programs[n], f[n])
             r == SetPendingRestart(p, f[n].autostart)
  <2>2. p \in Program /\ SameProcess(p, programs[n])
    BY <2>1, TransitionType, TransitionProcess
  <2>3. r \in Program /\ SameProcess(r, p)
    BY <2>1, <2>2, TransitionType, TransitionProcess
  <2>4. StopIfUp(r) \in Program /\ SameProcess(StopIfUp(r), r)
    BY <2>3, StopIfUpType, TransitionProcess
  <2>5. ApplyPendingConfig(p) \in Program /\ SameProcess(ApplyPendingConfig(p), p)
    BY <2>2, ApplyPendingConfigType, TransitionProcess
  <2>6. progs[n] = Reconfigured(programs[n], f[n])
    BY <2>1 DEF Removed, Changed
  <2> QED
    BY <2>1, <2>2, <2>3, <2>4, <2>5, <2>6 DEF Reconfigured, SameProcess
<1>4. ASSUME NEW n \in Added(f, S)
      PROVE  progs[n] \in Program /\ NoProcess(progs[n])
  <2>1. progs[n] = NewProgram(f[n]) /\ f[n] \in Configs
    BY DEF Added, Removed, Changed, Known
  <2>2. NewProgram(f[n]) \in Program
    BY <2>1, NewProgramType
  <2>3. NoProcess(NewProgram(f[n]))
    BY DEF NoProcess, NewProgram, Live
  <2> QED
    BY <2>1, <2>2, <2>3
<1>5. ASSUME NEW n \in Names, n \notin Removed(f, S), n \notin Changed(f, S), n \notin Added(f, S)
      PROVE  progs[n] = programs[n]
  BY <1>5
<1>6. progs \in [Names -> Program \cup {NoProgram}]
  BY <1>1, <1>2, <1>3, <1>4, <1>5
<1>7. /\ table \in [Pids -> Proc \cup {Free}]
      /\ \A n \in Names, q \in Pids \cup {NoPid} :
            Holds(procs, n, q) => Holds(table, n, q)
  <2> HIDE DEF targets
  <2> QED
    BY <1>1, SignalledTable
<1>8. \A n \in Names : progs[n] # NoProgram =>
        \/ programs[n] # NoProgram /\ SameProcess(progs[n], programs[n])
        \/ NoProcess(progs[n])
  <2>1. \A p : SameProcess(p, p)
    BY DEF SameProcess
  <2> HIDE DEF progs
  <2> QED
    BY <1>2, <1>3, <1>4, <1>5, <2>1
<1>9. L \subseteq {n \in Names : progs[n] # NoProgram}
  <2>1. \A n \in L : n \in Names /\ progs[n] \in Program
    BY <1>3, <1>4 DEF Autostarting
  <2> QED
    BY <2>1, ValuesAssumption
<1>10. Launch(progs, table, fds, L)
  BY DEF Reloaded
<1>13. SameDead(procs, table)
  <2> HIDE DEF targets
  <2> QED
    BY <1>1, SignalledDead
<1>14. \A n \in L : ~Live(progs[n])
  <2> SUFFICES ASSUME NEW n \in L PROVE ~Live(progs[n])
    OBVIOUS
  <2>1. CASE n \in Changed(f, S) /\ ~Live(programs[n])
    BY <1>3, <2>1 DEF SameProcess
  <2>2. CASE n \in Added(f, S)
    BY <1>4, <2>2 DEF NoProcess
  <2> QED
    BY <2>1, <2>2
<1>15. \A n \in Names : programs[n] # NoProgram =>
        progs[n] # NoProgram /\ SameProcess(progs[n], programs[n])
  <2>1. \A p : SameProcess(p, p)
    BY DEF SameProcess
  <2>2. \A n \in Added(f, S) : programs[n] = NoProgram
    BY DEF Added, Known
  <2> HIDE DEF progs
  <2> QED
    BY <1>2, <1>3, <1>5, <2>1, <2>2, ValuesAssumption
<1> HIDE DEF progs, table, L
<1>11. Consistent(progs, table, fds)
  BY <1>1, <1>7, <1>8, SameProcessConsistent
<1>12. Typed(progs, table, fds)
  BY <1>1, <1>6, <1>7 DEF Typed
<1>16. StaysClean
  <2> SUFFICES ASSUME NEW events \in SUBSET Fds, Clean(events, programs, procs, fds)
               PROVE  Clean(events, programs', procs', fds')
    BY DEF StaysClean
  <2>1. Clean(events, progs, table, fds)
    BY <1>1, <1>8, <1>13, <1>15, SameProcessClean
  <2> QED
    BY <1>9, <1>10, <1>12, <1>14, <2>1, LaunchClean
<1> QED
  BY <1>9, <1>10, <1>11, <1>12, <1>16, LaunchConsistent

LEMMA ReloadManagerInv ==
    ASSUME MgrInv, NEW f, DOMAIN f \subseteq Names, f \in [DOMAIN f -> Configs],
           reloadManager(f) \/ \E S \in SUBSET Names : reloadCutShort(f, S)
    PROVE  MgrInv' /\ StaysClean
<1>1. \E S \in SUBSET Names, U \in SUBSET Names : Reloaded(f, S, U)
  BY DEF reloadManager, reloadCutShort
<1> QED
  BY <1>1, ReloadedInv

LEMMA DieInv ==
    ASSUME MgrInv, NEW q \in Pids, NEW how \in ExitCodes \cup {BySignal}, Die(q, how)
    PROVE  MgrInv' /\ StaysClean
<1>1. /\ procs \in [Pids -> Proc \cup {Free}] /\ procs[q] \in Proc
      /\ procs' = [procs EXCEPT ![q].status = "zombie", ![q].asked = "none",
                                ![q].how = how]
  BY DEF Die, Alive, MgrInv, MgrTypeOK
<1>2. procs'[q] \in Proc /\ procs'[q].owner = procs[q].owner
  BY <1>1 DEF Proc
<1>3. procs' \in [Pids -> Proc \cup {Free}]
  BY <1>1, <1>2
<1>4. \A n, r : r \in Pids \cup {NoPid} /\ Holds(procs, n, r) => Holds(procs', n, r)
  BY <1>1, <1>2, FreeAssumption DEF Holds
<1>5. \A n \in Names : programs[n] # NoProgram => programs[n].pid \in Pids \cup {NoPid}
  BY DEF MgrInv, MgrTypeOK, Program
<1>6. StaysClean
  <2>1. procs'[q] # Free /\ procs'[q].status = "zombie" /\ procs[q] # Free
    BY <1>1, <1>2, FreeAssumption DEF Proc
  <2>2. SameDead(procs, procs')
    BY <1>1, <2>1 DEF SameDead
  <2>3. UNCHANGED <<programs, fds>>
    BY DEF Die
  <2> QED
    BY <2>2, <2>3, SameProcessStaysClean DEF SameProcess
<1> QED
  BY <1>3, <1>4, <1>5, <1>6 DEF Die, MgrInv, MgrTypeOK, Consistent

LEMMA AgeInv ==
    ASSUME MgrInv, NEW n \in Names, Age(n)
    PROVE  MgrInv' /\ StaysClean
<1>1. programs[n] # NoProgram /\ programs[n] \in Program
  BY DEF Age, Known, MgrInv, MgrTypeOK
<1>2. Aged(programs[n]) \in Program /\ SameProcess(Aged(programs[n]), programs[n])
  BY <1>1, AgedType, TransitionProcess
<1>3. programs' = [programs EXCEPT ![n] = Aged(programs[n])]
  BY DEF Age
<1>4. programs' \in [Names -> Program \cup {NoProgram}]
  BY <1>2, <1>3 DEF MgrInv, MgrTypeOK
<1>5. \A m \in Names :
        /\ programs'[m] # NoProgram <=> programs[m] # NoProgram
        /\ programs[m] # NoProgram => SameProcess(programs'[m], programs[m])
  BY <1>1, <1>2, <1>3, ValuesAssumption DEF SameProcess, MgrInv, MgrTypeOK
<1>6. Consistent(programs', procs, fds)
  BY <1>5, SameProcessConsistent DEF MgrInv, MgrTypeOK
<1>7. StaysClean
  BY <1>5, SameProcessStaysClean DEF Age, SameDead
<1> QED
  BY <1>4, <1>6, <1>7 DEF Age, MgrInv, MgrTypeOK, Consistent, Holds

-----------------------------------------------------------------------------
(* What a call does to one program and its process *)

Still(n) ==
    /\ programs'[n] = programs[n]
    /\ programs[n] # NoProgram /\ Live(programs[n]) =>
         procs'[programs[n].pid] = procs[programs[n].pid]

\* n, which has come to be p, is launched, or its launch fails.
Launches(n, p) ==
    \/ programs'[n] = SetFatalError(p)
    \/ \E q \in Pids, d \in Fds \cup {NoFd} :
        programs'[n] = Started(p, q, d) /\ procs'[q] = NewProc(n)

\* The process of n is dead; n becomes p, and is launched again or not.
Ends(n, p, again) ==
    IF again THEN Launches(n, ClosePidFd(p)) ELSE programs'[n] = ClosePidFd(p)

\* What a signal makes of a child.
Asked(child, ask) ==
    IF child.status = "alive" /\ child.asked # "kill"
    THEN [child EXCEPT !.asked = ask]
    ELSE child

\* The process of n gets a signal.
IsAsked(n, ask) ==
    procs'[programs[n].pid] = Asked(procs[programs[n].pid], ask)

LEMMA LaunchEach ==
    ASSUME NEW progs, NEW table, NEW open, NEW L \in SUBSET Names,
           Launch(progs, table, open, L)
    PROVE  /\ \A n \in Names \ L : programs'[n] = progs[n]
           /\ \A n \in L : Launches(n, progs[n])
           /\ \A q \in Pids : table[q] # Free => procs'[q] = table[q]
<1>1. PICK pidOf \in [L -> Pids \cup {NoPid}], fdOf \in [L -> Fds \cup {NoFd}] :
        /\ LaunchResults(progs, table, open, L, pidOf, fdOf)
        /\ programs' = [n \in Names |->
             IF n \in L THEN Launched(progs[n], pidOf[n], fdOf[n]) ELSE progs[n]]
        /\ procs' = [q \in Pids |->
             IF \E n \in L : pidOf[n] = q
             THEN NewProc(CHOOSE n \in L : pidOf[n] = q)
             ELSE table[q]]
  BY DEF Launch
<1>2. \A n \in Names \ L : programs'[n] = progs[n]
  BY <1>1
<1>3. \A n \in L : pidOf[n] # NoPid => table[pidOf[n]] = Free
  BY <1>1 DEF LaunchResults
<1>4. ASSUME NEW n \in L PROVE Launches(n, progs[n])
  <2>1. programs'[n] = Launched(progs[n], pidOf[n], fdOf[n])
    BY <1>1
  <2>2. CASE pidOf[n] = NoPid
    BY <2>1, <2>2 DEF Launched, Launches
  <2>3. CASE pidOf[n] # NoPid
    <3>1. \A m \in L : pidOf[m] = pidOf[n] => m = n
      BY <1>1, <2>3 DEF LaunchResults
    <3>2. (CHOOSE m \in L : pidOf[m] = pidOf[n]) = n
      BY <3>1
    <3>3. pidOf[n] \in Pids /\ fdOf[n] \in Fds \cup {NoFd}
      BY <2>3
    <3>4. procs'[pidOf[n]] = NewProc(n)
      BY <1>1, <3>2, <3>3
    <3> QED
      BY <2>1, <2>3, <3>3, <3>4 DEF Launched, Launches
  <2> QED
    BY <2>2, <2>3
<1>5. ASSUME NEW q \in Pids, table[q] # Free PROVE procs'[q] = table[q]
  BY <1>1, <1>3, <1>5, SentinelsAssumption
<1> QED
  BY <1>2, <1>4, <1>5

\* The process of a live program is a child of the daemon, and no other's.
LEMMA LiveProcess ==
    ASSUME MgrInv, NEW n \in Names, programs[n] # NoProgram, Live(programs[n])
    PROVE  /\ programs[n] \in Program
           /\ programs[n].pid \in Pids
           /\ procs[programs[n].pid] # Free
           /\ procs[programs[n].pid] \in Proc
           /\ procs[programs[n].pid].owner = n
<1>1. programs[n] \in Program /\ Holds(procs, n, programs[n].pid)
  BY DEF MgrInv, MgrTypeOK, Consistent
<1>2. programs[n].pid \in Pids
  BY <1>1 DEF Holds, Program
<1> QED
  BY <1>1, <1>2 DEF Holds, MgrInv, MgrTypeOK

\* A signal to the processes of the programs in T reaches these and no others.
LEMMA SignalledEach ==
    ASSUME MgrInv, NEW T, T \subseteq {m \in Known : Live(programs[m])},
           NEW targets, targets = {programs[m].pid : m \in T}, NEW ask,
           procs' = Signalled(procs, targets, ask),
           NEW n \in Names, programs[n] # NoProgram, Live(programs[n])
    PROVE  IF n \in T THEN IsAsked(n, ask)
           ELSE procs'[programs[n].pid] = procs[programs[n].pid]
<1> DEFINE q == programs[n].pid
<1>1. q \in Pids /\ procs[q] # Free /\ procs[q].owner = n
  BY LiveProcess
<1>2. ASSUME NEW m \in T, programs[m].pid = q PROVE m = n
  <2>1. m \in Names /\ programs[m] # NoProgram /\ Live(programs[m])
    BY DEF Known
  <2>2. procs[q].owner = m
    BY <1>2, <2>1, LiveProcess
  <2> QED
    BY <1>1, <2>2
<1>3. q \in targets <=> n \in T
  BY <1>2
<1> HIDE DEF q
<1>4. procs'[q] = IF n \in T THEN Asked(procs[q], ask) ELSE procs[q]
  BY <1>1, <1>3 DEF Signalled, Asked
<1> QED
  BY <1>4 DEF q, IsAsked

LEMMA StartManagerEach ==
    ASSUME NEW f, DOMAIN f \subseteq Names, startManager(f), NEW n \in Names
    PROVE  IF n \in Autostarting(f) THEN Launches(n, NewProgram(f[n]))
           ELSE programs'[n] = IF n \in DOMAIN f THEN NewProgram(f[n]) ELSE NoProgram
<1> DEFINE progs == [m \in Names |-> IF m \in DOMAIN f THEN NewProgram(f[m])
                                                       ELSE NoProgram]
<1>1. Launch(progs, procs, fds, Autostarting(f))
  BY DEF startManager
<1>2. Autostarting(f) \in SUBSET Names /\ Autostarting(f) \subseteq DOMAIN f
  BY DEF Autostarting
<1>3. progs[n] = IF n \in DOMAIN f THEN NewProgram(f[n]) ELSE NoProgram
  OBVIOUS
<1> HIDE DEF progs
<1>4. IF n \in Autostarting(f) THEN Launches(n, progs[n]) ELSE programs'[n] = progs[n]
  BY <1>1, <1>2, LaunchEach
<1> QED
  BY <1>2, <1>3, <1>4

LEMMA StopAndSignalEach ==
    ASSUME MgrInv, NEW S, S \subseteq {m \in Known : Up(programs[m])},
           StopAndSignal(S), NEW n \in Names
    PROVE  IF n \in S
           THEN programs'[n] = Stopping(programs[n]) /\ IsAsked(n, "stop")
           ELSE Still(n)
<1>1. S \subseteq {m \in Known : Live(programs[m])}
  BY DEF Up, Live
<1>2. programs'[n] = IF n \in S THEN Stopping(programs[n]) ELSE programs[n]
  BY DEF StopAndSignal
<1>3. PICK targets : /\ targets = {programs[m].pid : m \in S}
                     /\ procs' = Signalled(procs, targets, "stop")
  BY DEF StopAndSignal
<1>4. CASE n \in S
  <2>1. programs[n] # NoProgram /\ Live(programs[n])
    BY <1>1, <1>4 DEF Known
  <2> QED
    BY <1>1, <1>2, <1>3, <1>4, <2>1, SignalledEach
<1>5. CASE n \notin S
  BY <1>1, <1>2, <1>3, <1>5, SignalledEach DEF Still
<1> QED
  BY <1>4, <1>5

LEMMA UnchangedEach ==
    ASSUME UNCHANGED mgrVars, NEW n \in Names PROVE Still(n)
  BY DEF mgrVars, Still

LEMMA StartProccessEach ==
    ASSUME MgrInv, NEW m \in Names, startProccess(m), NEW n \in Names
    PROVE  IF n = m /\ n \in Known /\ ~Up(programs[n])
           THEN Launches(n, programs[n])
           ELSE Still(n)
<1>1. CASE m \in Known /\ ~Up(programs[m])
  <2>1. Launch(programs, procs, fds, {m})
    BY <1>1 DEF startProccess
  <2>2. CASE n = m
    BY <1>1, <2>1, <2>2, LaunchEach
  <2>3. CASE n # m
    <3>1. /\ programs'[n] = programs[n]
          /\ \A q \in Pids : procs[q] # Free => procs'[q] = procs[q]
      BY <2>1, <2>3, LaunchEach
    <3> QED
      BY <2>3, <3>1, LiveProcess DEF Still
  <2> QED
    BY <2>2, <2>3
<1>2. CASE ~(m \in Known /\ ~Up(programs[m]))
  BY <1>2, UnchangedEach DEF startProccess
<1> QED
  BY <1>1, <1>2

LEMMA RestartProccessEach ==
    ASSUME MgrInv, NEW m \in Names, restartProccess(m), NEW n \in Names
    PROVE  IF n # m \/ n \notin Known THEN Still(n)
           ELSE IF ~Up(programs[n]) THEN Launches(n, programs[n])
           ELSE /\ programs'[n] = Stopping(SetPendingRestart(programs[n], TRUE))
                /\ IsAsked(n, "stop")
<1>1. CASE ~(m \in Known /\ Up(programs[m]))
  <2>1. startProccess(m)
    BY <1>1 DEF restartProccess
  <2> QED
    BY <1>1, <2>1, StartProccessEach
<1>2. CASE m \in Known /\ Up(programs[m])
  <2>1. /\ programs' = [programs EXCEPT
                         ![m] = Stopping(SetPendingRestart(programs[m], TRUE))]
        /\ procs' = Signalled(procs, {programs[m].pid}, "stop")
    BY <1>2 DEF restartProccess
  <2>2. {m} \subseteq {k \in Known : Live(programs[k])}
    BY <1>2 DEF Up, Live
  <2>3. {programs[m].pid} = {programs[k].pid : k \in {m}}
    OBVIOUS
  <2>4. programs[n] # NoProgram /\ Live(programs[n]) =>
          IF n \in {m} THEN IsAsked(n, "stop")
          ELSE procs'[programs[n].pid] = procs[programs[n].pid]
    BY <2>1, <2>2, <2>3, SignalledEach
  <2>5. m \in Names /\ programs \in [Names -> Program \cup {NoProgram}]
    BY DEF MgrInv, MgrTypeOK
  <2>6. CASE n = m
    <3>1. programs[n] # NoProgram /\ Live(programs[n])
      BY <1>2, <2>6 DEF Known, Up, Live
    <3> QED
      BY <1>2, <2>1, <2>4, <2>5, <2>6, <3>1
  <2>7. CASE n # m
    BY <2>1, <2>4, <2>5, <2>7 DEF Still
  <2> QED
    BY <2>6, <2>7
<1> QED
  BY <1>1, <1>2

LEMMA ReapEach ==
    ASSUME MgrInv, NEW m \in Known, NEW p, NEW again \in BOOLEAN,
           programs[m].pidfd # NoFd, Reap(m, p, again)
    PROVE  /\ Ends(m, p, again)
           /\ \A n \in Names \ {m} : Still(n)
<1> DEFINE d == programs[m].pidfd
           progs == [programs EXCEPT ![m] = ClosePidFd(p)]
           table == [procs EXCEPT ![fds[d]] = Free]
           open == [fds EXCEPT ![d] = NoPid]
           L == IF again THEN {m} ELSE {}
<1>1. /\ m \in Names /\ programs[m] # NoProgram /\ programs[m] \in Program
      /\ programs \in [Names -> Program \cup {NoProgram}]
      /\ procs \in [Pids -> Proc \cup {Free}]
  BY DEF Known, MgrInv, MgrTypeOK
<1>2. Holds(procs, m, fds[d])
  BY <1>1 DEF MgrInv, Consistent
<1>3. /\ progs[m] = ClosePidFd(p)
      /\ \A n \in Names \ {m} : progs[n] = programs[n]
  BY <1>1
<1>4. \A q \in Pids : q # fds[d] => table[q] = procs[q]
  BY <1>1
<1>5. L \in SUBSET Names /\ (m \in L <=> again) /\ \A n \in Names \ {m} : n \notin L
  BY <1>1
<1>6. Launch(progs, table, open, L)
  BY DEF Reap
<1> HIDE DEF progs, table, open, L
<1>7. /\ \A n \in Names \ L : programs'[n] = progs[n]
      /\ \A n \in L : Launches(n, progs[n])
      /\ \A q \in Pids : table[q] # Free => procs'[q] = table[q]
  BY <1>5, <1>6, LaunchEach
<1>8. Ends(m, p, again)
  BY <1>1, <1>3, <1>5, <1>7 DEF Ends
<1>9. ASSUME NEW n \in Names \ {m} PROVE Still(n)
  <2>1. programs'[n] = programs[n]
    BY <1>3, <1>5, <1>7
  <2>2. ASSUME programs[n] # NoProgram, Live(programs[n])
        PROVE  procs'[programs[n].pid] = procs[programs[n].pid]
    <3>1. /\ programs[n].pid \in Pids
          /\ procs[programs[n].pid] # Free /\ procs[programs[n].pid].owner = n
      BY <2>2, LiveProcess
    <3>2. programs[n].pid # fds[d]
      BY <1>2, <3>1 DEF Holds
    <3> QED
      BY <1>4, <1>7, <3>1, <3>2
  <2> QED
    BY <2>1, <2>2 DEF Still
<1> QED
  BY <1>8, <1>9

\* The three ways a death is handled, by what the program was.
StoppedDeath(n) ==
    /\ programs[n].state = "Stopping"
    /\ Ends(n, SetPendingRestart(ApplyPendingConfig(Stopped(programs[n])), FALSE),
            programs[n].pendingRestart)

FailedStart(n) ==
    /\ programs[n].state # "Stopping" /\ ~StartWindowPassed(programs[n])
    /\ \E again \in BOOLEAN :
        Ends(n, IF again THEN IncRestartNum(Exited(programs[n]))
                ELSE SetFatalError(IncRestartNum(Exited(programs[n]))), again)

StableDeath(n) ==
    /\ programs[n].state # "Stopping" /\ StartWindowPassed(programs[n])
    /\ \E how : Ends(n, Exited(programs[n]), shouldRestart(programs[n], how))

LEMMA HandleDeathEach ==
    ASSUME MgrInv, NEW m \in Known, programs[m].pidfd # NoFd, handleDeath(m)
    PROVE  /\ StoppedDeath(m) \/ FailedStart(m) \/ StableDeath(m)
           /\ \A n \in Names \ {m} : Still(n)
<1>1. programs[m] \in Program
  BY DEF Known, MgrInv, MgrTypeOK
<1>2. CASE handleStoppedDeath(m)
  <2> DEFINE p == ApplyPendingConfig(Stopped(programs[m]))
  <2>1. p.pendingRestart = programs[m].pendingRestart
    BY <1>1 DEF ApplyPendingConfig, Stopped, Program
  <2>2. programs[m].pendingRestart \in BOOLEAN
    BY <1>1 DEF Program
  <2>3. Reap(m, SetPendingRestart(p, FALSE), programs[m].pendingRestart)
    BY <1>2, <2>1 DEF handleStoppedDeath
  <2>4. programs[m].state = "Stopping"
    BY <1>2 DEF handleStoppedDeath
  <2> QED
    BY <2>2, <2>3, <2>4, ReapEach DEF StoppedDeath
<1>3. CASE handleStartFailure(m)
  <2> DEFINE p == IncRestartNum(Exited(programs[m]))
             giveUp == p.restarts >= p.cfg.startretries
             again == ~giveUp
             r == IF again THEN p ELSE SetFatalError(p)
  <2>1. Reap(m, r, again) /\ again \in BOOLEAN
    BY <1>3 DEF handleStartFailure
  <2>2. programs[m].state # "Stopping" /\ ~StartWindowPassed(programs[m])
    BY <1>3 DEF handleStartFailure
  <2> HIDE DEF giveUp, again
  <2>3. Ends(m, r, again) /\ \A n \in Names \ {m} : Still(n)
    BY <2>1, ReapEach
  <2> QED
    BY <2>1, <2>2, <2>3 DEF FailedStart
<1>4. CASE handleStableDeath(m)
  <2> DEFINE how == procs[fds[programs[m].pidfd]].how
             again == shouldRestart(programs[m], how)
  <2>1. Reap(m, Exited(programs[m]), again) /\ again \in BOOLEAN
    BY <1>4 DEF handleStableDeath, shouldRestart
  <2>2. programs[m].state # "Stopping" /\ StartWindowPassed(programs[m])
    BY <1>4 DEF handleStableDeath
  <2> HIDE DEF how, again
  <2>3. Ends(m, Exited(programs[m]), again) /\ \A n \in Names \ {m} : Still(n)
    BY <2>1, ReapEach
  <2> QED
    BY <2>2, <2>3 DEF StableDeath, again
<1> QED
  BY <1>2, <1>3, <1>4 DEF handleDeath

\* An event is ignored, or is the death of one program's process.
LEMMA HandleEventEach ==
    ASSUME MgrInv, NEW d \in Fds, handleEvent(d)
    PROVE  \/ \A n \in Names : Still(n)
           \/ \E m \in Known :
                /\ programs[m].pidfd # NoFd
                /\ Zombie(fds[programs[m].pidfd])
                /\ StoppedDeath(m) \/ FailedStart(m) \/ StableDeath(m)
                /\ \A n \in Names \ {m} : Still(n)
<1>1. CASE UNCHANGED mgrVars
  BY <1>1, UnchangedEach
<1>2. ASSUME NEW m \in WatchedBy(d), handleDeath(m)
      PROVE  \E k \in Known :
                /\ programs[k].pidfd # NoFd
                /\ Zombie(fds[programs[k].pidfd])
                /\ StoppedDeath(k) \/ FailedStart(k) \/ StableDeath(k)
                /\ \A n \in Names \ {k} : Still(n)
  <2>1. m \in Known /\ programs[m].pidfd # NoFd
    BY SentinelsAssumption DEF WatchedBy
  <2>2. Zombie(fds[programs[m].pidfd])
    BY <1>2 DEF handleDeath
  <2> QED
    BY <1>2, <2>1, <2>2, HandleDeathEach
<1> QED
  BY <1>1, <1>2 DEF handleEvent

LEMMA CheckTimersEach ==
    ASSUME MgrInv, checkTimers, NEW n \in Names
    PROVE  IF n \in Removable \/ n \notin Known THEN programs'[n] = NoProgram
           ELSE /\ programs'[n] = Confirmed(programs[n])
                /\ Live(programs[n]) =>
                     IF n \in StopOverdue THEN IsAsked(n, "kill")
                     ELSE procs'[programs[n].pid] = procs[programs[n].pid]
<1>1. programs'[n] = IF n \in Removable \/ n \notin Known THEN NoProgram
                     ELSE Confirmed(programs[n])
  BY DEF checkTimers
<1>2. PICK targets : /\ targets = {programs[m].pid : m \in StopOverdue}
                     /\ procs' = Signalled(procs, targets, "kill")
  BY DEF checkTimers
<1>3. StopOverdue \subseteq {m \in Known : Live(programs[m])}
  BY DEF StopOverdue, Live
<1>4. ASSUME n \in Known, Live(programs[n])
      PROVE  IF n \in StopOverdue THEN IsAsked(n, "kill")
             ELSE procs'[programs[n].pid] = procs[programs[n].pid]
  <2>1. programs[n] # NoProgram
    BY <1>4 DEF Known
  <2> QED
    BY <1>2, <1>3, <1>4, <2>1, SignalledEach
<1> QED
  BY <1>1, <1>4

LEMMA ReloadedEach ==
    ASSUME MgrInv, NEW f, DOMAIN f \subseteq Names,
           NEW S \in SUBSET Names, NEW U, Reloaded(f, S, U), NEW n \in Names
    PROVE  /\ n \in Removed(f, S) =>
                programs'[n] = StopIfUp(SetPendingRemoval(programs[n], TRUE))
           /\ n \in Changed(f, S) =>
                \/ programs'[n] = Reconfigured(programs[n], f[n])
                \/ ~Live(programs[n]) /\ Launches(n, Reconfigured(programs[n], f[n]))
           /\ n \in Added(f, S) =>
                programs'[n] = NewProgram(f[n]) \/ Launches(n, NewProgram(f[n]))
           /\ n \notin Removed(f, S) \cup Changed(f, S) \cup Added(f, S) =>
                programs'[n] = programs[n]
           /\ n \in Known /\ Live(programs[n]) =>
                IF n \in Removed(f, S) \cup Changed(f, S) /\ Up(programs[n])
                THEN IsAsked(n, "stop")
                ELSE procs'[programs[n].pid] = procs[programs[n].pid]
<1> DEFINE stopped == {m \in Removed(f, S) \cup Changed(f, S) : Up(programs[m])}
           targets == {programs[m].pid : m \in stopped}
           table == Signalled(procs, targets, "stop")
           progs == [m \in Names |->
                       IF m \in Removed(f, S)
                       THEN StopIfUp(SetPendingRemoval(programs[m], TRUE))
                       ELSE IF m \in Changed(f, S) THEN Reconfigured(programs[m], f[m])
                       ELSE IF m \in Added(f, S) THEN NewProgram(f[m])
                       ELSE programs[m]]
           L == (Autostarting(f) \cap
                  ({m \in Changed(f, S) : ~Live(programs[m])} \cup Added(f, S))) \ U
<1>1. /\ n \in Removed(f, S) => n \in Known /\ n \notin DOMAIN f
      /\ n \in Changed(f, S) => n \in Known /\ n \in DOMAIN f
      /\ n \in Added(f, S) => n \notin Known /\ n \in DOMAIN f
  BY DEF Removed, Changed, Added
<1>2. L \in SUBSET Names
  BY DEF Autostarting
<1>3. /\ n \in L => n \in Autostarting(f)
      /\ n \in L => \/ n \in Changed(f, S) /\ ~Live(programs[n])
                    \/ n \in Added(f, S)
  OBVIOUS
<1>4. Launch(progs, table, fds, L)
  BY DEF Reloaded
<1>5. progs[n] = IF n \in Removed(f, S)
                 THEN StopIfUp(SetPendingRemoval(programs[n], TRUE))
                 ELSE IF n \in Changed(f, S) THEN Reconfigured(programs[n], f[n])
                 ELSE IF n \in Added(f, S) THEN NewProgram(f[n])
                 ELSE programs[n]
  OBVIOUS
<1>6. stopped \subseteq {m \in Known : Live(programs[m])}
  BY DEF Removed, Changed, Up, Live
<1>7. n \in stopped <=> n \in Removed(f, S) \cup Changed(f, S) /\ Up(programs[n])
  OBVIOUS
<1> HIDE DEF progs, L, stopped
<1>8. /\ n \notin L => programs'[n] = progs[n]
      /\ n \in L => Launches(n, progs[n])
      /\ \A q \in Pids : table[q] # Free => procs'[q] = table[q]
  <2> HIDE DEF table
  <2> QED
    BY <1>2, <1>4, LaunchEach
<1>9. ASSUME n \in Known, Live(programs[n])
      PROVE  IF n \in stopped THEN IsAsked(n, "stop")
             ELSE procs'[programs[n].pid] = procs[programs[n].pid]
  <2> DEFINE q == programs[n].pid
  <2>1. programs[n] # NoProgram
    BY <1>9 DEF Known
  <2>2. q \in Pids /\ procs[q] # Free /\ procs[q] \in Proc
    BY <1>9, <2>1, LiveProcess
  <2>3. q \in targets <=> n \in stopped
    <3>1. ASSUME NEW m \in stopped, programs[m].pid = q PROVE m = n
      <4>1. m \in Names /\ programs[m] # NoProgram /\ Live(programs[m])
        BY <1>6 DEF Known
      <4> QED
        BY <1>9, <2>1, <3>1, <4>1, LiveProcess
    <3> QED
      BY <3>1
  <2> HIDE DEF q, targets
  <2>4. table[q] = IF n \in stopped THEN Asked(procs[q], "stop") ELSE procs[q]
    BY <2>2, <2>3 DEF Signalled, Asked
  <2>5. table[q] # Free
    <3>1. Asked(procs[q], "stop") \in Proc
      BY <2>2 DEF Asked, Proc
    <3> QED
      BY <2>2, <2>4, <3>1, FreeAssumption
  <2>6. procs'[q] = table[q]
    BY <1>8, <2>2, <2>5
  <2> QED
    BY <2>4, <2>6 DEF q, IsAsked
<1> QED
  BY <1>1, <1>3, <1>5, <1>7, <1>8, <1>9

LEMMA DieEach ==
    ASSUME MgrInv, NEW q \in Pids, NEW how, Die(q, how), NEW n \in Names
    PROVE  /\ programs'[n] = programs[n]
           /\ programs[n] # NoProgram /\ Live(programs[n]) =>
                IF programs[n].pid = q
                THEN /\ procs[q].status = "alive"
                     /\ procs'[q].status = "zombie"
                ELSE procs'[programs[n].pid] = procs[programs[n].pid]
<1>1. procs \in [Pids -> Proc \cup {Free}] /\ procs[q] \in Proc
      /\ procs' = [procs EXCEPT ![q].status = "zombie", ![q].asked = "none",
                                ![q].how = how]
      /\ procs[q].status = "alive"
  BY DEF Die, Alive, MgrInv, MgrTypeOK
<1>2. procs'[q].status = "zombie"
  BY <1>1 DEF Proc
<1>3. \A r \in Pids : r # q => procs'[r] = procs[r]
  BY <1>1
<1> QED
  BY <1>1, <1>2, <1>3, LiveProcess DEF Die

LEMMA AgeEach ==
    ASSUME MgrInv, NEW m \in Names, Age(m), NEW n \in Names
    PROVE  /\ n # m => Still(n)
           /\ n = m => /\ n \in Known
                       /\ programs'[n] = Aged(programs[n])
                       /\ procs' = procs
  BY DEF Age, Still, MgrInv, MgrTypeOK

\* The program a death leaves is not live, unless it is launched again.
LEMMA DeadTypes ==
    ASSUME NEW p \in Program
    PROVE  /\ SetPendingRestart(ApplyPendingConfig(Stopped(p)), FALSE) \in Program
           /\ Exited(p) \in Program
           /\ IncRestartNum(Exited(p)) \in Program
           /\ SetFatalError(IncRestartNum(Exited(p))) \in Program
           /\ ~Live(SetPendingRestart(ApplyPendingConfig(Stopped(p)), FALSE))
           /\ ~Live(Exited(p))
           /\ ~Live(IncRestartNum(Exited(p)))
           /\ ~Live(SetFatalError(IncRestartNum(Exited(p))))
<1> DEFINE s == Stopped(p)
           a == ApplyPendingConfig(s)
           e == Exited(p)
           i == IncRestartNum(e)
<1>1. s \in Program /\ ~Live(s)
  BY TransitionType DEF Stopped, Live, Program
<1>2. a \in Program /\ ~Live(a)
  BY <1>1, ApplyPendingConfigType, TransitionProcess DEF SameProcess
<1>3. SetPendingRestart(a, FALSE) \in Program /\ ~Live(SetPendingRestart(a, FALSE))
  BY <1>2, TransitionType, TransitionProcess DEF SameProcess
<1>4. e \in Program /\ ~Live(e)
  BY TransitionType DEF Exited, Live, Program
<1>5. i \in Program /\ ~Live(i)
  BY <1>4, IncRestartNumType DEF IncRestartNum, Live, Program
<1>6. SetFatalError(i) \in Program /\ ~Live(SetFatalError(i))
  BY <1>5, TransitionType DEF SetFatalError, Live, Program
<1> QED
  BY <1>3, <1>4, <1>5, <1>6
=============================================================================
