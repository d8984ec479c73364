-------------------------- MODULE SupervisionProofs --------------------------
(***************************************************************************)
(* The refinement: a daemon whose operator is patient keeps, for every     *)
(* program, the promise of Supervisor.  Each step of the daemon is, for    *)
(* each program, one step of the promise or none.                          *)
(***************************************************************************)
EXTENDS Supervision, PatientProofs

KeptInv == OrderInv /\ HonestInv

Kept(n) == [Promise(n)!Next]_(Promise(n)!lifeVars)

-----------------------------------------------------------------------------
(* The refinement mapping, read off one program and its process *)

PhaseFor(p) ==
    IF p = NoProgram THEN "absent"
    ELSE IF Up(p) THEN "up"
    ELSE IF p.state = "Stopping" THEN "stopping"
    ELSE "down"

ProcessFor(p, table) ==
    IF p # NoProgram /\ Live(p) THEN Condition(table[p.pid]) ELSE "none"

AfterFor(p) ==
    IF p = NoProgram THEN "stay"
    ELSE IF p.pendingRemoval THEN "gone"
    ELSE IF p.state = "Stopping" /\ p.pendingRestart THEN "again"
    ELSE "stay"

\* No child is lost, so the children of a name are the process of its program.
LEMMA OnlyChild ==
    ASSUME NEW progs, NEW table, NEW open, Typed(progs, table, open),
           Consistent(progs, table, open), Tracked(progs, table), NEW n \in Names
    PROVE  /\ \A q \in Pids : table[q] # Free /\ table[q].owner = n =>
                progs[n] # NoProgram /\ Live(progs[n]) /\ progs[n].pid = q
           /\ progs[n] # NoProgram /\ Live(progs[n]) =>
                /\ progs[n].pid \in Pids
                /\ table[progs[n].pid] # Free /\ table[progs[n].pid].owner = n
<1>1. ASSUME NEW q \in Pids, table[q] # Free, table[q].owner = n
      PROVE  progs[n] # NoProgram /\ Live(progs[n]) /\ progs[n].pid = q
  <2>1. PICK m \in Names : progs[m] # NoProgram /\ Live(progs[m]) /\ progs[m].pid = q
    BY <1>1 DEF Tracked
  <2>2. m = n
    BY <1>1, <2>1 DEF Consistent, Holds
  <2> QED
    BY <2>1, <2>2
<1>2. ASSUME progs[n] # NoProgram, Live(progs[n])
      PROVE  /\ progs[n].pid \in Pids
             /\ table[progs[n].pid] # Free /\ table[progs[n].pid].owner = n
  <2>1. Holds(table, n, progs[n].pid) /\ progs[n] \in Program
    BY <1>2 DEF Consistent, Typed
  <2> QED
    BY <2>1 DEF Holds, Program
<1> QED
  BY <1>1, <1>2

LEMMA Seen ==
    ASSUME OrderInv, NEW n \in Names
    PROVE  /\ PhaseOf(n) = PhaseFor(programs[n])
           /\ ProcessOf(n) = ProcessFor(programs[n], procs)
           /\ AfterOf(n) = AfterFor(programs[n])
<1>1. /\ Typed(programs, procs, fds) /\ Consistent(programs, procs, fds)
      /\ Tracked(programs, procs)
  BY DEF OrderInv, PatientInv, IInv, MgrInv, MgrTypeOK, Typed, Clean
<1>2. /\ programs[n] # NoProgram /\ Live(programs[n]) =>
           Children(n) = {programs[n].pid}
      /\ programs[n] = NoProgram \/ ~Live(programs[n]) => Children(n) = {}
  <2>1. /\ \A q \in Pids : procs[q] # Free /\ procs[q].owner = n =>
             programs[n] # NoProgram /\ Live(programs[n]) /\ programs[n].pid = q
        /\ programs[n] # NoProgram /\ Live(programs[n]) =>
             /\ programs[n].pid \in Pids
             /\ procs[programs[n].pid] # Free
             /\ procs[programs[n].pid].owner = n
    BY <1>1, OnlyChild
  <2> QED
    BY <2>1 DEF Children
<1>3. ProcessOf(n) = ProcessFor(programs[n], procs)
  <2>1. CASE programs[n] # NoProgram /\ Live(programs[n])
    <3>1. PICK q : Children(n) = {q} /\ q = programs[n].pid
      BY <1>2, <2>1
    <3>2. (CHOOSE r \in Children(n) : TRUE) = q
      BY <3>1
    <3> QED
      BY <2>1, <3>1, <3>2 DEF ProcessOf, ProcessFor
  <2>2. CASE programs[n] = NoProgram \/ ~Live(programs[n])
    BY <1>2, <2>2 DEF ProcessOf, ProcessFor
  <2> QED
    BY <2>1, <2>2
<1> QED
  BY <1>3 DEF PhaseOf, PhaseFor, AfterOf, AfterFor, Known

LEMMA SeenNext ==
    ASSUME OrderInv', NEW n \in Names
    PROVE  /\ PhaseOf(n)' = PhaseFor(programs'[n])
           /\ ProcessOf(n)' = ProcessFor(programs'[n], procs')
           /\ AfterOf(n)' = AfterFor(programs'[n])
<1>1. /\ Typed(programs', procs', fds') /\ Consistent(programs', procs', fds')
      /\ Tracked(programs', procs')
  BY DEF OrderInv, PatientInv, IInv, MgrInv, MgrTypeOK, Typed, Clean
<1>2. /\ programs'[n] # NoProgram /\ Live(programs'[n]) =>
           Children(n)' = {programs'[n].pid}
      /\ programs'[n] = NoProgram \/ ~Live(programs'[n]) => Children(n)' = {}
  <2>1. /\ \A q \in Pids : procs'[q] # Free /\ procs'[q].owner = n =>
             programs'[n] # NoProgram /\ Live(programs'[n]) /\ programs'[n].pid = q
        /\ programs'[n] # NoProgram /\ Live(programs'[n]) =>
             /\ programs'[n].pid \in Pids
             /\ procs'[programs'[n].pid] # Free
             /\ procs'[programs'[n].pid].owner = n
    BY <1>1, OnlyChild
  <2> QED
    BY <2>1 DEF Children
<1>3. ProcessOf(n)' = ProcessFor(programs'[n], procs')
  <2>1. CASE programs'[n] # NoProgram /\ Live(programs'[n])
    <3>1. PICK q : Children(n)' = {q} /\ q = programs'[n].pid
      BY <1>2, <2>1
    <3>2. (CHOOSE r \in Children(n)' : TRUE) = q
      BY <3>1
    <3> QED
      BY <2>1, <3>1, <3>2 DEF ProcessOf, ProcessFor
  <2>2. CASE programs'[n] = NoProgram \/ ~Live(programs'[n])
    BY <1>2, <2>2 DEF ProcessOf, ProcessFor
  <2> QED
    BY <2>1, <2>2
<1> QED
  BY <1>3 DEF PhaseOf, PhaseFor, AfterOf, AfterFor, Known

\* A step after which the promise sees of n what it saw before.
LEMMA SameKept ==
    ASSUME KeptInv, KeptInv', NEW n \in Names,
           PhaseFor(programs'[n]) = PhaseFor(programs[n]),
           ProcessFor(programs'[n], procs') = ProcessFor(programs[n], procs),
           AfterFor(programs'[n]) = AfterFor(programs[n])
    PROVE  Kept(n)
  BY Seen, SeenNext DEF KeptInv, Kept, Promise!lifeVars

LEMMA StillKept ==
    ASSUME KeptInv, KeptInv', NEW n \in Names, Still(n)
    PROVE  Kept(n)
  BY SameKept DEF Still, ProcessFor

-----------------------------------------------------------------------------
(* What a step makes of one program is a step of the promise *)

\* A program that is about to be launched, or that has just not been.
Idle(p) ==
    /\ p \in Program /\ ~Live(p)
    /\ ~p.pendingRemoval /\ ~p.pendingRestart

LEMMA IdleSeen ==
    ASSUME NEW p, Idle(p), NEW table
    PROVE  /\ p # NoProgram
           /\ PhaseFor(p) = "down" /\ ProcessFor(p, table) = "none"
           /\ AfterFor(p) = "stay"
  BY ValuesAssumption DEF Idle, Live, Up, PhaseFor, ProcessFor, AfterFor

\* The launch of a program that has no pending order: the promise sees it come
\* up or, when the launch fails, stay down.
LEMMA LaunchSeen ==
    ASSUME NEW n \in Names, NEW p, Idle(p), Launches(n, p)
    PROVE  /\ AfterFor(programs'[n]) = "stay"
           /\ \/ /\ PhaseFor(programs'[n]) = "down"
                 /\ ProcessFor(programs'[n], procs') = "none"
              \/ /\ PhaseFor(programs'[n]) = "up"
                 /\ ProcessFor(programs'[n], procs') = "alive"
<1>1. CASE programs'[n] = SetFatalError(p)
  <2>1. Idle(SetFatalError(p))
    BY TransitionType DEF Idle, SetFatalError, Live, Program
  <2> QED
    BY <1>1, <2>1, IdleSeen
<1>2. ASSUME NEW q \in Pids, NEW d \in Fds \cup {NoFd},
             programs'[n] = Started(p, q, d), procs'[q] = NewProc(n)
      PROVE  /\ AfterFor(programs'[n]) = "stay"
             /\ PhaseFor(programs'[n]) = "up"
             /\ ProcessFor(programs'[n], procs') = "alive"
  <2> DEFINE r == programs'[n]
  <2>0. p \in Program /\ Started(p, q, d) \in Program
    BY StartedType DEF Idle
  <2>1. /\ r # NoProgram /\ r.pid = q /\ r.state = "Starting"
        /\ ~r.pendingRemoval
    <3>1. r # NoProgram
      BY <1>2, <2>0, ValuesAssumption
    <3>2. r.pid = q /\ r.state = "Starting" /\ ~r.pendingRemoval
      BY <1>2, <2>0 DEF Idle, Started, Program
    <3> QED
      BY <3>1, <3>2
  <2>2. Condition(NewProc(n)) = "alive"
    BY DEF Condition, NewProc
  <2> HIDE DEF r
  <2>3. AfterFor(r) = "stay" /\ PhaseFor(r) = "up" /\ ProcessFor(r, procs') = "alive"
    BY <1>2, <2>1, <2>2 DEF AfterFor, PhaseFor, ProcessFor, Up, Live
  <2> QED
    BY <2>3 DEF r
<1> QED
  BY <1>1, <1>2 DEF Launches

\* The program comes into being, or goes from down to up: Appear and Launch.
LEMMA ComesKept ==
    ASSUME KeptInv, KeptInv', NEW n \in Names, NEW p, Idle(p),
           programs[n] = NoProgram \/ Idle(programs[n]),
           programs'[n] = p \/ Launches(n, p)
    PROVE  Kept(n)
<1> DEFINE was == programs[n]
           is == programs'[n]
<1>1. /\ AfterFor(is) = "stay"
      /\ \/ PhaseFor(is) = "down" /\ ProcessFor(is, procs') = "none"
         \/ PhaseFor(is) = "up" /\ ProcessFor(is, procs') = "alive"
  BY IdleSeen, LaunchSeen
<1>2. CASE was = NoProgram
  <2>1. PhaseFor(was) = "absent" /\ ProcessFor(was, procs) = "none"
    BY <1>2 DEF PhaseFor, ProcessFor
  <2>2. Promise(n)!Appear
    BY <1>1, <2>1, Seen, SeenNext
    DEF KeptInv, Promise!Appear, Promise!ComesUp, Promise!StaysDown
  <2> QED
    BY <2>2 DEF Kept, Promise!Next
<1>3. CASE Idle(was)
  <2>1. /\ PhaseFor(was) = "down" /\ ProcessFor(was, procs) = "none"
        /\ AfterFor(was) = "stay"
    BY <1>3, IdleSeen
  <2>2. Promise(n)!Launch \/ UNCHANGED Promise(n)!lifeVars
    BY <1>1, <2>1, Seen, SeenNext
    DEF KeptInv, Promise!Launch, Promise!ComesUp, Promise!lifeVars
  <2> QED
    BY <2>2 DEF Kept, Promise!Next
<1> QED
  BY <1>2, <1>3

\* A program that is up is stopped, for whatever reason.
LEMMA StopKept ==
    ASSUME KeptInv, KeptInv', NEW n \in Names, programs[n] # NoProgram,
           Up(programs[n]), NEW p \in Program, p.pid = programs[n].pid,
           programs'[n] = Stopping(p), IsAsked(n, "stop")
    PROVE  Kept(n)
<1> DEFINE was == programs[n]
           is == programs'[n]
           child == procs[was.pid]
<1>1. Live(was) /\ child \in Proc
  BY LiveProcess DEF KeptInv, HonestInv, IInv, Up, Live
<1>2. child.status = "alive" => child.asked = "none"
  BY <1>1 DEF KeptInv, HonestInv, Honest, Up, Proc
<1>3. PhaseFor(was) = "up" /\ ProcessFor(was, procs) = Condition(child)
  BY <1>1 DEF PhaseFor, ProcessFor
<1>4. /\ is # NoProgram /\ is.state = "Stopping" /\ is.pid = was.pid
  <2>1. Stopping(p) \in Program
    BY TransitionType
  <2>2. Stopping(p).state = "Stopping" /\ Stopping(p).pid = p.pid
    BY DEF Stopping, Program
  <2> QED
    BY <2>1, <2>2, ValuesAssumption
<1>5. PhaseFor(is) = "stopping" /\ ProcessFor(is, procs') = Condition(Asked(child, "stop"))
  BY <1>4 DEF PhaseFor, ProcessFor, IsAsked, Up, Live
<1>6. AfterFor(is) \in {"stay", "again", "gone"}
  BY DEF AfterFor
<1>7. Condition(Asked(child, "stop")) =
        IF Condition(child) = "alive" THEN "told" ELSE Condition(child)
  BY <1>1, <1>2 DEF Condition, Asked, Proc
<1>8. Promise(n)!Stop
  BY <1>3, <1>5, <1>6, <1>7, Seen, SeenNext
  DEF KeptInv, Promise!Stop, Promise!After
<1> QED
  BY <1>8 DEF Kept, Promise!Next

\* The dead process of a program is waited for.
LEMMA DeathKept ==
    ASSUME KeptInv, KeptInv', NEW n \in Known, programs[n].pidfd # NoFd,
           Zombie(fds[programs[n].pidfd]),
           StoppedDeath(n) \/ FailedStart(n) \/ StableDeath(n)
    PROVE  Kept(n)
<1> DEFINE was == programs[n]
           is == programs'[n]
<1>1. /\ n \in Names /\ was # NoProgram /\ was \in Program /\ Live(was)
      /\ Fits(was, n, loaded, heldDown)
      /\ procs[was.pid].status = "zombie"
  BY DEF Known, KeptInv, OrderInv, PatientInv, IInv, MgrInv, MgrTypeOK, Clean,
         IdleUnwatched, Consistent, Zombie
<1>2. ProcessFor(was, procs) = "dead"
  BY <1>1 DEF ProcessFor, Condition
<1>3. ASSUME NEW p \in Program, ~Live(p), ~p.pendingRestart, ~p.pendingRemoval,
             NEW again, Ends(n, p, again)
      PROVE  /\ AfterFor(is) = "stay"
             /\ \/ PhaseFor(is) = "down" /\ ProcessFor(is, procs') = "none"
                \/ again /\ PhaseFor(is) = "up" /\ ProcessFor(is, procs') = "alive"
  <2>1. Idle(ClosePidFd(p))
    BY <1>3, TransitionType DEF Idle, ClosePidFd, Live, Program
  <2> QED
    BY <1>1, <1>3, <2>1, IdleSeen, LaunchSeen DEF Ends
<1>4. CASE Up(was)
  <2>1. ~was.pendingRemoval /\ ~was.pendingRestart
    BY <1>1, <1>4 DEF Fits, Up
  <2>2. ASSUME NEW r \in {Exited(was), IncRestartNum(Exited(was)),
                          SetFatalError(IncRestartNum(Exited(was)))}
        PROVE  r \in Program /\ ~Live(r) /\ ~r.pendingRestart /\ ~r.pendingRemoval
    <3>1. r \in Program /\ ~Live(r)
      BY <1>1, DeadTypes
    <3>2. r.pendingRestart = was.pendingRestart /\ r.pendingRemoval = was.pendingRemoval
      BY <1>1 DEF Exited, IncRestartNum, SetFatalError, Program
    <3> QED
      BY <2>1, <3>1, <3>2
  <2>3. \E r \in {Exited(was), IncRestartNum(Exited(was)),
                   SetFatalError(IncRestartNum(Exited(was)))} :
          \E again : Ends(n, r, again)
    BY <1>4 DEF Up, StoppedDeath, FailedStart, StableDeath
  <2>4. /\ AfterFor(is) = "stay"
        /\ \/ PhaseFor(is) = "down" /\ ProcessFor(is, procs') = "none"
           \/ PhaseFor(is) = "up" /\ ProcessFor(is, procs') = "alive"
    BY <1>3, <2>2, <2>3
  <2>5. PhaseFor(was) = "up"
    BY <1>1, <1>4 DEF PhaseFor
  <2>6. Promise(n)!Reap
    BY <1>1, <1>2, <2>4, <2>5, Seen, SeenNext
    DEF KeptInv, Promise!Reap, Promise!ComesUp, Promise!StaysDown
  <2> QED
    BY <2>6 DEF Kept, Promise!Next
<1>5. CASE ~Up(was)
  <2> DEFINE r == SetPendingRestart(ApplyPendingConfig(Stopped(was)), FALSE)
  <2>1. was.state = "Stopping" /\ Ends(n, r, was.pendingRestart)
    BY <1>1, <1>5 DEF Up, Live, StoppedDeath, FailedStart, StableDeath
  <2>2. r \in Program /\ ~Live(r)
    BY <1>1, DeadTypes
  <2>3. r.pendingRestart = FALSE /\ r.pendingRemoval = was.pendingRemoval
    BY <1>1 DEF SetPendingRestart, ApplyPendingConfig, Stopped, Program
  <2>4. was.pendingRemoval => ~was.pendingRestart
    BY <1>1 DEF Fits
  <2>5. PhaseFor(was) = "stopping"
    BY <1>1, <1>5, <2>1 DEF PhaseFor
  <2> HIDE DEF r
  <2>6. CASE was.pendingRemoval
    <3>1. is = ClosePidFd(r)
      BY <2>1, <2>4, <2>6 DEF Ends
    <3>2. ClosePidFd(r) \in Program
      BY <2>2, TransitionType
    <3>3. ~Live(ClosePidFd(r)) /\ ClosePidFd(r).pendingRemoval
      BY <2>2, <2>3, <2>6 DEF ClosePidFd, Live, Program
    <3>4. is # NoProgram /\ ~Live(is) /\ is.pendingRemoval
      BY <3>1, <3>2, <3>3, ValuesAssumption
    <3>5. /\ PhaseFor(is) = "down" /\ ProcessFor(is, procs') = "none"
          /\ AfterFor(is) = "gone" /\ AfterFor(was) = "gone"
      BY <1>1, <2>6, <3>4 DEF PhaseFor, ProcessFor, AfterFor, Live, Up
    <3>6. Promise(n)!Reap
      BY <1>1, <1>2, <2>5, <3>5, Seen, SeenNext
      DEF KeptInv, Promise!Reap, Promise!StaysDown
    <3> QED
      BY <3>6 DEF Kept, Promise!Next
  <2>7. CASE ~was.pendingRemoval
    <3>1. /\ AfterFor(is) = "stay"
          /\ \/ PhaseFor(is) = "down" /\ ProcessFor(is, procs') = "none"
             \/ /\ was.pendingRestart
                /\ PhaseFor(is) = "up" /\ ProcessFor(is, procs') = "alive"
      BY <1>3, <2>1, <2>2, <2>3, <2>7
    <3>2. AfterFor(was) = IF was.pendingRestart THEN "again" ELSE "stay"
      BY <1>1, <2>1, <2>7 DEF AfterFor
    <3>3. Promise(n)!Reap
      BY <1>1, <1>2, <2>5, <3>1, <3>2, Seen, SeenNext
      DEF KeptInv, Promise!Reap, Promise!ComesUp, Promise!StaysDown
    <3> QED
      BY <3>3 DEF Kept, Promise!Next
  <2> QED
    BY <2>6, <2>7
<1> QED
  BY <1>4, <1>5

LEMMA TimersKept ==
    ASSUME KeptInv, KeptInv', checkTimers, NEW n \in Names
    PROVE  Kept(n)
<1> DEFINE was == programs[n]
           is == programs'[n]
           child == procs[was.pid]
<1>0. MgrInv /\ Honest(n)
  BY DEF KeptInv, HonestInv, IInv
<1>1. IF n \in Removable \/ n \notin Known THEN is = NoProgram
      ELSE /\ is = Confirmed(was)
           /\ Live(was) => IF n \in StopOverdue THEN IsAsked(n, "kill")
                           ELSE procs'[was.pid] = child
  BY <1>0, CheckTimersEach
<1>2. CASE n \in Removable
  <2>1. was # NoProgram /\ was.pendingRemoval /\ ~Live(was)
    BY <1>2 DEF Removable, Known
  <2>2. /\ PhaseFor(was) = "down" /\ ProcessFor(was, procs) = "none"
        /\ AfterFor(was) = "gone"
    BY <2>1 DEF PhaseFor, ProcessFor, AfterFor, Live, Up
  <2>3. /\ PhaseFor(is) = "absent" /\ ProcessFor(is, procs') = "none"
        /\ AfterFor(is) = "stay"
    BY <1>1, <1>2 DEF PhaseFor, ProcessFor, AfterFor
  <2>4. Promise(n)!Vanish
    BY <2>2, <2>3, Seen, SeenNext DEF KeptInv, Promise!Vanish
  <2> QED
    BY <2>4 DEF Kept, Promise!Next
<1>3. CASE n \notin Known
  <2>1. was = NoProgram /\ is = NoProgram
    BY <1>1, <1>3 DEF Known
  <2> QED
    BY <2>1, StillKept DEF Still
<1>4. CASE n \in Known \ Removable
  <2>1. was # NoProgram /\ was \in Program /\ Confirmed(was) \in Program
    BY <1>0, <1>4, ConfirmedType DEF Known, MgrInv, MgrTypeOK
  <2>2. /\ is = Confirmed(was) /\ is # NoProgram
    BY <1>1, <1>4, <2>1, ValuesAssumption
  <2>3. /\ is.pid = was.pid /\ is.pendingRemoval = was.pendingRemoval
        /\ is.pendingRestart = was.pendingRestart
        /\ is.state = was.state \/ (was.state = "Starting" /\ is.state = "Running")
    BY <2>1, <2>2 DEF Confirmed, SetRunning, ResetRestarts, Program
  <2> HIDE DEF is
  <2>4. /\ PhaseFor(is) = PhaseFor(was) /\ AfterFor(is) = AfterFor(was)
        /\ Live(is) = Live(was)
    BY <2>1, <2>2, <2>3 DEF PhaseFor, AfterFor, Up, Live
  <2>5. ASSUME Live(was) => procs'[was.pid] = child PROVE Kept(n)
    BY <2>1, <2>2, <2>3, <2>4, <2>5, SameKept DEF ProcessFor, is
  <2>6. ASSUME n \in StopOverdue PROVE Kept(n)
    <3>1. was.state = "Stopping" /\ Live(was) /\ child \in Proc
      BY <1>0, <2>1, <2>6, LiveProcess DEF StopOverdue, Live
    <3>2. procs'[was.pid] = Asked(child, "kill")
      BY <1>1, <1>4, <2>6, <3>1 DEF IsAsked
    <3>3. CASE child.status = "alive" /\ child.asked # "kill"
      <4>1. child.asked = "stop"
        BY <1>0, <2>1, <3>1, <3>3 DEF Honest, Proc
      <4>2. Condition(child) = "told" /\ Condition(Asked(child, "kill")) = "killed"
        BY <3>1, <3>3, <4>1 DEF Condition, Asked, Proc
      <4>3. PhaseFor(was) = "stopping"
        BY <2>1, <3>1 DEF PhaseFor, Up
      <4>4. ProcessFor(was, procs) = "told" /\ ProcessFor(is, procs') = "killed"
        BY <2>1, <2>2, <2>3, <2>4, <3>1, <3>2, <4>2 DEF ProcessFor
      <4>5. Promise(n)!Insist
        BY <2>4, <4>3, <4>4, Seen, SeenNext DEF KeptInv, Promise!Insist, is
      <4> QED
        BY <4>5 DEF Kept, Promise!Next
    <3>4. CASE ~(child.status = "alive" /\ child.asked # "kill")
      BY <2>5, <3>2, <3>4 DEF Asked
    <3> QED
      BY <3>3, <3>4
  <2> QED
    BY <1>1, <1>4, <2>5, <2>6
<1> QED
  BY <1>2, <1>3, <1>4

LEMMA DieKept ==
    ASSUME KeptInv, KeptInv', NEW q \in Pids, NEW how, Die(q, how), NEW n \in Names
    PROVE  Kept(n)
<1> DEFINE was == programs[n]
<1>0. MgrInv
  BY DEF KeptInv, HonestInv, IInv
<1>1. /\ programs'[n] = was
      /\ was # NoProgram /\ Live(was) =>
           IF was.pid = q THEN procs[q].status = "alive" /\ procs'[q].status = "zombie"
           ELSE procs'[was.pid] = procs[was.pid]
  BY <1>0, DieEach
<1>2. CASE was # NoProgram /\ Live(was) /\ was.pid = q
  <2>1. procs[q] \in Proc
    BY <1>0, <1>2, LiveProcess
  <2>2. Condition(procs[q]) \in {"alive", "told", "killed"} /\ Condition(procs'[q]) = "dead"
    BY <1>1, <1>2, <2>1 DEF Condition, Proc
  <2>3. /\ ProcessFor(was, procs) \in {"alive", "told", "killed"}
        /\ ProcessFor(was, procs') = "dead"
    BY <1>2, <2>2 DEF ProcessFor
  <2>4. Promise(n)!Die
    BY <1>1, <2>3, Seen, SeenNext DEF KeptInv, Promise!Die
  <2> QED
    BY <2>4 DEF Kept, Promise!Next
<1>3. CASE ~(was # NoProgram /\ Live(was) /\ was.pid = q)
  BY <1>1, <1>3, StillKept DEF Still
<1> QED
  BY <1>2, <1>3

LEMMA AgeKept ==
    ASSUME KeptInv, KeptInv', NEW m \in Names, Age(m), NEW n \in Names
    PROVE  Kept(n)
<1> DEFINE p == programs[n]
<1>0. MgrInv
  BY DEF KeptInv, HonestInv, IInv
<1>1. CASE n # m
  BY <1>0, <1>1, AgeEach, StillKept
<1>2. CASE n = m
  <2>1. n \in Known /\ programs'[n] = Aged(p) /\ procs' = procs
    BY <1>0, <1>2, AgeEach
  <2>2. p # NoProgram /\ p \in Program /\ Aged(p) # NoProgram
    BY <1>0, <2>1, AgedType, ValuesAssumption DEF Known, MgrInv, MgrTypeOK
  <2>3. /\ Aged(p).state = p.state /\ Aged(p).pid = p.pid
        /\ Aged(p).pendingRemoval = p.pendingRemoval
        /\ Aged(p).pendingRestart = p.pendingRestart
    BY <2>2 DEF Aged, Program
  <2>4. /\ PhaseFor(Aged(p)) = PhaseFor(p) /\ AfterFor(Aged(p)) = AfterFor(p)
        /\ ProcessFor(Aged(p), procs) = ProcessFor(p, procs)
    BY <2>2, <2>3 DEF PhaseFor, AfterFor, ProcessFor, Up, Live
  <2> QED
    BY <2>1, <2>4, SameKept
<1> QED
  BY <1>1, <1>2

\* A settled program that is down has no pending order.
LEMMA SettledIdle ==
    ASSUME OrderInv, NEW n \in Known, ~Up(programs[n]),
           programs[n].state # "Stopping", ~programs[n].pendingRemoval
    PROVE  Idle(programs[n])
  BY SettledFits DEF Ready, Idle, Up, Live

LEMMA ReloadedKept ==
    ASSUME KeptInv, KeptInv', NEW f \in Files, NEW S \in SUBSET Names, NEW U,
           \A n \in Known : programs[n].state # "Stopping" /\ ~programs[n].pendingRemoval,
           Reloaded(f, S, U), NEW n \in Names
    PROVE  Kept(n)
<1> DEFINE p == programs[n]
<1>1. DOMAIN f \subseteq Names /\ f \in [DOMAIN f -> Configs]
  BY FilesAssumption
<1>2. MgrInv /\ OrderInv
  BY DEF KeptInv, HonestInv, IInv
<1>3. /\ n \in Removed(f, S) => programs'[n] = StopIfUp(SetPendingRemoval(p, TRUE))
      /\ n \in Changed(f, S) =>
           \/ programs'[n] = Reconfigured(p, f[n])
           \/ ~Live(p) /\ Launches(n, Reconfigured(p, f[n]))
      /\ n \in Added(f, S) =>
           programs'[n] = NewProgram(f[n]) \/ Launches(n, NewProgram(f[n]))
      /\ n \notin Removed(f, S) \cup Changed(f, S) \cup Added(f, S) => programs'[n] = p
      /\ n \in Known /\ Live(p) =>
           IF n \in Removed(f, S) \cup Changed(f, S) /\ Up(p) THEN IsAsked(n, "stop")
           ELSE procs'[p.pid] = procs[p.pid]
  BY <1>1, <1>2, ReloadedEach
<1>4. /\ n \in Removed(f, S) => n \in Known
      /\ n \in Changed(f, S) => n \in Known /\ n \in DOMAIN f
      /\ n \in Added(f, S) => n \notin Known /\ n \in DOMAIN f
  BY DEF Removed, Changed, Added
<1>5. n \in Known => /\ p # NoProgram /\ p \in Program
                     /\ Live(p) <=> Up(p)
                     /\ ~Up(p) => Idle(p)
  BY <1>2, SettledIdle DEF Known, MgrInv, MgrTypeOK, Live, Up
<1>6. CASE n \in Removed(f, S)
  <2> DEFINE r == SetPendingRemoval(p, TRUE)
  <2>1. r \in Program /\ r.pid = p.pid /\ r.pendingRemoval /\ r.state = p.state
    BY <1>4, <1>5, <1>6, TransitionType DEF SetPendingRemoval, Program
  <2>2. programs'[n] = StopIfUp(r)
    BY <1>3, <1>6
  <2> HIDE DEF r
  <2>3. CASE Up(p)
    <3>1. programs'[n] = Stopping(r) /\ IsAsked(n, "stop")
      BY <1>3, <1>4, <1>5, <1>6, <2>1, <2>2, <2>3 DEF StopIfUp, Up
    <3> QED
      BY <1>4, <1>5, <1>6, <2>1, <2>3, <3>1, StopKept
  <2>4. CASE ~Up(p)
    <3>1. programs'[n] = r /\ r # NoProgram /\ ~Live(r)
      BY <1>4, <1>5, <1>6, <2>1, <2>2, <2>4, ValuesAssumption DEF StopIfUp, Up, Live
    <3>2. /\ PhaseFor(r) = "down" /\ ProcessFor(r, procs') = "none"
          /\ AfterFor(r) = "gone"
      BY <2>1, <3>1 DEF PhaseFor, ProcessFor, AfterFor, Up, Live
    <3>3. PhaseFor(p) = "down" /\ ProcessFor(p, procs) = "none"
      BY <1>4, <1>5, <1>6, <2>4, IdleSeen
    <3>4. Promise(n)!Mark
      BY <1>2, <3>1, <3>2, <3>3, Seen, SeenNext DEF KeptInv, Promise!Mark
    <3> QED
      BY <3>4 DEF Kept, Promise!Next
  <2> QED
    BY <2>3, <2>4
<1>7. CASE n \in Changed(f, S)
  <2> DEFINE c == f[n]
             s == SetPendingConfig(p, c)
             r == SetPendingRestart(s, c.autostart)
             a == ApplyPendingConfig(s)
  <2>1. c \in Configs /\ c.autostart \in BOOLEAN
    BY <1>1, <1>4, <1>7, ConfigsAssumption
  <2>2. s \in Program /\ s.state = p.state /\ s.pid = p.pid
        /\ s.pendingRemoval = p.pendingRemoval /\ s.pendingRestart = p.pendingRestart
    BY <1>4, <1>5, <1>7, <2>1, TransitionType DEF SetPendingConfig, Program
  <2> HIDE DEF c, s
  <2>3. CASE Up(p)
    <3>1. r \in Program /\ r.pid = p.pid /\ Up(r)
      BY <2>1, <2>2, <2>3, TransitionType DEF SetPendingRestart, Up, Program
    <3>2. programs'[n] = Stopping(r) /\ IsAsked(n, "stop")
      BY <1>3, <1>4, <1>5, <1>7, <2>3, <3>1 DEF Reconfigured, StopIfUp, c, s
    <3> HIDE DEF r
    <3> QED
      BY <1>4, <1>5, <1>7, <2>3, <3>1, <3>2, StopKept
  <2>4. CASE ~Up(p)
    <3>1. /\ a \in Program /\ a.state = s.state
          /\ a.pendingRemoval = s.pendingRemoval /\ a.pendingRestart = s.pendingRestart
      BY <2>2, ApplyPendingConfigType DEF ApplyPendingConfig, Program
    <3>2. Idle(a) /\ Idle(p)
      BY <1>4, <1>5, <1>7, <2>2, <2>4, <3>1 DEF Idle, Live
    <3>3. programs'[n] = a \/ Launches(n, a)
      BY <1>3, <1>4, <1>5, <1>7, <2>4 DEF Reconfigured, c, s
    <3> HIDE DEF a
    <3> QED
      BY <3>2, <3>3, ComesKept
  <2> QED
    BY <2>3, <2>4
<1>8. CASE n \in Added(f, S)
  <2>1. f[n] \in Configs
    BY <1>1, <1>4, <1>8
  <2>2. Idle(NewProgram(f[n]))
    BY <2>1, NewProgramType DEF Idle, NewProgram, Live
  <2>3. p = NoProgram
    BY <1>4, <1>8 DEF Known
  <2> QED
    BY <1>3, <1>8, <2>2, <2>3, ComesKept
<1>9. CASE n \notin Removed(f, S) \cup Changed(f, S) \cup Added(f, S)
  BY <1>3, <1>9, StillKept DEF Still, Known
<1> QED
  BY <1>6, <1>7, <1>8, <1>9

LEMMA DoReloadKept ==
    ASSUME PatientOperator, KeptInv, KeptInv', doReload, NEW n \in Names
    PROVE  Kept(n)
<1>1. CASE UNCHANGED <<mgrVars, history>>
  BY <1>1, UnchangedEach, StillKept
<1>2. ASSUME NEW f \in Files, NEW S \in SUBSET Names, NEW U, Reloaded(f, S, U),
             \A m \in Known : programs[m].state # "Stopping" /\ ~programs[m].pendingRemoval
      PROVE  Kept(n)
  BY <1>2, ReloadedKept
<1> QED
  BY <1>1, <1>2 DEF doReload, reloadManager, reloadCutShort

LEMMA StartKept ==
    ASSUME PatientOperator, KeptInv, KeptInv', NEW m \in Names, MayStart(m),
           startProccess(m) \/ restartProccess(m), NEW n \in Names
    PROVE  Kept(n)
<1> DEFINE p == programs[n]
<1>1. MgrInv /\ OrderInv
  BY DEF KeptInv, HonestInv, IInv
<1>2. \/ Still(n)
      \/ n = m /\ n \in Known /\ ~Up(p) /\ Launches(n, p)
      \/ /\ n \in Known /\ Up(p) /\ IsAsked(n, "stop")
         /\ programs'[n] = Stopping(SetPendingRestart(p, TRUE))
  BY <1>1, StartProccessEach, RestartProccessEach DEF startProccess, restartProccess
<1>3. CASE Still(n)
  BY <1>3, StillKept
<1>4. CASE n = m /\ n \in Known /\ ~Up(p) /\ Launches(n, p)
  <2>1. Idle(p)
    BY <1>1, <1>4, SettledIdle DEF MayStart
  <2> QED
    BY <1>4, <2>1, ComesKept
<1>5. CASE /\ n \in Known /\ Up(p) /\ IsAsked(n, "stop")
           /\ programs'[n] = Stopping(SetPendingRestart(p, TRUE))
  <2> DEFINE r == SetPendingRestart(p, TRUE)
  <2>1. p # NoProgram /\ p \in Program
    BY <1>1, <1>5 DEF Known, MgrInv, MgrTypeOK
  <2>2. r \in Program /\ r.pid = p.pid
    BY <2>1, TransitionType DEF SetPendingRestart, Program
  <2>3. programs'[n] = Stopping(r)
    BY <1>5
  <2> HIDE DEF r
  <2> QED
    BY <1>5, <2>1, <2>2, <2>3, StopKept
<1> QED
  BY <1>2, <1>3, <1>4, <1>5

LEMMA StopAllKept ==
    ASSUME KeptInv, KeptInv', NEW S, S \subseteq {m \in Known : Up(programs[m])},
           StopAndSignal(S), NEW n \in Names
    PROVE  Kept(n)
<1>1. MgrInv
  BY DEF KeptInv, HonestInv, IInv
<1>2. IF n \in S THEN programs'[n] = Stopping(programs[n]) /\ IsAsked(n, "stop")
      ELSE Still(n)
  BY <1>1, StopAndSignalEach
<1>3. n \in S => programs[n] # NoProgram /\ programs[n] \in Program /\ Up(programs[n])
  BY <1>1 DEF Known, MgrInv, MgrTypeOK
<1> QED
  BY <1>2, <1>3, StillKept, StopKept

LEMMA NextKept ==
    ASSUME PatientOperator, KeptInv, KeptInv', [Next]_vars, NEW n \in Names
    PROVE  Kept(n)
<1>0. MgrInv /\ OrderInv
  BY DEF KeptInv, HonestInv, IInv
<1>1. CASE LoadFirst
  <2>1. PICK f \in Files : startManager(f)
    BY <1>1 DEF LoadFirst
  <2>2. DOMAIN f \subseteq Names /\ f \in [DOMAIN f -> Configs]
    BY FilesAssumption
  <2>3. programs[n] = NoProgram
    BY <1>0, <1>1 DEF LoadFirst, OrderInv, Known
  <2>4. CASE n \in DOMAIN f
    <3>1. Idle(NewProgram(f[n]))
      BY <2>2, <2>4, NewProgramType DEF Idle, NewProgram, Live
    <3>2. programs'[n] = NewProgram(f[n]) \/ Launches(n, NewProgram(f[n]))
      BY <2>1, <2>2, <2>4, StartManagerEach
    <3> QED
      BY <2>3, <3>1, <3>2, ComesKept
  <2>5. CASE n \notin DOMAIN f
    <3>1. programs'[n] = NoProgram
      BY <2>1, <2>2, <2>5, StartManagerEach DEF Autostarting
    <3> QED
      BY <2>3, <3>1, StillKept DEF Still
  <2> QED
    BY <2>4, <2>5
<1>2. CASE UNCHANGED mgrVars
  BY <1>2, UnchangedEach, StillKept
<1>3. ASSUME NEW d \in Fds, HandleExit(d) \/ HandleStray(d) PROVE Kept(n)
  BY <1>0, <1>3, HandleEventEach, StillKept, DeathKept DEF HandleExit, HandleStray
<1>4. CASE doReload
  BY <1>4, DoReloadKept
<1>5. CASE StartCommand \/ RestartCommand
  BY <1>5, StartKept DEF StartCommand, RestartCommand
<1>6. CASE StopCommand
  <2>1. PICK m \in Names : stopProccess(m)
    BY <1>6 DEF StopCommand
  <2>2. CASE m \in Known /\ Up(programs[m])
    BY <2>1, <2>2, StopAllKept DEF stopProccess
  <2> QED
    BY <1>2, <2>1, <2>2 DEF stopProccess
<1>7. CASE RunTimers
  BY <1>7, TimersKept DEF RunTimers
<1>8. CASE BeginShutdown
  BY <1>8, StopAllKept DEF BeginShutdown, stopAllPrograms
<1>9. ASSUME NEW q \in Pids, ProcessDies(q) PROVE Kept(n)
  BY <1>9, DieKept DEF ProcessDies
<1>10. ASSUME NEW m \in Names, ProgramSecond(m) PROVE Kept(n)
  BY <1>10, AgeKept DEF ProgramSecond
<1> QED
  BY <1>1, <1>2, <1>3, <1>4, <1>5, <1>6, <1>7, <1>8, <1>9, <1>10
  DEF Next, Daemon, Terminated, RefuseFirst, LeaveIdle, LeaveOnTimeout, Wait,
      handleSignal, ReloadCommand, ShutdownCommand, OtherCommand, ShutdownSecond,
      vars, mgrVars

LEMMA InitKept == ASSUME Init, NEW n \in Names PROVE Promise(n)!Init
<1>1. programs[n] = NoProgram /\ Children(n) = {}
  BY DEF Init, MgrInit, Children
<1> QED
  BY <1>1 DEF Promise!Init, PhaseOf, ProcessOf, AfterOf, Known

(* The daemon implements, for each program, the promise of Supervisor, for any *)
(* number of programs, processes and descriptors and however commands, deaths, *)
(* reloads, timers and the shutdown interleave: one process at a time, each    *)
(* waited for before the next, an end that follows the order, and a program    *)
(* that leaves the daemon only with no process behind it.                      *)
THEOREM PromiseKept == PatientOperator /\ Spec => Supervised
<1>1. Init => \A n \in Names : Promise(n)!Init
  BY InitKept
<1>2. PatientOperator /\ KeptInv /\ KeptInv' /\ [Next]_vars =>
        [\A n \in Names : [Promise(n)!Next]_(Promise(n)!lifeVars)]_vars
  BY NextKept DEF Kept
<1>3. PatientOperator /\ Spec => []KeptInv
  BY OrderInvariance, HonestInvariance, PTL DEF KeptInv
<1>4. PatientOperator => [](PatientOperator)
  OBVIOUS
<1> QED
  BY <1>1, <1>2, <1>3, <1>4, PTL DEF Spec, Supervised

LEMMA OwnChild ==
    ASSUME KeptInv, NEW n \in Names, programs[n] # NoProgram, Live(programs[n])
    PROVE  procs[programs[n].pid] \in Proc
<1>1. /\ Typed(programs, procs, fds) /\ Consistent(programs, procs, fds)
      /\ Tracked(programs, procs)
  BY DEF KeptInv, OrderInv, PatientInv, IInv, MgrInv, MgrTypeOK, Typed, Clean
<1>2. programs[n].pid \in Pids /\ procs[programs[n].pid] # Free
  BY <1>1, OnlyChild
<1> QED
  BY <1>1, <1>2 DEF Typed

(* What the promise says of the processes, said of the daemon: whenever status *)
(* is asked for, a program it shows as stopped, exited or fatal has no process *)
(* in the kernel's table, one it shows as starting, running or stopping has    *)
(* one, and only one it shows as stopping was told to stop                     *)
(* (ProccessManager::status).                                                  *)
THEOREM ShownAsTheyAre ==
    PatientOperator /\ Spec => [](\A n \in Names : Promise(n)!Accounted)
<1>1. ASSUME KeptInv, NEW n \in Names PROVE Promise(n)!Accounted
  <2> DEFINE p == programs[n]
  <2>1. /\ PhaseOf(n) = PhaseFor(p) /\ ProcessOf(n) = ProcessFor(p, procs)
        /\ AfterOf(n) = AfterFor(p)
    BY <1>1, Seen DEF KeptInv
  <2>2. CASE p = NoProgram
    BY <2>1, <2>2 DEF Promise!Accounted, PhaseFor, ProcessFor
  <2>3. CASE p # NoProgram /\ ~Live(p)
    BY <2>1, <2>3 DEF Promise!Accounted, PhaseFor, ProcessFor, Live, Up
  <2>4. CASE p # NoProgram /\ Live(p)
    <3> DEFINE child == procs[p.pid]
    <3>1. child \in Proc
      BY <1>1, <2>4, OwnChild
    <3>2. child.status = "alive" =>
            (p.state = "Stopping" <=> child.asked # "none")
      BY <1>1, <2>4 DEF KeptInv, HonestInv, Honest
    <3>3. Up(p) => ~p.pendingRemoval
      BY <1>1, <2>4 DEF KeptInv, OrderInv, Fits
    <3>4. ProcessOf(n) = Condition(child)
      BY <2>1, <2>4 DEF ProcessFor
    <3>5. \/ child.status = "zombie" /\ Condition(child) = "dead"
          \/ child.status = "alive" /\ child.asked = "none" /\ Condition(child) = "alive"
          \/ child.status = "alive" /\ child.asked # "none"
               /\ Condition(child) \in {"told", "killed"}
      <4>1. child.status \in {"alive", "zombie"} /\ child.asked \in {"none", "stop", "kill"}
        BY <3>1 DEF Proc
      <4> QED
        BY <4>1 DEF Condition
    <3>6. PhaseOf(n) = IF Up(p) THEN "up" ELSE "stopping"
      BY <2>1, <2>4 DEF PhaseFor, Live, Up
    <3>7. p.state = "Stopping" <=> ~Up(p)
      BY <2>4 DEF Live, Up
    <3>8. Up(p) => AfterOf(n) = "stay"
      BY <2>1, <3>3, <3>7 DEF AfterFor
    <3> QED
      BY <3>2, <3>4, <3>5, <3>6, <3>7, <3>8 DEF Promise!Accounted
  <2> QED
    BY <2>2, <2>3, <2>4
<1>2. KeptInv => \A n \in Names : Promise(n)!Accounted
  BY <1>1
<1>3. PatientOperator /\ Spec => []KeptInv
  BY OrderInvariance, HonestInvariance, PTL DEF KeptInv
<1> QED
  BY <1>2, <1>3, PTL
=============================================================================
