---------------------------- MODULE Supervision ------------------------------
(***************************************************************************)
(* The daemon implements, for each program, the promise of Supervisor.     *)
(***************************************************************************)
EXTENDS Taskmaster

Children(n) == {q \in Pids : procs[q] # Free /\ procs[q].owner = n}

PhaseOf(n) ==
    IF n \notin Known THEN "absent"
    ELSE IF Up(programs[n]) THEN "up"
    ELSE IF programs[n].state = "Stopping" THEN "stopping"
    ELSE "down"

\* What the kernel knows of a child, in the words of Supervisor.
Condition(child) ==
    IF child.status = "zombie" THEN "dead"
    ELSE CASE child.asked = "none" -> "alive"
           [] child.asked = "stop" -> "told"
           [] child.asked = "kill" -> "killed"

\* Two processes of one program have no counterpart in Supervisor.
ProcessOf(n) ==
    IF Children(n) = {} THEN "none"
    ELSE IF \E q, r \in Children(n) : q # r THEN "several"
    ELSE Condition(procs[CHOOSE q \in Children(n) : TRUE])

AfterOf(n) ==
    IF n \notin Known THEN "stay"
    ELSE IF programs[n].pendingRemoval THEN "gone"
    ELSE IF programs[n].state = "Stopping" /\ programs[n].pendingRestart THEN "again"
    ELSE "stay"

Promise(n) == INSTANCE Supervisor WITH
    phase <- PhaseOf(n), process <- ProcessOf(n), after <- AfterOf(n)

(* Every program, on its own, behaves as Supervisor says, however commands,    *)
(* deaths, reloads, timers and the shutdown interleave; one step of the daemon *)
(* (a reload, a shutdown) may be a step of several programs.  The conjunction  *)
(* of Promise(n)!Spec over the names, with one box.                            *)
Supervised ==
    /\ \A n \in Names : Promise(n)!Init
    /\ [][\A n \in Names : [Promise(n)!Next]_(Promise(n)!lifeVars)]_vars
=============================================================================
