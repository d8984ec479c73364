----------------------------- MODULE Supervisor ------------------------------
(***************************************************************************)
(* What the daemon promises about one program, to an operator who waits    *)
(* for stops to complete: the program has at most one process, a process   *)
(* follows another only when that one was waited for, the end of a process *)
(* that was told to stop is followed by what the order asked for, and a    *)
(* program leaves the daemon only when it has no process.                  *)
(*                                                                         *)
(* How the daemon comes to know of a death, who asks for what, the         *)
(* restart policy, retries, timers and configurations are not part of the  *)
(* promise: Supervision shows that Taskmaster keeps it.                    *)
(***************************************************************************)

VARIABLES
    phase,      \* what the program is to the daemon
    process,    \* what the kernel knows of the program's process
    after       \* what comes when the program is down

lifeVars == <<phase, process, after>>

Phase == {"absent", "down", "up", "stopping"}
Process == {"none", "alive", "told", "killed", "dead"}
After == {"stay", "again", "gone"}

LifeTypeOK == phase \in Phase /\ process \in Process /\ after \in After

Init == phase = "absent" /\ process = "none" /\ after = "stay"

ComesUp == phase' = "up" /\ process' = "alive" /\ after' = "stay"
StaysDown == phase' = "down" /\ process' = "none"

-----------------------------------------------------------------------------
(* A program without a process *)

Appear ==
    /\ phase = "absent" /\ process = "none"
    /\ ComesUp \/ (StaysDown /\ after' = "stay")

Launch ==
    /\ phase = "down" /\ process = "none" /\ after = "stay"
    /\ ComesUp

\* The config file no longer has the program: it is down, and soon absent.
Mark ==
    /\ phase = "down" /\ process = "none"
    /\ after' = "gone"
    /\ UNCHANGED <<phase, process>>

Vanish ==
    /\ phase = "down" /\ process = "none" /\ after = "gone"
    /\ phase' = "absent" /\ after' = "stay"
    /\ UNCHANGED process

-----------------------------------------------------------------------------
(* A program with a process *)

Stop ==
    /\ phase = "up"
    /\ phase' = "stopping"
    /\ process' = IF process = "alive" THEN "told" ELSE process
    /\ after' \in After

Insist ==
    /\ phase = "stopping" /\ process = "told"
    /\ process' = "killed"
    /\ UNCHANGED <<phase, after>>

Die ==
    /\ process \in {"alive", "told", "killed"}
    /\ process' = "dead"
    /\ UNCHANGED <<phase, after>>

\* The process is waited for.  The policy decides what follows a death nobody
\* asked for; the order decides what follows a stop.  A launch may fail.
Reap ==
    /\ process = "dead"
    /\ \/ phase = "up" /\ (ComesUp \/ (StaysDown /\ after' = "stay"))
       \/ phase = "stopping" /\ after = "again"
            /\ (ComesUp \/ (StaysDown /\ after' = "stay"))
       \/ phase = "stopping" /\ after # "again" /\ StaysDown /\ UNCHANGED after

Next ==
    \/ Appear \/ Launch \/ Mark \/ Vanish
    \/ Stop \/ Insist \/ Die \/ Reap

Spec == Init /\ [][Next]_lifeVars

-----------------------------------------------------------------------------
(* A program has a process exactly when the daemon says so, the process was    *)
(* told to stop only if the program is stopping, and a program that is gone    *)
(* or about to go has none left that nobody told to stop.                      *)
Accounted ==
    /\ process # "none" <=> phase \in {"up", "stopping"}
    /\ process \in {"told", "killed"} => phase = "stopping"
    /\ process = "alive" => phase = "up" /\ after = "stay"
=============================================================================
