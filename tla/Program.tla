------------------------------- MODULE Program -------------------------------
(***************************************************************************)
(* One supervised program: the class Program and the struct ProgramConfig. *)
(*                                                                         *)
(* A program is a record; each transition of the class is an operator from *)
(* the record before the call to the record after it.  The owner of the    *)
(* records, ProccessManager, is the only caller.                           *)
(*                                                                         *)
(* m_start_time and m_stop_time are kept as ages: the whole seconds since  *)
(* the time point was taken, saturated at MaxAge.  Only `elapsed >= limit' *)
(* is ever asked of them, so saturating above every limit loses nothing.   *)
(* m_restarts is saturated at MaxRestarts for the same reason.             *)
(***************************************************************************)
EXTENDS Integers

CONSTANTS
    Configs,        \* program configurations the operator may write
    BlankCmd,       \* a cmd of blanks only: accepted by the parser, no words
    Pids,           \* process identifiers the kernel hands out, and takes back
    NoPid,          \* no process
    Fds,            \* numbers of the descriptors that can hold a pidfd
    NoFd,           \* no descriptor: the -1 of an empty Fd
    NoConfig,       \* m_has_pending_config is false
    MaxAge,         \* bound: seconds, at least every starttime and stoptime
    MaxRestarts     \* bound: failed starts, at least every startretries

ASSUME BoundsAssumption == MaxAge \in Nat /\ MaxRestarts \in Nat

\* The fields of ProgramConfig the daemon acts on.  autorestart is validated by
\* the parser; startretries, starttime and stoptime are plain ints.
ASSUME ConfigsAssumption ==
    \A c \in Configs :
        /\ c.autostart \in BOOLEAN
        /\ c.autorestart \in {"always", "never", "unexpected"}
        /\ c.exitcodes \subseteq Int
        /\ c.startretries \in Int /\ c.startretries <= MaxRestarts
        /\ c.starttime \in Int /\ c.starttime <= MaxAge
        /\ c.stoptime \in Int /\ c.stoptime <= MaxAge

ASSUME SentinelsAssumption ==
    NoPid \notin Pids /\ NoFd \notin Fds /\ NoConfig \notin Configs

State == {"Stopped", "Starting", "Running", "Exited", "Fatal", "Stopping"}

Program ==
    [state          : State,
     pid            : Pids \cup {NoPid},     \* m_pid, never cleared
     pidfd          : Fds \cup {NoFd},       \* m_io.pidfd
     cfg            : Configs,
     restarts       : 0 .. MaxRestarts,
     startAge       : 0 .. MaxAge,
     stopAge        : 0 .. MaxAge,
     pendingRestart : BOOLEAN,
     pendingRemoval : BOOLEAN,
     pendingConfig  : Configs \cup {NoConfig}]

-----------------------------------------------------------------------------
(* Constructor and transitions *)

NewProgram(c) ==
    [state |-> "Stopped", pid |-> NoPid, pidfd |-> NoFd, cfg |-> c,
     restarts |-> 0, startAge |-> 0, stopAge |-> 0,
     pendingRestart |-> FALSE, pendingRemoval |-> FALSE,
     pendingConfig |-> NoConfig]

Started(p, q, d) ==
    [p EXCEPT !.pid = q, !.state = "Starting", !.pidfd = d, !.startAge = 0]

SetRunning(p) == [p EXCEPT !.state = "Running"]
Exited(p) == [p EXCEPT !.state = "Exited"]
Stopping(p) == [p EXCEPT !.state = "Stopping", !.stopAge = 0]
Stopped(p) == [p EXCEPT !.state = "Stopped"]
SetFatalError(p) == [p EXCEPT !.state = "Fatal"]

IncRestartNum(p) ==
    [p EXCEPT !.restarts = IF @ < MaxRestarts THEN @ + 1 ELSE @]

ResetRestarts(p) == [p EXCEPT !.restarts = 0]
SetPendingRestart(p, b) == [p EXCEPT !.pendingRestart = b]
SetPendingRemoval(p, b) == [p EXCEPT !.pendingRemoval = b]
SetPendingConfig(p, c) == [p EXCEPT !.pendingConfig = c]

\* Seeded bug: the test of m_has_pending_config is missing.
ApplyPendingConfig_Unchecked(p) ==
    [p EXCEPT !.cfg = p.pendingConfig, !.pendingConfig = NoConfig]

ApplyPendingConfig(p) ==
    IF p.pendingConfig = NoConfig THEN p
    ELSE [p EXCEPT !.cfg = p.pendingConfig, !.pendingConfig = NoConfig]

ClosePidFd(p) == [p EXCEPT !.pidfd = NoFd]

-----------------------------------------------------------------------------
(* Questions asked of a program *)

StartWindowPassed(p) == p.startAge >= p.cfg.starttime
StopWindowPassed(p) == p.stopAge >= p.cfg.stoptime

Up(p) == p.state \in {"Running", "Starting"}
Live(p) == p.state \in {"Running", "Starting", "Stopping"}

\* A whole second goes by for this program.  An age that no later step can ask
\* for before it is reset is left alone.
Older(age) == IF age < MaxAge THEN age + 1 ELSE age
Aged(p) ==
    [p EXCEPT !.startAge = IF Live(p) \/ p.pidfd # NoFd THEN Older(@) ELSE @,
              !.stopAge = IF p.state = "Stopping" THEN Older(@) ELSE @]
=============================================================================
