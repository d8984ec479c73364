------------------------------- MODULE Logger --------------------------------
(***************************************************************************)
(* The class Logger: one log file that every daemon started in the same    *)
(* directory appends to, renamed to an archive when it is large enough.    *)
(*                                                                         *)
(* A call may throw: when the file is not there to be measured, when the   *)
(* rename or the reopening fails, when an old archive cannot be cleaned.   *)
(* What a daemon's stream leads to is the file that has the name app.log,  *)
(* a file that had it before, or nothing.  The lines that a function       *)
(* writes in a row are one line here; a call is one step; the text of the  *)
(* lines, the archives and syslog are left out.                            *)
(***************************************************************************)
EXTENDS Integers

CONSTANTS
    Loggers,        \* the processes with a Logger
    Missing,        \* there is no app.log
    MaxSize,        \* the 10 MB of max_size, in lines
    LogFaults       \* which calls may fail: "open", "rename", "clean"

ASSUME LoggerAssumption ==
    /\ MaxSize \in Nat \ {0}
    /\ LogFaults \subseteq {"open", "rename", "clean"}

VARIABLES
    app,            \* size of app.log
    stream          \* m_file of each logger

logVars == <<app, stream>>

LogTypeOK ==
    /\ app \in 0 .. MaxSize \cup {Missing}
    /\ stream \in [Loggers -> {"closed", "app", "former"}]

LogInit == app = Missing /\ stream = [d \in Loggers |-> "closed"]

\* open(..., app): appends to the file of this name, made if it is not there.
Opened(d) ==
    /\ app' = IF app = Missing THEN 0 ELSE app
    /\ stream' = [stream EXCEPT ![d] = "app"]

\* The constructor.  It throws when the file cannot be opened.
Logger(d) == Opened(d)

\* The line goes to the file the stream leads to; a daemon whose file was
\* archived by another one goes on writing to the archive.
Written(d) ==
    /\ stream[d] # "closed"
    /\ app' = IF stream[d] = "app" THEN app + 1 ELSE app
    /\ UNCHANGED stream

shouldRotate_Over == app # Missing /\ app > MaxSize

shouldRotate == app # Missing /\ app >= MaxSize

\* Every stream that led to app.log now leads to the archive.
Archived(d) ==
    [e \in Loggers |-> IF e # d /\ stream[e] = "app" THEN "former" ELSE stream[e]]

\* rotateLogFile and cleanOldLogs went well, and the line is written.
rotated(d) ==
    /\ app' = 1
    /\ stream' = [Archived(d) EXCEPT ![d] = "app"]

\* log(): a line is written.
LogOk(d) ==
    \/ app # Missing /\ ~shouldRotate /\ Written(d)
    \/ shouldRotate /\ rotated(d)

\* log() throws, at one of its calls.
LogThrows(d) ==
    \/ app = Missing /\ UNCHANGED logVars                       \* file_size
    \/ app # Missing /\ ~shouldRotate /\ stream[d] = "closed" /\ UNCHANGED logVars
    \/ /\ shouldRotate /\ "rename" \in LogFaults
       /\ stream' = [stream EXCEPT ![d] = "closed"]
       /\ UNCHANGED app
    \/ /\ shouldRotate /\ "open" \in LogFaults
       /\ app' = Missing
       /\ stream' = [Archived(d) EXCEPT ![d] = "closed"]
    \/ /\ shouldRotate /\ "clean" \in LogFaults                 \* reopened before
       /\ app' = 0
       /\ stream' = [Archived(d) EXCEPT ![d] = "app"]

\* ~Logger, or the end of the process.
LogClosed(d) == stream' = [stream EXCEPT ![d] = "closed"] /\ UNCHANGED app

\* Somebody removes the file.
LogRemoved ==
    /\ app # Missing
    /\ app' = Missing
    /\ stream' = [d \in Loggers |-> IF stream[d] = "app" THEN "former" ELSE stream[d]]
=============================================================================
