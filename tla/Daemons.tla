------------------------------- MODULE Daemons -------------------------------
(***************************************************************************)
(* The life of taskmaster processes on one machine: main, Daemonize, the   *)
(* constructor and the destructor of SocketListener, Taskmaster::init and  *)
(* doReload as far as the config file goes, over Logger and Parser.        *)
(*                                                                         *)
(* They share the path of the socket and the log file.  Any of them may be *)
(* started while others run, fail at any point of its start, be ended by   *)
(* an order, by an exception or by SIGKILL, and be started again.  What a  *)
(* running daemon does to its programs is Taskmaster's.                    *)
(***************************************************************************)
EXTENDS Parser, Logger

CONSTANTS
    Documents,      \* what the operator may write in the config file
    NoLoad,         \* the last step loaded no config file
    Faults          \* "fork", "socket" and "listen" may fail

ASSUME DocumentsAssumption == Documents \subseteq Seq(Entries) \cup {Broken}
ASSUME FaultsAssumption == Faults \subseteq {"fork", "socket", "listen"}

VARIABLES
    pc,             \* where each daemon is in main
    path,           \* /tmp/taskmaster.sock: the daemon that bound it, or none
    load,           \* what the last step read, and what it made of it
    alone           \* history: no other daemon was there since it started

vars == <<app, stream, pc, path, load, alone>>

Starting == {"logger", "daemon", "unlinked", "bound", "listening"}
Serving == {"running", "applying", "catching"}
Leaving == {"leaving", "unwinding", "failed", "ending"}

(* Type invariant. *)
TypeOK ==
    /\ LogTypeOK
    /\ pc \in [Loggers -> {"off"} \cup Starting \cup Serving \cup Leaving]
    /\ path \in Loggers \cup {"none", "stale"}
    /\ load = NoLoad \/ load.doc \in Documents
    /\ alone \in [Loggers -> BOOLEAN]

Init ==
    /\ LogInit
    /\ pc = [d \in Loggers |-> "off"]
    /\ path = "none"
    /\ load = NoLoad
    /\ alone = [d \in Loggers |-> FALSE]

Goes(d, from, to) == pc[d] = from /\ pc' = [pc EXCEPT ![d] = to]

\* The daemon writes a line and goes to ok, or its log throws and it goes to bad.
Logs(d, from, ok, bad) ==
    \/ Goes(d, from, ok) /\ LogOk(d)
    \/ Goes(d, from, bad) /\ LogThrows(d)

NothingLoaded == load' = NoLoad

-----------------------------------------------------------------------------
(* Start *)

\* The Logger is constructed; when it throws, main returns at once.
Start(d) ==
    /\ Goes(d, "off", "logger")
    /\ Logger(d)
    /\ alone' = [e \in Loggers |->
         IF e = d THEN \A f \in Loggers \ {d} : pc[f] = "off" ELSE FALSE]
    /\ NothingLoaded /\ UNCHANGED path

\* Two forks, the standard descriptors, two lines.
daemonize(d) ==
    /\ \/ Logs(d, "logger", "daemon", "failed")
       \/ "fork" \in Faults /\ Goes(d, "logger", "failed") /\ UNCHANGED logVars
    /\ NothingLoaded /\ UNCHANGED <<path, alone>>

UnlinkPath_Never(d) ==
    /\ Goes(d, "daemon", "unlinked") /\ UNCHANGED path
    /\ NothingLoaded /\ UNCHANGED <<logVars, alone>>

\* bindSocket begins by unlinking whatever has the path.
UnlinkPath(d) ==
    /\ \/ Goes(d, "daemon", "unlinked") /\ path' = "none"
       \/ "socket" \in Faults /\ Goes(d, "daemon", "failed") /\ UNCHANGED path
    /\ NothingLoaded /\ UNCHANGED <<logVars, alone>>

bindSocket_Waits(d) ==
    /\ path = "none" /\ Goes(d, "unlinked", "bound") /\ path' = d
    /\ NothingLoaded /\ UNCHANGED <<logVars, alone>>

\* Another daemon may have bound the path in between.  An exception in the
\* constructor of SocketListener does not run its destructor.
bindSocket(d) ==
    /\ \/ path = "none" /\ Goes(d, "unlinked", "bound") /\ path' = d
       \/ path # "none" /\ Goes(d, "unlinked", "failed") /\ UNCHANGED path
    /\ NothingLoaded /\ UNCHANGED <<logVars, alone>>

listenSocket(d) ==
    /\ \/ Goes(d, "bound", "listening")
       \/ "listen" \in Faults /\ Goes(d, "bound", "failed")
    /\ NothingLoaded /\ UNCHANGED <<logVars, path, alone>>

\* What the parser makes of each document.
Outcome == [doc \in Documents |-> loadProgramsConf(doc)]

Accepted == {doc \in Documents : Outcome[doc] # Rejected}

\* The file is read, whatever it holds now: to good when it is accepted.
Loads(d, from, good, bad) ==
    \E doc \in Documents :
        /\ load' = [doc |-> doc, result |-> Outcome[doc]]
        /\ Goes(d, from, IF doc \in Accepted THEN good ELSE bad)

\* init: two lines and the first load; the config may be rejected.
LoadFirst(d) ==
    /\ Loads(d, "listening", "running", "unwinding")
    /\ LogOk(d)
    /\ UNCHANGED <<path, alone>>

InitThrows(d) ==
    /\ Goes(d, "listening", "unwinding") /\ LogThrows(d)
    /\ NothingLoaded /\ UNCHANGED <<path, alone>>

-----------------------------------------------------------------------------
(* A running daemon *)

\* Whatever it does, it logs; nothing in run catches what the log throws.
Serve(d) ==
    /\ Logs(d, "running", "running", "unwinding")
    /\ NothingLoaded /\ UNCHANGED <<path, alone>>

\* The order to reload is logged outside doReload, and the file is read.
ReadAgain(d) ==
    /\ Loads(d, "running", "applying", "catching")
    /\ LogOk(d)
    /\ UNCHANGED <<path, alone>>

doReload_Silent(d) ==
    /\ \/ Logs(d, "applying", "running", "running")
       \/ Logs(d, "catching", "running", "unwinding")
    /\ NothingLoaded /\ UNCHANGED <<path, alone>>

\* doReload catches what reloadManager throws, and logs that: if this throws
\* too, nobody catches it.
doReload(d) ==
    /\ \/ Logs(d, "applying", "running", "catching")
       \/ Logs(d, "catching", "running", "unwinding")
    /\ NothingLoaded /\ UNCHANGED <<path, alone>>

-----------------------------------------------------------------------------
(* End *)

Shutdown(d) ==
    /\ Goes(d, "running", "leaving")
    /\ NothingLoaded /\ UNCHANGED <<logVars, path, alone>>

\* ~SocketListener removes the path, whoever bound it.
Destroy(d) ==
    /\ Goes(d, "leaving", "ending") \/ Goes(d, "unwinding", "failed")
    /\ path' = "none"
    /\ NothingLoaded /\ UNCHANGED <<logVars, alone>>

\* The handler of main: what its log throws ends the process as well.
Catch(d) ==
    /\ \/ stream[d] # "closed" /\ Logs(d, "failed", "ending", "ending")
       \/ stream[d] = "closed" /\ Goes(d, "failed", "ending") /\ UNCHANGED logVars
    /\ NothingLoaded /\ UNCHANGED <<path, alone>>

\* A socket file nobody listens on stays where it is.
Orphaned(d) == path' = IF path = d THEN "stale" ELSE path

Exit(d) ==
    /\ Goes(d, "ending", "off")
    /\ LogClosed(d) /\ Orphaned(d)
    /\ NothingLoaded /\ UNCHANGED alone

Kill(d) ==
    /\ pc[d] # "off" /\ pc' = [pc EXCEPT ![d] = "off"]
    /\ LogClosed(d) /\ Orphaned(d)
    /\ NothingLoaded /\ UNCHANGED alone

RemoveLog ==
    /\ LogRemoved
    /\ NothingLoaded /\ UNCHANGED <<pc, path, alone>>

Main(d) ==
    \/ daemonize(d) \/ UnlinkPath(d) \/ bindSocket(d) \/ listenSocket(d)
    \/ LoadFirst(d) \/ InitThrows(d)
    \/ Serve(d) \/ ReadAgain(d) \/ doReload(d)
    \/ Destroy(d) \/ Catch(d) \/ Exit(d)

Next ==
    \/ \E d \in Loggers : Start(d) \/ Main(d) \/ Shutdown(d) \/ Kill(d)
    \/ RemoveLog

Spec == Init /\ [][Next]_vars
FairSpec == Spec /\ \A d \in Loggers : WF_vars(Main(d))

-----------------------------------------------------------------------------
(* Properties *)

(* Whatever earlier daemons left at the path - killed ones, ones that failed   *)
(* in their start, ones that ended - does not keep the next one from binding,  *)
(* and clients then find it, if no other daemon was there since it started     *)
(* (DEVLOG.MD: the next start has to clean the path).                          *)
Reachable ==
    \A d \in Loggers : alone[d] =>
        /\ pc[d] = "unlinked" => path = "none"
        /\ pc[d] \in Serving \cup {"listening"} => path = d

(* A config file is taken whole or not at all: a good one as the programs it   *)
(* describes, under distinct names, and any other one is rejected.             *)
TakenWhole == load # NoLoad => ReadRight(load.doc, load.result)

(* A daemon that serves has an open log, although doReload goes on after an    *)
(* exception of the logger that left it closed.                                *)
ServesWithLog ==
    \A d \in Loggers : pc[d] = "running" => stream[d] # "closed"

(* A start comes to an end: the daemon serves, or it is gone.                  *)
StartsEnd ==
    \A d \in Loggers : pc[d] \in Starting ~> pc[d] \in Serving \cup {"off"}
=============================================================================
