------------------------------- MODULE Output --------------------------------
(***************************************************************************)
(* The descriptors of the supervised programs, and the collection of their *)
(* output: ProccessManager::launch, handleDeath and readFromChild, with    *)
(* the ProcessIO of each Program, over EventLoop.                          *)
(*                                                                         *)
(* A launch opens two pipes, a pidfd and the log files; the kernel hands   *)
(* out the lowest free numbers.  Until a child has called exec it holds a  *)
(* copy of every descriptor the daemon had at the fork.  What a process,   *)
(* or a descendant that keeps its pipe, writes is a sequence of chunks.    *)
(* A log file is a path that is opened to append: the instances of one     *)
(* entry, and any two entries or streams, may name the same.               *)
(* When a program is launched, stopped or removed is up to Taskmaster.     *)
(* The definitions named X_Something are variants of X with a seeded bug.  *)
(***************************************************************************)
EXTENDS EventLoop, FiniteSets, Sequences

CONSTANTS
    Programs,       \* the supervised programs
    Paths,          \* the paths of log files
    NoPath,         \* no path: the empty string
    LogPath,        \* the path each program's config names for each stream
    Unwatchable,    \* the programs pidfd_open may fail for
    NoEvent,        \* no event
    MaxLaunches,    \* bound: launches of each program
    MaxWrites       \* bound: chunks written to each pipe of a program

Stream == {"out", "err"}
Kind == {"out", "err", "outlog", "errlog", "pid"}
LogOf(s) == IF s = "out" THEN "outlog" ELSE "errlog"

ASSUME PathsAssumption ==
    /\ NoPath \notin Paths
    /\ LogPath \in [Programs -> [Stream -> Paths \cup {NoPath}]]
    /\ Unwatchable \subseteq Programs
ASSUME TableAssumption == IsFiniteSet(Numbers)     \* RLIMIT_NOFILE
ASSUME BoundsAssumption ==
    /\ MaxLaunches \in [Programs -> Nat]
    /\ MaxWrites \in [Programs -> [Stream -> Nat]]

VARIABLES
    table,          \* the open file each number of the daemon stands for
    copies,         \* files held by a program's child that has not called exec
    loop,           \* m_event_loop
    batch,          \* the events of the last wait that are not handled yet
    stuck,          \* the event whose handler is in a blocking call
    io,             \* m_io of each program
    launches,       \* how many times each program was launched
    proc,           \* the process of the last launch
    pipes,          \* the two pipes of the last launch
    logged          \* the contents of the file at each path

vars == <<table, copies, loop, batch, stuck, io, launches, proc, pipes, logged>>
world == <<launches, proc, pipes, copies>>

File ==
    UNION {[owner : {p}, launch : 1 .. MaxLaunches[p], kind : Kind] : p \in Programs}
ASSUME FilesAssumption == NoFile \notin File
Chunk == [file : File, n : Nat \ {0}]
Event == [fd : Numbers, type : EventType, file : File]
Pipe == [written : Nat, read : Nat, open : BOOLEAN]

NoIO == [k \in Kind |-> NoFd]
Numbered(p) == {io[p][k] : k \in Kind} \ {NoFd}

(* Type invariant. *)
TypeOK ==
    /\ table \in [Numbers -> File \cup {NoFile}]
    /\ copies \in [Programs -> SUBSET File]
    /\ loop.interest \subseteq [file : File, fd : Numbers]
    /\ loop.types \in [Numbers -> EventType \cup {NoType}]
    /\ batch \subseteq Event
    /\ stuck \in batch \cup {NoEvent}
    /\ io \in [Programs -> [Kind -> Numbers \cup {NoFd}]]
    /\ \A p \in Programs : launches[p] \in 0 .. MaxLaunches[p]
    /\ proc \in [Programs -> {"none", "forked", "running", "dead"}]
    /\ pipes \in [Programs -> [Stream -> Pipe]]
    /\ logged \in [Paths -> Seq(Chunk)]
    /\ \A p \in Programs, s \in Stream :
        /\ pipes[p][s].read <= pipes[p][s].written
        /\ pipes[p][s].written <= MaxWrites[p][s]

Quiet == [s \in Stream |-> [written |-> 0, read |-> 0, open |-> FALSE]]
Fresh == [s \in Stream |-> [written |-> 0, read |-> 0, open |-> TRUE]]

Init ==
    /\ table = [d \in Numbers |-> NoFile]
    /\ copies = [p \in Programs |-> {}]
    /\ loop = NewLoop
    /\ batch = {} /\ stuck = NoEvent
    /\ io = [p \in Programs |-> NoIO]
    /\ launches = [p \in Programs |-> 0]
    /\ proc = [p \in Programs |-> "none"]
    /\ pipes = [p \in Programs |-> Quiet]
    /\ logged = [f \in Paths |-> <<>>]

FilesOf(tab) == {tab[d] : d \in Numbers} \ {NoFile}
HeldBy(tab, cps) == FilesOf(tab) \cup UNION {cps[p] : p \in Programs}
Without(tab, S) == [d \in Numbers |-> IF d \in S THEN NoFile ELSE tab[d]]

-----------------------------------------------------------------------------
(* Launch *)

Free(tab) == {d \in Numbers : tab[d] = NoFile}

\* The number the i-th open(2) in a row returns.
Lowest(tab, i) ==
    LET free == Free(tab)
    IN  IF i > Cardinality(free) THEN NoFd
        ELSE CHOOSE d \in free : Cardinality({e \in free : e < d}) = i - 1

\* Two pipes take four numbers, the write ends of which are closed again; what
\* is opened next gets the second, the fourth and the fifth.
Further(tab, i) == Lowest(tab, <<2, 4, 5>>[i])

\* The pidfd and the log files come next, each that is there.  A log file that
\* cannot be opened is -1, like one the config does not name.
LaunchIO(p, tab, watched) ==
    LET before(s) == (IF watched THEN 1 ELSE 0)
                     + (IF s = "err" /\ LogPath[p]["out"] # NoPath THEN 1 ELSE 0)
        log(s) == IF LogPath[p][s] = NoPath THEN NoFd ELSE Further(tab, before(s) + 1)
    IN  [out |-> Lowest(tab, 1),
         err |-> Lowest(tab, 3),
         pid |-> IF watched THEN Further(tab, 1) ELSE NoFd,
         outlog |-> log("out"),
         errlog |-> log("err")]

createPipes(tab) == Cardinality(Free(tab)) >= 4

NewFile(p, k) == [owner |-> p, launch |-> launches[p] + 1, kind |-> k]

Moved_KeepsOld(p, tab, new, old) ==
    [d \in Numbers |->
        IF \E k \in Kind : new[k] = d
        THEN NewFile(p, CHOOSE k \in Kind : new[k] = d)
        ELSE tab[d]]

\* The new descriptors are open, and those of the previous launch closed.
Moved(p, tab, new, old) ==
    [d \in Numbers |->
        IF \E k \in Kind : new[k] = d
        THEN NewFile(p, CHOOSE k \in Kind : new[k] = d)
        ELSE IF \E k \in Kind : old[k] = d THEN NoFile
        ELSE tab[d]]

Added_NoErr(l, tab, new) ==
    add(add(l, tab, new.out, "ProcessOutputReady"),
               tab, new.pid, "ProcessExited")

Added(l, tab, new) ==
    add(add(add(l, tab, new.out, "ProcessOutputReady"),
                   tab, new.err, "ProcessOutputReady"),
                   tab, new.pid, "ProcessExited")

\* launch(p): tab, l and ios are table, loop and io as the caller has left them.
\* The descriptors of the previous launch are closed, not removed from the loop.
\* When fork fails the pipes are closed again.
launch(p, tab, l, ios) ==
    \/ /\ createPipes(tab)
       /\ launches[p] < MaxLaunches[p]
       /\ launches' = [launches EXCEPT ![p] = @ + 1]
       /\ proc' = [proc EXCEPT ![p] = "forked"]
       /\ pipes' = [pipes EXCEPT ![p] = Fresh]
       /\ copies' = [copies EXCEPT
                      ![p] = FilesOf(tab) \cup {NewFile(p, s) : s \in Stream}]
       /\ \E new \in {LaunchIO(p, tab, w) : w \in {TRUE, p \notin Unwatchable}} :
            /\ io' = [ios EXCEPT ![p] = new]
            /\ table' = Moved(p, tab, new, ios[p])
            /\ loop' = Forgotten(Added(l, table', new), HeldBy(table', copies'))
    \/ /\ table' = tab /\ io' = ios
       /\ loop' = Forgotten(l, HeldBy(tab, copies))
       /\ proc' = [proc EXCEPT ![p] = "none"]
       /\ UNCHANGED <<launches, copies, pipes>>

\* startProccess, or the first launch of a program.
Start(p) ==
    /\ stuck = NoEvent
    /\ proc[p] = "none" /\ launches[p] < MaxLaunches[p]
    /\ launch(p, table, loop, io)
    /\ UNCHANGED <<batch, stuck, logged>>

\* removeMarkedPrograms, once the events of an iteration are handled.
Remove(p) ==
    /\ batch = {}
    /\ proc[p] = "none" /\ io[p] # NoIO
    /\ table' = Without(table, Numbered(p))
    /\ io' = [io EXCEPT ![p] = NoIO]
    /\ loop' = Forgotten(loop, HeldBy(table', copies))
    /\ UNCHANGED <<world, batch, stuck, logged>>

-----------------------------------------------------------------------------
(* The loop *)

HasData(p, s) == pipes[p][s].written > pipes[p][s].read

\* A pipe is ready when it has data or no writer; a pidfd when the process is
\* dead.  A pipe of an earlier launch may have been left in any state.
Ready(f) ==
    IF f.kind = "pid" THEN proc[f.owner] \in {"dead", "none"}
    ELSE HasData(f.owner, f.kind) \/ ~pipes[f.owner][f.kind].open

Stale == {r \in loop.interest : r.file.launch < launches[r.file.owner]}

Wait ==
    /\ batch = {}
    /\ \E old \in SUBSET Stale :
        LET ready == old \cup {r \in loop.interest \ Stale : Ready(r.file)}
        IN  /\ batch' = Events(loop, ready)
            /\ loop' = Looked(loop, ready)
    /\ UNCHANGED <<table, stuck, io, world, logged>>

Turn(e) == e \in batch /\ stuck \in {NoEvent, e}
Done(e) == batch' = batch \ {e} /\ stuck' = NoEvent

findByPidFd(d) == {p \in Programs : io[p].pid = d}
findByReadFd(d) == {p \in Programs : d \in {io[p].out, io[p].err}}

Reaped(p, tab, l, ios) ==
    /\ table' = tab /\ io' = ios
    /\ loop' = Forgotten(l, HeldBy(tab, copies))
    /\ proc' = [proc EXCEPT ![p] = "none"]
    /\ UNCHANGED <<launches, pipes, copies>>

\* The pidfd is removed from the loop and closed; then a relaunch or none.
handleDeath(p) ==
    /\ proc[p] = "dead"
    /\ \E tab \in {Without(table, {io[p].pid})},
          l \in {remove(loop, table, io[p].pid)},
          ios \in {[io EXCEPT ![p].pid = NoFd]} :
        launch(p, tab, l, ios) \/ Reaped(p, tab, l, ios)

HandleExited(e) ==
    /\ Turn(e) /\ e.type = "ProcessExited"
    /\ \E p \in findByPidFd(e.fd) : handleDeath(p)
    /\ Done(e)
    /\ UNCHANGED logged

Read(p, s, d) ==
    /\ pipes' = [pipes EXCEPT ![p][s].read = pipes[p][s].written]
    /\ logged' =
         IF io[p][LogOf(s)] = NoFd THEN logged
         ELSE [logged EXCEPT ![LogPath[p][s]] =
                 @ \o [i \in 1 .. pipes[p][s].written - pipes[p][s].read |->
                         [file |-> table[d], n |-> pipes[p][s].read + i]]]

Closed(p, s, d) ==
    /\ table' = Without(table, {d})
    /\ io' = [io EXCEPT ![p][s] = NoFd]
    /\ loop' = Forgotten(remove(loop, table, d), HeldBy(table', copies))

readFromChild_EofFirst(p, d) ==
    \E s \in Stream :
        /\ io[p][s] = d
        /\ IF pipes[p][s].open
           THEN Read(p, s, d) /\ UNCHANGED <<table, io, loop>>
           ELSE Closed(p, s, d) /\ UNCHANGED <<pipes, logged>>
        /\ UNCHANGED <<launches, proc, copies>>

readFromChild_WrongStream(p, d) ==
    \E s \in Stream :
        /\ io[p][s] # d
        /\ Read(p, s, d)
        /\ IF pipes[p][s].open THEN UNCHANGED <<table, io, loop>>
                              ELSE Closed(p, s, d)
        /\ UNCHANGED <<launches, proc, copies>>

\* Reads until there is nothing left; at the end of the file, closes.
readFromChild(p, d) ==
    \E s \in Stream :
        /\ io[p][s] = d
        /\ Read(p, s, d)
        /\ IF pipes[p][s].open THEN UNCHANGED <<table, io, loop>>
                              ELSE Closed(p, s, d)
        /\ UNCHANGED <<launches, proc, copies>>

HandleOutput(e) ==
    /\ Turn(e) /\ e.type = "ProcessOutputReady"
    /\ \E p \in findByReadFd(e.fd) : readFromChild(p, e.fd)
    /\ Done(e)

\* Nobody has this descriptor now.
Ignore(e) ==
    /\ Turn(e)
    /\ \/ e.type = "ProcessExited" /\ findByPidFd(e.fd) = {}
       \/ e.type = "ProcessOutputReady" /\ findByReadFd(e.fd) = {}
    /\ Done(e)
    /\ UNCHANGED <<table, loop, io, world, logged>>

\* waitid on a process that runs, read on a signalfd with no signal.
Block(e) ==
    /\ Turn(e) /\ stuck = NoEvent
    /\ \/ e.type = "ProcessExited" /\ \E p \in findByPidFd(e.fd) : proc[p] # "dead"
       \/ e.type = "SignalReceived"
    /\ stuck' = e
    /\ UNCHANGED <<table, loop, batch, io, world, logged>>

-----------------------------------------------------------------------------
(* The processes, and the operator *)

SignalArrives ==
    /\ stuck # NoEvent /\ stuck.type = "SignalReceived"
    /\ Done(stuck)
    /\ UNCHANGED <<table, loop, io, world, logged>>

Exec(p) ==
    /\ proc[p] = "forked"
    /\ proc' = [proc EXCEPT ![p] = "running"]
    /\ copies' = [copies EXCEPT ![p] = {}]
    /\ loop' = Forgotten(loop, HeldBy(table, copies'))
    /\ UNCHANGED <<table, batch, stuck, io, launches, pipes, logged>>

Die(p) ==
    /\ proc[p] \in {"forked", "running"}
    /\ proc' = [proc EXCEPT ![p] = "dead"]
    /\ copies' = [copies EXCEPT ![p] = {}]
    /\ loop' = Forgotten(loop, HeldBy(table, copies'))
    /\ UNCHANGED <<table, batch, stuck, io, launches, pipes, logged>>

\* The program or a descendant of it writes to a pipe the daemon reads.
Write(p, s) ==
    /\ proc[p] # "forked" /\ io[p][s] # NoFd
    /\ pipes[p][s].open /\ pipes[p][s].written < MaxWrites[p][s]
    /\ pipes' = [pipes EXCEPT ![p][s].written = @ + 1]
    /\ UNCHANGED <<table, copies, loop, batch, stuck, io, launches, proc, logged>>

\* The two pipes lose their last writer together; the daemon finds out about one
\* at a time.
LastWriterGone(p) ==
    /\ proc[p] # "forked" /\ pipes[p]["out"].open /\ io[p]["out"] # NoFd
    /\ pipes' = [pipes EXCEPT ![p]["out"].open = FALSE, ![p]["err"].open = FALSE]
    /\ UNCHANGED <<table, copies, loop, batch, stuck, io, launches, proc, logged>>

Collect ==
    \/ Wait
    \/ \E e \in batch : HandleExited(e) \/ HandleOutput(e) \/ Ignore(e) \/ Block(e)

Next ==
    \/ Collect
    \/ SignalArrives
    \/ \E p \in Programs : Start(p) \/ Remove(p) \/ Exec(p) \/ Die(p) \/ LastWriterGone(p)
    \/ \E p \in Programs, s \in Stream : Write(p, s)

Spec == Init /\ [][Next]_vars

\* The daemon thread is scheduled.  Nothing else is promised.
FairSpec == Spec /\ WF_vars(Collect)

-----------------------------------------------------------------------------
(* Properties *)

Before(c, d) ==
    c.file.launch < d.file.launch \/ (c.file = d.file /\ c.n < d.n)

SameStream(c, d) == c.file.owner = d.file.owner /\ c.file.kind = d.file.kind

(* What a stream of a program wrote goes to the file its config names and to   *)
(* no other, in the order it was written and once, whatever descriptor numbers *)
(* were reused between an event and its handling (readFromChild,               *)
(* findByReadFd).  Streams that name the same file are in it interleaved, and  *)
(* nothing keeps them apart: that a child's output is "nunca mezclada", never  *)
(* mixed (DEVLOG.MD), is so for a file that one program names, no more.        *)
EachToItsFile ==
    \A f \in Paths :
        /\ \A i \in DOMAIN logged[f] :
            LogPath[logged[f][i].file.owner][logged[f][i].file.kind] = f
        /\ \A i, j \in DOMAIN logged[f] :
            i < j /\ SameStream(logged[f][i], logged[f][j])
                => Before(logged[f][i], logged[f][j])

\* The chunks of the last launch of a stream that are in the file of its path.
Kept(p, s) ==
    LET log == logged[LogPath[p][s]]
    IN  {log[i].n : i \in {j \in DOMAIN log :
            log[j].file = [owner |-> p, launch |-> launches[p], kind |-> s]}}

(* Of the last launch nothing is lost as long as the program has its log file  *)
(* open: what was read is in the file, whoever else appends to it, and the     *)
(* pipe is only closed when all that was written has been read, also after the *)
(* process is dead.                                                            *)
NothingLost ==
    \A p \in Programs, s \in Stream :
        io[p][LogOf(s)] # NoFd =>
            /\ Kept(p, s) = 1 .. pipes[p][s].read
            /\ io[p][s] = NoFd => ~HasData(p, s)

(* Every open number belongs to one program's ProcessIO, in one place, and is  *)
(* what that place says: nothing is leaked, shared or closed twice.            *)
Owned ==
    /\ \A d \in Numbers :
        table[d] # NoFile =>
            /\ io[table[d].owner][table[d].kind] = d
            /\ table[d].launch = launches[table[d].owner]
    /\ \A p \in Programs, k \in Kind :
        io[p][k] # NoFd => table[io[p][k]] # NoFile /\ table[io[p][k]].owner = p
                           /\ table[io[p][k]].kind = k

TypeFor(k) == IF k = "pid" THEN "ProcessExited" ELSE "ProcessOutputReady"

(* The loop watches every pipe and pidfd the programs have, under the type     *)
(* that belongs to it, however often its number was used before.               *)
AllWatched ==
    \A p \in Programs, k \in Stream \cup {"pid"} :
        io[p][k] # NoFd =>
            /\ Registration(table, io[p][k]) \in loop.interest
            /\ loop.types[io[p][k]] = TypeFor(k)

Pending(p, s) == io[p][s] # NoFd /\ (HasData(p, s) \/ ~pipes[p][s].open)

(* What a pipe has, its end included, is taken from it, unless a relaunch or a *)
(* removal takes the pipe, or the daemon hangs in a blocking call: whatever is *)
(* pending at some time is not for ever (Pending ~> ~Pending \/ hung).         *)
OutputArrives ==
    \A p \in Programs, s \in Stream :
        []<>(~Pending(p, s) \/ stuck # NoEvent)

(* DEVLOG.MD on the tags of EventLoop: "cuando algo dispara ya se que es sin   *)
(* tener que adivinarlo", the type of an event says what really fired.         *)
TypeTellsWhatFired == \A e \in batch : e.type = TypeFor(e.file.kind)
=============================================================================
