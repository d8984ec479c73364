# A verification of Taskmaster

Taskmaster is a process supervisor in C++: a daemon, `taskmasterd`, launches the
programs of a YAML file, restarts them by policy, stops them and reloads the
file; a shell, `taskmasterctl`, sends it commands over a UNIX socket. This
directory holds TLA+ modules that model it, TLC configurations that check them,
and proofs that TLAPS checks. Paths below are relative to the repository
(`src/server/ProccessManager.cpp`, ...); `PROJECT.json` gives, for every
definition, the lines it models.

## 1. The system

| Component | State | Operations | Interacts with |
|---|---|---|---|
| `Program` (`Program.cpp`, `ProgramConfig.hpp`) | state, pid, descriptors, failed starts, two time points, three pending flags, current and pending configuration | `started`, `stopping`, `exited`, ..., the two timing windows | owned by `ProccessManager` |
| `ProccessManager`, supervision | `m_programs` | `startManager`, `launch`, `handleEvent`/`handleDeath`, `checkTimers`, start, stop, restart, `reloadManager`, `stopAllPrograms` | the kernel (fork, kill, waitid, pidfd), `EventLoop`, `Logger` |
| `ProccessManager`, output | pipes and log files of each program | `readFromChild` | `EventLoop` |
| `Taskmaster` | `m_shutting_down`, `signals_sent`, `m_shutdown_start`, the connections | `run`: leave or wait, handle the batch, timers, begin the shutdown; `handleSignal`, `handleClientMessage`, `doReload` | everything below |
| `EventLoop`, `SignalFd`, `SocketListener` | epoll set and type per descriptor; signalfd; the socket and its path | `add`, `remove`, `wait`; `readSignal`; bind, accept | `Taskmaster` |
| `ClientConnection`, `CommandParser` | input buffer, closed flag | `readLines`, `send`; `parseLine` | `Taskmaster`, the socket |
| `Client`, `ServerConnection`, `Shell` | input buffer, closed and running flags | `run`, `sendCommand`, `readResponse` | the operator, the socket |
| `Parser` | the path of the file | `loadProgramsConf`: programs, or an exception | `Taskmaster` |
| `main`, `Daemonize` | none | two forks, then the `Taskmaster`; the handler of what it throws | `Logger`, `Taskmaster` |
| `Logger` | the log file, open or not | `log`, with rotation and cleaning; most calls may throw | all; other daemons at the same file |
| `Fd` | a descriptor | moved, closed on destruction | all |

The daemon is one thread around `epoll_wait`. What is hard is not a data race
but the distance between a decision and its effect. A stop is a state and a
signal; the process dies later, or is killed by a timer later still, and its
death is handled later than it happens. Between any two of these steps come
commands, reloads, signals, other deaths. Pids and descriptor numbers are used
again by the kernel while stale copies are around. The file can change while
what the last change began has not ended. A child that was just forked holds every
descriptor of the daemon. Almost every handler logs, and a log call can throw in
the middle of it. On the client's side, the stream has
no boundaries and either end can vanish.

What makes each component correct:

- `Program` and `ProccessManager`: every child of the daemon belongs to one
  live program, and the other way round; what is signalled or waited for is the
  program's own process; a program comes back exactly when its policy, a retry
  or an order says so; after a reload the programs are those of the file.
- `Taskmaster`: an exit, however late it is handled, is found to be of a dead process, so
  that the daemon's thread does not block in `waitid`; a shutdown ends, and ends with
  nothing running unless the limit passed.
- The control connection: a command gets its own answer; the end of either
  process is noticed and survived by the other.
- Output collection: what a stream writes goes to the file its config names, in order, once
  and to the end, whoever else writes there; no descriptor is leaked or closed twice; `EventLoop` watches every pipe
  and pidfd under its own type.
- The life of a daemon: whatever an earlier one left behind, the next one binds
  the path of the socket; a config file is taken whole or not at all; a daemon
  does not go on without its log.

`PROJECT.json` lists under `hazards` each place where one of these could go wrong,
with the properties that watch it.

## 2. The modules

    Program              the record and transitions of one program (no variables)
      ProccessManager    m_programs, the kernel's children and pidfds; one
                         action per method
        Taskmaster       the loop, the batch, the operator, the clock; Spec
          Supervision    the refinement mapping to Supervisor, per program
            MCTaskmaster values for TLC
        ManagerProofs    lemmas: what each method keeps and does to one program
          TaskmasterProofs  (with Taskmaster) the theorems for any operator
            PatientProofs   the theorems for a patient operator
              SupervisionProofs  (with Supervision) the refinement
    Supervisor           abstract: what the daemon promises about one program
      SupervisorProofs   what follows from the promise
    EventLoop            epoll registrations and m_types (no variables)
      Output             pipes, pidfds and log files of the programs; Spec
        MCOutput         values for TLC
        OutputProofs     the theorems about descriptors and log files
    Parser               from the entries of the file to programs (no variables)
    Logger               app.log and the streams that lead to it
      Daemons            (with Parser) main and the start and end of daemons; Spec
        MCDaemons        values for TLC
        DaemonsProofs    the theorems about daemons and about the parser
    ClientProtocol       client and daemon at the two ends of a stream; Spec
      MCClientProtocol   values for TLC
      ClientProofs       the theorems about the connection

**Program.** A program is a record, a transition an operator on records, so
that `ProccessManager` composes them in the order the code calls them. The two
time points are kept as ages in whole seconds, saturated at `MaxAge`: the code
only ever asks `elapsed >= limit`, so nothing is lost if every limit is at most
`MaxAge`, which is an assumption of the module. `m_restarts` is saturated at
`MaxRestarts` in the same way. Of the configuration, the fields the daemon
decides by are kept; umask, directory, environment, signal names and files are
not. A `cmd` of blanks is kept as `BlankCmd`, because the parser accepts it and
`launch` does not.

**ProccessManager.** `programs` is `m_programs`, a function on names. `procs` is
the kernel's table of the daemon's children: the program each one runs, whether
it is alive or a zombie, the hardest signal it was sent and how it ended. `fds`
says which process an open pidfd refers to. Both kinds of numbers are taken back
and handed out again. `Launch` is `launch` and `setupParentSide` for a set of
programs at once, with all results that fork and pidfd_open can give: pipes or
fork fail, the process table is full, pidfd_open fails. That the set is launched
in one step loses nothing: the programs launched by one method are different
ones, each launch reads and writes only its own program, and no other code of
the daemon runs in between. A child may die the instant it exists, as the step
after the launch. `Reap` is what every death shares (waitid, the pidfd removed and
closed), and `handleStoppedDeath`, `handleStartFailure` and `handleStableDeath`
are the three ways `handleDeath` continues. `checkTimers` is its three parts
in their order. In `Reloaded(f, S, U)` the sets `Removed`, `Changed` and `Added` are the
branches of the loop of `reloadManager`, as far as the programs of `S`. `reloadManager(f)`
goes through all of them; `reloadCutShort` is the same method left by an exception
of the logger. Every program is logged before it is touched, so `S` is what the loops
had done; a new program is logged when it is already in place, and one whose launch
fails before it is made fatal, so one program of `S` (the `U`) may lack its launch.

**Taskmaster.** `pc` follows `main` and `run`: `init`, the `top` of the loop, `dispatch`
of a batch, `stopall`, `exited`. `Wait` takes a batch: an exit event for each open
pidfd of a dead process, up to `MaxLines` commands, maybe a signal, and `strays`, which are
events that come as `ProcessExited` and are of no exit. `EventLoop::wait` looks the type up by
number, so the event of a pipe that was closed at a relaunch, while a forked child still holds it,
comes under the type of whatever has the number now (`StaleRegistration` shows how, in Output); here
any `MaxStrays` numbers may be such ones. The events are
then handled in any order, one per step, since epoll promises none. `HandleStray` calls
`handleEvent` as `HandleExit` does. It is enabled when the pidfd of that number is of a dead
process or of nobody: `waitid` for a live one does not return until the process ends, and nothing
else of the daemon runs meanwhile, which to the programs is the same as this event being handled
later. To the operator it is not, and that is a flaw of the code (section 4); the model counts it
where the descriptors are, in `Block` of Output. Of several events of one number the
exit is taken first, which loses nothing, as they are the same to the code. `RunTimers` and
`BeginShutdown` end an iteration. Between any two steps children die
(`ProcessDies`) and seconds pass, for each program on its own (`ProgramSecond`),
because the time points were taken at different instants, and for the shutdown
(`ShutdownSecond`). A file that does not parse is the second disjunct of `doReload`,
or `RefuseFirst` at the start. A reload that the logger cuts short is its first disjunct with `reloadCutShort`: the exception is
caught in `doReload`, and the daemon goes on between two files. `loaded` and `heldDown` are history variables: no action
reads them, properties do; `loaded` says, program by program, what the files loaded so far ask for.

`PatientOperator` separates two questions. When it is TRUE, the operator does not
start, restart or reload while the programs concerned are still stopping: the intended use, and
the strong properties are stated for it. When it is FALSE there is no such
restriction; section 4 says what still holds and what does not. The guard is in
`MayStart` and `doReload` and nowhere else, and it restricts the operator only,
never the daemon: policies, retries, pending restarts and timers are not limited.

**ClientProtocol.** The control connection, with a stream in each direction as a
sequence of tokens. A write puts any part of what is left on the stream, a read
takes any part of what is there, so that boundaries fall everywhere. An
answer is its text and `"\n\n"`; `status` and `help` bring a newline of their own,
and `status` is empty when there is no program. The kinds of line are those the
protocol tells apart: an order, a status, a line of blanks (which gets no
answer), shutdown, and shutdown with blanks or arguments around it, which ends the daemon
but not the client: `Client::run` compares the whole line, `CommandParser` the word. Either process may go at any moment; a write to a closed
peer raises SIGPIPE, which neither process handles, and a client that goes
without reading its answer makes the daemon's next read fail once before it reads the
end. The text of an answer is what
is left without the newlines; it is defined by the positions of the other tokens, because `SelectSeq` is recursive and
could not be reasoned about. What the commands do is left to Taskmaster; the two modules
meet in `handleClientMessage`, whose loop over the lines each of them models.

**Supervisor, Supervision.** `Supervisor` is the promise about one program, in
three variables: what the program is to the daemon, what the kernel knows of its process,
what comes when it is down. It has no commands, policies, timers, pidfds or files.
Two things make it a promise: a process is launched only when there is none, and the end
of a process that was told to stop is followed by what the order asked for. In
`Supervision` each name gets an instance of it. The state of the process is
computed from the kernel's table alone, never from the daemon's record, and two
children of one program map to a value that `Supervisor` does not have. `Supervised` is the
conjunction of the instances' specifications with one box, because one step of
the daemon (a reload, a shutdown) is a step of several programs.

**EventLoop, Output.** epoll knows a registration by the open file and the number it
had, and forgets it when nobody holds the file any more; `m_types` knows numbers only. So
`Output` separates them: `table` gives the file each number stands for, `copies` the files a child
holds between fork and exec, `loop` is the pair of registrations and types. The kernel
hands out the lowest free number, as open(2) must, so `LaunchIO` says exactly which
numbers two pipes, a pidfd and two log files get, and which log file is not opened
when they run out. When `pidfd_open` fails (for the programs of `Unwatchable`) the log files get the numbers before.
A log file is a path that is opened to append: `LogPath` gives each program and stream the path of its
config, or none, and several may give the same, as the instances of `numprocs` do. `logged` is
the content of the file at each path, each chunk with the stream that wrote it. `launch` is called as in the code: by an order, or from `handleDeath` after the pidfd
was removed and closed. `Moved` is the move of `ProcessIO` in `Program::started`, which
closes the old pipes and log files without `EventLoop::remove`. `readFromChild` reads until nothing is
left and closes at the end of the file. A pipe of an earlier launch that is
still registered may be ready or not. `Block` is a handler in a call that
does not return: `waitid` for a live process, or the read of a signalfd that has nothing, when
the type of an event was not that of what fired. When a program is launched or
removed is Taskmaster's matter and any time in Output.

**Parser.** `Entries` is what an entry of the file can be, field by field absent, broken or a value. `loadProgramsConf` folds the entries of a document, as the loop does, into a
sequence of programs or `Rejected`. Below it stands what README.md says of the file, without
order or loop: a good document, the instances it asks for, and `Describes`. A name is the pair of the key
and the index: the code always appends `_` and the index, and since the index has no `_` the text
determines the pair.

**Logger, Daemons.** `Logger` is one app.log that every daemon of a directory appends to.
A daemon's stream leads to the file of that name, to one that had it before (after the
rename of another daemon, or a removal), or nowhere. `LogThrows` has the calls that throw
and what each leaves: a closed stream after a failed rename, a missing app.log after a
failed open, a good state after a failed cleaning. In `Daemons` any number of
processes go through `main`: the log, the forks, the unlink and the bind, which are
two steps, `init`, `run`, and the ways out, by an order, an exception or SIGKILL. An exception
in the constructor of `SocketListener` skips its destructor, one in `init` or `run`
does not. `doReload` reads the file whenever asked to, whatever the operator has written by then,
and catches what is thrown; what its own handler throws, nobody catches.

Definitions with an underscore in the name, `handleStoppedDeath_ByPolicy` for one, are
the same definition with a seeded bug. Nothing uses them; `PROJECT.json`, under
`mutants`, names the property that fails when one takes the place of the original.

## 3. The properties

In `Taskmaster`:

| Property | Says |
|---|---|
| `TypeOK` | the shape of the state |
| `EveryChildTracked` | every child not yet reaped is the process of a live program: none is lost, no program has two |
| `OwnsChild` | the pid a live program would be signalled by is its own child, not a reused number |
| `WatchesOwnChild` | the pidfd of a program is that of its latest process, not yet reaped |
| `StoppingIffAsked` | the state says `Stopping` exactly when the process was told to stop |
| `LateExitsFindTheDead` | an exit handled late in its batch still finds the dead process it is about |
| `KeepsItsConfig` | while its process is alive a program is neither reconfigured nor taken out |
| `FollowsLoadedFile` | programs and configurations are those of the last file, but for the processes being stopped to get there; after a reload that was cut short each program is as one of the two files has it |
| `StopSticks` | a stopped program stays down, whatever its policy, until an order or a changed file |
| `CleanExit` | a daemon that leaves before its limit leaves nothing alive |
| `NeverMeansNever` | no step relaunches a program of policy `never` that was up, except an order |
| `StopsComplete`, `ShutdownCompletes`, `DeadAreReaped` | liveness: stops and shutdowns end, zombies are waited for; for processes the daemon has a pidfd of |
| `Supervised` (in `Supervision`) | each program behaves as `Supervisor` says |

In `ClientProtocol`: `TypeOK`; `ShowsOwnAnswer`, the answer shown belongs to the command just
sent; `PromptIsClean`, at the prompt at most one newline is left over, which is why
the next answer cannot be cut short; `AnswersArrive`; `LeftIsRemoved`.

In `Output`:

| Property | Says |
|---|---|
| `EachToItsFile` | what a stream wrote is in the file its config names and in no other, in order and once |
| `NothingLost` | of the last launch, all that was read is in the file of its path, whoever else appends to it, and a pipe is closed only when it is empty |
| `Owned` | every open number is in one place of one program and is what that place says: no leak, no double close |
| `AllWatched` | every pipe and pidfd is registered, under its own type, however often its number was used |
| `OutputArrives` | what a pipe has, its end included, is taken from it, unless a relaunch takes the pipe or the daemon hangs |

In `Daemons`:

| Property | Says |
|---|---|
| `Reachable` | whatever others left at the path, a daemon that has been alone since it started binds it and keeps it |
| `TakenWhole` | every good document gives the programs README.md describes, under distinct names, any other is rejected |
| `ServesWithLog` | a daemon back in its loop has its log open, although `doReload` swallows exceptions of the logger |
| `StartsEnd` | a start ends: the daemon serves or is gone |

## 4. The runs

| Run | Checks | Instance | States |
|---|---|---|---|
| `OneProgram` | `TypeOK`, `EveryChildTracked`, `FollowsLoadedFile`, `StopSticks`, `CleanExit`, `NeverMeansNever`, `Supervised`, `StopsComplete`, `ShutdownCompletes`, `DeadAreReaped` | one program with two configurations that differ in policy, autostart and both windows; two pids and pidfds; all commands, both signals, faults of launch and pidfd; `FairSpec` | 66,000 |
| `TwoPrograms` | `EveryChildTracked`, `FollowsLoadedFile`, `LateExitsFindTheDead` | two programs, three pids, three pidfds; files that change or drop one; launches that fail, stray events, reloads cut short | 533,000 |
| `AnyOperator` | `OwnsChild`, `WatchesOwnChild`, `StoppingIffAsked`, `KeepsItsConfig` | one program, three pids, an operator under no restriction; faults of launch and pidfd, stray events | 848,000 |
| `Clients` | `TypeOK`, `ShowsOwnAnswer`, `PromptIsClean`, `AnswersArrive`, `LeftIsRemoved` | two clients; two lines of any kind, and one that is a status or a shutdown; `FairSpec` | 443,000 |
| `Output` | `TypeOK`, `EachToItsFile`, `NothingLost`, `Owned`, `AllWatched`, `OutputArrives` | two programs, one launched twice, that append to one path; eight descriptor numbers; `pidfd_open` may fail for one of them; `FairSpec` | 673,000 |
| `Daemons` | `TypeOK`, `Reachable`, `TakenWhole`, `ServesWithLog`, `StartsEnd` | two daemons, a log of two lines, 24 documents, every fault; `FairSpec` | 18,000 |

Six runs end in a violation: the documentation, or a comment, promises
something the code does not do.

| Run | Promise | What happens |
|---|---|---|
| `RestartTwice` | DEVLOG: a restart comes up only when the old process is dead, "nunca se solapan" | restart, and restart again while the program is stopping: `restartProccess` tests for Running and Starting only, and launches a second process. The first is forgotten: no signal, no wait |
| `RestartThenShutdown` | README: `shutdown` stops "the daemon and all its programs" | the programs are signalled once, and what is launched afterwards never: here by a restart during the shutdown, and equally when a restart is pending as the shutdown begins |
| `ReloadWhileStopping` | DEVLOG on reload: modified programs "ya se reinician con la config nueva" | a program whose configuration is changed, and changed back while it is still stopping, counts as unchanged; its death applies what the first reload left pending, and it keeps the configuration of a file that is not the last |
| `Retries` | README: `startretries` is "how many times to retry a failed start" | the count goes up before it is compared, so there is one retry less (other lines of DEVLOG show that many as expected) |
| `ClientGone` | comment in `ClientConnection::send`: "the client is gone" only closes the connection | the write raises SIGPIPE first and the daemon ends |
| `StaleRegistration` | DEVLOG on the types of `EventLoop`: "cuando algo dispara ya se que es sin tener que adivinarlo" | a relaunch closes pipes it has not removed from the loop while another child holds copies of them before its exec; their events come under the type of whatever has the number now, a pidfd for one, or as a signal when nothing has, and the handler may then block the daemon: in `waitid` on a process that is alive, or in `readSignal` |

The consequences of `RestartTwice` are the reason for `PatientOperator`. Without it
`EveryChildTracked`, `CleanExit`, `LateExitsFindTheDead`, `FollowsLoadedFile` and `StopSticks`
do not hold: the lost process is outside every table, its old pidfd number may
come back as that of the new process, so that an old exit event leads to a
blocking `waitid`, and a start over a stopping program leaves a pending restart
behind that a later stop will carry out. The properties of `AnyOperator` are those that survive.
That `waitid` does not block is said of exits only. A stray event can take a patient operator's
daemon there too, as `StaleRegistration` shows, and no property denies it.

One more promise is not kept, and the passing run `Output` shows it. README.md:115: "Each supervised
program writes to its own files"; DEVLOG.MD:408-409: "la salida de cada hijo va a su propio fichero, nunca
mezclada". The instances of `numprocs` are copies of their entry, paths included (`Parser.cpp:87`), and
`openLogFile` appends; `conf.yml:15-19` is such an entry. In the run the two programs share a file and
their chunks alternate in it; `EachToItsFile` says what is true of such a file.

**Bounds, and why they are enough.** Ages only matter relative to the limits, so
`MaxAge = 1` with limits 0 and 1 has each window closed, passed and passed from the
start. Two allowed failures (`OneProgram`, `Retries`) give a first failure that is retried and a last one that
is not; with one, as in `TwoPrograms` and `AnyOperator`, every failed start is the last. Each restart policy occurs: `unexpected` and `never` in `OneProgram`, with an
exit code that is expected and one that is not, `always` in the others. Two pids per program give a process that dies while its successor exists,
and numbers that are used again at once; the third one in `AnyOperator` leaves
room for a forgotten process. Three pidfd numbers for two programs leave
a relaunch one to open before the old one is closed, and let it be a number that the
other program gave back. One command per batch and any number
of batches gives each order of commands; that it meets exits and a signal in the
same batch is what the order in the batch is about. Two names show what programs can do to
each other, which is only through numbers, a batch and a reload. `ShutdownLimit` stands for 30 seconds against a
stoptime of 0 or 1: only the order of the two limits matters, and both orders
occur, since a stop may begin after the shutdown did. In `TwoPrograms` a reload that is cut short stops after none, one or both programs, with the
file's other program new, changed or gone, and a later one meets the mixture. One number of stray events per batch
meets each exit, order and reload of it, and any number of batches follows; `OneProgram` has none,
because with one program a closed pipe cannot come back as a pidfd while a child still holds it:
the new pidfd is opened before the old pipes are closed, and the copies are gone before the next launch. `AnyOperator` leaves
on the shutdown limit at once, since its properties do not speak of the end of the daemon. Pids and pidfds
are interchangeable, and the two runs that use symmetry check invariants and an action
property, no liveness.
In `Clients` two lines of one client cover an answer that leaves a newline behind and the next that
meets it; the second client covers what a connection can do to the batch of another.
The second client types what an order does not show: an answer that may be cut, and the end of the daemon.
In `Output` nine numbers are in use when both programs are up with all they ask for, one with two log files
and the other with one, at a path they share; there are eight, so that a relaunch finds room for its pipes or
not, and whoever comes second for its last log file or not. One chunk in one stream of each program is enough
for it to be lost, doubled, or written to the wrong file. One program is launched twice, so that stale registrations of its pipes
exist, and the other once, so that its fork can hold copies of them or take their numbers. In
`Daemons` two processes give each order of unlink, bind and exit; a log of two lines
rotates at every third; the documents hold each field right, wrong and absent, and the ways in which entries meet: other keys,
the same key again next to it or further away, a bad one first or last.

**Fairness.** `FairSpec` assumes that the daemon's thread is scheduled
(`WF(Daemon)`: without stray events, which `OneProgram` does not have, it waits in `epoll_wait` only,
which has a timeout of one second),
that time passes, and that a process that was sent SIGKILL ends. It does not
assume that a process obeys its stop signal, that any process ends by itself, or
that the operator does anything. In `ClientProtocol` it assumes that the daemon
and each client that has something to do are scheduled; nobody has to type. In `Output` it is `WF(Collect)`, the daemon's
thread again: no process has to write, exec or die, and a thread in a blocking call
is not assumed to come back. In `Daemons` it is `WF(Main(d))`: a daemon goes on
through `main`; nobody has to start, kill or end one.

## 5. The proofs

Every safety invariant and every action property of the passing runs is a theorem for all values of
the constants: any set of programs, configurations, files, pids, descriptors, clients, daemons,
documents and faults. So is the refinement of `Supervisor`.

| Theorem | States | For |
|---|---|---|
| `TypeCorrect` | `[]TypeOK` of Taskmaster | any operator |
| `SignalsOnlyOwnChildren` | `[]OwnsChild` | any operator |
| `WatchesOnlyOwnChildren` | `[]WatchesOwnChild` | any operator |
| `ShownAsTold` | `[]StoppingIffAsked` | any operator |
| `UnderItsConfig` | `KeepsItsConfig`, an action property | any operator |
| `NoChildLost` | `[]EveryChildTracked` | a patient operator |
| `LateExits` | `[]LateExitsFindTheDead` | a patient operator |
| `LeavesNothing` | `[]CleanExit` | a patient operator |
| `LoadedFileFollowed` | `[]FollowsLoadedFile` | a patient operator |
| `StoppedStaysDown` | `[]StopSticks` | a patient operator |
| `NeverRestartedByItself` | `NeverMeansNever`, an action property | a patient operator |
| `PromiseKept` | `Supervised`: Taskmaster implements `Supervisor` for each program | a patient operator |
| `ShownAsTheyAre` | `[]Accounted`, said of each program of the daemon | a patient operator |
| `ProcessesAccountedFor` | `[]Accounted` | `Supervisor` alone |
| `DescriptorsOwned`, `EverythingWatched` | `[]Owned`, `[]AllWatched` | Output |
| `EachInItsFile`, `OutputKept`, `OutputType` | `[]EachToItsFile`, `[]NothingLost`, `[]TypeOK` | Output |
| `SocketFound`, `LogOpenWhenServing`, `DaemonsType` | `[]Reachable`, `[]ServesWithLog`, `[]TypeOK` | Daemons |
| `FileTakenWhole` | `[]TakenWhole`, about the parser | Daemons |
| `NothingLeftOver`, `AnswersMatch`, `ConnectionType` | `[]PromptIsClean`, `[]ShowsOwnAnswer`, `[]TypeOK` | ClientProtocol |

*Assumptions.* They are the named ones of the modules, and TLC evaluates each: the ranges of the
fields of a configuration, the bounds at least as large as the limits, sentinels outside the sets
they extend (`RejectedAssumption`, `TypesAssumption`, `FilesAssumption` and `PathsAssumption` of Output,
`TokensAssumption`), the kinds a client types (`KindsAssumption`), `Faults`, `Commands` and `Signals` out of what exists, documents made of
entries, and a finite set of descriptor numbers (`TableAssumption`, for RLIMIT_NOFILE).
`PatientOperator` is a hypothesis of the theorems that need it and not an assumption, so that the
same module serves both.

*Where the invariants come from.* Hardly any of the properties is inductive as it stands. Each of the
invariants named below (`IInv`, `HonestInv`, `PatientInv`, `OrderInv`, `KeptInv`, `FdInv`, `LogInv`,
`DaemonInv`, `LoadInv`, `ClientInv`) was checked by TLC on every state of the instances of section 4
as well as proved.

**Any operator** (`ManagerProofs`, `TaskmasterProofs`). `OwnsChild` says of a live program that its
process exists, and a death handled through the program's pidfd frees the process the pidfd refers
to, which had better be that one. So `MgrInv` joins to the types the relation `Consistent` between
the programs, the children and the pidfds: the pid of a live program is held by a child that runs
this program, and an open pidfd refers to the program's own pid, which is held in the same way. A
child runs one program, so two programs never hold the same pid, and a step for one of them cannot
take away what the other one has. The lemma `LaunchConsistent` shows that a launch, with any result,
keeps it, and every method is then proved to keep `MgrInv` by showing what it hands to `Launch`;
`SameProcessConsistent` does the same for methods that change neither pid nor descriptors.
`TaskmasterProofs` adds the types of the loop (`IInv`) and goes through the actions of `Next` once
(`NextInv`).

`StoppingIffAsked` is of another kind: it ties the daemon's record to what the process was sent.
`HonestInv` is `IInv` with `Honest(n)` for each name: the process of a live program, while it is
alive, was told to stop exactly when the program is `Stopping`. It holds for an operator under no
restriction, because a launch over a stopping program gives it a new process together with a new
state, and the forgotten one is no longer the process of any program. The lemmas named `...Each` of
`ManagerProofs` serve these and the later proofs: they say what a method does to one given name (it
leaves it alone, launches it, stops it, ...), so that a method over many programs becomes a case
split about one.

`UnderItsConfig` needs `IInv`, and that there is no program before the first file: of all methods only a launch, a handled death and a reload touch
a configuration. A launch keeps it; a death is handled when the process is dead, and the reload
looks at the state, which for a process that is alive is that of a live program.

**A patient operator** (`PatientProofs`). `EveryChildTracked`, `LateExitsFindTheDead` and `CleanExit`
fail without restriction (`RestartTwice` shows how), so their invariant has a conjunct that only the
guard on the operator keeps: `Clean`, about the programs, the children, the pidfds and the events of
the batch still to be handled. Every child is the process of a live program (`Tracked`); a program
that is not live has no pidfd (`IdleUnwatched`) and an open pidfd has a program (`AllWatched`), so a
launch never closes or takes a descriptor that a pending event names; and the descriptor of a
pending event is open on a dead process (`AllDead`). A stray event is handled by the same lemma as an exit: what it finds is nobody, or a
program whose process is dead. `AllDead` is what makes a late event safe
and what needs the others: between the report of an exit and its handling, commands, a reload and
other deaths of the batch run. A method either leaves any set of pending events as clean as it was
(`StaysClean`) or handles one of them (`Handles(d)`: what remains is clean without `d`).
`PatientInv` adds that events exist in the dispatch of a batch only, that nothing runs before the
first file is loaded, and that a daemon that left before the limit left no child.

`FollowsLoadedFile` and `StopSticks` are about orders and files, so their invariant speaks of what
is yet to come. `OrderInv` adds to `PatientInv` that every program `Fits`: it is in the file under
the configuration it has or will have (`NextConfig`) and not marked for removal, or it is not in the
file, marked, and not up; and one that is held down is stopping or stopped with no restart pending.
Two more conjuncts make this inductive. A restart is pending only while the program is stopping, so
that the mark cannot be carried out at a later stop. A running program has outlived its start
window, so that its death is never taken for a failed start, which would retry it. What the last
file asks for (`loaded`) may be a mixture of two files after a reload that was cut short; the lemma
on `Reloaded` is stated for any set `S` of programs the loops had reached and any `U` among them
whose launch was missed, and both forms of the reload are instances of it. `NeverRestartedByItself`
then follows step by step: with no order and no new file in a step, a program of policy `never` that
ran, or exited, is left alone, aged, stopped or reaped by a method that does not launch it.

**The refinement** (`SupervisionProofs`). `KeptInv` is `OrderInv` with `HonestInv`. The mapping of
`Supervision` looks at the kernel's table for the children of a name, which any step may change. But
no child is lost, so the children of a name are the process of its program and nothing else
(`OnlyChild`), and the mapping can be read off one program and one entry of the table (`Seen`,
`SeenNext`). Each kind of change to one program is then one step of `Supervisor`: a launch `Appear`
or `Launch`, a stop `Stop`, a kill by timer `Insist`, a mark `Mark`, a handled death `Reap`,
followed in the code by the removal, the restart or the policy. The initial state maps to `Init`
(`InitKept`), every step of the daemon to a step or a stutter of every program (`NextKept`), and
`PromiseKept` joins the two under the box. `HonestInv` is what tells `alive` from `told` in the
mapped state. `ShownAsTheyAre` says of the daemon what `ProcessesAccountedFor` says of the promise:
what `status` shows as stopped, exited or fatal has no process behind it.

**Output** (`OutputProofs`). First what the kernel's rule gives: the lowest free numbers are free
and distinct, for as many as there are (`Nth` of a finite set). `FdInv` holds `FdsOK` between the
table, the loop and the programs' numbers: an open number is in one place of one program, its file
is the one that place stands for in the latest launch, each pipe and pidfd has its registration and
its type. It has to allow what the code leaves behind, registrations of pipes of earlier launches,
and these are harmless to it because a registration belongs to a file and the type is set again with
every number handed out. `LogInv` is about contents, path by path: the chunks in a file are of streams whose config names it,
and those of one stream are in order (`LogOrdered`); those of the last launch of a stream are exactly what was read, with nothing
left in a pipe that was closed (`LogWhole`). What one stream appends is nothing to the others of its file
(`NumbersOf` takes the numbers of the chunks of one pipe, in a file that holds those of many). A stale event that is handled reads from the number's
present file, which by `FdInv` is in the place the event is handled for.

**Daemons** (`DaemonsProofs`). `DaemonInv` is the type, `ServesWithLog`, and `AloneInv`: a daemon
that has been alone since it started finds nobody else anywhere in `main`, and between its unlink
and its bind the path is free, and from then on the path is its own. `Steps` reduces the actions of `main` to what each does to the log
and the path.

`FileTakenWhole` is about two nested loops over data of any length. The library's induction cannot
be used, since it takes an operator as a parameter; but a set of numbers has a least one
(`LeastNumber`, from the well-foundedness of `<`), so a loop whose invariant fails has a first turn
at which it does. `History` is what a run of a loop leaves behind, one value per turn. That there is
one, and with it that the recursive functions of `Parser` are what their equations say, is
`LoopRuns`, by the same argument. The invariant of the inner loop is `Extended`: the list so far and
the first `j` instances of the entry. That of the outer loop is `AskedFor`: what has been taken
after `i` entries is what the first `i` entries ask for, if all of them are good and no key is
repeated, and `Rejected` otherwise. A name contains its key, so a name is taken exactly when the key
was there before (`TakenIffSameKey`).

**The connection** (`ClientProofs`). `ClientInv` follows one exchange. A request is in one place
only: partly still to be written and partly in the stream and the daemon's buffer, or among the
lines to execute, or answered and on its way back. `ExchangeOK` says, for each place of the client,
what may be in each direction. Until the answer is written, at most one newline of all earlier
answers is in the direction of the client (`Clean`). Afterwards there is one text at most; and if
there is an end of an answer, two newlines in a row, then up to the first one stands the request's
own answer, and after it one newline at most (`Good`), also for an answer that is empty or ends in a
newline of its own. So the client, which takes everything up to the first end, is back at a clean
prompt. How the stream cuts a write or a read does not appear in it, because it is about what is on
the way as a whole.

## 6. Model-checked only

Liveness is out of TLAPS's reach, as is everything under fairness: `StopsComplete`,
`ShutdownCompletes`, `DeadAreReaped`, `AnswersArrive`, `LeftIsRemoved`, `OutputArrives` and
`StartsEnd` are checked by TLC on the instances of section 4. The six runs that end in a violation
are counterexamples on one instance, which is all a counterexample has to be. Everything else a run
checks is also proved.

## 7. What the models leave out

- `pidfd_open` failing is in the safety runs; the liveness properties are about
  processes with a pidfd, because the code never learns of the death of another.
- A failed `pidfd_open` whose log line throws as well (`ProccessManager.cpp:129`): two faults in
  one launch, after which a process runs that no program knows. `FaultsAssumption` allows one of
  the two. A failed fork whose log line throws (`ProccessManager.cpp:91-94`) is two faults likewise; in a
  reload, where the exception is caught, it leaks the four descriptors of the pipes, which `Owned` would
  object to.
- How long a stray event keeps the daemon in `waitid`. In `Taskmaster` it is handled when the process is
  dead; in `Output` the thread stands still, and `OutputArrives` excuses it.
- An exception of the logger outside `doReload` ends the daemon. That is in `Daemons`, not in
  `Taskmaster`, where it would be one more way to stop at any step.
- Failures of `epoll_ctl` and `fcntl`, writes to log files that fail or are short
  (`ProccessManager.cpp:382` does not look), a program that writes without end (`readFromChild` would not return),
  and the limit of 64 events in a batch, since what does not fit is reported by the next wait.
- A config that changes the path of a log file. The file comes with the launch, so the change is
  seen with the next one; `LogPath` is fixed in `Output`.
- A `shutdown` line with anything else in it is one kind of line, whatever it has.
- `log` is one step. Two daemons that rotate at the same instant, the names of
  archives and their cleaning by age are not in `Logger`.
- What yaml-cpp makes of the text of a file; fields of a program that are only converted.
- More than one signal in a batch: signalfd gives one per read and the rest in
  the next batch.
- The usage message of `main`, the formatting of `status`, of the log and of the prompt,
  completion, history and colours of the `Shell`. (`help` stops one line
  early: a semicolon after "exit taskmaster" cuts the string, `Taskmaster.cpp:164`.)

## 8. The plan

Done: the components above with their runs, the abstract specification, and 26 theorems. What is
left:

1. The consequences of a theorem for the neighbouring module: that `handleClientMessage` of ClientProtocol hands Taskmaster each line once
   and in order, as a property of its own.
2. The hazards that have no property yet (`PROJECT.json` lists them with the reason), where the model can be extended without losing the proofs.
3. Shorter proofs: the lemmas on least numbers and on sequences that `OutputProofs`, `DaemonsProofs` and `ClientProofs` share in kind.
