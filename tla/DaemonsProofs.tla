---------------------------- MODULE DaemonsProofs ----------------------------
(***************************************************************************)
(* Theorems about the processes of the daemon, their socket and their log, *)
(* for any number of them and any of the faults, and about the parser, for *)
(* config files of any length.                                             *)
(***************************************************************************)
EXTENDS Daemons, SequenceTheorems, NaturalsInduction, WellFoundedInduction, TLAPS

-----------------------------------------------------------------------------
(* The log *)

LEMMA LogOkType ==
    ASSUME LogTypeOK, NEW d \in Loggers, LogOk(d)
    PROVE  LogTypeOK' /\ stream'[d] # "closed"
<1>1. /\ stream \in [Loggers -> {"closed", "app", "former"}]
      /\ app \in 0 .. MaxSize \cup {Missing} /\ MaxSize \in Nat \ {0}
  BY LoggerAssumption DEF LogTypeOK
<1>2. CASE app # Missing /\ ~shouldRotate /\ Written(d)
  <2>1. app \in 0 .. MaxSize /\ app < MaxSize
    BY <1>1, <1>2 DEF shouldRotate
  <2> QED
    BY <1>1, <1>2, <2>1 DEF Written, LogTypeOK
<1>3. CASE shouldRotate /\ rotated(d)
  BY <1>1, <1>3 DEF rotated, Archived, LogTypeOK
<1> QED
  BY <1>2, <1>3 DEF LogOk

LEMMA LogTypes ==
    ASSUME LogTypeOK, NEW d \in Loggers
    PROVE  /\ LogThrows(d) => LogTypeOK'
           /\ LogClosed(d) => LogTypeOK'
           /\ Logger(d) => LogTypeOK'
           /\ LogRemoved => LogTypeOK'
<1>1. /\ stream \in [Loggers -> {"closed", "app", "former"}]
      /\ app \in 0 .. MaxSize \cup {Missing} /\ MaxSize \in Nat \ {0}
  BY LoggerAssumption DEF LogTypeOK
<1>2. ASSUME LogThrows(d) PROVE LogTypeOK'
  <2>1. Archived(d) \in [Loggers -> {"closed", "app", "former"}]
    BY <1>1 DEF Archived
  <2>2. \/ UNCHANGED <<app, stream>>
        \/ /\ app' \in {app, 0, Missing}
           /\ \/ stream' = [stream EXCEPT ![d] = "closed"]
              \/ stream' = [Archived(d) EXCEPT ![d] = "closed"]
              \/ stream' = [Archived(d) EXCEPT ![d] = "app"]
    BY <1>2 DEF LogThrows, logVars
  <2>3. stream' \in [Loggers -> {"closed", "app", "former"}]
    BY <1>1, <2>1, <2>2
  <2>4. app' \in 0 .. MaxSize \cup {Missing}
    BY <1>1, <2>2
  <2> QED
    BY <2>3, <2>4 DEF LogTypeOK
<1>3. ASSUME Logger(d) PROVE LogTypeOK'
  BY <1>1, <1>3 DEF Logger, Opened, LogTypeOK
<1>4. ASSUME LogClosed(d) PROVE LogTypeOK'
  BY <1>1, <1>4 DEF LogClosed, LogTypeOK
<1>5. ASSUME LogRemoved PROVE LogTypeOK'
  BY <1>1, <1>5 DEF LogRemoved, LogTypeOK
<1> QED
  BY <1>2, <1>3, <1>4, <1>5

\* Only what a daemon does itself closes its stream.
LEMMA LogOfOthers ==
    ASSUME LogTypeOK, NEW d \in Loggers, NEW e \in Loggers, d # e, stream[e] # "closed",
           \/ LogOk(d) \/ LogThrows(d) \/ LogClosed(d) \/ Logger(d) \/ LogRemoved
           \/ UNCHANGED logVars
    PROVE  stream'[e] # "closed"
<1>1. stream \in [Loggers -> {"closed", "app", "former"}]
  BY DEF LogTypeOK
<1> QED
  BY <1>1 DEF LogOk, Written, rotated, LogThrows, LogClosed, Logger, Opened, LogRemoved,
     Archived, logVars

-----------------------------------------------------------------------------
(* One step of a daemon *)

Place == {"off"} \cup Starting \cup Serving \cup Leaving

\* The process is there; it enters its loop by writing a line, and is in its
\* loop only after it bound the path.
StepOf(d) ==
    /\ pc[d] # "off" /\ UNCHANGED alone
    /\ \E to \in Place : pc' = [pc EXCEPT ![d] = to]
    /\ LogOk(d) \/ LogThrows(d) \/ LogClosed(d) \/ UNCHANGED logVars
    /\ pc'[d] = "running" => LogOk(d)
    /\ path' \in Loggers \cup {"none", "stale"}
    /\ load' = NoLoad \/ load'.doc \in Documents
    /\ pc'[d] = "unlinked" => path' = "none"
    /\ pc'[d] = "bound" => path' = d
    /\ pc'[d] \in Serving \cup {"listening"} =>
         pc[d] \in Serving \cup {"bound", "listening"} /\ UNCHANGED path

LEMMA LoadsTo ==
    ASSUME NEW d \in Loggers, NEW from, NEW good, NEW bad, Loads(d, from, good, bad)
    PROVE  /\ load'.doc \in Documents
           /\ Goes(d, from, good) \/ Goes(d, from, bad)
<1>1. PICK doc \in Documents :
        /\ load' = [doc |-> doc, result |-> Outcome[doc]]
        /\ Goes(d, from, IF doc \in Accepted THEN good ELSE bad)
  BY DEF Loads
<1>2. load'.doc = doc
  BY <1>1
<1> QED
  BY <1>1, <1>2

LEMMA Steps ==
    ASSUME TypeOK, NEW d \in Loggers, Main(d) \/ Shutdown(d) \/ Kill(d)
    PROVE  StepOf(d)
<1> USE DEF Place, Starting, Serving, Leaving
<1>1. pc \in [Loggers -> Place] /\ path \in Loggers \cup {"none", "stale"}
  BY DEF TypeOK
<1>2. CASE daemonize(d) \/ InitThrows(d) \/ Serve(d) \/ doReload(d) \/ Catch(d)
  BY <1>1, <1>2 DEF StepOf, daemonize, InitThrows, Serve, doReload, Catch, Logs, Goes, NothingLoaded
<1>3. CASE UnlinkPath(d) \/ bindSocket(d) \/ listenSocket(d)
  BY <1>1, <1>3 DEF StepOf, UnlinkPath, bindSocket, listenSocket, Goes, NothingLoaded
<1>4. CASE LoadFirst(d)
  <2>1. load'.doc \in Documents /\ (Goes(d, "listening", "running") \/ Goes(d, "listening", "unwinding"))
    BY <1>4, LoadsTo DEF LoadFirst
  <2>2. LogOk(d) /\ UNCHANGED <<path, alone>>
    BY <1>4 DEF LoadFirst
  <2> QED
    BY <1>1, <2>1, <2>2 DEF StepOf, Goes
<1>5. CASE ReadAgain(d)
  <2>1. load'.doc \in Documents /\ (Goes(d, "running", "applying") \/ Goes(d, "running", "catching"))
    BY <1>5, LoadsTo DEF ReadAgain
  <2>2. LogOk(d) /\ UNCHANGED <<path, alone>>
    BY <1>5 DEF ReadAgain
  <2> QED
    BY <1>1, <2>1, <2>2 DEF StepOf, Goes
<1>6. CASE Shutdown(d) \/ Destroy(d)
  BY <1>1, <1>6 DEF StepOf, Shutdown, Destroy, Goes, NothingLoaded
<1>7. CASE Exit(d) \/ Kill(d)
  BY <1>1, <1>7 DEF StepOf, Exit, Kill, Orphaned, Goes, NothingLoaded
<1> QED
  BY <1>2, <1>3, <1>4, <1>5, <1>6, <1>7 DEF Main

-----------------------------------------------------------------------------
(* The invariant *)

\* Reachable is not inductive: that a daemon is alone has to mean that no other
\* one is there now, and its path is its own from the moment it bound it.
AloneInv ==
    \A d \in Loggers : alone[d] =>
        /\ \A e \in Loggers \ {d} : pc[e] = "off"
        /\ pc[d] = "unlinked" => path = "none"
        /\ pc[d] \in Serving \cup {"bound", "listening"} => path = d

DaemonInv == TypeOK /\ ServesWithLog /\ AloneInv

LEMMA InitDaemons == Init => DaemonInv
<1> SUFFICES ASSUME Init PROVE DaemonInv
  OBVIOUS
<1>1. TypeOK
  BY LoggerAssumption DEF Init, LogInit, TypeOK, LogTypeOK
<1> QED
  BY <1>1 DEF Init, LogInit, DaemonInv, ServesWithLog, AloneInv

LEMMA StepDaemons ==
    ASSUME DaemonInv, NEW d \in Loggers, StepOf(d) PROVE DaemonInv'
<1>1. TypeOK /\ LogTypeOK /\ pc \in [Loggers -> Place]
  BY DEF DaemonInv, TypeOK, Place
<1>2. PICK to \in Place : pc' = [pc EXCEPT ![d] = to]
  BY DEF StepOf
<1>3. pc' \in [Loggers -> Place] /\ \A e \in Loggers : e # d => pc'[e] = pc[e]
  BY <1>1, <1>2
<1>4. LogTypeOK'
  BY <1>1, LogOkType, LogTypes DEF StepOf, logVars, LogTypeOK
<1>5. TypeOK'
  BY <1>1, <1>3, <1>4 DEF StepOf, TypeOK, Place
<1>6. ServesWithLog'
  <2> SUFFICES ASSUME NEW e \in Loggers, pc'[e] = "running" PROVE stream'[e] # "closed"
    BY DEF ServesWithLog
  <2>1. CASE e = d
    BY <1>1, <2>1, LogOkType DEF StepOf
  <2>2. CASE e # d
    <3>1. stream[e] # "closed"
      BY <1>3, <2>2 DEF DaemonInv, ServesWithLog
    <3> QED
      BY <1>1, <2>2, <3>1, LogOfOthers DEF StepOf
  <2> QED
    BY <2>1, <2>2
<1>7. AloneInv'
  <2> SUFFICES ASSUME NEW e \in Loggers, alone[e]
               PROVE  /\ \A f \in Loggers \ {e} : pc'[f] = "off"
                      /\ pc'[e] = "unlinked" => path' = "none"
                      /\ pc'[e] \in Serving \cup {"bound", "listening"} => path' = e
    BY DEF AloneInv, StepOf
  <2>1. e = d
    BY DEF DaemonInv, AloneInv, StepOf
  <2>2. \A f \in Loggers \ {d} : pc'[f] = "off"
    BY <1>3, <2>1 DEF DaemonInv, AloneInv
  <2>3. pc'[d] \in Serving \cup {"listening"} => path' = d
    BY <2>1 DEF DaemonInv, AloneInv, StepOf
  <2> QED
    BY <2>1, <2>2, <2>3 DEF StepOf
<1> QED
  BY <1>5, <1>6, <1>7 DEF DaemonInv

LEMMA StartDaemons ==
    ASSUME DaemonInv, NEW d \in Loggers, Start(d) PROVE DaemonInv'
<1>1. TypeOK /\ LogTypeOK /\ pc \in [Loggers -> Place]
  BY DEF DaemonInv, TypeOK, Place
<1>2. /\ pc[d] = "off" /\ pc' = [pc EXCEPT ![d] = "logger"] /\ Logger(d)
      /\ UNCHANGED path /\ load' = NoLoad
      /\ alone' = [e \in Loggers |->
           IF e = d THEN \A f \in Loggers \ {d} : pc[f] = "off" ELSE FALSE]
  BY DEF Start, Goes, NothingLoaded
<1>3. "logger" \in Place /\ "logger" \notin Serving \cup {"bound", "listening"}
  BY DEF Place, Starting, Serving, Leaving
<1>4. /\ pc' \in [Loggers -> Place] /\ pc'[d] = "logger"
      /\ \A e \in Loggers : e # d => pc'[e] = pc[e]
  BY <1>1, <1>2, <1>3
<1>5. LogTypeOK'
  BY <1>1, <1>2, LogTypes
<1>6. alone' \in [Loggers -> BOOLEAN]
  BY <1>2
<1>7. TypeOK'
  BY <1>1, <1>2, <1>4, <1>5, <1>6 DEF TypeOK, Place
<1>8. ServesWithLog'
  BY <1>1, <1>2, <1>4, LogOfOthers DEF DaemonInv, ServesWithLog
<1>9. AloneInv'
  BY <1>2, <1>3, <1>4 DEF AloneInv
<1> QED
  BY <1>7, <1>8, <1>9 DEF DaemonInv

LEMMA NextDaemons == DaemonInv /\ [Next]_vars => DaemonInv'
<1> SUFFICES ASSUME DaemonInv, [Next]_vars PROVE DaemonInv'
  OBVIOUS
<1>1. ASSUME NEW d \in Loggers, Start(d) PROVE DaemonInv'
  BY <1>1, StartDaemons
<1>2. ASSUME NEW d \in Loggers, Main(d) \/ Shutdown(d) \/ Kill(d) PROVE DaemonInv'
  BY <1>2, Steps, StepDaemons DEF DaemonInv
<1>3. CASE RemoveLog
  <2>1. LogRemoved /\ UNCHANGED <<pc, path, alone>> /\ load' = NoLoad
    BY <1>3 DEF RemoveLog, NothingLoaded
  <2>2. LogTypeOK' /\ \A d \in Loggers : stream[d] # "closed" => stream'[d] # "closed"
    BY <2>1, LoggerAssumption DEF LogRemoved, LogTypeOK, DaemonInv, TypeOK
  <2> QED
    BY <2>1, <2>2 DEF DaemonInv, TypeOK, ServesWithLog, AloneInv
<1>4. CASE UNCHANGED vars
  BY <1>4 DEF vars, DaemonInv, TypeOK, LogTypeOK, ServesWithLog, AloneInv
<1> QED
  BY <1>1, <1>2, <1>3, <1>4 DEF Next

LEMMA DaemonInvariance == Spec => []DaemonInv
  BY InitDaemons, NextDaemons, PTL DEF Spec

(* Whichever of its calls fails, a process is at a place of main, and the log  *)
(* never grows over the size at which shouldRotate archives it.                *)
THEOREM DaemonsType == Spec => []TypeOK
  BY DaemonInvariance, PTL DEF DaemonInv

(* The unlink in bindSocket is enough: however many daemons were killed, failed *)
(* to start or ended before, a daemon that has the machine for itself since it  *)
(* started binds the path, and keeps it while it serves.                        *)
THEOREM SocketFound == Spec => []Reachable
<1>1. DaemonInv => Reachable
  BY DEF DaemonInv, AloneInv, Reachable
<1> QED
  BY <1>1, DaemonInvariance, PTL

(* doReload goes on after an exception of the logger only by writing a line,   *)
(* which log() does only to an open file; and no other daemon, rotating or     *)
(* ending, closes the stream of this one.                                      *)
THEOREM LogOpenWhenServing == Spec => []ServesWithLog
  BY DaemonInvariance, PTL DEF DaemonInv

-----------------------------------------------------------------------------
(* The loops of the parser *)

LEMMA LeastNumber ==
    ASSUME NEW S \in SUBSET Nat, S # {}
    PROVE  \E m \in S : \A k \in S : m <= k
<1> DEFINE R == OpToRel(<, Nat)
<1>1. IsWellFoundedOn(R, Nat)
  BY NatLessThanWellFounded
<1>2. \A x, y \in Nat : <<y, x>> \in R <=> y < x
  BY DEF OpToRel
<1> HIDE DEF R
<1>3. PICK m \in S : \A k \in S : <<k, m>> \notin R
  BY <1>1, WFMin
<1>4. ASSUME NEW k \in S PROVE m <= k
  <2>1. m \in Nat /\ k \in Nat
    OBVIOUS
  <2>2. ~(k < m)
    BY <1>2, <1>3, <2>1
  <2> QED
    BY <2>1, <2>2
<1> QED
  BY <1>4

\* The history of a loop of n turns over a state in X.
History(F, n, X, x, f) ==
    f \in [0 .. n -> X] /\ f[0] = x /\ \A i \in 1 .. n : f[i] = F[i][f[i - 1]]

LEMMA LoopRuns ==
    ASSUME NEW X, NEW n \in Nat, NEW F \in [1 .. n -> [X -> X]], NEW x \in X
    PROVE  \E f : History(F, n, X, x, f)
<1> DEFINE Runs(f, m) == History(F, m, X, x, f)
           S == {m \in 0 .. n : ~\E f : Runs(f, m)}
<1>1. CASE S = {}
  <2>1. n \in 0 .. n
    OBVIOUS
  <2>2. n \notin S
    <3> HIDE DEF S
    <3> QED
      BY <1>1
  <2> QED
    BY <2>1, <2>2
<1>2. CASE S # {}
  <2>1. PICK m \in S : \A k \in S : m <= k
    <3>1. S \in SUBSET Nat
      OBVIOUS
    <3> HIDE DEF S
    <3> QED
      BY <1>2, <3>1, LeastNumber
  <2>2. m \in 0 .. n /\ ~\E f : Runs(f, m)
    BY <2>1
  <2>3. CASE m = 0
    <3>1. Runs([i \in 0 .. m |-> x], m)
      BY <2>3 DEF History
    <3> QED
      BY <2>2, <3>1
  <2>4. CASE m # 0
    <3>1. m - 1 \in 0 .. n /\ ~(m <= m - 1) /\ m \in 1 .. n
      BY <2>2, <2>4
    <3>2. PICK g : Runs(g, m - 1)
      BY <2>1, <3>1
    <3> DEFINE f == [i \in 0 .. m |-> IF i = m THEN F[m][g[m - 1]] ELSE g[i]]
    <3>3. g[m - 1] \in X /\ F[m] \in [X -> X] /\ g \in [0 .. m - 1 -> X]
      BY <3>1, <3>2 DEF History
    <3>4. f \in [0 .. m -> X] /\ f[0] = x
      BY <2>2, <2>4, <3>2, <3>3 DEF History
    <3>5. ASSUME NEW i \in 1 .. m PROVE f[i] = F[i][f[i - 1]]
      <4>1. CASE i = m
        BY <3>1, <4>1
      <4>2. CASE i # m
        <5>1. i \in 1 .. m - 1 /\ i \in 0 .. m /\ i - 1 \in 0 .. m /\ i - 1 # m
          BY <3>1, <4>2
        <5> QED
          BY <3>2, <4>2, <5>1 DEF History
      <4> QED
        BY <4>1, <4>2
    <3>6. Runs(f, m)
      BY <3>4, <3>5 DEF History
    <3> HIDE DEF f
    <3> QED
      BY <2>2, <3>6
  <2> QED
    BY <2>3, <2>4
<1> QED
  BY <1>1, <1>2

\* What one turn of the loop over the instances makes of the programs so far.
Turn(base, i, s) ==
    IF s = Rejected \/ checkDuplicateName(<<base.name[1], i - 1>>, s) THEN Rejected
    ELSE Append(s, [base EXCEPT !.name = <<base.name[1], i - 1>>])

Results == Seq(Programs) \cup {Rejected}

\* The entries of a program are under an instance of its key.
IsBase(b) == b \in Programs /\ \E e \in Entries : b.name = <<e.key>>

LEMMA TurnType ==
    ASSUME NEW b, IsBase(b), NEW s \in Results, NEW i \in Nat \ {0}
    PROVE  Turn(b, i, s) \in Results
<1>1. PICK e \in Entries : b \in Programs /\ b.name = <<e.key>>
  BY DEF IsBase
<1>2. b.name[1] = e.key /\ i - 1 \in Nat
  BY <1>1
<1>3. <<b.name[1], i - 1>> \in Seq({x.key : x \in Entries} \cup Nat)
  BY <1>2
<1>4. [b EXCEPT !.name = <<b.name[1], i - 1>>] \in Programs
  BY <1>1, <1>3 DEF Programs
<1>5. s \in Seq(Programs) => Append(s, [b EXCEPT !.name = <<b.name[1], i - 1>>]) \in Seq(Programs)
  BY <1>4, AppendProperties
<1> QED
  BY <1>5 DEF Turn, Results

LEMMA ExpandRuns ==
    ASSUME NEW b, IsBase(b), NEW n \in Nat, NEW s \in Results
    PROVE  \E f :
             /\ f[0] = s /\ \A i \in 1 .. n : f[i] = Turn(b, i, f[i - 1])
             /\ expandNumprocs(b, n, s) = f[n]
<1> DEFINE F == [i \in 1 .. n |-> [y \in Results |-> Turn(b, i, y)]]
           Is(g) == g = [i \in 0 .. n |->
                           IF i = 0 THEN s
                           ELSE IF g[i - 1] = Rejected THEN Rejected
                           ELSE IF checkDuplicateName(<<b.name[1], i - 1>>, g[i - 1]) THEN Rejected
                           ELSE Append(g[i - 1], [b EXCEPT !.name = <<b.name[1], i - 1>>])]
           U == CHOOSE g : Is(g)
<1>1. F \in [1 .. n -> [Results -> Results]]
  <2>1. \A i \in 1 .. n : i \in Nat \ {0}
    OBVIOUS
  <2> QED
    BY <2>1, TurnType
<1>2. PICK f \in [0 .. n -> Results] : f[0] = s /\ \A i \in 1 .. n : f[i] = F[i][f[i - 1]]
  <2> HIDE DEF F
  <2>1. \E f : History(F, n, Results, s, f)
    BY <1>1, LoopRuns
  <2> QED
    BY <2>1 DEF History
<1>3. \A i \in 1 .. n : f[i] = Turn(b, i, f[i - 1])
  <2>1. \A i \in 1 .. n : f[i - 1] \in Results
    <3>1. \A i \in 1 .. n : i - 1 \in 0 .. n
      OBVIOUS
    <3> QED
      BY <1>2, <3>1
  <2> QED
    BY <1>2, <2>1
<1> HIDE DEF F
<1>4. Is(f)
  <2> DEFINE h == [i \in 0 .. n |->
                     IF i = 0 THEN s
                     ELSE IF f[i - 1] = Rejected THEN Rejected
                     ELSE IF checkDuplicateName(<<b.name[1], i - 1>>, f[i - 1]) THEN Rejected
                     ELSE Append(f[i - 1], [b EXCEPT !.name = <<b.name[1], i - 1>>])]
  <2>1. ASSUME NEW i \in 0 .. n PROVE f[i] = h[i]
    <3>1. CASE i = 0
      BY <1>2, <3>1
    <3>2. CASE i # 0
      <4>1. i \in 1 .. n
        BY <3>2
      <4> QED
        BY <1>3, <3>2, <4>1 DEF Turn
    <3> QED
      BY <3>1, <3>2
  <2>2. f = [i \in 0 .. n |-> f[i]] /\ h = [i \in 0 .. n |-> h[i]]
    BY <1>2
  <2>3. f = h
    BY <2>1, <2>2
  <2> QED
    BY <2>3
<1>5. Is(U)
  <2> HIDE DEF Is
  <2> QED
    BY <1>4
<1>6. expandNumprocs(b, n, s) = U[n]
  BY DEF expandNumprocs
<1> HIDE DEF U
<1>7. U[0] = s
  <2>1. 0 \in 0 .. n
    OBVIOUS
  <2> QED
    BY <1>5, <2>1
<1>8. ASSUME NEW i \in 1 .. n PROVE U[i] = Turn(b, i, U[i - 1])
  <2>1. i \in 0 .. n /\ i # 0
    OBVIOUS
  <2> DEFINE v == U[i - 1]
  <2>2. U[i] = IF v = Rejected THEN Rejected
               ELSE IF checkDuplicateName(<<b.name[1], i - 1>>, v) THEN Rejected
               ELSE Append(v, [b EXCEPT !.name = <<b.name[1], i - 1>>])
    BY <1>5, <2>1
  <2> HIDE DEF v
  <2>3. U[i] = Turn(b, i, v)
    BY <2>2 DEF Turn
  <2> QED
    BY <2>3 DEF v
<1> QED
  BY <1>6, <1>7, <1>8

\* The instance k of the program b.
Nth(b, k) == [b EXCEPT !.name = <<b.name[1], k>>]

\* s, and after it the first j instances of b.
Extended(s, b, j) ==
    [m \in 1 .. Len(s) + j |-> IF m <= Len(s) THEN s[m] ELSE Nth(b, m - Len(s) - 1)]

Taken(s, b, j) == \E m \in 1 .. Len(s) : \E k \in 0 .. j - 1 : s[m].name = <<b.name[1], k>>

LEMMA ExtendedType ==
    ASSUME NEW b, IsBase(b), NEW s \in Seq(Programs), NEW j \in Nat
    PROVE  /\ Extended(s, b, j) \in Seq(Programs)
           /\ Len(Extended(s, b, j)) = Len(s) + j
           /\ \A k \in Nat : Nth(b, k) \in Programs /\ Nth(b, k).name = <<b.name[1], k>>
<1>1. PICK e \in Entries : b \in Programs /\ b.name = <<e.key>>
  BY DEF IsBase
<1>2. ASSUME NEW k \in Nat PROVE Nth(b, k) \in Programs /\ Nth(b, k).name = <<b.name[1], k>>
  <2>1. b.name[1] = e.key
    BY <1>1
  <2>2. <<b.name[1], k>> \in Seq({x.key : x \in Entries} \cup Nat)
    BY <2>1
  <2> QED
    BY <1>1, <2>2 DEF Programs, Nth
<1>3. Len(s) \in Nat /\ \A m \in 1 .. Len(s) : s[m] \in Programs
  BY LenProperties, ElementOfSeq
<1>4. ASSUME NEW m \in 1 .. Len(s) + j
      PROVE  (IF m <= Len(s) THEN s[m] ELSE Nth(b, m - Len(s) - 1)) \in Programs
  <2>1. CASE m <= Len(s)
    BY <1>3, <2>1
  <2>2. CASE ~(m <= Len(s))
    <3>1. m - Len(s) - 1 \in Nat
      BY <1>3, <2>2
    <3> QED
      BY <1>2, <2>2, <3>1
  <2> QED
    BY <2>1, <2>2
<1>5. Extended(s, b, j) \in [1 .. Len(s) + j -> Programs]
  BY <1>4 DEF Extended
<1>6. Len(s) + j \in Nat
  BY <1>3
<1>7. Extended(s, b, j) \in Seq(Programs)
  BY <1>5, <1>6, SeqDef
<1>8. Len(Extended(s, b, j)) = Len(s) + j
  BY <1>5, <1>6, <1>7, LenProperties
<1> QED
  BY <1>2, <1>7, <1>8

\* A turn: the name of the instance is taken, or the instance comes last.
LEMMA TurnExtends ==
    ASSUME NEW b, IsBase(b), NEW s \in Seq(Programs), NEW j \in Nat \ {0},
           ~Taken(s, b, j - 1)
    PROVE  Turn(b, j, Extended(s, b, j - 1)) =
             IF Taken(s, b, j) THEN Rejected ELSE Extended(s, b, j)
<1> DEFINE x == Extended(s, b, j - 1)
           y == Extended(s, b, j)
           n == Len(s)
<1>1. /\ x \in Seq(Programs) /\ Len(x) = n + (j - 1) /\ y \in Seq(Programs) /\ Len(y) = n + j
      /\ n \in Nat /\ j \in Nat /\ j - 1 \in Nat
      /\ \A k \in Nat : Nth(b, k) \in Programs /\ Nth(b, k).name = <<b.name[1], k>>
  <2>1. j \in Nat /\ j - 1 \in Nat /\ n \in Nat
    BY LenProperties
  <2> QED
    BY <2>1, ExtendedType
<1>2. /\ \A m \in 1 .. n + (j - 1) : x[m] = IF m <= n THEN s[m] ELSE Nth(b, m - n - 1)
      /\ \A m \in 1 .. n + j : y[m] = IF m <= n THEN s[m] ELSE Nth(b, m - n - 1)
  BY DEF Extended
<1>3. DOMAIN x = 1 .. n + (j - 1) /\ x # Rejected
  <2>1. DOMAIN x = 1 .. Len(x)
    BY <1>1, LenProperties
  <2>2. Rejected \notin Seq(Programs)
    BY RejectedAssumption
  <2> QED
    BY <1>1, <2>1, <2>2
<1> HIDE DEF x, y, n
<1>4. checkDuplicateName(<<b.name[1], j - 1>>, x) <=> Taken(s, b, j)
  <2>1. ASSUME NEW m \in 1 .. n + (j - 1), x[m].name = <<b.name[1], j - 1>>
        PROVE  Taken(s, b, j)
    <3>1. CASE m <= n
      <4>1. m \in 1 .. n /\ j - 1 \in 0 .. j - 1 /\ x[m] = s[m]
        BY <1>1, <1>2, <3>1
      <4> QED
        BY <2>1, <4>1 DEF Taken, n
    <3>2. CASE ~(m <= n)
      <4>1. m - n - 1 \in Nat /\ m - n - 1 # j - 1
        BY <1>1, <3>2
      <4>2. x[m].name = <<b.name[1], m - n - 1>>
        BY <1>1, <1>2, <3>2, <4>1
      <4> QED
        BY <2>1, <4>1, <4>2
    <3> QED
      BY <3>1, <3>2
  <2>2. ASSUME Taken(s, b, j) PROVE \E m \in 1 .. n + (j - 1) : x[m].name = <<b.name[1], j - 1>>
    <3>1. PICK m \in 1 .. n, k \in 0 .. j - 1 : s[m].name = <<b.name[1], k>>
      BY <2>2 DEF Taken, n
    <3>2. k = j - 1
      <4>1. k \notin 0 .. (j - 1) - 1
        BY <3>1 DEF Taken, n
      <4> QED
        BY <1>1, <4>1
    <3>3. m \in 1 .. n + (j - 1) /\ x[m] = s[m]
      BY <1>1, <1>2
    <3> QED
      BY <3>1, <3>2, <3>3
  <2> QED
    BY <1>3, <2>1, <2>2 DEF checkDuplicateName
<1>5. Append(x, Nth(b, j - 1)) = y
  <2> DEFINE a == Append(x, Nth(b, j - 1))
  <2>1. /\ a \in Seq(Programs) /\ Len(a) = Len(x) + 1
        /\ \A m \in 1 .. Len(x) : a[m] = x[m] /\ a[Len(x) + 1] = Nth(b, j - 1)
    BY <1>1, AppendProperties
  <2>2. a[Len(x) + 1] = Nth(b, j - 1)
    BY <1>1, AppendProperties
  <2> HIDE DEF a
  <2>3. Len(a) = Len(y)
    BY <1>1, <2>1
  <2>4. ASSUME NEW m \in 1 .. Len(a) PROVE a[m] = y[m]
    <3>1. m \in 1 .. n + j /\ Len(a) = n + j /\ Len(x) = n + (j - 1)
      BY <1>1, <2>1
    <3>2. CASE m = n + j
      <4>1. m = Len(x) + 1 /\ ~(m <= n) /\ m - n - 1 = j - 1
        BY <1>1, <3>1, <3>2
      <4> QED
        BY <1>2, <2>2, <3>1, <4>1
    <3>3. CASE m # n + j
      <4>1. m \in 1 .. n + (j - 1) /\ m \in 1 .. Len(x)
        BY <1>1, <3>1, <3>3
      <4> QED
        BY <1>2, <2>1, <3>1, <4>1
    <3> QED
      BY <3>2, <3>3
  <2>5. a = y
    BY <1>1, <2>1, <2>3, <2>4, SeqEqual
  <2> QED
    BY <2>5 DEF a
<1>6. Turn(b, j, x) = IF Taken(s, b, j) THEN Rejected ELSE y
  BY <1>3, <1>4, <1>5 DEF Turn, Nth
<1> QED
  BY <1>6 DEF x, y

LEMMA Expansion ==
    ASSUME NEW b, IsBase(b), NEW s \in Seq(Programs), NEW n \in Nat
    PROVE  expandNumprocs(b, n, s) = IF Taken(s, b, n) THEN Rejected ELSE Extended(s, b, n)
<1>1. PICK f : /\ f[0] = s /\ \A i \in 1 .. n : f[i] = Turn(b, i, f[i - 1])
               /\ expandNumprocs(b, n, s) = f[n]
  BY ExpandRuns DEF Results
<1> DEFINE Right(j) == f[j] = IF Taken(s, b, j) THEN Rejected ELSE Extended(s, b, j)
           S == {j \in 0 .. n : ~Right(j)}
<1>2. CASE S = {}
  <2>1. n \in 0 .. n
    OBVIOUS
  <2>2. n \notin S
    <3> HIDE DEF S
    <3> QED
      BY <1>2
  <2> QED
    BY <1>1, <2>1, <2>2
<1>3. CASE S # {}
  <2>1. PICK m \in S : \A k \in S : m <= k
    <3>1. S \in SUBSET Nat
      OBVIOUS
    <3> HIDE DEF S
    <3> QED
      BY <1>3, <3>1, LeastNumber
  <2>2. m \in 0 .. n /\ ~Right(m)
    BY <2>1
  <2>3. CASE m = 0
    <3>1. ~Taken(s, b, 0)
      BY DEF Taken
    <3>2. Extended(s, b, 0) = s
      <4>1. IsBase(b) /\ 0 \in Nat /\ Len(s) \in Nat
        BY LenProperties
      <4>2. /\ Extended(s, b, 0) \in Seq(Programs)
            /\ Len(Extended(s, b, 0)) = Len(s) + 0
        BY <4>1, ExtendedType
      <4>3. \A q \in 1 .. Len(s) : Extended(s, b, 0)[q] = s[q]
        BY <4>1 DEF Extended
      <4> QED
        BY <4>1, <4>2, <4>3, SeqEqual
    <3> QED
      BY <1>1, <2>2, <2>3, <3>1, <3>2
  <2>4. CASE m # 0
    <3>1. m - 1 \in 0 .. n /\ ~(m <= m - 1) /\ m \in 1 .. n /\ m \in Nat \ {0}
      BY <2>2, <2>4
    <3>2. Right(m - 1) /\ f[m] = Turn(b, m, f[m - 1])
      BY <1>1, <2>1, <3>1
    <3>3. CASE Taken(s, b, m - 1)
      <4>1. Taken(s, b, m)
        BY <3>1, <3>3 DEF Taken
      <4>2. f[m] = Rejected
        BY <3>2, <3>3 DEF Turn
      <4> QED
        BY <2>2, <4>1, <4>2
    <3>4. CASE ~Taken(s, b, m - 1)
      <4>1. f[m] = Turn(b, m, Extended(s, b, m - 1))
        BY <3>2, <3>4
      <4>2. Turn(b, m, Extended(s, b, m - 1)) = IF Taken(s, b, m) THEN Rejected ELSE Extended(s, b, m)
        BY <3>1, <3>4, TurnExtends
      <4> QED
        BY <2>2, <4>1, <4>2
    <3> QED
      BY <3>3, <3>4
  <2> QED
    BY <2>3, <2>4
<1> QED
  BY <1>2, <1>3

-----------------------------------------------------------------------------
(* The entries of a document *)

Count(e) == Given(e.numprocs, 1)

LEMMA GoodParses ==
    ASSUME NEW e \in Entries, GoodEntry(e)
    PROVE  /\ IsBase(parseProgram(e)) /\ parseProgram(e) # Rejected
           /\ parseProgram(e).name = <<e.key>> /\ parseProgram(e).name[1] = e.key
           /\ parseProgram(e).cmd = e.cmd
           /\ parseProgram(e).autorestart = Given(e.autorestart, "unexpected")
           /\ Count(e) \in Nat \ {0}
<1> DEFINE r == [name        |-> <<e.key>>,
                 cmd         |-> e.cmd,
                 autorestart |-> Given(e.autorestart, "unexpected"),
                 stopsignal  |-> Given(e.stopsignal, "TERM"),
                 umask       |-> Given(e.umask, -1),
                 exitcodes   |-> Given(e.exitcodes, {0}),
                 env         |-> Given(e.env, {}),
                 rest        |-> Given(e.rest, "defaults")]
<1>1. parseProgram(e) = r
  BY DEF parseProgram, GoodEntry, Converts
<1>2. r \in Programs
  <2>1. <<e.key>> \in Seq({x.key : x \in Entries} \cup Nat)
    OBVIOUS
  <2>2. Given(e.autorestart, "unexpected") \in AutoRestarts
    BY DEF GoodEntry, Given, AutoRestarts
  <2>3. Given(e.stopsignal, "TERM") \in StopSignals
    BY DEF GoodEntry, Given, StopSignals
  <2> QED
    BY <2>1, <2>2, <2>3 DEF Programs
<1>3. r # Rejected
  BY <1>2, RejectedAssumption
<1>4. Count(e) \in Nat \ {0}
  <2>1. e.numprocs = Absent \/ e.numprocs \in Nat \ {0}
    BY DEF GoodEntry
  <2>2. 1 \in Nat \ {0}
    OBVIOUS
  <2> QED
    BY <2>1, <2>2 DEF Count, Given
<1>5. /\ r.name = <<e.key>> /\ r.name[1] = e.key /\ r.cmd = e.cmd
      /\ r.autorestart = Given(e.autorestart, "unexpected")
  OBVIOUS
<1> QED
  BY <1>1, <1>2, <1>3, <1>4, <1>5 DEF IsBase

LEMMA BadRejected ==
    ASSUME NEW e \in Entries, ~GoodEntry(e), NEW s
    PROVE  Expanded(s, e) = Rejected
<1>1. e.isMap \in BOOLEAN
  BY EntriesAssumption
<1>2. CASE ~e.isMap
  BY <1>2 DEF Expanded
<1>3. CASE e.isMap /\ Count(e) \notin Nat \ {0}
  BY <1>3 DEF Expanded, Count
<1>4. CASE e.isMap /\ Count(e) \in Nat \ {0}
  <2>1. e.numprocs = Absent \/ e.numprocs \in Nat \ {0}
    BY <1>4 DEF Count, Given
  <2>2. parseProgram(e) = Rejected
    BY <1>4, <2>1 DEF GoodEntry, parseProgram, Converts
  <2> QED
    BY <2>2 DEF Expanded
<1> QED
  BY <1>1, <1>2, <1>3, <1>4

LEMMA GoodExpanded ==
    ASSUME NEW e \in Entries, GoodEntry(e), NEW s \in Seq(Programs)
    PROVE  Expanded(s, e) = IF Taken(s, parseProgram(e), Count(e)) THEN Rejected
                            ELSE Extended(s, parseProgram(e), Count(e))
<1>1. IsBase(parseProgram(e)) /\ parseProgram(e) # Rejected /\ Count(e) \in Nat \ {0}
  BY GoodParses
<1>2. s # Rejected
  BY RejectedAssumption
<1>3. Expanded(s, e) = expandNumprocs(parseProgram(e), Count(e), s)
  BY <1>1, <1>2 DEF Expanded, Count, GoodEntry
<1>4. Count(e) \in Nat
  BY <1>1
<1> HIDE DEF Count
<1> QED
  BY <1>1, <1>3, <1>4, Expansion

LEMMA ExpandedType ==
    ASSUME NEW e \in Entries, NEW s \in Results
    PROVE  Expanded(s, e) \in Results
<1>1. CASE ~GoodEntry(e)
  BY <1>1, BadRejected DEF Results
<1>2. CASE s = Rejected
  BY <1>2 DEF Expanded, Results
<1>3. CASE GoodEntry(e) /\ s \in Seq(Programs)
  <2>1. IsBase(parseProgram(e)) /\ Count(e) \in Nat
    BY <1>3, GoodParses
  <2>2. Extended(s, parseProgram(e), Count(e)) \in Seq(Programs)
    BY <1>3, <2>1, ExtendedType
  <2> QED
    BY <1>3, <2>2, GoodExpanded DEF Results
<1> QED
  BY <1>1, <1>2, <1>3 DEF Results

LEMMA LoadRuns ==
    ASSUME NEW doc \in Seq(Entries), doc # Broken
    PROVE  \E f :
             /\ f[0] = <<>> /\ \A i \in 1 .. Len(doc) : f[i] = Expanded(f[i - 1], doc[i])
             /\ loadProgramsConf(doc) = IF f[Len(doc)] = <<>> THEN Rejected ELSE f[Len(doc)]
<1> DEFINE n == Len(doc)
           F == [i \in 1 .. n |-> [y \in Results |-> Expanded(y, doc[i])]]
           Is(g) == g = [i \in 0 .. n |-> IF i = 0 THEN <<>> ELSE Expanded(g[i - 1], doc[i])]
           U == CHOOSE g : Is(g)
<1>0. n \in Nat
  BY LenProperties
<1>1. F \in [1 .. n -> [Results -> Results]]
  <2>1. \A i \in 1 .. n : doc[i] \in Entries
    BY ElementOfSeq
  <2> QED
    BY <2>1, ExpandedType
<1>2. PICK f \in [0 .. n -> Results] : f[0] = <<>> /\ \A i \in 1 .. n : f[i] = F[i][f[i - 1]]
  <2>1. <<>> \in Results
    BY EmptySeq DEF Results
  <2> HIDE DEF F, n
  <2>2. \E f : History(F, n, Results, <<>>, f)
    BY <1>0, <1>1, <2>1, LoopRuns
  <2> QED
    BY <2>2 DEF History
<1>3. \A i \in 1 .. n : f[i] = Expanded(f[i - 1], doc[i])
  <2>1. \A i \in 1 .. n : f[i - 1] \in Results
    <3>1. \A i \in 1 .. n : i - 1 \in 0 .. n
      BY <1>0
    <3> QED
      BY <1>2, <3>1
  <2> QED
    BY <1>2, <2>1
<1> HIDE DEF F
<1>4. Is(f)
  <2> DEFINE h == [i \in 0 .. n |-> IF i = 0 THEN <<>> ELSE Expanded(f[i - 1], doc[i])]
  <2>1. ASSUME NEW i \in 0 .. n PROVE f[i] = h[i]
    <3>1. CASE i = 0
      BY <1>2, <3>1
    <3>2. CASE i # 0
      <4>1. i \in 1 .. n
        BY <1>0, <3>2
      <4> QED
        BY <1>3, <3>2, <4>1
    <3> QED
      BY <3>1, <3>2
  <2>2. f = [i \in 0 .. n |-> f[i]] /\ h = [i \in 0 .. n |-> h[i]]
    BY <1>2
  <2>3. f = h
    BY <2>1, <2>2
  <2> QED
    BY <2>3
<1>5. Is(U)
  <2> HIDE DEF Is
  <2> QED
    BY <1>4
<1>6. loadProgramsConf(doc) = IF U[n] = <<>> THEN Rejected ELSE U[n]
  BY DEF loadProgramsConf
<1> HIDE DEF U
<1>7. U[0] = <<>>
  <2>1. 0 \in 0 .. n
    BY <1>0
  <2> QED
    BY <1>5, <2>1
<1>8. ASSUME NEW i \in 1 .. n PROVE U[i] = Expanded(U[i - 1], doc[i])
  <2>1. i \in 0 .. n /\ i # 0
    BY <1>0
  <2> QED
    BY <1>5, <2>1
<1> QED
  BY <1>6, <1>7, <1>8

\* The first i entries are those of a good document.
GoodFront(doc, i) ==
    /\ \A j \in 1 .. i : GoodEntry(doc[j])
    /\ \A j, k \in 1 .. i : doc[j].key = doc[k].key => j = k

\* s is what they ask for: nothing but their instances, all of them, each once.
AskedFor(doc, i, s) ==
    /\ s \in Seq(Programs)
    /\ \A m \in 1 .. Len(s) : \E j \in 1 .. i : \E k \in 0 .. Count(doc[j]) - 1 :
         s[m] = Nth(parseProgram(doc[j]), k)
    /\ \A j \in 1 .. i : \A k \in 0 .. Count(doc[j]) - 1 : \E m \in 1 .. Len(s) :
         s[m].name = <<doc[j].key, k>>
    /\ \A m, q \in 1 .. Len(s) : s[m].name = s[q].name => m = q

LEMMA NthName ==
    ASSUME NEW e \in Entries, GoodEntry(e), NEW k \in 0 .. Count(e) - 1
    PROVE  /\ Nth(parseProgram(e), k).name = <<e.key, k>>
           /\ Nth(parseProgram(e), k).cmd = e.cmd
           /\ Nth(parseProgram(e), k).autorestart = Given(e.autorestart, "unexpected")
<1> DEFINE b == parseProgram(e)
<1>1. /\ IsBase(b) /\ b.name[1] = e.key /\ b.cmd = e.cmd
      /\ b.autorestart = Given(e.autorestart, "unexpected") /\ k \in Nat
  BY GoodParses
<1>2. b \in Programs
  BY <1>1 DEF IsBase
<1> HIDE DEF b
<1> DEFINE r == [b EXCEPT !.name = <<b.name[1], k>>]
<1>3. r.name = <<b.name[1], k>> /\ r.cmd = b.cmd /\ r.autorestart = b.autorestart
  BY <1>2 DEF Programs
<1>4. Nth(b, k) = r
  BY DEF Nth
<1> HIDE DEF r
<1> QED
  BY <1>1, <1>3, <1>4 DEF b

\* A name of the new entry is taken exactly when its key was there before.
LEMMA TakenIffSameKey ==
    ASSUME NEW doc \in Seq(Entries), NEW i \in 1 .. Len(doc), NEW s,
           GoodFront(doc, i - 1), AskedFor(doc, i - 1, s), GoodEntry(doc[i])
    PROVE  Taken(s, parseProgram(doc[i]), Count(doc[i])) <=>
             \E j \in 1 .. i - 1 : doc[j].key = doc[i].key
<1> DEFINE b == parseProgram(doc[i])
           n == Count(doc[i])
<1>1. i \in Nat /\ i - 1 \in Nat /\ Len(doc) \in Nat /\ \A j \in 1 .. i : doc[j] \in Entries
  <2>1. Len(doc) \in Nat
    BY LenProperties
  <2>2. i \in Nat /\ i - 1 \in Nat /\ \A j \in 1 .. i : j \in 1 .. Len(doc)
    BY <2>1
  <2> QED
    BY <2>1, <2>2, ElementOfSeq
<1>2. doc[i] \in Entries
  BY <1>1
<1>3. b.name[1] = doc[i].key /\ n \in Nat \ {0}
  BY <1>2, GoodParses
<1> HIDE DEF b, n
<1>4. ASSUME Taken(s, b, n) PROVE \E j \in 1 .. i - 1 : doc[j].key = doc[i].key
  <2>1. PICK m \in 1 .. Len(s), k \in 0 .. n - 1 : s[m].name = <<b.name[1], k>>
    BY <1>4 DEF Taken
  <2>2. PICK j \in 1 .. i - 1 : \E l \in 0 .. Count(doc[j]) - 1 : s[m] = Nth(parseProgram(doc[j]), l)
    BY DEF AskedFor
  <2>3. PICK l \in 0 .. Count(doc[j]) - 1 : s[m] = Nth(parseProgram(doc[j]), l)
    BY <2>2
  <2>4. doc[j] \in Entries /\ GoodEntry(doc[j])
    <3>1. j \in 1 .. i
      BY <1>1
    <3> QED
      BY <1>1, <3>1 DEF GoodFront
  <2>5. s[m].name = <<doc[j].key, l>>
    BY <2>3, <2>4, NthName
  <2>6. <<doc[j].key, l>> = <<doc[i].key, k>>
    BY <1>3, <2>1, <2>5
  <2> QED
    BY <2>6
<1>5. ASSUME NEW j \in 1 .. i - 1, doc[j].key = doc[i].key PROVE Taken(s, b, n)
  <2>1. doc[j] \in Entries /\ GoodEntry(doc[j])
    <3>1. j \in 1 .. i
      BY <1>1
    <3> QED
      BY <1>1, <3>1 DEF GoodFront
  <2>2. Count(doc[j]) \in Nat \ {0}
    BY <2>1, GoodParses
  <2>3. 0 \in 0 .. Count(doc[j]) - 1 /\ 0 \in 0 .. n - 1
    BY <1>3, <2>2
  <2>4. PICK m \in 1 .. Len(s) : s[m].name = <<doc[j].key, 0>>
    BY <2>3 DEF AskedFor
  <2> QED
    BY <1>3, <1>5, <2>3, <2>4 DEF Taken
<1> QED
  BY <1>4, <1>5 DEF b, n

LEMMA OneMoreEntry ==
    ASSUME NEW doc \in Seq(Entries), NEW i \in 1 .. Len(doc), NEW s,
           GoodFront(doc, i - 1), AskedFor(doc, i - 1, s), GoodFront(doc, i)
    PROVE  AskedFor(doc, i, Extended(s, parseProgram(doc[i]), Count(doc[i])))
<1> DEFINE e == doc[i]
           b == parseProgram(e)
           n == Count(e)
           l == Len(s)
           y == Extended(s, b, n)
<1>1. i \in Nat /\ i - 1 \in Nat /\ Len(doc) \in Nat /\ \A j \in 1 .. i : doc[j] \in Entries
  <2>1. Len(doc) \in Nat
    BY LenProperties
  <2>2. i \in Nat /\ i - 1 \in Nat /\ \A j \in 1 .. i : j \in 1 .. Len(doc)
    BY <2>1
  <2> QED
    BY <2>1, <2>2, ElementOfSeq
<1>2. e \in Entries /\ GoodEntry(e) /\ s \in Seq(Programs) /\ i \in 1 .. i
  BY <1>1 DEF GoodFront, AskedFor
<1>3. IsBase(b) /\ n \in Nat \ {0} /\ b.name[1] = e.key
  BY <1>2, GoodParses
<1>4. l \in Nat
  BY <1>2, LenProperties
<1>5. y \in Seq(Programs) /\ Len(y) = l + n
  <2>1. n \in Nat
    BY <1>3
  <2> HIDE DEF b, n
  <2> QED
    BY <1>2, <1>3, <2>1, ExtendedType
<1>6. \A m \in 1 .. l + n : y[m] = IF m <= l THEN s[m] ELSE Nth(b, m - l - 1)
  BY DEF Extended
<1>7. ~Taken(s, b, n)
  <2>1. ASSUME NEW j \in 1 .. i - 1 PROVE doc[j].key # doc[i].key
    <3>1. j \in 1 .. i /\ j # i
      BY <1>1
    <3> QED
      BY <1>2, <3>1 DEF GoodFront
  <2>2. ~\E j \in 1 .. i - 1 : doc[j].key = doc[i].key
    BY <2>1
  <2> QED
    BY <1>2, <2>2, TakenIffSameKey
<1>8. ASSUME NEW k \in 0 .. n - 1 PROVE Nth(b, k).name = <<e.key, k>>
  BY <1>2, NthName
<1> HIDE DEF b, n, l, y, e
<1>9. ASSUME NEW m \in 1 .. l + n
      PROVE  \/ m \in 1 .. l /\ y[m] = s[m]
             \/ /\ m \notin 1 .. l /\ m - l - 1 \in 0 .. n - 1 /\ y[m] = Nth(b, m - l - 1)
                /\ y[m].name = <<e.key, m - l - 1>>
  <2>1. CASE m <= l
    BY <1>3, <1>4, <1>6, <2>1
  <2>2. CASE ~(m <= l)
    <3>1. m \notin 1 .. l /\ m - l - 1 \in 0 .. n - 1
      BY <1>3, <1>4, <2>2
    <3>2. y[m] = Nth(b, m - l - 1)
      BY <1>6, <2>2
    <3> QED
      BY <1>8, <3>1, <3>2
  <2> QED
    BY <2>1, <2>2
<1>10. ASSUME NEW m \in 1 .. Len(y)
       PROVE  \E j \in 1 .. i : \E k \in 0 .. Count(doc[j]) - 1 :
                y[m] = Nth(parseProgram(doc[j]), k)
  <2>1. m \in 1 .. l + n
    BY <1>5
  <2>2. CASE m \in 1 .. l /\ y[m] = s[m]
    <3>1. PICK j \in 1 .. i - 1 : \E k \in 0 .. Count(doc[j]) - 1 :
            s[m] = Nth(parseProgram(doc[j]), k)
      BY <2>2 DEF AskedFor, l
    <3>2. j \in 1 .. i
      BY <1>1
    <3> QED
      BY <2>2, <3>1, <3>2
  <2>3. CASE m - l - 1 \in 0 .. n - 1 /\ y[m] = Nth(b, m - l - 1)
    BY <1>2, <2>3 DEF b, n, e
  <2> QED
    BY <1>9, <2>1, <2>2, <2>3
<1>11. ASSUME NEW j \in 1 .. i, NEW k \in 0 .. Count(doc[j]) - 1
       PROVE  \E m \in 1 .. Len(y) : y[m].name = <<doc[j].key, k>>
  <2>1. CASE j = i
    <3>1. k \in 0 .. n - 1
      BY <2>1 DEF n, e
    <3> DEFINE m == l + k + 1
    <3>2. m \in 1 .. l + n /\ m - l - 1 = k /\ m \notin 1 .. l
      BY <1>3, <1>4, <3>1
    <3> HIDE DEF m
    <3>3. y[m].name = <<e.key, k>>
      BY <1>9, <3>2
    <3> QED
      BY <1>5, <2>1, <3>2, <3>3 DEF e
  <2>2. CASE j # i
    <3>1. j \in 1 .. i - 1
      BY <1>1, <2>2
    <3>2. PICK m \in 1 .. l : s[m].name = <<doc[j].key, k>>
      BY <3>1 DEF AskedFor, l
    <3>3. m \in 1 .. l + n
      BY <1>3, <1>4
    <3>4. y[m] = s[m]
      BY <1>9, <3>3
    <3> QED
      BY <1>5, <3>2, <3>3, <3>4
  <2> QED
    BY <2>1, <2>2
<1>12. ASSUME NEW m \in 1 .. l, NEW q \in 1 .. l + n, q \notin 1 .. l, y[q].name = s[m].name
       PROVE  FALSE
  <2>1. q - l - 1 \in 0 .. n - 1 /\ y[q].name = <<e.key, q - l - 1>>
    BY <1>9, <1>12
  <2> QED
    BY <1>3, <1>7, <1>12, <2>1 DEF Taken, l
<1>13. ASSUME NEW m \in 1 .. Len(y), NEW q \in 1 .. Len(y), y[m].name = y[q].name
       PROVE  m = q
  <2>1. m \in 1 .. l + n /\ q \in 1 .. l + n
    BY <1>5
  <2>2. CASE m \in 1 .. l /\ q \in 1 .. l
    <3>1. y[m] = s[m] /\ y[q] = s[q]
      BY <1>9, <2>1, <2>2
    <3> QED
      BY <1>13, <2>2, <3>1 DEF AskedFor, l
  <2>3. CASE m \in 1 .. l /\ q \notin 1 .. l
    <3>1. y[m] = s[m]
      BY <1>9, <2>1, <2>3
    <3> QED
      BY <1>12, <1>13, <2>1, <2>3, <3>1
  <2>4. CASE m \notin 1 .. l /\ q \in 1 .. l
    <3>1. y[q] = s[q]
      BY <1>9, <2>1, <2>4
    <3> QED
      BY <1>12, <1>13, <2>1, <2>4, <3>1
  <2>5. CASE m \notin 1 .. l /\ q \notin 1 .. l
    <3>1. <<e.key, m - l - 1>> = <<e.key, q - l - 1>>
      BY <1>9, <1>13, <2>1, <2>5
    <3>2. m - l - 1 = q - l - 1
      BY <3>1
    <3> QED
      BY <1>4, <2>1, <3>2
  <2> QED
    BY <2>2, <2>3, <2>4, <2>5
<1>14. AskedFor(doc, i, y)
  BY <1>5, <1>10, <1>11, <1>13 DEF AskedFor
<1> QED
  BY <1>14 DEF y, b, n, e

\* One turn of the loop over the entries.
LEMMA EntryRead ==
    ASSUME NEW doc \in Seq(Entries), NEW i \in 1 .. Len(doc), NEW s,
           IF GoodFront(doc, i - 1) THEN AskedFor(doc, i - 1, s) ELSE s = Rejected
    PROVE  IF GoodFront(doc, i) THEN AskedFor(doc, i, Expanded(s, doc[i]))
                                ELSE Expanded(s, doc[i]) = Rejected
<1>1. i \in Nat /\ i - 1 \in Nat /\ \A j \in 1 .. i - 1 : j \in 1 .. i
  <2>1. Len(doc) \in Nat
    BY LenProperties
  <2> QED
    BY <2>1
<1>2. doc[i] \in Entries
  BY ElementOfSeq
<1>3. CASE ~GoodFront(doc, i - 1)
  <2>1. ~GoodFront(doc, i)
    BY <1>1, <1>3 DEF GoodFront
  <2>2. Expanded(s, doc[i]) = Rejected
    BY <1>3 DEF Expanded
  <2> QED
    BY <2>1, <2>2
<1>4. CASE GoodFront(doc, i - 1) /\ ~GoodEntry(doc[i])
  <2>1. ~GoodFront(doc, i)
    BY <1>1, <1>4 DEF GoodFront
  <2>2. Expanded(s, doc[i]) = Rejected
    BY <1>2, <1>4, BadRejected
  <2> QED
    BY <2>1, <2>2
<1>5. CASE GoodFront(doc, i - 1) /\ GoodEntry(doc[i])
  <2> DEFINE b == parseProgram(doc[i])
             n == Count(doc[i])
  <2>1. AskedFor(doc, i - 1, s) /\ s \in Seq(Programs)
    BY <1>5 DEF AskedFor
  <2>2. Expanded(s, doc[i]) = IF Taken(s, b, n) THEN Rejected ELSE Extended(s, b, n)
    BY <1>2, <1>5, <2>1, GoodExpanded
  <2>3. Taken(s, b, n) <=> \E j \in 1 .. i - 1 : doc[j].key = doc[i].key
    BY <1>5, <2>1, TakenIffSameKey
  <2>4. GoodFront(doc, i) <=> ~\E j \in 1 .. i - 1 : doc[j].key = doc[i].key
    <3>1. ASSUME NEW j \in 1 .. i - 1, doc[j].key = doc[i].key PROVE ~GoodFront(doc, i)
      <4>1. j \in 1 .. i /\ i \in 1 .. i /\ j # i
        BY <1>1
      <4> QED
        BY <3>1, <4>1 DEF GoodFront
    <3>2. ASSUME ~\E j \in 1 .. i - 1 : doc[j].key = doc[i].key PROVE GoodFront(doc, i)
      <4>1. \A j \in 1 .. i : j = i \/ j \in 1 .. i - 1
        BY <1>1
      <4>2. \A j \in 1 .. i : GoodEntry(doc[j])
        BY <1>5, <4>1 DEF GoodFront
      <4>3. \A j, k \in 1 .. i : doc[j].key = doc[k].key => j = k
        BY <1>5, <3>2, <4>1 DEF GoodFront
      <4> QED
        BY <4>2, <4>3 DEF GoodFront
    <3> QED
      BY <3>1, <3>2
  <2>5. GoodFront(doc, i) => AskedFor(doc, i, Extended(s, b, n))
    BY <1>5, <2>1, OneMoreEntry
  <2> HIDE DEF b, n
  <2> QED
    BY <2>2, <2>3, <2>4, <2>5
<1> QED
  BY <1>3, <1>4, <1>5

LEMMA DocumentRead ==
    ASSUME NEW doc \in Seq(Entries), doc # Broken
    PROVE  IF GoodFront(doc, Len(doc)) /\ doc # <<>>
           THEN AskedFor(doc, Len(doc), loadProgramsConf(doc))
           ELSE loadProgramsConf(doc) = Rejected
<1> DEFINE n == Len(doc)
<1>1. n \in Nat /\ (n = 0 <=> doc = <<>>)
  BY LenProperties, EmptySeq
<1>2. PICK f : /\ f[0] = <<>> /\ \A i \in 1 .. n : f[i] = Expanded(f[i - 1], doc[i])
               /\ loadProgramsConf(doc) = IF f[n] = <<>> THEN Rejected ELSE f[n]
  BY LoadRuns
<1> DEFINE Right(i) == IF GoodFront(doc, i) THEN AskedFor(doc, i, f[i]) ELSE f[i] = Rejected
           S == {i \in 0 .. n : ~Right(i)}
<1>3. Right(n)
  <2> SUFFICES ASSUME ~Right(n) PROVE FALSE
    OBVIOUS
  <2>1. S # {} /\ S \in SUBSET Nat
    BY <1>1
  <2>2. PICK m \in S : \A k \in S : m <= k
    <3> HIDE DEF S
    <3> QED
      BY <2>1, LeastNumber
  <2>3. m \in 0 .. n /\ ~Right(m)
    BY <2>2
  <2>4. CASE m = 0
    <3>1. <<>> \in Seq(Programs) /\ Len(<<>>) = 0
      BY EmptySeq
    <3>2. AskedFor(doc, 0, <<>>)
      BY <3>1 DEF AskedFor
    <3>3. GoodFront(doc, 0)
      BY DEF GoodFront
    <3> QED
      BY <1>2, <2>3, <2>4, <3>2, <3>3
  <2>5. CASE m # 0
    <3>1. m - 1 \in 0 .. n /\ ~(m <= m - 1) /\ m \in 1 .. n
      BY <1>1, <2>3, <2>5
    <3>2. Right(m - 1) /\ f[m] = Expanded(f[m - 1], doc[m])
      BY <1>2, <2>2, <3>1
    <3>3. IF GoodFront(doc, m) THEN AskedFor(doc, m, Expanded(f[m - 1], doc[m]))
                               ELSE Expanded(f[m - 1], doc[m]) = Rejected
      BY <3>1, <3>2, EntryRead
    <3> QED
      BY <2>3, <3>2, <3>3
  <2> QED
    BY <2>4, <2>5
<1>4. CASE ~GoodFront(doc, n)
  BY <1>2, <1>3, <1>4
<1>5. CASE doc = <<>>
  BY <1>1, <1>2, <1>5
<1>6. CASE GoodFront(doc, n) /\ doc # <<>>
  <2>1. AskedFor(doc, n, f[n])
    BY <1>3, <1>6
  <2>2. f[n] # <<>>
    <3>1. 1 \in 1 .. n /\ doc[1] \in Entries
      <4>1. 1 \in 1 .. n
        BY <1>1, <1>6
      <4> QED
        BY <4>1, ElementOfSeq
    <3>2. Count(doc[1]) \in Nat \ {0}
      BY <1>6, <3>1, GoodParses DEF GoodFront
    <3>3. 0 \in 0 .. Count(doc[1]) - 1
      BY <3>2
    <3>4. \E m \in 1 .. Len(f[n]) : f[n][m].name = <<doc[1].key, 0>>
      BY <2>1, <3>1, <3>3 DEF AskedFor
    <3> QED
      BY <3>4, EmptySeq
  <2> QED
    BY <1>2, <1>6, <2>1, <2>2
<1> QED
  BY <1>4, <1>5, <1>6

\* What is asked for is what README.md describes.
LEMMA Described ==
    ASSUME NEW doc \in Seq(Entries), NEW s, GoodFront(doc, Len(doc)), AskedFor(doc, Len(doc), s)
    PROVE  Describes(s, doc)
<1> DEFINE n == Len(doc)
<1>1. /\ n \in Nat /\ DOMAIN doc = 1 .. n /\ DOMAIN s = 1 .. Len(s)
      /\ \A j \in 1 .. n : doc[j] \in Entries /\ GoodEntry(doc[j])
  BY LenProperties, ElementOfSeq DEF GoodFront, AskedFor
<1>2. ASSUME NEW m \in 1 .. Len(s)
      PROVE  \E j \in 1 .. n : \E k \in 0 .. Count(doc[j]) - 1 :
               /\ s[m].name = <<doc[j].key, k>> /\ s[m].cmd = doc[j].cmd
               /\ s[m].autorestart = Given(doc[j].autorestart, "unexpected")
  <2>1. PICK j \in 1 .. n : \E k \in 0 .. Count(doc[j]) - 1 : s[m] = Nth(parseProgram(doc[j]), k)
    BY DEF AskedFor
  <2>2. PICK k \in 0 .. Count(doc[j]) - 1 : s[m] = Nth(parseProgram(doc[j]), k)
    BY <2>1
  <2>3. doc[j] \in Entries /\ GoodEntry(doc[j])
    BY <1>1
  <2>4. /\ s[m].name = <<doc[j].key, k>> /\ s[m].cmd = doc[j].cmd
        /\ s[m].autorestart = Given(doc[j].autorestart, "unexpected")
    BY <2>2, <2>3, NthName
  <2> QED
    BY <2>4
<1>3. {s[m].name : m \in DOMAIN s} = Instances(doc)
  <2>1. ASSUME NEW m \in DOMAIN s PROVE s[m].name \in Instances(doc)
    <3>1. PICK j \in 1 .. n : \E k \in 0 .. Count(doc[j]) - 1 : s[m].name = <<doc[j].key, k>>
      BY <1>1, <1>2
    <3> QED
      BY <1>1, <3>1 DEF Instances, Count
  <2>2. ASSUME NEW x \in Instances(doc) PROVE \E m \in DOMAIN s : s[m].name = x
    <3>1. PICK j \in 1 .. n : \E k \in 0 .. Count(doc[j]) - 1 : x = <<doc[j].key, k>>
      BY <1>1, <2>2 DEF Instances, Count
    <3>2. PICK k \in 0 .. Count(doc[j]) - 1 : x = <<doc[j].key, k>>
      BY <3>1
    <3>3. PICK m \in 1 .. Len(s) : s[m].name = <<doc[j].key, k>>
      BY DEF AskedFor
    <3> QED
      BY <1>1, <3>2, <3>3
  <2> QED
    BY <2>1, <2>2
<1>4. \A m, q \in DOMAIN s : s[m].name = s[q].name => m = q
  BY <1>1 DEF AskedFor
<1>5. ASSUME NEW m \in DOMAIN s, NEW j \in DOMAIN doc, doc[j].key = s[m].name[1]
      PROVE  /\ s[m].cmd = doc[j].cmd
             /\ s[m].autorestart = Given(doc[j].autorestart, "unexpected")
  <2>1. PICK l \in 1 .. n : \E k \in 0 .. Count(doc[l]) - 1 :
               /\ s[m].name = <<doc[l].key, k>> /\ s[m].cmd = doc[l].cmd
               /\ s[m].autorestart = Given(doc[l].autorestart, "unexpected")
    BY <1>1, <1>2
  <2>2. s[m].name[1] = doc[l].key
    BY <2>1
  <2>3. j = l
    BY <1>1, <1>5, <2>2 DEF GoodFront
  <2> QED
    BY <2>1, <2>3
<1> QED
  BY <1>3, <1>4, <1>5 DEF Describes

LEMMA ReadsRight ==
    ASSUME NEW doc \in Documents PROVE ReadRight(doc, loadProgramsConf(doc))
<1> DEFINE s == loadProgramsConf(doc)
<1>1. CASE doc = Broken
  BY <1>1 DEF loadProgramsConf, ReadRight, GoodDocument
<1>2. CASE doc # Broken /\ doc \in Seq(Entries)
  <2>1. DOMAIN doc = 1 .. Len(doc)
    BY <1>2, LenProperties
  <2>2. GoodDocument(doc) <=> GoodFront(doc, Len(doc)) /\ doc # <<>>
    BY <1>2, <2>1 DEF GoodDocument, GoodFront
  <2>3. IF GoodDocument(doc) THEN AskedFor(doc, Len(doc), s) ELSE s = Rejected
    BY <1>2, <2>2, DocumentRead
  <2> HIDE DEF s
  <2>4. GoodDocument(doc) => s # Rejected /\ Describes(s, doc)
    <3>1. SUFFICES ASSUME GoodDocument(doc) PROVE s # Rejected /\ Describes(s, doc)
      OBVIOUS
    <3>2. GoodFront(doc, Len(doc)) /\ AskedFor(doc, Len(doc), s)
      BY <2>2, <2>3, <3>1
    <3>3. s # Rejected
      BY <3>2, RejectedAssumption DEF AskedFor
    <3> QED
      BY <1>2, <3>2, <3>3, Described
  <2> QED
    BY <2>3, <2>4 DEF ReadRight, s
<1> QED
  BY <1>1, <1>2, DocumentsAssumption

-----------------------------------------------------------------------------
(* What was loaded *)

LoadInv == load # NoLoad => load.doc \in Documents /\ load.result = loadProgramsConf(load.doc)

LEMMA LoadInvariance == Spec => []LoadInv
<1>1. Init => LoadInv
  BY DEF Init, LoadInv
<1>2. LoadInv /\ [Next]_vars => LoadInv'
  <2> SUFFICES ASSUME LoadInv, [Next]_vars PROVE LoadInv'
    OBVIOUS
  <2>1. CASE NothingLoaded
    BY <2>1 DEF NothingLoaded, LoadInv
  <2>2. ASSUME NEW doc \in Documents, load' = [doc |-> doc, result |-> Outcome[doc]]
        PROVE  LoadInv'
    BY <2>2 DEF LoadInv, Outcome
  <2>3. CASE UNCHANGED vars
    BY <2>3 DEF vars, LoadInv
  <2>4. CASE \E d \in Loggers : LoadFirst(d) \/ ReadAgain(d)
    <3>1. PICK doc \in Documents : load' = [doc |-> doc, result |-> Outcome[doc]]
      BY <2>4 DEF LoadFirst, ReadAgain, Loads
    <3> QED
      BY <2>2, <3>1
  <2>5. ASSUME NEW d \in Loggers, Start(d) \/ Shutdown(d) \/ Kill(d) PROVE NothingLoaded
    BY <2>5 DEF Start, Shutdown, Kill
  <2>6. ASSUME NEW d \in Loggers, Main(d), ~(LoadFirst(d) \/ ReadAgain(d)) PROVE NothingLoaded
    BY <2>6 DEF Main, daemonize, UnlinkPath, bindSocket, listenSocket, InitThrows, Serve,
                doReload, Destroy, Catch, Exit
  <2>7. CASE RemoveLog
    BY <2>1, <2>7 DEF RemoveLog
  <2> QED
    BY <2>1, <2>3, <2>4, <2>5, <2>6, <2>7 DEF Next
<1> QED
  BY <1>1, <1>2, PTL DEF Spec

(* A config file of any length is taken whole or not at all, at the start and   *)
(* at each reload: loadProgramsConf makes of a good one exactly the instances   *)
(* its entries ask for, each once and with the command of its entry, however    *)
(* entries and indices meet, and rejects every other one.                       *)
THEOREM FileTakenWhole == Spec => []TakenWhole
<1>1. ASSUME LoadInv, load # NoLoad PROVE ReadRight(load.doc, load.result)
  <2>1. load.doc \in Documents /\ load.result = loadProgramsConf(load.doc)
    BY <1>1 DEF LoadInv
  <2> QED
    BY <2>1, ReadsRight
<1>2. LoadInv => TakenWhole
  BY <1>1 DEF TakenWhole
<1> QED
  BY <1>2, LoadInvariance, PTL
=============================================================================
