---------------------------- MODULE OutputProofs -----------------------------
(***************************************************************************)
(* Theorems about the descriptors and the output of the programs, for any  *)
(* number of programs, launches and descriptors.                           *)
(***************************************************************************)
EXTENDS Output, FiniteSetTheorems, SequenceTheorems, TLAPS

-----------------------------------------------------------------------------
(* The numbers the kernel hands out *)

LEMMA LeastNumber ==
    ASSUME NEW S \in SUBSET Nat, S # {}
    PROVE  \E m \in S : \A k \in S : m <= k
<1> DEFINE R == OpToRel(<, Nat)
<1>1. IsWellFoundedOn(R, Nat)
  BY NatLessThanWellFounded
<1>2. \A x, y \in Nat : <<y, x>> \in R <=> y < x
  BY DEF OpToRel
<1> HIDE DEF R
<1>3. PICK m \in S : \A k \in S : <<k, m>> \notin R
  BY <1>1, WFMin
<1>4. ASSUME NEW k \in S PROVE m <= k
  <2>1. m \in Nat /\ k \in Nat
    OBVIOUS
  <2>2. ~(k < m)
    BY <1>2, <1>3, <2>1
  <2> QED
    BY <2>1, <2>2
<1> QED
  BY <1>4

\* The numbers of S below d.
Below(S, d) == {e \in S : e < d}

LEMMA BelowFinite ==
    ASSUME NEW S \in SUBSET Nat, IsFiniteSet(S), NEW d
    PROVE  IsFiniteSet(Below(S, d)) /\ Cardinality(Below(S, d)) \in Nat
<1>1. Below(S, d) \in SUBSET S
  BY DEF Below
<1> QED
  BY <1>1, FS_Subset, FS_CardinalityType

\* From one number of S to the next.
LEMMA NextNumber ==
    ASSUME NEW S \in SUBSET Nat, IsFiniteSet(S), NEW d \in S,
           Cardinality(Below(S, d)) + 1 < Cardinality(S)
    PROVE  \E e \in S : Cardinality(Below(S, e)) = Cardinality(Below(S, d)) + 1
<1> DEFINE upTo == Below(S, d) \cup {d}
           rest == S \ upTo
<1>1. d \notin Below(S, d)
  BY DEF Below
<1>2. IsFiniteSet(upTo) /\ Cardinality(upTo) = Cardinality(Below(S, d)) + 1
  BY <1>1, BelowFinite, FS_AddElement
<1>3. rest # {}
  <2>1. CASE rest = {}
    <3>1. S = upTo
      BY <2>1 DEF Below
    <3> QED
      BY <1>2, <3>1, BelowFinite
  <2> QED
    BY <2>1
<1>4. rest \in SUBSET Nat
  OBVIOUS
<1>5. PICK e \in rest : \A k \in rest : e <= k
  <2> HIDE DEF rest
  <2> QED
    BY <1>3, <1>4, LeastNumber
<1>6. Below(S, e) = upTo
  <2>1. ASSUME NEW k \in S PROVE k < e <=> k \in upTo
    <3>1. k \in Nat /\ d \in Nat /\ e \in Nat
      OBVIOUS
    <3>2. k \in upTo <=> k <= d
      BY <3>1 DEF Below
    <3>3. ~(e <= d)
      BY <3>1 DEF Below
    <3>4. k \notin upTo => e <= k
      BY <1>5
    <3> QED
      BY <3>1, <3>2, <3>3, <3>4
  <2>2. upTo \subseteq S
    BY DEF Below
  <2> HIDE DEF upTo
  <2> QED
    BY <2>1, <2>2 DEF Below
<1> QED
  BY <1>2, <1>6

\* A finite set of numbers has an i-th one, and no two.
LEMMA NumberExists ==
    ASSUME NEW S \in SUBSET Nat, IsFiniteSet(S), NEW i \in Nat, 1 <= i, i <= Cardinality(S)
    PROVE  \E d \in S : Cardinality(Below(S, d)) = i - 1
<1> DEFINE Missing == {j \in 1 .. Cardinality(S) :
                         ~ \E d \in S : Cardinality(Below(S, d)) = j - 1}
<1>0. Cardinality(S) \in Nat
  BY FS_CardinalityType
<1>1. ASSUME Missing # {} PROVE FALSE
  <2>1. PICK j \in Missing : \A k \in Missing : j <= k
    <3>1. Missing \in SUBSET Nat
      BY <1>0
    <3> HIDE DEF Missing
    <3> QED
      BY <1>1, <3>1, LeastNumber
  <2>2. j \in 1 .. Cardinality(S) /\ ~ \E d \in S : Cardinality(Below(S, d)) = j - 1
    OBVIOUS
  <2>3. CASE j = 1
    <3>1. S # {}
      BY <1>0, <2>2, FS_EmptySet
    <3>2. PICK m \in S : \A k \in S : m <= k
      BY <3>1, LeastNumber
    <3>3. Below(S, m) = {}
      <4>1. \A k \in S : k \in Nat /\ m \in Nat /\ ~(k < m)
        BY <3>2
      <4> QED
        BY <4>1 DEF Below
    <3> QED
      BY <2>2, <2>3, <3>3, FS_EmptySet
  <2>4. CASE j # 1
    <3>1. j - 1 \in 1 .. Cardinality(S) /\ ~(j <= j - 1)
      BY <1>0, <2>2, <2>4
    <3>2. PICK d \in S : Cardinality(Below(S, d)) = (j - 1) - 1
      BY <2>1, <3>1
    <3>3. Cardinality(Below(S, d)) + 1 = j - 1 /\ j - 1 < Cardinality(S)
      BY <1>0, <2>2, <3>1, <3>2
    <3> QED
      BY <2>2, <3>3, NextNumber
  <2> QED
    BY <2>3, <2>4
<1>2. i \in 1 .. Cardinality(S)
  BY <1>0
<1> QED
  BY <1>1, <1>2

LEMMA BelowGrows ==
    ASSUME NEW S \in SUBSET Nat, IsFiniteSet(S), NEW d \in S, NEW e \in S, d # e
    PROVE  Cardinality(Below(S, d)) # Cardinality(Below(S, e))
<1>1. ASSUME NEW x \in S, NEW y \in S, x < y
      PROVE  Cardinality(Below(S, x)) # Cardinality(Below(S, y))
  <2>1. Below(S, x) \in SUBSET Below(S, y)
    <3>1. \A z \in S : z < x => z < y
      <4>1. \A z \in S : z \in Nat /\ x \in Nat /\ y \in Nat
        OBVIOUS
      <4> QED
        BY <1>1, <4>1
    <3> QED
      BY <3>1 DEF Below
  <2>2. x \in Below(S, y) /\ x \notin Below(S, x)
    BY <1>1 DEF Below
  <2> QED
    BY <2>1, <2>2, BelowFinite, FS_Subset
<1>2. d \in Nat /\ e \in Nat
  OBVIOUS
<1>3. d < e \/ e < d
  BY <1>2
<1> QED
  BY <1>1, <1>3

\* What the i-th open(2) in a row returns is free, and never returned twice.
LEMMA LowestFree ==
    ASSUME NEW tab, NEW i \in Nat, 1 <= i
    PROVE  /\ i <= Cardinality(Free(tab)) => Lowest(tab, i) \in Free(tab)
           /\ Lowest(tab, i) \in Free(tab) \cup {NoFd}
           /\ Lowest(tab, i) # NoFd =>
                /\ Lowest(tab, i) \in Free(tab)
                /\ Cardinality(Below(Free(tab), Lowest(tab, i))) = i - 1
<1> DEFINE S == Free(tab)
<1>1. S \in SUBSET Nat /\ IsFiniteSet(S) /\ NoFd \notin S
  BY NumbersAssumption, TableAssumption, FS_Subset DEF Free
<1>2. Cardinality(S) \in Nat
  BY <1>1, FS_CardinalityType
<1> HIDE DEF S
<1>3. CASE i > Cardinality(S)
  BY <1>1, <1>2, <1>3 DEF Lowest, S
<1>4. CASE i <= Cardinality(S)
  <2>1. \E d \in S : Cardinality(Below(S, d)) = i - 1
    BY <1>1, <1>4, NumberExists
  <2>2. Lowest(tab, i) = CHOOSE d \in S : Cardinality(Below(S, d)) = i - 1
    <3>1. ~(i > Cardinality(Free(tab)))
      BY <1>2, <1>4 DEF S
    <3> QED
      BY <3>1, Zenon DEF Lowest, S, Below
  <2> QED
    BY <1>1, <1>4, <2>1, <2>2 DEF S
<1> QED
  BY <1>2, <1>3, <1>4

\* The descriptors of a launch: free numbers, no two the same.
LEMMA LaunchNumbers ==
    ASSUME NEW p \in Programs, NEW tab, createPipes(tab),
           NEW w \in BOOLEAN, NEW new, new = LaunchIO(p, tab, w)
    PROVE  /\ new \in [Kind -> Numbers \cup {NoFd}]
           /\ \A k \in Kind : new[k] # NoFd => tab[new[k]] = NoFile
           /\ \A k \in Stream : new[k] # NoFd
           /\ \A j, k \in Kind : j # k /\ new[j] # NoFd => new[j] # new[k]
           /\ \A s \in Stream : new[LogOf(s)] # NoFd => LogPath[p][s] # NoPath
<1> DEFINE free == Free(tab)
           first == IF w THEN 4 ELSE 2
           at(k) == CASE k = "out" -> 1 [] k = "err" -> 3 [] k = "pid" -> 2
                      [] k = "outlog" -> first
                      [] k = "errlog" -> IF LogPath[p]["out"] = NoPath THEN first
                                         ELSE IF w THEN 5 ELSE 4
<1>1. /\ new = [k \in Kind |-> new[k]]
      /\ \A k \in Kind : new[k] = NoFd \/ new[k] = Lowest(tab, at(k))
  <2>1. new = [k \in Kind |-> new[k]]
    BY DEF LaunchIO, Kind
  <2>2. /\ Further(tab, 1) = Lowest(tab, 2) /\ Further(tab, 2) = Lowest(tab, 4)
        /\ Further(tab, 3) = Lowest(tab, 5)
    BY DEF Further
  <2>3. new["out"] = Lowest(tab, 1) /\ new["err"] = Lowest(tab, 3)
    BY DEF LaunchIO
  <2>4. new["pid"] = NoFd \/ new["pid"] = Lowest(tab, 2)
    BY <2>2 DEF LaunchIO
  <2>5. new["outlog"] = NoFd \/ new["outlog"] = Further(tab, (IF w THEN 1 ELSE 0) + 0 + 1)
    BY DEF LaunchIO
  <2>6. \/ new["errlog"] = NoFd
        \/ new["errlog"] = Further(tab, (IF w THEN 1 ELSE 0)
                                        + (IF LogPath[p]["out"] # NoPath THEN 1 ELSE 0) + 1)
    BY DEF LaunchIO
  <2>7. new["outlog"] = NoFd \/ new["outlog"] = Lowest(tab, at("outlog"))
    BY <2>2, <2>5
  <2>8. new["errlog"] = NoFd \/ new["errlog"] = Lowest(tab, at("errlog"))
    <3>1. CASE LogPath[p]["out"] = NoPath
      BY <2>2, <2>6, <3>1
    <3>2. CASE LogPath[p]["out"] # NoPath
      BY <2>2, <2>6, <3>2
    <3> QED
      BY <3>1, <3>2
  <2> QED
    BY <2>1, <2>3, <2>4, <2>7, <2>8 DEF Kind
<1>2. \A k \in Kind : new[k] # NoFd =>
        new[k] \in free /\ Cardinality(Below(free, new[k])) = at(k) - 1
  <2> SUFFICES ASSUME NEW k \in Kind, new[k] # NoFd
               PROVE  new[k] \in free /\ Cardinality(Below(free, new[k])) = at(k) - 1
    OBVIOUS
  <2>1. at(k) \in Nat /\ 1 <= at(k)
    BY DEF Kind
  <2>2. new[k] = Lowest(tab, at(k))
    BY <1>1
  <2> HIDE DEF at
  <2> QED
    BY <2>1, <2>2, LowestFree
<1>3. \A k \in Stream : new[k] # NoFd
  <2>1. free \in SUBSET Numbers /\ IsFiniteSet(free) /\ 4 <= Cardinality(free)
    BY TableAssumption, FS_Subset DEF Free, createPipes
  <2>2. Cardinality(free) \in Nat
    BY <2>1, FS_CardinalityType
  <2>3. Lowest(tab, 1) \in free /\ Lowest(tab, 3) \in free
    BY <2>1, <2>2, LowestFree
  <2>4. NoFd \notin free
    BY <2>1, NumbersAssumption
  <2> QED
    BY <2>3, <2>4 DEF LaunchIO, Stream
\* A number that is not there takes no place among the ones that are.
<1>4. /\ new["pid"] # NoFd => w
      /\ \A s \in Stream : new[LogOf(s)] # NoFd => LogPath[p][s] # NoPath
  BY DEF LaunchIO, LogOf, Stream
<1>5. ASSUME NEW j \in Kind, NEW k \in Kind, j # k, new[j] # NoFd, new[j] = new[k]
      PROVE  FALSE
  <2>1. at(j) - 1 = at(k) - 1
    <3> HIDE DEF at
    <3> QED
      BY <1>2, <1>5
  <2>2. at(j) = at(k)
    BY <2>1 DEF Kind
  <2>3. /\ "pid" \in {j, k} => w
        /\ "outlog" \in {j, k} => LogPath[p]["out"] # NoPath
    BY <1>4, <1>5 DEF LogOf, Stream
  <2> QED
    BY <1>5, <2>2, <2>3 DEF Kind
<1> QED
  BY <1>1, <1>2, <1>3, <1>4, <1>5 DEF Free

-----------------------------------------------------------------------------
(* Who has which number, and what the loop watches *)

Loop == [interest : SUBSET [file : File, fd : Numbers],
         types    : [Numbers -> EventType \cup {NoType}]]

\* Owned and AllWatched of any table, loop and io, a method's own included.
FdsOK(tab, l, ios, counts) ==
    /\ tab \in [Numbers -> File \cup {NoFile}]
    /\ l \in Loop
    /\ ios \in [Programs -> [Kind -> Numbers \cup {NoFd}]]
    /\ \A d \in Numbers : tab[d] # NoFile =>
         /\ ios[tab[d].owner][tab[d].kind] = d
         /\ tab[d].launch = counts[tab[d].owner]
    /\ \A p \in Programs, k \in Kind : ios[p][k] # NoFd =>
         /\ tab[ios[p][k]] # NoFile
         /\ tab[ios[p][k]].owner = p /\ tab[ios[p][k]].kind = k
    /\ \A p \in Programs, k \in Stream \cup {"pid"} : ios[p][k] # NoFd =>
         /\ Registration(tab, ios[p][k]) \in l.interest
         /\ l.types[ios[p][k]] = TypeFor(k)

LEMMA FileFields ==
    /\ \A f \in File : /\ f.owner \in Programs /\ f.kind \in Kind
                       /\ f.launch \in 1 .. MaxLaunches[f.owner]
                       /\ f = [owner |-> f.owner, launch |-> f.launch, kind |-> f.kind]
    /\ \A p \in Programs, k \in Kind : \A i \in 1 .. MaxLaunches[p] :
         [owner |-> p, launch |-> i, kind |-> k] \in File
  BY DEF File

LEMMA NewFileType ==
    ASSUME NEW p \in Programs, NEW k \in Kind,
           launches[p] \in Nat, launches[p] < MaxLaunches[p]
    PROVE  NewFile(p, k) \in File /\ NewFile(p, k) # NoFile
<1>1. MaxLaunches[p] \in Nat
  BY BoundsAssumption
<1>2. launches[p] + 1 \in 1 .. MaxLaunches[p]
  BY <1>1
<1>3. [owner |-> p, launch |-> launches[p] + 1, kind |-> k] \in File
  BY <1>2 DEF File
<1> QED
  BY <1>3, FilesAssumption DEF NewFile

\* What close(2) makes the kernel forget is nothing that is still open.
LEMMA ForgottenOK ==
    ASSUME NEW tab, NEW l, NEW ios, NEW counts, FdsOK(tab, l, ios, counts), NEW cps
    PROVE  FdsOK(tab, Forgotten(l, HeldBy(tab, cps)), ios, counts)
<1> DEFINE m == Forgotten(l, HeldBy(tab, cps))
<1>1. /\ l \in Loop /\ m = [l EXCEPT !.interest = {r \in l.interest : r.file \in HeldBy(tab, cps)}]
  BY DEF FdsOK, Forgotten
<1>2. m \in Loop /\ m.types = l.types
      /\ m.interest = {r \in l.interest : r.file \in HeldBy(tab, cps)}
  BY <1>1 DEF Loop
<1> HIDE DEF m
<1>3. ASSUME NEW d \in Numbers, tab[d] # NoFile, Registration(tab, d) \in l.interest
      PROVE  Registration(tab, d) \in m.interest
  <2>1. tab[d] \in HeldBy(tab, cps)
    BY <1>3 DEF HeldBy, FilesOf
  <2> QED
    BY <1>2, <1>3, <2>1 DEF Registration
<1>4. ASSUME NEW p \in Programs, NEW k \in Stream \cup {"pid"}, ios[p][k] # NoFd
      PROVE  Registration(tab, ios[p][k]) \in m.interest /\ m.types[ios[p][k]] = TypeFor(k)
  <2>1. k \in Kind /\ ios[p][k] \in Numbers /\ tab[ios[p][k]] # NoFile
    BY <1>4 DEF FdsOK, Stream, Kind
  <2>2. Registration(tab, ios[p][k]) \in l.interest /\ l.types[ios[p][k]] = TypeFor(k)
    BY <1>4 DEF FdsOK
  <2> QED
    BY <1>2, <1>3, <2>1, <2>2
<1>5. FdsOK(tab, m, ios, counts)
  BY <1>2, <1>4 DEF FdsOK
<1> QED
  BY <1>5 DEF m

\* One descriptor of a program is closed, and taken out of the loop before.
LEMMA ClosedOK ==
    ASSUME NEW tab, NEW l, NEW ios, NEW counts, FdsOK(tab, l, ios, counts),
           NEW p \in Programs, NEW k \in Kind, ios[p][k] # NoFd
    PROVE  FdsOK(Without(tab, {ios[p][k]}), remove(l, tab, ios[p][k]),
                 [ios EXCEPT ![p][k] = NoFd], counts)
<1> DEFINE d == ios[p][k]
           t == Without(tab, {d})
           r == remove(l, tab, d)
           i == [ios EXCEPT ![p][k] = NoFd]
<1>1. /\ d \in Numbers /\ d # NoFd /\ tab[d] # NoFile
      /\ tab[d].owner = p /\ tab[d].kind = k
  BY DEF FdsOK
<1>2. /\ t \in [Numbers -> File \cup {NoFile}]
      /\ \A e \in Numbers : t[e] = IF e = d THEN NoFile ELSE tab[e]
  BY DEF FdsOK, Without
<1>3. /\ r \in Loop
      /\ r.interest = l.interest \ {Registration(tab, d)}
      /\ r.types = [l.types EXCEPT ![d] = NoType]
      /\ l.types \in [Numbers -> EventType \cup {NoType}]
  BY <1>1 DEF FdsOK, Loop, remove
<1>4. /\ i \in [Programs -> [Kind -> Numbers \cup {NoFd}]]
      /\ \A q \in Programs, j \in Kind :
           i[q][j] = IF q = p /\ j = k THEN NoFd ELSE ios[q][j]
  BY DEF FdsOK
<1> HIDE DEF t, r, i, d
<1>5. \A q \in Programs, j \in Kind : i[q][j] # NoFd =>
        i[q][j] = ios[q][j] /\ i[q][j] \in Numbers /\ i[q][j] # d
  BY <1>1, <1>4 DEF FdsOK
<1>6. ASSUME NEW e \in Numbers, t[e] # NoFile
      PROVE  i[t[e].owner][t[e].kind] = e /\ t[e].launch = counts[t[e].owner]
  <2>1. e # d /\ t[e] = tab[e] /\ tab[e] \in File
    BY <1>2, <1>6
  <2>2. /\ ios[tab[e].owner][tab[e].kind] = e /\ tab[e].launch = counts[tab[e].owner]
        /\ tab[e].owner \in Programs /\ tab[e].kind \in Kind
    BY <1>6, <2>1, FileFields DEF FdsOK
  <2> QED
    BY <1>4, <2>1, <2>2 DEF d
<1>7. ASSUME NEW q \in Programs, NEW j \in Kind, i[q][j] # NoFd
      PROVE  t[i[q][j]] # NoFile /\ t[i[q][j]].owner = q /\ t[i[q][j]].kind = j
  BY <1>2, <1>5, <1>7 DEF FdsOK
<1>8. ASSUME NEW q \in Programs, NEW j \in Stream \cup {"pid"}, i[q][j] # NoFd
      PROVE  Registration(t, i[q][j]) \in r.interest /\ r.types[i[q][j]] = TypeFor(j)
  <2>1. j \in Kind
    BY DEF Stream, Kind
  <2>2. i[q][j] = ios[q][j] /\ i[q][j] \in Numbers /\ i[q][j] # d
    BY <1>5, <1>8, <2>1
  <2>3. Registration(tab, ios[q][j]) \in l.interest /\ l.types[ios[q][j]] = TypeFor(j)
    BY <1>8, <2>2 DEF FdsOK
  <2>4. /\ Registration(t, i[q][j]) = Registration(tab, ios[q][j])
        /\ Registration(t, i[q][j]) # Registration(tab, d)
    BY <1>2, <2>2 DEF Registration
  <2> QED
    BY <1>3, <2>2, <2>3, <2>4
<1>9. FdsOK(t, r, i, counts)
  BY <1>2, <1>3, <1>4, <1>6, <1>7, <1>8 DEF FdsOK
<1> QED
  BY <1>9 DEF t, r, i, d

LEMMA AddedOK ==
    ASSUME NEW l \in Loop, NEW tab \in [Numbers -> File \cup {NoFile}],
           NEW new \in [Kind -> Numbers \cup {NoFd}],
           \A k \in Stream : new[k] # NoFd,
           \A k \in Kind : new[k] # NoFd => tab[new[k]] # NoFile,
           \A j, k \in Kind : j # k /\ new[j] # NoFd => new[j] # new[k]
    PROVE  LET m == Added(l, tab, new)
           IN  /\ m \in Loop /\ l.interest \subseteq m.interest
               /\ \A k \in Stream \cup {"pid"} : new[k] # NoFd =>
                    /\ Registration(tab, new[k]) \in m.interest
                    /\ m.types[new[k]] = TypeFor(k)
               /\ \A d \in Numbers : (\A k \in Kind : new[k] # d) => m.types[d] = l.types[d]
<1> DEFINE n == add(add(l, tab, new["out"], "ProcessOutputReady"),
                           tab, new["err"], "ProcessOutputReady")
           m == add(n, tab, new["pid"], "ProcessExited")
<1>0. Added(l, tab, new) = m
  BY DEF Added
<1>1. /\ new["out"] \in Numbers /\ new["err"] \in Numbers /\ new["pid"] \in Numbers \cup {NoFd}
      /\ new["out"] # new["err"] /\ new["out"] # new["pid"] /\ new["err"] # new["pid"]
      /\ new["out"] # NoFd /\ new["err"] # NoFd
  BY DEF Kind, Stream
<1>2. \A k \in Stream \cup {"pid"} : new[k] # NoFd =>
        Registration(tab, new[k]) \in [file : File, fd : Numbers]
  BY DEF Registration, Kind, Stream
<1>3. l.types \in [Numbers -> EventType \cup {NoType}] /\ l.interest \subseteq [file : File, fd : Numbers]
  BY DEF Loop
<1>4. /\ n.interest = l.interest \cup {Registration(tab, new["out"])}
                                \cup {Registration(tab, new["err"])}
      /\ n.types = [[l.types EXCEPT ![new["out"]] = "ProcessOutputReady"]
                            EXCEPT ![new["err"]] = "ProcessOutputReady"]
      /\ n = [interest |-> n.interest, types |-> n.types]
  BY <1>1 DEF add
<1>5. n \in Loop
  <2>1. n.types \in [Numbers -> EventType \cup {NoType}]
    BY <1>1, <1>3, <1>4 DEF EventType
  <2> QED
    BY <1>1, <1>2, <1>3, <1>4, <2>1 DEF Loop, Stream
<1>6. n.types[new["out"]] = TypeFor("out") /\ n.types[new["err"]] = TypeFor("err")
  BY <1>1, <1>3, <1>4 DEF TypeFor
<1>7. \A d \in Numbers : d # new["out"] /\ d # new["err"] => n.types[d] = l.types[d]
  BY <1>1, <1>3, <1>4
<1>8. l.interest \subseteq n.interest
      /\ \A s \in Stream : Registration(tab, new[s]) \in n.interest
  BY <1>4 DEF Stream
<1> HIDE DEF n
<1>9. CASE new["pid"] = NoFd
  <2>1. m = n
    BY <1>9 DEF add
  <2> QED
    BY <1>0, <1>5, <1>6, <1>7, <1>8, <1>9, <2>1 DEF Stream, Kind
<1>10. CASE new["pid"] # NoFd
  <2>1. /\ m.interest = n.interest \cup {Registration(tab, new["pid"])}
        /\ m.types = [n.types EXCEPT ![new["pid"]] = "ProcessExited"]
        /\ m = [interest |-> m.interest, types |-> m.types]
    BY <1>10 DEF add
  <2>2. n.types \in [Numbers -> EventType \cup {NoType}] /\ n.interest \subseteq [file : File, fd : Numbers]
    BY <1>5 DEF Loop
  <2>3. m \in Loop
    <3>1. m.types \in [Numbers -> EventType \cup {NoType}]
      BY <2>1, <2>2 DEF EventType
    <3> QED
      BY <1>2, <1>10, <2>1, <2>2, <3>1 DEF Loop
  <2>4. \A d \in Numbers : m.types[d] = IF d = new["pid"] THEN "ProcessExited" ELSE n.types[d]
    BY <2>1, <2>2
  <2>5. \A k \in Stream \cup {"pid"} : m.types[new[k]] = TypeFor(k)
    BY <1>1, <1>6, <1>10, <2>4 DEF TypeFor, Stream
  <2>6. \A k \in Stream \cup {"pid"} : Registration(tab, new[k]) \in m.interest
    BY <1>8, <2>1
  <2>7. \A d \in Numbers : (\A k \in Kind : new[k] # d) => m.types[d] = l.types[d]
    BY <1>7, <2>4 DEF Kind
  <2> HIDE DEF m
  <2> QED
    BY <1>0, <1>8, <2>1, <2>3, <2>5, <2>6, <2>7
<1> QED
  BY <1>9, <1>10

\* A launch keeps the descriptors of the others and gives the program its own.
LEMMA MovedOK ==
    ASSUME NEW p \in Programs, NEW tab, NEW l, NEW ios, FdsOK(tab, l, ios, launches),
           launches \in [Programs -> Nat], launches[p] < MaxLaunches[p],
           createPipes(tab), NEW w \in BOOLEAN, NEW new, new = LaunchIO(p, tab, w)
    PROVE  LET t == Moved(p, tab, new, ios[p])
           IN  FdsOK(t, Added(l, t, new), [ios EXCEPT ![p] = new],
                     [launches EXCEPT ![p] = @ + 1])
<1> DEFINE t == Moved(p, tab, new, ios[p])
           m == Added(l, t, new)
           i == [ios EXCEPT ![p] = new]
           c == [launches EXCEPT ![p] = @ + 1]
<1>1. /\ new \in [Kind -> Numbers \cup {NoFd}]
      /\ \A k \in Kind : new[k] # NoFd => tab[new[k]] = NoFile
      /\ \A k \in Stream : new[k] # NoFd
      /\ \A j, k \in Kind : j # k /\ new[j] # NoFd => new[j] # new[k]
  BY LaunchNumbers
<1>2. \A k \in Kind : NewFile(p, k) \in File /\ NewFile(p, k) # NoFile
  BY NewFileType
<1>3. ASSUME NEW k \in Kind, new[k] # NoFd PROVE t[new[k]] = NewFile(p, k)
  <2>1. new[k] \in Numbers
    BY <1>1, <1>3
  <2>2. \A j \in Kind : new[j] = new[k] => j = k
    BY <1>1, <1>3
  <2>3. (CHOOSE j \in Kind : new[j] = new[k]) = k
    BY <2>2
  <2>4. t[new[k]] = NewFile(p, CHOOSE j \in Kind : new[j] = new[k])
    BY <2>1, Zenon DEF Moved
  <2> QED
    BY <2>3, <2>4
<1>4. ASSUME NEW d \in Numbers, \A k \in Kind : new[k] # d
      PROVE  t[d] = IF \E k \in Kind : ios[p][k] = d THEN NoFile ELSE tab[d]
  BY <1>4, Zenon DEF Moved
<1>5. t \in [Numbers -> File \cup {NoFile}]
  <2>1. t = [d \in Numbers |-> t[d]]
    BY Zenon DEF Moved
  <2>2. ASSUME NEW d \in Numbers PROVE t[d] \in File \cup {NoFile}
    <3>1. CASE \E k \in Kind : new[k] = d
      <4>1. PICK k \in Kind : new[k] = d
        BY <3>1
      <4>2. new[k] # NoFd
        BY <4>1, NumbersAssumption
      <4> QED
        BY <1>2, <1>3, <4>1, <4>2
    <3>2. CASE \A k \in Kind : new[k] # d
      <4>1. tab[d] \in File \cup {NoFile}
        BY DEF FdsOK
      <4> QED
        BY <1>4, <3>2, <4>1
    <3> QED
      BY <3>1, <3>2
  <2> HIDE DEF t
  <2> QED
    BY <2>1, <2>2
<1> HIDE DEF t
<1>6. /\ m \in Loop /\ l.interest \subseteq m.interest
      /\ \A k \in Stream \cup {"pid"} : new[k] # NoFd =>
           Registration(t, new[k]) \in m.interest /\ m.types[new[k]] = TypeFor(k)
      /\ \A d \in Numbers : (\A k \in Kind : new[k] # d) => m.types[d] = l.types[d]
  <2>1. l \in Loop
    BY DEF FdsOK
  <2>2. \A k \in Kind : new[k] # NoFd => t[new[k]] # NoFile
    BY <1>2, <1>3
  <2> QED
    BY <1>1, <1>5, <2>1, <2>2, AddedOK
<1> HIDE DEF m
<1>7. /\ i \in [Programs -> [Kind -> Numbers \cup {NoFd}]]
      /\ i[p] = new /\ \A q \in Programs : q # p => i[q] = ios[q]
      /\ c[p] = launches[p] + 1 /\ \A q \in Programs : q # p => c[q] = launches[q]
  BY <1>1 DEF FdsOK
<1> HIDE DEF i, c
\* A number of another program is neither new nor one that p had.
<1>8. ASSUME NEW q \in Programs, q # p, NEW j \in Kind, ios[q][j] # NoFd
      PROVE  /\ ios[q][j] \in Numbers /\ \A k \in Kind : new[k] # ios[q][j]
             /\ t[ios[q][j]] = tab[ios[q][j]]
  <2>1. /\ ios[q][j] \in Numbers /\ tab[ios[q][j]] # NoFile /\ tab[ios[q][j]].owner = q
    BY <1>8 DEF FdsOK
  <2>2. \A k \in Kind : new[k] # ios[q][j]
    BY <1>1, <1>8, <2>1
  <2>3. ~ \E k \in Kind : ios[p][k] = ios[q][j]
    BY <1>8, <2>1 DEF FdsOK
  <2> QED
    BY <1>4, <2>1, <2>2, <2>3
<1>9. ASSUME NEW d \in Numbers, t[d] # NoFile
      PROVE  i[t[d].owner][t[d].kind] = d /\ t[d].launch = c[t[d].owner]
  <2>1. CASE \E k \in Kind : new[k] = d
    <3>1. PICK k \in Kind : new[k] = d
      BY <2>1
    <3>2. t[d] = NewFile(p, k)
      BY <1>3, <3>1, NumbersAssumption
    <3> QED
      BY <1>7, <3>1, <3>2 DEF NewFile
  <2>2. CASE \A k \in Kind : new[k] # d
    <3>1. t[d] = tab[d] /\ tab[d] # NoFile /\ tab[d] \in File
          /\ ~ \E k \in Kind : ios[p][k] = d
      BY <1>4, <1>5, <1>9, <2>2
    <3>2. /\ tab[d].owner \in Programs /\ tab[d].kind \in Kind
          /\ ios[tab[d].owner][tab[d].kind] = d /\ tab[d].launch = launches[tab[d].owner]
      BY <3>1, FileFields DEF FdsOK
    <3>3. tab[d].owner # p
      BY <3>1, <3>2
    <3> QED
      BY <1>7, <3>1, <3>2, <3>3
  <2> QED
    BY <2>1, <2>2
<1>10. ASSUME NEW q \in Programs, NEW j \in Kind, i[q][j] # NoFd
       PROVE  t[i[q][j]] # NoFile /\ t[i[q][j]].owner = q /\ t[i[q][j]].kind = j
  <2>1. CASE q = p
    <3>1. i[q][j] = new[j] /\ t[new[j]] = NewFile(p, j)
      BY <1>3, <1>7, <1>10, <2>1
    <3>2. NewFile(p, j).owner = p /\ NewFile(p, j).kind = j
      BY DEF NewFile
    <3> QED
      BY <1>2, <2>1, <3>1, <3>2
  <2>2. CASE q # p
    BY <1>7, <1>8, <1>10, <2>2 DEF FdsOK
  <2> QED
    BY <2>1, <2>2
<1>11. ASSUME NEW q \in Programs, NEW j \in Stream \cup {"pid"}, i[q][j] # NoFd
       PROVE  Registration(t, i[q][j]) \in m.interest /\ m.types[i[q][j]] = TypeFor(j)
  <2>0. j \in Kind
    BY DEF Stream, Kind
  <2>1. CASE q = p
    BY <1>6, <1>7, <1>11, <2>1
  <2>2. CASE q # p
    <3>1. i[q][j] = ios[q][j] /\ ios[q][j] # NoFd
      BY <1>7, <1>11, <2>2
    <3>2. Registration(tab, ios[q][j]) \in l.interest /\ l.types[ios[q][j]] = TypeFor(j)
      BY <3>1 DEF FdsOK
    <3>3. /\ ios[q][j] \in Numbers /\ \A k \in Kind : new[k] # ios[q][j]
          /\ t[ios[q][j]] = tab[ios[q][j]]
      BY <1>8, <2>0, <2>2, <3>1
    <3> QED
      BY <1>6, <3>1, <3>2, <3>3 DEF Registration
  <2> QED
    BY <2>1, <2>2
<1>12. FdsOK(t, m, i, c)
  BY <1>5, <1>6, <1>7, <1>9, <1>10, <1>11 DEF FdsOK
<1> QED
  BY <1>12 DEF t, m, i, c

\* A removed program: each of its numbers is closed, and none is watched.
LEMMA RemovedOK ==
    ASSUME NEW tab, NEW l, NEW ios, NEW counts, FdsOK(tab, l, ios, counts),
           NEW p \in Programs, NEW S, S = {ios[p][k] : k \in Kind} \ {NoFd}
    PROVE  FdsOK(Without(tab, S), l, [ios EXCEPT ![p] = NoIO], counts)
<1> DEFINE t == Without(tab, S)
           i == [ios EXCEPT ![p] = NoIO]
<1>1. /\ t \in [Numbers -> File \cup {NoFile}]
      /\ \A e \in Numbers : t[e] = IF e \in S THEN NoFile ELSE tab[e]
  BY DEF FdsOK, Without
<1>2. /\ i \in [Programs -> [Kind -> Numbers \cup {NoFd}]]
      /\ \A k \in Kind : i[p][k] = NoFd
      /\ \A q \in Programs : q # p => i[q] = ios[q]
  BY DEF FdsOK, NoIO
<1> HIDE DEF t, i
<1>3. ASSUME NEW e \in Numbers, t[e] # NoFile
      PROVE  i[t[e].owner][t[e].kind] = e /\ t[e].launch = counts[t[e].owner]
  <2>1. e \notin S /\ t[e] = tab[e] /\ tab[e] \in File
    BY <1>1, <1>3
  <2>2. /\ ios[tab[e].owner][tab[e].kind] = e /\ tab[e].launch = counts[tab[e].owner]
        /\ tab[e].owner \in Programs /\ tab[e].kind \in Kind
    BY <1>3, <2>1, FileFields DEF FdsOK
  <2>3. tab[e].owner # p
    BY <2>1, <2>2, NumbersAssumption
  <2> QED
    BY <1>2, <2>1, <2>2, <2>3
<1>4. ASSUME NEW q \in Programs, NEW j \in Kind, i[q][j] # NoFd
      PROVE  q # p /\ i[q][j] = ios[q][j] /\ i[q][j] \in Numbers /\ i[q][j] \notin S
  <2>1. q # p /\ i[q][j] = ios[q][j] /\ i[q][j] \in Numbers
    BY <1>2, <1>4
  <2>2. ASSUME NEW k \in Kind, ios[p][k] = ios[q][j] PROVE FALSE
    BY <1>4, <2>1, <2>2 DEF FdsOK
  <2> QED
    BY <2>1, <2>2
<1>5. ASSUME NEW q \in Programs, NEW j \in Kind, i[q][j] # NoFd
      PROVE  t[i[q][j]] # NoFile /\ t[i[q][j]].owner = q /\ t[i[q][j]].kind = j
  <2>1. t[i[q][j]] = tab[ios[q][j]] /\ ios[q][j] # NoFd
    BY <1>1, <1>4, <1>5
  <2> QED
    BY <1>4, <1>5, <2>1 DEF FdsOK
<1>6. ASSUME NEW q \in Programs, NEW j \in Stream \cup {"pid"}, i[q][j] # NoFd
      PROVE  Registration(t, i[q][j]) \in l.interest /\ l.types[i[q][j]] = TypeFor(j)
  <2>0. j \in Kind
    BY DEF Stream, Kind
  <2>1. t[i[q][j]] = tab[ios[q][j]] /\ ios[q][j] # NoFd /\ i[q][j] = ios[q][j]
    BY <1>1, <1>4, <1>6, <2>0
  <2>2. Registration(tab, ios[q][j]) \in l.interest /\ l.types[ios[q][j]] = TypeFor(j)
    BY <2>1 DEF FdsOK
  <2>3. Registration(t, i[q][j]) = Registration(tab, ios[q][j])
    BY <2>1 DEF Registration
  <2> QED
    BY <2>1, <2>2, <2>3
<1>7. FdsOK(t, l, i, counts)
  BY <1>1, <1>2, <1>3, <1>5, <1>6 DEF FdsOK
<1> QED
  BY <1>7 DEF t, i

-----------------------------------------------------------------------------
(* The invariant of the descriptors *)

FdInv ==
    /\ FdsOK(table, loop, io, launches)
    /\ launches \in [Programs -> Nat]
    /\ \A p \in Programs : launches[p] <= MaxLaunches[p]
    /\ copies \in [Programs -> SUBSET File]
    /\ proc \in [Programs -> {"none", "forked", "running", "dead"}]
    /\ batch \subseteq Event
    /\ stuck \in batch \cup {NoEvent}

\* What launch leaves, however its caller left the table, the loop and io.
LEMMA LaunchOK ==
    ASSUME FdInv, NEW p \in Programs, NEW tab, NEW l, NEW ios,
           FdsOK(tab, l, ios, launches), launch(p, tab, l, ios)
    PROVE  /\ FdsOK(table', loop', io', launches')
           /\ launches' \in [Programs -> Nat]
           /\ \A q \in Programs : launches'[q] <= MaxLaunches[q]
           /\ copies' \in [Programs -> SUBSET File]
           /\ proc' \in [Programs -> {"none", "forked", "running", "dead"}]
<1> USE DEF FdInv
<1>0. proc' \in [Programs -> {"none", "forked", "running", "dead"}]
  BY DEF launch
<1>1. CASE launches' = launches
  <2>0. launches[p] + 1 # launches[p]
    OBVIOUS
  <2>1. /\ table' = tab /\ io' = ios /\ UNCHANGED <<launches, copies>>
        /\ loop' = Forgotten(l, HeldBy(tab, copies))
    BY <1>1, <2>0 DEF launch
  <2>2. FdsOK(tab, Forgotten(l, HeldBy(tab, copies)), ios, launches)
    BY ForgottenOK
  <2> QED
    BY <1>0, <2>1, <2>2
<1>2. CASE launches' # launches
  <2>1. /\ createPipes(tab) /\ launches[p] < MaxLaunches[p]
        /\ launches' = [launches EXCEPT ![p] = @ + 1]
        /\ copies' = [copies EXCEPT
                        ![p] = FilesOf(tab) \cup {NewFile(p, s) : s \in Stream}]
    BY <1>2 DEF launch
  <2>2. PICK w \in BOOLEAN :
          /\ io' = [ios EXCEPT ![p] = LaunchIO(p, tab, w)]
          /\ table' = Moved(p, tab, LaunchIO(p, tab, w), ios[p])
          /\ loop' = Forgotten(Added(l, table', LaunchIO(p, tab, w)), HeldBy(table', copies'))
    BY <1>2 DEF launch
  <2>3. FdsOK(table', Added(l, table', LaunchIO(p, tab, w)), io', launches')
    BY <2>1, <2>2, MovedOK
  <2>4. FdsOK(table', loop', io', launches')
    BY <2>2, <2>3, ForgottenOK
  <2>5. /\ launches' \in [Programs -> Nat]
        /\ \A q \in Programs : launches'[q] <= MaxLaunches[q]
    <3>1. launches[p] \in Nat /\ MaxLaunches[p] \in Nat
      BY BoundsAssumption
    <3>2. /\ launches' \in [Programs -> Nat] /\ launches'[p] = launches[p] + 1
          /\ \A q \in Programs : q # p => launches'[q] = launches[q]
      BY <2>1
    <3> QED
      BY <2>1, <3>1, <3>2
  <2>6. copies' \in [Programs -> SUBSET File]
    <3>1. FilesOf(tab) \subseteq File
      BY DEF FilesOf, FdsOK
    <3>2. \A s \in Stream : NewFile(p, s) \in File
      BY <2>1, NewFileType DEF Stream, Kind
    <3> QED
      BY <2>1, <3>1, <3>2
  <2> QED
    BY <1>0, <2>4, <2>5, <2>6
<1> QED
  BY <1>1, <1>2

LEMMA InitFd == Init => FdInv
<1> SUFFICES ASSUME Init PROVE FdInv
  OBVIOUS
<1>1. \A d \in Numbers : table[d] = NoFile
  BY DEF Init
<1>2. \A p \in Programs, k \in Kind : io[p][k] = NoFd
  BY DEF Init, NoIO
<1>3. loop \in Loop
  BY DEF Init, NewLoop, Loop
<1>4. FdsOK(table, loop, io, launches)
  <2>1. table \in [Numbers -> File \cup {NoFile}] /\ io \in [Programs -> [Kind -> Numbers \cup {NoFd}]]
    BY DEF Init, NoIO
  <2>2. \A k \in Stream \cup {"pid"} : k \in Kind
    BY DEF Stream, Kind
  <2> QED
    BY <1>1, <1>2, <1>3, <2>1, <2>2 DEF FdsOK
<1> QED
  BY <1>4, BoundsAssumption DEF Init, FdInv

\* Most steps: who has which number does not change.
LEMMA SameFd ==
    ASSUME FdInv, UNCHANGED <<table, io, launches>>,
           copies' \in [Programs -> SUBSET File],
           proc' \in [Programs -> {"none", "forked", "running", "dead"}],
           loop' = loop \/ loop' = Forgotten(loop, HeldBy(table, copies')),
           batch' \subseteq batch, stuck' \in batch' \cup {NoEvent}
    PROVE  FdInv'
<1>1. FdsOK(table', loop', io', launches')
  BY ForgottenOK DEF FdInv
<1> QED
  BY <1>1 DEF FdInv

LEMMA WaitFd == ASSUME FdInv, Wait PROVE FdInv'
<1> USE DEF FdInv
<1>1. PICK old \in SUBSET Stale : \E ready :
        /\ ready = old \cup {r \in loop.interest \ Stale : Ready(r.file)}
        /\ batch' = Events(loop, ready) /\ loop' = Looked(loop, ready)
  BY DEF Wait
<1>2. PICK ready : /\ ready = old \cup {r \in loop.interest \ Stale : Ready(r.file)}
                   /\ batch' = Events(loop, ready) /\ loop' = Looked(loop, ready)
  BY <1>1
<1>3. ready \subseteq loop.interest /\ loop \in Loop
  BY <1>2 DEF Stale, FdsOK
<1>4. /\ loop'.interest = loop.interest
      /\ loop'.types = [d \in Numbers |->
            IF loop.types[d] = NoType /\ \E r \in ready : r.fd = d
            THEN FirstType ELSE loop.types[d]]
      /\ loop' = [interest |-> loop'.interest, types |-> loop'.types]
  BY <1>2, <1>3 DEF Looked, Loop
<1>5. loop.types \in [Numbers -> EventType \cup {NoType}] /\ FirstType \in EventType
  BY <1>3 DEF Loop, EventType, FirstType
<1>6. loop' \in Loop
  BY <1>3, <1>4, <1>5 DEF Loop
<1>7. batch' \subseteq Event
  <2>1. ASSUME NEW r \in ready
        PROVE  [fd |-> r.fd, type |-> Looked(loop, ready).types[r.fd], file |-> r.file] \in Event
    <3>1. r.fd \in Numbers /\ r.file \in File
      BY <1>3 DEF Loop
    <3>2. loop'.types[r.fd] \in EventType
      BY <1>4, <1>5, <2>1, <3>1
    <3> QED
      BY <1>2, <3>1, <3>2 DEF Event
  <2> QED
    BY <1>2, <2>1 DEF Events
<1>8. stuck' \in batch' \cup {NoEvent}
  BY DEF Wait
<1>9. UNCHANGED <<table, io, launches, proc, copies>>
  BY DEF Wait, world
<1>10. \A p \in Programs, k \in Stream \cup {"pid"} : io[p][k] # NoFd =>
         loop'.types[io[p][k]] = TypeFor(k)
  <2> SUFFICES ASSUME NEW p \in Programs, NEW k \in Stream \cup {"pid"}, io[p][k] # NoFd
               PROVE  loop'.types[io[p][k]] = TypeFor(k)
    OBVIOUS
  <2>1. io[p][k] \in Numbers /\ loop.types[io[p][k]] = TypeFor(k)
    BY DEF FdsOK, Stream, Kind
  <2>2. TypeFor(k) # NoType
    BY TypesAssumption DEF TypeFor, EventType
  <2> QED
    BY <1>4, <2>1, <2>2
<1>11. FdsOK(table', loop', io', launches')
  <2>1. FdsOK(table, loop', io, launches)
    BY <1>4, <1>6, <1>10 DEF FdsOK
  <2> QED
    BY <1>9, <2>1
<1> QED
  BY <1>7, <1>8, <1>9, <1>11

LEMMA HandleExitedFd ==
    ASSUME FdInv, NEW e \in batch, HandleExited(e) PROVE FdInv'
<1> USE DEF FdInv
<1>1. PICK p \in Programs : io[p].pid = e.fd /\ handleDeath(p)
  BY DEF HandleExited, findByPidFd
<1>2. e.fd \in Numbers /\ io[p]["pid"] # NoFd /\ io[p].pid = io[p]["pid"] /\ "pid" \in Kind
  BY <1>1, NumbersAssumption DEF Event, Kind
<1>3. PICK tab, l, ios :
        /\ tab = Without(table, {io[p].pid}) /\ l = remove(loop, table, io[p].pid)
        /\ ios = [io EXCEPT ![p].pid = NoFd]
        /\ launch(p, tab, l, ios) \/ Reaped(p, tab, l, ios)
  BY <1>1 DEF handleDeath
<1>4. FdsOK(tab, l, ios, launches)
  BY <1>2, <1>3, ClosedOK
<1>5. batch' \subseteq batch /\ stuck' = NoEvent
  BY DEF HandleExited, Done
<1>6. CASE launch(p, tab, l, ios)
  BY <1>4, <1>5, <1>6, LaunchOK
<1>7. CASE Reaped(p, tab, l, ios)
  <2>1. /\ table' = tab /\ io' = ios /\ UNCHANGED <<launches, copies>>
        /\ loop' = Forgotten(l, HeldBy(tab, copies))
        /\ proc' \in [Programs -> {"none", "forked", "running", "dead"}]
    BY <1>7 DEF Reaped
  <2>2. FdsOK(table', loop', io', launches')
    BY <1>4, <2>1, ForgottenOK
  <2> QED
    BY <1>5, <2>1, <2>2
<1> QED
  BY <1>3, <1>6, <1>7

LEMMA HandleOutputFd ==
    ASSUME FdInv, NEW e \in batch, HandleOutput(e) PROVE FdInv'
<1> USE DEF FdInv
<1>1. PICK p \in Programs, s \in Stream :
        /\ io[p][s] = e.fd /\ Read(p, s, e.fd)
        /\ IF pipes[p][s].open THEN UNCHANGED <<table, io, loop>> ELSE Closed(p, s, e.fd)
        /\ UNCHANGED <<launches, proc, copies>>
  BY DEF HandleOutput, findByReadFd, readFromChild
<1>2. e.fd \in Numbers /\ io[p][s] # NoFd /\ s \in Kind
  BY <1>1, NumbersAssumption DEF Event, Kind, Stream
<1>3. batch' \subseteq batch /\ stuck' = NoEvent
  BY DEF HandleOutput, Done
<1>4. CASE UNCHANGED <<table, io, loop>>
  BY <1>1, <1>3, <1>4, SameFd
<1>5. CASE Closed(p, s, e.fd)
  <2>1. FdsOK(Without(table, {io[p][s]}), remove(loop, table, io[p][s]),
              [io EXCEPT ![p][s] = NoFd], launches)
    BY <1>2, ClosedOK
  <2>2. FdsOK(table', loop', io', launches')
    BY <1>1, <1>5, <2>1, ForgottenOK DEF Closed
  <2> QED
    BY <1>1, <1>3, <2>2
<1> QED
  BY <1>1, <1>4, <1>5

LEMMA RemoveFd == ASSUME FdInv, NEW p \in Programs, Remove(p) PROVE FdInv'
<1> USE DEF FdInv
<1>1. FdsOK(Without(table, Numbered(p)), loop, [io EXCEPT ![p] = NoIO], launches)
  BY RemovedOK DEF Numbered
<1>2. FdsOK(table', loop', io', launches')
  BY <1>1, ForgottenOK DEF Remove, world
<1> QED
  BY <1>2 DEF Remove, world

LEMMA NextFd == FdInv /\ [Next]_vars => FdInv'
<1> SUFFICES ASSUME FdInv, [Next]_vars PROVE FdInv'
  OBVIOUS
<1>1. CASE Wait
  BY <1>1, WaitFd
<1>2. ASSUME NEW e \in batch, HandleExited(e) PROVE FdInv'
  BY <1>2, HandleExitedFd
<1>3. ASSUME NEW e \in batch, HandleOutput(e) PROVE FdInv'
  BY <1>3, HandleOutputFd
<1>4. ASSUME NEW e \in batch, Ignore(e) \/ Block(e) PROVE FdInv'
  BY <1>4, SameFd DEF Ignore, Block, Done, world, FdInv
<1>5. CASE SignalArrives
  BY <1>5, SameFd DEF SignalArrives, Done, world, FdInv
<1>6. ASSUME NEW p \in Programs, Start(p) PROVE FdInv'
  BY <1>6, LaunchOK DEF Start, FdInv
<1>7. ASSUME NEW p \in Programs, Remove(p) PROVE FdInv'
  BY <1>7, RemoveFd
<1>8. ASSUME NEW p \in Programs, Exec(p) \/ Die(p) PROVE FdInv'
  <2>1. /\ copies' \in [Programs -> SUBSET File]
        /\ proc' \in [Programs -> {"none", "forked", "running", "dead"}]
    BY <1>8 DEF Exec, Die, FdInv
  <2> QED
    BY <1>8, <2>1, SameFd DEF Exec, Die, FdInv
<1>9. ASSUME NEW p \in Programs, NEW s \in Stream, LastWriterGone(p) \/ Write(p, s)
      PROVE FdInv'
  BY <1>9, SameFd DEF LastWriterGone, Write, FdInv
<1>10. CASE UNCHANGED vars
  BY <1>10, SameFd DEF vars, FdInv
<1>11. "out" \in Stream
  BY DEF Stream
<1> QED
  BY <1>1, <1>2, <1>3, <1>4, <1>5, <1>6, <1>7, <1>8, <1>9, <1>10, <1>11
  DEF Next, Collect

LEMMA FdInvariance == Spec => []FdInv
  BY InitFd, NextFd, PTL DEF Spec

(* Whatever is launched, read, reaped and removed, for any number of programs  *)
(* and of descriptors: every open number of the daemon is one descriptor of    *)
(* one program's ProcessIO (Fd, and the moves of ProcessIO in launch), so      *)
(* closing one never closes another program's.                                 *)
THEOREM DescriptorsOwned == Spec => []Owned
<1>1. FdInv => Owned
  BY DEF FdInv, FdsOK, Owned
<1> QED
  BY <1>1, FdInvariance, PTL

(* A pidfd or pipe that is open is always watched, and under its own type: no  *)
(* registration of an earlier use of its number, made by add and never taken   *)
(* back, hides it.                                                             *)
THEOREM EverythingWatched == Spec => []AllWatched
<1>1. FdInv => AllWatched
  BY DEF FdInv, FdsOK, AllWatched
<1> QED
  BY <1>1, FdInvariance, PTL

-----------------------------------------------------------------------------
(* What the log files hold *)

\* L is the file at path f, when each program was launched as counts says, and of
\* the last launch each pipe has been read as far as ps says.
LogOrdered(L, f, counts, ps) ==
    /\ \A i \in DOMAIN L :
         /\ L[i].file.kind \in Stream /\ LogPath[L[i].file.owner][L[i].file.kind] = f
         /\ L[i].file.launch <= counts[L[i].file.owner]
         /\ L[i].file.launch = counts[L[i].file.owner] =>
              L[i].n <= ps[L[i].file.owner][L[i].file.kind].read
    /\ \A i, j \in DOMAIN L :
         i < j /\ SameStream(L[i], L[j]) => Before(L[i], L[j])

\* The numbers of the chunks of one pipe.
NumbersOf(L, pipe) == {L[i].n : i \in {j \in DOMAIN L : L[j].file = pipe}}

PipeOf(p, s, count) == [owner |-> p, launch |-> count, kind |-> s]

LogWhole(logs, p, s, count, pipe, ofP) ==
    ofP[LogOf(s)] # NoFd =>
        /\ LogPath[p][s] \in Paths
        /\ NumbersOf(logs[LogPath[p][s]], PipeOf(p, s, count)) = 1 .. pipe.read
        /\ ofP[s] = NoFd => ~(pipe.written > pipe.read)

PipesOK(ps) ==
    /\ ps \in [Programs -> [Stream -> Pipe]]
    /\ \A p \in Programs, s \in Stream :
         ps[p][s].read <= ps[p][s].written /\ ps[p][s].written <= MaxWrites[p][s]

LogInv ==
    /\ PipesOK(pipes)
    /\ logged \in [Paths -> Seq(Chunk)]
    /\ \A f \in Paths : LogOrdered(logged[f], f, launches, pipes)
    /\ \A p \in Programs, s \in Stream :
         LogWhole(logged, p, s, launches[p], pipes[p][s], io[p])

LEMMA LogFields ==
    ASSUME NEW L \in Seq(Chunk), NEW i \in DOMAIN L
    PROVE  /\ L[i] \in Chunk /\ L[i].file \in File /\ L[i].n \in Nat /\ L[i].n >= 1
           /\ L[i].file.launch \in Nat /\ L[i].file.owner \in Programs
<1>1. L[i] \in Chunk
  OBVIOUS
<1>2. L[i].file \in File /\ L[i].n \in Nat /\ L[i].n >= 1
  BY <1>1 DEF Chunk
<1>3. /\ L[i].file.owner \in Programs
      /\ L[i].file.launch \in 1 .. MaxLaunches[L[i].file.owner]
  BY <1>2, FileFields
<1>4. MaxLaunches[L[i].file.owner] \in Nat
  BY <1>3, BoundsAssumption
<1> QED
  BY <1>1, <1>2, <1>3, <1>4

\* What is appended, chunk by chunk.
ReadChunks(f, a, b) == [i \in 1 .. b - a |-> [file |-> f, n |-> a + i]]

\* M is L with the chunks a + 1 .. b of f after it.
Appended(M, L, f, a, b) ==
    /\ M \in Seq(Chunk)
    /\ DOMAIN M = 1 .. Len(L) + (b - a)
    /\ \A i \in 1 .. Len(L) : M[i] = L[i]
    /\ \A i \in Len(L) + 1 .. Len(L) + (b - a) :
         M[i].file = f /\ M[i].n = a + (i - Len(L))

LEMMA AppendShape ==
    ASSUME NEW L \in Seq(Chunk), NEW f \in File, NEW a \in Nat, NEW b \in Nat, a <= b,
           NEW M, M = L \o ReadChunks(f, a, b)
    PROVE  Appended(M, L, f, a, b)
<1> DEFINE R == ReadChunks(f, a, b)
<1>1. Len(L) \in Nat /\ b - a \in Nat
  BY LenProperties
<1>2. \A i \in 1 .. b - a : [file |-> f, n |-> a + i] \in Chunk
  BY DEF Chunk
<1>3. R \in [1 .. b - a -> Chunk]
  BY <1>2 DEF ReadChunks
<1>4. R \in Seq(Chunk) /\ Len(R) = b - a
  BY <1>1, <1>3
<1>5. \A i \in 1 .. b - a : R[i] = [file |-> f, n |-> a + i]
  BY DEF ReadChunks
<1>6. M = L \o R
  OBVIOUS
<1> HIDE DEF R
<1>7. /\ L \o R \in Seq(Chunk)
       /\ Len(L \o R) = Len(L) + Len(R)
       /\ \A i \in 1 .. Len(L) + Len(R) :
            (L \o R)[i] = IF i <= Len(L) THEN L[i] ELSE R[i - Len(L)]
  BY <1>4, ConcatProperties
<1>8. /\ M \in Seq(Chunk) /\ Len(M) = Len(L) + (b - a)
      /\ \A i \in 1 .. Len(L) + (b - a) : M[i] = IF i <= Len(L) THEN L[i] ELSE R[i - Len(L)]
  BY <1>4, <1>6, <1>7
<1>9. DOMAIN M = 1 .. Len(M)
  BY <1>8, LenProperties
<1>10. \A i \in 1 .. Len(L) : M[i] = L[i]
  BY <1>1, <1>8
<1>11. ASSUME NEW i \in Len(L) + 1 .. Len(L) + (b - a)
      PROVE  M[i].file = f /\ M[i].n = a + (i - Len(L))
  <2>1. i - Len(L) \in 1 .. b - a
    BY <1>1
  <2>2. M[i] = R[i - Len(L)]
    BY <1>1, <1>8
  <2>3. M[i] = [file |-> f, n |-> a + (i - Len(L))]
    BY <1>5, <2>1, <2>2
  <2> QED
    BY <2>3
<1> QED
  BY <1>8, <1>9, <1>10, <1>11 DEF Appended

\* Reading more of a pipe takes nothing out of order.
LEMMA ReadMore ==
    ASSUME NEW L \in Seq(Chunk), NEW f, NEW counts, NEW ps, NEW qs,
           PipesOK(ps), PipesOK(qs),
           \A p \in Programs, s \in Stream : ps[p][s].read <= qs[p][s].read,
           LogOrdered(L, f, counts, ps)
    PROVE  LogOrdered(L, f, counts, qs)
<1>1. ASSUME NEW i \in DOMAIN L, L[i].file.launch = counts[L[i].file.owner]
      PROVE  L[i].n <= qs[L[i].file.owner][L[i].file.kind].read
  <2> DEFINE p == L[i].file.owner
             s == L[i].file.kind
  <2>1. p \in Programs /\ s \in Stream /\ L[i].n \in Nat /\ L[i].n <= ps[p][s].read
    BY <1>1, LogFields DEF LogOrdered
  <2>2. ps[p][s].read \in Nat /\ qs[p][s].read \in Nat /\ ps[p][s].read <= qs[p][s].read
    BY <2>1 DEF PipesOK, Pipe
  <2> QED
    BY <2>1, <2>2
<1> QED
  BY <1>1 DEF LogOrdered

\* What is read from a pipe goes to the end of the file, and follows in order what
\* was read from it before.
AppendedInOrder(M, L, f, counts, qs, pipe, a, b) ==
    /\ M \in Seq(Chunk)
    /\ LogOrdered(M, f, counts, qs)
    /\ NumbersOf(M, pipe) = NumbersOf(L, pipe) \cup (a + 1 .. b)
    /\ \A other : other # pipe => NumbersOf(M, other) = NumbersOf(L, other)

LEMMA AppendOrdered ==
    ASSUME NEW L \in Seq(Chunk), NEW f, NEW counts \in [Programs -> Nat],
           NEW ps, NEW qs, PipesOK(ps), PipesOK(qs),
           NEW pipe \in File, pipe.kind \in Stream,
           LogPath[pipe.owner][pipe.kind] = f, pipe.launch = counts[pipe.owner],
           NEW a \in Nat, NEW b \in Nat, a <= b,
           ps[pipe.owner][pipe.kind].read = a, qs[pipe.owner][pipe.kind].read = b,
           \A p \in Programs, s \in Stream : ps[p][s].read <= qs[p][s].read,
           LogOrdered(L, f, counts, ps)
    PROVE  AppendedInOrder(L \o ReadChunks(pipe, a, b), L, f, counts, qs, pipe, a, b)
<1> DEFINE M == L \o ReadChunks(pipe, a, b)
<1>1. /\ pipe.owner \in Programs /\ counts[pipe.owner] \in Nat
      /\ pipe = [owner |-> pipe.owner, launch |-> counts[pipe.owner], kind |-> pipe.kind]
  BY FileFields
<1>2. Appended(M, L, pipe, a, b)
  BY AppendShape
<1> SUFFICES /\ M \in Seq(Chunk)
             /\ LogOrdered(M, f, counts, qs)
             /\ NumbersOf(M, pipe) = NumbersOf(L, pipe) \cup (a + 1 .. b)
             /\ \A other : other # pipe => NumbersOf(M, other) = NumbersOf(L, other)
  BY DEF AppendedInOrder
<1> HIDE DEF M
<1> DEFINE k == Len(L)
<1>3. k \in Nat /\ DOMAIN L = 1 .. k /\ b - a \in Nat
  BY LenProperties
<1>4. M \in Seq(Chunk) /\ DOMAIN M = 1 .. k + (b - a)
  BY <1>2 DEF Appended
<1>5. \A i \in 1 .. k : M[i] = L[i]
  BY <1>2 DEF Appended
<1>6. \A i \in k + 1 .. k + (b - a) : M[i].file = pipe /\ M[i].n = a + (i - k)
  BY <1>2 DEF Appended
<1> HIDE DEF k
<1>7. \A i \in DOMAIN M : i \in 1 .. k \/ i \in k + 1 .. k + (b - a)
  BY <1>3, <1>4
<1>8. ASSUME NEW i \in DOMAIN M
      PROVE  /\ M[i].file.kind \in Stream /\ LogPath[M[i].file.owner][M[i].file.kind] = f
             /\ M[i].file.launch <= counts[M[i].file.owner]
             /\ M[i].file.launch = counts[M[i].file.owner] =>
                  M[i].n <= qs[M[i].file.owner][M[i].file.kind].read
  <2>1. CASE i \in 1 .. k
    <3>1. M[i] = L[i] /\ i \in DOMAIN L
      BY <1>3, <1>5, <2>1
    <3>2. LogOrdered(L, f, counts, qs)
      BY ReadMore
    <3> QED
      BY <3>1, <3>2 DEF LogOrdered
  <2>2. CASE i \in k + 1 .. k + (b - a)
    <3>1. M[i].file = pipe /\ M[i].n = a + (i - k)
      BY <1>6, <2>2
    <3>2. M[i].n <= b /\ pipe.launch <= counts[pipe.owner]
      BY <1>1, <1>3, <2>2, <3>1
    <3> QED
      BY <3>1, <3>2
  <2> QED
    BY <1>7, <2>1, <2>2
<1>9. ASSUME NEW i \in DOMAIN M, NEW j \in DOMAIN M, i < j, SameStream(M[i], M[j])
      PROVE  Before(M[i], M[j])
  <2>1. CASE j \in 1 .. k
    <3>1. i \in 1 .. k
      BY <1>3, <1>4, <1>9, <2>1
    <3> QED
      BY <1>3, <1>5, <1>9, <2>1, <3>1 DEF LogOrdered
  <2>2. CASE j \in k + 1 .. k + (b - a)
    <3>1. M[j].file = pipe /\ M[j].n = a + (j - k) /\ a + (j - k) >= a + 1
      BY <1>3, <1>6, <2>2
    <3>2. CASE i \in 1 .. k
      <4>1. M[i] = L[i] /\ i \in DOMAIN L
        BY <1>3, <1>5, <3>2
      <4>2. /\ L[i].n \in Nat /\ L[i].file \in File /\ L[i].file.launch \in Nat
            /\ L[i].file.owner = pipe.owner /\ L[i].file.kind = pipe.kind
        BY <1>9, <3>1, <4>1, LogFields DEF SameStream
      <4>3. CASE L[i].file.launch = counts[pipe.owner]
        <5>1. L[i].file = pipe
          BY <1>1, <4>2, <4>3, FileFields
        <5>2. L[i].n <= a
          BY <4>1, <4>2, <4>3 DEF LogOrdered
        <5>3. M[i].n < M[j].n
          BY <1>3, <2>2, <3>1, <4>1, <4>2, <5>2
        <5>4. M[i].file = M[j].file
          BY <3>1, <4>1, <5>1
        <5> QED
          BY <5>3, <5>4 DEF Before
      <4>4. CASE L[i].file.launch # counts[pipe.owner]
        <5>1. L[i].file.launch <= counts[pipe.owner]
          BY <4>1, <4>2 DEF LogOrdered
        <5>2. L[i].file.launch < pipe.launch
          BY <1>1, <4>2, <4>4, <5>1
        <5> QED
          BY <3>1, <4>1, <5>2 DEF Before
      <4> QED
        BY <4>3, <4>4
    <3>3. CASE i \in k + 1 .. k + (b - a)
      <4>1. M[i].file = pipe /\ M[i].n = a + (i - k)
        BY <1>6, <3>3
      <4>2. a + (i - k) < a + (j - k)
        BY <1>3, <1>9, <2>2, <3>3
      <4>3. M[i].n < M[j].n /\ M[i].file = M[j].file
        BY <3>1, <4>1, <4>2
      <4> QED
        BY <4>3 DEF Before
    <3> QED
      BY <1>7, <3>2, <3>3
  <2> QED
    BY <1>7, <2>1, <2>2
\* The chunks of L are in M where they were, and the others are of pipe.
<1>10. ASSUME NEW g, NEW n \in NumbersOf(L, g) PROVE n \in NumbersOf(M, g)
  <2>1. PICK i \in DOMAIN L : L[i].file = g /\ L[i].n = n
    BY DEF NumbersOf
  <2>2. i \in DOMAIN M /\ M[i] = L[i]
    BY <1>3, <1>4, <1>5
  <2> QED
    BY <2>1, <2>2 DEF NumbersOf
<1>11. ASSUME NEW g, NEW n \in NumbersOf(M, g)
       PROVE  n \in NumbersOf(L, g) \/ (g = pipe /\ n \in a + 1 .. b)
  <2>1. PICK i \in DOMAIN M : M[i].file = g /\ M[i].n = n
    BY DEF NumbersOf
  <2>2. CASE i \in 1 .. k
    BY <1>3, <1>5, <2>1, <2>2 DEF NumbersOf
  <2>3. CASE i \in k + 1 .. k + (b - a)
    <3>1. g = pipe /\ n = a + (i - k) /\ a + (i - k) \in a + 1 .. b
      BY <1>3, <1>6, <2>1, <2>3
    <3> QED
      BY <3>1
  <2> QED
    BY <1>7, <2>2, <2>3
<1>12. ASSUME NEW n \in a + 1 .. b PROVE n \in NumbersOf(M, pipe)
  <2> DEFINE i == k + (n - a)
  <2>1. i \in k + 1 .. k + (b - a) /\ i \in DOMAIN M /\ a + (i - k) = n
    BY <1>3, <1>4
  <2> HIDE DEF i
  <2>2. M[i].file = pipe /\ M[i].n = n
    BY <1>6, <2>1
  <2> QED
    BY <2>1, <2>2 DEF NumbersOf
<1>13. NumbersOf(M, pipe) = NumbersOf(L, pipe) \cup (a + 1 .. b)
  BY <1>10, <1>11, <1>12
<1>14. \A other : other # pipe => NumbersOf(M, other) = NumbersOf(L, other)
  BY <1>10, <1>11
<1> QED
  BY <1>4, <1>8, <1>9, <1>13, <1>14 DEF LogOrdered

\* The steps that write no log file and take no pipe with output away.
LEMMA LogsKept ==
    ASSUME LogInv, UNCHANGED <<logged, launches>>, PipesOK(pipes'),
           \A p \in Programs, s \in Stream :
             /\ pipes'[p][s].read = pipes[p][s].read
             /\ io'[p][LogOf(s)] # NoFd =>
                  /\ io[p][LogOf(s)] # NoFd
                  /\ io'[p][s] = NoFd =>
                       io[p][s] = NoFd /\ pipes'[p][s].written = pipes[p][s].written
    PROVE  LogInv'
<1>1. ASSUME NEW p \in Programs, NEW s \in Stream
      PROVE  LogWhole(logged', p, s, launches'[p], pipes'[p][s], io'[p])
  <2>1. LogWhole(logged, p, s, launches[p], pipes[p][s], io[p])
    BY DEF LogInv
  <2>2. LogWhole(logged, p, s, launches[p], pipes'[p][s], io'[p])
    BY <2>1 DEF LogWhole
  <2> QED
    BY <2>2
<1>2. ASSUME NEW f \in Paths PROVE LogOrdered(logged'[f], f, launches', pipes')
  <2>1. logged[f] \in Seq(Chunk) /\ LogOrdered(logged[f], f, launches, pipes) /\ PipesOK(pipes)
    BY DEF LogInv
  <2>2. \A p \in Programs, s \in Stream : pipes[p][s].read <= pipes'[p][s].read
    BY DEF LogInv, PipesOK, Pipe
  <2>3. LogOrdered(logged[f], f, launches, pipes')
    BY <2>1, <2>2, ReadMore
  <2> QED
    BY <2>3
<1>3. logged' \in [Paths -> Seq(Chunk)]
  BY DEF LogInv
<1> QED
  BY <1>1, <1>2, <1>3 DEF LogInv

\* p was launched once more.
Relaunched(p, counts, ps, more, qs) ==
    /\ more = [counts EXCEPT ![p] = @ + 1]
    /\ \A q \in Programs : q # p => qs[q] = ps[q]

NoneOf(L, p, count) == \A s : NumbersOf(L, PipeOf(p, s, count)) = {}

\* A new launch of p has written nothing yet; what is in a file is of earlier ones.
LEMMA NewCount ==
    ASSUME NEW L \in Seq(Chunk), NEW f, NEW p \in Programs,
           NEW counts \in [Programs -> Nat], NEW ps, NEW qs, NEW more,
           Relaunched(p, counts, ps, more, qs), LogOrdered(L, f, counts, ps)
    PROVE  LogOrdered(L, f, more, qs) /\ NoneOf(L, p, more[p])
<1> USE DEF Relaunched
<1>1. \A i \in DOMAIN L :
        /\ L[i].file.owner \in Programs /\ L[i].file.launch \in Nat
        /\ counts[L[i].file.owner] \in Nat
        /\ L[i].file.launch <= counts[L[i].file.owner]
  BY LogFields DEF LogOrdered
<1>2. \A i \in DOMAIN L :
        /\ L[i].file.launch <= more[L[i].file.owner]
        /\ L[i].file.owner = p => L[i].file.launch # more[p]
  BY <1>1
<1>3. NoneOf(L, p, more[p])
  BY <1>2 DEF NoneOf, NumbersOf, PipeOf
<1>4. ASSUME NEW i \in DOMAIN L, L[i].file.launch = more[L[i].file.owner]
      PROVE  L[i].n <= qs[L[i].file.owner][L[i].file.kind].read
  <2>1. L[i].file.owner # p
    BY <1>1, <1>2, <1>4
  <2> QED
    BY <1>1, <1>4, <2>1 DEF LogOrdered
<1> QED
  BY <1>2, <1>3, <1>4 DEF LogOrdered

LEMMA LaunchLog ==
    ASSUME FdInv, LogInv, NEW p \in Programs, NEW tab, NEW l, NEW ios,
           ios \in [Programs -> [Kind -> Numbers \cup {NoFd}]],
           launch(p, tab, l, ios), UNCHANGED logged,
           \A q \in Programs, s \in Stream :
             ios[q][s] = io[q][s] /\ ios[q][LogOf(s)] = io[q][LogOf(s)]
    PROVE  LogInv'
<1>1. CASE launches' = launches
  <2>1. launches[p] + 1 # launches[p]
    BY DEF FdInv
  <2>2. io' = ios /\ UNCHANGED pipes
    BY <1>1, <2>1 DEF launch, FdInv
  <2> QED
    BY <1>1, <2>2, LogsKept DEF LogInv
<1>2. CASE launches' # launches
  <2>1. /\ launches' = [launches EXCEPT ![p] = @ + 1]
        /\ pipes' = [pipes EXCEPT ![p] = Fresh]
        /\ \E w \in BOOLEAN : io' = [ios EXCEPT ![p] = LaunchIO(p, tab, w)]
        /\ createPipes(tab)
    BY <1>2 DEF launch
  <2>2. Fresh \in [Stream -> Pipe]
    BY DEF Fresh, Pipe
  <2>3. \A s \in Stream : Fresh[s].written = 0 /\ Fresh[s].read = 0
    BY DEF Fresh
  <2>4. PipesOK(pipes')
    <3>1. pipes \in [Programs -> [Stream -> Pipe]]
      BY DEF LogInv, PipesOK
    <3>2. /\ pipes' \in [Programs -> [Stream -> Pipe]] /\ pipes'[p] = Fresh
          /\ \A q \in Programs : q # p => pipes'[q] = pipes[q]
      BY <2>1, <2>2, <3>1
    <3>3. ASSUME NEW s \in Stream
          PROVE  Fresh[s].read <= Fresh[s].written /\ Fresh[s].written <= MaxWrites[p][s]
      <4>1. MaxWrites[p][s] \in Nat
        BY BoundsAssumption
      <4> QED
        BY <2>3, <4>1
    <3> QED
      BY <3>2, <3>3 DEF LogInv, PipesOK
  <2>5. /\ launches \in [Programs -> Nat]
        /\ \A q \in Programs :
             launches'[q] = IF q = p THEN launches[p] + 1 ELSE launches[q]
        /\ pipes'[p] = Fresh /\ \A q \in Programs : q # p => pipes'[q] = pipes[q]
        /\ \A q \in Programs : q # p => io'[q] = ios[q]
    BY <2>1 DEF FdInv, LogInv, PipesOK
  <2>6. ASSUME NEW f \in Paths
        PROVE  /\ LogOrdered(logged'[f], f, launches', pipes')
               /\ NoneOf(logged'[f], p, launches'[p])
    <3> DEFINE L == logged[f]
               more == launches'
               qs == pipes'
    <3>1. Relaunched(p, launches, pipes, more, qs)
      BY <2>1, <2>5 DEF Relaunched
    <3>2. L \in Seq(Chunk) /\ LogOrdered(L, f, launches, pipes)
      BY DEF LogInv
    <3> HIDE DEF L, more, qs
    <3>3. LogOrdered(L, f, more, qs) /\ NoneOf(L, p, more[p])
      BY <2>5, <3>1, <3>2, NewCount
    <3>4. logged'[f] = L
      BY DEF L
    <3> QED
      BY <3>3, <3>4 DEF L, more, qs
  <2>7. ASSUME NEW s \in Stream
        PROVE  LogWhole(logged', p, s, launches'[p], pipes'[p][s], io'[p])
    <3>1. PICK w \in BOOLEAN : io'[p] = LaunchIO(p, tab, w)
      BY <2>1
    <3>2. LaunchIO(p, tab, w)[LogOf(s)] # NoFd => LogPath[p][s] # NoPath
      BY <2>1, LaunchNumbers
    <3>3. io'[p][LogOf(s)] # NoFd => LogPath[p][s] \in Paths
      BY <3>1, <3>2, PathsAssumption
    <3>4. pipes'[p][s].written = 0 /\ pipes'[p][s].read = 0
      BY <2>3, <2>5
    <3>5. ~(pipes'[p][s].written > pipes'[p][s].read) /\ 1 .. pipes'[p][s].read = {}
      BY <3>4
    <3> QED
      BY <2>6, <3>3, <3>5 DEF LogWhole, NoneOf
  <2>8. ASSUME NEW q \in Programs, NEW s \in Stream, q # p
        PROVE  LogWhole(logged', q, s, launches'[q], pipes'[q][s], io'[q])
    <3>1. launches'[q] = launches[q] /\ pipes'[q] = pipes[q] /\ io'[q] = ios[q]
      BY <2>5, <2>8
    <3>2. LogWhole(logged, q, s, launches[q], pipes[q][s], io[q])
      BY DEF LogInv
    <3>3. LogWhole(logged, q, s, launches[q], pipes[q][s], ios[q])
      BY <3>2 DEF LogWhole
    <3> QED
      BY <3>1, <3>3
  <2> QED
    BY <2>4, <2>6, <2>7, <2>8 DEF LogInv
<1> QED
  BY <1>1, <1>2

LEMMA ReadLog ==
    ASSUME FdInv, LogInv, NEW e \in batch, HandleOutput(e) PROVE LogInv'
<1>1. PICK p \in Programs, s \in Stream :
        /\ io[p][s] = e.fd /\ Read(p, s, e.fd)
        /\ IF pipes[p][s].open THEN UNCHANGED <<table, io, loop>> ELSE Closed(p, s, e.fd)
        /\ UNCHANGED <<launches, proc, copies>>
  BY DEF HandleOutput, findByReadFd, readFromChild
<1> DEFINE a == pipes[p][s].read
           b == pipes[p][s].written
           f == LogPath[p][s]
           g == table[e.fd]
<1>2. a \in Nat /\ b \in Nat /\ a <= b /\ b <= MaxWrites[p][s] /\ launches[p] \in Nat
  BY DEF LogInv, PipesOK, Pipe, FdInv
<1>3. /\ e.fd \in Numbers /\ e.fd # NoFd /\ s \in Kind
      /\ g \in File /\ g.owner = p /\ g.kind = s /\ g.launch = launches[p]
      /\ g = PipeOf(p, s, launches[p])
  <2>1. e.fd \in Numbers /\ e.fd # NoFd /\ s \in Kind
    BY NumbersAssumption DEF FdInv, Event, Kind, Stream
  <2>2. g \in File /\ g.owner = p /\ g.kind = s /\ g.launch = launches[p]
    BY <1>1, <2>1 DEF FdInv, FdsOK
  <2> HIDE DEF g
  <2> QED
    BY <2>1, <2>2, FileFields DEF PipeOf
<1>4. /\ PipesOK(pipes') /\ pipes'[p][s].read = b /\ pipes'[p][s].written = b
      /\ \A q \in Programs, x \in Stream : q # p \/ x # s => pipes'[q][x] = pipes[q][x]
  <2>1. pipes \in [Programs -> [Stream -> Pipe]]
    BY DEF LogInv, PipesOK
  <2>2. pipes' = [pipes EXCEPT ![p][s].read = b]
    BY <1>1 DEF Read
  <2>3. [pipes[p][s] EXCEPT !.read = b] \in Pipe
    BY <1>2, <2>1 DEF Pipe
  <2>4. /\ pipes' \in [Programs -> [Stream -> Pipe]]
        /\ pipes'[p][s] = [pipes[p][s] EXCEPT !.read = b]
        /\ \A q \in Programs, x \in Stream : q # p \/ x # s => pipes'[q][x] = pipes[q][x]
    BY <2>1, <2>2, <2>3
  <2>5. pipes'[p][s].read = b /\ pipes'[p][s].written = b
    BY <2>1, <2>4 DEF Pipe
  <2>6. b <= b /\ \A q \in Programs, x \in Stream :
          /\ pipes[q][x].read <= pipes[q][x].written
          /\ pipes[q][x].written <= MaxWrites[q][x]
    BY <1>2 DEF LogInv, PipesOK
  <2> HIDE DEF b
  <2>7. ASSUME NEW q \in Programs, NEW x \in Stream
        PROVE  pipes'[q][x].read <= pipes'[q][x].written /\ pipes'[q][x].written <= MaxWrites[q][x]
    <3>1. CASE q = p /\ x = s
      BY <1>2, <2>5, <2>6, <3>1
    <3>2. CASE q # p \/ x # s
      BY <2>4, <2>6, <3>2
    <3> QED
      BY <3>1, <3>2
  <2> QED
    BY <2>4, <2>5, <2>7 DEF PipesOK
<1>5. \A q \in Programs, x \in Stream : pipes[q][x].read <= pipes'[q][x].read
  <2>1. \A q \in Programs, x \in Stream : pipes[q][x].read \in Nat
    BY DEF LogInv, PipesOK, Pipe
  <2> HIDE DEF b
  <2>2. \A q \in Programs, x \in Stream : q # p \/ x # s =>
          pipes'[q][x].read = pipes[q][x].read
    BY <1>4
  <2>3. pipes[p][s].read <= pipes'[p][s].read
    BY <1>2, <1>4
  <2> QED
    BY <2>1, <2>2, <2>3
<1>6. \A q \in Programs, k \in Kind : q # p \/ k # s => io'[q][k] = io[q][k]
  BY <1>1 DEF Closed, FdInv, FdsOK
<1>7. launches' = launches
  BY <1>1
<1>8. \A x \in Stream : x \in Kind /\ LogOf(x) \in Kind /\ LogOf(x) \notin Stream
  BY DEF Stream, Kind, LogOf
<1>9. logged \in [Paths -> Seq(Chunk)] /\ PipesOK(pipes) /\ launches \in [Programs -> Nat]
  BY DEF LogInv, FdInv
\* Files nothing is appended to.
<1>10. ASSUME NEW h \in Paths, logged'[h] = logged[h]
       PROVE  LogOrdered(logged'[h], h, launches', pipes')
  <2>1. LogOrdered(logged[h], h, launches, pipes)
    BY DEF LogInv
  <2>2. LogOrdered(logged[h], h, launches, pipes')
    BY <1>4, <1>5, <1>9, <2>1, ReadMore
  <2> QED
    BY <1>7, <1>10, <2>2
<1>11. CASE io[p][LogOf(s)] = NoFd
  <2>1. logged' = logged
    BY <1>1, <1>11 DEF Read
  <2>2. ASSUME NEW q \in Programs, NEW x \in Stream
        PROVE  LogWhole(logged', q, x, launches'[q], pipes'[q][x], io'[q])
    <3>1. io'[q][LogOf(x)] = io[q][LogOf(x)]
      BY <1>6, <1>8
    <3>2. CASE q = p /\ x = s
      BY <1>11, <3>1, <3>2 DEF LogWhole
    <3>3. CASE q # p \/ x # s
      <4>1. io'[q][x] = io[q][x] /\ pipes'[q][x] = pipes[q][x]
        BY <1>4, <1>6, <1>8, <3>3
      <4>2. LogWhole(logged, q, x, launches[q], pipes[q][x], io[q])
        BY DEF LogInv
      <4> QED
        BY <1>7, <2>1, <3>1, <4>1, <4>2 DEF LogWhole
    <3> QED
      BY <3>2, <3>3
  <2> QED
    BY <1>4, <1>9, <1>10, <2>1, <2>2 DEF LogInv
<1>12. CASE io[p][LogOf(s)] # NoFd
  <2>1. /\ f \in Paths /\ NumbersOf(logged[f], PipeOf(p, s, launches[p])) = 1 .. a
    BY <1>12 DEF LogInv, LogWhole
  <2>2. logged' = [logged EXCEPT ![f] = logged[f] \o ReadChunks(g, a, b)]
    BY <1>1, <1>12 DEF Read, ReadChunks
  <2>3. logged[f] \in Seq(Chunk) /\ LogOrdered(logged[f], f, launches, pipes)
    BY <2>1 DEF LogInv
  <2>4. AppendedInOrder(logged[f] \o ReadChunks(g, a, b), logged[f], f, launches, pipes', g, a, b)
    <3>1. /\ LogPath[g.owner][g.kind] = f /\ g.kind \in Stream /\ g.launch = launches[g.owner]
          /\ pipes[g.owner][g.kind].read = a /\ pipes'[g.owner][g.kind].read = b
      BY <1>3, <1>4
    <3> HIDE DEF a, b, f, g
    <3> QED
      BY <1>2, <1>3, <1>4, <1>5, <1>9, <2>3, <3>1, AppendOrdered
  <2> HIDE DEF a, b, f, g
  <2>5. /\ logged' \in [Paths -> Seq(Chunk)]
        /\ logged'[f] = logged[f] \o ReadChunks(g, a, b)
        /\ \A h \in Paths : h # f => logged'[h] = logged[h]
    BY <1>9, <2>1, <2>2, <2>4 DEF AppendedInOrder
  <2>6. /\ LogOrdered(logged'[f], f, launches', pipes')
        /\ NumbersOf(logged'[f], g) = NumbersOf(logged[f], g) \cup (a + 1 .. b)
        /\ \A other : other # g => NumbersOf(logged'[f], other) = NumbersOf(logged[f], other)
    BY <1>7, <2>4, <2>5 DEF AppendedInOrder
  <2>7. \A h \in Paths : LogOrdered(logged'[h], h, launches', pipes')
    BY <1>10, <2>5, <2>6
  <2>8. ASSUME NEW q \in Programs, NEW x \in Stream
        PROVE  LogWhole(logged', q, x, launches'[q], pipes'[q][x], io'[q])
    <3>1. io'[q][LogOf(x)] = io[q][LogOf(x)]
      BY <1>6, <1>8
    <3>2. CASE q = p /\ x = s
      <4>1. NumbersOf(logged'[f], g) = 1 .. b
        BY <1>2, <1>3, <2>1, <2>6
      <4>2. pipes'[p][s].read = b /\ ~(pipes'[p][s].written > pipes'[p][s].read)
        BY <1>2, <1>4
      <4>3. /\ LogPath[p][s] \in Paths
            /\ NumbersOf(logged'[LogPath[p][s]], PipeOf(p, s, launches'[p])) = 1 .. pipes'[p][s].read
        BY <1>3, <1>7, <2>1, <4>1, <4>2 DEF f
      <4> QED
        BY <3>2, <4>2, <4>3 DEF LogWhole
    <3>3. CASE q # p \/ x # s
      <4>1. io'[q][x] = io[q][x] /\ pipes'[q][x] = pipes[q][x]
        BY <1>4, <1>6, <1>8, <3>3
      <4>2. LogWhole(logged, q, x, launches[q], pipes[q][x], io[q])
        BY DEF LogInv
      <4>3. PipeOf(q, x, launches[q]) # g
        BY <1>3, <3>3 DEF PipeOf
      <4>4. ASSUME LogPath[q][x] \in Paths
            PROVE  NumbersOf(logged'[LogPath[q][x]], PipeOf(q, x, launches[q]))
                     = NumbersOf(logged[LogPath[q][x]], PipeOf(q, x, launches[q]))
        BY <2>5, <2>6, <4>3, <4>4
      <4> QED
        BY <1>7, <3>1, <4>1, <4>2, <4>4 DEF LogWhole
    <3> QED
      BY <3>2, <3>3
  <2> QED
    BY <1>4, <2>5, <2>7, <2>8 DEF LogInv
<1> QED
  BY <1>11, <1>12

LEMMA InitLog == Init => LogInv
<1> SUFFICES ASSUME Init PROVE LogInv
  OBVIOUS
<1>1. Quiet \in [Stream -> Pipe] /\ \A s \in Stream : Quiet[s].read = 0 /\ Quiet[s].written = 0
  BY DEF Quiet, Pipe
<1>2. ASSUME NEW p \in Programs, NEW s \in Stream
      PROVE  /\ pipes[p][s].read = 0 /\ pipes[p][s].written = 0
             /\ 0 <= MaxWrites[p][s] /\ io[p][LogOf(s)] = NoFd
  <2>1. MaxWrites[p][s] \in Nat
    BY BoundsAssumption
  <2> QED
    BY <1>1, <2>1 DEF Init, NoIO, LogOf, Kind, Stream
<1>3. pipes \in [Programs -> [Stream -> Pipe]]
  BY <1>1 DEF Init
<1>4. logged \in [Paths -> Seq(Chunk)] /\ \A f \in Paths : logged[f] = <<>>
  BY EmptySeq DEF Init
<1>5. \A f \in Paths : LogOrdered(logged[f], f, launches, pipes)
  BY <1>4 DEF LogOrdered
<1>6. \A p \in Programs, s \in Stream :
        LogWhole(logged, p, s, launches[p], pipes[p][s], io[p])
  BY <1>2 DEF LogWhole
<1>7. PipesOK(pipes)
  BY <1>2, <1>3 DEF PipesOK
<1> QED
  BY <1>4, <1>5, <1>6, <1>7 DEF LogInv

LEMMA NextLog == FdInv /\ LogInv /\ [Next]_vars => LogInv'
<1> SUFFICES ASSUME FdInv, LogInv, [Next]_vars PROVE LogInv'
  OBVIOUS
<1>1. "out" \in Stream /\ \A s \in Stream : s \in Kind /\ LogOf(s) \in Kind /\ s # "pid" /\ LogOf(s) # "pid"
  BY DEF Stream, Kind, LogOf
<1>2. io \in [Programs -> [Kind -> Numbers \cup {NoFd}]]
  BY DEF FdInv, FdsOK
<1>3. CASE UNCHANGED <<logged, launches, pipes, io>>
  BY <1>3, LogsKept DEF LogInv
<1>4. ASSUME NEW e \in batch, HandleExited(e) PROVE LogInv'
  <2>1. PICK p \in Programs : handleDeath(p)
    BY <1>4 DEF HandleExited, findByPidFd
  <2>2. PICK tab, l, ios : /\ ios = [io EXCEPT ![p].pid = NoFd]
                           /\ launch(p, tab, l, ios) \/ Reaped(p, tab, l, ios)
    BY <2>1 DEF handleDeath
  <2>3. ios \in [Programs -> [Kind -> Numbers \cup {NoFd}]]
    BY <1>2, <2>2 DEF Kind
  <2>4. \A q \in Programs, s \in Stream :
          ios[q][s] = io[q][s] /\ ios[q][LogOf(s)] = io[q][LogOf(s)]
    BY <1>1, <1>2, <2>2
  <2>5. CASE launch(p, tab, l, ios)
    BY <1>4, <2>3, <2>4, <2>5, LaunchLog DEF HandleExited
  <2>6. CASE Reaped(p, tab, l, ios)
    BY <1>4, <2>4, <2>6, LogsKept DEF HandleExited, Reaped, LogInv
  <2> QED
    BY <2>2, <2>5, <2>6
<1>5. ASSUME NEW e \in batch, HandleOutput(e) PROVE LogInv'
  BY <1>5, ReadLog
<1>6. ASSUME NEW p \in Programs, Start(p) PROVE LogInv'
  BY <1>2, <1>6, LaunchLog DEF Start
<1>7. ASSUME NEW p \in Programs, Remove(p) PROVE LogInv'
  <2>1. io' = [io EXCEPT ![p] = NoIO] /\ UNCHANGED <<logged, launches, pipes>>
    BY <1>7 DEF Remove, world
  <2>2. \A q \in Programs, s \in Stream : io'[q][LogOf(s)] # NoFd => io'[q] = io[q]
    BY <1>1, <1>2, <2>1 DEF NoIO
  <2>3. \A q \in Programs, s \in Stream :
          io'[q][LogOf(s)] # NoFd =>
            io[q][LogOf(s)] # NoFd /\ (io'[q][s] = NoFd => io[q][s] = NoFd)
    BY <2>2
  <2> QED
    BY <2>1, <2>3, LogsKept DEF LogInv
<1>8. ASSUME NEW p \in Programs, NEW x \in Stream, LastWriterGone(p) \/ Write(p, x)
      PROVE  LogInv'
  <2>1. UNCHANGED <<logged, launches, io>>
    BY <1>8 DEF LastWriterGone, Write
  <2>2. pipes \in [Programs -> [Stream -> Pipe]]
    BY DEF LogInv, PipesOK
  <2>3. /\ pipes' \in [Programs -> [Stream -> Pipe]]
        /\ \A q \in Programs, s \in Stream :
             /\ pipes'[q][s].read = pipes[q][s].read
             /\ \/ pipes'[q][s].written = pipes[q][s].written
                \/ /\ io[q][s] # NoFd /\ pipes'[q][s].written = pipes[q][s].written + 1
                   /\ pipes[q][s].written < MaxWrites[q][s]
    <3>1. CASE LastWriterGone(p)
      <4>1. pipes' = [pipes EXCEPT ![p]["out"].open = FALSE, ![p]["err"].open = FALSE]
        BY <3>1 DEF LastWriterGone
      <4>2. pipes[p] \in [Stream -> Pipe]
        BY <2>2
      <4>3. [pipes[p] EXCEPT !["out"].open = FALSE, !["err"].open = FALSE]
              = [s \in Stream |-> [pipes[p][s] EXCEPT !.open = FALSE]]
        BY <4>2 DEF Stream
      <4>4. pipes' = [pipes EXCEPT ![p] =
                        [s \in Stream |-> [pipes[p][s] EXCEPT !.open = FALSE]]]
        BY <2>2, <4>1, <4>3
      <4>5. ASSUME NEW s \in Stream
            PROVE  /\ [pipes[p][s] EXCEPT !.open = FALSE] \in Pipe
                   /\ [pipes[p][s] EXCEPT !.open = FALSE].read = pipes[p][s].read
                   /\ [pipes[p][s] EXCEPT !.open = FALSE].written = pipes[p][s].written
        BY <4>2 DEF Pipe
      <4>6. \A q \in Programs, s \in Stream :
              pipes'[q][s] = IF q = p THEN [pipes[p][s] EXCEPT !.open = FALSE] ELSE pipes[q][s]
        BY <2>2, <4>4
      <4>7. pipes' \in [Programs -> [Stream -> Pipe]]
        BY <2>2, <4>4, <4>5
      <4> QED
        BY <4>5, <4>6, <4>7
    <3>2. CASE Write(p, x)
      <4>1. /\ pipes' = [pipes EXCEPT ![p][x].written = pipes[p][x].written + 1]
            /\ io[p][x] # NoFd /\ pipes[p][x].written < MaxWrites[p][x]
        BY <3>2 DEF Write
      <4>2. pipes[p][x] \in Pipe
        BY <2>2
      <4>3. [pipes[p][x] EXCEPT !.written = pipes[p][x].written + 1] \in Pipe
        BY <4>2 DEF Pipe
      <4>4. /\ pipes' \in [Programs -> [Stream -> Pipe]]
            /\ pipes'[p][x] = [pipes[p][x] EXCEPT !.written = pipes[p][x].written + 1]
            /\ \A q \in Programs, s \in Stream : q # p \/ s # x => pipes'[q][s] = pipes[q][s]
        BY <2>2, <4>1, <4>3
      <4>5. /\ pipes'[p][x].written = pipes[p][x].written + 1
            /\ pipes'[p][x].read = pipes[p][x].read
        BY <4>2, <4>4 DEF Pipe
      <4> QED
        BY <4>1, <4>4, <4>5
    <3> QED
      BY <1>8, <3>1, <3>2
  <2>4. PipesOK(pipes')
    <3>1. ASSUME NEW q \in Programs, NEW s \in Stream
          PROVE  /\ pipes'[q][s].read <= pipes'[q][s].written
                 /\ pipes'[q][s].written <= MaxWrites[q][s]
      <4> DEFINE r == pipes[q][s].read
                 w == pipes[q][s].written
                 w2 == pipes'[q][s].written
                 m == MaxWrites[q][s]
      <4>1. pipes[q][s] \in Pipe
        BY <2>2
      <4>2. r \in Nat /\ w \in Nat /\ m \in Nat
        BY <4>1, BoundsAssumption DEF Pipe
      <4>3. r <= w /\ w <= m
        BY DEF LogInv, PipesOK
      <4>4. pipes'[q][s].read = r /\ (w2 = w \/ (w2 = w + 1 /\ w < m))
        BY <2>3
      <4> HIDE DEF r, w, w2, m
      <4>5. r <= w2 /\ w2 <= m
        BY <4>2, <4>3, <4>4
      <4> QED
        BY <4>4, <4>5 DEF w2, m
    <3> QED
      BY <2>3, <3>1 DEF PipesOK
  <2> QED
    BY <2>1, <2>3, <2>4, LogsKept
<1>9. CASE Wait
  BY <1>3, <1>9 DEF Wait, world
<1>10. ASSUME NEW e \in batch, Ignore(e) \/ Block(e) PROVE LogInv'
  BY <1>3, <1>10 DEF Ignore, Block, world
<1>11. CASE SignalArrives
  BY <1>3, <1>11 DEF SignalArrives, world
<1>12. ASSUME NEW p \in Programs, Exec(p) \/ Die(p) PROVE LogInv'
  BY <1>3, <1>12 DEF Exec, Die
<1>13. CASE UNCHANGED vars
  BY <1>3, <1>13 DEF vars
<1> QED
  BY <1>1, <1>4, <1>5, <1>6, <1>7, <1>8, <1>9, <1>10, <1>11, <1>12, <1>13
  DEF Next, Collect

LEMMA LogInvariance == Spec => []LogInv
<1>1. Init => LogInv
  BY InitLog
<1>2. FdInv /\ LogInv /\ [Next]_vars => LogInv'
  BY NextLog
<1> QED
  BY <1>1, <1>2, FdInvariance, PTL DEF Spec

(* The table, the loop, the events handled late, the pipes and the logs keep   *)
(* their types through every reuse of a descriptor's number.                   *)
THEOREM OutputType == Spec => []TypeOK
<1>1. FdInv /\ LogInv => TypeOK
  <2> SUFFICES ASSUME FdInv, LogInv PROVE TypeOK
    OBVIOUS
  <2>1. loop.interest \subseteq [file : File, fd : Numbers]
        /\ loop.types \in [Numbers -> EventType \cup {NoType}]
    BY DEF FdInv, FdsOK, Loop
  <2>2. \A p \in Programs : launches[p] \in 0 .. MaxLaunches[p]
    BY BoundsAssumption DEF FdInv
  <2>3. \A p \in Programs, s \in Stream :
          /\ pipes[p][s].read <= pipes[p][s].written
          /\ pipes[p][s].written <= MaxWrites[p][s]
    BY DEF LogInv, PipesOK
  <2> QED
    BY <2>1, <2>2, <2>3 DEF TypeOK, FdInv, FdsOK, LogInv, PipesOK
<1> QED
  BY <1>1, FdInvariance, LogInvariance, PTL

(* Whatever numbers are used again, and whichever streams name the same path:  *)
(* what readFromChild appends to a file is of a stream whose config names it,  *)
(* and what it appends of one stream is in the order it was written, launch    *)
(* after launch, and never there twice.                                        *)
THEOREM EachInItsFile == Spec => []EachToItsFile
<1>1. LogInv => EachToItsFile
  BY DEF LogInv, LogOrdered, EachToItsFile
<1> QED
  BY <1>1, LogInvariance, PTL

(* As long as the log is open it has all that was read of the last launch,     *)
(* whoever else appends to the same file, and readFromChild closes a pipe only *)
(* when it has read what there was.                                            *)
THEOREM OutputKept == Spec => []NothingLost
<1>1. LogInv => NothingLost
  BY DEF LogInv, LogWhole, NumbersOf, PipeOf, Kept, NothingLost, HasData
<1> QED
  BY <1>1, LogInvariance, PTL

=============================================================================
