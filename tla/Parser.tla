------------------------------- MODULE Parser --------------------------------
(***************************************************************************)
(* The class Parser: from the config file, as yaml-cpp reads it, to the    *)
(* programs it asks for, or a rejection (an exception).                    *)
(*                                                                         *)
(* A document is the entries of its `programs' map, in order; yaml-cpp     *)
(* keeps an entry whose key was there before.  An entry has the fields the *)
(* parser checks; workingdir, the log files and the numbers that are only  *)
(* converted are one field, `rest', that converts or does not.             *)
(***************************************************************************)
EXTENDS Integers, Sequences

CONSTANTS
    Entries,        \* what the operator may write as an entry
    Rejected,       \* an exception
    Absent,         \* the entry does not have the field
    Broken          \* the field, or the whole file, does not convert

AutoRestarts == {"always", "never", "unexpected"}
StopSignals == {"TERM", "INT", "QUIT", "HUP", "USR1", "USR2", "KILL"}

ASSUME EntriesAssumption == \A e \in Entries : e.isMap \in BOOLEAN

Given(field, default) == IF field = Absent THEN default ELSE field

\* ProgramConfig, as far as the parser fills it from Entries: a name is a key
\* and, after expandNumprocs, an index.
Programs ==
    [name        : Seq({e.key : e \in Entries} \cup Nat),
     cmd         : {e.cmd : e \in Entries},
     autorestart : AutoRestarts,
     stopsignal  : StopSignals,
     umask       : {Given(e.umask, -1) : e \in Entries},
     exitcodes   : {Given(e.exitcodes, {0}) : e \in Entries},
     env         : {Given(e.env, {}) : e \in Entries},
     rest        : {Given(e.rest, "defaults") : e \in Entries}]

\* An exception is told from every result.
ASSUME RejectedAssumption == Rejected \notin Programs \cup Seq(Programs)

-----------------------------------------------------------------------------
(* loadProgramsConf *)

\* parseUmask, parseExitcodes, parseEnv and the conversions of yaml-cpp.
Converts(e) ==
    /\ e.rest # Broken /\ e.umask # Broken /\ e.env # Broken
    /\ e.exitcodes \notin {Broken, {}}

parseProgram(e) ==
    IF /\ e.cmd \notin {Absent, Broken, ""}
       /\ e.autorestart \in AutoRestarts \cup {Absent}
       /\ e.stopsignal \in StopSignals \cup {Absent}
       /\ Converts(e)
    THEN [name        |-> <<e.key>>,
          cmd         |-> e.cmd,
          autorestart |-> Given(e.autorestart, "unexpected"),
          stopsignal  |-> Given(e.stopsignal, "TERM"),
          umask       |-> Given(e.umask, -1),
          exitcodes   |-> Given(e.exitcodes, {0}),
          env         |-> Given(e.env, {}),
          rest        |-> Given(e.rest, "defaults")]
    ELSE Rejected

checkDuplicateName_LastOnly(name, programs) ==
    programs # <<>> /\ programs[Len(programs)].name = name

checkDuplicateName(name, programs) ==
    \E i \in DOMAIN programs : programs[i].name = name

\* The index is always appended; no index ends in another one, so the pair of
\* the key and the index stands for the text.
expandNumprocs(base, numprocs, programs) ==
    LET name(i) == <<base.name[1], i - 1>>
        upTo[i \in 0 .. numprocs] ==
            IF i = 0 THEN programs
            ELSE IF upTo[i - 1] = Rejected THEN Rejected
            ELSE IF checkDuplicateName(name(i), upTo[i - 1]) THEN Rejected
            ELSE Append(upTo[i - 1], [base EXCEPT !.name = name(i)])
    IN  upTo[numprocs]

\* One turn of the loop over the entries.
Expanded(programs, e) ==
    LET base == IF e.isMap THEN parseProgram(e) ELSE Rejected
        numprocs == Given(e.numprocs, 1)
    IN  IF Rejected \in {programs, base} \/ numprocs \notin Nat \ {0}
        THEN Rejected
        ELSE expandNumprocs(base, numprocs, programs)

loadProgramsConf(doc) ==
    IF doc = Broken THEN Rejected
    ELSE LET upTo[i \in 0 .. Len(doc)] ==
                 IF i = 0 THEN <<>> ELSE Expanded(upTo[i - 1], doc[i])
         IN  IF upTo[Len(doc)] = <<>> THEN Rejected ELSE upTo[Len(doc)]

-----------------------------------------------------------------------------
(* What README.md says of the config file *)

GoodEntry(e) ==
    /\ e.isMap
    /\ e.cmd \notin {Absent, Broken, ""}
    /\ e.numprocs = Absent \/ e.numprocs \in Nat \ {0}
    /\ e.autorestart \in AutoRestarts \cup {Absent}
    /\ e.stopsignal \in StopSignals \cup {Absent}
    /\ Broken \notin {e.umask, e.exitcodes, e.env, e.rest}
    /\ e.exitcodes # {}

GoodDocument(doc) ==
    /\ doc # Broken /\ doc # <<>>
    /\ \A i \in DOMAIN doc : GoodEntry(doc[i])
    /\ \A i, j \in DOMAIN doc : doc[i].key = doc[j].key => i = j

Instances(doc) ==
    UNION {{<<doc[i].key, k>> : k \in 0 .. Given(doc[i].numprocs, 1) - 1} :
              i \in DOMAIN doc}

\* The programs of a good document: one for each index of each entry, under
\* distinct names, each with the command of its entry.
Describes(programs, doc) ==
    /\ {programs[i].name : i \in DOMAIN programs} = Instances(doc)
    /\ \A i, j \in DOMAIN programs : programs[i].name = programs[j].name => i = j
    /\ \A i \in DOMAIN programs : \A j \in DOMAIN doc :
        doc[j].key = programs[i].name[1] =>
            /\ programs[i].cmd = doc[j].cmd
            /\ programs[i].autorestart = Given(doc[j].autorestart, "unexpected")

\* A document is taken whole, or rejected.
ReadRight(doc, result) ==
    IF GoodDocument(doc) THEN result # Rejected /\ Describes(result, doc)
                         ELSE result = Rejected
=============================================================================
