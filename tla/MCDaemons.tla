------------------------------ MODULE MCDaemons ------------------------------
(* Values for the constants of Daemons.                                    *)
EXTENDS Daemons

\* An entry with every optional field absent, entries with one field that is
\* wrong or unusual, and an entry that is not a map.
Plain == [key |-> "a", isMap |-> TRUE, cmd |-> "run", numprocs |-> Absent,
          autorestart |-> Absent, stopsignal |-> Absent, umask |-> Absent,
          exitcodes |-> Absent, env |-> Absent, rest |-> Absent]

Serve2 == [Plain EXCEPT !.key = "b", !.numprocs = 2, !.cmd = "serve"]

Bad == [Plain EXCEPT !.key = "c", !.cmd = ""]

SomeEntries ==
    {Plain, Bad,
     [Plain EXCEPT !.key = "b", !.numprocs = 1, !.autorestart = "never"],
     Serve2,
     [Plain EXCEPT !.numprocs = 3, !.stopsignal = "KILL"],
     [Plain EXCEPT !.isMap = FALSE],
     [Plain EXCEPT !.cmd = Absent], [Plain EXCEPT !.cmd = ""],
     [Plain EXCEPT !.numprocs = 0], [Plain EXCEPT !.numprocs = -1],
     [Plain EXCEPT !.numprocs = Broken],
     [Plain EXCEPT !.autorestart = "sometimes"],
     [Plain EXCEPT !.stopsignal = "WINCH"],
     [Plain EXCEPT !.exitcodes = {}], [Plain EXCEPT !.exitcodes = {0, 2}],
     [Plain EXCEPT !.umask = Broken], [Plain EXCEPT !.env = Broken],
     [Plain EXCEPT !.rest = Broken]}

\* No file, no entry, every entry alone, and entries that meet: other keys,
\* the same key again, a good one before and after a bad one.
SomeDocuments ==
    {Broken, <<>>} \cup {<<e>> : e \in SomeEntries}
        \cup {<<Plain, Serve2>>, <<Serve2, Serve2>>, <<Serve2, Plain, Serve2>>,
              <<Serve2, Bad>>, <<Bad, Plain>>}
===============================================================================
