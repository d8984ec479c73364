------------------------------ MODULE MCOutput -------------------------------
(* Values for the constants of Output.                                     *)
EXTENDS Output

CONSTANTS a, b, f, g

\* Nine numbers are in use when both programs are up with all they ask for; with
\* one less the last log file that is opened, or a relaunch, finds no room.
EightNumbers == 1 .. 8
NineNumbers == 1 .. 9

\* The two programs append to one file, like the instances of one entry.
SharedLogs ==
    [p \in Programs |-> [s \in Stream |->
        IF s = "out" THEN f ELSE IF p = a THEN g ELSE NoPath]]
NoLogs == [p \in Programs |-> [s \in Stream |-> NoPath]]

ATwice == [p \in Programs |-> IF p = a THEN 2 ELSE 1]
OneChunkEach == [p \in Programs |-> [s \in Stream |-> IF s = "out" THEN 1 ELSE 0]]
Silent == [p \in Programs |-> [s \in Stream |-> 0]]
=============================================================================
