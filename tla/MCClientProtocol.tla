-------------------------- MODULE MCClientProtocol ---------------------------
(* Values for the constants of ClientProtocol.                             *)
EXTENDS ClientProtocol

CONSTANTS c1, c2

AnyLine == [c \in {c1} |-> Kinds]
AnyAndSome ==
    [c \in {c1, c2} |-> IF c = c1 THEN Kinds ELSE {"status", "shutdown"}]
OneOrder == [c \in {c1} |-> 1]
TwoAndOne == [c \in {c1, c2} |-> IF c = c1 THEN 2 ELSE 1]
=============================================================================
