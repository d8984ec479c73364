------------------------------ MODULE EventLoop ------------------------------
(***************************************************************************)
(* The class EventLoop: an epoll instance and m_types, the map from a      *)
(* descriptor's number to the type of event it was added for.              *)
(*                                                                         *)
(* epoll knows a registration by the open file and the number it had, and  *)
(* forgets it when the last descriptor of that open file is closed, in     *)
(* this process or in any other; m_types knows numbers only.               *)
(***************************************************************************)
EXTENDS Integers

CONSTANTS
    Numbers,        \* descriptor numbers the daemon has for its programs
    NoFd,           \* no descriptor: -1
    NoFile,         \* what a closed number stands for
    NoType          \* m_types has no entry

ASSUME NumbersAssumption == Numbers \subseteq Nat /\ NoFd \notin Numbers

\* In the order of the enumeration; the two that belong to clients are left out.
EventType == {"SignalReceived", "ProcessOutputReady", "ProcessExited"}
FirstType == "SignalReceived"

ASSUME TypesAssumption == NoType \notin EventType

\* A loop is [interest, types]; table gives the open file of each number.
NewLoop == [interest |-> {}, types |-> [d \in Numbers |-> NoType]]

Registration(table, d) == [file |-> table[d], fd |-> d]

add_KeepsOldType(loop, table, d, type) ==
    IF d = NoFd THEN loop
    ELSE [interest |-> loop.interest \cup {Registration(table, d)},
          types |-> [loop.types EXCEPT ![d] = IF @ = NoType THEN type ELSE @]]

add(loop, table, d, type) ==
    IF d = NoFd THEN loop
    ELSE [interest |-> loop.interest \cup {Registration(table, d)},
          types |-> [loop.types EXCEPT ![d] = type]]

remove(loop, table, d) ==
    IF d = NoFd THEN loop
    ELSE [interest |-> loop.interest \ {Registration(table, d)},
          types |-> [loop.types EXCEPT ![d] = NoType]]

\* close(2): the kernel drops the registrations of files nobody has open.
Forgotten(loop, held) ==
    [loop EXCEPT !.interest = {r \in @ : r.file \in held}]

Looked_NoEntry(loop, ready) == loop

\* m_types[fd] in wait makes the entry it does not find, with the first type.
Looked(loop, ready) ==
    [loop EXCEPT !.types = [d \in Numbers |->
        IF @[d] = NoType /\ \E r \in ready : r.fd = d THEN FirstType ELSE @[d]]]

\* The events wait returns, each with the file that is really ready.
Events(loop, ready) ==
    {[fd |-> r.fd, type |-> Looked(loop, ready).types[r.fd], file |-> r.file] :
        r \in ready}
=============================================================================
