-------------------------- MODULE SupervisorProofs ---------------------------
(***************************************************************************)
(* What follows from the promise alone.                                    *)
(***************************************************************************)
EXTENDS Supervisor, TLAPS

LifeInv == LifeTypeOK /\ Accounted

LEMMA InitLife == Init => LifeInv
  BY DEF Init, LifeInv, LifeTypeOK, Accounted, Phase, Process, After

LEMMA NextLife == LifeInv /\ [Next]_lifeVars => LifeInv'
<1> SUFFICES ASSUME LifeInv, [Next]_lifeVars PROVE LifeInv'
  OBVIOUS
<1> USE DEF LifeInv, LifeTypeOK, Accounted, Phase, Process, After
<1>1. CASE Appear \/ Launch
  BY <1>1 DEF Appear, Launch, ComesUp, StaysDown
<1>2. CASE Mark \/ Vanish
  BY <1>2 DEF Mark, Vanish
<1>3. CASE Stop \/ Insist
  BY <1>3 DEF Stop, Insist
<1>4. CASE Die
  BY <1>4 DEF Die
<1>5. CASE Reap
  BY <1>5 DEF Reap, ComesUp, StaysDown
<1>6. CASE UNCHANGED lifeVars
  BY <1>6 DEF lifeVars
<1> QED
  BY <1>1, <1>2, <1>3, <1>4, <1>5, <1>6 DEF Next

(* A program kept to the promise has a process exactly when it is up or        *)
(* stopping, told to stop only when it is stopping, and one that nobody told   *)
(* only when it is up: nothing runs under a program shown as stopped, exited   *)
(* or fatal, and nothing is left of one that is gone (Program::State, and the  *)
(* answers of status).                                                         *)
THEOREM ProcessesAccountedFor == Spec => []Accounted
<1>1. LifeInv => Accounted
  BY DEF LifeInv
<1> QED
  BY InitLife, NextLife, <1>1, PTL DEF Spec
=============================================================================
