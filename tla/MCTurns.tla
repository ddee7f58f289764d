------------------------------ MODULE MCTurns ------------------------------
(* Small instances of Turns: three messages by two people in one thread    *)
(* over two sessions.                                                      *)
EXTENDS Turns

CONSTANTS c1, c2, alice, bob, s1, s2

OneThread   == [m \in Message |-> c1]
Authors     == [m \in Message |-> IF m = 2 THEN bob ELSE alice]
OneHome     == [s \in Session |-> c1]
=============================================================================
