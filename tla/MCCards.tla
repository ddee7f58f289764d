------------------------------ MODULE MCCards ------------------------------
(* Small instances of Cards: two calls of one tool, from a turn and from   *)
(* background work; or a call and a question put by the same work.         *)
EXTENDS Cards

CONSTANTS call1, call2, question, turn, work, owner, guest, bash

TurnAndWork     == [c \in Call |-> IF c = call1 THEN turn ELSE work]
OneTool         == [c \in Call |-> bash]
OneOwner        == [r \in Run |-> owner]
Everybody       == [c \in Call |-> {owner, guest}]
=============================================================================
