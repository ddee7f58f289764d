------------------------------ MODULE MCReply ------------------------------
(* Instances of Reply: what the agent says is a fence with a line before   *)
(* and after it, or plain words longer than two messages.                  *)
EXTENDS Reply

MCScripts ==
  { <<"mark", "nl", "word", "mark", "nl">>,
    <<"word", "nl", "word", "word", "word">> }
=============================================================================
