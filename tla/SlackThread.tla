---------------------------- MODULE SlackThread ----------------------------
(***************************************************************************)
(* A Slack thread as crates/slack-sim keeps one (src/stream.rs, `post` of  *)
(* src/state.rs, `post_message` and `update_message` of src/api.rs): the   *)
(* messages in the order in which they were started, some of them streams. *)
(*                                                                         *)
(* Each operator is one call: it gives the thread after the call and what  *)
(* Slack answers.  Text is a sequence of units (words, newlines, fence     *)
(* markers); a list is a plan block, which a message holds once per block  *)
(* id.                                                                     *)
(***************************************************************************)
EXTENDS Integers, Sequences

CONSTANT MaxText    \* the most units a streamed message takes

ASSUME MaxTextAssumption == MaxText \in Nat

Kinds  == {"stream", "post", "placed"}
States == {"open", "stopped", "finalized", "whole"}

Words(text)       == [text |-> text, lists |-> <<>>]
List(block, what) == [text |-> <<>>, lists |-> [b \in {block} |-> what]]

Answer(th, said) == [th |-> th, said |-> said]

Redrawn(lists, old) ==
  [b \in DOMAIN lists \cup DOMAIN old |-> IF b \in DOMAIN lists THEN lists[b] ELSE old[b]]

(* A block already in the message is rewritten in place. *)
Apply(m, chunk) ==
  [m EXCEPT !.text = @ \o chunk.text, !.lists = Redrawn(chunk.lists, @)]

Fits(m, chunk) == Len(m.text \o chunk.text) <= MaxText

NewMessage(kind, text) ==
  [kind |-> kind, text |-> text, lists |-> <<>>,
   state |-> IF kind = "stream" THEN "open" ELSE "whole"]

(* A surface that hosts no streams (`hosts`) takes none. *)
StartStream(th, hosts, chunk) ==
  LET m == NewMessage("stream", <<>>)
  IN  IF ~hosts THEN Answer(th, "channel_type_not_supported")
      ELSE IF ~Fits(m, chunk) THEN Answer(th, "msg_too_long")
      ELSE Answer(Append(th, Apply(m, chunk)), "ok")

AppendStream(th, i, chunk) ==
  IF th[i].state # "open" THEN Answer(th, "message_not_in_streaming_state")
  ELSE IF ~Fits(th[i], chunk) THEN Answer(th, "msg_too_long")
  ELSE Answer([th EXCEPT ![i] = Apply(@, chunk)], "ok")

StopStream(th, i) ==
  IF th[i].state # "open" THEN Answer(th, "message_not_in_streaming_state")
  ELSE Answer([th EXCEPT ![i].state = "stopped"], "ok")

(* Slack ends a stream by itself: one left idle, or one it has had enough *)
(* of.  The message stays.                                                 *)
Finalized(th, i) == [th EXCEPT ![i].state = "finalized"]

(* A message of a tool holds a block of its own; one of words needs words. *)
PostMessage(th, kind, text) ==
  IF kind = "post" /\ text = <<>> THEN Answer(th, "no_text")
  ELSE Answer(Append(th, NewMessage(kind, text)), "ok")

UpdateMessage(th, i, text) ==
  IF text = <<>> THEN Answer(th, "no_text")
  ELSE Answer([th EXCEPT ![i].text = text], "ok")
=============================================================================
