--------------------------- MODULE BodyConverters ---------------------------
(***************************************************************************)
(* The three adapters' converters of a response that is not streamed       *)
(* (convert.go of each): what a client gets for a whole upstream body.     *)
(*                                                                         *)
(* A body is known by the kinds of what it contains, how far each tool     *)
(* call's arguments are JSON, and why it ended; so is a result.            *)
(***************************************************************************)
EXTENDS StreamEvents

Refused               == [ok |-> FALSE]
Result(items, reason) == [ok |-> TRUE, items |-> items, reason |-> reason]

(* DecodeArgs, after DefaultArgs. *)
Decodes(args) == args \in {"none", "whole"}

-----------------------------------------------------------------------------
(* Chat Completions.  A body is [thinking, text : BOOLEAN, calls, finish]. *)

(* Thinking precedes text, and both precede the calls. *)
Leading(body) == SelectSeq(<<"thinking", "text">>, LAMBDA kind : body[kind])

ChatToClaude(body) ==
  IF \E c \in Range(body.calls) : ~Decodes(c.args) THEN Refused
  ELSE Result(Leading(body) \o [k \in DOMAIN body.calls |-> "tool"],
              TerminalReason(body.calls # <<>>, body.finish))

(* UnwrapCustomToolInput refuses absent input; a function's arguments are  *)
(* passed on as they are.                                                  *)
ChatToResponses(body) ==
  IF \E c \in Range(body.calls) : c.custom /\ c.args # "whole" THEN Refused
  ELSE Result(Leading(body)
                \o [k \in DOMAIN body.calls |-> IF body.calls[k].custom THEN "custom" ELSE "tool"],
              StatusOf(body.finish))

-----------------------------------------------------------------------------
(* Messages.  A body is [content, stop], a block [type, filled].           *)

ToolUses(body) == SelectSeq(body.content, LAMBDA b : b.type = "tool_use")

ClaudeToChat(body) ==
  LET text == \E b \in Range(body.content) : b.type = "text" /\ b.filled IN
  Result((IF text THEN <<"text">> ELSE <<>>) \o [k \in DOMAIN ToolUses(body) |-> "tool"],
         TerminalReason(ToolUses(body) # <<>>, FinishOf(body.stop)))

(* OutputAssembler: the first text block's slot is the message's, and the  *)
(* later ones take none.                                                   *)
Slot(body, k) ==
  \/ body.content[k].type = "tool_use"
  \/ /\ body.content[k].type = "text"
     /\ \A j \in 1..(k - 1) : body.content[j].type # "text"

ClaudeToResponses(body) ==
  LET slots == SelectSeq([k \in DOMAIN body.content |-> k], LAMBDA k : Slot(body, k)) IN
  Result([k \in DOMAIN slots |->
            IF body.content[slots[k]].type = "text" THEN "text" ELSE "tool"],
         StatusOf(FinishOf(body.stop)))

-----------------------------------------------------------------------------
(* Responses.  A body is [text : BOOLEAN, before, calls, status]: its      *)
(* message item, if it has one, comes after the first `before' calls.      *)

Tools(n) == [k \in 1..n |-> "tool"]

(* A chat message has its content apart from its tool calls; the blocks of *)
(* a Messages result are in the order of the items.                        *)
ChatItems(body) ==
  (IF body.text THEN <<"text">> ELSE <<>>) \o Tools(Len(body.calls))
ClaudeItems(body) ==
  IF body.text
  THEN Tools(body.before) \o <<"text">> \o Tools(Len(body.calls) - body.before)
  ELSE Tools(Len(body.calls))

ResponsesToChat(body) ==
  Result(ChatItems(body), TerminalReason(body.calls # <<>>, ReasonOf(body.status)))

ResponsesToClaude(body) ==
  IF \E c \in Range(body.calls) : ~Decodes(c.args) THEN Refused
  ELSE Result(ClaudeItems(body), TerminalReason(body.calls # <<>>, ReasonOf(body.status)))

=============================================================================
