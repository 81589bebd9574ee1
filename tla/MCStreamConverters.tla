-------------------------- MODULE MCStreamConverters --------------------------
(* StreamConverters on small instances.                                    *)
EXTENDS StreamConverters, TLC

(* Chat Completions.                                                       *)

Chunk(think, text, calls, finish) ==
  [kind |-> "chunk", choice |-> TRUE, think |-> think, text |-> text,
   calls |-> calls, finish |-> finish, usage |-> 0]

ChatCall(i, name, args) == [index |-> i, name |-> name, args |-> args]
CallLine(calls)         == Chunk(FALSE, FALSE, calls, "none")

(* Tool calls in one line: the first call under any name, the second with  *)
(* a plain name, and both in either order.                                 *)
OneCall == {<<ChatCall(0, n, a)>> : n \in {"none", "function"}, a \in Fragments}
           \union {<<ChatCall(0, "part", a)>> : a \in {"none", "half"}}
           \union {<<ChatCall(0, n, "half")>> : n \in {"rest", "custom"}}
           \union {<<ChatCall(1, "function", a)>> : a \in {"half", "whole"}}
BothCalls == {<<ChatCall(0, "none", "half"), ChatCall(1, "none", "half")>>,
              <<ChatCall(1, "none", "half"), ChatCall(0, "none", "half")>>}

ChatLines ==
  {[kind |-> "done"], [kind |-> "error"],
   [Chunk(FALSE, FALSE, <<>>, "none") EXCEPT !.choice = FALSE, !.usage = 1],
   Chunk(FALSE, FALSE, <<>>, "none"),
   Chunk(TRUE, FALSE, <<>>, "none"),
   Chunk(FALSE, TRUE, <<>>, "none"),
   Chunk(FALSE, TRUE, <<ChatCall(0, "function", "whole")>>, "none"),
   Chunk(FALSE, FALSE, <<ChatCall(0, "function", "whole")>>, "stop"),
   Chunk(FALSE, FALSE, <<ChatCall(0, "none", "half")>>, "stop"),
   Chunk(FALSE, FALSE, <<>>, "stop"),
   Chunk(FALSE, FALSE, <<>>, "length")}
  \union {CallLine(c) : c \in OneCall \union BothCalls}

(* Messages: up to three blocks of any kind, deltas of any of them.        *)

MessagesLines ==
  {[kind |-> k] : k \in {"message_start", "message_stop", "error", "ping"}}
  \union [kind : {"block_start"}, index : 0..2, type : Messages!BlockKinds]
  \union [kind : {"block_delta"}, index : 0..2, type : {"text", "thinking"}, args : {"none"}]
  \union [kind : {"block_delta"}, index : 0..2, type : {"tool_use"}, args : Fragments]
  \union {[kind |-> "finish", stop |-> "none", usage |-> 0],
          [kind |-> "finish", stop |-> "end", usage |-> 1],
          [kind |-> "finish", stop |-> "length", usage |-> 1]}

(* Responses: call 1 has both identifiers, call 2 only its call_id.        *)

Item(c, done, args) ==
  [kind |-> "item", call |-> c, done |-> done, args |-> args,
   callID |-> IF c = 1 THEN "call_1" ELSE "call_2", itemID |-> IF c = 1 THEN "fc_1" ELSE ""]
Args(c, args) ==
  [kind |-> "args", call |-> c, args |-> args, itemID |-> IF c = 1 THEN "fc_1" ELSE "call_2"]

ResponsesLines ==
  {[kind |-> k] : k \in {"created", "text", "part", "completed", "incomplete", "failed", "other"}}
  \union {Item(c, d, a) : c \in 1..2, d \in BOOLEAN, a \in {"none", "whole"}}
  \union {Args(c, a) : c \in 1..2, a \in {"half", "whole"}}

MCLines ==
  [chat |-> ChatLines, messages |-> MessagesLines, responses |-> ResponsesLines]

MCMaxLines    == [chat |-> 5, messages |-> 7, responses |-> 6]
MCFewMaxLines == [chat |-> 4, messages |-> 0, responses |-> 0]

=============================================================================
