-------------------------- MODULE MessagesConverter --------------------------
(***************************************************************************)
(* The stream converter of the Messages adapter (messages/stream.go), for  *)
(* its three client formats.  Feed is modelled one complete frame at a     *)
(* time.  An upstream that leaves out the event: lines is understood by    *)
(* dispatch, which falls back to the payload's type, and not by            *)
(* observeFrame: typed says which it is.                                   *)
(***************************************************************************)
EXTENDS StreamEvents

BlockKinds == {"text", "tool_use", "thinking"}

(* "finish" is message_delta, with its stop reason and its usage record;   *)
(* "ping" is a ping, a content_block_stop or an unknown event.             *)
IsLine(l) ==
  \/ l.kind \in {"message_start", "message_stop", "error", "ping"}
  \/ l.kind = "block_start" /\ l.index \in Nat /\ l.type \in BlockKinds
  \/ /\ l.kind = "block_delta"
     /\ l.index \in Nat
     /\ l.type \in BlockKinds
     /\ l.args \in (IF l.type = "tool_use" THEN Fragments ELSE {"none"})
  \/ l.kind = "finish" /\ l.stop \in {"none", "end", "length"} /\ l.usage \in Nat

Fresh(format, typed) ==
  With(Base(format),
    [typed      |-> typed,
     blocks     |-> <<>>,      (* by upstream index                        *)
     next       |-> 0,         (* toolOrdinal or outCount                  *)
     message    |-> Closed,    (* msgIdx                                   *)
     role       |-> FALSE,     (* roleSent                                 *)
     stop       |-> "none",    (* stopReason                               *)
     emitted    |-> FALSE,
     flushed    |-> FALSE,
     seenStarts |-> <<>>,      (* by upstream index                        *)
     usage      |-> 0])        (* lastUsage                                *)

(* A blockState.  Arguments are accumulated for openai-response only. *)
NewBlock(type, block) ==
  [type |-> type, block |-> block, emitted |-> FALSE, args |-> "none"]

WithBlock(s, i, b) ==
  [s EXCEPT !.blocks = [j \in DOMAIN @ \union {i} |-> IF j = i THEN b ELSE @[j]]]

IsTool(s, i) == i \in DOMAIN s.blocks /\ s.blocks[i].type = "tool_use"

Parts(l) == IF l.args = "none" THEN 0 ELSE 1

(* validateTools *)
ToolsWellFormed(s) ==
  \A b \in Range(s.blocks) : b.type = "tool_use" => b.args \in {"none", "whole"}

-----------------------------------------------------------------------------
(* openai.                                                                 *)

EmitRole(s) == IF s.role THEN s ELSE Say([s EXCEPT !.role = TRUE], <<Named("role")>>)

(* Mutation of ChatDelta: every fragment opens the entry again. *)
ChatDeltaReopens(s, l) ==
  CASE l.type = "thinking" -> s
    [] l.type = "text"     -> Say(EmitRole(s), <<Named("content")>>)
    [] l.type = "tool_use" ->
         IF ~IsTool(s, l.index) THEN Fail(s)
         ELSE Say(EmitRole(s), Opening(s.blocks[l.index].block, Parts(l)))

(* A tool's entry is opened by its first fragment. *)
ChatDelta(s, l) ==
  CASE l.type = "thinking" -> s
    [] l.type = "text"     -> Say(EmitRole(s), <<Named("content")>>)
    [] l.type = "tool_use" ->
         IF ~IsTool(s, l.index) THEN Fail(s)
         ELSE LET b == s.blocks[l.index] IN
              Say(EmitRole([s EXCEPT !.blocks[l.index].emitted = TRUE]),
                  IF b.emitted THEN <<Delta(b.block, Parts(l))>> ELSE Opening(b.block, Parts(l)))

DispatchOpenAI(s, l) ==
  CASE l.kind = "message_start" -> EmitRole(s)
    [] l.kind = "block_start"   ->
         WithBlock([s EXCEPT !.next = IF l.type = "tool_use" THEN @ + 1 ELSE @],
                   l.index, NewBlock(l.type, IF l.type = "tool_use" THEN s.next ELSE Closed))
    [] l.kind = "block_delta"   -> ChatDelta(s, l)
    [] l.kind = "finish"        -> Say(s, <<Ending("finish", TerminalReason(\E i \in DOMAIN s.blocks : IsTool(s, i), FinishOf(l.stop)))>>)
    [] l.kind = "message_stop"  -> [s EXCEPT !.done = TRUE]
    [] l.kind = "error"         -> Fail(s)
    [] l.kind = "ping"          -> s

-----------------------------------------------------------------------------
(* openai-response.                                                        *)

(* outputItems: one message item in the place of the first text block. *)
OutputItems(s) ==
  LET placed == {i \in DOMAIN s.blocks :
                   \/ s.blocks[i].type = "tool_use"
                   \/ /\ s.blocks[i].type = "text"
                      /\ \A j \in DOMAIN s.blocks : s.blocks[j].type = "text" => i <= j}
      inOrder == Listed(placed, 1 + Max({0} \union DOMAIN s.blocks))
  IN [k \in DOMAIN inOrder |-> s.blocks[inOrder[k]].block]

ResponsesCompleted(s) ==
  Say(s, <<Completed(StatusOf(FinishOf(s.stop)), OutputItems(s))>>)

(* Mutation of ResponsesBlockStart: each text block is an item of its own. *)
ResponsesBlockStartPerText(s, l) ==
  IF l.type = "thinking" THEN WithBlock(s, l.index, NewBlock(l.type, Closed))
  ELSE WithBlock(Say([s EXCEPT !.next = @ + 1, !.message = s.next],
                     <<Start(s.next, IF l.type = "text" THEN "text" ELSE "tool")>>),
                 l.index, NewBlock(l.type, s.next))

(* All text blocks are one message item.  A thinking block is no item. *)
ResponsesBlockStart(s, l) ==
  LET item == IF l.type = "text" /\ s.message # Closed THEN s.message ELSE s.next
      isNew == l.type # "thinking" /\ item = s.next
  IN WithBlock(IF ~isNew THEN s
               ELSE Say([s EXCEPT !.next = @ + 1,
                                  !.message = IF l.type = "text" THEN item ELSE @],
                        <<Start(item, IF l.type = "text" THEN "text" ELSE "tool")>>),
               l.index, NewBlock(l.type, IF l.type = "thinking" THEN Closed ELSE item))

ResponsesDelta(s, l) ==
  CASE l.type = "thinking" -> s
    [] l.type = "text"     ->
         Say(s, <<Delta(IF s.message # Closed THEN s.message ELSE l.index, 1)>>)
    [] l.type = "tool_use" ->
         IF ~IsTool(s, l.index) THEN Fail(s)
         ELSE Say([s EXCEPT !.blocks[l.index].args = Joined(@, l.args)],
                  <<Delta(s.blocks[l.index].block, Parts(l))>>)

DispatchResponses(s, l) ==
  CASE l.kind = "message_start" -> Say(s, <<Named("created")>>)
    [] l.kind = "block_start"   -> ResponsesBlockStart(s, l)
    [] l.kind = "block_delta"   -> ResponsesDelta(s, l)
    [] l.kind = "finish"        -> [s EXCEPT !.stop = l.stop]
    [] l.kind = "message_stop"  -> ResponsesCompleted([s EXCEPT !.done = TRUE])
    [] l.kind = "error"         -> Fail(s)
    [] l.kind = "ping"          -> s

-----------------------------------------------------------------------------
(* claude: every frame is passed on as it is, but an error.                *)

DispatchClaude(s, l) ==
  IF l.kind = "error" THEN Fail(s)
  ELSE Say([s EXCEPT !.done = (l.kind = "message_stop")], <<Named("raw")>>)

-----------------------------------------------------------------------------
(* The converter's calls.                                                  *)

Dispatch(s, l) ==
  CASE s.sourceFormat = "openai"          -> DispatchOpenAI(s, l)
    [] s.sourceFormat = "claude"          -> DispatchClaude(s, l)
    [] s.sourceFormat = "openai-response" -> DispatchResponses(s, l)

(* Thinking is dropped or passed on, and is not progress. *)
HasContent(l) ==
  l.kind = "block_delta" /\ (l.type = "text" \/ (l.type = "tool_use" /\ l.args # "none"))

ObserveFrame(s, l) ==
  CASE l.kind = "message_start" -> StateStart(s)
    [] l.kind = "block_start"   ->
         IF l.index \in DOMAIN s.seenStarts /\ s.seenStarts[l.index] = l.type THEN s
         ELSE Advance([s EXCEPT !.seenStarts =
                         [j \in DOMAIN @ \union {l.index} |-> IF j = l.index THEN l.type ELSE @[j]]])
    [] l.kind = "block_delta"   -> AdvanceIf(s, HasContent(l))
    [] l.kind = "finish"        ->
         AdvanceIf([(IF l.stop = "none" THEN s ELSE Finish(s)) EXCEPT !.usage = l.usage],
                   l.usage # s.usage)
    [] l.kind = "message_stop"  -> Terminal(Advance(s))
    [] OTHER                    -> s

(* One frame through Feed. *)
HandleLine(s, l) ==
  LET d == Dispatch(s, l)
      e == [d EXCEPT !.emitted = @ \/ d.said # s.said]
  IN IF d.failed THEN d
     ELSE IF d.done /\ ~ToolsWellFormed(d) THEN Fail(d)
     ELSE IF s.typed THEN ObserveFrame(e, l) ELSE e

Flush(s) ==
  IF s.flushed \/ ~s.emitted \/ s.sourceFormat # "openai-response"
  THEN [s EXCEPT !.flushed = TRUE]
  ELSE ResponsesCompleted([s EXCEPT !.flushed = TRUE])

FinalizeStream(s) ==
  IF s.terminalSeen THEN s
  ELSE IF ~s.finished \/ ~ToolsWellFormed(s) THEN Fail(s)
  ELSE Terminal(Flush(s))

FlushWithError(s) == FinalizeStream(s)

-----------------------------------------------------------------------------
(* The upstream, as far as it is heard so far.  It starts with             *)
(* message_start, numbers its blocks 0, 1, ..., sends deltas of blocks it  *)
(* has started, nothing new once it has given a stop reason, and           *)
(* message_stop after a message_delta.                                     *)

Silence == [start |-> FALSE, blocks |-> <<>>, finish |-> FALSE, stop |-> "none"]

MayFollow(up, l) ==
  CASE l.kind \in {"error", "ping"} -> TRUE
    [] l.kind = "message_start" -> ~up.start
    [] l.kind = "block_start"   -> up.start /\ ~up.finish /\ l.index = Len(up.blocks)
    [] l.kind = "block_delta"   ->
         /\ up.start /\ ~up.finish
         /\ l.index < Len(up.blocks)
         /\ up.blocks[l.index + 1].type = l.type
         /\ Joined(up.blocks[l.index + 1].args, l.args) # "broken"
    [] l.kind = "finish"        -> up.start
    [] l.kind = "message_stop"  -> up.finish

(* told: some delta of the block came, be it empty; parts: the fragments.  *)
Heard(up, l) ==
  CASE l.kind = "message_start" -> [up EXCEPT !.start = TRUE]
    [] l.kind = "block_start"   ->
         [up EXCEPT !.blocks = Append(@, [type |-> l.type, args |-> "none", told |-> FALSE, parts |-> 0])]
    [] l.kind = "block_delta"   ->
         [up EXCEPT !.blocks[l.index + 1].args  = Joined(@, l.args),
                    !.blocks[l.index + 1].told  = TRUE,
                    !.blocks[l.index + 1].parts = @ + Parts(l)]
    [] l.kind = "finish"        -> [up EXCEPT !.finish = TRUE, !.stop = l.stop]
    [] OTHER                    -> up

-----------------------------------------------------------------------------
(* What the properties of StreamConverters need to know of this converter. *)

Block ==
  [type : BlockKinds, block : Int, emitted : BOOLEAN, args : Fragments \union {"broken"}]

TypeInv(s) ==
  /\ Range(s.blocks) \subseteq Block
  /\ s.message \in Closed..(s.next - 1)
  /\ s.stop \in {"none", "end", "length"}
  /\ s.usage \in Nat
  /\ {s.typed, s.role, s.emitted, s.flushed} \subseteq BOOLEAN

Tools(up) == {i \in DOMAIN up.blocks : up.blocks[i].type = "tool_use"}

(* An openai client hears of a tool call only with its first delta.  *)
Due(s, up) ==
  {[blocks |-> {s.blocks[i - 1].block},
    told   |-> up.blocks[i].told \/ s.sourceFormat # "openai",
    parts  |-> up.blocks[i].parts] : i \in Tools(up)}

(* What a request that is not streamed would have been answered.  In such  *)
(* a body a tool's input is JSON; in a stream it comes with some delta.    *)
(* The last message_delta tells the stop reason.                           *)
Whole(up) ==
  up.finish /\ \A i \in Tools(up) : up.blocks[i].told /\ up.blocks[i].args \in {"none", "whole"}

Body(s, up) ==
  [content |-> [i \in DOMAIN up.blocks |-> [type |-> up.blocks[i].type, filled |-> up.blocks[i].told]],
   stop    |-> up.stop]

ArgsOpen(s) == ~ToolsWellFormed(s)

Repeatable(l) == l.kind \in {"message_start", "block_start", "finish", "ping"}

=============================================================================
