------------------------- MODULE ResponsesConverter -------------------------
(***************************************************************************)
(* The stream converter of the Responses adapter (responses/stream.go),    *)
(* for its three client formats.  Feed is modelled one complete frame at a *)
(* time.                                                                   *)
(*                                                                         *)
(* An upstream item has two identifiers: call_id, which its item events    *)
(* carry, and the item's own id, by which argument deltas refer to it.     *)
(* Each may be absent ("").                                                *)
(***************************************************************************)
EXTENDS StreamEvents

(* "item" is output_item.added, or done if l.done, of a function call;     *)
(* "part" content_part.added; "other" an event that is ignored.  call says *)
(* which of the upstream's calls is meant: nothing the converter sees.     *)
IsLine(l) ==
  \/ l.kind \in {"created", "text", "part", "completed", "incomplete", "failed", "other"}
  \/ /\ l.kind = "item"
     /\ l.done \in BOOLEAN
     /\ l.args \in {"none", "whole"}
     /\ l.callID # "" /\ l.itemID \in STRING
     /\ l.call \in Nat
  \/ /\ l.kind = "args"
     /\ l.args \in {"half", "whole"}
     /\ l.itemID # ""
     /\ l.call \in Nat

Fresh(format) ==
  With(Base(format),
    [calls      |-> <<>>,      (* the tracker: block by identifier         *)
     delivered  |-> {},        (* blocks of the calls it has delivered     *)
     next       |-> 0,         (* nextIndex                                *)
     text       |-> Closed,    (* textIndex, if textOpen                   *)
     openBlocks |-> <<>>,
     seenItems  |-> {},
     toolCallsSeen |-> FALSE])

-----------------------------------------------------------------------------
(* toolCallTracker.                                                        *)

Bound(calls, ids, block) ==
  [id \in DOMAIN calls \union (ids \ {""}) |-> IF id \in ids THEN block ELSE calls[id]]

(* Mutation of Track: an identifier is bound only when it opens a call. *)
TrackFirst(s, key, alias) ==
  LET known == {key, alias} \cap DOMAIN s.calls IN
  IF known # {}
  THEN [first |-> FALSE, block |-> s.calls[IF key \in known THEN key ELSE alias], s |-> s]
  ELSE [first |-> TRUE, block |-> s.next,
        s |-> [s EXCEPT !.next = @ + 1, !.calls = Bound(@, {key}, s.next)]]

(* state: the call that key, or else alias, is bound to; both are bound to *)
(* it from now on.                                                         *)
Track(s, key, alias) ==
  LET known == {key, alias} \cap DOMAIN s.calls
      block == IF known = {} THEN s.next
               ELSE s.calls[IF key \in known THEN key ELSE alias]
      bound == IF key \in known THEN {alias} ELSE {key, alias}
  IN [first |-> known = {},
      block |-> block,
      s     |-> [s EXCEPT !.next  = IF known = {} THEN @ + 1 ELSE @,
                          !.calls = Bound(@, bound, block)]]

-----------------------------------------------------------------------------
(* claude.                                                                 *)

CloseOpenBlocks(s) ==
  IF s.openBlocks = <<>> THEN s
  ELSE Say([s EXCEPT !.openBlocks = <<>>, !.text = Closed],
           [k \in DOMAIN s.openBlocks |-> Stop(s.openBlocks[k])])

OpenBlock(s, b, kind) ==
  LET c == CloseOpenBlocks(s) IN
  Say([c EXCEPT !.openBlocks = Append(@, b)], <<Start(b, kind)>>)

ClaudeText(s) ==
  LET o == IF s.text # Closed THEN s
           ELSE [OpenBlock(s, s.next, "text") EXCEPT !.text = s.next, !.next = @ + 1]
  IN Say(o, <<Delta(o.text, 1)>>)

ClaudeTerminal(s, reason) ==
  Say([s EXCEPT !.openBlocks = <<>>],
      [k \in DOMAIN s.openBlocks |-> Stop(s.openBlocks[k])]
      \o <<Ending("message_delta", reason), Named("message_stop")>>)

-----------------------------------------------------------------------------
(* Both conversion targets.                                                *)

TextDelta(s) ==
  IF s.sourceFormat = "openai" THEN Say(s, <<Named("content")>>) ELSE ClaudeText(s)

(* The call's entry or block is opened at first sight, with n fragments.   *)
Announce(t, n) ==
  IF t.s.sourceFormat = "openai"
  THEN Say(t.s, IF t.first THEN Opening(t.block, n)
                ELSE [k \in 1..n |-> Delta(t.block, 1)])
  ELSE Say(IF t.first THEN OpenBlock(t.s, t.block, "tool") ELSE t.s,
           [k \in 1..n |-> Delta(t.block, 1)])

(* Observe: complete arguments are delivered if nothing was before. *)
OutputItem(s, l) ==
  LET t == Track(s, l.callID, l.itemID)
      deliver == l.args # "none" /\ t.block \notin s.delivered
  IN Announce([t EXCEPT !.s.delivered = IF deliver THEN @ \union {t.block} ELSE @,
                        !.s.toolCallsSeen = TRUE],
              IF deliver THEN 1 ELSE 0)

(* StreamArgs: any fragment counts as delivered.  Only for openai does it  *)
(* also count as a tool call seen.                                         *)
ArgsFragment(s, l) ==
  LET t == Track(s, l.itemID, "")
  IN Announce([t EXCEPT !.s.delivered = @ \union {t.block},
                        !.s.toolCallsSeen = s.toolCallsSeen \/ s.sourceFormat = "openai"],
              1)

(* Mutation of TerminalEvent: an incomplete response that called tools is  *)
(* reported as cut off.                                                    *)
TerminalEventByStatus(s, status) ==
  IF s.sourceFormat = "openai" THEN Say(s, <<Ending("finish", ReasonOf(status))>>)
  ELSE ClaudeTerminal(s, ReasonOf(status))

(* terminal *)
TerminalEvent(s, status) ==
  LET reason == TerminalReason(s.toolCallsSeen, ReasonOf(status)) IN
  IF s.sourceFormat = "openai" THEN Say(s, <<Ending("finish", reason)>>)
  ELSE ClaudeTerminal(s, reason)

ConvertEvent(s, l) ==
  CASE l.kind = "created" ->
         Say(s, <<Named(IF s.sourceFormat = "openai" THEN "role" ELSE "message_start")>>)
    [] l.kind = "text"    -> TextDelta(s)
    [] l.kind = "item"    -> OutputItem(s, l)
    [] l.kind = "args"    -> ArgsFragment(s, l)
    [] l.kind \in {"completed", "incomplete"} -> TerminalEvent([s EXCEPT !.done = TRUE], l.kind)
    [] l.kind = "failed"  -> Fail(s)
    [] l.kind \in {"part", "other"} -> s

(* openai-response: every frame is passed on as it is. *)
PassthroughEvent(s, l) ==
  IF l.kind = "failed" THEN Fail(s)
  ELSE Say([s EXCEPT !.done = (l.kind \in {"completed", "incomplete"})], <<Named("raw")>>)

-----------------------------------------------------------------------------
(* The converter's calls.                                                  *)

HasContent(l) == l.kind \in {"text", "args"}

(* Mutation of ObserveFrame: an item or part is progress each time. *)
ObserveFrameAgain(s, l) ==
  CASE l.kind = "created"  -> StateStart(s)
    [] HasContent(l)       -> Advance(s)
    [] l.kind = "part" \/ (l.kind = "item" /\ ~l.done) -> Advance(s)
    [] l.kind \in {"completed", "incomplete"} -> Terminal(Advance(s))
    [] OTHER               -> s

ObserveFrame(s, l) ==
  LET seen == IF l.kind = "item" THEN l.call ELSE Closed IN
  CASE l.kind = "created"  -> StateStart(s)
    [] HasContent(l)       -> Advance(s)
    [] l.kind = "part" \/ (l.kind = "item" /\ ~l.done) ->
         AdvanceIf([s EXCEPT !.seenItems = @ \union {seen}], seen \notin s.seenItems)
    [] l.kind \in {"completed", "incomplete"} -> Terminal(Advance(s))
    [] OTHER               -> s

(* One frame through Feed. *)
HandleLine(s, l) ==
  LET d == IF s.sourceFormat = "openai-response" THEN PassthroughEvent(s, l)
           ELSE ConvertEvent(s, l)
  IN IF d.failed THEN d ELSE ObserveFrame(d, l)

FinalizeStream(s) == IF s.terminalSeen THEN s ELSE Fail(s)

FlushWithError(s) == FinalizeStream(s)

-----------------------------------------------------------------------------
(* The upstream, as far as it is heard so far.  response.created comes     *)
(* first.  A call's arguments come as deltas, or whole with its item; an   *)
(* item that is done carries them again, once all deltas have come.        *)

(* text: the number of calls heard of before the first text. *)
Silence == [start |-> FALSE, calls |-> <<>>, text |-> Closed, status |-> "none"]

Unheard ==
  [args |-> "none", parts |-> 0, added |-> FALSE, done |-> FALSE, ids |-> {}]

Call(up, c) == IF c \in DOMAIN up.calls THEN up.calls[c] ELSE Unheard

MayFollow(up, l) ==
  CASE l.kind = "created" -> ~up.start
    [] l.kind = "item"    ->
         LET c == Call(up, l.call) IN
         /\ up.start
         /\ ~c.done
         /\ ~l.done => ~c.added
         /\ l.args = c.args \/ c.args = "none" \/ (~l.done /\ l.args = "none")
    [] l.kind = "args"    ->
         LET c == Call(up, l.call) IN
         up.start /\ ~c.done /\ Joined(c.args, l.args) # "broken"
    [] OTHER              -> up.start \/ l.kind \in {"failed", "other"}

(* parts: the fragments in which the arguments first came. *)
AfterItem(c, l) ==
  [args  |-> IF c.args = "none" THEN l.args ELSE c.args,
   parts |-> IF c.args = "none" /\ l.args # "none" THEN 1 ELSE c.parts,
   added |-> TRUE,
   done  |-> l.done,
   ids   |-> c.ids \union ({l.callID, l.itemID} \ {""})]

AfterArgs(c, l) ==
  [c EXCEPT !.args = Joined(@, l.args), !.parts = @ + 1, !.ids = @ \union {l.itemID}]

Heard(up, l) ==
  IF l.kind = "created" THEN [up EXCEPT !.start = TRUE]
  ELSE IF l.kind = "text"
  THEN [up EXCEPT !.text = IF @ = Closed THEN Cardinality(DOMAIN up.calls) ELSE @]
  ELSE IF l.kind \in {"completed", "incomplete"} THEN [up EXCEPT !.status = l.kind]
  ELSE IF l.kind \notin {"item", "args"} THEN up
  ELSE LET c == Call(up, l.call)
           n == IF l.kind = "item" THEN AfterItem(c, l) ELSE AfterArgs(c, l)
       IN [up EXCEPT !.calls = [i \in DOMAIN @ \union {l.call} |->
                                  IF i = l.call THEN n ELSE @[i]]]

-----------------------------------------------------------------------------
(* What the properties of StreamConverters need to know of this converter. *)

TypeInv(s) ==
  LET blocks == 0..(s.next - 1) IN
  /\ Range(s.calls) \union s.delivered \union Range(s.openBlocks) \subseteq blocks
  /\ s.text \in blocks \union {Closed}
  /\ IsInjective(s.openBlocks)
  /\ s.text # Closed /\ ~s.done => s.text \in Range(s.openBlocks)

(* The blocks that a call's identifiers lead to; a call's identifiers are  *)
(* all one call to the client.                                             *)
Due(s, up) ==
  {[blocks |-> {s.calls[id] : id \in c.ids \cap DOMAIN s.calls}, told |-> TRUE, parts |-> c.parts] :
     c \in Range(up.calls)}

(* What a request that is not streamed would have been answered, if no     *)
(* call is cut off in its arguments.                                       *)
Whole(up) == up.status # "none" /\ \A c \in Range(up.calls) : c.args # "half"

Body(s, up) ==
  [text   |-> up.text # Closed,
   before |-> up.text,
   calls  |-> LET inOrder == SetToSeq(DOMAIN up.calls) IN
              [k \in DOMAIN inOrder |-> [args |-> up.calls[inOrder[k]].args]],
   status |-> up.status]

ArgsOpen(s) == FALSE

Repeatable(l) == l.kind \in {"created", "item", "part", "other"}

=============================================================================
