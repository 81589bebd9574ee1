---------------------------- MODULE ChatConverter ----------------------------
(***************************************************************************)
(* The stream converter of the Chat Completions adapter                    *)
(* (chatcompletions/stream.go), for its three client formats: what a call  *)
(* of Feed, Flush, FlushWithError or FinalizeStream makes of the           *)
(* converter.  Feed is modelled one complete line at a time.               *)
(*                                                                         *)
(* A tool's name is known by how far the request's tool declarations tell  *)
(* it.  StreamConverters makes the calls that pumpStream makes.            *)
(***************************************************************************)
EXTENDS StreamEvents

(* A name fragment: a strict prefix of the custom tool's name and what     *)
(* completes it, the whole name, or the name of a function.                *)
NameParts == {"none", "part", "rest", "custom", "function"}

Calls == [index : Nat, name : NameParts, args : Fragments]

(* A chunk without "choice" has no choices: the usage trailer.  usage is   *)
(* the usage record it carries, 0 none.  "error" is a malformed payload or *)
(* an upstream error object.                                               *)
IsLine(l) ==
  \/ l.kind \in {"done", "error"}
  \/ /\ l.kind = "chunk"
     /\ {l.choice, l.think, l.text} \subseteq BOOLEAN
     /\ l.calls \in Seq(Calls)
     /\ l.finish \in {"none", "stop", "length"}
     /\ l.usage \in Nat

Fresh(format) ==
  With(Base(format),
    [think        |-> Closed,  (* the block that is open for thinking ...  *)
     text         |-> Closed,  (* ... and for text                         *)
     next         |-> 0,       (* nextIndex                                *)
     tools        |-> <<>>,    (* by upstream index                        *)
     order        |-> <<>>,    (* toolOrder                                *)
     items        |-> {},      (* responseItems                            *)
     held         |-> "none",  (* heldFinish                               *)
     terminalSent |-> FALSE,
     usage        |-> 0])      (* usageProgress                            *)

NewTool(block) ==
  [block |-> block, name |-> "none", args |-> "none", stopped |-> FALSE,
   got |-> 0, sent |-> 0,      (* argument fragments                       *)
   announced |-> FALSE, custom |-> FALSE]

(* usageChanged *)
NoteUsage(s, l) ==
  IF l.usage \in {0, s.usage} THEN s ELSE Advance([s EXCEPT !.usage = l.usage])

-----------------------------------------------------------------------------
(* Tool calls.                                                             *)

(* DefaultArgs makes no arguments "{}"; a custom tool must have its input. *)
WellFormed(t) == t.args = "whole" \/ (t.args = "none" /\ ~t.custom)

(* What the name fragments seen so far amount to, until it is announced.   *)
NameAfter(name, f) ==
  CASE f \in {"none", name}                   -> name
    [] name = "none" /\ f # "rest"            -> f
    [] name = "part" /\ f \in {"rest", "custom"} -> "custom"
    [] OTHER                                  -> "unknown"

(* ClassifyStreamedName: whether to wait for more of the name. *)
Waits(name) == name \in {"none", "part"}

Grown(t, call) ==
  [t EXCEPT !.args = Joined(@, call.args),
            !.got  = IF call.args = "none" THEN @ ELSE @ + 1]

(* Mutation of WithTool: the order is noted on every fragment. *)
WithToolAgain(s, i, t) ==
  [s EXCEPT !.tools = [j \in DOMAIN @ \union {i} |-> IF j = i THEN t ELSE @[j]],
            !.order = Append(@, i)]

WithTool(s, i, t) ==
  [s EXCEPT !.tools = [j \in DOMAIN @ \union {i} |-> IF j = i THEN t ELSE @[j]],
            !.order = IF i \in DOMAIN s.tools THEN @ ELSE Append(@, i)]

(* validateAccumulatedTools *)
ToolsWellFormed(s) == \A i \in DOMAIN s.tools : WellFormed(s.tools[i])

-----------------------------------------------------------------------------
(* openai: every payload is passed on as it is.                            *)

PassCall(s, call) ==
  WithTool(s, call.index,
    Grown(IF call.index \in DOMAIN s.tools THEN s.tools[call.index] ELSE NewTool(0), call))

(* The calls of a chunk, in their order. *)
PassCalls(s, calls) ==
  LET after[n \in 0..Len(calls)] == IF n = 0 THEN s ELSE PassCall(after[n - 1], calls[n])
  IN  after[Len(calls)]

(* [DONE] *)
Ended(s) == Terminal(Advance([s EXCEPT !.done = TRUE]))

(* The choice brings text, thinking or a tool call. *)
Brings(l) == l.text \/ l.think \/ l.calls # <<>>

PassthroughLine(s, l) ==
  CASE l.kind = "error" -> Say(s, <<Named("raw")>>)
    [] l.kind = "done"  -> IF ToolsWellFormed(s) THEN Ended(s) ELSE Fail(s)
    [] l.kind = "chunk" ->
         LET s1 == NoteUsage(IF l.choice THEN StateStart(s) ELSE s, l)
             s2 == AdvanceIf(s1, Brings(l))
             s3 == IF l.finish # "none" THEN Finish(s2) ELSE s2
         IN Say(PassCalls(s3, l.calls), <<Named("raw")>>)

-----------------------------------------------------------------------------
(* Blocks, for claude and openai-response.                                 *)

(* A Responses item is noted for response.completed. *)
CloseBlock(s, b) ==
  Say([s EXCEPT !.items = IF s.sourceFormat = "openai-response" THEN @ \union {b} ELSE @],
      <<Stop(b)>>)

(* stopThinking and stopReasoning, stopText and closeResponseText. *)
CloseThinking(s) == IF s.think = Closed THEN s ELSE CloseBlock([s EXCEPT !.think = Closed], s.think)
CloseText(s)     == IF s.text = Closed THEN s ELSE CloseBlock([s EXCEPT !.text = Closed], s.text)

(* A tool that can be closed. *)
CloseTool(s, i) ==
  IF s.tools[i].stopped THEN s
  ELSE CloseBlock([s EXCEPT !.tools[i].stopped = TRUE], s.tools[i].block)

CloseTools(s) ==
  LET after[n \in 0..Len(s.order)] ==
        IF n = 0 THEN s ELSE CloseTool(after[n - 1], s.order[n])
  IN  after[Len(s.order)]

StopBlocks(s) == CloseTools(CloseText(CloseThinking(s)))

-----------------------------------------------------------------------------
(* claude.                                                                 *)

ClaudeTerminal(s) ==
  IF s.held = "none" THEN s
  ELSE Say([s EXCEPT !.held = "none", !.terminalSent = TRUE],
           <<Ending("message_delta", TerminalReason(s.order # <<>>, s.held))>>)

ClaudeStart(s) ==
  IF s.started THEN s ELSE Say(StateStart(s), <<Named("message_start")>>)

ClaudeThinking(s) ==
  LET o == IF s.think # Closed THEN s
           ELSE Say([StopBlocks(s) EXCEPT !.think = s.next, !.next = @ + 1],
                    <<Start(s.next, "thinking")>>)
  IN Say(o, <<Delta(o.think, 1)>>)

ClaudeText(s) ==
  LET o == IF s.text # Closed THEN s
           ELSE Say([StopBlocks(s) EXCEPT !.text = s.next, !.next = @ + 1],
                    <<Start(s.next, "text")>>)
  IN Say(o, <<Delta(o.text, 1)>>)

ClaudeCall(s, call) ==
  LET i == call.index
      o == IF i \in DOMAIN s.tools THEN s
           ELSE Say(WithTool([StopBlocks(s) EXCEPT !.next = @ + 1], i, NewTool(s.next)),
                    <<Start(s.next, "tool")>>)
      t == Grown(o.tools[i], call)
  IN Say(WithTool(o, i, t), IF call.args = "none" THEN <<>> ELSE <<Delta(t.block, 1)>>)

ClaudeCalls(s, calls) ==
  LET after[n \in 0..Len(calls)] == IF n = 0 THEN s ELSE ClaudeCall(after[n - 1], calls[n])
  IN  after[Len(calls)]

ClaudeFinish(s, finish) ==
  IF finish = "none" \/ s.finished THEN s
  ELSE StopBlocks([Finish(s) EXCEPT !.held = finish])

ClaudeChoice(s, l) ==
  LET s1 == AdvanceIf(ClaudeStart(s), Brings(l))
      s2 == IF l.think THEN ClaudeThinking(s1) ELSE s1
      s3 == IF l.text THEN ClaudeText(s2) ELSE s2
      s4 == ClaudeCalls(s3, l.calls)
  IN ClaudeFinish(s4, l.finish)

ClaudeLine(s, l) ==
  CASE l.kind = "error" -> Fail(s)
    [] l.kind = "done"  ->
         IF ~ToolsWellFormed(s) THEN Fail(s)
         ELSE Say(ClaudeTerminal(StopBlocks(Ended(s))),
                  <<Named("message_stop")>>)
    [] l.kind = "chunk" ->
         LET s1 == NoteUsage(ClaudeTerminal(s), l) IN
         IF l.choice THEN ClaudeChoice(s1, l) ELSE s1

Flush(s) ==
  IF s.sourceFormat = "claude" /\ (s.held # "none" \/ s.terminalSent)
  THEN Say(ClaudeTerminal(s), <<Named("message_stop")>>)
  ELSE s

-----------------------------------------------------------------------------
(* openai-response.                                                        *)

RespondTerminal(s, synthetic) ==
  IF s.terminalSent \/ (s.held = "none" /\ ~synthetic) THEN s
  ELSE IF \/ s.held = "none" /\ ~s.started
          \/ \E i \in DOMAIN s.tools :
               LET t == s.tools[i] IN ~t.stopped /\ ~(t.announced /\ WellFormed(t))
       THEN Fail(s)
  ELSE LET c == StopBlocks(s)
       IN Say(Terminal([c EXCEPT !.held = "none", !.terminalSent = TRUE]),
              <<Completed(StatusOf(s.held), Listed(c.items, c.next))>>)

RespondStart(s) ==
  IF s.started THEN s ELSE Say(StateStart(s), <<Named("created")>>)

RespondThinking(s) ==
  LET c == CloseText(s)
      o == IF c.think # Closed THEN c
           ELSE Say([c EXCEPT !.think = c.next, !.next = @ + 1], <<Start(c.next, "thinking")>>)
  IN Say(o, <<Delta(o.think, 1)>>)

RespondText(s) ==
  LET c == CloseThinking(s)
      o == IF c.text # Closed THEN c
           ELSE Say([c EXCEPT !.text = c.next, !.next = @ + 1], <<Start(c.next, "text")>>)
  IN Say(o, <<Delta(o.text, 1)>>)

(* The argument bytes buffered while the name was unknown go out first. *)
SendArguments(s, i) ==
  LET t == s.tools[i] IN
  IF ~t.announced \/ t.custom \/ t.sent = t.got THEN s
  ELSE Say([s EXCEPT !.tools[i].sent = t.got], <<Delta(t.block, t.got - t.sent)>>)

Announce(s, i, custom) ==
  Say([s EXCEPT !.tools[i].announced = TRUE, !.tools[i].custom = custom],
      <<Start(s.tools[i].block, IF custom THEN "custom" ELSE "tool")>>)

AnnounceNamed(s, i) ==
  LET t == s.tools[i] IN
  IF t.announced \/ Waits(t.name) THEN s ELSE Announce(s, i, t.name = "custom")

RespondCall(s, call) ==
  LET i == call.index
      c == CloseText(CloseThinking(s))
      o == IF i \in DOMAIN c.tools THEN c
           ELSE WithTool([c EXCEPT !.next = @ + 1], i, NewTool(c.next))
      t == Grown(o.tools[i], call)
      g == [t EXCEPT !.name = IF t.announced THEN @ ELSE NameAfter(@, call.name)]
  IN IF o.tools[i].stopped /\ call.args # "none" THEN Fail(s)
     ELSE SendArguments(AnnounceNamed(WithTool(o, i, g), i), i)

RespondCalls(s, calls) ==
  LET after[n \in 0..Len(calls)] == IF n = 0 THEN s ELSE RespondCall(after[n - 1], calls[n])
  IN  after[Len(calls)]

(* A name that is still a prefix at the finish is taken for a function's. *)
FinishTool(s, i) ==
  SendArguments(IF s.tools[i].announced THEN s ELSE Announce(s, i, FALSE), i)

FinishTools(s) ==
  LET after[n \in 0..Len(s.order)] ==
        IF n = 0 THEN s ELSE FinishTool(after[n - 1], s.order[n])
  IN  after[Len(s.order)]

(* Mutation of RespondFinish: the arguments are not checked. *)
RespondFinishUnchecked(s, finish) ==
  IF finish = "none" \/ s.finished THEN s
  ELSE CloseThinking([Finish(FinishTools(s)) EXCEPT !.held = finish])

RespondFinish(s, finish) ==
  IF finish = "none" \/ s.finished THEN s
  ELSE IF ~ToolsWellFormed(s) THEN Fail(s)
  ELSE CloseThinking([Finish(FinishTools(s)) EXCEPT !.held = finish])

(* Progress is what "changed" says: the first chunk, and what brings text, *)
(* thinking or a tool call, if the chunk has no finish reason; a finish    *)
(* reason has been counted by RespondFinish.                               *)
RespondChoice(s, l) ==
  LET s1 == RespondStart(s)
      s2 == IF l.think THEN RespondThinking(s1) ELSE s1
      s3 == IF l.text THEN RespondText(s2) ELSE s2
      s4 == RespondCalls(s3, l.calls)
  IN RespondFinish(AdvanceIf(s4, l.finish = "none" /\ (~s.started \/ Brings(l))), l.finish)

ResponsesLine(s, l) ==
  CASE l.kind = "error" -> Fail(s)
    [] l.kind = "done"  ->
         LET t == RespondTerminal(CloseThinking(s), TRUE) IN
         IF t.failed THEN t ELSE Advance([t EXCEPT !.done = TRUE])
    [] l.kind = "chunk" ->
         LET t == NoteUsage(RespondTerminal(s, FALSE), l) IN
         IF ~t.failed /\ l.choice THEN RespondChoice(t, l) ELSE t

-----------------------------------------------------------------------------
(* The converter's calls.                                                  *)

HandleLine(s, l) ==
  CASE s.sourceFormat = "openai"          -> PassthroughLine(s, l)
    [] s.sourceFormat = "claude"          -> ClaudeLine(s, l)
    [] s.sourceFormat = "openai-response" -> ResponsesLine(s, l)

FinalizeStream(s) ==
  IF s.sourceFormat = "openai-response" THEN RespondTerminal(s, FALSE)
  ELSE IF s.terminalSeen THEN s
  ELSE IF ~s.finished \/ ~ToolsWellFormed(s) THEN Fail(s)
  ELSE Terminal(Flush(s))

FlushWithError(s) ==
  IF s.sourceFormat = "openai-response" THEN RespondTerminal(s, TRUE) ELSE FinalizeStream(s)

-----------------------------------------------------------------------------
(* The upstream, as far as it is heard so far: nothing new comes after the *)
(* choice with the finish reason.                                          *)

Silence == [thinking |-> FALSE, text |-> FALSE, finish |-> "none"]

MayFollow(up, l) == up.finish # "none" /\ l.kind = "chunk" => ~Brings(l)

Heard(up, l) ==
  IF l.kind # "chunk" THEN up
  ELSE [thinking |-> up.thinking \/ l.think,
        text     |-> up.text \/ l.text,
        finish   |-> IF up.finish = "none" THEN l.finish ELSE up.finish]

-----------------------------------------------------------------------------
(* What the properties of StreamConverters need to know of this converter. *)

Tool ==
  [block : Nat, name : NameParts \union {"unknown"}, args : Fragments \union {"broken"},
   stopped : BOOLEAN, got : Nat, sent : Nat, announced : BOOLEAN, custom : BOOLEAN]

TypeInv(s) ==
  /\ {s.think, s.text} \subseteq Closed..(s.next - 1)
  /\ Range(s.tools) \subseteq Tool
  /\ Range(s.order) = DOMAIN s.tools
  /\ IsInjective(s.order)
  /\ s.items \subseteq 0..(s.next - 1)
  /\ s.held \in {"none", "stop", "length"}
  /\ s.terminalSent \in BOOLEAN

(* A tool call's block, and the argument fragments the client must have of *)
(* it: all of a function's, none of a custom tool's, whose input is sent   *)
(* as a whole.                                                             *)
Due(s, up) ==
  {[blocks |-> {t.block}, told |-> TRUE, parts |-> IF t.custom THEN 0 ELSE t.got] :
     t \in Range(s.tools)}

(* What a request that is not streamed would have been answered, once the  *)
(* finish reason is known.                                                 *)
Whole(up) == up.finish # "none"

Body(s, up) ==
  [calls |-> [k \in DOMAIN s.order |->
                [custom |-> s.tools[s.order[k]].name = "custom", args |-> s.tools[s.order[k]].args]]]
  @@ up

ArgsOpen(s) ==
  \E t \in Range(s.tools) :
    \/ ~WellFormed(t)
    \/ s.sourceFormat = "openai-response" /\ ~t.announced

(* A line whose content the converter passes on, and one that can be a     *)
(* repetition of another.                                                  *)
HasContent(l)  == l.kind = "chunk" /\ Brings(l)
Repeatable(l)  == l.kind = "chunk" /\ ~Brings(l)

=============================================================================
