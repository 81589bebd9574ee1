-------------------------- MODULE StreamConverters --------------------------
(***************************************************************************)
(* One stream through one of the three adapters' stream converters, under  *)
(* the calls pumpStream makes: Feed until it is done, else FlushWithError  *)
(* at the end of the upstream stream or FinalizeStream at the end of the   *)
(* finish grace.                                                           *)
(*                                                                         *)
(* The properties are one for the three converters and their three client  *)
(* formats; a format that a converter passes through raw is told no other  *)
(* events.                                                                 *)
(***************************************************************************)
EXTENDS StreamEvents, StreamPolicy, BodyConverters

Chat      == INSTANCE ChatConverter
Messages  == INSTANCE MessagesConverter
Responses == INSTANCE ResponsesConverter

Routes == {"chat", "messages", "responses"}

CONSTANTS
  Lines,     (* by route, the lines or frames an upstream can send         *)
  MaxLines   (* by route, the bound on a stream's lines                    *)

ASSUME ConvertersAssumption ==
  /\ \A l \in Lines["chat"] : Chat!IsLine(l)
  /\ \A l \in Lines["messages"] : Messages!IsLine(l)
  /\ \A l \in Lines["responses"] : Responses!IsLine(l)
  /\ MaxLines \in [Routes -> Nat]

VARIABLES
  route,     (* of the model: which adapter                                *)
  sc,        (* its StreamConverter                                        *)
  up,        (* what the upstream has said, as far as it binds it          *)
  fed,       (* lines fed so far                                           *)
  outcome    (* "open", or how the pump ends the stream                    *)

vars == <<route, sc, up, fed, outcome>>

(* newStreamConverter; an upstream's habit of typing its events matters to *)
(* the Messages converter alone.                                           *)
Init ==
  /\ \/ \E f \in Formats :
          route = "chat" /\ sc = Chat!Fresh(f) /\ up = Chat!Silence
     \/ \E f \in Formats, typed \in BOOLEAN :
          route = "messages" /\ sc = Messages!Fresh(f, typed) /\ up = Messages!Silence
     \/ \E f \in Formats :
          route = "responses" /\ sc = Responses!Fresh(f) /\ up = Responses!Silence
  /\ fed = 0
  /\ outcome = "open"

HandleLine(s, l) ==
  CASE route = "chat"      -> Chat!HandleLine(s, l)
    [] route = "messages"  -> Messages!HandleLine(s, l)
    [] route = "responses" -> Responses!HandleLine(s, l)

FlushWithError(s) ==
  CASE route = "chat"      -> Chat!FlushWithError(s)
    [] route = "messages"  -> Messages!FlushWithError(s)
    [] route = "responses" -> Responses!FlushWithError(s)

FinalizeStream(s) ==
  CASE route = "chat"      -> Chat!FinalizeStream(s)
    [] route = "messages"  -> Messages!FinalizeStream(s)
    [] route = "responses" -> Responses!FinalizeStream(s)

MayCome(l) ==
  CASE route = "chat"      -> Chat!MayFollow(up, l)
    [] route = "messages"  -> Messages!MayFollow(up, l)
    [] route = "responses" -> Responses!MayFollow(up, l)

HeardOf(l) ==
  CASE route = "chat"      -> Chat!Heard(up, l)
    [] route = "messages"  -> Messages!Heard(up, l)
    [] route = "responses" -> Responses!Heard(up, l)

(* Events returned with an error are not emitted. *)
Returned(s) == sc' = IF s.failed THEN Fail(sc) ELSE s

Feed ==
  /\ outcome = "open"
  /\ fed < MaxLines[route]
  /\ fed' = fed + 1
  /\ \E l \in Lines[route] :
       /\ MayCome(l)
       /\ up' = HeardOf(l)
       /\ Returned(HandleLine(sc, l))
  /\ outcome' = IF sc'.failed THEN "error" ELSE IF sc'.done THEN "ok" ELSE "open"
  /\ UNCHANGED route

UpstreamEnds ==
  /\ outcome = "open"
  /\ Returned(FlushWithError(sc))
  /\ outcome' = IF sc'.failed THEN "error" ELSE "ok"
  /\ UNCHANGED <<route, up, fed>>

GraceEnds ==
  /\ outcome = "open"
  /\ sc.finished
  /\ Returned(FinalizeStream(sc))
  /\ outcome' = IF sc'.failed THEN "error" ELSE "ok"
  /\ UNCHANGED <<route, up, fed>>

Ended == outcome # "open" /\ UNCHANGED vars

Next == Feed \/ UpstreamEnds \/ GraceEnds \/ Ended

Spec == Init /\ [][Next]_vars

-----------------------------------------------------------------------------
(* Properties.                                                             *)

(* The converter's fields have their types; the ids, indexes and orders it *)
(* keeps for tools and blocks agree with each other, and a block that is   *)
(* open has an index that has been given out.                              *)
TypeOK ==
  /\ route \in Routes
  /\ sc.sourceFormat \in Formats
  /\ fed \in 0..MaxLines[route]
  /\ outcome \in {"open", "ok", "error"}
  /\ {sc.next, sc.progress} \subseteq Nat
  /\ {sc.started, sc.finished, sc.terminalSeen, sc.done, sc.failed} \subseteq BOOLEAN
  /\ CASE route = "chat"      -> Chat!TypeInv(sc)
       [] route = "messages"  -> Messages!TypeInv(sc)
       [] route = "responses" -> Responses!TypeInv(sc)

Passthrough ==
  sc.sourceFormat =
    CASE route = "chat"      -> "openai"
      [] route = "messages"  -> "claude"
      [] route = "responses" -> "openai-response"

Said(ev)  == {k \in DOMAIN sc.said : sc.said[k].ev = ev}
At(ev, b) == {k \in Said(ev) : sc.said[k].block = b}

ToolBlocks == {sc.said[k].block : k \in {o \in Said("start") : sc.said[o].kind = "tool"}}

(* Nothing is said of block b after its stop. *)
QuietAfterStop(b) ==
  LET deltas == At("delta", b) IN \A k \in At("stop", b), d \in deltas : d < k

(* Blocks are opened once, closed at most once, and fed only after they    *)
(* were opened, however text, thinking and the fragments of several tool   *)
(* calls are interleaved.  In Messages events a block is opened only when  *)
(* all earlier ones are closed (stopBlocks and closeOpenBlocks before      *)
(* every start).  No block is fed once closed, but for the tool blocks of  *)
(* a Messages client: those are (StrictLifecycle, run chat_lifecycle).     *)
BlocksWellFormed ==
  \A b \in 0..(sc.next - 1) :
    LET starts == At("start", b)
        stops  == At("stop", b)
    IN /\ Cardinality(starts) <= 1
       /\ Cardinality(stops) <= 1
       /\ \A k \in At("delta", b) \union stops : \E o \in starts : o < k
       /\ sc.sourceFormat = "claude" =>
            \A o \in starts, e \in Said("start") :
              e < o => \E k \in At("stop", sc.said[e].block) : k < o
       /\ (sc.sourceFormat = "claude" /\ b \in ToolBlocks) \/ QuietAfterStop(b)

Started  == {sc.said[k].block : k \in Said("start")}
Stopped  == {sc.said[k].block : k \in Said("stop")}
Content  == Said("start") \union Said("stop") \union Said("delta") \union Said("content")
LastSaid == sc.said[Len(sc.said)]

(* A stream that the pump closes as a success ends as the client's format  *)
(* demands, with nothing after its end.  Messages: every block closed,     *)
(* then one message_delta, unless a Chat upstream gave no finish reason,   *)
(* then one message_stop.  Responses: one response.completed, which lists  *)
(* every announced item, in the order of their indexes, all of them closed *)
(* if this converter closes items.  Chat Completions: a finish chunk after *)
(* all content.  Feed, FlushWithError and FinalizeStream all keep to it.   *)
EndIsWhole ==
  LET endEvent == IF sc.sourceFormat = "claude" THEN "message_stop" ELSE "completed" IN
  /\ \A k \in Said(endEvent) : k = Len(sc.said)
  /\ Cardinality(Said("message_delta")) <= 1
  /\ \A k \in Said("message_delta") \union Said("finish"), e \in Content : e < k
  /\ outcome = "ok" /\ ~Passthrough =>
       /\ sc.sourceFormat = "openai" => Said("finish") # {}
       /\ sc.sourceFormat # "openai" => Said(endEvent) # {}
       /\ sc.sourceFormat = "claude" =>
            /\ Started = Stopped
            /\ Said("message_delta") # {} <=> (sc.finished \/ route = "responses")
       /\ sc.sourceFormat = "openai-response" =>
            /\ route = "chat" => Started = Stopped
            /\ Range(LastSaid.output) = Started
            /\ \A i, j \in DOMAIN LastSaid.output :
                 i < j => LastSaid.output[i] < LastSaid.output[j]

PartsSent(b) == FoldSet(LAMBDA k, n : n + sc.said[k].parts, 0, At("delta", b))

Due ==
  CASE route = "chat"      -> Chat!Due(sc, up)
    [] route = "messages"  -> Messages!Due(sc, up)
    [] route = "responses" -> Responses!Due(sc, up)

(* After a success every tool call is one block to the client, with every  *)
(* argument fragment once: those held back until the name was known, those *)
(* that came under the item's other identifier, and those an upstream      *)
(* repeats with its completed item.                                        *)
NoFragmentLost ==
  outcome = "ok" /\ ~Passthrough =>
    \A d \in Due :
      /\ Cardinality(d.blocks) = 1
      /\ \A b \in d.blocks :
           /\ d.told => b \in Started
           /\ PartsSent(b) = d.parts

(* The response that is not streamed, for the same client. *)
Whole ==
  CASE route = "chat"      -> Chat!Whole(up)
    [] route = "messages"  -> Messages!Whole(up)
    [] route = "responses" -> Responses!Whole(up)

Converted ==
  LET format == sc.sourceFormat IN
  CASE route = "chat"      -> LET b == Chat!Body(sc, up) IN
                              IF format = "claude" THEN ChatToClaude(b) ELSE ChatToResponses(b)
    [] route = "messages"  -> LET b == Messages!Body(sc, up) IN
                              IF format = "openai" THEN ClaudeToChat(b) ELSE ClaudeToResponses(b)
    [] route = "responses" -> LET b == Responses!Body(sc, up) IN
                              IF format = "openai" THEN ResponsesToChat(b) ELSE ResponsesToClaude(b)

(* The kinds of the blocks told, in the order of their indexes, and the    *)
(* reason told last.  Text and thinking may take several blocks.           *)
KindOf(b)  == LET o == CHOOSE o \in At("start", b) : TRUE IN sc.said[o].kind
ToldItems ==
  (IF Said("content") # {} THEN <<"text">> ELSE <<>>)
  \o LET blocks == SetToSortSeq(Started, <) IN [k \in DOMAIN blocks |-> KindOf(blocks[k])]

ToldReason ==
  LET k == CHOOSE k \in Said("finish") \union Said("message_delta") \union Said("completed") :
             \A j \in Said("finish") : j <= k
  IN sc.said[k].reason

ToolsIn(items, kind) == Len(SelectSeq(items, LAMBDA i : i = kind))

(* The items with all texts but the first left out. *)
OneText(items) ==
  LET Kept(k) == items[k] = "text" => \A j \in 1..(k - 1) : items[j] # "text"
      kept    == SelectSeq([k \in DOMAIN items |-> k], Kept)
  IN [k \in DOMAIN kept |-> items[kept[k]]]

(* A Responses stream for a Messages client in which calls were heard of   *)
(* by argument deltas alone, without an item: argsFragment does not set    *)
(* toolCallsSeen there (responses/stream.go:517).                          *)
CallsByDeltasAlone ==
  /\ route = "responses"
  /\ sc.sourceFormat = "claude"
  /\ DOMAIN up.calls # {}
  /\ \A c \in Range(up.calls) : ~c.added

(* What the comments call mode parity (messages/convert.go:183, stream.go  *)
(* :462, shared.go:1983 ...): a client that streams gets what one that     *)
(* does not would have: text and thinking if there was any, as many tool   *)
(* calls of each kind, the same reason for the end.  The Messages adapter  *)
(* keeps the order of the items too, and so does the Responses adapter for *)
(* Messages clients, but that text may be split there.  A stream whose     *)
(* body would have been refused does not end as a success.  One exemption  *)
(* is a disagreement of the code with its comment (responses/stream.go:546 *)
(* "tool calls outrank the status-derived reason"): calls known by deltas  *)
(* alone leave the reason that the status gives.                           *)
ModeParity ==
  outcome = "ok" /\ ~Passthrough /\ Whole =>
    /\ Converted.ok
    /\ ToldReason = IF CallsByDeltasAlone THEN ReasonOf(up.status) ELSE Converted.reason
    /\ Range(Converted.items) = Range(ToldItems)
    /\ \A kind \in {"tool", "custom"} :
         ToolsIn(Converted.items, kind) = ToolsIn(ToldItems, kind)
    /\ route = "messages" => Converted.items = ToldItems
    /\ route = "responses" /\ sc.sourceFormat = "claude" => Converted.items = OneText(ToldItems)

(* What StreamPump's Conv is of this converter. *)
Picture(s) ==
  [started  |-> s.started,
   finish   |-> s.finished,
   argsOpen |-> CASE route = "chat"      -> Chat!ArgsOpen(s)
                  [] route = "messages"  -> Messages!ArgsOpen(s)
                  [] route = "responses" -> Responses!ArgsOpen(s),
   sent     |-> s.terminalSeen,
   done     |-> s.done]

Policy ==
  CASE route = "responses" -> "terminal"
    [] route = "chat" /\ sc.sourceFormat = "openai-response" -> "synthetic"
    [] OTHER -> "strict"

(* A line amounts to at most three of the pump's frames; for every policy  *)
(* and picture, the pictures after a line.                                 *)
ByFrame(p, pictures) ==
  pictures \union
  {AfterFrame(p, cf[1], cf[2]) : cf \in
     {cf \in pictures \X Frames(p) :
        MayArrive(cf[1], cf[2]) /\ ~FrameFails(p, cf[1], cf[2])}}

ByLine == [p \in AllPolicies |-> [c \in Conv |-> ByFrame(p, ByFrame(p, ByFrame(p, {c})))]]

Typed == route = "messages" => sc.typed

(* StreamPolicy, with which the pump is checked and proved, describes the  *)
(* three converters: every line that does not fail does what some of the   *)
(* pump's frames do; it does none of it without making progress, which is  *)
(* what the timers go by; and the end of the upstream stream and that of   *)
(* the finish grace fail exactly when StreamPolicy says so.  A Messages    *)
(* upstream that does not type its events is outside that description.     *)
PumpPicture ==
  [][Typed =>
       /\ outcome' # "error" /\ Picture(sc)' # Picture(sc) /\ fed' # fed =>
            /\ sc'.progress > sc.progress
            /\ Picture(sc)' \in ByLine[Policy][Picture(sc)]
       /\ outcome = "open" =>
            /\ FlushWithError(sc).failed <=> FlushFails(Policy, Picture(sc))
            /\ sc.finished =>
                 (FinalizeStream(sc).failed <=> FinalizeFails(Policy, Picture(sc)))]_vars

HasContent(l) ==
  CASE route = "chat"      -> Chat!HasContent(l)
    [] route = "messages"  -> Messages!HasContent(l)
    [] route = "responses" -> Responses!HasContent(l)

Repeatable(l) ==
  CASE route = "chat"      -> Chat!Repeatable(l)
    [] route = "messages"  -> Messages!Repeatable(l)
    [] route = "responses" -> Responses!Repeatable(l)

(* README.md:146 and RELEASE_NOTES.md: only parsed progress renews the     *)
(* idle timer.  A line that brings text or arguments does; a keepalive, a  *)
(* start, a usage record or a finish that is sent again and again does at  *)
(* most twice, the second time because it flushes a held finish.  The      *)
(* model has no deltas without content, which a Responses upstream's       *)
(* converter takes for progress as well (responses/stream.go:286).         *)
IdleMeansIdle ==
  outcome = "open" /\ Typed =>
    \A l \in Lines[route] :
      LET once  == HandleLine(sc, l)
          twice == HandleLine(once, l)
      IN /\ HasContent(l) /\ MayCome(l) /\ ~once.failed => once.progress > sc.progress
         /\ Repeatable(l) /\ ~once.failed /\ ~twice.failed =>
              HandleLine(twice, l).progress = twice.progress

(* chatcompletions/stream.go:386 says of Messages events "one block open   *)
(* at a time", and stream_test.go:243 "start -> delta(s) -> stop, no       *)
(* reuse"; responses/stream.go:447 speaks of the "mandated                 *)
(* start/delta/stop pairing per block index".                              *)
StrictLifecycle ==
  sc.sourceFormat = "claude" => \A b \in 0..(sc.next - 1) : QuietAfterStop(b)

=============================================================================
