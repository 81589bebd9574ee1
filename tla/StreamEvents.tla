---------------------------- MODULE StreamEvents ----------------------------
(***************************************************************************)
(* What the three adapters' stream converters have in common: the events   *)
(* a client is told (the emitters of shared.go), the StreamState by which  *)
(* the pump knows of progress, and tool arguments.                         *)
(*                                                                         *)
(* The client is told a sequence of events on numbered blocks, a block     *)
(* being a Claude content block, a Responses output item or an entry of    *)
(* tool_calls: the events that open it together are one "start", those     *)
(* that close it one "stop".  Text is left out.  A tool's arguments are    *)
(* known by how far they are JSON.  Ids, usage numbers and stop reasons    *)
(* are data.                                                               *)
(*                                                                         *)
(* A converter is a record.  All have the fields of Base, and next, the    *)
(* next block to be given out; the rest is each converter's own.           *)
(***************************************************************************)
EXTENDS Integers, Sequences, SequencesExt

Formats == {"openai", "claude", "openai-response"}

Closed == -1

Base(format) ==
  [sourceFormat |-> format,
   progress     |-> 0,         (* StreamSnapshot                           *)
   started      |-> FALSE,
   finished     |-> FALSE,     (* FinishSeen                               *)
   terminalSeen |-> FALSE,
   done         |-> FALSE,     (* Feed returned done                       *)
   failed       |-> FALSE,     (* an error was returned                    *)
   said         |-> <<>>]      (* all events returned so far               *)

With(base, own) ==
  [f \in DOMAIN base \union DOMAIN own |-> IF f \in DOMAIN own THEN own[f] ELSE base[f]]

(* StreamState *)
Advance(s)     == [s EXCEPT !.progress = @ + 1]
StateStart(s)  == IF s.started THEN s ELSE Advance([s EXCEPT !.started = TRUE])
Finish(s)      == IF s.finished THEN s ELSE Advance([s EXCEPT !.finished = TRUE])
Terminal(s)    == Advance([s EXCEPT !.terminalSeen = TRUE])
AdvanceIf(s, new) == IF new THEN Advance(s) ELSE s

(* Events.  A delta carries a number of fragments, parts. *)
Start(b, kind) == [ev |-> "start", block |-> b, kind |-> kind]
Delta(b, n) == [ev |-> "delta", block |-> b, parts |-> n]
Stop(b)     == [ev |-> "stop", block |-> b]
Named(ev)   == [ev |-> ev]
Ending(ev, reason) == [ev |-> ev, reason |-> reason]
Completed(status, output) == [ev |-> "completed", reason |-> status, output |-> output]

(* The opening entry of a tool call carries the arguments known so far. *)
Opening(b, n) == IF n = 0 THEN <<Start(b, "tool")>> ELSE <<Start(b, "tool"), Delta(b, n)>>

(* Why a response ended: "stop" or "length" as Chat Completions and, after *)
(* FinishToClaudeStop, Messages have it, "tools" if it called any; a       *)
(* status as Responses has it.                                             *)
TerminalReason(toolCallsSeen, reason) == IF toolCallsSeen THEN "tools" ELSE reason
StatusOf(reason) == IF reason = "length" THEN "incomplete" ELSE "completed"
ReasonOf(status) == IF status = "incomplete" THEN "length" ELSE "stop"
FinishOf(stop)   == IF stop = "length" THEN "length" ELSE "stop"

(* The numbers of S that are below n, ascending. *)
Listed(S, n) ==
  LET upTo[k \in 0..n] == IF k = 0 THEN <<>>
                          ELSE IF k - 1 \in S THEN Append(upTo[k - 1], k - 1)
                          ELSE upTo[k - 1]
  IN  upTo[n]

Say(s, events) == [s EXCEPT !.said = @ \o events]
Fail(s)        == [s EXCEPT !.failed = TRUE]

(* An argument fragment: two halves, or a whole object. *)
Fragments == {"none", "half", "whole"}

Joined(args, f) ==
  IF f = "none" THEN args
  ELSE IF args = "none" THEN f
  ELSE IF args = "half" /\ f = "half" THEN "whole"
  ELSE "broken"

=============================================================================
