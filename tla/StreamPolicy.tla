---------------------------- MODULE StreamPolicy ----------------------------
(***************************************************************************)
(* The three adapters' stream converters (stream.go of each), as far as    *)
(* pumpStream can tell them apart: when Feed, FinalizeStream and           *)
(* FlushWithError fail, and which frames are progress, a finish, an end.   *)
(* There are three policies:                                               *)
(*   "strict"     Chat Completions to openai and claude, Messages          *)
(*   "synthetic"  Chat Completions to openai-response, which makes up a    *)
(*                finish reason at the end of the upstream stream          *)
(*   "terminal"   Responses, where only a terminal event ends the stream   *)
(* StreamConverters checks them against the three converters.              *)
(***************************************************************************)

AllPolicies == {"strict", "synthetic", "terminal"}

Conv == [started : BOOLEAN, finish : BOOLEAN, argsOpen : BOOLEAN, sent : BOOLEAN, done : BOOLEAN]

(* One complete upstream frame at a time.  "args" is a tool call fragment  *)
(* that leaves its JSON arguments open, "argsEnd" one that completes them, *)
(* "usage" a usage record that differs from the last one, "none" a comment,*)
(* a ping or a duplicate.                                                  *)
Frames(p) ==
  {"none", "delta", "done", "bad"} \union
  (IF p = "terminal" THEN {} ELSE {"usage", "finish", "args", "argsEnd"})

(* A Chat Completions or Messages upstream sends no tool fragment after    *)
(* its finish reason.                                                      *)
MayArrive(c, f) == f \in {"args", "argsEnd"} => ~c.finish

(* responsesTerminal(allowSyntheticFinish = synth), as far as it can fail. *)
TerminalFails(c, synth) ==
  /\ ~c.sent
  /\ \/ ~c.finish /\ synth /\ ~c.started
     \/ (c.finish \/ synth) /\ c.argsOpen

FrameFails(p, c, f) ==
  \/ f = "bad"
  \/ f = "done" /\ p = "strict" /\ c.argsOpen
  \/ f = "done" /\ p = "synthetic" /\ TerminalFails(c, TRUE)
  \/ f = "finish" /\ p = "synthetic" /\ c.argsOpen

Progresses(c, f) ==
  \/ f \in {"delta", "usage", "args", "argsEnd", "done"}
  \/ f = "finish" /\ ~c.finish

(* The synthetic policy renders response.completed on the first frame      *)
(* after the finish, or on [DONE].                                         *)
AfterFrame(p, c, f) ==
  [started  |-> c.started \/ f \in {"delta", "args", "argsEnd", "finish"},
   finish   |-> c.finish \/ f = "finish",
   argsOpen |-> IF f = "args" THEN TRUE ELSE c.argsOpen /\ f # "argsEnd",
   sent     |-> \/ c.sent
                \/ f = "done"
                \/ p = "synthetic" /\ c.finish /\ f # "none",
   done     |-> c.done \/ f = "done"]

(* FinalizeStream at the end of the finish grace. *)
FinalizeFails(p, c) ==
  \/ p = "strict"    /\ ~c.sent /\ (~c.finish \/ c.argsOpen)
  \/ p = "synthetic" /\ TerminalFails(c, FALSE)
  \/ p = "terminal"  /\ ~c.sent

(* Mutation of FlushFails: the end of the upstream stream is always good.  *)
FlushNeverFails(p, c) == FALSE

(* FlushWithError at the end of the upstream stream. *)
FlushFails(p, c) ==
  IF p = "synthetic" THEN TerminalFails(c, TRUE) ELSE FinalizeFails(p, c)

=============================================================================
