---------------------------- MODULE StreamSession ----------------------------
(***************************************************************************)
(* What one streaming execution promises the host, whatever the order in   *)
(* which chunks, timers and failures arrive: the upstream stream is        *)
(* released before the client is told anything final, the client is told   *)
(* exactly one outcome, a successful outcome rests on evidence that the    *)
(* model's answer was complete, and the single finish record agrees with   *)
(* the outcome the client saw.  StreamPump implements this module.         *)
(***************************************************************************)

VARIABLES
  evidence,    (* the upstream stream carried a finish or a terminal event *)
  upstream,    (* "open" until host.http.stream_close has been called      *)
  downstream,  (* "open", or how host.stream.close was called              *)
  report       (* "none", or the level of the finish record                *)

session == <<evidence, upstream, downstream, report>>

TypeOK ==
  /\ evidence   \in BOOLEAN
  /\ upstream   \in {"open", "closed"}
  /\ downstream \in {"open", "ok", "error"}
  /\ report     \in {"none", "info", "warn"}

Init ==
  /\ evidence   = FALSE
  /\ upstream   = "open"
  /\ downstream = "open"
  /\ report     = "none"

(* The upstream answer turns out to be complete. *)
Observe ==
  /\ downstream = "open"
  /\ report = "none"
  /\ evidence' = TRUE
  /\ UNCHANGED <<upstream, downstream, report>>

Release ==
  /\ upstream = "open"
  /\ upstream' = "closed"
  /\ UNCHANGED <<evidence, downstream, report>>

(* A failed stream: the client hears of it first, the operator next. *)
Fail ==
  /\ upstream = "closed" /\ downstream = "open" /\ report = "none"
  /\ downstream' = "error"
  /\ UNCHANGED <<evidence, upstream, report>>

ReportFailure ==
  /\ downstream = "error" /\ report = "none"
  /\ report' = "warn"
  /\ UNCHANGED <<evidence, upstream, downstream>>

(* A complete stream: recorded first, closed for the client last. *)
ReportSuccess ==
  /\ evidence /\ downstream = "open" /\ report = "none"
  /\ report' = "info"
  /\ UNCHANGED <<evidence, upstream, downstream>>

Succeed ==
  /\ upstream = "closed" /\ downstream = "open" /\ report = "info"
  /\ downstream' = "ok"
  /\ UNCHANGED <<evidence, upstream, report>>

Next ==
  Observe \/ Release \/ Fail \/ ReportFailure \/ ReportSuccess \/ Succeed

Spec == Init /\ [][Next]_session

=============================================================================
