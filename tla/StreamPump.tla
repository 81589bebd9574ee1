----------------------------- MODULE StreamPump -----------------------------
(***************************************************************************)
(* One streaming execution of the executor: pumpStream (executor.go) with  *)
(* its streamController (stream_controller.go).  The pump goroutine reads  *)
(* chunks from the host's upstream stream, feeds the route's converter and *)
(* emits the converted events downstream; request-local timers, each on a  *)
(* goroutine of its own, may claim a timeout cause and close the upstream  *)
(* stream to release a blocked read.                                       *)
(*                                                                         *)
(* Time is not modelled: an armed timer may expire at any moment.  Of the  *)
(* converter the pump sees what StreamPolicy says.                         *)
(***************************************************************************)
EXTENDS Integers, FiniteSets, StreamPolicy

CONSTANTS
  MaxResponseBytes,  (* config max-response-bytes, in units of one frame   *)
  ChunkSizes,        (* the payload sizes one StreamRead can return        *)
  MaxEvents,         (* the most client events one upstream frame produces *)
  Policies           (* the converter policies to consider                 *)

ASSUME PumpAssumption ==
  /\ MaxResponseBytes \in Nat
  /\ ChunkSizes \subseteq Nat
  /\ MaxEvents \in Nat
  /\ Policies \subseteq AllPolicies

PhaseCauses  == {"first_data", "idle", "finish_grace"}
TimerCauses  == PhaseCauses \union {"total"}
NoCause      == "none"
Successes    == {"terminal", "eof", "finish_grace"}
Failures     == {"first_data", "idle", "total", "terminal_error", "emit_error",
                 "read_error", "upstream_error", "max_bytes", "truncated"}

VARIABLES
  (* streamController *)
  generation,   (* bumped by every armPhase and by stop                    *)
  active,
  cause,        (* the claimed timeout cause, NoCause for ""               *)
  phase,        (* the set holding the armed phase timer, empty if none    *)
  totalArmed,   (* the total timer has been started and has not expired    *)
  running,      (* timer callbacks past expiry: <<before fire's lock>> or  *)
                (* <<inside StreamClose>>                                  *)
  wg,           (* the WaitGroup's counter                                 *)
  standing,     (* history: the timers armed, expired or not, that neither *)
                (* a later armPhase nor stop has superseded                *)
  (* pumpStream *)
  pc,
  policy,
  read,         (* the result of the last StreamRead                       *)
  total,        (* bytes received                                          *)
  left,         (* frames the chunk being fed may still complete           *)
  conv,         (* what the converter has seen of the upstream answer      *)
  grew,         (* Progress has grown since lastSnapshot                   *)
  sawFinish,    (* lastSnapshot.FinishSeen                                 *)
  convErr,      (* Feed returned an error                                  *)
  pending,      (* converted events not yet emitted                        *)
  after,        (* what the emission in progress belongs to                *)
  once,         (* closeOnce has run                                       *)
  verdict,      (* the cause logDone is called with                        *)
  (* the host *)
  up, down, report

controller == <<generation, active, cause, phase, totalArmed, running, wg, standing>>
feeding    == <<left, conv, grew, sawFinish, convErr>>
outcome    == <<once, verdict, up, down, report>>
vars       == <<controller, pc, policy, read, total, feeding, pending, after, outcome>>

Timers  == [gen : Nat, cause : TimerCauses]
(* "released": the upstream stream was already closed when the read        *)
(* returned.  What else an answer says that reports a failure is not       *)
(* looked at.                                                              *)
ReadResults(sizes, released) ==
  [size : sizes, closed : BOOLEAN, failure : {"none"}, released : released]
  \union
  [size : {0}, closed : {FALSE}, failure : {"read_error", "upstream_error"},
   released : released]

PumpLocations ==
  {"new", "first", "read", "check", "feed", "progress", "grace", "fed", "emit",
   "flush", "closeUp", "closeDown", "log", "stop", "wait", "deferUp", "deferDown", "end"}

Init ==
  /\ generation = 0 /\ active = TRUE /\ cause = NoCause
  /\ phase = {} /\ totalArmed = FALSE /\ running = {} /\ wg = 0
  /\ standing = {}
  /\ pc = "new" /\ policy \in Policies
  /\ read = [size |-> 0, closed |-> FALSE, failure |-> "none", released |-> FALSE]
  /\ total = 0 /\ left = 0
  /\ conv = [started |-> FALSE, finish |-> FALSE, argsOpen |-> FALSE, sent |-> FALSE, done |-> FALSE]
  /\ grew = FALSE /\ sawFinish = FALSE /\ convErr = FALSE
  /\ pending = 0 /\ after = "loop"
  /\ once = FALSE /\ verdict = NoCause
  /\ up = "open" /\ down = "open" /\ report = "none"

-----------------------------------------------------------------------------
(* The stream controller.                                                  *)

(* The WaitGroup count held by a timer that is armed. *)
Held(armed) == IF armed THEN 1 ELSE 0

(* newStreamController and armTotal. *)
ArmTotal ==
  /\ totalArmed' = TRUE
  /\ wg' = wg + 1
  /\ standing' = standing \union {[gen |-> 0, cause |-> "total"]}
  /\ UNCHANGED <<generation, active, cause, phase, running>>

(* A phase timer supersedes the one before it, and not the total timer. *)
Superseded(c) ==
  {t \in standing : t.cause = "total"} \union {[gen |-> generation + 1, cause |-> c]}

(* Mutation of ArmPhase: the count of a stopped timer is never given back. *)
ArmPhaseLosesCount(c) ==
  /\ generation' = generation + 1
  /\ phase' = {[gen |-> generation + 1, cause |-> c]}
  /\ wg' = wg + 1
  /\ standing' = Superseded(c)
  /\ UNCHANGED <<active, cause, totalArmed, running>>

(* Mutation of ArmPhase: stopping the previous timer skips the new one.    *)
ArmPhaseOnlyStops(c) ==
  /\ generation' = generation + 1
  /\ phase' = IF phase = {} THEN {[gen |-> generation + 1, cause |-> c]} ELSE {}
  /\ wg' = wg - Held(phase # {}) + Held(phase' # {})
  /\ standing' = Superseded(c)
  /\ UNCHANGED <<active, cause, totalArmed, running>>

(* armPhase: the previous phase timer is stopped, which returns its count  *)
(* only if it had not expired yet.                                         *)
ArmPhase(c) ==
  /\ generation' = generation + 1
  /\ phase' = {[gen |-> generation + 1, cause |-> c]}
  /\ wg' = wg - Held(phase # {}) + 1
  /\ standing' = Superseded(c)
  /\ UNCHANGED <<active, cause, totalArmed, running>>

(* A timer expires: its callback starts, the timer can no longer be stopped. *)
PhaseExpires ==
  /\ \E t \in phase :
       running' = running \union {[gen |-> t.gen, cause |-> t.cause, at |-> "fired"]}
  /\ phase' = {}
  /\ UNCHANGED <<generation, active, cause, totalArmed, wg, standing,
                 pc, policy, read, total, feeding, pending, after, outcome>>

TotalExpires ==
  /\ totalArmed
  /\ running' = running \union {[gen |-> 0, cause |-> "total", at |-> "fired"]}
  /\ totalArmed' = FALSE
  /\ UNCHANGED <<generation, active, cause, phase, wg, standing,
                 pc, policy, read, total, feeding, pending, after, outcome>>

(* Mutation of MayClaim: no generation test. *)
MayClaimStale(t) == active /\ cause = NoCause

(* fire's test under the lock: generation 0 is the total timer, which no   *)
(* later arm supersedes.                                                   *)
MayClaim(t) ==
  /\ active
  /\ t.gen = 0 \/ t.gen = generation
  /\ cause = NoCause

Fire(t) ==
  /\ t.at = "fired"
  /\ \/ /\ MayClaim(t)
        /\ cause' = t.cause
        /\ active' = FALSE
        /\ running' = (running \ {t}) \union {[t EXCEPT !.at = "closing"]}
        /\ UNCHANGED wg
     \/ /\ ~MayClaim(t)
        /\ running' = running \ {t}
        /\ wg' = wg - 1
        /\ UNCHANGED <<cause, active>>
  /\ UNCHANGED <<generation, phase, totalArmed, standing,
                 pc, policy, read, total, feeding, pending, after, outcome>>

(* The claiming callback's StreamClose returns, and with it the callback. *)
FireCloses(t) ==
  /\ t.at = "closing"
  /\ up' = "closed"
  /\ running' = running \ {t}
  /\ wg' = wg - 1
  /\ UNCHANGED <<generation, active, cause, phase, totalArmed, standing,
                 pc, policy, read, total, feeding, pending, after,
                 once, verdict, down, report>>

(* stop, up to its wait. *)
StopTimers ==
  /\ active' = FALSE
  /\ generation' = generation + 1
  /\ wg' = wg - Held(phase # {}) - Held(totalArmed)
  /\ phase' = {}
  /\ totalArmed' = FALSE
  /\ standing' = {}
  /\ UNCHANGED <<cause, running>>

-----------------------------------------------------------------------------
(* pumpStream.                                                             *)

Goto(from, to) == pc = from /\ pc' = to

(* closeStreams with an error message, then logDone with cause c. *)
Fail(c) ==
  /\ pc' = "closeUp"
  /\ verdict' = c
  /\ UNCHANGED <<once, up, down, report>>

(* logDone with a successful cause and return. *)
Finish(c) ==
  /\ pc' = "log"
  /\ verdict' = c
  /\ UNCHANGED <<once, up, down, report>>

NewController ==
  /\ Goto("new", "first")
  /\ ArmTotal
  /\ UNCHANGED <<policy, read, total, feeding, pending, after, outcome>>

FirstData ==
  /\ Goto("first", "read")
  /\ ArmPhase("first_data")
  /\ UNCHANGED <<policy, read, total, feeding, pending, after, outcome>>

(* The host answers the blocked StreamRead, with anything it likes. *)
ReadReturns ==
  /\ Goto("read", "check")
  /\ \E r \in ReadResults(ChunkSizes, {up = "closed"}) : read' = r
  /\ UNCHANGED <<controller, policy, total, feeding, pending, after, outcome>>

(* After the read: a claimed cause decides before anything the read says.  *)
CheckTimeout ==
  /\ pc = "check"
  /\ cause \in {"first_data", "idle", "total"}
  /\ Fail(cause)
  /\ UNCHANGED <<controller, policy, read, total, feeding, pending, after>>

CheckGrace ==
  /\ pc = "check"
  /\ cause = "finish_grace"
  /\ \/ /\ FinalizeFails(policy, conv)
        /\ Fail("terminal_error")
        /\ UNCHANGED <<conv, pending, after>>
     \/ /\ ~FinalizeFails(policy, conv)
        /\ pc' = "emit" /\ after' = "grace"
        /\ \E n \in 0..MaxEvents : pending' = n
        /\ conv' = [conv EXCEPT !.sent = TRUE]
        /\ UNCHANGED outcome
  /\ UNCHANGED <<controller, policy, read, total, left, grew, sawFinish, convErr>>

ReadOutcome ==
  /\ \/ /\ read.failure # "none"
        /\ Fail(read.failure)
        /\ UNCHANGED <<total, left, grew, convErr, pending>>
     \/ /\ read.failure = "none"
        /\ total' = total + read.size
        /\ \/ /\ total' > MaxResponseBytes
              /\ Fail("max_bytes")
              /\ UNCHANGED <<left, grew, convErr, pending>>
           \/ /\ total' <= MaxResponseBytes
              /\ pc' = "feed"
              /\ left' = read.size /\ grew' = FALSE /\ convErr' = FALSE /\ pending' = 0
              /\ UNCHANGED outcome
  /\ UNCHANGED <<controller, policy, read, conv, sawFinish, after>>

(* Mutation of CheckRead: the read's outcome decides before the cause.     *)
CheckReadFirst == pc = "check" /\ ReadOutcome

CheckRead ==
  /\ pc = "check"
  /\ cause = NoCause
  /\ ReadOutcome

(* Feed handles one complete frame of the chunk. *)
FeedFrame(f) ==
  /\ pc = "feed"
  /\ left > 0 /\ ~convErr
  /\ MayArrive(conv, f)
  /\ \/ /\ FrameFails(policy, conv, f)
        /\ convErr' = TRUE
        /\ UNCHANGED <<left, conv, grew, pending>>
     \/ /\ ~FrameFails(policy, conv, f)
        /\ conv' = AfterFrame(policy, conv, f)
        /\ grew' = (grew \/ Progresses(conv, f))
        /\ \E n \in 0..(IF f = "none" THEN 0 ELSE MaxEvents) : pending' = pending + n
        /\ left' = IF f = "done" /\ policy # "terminal" THEN 0 ELSE left - 1
        /\ UNCHANGED convErr
  /\ UNCHANGED <<controller, pc, policy, read, total, sawFinish, after, outcome>>

(* Feed returns: the rest of the chunk is an incomplete frame. *)
FeedReturns ==
  /\ pc = "feed"
  /\ pc' = IF grew THEN "progress" ELSE "fed"
  /\ left' = 0
  /\ UNCHANGED <<controller, policy, read, total, conv, grew, sawFinish, convErr,
                 pending, after, outcome>>

Progress ==
  /\ Goto("progress", IF conv.finish /\ ~sawFinish THEN "grace" ELSE "fed")
  /\ ArmPhase("idle")
  /\ UNCHANGED <<policy, read, total, feeding, pending, after, outcome>>

FinishGrace ==
  /\ Goto("grace", "fed")
  /\ ArmPhase("finish_grace")
  /\ sawFinish' = TRUE
  /\ UNCHANGED <<policy, read, total, left, conv, grew, convErr, pending, after, outcome>>

Fed ==
  /\ pc = "fed"
  /\ \/ /\ convErr
        /\ Fail("terminal_error")
        /\ UNCHANGED after
     \/ /\ ~convErr
        /\ pc' = "emit" /\ after' = "loop"
        /\ UNCHANGED outcome
  /\ UNCHANGED <<controller, policy, read, total, feeding, pending>>

(* Mutation of Emit: one event too many. *)
EmitPastEnd ==
  /\ pc = "emit"
  /\ \/ /\ pending' = pending - 1
        /\ UNCHANGED <<pc, outcome>>
     \/ /\ Fail("emit_error")
        /\ UNCHANGED pending
  /\ UNCHANGED <<controller, policy, read, total, feeding, after>>

(* emitAll: StreamEmit is bounded by emitTimeout, so it succeeds or fails. *)
Emit ==
  /\ pc = "emit" /\ pending > 0
  /\ \/ /\ pending' = pending - 1
        /\ UNCHANGED <<pc, outcome>>
     \/ /\ Fail("emit_error")
        /\ UNCHANGED pending
  /\ UNCHANGED <<controller, policy, read, total, feeding, after>>

(* What follows emitAll in the read loop, in the grace branch, at the end. *)
EmittedChunk ==
  /\ pc = "emit" /\ pending = 0 /\ after = "loop"
  /\ \/ /\ conv.done
        /\ Finish(IF read.closed THEN "eof" ELSE "terminal")
     \/ /\ ~conv.done
        /\ pc' = IF read.closed THEN "flush" ELSE "read"
        /\ UNCHANGED outcome
  /\ UNCHANGED <<controller, policy, read, total, feeding, pending, after>>

EmittedLast ==
  /\ pc = "emit" /\ pending = 0 /\ after \in {"grace", "flush"}
  /\ Finish(IF after = "grace" THEN "finish_grace" ELSE "eof")
  /\ UNCHANGED <<controller, policy, read, total, feeding, pending, after>>

Flush ==
  /\ pc = "flush"
  /\ \/ /\ FlushFails(policy, conv)
        /\ Fail("truncated")
        /\ UNCHANGED <<conv, pending, after>>
     \/ /\ ~FlushFails(policy, conv)
        /\ pc' = "emit" /\ after' = "flush"
        /\ \E n \in 0..MaxEvents : pending' = n
        /\ conv' = [conv EXCEPT !.sent = TRUE]
        /\ UNCHANGED outcome
  /\ UNCHANGED <<controller, policy, read, total, left, grew, sawFinish, convErr>>

(* closeStreams(message): upstream first, then downstream, once. *)
CloseUp ==
  /\ Goto("closeUp", "closeDown")
  /\ once' = TRUE
  /\ up' = "closed"
  /\ UNCHANGED <<controller, policy, read, total, feeding, pending, after,
                 verdict, down, report>>

CloseDown ==
  /\ Goto("closeDown", "log")
  /\ down' = "error"
  /\ UNCHANGED <<controller, policy, read, total, feeding, pending, after,
                 once, verdict, up, report>>

(* logStreamFinished and its level. *)
Log ==
  /\ Goto("log", "stop")
  /\ report' = IF verdict \in Successes THEN "info" ELSE "warn"
  /\ UNCHANGED <<controller, policy, read, total, feeding, pending, after,
                 once, verdict, up, down>>

(* The deferred controller.stop, which waits for every timer callback... *)
Stop ==
  /\ Goto("stop", "wait")
  /\ StopTimers
  /\ UNCHANGED <<policy, read, total, feeding, pending, after, outcome>>

(* Mutation of Wait: stop does not wait. *)
StopDoesNotWait ==
  /\ pc = "wait"
  /\ pc' = IF once THEN "end" ELSE "deferUp"
  /\ UNCHANGED <<controller, policy, read, total, feeding, pending, after, outcome>>

(* Mutation of Wait: the deferred closeStreams ignores closeOnce. *)
WaitThenCloseAgain ==
  /\ Goto("wait", "deferUp")
  /\ wg = 0
  /\ UNCHANGED <<controller, policy, read, total, feeding, pending, after, outcome>>

Wait ==
  /\ pc = "wait"
  /\ wg = 0
  /\ pc' = IF once THEN "end" ELSE "deferUp"
  /\ UNCHANGED <<controller, policy, read, total, feeding, pending, after, outcome>>

(* ... and only then the deferred closeStreams(""). *)
DeferredCloseUp ==
  /\ Goto("deferUp", "deferDown")
  /\ once' = TRUE
  /\ up' = "closed"
  /\ UNCHANGED <<controller, policy, read, total, feeding, pending, after,
                 verdict, down, report>>

DeferredCloseDown ==
  /\ Goto("deferDown", "end")
  /\ down' = "ok"
  /\ UNCHANGED <<controller, policy, read, total, feeding, pending, after,
                 once, verdict, up, report>>

PumpStep ==
  \/ NewController \/ FirstData
  \/ CheckTimeout \/ CheckGrace \/ CheckRead
  \/ FeedReturns \/ Progress \/ FinishGrace \/ Fed
  \/ Emit \/ EmittedChunk \/ EmittedLast \/ Flush
  \/ CloseUp \/ CloseDown \/ Log \/ Stop \/ Wait
  \/ DeferredCloseUp \/ DeferredCloseDown

CallbackStep == \E t \in running : Fire(t) \/ FireCloses(t)

(* pumpStream has returned. *)
Ended == pc = "end" /\ UNCHANGED vars

Next ==
  \/ PumpStep
  \/ ReadReturns
  \/ \E f \in Frames(policy) : FeedFrame(f)
  \/ PhaseExpires
  \/ TotalExpires
  \/ CallbackStep
  \/ Ended

Spec == Init /\ [][Next]_vars

(***************************************************************************)
(* Fairness.  The Go scheduler runs every ready goroutine; timers expire;  *)
(* emitTimeout and logTimeout bound StreamEmit, StreamCloseDownstream and  *)
(* Log.  Of the host we assume what the executor relies on: StreamClose    *)
(* returns, and a read of a closed upstream stream does too.  A read of an *)
(* open stream may block for ever.                                         *)
(***************************************************************************)
Release == up = "closed" /\ ReadReturns

Fairness ==
  /\ WF_vars(PumpStep)
  /\ WF_vars(\E f \in Frames(policy) : FeedFrame(f))
  /\ WF_vars(Release)
  /\ WF_vars(CallbackStep)
  /\ WF_vars(PhaseExpires)

(* Nothing here relies on the total timer, whose 30 minutes would hide a   *)
(* stall that the phase timers are there to end.                           *)
FairSpec == Spec /\ Fairness

-----------------------------------------------------------------------------
(* Properties.                                                             *)

Running == [gen : Nat, cause : TimerCauses, at : {"fired", "closing"}]

(* Every variable of the pump and its controller keeps its type. *)
TypeOK ==
  /\ generation \in Nat /\ active \in BOOLEAN
  /\ cause \in TimerCauses \union {NoCause}
  /\ phase \subseteq [gen : Nat, cause : PhaseCauses]
  /\ totalArmed \in BOOLEAN
  /\ running \subseteq Running
  /\ wg \in Int
  /\ standing \subseteq Timers
  /\ pc \in PumpLocations
  /\ policy \in AllPolicies
  /\ read \in ReadResults(Nat, BOOLEAN)
  /\ total \in Nat /\ left \in Nat
  /\ conv \in Conv
  /\ grew \in BOOLEAN /\ sawFinish \in BOOLEAN /\ convErr \in BOOLEAN
  /\ pending \in Nat
  /\ after \in {"loop", "grace", "flush"}
  /\ once \in BOOLEAN
  /\ verdict \in Successes \union Failures \union {NoCause}
  /\ up \in {"open", "closed"} /\ down \in {"open", "ok", "error"}
  /\ report \in {"none", "info", "warn"}

(* streamController's WaitGroup counts exactly the timers that can still   *)
(* run a callback: armPhase and stop give a count back only for a timer    *)
(* whose Stop succeeded, every started callback gives its own back.  A     *)
(* count too many would hang stop, one too few would panic or let a        *)
(* callback outlive the pump.                                              *)
WaitGroupBalanced ==
  wg = Held(phase # {}) + Held(totalArmed) + Cardinality(running)

AfterWait == pc \in {"deferUp", "deferDown", "end"}

(* Once stop has returned, no timer is armed and no callback is on its way *)
(* to close the upstream stream: nothing calls the host for this request   *)
(* after pumpStream gave its inFlight count back.                          *)
QuietAfterStop ==
  AfterWait => phase = {} /\ ~totalArmed /\ running = {}

(* Why the WaitGroup stays balanced: a generation names at most one timer, *)
(* 0 the total one, the current generation the armed phase timer, so that  *)
(* every expiry adds a callback that was not running, and the two stages   *)
(* of a callback are never mistaken for two callbacks; and nothing is      *)
(* armed before newStreamController or after stop.                         *)
TimersInv ==
  /\ IsFiniteSet(running)
  /\ phase = {} \/ \E c \in PhaseCauses : phase = {[gen |-> generation, cause |-> c]}
  /\ phase # {} => generation > 0 /\ \A t \in running : t.gen # generation
  /\ totalArmed => \A t \in running : t.gen # 0
  /\ \A t \in running : t.gen <= generation
  /\ \A t, u \in running : t.gen = u.gen => t = u
  /\ pc = "new" => running = {}
  /\ pc \in {"new", "wait"} \/ AfterWait => phase = {} /\ ~totalArmed

(* A read that a timeout released is reported as that timeout (or as what  *)
(* finalizing at the end of the finish grace came to), never as the end,   *)
(* the failure or the truncation of the upstream stream: fire claims its   *)
(* cause before it closes the stream, and the pump looks at the cause      *)
(* before it looks at what the read returned.                              *)
TimeoutIsNotAnEnd ==
  read.released /\ verdict # NoCause =>
    \/ verdict = cause
    \/ cause = "finish_grace" /\ verdict \in {"terminal_error", "emit_error"}

(* A stream closed without an error has delivered every converted event    *)
(* and left no tool call with half of its JSON arguments.                  *)
SuccessIsWhole ==
  report = "info" => pending = 0 /\ ~conv.argsOpen /\ ~convErr

(* A phase timer that has expired but lost the race against a later        *)
(* armPhase claims nothing, not even when both are idle timers, and no     *)
(* timer claims after stop: whatever callback goes on to claim a cause     *)
(* belongs to a timer that still stands.                                   *)
Claims(t) ==
  /\ t.at = "fired" /\ cause' = t.cause
  /\ [t EXCEPT !.at = "closing"] \in running'

ClaimIsCurrent ==
  [][cause' # cause =>
       \E t \in running :
         Claims(t) /\ [gen |-> t.gen, cause |-> t.cause] \in standing]_vars

(* Whatever the upstream and the client do, the pump returns, and without  *)
(* waiting for the total timer: armPhase keeps a timer armed at every      *)
(* read, the callback that claims releases the read, and stop's wait ends  *)
(* with the last callback.                                                 *)
Terminates == <>(pc = "end")

(* The abstract session: the pump promises the host what StreamSession     *)
(* says.  What a route takes for the completeness of the upstream answer   *)
(* is its evidence: a finish reason or a terminal event, and on the route  *)
(* that makes up a finish reason the start of any output.                  *)
Session == INSTANCE StreamSession WITH
  evidence <- conv.finish \/ conv.done \/ (policy = "synthetic" /\ conv.started),
  upstream <- up, downstream <- down

SessionSpec == Session!Spec

(* A success is never made up: README.md:204-207 and RELEASE_NOTES.md:73   *)
(* say an upstream end without finish or terminal evidence is reported as  *)
(* truncated.                                                              *)
NoInventedSuccess == down = "ok" => conv.finish \/ conv.done

(* stream-finish-grace is the "maximum wait after finish for usage/DONE"   *)
(* (README.md:148): once a finish was seen and its grace armed, the idle   *)
(* timer no longer decides.                                                *)
GraceBoundsTheWait ==
  [][sawFinish /\ cause' # cause => cause' # "idle"]_vars
=============================================================================
