----------------------------- MODULE HostCalls -----------------------------
(***************************************************************************)
(* Host callbacks and the shutdown drain (hostbridge.go, and its callers   *)
(* executeStream in executor.go, handleShutdown in plugin.go and the       *)
(* predictor engine, which shutdown stops).                                *)
(*                                                                         *)
(* Every call into the host runs on a goroutine of its own, because the    *)
(* host cannot be interrupted: the caller waits for the answer or for its  *)
(* deadline, and the orphaned goroutine outlives a caller that gave up.    *)
(* inFlight counts what may still be inside the host; shutdown waits for   *)
(* zero, with a bound, since the plugin's code is unloaded afterwards.     *)
(*                                                                         *)
(* A Start is one host.http.do_stream made by one execute_stream export,   *)
(* with a grace window after its deadline and an abandon function; a       *)
(* Bounded call has a deadline and neither of these (emit, log, http.do);  *)
(* ReadOf(s) and CloseOf(s) are the stream_read of an export and the       *)
(* stream_close on the upstream stream that s obtained: no deadline.       *)
(***************************************************************************)
EXTENDS Integers, FiniteSets

CONSTANTS
  Starts,         (* the streaming executions                              *)
  Bounded,        (* the calls with a deadline and nothing to release      *)
  EngineCalls,    (* those of them the predictor engine makes: fetches and *)
                  (* logs, up to those of its final flush                  *)
  ExportsReturn   (* TRUE: the host unloads the plugin only when no export *)
                  (* it called is still running                            *)

CloseOf(s)  == <<s, "close">>
ReadOf(s)   == <<s, "read">>
Closes      == {CloseOf(s) : s \in Starts}
Reads       == {ReadOf(s) : s \in Starts}
Invocations == Starts \union Bounded \union Closes \union Reads

ASSUME CallsAssumption ==
  /\ Starts \intersect Bounded = {}
  /\ (Closes \union Reads) \intersect (Starts \union Bounded) = {}
  /\ EngineCalls \subseteq Bounded
  /\ IsFiniteSet(Starts) /\ IsFiniteSet(Bounded)
  /\ ExportsReturn \in BOOLEAN

VARIABLES
  stage,      (* the caller, in callWithTimeoutResult                      *)
  got,        (* what the caller returned with                             *)
  worker,     (* the callback goroutine                                    *)
  done,       (* its channel, of capacity 1                                *)
  cleaner,    (* the abandon goroutine                                     *)
  drained,    (* post-work settled                                         *)
  letGo,      (* inFlight.Done performed                                   *)
  inFlight,   (* the bridge's WaitGroup                                    *)
  export,     (* the execute_stream export of a Start                      *)
  pump,       (* the goroutine executeStream spawns                        *)
  streams,    (* upstream streams registered and open at the host          *)
  engine,     (* the predictor engines: the installed one, and any whose   *)
              (* wait ran out at an earlier reconfigure                    *)
  shutdown,   (* handleShutdown                                            *)
  overran     (* history: handleShutdown went on with an engine alive      *)

stopping   == <<engine, shutdown, overran>>
invocation == <<stage, got, worker, done, cleaner, drained, letGo, inFlight>>
vars == <<invocation, export, pump, streams, stopping>>

Answers == {"stream", "nothing"}

Init ==
  /\ stage    = [i \in Invocations |-> "idle"]
  /\ got      = [i \in Invocations |-> "none"]
  /\ worker   = [i \in Invocations |-> "none"]
  /\ done     = [i \in Invocations |-> "empty"]
  /\ cleaner  = [s \in Starts |-> "none"]
  /\ drained  = [i \in Invocations |-> FALSE]
  /\ letGo    = [i \in Invocations |-> FALSE]
  /\ inFlight = 0
  /\ export   = [s \in Starts |-> "idle"]
  /\ pump     = [s \in Starts |-> "none"]
  /\ streams  = {}
  /\ engine   = "running"
  /\ shutdown = "serving"
  /\ overran  = FALSE

-----------------------------------------------------------------------------
(* callWithTimeoutResult.                                                  *)

(* Its entry: count, then spawn the callback goroutine. *)
Spawn(i) ==
  /\ stage[i] = "idle"
  /\ stage' = [stage EXCEPT ![i] = "waiting"]
  /\ worker' = [worker EXCEPT ![i] = "calling"]
  /\ inFlight' = inFlight + 1

Enter(i) == Spawn(i) /\ UNCHANGED <<got, done, cleaner, drained, letGo>>

(* Mutation of MaybeRelease: whoever comes, first or last, releases. *)
ReleaseAnyway(i, exited, settled) ==
  IF exited \/ settled
  THEN letGo' = [letGo EXCEPT ![i] = TRUE] /\ inFlight' = inFlight - 1
  ELSE UNCHANGED <<letGo, inFlight>>

(* maybeRelease, when exited and drained have the given new values. *)
MaybeRelease(i, exited, settled) ==
  IF exited /\ settled /\ ~letGo[i]
  THEN letGo' = [letGo EXCEPT ![i] = TRUE] /\ inFlight' = inFlight - 1
  ELSE UNCHANGED <<letGo, inFlight>>

Settle(i) ==
  /\ drained' = [drained EXCEPT ![i] = TRUE]
  /\ MaybeRelease(i, worker[i] = "exited", TRUE)

(* The host answers, or panics; a stream it starts is open from here on,   *)
(* whether or not anyone still waits for the answer.                       *)
HostAnswers(i) ==
  /\ worker[i] = "calling"
  /\ worker' = [worker EXCEPT ![i] = "sent"]
  /\ \E a \in IF i \in Starts THEN Answers ELSE {"nothing"} :
       /\ done' = [done EXCEPT ![i] = a]
       /\ streams' = IF a = "stream" THEN streams \union {i}
                     ELSE {s \in streams : CloseOf(s) # i}
  /\ UNCHANGED <<stage, got, cleaner, drained, letGo, inFlight, export, pump, stopping>>

WorkerExits(i) ==
  /\ worker[i] = "sent"
  /\ worker' = [worker EXCEPT ![i] = "exited"]
  /\ MaybeRelease(i, TRUE, drained[i])
  /\ UNCHANGED <<stage, got, done, cleaner, drained, export, pump, streams, stopping>>

(* The answer is taken from the channel, before the deadline or, for a     *)
(* Start, in the grace window that follows it.                             *)
Receive(i) ==
  /\ stage[i] \in {"waiting", "grace"}
  /\ done[i] # "empty"
  /\ stage' = [stage EXCEPT ![i] = "returned"]
  /\ got' = [got EXCEPT ![i] =
       IF stage[i] = "waiting" THEN done[i]
       ELSE IF done[i] = "stream" THEN "late stream" ELSE "late nothing"]
  /\ done' = [done EXCEPT ![i] = "empty"]
  /\ Settle(i)
  /\ UNCHANGED <<worker, cleaner, export, pump, streams, stopping>>

(* The deadline passes.  Go's select may prefer it to a waiting answer. *)
Expire(i) ==
  /\ stage[i] = "waiting"
  /\ \/ /\ i \in Starts
        /\ stage' = [stage EXCEPT ![i] = "grace"]
        /\ UNCHANGED <<got, drained, letGo, inFlight>>
     \/ /\ i \in Bounded
        /\ stage' = [stage EXCEPT ![i] = "returned"]
        /\ got' = [got EXCEPT ![i] = "timeout"]
        /\ Settle(i)
  /\ UNCHANGED <<worker, done, cleaner, export, pump, streams, stopping>>

(* Mutation of GraceLapses: the grace window has no timer. *)
GraceHasNoTimer(s) ==
  /\ stage[s] = "grace"
  /\ done[s] # "empty"
  /\ stage' = [stage EXCEPT ![s] = "returned"]
  /\ got' = [got EXCEPT ![s] = "timeout"]
  /\ cleaner' = [cleaner EXCEPT ![s] = "waiting"]
  /\ UNCHANGED <<worker, done, drained, letGo, inFlight, export, pump, streams, stopping>>

(* The grace window lapses: the abandon goroutine takes over the channel. *)
GraceLapses(s) ==
  /\ stage[s] = "grace"
  /\ stage' = [stage EXCEPT ![s] = "returned"]
  /\ got' = [got EXCEPT ![s] = "timeout"]
  /\ cleaner' = [cleaner EXCEPT ![s] = "waiting"]
  /\ UNCHANGED <<worker, done, drained, letGo, inFlight, export, pump, streams, stopping>>

(* Mutation of Abandon: the late answer is read and dropped. *)
AbandonDrops(s) ==
  /\ cleaner[s] = "waiting"
  /\ done[s] # "empty"
  /\ done' = [done EXCEPT ![s] = "empty"]
  /\ cleaner' = [cleaner EXCEPT ![s] = "done"]
  /\ Settle(s)
  /\ UNCHANGED <<stage, got, worker, export, pump, streams, stopping>>

(* closeLateStream on the abandon goroutine... *)
Abandon(s) ==
  /\ cleaner[s] = "waiting"
  /\ done[s] # "empty"
  /\ \/ /\ done[s] = "stream"
        /\ cleaner' = [cleaner EXCEPT ![s] = "closing"]
        /\ Spawn(CloseOf(s))
        /\ UNCHANGED <<drained, letGo>>
     \/ /\ done[s] # "stream"
        /\ cleaner' = [cleaner EXCEPT ![s] = "done"]
        /\ Settle(s)
        /\ UNCHANGED <<stage, worker>>
  /\ done' = [done EXCEPT ![s] = "empty"]
  /\ UNCHANGED <<got, export, pump, streams, stopping>>

(* ... and only when that has returned is the call settled. *)
AbandonEnds(s) ==
  /\ cleaner[s] = "closing"
  /\ stage[CloseOf(s)] = "returned"
  /\ cleaner' = [cleaner EXCEPT ![s] = "done"]
  /\ Settle(s)
  /\ UNCHANGED <<stage, got, worker, done, export, pump, streams, stopping>>

-----------------------------------------------------------------------------
(* The callers.                                                            *)

Pumping == {s \in Starts : pump[s] \in {"pumping", "closing"}}

(* execute_stream: DoStream is entered. *)
ExecuteStream(s) ==
  /\ shutdown = "serving"
  /\ export[s] = "idle"
  /\ export' = [export EXCEPT ![s] = "starting"]
  /\ Enter(s)
  /\ UNCHANGED <<pump, streams, stopping>>

(* DoStream has its result: an error envelope, an answer in the grace      *)
(* window whose stream it closes inline, or a stream.                      *)
DoStreamReturns(s) ==
  /\ export[s] = "starting"
  /\ stage[s] = "returned"
  /\ \/ /\ got[s] \in {"nothing", "timeout", "late nothing"}
        /\ export' = [export EXCEPT ![s] = "returned"]
        /\ UNCHANGED invocation
     \/ /\ got[s] = "late stream"
        /\ export' = [export EXCEPT ![s] = "closing"]
        /\ Enter(CloseOf(s))
     \/ /\ got[s] = "stream"
        /\ export' = [export EXCEPT ![s] = "started"]
        /\ UNCHANGED invocation
  /\ UNCHANGED <<pump, streams, stopping>>

(* An upstream status of 400 and more: the export reads the body...        *)
RefusedStatus(s) ==
  /\ export[s] = "started"
  /\ export' = [export EXCEPT ![s] = "reading"]
  /\ Enter(ReadOf(s))
  /\ UNCHANGED <<pump, streams, stopping>>

(* ... and, whatever it got, closes the stream itself.                     *)
RefusalRead(s) ==
  /\ export[s] = "reading"
  /\ stage[ReadOf(s)] = "returned"
  /\ export' = [export EXCEPT ![s] = "closing"]
  /\ Enter(CloseOf(s))
  /\ UNCHANGED <<pump, streams, stopping>>

ExportCloses(s) ==
  /\ export[s] = "closing"
  /\ stage[CloseOf(s)] = "returned"
  /\ export' = [export EXCEPT ![s] = "returned"]
  /\ UNCHANGED <<invocation, pump, streams, stopping>>

(* Mutation of StartPump: the pump is not counted. *)
StartPumpUncounted(s) ==
  /\ export[s] = "started"
  /\ export' = [export EXCEPT ![s] = "returned"]
  /\ pump' = [pump EXCEPT ![s] = "pumping"]
  /\ UNCHANGED <<invocation, streams, stopping>>

(* executeStream counts the pump, spawns it and returns. *)
StartPump(s) ==
  /\ export[s] = "started"
  /\ export' = [export EXCEPT ![s] = "returned"]
  /\ pump' = [pump EXCEPT ![s] = "pumping"]
  /\ inFlight' = inFlight + 1
  /\ UNCHANGED <<stage, got, worker, done, cleaner, drained, letGo, streams, stopping>>

(* The pump ends by closing its upstream stream (StreamPump says when). *)
PumpCloses(s) ==
  /\ pump[s] = "pumping"
  /\ pump' = [pump EXCEPT ![s] = "closing"]
  /\ Enter(CloseOf(s))
  /\ UNCHANGED <<export, streams, stopping>>

(* Mutation of PumpEnds: the count is not given back. *)
PumpEndsCounted(s) ==
  /\ pump[s] = "closing"
  /\ stage[CloseOf(s)] = "returned"
  /\ pump' = [pump EXCEPT ![s] = "ended"]
  /\ UNCHANGED <<invocation, export, streams, stopping>>

PumpEnds(s) ==
  /\ pump[s] = "closing"
  /\ stage[CloseOf(s)] = "returned"
  /\ pump' = [pump EXCEPT ![s] = "ended"]
  /\ inFlight' = inFlight - 1
  /\ UNCHANGED <<stage, got, worker, done, cleaner, drained, letGo, export, streams, stopping>>

ExportRunning == \E s \in Starts : export[s] \notin {"idle", "returned"}

EngineAlive == engine # "exited"

(* A call with a deadline: an engine makes its own until it has exited,    *)
(* also after it was told to stop; the others are those of exports and     *)
(* the refresh loop before shutdown, of running exports and pumps at any   *)
(* time, and the two warnings of handleShutdown, that an engine did not    *)
(* stop in time and that the drain gave up.                                *)
BoundedCall(b) ==
  /\ \/ b \in EngineCalls /\ EngineAlive
     \/ /\ b \notin EngineCalls
        /\ shutdown \in {"serving", "stopping", "gave up"} \/ ExportRunning \/ Pumping # {}
  /\ Enter(b)
  /\ UNCHANGED <<export, pump, streams, stopping>>

(* handleShutdown has joined the refresh loop and tells the engine to      *)
(* stop.  Exports may be running unless the host waits for them.           *)
StopPredictor ==
  /\ shutdown = "serving"
  /\ ExportsReturn => ~ExportRunning
  /\ shutdown' = "stopping"
  /\ engine' = IF engine = "running" THEN "stopping" ELSE engine
  /\ UNCHANGED <<invocation, export, pump, streams, overran>>

(* The engine's goroutines have returned from their calls, the last flush  *)
(* is done.  A callback of theirs that timed out may still be in the host. *)
EngineExits ==
  /\ engine = "stopping"
  /\ \A b \in EngineCalls : stage[b] # "waiting"
  /\ engine' = "exited"
  /\ UNCHANGED <<invocation, export, pump, streams, shutdown, overran>>

(* WaitStopped: the engine has exited, or predictorStopTimeout is over;    *)
(* the drain begins in either case.                                        *)
WaitStopped ==
  /\ shutdown = "stopping"
  /\ shutdown' = "draining"
  /\ overran' = EngineAlive
  /\ UNCHANGED <<invocation, export, pump, streams, engine>>

(* WaitForInFlight, which returns true at zero and false at its bound. *)
WaitForInFlight ==
  /\ shutdown = "draining"
  /\ \/ inFlight = 0 /\ shutdown' = "drained"
     \/ shutdown' = "gave up"
  /\ UNCHANGED <<invocation, export, pump, streams, engine, overran>>

(* Everything has come to rest. *)
Rest ==
  /\ shutdown \in {"drained", "gave up"}
  /\ inFlight = 0
  /\ \A s \in Starts : export[s] \in {"idle", "returned"}
  /\ UNCHANGED vars

StartStep(s) ==
  \/ GraceLapses(s) \/ Abandon(s) \/ AbandonEnds(s)
  \/ DoStreamReturns(s) \/ RefusalRead(s) \/ ExportCloses(s) \/ StartPump(s)
  \/ PumpCloses(s) \/ PumpEnds(s)

CallStep(i) == WorkerExits(i) \/ Receive(i)

Next ==
  \/ \E s \in Starts : ExecuteStream(s) \/ StartStep(s) \/ RefusedStatus(s)
  \/ \E b \in Bounded : BoundedCall(b)
  \/ \E i \in Invocations : HostAnswers(i) \/ CallStep(i) \/ Expire(i)
  \/ StopPredictor \/ EngineExits \/ WaitStopped
  \/ WaitForInFlight
  \/ Rest

Spec == Init /\ [][Next]_vars

(***************************************************************************)
(* Fairness.  The Go scheduler runs every ready goroutine and deadlines    *)
(* pass.  Whether the host ever answers a call is its own affair: that is  *)
(* assumed only by the property that says so.                              *)
(***************************************************************************)
Fairness ==
  /\ \A s \in Starts : WF_vars(StartStep(s))
  /\ \A i \in Invocations : WF_vars(CallStep(i)) /\ WF_vars(Expire(i))

FairSpec == Spec /\ Fairness

HostIsAlive == \A i \in Invocations : WF_vars(HostAnswers(i))

-----------------------------------------------------------------------------
(* Properties.                                                             *)

(* Every variable keeps its type. *)
TypeOK ==
  /\ stage \in [Invocations -> {"idle", "waiting", "grace", "returned"}]
  /\ got \in [Invocations -> Answers \union {"none", "late stream", "late nothing", "timeout"}]
  /\ worker \in [Invocations -> {"none", "calling", "sent", "exited"}]
  /\ done \in [Invocations -> Answers \union {"empty"}]
  /\ cleaner \in [Starts -> {"none", "waiting", "closing", "done"}]
  /\ drained \in [Invocations -> BOOLEAN]
  /\ letGo \in [Invocations -> BOOLEAN]
  /\ inFlight \in Nat
  /\ export \in [Starts -> {"idle", "starting", "started", "reading", "closing", "returned"}]
  /\ pump \in [Starts -> {"none", "pumping", "closing", "ended"}]
  /\ streams \subseteq Starts
  /\ engine \in {"running", "stopping", "exited"}
  /\ shutdown \in {"serving", "stopping", "draining", "drained", "gave up"}
  /\ overran \in BOOLEAN

Counted == {i \in Invocations : stage[i] # "idle" /\ ~letGo[i]}

(* A count is given back only when its callback goroutine has left the     *)
(* host and the abandon goroutine has closed whatever stream came late.    *)
ReleasedIsSettled ==
  \A s \in Starts : letGo[s] =>
    /\ worker[s] = "exited" /\ done[s] = "empty"
    /\ cleaner[s] \in {"none", "done"}
    /\ cleaner[s] = "done" => s \notin streams

(* inFlight is the number of calls not fully completed and of pumps still  *)
(* running: every Add has its one Done, on whichever of the two goroutines *)
(* of the call finishes last (maybeRelease's exited, drained and letGo),   *)
(* and not before.                                                         *)
InFlightBalanced ==
  /\ inFlight = Cardinality(Counted) + Cardinality(Pumping)
  /\ ReleasedIsSettled

(* When WaitForInFlight has reported the bridge idle, no goroutine of the  *)
(* plugin is inside the host, then or later: this is what makes it safe    *)
(* to unload the plugin (hostbridge.go:268-273).  One exemption is what    *)
(* the code allows itself: shutdown goes on after predictorStopTimeout,    *)
(* and an engine that was then still alive can log or fetch after the      *)
(* drain.  Nothing else can.                                               *)
DrainedIsQuiet ==
  shutdown = "drained" =>
    /\ Pumping = {}
    /\ \A i \in Invocations :
         worker[i] \in {"calling", "sent"} => overran /\ i \in EngineCalls

(* Every upstream stream the host registered is closed, however late its   *)
(* start was answered, provided the host answers at all.                   *)
NoStreamLeaks ==
  HostIsAlive => \A s \in Starts : s \in streams ~> s \notin streams

(* A caller with a deadline returns whether or not the host ever answers.  *)
DeadlinesHold ==
  \A i \in Starts \union Bounded : stage[i] = "waiting" ~> stage[i] = "returned"

=============================================================================
