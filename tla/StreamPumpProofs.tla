-------------------------- MODULE StreamPumpProofs --------------------------
(***************************************************************************)
(* For every byte limit, every set of chunk sizes and every converter      *)
(* policy: the pump is type correct, the controller's WaitGroup counts     *)
(* exactly the timers that can still call the host, and none is left when  *)
(* stop has returned (Counted); then which timer may claim a cause, what a *)
(* released read is reported as, what a success has delivered, and that    *)
(* the pump with its controller implements StreamSession (IInv).           *)
(***************************************************************************)
EXTENDS StreamPump, FiniteSetTheorems, TLAPS

(* The type invariant in the parts the proofs handle one at a time: sets,  *)
(* numbers, flags, names and history of the controller, then of the pump.  *)
TimerSets   == phase \subseteq [gen : Nat, cause : PhaseCauses] /\ running \subseteq Running
TimerCounts == generation \in Nat /\ wg \in Int
TimerFlags  == active \in BOOLEAN /\ totalArmed \in BOOLEAN
TimerNames  == cause \in TimerCauses \union {NoCause} /\ standing \subseteq Timers

ControllerType == TimerSets /\ TimerCounts /\ TimerFlags /\ TimerNames

PumpData ==
  /\ read \in ReadResults(Nat, BOOLEAN)
  /\ total \in Nat /\ left \in Nat
  /\ conv \in Conv
  /\ pending \in Nat

PumpFlags ==
  grew \in BOOLEAN /\ sawFinish \in BOOLEAN /\ convErr \in BOOLEAN /\ once \in BOOLEAN

PumpNames ==
  /\ pc \in PumpLocations
  /\ policy \in AllPolicies
  /\ after \in {"loop", "grace", "flush"}
  /\ verdict \in Successes \union Failures \union {NoCause}
  /\ up \in {"open", "closed"} /\ down \in {"open", "ok", "error"}
  /\ report \in {"none", "info", "warn"}

LEMMA TypeParts == TypeOK <=> ControllerType /\ PumpData /\ PumpFlags /\ PumpNames
  BY DEF TypeOK, ControllerType, TimerSets, TimerCounts, TimerFlags, TimerNames,
     PumpData, PumpFlags, PumpNames

LEMMA InitTypeOK == Init => TypeOK
  <1> SUFFICES ASSUME Init PROVE TypeOK
    OBVIOUS
  <1>1. TimerSets
    BY Zenon DEF Init, TimerSets
  <1>2. TimerCounts
    BY DEF Init, TimerCounts
  <1>3. TimerFlags
    BY DEF Init, TimerFlags
  <1>4. TimerNames
    BY DEF Init, TimerNames
  <1>5. PumpData
    BY DEF Init, PumpData, Conv, ReadResults
  <1>6. PumpFlags
    BY DEF Init, PumpFlags
  <1>7. PumpNames
    BY PumpAssumption DEF PumpAssumption, Init, PumpNames, PumpLocations
  <1> QED
    BY <1>1, <1>2, <1>3, <1>4, <1>5, <1>6, <1>7, TypeParts DEF ControllerType

(* Every step of the controller, whoever takes it, keeps its types. *)
LEMMA ControllerStepType ==
  ASSUME ControllerType,
         \/ ArmTotal
         \/ \E c \in PhaseCauses : ArmPhase(c)
         \/ StopTimers
         \/ PhaseExpires
         \/ TotalExpires
         \/ CallbackStep
         \/ UNCHANGED controller
  PROVE  ControllerType'
  <1>1. CASE ArmTotal
    <2>1. TimerSets'
      BY <1>1 DEF ControllerType, ArmTotal, TimerSets
    <2>2. TimerCounts'
      BY <1>1 DEF ControllerType, ArmTotal, TimerCounts
    <2>3. TimerFlags'
      BY <1>1 DEF ControllerType, ArmTotal, TimerFlags
    <2>4. [gen |-> 0, cause |-> "total"] \in Timers
      BY DEF Timers, TimerCauses
    <2>5. TimerNames'
      BY <1>1, <2>4, Zenon DEF ControllerType, ArmTotal, TimerNames
    <2> QED
      BY <2>1, <2>2, <2>3, <2>5 DEF ControllerType
  <1>2. ASSUME NEW c \in PhaseCauses, ArmPhase(c) PROVE ControllerType'
    <2>1. [gen |-> generation + 1, cause |-> c] \in [gen : Nat, cause : PhaseCauses]
      BY DEF ControllerType, TimerCounts
    <2>2. TimerSets'
      BY <1>2, <2>1, Zenon DEF ControllerType, ArmPhase, TimerSets
    <2>3. TimerCounts'
      BY <1>2 DEF ControllerType, ArmPhase, TimerCounts, Held
    <2>4. TimerFlags'
      BY <1>2 DEF ControllerType, ArmPhase, TimerFlags
    <2>5. [gen |-> generation + 1, cause |-> c] \in Timers
      BY DEF ControllerType, TimerCounts, Timers, TimerCauses
    <2>6. TimerNames'
      BY <1>2, <2>5, Zenon DEF ControllerType, ArmPhase, Superseded, TimerNames
    <2> QED
      BY <2>2, <2>3, <2>4, <2>6 DEF ControllerType
  <1>3. CASE StopTimers
    <2>1. TimerSets'
      BY <1>3, Zenon DEF ControllerType, StopTimers, TimerSets
    <2>2. TimerCounts'
      BY <1>3 DEF ControllerType, StopTimers, TimerCounts, Held
    <2>3. TimerFlags'
      BY <1>3 DEF StopTimers, TimerFlags
    <2>4. TimerNames'
      BY <1>3, Zenon DEF ControllerType, StopTimers, TimerNames
    <2> QED
      BY <2>1, <2>2, <2>3, <2>4 DEF ControllerType
  <1>4. CASE PhaseExpires
    <2>1. PICK t \in phase :
            running' = running \union {[gen |-> t.gen, cause |-> t.cause, at |-> "fired"]}
      BY <1>4 DEF PhaseExpires
    <2>2. [gen |-> t.gen, cause |-> t.cause, at |-> "fired"] \in Running
      BY DEF ControllerType, Running, TimerCauses, TimerSets
    <2>3. TimerSets'
      BY <1>4, <2>1, <2>2, Zenon DEF ControllerType, PhaseExpires, TimerSets
    <2>4. TimerCounts' /\ TimerFlags' /\ TimerNames'
      BY <1>4 DEF ControllerType, PhaseExpires, TimerCounts, TimerFlags, TimerNames
    <2> QED
      BY <2>3, <2>4 DEF ControllerType
  <1>5. CASE TotalExpires
    <2>1. [gen |-> 0, cause |-> "total", at |-> "fired"] \in Running
      BY DEF Running, TimerCauses
    <2>2. TimerSets'
      BY <1>5, <2>1, Zenon DEF ControllerType, TotalExpires, TimerSets
    <2>3. TimerCounts' /\ TimerFlags' /\ TimerNames'
      BY <1>5 DEF ControllerType, TotalExpires, TimerCounts, TimerFlags, TimerNames
    <2> QED
      BY <2>2, <2>3 DEF ControllerType
  <1>6. CASE CallbackStep
    <2>1. PICK t \in running : Fire(t) \/ FireCloses(t)
      BY <1>6 DEF CallbackStep
    <2>2. [t EXCEPT !.at = "closing"] \in Running /\ t.cause \in TimerCauses
      BY DEF ControllerType, Running, TimerSets
    <2>3. CASE Fire(t)
      <3>1. TimerSets'
        BY <2>2, <2>3, Zenon DEF ControllerType, Fire, TimerSets
      <3>2. wg' = wg \/ wg' = wg - 1
        BY <2>3, Zenon DEF Fire
      <3>3. TimerCounts'
        BY <2>3, <3>2 DEF ControllerType, Fire, TimerCounts
      <3>4. TimerFlags'
        BY <2>3, Zenon DEF ControllerType, Fire, TimerFlags
      <3>5. TimerNames'
        BY <2>2, <2>3, Zenon DEF ControllerType, Fire, TimerNames
      <3> QED
        BY <3>1, <3>3, <3>4, <3>5 DEF ControllerType
    <2>4. CASE FireCloses(t)
      <3>1. TimerSets'
        BY <2>4, Zenon DEF ControllerType, FireCloses, TimerSets
      <3>2. TimerCounts' /\ TimerFlags' /\ TimerNames'
        BY <2>4 DEF ControllerType, FireCloses, TimerCounts, TimerFlags, TimerNames
      <3> QED
        BY <3>1, <3>2 DEF ControllerType
    <2> QED
      BY <2>1, <2>3, <2>4
  <1>7. CASE UNCHANGED controller
    BY <1>7 DEF ControllerType, controller, TimerSets, TimerCounts, TimerFlags, TimerNames
  <1> QED
    BY <1>1, <1>2, <1>3, <1>4, <1>5, <1>6, <1>7

(* What each step of the specification does to the controller. *)
LEMMA ControllerSteps ==
  ASSUME [Next]_vars
  PROVE  \/ pc = "new" /\ pc' = "first" /\ ArmTotal
         \/ pc \in {"first", "progress", "grace"} /\ pc' \in {"read", "grace", "fed"}
            /\ \E c \in PhaseCauses : ArmPhase(c)
         \/ pc = "stop" /\ pc' = "wait" /\ StopTimers
         \/ pc' = pc /\ (PhaseExpires \/ TotalExpires \/ CallbackStep)
         \/ pc = "wait" /\ wg = 0 /\ pc' \in {"deferUp", "end"} /\ UNCHANGED controller
         \/ pc \notin {"new", "wait"} /\ UNCHANGED controller
            /\ pc' \notin {"new", "wait"}
            /\ (pc' \in {"deferUp", "deferDown", "end"} => pc \in {"deferUp", "deferDown", "end"})
         \/ pc' = pc /\ UNCHANGED controller
  <1>1. CASE PumpStep
    BY <1>1 DEF PumpStep, NewController, FirstData, CheckTimeout, CheckGrace, CheckRead,
       ReadOutcome, FeedReturns, Progress, FinishGrace, Fed, Emit, EmittedChunk, EmittedLast,
       Flush, CloseUp, CloseDown, Log, Stop, Wait, DeferredCloseUp, DeferredCloseDown,
       Goto, Fail, Finish, outcome, PhaseCauses
  <1>2. CASE ReadReturns
    BY <1>2 DEF ReadReturns, Goto
  <1>3. CASE \E f \in Frames(policy) : FeedFrame(f)
    BY <1>3 DEF FeedFrame
  <1>4. CASE PhaseExpires
    BY <1>4 DEF PhaseExpires
  <1>5. CASE TotalExpires
    BY <1>5 DEF TotalExpires
  <1>6. CASE CallbackStep
    BY <1>6 DEF CallbackStep, Fire, FireCloses
  <1>7. CASE Ended \/ UNCHANGED vars
    BY <1>7 DEF Ended, vars, controller
  <1> QED
    BY <1>1, <1>2, <1>3, <1>4, <1>5, <1>6, <1>7 DEF Next

(* What each step does to the pump's own variables keeps their types. *)
LEMMA PumpStepFlags ==
  ASSUME PumpFlags, PumpStep
  PROVE  PumpFlags'
  BY DEF PumpFlags, PumpStep, NewController, FirstData, CheckTimeout, CheckGrace, CheckRead,
     ReadOutcome, FeedReturns, Progress, FinishGrace, Fed, Emit, EmittedChunk, EmittedLast,
     Flush, CloseUp, CloseDown, Log, Stop, Wait, DeferredCloseUp, DeferredCloseDown,
     Goto, Fail, Finish, outcome, feeding

LEMMA PumpStepNames ==
  ASSUME PumpNames, PumpData, PumpStep
  PROVE  PumpNames'
  <1> USE DEF PumpNames, PumpLocations
  <1>1. CASE NewController \/ FirstData \/ Progress \/ FinishGrace \/ Stop \/ Wait
    BY <1>1 DEF NewController, FirstData, Progress, FinishGrace, Stop, Wait, Goto, outcome
  <1>2. CASE CheckTimeout \/ Fed \/ Emit
    BY <1>2 DEF CheckTimeout, Fed, Emit, Fail, outcome, Failures
  <1>3. CASE CheckGrace \/ Flush
    BY <1>3 DEF CheckGrace, Flush, Fail, outcome, Failures
  <1>4. CASE CheckRead
    <2>1. read.failure = "none" \/ read.failure \in Failures
      BY DEF PumpData, ReadResults, Failures
    <2>2. /\ pc' = "closeUp" \/ pc' = "feed"
          /\ verdict' = verdict \/ verdict' = "max_bytes" \/ verdict' \in Failures
          /\ UNCHANGED <<policy, after, up, down, report>>
      BY <1>4, <2>1, Zenon DEF CheckRead, ReadOutcome, Fail, outcome
    <2> QED
      BY <2>2 DEF Failures
  <1>5. CASE FeedReturns \/ EmittedChunk \/ EmittedLast
    BY <1>5 DEF FeedReturns, EmittedChunk, EmittedLast, Finish, outcome, Successes
  <1>6. CASE CloseUp \/ CloseDown \/ Log \/ DeferredCloseUp \/ DeferredCloseDown
    BY <1>6 DEF CloseUp, CloseDown, Log, DeferredCloseUp, DeferredCloseDown, Goto
  <1> QED
    BY <1>1, <1>2, <1>3, <1>4, <1>5, <1>6 DEF PumpStep

LEMMA PumpStepData ==
  ASSUME PumpData, PumpStep
  PROVE  PumpData'
  <1> USE DEF PumpData, feeding
  <1>1. CASE NewController \/ FirstData \/ Progress \/ FinishGrace \/ Stop \/ Wait
    BY <1>1 DEF NewController, FirstData, Progress, FinishGrace, Stop, Wait
  <1>2. CASE CheckTimeout \/ Fed \/ FeedReturns \/ EmittedChunk \/ EmittedLast
    BY <1>2 DEF CheckTimeout, Fed, FeedReturns, EmittedChunk, EmittedLast
  <1>3. CASE CheckGrace \/ Flush
    <2>1. [conv EXCEPT !.sent = TRUE] \in Conv
      BY DEF Conv
    <2>2. conv' \in Conv /\ read' = read /\ total' = total /\ left' = left
      BY <1>3, <2>1, Zenon DEF CheckGrace, Flush
    <2>3. pending' = pending \/ pending' \in 0..MaxEvents
      BY <1>3, Zenon DEF CheckGrace, Flush
    <2> QED
      BY <2>2, <2>3, PumpAssumption DEF PumpAssumption
  <1>4. CASE CheckRead
    <2>1. CASE read \in [size : Nat, closed : BOOLEAN, failure : {"none"}, released : BOOLEAN]
      BY <1>4, <2>1 DEF CheckRead, ReadOutcome
    <2>2. CASE read \in [size : {0}, closed : {FALSE},
                         failure : {"read_error", "upstream_error"}, released : BOOLEAN]
      BY <1>4, <2>2 DEF CheckRead, ReadOutcome
    <2> QED
      BY <2>1, <2>2 DEF ReadResults
  <1>5. CASE Emit
    BY <1>5 DEF Emit
  <1>6. CASE CloseUp \/ CloseDown \/ Log \/ DeferredCloseUp \/ DeferredCloseDown
    BY <1>6 DEF CloseUp, CloseDown, Log, DeferredCloseUp, DeferredCloseDown
  <1> QED
    BY <1>1, <1>2, <1>3, <1>4, <1>5, <1>6 DEF PumpStep

LEMMA FeedType ==
  ASSUME PumpData, PumpFlags, PumpNames, \E f \in Frames(policy) : FeedFrame(f)
  PROVE  PumpData' /\ PumpFlags' /\ PumpNames'
  <1>1. PICK f \in Frames(policy) : FeedFrame(f)
    OBVIOUS
  <1>2. PumpNames'
    BY <1>1 DEF FeedFrame, outcome, PumpNames
  <1>3. PumpFlags'
    BY <1>1 DEF FeedFrame, outcome, PumpFlags, Progresses
  <1>4. AfterFrame(policy, conv, f) \in Conv
    BY DEF AfterFrame, Conv, PumpData
  <1>5. PICK n \in Nat : pending' = pending \/ pending' = pending + n
    BY <1>1, PumpAssumption DEF PumpAssumption, FeedFrame
  <1>6. conv' \in Conv /\ left' \in Nat /\ UNCHANGED <<read, total>>
    BY <1>1, <1>4 DEF FeedFrame, PumpData
  <1> QED
    BY <1>2, <1>3, <1>5, <1>6 DEF PumpData

LEMMA NextPumpType ==
  ASSUME PumpData, PumpFlags, PumpNames, [Next]_vars
  PROVE  PumpData' /\ PumpFlags' /\ PumpNames'
  <1>1. CASE ReadReturns
    <2>1. PICK r \in ReadResults(ChunkSizes, {up = "closed"}) : read' = r
      BY <1>1 DEF ReadReturns
    <2>2. r \in ReadResults(Nat, BOOLEAN)
      BY PumpAssumption DEF PumpAssumption, ReadResults
    <2>3. PumpData'
      BY <1>1, <2>1, <2>2 DEF ReadReturns, feeding, PumpData
    <2>4. PumpFlags'
      BY <1>1 DEF ReadReturns, feeding, outcome, PumpFlags
    <2>5. PumpNames'
      BY <1>1 DEF ReadReturns, Goto, outcome, PumpNames, PumpLocations
    <2> QED
      BY <2>3, <2>4, <2>5
  <1>2. CASE PhaseExpires \/ TotalExpires \/ Ended \/ UNCHANGED vars
    <2>1. UNCHANGED <<pc, policy, read, total, feeding, pending, after, outcome>>
      BY <1>2 DEF PhaseExpires, TotalExpires, Ended, vars
    <2> QED
      BY <2>1 DEF feeding, outcome, PumpData, PumpFlags, PumpNames
  <1>3. CASE CallbackStep
    <2>1. /\ UNCHANGED <<pc, policy, read, total, feeding, pending, after, once, verdict, down, report>>
          /\ up' = up \/ up' = "closed"
      BY <1>3, Zenon DEF CallbackStep, Fire, FireCloses, outcome
    <2> QED
      BY <2>1 DEF feeding, PumpData, PumpFlags, PumpNames
  <1> QED
    BY <1>1, <1>2, <1>3, PumpStepFlags, PumpStepNames, PumpStepData, FeedType DEF Next

(* Every variable of the pump and of its controller (stream_controller.go, *)
(* pumpStream) keeps its type, for every instance.                         *)
THEOREM TypeCorrect == Spec => []TypeOK
  <1>1. TypeOK /\ [Next]_vars => TypeOK'
    <2> SUFFICES ASSUME TypeOK, [Next]_vars PROVE TypeOK'
      OBVIOUS
    <2>1. ControllerType /\ PumpData /\ PumpFlags /\ PumpNames
      BY TypeParts
    <2>2. ControllerType'
      BY <2>1, ControllerSteps, ControllerStepType
    <2>3. PumpData' /\ PumpFlags' /\ PumpNames'
      BY <2>1, NextPumpType
    <2> QED
      BY <2>2, <2>3 DEF TypeOK, ControllerType, TimerSets, TimerCounts, TimerFlags, TimerNames,
         PumpData, PumpFlags, PumpNames
  <1> QED
    BY <1>1, InitTypeOK, PTL DEF Spec
-----------------------------------------------------------------------------
(* The WaitGroup.  The counting argument: TimersInv makes every expiry add *)
(* a new member to running, so that wg and the cardinality move together.  *)

Counted == TypeOK /\ TimersInv /\ WaitGroupBalanced /\ QuietAfterStop

LEMMA InitCounted == Init => Counted
  <1> SUFFICES ASSUME Init PROVE Counted
    OBVIOUS
  <1>1. IsFiniteSet(running) /\ Cardinality(running) = 0
    BY FS_EmptySet DEF Init
  <1>2. TimersInv
    BY <1>1 DEF Init, TimersInv, AfterWait
  <1>3. WaitGroupBalanced
    BY <1>1 DEF Init, WaitGroupBalanced, Held
  <1>4. QuietAfterStop
    BY DEF Init, QuietAfterStop, AfterWait
  <1> QED
    BY <1>2, <1>3, <1>4, InitTypeOK DEF Counted

LEMMA ArmTotalCounted ==
  ASSUME Counted, pc = "new", pc' = "first", ArmTotal
  PROVE  TimersInv' /\ WaitGroupBalanced' /\ QuietAfterStop'
  <1>1. phase = {} /\ ~totalArmed /\ running = {}
    BY DEF Counted, TimersInv
  <1>2. IsFiniteSet(running) /\ Cardinality(running) = 0
    BY <1>1, FS_EmptySet
  <1>3. wg = 0
    BY <1>1, <1>2 DEF Counted, WaitGroupBalanced, Held
  <1>4. phase' = {} /\ totalArmed' = TRUE /\ running' = {} /\ wg' = 1
    BY <1>1, <1>3 DEF ArmTotal
  <1> QED
    BY <1>1, <1>2, <1>4 DEF TimersInv, WaitGroupBalanced, QuietAfterStop, Held, AfterWait

LEMMA ArmPhaseCounted ==
  ASSUME Counted, pc \in {"first", "progress", "grace"}, pc' \in {"read", "grace", "fed"},
         NEW c \in PhaseCauses, ArmPhase(c)
  PROVE  TimersInv' /\ WaitGroupBalanced' /\ QuietAfterStop'
  <1> DEFINE new == [gen |-> generation + 1, cause |-> c]
  <1>1. /\ generation' = generation + 1 /\ generation \in Nat
        /\ phase' = {new} /\ phase' # {}
        /\ UNCHANGED <<totalArmed, running>>
    BY DEF Counted, TypeOK, ArmPhase
  <1>2. \A t \in running : t.gen \in Nat /\ t.gen <= generation
    BY DEF Counted, TimersInv, TypeOK, Running
  <1>3. phase' = {[gen |-> generation', cause |-> c]}
    BY <1>1
  <1>4. \A t \in running' : t.gen # generation' /\ t.gen <= generation'
    BY <1>1, <1>2
  <1>5. TimersInv'
    BY <1>1, <1>3, <1>4 DEF Counted, TimersInv, AfterWait
  <1>6. wg' = wg - Held(phase # {}) + 1
    BY DEF ArmPhase
  <1>7. Cardinality(running) \in Nat
    BY FS_CardinalityType DEF Counted, TimersInv
  <1>8. WaitGroupBalanced'
    BY <1>1, <1>6, <1>7 DEF Counted, WaitGroupBalanced, Held
  <1>9. QuietAfterStop'
    BY DEF QuietAfterStop, AfterWait
  <1> QED
    BY <1>5, <1>8, <1>9

LEMMA StopTimersCounted ==
  ASSUME Counted, pc = "stop", pc' = "wait", StopTimers
  PROVE  TimersInv' /\ WaitGroupBalanced' /\ QuietAfterStop'
  <1>1. /\ phase' = {} /\ ~totalArmed' /\ running' = running
        /\ generation' = generation + 1 /\ generation \in Nat
        /\ wg' = wg - Held(phase # {}) - Held(totalArmed)
    BY DEF Counted, TypeOK, StopTimers
  <1>2. \A t \in running : t.gen \in Nat /\ t.gen <= generation
    BY DEF Counted, TimersInv, TypeOK, Running
  <1>3. TimersInv'
    BY <1>1, <1>2 DEF Counted, TimersInv
  <1>4. Cardinality(running) \in Nat
    BY FS_CardinalityType DEF Counted, TimersInv
  <1>5. WaitGroupBalanced'
    BY <1>1, <1>4 DEF Counted, WaitGroupBalanced, Held
  <1>6. QuietAfterStop'
    BY DEF QuietAfterStop, AfterWait
  <1> QED
    BY <1>3, <1>5, <1>6

(* A timer of a generation of its own expires. *)
LEMMA ExpiryCounted ==
  ASSUME IsFiniteSet(running), NEW t, t \notin running, running' = running \union {t}
  PROVE  IsFiniteSet(running') /\ Cardinality(running') = Cardinality(running) + 1
         /\ Cardinality(running) \in Nat
  BY FS_AddElement, FS_CardinalityType

LEMMA PhaseExpiresCounted ==
  ASSUME Counted, PhaseExpires
  PROVE  TimersInv' /\ WaitGroupBalanced' /\ QuietAfterStop'
  <1>1. PICK t \in phase :
          running' = running \union {[gen |-> t.gen, cause |-> t.cause, at |-> "fired"]}
    BY DEF PhaseExpires
  <1> DEFINE new == [gen |-> t.gen, cause |-> t.cause, at |-> "fired"]
  <1>2. /\ phase # {} /\ generation \in Nat /\ generation > 0
        /\ pc \notin {"new", "wait"} /\ ~AfterWait
        /\ \E c \in PhaseCauses : t = [gen |-> generation, cause |-> c]
    BY DEF Counted, TypeOK, TimersInv
  <1>3. new.gen = generation
    BY <1>2
  <1>4. \A u \in running : u.gen # new.gen /\ u.gen <= generation
    BY <1>2, <1>3 DEF Counted, TimersInv
  <1>5. new \notin running
    BY <1>4
  <1>6. /\ running' = running \union {new} /\ phase' = {}
        /\ UNCHANGED <<generation, totalArmed, wg, pc>>
    BY <1>1 DEF PhaseExpires
  <1> HIDE DEF new
  <1>7. /\ IsFiniteSet(running') /\ Cardinality(running') = Cardinality(running) + 1
        /\ Cardinality(running) \in Nat
    BY <1>5, <1>6, ExpiryCounted DEF Counted, TimersInv
  <1>8. \A u, v \in running' : u.gen = v.gen => u = v
    BY <1>4, <1>6 DEF Counted, TimersInv
  <1>9. \A u \in running' : u.gen <= generation' /\ (totalArmed' => u.gen # 0)
    BY <1>2, <1>3, <1>4, <1>6 DEF Counted, TimersInv
  <1>10. TimersInv'
    BY <1>2, <1>6, <1>7, <1>8, <1>9 DEF TimersInv, AfterWait
  <1>11. WaitGroupBalanced'
    BY <1>2, <1>6, <1>7 DEF Counted, WaitGroupBalanced, Held
  <1>12. QuietAfterStop'
    BY <1>2, <1>6 DEF QuietAfterStop, AfterWait
  <1> QED
    BY <1>10, <1>11, <1>12

LEMMA TotalExpiresCounted ==
  ASSUME Counted, TotalExpires
  PROVE  TimersInv' /\ WaitGroupBalanced' /\ QuietAfterStop'
  <1> DEFINE new == [gen |-> 0, cause |-> "total", at |-> "fired"]
  <1>1. /\ totalArmed /\ ~totalArmed' /\ running' = running \union {new}
        /\ UNCHANGED <<generation, phase, wg, pc>>
        /\ generation \in Nat
        /\ pc \notin {"new", "wait"} /\ ~AfterWait
    BY DEF TotalExpires, Counted, TypeOK, TimersInv
  <1>2. new.gen = 0
    OBVIOUS
  <1>3. \A u \in running : u.gen # new.gen /\ u.gen <= generation
    BY <1>1, <1>2 DEF Counted, TimersInv
  <1>4. new \notin running
    BY <1>3
  <1> HIDE DEF new
  <1>5. /\ IsFiniteSet(running') /\ Cardinality(running') = Cardinality(running) + 1
        /\ Cardinality(running) \in Nat
    BY <1>1, <1>4, ExpiryCounted DEF Counted, TimersInv
  <1>6. \A u, v \in running' : u.gen = v.gen => u = v
    BY <1>1, <1>3 DEF Counted, TimersInv
  <1>7. \A u \in running' : u.gen <= generation'
    BY <1>1, <1>2, <1>3
  <1>8. phase' # {} => generation' > 0 /\ \A u \in running' : u.gen # generation'
    BY <1>1, <1>2, <1>3 DEF Counted, TimersInv
  <1>9. TimersInv'
    BY <1>1, <1>5, <1>6, <1>7, <1>8 DEF Counted, TimersInv, AfterWait
  <1>10. WaitGroupBalanced'
    BY <1>1, <1>5 DEF Counted, WaitGroupBalanced, Held
  <1>11. QuietAfterStop'
    BY <1>1 DEF QuietAfterStop, AfterWait
  <1> QED
    BY <1>9, <1>10, <1>11

(* A callback that leaves running gives its count back; one that goes from *)
(* fire's lock to StreamClose keeps it.                                    *)
LEMMA CallbackCounted ==
  ASSUME Counted, CallbackStep, pc' = pc
  PROVE  TimersInv' /\ WaitGroupBalanced' /\ QuietAfterStop'
  <1>1. PICK t \in running : Fire(t) \/ FireCloses(t)
    BY DEF CallbackStep
  <1> DEFINE next == [t EXCEPT !.at = "closing"]
  <1>2. UNCHANGED <<generation, phase, totalArmed, pc>>
    BY <1>1 DEF Fire, FireCloses
  <1>3. /\ IsFiniteSet(running) /\ Cardinality(running) \in Nat
        /\ IsFiniteSet(running \ {t}) /\ Cardinality(running \ {t}) = Cardinality(running) - 1
    BY FS_RemoveElement, FS_CardinalityType DEF Counted, TimersInv
  <1>4. CASE running' = running \ {t} /\ wg' = wg - 1
    <2>1. TimersInv'
      BY <1>2, <1>3, <1>4 DEF Counted, TimersInv, AfterWait
    <2>2. WaitGroupBalanced'
      BY <1>2, <1>3, <1>4 DEF Counted, WaitGroupBalanced, Held
    <2>3. QuietAfterStop'
      BY <1>2, <1>4 DEF Counted, QuietAfterStop, AfterWait
    <2> QED
      BY <2>1, <2>2, <2>3
  <1>5. CASE running' = (running \ {t}) \union {next} /\ wg' = wg
    <2>1. next.gen = t.gen
      BY DEF Counted, TypeOK, Running
    <2> HIDE DEF next
    <2>2. next \notin running \ {t}
      BY <2>1 DEF Counted, TimersInv
    <2>3. /\ IsFiniteSet(running')
          /\ Cardinality(running') = Cardinality(running)
      BY <1>3, <1>5, <2>2, FS_AddElement
    <2>4. \A u \in running' : \E v \in running : u.gen = v.gen
      BY <1>5, <2>1
    <2>5. \A u, v \in running' : u.gen = v.gen => u = v
      <3>1. \A u, v \in running : u.gen = v.gen => u = v
        BY DEF Counted, TimersInv
      <3>2. \A u \in running' : u = next \/ (u \in running /\ u.gen # next.gen)
        BY <1>5, <2>1, <3>1
      <3> QED
        BY <1>5, <3>1, <3>2
    <2>6. TimersInv'
      BY <1>1, <1>2, <2>3, <2>4, <2>5 DEF Counted, TimersInv, AfterWait
    <2>7. WaitGroupBalanced'
      BY <1>2, <1>5, <2>3 DEF Counted, WaitGroupBalanced
    <2>8. QuietAfterStop'
      BY <1>1, <1>2 DEF Counted, QuietAfterStop, AfterWait
    <2> QED
      BY <2>6, <2>7, <2>8
  <1> QED
    BY <1>1, <1>4, <1>5, Zenon DEF Fire, FireCloses

(* stop's wait returns only at zero, and then nothing is left. *)
LEMMA WaitCounted ==
  ASSUME Counted, pc = "wait", wg = 0, UNCHANGED controller
  PROVE  phase' = {} /\ ~totalArmed' /\ running' = {}
  <1>1. phase = {} /\ ~totalArmed
    BY DEF Counted, TimersInv
  <1>2. Cardinality(running) = 0 /\ IsFiniteSet(running)
    BY <1>1, FS_CardinalityType DEF Counted, WaitGroupBalanced, Held, TimersInv
  <1>3. running = {}
    BY <1>2, FS_EmptySet
  <1> QED
    BY <1>1, <1>3 DEF controller

LEMMA NextCounted == Counted /\ TypeOK' /\ [Next]_vars => Counted'
  <1> SUFFICES ASSUME Counted, TypeOK', [Next]_vars
               PROVE  TimersInv' /\ WaitGroupBalanced' /\ QuietAfterStop'
    BY DEF Counted
  <1>1. CASE pc = "new" /\ pc' = "first" /\ ArmTotal
    BY <1>1, ArmTotalCounted
  <1>2. CASE pc \in {"first", "progress", "grace"} /\ pc' \in {"read", "grace", "fed"}
             /\ \E c \in PhaseCauses : ArmPhase(c)
    BY <1>2, ArmPhaseCounted
  <1>3. CASE pc = "stop" /\ pc' = "wait" /\ StopTimers
    BY <1>3, StopTimersCounted
  <1>4. CASE pc' = pc /\ (PhaseExpires \/ TotalExpires \/ CallbackStep)
    BY <1>4, PhaseExpiresCounted, TotalExpiresCounted, CallbackCounted
  <1>5. CASE pc = "wait" /\ wg = 0 /\ pc' \in {"deferUp", "end"} /\ UNCHANGED controller
    BY <1>5, WaitCounted
       DEF Counted, controller, TimersInv, WaitGroupBalanced, QuietAfterStop, AfterWait
  <1>6. CASE /\ UNCHANGED controller /\ pc \notin {"new", "wait"} /\ pc' \notin {"new", "wait"}
             /\ pc' \in {"deferUp", "deferDown", "end"} => pc \in {"deferUp", "deferDown", "end"}
    BY <1>6 DEF Counted, controller, TimersInv, WaitGroupBalanced, QuietAfterStop, AfterWait
  <1>7. CASE pc' = pc /\ UNCHANGED controller
    BY <1>7 DEF Counted, controller, TimersInv, WaitGroupBalanced, QuietAfterStop, AfterWait
  <1> QED
    BY <1>1, <1>2, <1>3, <1>4, <1>5, <1>6, <1>7, ControllerSteps

LEMMA SpecCounted == Spec => []Counted
  BY TypeCorrect, InitCounted, NextCounted, PTL DEF Spec

(* The WaitGroup's counter is the number of timers that can still run a    *)
(* callback, so that armPhase's and stop's Done are neither too many (a    *)
(* panic) nor too few (stop would wait for ever).                          *)
THEOREM WaitGroupAlwaysBalanced == Spec => []WaitGroupBalanced
  BY SpecCounted, PTL DEF Counted

(* When stop has returned no timer is armed and no callback runs: nothing  *)
(* calls the host for this request after pumpStream.                       *)
THEOREM StopIsQuiet == Spec => []QuietAfterStop
  BY SpecCounted, PTL DEF Counted

-----------------------------------------------------------------------------
(* The inductive invariant, on top of Counted.                             *)

(* Whose cause a timer carries: generation 0 is the total timer, and until *)
(* stop it and the timer of the current generation are those that stand.   *)
(* A finish grace is armed only once the converter has seen the finish.    *)
TimerCause(t) ==
  /\ t.gen = 0 => t.cause = "total"
  /\ active /\ t.gen \in {0, generation} => [gen |-> t.gen, cause |-> t.cause] \in standing
  /\ t.cause = "finish_grace" => conv.finish

ClaimInv ==
  /\ active /\ totalArmed => [gen |-> 0, cause |-> "total"] \in standing
  /\ \A t \in phase : TimerCause(t) /\ t.gen = generation /\ t.gen # 0
  /\ \A t \in running : TimerCause(t)
  /\ \A t \in running : t.at = "closing" => cause # NoCause
  /\ cause = "finish_grace" => conv.finish
  /\ pc = "grace" => conv.finish

(* The upstream stream is closed under the pump only by a callback that    *)
(* claimed a cause before; a read it released goes no further than the     *)
(* pump's look at the cause.                                               *)
ReleaseInv ==
  /\ up = "closed" /\ ~once => cause # NoCause
  /\ read.released => cause # NoCause
  /\ read.released =>
       pc \notin {"new", "first", "read", "feed", "progress", "grace", "fed", "flush"}
  /\ pc = "emit" => after = "grace" \/ ~read.released
  /\ pc = "emit" /\ after = "grace" => cause = "finish_grace"

BeforeFeed == {"new", "first", "read", "check"}
InLoop     == BeforeFeed \union {"feed", "progress", "grace", "fed"}

(* What the converter has sent rests on what it has seen, and nothing is   *)
(* fed to it after that could open a tool call again.                      *)
ConvInv ==
  /\ policy = "terminal" => ~conv.argsOpen
  /\ policy = "synthetic" /\ conv.finish => ~conv.argsOpen
  /\ conv.sent => ~conv.argsOpen
  /\ conv.done => conv.sent
  /\ conv.sent /\ (pc \in InLoop \/ pc = "flush" \/ (pc = "emit" /\ after = "loop")) =>
       conv.done \/ (policy = "synthetic" /\ conv.finish)
  /\ conv.done => pc \notin BeforeFeed \union {"flush"}
  /\ conv.done /\ policy # "terminal" /\ pc = "feed" => left = 0
  /\ pc = "emit" /\ after # "loop" => conv.sent
  /\ convErr => pc \in {"feed", "progress", "grace", "fed"} \/ verdict \in Failures

Evidence == conv.finish \/ conv.done \/ (policy = "synthetic" /\ conv.started)

BeforeClose == InLoop \union {"emit", "flush", "closeUp"}

Failing    == verdict \in Failures /\ once
Succeeding == verdict \in Successes /\ ~once /\ down = "open"

(* Where the pump is in telling the host how the stream ended.             *)
OutcomeInv ==
  /\ pc \in BeforeClose => ~once /\ down = "open" /\ report = "none"
  /\ pc \in BeforeClose \ {"closeUp"} => verdict = NoCause
  /\ pc = "closeUp" => verdict \in Failures
  /\ pc = "closeDown" => Failing /\ up = "closed" /\ down = "open" /\ report = "none"
  /\ pc = "log" => report = "none" /\ ((Failing /\ down = "error") \/ Succeeding)
  /\ pc \in {"stop", "wait"} => (Failing /\ report = "warn") \/ (Succeeding /\ report = "info")
  /\ pc = "deferUp" => Succeeding /\ report = "info"
  /\ pc = "deferDown" =>
       verdict \in Successes /\ once /\ up = "closed" /\ down = "open" /\ report = "info"
  /\ pc = "end" => verdict # NoCause /\ (report = "info" => verdict \in Successes)

(* A success has emitted everything, on evidence.                          *)
WholeInv ==
  /\ pc = "emit" /\ after = "flush" => Evidence
  /\ verdict \in Successes => pending = 0 /\ ~conv.argsOpen /\ Evidence

IInv ==
  ClaimInv /\ ReleaseInv /\ ConvInv /\ OutcomeInv /\ WholeInv /\ TimeoutIsNotAnEnd

LEMMA InitIInv == Init => IInv
  <1> SUFFICES ASSUME Init PROVE IInv
    OBVIOUS
  <1>1. ClaimInv
    BY DEF Init, ClaimInv, TimerCause, NoCause
  <1>2. ReleaseInv
    BY DEF Init, ReleaseInv
  <1>3. ConvInv
    BY DEF Init, ConvInv
  <1>4. OutcomeInv
    BY DEF Init, OutcomeInv
  <1>5. WholeInv
    BY DEF Init, WholeInv, Successes, NoCause
  <1>6. TimeoutIsNotAnEnd
    BY DEF Init, TimeoutIsNotAnEnd
  <1> QED
    BY <1>1, <1>2, <1>3, <1>4, <1>5, <1>6 DEF IInv

-----------------------------------------------------------------------------
(* The timers.                                                             *)

(* What the steps of the timers leave alone.                               *)
LEMMA TimersLeave ==
  ASSUME PhaseExpires \/ TotalExpires \/ CallbackStep
  PROVE  /\ UNCHANGED <<pc, policy, read, total, feeding, pending, after, once, verdict, down, report>>
         /\ UNCHANGED <<generation, standing>>
BY DEF PhaseExpires, TotalExpires, CallbackStep, Fire, FireCloses, outcome

LEMMA PhaseExpiresKeeps ==
  ASSUME Counted, IInv, PhaseExpires
  PROVE  ClaimInv' /\ ReleaseInv'
  <1>1. PICK t \in phase :
          running' = running \union {[gen |-> t.gen, cause |-> t.cause, at |-> "fired"]}
    BY DEF PhaseExpires
  <1> DEFINE new == [gen |-> t.gen, cause |-> t.cause, at |-> "fired"]
  <1>2. new.gen = t.gen /\ new.cause = t.cause /\ new.at = "fired"
    OBVIOUS
  <1>3. TimerCause(t)
    BY DEF IInv, ClaimInv
  <1>4. /\ UNCHANGED <<generation, standing, active, totalArmed, cause, pc, conv, up, once, read, after>>
        /\ phase' = {} /\ running' = running \union {new}
    BY <1>1 DEF PhaseExpires, feeding, outcome
  <1> HIDE DEF new
  <1>5. ClaimInv'
    BY <1>2, <1>3, <1>4 DEF IInv, ClaimInv, TimerCause
  <1>6. ReleaseInv'
    BY <1>4 DEF IInv, ReleaseInv
  <1> QED
    BY <1>5, <1>6

LEMMA TotalExpiresKeeps ==
  ASSUME Counted, IInv, TotalExpires
  PROVE  ClaimInv' /\ ReleaseInv'
  <1> DEFINE new == [gen |-> 0, cause |-> "total", at |-> "fired"]
  <1>1. new.gen = 0 /\ new.cause = "total" /\ new.at = "fired"
    OBVIOUS
  <1>2. /\ UNCHANGED <<generation, standing, active, cause, pc, conv, up, once, read, after, phase>>
        /\ totalArmed /\ ~totalArmed'
        /\ running' = running \union {new}
    BY DEF TotalExpires, feeding, outcome
  <1> HIDE DEF new
  <1>3. ClaimInv'
    BY <1>1, <1>2 DEF IInv, ClaimInv, TimerCause
  <1>4. ReleaseInv'
    BY <1>2 DEF IInv, ReleaseInv
  <1> QED
    BY <1>3, <1>4

(* fire claims the cause of its timer before it closes the stream.         *)
LEMMA FireKeeps ==
  ASSUME Counted, IInv, NEW t \in running, Fire(t)
  PROVE  ClaimInv' /\ ReleaseInv'
  <1>1. UNCHANGED <<generation, standing, totalArmed, phase, pc, conv, up, once, read, after>>
    BY DEF Fire, feeding, outcome
  <1>2. TimerCause(t) /\ t \in Running /\ t.cause # NoCause
    BY DEF IInv, ClaimInv, Counted, TypeOK, Running, TimerCauses, PhaseCauses, NoCause
  <1>3. CASE ~MayClaim(t)
    <2>1. cause' = cause /\ active' = active /\ running' = running \ {t}
      BY <1>3 DEF Fire
    <2> QED
      BY <1>1, <2>1 DEF IInv, ClaimInv, ReleaseInv, TimerCause
  <1>4. CASE MayClaim(t)
    <2> DEFINE next == [t EXCEPT !.at = "closing"]
    <2>1. next.gen = t.gen /\ next.cause = t.cause
      BY <1>2 DEF Running
    <2>2. cause' = t.cause /\ ~active' /\ running' = (running \ {t}) \union {next} /\ cause = NoCause
      BY <1>4 DEF Fire, MayClaim
    <2> HIDE DEF next
    <2>3. ClaimInv'
      BY <1>1, <1>2, <2>1, <2>2 DEF IInv, ClaimInv, TimerCause
    <2>4. ReleaseInv'
      BY <1>1, <1>2, <2>2 DEF IInv, ReleaseInv, NoCause
    <2> QED
      BY <2>3, <2>4
  <1> QED
    BY <1>3, <1>4

LEMMA FireClosesKeeps ==
  ASSUME Counted, IInv, NEW t \in running, FireCloses(t)
  PROVE  ClaimInv' /\ ReleaseInv'
  <1>1. /\ UNCHANGED <<generation, standing, active, totalArmed, phase, cause, pc, conv, once, read, after>>
        /\ running' = running \ {t} /\ t.at = "closing" /\ up' = "closed"
    BY DEF FireCloses, feeding
  <1>2. cause # NoCause
    BY <1>1 DEF IInv, ClaimInv
  <1> QED
    BY <1>1, <1>2 DEF IInv, ClaimInv, ReleaseInv, TimerCause

LEMMA TimersKeep ==
  ASSUME Counted, IInv, PhaseExpires \/ TotalExpires \/ CallbackStep
  PROVE  IInv'
  <1>1. ClaimInv' /\ ReleaseInv'
    BY PhaseExpiresKeeps, TotalExpiresKeeps, FireKeeps, FireClosesKeeps DEF CallbackStep
  <1>2. ConvInv'
    BY TimersLeave DEF feeding, IInv, ConvInv
  <1>3. up' = up \/ up' = "closed"
    BY DEF PhaseExpires, TotalExpires, CallbackStep, Fire, FireCloses, outcome
  <1>4. OutcomeInv'
    BY <1>3, TimersLeave DEF IInv, OutcomeInv, Failing, Succeeding
  <1>5. WholeInv'
    BY TimersLeave DEF feeding, IInv, WholeInv, Evidence
  <1>6. read.released => cause' = cause
    BY DEF IInv, ReleaseInv, PhaseExpires, TotalExpires, CallbackStep, Fire, FireCloses, MayClaim
  <1>7. TimeoutIsNotAnEnd'
    BY <1>6, TimersLeave DEF IInv, TimeoutIsNotAnEnd
  <1> QED
    BY <1>1, <1>2, <1>4, <1>5, <1>7 DEF IInv

-----------------------------------------------------------------------------
(* Arming and stopping.                                                    *)

(* An armed timer is the only one of the new generation.                   *)
LEMMA ArmPhaseClaims ==
  ASSUME Counted, IInv, NEW c \in PhaseCauses, ArmPhase(c), UNCHANGED conv,
         c = "finish_grace" => conv.finish, pc' = "grace" => conv.finish
  PROVE  ClaimInv'
  <1> DEFINE new == [gen |-> generation + 1, cause |-> c]
  <1>1. /\ generation \in Nat /\ generation' = generation + 1
        /\ phase' = {new} /\ UNCHANGED <<active, totalArmed, running, cause>>
        /\ new \in standing'
    BY DEF ArmPhase, Superseded, Counted, TypeOK
  <1>2. /\ new.gen = generation' /\ new.gen # 0 /\ new.cause = c
        /\ [gen |-> new.gen, cause |-> new.cause] = new
    BY <1>1
  <1>3. \A t \in running : t.gen # generation' /\ TimerCause(t)
    BY <1>1 DEF IInv, ClaimInv, Counted, TimersInv, TypeOK, Running
  <1>4. \A t \in standing : t.cause = "total" => t \in standing'
    BY DEF ArmPhase, Superseded
  <1>5. [gen |-> 0, cause |-> "total"] \in standing => [gen |-> 0, cause |-> "total"] \in standing'
    BY <1>4
  <1> HIDE DEF new
  <1>6. \A t \in phase' : TimerCause(t)' /\ t.gen = generation' /\ t.gen # 0
    BY <1>1, <1>2 DEF TimerCause
  <1>7. \A t \in running' : TimerCause(t)'
    BY <1>1, <1>3, <1>5 DEF TimerCause
  <1> QED
    BY <1>1, <1>5, <1>6, <1>7 DEF IInv, ClaimInv

LEMMA ArmingKeeps ==
  ASSUME Counted, IInv, NewController \/ FirstData \/ Progress \/ FinishGrace \/ Stop
  PROVE  IInv'
  <1>1. UNCHANGED <<policy, read, total, left, conv, grew, convErr, pending, after,
                    once, verdict, up, down, report, cause>>
    BY DEF NewController, FirstData, Progress, FinishGrace, Stop, feeding, outcome,
       ArmTotal, ArmPhase, StopTimers
  <1>2. ClaimInv'
    <2>1. CASE NewController
      BY <2>1 DEF NewController, ArmTotal, Goto, feeding, IInv, ClaimInv, TimerCause
    <2>2. CASE FirstData
      BY <1>1, <2>2, ArmPhaseClaims DEF FirstData, Goto, PhaseCauses
    <2>3. CASE Progress
      BY <1>1, <2>3, ArmPhaseClaims DEF Progress, Goto, PhaseCauses
    <2>4. CASE FinishGrace
      BY <1>1, <2>4, ArmPhaseClaims DEF FinishGrace, Goto, PhaseCauses, IInv, ClaimInv
    <2>5. CASE Stop
      <3>1. /\ generation \in Nat /\ generation' = generation + 1
            /\ phase' = {} /\ UNCHANGED <<running, cause>> /\ pc' = "wait" /\ ~active'
        BY <2>5 DEF Stop, Goto, StopTimers, Counted, TypeOK
      <3>2. \A t \in running : t.gen # generation' /\ TimerCause(t)
        BY <3>1 DEF IInv, ClaimInv, Counted, TimersInv, TypeOK, Running
      <3> QED
        BY <1>1, <3>1, <3>2 DEF IInv, ClaimInv, TimerCause
    <2> QED
      BY <2>1, <2>2, <2>3, <2>4, <2>5
  <1>3. \/ pc = "new" /\ pc' = "first"
        \/ pc = "first" /\ pc' = "read"
        \/ pc = "progress" /\ pc' \in {"grace", "fed"}
        \/ pc = "grace" /\ pc' = "fed"
        \/ pc = "stop" /\ pc' = "wait"
    BY DEF NewController, FirstData, Progress, FinishGrace, Stop, Goto
  <1>4. ReleaseInv'
    BY <1>1, <1>3 DEF IInv, ReleaseInv
  <1>5. ConvInv'
    BY <1>1, <1>3 DEF IInv, ConvInv, InLoop, BeforeFeed
  <1>6. OutcomeInv'
    BY <1>1, <1>3 DEF IInv, OutcomeInv, BeforeClose, InLoop, BeforeFeed, Failing, Succeeding
  <1>7. WholeInv'
    BY <1>1, <1>3 DEF IInv, WholeInv, Evidence
  <1>8. TimeoutIsNotAnEnd'
    BY <1>1 DEF IInv, TimeoutIsNotAnEnd
  <1> QED
    BY <1>2, <1>4, <1>5, <1>6, <1>7, <1>8 DEF IInv

(* A step that leaves the controller alone and does not go to "grace".     *)
LEMMA ControllerKeepsClaims ==
  ASSUME Counted, IInv, UNCHANGED controller, conv.finish => conv'.finish,
         pc' # "grace" \/ pc' = pc
  PROVE  ClaimInv'
BY DEF controller, IInv, ClaimInv, TimerCause

-----------------------------------------------------------------------------
(* Reading and feeding.                                                    *)

LEMMA ReadReturnsKeeps ==
  ASSUME Counted, IInv, ReadReturns
  PROVE  IInv'
  <1>1. PICK r \in ReadResults(ChunkSizes, {up = "closed"}) : read' = r
    BY DEF ReadReturns
  <1>2. r.released = (up = "closed")
    BY DEF ReadResults
  <1>3. /\ pc = "read" /\ pc' = "check"
        /\ UNCHANGED <<controller, policy, total, feeding, pending, after, outcome>>
    BY DEF ReadReturns, Goto
  <1>4. ClaimInv'
    BY <1>3, ControllerKeepsClaims DEF feeding
  <1>5. ~once
    BY <1>3 DEF IInv, OutcomeInv, BeforeClose, InLoop, BeforeFeed
  <1>6. ReleaseInv'
    BY <1>1, <1>2, <1>3, <1>5 DEF IInv, ReleaseInv, controller, outcome
  <1>7. ConvInv'
    BY <1>3 DEF IInv, ConvInv, InLoop, BeforeFeed, feeding, outcome
  <1>8. OutcomeInv'
    BY <1>3, <1>5 DEF IInv, OutcomeInv, BeforeClose, InLoop, BeforeFeed, outcome
  <1>9. WholeInv'
    BY <1>3 DEF IInv, WholeInv, Evidence, feeding, outcome, OutcomeInv, BeforeClose, InLoop,
       BeforeFeed, NoCause, Successes
  <1>10. TimeoutIsNotAnEnd'
    BY <1>3 DEF IInv, OutcomeInv, BeforeClose, InLoop, BeforeFeed, TimeoutIsNotAnEnd, outcome
  <1> QED
    BY <1>4, <1>6, <1>7, <1>8, <1>9, <1>10 DEF IInv

(* A frame may complete the answer or open a tool call, but not once the   *)
(* converter has sent what ends the stream.                                *)
LEMMA FeedFrameConv ==
  ASSUME Counted, IInv, NEW f \in Frames(policy), FeedFrame(f)
  PROVE  ConvInv'
  <1>1. /\ pc = "feed" /\ left > 0 /\ MayArrive(conv, f)
        /\ UNCHANGED <<pc, policy, after, verdict>>
    BY DEF FeedFrame, outcome
  <1>2. ~conv.done \/ policy = "terminal"
    BY <1>1 DEF IInv, ConvInv, Counted, TypeOK
  <1>3. conv \in Conv /\ policy \in AllPolicies
    BY DEF Counted, TypeOK
  <1>4. CASE FrameFails(policy, conv, f)
    <2>1. UNCHANGED <<left, conv>> /\ convErr' = TRUE
      BY <1>4 DEF FeedFrame
    <2> QED
      BY <1>1, <2>1 DEF IInv, ConvInv, InLoop, BeforeFeed
  <1>5. CASE ~FrameFails(policy, conv, f)
    <2>1. /\ conv' = AfterFrame(policy, conv, f) /\ convErr' = convErr
          /\ f = "done" /\ policy # "terminal" => left' = 0
      BY <1>5 DEF FeedFrame
    <2>2. policy = "terminal" => f \notin {"args", "argsEnd"}
      BY DEF Frames
    <2>3. /\ conv'.argsOpen = (IF f = "args" THEN TRUE ELSE conv.argsOpen /\ f # "argsEnd")
          /\ conv'.finish = (conv.finish \/ f = "finish")
          /\ conv'.done = (conv.done \/ f = "done")
          /\ conv'.sent = (conv.sent \/ f = "done" \/ (policy = "synthetic" /\ conv.finish /\ f # "none"))
      BY <2>1 DEF AfterFrame
    <2>4. policy = "terminal" => ~conv'.argsOpen
      BY <2>2, <2>3 DEF IInv, ConvInv
    <2>5. policy = "synthetic" /\ conv'.finish => ~conv'.argsOpen
      BY <1>1, <1>5, <2>3 DEF IInv, ConvInv, FrameFails, MayArrive
    <2>6. conv'.sent => ~conv'.argsOpen
      <3>1. CASE policy = "terminal"
        BY <2>4, <3>1
      <3>2. CASE policy = "synthetic"
        BY <1>1, <1>2, <1>5, <2>3, <3>2
           DEF IInv, ConvInv, FrameFails, TerminalFails, MayArrive, InLoop, BeforeFeed
      <3>3. CASE policy = "strict"
        BY <1>1, <1>2, <1>5, <2>3, <3>3
           DEF IInv, ConvInv, FrameFails, MayArrive, InLoop, BeforeFeed
      <3> QED
        BY <1>3, <3>1, <3>2, <3>3 DEF AllPolicies
    <2>7. conv'.done => conv'.sent
      BY <2>3 DEF IInv, ConvInv
    <2>8. conv'.sent => conv'.done \/ (policy = "synthetic" /\ conv'.finish)
      BY <1>1, <2>3 DEF IInv, ConvInv, InLoop
    <2>9. conv'.done /\ policy # "terminal" => left' = 0
      BY <1>2, <2>1, <2>3
    <2>10. convErr' => pc' = "feed"
      BY <1>1
    <2> QED
      BY <1>1, <2>4, <2>5, <2>6, <2>7, <2>8, <2>9, <2>10 DEF ConvInv, BeforeFeed
  <1> QED
    BY <1>4, <1>5

LEMMA FeedFrameKeeps ==
  ASSUME Counted, IInv, NEW f \in Frames(policy), FeedFrame(f)
  PROVE  IInv'
  <1>1. /\ pc = "feed"
        /\ UNCHANGED <<controller, pc, policy, read, after, once, verdict, up, down, report>>
    BY DEF FeedFrame, outcome
  <1>2. conv.finish => conv'.finish
    <2>1. conv' = conv \/ conv' = AfterFrame(policy, conv, f)
      BY DEF FeedFrame
    <2>2. conv.finish => AfterFrame(policy, conv, f).finish
      BY DEF AfterFrame
    <2> QED
      BY <2>1, <2>2
  <1>3. ClaimInv'
    BY <1>1, <1>2, ControllerKeepsClaims
  <1>4. ReleaseInv'
    BY <1>1 DEF IInv, ReleaseInv, controller
  <1>5. OutcomeInv'
    BY <1>1 DEF IInv, OutcomeInv, Failing, Succeeding
  <1>6. verdict \notin Successes
    BY <1>1 DEF IInv, OutcomeInv, BeforeClose, InLoop, NoCause, Successes
  <1>7. WholeInv'
    BY <1>1, <1>6 DEF WholeInv
  <1>8. TimeoutIsNotAnEnd'
    BY <1>1 DEF controller, IInv, TimeoutIsNotAnEnd
  <1> QED
    BY <1>3, <1>4, <1>5, <1>7, <1>8, FeedFrameConv DEF IInv

LEMMA FeedReturnsKeeps ==
  ASSUME Counted, IInv, FeedReturns
  PROVE  IInv'
  <1>1. /\ pc = "feed" /\ pc' \in {"progress", "fed"} /\ left' = 0
        /\ UNCHANGED <<controller, policy, read, conv, convErr, pending, after,
                       once, verdict, up, down, report>>
    BY DEF FeedReturns, outcome
  <1>2. ClaimInv'
    BY <1>1, ControllerKeepsClaims
  <1>3. ReleaseInv'
    BY <1>1 DEF IInv, ReleaseInv, controller
  <1>4. ConvInv'
    BY <1>1 DEF IInv, ConvInv, InLoop, BeforeFeed
  <1>5. OutcomeInv'
    BY <1>1 DEF IInv, OutcomeInv, BeforeClose, InLoop, BeforeFeed
  <1>6. WholeInv'
    BY <1>1 DEF IInv, WholeInv, Evidence
  <1>7. TimeoutIsNotAnEnd'
    BY <1>1 DEF controller, IInv, TimeoutIsNotAnEnd
  <1> QED
    BY <1>2, <1>3, <1>4, <1>5, <1>6, <1>7 DEF IInv

-----------------------------------------------------------------------------
(* The decisions of pumpStream.                                            *)

(* What the pump decides after a released read is the timeout's, or what   *)
(* finalizing after the finish grace came to.                              *)
Attributed(c) ==
  read.released =>
    c = cause \/ (cause = "finish_grace" /\ c \in {"terminal_error", "emit_error"})

(* Whatever fails before the streams are closed goes to closeStreams with  *)
(* a failure to report.                                                    *)
LEMMA FailKeeps ==
  ASSUME Counted, IInv, NEW c \in Failures, Fail(c),
         pc \in BeforeClose \ {"closeUp"}, Attributed(c),
         UNCHANGED <<controller, policy, read, conv, convErr, after>>
  PROVE  IInv'
  <1>1. /\ pc' = "closeUp" /\ verdict' = c /\ c \notin Successes
        /\ UNCHANGED <<once, up, down, report>>
    BY DEF Fail, Failures, Successes
  <1>2. ClaimInv'
    BY <1>1, ControllerKeepsClaims
  <1>3. ReleaseInv'
    BY <1>1 DEF IInv, ReleaseInv, controller
  <1>4. ConvInv'
    BY <1>1 DEF IInv, ConvInv, InLoop, BeforeFeed
  <1>5. OutcomeInv'
    BY <1>1 DEF IInv, OutcomeInv, BeforeClose, InLoop, BeforeFeed
  <1>6. WholeInv'
    BY <1>1 DEF WholeInv
  <1>7. TimeoutIsNotAnEnd'
    BY <1>1 DEF Attributed, controller, TimeoutIsNotAnEnd
  <1> QED
    BY <1>2, <1>3, <1>4, <1>5, <1>6, <1>7 DEF IInv

(* A step that goes on, to a place the invariant says enough about.        *)
LEMMA GoOnKeeps ==
  ASSUME Counted, IInv, UNCHANGED <<controller, policy, read, outcome>>,
         pc \in BeforeClose \ {"closeUp"},
         pc' \in {"read", "feed", "emit", "flush"},
         conv.finish => conv'.finish,
         ReleaseInv', ConvInv', pc' = "emit" /\ after' = "flush" => Evidence'
  PROVE  IInv'
  <1>1. ClaimInv'
    BY ControllerKeepsClaims
  <1>2. OutcomeInv'
    BY DEF IInv, OutcomeInv, BeforeClose, InLoop, BeforeFeed, outcome
  <1>3. WholeInv'
    BY DEF IInv, OutcomeInv, WholeInv, NoCause, Successes, outcome
  <1>4. TimeoutIsNotAnEnd'
    BY DEF IInv, OutcomeInv, TimeoutIsNotAnEnd, outcome
  <1> QED
    BY <1>1, <1>2, <1>3, <1>4 DEF IInv

LEMMA CheckKeeps ==
  ASSUME Counted, IInv, CheckTimeout \/ CheckRead
  PROVE  IInv'
  <1>1. pc = "check" /\ pc \in BeforeClose \ {"closeUp"}
    BY DEF CheckTimeout, CheckRead, BeforeClose, InLoop, BeforeFeed
  <1>2. CASE CheckTimeout
    BY <1>1, <1>2, FailKeeps DEF CheckTimeout, Attributed, Failures, feeding
  <1>3. CASE CheckRead /\ read.failure # "none"
    <2>1. read.failure \in Failures
      BY <1>3 DEF Counted, TypeOK, ReadResults, Failures
    <2>2. /\ Fail(read.failure) /\ UNCHANGED <<controller, policy, read, conv, convErr, after>>
          /\ Attributed(read.failure)
      BY <1>3 DEF CheckRead, ReadOutcome, Attributed, IInv, ReleaseInv
    <2> QED
      BY <1>1, <2>1, <2>2, FailKeeps
  <1>4. CASE CheckRead /\ pc' # "feed" /\ read.failure = "none"
    <2>1. /\ Fail("max_bytes") /\ UNCHANGED <<controller, policy, read, conv, convErr, after>>
          /\ Attributed("max_bytes")
      BY <1>4 DEF CheckRead, ReadOutcome, Attributed, IInv, ReleaseInv
    <2> QED
      BY <1>1, <2>1, FailKeeps DEF Failures
  <1>5. CASE CheckRead /\ pc' = "feed" /\ read.failure = "none"
    <2>1. UNCHANGED <<controller, policy, read, conv, after, outcome>> /\ ~convErr' /\ cause = NoCause
      BY <1>5 DEF CheckRead, ReadOutcome, Fail, outcome
    <2>2. ReleaseInv'
      BY <1>5, <2>1 DEF IInv, ReleaseInv, controller, outcome
    <2>3. ConvInv'
      BY <1>1, <1>5, <2>1 DEF IInv, ConvInv, InLoop, BeforeFeed, outcome
    <2> QED
      BY <1>1, <1>5, <2>1, <2>2, <2>3, GoOnKeeps
  <1> QED
    BY <1>2, <1>3, <1>4, <1>5

(* The finish grace is armed only after a finish, and finalizing then      *)
(* fails while a tool call is open.                                        *)
LEMMA CheckGraceKeeps ==
  ASSUME Counted, IInv, CheckGrace
  PROVE  IInv'
  <1>1. /\ pc = "check" /\ cause = "finish_grace" /\ pc \in BeforeClose \ {"closeUp"}
        /\ conv.finish /\ conv \in Conv /\ policy \in AllPolicies
    BY DEF CheckGrace, BeforeClose, InLoop, BeforeFeed, IInv, ClaimInv, Counted, TypeOK
  <1>2. CASE FinalizeFails(policy, conv)
    BY <1>1, <1>2, FailKeeps DEF CheckGrace, Attributed, Failures
  <1>3. CASE ~FinalizeFails(policy, conv)
    <2>1. /\ pc' = "emit" /\ after' = "grace" /\ conv' = [conv EXCEPT !.sent = TRUE]
          /\ UNCHANGED <<controller, policy, read, left, convErr, outcome>>
      BY <1>3 DEF CheckGrace
    <2>2. ~conv.argsOpen
      BY <1>1, <1>3 DEF FinalizeFails, TerminalFails, AllPolicies, IInv, ConvInv
    <2>3. /\ ~conv'.argsOpen /\ conv'.sent
          /\ conv'.finish = conv.finish /\ conv'.done = conv.done
      BY <1>1, <2>1, <2>2 DEF Conv
    <2>4. ReleaseInv'
      BY <1>1, <2>1 DEF IInv, ReleaseInv, controller, outcome
    <2>5. ConvInv'
      BY <1>1, <2>1, <2>3 DEF IInv, ConvInv, InLoop, BeforeFeed, outcome
    <2> QED
      BY <1>1, <2>1, <2>3, <2>4, <2>5, GoOnKeeps
  <1> QED
    BY <1>2, <1>3

LEMMA FlushKeeps ==
  ASSUME Counted, IInv, Flush
  PROVE  IInv'
  <1>1. /\ pc = "flush" /\ pc \in BeforeClose \ {"closeUp"}
        /\ conv \in Conv /\ policy \in AllPolicies
    BY DEF Flush, BeforeClose, InLoop, BeforeFeed, Counted, TypeOK
  <1>2. CASE FlushFails(policy, conv)
    BY <1>1, <1>2, FailKeeps DEF Flush, Attributed, Failures, IInv, ReleaseInv
  <1>3. CASE ~FlushFails(policy, conv)
    <2>1. /\ pc' = "emit" /\ after' = "flush" /\ conv' = [conv EXCEPT !.sent = TRUE]
          /\ UNCHANGED <<controller, policy, read, left, convErr, outcome>>
      BY <1>3 DEF Flush
    <2>2. ~conv.argsOpen /\ Evidence
      BY <1>1, <1>3 DEF FlushFails, FinalizeFails, TerminalFails, AllPolicies, IInv, ConvInv, Evidence
    <2>3. /\ ~conv'.argsOpen /\ conv'.sent /\ conv'.started = conv.started
          /\ conv'.finish = conv.finish /\ conv'.done = conv.done
      BY <1>1, <2>1, <2>2 DEF Conv
    <2>4. ReleaseInv'
      BY <1>1, <2>1 DEF IInv, ReleaseInv, controller, outcome
    <2>5. ConvInv'
      BY <1>1, <2>1, <2>3 DEF IInv, ConvInv, InLoop, BeforeFeed, outcome
    <2>6. Evidence'
      BY <2>1, <2>2, <2>3 DEF Evidence
    <2> QED
      BY <1>1, <2>1, <2>3, <2>4, <2>5, <2>6, GoOnKeeps
  <1> QED
    BY <1>2, <1>3

LEMMA FedKeeps ==
  ASSUME Counted, IInv, Fed
  PROVE  IInv'
  <1>1. /\ pc = "fed" /\ pc \in BeforeClose \ {"closeUp"}
        /\ UNCHANGED <<controller, policy, read, conv, convErr>>
    BY DEF Fed, BeforeClose, InLoop, BeforeFeed, feeding
  <1>2. CASE convErr
    BY <1>1, <1>2, FailKeeps DEF Fed, Attributed, Failures, IInv, ReleaseInv
  <1>3. CASE ~convErr
    <2>1. pc' = "emit" /\ after' = "loop" /\ UNCHANGED outcome
      BY <1>3 DEF Fed
    <2>2. ReleaseInv'
      BY <1>1, <2>1 DEF IInv, ReleaseInv, controller, outcome
    <2>3. ConvInv'
      BY <1>1, <1>3, <2>1 DEF IInv, ConvInv, InLoop, BeforeFeed, outcome
    <2> QED
      BY <1>1, <2>1, <2>2, <2>3, GoOnKeeps
  <1> QED
    BY <1>2, <1>3

LEMMA EmitKeeps ==
  ASSUME Counted, IInv, Emit
  PROVE  IInv'
  <1>1. /\ pc = "emit" /\ pc \in BeforeClose \ {"closeUp"}
        /\ UNCHANGED <<controller, policy, read, feeding, after>>
    BY DEF Emit, BeforeClose
  <1>2. CASE pc' = pc
    <2>1. UNCHANGED outcome
      BY <1>1, <1>2 DEF Emit, Fail
    <2>2. ReleaseInv'
      BY <1>1, <1>2, <2>1 DEF IInv, ReleaseInv, controller, outcome
    <2>3. ConvInv'
      BY <1>1, <1>2, <2>1 DEF IInv, ConvInv, feeding, outcome
    <2>4. pc' = "emit" /\ after' = "flush" => Evidence'
      BY <1>1, <1>2 DEF IInv, WholeInv, Evidence, feeding
    <2> QED
      BY <1>1, <1>2, <2>1, <2>2, <2>3, <2>4, GoOnKeeps DEF feeding
  <1>3. CASE pc' # pc
    BY <1>1, <1>3, FailKeeps DEF Emit, Attributed, Failures, feeding, IInv, ReleaseInv
  <1> QED
    BY <1>2, <1>3

(* A success is decided with nothing left to emit.                         *)
LEMMA FinishKeeps ==
  ASSUME Counted, IInv, NEW c \in Successes, Finish(c), pc = "emit", pending = 0,
         UNCHANGED <<controller, policy, read, feeding, pending, after>>,
         ~conv.argsOpen, Evidence, Attributed(c)
  PROVE  IInv'
  <1>1. /\ pc' = "log" /\ verdict' = c /\ c \notin Failures
        /\ UNCHANGED <<once, up, down, report>>
    BY DEF Finish, Failures, Successes
  <1>2. ~convErr
    BY DEF IInv, ConvInv, OutcomeInv, BeforeClose, NoCause, Failures
  <1>3. ClaimInv'
    BY <1>1, ControllerKeepsClaims DEF feeding
  <1>4. ReleaseInv'
    BY <1>1 DEF IInv, ReleaseInv, controller
  <1>5. ConvInv'
    BY <1>1, <1>2 DEF IInv, ConvInv, InLoop, BeforeFeed, feeding
  <1>6. OutcomeInv'
    BY <1>1 DEF IInv, OutcomeInv, BeforeClose, InLoop, BeforeFeed, Succeeding
  <1>7. WholeInv'
    BY <1>1 DEF WholeInv, Evidence, feeding
  <1>8. TimeoutIsNotAnEnd'
    BY <1>1 DEF Attributed, controller, TimeoutIsNotAnEnd
  <1> QED
    BY <1>3, <1>4, <1>5, <1>6, <1>7, <1>8 DEF IInv

LEMMA EmittedKeeps ==
  ASSUME Counted, IInv, EmittedChunk \/ EmittedLast
  PROVE  IInv'
  <1>1. /\ pc = "emit" /\ pending = 0 /\ pc \in BeforeClose \ {"closeUp"}
        /\ UNCHANGED <<controller, policy, read, feeding, pending, after>>
    BY DEF EmittedChunk, EmittedLast, BeforeClose
  <1>2. CASE EmittedChunk /\ conv.done
    <2>1. ~conv.argsOpen /\ Evidence /\ ~read.released /\ after = "loop"
      BY <1>1, <1>2 DEF EmittedChunk, IInv, ConvInv, ReleaseInv, Evidence
    <2> QED
      BY <1>1, <1>2, <2>1, FinishKeeps DEF EmittedChunk, Attributed, Successes
  <1>3. CASE EmittedChunk /\ ~conv.done
    <2>1. pc' \in {"read", "flush"} /\ after = "loop" /\ UNCHANGED outcome
      BY <1>3 DEF EmittedChunk
    <2>2. ReleaseInv'
      BY <1>1, <2>1 DEF IInv, ReleaseInv, controller, outcome
    <2>3. ~convErr
      BY <1>1 DEF IInv, ConvInv, OutcomeInv, BeforeClose, NoCause, Failures
    <2>4. ConvInv'
      BY <1>1, <1>3, <2>1, <2>3 DEF IInv, ConvInv, InLoop, BeforeFeed, feeding, outcome
    <2> QED
      BY <1>1, <2>1, <2>2, <2>4, GoOnKeeps DEF feeding
  <1>4. CASE EmittedLast
    <2>1. ~conv.argsOpen
      BY <1>1, <1>4 DEF EmittedLast, IInv, ConvInv
    <2>2. Evidence
      BY <1>1, <1>4 DEF EmittedLast, IInv, ReleaseInv, ClaimInv, WholeInv, Evidence
    <2>3. Attributed(IF after = "grace" THEN "finish_grace" ELSE "eof")
      BY <1>1 DEF Attributed, IInv, ReleaseInv
    <2> QED
      BY <1>1, <1>4, <2>1, <2>2, <2>3, FinishKeeps DEF EmittedLast, Successes
  <1> QED
    BY <1>2, <1>3, <1>4

-----------------------------------------------------------------------------
(* Closing, in the order upstream, downstream.                             *)

LEMMA ClosingKeeps ==
  ASSUME Counted, IInv,
         CloseUp \/ CloseDown \/ Log \/ Wait \/ DeferredCloseUp \/ DeferredCloseDown
  PROVE  IInv'
  <1>1. /\ UNCHANGED <<controller, policy, read, total, feeding, pending, after, verdict>>
        /\ pc \in {"closeUp", "closeDown", "log", "wait", "deferUp", "deferDown"}
        /\ pc' \in {"closeDown", "log", "stop", "deferUp", "deferDown", "end"}
    BY DEF CloseUp, CloseDown, Log, Wait, DeferredCloseUp, DeferredCloseDown, Goto, outcome
  <1>2. ClaimInv'
    BY <1>1, ControllerKeepsClaims DEF feeding
  <1>3. (up' = up \/ once') /\ (once => once')
    BY DEF CloseUp, CloseDown, Log, Wait, DeferredCloseUp, DeferredCloseDown, outcome
  <1>4. ReleaseInv'
    BY <1>1, <1>3 DEF IInv, ReleaseInv, controller
  <1>5. ConvInv'
    BY <1>1 DEF IInv, ConvInv, InLoop, BeforeFeed, feeding
  <1>6. WholeInv'
    BY <1>1 DEF IInv, WholeInv, Evidence, feeding
  <1>7. TimeoutIsNotAnEnd'
    BY <1>1 DEF controller, IInv, TimeoutIsNotAnEnd
  <1>8. OutcomeInv'
    <2> USE DEF IInv, OutcomeInv, BeforeClose, InLoop, BeforeFeed, Failing, Succeeding
    <2>1. CASE CloseUp
      BY <1>1, <2>1 DEF CloseUp, Goto
    <2>2. CASE CloseDown
      BY <1>1, <2>2 DEF CloseDown, Goto
    <2>3. CASE Log
      BY <1>1, <2>3 DEF Log, Goto, Failures, Successes
    <2>4. CASE Wait
      BY <1>1, <2>4 DEF Wait, outcome, Failures, Successes, NoCause
    <2>5. CASE DeferredCloseUp
      BY <1>1, <2>5 DEF DeferredCloseUp, Goto
    <2>6. CASE DeferredCloseDown
      BY <1>1, <2>6 DEF DeferredCloseDown, Goto, Successes, NoCause
    <2> QED
      BY <2>1, <2>2, <2>3, <2>4, <2>5, <2>6
  <1> QED
    BY <1>2, <1>4, <1>5, <1>6, <1>7, <1>8 DEF IInv

LEMMA NextIInv ==
  ASSUME Counted, IInv, [Next]_vars
  PROVE  IInv'
  <1>1. CASE PumpStep
    BY <1>1, ArmingKeeps, CheckKeeps, CheckGraceKeeps, FeedReturnsKeeps, FedKeeps, EmitKeeps,
       EmittedKeeps, FlushKeeps, ClosingKeeps DEF PumpStep
  <1>2. CASE ReadReturns
    BY <1>2, ReadReturnsKeeps
  <1>3. CASE \E f \in Frames(policy) : FeedFrame(f)
    BY <1>3, FeedFrameKeeps
  <1>4. CASE PhaseExpires \/ TotalExpires \/ CallbackStep
    BY <1>4, TimersKeep
  <1>5. CASE Ended \/ UNCHANGED vars
    <2>1. UNCHANGED vars
      BY <1>5 DEF Ended
    <2>2. ClaimInv' /\ ReleaseInv'
      BY <2>1 DEF vars, controller, feeding, outcome, IInv, ClaimInv, ReleaseInv, TimerCause
    <2>3. ConvInv' /\ WholeInv'
      BY <2>1 DEF vars, feeding, outcome, IInv, ConvInv, WholeInv, Evidence
    <2>4. OutcomeInv'
      BY <2>1 DEF vars, outcome, IInv, OutcomeInv, Failing, Succeeding
    <2>5. TimeoutIsNotAnEnd'
      BY <2>1 DEF vars, controller, outcome, IInv, TimeoutIsNotAnEnd
    <2> QED
      BY <2>2, <2>3, <2>4, <2>5 DEF IInv
  <1> QED
    BY <1>1, <1>2, <1>3, <1>4, <1>5 DEF Next

LEMMA SpecIInv == Spec => [](Counted /\ IInv)
  <1>1. Init => IInv
    BY InitIInv
  <1>2. Counted /\ IInv /\ [Next]_vars => IInv'
    BY NextIInv
  <1> QED
    BY <1>1, <1>2, SpecCounted, PTL DEF Spec

-----------------------------------------------------------------------------
(* The theorems.                                                           *)

(* A timer superseded by a later armPhase or by stop never claims: fire    *)
(* compares generations under the lock (stream_controller.go).             *)
THEOREM ClaimsAreCurrent == Spec => ClaimIsCurrent
  <1>1. ASSUME Counted /\ IInv, [Next]_vars, cause' # cause
        PROVE  \E t \in running :
                 Claims(t) /\ [gen |-> t.gen, cause |-> t.cause] \in standing
    <2>1. CallbackStep
      <3>1. CASE PumpStep
        BY <1>1, <3>1 DEF PumpStep, NewController, FirstData, CheckTimeout, CheckGrace, CheckRead,
           ReadOutcome, FeedReturns, Progress, FinishGrace, Fed, Emit, EmittedChunk, EmittedLast,
           Flush, CloseUp, CloseDown, Log, Stop, Wait, DeferredCloseUp, DeferredCloseDown,
           controller, ArmTotal, ArmPhase, StopTimers
      <3>2. CASE ~PumpStep
        BY <1>1, <3>2 DEF Next, ReadReturns, FeedFrame, PhaseExpires, TotalExpires, Ended, vars,
           controller
      <3> QED
        BY <3>1, <3>2
    <2>2. PICK t \in running : Fire(t) /\ MayClaim(t) /\ cause' = t.cause
      BY <1>1, <2>1 DEF CallbackStep, Fire, FireCloses
    <2>3. Claims(t)
      BY <2>2 DEF Claims, Fire
    <2>4. TimerCause(t)
      BY <1>1 DEF IInv, ClaimInv
    <2> QED
      BY <2>2, <2>3, <2>4 DEF TimerCause, MayClaim
  <1>2. (Counted /\ IInv) /\ [Next]_vars =>
          [cause' # cause =>
             \E t \in running :
               Claims(t) /\ [gen |-> t.gen, cause |-> t.cause] \in standing]_vars
    BY <1>1
  <1> QED
    BY <1>2, SpecIInv, PTL DEF Spec, ClaimIsCurrent

(* A read released by a timeout is reported as that timeout: fire claims   *)
(* before it closes, pumpStream asks controller.Cause before it looks at   *)
(* what the read returned.                                                 *)
THEOREM TimeoutsKeepTheirCause == Spec => []TimeoutIsNotAnEnd
  BY SpecIInv, PTL DEF IInv

(* A stream finished at level info has delivered every converted event and *)
(* left no tool call open.                                                 *)
THEOREM SuccessesAreWhole == Spec => []SuccessIsWhole
  <1>1. Counted /\ IInv => SuccessIsWhole
    <2> SUFFICES ASSUME Counted, IInv, report = "info"
                 PROVE  pending = 0 /\ ~conv.argsOpen /\ ~convErr
      BY DEF SuccessIsWhole
    <2>1. pc \in PumpLocations
      BY DEF Counted, TypeOK
    <2>2. verdict \in Successes /\ pc \notin InLoop
      BY <2>1 DEF IInv, OutcomeInv, BeforeClose, InLoop, BeforeFeed, PumpLocations,
         Failing, Succeeding
    <2> QED
      BY <2>2 DEF IInv, WholeInv, ConvInv, InLoop, Successes, Failures
  <1> QED
    BY <1>1, SpecIInv, PTL

-----------------------------------------------------------------------------
(* The pump implements StreamSession, step by step.                        *)

LEMMA InitSession == Init => Session!Init
  BY DEF Init, Session!Init

(* What the pump does before it closes anything can only add evidence.     *)
LEMMA ObserveStep ==
  ASSUME Evidence => Evidence', Evidence' \in BOOLEAN, Evidence \in BOOLEAN,
         down = "open", report = "none", UNCHANGED <<up, down, report>>
  PROVE  [Session!Next]_(Session!session)
  BY DEF Session!Next, Session!Observe, Session!session, Evidence

(* Closing the upstream stream, whoever does it first.                     *)
LEMMA ReleaseStep ==
  ASSUME Counted, up' = "closed", Evidence' = Evidence, UNCHANGED <<down, report>>
  PROVE  [Session!Next]_(Session!session)
  <1>1. up \in {"open", "closed"}
    BY DEF Counted, TypeOK
  <1> QED
    BY <1>1 DEF Session!Next, Session!Release, Session!session, Evidence

LEMMA StutterStep ==
  ASSUME Evidence' = Evidence, UNCHANGED <<up, down, report>>
  PROVE  [Session!Next]_(Session!session)
  BY DEF Session!session, Evidence

(* Finalizing and flushing send what ends the stream; they see nothing new.*)
LEMMA SentIsNoEvidence ==
  ASSUME Counted, conv' = [conv EXCEPT !.sent = TRUE], policy' = policy
  PROVE  Evidence' = Evidence
  <1>1. conv \in Conv
    BY DEF Counted, TypeOK
  <1>2. /\ conv'.finish = conv.finish /\ conv'.done = conv.done
        /\ conv'.started = conv.started
    BY <1>1 DEF Conv
  <1> QED
    BY <1>2 DEF Evidence

LEMMA FeedFrameObserves ==
  ASSUME Counted, IInv, NEW f \in Frames(policy), FeedFrame(f)
  PROVE  [Session!Next]_(Session!session)
  <1>1. /\ pc = "feed" /\ conv \in Conv
        /\ UNCHANGED <<policy, up, down, report>>
        /\ conv' = conv \/ conv' = AfterFrame(policy, conv, f)
    BY DEF FeedFrame, outcome, Counted, TypeOK
  <1>2. down = "open" /\ report = "none"
    BY <1>1 DEF IInv, OutcomeInv, BeforeClose, InLoop
  <1>3. CASE conv' = conv
    BY <1>1, <1>3, StutterStep DEF Evidence
  <1>4. CASE conv' = AfterFrame(policy, conv, f)
    <2>1. /\ conv'.finish = (conv.finish \/ f = "finish")
          /\ conv'.done = (conv.done \/ f = "done")
          /\ conv'.started = (conv.started \/ f \in {"delta", "args", "argsEnd", "finish"})
      BY <1>4 DEF AfterFrame
    <2>2. (Evidence => Evidence') /\ Evidence \in BOOLEAN /\ Evidence' \in BOOLEAN
      BY <1>1, <2>1 DEF Evidence
    <2> QED
      BY <1>1, <1>2, <2>2, ObserveStep
  <1> QED
    BY <1>1, <1>3, <1>4

(* The record of a success comes before its close, the record of a failure *)
(* after it.                                                               *)
LEMMA LogReports ==
  ASSUME Counted, IInv, Log
  PROVE  [Session!Next]_(Session!session)
  <1>1. /\ pc = "log" /\ Evidence' = Evidence /\ UNCHANGED <<up, down>>
        /\ report' = (IF verdict \in Successes THEN "info" ELSE "warn")
    BY DEF Log, Goto, Evidence, feeding
  <1>2. report = "none" /\ ((Failing /\ down = "error") \/ Succeeding)
    BY <1>1 DEF IInv, OutcomeInv
  <1>3. CASE Failing /\ down = "error"
    <2>1. report' = "warn"
      BY <1>1, <1>3 DEF Failing, Failures, Successes
    <2> QED
      BY <1>1, <1>2, <1>3, <2>1
         DEF Session!Next, Session!ReportFailure, Session!session, Evidence
  <1>4. CASE Succeeding
    <2>1. Evidence /\ down = "open" /\ report' = "info"
      BY <1>1, <1>4 DEF Succeeding, IInv, WholeInv
    <2> QED
      BY <1>1, <1>2, <2>1
         DEF Session!Next, Session!ReportSuccess, Session!session, Evidence
  <1> QED
    BY <1>2, <1>3, <1>4

LEMMA CloseDownFails ==
  ASSUME Counted, IInv, CloseDown
  PROVE  [Session!Next]_(Session!session)
  <1>1. pc = "closeDown" /\ Evidence' = Evidence /\ UNCHANGED <<up, report>> /\ down' = "error"
    BY DEF CloseDown, Goto, Evidence, feeding
  <1>2. up = "closed" /\ down = "open" /\ report = "none"
    BY <1>1 DEF IInv, OutcomeInv
  <1> QED
    BY <1>1, <1>2 DEF Session!Next, Session!Fail, Session!session, Evidence

LEMMA DeferredCloseSucceeds ==
  ASSUME Counted, IInv, DeferredCloseDown
  PROVE  [Session!Next]_(Session!session)
  <1>1. pc = "deferDown" /\ Evidence' = Evidence /\ UNCHANGED <<up, report>> /\ down' = "ok"
    BY DEF DeferredCloseDown, Goto, Evidence, feeding
  <1>2. up = "closed" /\ down = "open" /\ report = "info"
    BY <1>1 DEF IInv, OutcomeInv
  <1> QED
    BY <1>1, <1>2 DEF Session!Next, Session!Succeed, Session!session, Evidence

LEMMA NextSession ==
  ASSUME Counted, IInv, [Next]_vars
  PROVE  [Session!Next]_(Session!session)
  <1>1. CASE CloseUp \/ DeferredCloseUp \/ \E t \in running : FireCloses(t)
    <2>1. up' = "closed" /\ Evidence' = Evidence /\ UNCHANGED <<down, report>>
      BY <1>1 DEF CloseUp, DeferredCloseUp, FireCloses, Evidence, feeding
    <2> QED
      BY <2>1, ReleaseStep
  <1>2. CASE CheckGrace \/ Flush
    <2>1. /\ conv' = conv \/ conv' = [conv EXCEPT !.sent = TRUE]
          /\ UNCHANGED <<policy, up, down, report>>
      BY <1>2 DEF CheckGrace, Flush, Fail, outcome
    <2>2. Evidence' = Evidence
      BY <2>1, SentIsNoEvidence DEF Evidence
    <2> QED
      BY <2>1, <2>2, StutterStep
  <1>3. CASE NewController \/ FirstData \/ CheckTimeout \/ CheckRead \/ FeedReturns \/ Progress
             \/ FinishGrace \/ Fed \/ Emit \/ EmittedChunk \/ EmittedLast \/ Stop \/ Wait
    <2>1. UNCHANGED <<policy, conv, up, down, report>>
      BY <1>3 DEF NewController, FirstData, CheckTimeout, CheckRead, ReadOutcome, FeedReturns,
         Progress, FinishGrace, Fed, Emit, EmittedChunk, EmittedLast, Stop, Wait, Fail, Finish,
         feeding, outcome
    <2> QED
      BY <2>1, StutterStep DEF Evidence
  <1>4. CASE PhaseExpires \/ TotalExpires \/ ReadReturns \/ Ended \/ UNCHANGED vars
             \/ \E t \in running : Fire(t)
    <2>1. UNCHANGED <<policy, conv, up, down, report>>
      BY <1>4 DEF PhaseExpires, TotalExpires, ReadReturns, Ended, vars, Fire, feeding, outcome
    <2> QED
      BY <2>1, StutterStep DEF Evidence
  <1>5. CASE \E f \in Frames(policy) : FeedFrame(f)
    BY <1>5, FeedFrameObserves
  <1> QED
    BY <1>1, <1>2, <1>3, <1>4, <1>5, CloseDownFails, LogReports, DeferredCloseSucceeds
       DEF Next, PumpStep, CallbackStep

(* The pump keeps the session's promise, for every instance: upstream      *)
(* released before the client is told, one outcome, a success only on      *)
(* evidence, and one record that agrees with the outcome.                  *)
THEOREM PumpImplementsSession == Spec => SessionSpec
  <1>1. Counted /\ IInv /\ [Next]_vars => [Session!Next]_(Session!session)
    BY NextSession
  <1> QED
    BY <1>1, InitSession, SpecIInv, PTL DEF Spec, SessionSpec, Session!Spec
=============================================================================
