-------------------------- MODULE HostCallsProofs --------------------------
(* HostCalls, for any streaming executions and any calls with a deadline:  *)
(* every count has one release and not too early, and a drained bridge     *)
(* stays quiet if the host lets exports return before it shuts down.       *)
EXTENDS HostCalls, FiniteSetTheorems, TLAPS

-----------------------------------------------------------------------------
(* The inductive invariant.                                                *)

ExportStates == {"idle", "starting", "started", "reading", "closing", "returned"}

StoppingTypes ==
  /\ engine \in {"running", "stopping", "exited"}
  /\ shutdown \in {"serving", "stopping", "draining", "drained", "gave up"}
  /\ overran \in BOOLEAN

(* The types; that inFlight is not negative is a matter of its balance.    *)
TypesInv ==
  /\ stage \in [Invocations -> {"idle", "waiting", "grace", "returned"}]
  /\ got \in [Invocations -> Answers \union {"none", "late stream", "late nothing", "timeout"}]
  /\ worker \in [Invocations -> {"none", "calling", "sent", "exited"}]
  /\ done \in [Invocations -> Answers \union {"empty"}]
  /\ cleaner \in [Starts -> {"none", "waiting", "closing", "done"}]
  /\ drained \in [Invocations -> BOOLEAN]
  /\ letGo \in [Invocations -> BOOLEAN]
  /\ inFlight \in Int
  /\ export \in [Starts -> ExportStates]
  /\ pump \in [Starts -> {"none", "pumping", "closing", "ended"}]
  /\ streams \subseteq Starts
  /\ StoppingTypes

Answered(i) == worker[i] \in {"sent", "exited"}

(* The two goroutines of a call: its count is released exactly when the    *)
(* callback has exited and the caller's side is settled; and a call that   *)
(* has no deadline is settled by its answer alone.                         *)
CallInv(i) ==
  /\ worker[i] = "none" => stage[i] = "idle"
  /\ stage[i] = "idle" => worker[i] = "none"
  /\ letGo[i] => drained[i] /\ worker[i] = "exited"
  /\ drained[i] /\ worker[i] = "exited" => letGo[i]
  /\ drained[i] => stage[i] = "returned"
  /\ done[i] # "empty" => Answered(i)
  /\ i \notin Starts /\ stage[i] = "returned" => drained[i]
  /\ i \in Closes /\ drained[i] => Answered(i)

(* A Start is settled when it has returned and the abandon goroutine, if   *)
(* there is one, has ended; whoever has its stream has it from an answer.  *)
StartInv(s) ==
  /\ drained[s] => stage[s] = "returned" /\ cleaner[s] \in {"none", "done"}
  /\ stage[s] = "returned" /\ cleaner[s] \in {"none", "done"} => drained[s]
  /\ cleaner[s] # "none" => stage[s] = "returned"
  /\ drained[s] \/ cleaner[s] = "closing" => Answered(s) /\ done[s] = "empty"
  /\ got[s] \notin {"none", "timeout"} => Answered(s)
  /\ export[s] \in {"started", "reading"} \/ pump[s] # "none" => Answered(s)
  /\ pump[s] # "none" => export[s] = "returned"
  /\ stage[CloseOf(s)] # "idle" => Answered(s)

(* A stream is open only after its start was answered with it, and no more *)
(* once a close of it was answered.                                        *)
StreamInv(s) ==
  /\ s \in streams => Answered(s)
  /\ done[s] = "nothing" => s \notin streams
  /\ Answered(CloseOf(s)) => s \notin streams
  /\ cleaner[s] = "done" => s \notin streams

Balanced == inFlight = Cardinality(Counted) + Cardinality(Pumping)

IInv ==
  /\ TypesInv
  /\ \A i \in Invocations : CallInv(i)
  /\ \A s \in Starts : StartInv(s) /\ StreamInv(s)
  /\ Balanced

(* Shutdown begins when no export is running, and none starts afterwards;  *)
(* it goes on to its drain when the engine has exited, or has overrun its  *)
(* wait; and what the drain has found at rest stays so, but for the calls  *)
(* an engine that overran may still make.                                  *)
QuietInv ==
  /\ shutdown # "serving" => ~ExportRunning
  /\ shutdown \in {"draining", "drained", "gave up"} /\ ~overran => engine = "exited"
  /\ shutdown = "drained" => Pumping = {} /\ Counted \subseteq EngineCalls
  /\ shutdown = "drained" /\ ~overran => Counted = {}

-----------------------------------------------------------------------------
(* What the types say that most steps need.                                *)
LEMMA Domains ==
  ASSUME TypesInv
  PROVE  /\ DOMAIN stage = Invocations /\ DOMAIN got = Invocations
         /\ DOMAIN worker = Invocations /\ DOMAIN done = Invocations
         /\ DOMAIN cleaner = Starts /\ DOMAIN drained = Invocations
         /\ DOMAIN letGo = Invocations
         /\ DOMAIN export = Starts /\ DOMAIN pump = Starts
BY DEF TypesInv

-----------------------------------------------------------------------------
(* The calls, and counting them.                                           *)

LEMMA CallFacts ==
  /\ Starts \subseteq Invocations /\ Bounded \subseteq Invocations
  /\ \A i \in Bounded : i \notin Starts /\ i \notin Closes
  /\ \A i \in Closes : i \notin Starts /\ i \notin Bounded
  /\ \A s \in Starts : CloseOf(s) \in Closes /\ CloseOf(s) \in Invocations
  /\ \A s, t \in Starts : CloseOf(s) = CloseOf(t) => s = t
  /\ \A s \in Starts : ReadOf(s) \in Invocations /\ ReadOf(s) \notin Starts
                         /\ ReadOf(s) \notin Closes
<1>1. "read" # "close"
  OBVIOUS
<1> QED
  BY <1>1, CallsAssumption DEF Invocations, Closes, Reads, CloseOf, ReadOf

LEMMA FiniteCalls == IsFiniteSet(Invocations)
<1>1. IsFiniteSet(Closes)
  <2> DEFINE close == [s \in Starts |-> CloseOf(s)]
  <2>1. close \in Surjection(Starts, Closes)
    BY DEF Surjection, Closes
  <2> QED
    BY <2>1, CallsAssumption, FS_Surjection
<1>2. IsFiniteSet(Reads)
  <2> DEFINE read == [s \in Starts |-> ReadOf(s)]
  <2>1. read \in Surjection(Starts, Reads)
    BY DEF Surjection, Reads
  <2> QED
    BY <2>1, CallsAssumption, FS_Surjection
<1> QED
  BY <1>1, <1>2, CallsAssumption, FS_Union DEF Invocations

LEMMA FiniteCounts ==
  /\ IsFiniteSet(Counted) /\ Cardinality(Counted) \in Nat
  /\ IsFiniteSet(Pumping) /\ Cardinality(Pumping) \in Nat
<1>1. Counted \subseteq Invocations /\ Pumping \subseteq Starts
  BY DEF Counted, Pumping
<1> QED
  BY <1>1, CallsAssumption, FiniteCalls, FS_Subset, FS_CardinalityType

(* The invariant at one streaming execution and its close.                 *)
LEMMA AtStart ==
  ASSUME IInv, NEW s \in Starts
  PROVE  /\ s \in Invocations /\ s \notin Closes /\ s \notin Bounded
         /\ CloseOf(s) \in Invocations /\ CloseOf(s) \in Closes /\ CloseOf(s) \notin Starts
         /\ TypesInv
         /\ CallInv(s) /\ CallInv(CloseOf(s)) /\ StartInv(s) /\ StreamInv(s)
BY CallFacts DEF IInv

LEMMA SpawnCounts ==
  ASSUME TypesInv, NEW i, Spawn(i)
  PROVE  inFlight' \in Int
<1>1. inFlight \in Int
  BY DEF TypesInv
<1>2. inFlight' = inFlight + 1
  BY DEF Spawn
<1> QED
  BY <1>1, <1>2

(* A call that begins is one more; the one that is let go is one less.     *)
LEMMA SpawnKeepsBalance ==
  ASSUME IInv, NEW i \in Invocations, Spawn(i), letGo' = letGo, Pumping' = Pumping
  PROVE  Balanced'
<1>1. TypesInv /\ CallInv(i) /\ Balanced
  BY DEF IInv
<1>2. ~letGo[i]
  BY <1>1 DEF CallInv, Spawn
<1>3. i \notin Counted /\ Counted' = Counted \union {i}
  BY <1>1, <1>2 DEF TypesInv, Spawn, Counted
<1>4. Cardinality(Counted') = Cardinality(Counted) + 1
  BY <1>3, FiniteCounts, FS_AddElement
<1>5. inFlight \in Int /\ inFlight = Cardinality(Counted) + Cardinality(Pumping)
  BY <1>1 DEF TypesInv, Balanced
<1> QED
  BY <1>4, <1>5, FiniteCounts DEF Balanced, Spawn

LEMMA ReleaseKeepsBalance ==
  ASSUME IInv, NEW i \in Invocations, NEW exited \in BOOLEAN, NEW settled \in BOOLEAN,
         MaybeRelease(i, exited, settled), stage[i] # "idle",
         \A j \in Invocations : stage'[j] = "idle" <=> stage[j] = "idle",
         pump' = pump
  PROVE  Balanced'
<1>1. Pumping' = Pumping
  BY DEF Pumping
<1>2. letGo \in [Invocations -> BOOLEAN] /\ Balanced
  BY DEF IInv, TypesInv
<1>3. CASE exited /\ settled /\ ~letGo[i]
  <2>1. i \in Counted /\ Counted' = Counted \ {i}
    BY <1>2, <1>3 DEF MaybeRelease, Counted
  <2>2. Cardinality(Counted') = Cardinality(Counted) - 1
    BY <2>1, FiniteCounts, FS_RemoveElement
  <2>3. inFlight \in Int /\ inFlight = Cardinality(Counted) + Cardinality(Pumping)
    BY <1>2 DEF IInv, TypesInv, Balanced
  <2> QED
    BY <1>1, <1>3, <2>2, <2>3, FiniteCounts DEF Balanced, MaybeRelease
<1>4. CASE ~(exited /\ settled /\ ~letGo[i])
  <2>1. Counted' = Counted
    BY <1>4 DEF MaybeRelease, Counted
  <2> QED
    BY <1>1, <1>2, <1>4, <2>1 DEF Balanced, MaybeRelease
<1> QED
  BY <1>3, <1>4

LEMMA NothingKeepsBalance ==
  ASSUME IInv, UNCHANGED <<letGo, inFlight>>, Pumping' = Pumping,
         \A j \in Invocations : stage'[j] = "idle" <=> stage[j] = "idle"
  PROVE  Balanced'
BY DEF IInv, Balanced, Counted

(* What maybeRelease leaves.                                               *)
LEMMA ReleaseTypes ==
  ASSUME IInv, NEW i \in Invocations, NEW exited \in BOOLEAN, NEW settled \in BOOLEAN,
         MaybeRelease(i, exited, settled)
  PROVE  /\ letGo' \in [Invocations -> BOOLEAN]
         /\ inFlight' \in Int
         /\ exited /\ settled => letGo'[i]
         /\ ~(exited /\ settled) => letGo'[i] = letGo[i]
         /\ \A j \in Invocations : j # i => letGo'[j] = letGo[j]
<1>1. letGo \in [Invocations -> BOOLEAN] /\ inFlight \in Int
  BY DEF IInv, TypesInv
<1>2. letGo' \in [Invocations -> BOOLEAN]
  BY <1>1 DEF MaybeRelease
<1>3. inFlight' \in Int
  BY <1>1 DEF MaybeRelease
<1>4. exited /\ settled => letGo'[i]
  BY <1>1 DEF MaybeRelease
<1>5. ~(exited /\ settled) => letGo'[i] = letGo[i]
  BY <1>1 DEF MaybeRelease
<1>6. \A j \in Invocations : j # i => letGo'[j] = letGo[j]
  BY <1>1 DEF MaybeRelease
<1> QED
  BY <1>2, <1>3, <1>4, <1>5, <1>6

LEMMA InitIInv == Init => IInv /\ QuietInv
<1> SUFFICES ASSUME Init PROVE IInv /\ QuietInv
  OBVIOUS
<1>1. TypesInv
  <2>1. StoppingTypes
    BY DEF Init, StoppingTypes
  <2> QED
    BY <2>1 DEF Init, TypesInv, Answers, ExportStates
<1>2. ASSUME NEW i \in Invocations
      PROVE  CallInv(i)
  BY DEF Init, CallInv
<1>3. ASSUME NEW s \in Starts
      PROVE  StartInv(s) /\ StreamInv(s)
  BY CallFacts DEF Init, StartInv, StreamInv, Answered
<1>4. Counted = {} /\ Pumping = {}
  BY DEF Init, Counted, Pumping
<1>5. Balanced
  BY <1>4, FS_EmptySet DEF Init, Balanced
<1>6. QuietInv
  BY DEF Init, QuietInv
<1> QED
  BY <1>1, <1>2, <1>3, <1>5, <1>6 DEF IInv

-----------------------------------------------------------------------------
(* The steps of a call.                                                    *)

LEMMA HostAnswersKeeps ==
  ASSUME IInv, NEW i \in Invocations, HostAnswers(i)
  PROVE  IInv'
<1> USE DEF HostAnswers, Answered
<1> DEFINE Could == IF i \in Starts THEN Answers ELSE {"nothing"}
<1>1. PICK a \in Could :
        /\ done' = [done EXCEPT ![i] = a]
        /\ streams' = IF a = "stream" THEN streams \union {i}
                      ELSE {s \in streams : CloseOf(s) # i}
  OBVIOUS
<1>2. a \in {"stream", "nothing"} /\ (a = "stream" => i \in Starts)
  BY DEF Answers
<1>3. TypesInv /\ CallInv(i)
  BY DEF IInv
<1> HIDE DEF Could
<1>4. TypesInv'
  BY <1>1, <1>2, <1>3 DEF TypesInv, Answers, StoppingTypes, stopping
<1>5. ASSUME NEW j \in Invocations
      PROVE  CallInv(j)'
  <2>1. CallInv(j)
    BY DEF IInv
  <2> QED
    BY <1>1, <1>2, <1>3, <2>1 DEF TypesInv, CallInv
<1>6. ASSUME NEW s \in Starts
      PROVE  StartInv(s)' /\ StreamInv(s)'
  <2>1. StartInv(s)'
    BY Domains, <1>1, <1>2, <1>3, AtStart DEF CallInv, StartInv
  <2>2. s \in streams' => \/ s \in streams /\ i # CloseOf(s)
                          \/ s = i /\ a = "stream"
    BY <1>1, <1>2, AtStart
  <2>3. ASSUME i = s
        PROVE  StreamInv(s)'
    <3>1. ~Answered(CloseOf(s))'
      BY <1>3, <2>3, AtStart DEF TypesInv, CallInv, StartInv
    <3>2. s \notin streams /\ cleaner[s] # "done"
      BY <2>3, AtStart DEF StartInv, StreamInv
    <3> QED
      BY <1>1, <1>2, <1>3, <2>2, <2>3, <3>1, <3>2 DEF TypesInv, StreamInv
  <2>4. ASSUME i # s
        PROVE  StreamInv(s)'
    BY <1>1, <1>3, <2>2, <2>4, AtStart DEF TypesInv, StreamInv
  <2> QED
    BY <2>1, <2>3, <2>4
<1>7. Balanced'
  BY NothingKeepsBalance DEF Pumping
<1> QED
  BY <1>4, <1>5, <1>6, <1>7 DEF IInv

LEMMA WorkerExitsKeeps ==
  ASSUME IInv, NEW i \in Invocations, WorkerExits(i)
  PROVE  IInv'
<1> USE DEF WorkerExits, Answered
<1>1. TypesInv /\ CallInv(i)
  BY DEF IInv
<1>2. drained[i] \in BOOLEAN /\ MaybeRelease(i, TRUE, drained[i])
  BY <1>1 DEF TypesInv
<1>3. /\ letGo' \in [Invocations -> BOOLEAN] /\ inFlight' \in Int
      /\ drained[i] => letGo'[i]
      /\ ~drained[i] => letGo'[i] = letGo[i]
      /\ \A j \in Invocations : j # i => letGo'[j] = letGo[j]
  BY <1>2, ReleaseTypes
<1>4. TypesInv'
  BY <1>1, <1>3 DEF TypesInv, StoppingTypes, stopping
<1>5. ASSUME NEW j \in Invocations
      PROVE  CallInv(j)'
  <2>1. CallInv(j)
    BY DEF IInv
  <2> QED
    BY Domains, <1>1, <1>3, <2>1 DEF CallInv
<1>6. ASSUME NEW s \in Starts
      PROVE  StartInv(s)' /\ StreamInv(s)'
  <2>1. StartInv(s)'
    BY <1>1, AtStart DEF TypesInv, StartInv
  <2>2. StreamInv(s)'
    BY <1>1, AtStart DEF TypesInv, StreamInv
  <2> QED
    BY <2>1, <2>2
<1>7. Balanced'
  BY <1>1, <1>2, ReleaseKeepsBalance DEF CallInv
<1> QED
  BY <1>4, <1>5, <1>6, <1>7 DEF IInv

LEMMA ReceiveKeeps ==
  ASSUME IInv, NEW i \in Invocations, Receive(i)
  PROVE  IInv'
<1> USE DEF Receive, Settle, Answered
<1> DEFINE exited == worker[i] = "exited"
<1>1. TypesInv /\ CallInv(i)
  BY DEF IInv
<1>2. exited \in BOOLEAN /\ MaybeRelease(i, exited, TRUE)
  OBVIOUS
<1>3. /\ letGo' \in [Invocations -> BOOLEAN] /\ inFlight' \in Int
      /\ exited => letGo'[i]
      /\ ~exited => letGo'[i] = letGo[i]
      /\ \A j \in Invocations : j # i => letGo'[j] = letGo[j]
  BY <1>2, ReleaseTypes
<1>4. TypesInv'
  BY <1>1, <1>3 DEF TypesInv, Answers, StoppingTypes, stopping
<1>5. ASSUME NEW j \in Invocations
      PROVE  CallInv(j)'
  <2>1. CallInv(j)
    BY DEF IInv
  <2> QED
    BY Domains, <1>1, <1>3, <2>1 DEF CallInv
<1>6. ASSUME NEW s \in Starts
      PROVE  StartInv(s)' /\ StreamInv(s)'
  <2>1. StartInv(s)'
    BY Domains, <1>1, AtStart DEF CallInv, StartInv
  <2>2. StreamInv(s)'
    BY <1>1, AtStart DEF TypesInv, StreamInv
  <2> QED
    BY <2>1, <2>2
<1>7. \A j \in Invocations : stage'[j] = "idle" <=> stage[j] = "idle"
  BY <1>1 DEF TypesInv
<1>8. Balanced'
  BY <1>2, <1>7, ReleaseKeepsBalance
<1> QED
  BY <1>4, <1>5, <1>6, <1>8 DEF IInv

LEMMA ExpireKeeps ==
  ASSUME IInv, NEW i \in Invocations, Expire(i)
  PROVE  IInv'
<1> USE DEF Expire, Answered
<1>1. TypesInv /\ CallInv(i) /\ stage[i] = "waiting"
  BY DEF IInv
<1>2. CASE i \in Starts /\ stage' = [stage EXCEPT ![i] = "grace"]
           /\ UNCHANGED <<got, drained, letGo, inFlight>>
  <2>1. TypesInv'
    BY <1>1, <1>2 DEF TypesInv, StoppingTypes, stopping
  <2>2. ASSUME NEW j \in Invocations
        PROVE  CallInv(j)'
    <3>1. CallInv(j)
      BY DEF IInv
    <3> QED
      BY <1>1, <1>2, <3>1 DEF TypesInv, CallInv
  <2>3. ASSUME NEW s \in Starts
        PROVE  StartInv(s)' /\ StreamInv(s)'
    BY <1>1, <1>2, AtStart DEF TypesInv, StartInv, StreamInv
  <2>4. Balanced'
    <3>1. \A j \in Invocations : stage'[j] = "idle" <=> stage[j] = "idle"
      BY <1>1, <1>2 DEF TypesInv
    <3> QED
      BY <1>2, <3>1, NothingKeepsBalance DEF Pumping
  <2> QED
    BY <2>1, <2>2, <2>3, <2>4 DEF IInv
<1>3. CASE i \in Bounded /\ stage' = [stage EXCEPT ![i] = "returned"]
           /\ got' = [got EXCEPT ![i] = "timeout"] /\ Settle(i)
  <2> USE DEF Settle
  <2> DEFINE exited == worker[i] = "exited"
  <2>1. exited \in BOOLEAN /\ MaybeRelease(i, exited, TRUE)
    BY <1>3
  <2>2. /\ letGo' \in [Invocations -> BOOLEAN] /\ inFlight' \in Int
        /\ exited => letGo'[i]
        /\ ~exited => letGo'[i] = letGo[i]
        /\ \A j \in Invocations : j # i => letGo'[j] = letGo[j]
    BY <2>1, ReleaseTypes
  <2>3. TypesInv'
    BY <1>1, <1>3, <2>2 DEF TypesInv, StoppingTypes, stopping
  <2>4. ASSUME NEW j \in Invocations
        PROVE  CallInv(j)'
    <3>1. CallInv(j) /\ i \notin Closes
      BY <1>3, CallFacts DEF IInv
    <3> QED
      BY Domains, <1>1, <1>3, <2>2, <3>1 DEF CallInv
  <2>5. ASSUME NEW s \in Starts
        PROVE  StartInv(s)' /\ StreamInv(s)'
    BY Domains, <1>1, <1>3, AtStart DEF StartInv, StreamInv
  <2>6. \A j \in Invocations : stage'[j] = "idle" <=> stage[j] = "idle"
    BY <1>1, <1>3 DEF TypesInv
  <2>7. Balanced'
    BY <1>1, <2>1, <2>6, ReleaseKeepsBalance
  <2> QED
    BY <2>3, <2>4, <2>5, <2>7 DEF IInv
<1> QED
  BY <1>2, <1>3

LEMMA GraceLapsesKeeps ==
  ASSUME IInv, NEW s \in Starts, GraceLapses(s)
  PROVE  IInv'
<1> USE DEF GraceLapses, Answered
<1>1. TypesInv /\ CallInv(s) /\ s \in Invocations /\ StartInv(s)
  BY AtStart
<1>2. TypesInv'
  BY <1>1 DEF TypesInv, StoppingTypes, stopping
<1>3. ASSUME NEW j \in Invocations
      PROVE  CallInv(j)'
  <2>1. CallInv(j)
    BY DEF IInv
  <2> QED
    BY <1>1, <2>1 DEF TypesInv, CallInv
<1>4. ASSUME NEW t \in Starts
      PROVE  StartInv(t)' /\ StreamInv(t)'
  <2>1. TypesInv /\ StartInv(t) /\ StreamInv(t) /\ t \in Invocations
        /\ CloseOf(t) \in Invocations /\ CloseOf(t) # s
    BY AtStart
  <2>2. StartInv(t)'
    BY <1>1, <2>1 DEF TypesInv, StartInv
  <2>3. StreamInv(t)'
    BY <1>1, <2>1 DEF TypesInv, StreamInv
  <2> QED
    BY <2>2, <2>3
<1>5. \A j \in Invocations : stage'[j] = "idle" <=> stage[j] = "idle"
  BY <1>1 DEF TypesInv
<1>6. Balanced'
  BY <1>5, NothingKeepsBalance DEF Pumping
<1> QED
  BY <1>2, <1>3, <1>4, <1>6 DEF IInv

LEMMA AbandonKeeps ==
  ASSUME IInv, NEW s \in Starts, Abandon(s)
  PROVE  IInv'
<1> USE DEF Answered
<1>1. /\ cleaner[s] = "waiting" /\ done[s] # "empty" /\ done' = [done EXCEPT ![s] = "empty"]
      /\ UNCHANGED <<got, export, pump, streams, stopping>>
      /\ TypesInv /\ CallInv(s) /\ StartInv(s) /\ StreamInv(s) /\ s \in Invocations
      /\ CloseOf(s) \in Invocations /\ CloseOf(s) \notin Starts /\ CallInv(CloseOf(s))
  BY AtStart DEF Abandon
<1>2. Answered(s)
  BY <1>1 DEF CallInv
<1>3. CASE done[s] = "stream"
  <2>1. /\ cleaner' = [cleaner EXCEPT ![s] = "closing"]
        /\ Spawn(CloseOf(s)) /\ UNCHANGED <<drained, letGo>>
    BY <1>3 DEF Abandon
  <2>2. TypesInv'
    <3>1. inFlight' \in Int
      BY <1>1, <2>1, SpawnCounts
    <3>2. stage' \in [Invocations -> {"idle", "waiting", "grace", "returned"}]
      BY <1>1, <2>1 DEF TypesInv, Spawn
    <3>3. worker' \in [Invocations -> {"none", "calling", "sent", "exited"}]
      BY <1>1, <2>1 DEF TypesInv, Spawn
    <3>4. done' \in [Invocations -> Answers \union {"empty"}]
      BY <1>1 DEF TypesInv
    <3>5. cleaner' \in [Starts -> {"none", "waiting", "closing", "done"}]
      BY <1>1, <2>1 DEF TypesInv
    <3> QED
      BY <1>1, <2>1, <3>1, <3>2, <3>3, <3>4, <3>5 DEF TypesInv, StoppingTypes, stopping
  <2>3. ASSUME NEW j \in Invocations
        PROVE  CallInv(j)'
    <3>1. CallInv(j)
      BY DEF IInv
    <3> QED
      BY <1>1, <2>1, <3>1 DEF TypesInv, CallInv, Spawn
  <2>4. ASSUME NEW t \in Starts
        PROVE  StartInv(t)' /\ StreamInv(t)'
    <3>1. /\ TypesInv /\ StartInv(t) /\ StreamInv(t) /\ t \in Invocations
          /\ CloseOf(t) \in Invocations /\ CloseOf(t) # s /\ CloseOf(s) # t
          /\ CloseOf(s) = CloseOf(t) => s = t
      BY AtStart, CallFacts
    <3>2. StartInv(t)'
      BY <1>1, <1>2, <2>1, <3>1 DEF TypesInv, StartInv, Spawn
    <3>3. StreamInv(t)'
      BY Domains, <1>1, <1>2, <2>1, <3>1 DEF StreamInv, Spawn
    <3> QED
      BY <3>2, <3>3
  <2>5. Balanced'
    BY <1>1, <2>1, SpawnKeepsBalance DEF Pumping
  <2> QED
    BY <2>2, <2>3, <2>4, <2>5 DEF IInv
<1>4. CASE done[s] # "stream"
  <2> DEFINE exited == worker[s] = "exited"
  <2>1. /\ cleaner' = [cleaner EXCEPT ![s] = "done"] /\ UNCHANGED <<stage, worker>>
        /\ drained' = [drained EXCEPT ![s] = TRUE]
        /\ exited \in BOOLEAN /\ MaybeRelease(s, exited, TRUE)
    BY <1>4 DEF Abandon, Settle
  <2>2. /\ letGo' \in [Invocations -> BOOLEAN] /\ inFlight' \in Int
        /\ exited => letGo'[s]
        /\ ~exited => letGo'[s] = letGo[s]
        /\ \A j \in Invocations : j # s => letGo'[j] = letGo[j]
    BY <1>1, <2>1, ReleaseTypes
  <2>3. TypesInv'
    BY <1>1, <2>1, <2>2 DEF TypesInv, StoppingTypes, stopping
  <2>4. ASSUME NEW j \in Invocations
        PROVE  CallInv(j)'
    <3>1. CallInv(j)
      BY DEF IInv
    <3> QED
      BY Domains, <1>1, <1>2, <2>1, <2>2, <3>1 DEF CallInv, StartInv
  <2>5. ASSUME NEW t \in Starts
        PROVE  StartInv(t)' /\ StreamInv(t)'
    <3>1. TypesInv /\ StartInv(t) /\ StreamInv(t) /\ t \in Invocations
      BY AtStart
    <3>2. StartInv(t)'
      BY <1>1, <1>2, <2>1, <3>1 DEF TypesInv, StartInv
    <3>3. done[s] = "nothing"
      BY <1>1, <1>4 DEF TypesInv, Answers
    <3>4. StreamInv(t)'
      BY <1>1, <1>2, <2>1, <3>1, <3>3 DEF TypesInv, StreamInv
    <3> QED
      BY <3>2, <3>4
  <2>6. stage[s] # "idle" /\ pump' = pump
    BY <1>1 DEF StartInv
  <2>7. Balanced'
    BY <1>1, <2>1, <2>6, ReleaseKeepsBalance
  <2> QED
    BY <2>3, <2>4, <2>5, <2>7 DEF IInv
<1> QED
  BY <1>3, <1>4

LEMMA AbandonEndsKeeps ==
  ASSUME IInv, NEW s \in Starts, AbandonEnds(s)
  PROVE  IInv'
<1> USE DEF AbandonEnds, Answered
<1>1. /\ TypesInv /\ CallInv(s) /\ StartInv(s) /\ StreamInv(s) /\ s \in Invocations
      /\ CloseOf(s) \in Invocations /\ CloseOf(s) \in Closes /\ CloseOf(s) \notin Starts
      /\ CallInv(CloseOf(s))
  BY AtStart
<1>2. Answered(CloseOf(s)) /\ s \notin streams
  BY <1>1 DEF CallInv, StreamInv
<1> DEFINE exited == worker[s] = "exited"
<1>3. /\ drained' = [drained EXCEPT ![s] = TRUE]
      /\ exited \in BOOLEAN /\ MaybeRelease(s, exited, TRUE)
  BY DEF Settle
<1>4. /\ letGo' \in [Invocations -> BOOLEAN] /\ inFlight' \in Int
      /\ exited => letGo'[s]
      /\ ~exited => letGo'[s] = letGo[s]
      /\ \A j \in Invocations : j # s => letGo'[j] = letGo[j]
  BY <1>1, <1>3, ReleaseTypes
<1>5. TypesInv'
  BY <1>1, <1>3, <1>4 DEF TypesInv, StoppingTypes, stopping
<1>6. ASSUME NEW j \in Invocations
      PROVE  CallInv(j)'
  <2>1. CallInv(j)
    BY DEF IInv
  <2> QED
    BY Domains, <1>1, <1>3, <1>4, <2>1 DEF CallInv, StartInv
<1>7. ASSUME NEW t \in Starts
      PROVE  StartInv(t)' /\ StreamInv(t)'
  <2>1. TypesInv /\ StartInv(t) /\ StreamInv(t) /\ t \in Invocations
    BY AtStart
  <2>2. StartInv(t)'
    BY <1>1, <1>3, <2>1 DEF TypesInv, StartInv
  <2>3. StreamInv(t)'
    BY <1>1, <1>2, <2>1 DEF TypesInv, StreamInv
  <2> QED
    BY <2>2, <2>3
<1>8. stage[s] # "idle" /\ pump' = pump /\ stage' = stage
  BY <1>1 DEF StartInv
<1>9. Balanced'
  BY <1>1, <1>3, <1>8, ReleaseKeepsBalance
<1> QED
  BY <1>5, <1>6, <1>7, <1>9 DEF IInv

-----------------------------------------------------------------------------
(* The steps of the callers, most of which begin a call.                   *)

LEMMA SpawnTypes ==
  ASSUME IInv, NEW i \in Invocations, Enter(i)
  PROVE  /\ stage' \in [Invocations -> {"idle", "waiting", "grace", "returned"}]
         /\ worker' \in [Invocations -> {"none", "calling", "sent", "exited"}]
         /\ inFlight' \in Int
         /\ \A j \in Invocations : CallInv(j)'
<1>1. TypesInv
  BY DEF IInv
<1>2. stage' \in [Invocations -> {"idle", "waiting", "grace", "returned"}]
  BY <1>1 DEF TypesInv, Enter, Spawn
<1>3. worker' \in [Invocations -> {"none", "calling", "sent", "exited"}]
  BY <1>1 DEF TypesInv, Enter, Spawn
<1>4. inFlight' \in Int
  BY <1>1, SpawnCounts DEF Enter
<1>5. ASSUME NEW j \in Invocations
      PROVE  CallInv(j)'
  <2>1. CallInv(j)
    BY DEF IInv
  <2> QED
    BY Domains, <1>1, <2>1 DEF CallInv, Answered, Enter, Spawn
<1> QED
  BY <1>2, <1>3, <1>4, <1>5

LEMMA ExecuteStreamKeeps ==
  ASSUME IInv, NEW s \in Starts, ExecuteStream(s)
  PROVE  IInv'
<1> USE DEF ExecuteStream, Answered
<1>1. /\ TypesInv /\ CallInv(s) /\ StartInv(s) /\ s \in Invocations
  BY AtStart
<1>2. TypesInv' /\ \A j \in Invocations : CallInv(j)'
  BY <1>1, SpawnTypes DEF TypesInv, ExportStates, StoppingTypes, stopping, Enter
<1>3. ASSUME NEW t \in Starts
      PROVE  StartInv(t)' /\ StreamInv(t)'
  <2>1. /\ TypesInv /\ StartInv(t) /\ StreamInv(t) /\ t \in Invocations
        /\ CloseOf(t) \in Invocations /\ CloseOf(t) # s
    BY AtStart
  <2>2. StartInv(t)'
    BY <1>1, <2>1 DEF TypesInv, CallInv, StartInv, Enter, Spawn
  <2>3. StreamInv(t)'
    BY <1>1, <2>1 DEF TypesInv, CallInv, StreamInv, Enter, Spawn
  <2> QED
    BY <2>2, <2>3
<1>4. Balanced'
  BY <1>1, SpawnKeepsBalance DEF Pumping, Enter
<1> QED
  BY <1>2, <1>3, <1>4 DEF IInv

(* Whoever closes the stream of s does so after its start was answered.    *)
LEMMA EnterCloseKeeps ==
  ASSUME IInv, NEW s \in Starts, Enter(CloseOf(s)), Answered(s),
         export' \in [Starts -> ExportStates],
         pump' \in [Starts -> {"none", "pumping", "closing", "ended"}],
         UNCHANGED streams,
         StoppingTypes',
         \A t \in Starts : export'[t] \in {"started", "reading"} => export[t] \in {"started", "reading"},
         \A t \in Starts : pump'[t] # "none" => pump[t] # "none" /\ export'[t] = export[t],
         Pumping' = Pumping
  PROVE  IInv'
<1> USE DEF Answered
<1>1. /\ TypesInv /\ s \in Invocations /\ CloseOf(s) \in Invocations /\ CloseOf(s) \notin Starts
      /\ stage' = [stage EXCEPT ![CloseOf(s)] = "waiting"]
      /\ worker' = [worker EXCEPT ![CloseOf(s)] = "calling"]
      /\ UNCHANGED <<got, done, cleaner, drained, letGo>>
  BY AtStart DEF Enter, Spawn
<1>2. TypesInv' /\ \A j \in Invocations : CallInv(j)'
  BY <1>1, SpawnTypes DEF TypesInv, StoppingTypes, stopping
<1>3. ASSUME NEW t \in Starts
      PROVE  StartInv(t)' /\ StreamInv(t)'
  <2>1. /\ TypesInv /\ StartInv(t) /\ StreamInv(t) /\ t \in Invocations
        /\ CloseOf(t) \in Invocations /\ CloseOf(s) # t
        /\ CloseOf(t) = CloseOf(s) => s = t
    BY AtStart, CallFacts
  <2>2. StartInv(t)'
    BY Domains, <1>1, <2>1 DEF StartInv
  <2>3. /\ worker'[t] = worker[t]
        /\ worker'[CloseOf(t)] = worker[CloseOf(t)] \/ worker'[CloseOf(t)] = "calling"
    BY Domains, <1>1, <2>1
  <2>4. StreamInv(t)'
    BY <1>1, <2>1, <2>3 DEF StreamInv
  <2> QED
    BY <2>2, <2>4
<1>4. Balanced'
  BY <1>1, SpawnKeepsBalance DEF Enter
<1> QED
  BY <1>2, <1>3, <1>4 DEF IInv

(* A call that neither starts nor closes a stream.                         *)
LEMMA EnterOtherKeeps ==
  ASSUME IInv, NEW i \in Invocations, i \notin Starts, i \notin Closes, Enter(i),
         export' \in [Starts -> ExportStates],
         UNCHANGED <<pump, streams>>,
         StoppingTypes',
         \A t \in Starts : export'[t] \in {"started", "reading"} => export[t] \in {"started", "reading"},
         \A t \in Starts : pump[t] # "none" => export'[t] = export[t]
  PROVE  IInv'
<1>1. /\ TypesInv /\ stage' = [stage EXCEPT ![i] = "waiting"]
      /\ worker' = [worker EXCEPT ![i] = "calling"]
      /\ UNCHANGED <<got, done, cleaner, drained, letGo>>
  BY DEF IInv, Enter, Spawn
<1>2. TypesInv' /\ \A j \in Invocations : CallInv(j)'
  BY <1>1, SpawnTypes DEF TypesInv
<1>3. ASSUME NEW t \in Starts
      PROVE  StartInv(t)' /\ StreamInv(t)'
  <2>1. /\ TypesInv /\ StartInv(t) /\ StreamInv(t) /\ t # i /\ CloseOf(t) # i
        /\ t \in Invocations /\ CloseOf(t) \in Invocations
    BY <1>1, AtStart
  <2>2. /\ stage'[t] = stage[t] /\ stage'[CloseOf(t)] = stage[CloseOf(t)]
        /\ worker'[t] = worker[t] /\ worker'[CloseOf(t)] = worker[CloseOf(t)]
    BY <1>1, <2>1 DEF TypesInv
  <2>3. StartInv(t)'
    BY <1>1, <2>1, <2>2 DEF StartInv, Answered
  <2>4. StreamInv(t)'
    BY <1>1, <2>1, <2>2 DEF StreamInv, Answered
  <2> QED
    BY <2>3, <2>4
<1>4. Balanced'
  BY SpawnKeepsBalance DEF Enter, Pumping
<1> QED
  BY <1>2, <1>3, <1>4 DEF IInv

(* Steps that change no call.                                              *)
LEMMA CallersKeep ==
  ASSUME IInv, UNCHANGED <<stage, got, worker, done, cleaner, drained, letGo, streams>>,
         export' \in [Starts -> ExportStates],
         pump' \in [Starts -> {"none", "pumping", "closing", "ended"}],
         StoppingTypes',
         \A s \in Starts : export'[s] \in {"started", "reading"} \/ pump'[s] # "none" => Answered(s),
         \A s \in Starts : pump'[s] # "none" => export'[s] = "returned",
         inFlight' \in Int, Balanced'
  PROVE  IInv'
<1>1. TypesInv'
  BY DEF IInv, TypesInv, StoppingTypes, stopping
<1>2. ASSUME NEW j \in Invocations
      PROVE  CallInv(j)'
  <2>1. CallInv(j)
    BY DEF IInv
  <2> QED
    BY <2>1 DEF CallInv, Answered
<1>3. ASSUME NEW s \in Starts
      PROVE  StartInv(s)' /\ StreamInv(s)'
  BY AtStart DEF StartInv, StreamInv, Answered
<1> QED
  BY <1>1, <1>2, <1>3 DEF IInv

LEMMA DoStreamReturnsKeeps ==
  ASSUME IInv, NEW s \in Starts, DoStreamReturns(s)
  PROVE  IInv'
<1>1. /\ TypesInv /\ StartInv(s) /\ s \in Invocations /\ Balanced
      /\ export[s] = "starting" /\ UNCHANGED <<pump, streams, stopping>>
  BY AtStart DEF IInv, DoStreamReturns
<1>2. \A t \in Starts : export[t] \in {"started", "reading"} \/ pump[t] # "none" => Answered(t)
  BY AtStart DEF StartInv
<1>3. \A t \in Starts : pump[t] # "none" => export[t] = "returned" /\ t # s
  BY <1>1, AtStart DEF StartInv
<1>4. CASE got[s] = "late stream" /\ export' = [export EXCEPT ![s] = "closing"]
           /\ Enter(CloseOf(s))
  <2>1. Answered(s)
    BY <1>1, <1>4 DEF StartInv
  <2>2. Pumping' = Pumping
    BY <1>1 DEF Pumping
  <2> QED
    BY <1>1, <1>3, <1>4, <2>1, <2>2, EnterCloseKeeps
       DEF TypesInv, ExportStates, StoppingTypes, stopping
<1>5. ASSUME NEW e \in {"returned", "started"}, export' = [export EXCEPT ![s] = e],
             UNCHANGED invocation, e = "started" => got[s] = "stream"
      PROVE  IInv'
  <2>1. Balanced'
    BY <1>1, <1>5 DEF Balanced, Counted, Pumping, invocation
  <2>2. e = "started" => Answered(s)
    BY <1>1, <1>5 DEF StartInv
  <2>3. /\ export' \in [Starts -> ExportStates]
        /\ pump' \in [Starts -> {"none", "pumping", "closing", "ended"}]
        /\ StoppingTypes' /\ inFlight' \in Int
    BY <1>1, <1>5 DEF TypesInv, ExportStates, StoppingTypes, stopping, invocation
  <2>4. \A t \in Starts : /\ export'[t] \in {"started", "reading"} \/ pump'[t] # "none" => Answered(t)
                          /\ pump'[t] # "none" => export'[t] = "returned"
    <3>1. /\ export'[s] = e /\ pump' = pump
          /\ \A t \in Starts : t # s => export'[t] = export[t]
      BY Domains, <1>1, <1>5
    <3> QED
      BY <1>2, <1>3, <2>2, <3>1
  <2> QED
    BY <1>1, <1>5, <2>1, <2>3, <2>4, CallersKeep DEF invocation
<1> QED
  BY <1>4, <1>5 DEF DoStreamReturns

LEMMA RefusedStatusKeeps ==
  ASSUME IInv, NEW s \in Starts, RefusedStatus(s)
  PROVE  IInv'
<1>1. /\ TypesInv /\ ReadOf(s) \in Invocations /\ ReadOf(s) \notin Starts
      /\ ReadOf(s) \notin Closes /\ Enter(ReadOf(s))
      /\ UNCHANGED <<pump, streams, stopping>>
  BY CallFacts DEF IInv, RefusedStatus
<1>2. \A t \in Starts : pump[t] # "none" => export[t] = "returned" /\ t # s
  BY AtStart DEF StartInv, RefusedStatus
<1>3. /\ export' \in [Starts -> ExportStates] /\ StoppingTypes'
      /\ \A t \in Starts : /\ export'[t] \in {"started", "reading"} => export[t] \in {"started", "reading"}
                           /\ pump[t] # "none" => export'[t] = export[t]
  BY <1>1, <1>2 DEF TypesInv, ExportStates, StoppingTypes, stopping, RefusedStatus
<1> QED
  BY <1>1, <1>3, EnterOtherKeeps

LEMMA RefusalReadKeeps ==
  ASSUME IInv, NEW s \in Starts, RefusalRead(s)
  PROVE  IInv'
<1>1. TypesInv /\ StartInv(s) /\ Answered(s)
  BY AtStart DEF StartInv, RefusalRead
<1>2. \A t \in Starts : pump[t] # "none" => export[t] = "returned" /\ t # s
  BY AtStart DEF StartInv, RefusalRead
<1>3. Pumping' = Pumping
  BY DEF RefusalRead, Pumping
<1> QED
  BY <1>1, <1>2, <1>3, EnterCloseKeeps
     DEF TypesInv, ExportStates, StoppingTypes, stopping, RefusalRead

LEMMA ExportClosesKeeps ==
  ASSUME IInv, NEW s \in Starts, ExportCloses(s)
  PROVE  IInv'
<1>1. TypesInv /\ StartInv(s) /\ Balanced
  BY AtStart DEF IInv
<1>2. \A t \in Starts : export[t] \in {"started", "reading"} \/ pump[t] # "none" => Answered(t)
  BY AtStart DEF StartInv
<1>3. \A t \in Starts : pump[t] # "none" => export[t] = "returned"
  BY AtStart DEF StartInv
<1>4. Balanced'
  BY <1>1 DEF Balanced, Counted, Pumping, ExportCloses, invocation
<1> QED
  BY <1>1, <1>2, <1>3, <1>4, CallersKeep
     DEF TypesInv, ExportStates, StoppingTypes, stopping, ExportCloses, invocation

LEMMA StartPumpKeeps ==
  ASSUME IInv, NEW s \in Starts, StartPump(s)
  PROVE  IInv'
<1>1. TypesInv /\ StartInv(s) /\ Balanced /\ Answered(s) /\ pump[s] = "none"
  BY AtStart DEF IInv, StartInv, StartPump
<1>2. \A t \in Starts : export[t] \in {"started", "reading"} \/ pump[t] # "none" => Answered(t)
  BY AtStart DEF StartInv
<1>3. \A t \in Starts : pump[t] # "none" => export[t] = "returned"
  BY AtStart DEF StartInv
<1>4. inFlight \in Int /\ inFlight = Cardinality(Counted) + Cardinality(Pumping)
  BY <1>1 DEF TypesInv, Balanced
<1>5. Balanced'
  <2>1. Counted' = Counted
    BY DEF StartPump, Counted
  <2>2. s \notin Pumping /\ Pumping' = Pumping \union {s}
    BY <1>1 DEF TypesInv, StartPump, Pumping
  <2>3. Cardinality(Pumping') = Cardinality(Pumping) + 1
    BY <2>2, FiniteCounts, FS_AddElement
  <2> QED
    BY <1>4, <2>1, <2>3, FiniteCounts DEF Balanced, StartPump
<1>6. inFlight' \in Int
  BY <1>4 DEF StartPump
<1>7. /\ export' \in [Starts -> ExportStates]
      /\ pump' \in [Starts -> {"none", "pumping", "closing", "ended"}]
      /\ StoppingTypes'
  BY <1>1 DEF TypesInv, StartPump, ExportStates, StoppingTypes, stopping
<1>8. \A t \in Starts : /\ export'[t] \in {"started", "reading"} \/ pump'[t] # "none" => Answered(t)
                        /\ pump'[t] # "none" => export'[t] = "returned"
  BY Domains, <1>1, <1>2, <1>3 DEF StartPump
<1> QED
  BY <1>5, <1>6, <1>7, <1>8, CallersKeep DEF StartPump

LEMMA PumpClosesKeeps ==
  ASSUME IInv, NEW s \in Starts, PumpCloses(s)
  PROVE  IInv'
<1>1. TypesInv /\ StartInv(s) /\ Answered(s)
  BY AtStart DEF StartInv, PumpCloses
<1>2. Pumping' = Pumping
  BY <1>1 DEF TypesInv, PumpCloses, Pumping
<1> QED
  BY <1>1, <1>2, EnterCloseKeeps DEF TypesInv, StoppingTypes, stopping, PumpCloses

LEMMA PumpEndsKeeps ==
  ASSUME IInv, NEW s \in Starts, PumpEnds(s)
  PROVE  IInv'
<1>1. TypesInv /\ StartInv(s) /\ Balanced
  BY AtStart DEF IInv
<1>2. \A t \in Starts : export[t] \in {"started", "reading"} \/ pump[t] # "none" => Answered(t)
  BY AtStart DEF StartInv
<1>3. \A t \in Starts : pump[t] # "none" => export[t] = "returned"
  BY AtStart DEF StartInv
<1>4. inFlight \in Int /\ inFlight = Cardinality(Counted) + Cardinality(Pumping)
  BY <1>1 DEF TypesInv, Balanced
<1>5. Balanced'
  <2>1. Counted' = Counted
    BY DEF PumpEnds, Counted
  <2>2. s \in Pumping /\ Pumping' = Pumping \ {s}
    BY <1>1 DEF TypesInv, PumpEnds, Pumping
  <2>3. Cardinality(Pumping') = Cardinality(Pumping) - 1
    BY <2>2, FiniteCounts, FS_RemoveElement
  <2> QED
    BY <1>4, <2>1, <2>3, FiniteCounts DEF Balanced, PumpEnds
<1>6. inFlight' \in Int
  BY <1>4 DEF PumpEnds
<1>7. /\ pump' \in [Starts -> {"none", "pumping", "closing", "ended"}]
      /\ \A t \in Starts : pump'[t] # "none" => pump[t] # "none"
  BY <1>1 DEF TypesInv, PumpEnds
<1>8. UNCHANGED <<stage, got, worker, done, cleaner, drained, letGo, export, streams, stopping>>
  BY DEF PumpEnds
<1> QED
  BY <1>1, <1>2, <1>3, <1>5, <1>6, <1>7, <1>8, CallersKeep
     DEF TypesInv, StoppingTypes, stopping

LEMMA BoundedCallKeeps ==
  ASSUME IInv, NEW b \in Bounded, BoundedCall(b)
  PROVE  IInv'
<1>1. /\ TypesInv /\ b \in Invocations /\ b \notin Starts /\ b \notin Closes
      /\ Enter(b) /\ UNCHANGED <<export, pump, streams, stopping>>
  BY CallFacts DEF IInv, BoundedCall
<1>2. export' \in [Starts -> ExportStates] /\ StoppingTypes'
  BY <1>1 DEF TypesInv, StoppingTypes, stopping
<1> QED
  BY <1>1, <1>2, EnterOtherKeeps

(* Shutdown and the engine's end touch no call.                            *)
LEMMA ShutdownKeeps ==
  ASSUME IInv, StopPredictor \/ EngineExits \/ WaitStopped \/ WaitForInFlight \/ UNCHANGED vars
  PROVE  IInv'
<1> USE DEF StopPredictor, EngineExits, WaitStopped, WaitForInFlight, vars
<1>1. UNCHANGED <<invocation, export, pump, streams>>
  OBVIOUS
<1>2. TypesInv /\ Balanced
  BY DEF IInv
<1>3. StoppingTypes'
  <2>1. StoppingTypes
    BY <1>2 DEF TypesInv
  <2>2. EngineAlive = TRUE \/ EngineAlive = FALSE
    BY DEF EngineAlive
  <2>3. CASE WaitStopped
    BY <2>1, <2>2, <2>3 DEF StoppingTypes
  <2>4. CASE StopPredictor \/ EngineExits \/ WaitForInFlight \/ UNCHANGED vars
    BY <2>1, <2>4 DEF StoppingTypes, stopping
  <2> QED
    BY <2>3, <2>4
<1> HIDE DEF StopPredictor, EngineExits, WaitStopped, WaitForInFlight, vars
<1>4. Balanced'
  BY <1>1, <1>2 DEF Balanced, Counted, Pumping, invocation
<1>5. \A t \in Starts : /\ export[t] \in {"started", "reading"} \/ pump[t] # "none" => Answered(t)
                        /\ pump[t] # "none" => export[t] = "returned"
  BY AtStart DEF StartInv
<1> QED
  BY <1>1, <1>2, <1>3, <1>4, <1>5, CallersKeep DEF TypesInv, invocation

LEMMA NextIInv ==
  ASSUME IInv, [Next]_vars
  PROVE  IInv'
<1>1. ASSUME NEW s \in Starts, ExecuteStream(s) \/ StartStep(s) \/ RefusedStatus(s)
      PROVE  IInv'
  BY <1>1, ExecuteStreamKeeps, RefusedStatusKeeps, RefusalReadKeeps, GraceLapsesKeeps,
     AbandonKeeps, AbandonEndsKeeps, DoStreamReturnsKeeps, ExportClosesKeeps, StartPumpKeeps,
     PumpClosesKeeps, PumpEndsKeeps DEF StartStep
<1>2. ASSUME NEW b \in Bounded, BoundedCall(b)
      PROVE  IInv'
  BY <1>2, BoundedCallKeeps
<1>3. ASSUME NEW i \in Invocations, HostAnswers(i) \/ CallStep(i) \/ Expire(i)
      PROVE  IInv'
  BY <1>3, HostAnswersKeeps, WorkerExitsKeeps, ReceiveKeeps, ExpireKeeps DEF CallStep
<1>4. CASE StopPredictor \/ EngineExits \/ WaitStopped \/ WaitForInFlight \/ Rest \/ UNCHANGED vars
  BY <1>4, ShutdownKeeps DEF Rest
<1> QED
  BY <1>1, <1>2, <1>3, <1>4 DEF Next

-----------------------------------------------------------------------------
(* The drain.                                                              *)

(* After the drain only a call of the engine is between its entry and its  *)
(* release: no other callback is inside the host, no abandon goroutine is  *)
(* at work and no export runs.                                             *)
LEMMA AtRest ==
  ASSUME IInv, QuietInv, shutdown = "drained"
  PROVE  /\ \A i \in Invocations \ Counted :
              worker[i] \notin {"calling", "sent"} /\ stage[i] \in {"idle", "returned"}
         /\ \A s \in Starts : /\ s \in Invocations \ Counted
                              /\ cleaner[s] \notin {"waiting", "closing"}
         /\ Pumping = {} /\ ~ExportRunning
<1>1. Counted \subseteq EngineCalls /\ Pumping = {} /\ ~ExportRunning
  BY DEF QuietInv
<1>2. ASSUME NEW i \in Invocations \ Counted
      PROVE  worker[i] \notin {"calling", "sent"} /\ stage[i] \in {"idle", "returned"}
  <2>1. stage[i] = "idle" \/ letGo[i]
    BY DEF Counted
  <2> QED
    BY <2>1 DEF IInv, CallInv
<1>3. ASSUME NEW s \in Starts
      PROVE  s \in Invocations \ Counted /\ cleaner[s] \notin {"waiting", "closing"}
  <2>1. s \in Invocations \ Counted
    BY <1>1, AtStart, CallsAssumption
  <2>2. stage[s] = "idle" \/ letGo[s]
    BY <2>1 DEF Counted
  <2> QED
    BY <2>1, <2>2, AtStart DEF CallInv, StartInv
<1> QED
  BY <1>1, <1>2, <1>3

(* No step but ExecuteStream begins an export, and that one needs a        *)
(* serving plugin.                                                         *)
LEMMA ExportsStayReturned ==
  ASSUME IInv, [Next]_vars, shutdown # "serving", ~ExportRunning
  PROVE  ~ExportRunning'
<1>1. \A s \in Starts : export[s] \notin {"starting", "started", "reading", "closing"}
  BY DEF ExportRunning
<1>2. export' = export
  BY <1>1 DEF Next, StartStep, CallStep, ExecuteStream, RefusedStatus, RefusalRead, GraceLapses,
     Abandon, AbandonEnds, DoStreamReturns, ExportCloses, StartPump, PumpCloses, PumpEnds,
     BoundedCall, HostAnswers, WorkerExits, Receive, Expire, StopPredictor, EngineExits,
     WaitStopped, WaitForInFlight, Rest, vars
<1> QED
  BY <1>2 DEF ExportRunning

(* Once drained, nothing counts itself in again but an engine that overran *)
(* the wait of its stop.                                                   *)
LEMMA DrainedStays ==
  ASSUME IInv, QuietInv, [Next]_vars, shutdown = "drained"
  PROVE  /\ Pumping' = {} /\ overran' = overran
         /\ Counted' \subseteq EngineCalls
         /\ ~overran => Counted' = {}
<1>1. /\ TypesInv /\ Pumping = {} /\ Counted \subseteq EngineCalls
      /\ ~overran => Counted = {} /\ ~EngineAlive
  BY DEF IInv, QuietInv, EngineAlive
<1>2. /\ \A s \in Starts : cleaner[s] \notin {"waiting", "closing"} /\ s \in Invocations \ Counted
      /\ \A i \in Invocations \ Counted : stage[i] \in {"idle", "returned"}
      /\ ~ExportRunning
  BY AtRest
<1>3. \A s \in Starts : /\ export[s] \notin {"starting", "started", "reading", "closing"}
                        /\ pump[s] \notin {"pumping", "closing"}
                        /\ stage[s] # "grace"
  BY <1>1, <1>2 DEF ExportRunning, Pumping
<1>4. ASSUME NEW s \in Starts, ExecuteStream(s) \/ StartStep(s) \/ RefusedStatus(s)
      PROVE  FALSE
  BY <1>2, <1>3, <1>4 DEF StartStep, ExecuteStream, RefusedStatus, RefusalRead, GraceLapses,
     Abandon, AbandonEnds, DoStreamReturns, ExportCloses, StartPump, PumpCloses, PumpEnds
<1>5. ASSUME NEW b \in Bounded, BoundedCall(b)
      PROVE  /\ Pumping' = {} /\ overran' = overran /\ overran
             /\ Counted' \subseteq EngineCalls
  <2>1. b \in EngineCalls /\ EngineAlive
    BY <1>1, <1>2, <1>5 DEF BoundedCall
  <2>2. /\ stage' = [stage EXCEPT ![b] = "waiting"]
        /\ UNCHANGED <<letGo, pump, overran>>
    BY <1>5 DEF BoundedCall, Enter, Spawn, stopping
  <2>3. Counted' \subseteq Counted \union {b}
    BY <1>1, <2>2 DEF TypesInv, Counted
  <2> QED
    BY <1>1, <2>1, <2>2, <2>3 DEF Pumping
<1>6. ASSUME NEW i \in Invocations, HostAnswers(i) \/ CallStep(i) \/ Expire(i)
      PROVE  Pumping' = {} /\ overran' = overran /\ Counted' \subseteq Counted
  <2>1. UNCHANGED <<pump, overran>>
    BY <1>6 DEF CallStep, HostAnswers, WorkerExits, Receive, Expire, stopping
  <2>2. \A j \in Invocations : stage[j] = "idle" => stage'[j] = "idle"
    BY <1>1, <1>6 DEF TypesInv, CallStep, HostAnswers, WorkerExits, Receive, Expire
  <2>3. letGo' = letGo \/ letGo' = [letGo EXCEPT ![i] = TRUE]
    BY <1>6 DEF CallStep, HostAnswers, WorkerExits, Receive, Expire, Settle, MaybeRelease
  <2>4. \A j \in Invocations : letGo[j] => letGo'[j]
    BY <1>1, <2>3 DEF TypesInv
  <2>5. Counted' \subseteq Counted
    BY <2>2, <2>4 DEF Counted
  <2> QED
    BY <1>1, <2>1, <2>5 DEF Pumping
<1>7. ASSUME EngineExits \/ Rest \/ UNCHANGED vars
      PROVE  Pumping' = {} /\ overran' = overran /\ Counted' = Counted
  BY <1>1, <1>7 DEF EngineExits, Rest, vars, invocation, stopping, Pumping, Counted
<1>8. ~StopPredictor /\ ~WaitStopped /\ ~WaitForInFlight
  BY DEF StopPredictor, WaitStopped, WaitForInFlight
<1> QED
  BY <1>1, <1>4, <1>5, <1>6, <1>7, <1>8 DEF Next

(* WaitForInFlight finds zero: by the balance nothing is counted.          *)
LEMMA ZeroIsQuiet ==
  ASSUME IInv, inFlight = 0
  PROVE  Counted = {} /\ Pumping = {}
<1>1. Cardinality(Counted) + Cardinality(Pumping) = 0
  BY DEF IInv, Balanced
<1>2. Cardinality(Counted) = 0 /\ Cardinality(Pumping) = 0
  BY <1>1, FiniteCounts
<1> QED
  BY <1>2, FiniteCounts, FS_EmptySet

(* Only shutdown's own steps move it on; only the engine's move the engine. *)
LEMMA ShutdownMoves ==
  ASSUME [Next]_vars
  PROVE  \/ StopPredictor \/ EngineExits \/ WaitStopped \/ WaitForInFlight
         \/ UNCHANGED stopping
BY DEF Next, StartStep, CallStep, ExecuteStream, RefusedStatus, RefusalRead, GraceLapses,
   Abandon, AbandonEnds, DoStreamReturns, ExportCloses, StartPump, PumpCloses, PumpEnds,
   BoundedCall, HostAnswers, WorkerExits, Receive, Expire, Rest, vars

LEMMA NextQuietInv ==
  ASSUME ExportsReturn, IInv, QuietInv, [Next]_vars
  PROVE  QuietInv'
<1>1. shutdown' # "serving" => ~ExportRunning'
  <2>1. CASE shutdown = "serving"
    <3>1. CASE StopPredictor
      BY <3>1 DEF StopPredictor, ExportRunning
    <3>2. CASE ~StopPredictor
      BY <2>1, <3>2, ShutdownMoves DEF EngineExits, WaitStopped, WaitForInFlight, stopping
    <3> QED
      BY <3>1, <3>2
  <2>2. CASE shutdown # "serving"
    BY <2>2, ExportsStayReturned DEF QuietInv
  <2> QED
    BY <2>1, <2>2
<1>2. shutdown' \in {"draining", "drained", "gave up"} /\ ~overran' => engine' = "exited"
  <2>1. engine \in {"running", "stopping", "exited"} /\ overran \in BOOLEAN
    BY DEF IInv, TypesInv, StoppingTypes
  <2> QED
    BY <2>1, ShutdownMoves DEF QuietInv, StopPredictor, EngineExits, WaitStopped, WaitForInFlight,
       EngineAlive, stopping
<1>3. shutdown' = "drained" => Pumping' = {} /\ Counted' \subseteq EngineCalls
                               /\ (~overran' => Counted' = {})
  <2>1. CASE shutdown = "drained"
    BY <2>1, DrainedStays
  <2>2. CASE WaitForInFlight /\ inFlight = 0
    <3>1. Counted = {} /\ Pumping = {}
      BY <2>2, ZeroIsQuiet
    <3> QED
      BY <2>2, <3>1 DEF WaitForInFlight, invocation, Counted, Pumping
  <2>3. CASE shutdown # "drained" /\ ~(WaitForInFlight /\ inFlight = 0)
    BY <2>3, ShutdownMoves DEF StopPredictor, EngineExits, WaitStopped, WaitForInFlight, stopping
  <2> QED
    BY <2>1, <2>2, <2>3
<1> QED
  BY <1>1, <1>2, <1>3 DEF QuietInv

-----------------------------------------------------------------------------
(* The theorems.                                                           *)

(* The inductive invariant holds in every reachable state: what the two    *)
(* goroutines of callWithTimeoutResult, the abandon goroutine, the pump and *)
(* the drain know of one another (hostbridge.go).                           *)
THEOREM Invariance == Spec => []IInv
<1>1. Init => IInv
  BY InitIInv
<1>2. IInv /\ [Next]_vars => IInv'
  BY NextIInv
<1> QED
  BY <1>1, <1>2, PTL DEF Spec

(* Every variable keeps its type: in particular the WaitGroup's counter    *)
(* never goes negative, which would panic in hostbridge.go's Done.         *)
THEOREM TypeCorrect == Spec => []TypeOK
<1>1. IInv => TypeOK
  <2> SUFFICES ASSUME IInv PROVE TypeOK
    OBVIOUS
  <2>1. inFlight \in Nat
    BY FiniteCounts DEF IInv, Balanced
  <2> QED
    BY <2>1 DEF IInv, TypesInv, ExportStates, StoppingTypes, TypeOK
<1> QED
  BY <1>1, Invariance, PTL

(* For any number of executions and calls, inFlight counts exactly the     *)
(* calls not completed and the pumps running, and no count is given back   *)
(* before its callback has left the host and the late stream is closed.    *)
THEOREM CountsBalanced == Spec => []InFlightBalanced
<1>1. IInv => InFlightBalanced
  <2> SUFFICES ASSUME IInv PROVE InFlightBalanced
    OBVIOUS
  <2>1. ASSUME NEW s \in Starts, letGo[s]
        PROVE  /\ worker[s] = "exited" /\ done[s] = "empty"
               /\ cleaner[s] \in {"none", "done"}
               /\ cleaner[s] = "done" => s \notin streams
    BY <2>1, AtStart DEF CallInv, StartInv, StreamInv
  <2> QED
    BY <2>1 DEF InFlightBalanced, ReleasedIsSettled, IInv, Balanced
<1> QED
  BY <1>1, Invariance, PTL

(* If the host lets every export return before it asks for shutdown, then  *)
(* once WaitForInFlight has reported zero no goroutine of the plugin is    *)
(* inside the host or will ever enter it again, but for a predictor engine *)
(* that was still alive when the bounded wait for its stop ran out         *)
(* (predictor.go:118-127), and none at all if that wait did not run out.   *)
THEOREM DrainStaysQuiet == ASSUME ExportsReturn PROVE Spec => []DrainedIsQuiet
<1>1. Init => IInv /\ QuietInv
  BY InitIInv
<1>2. IInv /\ QuietInv /\ [Next]_vars => (IInv /\ QuietInv)'
  BY NextIInv, NextQuietInv
<1>3. IInv /\ QuietInv => DrainedIsQuiet
  <2> SUFFICES ASSUME IInv, QuietInv, shutdown = "drained",
                      NEW i \in Invocations, worker[i] \in {"calling", "sent"}
               PROVE  overran /\ i \in EngineCalls
    BY DEF DrainedIsQuiet, QuietInv
  <2>1. i \in Counted
    BY AtRest
  <2> QED
    BY <2>1 DEF QuietInv, IInv, TypesInv, StoppingTypes
<1> QED
  BY <1>1, <1>2, <1>3, PTL DEF Spec
=============================================================================
