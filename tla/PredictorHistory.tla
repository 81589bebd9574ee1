-------------------------- MODULE PredictorHistory --------------------------
(***************************************************************************)
(* What a predictor.Engine remembers of one account, and its history file  *)
(* (predictor.go, store.go and persist.go of internal/predictor): samplers *)
(* feed the store, a flusher appends what is new to the file and rewrites  *)
(* the file when it is large, a restart restores the store from the file.  *)
(* The process may crash at any moment, and any disk operation may fail.   *)
(*                                                                         *)
(* Accounts and windows share buffer and file and nothing else: the model  *)
(* has one window and one usage hour of one account.  A sample is its      *)
(* timestamp, in seconds as the file has it (two samples of one second     *)
(* would restore as one); the clock may step back.  An hour is known by    *)
(* its completeness, not its amount; labels, and the wall-clock expiry of  *)
(* hours, are left out.  A crash is one of the process: what was written   *)
(* to the file is there.                                                   *)
(***************************************************************************)
EXTENDS Integers, Sequences, SequencesExt

CONSTANTS
  Times,            (* the seconds at which samples can be taken           *)
  History,          (* the retained span                                   *)
  CompactLines,     (* persistCompactBytes: a longer file is rewritten     *)
  MaxObservations   (* bound: observations in a behaviour                  *)

ASSUME HistoryAssumption ==
  /\ Times \subseteq Nat \ {0}
  /\ History \in Nat /\ CompactLines \in Nat /\ MaxObservations \in Nat

VARIABLES
  phase,     (* the engine: "down", "running", "stopping", "joined"        *)
  alive,     (* its loops that have not returned                           *)
  store,     (* Store: the series, lastOK and the hour                     *)
  dirty,     (* Store.dirty                                                *)
  at,        (* where the goroutine that flushes is                        *)
  batch,     (* what it drained, or is about to rewrite the file with      *)
  final,     (* the final flush has begun                                  *)
  lines,     (* the history file ...                                       *)
  open,      (* ... whose last line may lack its newline                   *)
  saving,    (* e.perse # nil                                              *)
  status,    (* PersistStatus.State                                        *)
  soiled,    (* history: this engine appended to an open line, or an       *)
             (* append of its own failed                                   *)
  observed   (* history: observations so far                               *)

engine == <<phase, alive, final>>
flush  == <<at, batch>>
file   == <<lines, open>>
vars   == <<engine, store, dirty, flush, file, saving, status, soiled, observed>>

Sample(t)  == [kind |-> "sample", at |-> t]
Hour(full) == [kind |-> "hour", full |-> full]
Junk       == [kind |-> "junk"]     (* what no record decodes from *)

Loops == {"sampler", "flusher"}

Empty == [series |-> <<>>, lastOK |-> 0, hour |-> "none"]

Init ==
  /\ phase = "down" /\ alive = {} /\ final = FALSE
  /\ store = Empty /\ dirty = <<>>
  /\ at = "idle" /\ batch = <<>>
  /\ lines = <<>> /\ open = FALSE
  /\ saving = FALSE /\ status = "ok" /\ soiled = FALSE
  /\ observed = 0

-----------------------------------------------------------------------------
(* Store.                                                                  *)

Newest(series) == Max(ToSet(series))

Trim(series, newest) ==
  LET kept[n \in 0..Len(series)] ==
        IF n = 0 THEN <<>>
        ELSE IF series[n] >= newest - History THEN Append(kept[n - 1], series[n])
        ELSE kept[n - 1]
  IN  kept[Len(series)]

(* mergeHour: only a complete bucket replaces one, and then a partial one. *)
HourChanges(hour, full) == hour = "none" \/ (full /\ hour = "partial")

Merged(hour, full) ==
  IF HourChanges(hour, full) THEN IF full THEN "full" ELSE "partial" ELSE hour

(* Mutation of Ingested: the key's last observation is not restored. *)
IngestedNoLastOK(s, line) ==
  IF line.kind = "sample" /\ line.at \notin ToSet(s.series)
  THEN [s EXCEPT !.series = Append(@, line.at)]
  ELSE IF line.kind = "hour" THEN [s EXCEPT !.hour = Merged(@, line.full)]
  ELSE s

(* ingestLocked, for a line of the file. *)
Ingested(s, line) ==
  IF line.kind = "sample" /\ line.at \notin ToSet(s.series)
  THEN [s EXCEPT !.series = Append(@, line.at), !.lastOK = Max({@, line.at})]
  ELSE IF line.kind = "hour" THEN [s EXCEPT !.hour = Merged(@, line.full)]
  ELSE s

Loaded(ls) ==
  LET loaded[n \in 0..Len(ls)] == IF n = 0 THEN Empty ELSE Ingested(loaded[n - 1], ls[n])
  IN  loaded[Len(ls)]

TrimRetention(s) ==
  IF s.series = <<>> THEN s
  ELSE [s EXCEPT !.series = Trim(@, Newest(@))]

SnapshotRecords(s) ==
  [i \in 1..Len(s.series) |-> Sample(s.series[i])]
  \o (IF s.hour = "none" THEN <<>> ELSE <<Hour(s.hour = "full")>>)

(* Apply: an observation no newer than the last one is refused whole; a    *)
(* fetch need not have the window, nor the hour, and a complete hour is    *)
(* recorded again when its amount was revised.                             *)
Apply ==
  /\ "sampler" \in alive
  /\ observed < MaxObservations
  /\ observed' = observed + 1
  /\ \E t \in Times, sampled, revised \in BOOLEAN,
        report \in {"none", "partial", "full"} :
       /\ t > store.lastOK
       /\ LET merges == \/ report # "none" /\ HourChanges(store.hour, report = "full")
                        \/ report = "full" /\ revised
          IN
            /\ store' = [series |-> IF sampled THEN Trim(Append(store.series, t), t)
                                    ELSE store.series,
                         lastOK |-> t,
                         hour   |-> IF merges THEN report ELSE store.hour]
            /\ dirty' = dirty \o (IF sampled THEN <<Sample(t)>> ELSE <<>>)
                              \o (IF merges THEN <<Hour(report = "full")>> ELSE <<>>)
  /\ UNCHANGED <<engine, flush, file, saving, status, soiled>>

-----------------------------------------------------------------------------
(* The file.                                                               *)

(* Bytes appended after an unterminated line become part of that line. *)
Written(ls, isOpen, piece) ==
  IF isOpen /\ piece # <<>> THEN Front(ls) \o <<Junk>> \o Tail(piece) ELSE ls \o piece

(* A write of records may stop anywhere: after whole lines, within a line, *)
(* or just before its newline.                                             *)
WritesPart(recs) ==
  \E n \in 0..(Len(recs) - 1) :
    LET whole == SubSeq(recs, 1, n) IN
      \/ /\ lines' = Written(lines, open, whole)
         /\ open' = (open /\ whole = <<>>)
      \/ /\ lines' = Written(lines, open, Append(whole, Junk))
         /\ open' = TRUE
      \/ /\ lines' = Written(lines, open, Append(whole, recs[n + 1]))
         /\ open' = TRUE

(* The tmp file is renamed over the old one. *)
Rewritten(recs) == lines' = recs /\ open' = FALSE

-----------------------------------------------------------------------------
(* Engine.                                                                 *)

Decodable(ls) == {i \in DOMAIN ls : ls[i].kind # "junk"}

(* Mutation of LoadFails: the engine goes on saving. *)
LoadFailsKeepsSaving ==
  /\ \E n \in 0..Len(lines) : store' = Loaded(SubSeq(lines, 1, n))
  /\ saving' = TRUE /\ status' = "load-failed"
  /\ UNCHANGED file

(* restorePersisted: reading fails, perhaps half-way. *)
LoadFails ==
  /\ \E n \in 0..Len(lines) : store' = Loaded(SubSeq(lines, 1, n))
  /\ saving' = FALSE /\ status' = "load-failed"
  /\ UNCHANGED file

(* There is no file, or none of its lines decodes. *)
NothingToRestore ==
  /\ Decodable(lines) = {}
  /\ store' = Empty
  /\ saving' = TRUE /\ status' = "ok"
  /\ UNCHANGED file

(* The file is compacted at once; when that fails, never again. *)
Restores ==
  /\ Decodable(lines) # {}
  /\ store' = TrimRetention(Loaded(lines))
  /\ \/ /\ Rewritten(SnapshotRecords(store'))
        /\ saving' = TRUE /\ status' = "ok"
     \/ /\ saving' = FALSE /\ status' = "write-failed"
        /\ UNCHANGED file

(* NewEngine and Start, after a crash, a restart or a reconfigure. *)
Start ==
  /\ phase \in {"down", "joined"}
  /\ phase' = "running" /\ alive' = Loops /\ final' = FALSE
  /\ LoadFails \/ NothingToRestore \/ Restores
  /\ soiled' = open'
  /\ dirty' = <<>>
  /\ UNCHANGED <<flush, observed>>

Stop ==
  /\ phase = "running"
  /\ phase' = "stopping"
  /\ UNCHANGED <<alive, final, store, dirty, flush, file, saving, status, soiled, observed>>

(* A loop sees the stop channel; the flusher not while it flushes. *)
LoopReturns(l) ==
  /\ phase = "stopping"
  /\ l = "flusher" => at = "idle"
  /\ alive' = alive \ {l}
  /\ l \in alive
  /\ UNCHANGED <<phase, final, store, dirty, flush, file, saving, status, soiled, observed>>

(* A flush begins: on a tick, or once every loop has returned. *)
FlushBegins ==
  \/ "flusher" \in alive /\ UNCHANGED final
  \/ phase = "stopping" /\ alive = {} /\ ~final /\ final' = TRUE

DrainDirty ==
  /\ at = "idle" /\ saving
  /\ FlushBegins
  /\ batch' = dirty
  /\ dirty' = <<>>
  /\ at' = IF dirty = <<>> THEN "compact" ELSE "append"
  /\ UNCHANGED <<phase, alive, store, file, saving, status, soiled, observed>>

(* Mutation of AppendBatch: the buffer is cleared once its records are in  *)
(* the file, with what was sampled meanwhile.                              *)
AppendBatchClears ==
  /\ at = "append"
  /\ at' = "compact"
  /\ batch' = <<>> /\ dirty' = <<>>
  /\ lines' = Written(lines, open, batch) /\ open' = FALSE
  /\ status' = "ok"
  /\ UNCHANGED <<engine, store, saving, soiled, observed>>

AppendBatch ==
  /\ at = "append"
  /\ at' = "compact"
  /\ batch' = <<>>
  /\ \/ /\ lines' = Written(lines, open, batch) /\ open' = FALSE
        /\ status' = "ok"
        /\ UNCHANGED soiled
     \/ /\ WritesPart(batch)
        /\ status' = IF status = "ok" THEN "write-failed" ELSE status
        /\ soiled' = TRUE
  /\ UNCHANGED <<engine, store, dirty, saving, observed>>

(* compactIfLarge: a snapshot of the store ... *)
Compact ==
  /\ at = "compact"
  /\ IF Len(lines) > CompactLines
     THEN at' = "rewrite" /\ batch' = SnapshotRecords(store)
     ELSE at' = "idle" /\ UNCHANGED batch
  /\ UNCHANGED <<engine, store, dirty, file, saving, status, soiled, observed>>

(* ... replaces the file, or the old file stays. *)
Rewrite ==
  /\ at = "rewrite"
  /\ at' = "idle" /\ batch' = <<>>
  /\ Rewritten(batch) \/ UNCHANGED file
  /\ UNCHANGED <<engine, store, dirty, saving, status, soiled, observed>>

(* Mutation of Joins: done is closed before the final flush. *)
JoinsUnflushed ==
  /\ phase = "stopping" /\ alive = {} /\ at = "idle"
  /\ phase' = "joined"
  /\ UNCHANGED <<alive, final, store, dirty, flush, file, saving, status, soiled, observed>>

(* Mutation of Joins: the loops are not awaited. *)
JoinsEarly ==
  /\ phase = "stopping" /\ at = "idle"
  /\ saving => final
  /\ phase' = "joined"
  /\ UNCHANGED <<alive, final, store, dirty, flush, file, saving, status, soiled, observed>>

(* wg.Wait, finalFlush and close(done). *)
Joins ==
  /\ phase = "stopping" /\ alive = {} /\ at = "idle"
  /\ saving => final
  /\ phase' = "joined"
  /\ UNCHANGED <<alive, final, store, dirty, flush, file, saving, status, soiled, observed>>

(* The process dies; a write may be cut short. *)
Crash ==
  /\ phase # "down"
  /\ phase' = "down" /\ alive' = {} /\ final' = FALSE
  /\ store' = Empty /\ dirty' = <<>>
  /\ at' = "idle" /\ batch' = <<>>
  /\ \/ UNCHANGED file
     \/ at = "append" /\ WritesPart(batch)
     \/ at = "rewrite" /\ Rewritten(batch)
  /\ saving' = FALSE
  /\ UNCHANGED <<status, soiled, observed>>

Next ==
  \/ Apply \/ DrainDirty \/ AppendBatch \/ Compact \/ Rewrite
  \/ Start \/ Stop \/ Joins \/ Crash
  \/ \E l \in Loops : LoopReturns(l)

Spec == Init /\ [][Next]_vars

-----------------------------------------------------------------------------
(* Properties.                                                             *)

Records == {Sample(t) : t \in Times} \union {Hour(f) : f \in BOOLEAN}

(* Every variable keeps its type, and an engine that is not running has no *)
(* loop and no flush under way.                                            *)
TypeOK ==
  /\ phase \in {"down", "running", "stopping", "joined"}
  /\ alive \subseteq Loops /\ final \in BOOLEAN
  /\ phase \in {"down", "joined"} => alive = {} /\ at = "idle"
  /\ store.series \in Seq(Times) /\ store.lastOK \in Times \union {0}
  /\ store.hour \in {"none", "partial", "full"}
  /\ dirty \in Seq(Records) /\ batch \in Seq(Records)
  /\ at \in {"idle", "append", "compact", "rewrite"}
  /\ lines \in Seq(Records \union {Junk}) /\ open \in BOOLEAN
  /\ saving \in BOOLEAN /\ soiled \in BOOLEAN
  /\ status \in {"ok", "load-failed", "write-failed"}
  /\ observed \in 0..MaxObservations

Expired(t, times) == \E u \in times : t < u - History

(* "ascending by Ts, deduped by Ts" (store.go:16), which the last element  *)
(* being the current reading and every fit over the series rely on: also   *)
(* for a series restored from a file with repeated, torn and lost lines,   *)
(* and when the clock steps back.  Only a load that failed half-way skips  *)
(* TrimRetention, and may leave a sample out of place that retention would *)
(* have dropped.                                                           *)
Ascending ==
  \A i, j \in DOMAIN store.series :
    i < j => \/ store.series[i] < store.series[j]
             \/ status = "load-failed" /\ Expired(store.series[j], ToSet(store.series))

(* What a restart can count on: the terminated, decodable lines. *)
Durable == {lines[i] : i \in Decodable(lines) \ (IF open THEN {Len(lines)} ELSE {})}

SampleTimes(recs) == {r.at : r \in {q \in recs : q.kind = "sample"}}

(* No step loses durable history: a line in the file stays until retention *)
(* drops its sample, and an hour that was complete stays complete, through *)
(* compactions, restarts, failed reads, failed writes and crashes.         *)
DurableHistoryKept ==
  [][LET kept == SampleTimes(Durable') IN
       /\ \A t \in SampleTimes(Durable) : t \in kept \/ Expired(t, kept)
       /\ Hour(TRUE) \in Durable => Hour(TRUE) \in Durable']_vars

InFlight == IF at = "append" THEN ToSet(batch) ELSE {}

(* While no append has failed, every sample the engine shows is in the     *)
(* file, in the buffer or on its way: samples taken while a flush or a     *)
(* compaction runs fall between no two stools.                             *)
NothingForgotten ==
  phase # "down" /\ saving /\ ~soiled =>
    ToSet(store.series) \subseteq SampleTimes(Durable \union ToSet(dirty) \union InFlight)

(* ... and an engine that has joined has saved it all: its loops return    *)
(* before the final flush drains the buffer.                               *)
CleanStopSavesAll ==
  phase = "joined" /\ saving /\ ~soiled =>
    ToSet(store.series) \subseteq SampleTimes(Durable)

(* "append every 5 minutes + one final flush at shutdown; a crash loses at *)
(* most 5 minutes of samples" (predictor.go:42-43): while the engine       *)
(* reports that saving works, what is not in the file waits for the next   *)
(* flush.                                                                  *)
CrashLosesOneInterval ==
  phase # "down" /\ saving /\ status = "ok" =>
    ToSet(store.series) \subseteq SampleTimes(Durable \union ToSet(dirty) \union InFlight)

=============================================================================
