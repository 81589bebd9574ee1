------------------------------ MODULE Lifecycle ------------------------------
(***************************************************************************)
(* The dispatcher's state across register, reconfigure and shutdown calls  *)
(* (plugin.go, and the engine wiring of predictor.go): one lock serializes *)
(* whole lifecycle calls, a second guards the installed configuration,     *)
(* catalog manager, refresh loop and predictor engine, which every other   *)
(* call reads; the refresh loop and the engine run on goroutines of their  *)
(* own and are told to stop through channels.                              *)
(*                                                                         *)
(* A call that is register or reconfigure makes at most one catalog        *)
(* manager, one loop and one engine, so all of these are named after it.   *)
(* What a manager does with the upstream's list is CatalogBuild's.  Time   *)
(* is not modelled: a deadline may pass at any moment.  A request whose    *)
(* config does not load returns before it touches anything and is left     *)
(* out; so are panics.                                                     *)
(***************************************************************************)
EXTENDS CatalogBuild, FiniteSets

CONSTANTS
  Calls,     (* the register and reconfigure calls                         *)
  Readers,   (* concurrent requests                                        *)
  Configs,   (* the configurations calls can bring                         *)
  Lists,     (* the model lists the upstream can answer with               *)
  Shutdown,  (* the shutdown call                                          *)
  None

Threads == Calls \union {Shutdown}

ASSUME LifecycleAssumption ==
  /\ Shutdown \notin Calls /\ None \notin Threads
  /\ \A c \in Configs : IsConfig(c) /\ c.predictor \in BOOLEAN
  /\ None \notin Configs
  /\ \A l \in Lists : l \in Seq(Ids)

VARIABLES
  lifeMu,     (* the thread holding it, or None                            *)
  at,         (* where a thread is                                         *)
  conf,       (* the config a call has loaded                              *)
  retired,    (* the loop, then the engine, a thread waits for             *)
  cfg, mgr, stop, pred,   (* Manager's fields; None is nil                 *)
  catalogs,   (* the catalog managers: raw and snapshot                    *)
  outcome,    (* history: how a manager's last refresh ended               *)
  told,       (* a loop's stop channel is closed                           *)
  cancelled,  (* its stopCtx is cancelled                                  *)
  loop,       (* the refresh goroutine                                     *)
  engine,     (* the predictor engine                                      *)
  reader,     (* what a request has captured and resolved                  *)
  overran,    (* history: a wait for an engine ran out                     *)
  lastHolder  (* history: who held lifeMu last                             *)

threads == <<lifeMu, at, conf, retired, overran, lastHolder>>
fields  == <<cfg, mgr, stop, pred>>
loops   == <<told, cancelled, loop>>
stores  == <<catalogs, outcome>>
vars    == <<threads, fields, loops, stores, engine, reader>>

Fresh     == [raw |-> <<>>, snapshot |-> EmptySnapshot]
NoRequest == [cfg |-> None, mgr |-> None, rec |-> None]

Init ==
  /\ lifeMu = None /\ lastHolder = None /\ overran = FALSE
  /\ at = [t \in Threads |-> "idle"]
  /\ conf = [t \in Calls |-> None]
  /\ retired = [t \in Threads |-> None]
  /\ cfg = None /\ mgr = None /\ stop = None /\ pred = None
  /\ catalogs = [t \in Calls |-> Fresh]
  /\ outcome = [t \in Calls |-> "none"]
  /\ told = [t \in Calls |-> FALSE]
  /\ cancelled = [t \in Calls |-> FALSE]
  /\ loop = [t \in Calls |-> "none"]
  /\ engine = [t \in Calls |-> "none"]
  /\ reader = [r \in Readers |-> NoRequest]

Goto(t, from, to) == at[t] = from /\ at' = [at EXCEPT ![t] = to]

Models(m) == catalogs[m].snapshot.models

-----------------------------------------------------------------------------
(* Steps of every lifecycle call.                                          *)

(* Mutation of Lock: calls are not serialized. *)
LockNothing(t) ==
  /\ Goto(t, "lock", IF t = Shutdown THEN "closeStop" ELSE "auth")
  /\ lifeMu' = t
  /\ UNCHANGED <<conf, retired, overran, lastHolder, fields, loops, stores, engine, reader>>

Lock(t) ==
  /\ lifeMu = None
  /\ Goto(t, "lock", IF t = Shutdown THEN "closeStop" ELSE "auth")
  /\ lifeMu' = t
  /\ UNCHANGED <<conf, retired, overran, lastHolder, fields, loops, stores, engine, reader>>

Unlock(t) ==
  /\ Goto(t, "unlock", "done")
  /\ lifeMu' = None
  /\ lastHolder' = t
  /\ UNCHANGED <<conf, retired, overran, fields, loops, stores, engine, reader>>

(* closeStop: the running loop is told to stop... *)
CloseStop(t) ==
  /\ Goto(t, "closeStop", "join")
  /\ retired' = [retired EXCEPT ![t] = stop]
  /\ told' = [l \in Calls |-> told[l] \/ l = stop]
  /\ stop' = None
  /\ UNCHANGED <<lifeMu, conf, overran, lastHolder, cfg, mgr, pred, cancelled, loop,
                 stores, engine, reader>>

(* Mutation of Join: nobody waits for the loop. *)
JoinNothing(t) ==
  /\ Goto(t, "join", IF t = Shutdown THEN "swapPred" ELSE "install")
  /\ UNCHANGED <<lifeMu, conf, retired, overran, lastHolder, fields, loops, stores,
                 engine, reader>>

(* ... and awaited, outside the lock that readers take. *)
Join(t) ==
  /\ Goto(t, "join", IF t = Shutdown THEN "swapPred" ELSE "install")
  /\ retired[t] # None => loop[retired[t]] = "exited"
  /\ UNCHANGED <<lifeMu, conf, retired, overran, lastHolder, fields, loops, stores,
                 engine, reader>>

(* Mutation of SwapPredictor: installed whoever calls. *)
SwapPredictorAlways(t) ==
  /\ Goto(t, "swapPred", "joinPred")
  /\ pred' = t
  /\ retired' = [retired EXCEPT ![t] = pred]
  /\ engine' = [e \in Calls |-> IF e = pred' THEN "built"
                                ELSE IF e = pred THEN "stopping" ELSE engine[e]]
  /\ UNCHANGED <<lifeMu, conf, overran, lastHolder, cfg, mgr, stop, loops, stores, reader>>

(* Mutation of SwapPredictor: the engine that is replaced is not stopped. *)
SwapPredictorOnly(t) ==
  /\ Goto(t, "swapPred", "joinPred")
  /\ pred' = IF t # Shutdown /\ conf[t].predictor THEN t ELSE None
  /\ retired' = [retired EXCEPT ![t] = pred]
  /\ engine' = [e \in Calls |-> IF e = pred' THEN "built" ELSE engine[e]]
  /\ UNCHANGED <<lifeMu, conf, overran, lastHolder, cfg, mgr, stop, loops, stores, reader>>

(* buildPredictor and swapPredictor; the old engine is told to stop. *)
SwapPredictor(t) ==
  /\ Goto(t, "swapPred", "joinPred")
  /\ pred' = IF t # Shutdown /\ conf[t].predictor THEN t ELSE None
  /\ retired' = [retired EXCEPT ![t] = pred]
  /\ engine' = [e \in Calls |-> IF e = pred' THEN "built"
                                ELSE IF e = pred THEN "stopping" ELSE engine[e]]
  /\ UNCHANGED <<lifeMu, conf, overran, lastHolder, cfg, mgr, stop, loops, stores, reader>>

(* WaitStopped: the engine has joined, or predictorStopTimeout is over. *)
JoinPredictor(t) ==
  /\ Goto(t, "joinPred", IF t = Shutdown THEN "clear" ELSE "startPred")
  /\ LET e == retired[t] IN
       overran' = (overran \/ (e # None /\ engine[e] # "joined"))
  /\ UNCHANGED <<lifeMu, conf, retired, lastHolder, fields, loops, stores, engine, reader>>

-----------------------------------------------------------------------------
(* handleLifecycle.                                                        *)

Load(t) ==
  /\ Goto(t, "idle", "lock")
  /\ \E c \in Configs : conf' = [conf EXCEPT ![t] = c]
  /\ UNCHANGED <<lifeMu, retired, overran, lastHolder, fields, loops, stores, engine, reader>>

(* materializeAuthRecords fails: the call returns and changes nothing. *)
AuthFails(t) ==
  /\ Goto(t, "auth", "unlock")
  /\ UNCHANGED <<lifeMu, conf, retired, overran, lastHolder, fields, loops, stores,
                 engine, reader>>

(* The new manager's first refresh, bounded by registerRefreshTimeout. *)
FirstRefresh(t) ==
  /\ Goto(t, "auth", "closeStop")
  /\ \/ /\ \E list \in Lists :
             catalogs' = [catalogs EXCEPT
               ![t] = [raw |-> list, snapshot |-> Snapshot(conf[t], list)]]
        /\ outcome' = [outcome EXCEPT ![t] = "ok"]
     \/ /\ outcome' = [outcome EXCEPT ![t] = "failed"]
        /\ UNCHANGED catalogs
  /\ UNCHANGED <<lifeMu, conf, retired, overran, lastHolder, fields, loops, engine, reader>>

(* Mutation of Seeds: the new config's policy is not asked. *)
SeedsAnyway(t) == outcome[t] = "failed" /\ mgr # None

(* When the new manager takes over the old one's entries. *)
Seeds(t) ==
  /\ outcome[t] = "failed" /\ conf[t].stale
  /\ mgr # None
  /\ Models(mgr) # {}

(* Mutation of Seeded: the old snapshot is copied, not rebuilt. *)
SeededCopy(t, raw) == [raw |-> raw, snapshot |-> catalogs[mgr].snapshot]

(* SeedFrom: rebuilt from the raw entries under the call's own config. *)
Seeded(t, raw) == [raw |-> raw, snapshot |-> Snapshot(conf[t], raw)]

(* Mutation of Install: nothing is seeded. *)
InstallEmpty(t) ==
  /\ Goto(t, "install", "startLoop")
  /\ cfg' = conf[t] /\ mgr' = t /\ stop' = t
  /\ UNCHANGED <<lifeMu, conf, retired, overran, lastHolder, pred, loops, stores,
                 engine, reader>>

(* Under mu: config, manager and the loop's channels at once. *)
Install(t) ==
  /\ Goto(t, "install", "startLoop")
  /\ catalogs' = IF Seeds(t)
                 THEN [catalogs EXCEPT ![t] = Seeded(t, catalogs[mgr].raw)]
                 ELSE catalogs
  /\ cfg' = conf[t] /\ mgr' = t /\ stop' = t
  /\ UNCHANGED <<lifeMu, conf, retired, overran, lastHolder, pred, loops, outcome,
                 engine, reader>>

StartLoop(t) ==
  /\ Goto(t, "startLoop", "swapPred")
  /\ loop' = [loop EXCEPT ![t] = "waiting"]
  /\ UNCHANGED <<lifeMu, conf, retired, overran, lastHolder, fields, told, cancelled,
                 stores, engine, reader>>

(* Start: the engine restores its file and launches its loops. *)
StartPredictor(t) ==
  /\ Goto(t, "startPred", "unlock")
  /\ engine' = [engine EXCEPT ![t] = IF @ = "built" THEN "running" ELSE @]
  /\ UNCHANGED <<lifeMu, conf, retired, overran, lastHolder, fields, loops, stores, reader>>

-----------------------------------------------------------------------------
(* handleShutdown, beside the steps it shares.                             *)

BeginShutdown ==
  /\ Goto(Shutdown, "idle", "lock")
  /\ UNCHANGED <<lifeMu, conf, retired, overran, lastHolder, fields, loops, stores,
                 engine, reader>>

(* The drain (HostCalls) is bounded; then the fields are cleared. *)
Clear ==
  /\ Goto(Shutdown, "clear", "unlock")
  /\ cfg' = None /\ mgr' = None
  /\ UNCHANGED <<lifeMu, conf, retired, overran, lastHolder, stop, pred, loops, stores,
                 engine, reader>>

-----------------------------------------------------------------------------
(* The goroutines.                                                         *)

(* Mutation of Watch: the tick's context does not follow stop. *)
WatchNothing(l) == told[l] /\ ~cancelled[l] /\ UNCHANGED vars

(* The watcher turns the closed channel into a cancelled context. *)
Watch(l) ==
  /\ told[l] /\ ~cancelled[l]
  /\ cancelled' = [cancelled EXCEPT ![l] = TRUE]
  /\ UNCHANGED <<threads, fields, told, loop, stores, engine, reader>>

(* The ticker fires; select may prefer it to a closed stop channel. *)
Tick(l) ==
  /\ loop[l] = "waiting"
  /\ loop' = [loop EXCEPT ![l] = "ticking"]
  /\ UNCHANGED <<threads, fields, told, cancelled, stores, engine, reader>>

TickSucceeds(l) ==
  /\ loop[l] = "ticking"
  /\ loop' = [loop EXCEPT ![l] = "waiting"]
  /\ \E list \in Lists :
       catalogs' = [catalogs EXCEPT
         ![l] = [raw |-> list, snapshot |-> Snapshot(conf[l], list)]]
  /\ outcome' = [outcome EXCEPT ![l] = "ok"]
  /\ UNCHANGED <<threads, fields, told, cancelled, engine, reader>>

(* The host refuses, the upstream fails, request-timeout passes or the     *)
(* context is cancelled; catalog.Manager applies its own stale policy.     *)
TickFails(l) ==
  /\ loop[l] = "ticking"
  /\ loop' = [loop EXCEPT ![l] = "waiting"]
  /\ catalogs' = IF conf[l].stale THEN catalogs ELSE [catalogs EXCEPT ![l] = Fresh]
  /\ outcome' = [outcome EXCEPT ![l] = "failed"]
  /\ UNCHANGED <<threads, fields, told, cancelled, engine, reader>>

LoopExits(l) ==
  /\ loop[l] = "waiting" /\ told[l]
  /\ loop' = [loop EXCEPT ![l] = "exited"]
  /\ UNCHANGED <<threads, fields, told, cancelled, stores, engine, reader>>

(* The stopped engine's loops have ended and its final flush is done. *)
EngineJoins(e) ==
  /\ engine[e] = "stopping"
  /\ engine' = [engine EXCEPT ![e] = "joined"]
  /\ UNCHANGED <<threads, fields, loops, stores, reader>>

-----------------------------------------------------------------------------
(* resolveExecution, on any request.                                       *)

Capture(r) ==
  /\ reader[r] = NoRequest
  /\ mgr # None
  /\ reader' = [reader EXCEPT ![r] = [cfg |-> cfg, mgr |-> mgr, rec |-> None]]
  /\ UNCHANGED <<threads, fields, loops, stores, engine>>

(* Lookup by any id the captured manager resolves at this moment. *)
Resolve(r) ==
  /\ reader[r].mgr # None /\ reader[r].rec = None
  /\ LET index == catalogs[reader[r].mgr].snapshot.index IN
       \E id \in DOMAIN index : reader' = [reader EXCEPT ![r].rec = index[id]]
  /\ UNCHANGED <<threads, fields, loops, stores, engine>>

(* The request is over; or its model was not found. *)
Respond(r) ==
  /\ reader[r] # NoRequest
  /\ reader' = [reader EXCEPT ![r] = NoRequest]
  /\ UNCHANGED <<threads, fields, loops, stores, engine>>

-----------------------------------------------------------------------------
ThreadStep(t) ==
  Lock(t) \/ CloseStop(t) \/ Join(t) \/ SwapPredictor(t) \/ JoinPredictor(t) \/ Unlock(t)

CallStep(t) ==
  \/ AuthFails(t) \/ FirstRefresh(t)
  \/ Install(t) \/ StartLoop(t) \/ StartPredictor(t)

(* Every call and every goroutine has ended. *)
Rest ==
  /\ \A t \in Threads : at[t] = "done"
  /\ UNCHANGED vars

Next ==
  \/ \E t \in Threads : ThreadStep(t)
  \/ \E t \in Calls : Load(t) \/ CallStep(t)
  \/ BeginShutdown \/ Clear
  \/ \E l \in Calls :
       Watch(l) \/ Tick(l) \/ TickSucceeds(l) \/ TickFails(l) \/ LoopExits(l) \/ EngineJoins(l)
  \/ \E r \in Readers : Capture(r) \/ Resolve(r) \/ Respond(r)
  \/ Rest

Spec == Init /\ [][Next]_vars

(***************************************************************************)
(* Fairness.  The Go scheduler runs ready goroutines; lifecycle deadlines  *)
(* pass; a cancelled context ends a tick, since callWithTimeout selects on *)
(* it.  A select with two ready cases picks either again and again, so a   *)
(* told loop exits in the end: that is strong fairness.  A tick whose      *)
(* context is not cancelled may take arbitrarily long, and nothing is      *)
(* assumed of an engine.                                                   *)
(***************************************************************************)
FairSpec ==
  /\ Spec
  /\ \A t \in Threads : WF_vars(ThreadStep(t))
  /\ \A t \in Calls : WF_vars(CallStep(t))
  /\ WF_vars(Clear)
  /\ \A l \in Calls :
       /\ WF_vars(Watch(l))
       /\ WF_vars(cancelled[l] /\ TickFails(l))
       /\ SF_vars(LoopExits(l))

-----------------------------------------------------------------------------
(* Properties.                                                             *)

Locations ==
  {"idle", "lock", "auth", "closeStop", "join", "install", "startLoop", "swapPred",
   "joinPred", "startPred", "clear", "unlock", "done"}

(* Every variable keeps its type. *)
TypeOK ==
  /\ lifeMu \in Threads \union {None} /\ lastHolder \in Threads \union {None}
  /\ at \in [Threads -> Locations]
  /\ conf \in [Calls -> Configs \union {None}]
  /\ retired \in [Threads -> Calls \union {None}]
  /\ cfg \in Configs \union {None}
  /\ {mgr, stop, pred} \subseteq Calls \union {None}
  /\ DOMAIN catalogs = Calls
  /\ outcome \in [Calls -> {"none", "ok", "failed"}]
  /\ told \in [Calls -> BOOLEAN] /\ cancelled \in [Calls -> BOOLEAN]
  /\ loop \in [Calls -> {"none", "waiting", "ticking", "exited"}]
  /\ engine \in [Calls -> {"none", "built", "running", "stopping", "joined"}]
  /\ DOMAIN reader = Readers
  /\ overran \in BOOLEAN

Alive(l) == loop[l] \in {"waiting", "ticking"}

(* lifeMu's purpose: stop-wait-install sequences never interleave into     *)
(* orphaned tickers.  At most one refresh loop lives, it is the one the    *)
(* Manager can still stop unless it has been told to, and between calls it *)
(* refreshes the manager that serves.                                      *)
OneLoop ==
  /\ \A l, k \in Calls : Alive(l) /\ Alive(k) => l = k
  /\ \A l \in Calls : Alive(l) => l = stop \/ told[l]
  /\ lifeMu = None /\ mgr # None => stop = mgr /\ Alive(mgr)

(* A request runs under one configuration: the record it resolved is what  *)
(* the config it captured makes of that model (route, public id, enabled   *)
(* protocol, endpoint on the configured host), also when the snapshot was  *)
(* seeded from a manager with another config during an outage.             *)
RequestsSeeOneConfig ==
  \A r \in Readers : LET q == reader[r] IN q.rec # None =>
    /\ q.rec = ModelRecord(q.cfg, q.rec.upstream)
    /\ Routable(q.cfg, q.rec.upstream)

(* Fail-closed means closed on both paths: without                         *)
(* stale-while-unavailable, models are served only while the last refresh  *)
(* of their manager, by the call or by a tick, succeeded.                  *)
FailClosed ==
  mgr # None /\ ~cfg.stale /\ Models(mgr) # {} => outcome[mgr] = "ok"

(* A reconfigure that changes nothing, in an outage and with               *)
(* stale-while-unavailable, leaves what is served unchanged.               *)
OutageKeepsServing ==
  [][(/\ mgr # None /\ mgr' \notin {None, mgr}
      /\ cfg.stale /\ cfg' = cfg /\ outcome'[mgr'] = "failed")
       => catalogs'[mgr'].snapshot.models = Models(mgr)]_vars

Touches(e) == engine[e] \in {"running", "stopping"}

(* Two engines never work on the one history file, except after a wait for *)
(* the old one ran out; and between calls the installed engine runs.       *)
OneEngine ==
  /\ overran \/ \A e, f \in Calls : Touches(e) /\ Touches(f) => e = f
  /\ lifeMu = None /\ pred # None => engine[pred] = "running"
  /\ \A e \in Calls : engine[e] = "running" => e = pred

(* After shutdown, until another call takes the lock: no manager, no loop, *)
(* no engine but one whose wait ran out.                                   *)
ShutdownLeavesNothing ==
  lifeMu = None /\ lastHolder = Shutdown =>
    /\ mgr = None /\ pred = None
    /\ \A l \in Calls : ~Alive(l) /\ engine[l] # "running"
    /\ overran \/ \A l \in Calls : engine[l] # "stopping"

(* Every call returns, although a tick may be stuck in the host: closing   *)
(* stop aborts it.                                                         *)
CallsReturn == \A t \in Threads : at[t] = "lock" ~> at[t] = "done"

=============================================================================
