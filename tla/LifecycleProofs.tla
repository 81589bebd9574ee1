--------------------------- MODULE LifecycleProofs ---------------------------
(***************************************************************************)
(* Lifecycle, for any number of concurrent lifecycle calls and requests,   *)
(* any configurations and any lists: what lifeMu, the stop channels and    *)
(* seeding are for holds in every reachable state.                         *)
(*                                                                         *)
(* The argument: whoever is inside a call holds lifeMu (LockInv), so one   *)
(* call at a time moves the loop and the engine from their old owner to    *)
(* the new one, and the invariants say which of the two is at work at each *)
(* place of the call (LoopInv, EngineInv).  A catalog is always what its   *)
(* own call's configuration makes of its raw entries (StoreInv), since a   *)
(* seed rebuilds; so what a request resolves agrees with what it captured  *)
(* (ReaderInv).                                                            *)
(***************************************************************************)
EXTENDS Lifecycle, WellFoundedInduction, TLAPS

-----------------------------------------------------------------------------
(* Induction.  The library states it for an operator, which the provers    *)
(* cannot instantiate; of a set of numbers it follows from < being well    *)
(* founded.                                                                *)

(* A set of numbers that is not empty has a least element.                 *)
LEMMA LeastNumber ==
  ASSUME NEW T, T \subseteq Nat, T # {}
  PROVE  \E m \in T : \A k \in T : m <= k
<1>1. \E m \in T : \A k \in T : <<k, m>> \notin OpToRel(<, Nat)
  BY NatLessThanWellFounded, WFMin
<1>2. \A k \in Nat, m \in Nat : k < m => <<k, m>> \in OpToRel(<, Nat)
  BY DEF OpToRel
<1>3. \E m \in T : \A k \in T : ~(k < m)
  BY <1>1, <1>2, Zenon
<1> QED
  BY <1>3

(* A set that holds 0 and, with a number, its successor holds them all.    *)
LEMMA SetInduction ==
  ASSUME NEW T, 0 \in T, \A n \in Nat : n \in T => n + 1 \in T
  PROVE  Nat \subseteq T
<1> SUFFICES ASSUME Nat \ T # {} PROVE FALSE
  OBVIOUS
<1>1. PICK m \in Nat \ T : \A k \in Nat \ T : m <= k
  BY LeastNumber
<1>2. m # 0 /\ m - 1 \in Nat
  BY <1>1
<1>3. m - 1 \in T
  BY <1>1, <1>2
<1>4. (m - 1) + 1 \in T
  BY <1>2, <1>3
<1> QED
  BY <1>1, <1>4

-----------------------------------------------------------------------------
(* What swap's loop computes for every list (CatalogBuild's Snapshot),     *)
(* shown by induction on the entries.                                      *)

(* A run of the loop: its results after each number of entries.            *)
IsRun(c, entries, b) ==
  b = [n \in 0..Len(entries) |->
         IF n = 0 THEN NothingSeen ELSE Place(c, b[n - 1], entries[n])]

LEMMA RunExists ==
  ASSUME NEW c, NEW entries \in Seq(Ids)
  PROVE  \E b : IsRun(c, entries, b)
<1> DEFINE
     Run(b, m) == /\ DOMAIN b = 0..m /\ b = [n \in 0..m |-> b[n]]
                  /\ b[0] = NothingSeen
                  /\ \A n \in 1..m : b[n] = Place(c, b[n - 1], entries[n])
     T == {m \in Nat : \E b : Run(b, m)}
<1>1. 0 \in T
  <2>1. Run([n \in 0..0 |-> NothingSeen], 0)
    OBVIOUS
  <2> QED
    BY <2>1
<1>2. ASSUME NEW m \in Nat, m \in T
      PROVE  m + 1 \in T
  <2>1. PICK b : Run(b, m)
    BY <1>2
  <2> DEFINE d == [n \in 0..(m + 1) |-> IF n <= m THEN b[n] ELSE Place(c, b[m], entries[m + 1])]
  <2>2. DOMAIN d = 0..(m + 1) /\ d = [n \in 0..(m + 1) |-> d[n]]
    OBVIOUS
  <2>3. d[0] = NothingSeen
    BY <2>1
  <2>4. ASSUME NEW n \in 1..(m + 1)
        PROVE  d[n] = Place(c, d[n - 1], entries[n])
    <3>1. CASE n <= m
      <4>1. d[n] = b[n] /\ d[n - 1] = b[n - 1]
        BY <3>1
      <4>2. b[n] = Place(c, b[n - 1], entries[n])
        BY <2>1, <3>1
      <4> HIDE DEF d
      <4> QED
        BY <4>1, <4>2
    <3>2. CASE n = m + 1
      BY <2>1, <3>2
    <3> QED
      BY <3>1, <3>2
  <2> HIDE DEF d
  <2>5. Run(d, m + 1)
    BY <2>2, <2>3, <2>4
  <2> HIDE DEF Run
  <2> QED
    BY <2>5
<1> HIDE DEF T
<1>3. Nat \subseteq T
  BY <1>1, <1>2, SetInduction
<1>4. Len(entries) \in Nat
  OBVIOUS
<1>5. PICK b : Run(b, Len(entries))
  BY <1>3, <1>4 DEF T
<1>6. IsRun(c, entries, b)
  BY <1>5 DEF IsRun
<1> QED
  BY <1>6

LEMMA SnapshotRun ==
  ASSUME NEW c, NEW entries \in Seq(Ids)
  PROVE  \E b : IsRun(c, entries, b) /\ Snapshot(c, entries) = Published(b[Len(entries)])
<1> DEFINE b == CHOOSE b : IsRun(c, entries, b)
<1>1. IsRun(c, entries, b)
  BY RunExists
<1>2. Snapshot(c, entries) = Published(b[Len(entries)])
  BY DEF Snapshot, IsRun
<1> QED
  BY <1>1, <1>2

(* What a record in an index is: made from its model's id by the           *)
(* configuration of the swap, and routable under it.                       *)
MadeUnder(c, rec) ==
  /\ rec.upstream \in Ids
  /\ rec = ModelRecord(c, rec.upstream)
  /\ Routable(c, rec.upstream)

IndexMadeUnder(c, index) == \A k \in DOMAIN index : MadeUnder(c, index[k])

(* One iteration keeps this, whatever the entry.                           *)
LEMMA PlaceMakes ==
  ASSUME NEW c, NEW w, IndexMadeUnder(c, w.index), NEW id \in Ids
  PROVE  IndexMadeUnder(c, Place(c, w, id).index)
<1> DEFINE rec == ModelRecord(c, id)
<1>1. rec.upstream = id
  BY DEF ModelRecord
<1>2. CASE Routable(c, id) /\ Place(c, w, id) = Admit(w, rec)
  <2>1. MadeUnder(c, rec)
    BY <1>1, <1>2 DEF MadeUnder
  <2> HIDE DEF rec
  <2>2. ASSUME NEW k \in DOMAIN Admit(w, rec).index
        PROVE  MadeUnder(c, Admit(w, rec).index[k])
    <3>1. Admit(w, rec).index[k] = rec \/ (k \in DOMAIN w.index /\ Admit(w, rec).index[k] = w.index[k])
      BY <2>2 DEF Admit
    <3> QED
      BY <3>1, <2>1 DEF IndexMadeUnder
  <2> QED
    BY <1>2, <2>2 DEF IndexMadeUnder
<1>3. CASE Place(c, w, id).index = w.index
  BY <1>3
<1>4. Exclude(w, id).index = w.index
  BY DEF Exclude
<1> QED
  BY <1>2, <1>3, <1>4 DEF Place

(* So a snapshot serves no record of another configuration, for any list.  *)
LEMMA SnapshotMakes ==
  ASSUME NEW c, NEW entries \in Seq(Ids)
  PROVE  IndexMadeUnder(c, Snapshot(c, entries).index)
<1>1. PICK b : IsRun(c, entries, b) /\ Snapshot(c, entries) = Published(b[Len(entries)])
  BY SnapshotRun
<1> DEFINE T == {n \in Nat : n <= Len(entries) => IndexMadeUnder(c, b[n].index)}
<1>2. 0 \in T
  <2>1. b[0] = NothingSeen
    BY <1>1 DEF IsRun
  <2> QED
    BY <2>1 DEF IndexMadeUnder, NothingSeen
<1>3. ASSUME NEW n \in Nat, n \in T
      PROVE  n + 1 \in T
  <2> SUFFICES ASSUME n + 1 <= Len(entries)
               PROVE  IndexMadeUnder(c, b[n + 1].index)
    OBVIOUS
  <2>1. b[n + 1] = Place(c, b[n], entries[n + 1])
    BY <1>1 DEF IsRun
  <2>2. IndexMadeUnder(c, b[n].index) /\ entries[n + 1] \in Ids
    BY <1>3
  <2> QED
    BY <2>1, <2>2, PlaceMakes
<1> HIDE DEF T
<1>4. Nat \subseteq T
  BY <1>2, <1>3, SetInduction
<1>5. IndexMadeUnder(c, b[Len(entries)].index)
  BY <1>4 DEF T
<1> QED
  BY <1>1, <1>5 DEF Published

-----------------------------------------------------------------------------
(* The inductive invariant.                                                *)

(* Where a call holds lifeMu, and where a call has installed its manager.  *)
Holding   == Locations \ {"idle", "lock", "done"}
Installed == {"startLoop", "swapPred", "joinPred", "startPred", "unlock", "done"}

ShutdownPath ==
  {"idle", "lock", "closeStop", "join", "swapPred", "joinPred", "clear", "unlock", "done"}

HolderAt(places) == lifeMu # None /\ at[lifeMu] \in places

(* Whoever is inside a lifecycle call holds the lock.                      *)
LockInv ==
  /\ \A t \in Threads : at[t] \in Holding => lifeMu = t
  /\ lifeMu # None => at[lifeMu] \in Holding
  /\ at[Shutdown] \in ShutdownPath
  /\ \A t \in Calls : at[t] # "clear" /\ (at[t] # "idle" => conf[t] \in Configs)

(* While a call waits for the old loop there is none to stop; then the     *)
(* call's own loop runs.  Shutdown never makes another.                    *)
Closing == HolderAt({"join", "install"}) \/ (lifeMu = Shutdown /\ at[Shutdown] # "closeStop")

(* A stop channel once closed is not the Manager's any more; a loop that   *)
(* lives is the Manager's, or the one that a call has told to stop and     *)
(* waits for; outside those steps the manager that serves is refreshed.    *)
LoopInv ==
  /\ \A l \in Calls : told[l] => at[l] \in Installed /\ l # stop
  /\ \A l \in Calls : loop[l] # "none" => at[l] \in Installed \ {"startLoop"}
  /\ \A l \in Calls : Alive(l) =>
       l = stop \/ (HolderAt({"join"}) /\ retired[lifeMu] = l /\ told[l])
  /\ stop # None => at[stop] \in Installed
  /\ mgr # None => at[mgr] \in Installed
  /\ Closing => stop = None
  /\ HolderAt({"startLoop"}) => stop = lifeMu /\ mgr = lifeMu
  /\ mgr # None /\ ~Closing /\ ~HolderAt({"startLoop"}) => stop = mgr /\ Alive(mgr)

(* Where a call may have made an engine. *)
HasEngine == {"joinPred", "startPred", "unlock", "done"}

(* A running engine is the installed one; one that is still stopping is    *)
(* being waited for, unless a wait ran out; a new one is built while the   *)
(* old one is waited for and runs only afterwards.                         *)
EngineInv ==
  /\ \A e \in Calls : engine[e] # "none" => at[e] \in HasEngine
  /\ \A e \in Calls : engine[e] = "running" => e = pred
  /\ \A e \in Calls : engine[e] = "built" => e = pred /\ HolderAt({"joinPred", "startPred"})
  /\ \A e \in Calls : engine[e] = "stopping" =>
       overran \/ (HolderAt({"joinPred"}) /\ retired[lifeMu] = e)
  /\ pred # None => engine[pred] \in {"built", "running"}
  /\ HolderAt({"joinPred", "startPred"}) /\ pred # None => pred = lifeMu /\ engine[pred] = "built"

(* What Shutdown has taken away stays away until another call locks.       *)
ShutdownInv ==
  /\ at[Shutdown] \in {"joinPred", "clear", "unlock"} => pred = None
  /\ at[Shutdown] = "unlock" => mgr = None
  /\ lifeMu = None /\ lastHolder = Shutdown => mgr = None /\ pred = None /\ stop = None

(* The catalog m is what configuration c makes of its raw entries. *)
MadeFor(c, m) == m.raw \in Seq(Ids) /\ m = [raw |-> m.raw, snapshot |-> Snapshot(c, m.raw)]

(* A call's catalog is empty or made by its own configuration; it is empty *)
(* before the first refresh and when that failed, and under fail-closed    *)
(* whenever the last refresh failed.                                       *)
StoreOf(t) ==
  /\ catalogs[t] = Fresh \/ (conf[t] \in Configs /\ MadeFor(conf[t], catalogs[t]))
  /\ at[t] \in {"idle", "lock", "auth"} => catalogs[t] = Fresh
  /\ at[t] \in {"closeStop", "join", "install"} /\ outcome[t] = "failed" => catalogs[t] = Fresh
  /\ conf[t] \in Configs /\ ~conf[t].stale /\ Models(t) # {} => outcome[t] = "ok"

StoreInv ==
  /\ \A t \in Calls : StoreOf(t)
  /\ mgr # None => cfg = conf[mgr]

(* A request's manager stays installed and its call's configuration is the *)
(* one the request captured; a record comes from that configuration.       *)
ReaderOf(r) ==
  LET q == reader[r] IN
    /\ DOMAIN q = {"cfg", "mgr", "rec"}
    /\ q.mgr # None => q.mgr \in Calls /\ at[q.mgr] \in Installed /\ q.cfg = conf[q.mgr]
    /\ q.rec # None => MadeUnder(q.cfg, q.rec)

ReaderInv == \A r \in Readers : ReaderOf(r)

(* The inductive invariant. *)
IInv == TypeOK /\ LockInv /\ LoopInv /\ EngineInv /\ ShutdownInv /\ StoreInv /\ ReaderInv

-----------------------------------------------------------------------------
(* Threads, and how they move.                                             *)

(* Calls, the shutdown and nil differ.                                     *)
LEMMA ThreadFacts ==
  /\ Shutdown \in Threads /\ Shutdown # None /\ None \notin Calls
  /\ \A t \in Calls : t \in Threads /\ t # Shutdown
  /\ \A t \in Threads : t # None /\ (t = Shutdown \/ t \in Calls)
BY LifecycleAssumption DEF Threads

(* A step that goes elsewhere moves one thread.                            *)
LEMMA Moved ==
  ASSUME TypeOK, NEW t \in Threads, NEW from, NEW to, Goto(t, from, to)
  PROVE  at[t] = from /\ at'[t] = to /\ \A u \in Threads : u # t => at'[u] = at[u]
BY DEF Goto, TypeOK

(* Every step keeps LockInv: only Lock, Unlock and the steps in between    *)
(* concern it.                                                             *)
LEMMA LockKept ==
  ASSUME TypeOK, LockInv, Next
  PROVE  LockInv'
<1> USE ThreadFacts DEF LockInv
<1> DEFINE Places == {"idle", "lock", "auth", "closeStop", "join", "install", "startLoop", "swapPred",
   "joinPred", "startPred", "clear", "unlock", "done"}
<1>0. Holding = Places \ {"idle", "lock", "done"}
  BY DEF Holding, Locations
<1>98. lifeMu \in Threads \union {None}
  BY DEF TypeOK
<1>1. ASSUME NEW t \in Threads, Lock(t)
      PROVE  LockInv'
  <2>1. at[t] = "lock" /\ at'[t] = (IF t = Shutdown THEN "closeStop" ELSE "auth")
        /\ \A u \in Threads : u # t => at'[u] = at[u]
    BY <1>1, Moved DEF Lock
  <2> QED
    BY <1>0, <1>1, <2>1 DEF Lock, ShutdownPath
<1>2. ASSUME NEW t \in Threads, Unlock(t)
      PROVE  LockInv'
  <2>1. at[t] = "unlock" /\ at'[t] = "done" /\ \A u \in Threads : u # t => at'[u] = at[u]
    BY <1>2, Moved DEF Unlock
  <2> QED
    BY <1>0, <1>2, <2>1 DEF Unlock, ShutdownPath
<1>3. ASSUME NEW t \in Threads, NEW from \in Holding, NEW to \in Holding, Goto(t, from, to),
             UNCHANGED <<lifeMu, conf>>, t = Shutdown => to \in ShutdownPath, t \in Calls => to # "clear"
      PROVE  LockInv'
  <2>1. at[t] = from /\ at'[t] = to /\ \A u \in Threads : u # t => at'[u] = at[u]
    BY <1>3, Moved
  <2>2. lifeMu = t /\ from # "idle"
    BY <1>0, <1>3, <2>1
  <2>3. \A u \in Threads : at'[u] \in Holding => lifeMu' = u
    BY <1>3, <2>1, <2>2
  <2>4. lifeMu' # None => at'[lifeMu'] \in Holding
    BY <1>3, <2>1, <2>2
  <2>5. at'[Shutdown] \in ShutdownPath
    BY <1>3, <2>1
  <2>6. \A u \in Calls : at'[u] # "clear" /\ (at'[u] # "idle" => conf'[u] \in Configs)
    BY <1>3, <2>1, <2>2
  <2> QED
    BY <2>3, <2>4, <2>5, <2>6
<1>4. ASSUME NEW t \in Threads, CloseStop(t) \/ Join(t) \/ SwapPredictor(t) \/ JoinPredictor(t)
      PROVE  LockInv'
  BY <1>0, <1>3, <1>4 DEF CloseStop, Join, SwapPredictor, JoinPredictor, ShutdownPath
<1>5. ASSUME NEW t \in Calls, CallStep(t)
      PROVE  LockInv'
  BY <1>0, <1>3, <1>5 DEF CallStep, AuthFails, FirstRefresh, Install, StartLoop, StartPredictor
<1>6. ASSUME NEW t \in Calls, Load(t)
      PROVE  LockInv'
  <2>1. at[t] = "idle" /\ at'[t] = "lock" /\ \A u \in Threads : u # t => at'[u] = at[u]
    BY <1>6, Moved DEF Load
  <2>2. conf'[t] \in Configs /\ \A u \in Calls : u # t => conf'[u] = conf[u]
    BY <1>6 DEF Load, TypeOK
  <2> QED
    BY <1>0, <1>98, <1>6, <2>1, <2>2 DEF Load
<1>7. CASE BeginShutdown
  <2>1. at[Shutdown] = "idle" /\ at'[Shutdown] = "lock" /\ \A u \in Threads : u # Shutdown => at'[u] = at[u]
    BY <1>7, Moved DEF BeginShutdown
  <2> QED
    BY <1>0, <1>98, <1>7, <2>1 DEF BeginShutdown, ShutdownPath
<1>8. CASE Clear
  BY <1>0, <1>3, <1>8 DEF Clear, ShutdownPath
<1>9. CASE UNCHANGED threads
  BY <1>9 DEF threads, Holding, Locations, ShutdownPath
<1> QED
  BY <1>1, <1>2, <1>4, <1>5, <1>6, <1>7, <1>8, <1>9
     DEF Next, ThreadStep, Watch, Tick, TickSucceeds, TickFails, LoopExits, EngineJoins,
         Capture, Resolve, Respond, Rest, vars

(* Every step keeps the types.                                             *)
LEMMA TypesKept ==
  ASSUME TypeOK, Next
  PROVE  TypeOK'
<1> USE ThreadFacts DEF TypeOK, Goto, Locations, threads, fields, loops, stores
<1>1. ASSUME NEW t \in Threads, Lock(t)
      PROVE  TypeOK'
  BY <1>1 DEF Lock
<1>2. ASSUME NEW t \in Threads, Unlock(t)
      PROVE  TypeOK'
  BY <1>2 DEF Unlock
<1>3. ASSUME NEW t \in Threads, CloseStop(t)
      PROVE  TypeOK'
  BY <1>3 DEF CloseStop
<1>4. ASSUME NEW t \in Threads, Join(t)
      PROVE  TypeOK'
  BY <1>4 DEF Join
<1>5. ASSUME NEW t \in Threads, SwapPredictor(t)
      PROVE  TypeOK'
  BY <1>5 DEF SwapPredictor
<1>6. ASSUME NEW t \in Threads, JoinPredictor(t)
      PROVE  TypeOK'
  BY <1>6 DEF JoinPredictor
<1>7. ASSUME NEW t \in Calls, Load(t)
      PROVE  TypeOK'
  BY <1>7 DEF Load
<1>8. ASSUME NEW t \in Calls, AuthFails(t)
      PROVE  TypeOK'
  BY <1>8 DEF AuthFails
<1>9. ASSUME NEW t \in Calls, FirstRefresh(t)
      PROVE  TypeOK'
  BY <1>9 DEF FirstRefresh
<1>10. ASSUME NEW t \in Calls, Install(t)
      PROVE  TypeOK'
  BY <1>10 DEF Install
<1>11. ASSUME NEW t \in Calls, StartLoop(t)
      PROVE  TypeOK'
  BY <1>11 DEF StartLoop
<1>12. ASSUME NEW t \in Calls, StartPredictor(t)
      PROVE  TypeOK'
  BY <1>12 DEF StartPredictor
<1>13. ASSUME NEW l \in Calls, Watch(l)
      PROVE  TypeOK'
  BY <1>13 DEF Watch
<1>14. ASSUME NEW l \in Calls, Tick(l)
      PROVE  TypeOK'
  BY <1>14 DEF Tick
<1>15. ASSUME NEW l \in Calls, TickSucceeds(l)
      PROVE  TypeOK'
  BY <1>15 DEF TickSucceeds
<1>16. ASSUME NEW l \in Calls, TickFails(l)
      PROVE  TypeOK'
  BY <1>16 DEF TickFails
<1>17. ASSUME NEW l \in Calls, LoopExits(l)
      PROVE  TypeOK'
  BY <1>17 DEF LoopExits
<1>18. ASSUME NEW l \in Calls, EngineJoins(l)
      PROVE  TypeOK'
  BY <1>18 DEF EngineJoins
<1>19. ASSUME NEW r \in Readers, Capture(r)
      PROVE  TypeOK'
  BY <1>19 DEF Capture
<1>20. ASSUME NEW r \in Readers, Resolve(r)
      PROVE  TypeOK'
  BY <1>20 DEF Resolve
<1>21. ASSUME NEW r \in Readers, Respond(r)
      PROVE  TypeOK'
  BY <1>21 DEF Respond
<1>22. CASE BeginShutdown
  BY <1>22 DEF BeginShutdown
<1>23. CASE Clear
  BY <1>23 DEF Clear
<1>24. CASE Rest
  BY <1>24 DEF Rest, vars
<1> HIDE DEF TypeOK
<1> QED
  BY <1>1, <1>2, <1>3, <1>4, <1>5, <1>6, <1>7, <1>8, <1>9, <1>10, <1>11, <1>12, <1>13, <1>14, <1>15, <1>16, <1>17, <1>18, <1>19, <1>20, <1>21, <1>22, <1>23, <1>24
     DEF Next, ThreadStep, CallStep

-----------------------------------------------------------------------------
(* A step of a call that holds the lock.                                   *)
LEMMA HolderMoves ==
  ASSUME TypeOK, LockInv, NEW t \in Threads, NEW from \in Holding, NEW to, Goto(t, from, to)
  PROVE  /\ lifeMu = t /\ t # None /\ at[t] = from /\ at'[t] = to
         /\ \A u \in Threads : u # t => at'[u] = at[u]
         /\ \A u \in Threads : u # t => at[u] \notin Holding
BY ThreadFacts, Moved DEF LockInv

(* Every step keeps LoopInv.                                               *)
LEMMA LoopKept ==
  ASSUME TypeOK, LockInv, LoopInv, ShutdownInv, Next
  PROVE  LoopInv'
<1> USE ThreadFacts DEF LoopInv, HolderAt, Closing, Alive, Installed
<1>0. {"auth", "closeStop", "join", "install", "startLoop", "swapPred", "joinPred", "startPred", "clear", "unlock"} \subseteq Holding
  BY DEF Holding, Locations
<1>99. /\ DOMAIN told = Calls /\ DOMAIN loop = Calls /\ DOMAIN retired = Threads /\ DOMAIN at = Threads
      /\ {mgr, stop} \subseteq Calls \union {None} /\ lifeMu \in Threads \union {None}
  BY DEF TypeOK
<1>1. ASSUME NEW t \in Threads, CloseStop(t)
      PROVE  LoopInv'
  <2>1. /\ lifeMu = t /\ at[t] = "closeStop" /\ at'[t] = "join"
        /\ \A u \in Threads : u # t => at'[u] = at[u]
    BY <1>0, <1>1, HolderMoves DEF CloseStop
  <2> QED
    BY <1>99, <1>1, <2>1 DEF CloseStop
<1>2. ASSUME NEW t \in Threads, Join(t)
      PROVE  LoopInv'
  <2>1. /\ lifeMu = t /\ at[t] = "join" /\ at'[t] = IF t = Shutdown THEN "swapPred" ELSE "install"
        /\ \A u \in Threads : u # t => at'[u] = at[u]
    BY <1>0, <1>2, HolderMoves DEF Join
  <2> QED
    BY <1>99, <1>2, <2>1 DEF Join, fields, loops
<1>3. ASSUME NEW t \in Calls, Install(t)
      PROVE  LoopInv'
  <2>1. /\ lifeMu = t /\ at[t] = "install" /\ at'[t] = "startLoop"
        /\ \A u \in Threads : u # t => at'[u] = at[u]
    BY <1>0, <1>3, HolderMoves DEF Install
  <2> QED
    BY <1>99, <1>3, <2>1 DEF Install, loops
<1>4. ASSUME NEW t \in Calls, StartLoop(t)
      PROVE  LoopInv'
  <2>1. /\ lifeMu = t /\ at[t] = "startLoop" /\ at'[t] = "swapPred"
        /\ \A u \in Threads : u # t => at'[u] = at[u]
    BY <1>0, <1>4, HolderMoves DEF StartLoop
  <2> QED
    BY <1>99, <1>4, <2>1 DEF StartLoop, fields
<1>5. ASSUME NEW t \in Threads, SwapPredictor(t)
      PROVE  LoopInv'
  <2>1. /\ lifeMu = t /\ at[t] = "swapPred" /\ at'[t] = "joinPred"
        /\ \A u \in Threads : u # t => at'[u] = at[u]
    BY <1>0, <1>5, HolderMoves DEF SwapPredictor
  <2> QED
    BY <1>99, <1>5, <2>1 DEF SwapPredictor, loops
<1>6. ASSUME NEW t \in Threads, JoinPredictor(t)
      PROVE  LoopInv'
  <2>1. /\ lifeMu = t /\ at[t] = "joinPred" /\ at'[t] = IF t = Shutdown THEN "clear" ELSE "startPred"
        /\ \A u \in Threads : u # t => at'[u] = at[u]
    BY <1>0, <1>6, HolderMoves DEF JoinPredictor
  <2> QED
    BY <1>99, <1>6, <2>1 DEF JoinPredictor, loops, fields
<1>7. ASSUME NEW t \in Calls, AuthFails(t) \/ FirstRefresh(t) \/ StartPredictor(t)
      PROVE  LoopInv'
  <2>1. /\ lifeMu = t /\ t # None
        /\ at[t] \in {"auth", "startPred"} /\ at'[t] \in {"closeStop", "unlock"}
        /\ at[t] = "startPred" => at'[t] = "unlock"
        /\ \A u \in Threads : u # t => at'[u] = at[u]
    BY <1>0, <1>7, HolderMoves DEF AuthFails, FirstRefresh, StartPredictor
  <2>2. UNCHANGED <<lifeMu, retired, mgr, stop, told, loop>>
    BY <1>7 DEF AuthFails, FirstRefresh, StartPredictor, loops, fields
  <2> QED
    BY <1>99, <2>1, <2>2
<1>8. CASE Clear
  <2>1. /\ lifeMu = Shutdown /\ at[Shutdown] = "clear" /\ at'[Shutdown] = "unlock"
        /\ \A u \in Threads : u # Shutdown => at'[u] = at[u]
    BY <1>0, <1>8, HolderMoves DEF Clear
  <2> QED
    BY <1>99, <1>8, <2>1 DEF Clear, loops
<1>9. ASSUME NEW t \in Threads, Unlock(t)
      PROVE  LoopInv'
  <2>1. /\ lifeMu = t /\ at[t] = "unlock" /\ at'[t] = "done"
        /\ \A u \in Threads : u # t => at'[u] = at[u]
    BY <1>0, <1>9, HolderMoves DEF Unlock
  <2>2. UNCHANGED <<mgr, stop, told, loop>> /\ lifeMu' = None
    BY <1>9 DEF Unlock, loops, fields
  <2>3. mgr # None => stop = mgr /\ Alive(mgr)
    BY <2>1 DEF ShutdownInv
  <2>4. \A l \in Calls : Alive(l) => l = stop
    BY <2>1
  <2>5. \A u \in Calls : at[u] \in Installed \ {"startLoop"} => at'[u] \in Installed \ {"startLoop"}
    BY <2>1
  <2>6. stop = None \/ stop \in Calls
    BY <1>99
  <2>7. mgr = None \/ mgr \in Calls
    BY <1>99
  <2>8. ~HolderAt({"join"})' /\ ~HolderAt({"startLoop"})' /\ ~Closing'
    BY <2>2
  <2>9. \A l \in Calls : told'[l] => at'[l] \in Installed /\ l # stop'
    BY <2>1, <2>2
  <2>10. \A l \in Calls : loop'[l] # "none" => at'[l] \in Installed \ {"startLoop"}
    BY <2>1, <2>2, <2>5
  <2>11. \A l \in Calls : Alive(l)' => l = stop'
    BY <2>2, <2>4
  <2>12. stop' # None => at'[stop'] \in Installed
    BY <2>1, <2>2, <2>6
  <2>13. mgr' # None => at'[mgr'] \in Installed
    BY <2>1, <2>2, <2>7
  <2>14. mgr' # None => stop' = mgr' /\ Alive(mgr)'
    BY <2>2, <2>3
  <2> QED
    BY <2>8, <2>9, <2>10, <2>11, <2>12, <2>13, <2>14
<1>10. ASSUME NEW t \in Threads, Lock(t)
      PROVE  LoopInv'
  <2>1. /\ lifeMu = None /\ lifeMu' = t /\ at[t] = "lock" /\ at'[t] = IF t = Shutdown THEN "closeStop" ELSE "auth"
        /\ \A u \in Threads : u # t => at'[u] = at[u]
    BY <1>10, Moved DEF Lock
  <2> QED
    BY <1>99, <1>10, <2>1 DEF Lock, loops, fields
<1>11. ASSUME NEW t \in Threads, Goto(t, "idle", "lock"), UNCHANGED <<lifeMu, retired, mgr, stop, told, loop>>
      PROVE  LoopInv'
  <2>1. /\ at[t] = "idle" /\ at'[t] = "lock" /\ lifeMu # t
        /\ \A u \in Threads : u # t => at'[u] = at[u]
    BY <1>11, Moved DEF LockInv, Holding
  <2>2. \A places : HolderAt(places)' = HolderAt(places)
    BY <1>99, <1>11, <2>1
  <2>3. Closing' = Closing
    BY <1>99, <1>11, <2>1
  <2>4. \A l \in Calls : at[l] \in Installed => at'[l] = at[l]
    BY <2>1
  <2> HIDE DEF HolderAt, Closing, Installed
  <2> QED
    BY <1>99, <1>11, <2>2, <2>3, <2>4
<1>12. ASSUME NEW l \in Calls, Tick(l) \/ TickSucceeds(l) \/ TickFails(l)
      PROVE  LoopInv'
  BY <1>99, <1>12 DEF Tick, TickSucceeds, TickFails, threads, fields
<1>13. ASSUME NEW l \in Calls, LoopExits(l)
      PROVE  LoopInv'
  BY <1>99, <1>13 DEF LoopExits, threads, fields
<1>14. ASSUME UNCHANGED <<lifeMu, at, retired, mgr, stop, told, loop>>
      PROVE  LoopInv'
  BY <1>14
<1> HIDE DEF LoopInv
<1> QED
  BY <1>1, <1>2, <1>3, <1>4, <1>5, <1>6, <1>7, <1>8, <1>9, <1>10, <1>11, <1>12, <1>13, <1>14
     DEF Next, ThreadStep, CallStep, Load, BeginShutdown, Watch, EngineJoins,
         Capture, Resolve, Respond, Rest, vars, threads, fields, loops

-----------------------------------------------------------------------------
(* Every step keeps EngineInv.                                             *)
LEMMA EngineKept ==
  ASSUME TypeOK, LockInv, EngineInv, Next
  PROVE  EngineInv'
<1> USE ThreadFacts DEF EngineInv, HasEngine
<1>0. {"auth", "closeStop", "join", "install", "startLoop", "swapPred", "joinPred", "startPred", "clear", "unlock"} \subseteq Holding
  BY DEF Holding, Locations
<1>99. /\ DOMAIN engine = Calls /\ DOMAIN retired = Threads /\ DOMAIN at = Threads
      /\ pred \in Calls \union {None} /\ lifeMu \in Threads \union {None}
      /\ overran \in BOOLEAN
  BY DEF TypeOK
<1>1. ASSUME NEW t \in Threads, SwapPredictor(t)
      PROVE  EngineInv'
  <2>1. /\ lifeMu = t /\ t # None /\ at[t] = "swapPred" /\ at'[t] = "joinPred"
        /\ \A u \in Threads : u # t => at'[u] = at[u]
    BY <1>0, <1>1, HolderMoves DEF SwapPredictor
  <2>2. /\ UNCHANGED <<lifeMu, overran>> /\ pred' \in {t, None} /\ (pred' = t => t \in Calls)
        /\ retired'[t] = pred
        /\ \A e \in Calls : engine'[e] = IF e = pred' THEN "built" ELSE IF e = pred THEN "stopping" ELSE engine[e]
    BY <1>99, <1>1 DEF SwapPredictor
  <2>3. /\ ~HolderAt({"joinPred", "startPred"}) /\ ~HolderAt({"joinPred"})
        /\ HolderAt({"joinPred", "startPred"})' /\ HolderAt({"joinPred"})'
    BY <2>1, <2>2 DEF HolderAt
  <2>4. \A e \in Calls : engine[e] # "none" => at'[e] \in HasEngine
    BY <2>1
  <2>5. \A e \in Calls : engine'[e] # "none" => at'[e] \in HasEngine
    BY <1>99, <2>1, <2>2, <2>4
  <2>6. \A e \in Calls : engine'[e] = "built" => e = pred'
    BY <2>2, <2>3
  <2>7. \A e \in Calls : engine'[e] # "running"
    BY <2>2
  <2>8. \A e \in Calls : engine'[e] = "stopping" => overran' \/ retired'[lifeMu'] = e
    BY <2>1, <2>2, <2>3
  <2>9. pred' # None => pred' = lifeMu' /\ engine'[pred'] = "built"
    BY <2>1, <2>2
  <2> QED
    BY <2>3, <2>5, <2>6, <2>7, <2>8, <2>9
<1>2. ASSUME NEW t \in Threads, JoinPredictor(t)
      PROVE  EngineInv'
  <2>1. /\ lifeMu = t /\ t # None /\ at[t] = "joinPred" /\ at'[t] = IF t = Shutdown THEN "clear" ELSE "startPred"
        /\ \A u \in Threads : u # t => at'[u] = at[u]
    BY <1>0, <1>2, HolderMoves DEF JoinPredictor
  <2>2. /\ UNCHANGED <<lifeMu, pred, engine>>
        /\ overran' = (overran \/ (retired[t] # None /\ engine[retired[t]] # "joined"))
    BY <1>2 DEF JoinPredictor, fields
  <2>3. /\ HolderAt({"joinPred", "startPred"}) /\ HolderAt({"joinPred"})
        /\ ~HolderAt({"joinPred"})' /\ (t # Shutdown => HolderAt({"joinPred", "startPred"})')
    BY <2>1, <2>2 DEF HolderAt
  <2>4. ASSUME NEW e \in Calls, engine[e] = "stopping"
        PROVE  overran'
    <3>1. overran \/ retired[t] = e
      BY <2>1, <2>4
    <3>2. retired[t] = e => retired[t] # None /\ engine[retired[t]] # "joined"
      BY <2>4
    <3> HIDE DEF EngineInv
    <3> QED
      BY <2>2, <3>1, <3>2
  <2>5. t = Shutdown => pred = None
    BY <1>99, <2>1, <2>3
  <2>6. \A e \in Calls : engine[e] # "none" => at'[e] \in HasEngine
    BY <2>1
  <2>7. \A e \in Calls : engine[e] = "built" => t # Shutdown
    BY <2>5
  <2>8. pred # None => pred = lifeMu /\ engine[pred] = "built"
    BY <2>3
  <2> QED
    BY <2>2, <2>3, <2>4, <2>6, <2>7, <2>8
<1>3. ASSUME NEW t \in Calls, StartPredictor(t)
      PROVE  EngineInv'
  <2>1. /\ lifeMu = t /\ t # None /\ at[t] = "startPred" /\ at'[t] = "unlock"
        /\ \A u \in Threads : u # t => at'[u] = at[u]
    BY <1>0, <1>3, HolderMoves DEF StartPredictor
  <2>2. /\ UNCHANGED <<lifeMu, pred, overran, retired>>
        /\ engine'[t] = IF engine[t] = "built" THEN "running" ELSE engine[t]
        /\ \A e \in Calls : e # t => engine'[e] = engine[e]
    BY <1>99, <1>3 DEF StartPredictor, fields
  <2>3. /\ HolderAt({"joinPred", "startPred"}) /\ ~HolderAt({"joinPred"})
        /\ ~HolderAt({"joinPred"})' /\ ~HolderAt({"joinPred", "startPred"})'
    BY <2>1, <2>2 DEF HolderAt
  <2> QED
    BY <1>99, <2>1, <2>2, <2>3
(* All other moves are away from the two places where an engine is made.   *)
<1>4. ASSUME ~HolderAt({"joinPred", "startPred"}), ~HolderAt({"joinPred", "startPred"})',
             UNCHANGED <<engine, pred, overran>>,
             \A e \in Calls : at[e] \in HasEngine => at'[e] \in HasEngine
      PROVE  EngineInv'
  <2>1. ~HolderAt({"joinPred"}) /\ ~HolderAt({"joinPred"})'
    BY <1>4 DEF HolderAt
  <2> QED
    BY <1>99, <1>4, <2>1
<1>5. ASSUME NEW t \in Threads, CloseStop(t) \/ Join(t) \/ Unlock(t)
      PROVE  EngineInv'
  <2>1. /\ lifeMu = t /\ at[t] \in {"closeStop", "join", "unlock"} /\ at'[t] \in {"join", "install", "swapPred", "done"}
        /\ (at[t] = "unlock" => at'[t] = "done") /\ \A u \in Threads : u # t => at'[u] = at[u]
    BY <1>0, <1>5, HolderMoves DEF CloseStop, Join, Unlock
  <2>2. lifeMu' \in {t, None} /\ UNCHANGED <<engine, pred, overran>>
    BY <1>5, <2>1 DEF CloseStop, Join, Unlock, fields
  <2>3. ~HolderAt({"joinPred", "startPred"}) /\ ~HolderAt({"joinPred", "startPred"})'
    BY <2>1, <2>2 DEF HolderAt
  <2> QED
    BY <1>4, <2>1, <2>2, <2>3
<1>6. ASSUME NEW t \in Threads, Lock(t)
      PROVE  EngineInv'
  <2>1. /\ lifeMu = None /\ lifeMu' = t /\ at[t] = "lock" /\ at'[t] \in {"closeStop", "auth"}
        /\ \A u \in Threads : u # t => at'[u] = at[u]
    BY <1>6, Moved DEF Lock
  <2>2. ~HolderAt({"joinPred", "startPred"}) /\ ~HolderAt({"joinPred", "startPred"})'
    BY <2>1 DEF HolderAt
  <2> QED
    BY <1>4, <1>6, <2>1, <2>2 DEF Lock, fields
<1>7. ASSUME NEW t \in Calls, AuthFails(t) \/ FirstRefresh(t) \/ Install(t) \/ StartLoop(t)
      PROVE  EngineInv'
  <2>1. /\ lifeMu = t /\ at[t] \in {"auth", "install", "startLoop"} /\ at'[t] \in {"unlock", "closeStop", "startLoop", "swapPred"}
        /\ \A u \in Threads : u # t => at'[u] = at[u]
    BY <1>0, <1>7, HolderMoves DEF AuthFails, FirstRefresh, Install, StartLoop
  <2>2. lifeMu' = t /\ UNCHANGED <<engine, pred, overran>>
    BY <1>7, <2>1 DEF AuthFails, FirstRefresh, Install, StartLoop, fields
  <2>3. ~HolderAt({"joinPred", "startPred"}) /\ ~HolderAt({"joinPred", "startPred"})'
    BY <2>1, <2>2 DEF HolderAt
  <2> QED
    BY <1>4, <2>1, <2>2, <2>3
<1>8. CASE Clear
  <2>1. /\ lifeMu = Shutdown /\ at[Shutdown] = "clear" /\ at'[Shutdown] = "unlock"
        /\ \A u \in Threads : u # Shutdown => at'[u] = at[u]
    BY <1>0, <1>8, HolderMoves DEF Clear
  <2>2. lifeMu' = Shutdown /\ UNCHANGED <<engine, pred, overran>>
    BY <1>8, <2>1 DEF Clear
  <2>3. ~HolderAt({"joinPred", "startPred"}) /\ ~HolderAt({"joinPred", "startPred"})'
    BY <2>1, <2>2 DEF HolderAt
  <2> QED
    BY <1>4, <2>1, <2>2, <2>3
<1>9. ASSUME NEW t \in Threads, Goto(t, "idle", "lock"), UNCHANGED <<lifeMu, retired, pred, engine, overran>>
      PROVE  EngineInv'
  <2>1. /\ at[t] = "idle" /\ at'[t] = "lock" /\ lifeMu # t
        /\ \A u \in Threads : u # t => at'[u] = at[u]
    BY <1>9, Moved DEF LockInv, Holding
  <2>2. \A places : HolderAt(places)' = HolderAt(places)
    BY <1>99, <1>9, <2>1 DEF HolderAt
  <2>3. \A e \in Calls : at[e] \in HasEngine => at'[e] = at[e]
    BY <2>1
  <2> QED
    BY <1>99, <1>9, <2>2, <2>3
<1>10. ASSUME NEW e \in Calls, EngineJoins(e)
      PROVE  EngineInv'
  <2>1. UNCHANGED <<lifeMu, at, retired, pred, overran>>
    BY <1>10 DEF EngineJoins, threads, fields
  <2>2. /\ engine[e] = "stopping" /\ engine'[e] = "joined"
        /\ \A f \in Calls : f # e => engine'[f] = engine[f]
    BY <1>99, <1>10 DEF EngineJoins
  <2>3. \A places : HolderAt(places)' = HolderAt(places)
    BY <2>1 DEF HolderAt
  <2> QED
    BY <1>99, <2>1, <2>2, <2>3
<1>11. ASSUME UNCHANGED <<lifeMu, at, retired, pred, engine, overran>>
      PROVE  EngineInv'
  <2>1. \A places : HolderAt(places)' = HolderAt(places)
    BY <1>11 DEF HolderAt
  <2> QED
    BY <1>11, <2>1
<1> HIDE DEF EngineInv
<1> QED
  BY <1>1, <1>2, <1>3, <1>5, <1>6, <1>7, <1>8, <1>9, <1>10, <1>11
     DEF Next, ThreadStep, CallStep, Load, BeginShutdown, Watch, Tick, TickSucceeds, TickFails,
         LoopExits, Capture, Resolve, Respond, Rest, vars, threads, fields, loops

-----------------------------------------------------------------------------
(* Every step keeps ShutdownInv.                                           *)
LEMMA ShutdownKept ==
  ASSUME TypeOK, LockInv, LoopInv, ShutdownInv, Next
  PROVE  ShutdownInv'
<1> USE ThreadFacts DEF ShutdownInv
<1>0. {"auth", "closeStop", "join", "install", "startLoop", "swapPred", "joinPred", "startPred", "clear", "unlock"} \subseteq Holding
  BY DEF Holding, Locations
<1>1. ASSUME NEW t \in Threads, CloseStop(t) \/ Join(t)
      PROVE  ShutdownInv'
  <2>1. /\ lifeMu = t /\ at'[t] \in {"join", "swapPred", "install"} /\ lifeMu' = lifeMu
        /\ \A u \in Threads : u # t => at'[u] = at[u] /\ at[u] \notin Holding
    BY <1>0, <1>1, HolderMoves DEF CloseStop, Join
  <2>2. UNCHANGED <<mgr, pred>>
    BY <1>1 DEF CloseStop, Join, fields
  <2> QED
    BY <2>1, <2>2
<1>2. ASSUME NEW t \in Threads, SwapPredictor(t)
      PROVE  ShutdownInv'
  <2>1. /\ lifeMu = t /\ at'[t] = "joinPred" /\ lifeMu' = lifeMu
        /\ \A u \in Threads : u # t => at'[u] = at[u] /\ at[u] \notin Holding
    BY <1>0, <1>2, HolderMoves DEF SwapPredictor
  <2>2. t = Shutdown => pred' = None
    BY <1>2 DEF SwapPredictor
  <2> QED
    BY <1>0, <2>1, <2>2
<1>3. ASSUME NEW t \in Threads, JoinPredictor(t)
      PROVE  ShutdownInv'
  <2>1. /\ lifeMu = t /\ at[t] = "joinPred" /\ at'[t] \in {"clear", "startPred"} /\ lifeMu' = lifeMu
        /\ \A u \in Threads : u # t => at'[u] = at[u] /\ at[u] \notin Holding
    BY <1>0, <1>3, HolderMoves DEF JoinPredictor
  <2>2. UNCHANGED <<mgr, pred>>
    BY <1>3 DEF JoinPredictor, fields
  <2> QED
    BY <1>0, <2>1, <2>2
<1>4. CASE Clear
  <2>1. /\ lifeMu = Shutdown /\ at[Shutdown] = "clear" /\ at'[Shutdown] = "unlock" /\ lifeMu' = lifeMu
        /\ UNCHANGED pred /\ mgr' = None
    BY <1>0, <1>4, HolderMoves DEF Clear
  <2> QED
    BY <2>1
<1>5. ASSUME NEW t \in Threads, Unlock(t)
      PROVE  ShutdownInv'
  <2>1. /\ lifeMu = t /\ at[t] = "unlock" /\ at'[t] = "done" /\ lastHolder' = t
        /\ \A u \in Threads : u # t => at'[u] = at[u] /\ at[u] \notin Holding
    BY <1>0, <1>5, HolderMoves DEF Unlock
  <2>2. UNCHANGED <<mgr, pred, stop>>
    BY <1>5 DEF Unlock, fields
  <2>3. t = Shutdown => mgr = None /\ pred = None /\ stop = None
    BY <2>1 DEF LoopInv, Closing
  <2> QED
    BY <1>0, <2>1, <2>2, <2>3
<1>6. ASSUME NEW t \in Calls, CallStep(t)
      PROVE  ShutdownInv'
  <2>1. /\ lifeMu = t /\ lifeMu' = lifeMu /\ at'[Shutdown] = at[Shutdown] /\ at[Shutdown] \notin Holding
    BY <1>0, <1>6, HolderMoves DEF CallStep, AuthFails, FirstRefresh, Install, StartLoop, StartPredictor
  <2> QED
    BY <1>0, <2>1
<1>7. ASSUME NEW t \in Threads, Lock(t)
      PROVE  ShutdownInv'
  <2>1. lifeMu' = t /\ at'[t] \in {"closeStop", "auth"} /\ \A u \in Threads : u # t => at'[u] = at[u]
    BY <1>7, Moved DEF Lock
  <2>2. UNCHANGED <<mgr, pred>>
    BY <1>7 DEF Lock, fields
  <2> QED
    BY <2>1, <2>2
<1>8. ASSUME NEW t \in Threads, Goto(t, "idle", "lock"), UNCHANGED <<lifeMu, lastHolder, mgr, pred, stop>>
      PROVE  ShutdownInv'
  <2>1. at'[t] = "lock" /\ \A u \in Threads : u # t => at'[u] = at[u]
    BY <1>8, Moved
  <2> QED
    BY <1>8, <2>1
<1>9. ASSUME UNCHANGED <<lifeMu, lastHolder, at, mgr, pred, stop>>
      PROVE  ShutdownInv'
  BY <1>9
<1> HIDE DEF ShutdownInv
<1> QED
  BY <1>1, <1>2, <1>3, <1>4, <1>5, <1>6, <1>7, <1>8, <1>9
     DEF Next, ThreadStep, Load, BeginShutdown, Watch, Tick, TickSucceeds, TickFails, LoopExits, EngineJoins,
         Capture, Resolve, Respond, Rest, vars, threads, fields

-----------------------------------------------------------------------------
(* What a refresh or a seed builds.                                        *)
LEMMA MakeFor ==
  ASSUME NEW c, NEW l \in Seq(Ids)
  PROVE  MadeFor(c, [raw |-> l, snapshot |-> Snapshot(c, l)])
BY DEF MadeFor

(* A manager that has no entries serves none.                              *)
LEMMA FreshIsEmpty == Fresh.snapshot.models = {} /\ Fresh.raw \in Seq(Ids)
BY DEF Fresh, EmptySnapshot

(* Every step keeps StoreInv: refreshes, ticks, seeding and failures.      *)
LEMMA StoreKept ==
  ASSUME TypeOK, LockInv, LoopInv, StoreInv, Next
  PROVE  StoreInv'
<1> USE ThreadFacts
<1>0. {"auth", "closeStop", "join", "install", "startLoop", "swapPred", "joinPred", "startPred", "clear", "unlock"} \subseteq Holding
  BY DEF Holding, Locations
<1>99. /\ DOMAIN catalogs = Calls /\ DOMAIN outcome = Calls /\ DOMAIN conf = Calls
      /\ mgr \in Calls \union {None}
  BY DEF TypeOK
<1>97. \A l \in Calls : loop[l] # "none" =>
        conf[l] \in Configs /\ at[l] \notin {"idle", "lock", "auth", "closeStop", "join", "install"}
  BY DEF LoopInv, LockInv, Installed
(* Moves that touch no store.                                              *)
<1>1. ASSUME NEW t \in Threads, \A u \in Threads : u # t => at'[u] = at[u],
             at'[t] \in {"idle", "lock", "auth"} => at[t] \in {"idle", "lock", "auth"},
             at'[t] \in {"closeStop", "join", "install"} => at[t] \in {"closeStop", "join", "install"},
             UNCHANGED <<conf, catalogs, outcome>>, mgr' # None => mgr' = mgr /\ cfg' = cfg
      PROVE  StoreInv'
  BY <1>1 DEF StoreInv, StoreOf, Models
<1>2. ASSUME NEW t \in Threads, CloseStop(t) \/ Join(t) \/ SwapPredictor(t) \/ JoinPredictor(t) \/ Unlock(t)
      PROVE  StoreInv'
  <2>1. /\ \A u \in Threads : u # t => at'[u] = at[u]
        /\ at'[t] \notin {"idle", "lock", "auth"}
        /\ at'[t] \in {"closeStop", "join", "install"} => at[t] \in {"closeStop", "join", "install"}
    BY <1>0, <1>2, HolderMoves DEF CloseStop, Join, SwapPredictor, JoinPredictor, Unlock
  <2>2. UNCHANGED <<conf, catalogs, outcome, mgr, cfg>>
    BY <1>2 DEF CloseStop, Join, SwapPredictor, JoinPredictor, Unlock, stores, fields
  <2> QED
    BY <1>1, <2>1, <2>2
<1>3. ASSUME NEW t \in Threads, Lock(t)
      PROVE  StoreInv'
  <2>1. /\ at[t] = "lock" /\ at'[t] = IF t = Shutdown THEN "closeStop" ELSE "auth"
        /\ \A u \in Threads : u # t => at'[u] = at[u]
    BY <1>3, Moved DEF Lock
  <2>2. UNCHANGED <<conf, catalogs, outcome, mgr, cfg>>
    BY <1>3 DEF Lock, stores, fields
  <2> QED
    BY <2>1, <2>2 DEF StoreInv, StoreOf, Models
<1>4. ASSUME NEW t \in Calls, AuthFails(t) \/ StartLoop(t) \/ StartPredictor(t)
      PROVE  StoreInv'
  <2>1. /\ \A u \in Threads : u # t => at'[u] = at[u]
        /\ at'[t] \in {"unlock", "swapPred"}
    BY <1>0, <1>4, HolderMoves DEF AuthFails, StartLoop, StartPredictor
  <2>2. UNCHANGED <<conf, catalogs, outcome, mgr, cfg>>
    BY <1>4 DEF AuthFails, StartLoop, StartPredictor, stores, fields
  <2> QED
    BY <1>1, <2>1, <2>2
<1>5. CASE Clear
  <2>1. /\ at'[Shutdown] = "unlock" /\ \A u \in Threads : u # Shutdown => at'[u] = at[u]
    BY <1>0, <1>5, HolderMoves DEF Clear
  <2>2. UNCHANGED <<conf, catalogs, outcome>> /\ mgr' = None
    BY <1>5 DEF Clear, stores
  <2> QED
    BY <1>1, <2>1, <2>2
<1>6. ASSUME NEW t \in Calls, FirstRefresh(t)
      PROVE  StoreInv'
  <2>1. /\ at[t] = "auth" /\ at'[t] = "closeStop" /\ \A u \in Threads : u # t => at'[u] = at[u]
    BY <1>0, <1>6, HolderMoves DEF FirstRefresh
  <2>2. conf[t] \in Configs /\ StoreOf(t) /\ catalogs[t] = Fresh
    BY <2>1 DEF LockInv, StoreInv, StoreOf
  <2>3. UNCHANGED <<conf, mgr, cfg>>
    BY <1>6 DEF FirstRefresh, fields
  <2>4. \A u \in Calls : u # t => catalogs'[u] = catalogs[u] /\ outcome'[u] = outcome[u]
    BY <1>99, <1>6 DEF FirstRefresh
  <2>5. StoreOf(t)'
    <3>1. ASSUME NEW list \in Lists, outcome'[t] = "ok",
                 catalogs'[t] = [raw |-> list, snapshot |-> Snapshot(conf[t], list)]
          PROVE  StoreOf(t)'
      <4>1. MadeFor(conf[t], catalogs'[t])
        BY <3>1, MakeFor, LifecycleAssumption
      <4> QED
        BY <2>1, <2>2, <2>3, <3>1, <4>1 DEF StoreOf
    <3>2. ASSUME outcome'[t] = "failed", UNCHANGED catalogs
          PROVE  StoreOf(t)'
      BY <2>1, <2>2, <2>3, <3>2, FreshIsEmpty DEF StoreOf, Models
    <3> QED
      BY <1>99, <1>6, <3>1, <3>2 DEF FirstRefresh
  <2>6. \A u \in Calls : u # t => StoreOf(u)'
    BY <2>1, <2>3, <2>4 DEF StoreInv, StoreOf, Models
  <2> QED
    BY <2>3, <2>5, <2>6 DEF StoreInv
<1>7. ASSUME NEW t \in Calls, Install(t)
      PROVE  StoreInv'
  <2>1. /\ at[t] = "install" /\ at'[t] = "startLoop" /\ \A u \in Threads : u # t => at'[u] = at[u]
    BY <1>0, <1>7, HolderMoves DEF Install
  <2>2. conf[t] \in Configs /\ StoreOf(t)
    BY <2>1 DEF LockInv, StoreInv
  <2>3. UNCHANGED <<conf, outcome>> /\ mgr' = t /\ cfg' = conf[t]
    BY <1>7 DEF Install
  <2>4. \A u \in Calls : u # t => catalogs'[u] = catalogs[u]
    BY <1>99, <1>7 DEF Install
  <2>5. StoreOf(t)'
    <3>1. CASE Seeds(t)
      <4>1. mgr \in Calls /\ conf[t].stale
        BY <1>99, <3>1 DEF Seeds
      <4>2. catalogs[mgr].raw \in Seq(Ids)
        BY <4>1, FreshIsEmpty DEF StoreInv, StoreOf, MadeFor
      <4>3. catalogs'[t] = [raw |-> catalogs[mgr].raw, snapshot |-> Snapshot(conf[t], catalogs[mgr].raw)]
        BY <1>99, <1>7, <3>1 DEF Install, Seeded
      <4>4. MadeFor(conf[t], catalogs'[t])
        BY <4>2, <4>3, MakeFor
      <4> QED
        BY <2>1, <2>2, <2>3, <4>1, <4>4 DEF StoreOf
    <3>2. CASE ~Seeds(t)
      BY <1>7, <2>1, <2>2, <2>3, <3>2 DEF Install, StoreOf, Models
    <3> QED
      BY <3>1, <3>2
  <2>6. \A u \in Calls : u # t => StoreOf(u)'
    BY <2>1, <2>3, <2>4 DEF StoreInv, StoreOf, Models
  <2> QED
    BY <2>3, <2>5, <2>6 DEF StoreInv
<1>8. ASSUME NEW t \in Calls, Load(t)
      PROVE  StoreInv'
  <2>1. /\ at[t] = "idle" /\ at'[t] = "lock" /\ \A u \in Threads : u # t => at'[u] = at[u]
    BY <1>8, Moved DEF Load
  <2>2. UNCHANGED <<catalogs, outcome, mgr, cfg>> /\ \A u \in Calls : u # t => conf'[u] = conf[u]
    BY <1>8 DEF Load, stores, fields
  <2>3. catalogs[t] = Fresh
    BY <2>1 DEF StoreInv, StoreOf
  <2>4. StoreOf(t)'
    BY <2>1, <2>2, <2>3, FreshIsEmpty DEF StoreOf, Models
  <2>5. \A u \in Calls : u # t => StoreOf(u)'
    BY <2>1, <2>2 DEF StoreInv, StoreOf, Models
  <2>6. mgr # None => mgr # t
    BY <1>99, <2>1 DEF LoopInv, Installed
  <2> QED
    BY <1>99, <2>2, <2>4, <2>5, <2>6 DEF StoreInv
<1>9. CASE BeginShutdown
  <2>1. /\ at[Shutdown] = "idle" /\ at'[Shutdown] = "lock" /\ \A u \in Threads : u # Shutdown => at'[u] = at[u]
    BY <1>9, Moved DEF BeginShutdown
  <2> QED
    BY <1>1, <1>9, <2>1 DEF BeginShutdown, stores, fields
<1>10. ASSUME NEW l \in Calls, TickSucceeds(l)
      PROVE  StoreInv'
  <2>1. /\ UNCHANGED <<at, conf, mgr, cfg>> /\ loop[l] # "none"
        /\ outcome'[l] = "ok" /\ \A u \in Calls : u # l => catalogs'[u] = catalogs[u] /\ outcome'[u] = outcome[u]
    BY <1>99, <1>10 DEF TickSucceeds, threads, fields
  <2>2. PICK list \in Lists : catalogs'[l] = [raw |-> list, snapshot |-> Snapshot(conf[l], list)]
    BY <1>99, <1>10 DEF TickSucceeds
  <2>3. MadeFor(conf[l], catalogs'[l])
    BY <2>2, MakeFor, LifecycleAssumption
  <2>4. StoreOf(l)'
    BY <1>97, <2>1, <2>3 DEF StoreOf
  <2>5. \A u \in Calls : u # l => StoreOf(u)'
    BY <2>1 DEF StoreInv, StoreOf, Models
  <2> QED
    BY <2>1, <2>4, <2>5 DEF StoreInv
<1>11. ASSUME NEW l \in Calls, TickFails(l)
      PROVE  StoreInv'
  <2>1. /\ UNCHANGED <<at, conf, mgr, cfg>> /\ loop[l] # "none"
        /\ \A u \in Calls : u # l => catalogs'[u] = catalogs[u] /\ outcome'[u] = outcome[u]
    BY <1>99, <1>11 DEF TickFails, threads, fields
  <2>2. (conf[l].stale => catalogs'[l] = catalogs[l]) /\ (~conf[l].stale => catalogs'[l] = Fresh)
    BY <1>99, <1>11 DEF TickFails
  <2>3. StoreOf(l)
    BY DEF StoreInv
  <2>4. StoreOf(l)'
    BY <1>97, <2>1, <2>2, <2>3, FreshIsEmpty DEF StoreOf, Models
  <2>5. \A u \in Calls : u # l => StoreOf(u)'
    BY <2>1 DEF StoreInv, StoreOf, Models
  <2> QED
    BY <2>1, <2>4, <2>5 DEF StoreInv
<1>12. ASSUME UNCHANGED <<at, conf, catalogs, outcome, mgr, cfg>>
      PROVE  StoreInv'
  BY <1>12 DEF StoreInv, StoreOf, Models
<1> QED
  BY <1>2, <1>3, <1>4, <1>5, <1>6, <1>7, <1>8, <1>9, <1>10, <1>11, <1>12
     DEF Next, ThreadStep, CallStep, Watch, Tick, LoopExits, EngineJoins,
         Capture, Resolve, Respond, Rest, vars, threads, fields, stores

-----------------------------------------------------------------------------
(* Every step keeps ReaderInv, whatever a reconfigure replaces meanwhile.  *)
LEMMA ReaderKept ==
  ASSUME TypeOK, LockInv, LoopInv, StoreInv, ReaderInv, Next
  PROVE  ReaderInv'
<1> USE ThreadFacts
<1>99. /\ DOMAIN reader = Readers /\ mgr \in Calls \union {None}
  BY DEF TypeOK
(* A manager that a request has captured stays installed.                  *)
<1>1. ASSUME NEW t \in Threads, \A u \in Threads : u # t => at'[u] = at[u],
             t \in Calls /\ at[t] \in Installed => at'[t] \in Installed,
             \A u \in Calls : at[u] \in Installed => conf'[u] = conf[u], UNCHANGED reader
      PROVE  ReaderInv'
  BY <1>1 DEF ReaderInv, ReaderOf
<1>2. ASSUME NEW t \in Threads, ThreadStep(t)
      PROVE  ReaderInv'
  <2>1. /\ \A u \in Threads : u # t => at'[u] = at[u]
        /\ t \in Calls /\ at[t] \in Installed => at'[t] \in Installed
    BY <1>2, Moved DEF ThreadStep, Lock, CloseStop, Join, SwapPredictor, JoinPredictor, Unlock, Installed
  <2>2. UNCHANGED <<conf, reader>>
    BY <1>2 DEF ThreadStep, Lock, CloseStop, Join, SwapPredictor, JoinPredictor, Unlock
  <2> QED
    BY <1>1, <2>1, <2>2
<1>3. ASSUME NEW t \in Calls, CallStep(t)
      PROVE  ReaderInv'
  <2>1. /\ \A u \in Threads : u # t => at'[u] = at[u]
        /\ at[t] \in Installed => at'[t] \in Installed
    BY <1>3, Moved DEF CallStep, AuthFails, FirstRefresh, Install, StartLoop, StartPredictor, Installed
  <2>2. UNCHANGED <<conf, reader>>
    BY <1>3 DEF CallStep, AuthFails, FirstRefresh, Install, StartLoop, StartPredictor
  <2> QED
    BY <1>1, <2>1, <2>2
<1>4. ASSUME NEW t \in Calls, Load(t)
      PROVE  ReaderInv'
  <2>1. /\ at[t] = "idle" /\ \A u \in Threads : u # t => at'[u] = at[u]
        /\ at[t] \notin Installed
    BY <1>4, Moved DEF Load, Installed
  <2>2. UNCHANGED reader /\ \A u \in Calls : u # t => conf'[u] = conf[u]
    BY <1>4 DEF Load
  <2> QED
    BY <1>1, <2>1, <2>2
<1>5. CASE BeginShutdown \/ Clear
  <2>1. /\ \A u \in Threads : u # Shutdown => at'[u] = at[u]
        /\ at[Shutdown] \notin Installed
    BY <1>5, Moved DEF BeginShutdown, Clear, Installed
  <2>2. UNCHANGED <<conf, reader>>
    BY <1>5 DEF BeginShutdown, Clear
  <2> QED
    BY <1>1, <2>1, <2>2
<1>6. ASSUME NEW r \in Readers, Capture(r)
      PROVE  ReaderInv'
  <2>1. /\ mgr \in Calls /\ at[mgr] \in Installed /\ cfg = conf[mgr]
    BY <1>99, <1>6 DEF Capture, LoopInv, StoreInv
  <2>2. /\ UNCHANGED <<at, conf>> /\ reader'[r] = [cfg |-> cfg, mgr |-> mgr, rec |-> None]
        /\ \A q \in Readers : q # r => reader'[q] = reader[q]
    BY <1>99, <1>6 DEF Capture, threads
  <2>3. ReaderOf(r)'
    BY <2>1, <2>2 DEF ReaderOf
  <2> QED
    BY <2>2, <2>3 DEF ReaderInv, ReaderOf
<1>7. ASSUME NEW r \in Readers, Resolve(r)
      PROVE  ReaderInv'
  <2> DEFINE q == reader[r]
             s == catalogs[q.mgr].snapshot
  <2>1. /\ q.mgr \in Calls /\ at[q.mgr] \in Installed /\ q.cfg = conf[q.mgr] /\ DOMAIN q = {"cfg", "mgr", "rec"}
    BY <1>7 DEF Resolve, ReaderInv, ReaderOf
  <2>2. PICK id \in DOMAIN s.index : reader' = [reader EXCEPT ![r].rec = s.index[id]]
    BY <1>7 DEF Resolve
  <2>3. MadeUnder(q.cfg, s.index[id])
    <3>1. CASE catalogs[q.mgr] = Fresh
      BY <2>2, <3>1 DEF Fresh, EmptySnapshot
    <3>2. CASE MadeFor(conf[q.mgr], catalogs[q.mgr])
      <4>1. s = Snapshot(conf[q.mgr], catalogs[q.mgr].raw) /\ catalogs[q.mgr].raw \in Seq(Ids)
        BY <3>2 DEF MadeFor
      <4> HIDE DEF s
      <4> QED
        BY <2>1, <2>2, <4>1, SnapshotMakes DEF IndexMadeUnder
    <3> QED
      BY <2>1, <3>1, <3>2 DEF StoreInv, StoreOf
  <2>4. /\ DOMAIN reader'[r] = {"cfg", "mgr", "rec"}
        /\ reader'[r].cfg = q.cfg /\ reader'[r].mgr = q.mgr /\ reader'[r].rec = s.index[id]
        /\ \A p \in Readers : p # r => reader'[p] = reader[p]
    BY <1>99, <2>1, <2>2
  <2>5. UNCHANGED <<at, conf>>
    BY <1>7 DEF Resolve, threads
  <2> HIDE DEF q, s
  <2>6. ReaderOf(r)'
    BY <2>1, <2>3, <2>4, <2>5 DEF ReaderOf
  <2> QED
    BY <2>4, <2>5, <2>6 DEF ReaderInv, ReaderOf
<1>8. ASSUME NEW r \in Readers, Respond(r)
      PROVE  ReaderInv'
  <2>1. /\ UNCHANGED <<at, conf>> /\ reader'[r] = NoRequest
        /\ \A q \in Readers : q # r => reader'[q] = reader[q]
    BY <1>99, <1>8 DEF Respond, threads
  <2> QED
    BY <2>1 DEF ReaderInv, ReaderOf, NoRequest
<1>9. ASSUME UNCHANGED <<at, conf, reader>>
      PROVE  ReaderInv'
  BY <1>9 DEF ReaderInv, ReaderOf
<1> QED
  BY <1>2, <1>3, <1>4, <1>5, <1>6, <1>7, <1>8, <1>9
     DEF Next, Watch, Tick, TickSucceeds, TickFails, LoopExits, EngineJoins, Rest, vars, threads

-----------------------------------------------------------------------------
(* The inductive invariant holds initially ...                             *)
LEMMA InitIInv == Init => IInv
<1> SUFFICES ASSUME Init
             PROVE  IInv
  OBVIOUS
<1> USE ThreadFacts DEF Init
<1>1. TypeOK
  BY DEF TypeOK, Locations
<1>2. LockInv
  BY DEF LockInv, Holding, ShutdownPath
<1>3. LoopInv
  BY DEF LoopInv, Alive, Closing, HolderAt
<1>4. EngineInv
  BY DEF EngineInv, HolderAt
<1>5. ShutdownInv
  BY DEF ShutdownInv
<1>6. StoreInv
  BY FreshIsEmpty DEF StoreInv, StoreOf, Models
<1>7. ReaderInv
  BY DEF ReaderInv, ReaderOf, NoRequest
<1> QED
  BY <1>1, <1>2, <1>3, <1>4, <1>5, <1>6, <1>7 DEF IInv

(* ... and every step keeps it.                                            *)
LEMMA NextIInv == IInv /\ [Next]_vars => IInv'
<1> SUFFICES ASSUME IInv, [Next]_vars
             PROVE  IInv'
  OBVIOUS
<1>1. CASE Next
  BY <1>1, TypesKept, LockKept, LoopKept, EngineKept, ShutdownKept, StoreKept, ReaderKept DEF IInv
<1>2. CASE UNCHANGED vars
  <2> USE <1>2 DEF vars, threads, fields, loops, stores
  <2>1. TypeOK' /\ LockInv' /\ ShutdownInv'
    BY DEF IInv, TypeOK, LockInv, ShutdownInv
  <2>2. LoopInv' /\ EngineInv'
    BY DEF IInv, LoopInv, EngineInv, Alive, Closing, HolderAt
  <2>3. StoreInv' /\ ReaderInv'
    BY DEF IInv, StoreInv, StoreOf, Models, ReaderInv, ReaderOf
  <2> QED
    BY <2>1, <2>2, <2>3 DEF IInv
<1> QED
  BY <1>1, <1>2

LEMMA AlwaysIInv == Spec => []IInv
BY InitIInv, NextIInv, PTL DEF Spec

(* Every variable keeps its type, for any calls, requests and              *)
(* configurations.                                                         *)
THEOREM TypeCorrect == Spec => []TypeOK
<1>1. IInv => TypeOK
  BY DEF IInv
<1> QED
  BY <1>1, AlwaysIInv, PTL

(* lifeMu (plugin.go) does what it is for: stop-wait-install sequences of  *)
(* any number of calls and of a shutdown never leave a refresh loop that   *)
(* nobody can stop, and between calls the manager that serves has one.     *)
THEOREM LoopsNeverOrphaned == Spec => []OneLoop
<1>1. IInv => OneLoop
  <2> SUFFICES ASSUME IInv
               PROVE  OneLoop
    OBVIOUS
  <2> USE ThreadFacts DEF IInv, LoopInv
  <2>1. ASSUME NEW l \in Calls, NEW k \in Calls, Alive(l), Alive(k)
        PROVE  l = k
    <3>1. CASE HolderAt({"join"})
      BY <2>1, <3>1 DEF Closing, HolderAt
    <3> QED
      BY <2>1, <3>1
  <2>2. \A l \in Calls : Alive(l) => l = stop \/ told[l]
    OBVIOUS
  <2>3. lifeMu = None /\ mgr # None => stop = mgr /\ Alive(mgr)
    BY DEF Closing, HolderAt
  <2> QED
    BY <2>1, <2>2, <2>3 DEF OneLoop
<1> QED
  BY <1>1, AlwaysIInv, PTL

(* swapPredictor and WaitStopped (predictor.go): two predictor engines     *)
(* never work on the one history file, unless predictorStopTimeout ran out *)
(* for the old one.                                                        *)
THEOREM EnginesNeverShare == Spec => []OneEngine
<1>1. IInv => OneEngine
  <2> SUFFICES ASSUME IInv
               PROVE  OneEngine
    OBVIOUS
  <2> USE ThreadFacts DEF IInv, EngineInv
  <2>1. ASSUME ~overran, NEW e \in Calls, NEW f \in Calls, Touches(e), Touches(f)
        PROVE  e = f
    <3>1. CASE HolderAt({"joinPred"})
      <4>1. HolderAt({"joinPred", "startPred"})
        BY <3>1 DEF HolderAt
      <4>2. engine[e] # "running" /\ engine[f] # "running"
        BY <4>1
      <4> QED
        BY <2>1, <4>2 DEF Touches
    <3>2. CASE ~HolderAt({"joinPred"})
      BY <2>1, <3>2 DEF Touches
    <3> QED
      BY <3>1, <3>2
  <2>2. lifeMu = None /\ pred # None => engine[pred] = "running"
    BY DEF HolderAt, TypeOK
  <2> QED
    BY <2>1, <2>2 DEF OneEngine, TypeOK
<1> QED
  BY <1>1, AlwaysIInv, PTL

(* Once handleShutdown has returned there is no manager, no loop and no    *)
(* engine, whatever calls came before it.                                  *)
THEOREM ShutdownIsFinal == Spec => []ShutdownLeavesNothing
<1>1. IInv => ShutdownLeavesNothing
  BY ThreadFacts DEF IInv, ShutdownInv, LoopInv, EngineInv, HolderAt, ShutdownLeavesNothing
<1> QED
  BY <1>1, AlwaysIInv, PTL

(* What resolveExecution returns was made under the configuration that it  *)
(* captured, also when the snapshot was seeded during an outage or         *)
(* replaced in between.                                                    *)
THEOREM RequestsKeepTheirConfig == Spec => []RequestsSeeOneConfig
<1>1. IInv => RequestsSeeOneConfig
  BY DEF IInv, ReaderInv, ReaderOf, MadeUnder, RequestsSeeOneConfig
<1> QED
  BY <1>1, AlwaysIInv, PTL

(* Without stale-while-unavailable nothing is served after a failed        *)
(* refresh, on the reconfigure path (SeedFrom) and on a tick (fail).       *)
THEOREM FailClosedHolds == Spec => []FailClosed
<1>1. IInv => FailClosed
  <2> SUFFICES ASSUME IInv, mgr # None, ~cfg.stale, Models(mgr) # {}
               PROVE  outcome[mgr] = "ok"
    BY DEF FailClosed
  <2>1. mgr \in Calls /\ at[mgr] \in Installed
    BY DEF IInv, TypeOK, LoopInv
  <2>2. conf[mgr] \in Configs
    BY <2>1, ThreadFacts DEF IInv, LockInv, Installed
  <2> QED
    BY <2>1, <2>2 DEF IInv, StoreInv, StoreOf
<1> QED
  BY <1>1, AlwaysIInv, PTL

(* A reconfigure with the same stale-while-unavailable config during an    *)
(* outage leaves the models that are served as they were: a rebuild from   *)
(* the same entries by the same config is the same snapshot.               *)
THEOREM OutagesKeepServing == Spec => OutageKeepsServing
<1>1. ASSUME IInv, Next, mgr # None, mgr' \notin {None, mgr},
             cfg.stale, cfg' = cfg, outcome'[mgr'] = "failed"
      PROVE  catalogs'[mgr'].snapshot.models = Models(mgr)
  <2>1. PICK t \in Calls : Install(t)
    BY <1>1 DEF Next, ThreadStep, CallStep, Lock, CloseStop, Join, SwapPredictor, JoinPredictor, Unlock,
       AuthFails, FirstRefresh, StartLoop, StartPredictor, Load, BeginShutdown, Clear, Watch, Tick,
       TickSucceeds, TickFails, LoopExits, EngineJoins, Capture, Resolve, Respond, Rest, vars, threads, fields
  <2>2. /\ mgr' = t /\ cfg = conf[t] /\ outcome[t] = "failed" /\ at[t] = "install"
        /\ mgr \in Calls /\ mgr # t /\ cfg = conf[mgr] /\ DOMAIN catalogs = Calls
    BY <1>1, <2>1 DEF Install, IInv, TypeOK, StoreInv, Goto
  <2>3. catalogs[t] = Fresh
    BY <1>1, <2>2 DEF IInv, StoreInv, StoreOf
  <2>4. CASE Seeds(t)
    <3>1. catalogs'[t].snapshot = Snapshot(conf[t], catalogs[mgr].raw)
      BY <2>1, <2>2, <2>4 DEF Install, Seeded
    <3>2. MadeFor(conf[mgr], catalogs[mgr])
      BY <1>1, <2>2, <2>4, FreshIsEmpty DEF IInv, StoreInv, StoreOf, Seeds, Models
    <3>3. catalogs[mgr].snapshot = Snapshot(conf[mgr], catalogs[mgr].raw)
      BY <3>2 DEF MadeFor
    <3> QED
      BY <2>2, <3>1, <3>3 DEF Models
  <2>5. CASE ~Seeds(t)
    BY <1>1, <2>1, <2>2, <2>3, <2>5, FreshIsEmpty DEF Install, Seeds, Models
  <2> QED
    BY <2>4, <2>5
<1>2. IInv /\ [Next]_vars =>
        [(/\ mgr # None /\ mgr' \notin {None, mgr}
          /\ cfg.stale /\ cfg' = cfg /\ outcome'[mgr'] = "failed")
           => catalogs'[mgr'].snapshot.models = Models(mgr)]_vars
  BY <1>1
<1> QED
  BY <1>2, AlwaysIInv, PTL DEF Spec, OutageKeepsServing
=============================================================================
