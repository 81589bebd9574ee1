---------------------------- MODULE CatalogProofs ----------------------------
(***************************************************************************)
(* Proofs about Catalog, for every set of segments, every configuration    *)
(* and every list the upstream can answer with.                            *)
(*                                                                         *)
(* The argument: the loop keeps the index in agreement with the models     *)
(* because a record is admitted only when both of its keys are free.  That *)
(* no key is ever claimed twice in the same role needs more (Sound): every *)
(* admitted record carries the public id of its upstream id, public ids    *)
(* are injective, and an id is seen once it is admitted or excluded.       *)
(***************************************************************************)
EXTENDS Catalog, TLAPS

(* Two upstream ids with the same public id are the same id: the injective *)
(* public mapping that the comment at catalog.go:316 relies on.            *)
LEMMA PublicIDInjective ==
  ASSUME NEW c, c.prefix \in Segments \union {NoPrefix},
         NEW a \in Ids, NEW b \in Ids, PublicID(c, a) = PublicID(c, b)
  PROVE  a = b
<1>1. CASE c.prefix = NoPrefix
  BY <1>1 DEF PublicID
<1>2. CASE c.prefix # NoPrefix
  <2>1. c.prefix \in Segments
    BY <1>2
  <2>2. /\ a \in Seq(Segments) /\ b \in Seq(Segments)
        /\ <<c.prefix>> \in Seq(Segments) /\ Len(<<c.prefix>>) = 1
    BY <2>1 DEF Ids
  <2>3. <<c.prefix>> \o a = <<c.prefix>> \o b
    BY <1>2 DEF PublicID
  <2>4. Len(a) = Len(b)
    BY <2>2, <2>3
  <2>5. ASSUME NEW i \in 1..Len(a) PROVE a[i] = b[i]
    <3>1. /\ (<<c.prefix>> \o a)[i + 1] = a[i]
          /\ (<<c.prefix>> \o b)[i + 1] = b[i]
      BY <2>2, <2>4
    <3> QED BY <3>1, <2>3
  <2> QED BY <2>2, <2>4, <2>5
<1> QED BY <1>1, <1>2

(* Prefixing yields an id. *)
LEMMA PublicIDType ==
  ASSUME NEW c, c.prefix \in Segments \union {NoPrefix}, NEW id \in Ids
  PROVE  PublicID(c, id) \in Ids
BY DEF PublicID, Ids

(* A record of a configured route is well formed. *)
LEMMA ModelRecordType ==
  ASSUME NEW c, IsConfig(c), NEW id \in Ids
  PROVE  /\ ModelRecord(c, id) \in ModelRecords
         /\ ModelRecord(c, id).public = PublicID(c, id)
         /\ ModelRecord(c, id).upstream = id
<1>1. c.prefix \in Segments \union {NoPrefix}
  BY DEF IsConfig
<1>2. PublicID(c, id) \in Ids
  BY <1>1, PublicIDType
<1>3. RouteOf(c, id) \in Routes
  BY DEF RouteOf, Overridden, IsConfig, Overrides, Routes, DefaultRoute
<1> QED BY <1>2, <1>3 DEF ModelRecord, ModelRecords

-----------------------------------------------------------------------------
Upstreams(w) == {r.upstream : r \in w.models}

(* What holds of the loop's results beside IndexAgrees. *)
Sound(c, w) ==
  /\ \A r \in w.models : r.public = PublicID(c, r.upstream) /\ r.upstream # MissingId
  /\ w.seen = (Upstreams(w) \union w.unsup) \ {MissingId}
  /\ Upstreams(w) \intersect w.unsup = {}

Good(c, w) ==
  w.seen \subseteq Ids /\ IsSnapshot(w) /\ IndexAgrees(w) /\ Sound(c, w)

(* The loop starts from nothing. *)
LEMMA NothingIsGood ==
  ASSUME NEW c
  PROVE  Good(c, NothingSeen) /\ Upstreams(NothingSeen) \union NothingSeen.unsup = {}
BY DEF Good, NothingSeen, IsSnapshot, IndexAgrees, Sound, Upstreams

(* One iteration that excludes its entry. *)
LEMMA ExcludeKeeps ==
  ASSUME NEW c, NEW w, Good(c, w), NEW id \in Ids, id \notin w.seen
  PROVE  /\ Good(c, Exclude(w, id))
         /\ Upstreams(Exclude(w, id)) = Upstreams(w)
         /\ Exclude(w, id).unsup = w.unsup \union {id}
<1> DEFINE x == Exclude(w, id)
<1>1. /\ x.seen = w.seen \union ({id} \ {MissingId})
      /\ x.models = w.models /\ x.index = w.index
      /\ x.unsup = w.unsup \union {id}
  BY DEF Exclude
<1>2. Upstreams(x) = Upstreams(w)
  BY <1>1 DEF Upstreams
<1>3. x.seen \subseteq Ids /\ IsSnapshot(x) /\ IndexAgrees(x)
  BY <1>1 DEF Good, IsSnapshot, IndexAgrees
<1>4. id \notin Upstreams(w)
  BY DEF Good, Sound, Upstreams
<1>5. Sound(c, x)
  BY <1>1, <1>2, <1>4 DEF Good, Sound
<1> QED BY <1>1, <1>2, <1>3, <1>5 DEF Good

(* One iteration that admits its entry. *)
LEMMA AdmitKeeps ==
  ASSUME NEW c, IsConfig(c), NEW w, Good(c, w), NEW id \in Ids,
         id # MissingId, id \notin w.seen, ~Collides(c, w, id)
  PROVE  /\ Good(c, Admit(w, ModelRecord(c, id)))
         /\ Upstreams(Admit(w, ModelRecord(c, id))) = Upstreams(w) \union {id}
         /\ Admit(w, ModelRecord(c, id)).unsup = w.unsup
<1> DEFINE rec == ModelRecord(c, id)
           x   == Admit(w, rec)
<1>1. rec \in ModelRecords /\ rec.public = PublicID(c, id) /\ rec.upstream = id
  BY ModelRecordType
<1> HIDE DEF rec
<1>2. /\ x.seen = w.seen \union {id}
      /\ x.models = w.models \union {rec}
      /\ x.unsup = w.unsup
      /\ DOMAIN x.index = DOMAIN w.index \union {rec.public, id}
      /\ x.index[rec.public] = rec /\ x.index[id] = rec
  BY <1>1 DEF Admit
<1>3. \A k \in DOMAIN w.index : k # rec.public /\ k # id
  BY <1>1 DEF Collides
<1>4. \A k \in DOMAIN w.index : x.index[k] = w.index[k]
  BY <1>1, <1>3 DEF Admit
<1> HIDE DEF x
<1>5. rec.public \in Ids
  BY <1>1 DEF ModelRecords
<1>6. x.seen \subseteq Ids /\ IsSnapshot(x)
  BY <1>1, <1>2, <1>4, <1>5 DEF Good, IsSnapshot
<1>7. IndexAgrees(x)
  <2>1. ASSUME NEW r \in x.models
        PROVE  /\ r.public \in DOMAIN x.index /\ r.upstream \in DOMAIN x.index
               /\ x.index[r.public] = r /\ x.index[r.upstream] = r
    <3>1. CASE r = rec
      BY <3>1, <1>1, <1>2
    <3>2. CASE r \in w.models
      <4>1. /\ r.public \in DOMAIN w.index /\ r.upstream \in DOMAIN w.index
            /\ w.index[r.public] = r /\ w.index[r.upstream] = r
        BY <3>2 DEF Good, IndexAgrees
      <4> QED BY <4>1, <1>2, <1>4
    <3> QED BY <3>1, <3>2, <1>2
  <2>2. \A k \in DOMAIN x.index :
          x.index[k] \in x.models /\ k \in {x.index[k].public, x.index[k].upstream}
    BY <1>1, <1>2, <1>4 DEF Good, IndexAgrees
  <2> QED BY <2>1, <2>2 DEF IndexAgrees
<1>8. Upstreams(x) = Upstreams(w) \union {id}
  BY <1>1, <1>2 DEF Upstreams
<1>9. id \notin w.unsup
  BY DEF Good, Sound
<1>10. Sound(c, x)
  BY <1>1, <1>2, <1>8, <1>9 DEF Good, Sound
<1> QED BY <1>2, <1>6, <1>7, <1>8, <1>10 DEF Good, x, rec

(* One iteration of the loop, whatever its entry. *)
LEMMA PlaceKeeps ==
  ASSUME NEW c, IsConfig(c), NEW w, Good(c, w), NEW id \in Ids
  PROVE  /\ Good(c, Place(c, w, id))
         /\ Upstreams(Place(c, w, id)) \union Place(c, w, id).unsup
              = (Upstreams(w) \union w.unsup) \union {id}
<1>1. CASE id = MissingId
  <2>1. id \notin w.seen
    BY <1>1 DEF Good, Sound
  <2>2. Place(c, w, id) = Exclude(w, id)
    BY <1>1 DEF Place
  <2> QED BY <2>1, <2>2, ExcludeKeeps
<1>2. CASE id # MissingId /\ id \in w.seen
  <2>1. Place(c, w, id) = w
    BY <1>2 DEF Place
  <2> QED BY <1>2, <2>1 DEF Good, Sound
<1>3. CASE id # MissingId /\ id \notin w.seen /\ Routable(c, id) /\ ~Collides(c, w, id)
  <2>1. Place(c, w, id) = Admit(w, ModelRecord(c, id))
    BY <1>3 DEF Place
  <2> QED BY <1>3, <2>1, AdmitKeeps
<1>4. CASE id # MissingId /\ id \notin w.seen /\ ~(Routable(c, id) /\ ~Collides(c, w, id))
  <2>1. Place(c, w, id) = Exclude(w, id)
    BY <1>4 DEF Place
  <2> QED BY <1>4, <2>1, ExcludeKeeps
<1> QED BY <1>1, <1>2, <1>3, <1>4

-----------------------------------------------------------------------------
Reached(list, n) == {list[i] : i \in 1..n}

(* What the loop in progress has accounted for. *)
WorkInv ==
  /\ Good(cfg, work)
  /\ at - 1 <= Len(entries)
  /\ Upstreams(work) \union work.unsup = Reached(entries, at - 1)

(* The same of the installed snapshot, for all of its entries. *)
SnapshotInv ==
  /\ IndexAgrees(snapshot)
  /\ Upstreams(snapshot) \union snapshot.unsup = Reached(raw, Len(raw))
  /\ Upstreams(snapshot) \intersect snapshot.unsup = {}

(* The inductive invariant. *)
IInv == TypeOK /\ WorkInv /\ SnapshotInv

LEMMA SnapshotUnchanged ==
  ASSUME SnapshotInv, UNCHANGED <<raw, snapshot>>
  PROVE  SnapshotInv'
<1>1. IndexAgrees(snapshot)'
  BY DEF SnapshotInv, IndexAgrees
<1>2. Upstreams(snapshot)' = Upstreams(snapshot)
  BY DEF Upstreams
<1>3. Reached(raw, Len(raw))' = Reached(raw, Len(raw))
  BY DEF Reached
<1> QED BY <1>1, <1>2, <1>3 DEF SnapshotInv

LEMMA WorkUnchanged ==
  ASSUME WorkInv, UNCHANGED <<cfg, entries, at, work>>
  PROVE  WorkInv'
<1>1. Good(cfg, work)'
  BY DEF WorkInv, Good, IsSnapshot, IndexAgrees, Sound, Upstreams, PublicID
<1>2. Upstreams(work)' = Upstreams(work)
  BY DEF Upstreams
<1>3. Reached(entries, at - 1)' = Reached(entries, at - 1)
  BY DEF Reached
<1> QED BY <1>1, <1>2, <1>3 DEF WorkInv

LEMMA InitIInv == Init => IInv
<1> SUFFICES ASSUME Init PROVE IInv
  OBVIOUS
<1>1. IsConfig(cfg)
  BY CatalogAssumption DEF Init
<1>2. raw \in Seq(Ids) /\ entries \in Seq(Ids) /\ Len(raw) = 0 /\ Len(entries) = 0 /\ at = 1
  BY DEF Init
<1>3. IsSnapshot(snapshot) /\ IndexAgrees(snapshot)
  BY DEF Init, EmptySnapshot, IsSnapshot, IndexAgrees
<1>4. Good(cfg, work) /\ Upstreams(work) \union work.unsup = {}
  BY NothingIsGood DEF Init
<1>5. TypeOK
  <2>1. busy \in BOOLEAN
    BY DEF Init
  <2>2. at \in Nat \ {0}
    BY <1>2
  <2>3. work.seen \subseteq Ids /\ IsSnapshot(work)
    BY <1>4 DEF Good
  <2> QED BY <1>1, <1>2, <1>3, <2>1, <2>2, <2>3 DEF TypeOK
<1>6. Reached(entries, at - 1) = {} /\ Reached(raw, Len(raw)) = {}
  BY <1>2 DEF Reached
<1>7. Upstreams(snapshot) = {} /\ snapshot.unsup = {}
  BY DEF Init, EmptySnapshot, Upstreams
<1> QED BY <1>2, <1>3, <1>4, <1>5, <1>6, <1>7 DEF IInv, WorkInv, SnapshotInv

LEMMA SwapKeeps ==
  ASSUME IInv, NEW list \in Lists, Swap(list)
  PROVE  IInv'
<1>1. list \in Seq(Ids) /\ Len(list) \in Nat
  BY CatalogAssumption
<1>2. Good(cfg, work)' /\ (Upstreams(work) \union work.unsup = {})'
  BY NothingIsGood DEF Swap
<1>3. TypeOK'
  BY <1>1, <1>2 DEF IInv, TypeOK, Swap, Good
<1>4. Reached(entries, at - 1)' = {}
  BY DEF Reached, Swap
<1>5. SnapshotInv'
  BY SnapshotUnchanged DEF IInv, Swap
<1>6. (at - 1 <= Len(entries))'
  BY <1>1 DEF Swap
<1> QED BY <1>2, <1>3, <1>4, <1>5, <1>6 DEF IInv, WorkInv

LEMMA PlaceNextKeeps ==
  ASSUME IInv, PlaceNext
  PROVE  IInv'
<1> DEFINE id == entries[at]
<1>1. /\ IsConfig(cfg) /\ id \in Ids /\ at \in Nat \ {0} /\ Len(entries) \in Nat
      /\ at <= Len(entries)
  BY DEF IInv, TypeOK, PlaceNext
<1>2. /\ Good(cfg, Place(cfg, work, id))
      /\ Upstreams(Place(cfg, work, id)) \union Place(cfg, work, id).unsup
           = (Upstreams(work) \union work.unsup) \union {id}
  BY <1>1, PlaceKeeps DEF IInv, WorkInv
<1>3. work' = Place(cfg, work, id) /\ at' = at + 1 /\ UNCHANGED <<cfg, raw, snapshot, busy, entries>>
  BY DEF PlaceNext
<1> HIDE DEF id
<1>4. Good(cfg, work)'
  BY <1>2, <1>3
<1>5. TypeOK'
  BY <1>1, <1>3, <1>4 DEF IInv, TypeOK, Good
<1>6. (Upstreams(work) \union work.unsup = Reached(entries, at - 1))'
  <2>1. Reached(entries, at) = Reached(entries, at - 1) \union {entries[at]}
    BY <1>1 DEF Reached
  <2>2. at' - 1 = at
    BY <1>1, <1>3
  <2>3. Upstreams(work)' \union work'.unsup = Reached(entries, at)
    BY <1>2, <1>3, <2>1 DEF IInv, WorkInv, Upstreams, id
  <2> QED BY <1>3, <2>2, <2>3 DEF Reached
<1>7. SnapshotInv'
  BY <1>3, SnapshotUnchanged DEF IInv
<1>8. (at - 1 <= Len(entries))'
  BY <1>1, <1>3
<1> QED BY <1>4, <1>5, <1>6, <1>7, <1>8 DEF IInv, WorkInv

LEMMA InstallKeeps ==
  ASSUME IInv, Install
  PROVE  IInv'
<1>1. /\ busy' = FALSE /\ raw' = entries /\ UNCHANGED <<cfg, entries, at, work>>
      /\ snapshot'.models = work.models /\ snapshot'.index = work.index
      /\ snapshot'.unsup = work.unsup
  BY DEF Install, Published
<1>2. at - 1 = Len(entries)
  BY DEF Install, IInv, TypeOK, WorkInv
<1>3. TypeOK'
  BY <1>1 DEF IInv, TypeOK, IsSnapshot
<1>4. WorkInv'
  BY <1>1, WorkUnchanged DEF IInv
<1>5. IndexAgrees(snapshot)'
  BY <1>1 DEF IInv, WorkInv, Good, IndexAgrees
<1>6. Upstreams(snapshot)' = Upstreams(work)
  BY <1>1 DEF Upstreams
<1>7. (Upstreams(snapshot) \union snapshot.unsup = Reached(raw, Len(raw)))'
  BY <1>1, <1>2, <1>6 DEF IInv, WorkInv, Reached
<1>8. (Upstreams(snapshot) \intersect snapshot.unsup = {})'
  BY <1>1, <1>6 DEF IInv, WorkInv, Good, Sound
<1> QED BY <1>3, <1>4, <1>5, <1>7, <1>8 DEF IInv, SnapshotInv

LEMMA RefreshFailsKeeps ==
  ASSUME IInv, RefreshFails
  PROVE  IInv'
<1>1. /\ raw' = <<>> /\ snapshot' = EmptySnapshot
      /\ UNCHANGED <<cfg, busy, entries, at, work>>
  BY DEF RefreshFails
<1>2. IsSnapshot(snapshot)' /\ IndexAgrees(snapshot)'
  BY <1>1 DEF EmptySnapshot, IsSnapshot, IndexAgrees
<1>3. TypeOK'
  BY <1>1, <1>2 DEF IInv, TypeOK
<1>4. Upstreams(snapshot)' = {} /\ snapshot'.unsup = {}
  BY <1>1 DEF EmptySnapshot, Upstreams
<1>5. Reached(raw, Len(raw))' = {}
  BY <1>1 DEF Reached
<1>6. WorkInv'
  BY <1>1, WorkUnchanged DEF IInv
<1> QED BY <1>2, <1>3, <1>4, <1>5, <1>6 DEF IInv, SnapshotInv

(* Every step of a Manager keeps the inductive invariant. *)
LEMMA NextIInv == IInv /\ [Next]_vars => IInv'
<1> SUFFICES ASSUME IInv, [Next]_vars PROVE IInv'
  OBVIOUS
<1>1. ASSUME NEW list \in Lists, Swap(list) PROVE IInv'
  BY <1>1, SwapKeeps
<1>2. CASE PlaceNext
  BY <1>2, PlaceNextKeeps
<1>3. CASE Install
  BY <1>3, InstallKeeps
<1>4. CASE RefreshFails
  BY <1>4, RefreshFailsKeeps
<1>5. CASE UNCHANGED vars
  <2>1. TypeOK'
    BY <1>5 DEF IInv, TypeOK, IsConfig, IsSnapshot, vars
  <2>2. WorkInv' /\ SnapshotInv'
    BY <1>5, WorkUnchanged, SnapshotUnchanged DEF IInv, vars
  <2> QED BY <2>1, <2>2 DEF IInv
<1> QED BY <1>1, <1>2, <1>3, <1>4, <1>5 DEF Next

LEMMA AlwaysIInv == Spec => []IInv
BY InitIInv, NextIInv, PTL DEF Spec

-----------------------------------------------------------------------------
(* The Manager's variables keep their types. *)
THEOREM TypeCorrect == Spec => []TypeOK
<1>1. IInv => TypeOK
  BY DEF IInv
<1> QED BY <1>1, AlwaysIInv, PTL

(* Lookup and Models agree, in the installed snapshot and in the one under *)
(* construction, whatever the upstream lists and however ids are prefixed. *)
THEOREM LookupNeverMisroutes == Spec => []NoMisroute
<1>1. IInv => NoMisroute
  BY DEF IInv, WorkInv, SnapshotInv, NoMisroute, Good
<1> QED BY <1>1, AlwaysIInv, PTL

(* The comment at catalog.go:311-318: clashes are between a public id and  *)
(* an upstream id, never between two public or two upstream ids.           *)
THEOREM ClashesAlwaysCrossRoles == Spec => []ClashesCrossRoles
<1>1. IInv => ClashesCrossRoles
  <2> SUFFICES ASSUME IInv, busy, at <= Len(entries),
                      entries[at] # MissingId, entries[at] \notin work.seen
               PROVE  LET id == entries[at]  pub == PublicID(cfg, id) IN
                        /\ pub \in DOMAIN work.index => work.index[pub].upstream = pub
                        /\ id \in DOMAIN work.index => work.index[id].public = id
    BY DEF ClashesCrossRoles
  <2> DEFINE id == entries[at]
             pub == PublicID(cfg, id)
  <2>1. id \in Ids /\ cfg.prefix \in Segments \union {NoPrefix}
    BY DEF IInv, TypeOK, IsConfig
  <2>2. \A r \in work.models :
          /\ r.upstream \in Ids /\ r.public = PublicID(cfg, r.upstream)
          /\ r.upstream \in work.seen
    BY DEF IInv, WorkInv, Good, Sound, Upstreams, IsSnapshot, ModelRecords
  <2> HIDE DEF id
  <2>3. ASSUME pub \in DOMAIN work.index PROVE work.index[pub].upstream = pub
    <3> DEFINE owner == work.index[pub]
    <3>1. owner \in work.models /\ pub \in {owner.public, owner.upstream}
      BY <2>3 DEF IInv, WorkInv, Good, IndexAgrees
    <3> HIDE DEF owner
    <3>2. ASSUME owner.public = pub PROVE FALSE
      <4>1. owner.upstream = id
        BY <2>1, <2>2, <3>1, <3>2, PublicIDInjective
      <4> QED BY <2>2, <3>1, <4>1 DEF id
    <3> QED BY <3>1, <3>2 DEF owner
  <2>4. ASSUME id \in DOMAIN work.index PROVE work.index[id].public = id
    <3>1. /\ work.index[id] \in work.models
          /\ id \in {work.index[id].public, work.index[id].upstream}
      BY <2>4 DEF IInv, WorkInv, Good, IndexAgrees
    <3> QED BY <2>2, <3>1 DEF id
  <2> QED BY <2>3, <2>4 DEF id
<1> QED BY <1>1, AlwaysIInv, PTL

(* No entry of the upstream's list is dropped silently or counted twice.   *)
THEOREM EntriesAlwaysAccounted == Spec => []Accounted
<1>1. IInv => Accounted
  BY DEF IInv, SnapshotInv, Accounted, Upstreams, Reached
<1> QED BY <1>1, AlwaysIInv, PTL

-----------------------------------------------------------------------------
(* First come, first served.                                               *)

(* The entry i of a list is the one that a model is served for.            *)
Serves(list, w, i) == First(list, i) /\ list[i] \in Upstreams(w)

Fits(c, list, w, i) ==
  /\ Routable(c, list[i])
  /\ \A j \in 1..(i - 1) : Serves(list, w, j) => ~Clash(c, list[j], list[i])

(* What the loop has chosen among the first n entries.                     *)
Chosen(c, list, w, n) ==
  /\ \A u \in Upstreams(w) : \E j \in 1..n : Serves(list, w, j) /\ list[j] = u
  /\ \A i \in 1..n : First(list, i) /\ Serves(list, w, i) => Fits(c, list, w, i)
  /\ \A i \in 1..n : First(list, i) /\ Fits(c, list, w, i) => Serves(list, w, i)

ChoiceInv ==
  /\ Chosen(cfg, entries, work, at - 1)
  /\ Chosen(cfg, raw, snapshot, Len(raw))

(* The index test of swap (catalog.go) is the clash with a model served    *)
(* before: a new id cannot be blocked in any other way.                    *)
LEMMA CollisionIsClash ==
  ASSUME NEW c, IsConfig(c), NEW w, Good(c, w), NEW id \in Ids, id # MissingId, id \notin w.seen
  PROVE  Collides(c, w, id) <=> \E u \in Upstreams(w) : Clash(c, u, id)
<1> DEFINE pub == PublicID(c, id)
<1>1. c.prefix \in Segments \union {NoPrefix}
  BY DEF IsConfig
<1>2. \A r \in w.models : /\ r.upstream \in Ids /\ r.upstream \in Upstreams(w) /\ r.upstream # id
                          /\ r.public = PublicID(c, r.upstream)
  BY DEF Good, Sound, Upstreams, IsSnapshot, ModelRecords
<1>3. ASSUME NEW k \in {pub, id}, k \in DOMAIN w.index
      PROVE  \E u \in Upstreams(w) : Clash(c, u, id)
  <2>1. PICK r \in w.models : k \in {r.public, r.upstream}
    BY <1>3 DEF Good, IndexAgrees
  <2>2. r.public # pub
    BY <1>1, <1>2, PublicIDInjective
  <2> HIDE DEF pub
  <2>3. r.public = id \/ pub = r.upstream
    BY <1>2, <1>3, <2>1, <2>2
  <2>4. Clash(c, r.upstream, id)
    BY <1>2, <2>3 DEF Clash, pub
  <2> QED
    BY <1>2, <2>4
<1>4. ASSUME NEW u \in Upstreams(w), Clash(c, u, id)
      PROVE  Collides(c, w, id)
  <2>1. PICK r \in w.models : r.upstream = u
    BY DEF Upstreams
  <2>2. u \in DOMAIN w.index /\ PublicID(c, u) \in DOMAIN w.index
    BY <1>2, <2>1 DEF Good, IndexAgrees
  <2> QED
    BY <1>4, <2>2 DEF Clash, Collides
<1> QED
  BY <1>3, <1>4 DEF Collides

(* One iteration of the loop chooses rightly for its entry and leaves the  *)
(* choices before it alone.                                                *)
LEMMA PlaceChooses ==
  ASSUME NEW c, IsConfig(c), NEW w, Good(c, w), NEW list \in Seq(Ids), NEW n \in Nat,
         n + 1 <= Len(list), Upstreams(w) \union w.unsup = Reached(list, n),
         Chosen(c, list, w, n)
  PROVE  Chosen(c, list, Place(c, w, list[n + 1]), n + 1)
<1> DEFINE id == list[n + 1]
           x  == Place(c, w, id)
<1>1. id \in Ids
  OBVIOUS
<1>2. w.seen = Reached(list, n) \ {MissingId}
  BY DEF Good, Sound
<1>3. CASE id = MissingId \/ id \in w.seen
  <2>1. Upstreams(x) = Upstreams(w)
    BY <1>3 DEF Place, Exclude, Upstreams
  <2> HIDE DEF x
  <2>2. ~First(list, n + 1)
    <3>1. (n + 1) - 1 = n
      OBVIOUS
    <3>2. CASE id \in w.seen
      <4>1. PICK j \in 1..n : list[j] = id
        BY <1>2, <3>2 DEF Reached
      <4> QED
        BY <3>1, <4>1 DEF First
    <3> QED
      BY <1>3, <3>2 DEF First
  <2>3. \A i \in 1..(n + 1) : Serves(list, x, i) = Serves(list, w, i)
    BY <2>1 DEF Serves
  <2>4. \A i \in 1..n : Fits(c, list, x, i) = Fits(c, list, w, i)
    BY <2>3 DEF Fits
  <2> QED
    BY <2>1, <2>2, <2>3, <2>4 DEF Chosen, x
<1>4. CASE id # MissingId /\ id \notin w.seen
  <2>1. \A i \in 1..n : list[i] # id
    BY <1>2, <1>4 DEF Reached
  <2>2. First(list, n + 1)
    BY <1>4, <2>1 DEF First
  <2>3. Upstreams(x) = IF Routable(c, id) /\ ~Collides(c, w, id) THEN Upstreams(w) \union {id} ELSE Upstreams(w)
    <3> HIDE DEF id
    <3>1. CASE Routable(c, id) /\ ~Collides(c, w, id)
      <4>1. Place(c, w, id) = Admit(w, ModelRecord(c, id))
        BY <1>4, <3>1 DEF Place
      <4> QED
        BY <1>1, <1>4, <3>1, <4>1, AdmitKeeps
    <3>2. CASE ~(Routable(c, id) /\ ~Collides(c, w, id))
      <4>1. Place(c, w, id) = Exclude(w, id)
        BY <1>4, <3>2 DEF Place
      <4> QED
        BY <1>1, <1>4, <3>2, <4>1, ExcludeKeeps
    <3> QED
      BY <3>1, <3>2
  <2>4. id \notin Upstreams(w)
    BY <1>2, <1>4 DEF Good, Sound
  <2> HIDE DEF x
  <2>5. \A i \in 1..n : Serves(list, x, i) = Serves(list, w, i)
    BY <2>1, <2>3 DEF Serves
  <2>6. \A i \in 1..n : Fits(c, list, x, i) = Fits(c, list, w, i)
    BY <2>5 DEF Fits
  <2>7. Collides(c, w, id) <=> \E j \in 1..n : Serves(list, w, j) /\ Clash(c, list[j], id)
    <3>1. ASSUME NEW u \in Upstreams(w), Clash(c, u, id)
          PROVE  \E j \in 1..n : Serves(list, w, j) /\ Clash(c, list[j], id)
      BY <3>1 DEF Chosen
    <3>2. ASSUME NEW j \in 1..n, Serves(list, w, j), Clash(c, list[j], id)
          PROVE  \E u \in Upstreams(w) : Clash(c, u, id)
      BY <3>2 DEF Serves
    <3> HIDE DEF id
    <3> QED
      BY <1>1, <1>4, <3>1, <3>2, CollisionIsClash
  <2>8. Fits(c, list, x, n + 1) <=> Routable(c, id) /\ ~Collides(c, w, id)
    <3>1. (n + 1) - 1 = n
      OBVIOUS
    <3> QED
      BY <2>5, <2>7, <3>1 DEF Fits
  <2>9. Serves(list, x, n + 1) <=> Routable(c, id) /\ ~Collides(c, w, id)
    BY <2>2, <2>3, <2>4 DEF Serves
  <2>10. ASSUME NEW u \in Upstreams(x)
         PROVE  \E j \in 1..(n + 1) : Serves(list, x, j) /\ list[j] = u
    <3>1. CASE u \in Upstreams(w)
      BY <2>5, <3>1 DEF Chosen
    <3>2. CASE u \notin Upstreams(w)
      BY <2>2, <2>3, <2>10, <3>2 DEF Serves
    <3> QED
      BY <3>1, <3>2
  <2>11. ASSUME NEW i \in 1..(n + 1), First(list, i)
         PROVE  Serves(list, x, i) <=> Fits(c, list, x, i)
    <3>1. CASE i \in 1..n
      BY <2>5, <2>6, <2>11, <3>1 DEF Chosen
    <3>2. CASE i = n + 1
      BY <2>8, <2>9, <3>2
    <3> QED
      BY <3>1, <3>2
  <2> QED
    BY <2>10, <2>11 DEF Chosen, x
<1> QED
  BY <1>3, <1>4

(* Nothing is chosen from nothing.                                         *)
LEMMA NothingChosen ==
  ASSUME NEW c, NEW list, NEW w, w.models = {}
  PROVE  Chosen(c, list, w, 0)
BY DEF Chosen, Upstreams

LEMMA ChoiceInit == Init => ChoiceInv
<1> SUFFICES ASSUME Init
             PROVE  ChoiceInv
  OBVIOUS
<1>1. at - 1 = 0 /\ Len(raw) = 0 /\ work.models = {} /\ snapshot.models = {}
  BY DEF Init, NothingSeen, EmptySnapshot
<1> QED
  BY <1>1, NothingChosen DEF ChoiceInv

(* Every step of a Manager keeps the choices.                              *)
LEMMA ChoiceKept ==
  ASSUME IInv, ChoiceInv, [Next]_vars
  PROVE  ChoiceInv'
<1>1. ASSUME NEW c, NEW list, NEW w, NEW v, NEW n, w.models = v.models, Chosen(c, list, w, n)
      PROVE  Chosen(c, list, v, n)
  <2>1. Upstreams(v) = Upstreams(w)
    BY <1>1 DEF Upstreams
  <2>2. \A i : Serves(list, v, i) = Serves(list, w, i)
    BY <2>1 DEF Serves
  <2>3. \A i : Fits(c, list, v, i) = Fits(c, list, w, i)
    BY <2>2 DEF Fits
  <2> QED
    BY <1>1, <2>1, <2>2, <2>3 DEF Chosen
<1>2. CASE \E list \in Lists : Swap(list)
  <2>1. at' - 1 = 0 /\ work'.models = {} /\ UNCHANGED <<cfg, raw, snapshot>>
    BY <1>2 DEF Swap, NothingSeen
  <2>2. Chosen(cfg', entries', work', at' - 1)
    BY <2>1, NothingChosen
  <2>3. Chosen(cfg', raw', snapshot', Len(raw'))
    BY <2>1 DEF ChoiceInv
  <2> QED
    BY <2>2, <2>3 DEF ChoiceInv
<1>3. CASE PlaceNext
  <2>1. /\ at' = at + 1 /\ work' = Place(cfg, work, entries[at])
        /\ UNCHANGED <<cfg, entries, raw, snapshot>> /\ at <= Len(entries)
    BY <1>3 DEF PlaceNext
  <2>2. /\ IsConfig(cfg) /\ Good(cfg, work) /\ entries \in Seq(Ids) /\ at - 1 \in Nat
        /\ Upstreams(work) \union work.unsup = Reached(entries, at - 1)
    BY DEF IInv, TypeOK, WorkInv
  <2>3. (at - 1) + 1 = at /\ (at + 1) - 1 = at
    BY DEF IInv, TypeOK
  <2>4. Chosen(cfg, entries, Place(cfg, work, entries[at]), at)
    BY <2>1, <2>2, <2>3, PlaceChooses DEF ChoiceInv
  <2>5. Chosen(cfg', entries', work', at' - 1)
    BY <2>1, <2>3, <2>4
  <2>6. Chosen(cfg', raw', snapshot', Len(raw'))
    BY <2>1 DEF ChoiceInv
  <2> QED
    BY <2>5, <2>6 DEF ChoiceInv
<1>4. CASE Install
  <2>1. /\ raw' = entries /\ snapshot'.models = work.models /\ UNCHANGED <<cfg, entries, at, work>>
    BY <1>4 DEF Install, Published
  <2>2. at - 1 = Len(entries)
    BY <1>4 DEF Install, IInv, TypeOK, WorkInv
  <2>3. Chosen(cfg, entries, snapshot', Len(entries))
    BY <1>1, <2>1, <2>2 DEF ChoiceInv
  <2> QED
    BY <2>1, <2>3 DEF ChoiceInv
<1>5. CASE RefreshFails
  <2>1. /\ Len(raw') = 0 /\ snapshot'.models = {} /\ UNCHANGED <<cfg, entries, at, work>>
    BY <1>5 DEF RefreshFails, EmptySnapshot
  <2>2. Chosen(cfg, raw', snapshot', 0)
    BY <2>1, NothingChosen
  <2> QED
    BY <2>1, <2>2 DEF ChoiceInv
<1>6. CASE UNCHANGED vars
  BY <1>6 DEF ChoiceInv, vars
<1> QED
  BY <1>2, <1>3, <1>4, <1>5, <1>6 DEF Next

(* swap serves first come, first served: of the first occurrences of the   *)
(* routable ids, exactly those without a clash with a model served before  *)
(* (catalog.go), for every configuration and every list.                   *)
THEOREM FirstComeFirstServed == Spec => []FirstWins
<1>1. IInv /\ ChoiceInv => FirstWins
  <2> SUFFICES ASSUME IInv, ChoiceInv
               PROVE  FirstWins
    OBVIOUS
  <2> DEFINE served == {i \in 1..Len(raw) : First(raw, i) /\ \E r \in snapshot.models : r.upstream = raw[i]}
  <2>1. \A i \in 1..Len(raw) : i \in served <=> Serves(raw, snapshot, i)
    BY DEF Serves, Upstreams
  <2>2. Len(raw) \in Nat
    BY DEF IInv, TypeOK
  <2> HIDE DEF served
  <2> QED
    BY <2>1, <2>2 DEF FirstWins, ChoiceInv, Chosen, Fits, served
<1>2. IInv /\ ChoiceInv /\ [Next]_vars => ChoiceInv'
  BY ChoiceKept
<1> QED
  BY <1>1, <1>2, ChoiceInit, AlwaysIInv, PTL DEF Spec

=============================================================================
