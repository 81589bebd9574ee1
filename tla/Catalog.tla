------------------------------- MODULE Catalog -------------------------------
(***************************************************************************)
(* One catalog.Manager (catalog.go): refreshes and seeds rebuild the       *)
(* snapshot from a list of upstream entries, entry by entry outside the    *)
(* lock, and install it at once under the lock; a failed refresh keeps or  *)
(* clears it.  Lookups come at any moment and read the installed snapshot. *)
(***************************************************************************)
EXTENDS CatalogBuild

CONSTANTS
  Configs,  (* the configurations a Manager can be made with               *)
  Lists     (* the entry lists the upstream can answer with                *)

ASSUME CatalogAssumption ==
  /\ \A c \in Configs : IsConfig(c)
  /\ \A l \in Lists : l \in Seq(Ids)

VARIABLES
  cfg,      (* fixed when the Manager is made                              *)
  raw,      (* the entries behind the installed snapshot                   *)
  snapshot, (* models, index and unsup                                     *)
  busy,     (* a swap is under way ...                                     *)
  entries,  (* ... for this list ...                                       *)
  at,       (* ... and has reached this entry ...                          *)
  work      (* ... with these results                                      *)

vars == <<cfg, raw, snapshot, busy, entries, at, work>>

Init ==
  /\ cfg \in Configs
  /\ raw = <<>>
  /\ snapshot = EmptySnapshot
  /\ busy = FALSE
  /\ entries = <<>>
  /\ at = 1
  /\ work = NothingSeen

(* Mutation of Swap: the loop starts before the first entry. *)
SwapFromZero(list) ==
  /\ ~busy
  /\ busy' = TRUE
  /\ entries' = list
  /\ at' = 0
  /\ work' = NothingSeen
  /\ UNCHANGED <<cfg, raw, snapshot>>

(* swap begins: Refresh decoded an answer (a missing "data" is the empty   *)
(* list), or SeedFrom took the entries of another Manager.                 *)
Swap(list) ==
  /\ ~busy
  /\ busy' = TRUE
  /\ entries' = list
  /\ at' = 1
  /\ work' = NothingSeen
  /\ UNCHANGED <<cfg, raw, snapshot>>

PlaceNext ==
  /\ busy
  /\ at <= Len(entries)
  /\ work' = Place(cfg, work, entries[at])
  /\ at' = at + 1
  /\ UNCHANGED <<cfg, raw, snapshot, busy, entries>>

Install ==
  /\ busy
  /\ at > Len(entries)
  /\ busy' = FALSE
  /\ raw' = entries
  /\ snapshot' = Published(work)
  /\ UNCHANGED <<cfg, entries, at, work>>

(* Mutation of RefreshFails: the entries outlive the cleared snapshot. *)
RefreshFailsKeepsRaw ==
  /\ ~busy
  /\ ~cfg.stale
  /\ snapshot' = EmptySnapshot
  /\ UNCHANGED <<cfg, raw, busy, entries, at, work>>

(* fail under the fail-closed policy; under stale-while-unavailable it     *)
(* changes nothing.                                                        *)
RefreshFails ==
  /\ ~busy
  /\ ~cfg.stale
  /\ raw' = <<>>
  /\ snapshot' = EmptySnapshot
  /\ UNCHANGED <<cfg, busy, entries, at, work>>

Next ==
  \/ \E list \in Lists : Swap(list)
  \/ PlaceNext
  \/ Install
  \/ RefreshFails

Spec == Init /\ [][Next]_vars

-----------------------------------------------------------------------------
(* Properties.                                                             *)

ModelRecords == [public : Ids, upstream : Ids, route : Routes]

IsSnapshot(s) ==
  /\ s.models \subseteq ModelRecords
  /\ DOMAIN s.index \subseteq Ids
  /\ \A k \in DOMAIN s.index : s.index[k] \in ModelRecords
  /\ s.unsup \subseteq Ids

(* Every variable keeps its type. *)
TypeOK ==
  /\ IsConfig(cfg)
  /\ raw \in Seq(Ids)
  /\ IsSnapshot(snapshot)
  /\ busy \in BOOLEAN
  /\ entries \in Seq(Ids)
  /\ at \in Nat \ {0}
  /\ work.seen \subseteq Ids /\ IsSnapshot(work)

IndexAgrees(s) ==
  /\ \A r \in s.models :
       /\ {r.public, r.upstream} \subseteq DOMAIN s.index
       /\ s.index[r.public] = r /\ s.index[r.upstream] = r
  /\ \A k \in DOMAIN s.index :
       s.index[k] \in s.models /\ k \in {s.index[k].public, s.index[k].upstream}

(* Lookup and Models agree: a listed model answers to its public and to    *)
(* its upstream id, each leads to that model and to no other, and no id    *)
(* leads to a model that is not listed.  A record that took over another's *)
(* index key would send its requests to the wrong upstream model.          *)
NoMisroute == IndexAgrees(snapshot) /\ IndexAgrees(work)

(* The comment on swap's collision tests (catalog.go:311-318): two records *)
(* never clash in the same role, so a clash with the next entry is always  *)
(* between its public id and the owner's upstream id or the other way      *)
(* round.                                                                  *)
ClashesCrossRoles ==
  busy /\ at <= Len(entries) =>
    LET id == entries[at]  pub == PublicID(cfg, id) IN
      id # MissingId /\ id \notin work.seen =>
        /\ pub \in DOMAIN work.index => work.index[pub].upstream = pub
        /\ id \in DOMAIN work.index => work.index[id].public = id

First(list, i) == list[i] # MissingId /\ \A j \in 1..(i - 1) : list[j] # list[i]

Clash(c, a, b) == PublicID(c, a) = b \/ PublicID(c, b) = a

(* The declarative reading of swap: of the first occurrences that are      *)
(* routable, an entry is served unless one before it is served and has a   *)
(* public id equal to its id, or the converse.                             *)
FirstWins ==
  LET served == {i \in 1..Len(raw) : First(raw, i)
                    /\ \E r \in snapshot.models : r.upstream = raw[i]}
  IN \A i \in 1..Len(raw) : First(raw, i) =>
       (i \in served <=>
          /\ Routable(cfg, raw[i])
          /\ \A j \in served : j < i => ~Clash(cfg, raw[j], raw[i]))

(* Nothing is dropped silently, also after a failed refresh cleared the    *)
(* snapshot: every entry is served or listed as unsupported, never both.   *)
Accounted ==
  LET served == {r.upstream : r \in snapshot.models}
      listed == {raw[i] : i \in 1..Len(raw)}
  IN served \union snapshot.unsup = listed /\ served \intersect snapshot.unsup = {}

=============================================================================
