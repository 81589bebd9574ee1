---------------------------- MODULE CatalogBuild ----------------------------
(***************************************************************************)
(* How catalog.Manager turns the upstream's model list into a routable     *)
(* snapshot (catalog.go, swap): the iteration of its loop as an operator,  *)
(* and the whole loop as a function of the configuration and the list.     *)
(*                                                                         *)
(* A model id is the sequence of its "/"-separated segments, so that       *)
(* prefixing an id and comparing ids mean what they mean for strings: a    *)
(* prefix holds no "/" (config.go, validPrefix).  An entry without an id   *)
(* has the empty sequence.  Display names, limits, modes and thinking pass *)
(* through swap unread and are left out, as is the order of the models.    *)
(***************************************************************************)
EXTENDS Naturals, Sequences

CONSTANT Segments

NoPrefix == ""
ASSUME SegmentsAssumption == NoPrefix \notin Segments

Ids       == Seq(Segments)
MissingId == <<>>
Routes    == {"chat-completions", "messages", "responses"}
DefaultRoute == "chat-completions"

(* A route override; "escapes" says whether its endpoint, joined onto the  *)
(* configured base-url, would leave that URL's scheme or authority.        *)
Overrides == [route : Routes, escapes : BOOLEAN]

(* What of a config.Config the catalog looks at.                           *)
IsConfig(c) ==
  /\ c.prefix \in Segments \union {NoPrefix}
  /\ c.disabled \subseteq Routes
  /\ DOMAIN c.overrides \subseteq Ids
  /\ \A id \in DOMAIN c.overrides : c.overrides[id] \in Overrides
  /\ c.stale \in BOOLEAN

PublicID(c, id) == IF c.prefix = NoPrefix THEN id ELSE <<c.prefix>> \o id

Overridden(c, id) == id \in DOMAIN c.overrides

RouteOf(c, id) ==
  IF Overridden(c, id) THEN c.overrides[id].route ELSE DefaultRoute

(* Only an override brings an endpoint of its own. *)
EndpointEscapes(c, id) == Overridden(c, id) /\ c.overrides[id].escapes

ModelRecord(c, id) ==
  [public |-> PublicID(c, id), upstream |-> id, route |-> RouteOf(c, id)]

EmptySnapshot == [models |-> {}, index |-> <<>>, unsup |-> {}]
NothingSeen   == [seen |-> {}, models |-> {}, index |-> <<>>, unsup |-> {}]

(* Mutation of Collides: the check of the bare id is missing. *)
CollidesByPublicOnly(c, w, id) == PublicID(c, id) \in DOMAIN w.index

(* Mutation of Collides: an entry that was excluded still blocks. *)
CollidesWithSeen(c, w, id) ==
  \/ PublicID(c, id) \in DOMAIN w.index \union w.seen
  \/ id \in DOMAIN w.index

(* The new record's public or upstream id is already in the index. *)
Collides(c, w, id) ==
  PublicID(c, id) \in DOMAIN w.index \/ id \in DOMAIN w.index

Routable(c, id) ==
  RouteOf(c, id) \notin c.disabled /\ ~EndpointEscapes(c, id)

(* The record takes both of its index keys. *)
Admit(w, rec) ==
  [seen   |-> w.seen \union {rec.upstream},
   models |-> w.models \union {rec},
   index  |-> [k \in DOMAIN w.index \union {rec.public, rec.upstream} |->
                 IF k \in {rec.public, rec.upstream} THEN rec ELSE w.index[k]],
   unsup  |-> w.unsup]

Exclude(w, id) ==
  [seen   |-> w.seen \union ({id} \ {MissingId}),
   models |-> w.models,
   index  |-> w.index,
   unsup  |-> w.unsup \union {id}]

(* One iteration of swap's loop. *)
Place(c, w, id) ==
  IF id = MissingId THEN Exclude(w, id)
  ELSE IF id \in w.seen THEN w
  ELSE IF Routable(c, id) /\ ~Collides(c, w, id) THEN Admit(w, ModelRecord(c, id))
  ELSE Exclude(w, id)

Published(w) == [models |-> w.models, index |-> w.index, unsup |-> w.unsup]

(* The whole loop. *)
Snapshot(c, entries) ==
  LET build[n \in 0..Len(entries)] ==
        IF n = 0 THEN NothingSeen ELSE Place(c, build[n - 1], entries[n])
  IN Published(build[Len(entries)])

=============================================================================
