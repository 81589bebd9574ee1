----------------------------- MODULE MCCatalog -----------------------------
(* Catalog on small instances: a model, the same under the prefix once and *)
(* twice, and an entry without an id, in every order up to three long.     *)
EXTENDS Catalog, FiniteSets

MCSegments == {"p", "foo"}
foo   == <<"foo">>
pfoo  == <<"p", "foo">>
ppfoo == <<"p", "p", "foo">>

MCIds   == {MissingId, foo, pfoo, ppfoo}
MCLists == UNION {[1..n -> MCIds] : n \in 0..3}

MCOverrides ==
  {<<>>,
   [id \in {foo} |-> [route |-> "messages", escapes |-> FALSE]],
   [id \in {pfoo} |-> [route |-> "chat-completions", escapes |-> TRUE]]}

MCConfigs ==
  [prefix : {"p", NoPrefix}, disabled : {{}, {"messages"}},
   overrides : MCOverrides, stale : {FALSE}]
  \union
  [prefix : {"p"}, disabled : {{"chat-completions"}}, overrides : MCOverrides, stale : {TRUE}]
=============================================================================
