---------------------------- MODULE MCLifecycle ----------------------------
(* Lifecycle on a small instance: two upstream models and two              *)
(* configurations.  The first keeps stale entries and switches off the     *)
(* protocol of one model; the second is fail-closed, without predictor and *)
(* without prefix, and serves both models.  So a snapshot that the first   *)
(* seeds from the second in an outage has a kill switch to obey and public *)
(* ids to make anew.                                                       *)
EXTENDS Lifecycle

CONSTANTS c1, c2, r1

MCSegments == {"p", "foo", "bar"}
foo == <<"foo">>
bar == <<"bar">>

MCCalls   == {c1, c2}
MCReaders == {r1}
MCLists   == {<<foo, bar>>}

Override == [id \in {bar} |-> [route |-> "messages", escapes |-> FALSE]]

Stale  == [prefix |-> "p", disabled |-> {"messages"}, overrides |-> Override, stale |-> TRUE,
           predictor |-> TRUE]
Closed == [prefix |-> NoPrefix, disabled |-> {}, overrides |-> Override, stale |-> FALSE,
           predictor |-> FALSE]

MCConfigs == {Stale, Closed}
=============================================================================
