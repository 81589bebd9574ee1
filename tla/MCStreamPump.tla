---------------------------- MODULE MCStreamPump ----------------------------
(* StreamPump on small instances.                                          *)
EXTENDS StreamPump

MCChunkSizes  == {0, 1, 2}
MCAllPolicies == AllPolicies
MCStrict      == {"strict"}
MCSynthetic   == {"synthetic"}
=============================================================================
