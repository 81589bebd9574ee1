---------------------------- MODULE MCAuthRecords ----------------------------
(* AuthRecords on small instances. *)
EXTENDS AuthRecords, TLC

CONSTANTS k1, k2, a, q1, q2

MCKeys     == {k1, k2}
MCKeyLists == {<<k1>>, <<k2>>, <<k1, k2>>, <<k2, k1>>}
MCEmails   == {a}
MCRequests == {q1, q2}

MCSymmetry == Permutations(MCKeys) \union Permutations(MCRequests)
=============================================================================
