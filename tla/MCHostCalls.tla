---------------------------- MODULE MCHostCalls ----------------------------
(* HostCalls on small instances.                                           *)
EXTENDS HostCalls

CONSTANTS s1, b1, e1

MCStarts      == {s1}
MCBounded     == {b1, e1}
MCEngineCalls == {e1}
=============================================================================
