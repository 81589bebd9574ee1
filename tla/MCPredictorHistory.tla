------------------------- MODULE MCPredictorHistory -------------------------
(* PredictorHistory on small instances.                                    *)
EXTENDS PredictorHistory

MCTimes == {1, 2, 3, 5}
=============================================================================
