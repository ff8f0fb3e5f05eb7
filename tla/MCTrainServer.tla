--------------------------- MODULE MCTrainServer ---------------------------
(* Two tasks use the train.                                                *)
EXTENDS TrainServer

CONSTANTS c1, c2

TwoClients == {c1, c2}
=============================================================================
