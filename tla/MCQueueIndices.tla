--------------------------- MODULE MCQueueIndices ---------------------------
(* TLC instance of QueueIndices: three laps of four positions.              *)
EXTENDS QueueIndices
=============================================================================
