----------------------------- MODULE MCLogSink -----------------------------
(***************************************************************************)
(* A small instance of LogSink: a queue that fills up, batches of two.     *)
(***************************************************************************)
EXTENDS LogSink

CONSTANTS w1
=============================================================================
