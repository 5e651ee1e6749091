---------------------------- MODULE MCQuicRelay ----------------------------
(***************************************************************************)
(* A small instance of QuicRelay: more connections than slots.             *)
(***************************************************************************)
EXTENDS QuicRelay

CONSTANTS c1, c2
=============================================================================
