---------------------------- MODULE MCGpioServer ----------------------------
(***************************************************************************)
(* Small instances of GpioServer: two output lines with different initial  *)
(* levels, an input line that can never be set, a blink line, and a pin    *)
(* that is not opened (a request may name any string).                     *)
(***************************************************************************)
EXTENDS GpioServer, TLC

CONSTANTS t1, t2, s1, s2

Pin(valid, direction, initial_level, function) ==
  [valid |-> valid, chip |-> 0, free |-> TRUE, direction |-> direction,
   initial_level |-> initial_level, function |-> function]

TwoLines ==
  [a |-> Pin(TRUE, "out", "high", "ext_reset"),
   b |-> Pin(TRUE, "out", "none", "ext_reset"),
   x |-> Pin(FALSE, "out", "none", "ext_reset")]

MixedLines ==
  [a |-> Pin(TRUE, "out", "high", "ext_reset"),
   i |-> Pin(TRUE, "in", "none", "ext_reset"),
   k |-> Pin(TRUE, "out", "low", "liveness_blink")]

Symmetry == Permutations(Tasks) \cup Permutations(Slots)
=============================================================================
