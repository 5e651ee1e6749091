----------------------------- MODULE ResetPulse -----------------------------
(***************************************************************************)
(* What the GPIO service promises about each external reset line: a line   *)
(* that a reset request pulls low stays low for at least Hold time units   *)
(* and then goes back high; a line no request has touched is left alone.   *)
(* GpioServer.tla is the detailed specification that implements this one.  *)
(***************************************************************************)
EXTENDS Integers

CONSTANTS Lines,  \* the external reset lines
          Hold    \* shortest time a reset keeps a line low

VARIABLES clock,    \* current time
          level,    \* level[l]: electrical level of line l, 0 or 1
          driven,   \* lines a reset pulled low and nothing has raised since
          lowSince  \* lowSince[l]: when line l was last pulled low

vars == <<clock, level, driven, lowSince>>

Init ==
  /\ clock = 0
  /\ level \in [Lines -> {0, 1}]
  /\ driven = {}
  /\ lowSince = [l \in Lines |-> 0]

Begin(l) ==
  /\ level' = [level EXCEPT ![l] = 0]
  /\ driven' = driven \cup {l}
  /\ lowSince' = [lowSince EXCEPT ![l] = clock]
  /\ UNCHANGED clock

End(l) ==
  /\ l \in driven
  /\ clock - lowSince[l] >= Hold
  /\ level' = [level EXCEPT ![l] = 1]
  /\ driven' = driven \ {l}
  /\ UNCHANGED <<clock, lowSince>>

Tick ==
  /\ clock' = clock + 1
  /\ UNCHANGED <<level, driven, lowSince>>

Next == Tick \/ \E l \in Lines : Begin(l) \/ End(l)

Spec == Init /\ [][Next]_vars
=============================================================================
