----------------------------- MODULE MCStartup -----------------------------
(***************************************************************************)
(* A small instance of Startup: a configuration that fills the on-chip     *)
(* RAM, one that is a prefix of it, and one that is too big.               *)
(***************************************************************************)
EXTENDS Startup

CONSTANTS full, part, big

ThreeTexts == [c \in {full, part, big} |->
  IF c = full THEN <<1, 2>> ELSE IF c = part THEN <<1>> ELSE <<1, 2, 3>>]

Image   == <<7, 8>>
Signed  == <<9>>
Ifs     == <<"static", "dhcp">>
=============================================================================
