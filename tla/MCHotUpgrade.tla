---------------------------- MODULE MCHotUpgrade ----------------------------
(***************************************************************************)
(* Small instances of HotUpgrade: one upgrade key, a provisioned           *)
(* configuration of version 2 and packages that differ in what the checks, *)
(* the boot and the failure paths look at.                                 *)
(***************************************************************************)
EXTENDS HotUpgrade

CONSTANTS r1, r2, key

Cfg(version, parses, ssh) ==
  [version |-> version, parses |-> parses, key |-> key, ssh |-> ssh, api |-> TRUE]

Pkg(sig, time, kernel, fits, cfg) ==
  [sig |-> sig, valid |-> TRUE, time |-> time, key |-> key, wellformed |-> TRUE,
   kernel |-> kernel, fits |-> fits, config |-> cfg]

Installed == {Cfg(2, TRUE, "ok")}
NoSsh     == {Cfg(2, TRUE, "none")}

New      == Pkg("cosign", 6, 6, TRUE, Cfg(3, TRUE, "ok"))
Same     == Pkg("pgp", 0, 5, TRUE, Cfg(2, TRUE, "bad"))
Older    == Pkg("pgp", 0, 4, TRUE, Cfg(1, TRUE, "none"))
Replayed == Pkg("cosign", 4, 4, FALSE, Cfg(3, TRUE, "none"))
NoKernel == Pkg("pgp", 0, 0, TRUE, Cfg(3, TRUE, "none"))
Broken   == Pkg("pgp", 0, 7, TRUE, Cfg(3, FALSE, "none"))

AllPackages    == {New, Same, Older, Replayed, NoKernel, Broken}
BrokenPackages == {Broken}
OlderPackages  == {Older}
=============================================================================
