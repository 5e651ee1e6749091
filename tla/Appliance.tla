------------------------------ MODULE Appliance ------------------------------
(***************************************************************************)
(* What hot upgrading promises: the appliance always runs a kernel image   *)
(* together with the configuration that came with it.  An upgrade replaces *)
(* both at once by those of one admissible package; after a power loss the *)
(* flashed image waits for a configuration over USB; after a crash the     *)
(* appliance can still be upgraded (recovery) if its configuration holds a *)
(* usable upgrade key and a copy of it was kept.  HotUpgrade.tla implements this specification.      *)
(***************************************************************************)
EXTENDS Integers

CONSTANTS Packages, SerialConfigs, FlashKernel, DevicesFail, NoKey, None

VARIABLES
  status,  \* "starting", "running", "recovery" or "stopped"
  kernel,  \* the kernel image that runs
  config,  \* the configuration it runs with, or will start with, or None
  kept     \* is its upgrade key kept for recovery?

applianceVars == <<status, kernel, config, kept>>

Init ==
  /\ status = "starting"
  /\ kernel = FlashKernel
  /\ config = None
  /\ kept = FALSE

(* The oldest configuration version an upgrade may install.                *)
MinVersion == IF status = "running" THEN config.version ELSE 1

Admissible(p) ==
  /\ p.valid /\ p.wellformed
  /\ p.sig = "cosign" => p.time >= kernel
  /\ p.key = config.key
  /\ p.config.version >= MinVersion

Install(p) ==
  /\ status \in {"running", "recovery"}
  /\ Admissible(p)
  /\ status' = "starting"
  /\ kernel' = p.kernel
  /\ config' = p.config
  /\ kept' = FALSE

(* A usable key is kept, unless storing it fails.                          *)
KeepKey(c) == kept' = (c.key # NoKey) \/ (DevicesFail /\ kept' = FALSE)

Start ==
  /\ status = "starting"
  /\ config # None /\ config.parses
  /\ status' = "running"
  /\ KeepKey(config)
  /\ UNCHANGED <<kernel, config>>

Provision(c) ==
  /\ status = "starting"
  /\ config = None
  /\ c.parses
  /\ status' = "running"
  /\ config' = c
  /\ KeepKey(c)
  /\ UNCHANGED kernel

(* A crash of the running system with a kept key; any other ends it.       *)
Recover ==
  /\ status = "running"
  /\ kept
  /\ status' = "recovery"
  /\ UNCHANGED <<kernel, config, kept>>

Stop ==
  /\ status = "running" => ~kept
  /\ status' = "stopped"
  /\ config' = None
  /\ kept' = FALSE
  /\ UNCHANGED kernel

PowerLoss ==
  /\ status' = "starting"
  /\ kernel' = FlashKernel
  /\ config' = None
  /\ kept' = FALSE

Next ==
  \/ Start \/ Recover \/ Stop \/ PowerLoss
  \/ \E p \in Packages : Install(p)
  \/ \E c \in SerialConfigs : Provision(c)

Spec == Init /\ [][Next]_applianceVars
=============================================================================
