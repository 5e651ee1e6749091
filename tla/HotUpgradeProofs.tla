-------------------------- MODULE HotUpgradeProofs --------------------------
(***************************************************************************)
(* Proofs about HotUpgrade, for any set of concurrent calls, packages,     *)
(* configurations and keys, and any bounds on boots, disks and processes:  *)
(* the appliance is upgraded atomically (ApplianceSpec), SSH stays stopped *)
(* once the handler is past it (SshStopped), and the kill channel is       *)
(* closed at most once (NoDoubleClose).                                    *)
(*                                                                         *)
(* The inductive invariant is IInv.  Its parts lean on each other: even    *)
(* TypeOK needs CallInv, since what reaches the on-chip RAM is well typed  *)
(* only because a call past the checks has a package.                      *)
(***************************************************************************)
EXTENDS HotUpgrade, TLAPS

(* globalKexecLock: whoever is in the handler holds the lock, and only the *)
(* two servers run handlers.                                               *)
LockInv ==
  \A r \in Requests : pc[r] # "idle" => lock = r /\ mode \in {"up", "emergency"}

(* What homegw-init knows of its configuration, by how far it has come.    *)
BootInv ==
  /\ mode \in {"load", "serial"} => config = None /\ keyFile = None
  /\ mode \in {"init", "up", "emergency"} => config \in ConfigType
  /\ mode \in {"init", "up"} => keyFile = config.key \/ (DevicesFail /\ keyFile = None)
  /\ mode = "emergency" => keyFile = config.key /\ keyFile \in Keys

Places == {"idle", "read", "ssh", "join", "pkill", "pkill2", "umount", "umounted", "save", "save2",
           "load", "loaded", "sync", "reboot", "fatal", "error"}

(* What a call has established when it is at pc[r].                        *)
CallOf(r) ==
  /\ pc[r] # "idle" => pkg[r] \in Packages
  /\ pc[r] # "idle" /\ mode = "up" => config.api
  /\ pc[r] \notin {"idle", "read", "error"} => Unseal(pkg[r])
  /\ pc[r] \in {"ssh", "join"} => mode = "up"
  /\ pc[r] \in {"save2", "load", "loaded", "sync", "reboot"} => ocram.hash = pkg[r].config
  /\ pc[r] \in {"load", "loaded", "sync", "reboot"} => ocram.data = pkg[r].config
  /\ pc[r] \in {"loaded", "sync", "reboot"} => loaded = pkg[r]

CallInv == \A r \in Requests : CallOf(r)

(* The SSH supervisor: it is not started before the servers are; afterwards*)
(* dropbear lives only while the supervisor starts or waits for it, and    *)
(* killCompletion tells that the supervisor has ended.                     *)
SshQuiet ==
  /\ mode \in {"load", "serial", "init"} => SshInit
  /\ mode # "up" => sup = "none"
  /\ sup = "spawned" => gen \in Gens
  /\ sup = "wait" => gen \in Gens

SshAlive ==
  mode = "up" =>
    /\ dropbear # "none" => sup \in {"spawned", "wait"}
    /\ killCompletion <=> sup = "exit"

(* Only a running homegw-init syncs its logs.                              *)
LogInv == log # "free" \/ flush # "none" => mode \in {"init", "up"}

(* The kill channel is closed by the call that finds KexecSshKill, and     *)
(* every later call finds the supervisor gone.                             *)
KillInv ==
  /\ KexecSshKill => ~kill
  /\ mode = "up" /\ config.api =>
       KexecSshKill \/ killCompletion \/ \E r \in Requests : pc[r] = "join"

(* Past the join the supervisor is gone.                                   *)
PkillOf(r) ==
  mode = "up" /\ pc[r] \notin {"idle", "read", "ssh", "join", "error"} => killCompletion

PkillInv == \A r \in Requests : PkillOf(r)

IInv ==
  /\ TypeOK /\ LockInv /\ BootInv /\ CallInv
  /\ SshQuiet /\ SshAlive /\ LogInv /\ KillInv /\ PkillInv
-----------------------------------------------------------------------------
(* The invariant holds initially.                                          *)

LEMMA IInvInit == Init => IInv
<1> SUFFICES ASSUME Init PROVE IInv
  OBVIOUS
<1> USE UpgradeAssumption, SshAssumption
<1>ssh. SshTypeOK
  <2>1. kill \in BOOLEAN /\ killCompletion \in BOOLEAN
    BY Zenon DEF Init, SshInit
  <2>2. gen \in 0..MaxSpawns
    BY DEF Init, SshInit
  <2>3. QED
    BY <2>1, <2>2 DEF Init, SshInit, SshTypeOK
<1>ocram. ocram \in [hash: ConfigType \cup {None}, data: ConfigType \cup {None}]
  BY DEF Init, Erased
<1>nums. boots \in 0..MaxBoots /\ opened \in 0..NumDisks
  BY DEF Init
<1>1. TypeOK
  <2>1. pc \in [Requests -> Places]
    BY DEF Init, Places
  <2>2. pkg \in [Requests -> Packages \cup {None}]
    BY DEF Init
  <2>3. KexecSshKill \in BOOLEAN
    BY Zenon DEF Init
  <2>4. QED
    BY <1>ssh, <1>ocram, <1>nums, <2>1, <2>2, <2>3 DEF Init, TypeOK, Places
<1>2. LockInv /\ BootInv /\ CallInv
  BY DEF Init, LockInv, BootInv, CallInv, CallOf
<1>3. SshQuiet /\ SshAlive /\ LogInv /\ KillInv /\ PkillInv
  BY DEF Init, SshInit, SshQuiet, SshAlive, LogInv, KillInv, PkillInv, PkillOf
<1>4. QED
  BY <1>1, <1>2, <1>3 DEF IInv

-----------------------------------------------------------------------------
(* The supervisor, its killers and the processes they run leave everything *)
(* but sshVars alone.                                                      *)

LEMMA SshFrame ==
  ASSUME IInv, SshTypeOK',
         UNCHANGED <<bootVars, ocram, loaded, diskVars, kexecVars, logVars>>
  PROVE  TypeOK' /\ LockInv' /\ BootInv' /\ CallInv' /\ LogInv'
<1> USE DEF IInv, bootVars, diskVars, kexecVars, logVars
<1>1. TypeOK'
  BY DEF TypeOK
<1>2. LockInv' /\ BootInv' /\ LogInv'
  BY DEF LockInv, BootInv, LogInv
<1>3. CallInv'
  BY DEF CallInv, CallOf, Unseal, DecryptAndVerify, CurrentVersion, UpgradeKey
<1>4. QED
  BY <1>1, <1>2, <1>3

LEMMA SupervisorStep == IInv /\ SshStep(Supervisor) => IInv'
<1> SUFFICES ASSUME IInv, SshStep(Supervisor) PROVE IInv'
  OBVIOUS
<1> USE SshAssumption
<1>0. /\ mode # "dead" /\ UNCHANGED <<bootVars, ocram, loaded, diskVars, kexecVars, logVars>>
      /\ Supervisor
  BY DEF SshStep
<1>1. SshTypeOK'
  <2> USE <1>0 DEF IInv, TypeOK, SshTypeOK, SshQuiet, Gens
  <2>0. CASE RunOnceReturns
    BY <2>0 DEF RunOnceReturns
  <2>1. CASE RunOnce
    BY <2>1 DEF RunOnce
  <2>2. CASE RunOnceFails
    BY <2>2 DEF RunOnceFails
  <2>3. CASE Reap
    BY <2>3 DEF Reap
  <2>4. CASE NotRestarting \/ Restarting \/ Slept
    BY <2>4 DEF NotRestarting, Restarting, Slept
  <2>5. QED
    BY <2>0, <2>1, <2>2, <2>3, <2>4 DEF Supervisor
<1>2. TypeOK' /\ LockInv' /\ BootInv' /\ CallInv' /\ LogInv'
  BY <1>0, <1>1, SshFrame
<1>3. SshQuiet'
  BY <1>0 DEF IInv, TypeOK, SshTypeOK, SshQuiet, SshInit, Gens, bootVars, Supervisor, RunOnce, RunOnceReturns, RunOnceFails, Reap,
              NotRestarting, Restarting, Slept
<1>4. SshAlive'
  <2> USE <1>0 DEF IInv, TypeOK, SshTypeOK, SshAlive, bootVars
  <2>1. CASE RunOnce \/ RunOnceReturns
    BY <2>1 DEF RunOnce, RunOnceReturns
  <2>2. CASE RunOnceFails
    BY <2>2 DEF RunOnceFails
  <2>3. CASE Reap
    BY <2>3 DEF Reap
  <2>4. CASE NotRestarting \/ Restarting \/ Slept
    BY <2>4 DEF NotRestarting, Restarting, Slept
  <2>5. QED
    BY <2>1, <2>2, <2>3, <2>4 DEF Supervisor
<1>5. KillInv'
  BY <1>0 DEF IInv, KillInv, bootVars, kexecVars, Supervisor, RunOnce, RunOnceReturns, RunOnceFails, Reap,
              NotRestarting, Restarting, Slept
<1>6. PkillInv'
  BY <1>0 DEF IInv, PkillInv, PkillOf, bootVars, kexecVars, Supervisor, RunOnce, RunOnceReturns, RunOnceFails, Reap,
              NotRestarting, Restarting, Slept
<1>7. QED
  BY <1>2, <1>3, <1>4, <1>5, <1>6 DEF IInv

LEMMA KillerStep == ASSUME NEW g \in Gens, IInv, SshStep(Killer(g)) PROVE IInv'
<1> USE SshAssumption
<1>0. /\ mode # "dead" /\ UNCHANGED <<bootVars, ocram, loaded, diskVars, kexecVars, logVars>>
      /\ KillerKills(g) \/ KillerStops(g)
  BY DEF SshStep, Killer
<1>1. SshTypeOK'
  BY <1>0 DEF IInv, TypeOK, SshTypeOK, KillerKills, KillerStops
<1>2. TypeOK' /\ LockInv' /\ BootInv' /\ CallInv' /\ LogInv'
  BY <1>0, <1>1, SshFrame
<1>3. SshQuiet'
  BY <1>0 DEF IInv, SshQuiet, SshInit, bootVars, KillerKills, KillerStops
<1>4. SshAlive'
  <2> USE <1>0 DEF IInv, TypeOK, SshTypeOK, SshAlive, bootVars
  <2>1. CASE KillerKills(g)
    BY <2>1 DEF KillerKills
  <2>2. CASE KillerStops(g)
    BY <2>2 DEF KillerStops
  <2>3. QED
    BY <2>1, <2>2
<1>5. KillInv' /\ PkillInv'
  BY <1>0 DEF IInv, KillInv, PkillInv, PkillOf, bootVars, kexecVars, KillerKills, KillerStops
<1>6. QED
  BY <1>2, <1>3, <1>4, <1>5 DEF IInv

LEMMA DropbearStep == ASSUME IInv, SshStep(DropbearDies) PROVE IInv'
<1>0. /\ UNCHANGED <<bootVars, ocram, loaded, diskVars, kexecVars, logVars>>
      /\ DropbearDies
  BY DEF SshStep
<1>1. SshTypeOK'
  BY <1>0 DEF IInv, TypeOK, SshTypeOK, DropbearDies
<1>2. TypeOK' /\ LockInv' /\ BootInv' /\ CallInv' /\ LogInv'
  BY <1>0, <1>1, SshFrame
<1>3. SshQuiet' /\ SshAlive'
  BY <1>0 DEF IInv, SshQuiet, SshInit, SshAlive, bootVars, DropbearDies
<1>4. KillInv' /\ PkillInv'
  BY <1>0 DEF IInv, KillInv, PkillInv, PkillOf, bootVars, kexecVars, DropbearDies
<1>5. QED
  BY <1>2, <1>3, <1>4 DEF IInv

-----------------------------------------------------------------------------
(* Boots and crashes end every call.                                       *)

LEMMA BootStep ==
  ASSUME IInv, NEW k \in Nat, Boot(k),
         ocram' \in [hash: ConfigType \cup {None}, data: ConfigType \cup {None}]
  PROVE  IInv'
<1> USE UpgradeAssumption, SshAssumption DEF IInv, Boot, SshReset, NoCalls
<1>1. SshTypeOK'
  <2>1. kill' \in BOOLEAN /\ killCompletion' \in BOOLEAN
    BY Zenon
  <2>2. gen' \in 0..MaxSpawns
    OBVIOUS
  <2>3. QED
    BY <2>1, <2>2 DEF SshTypeOK
<1>2. TypeOK'
  <2>1. KexecSshKill' \in BOOLEAN
    BY Zenon
  <2>2. boots' \in 0..MaxBoots /\ opened' \in 0..NumDisks
    BY DEF TypeOK
  <2>3. QED
    BY <1>1, <2>1, <2>2 DEF TypeOK
<1>3. LockInv' /\ BootInv' /\ CallInv'
  BY DEF LockInv, BootInv, CallInv, CallOf
<1>4. SshQuiet' /\ SshAlive'
  BY DEF SshQuiet, SshInit, SshAlive
<1>5. LogInv' /\ KillInv' /\ PkillInv'
  BY DEF LogInv, KillInv, PkillInv, PkillOf
<1>6. QED
  BY <1>2, <1>3, <1>4, <1>5

LEMMA CrashStep ==
  ASSUME IInv, Crash, mode \in {"load", "serial", "init", "up", "emergency"}
  PROVE  IInv'
<1> USE UpgradeAssumption DEF IInv, Crash, SshOrphaned, NoCalls
<1>1. TypeOK'
  <2>1. KexecSshKill' \in BOOLEAN
    BY Zenon
  <2>2. QED
    BY <2>1 DEF TypeOK, SshTypeOK, diskVars
<1>2. mode' \in {"emergency", "dead"}
      /\ (mode' = "emergency" => mode \in {"init", "up"})
  BY DEF BootInv
<1>3. LockInv' /\ BootInv' /\ CallInv'
  BY <1>2 DEF LockInv, BootInv, CallInv, CallOf
<1>4. SshQuiet' /\ SshAlive'
  BY <1>2 DEF SshQuiet, SshAlive
<1>5. LogInv' /\ KillInv' /\ PkillInv'
  BY <1>2 DEF LogInv, KillInv, PkillInv, PkillOf
<1>6. QED
  BY <1>1, <1>3, <1>4, <1>5

-----------------------------------------------------------------------------
(* The calls.                                                              *)

LEMMA OthersIdle ==
  ASSUME IInv, NEW r \in Requests, pc[r] # "idle"
  PROVE  \A s \in Requests : s # r => pc[s] = "idle"
  BY DEF IInv, LockInv

(* A call returns, from any place but the join, which it cannot leave.     *)
LEMMA LeaveStep ==
  ASSUME IInv, NEW r \in Requests, pc[r] \notin {"idle", "join"}, Leave(r),
         UNCHANGED <<sshVars, bootVars, ocram, loaded, diskVars, logVars>>
  PROVE  IInv'
<1> USE DEF IInv, Leave, sshVars, bootVars, diskVars, logVars
<1>1. TypeOK'
  BY DEF TypeOK, SshTypeOK
<1>2. LockInv' /\ BootInv' /\ LogInv'
  BY OthersIdle DEF TypeOK, LockInv, BootInv, LogInv
<1>3. CallInv'
  BY OthersIdle DEF TypeOK, CallInv, CallOf
<1>4. SshQuiet' /\ SshAlive'
  BY DEF SshQuiet, SshInit, SshAlive
<1>5. KillInv'
  BY DEF TypeOK, KillInv
<1>6. PkillInv'
  BY OthersIdle DEF TypeOK, PkillInv, PkillOf
<1>7. QED
  BY <1>1, <1>2, <1>3, <1>4, <1>5, <1>6

(* A call goes on to its next place, having established what that takes.   *)
LEMMA GotoStep ==
  ASSUME IInv, NEW r \in Requests, pc[r] # "idle", pc[r] = "join" => killCompletion,
         NEW l \in Places, l # "idle", Goto(r, l),
         UNCHANGED <<sshVars, bootVars>>,
         TypeOK', CallOf(r)', PkillOf(r)', LogInv'
  PROVE  IInv'
<1> USE DEF IInv, Goto, sshVars, bootVars
<1>1. LockInv' /\ BootInv'
  BY OthersIdle DEF TypeOK, LockInv, BootInv
<1>2. \A s \in Requests : s # r => pc'[s] = "idle"
  BY OthersIdle DEF TypeOK
<1>3. CallInv'
  BY <1>2 DEF CallInv, CallOf
<1>4. SshQuiet' /\ SshAlive'
  BY DEF SshQuiet, SshInit, SshAlive
<1>5. KillInv'
  BY DEF TypeOK, KillInv
<1>6. PkillInv'
  BY <1>2 DEF PkillInv, PkillOf
<1>7. QED
  BY <1>1, <1>3, <1>4, <1>5, <1>6

(* The next place asks nothing new.                                        *)
LEMMA GoesOnStep ==
  ASSUME IInv, NEW r \in Requests, NEW l \in Places, GoesOn(r, l),
         pc[r] # "idle", pc[r] = "join" => killCompletion, l # "idle",
         pc'[r] = l /\ pkg'[r] = pkg[r] => CallOf(r)' /\ PkillOf(r)'
  PROVE  IInv'
<1> USE DEF GoesOn
<1>1. TypeOK' /\ pc'[r] = l /\ pkg'[r] = pkg[r]
  BY DEF IInv, TypeOK, SshTypeOK, Places, Goto, sshVars, bootVars, diskVars, logVars
<1>2. LogInv'
  BY DEF IInv, LogInv, bootVars, logVars
<1>3. QED
  BY <1>1, <1>2, GotoStep

(* A log call only takes the lock of the output.                           *)
LEMMA LogStep ==
  ASSUME IInv, log' \in {"free", "fatal", "flush"},
         flush' \in {"none", "lock", "sync", "reply", "done"}, mode \in {"init", "up"},
         UNCHANGED <<sshVars, bootVars, ocram, loaded, diskVars, kexecVars>>
  PROVE  IInv'
<1> USE DEF IInv, sshVars, bootVars, diskVars, kexecVars
<1>1. TypeOK'
  BY DEF TypeOK, SshTypeOK
<1>2. LockInv' /\ BootInv' /\ LogInv'
  BY DEF LockInv, BootInv, LogInv
<1>3. CallInv'
  BY DEF CallInv, CallOf, Unseal, DecryptAndVerify, CurrentVersion, UpgradeKey
<1>4. SshQuiet' /\ SshAlive' /\ KillInv' /\ PkillInv'
  BY DEF SshQuiet, SshInit, SshAlive, KillInv, PkillInv, PkillOf
<1>5. QED
  BY <1>1, <1>2, <1>3, <1>4

LEMMA FlushStep == ASSUME IInv, Flush \/ FatalSyncs PROVE IInv'
  BY LogStep DEF IInv, TypeOK, LogInv, Flush, FlushLocks, FlushSynced, FlushDone, FatalSyncs

LEMMA AcceptStep ==
  ASSUME IInv, NEW r \in Requests, NEW p \in Packages, Accept(r, p) PROVE IInv'
<1> USE DEF IInv, Accept, TryLock, sshVars, bootVars, diskVars, logVars
<1>1. TypeOK'
  BY DEF TypeOK, SshTypeOK
<1>2. \A s \in Requests : pc[s] = "idle"
  BY UpgradeAssumption DEF LockInv
<1>3. pc' = [pc EXCEPT ![r] = "read"] /\ pc'[r] = "read" /\ pkg'[r] = p
  BY DEF TypeOK
<1>4. \A s \in Requests : s # r => pc'[s] = "idle"
  BY <1>2 DEF TypeOK
<1>5. LockInv' /\ BootInv' /\ LogInv'
  BY <1>3, <1>4 DEF LockInv, BootInv, LogInv, KexecServed
<1>6. CallInv'
  BY <1>3, <1>4 DEF CallInv, CallOf, KexecServed
<1>7. SshQuiet' /\ SshAlive'
  BY DEF SshQuiet, SshInit, SshAlive
<1>8. KillInv'
  BY <1>2 DEF KillInv
<1>9. PkillInv'
  BY <1>3, <1>4 DEF PkillInv, PkillOf
<1>10. QED
  BY <1>1, <1>5, <1>6, <1>7, <1>8, <1>9

LEMMA UnsealStep == ASSUME IInv, NEW r \in Requests, ReadAndUnseal(r) PROVE IInv'
<1> DEFINE l == IF Unseal(pkg[r]) THEN IF mode = "up" THEN "ssh" ELSE "pkill" ELSE "error"
<1>1. pc[r] = "read" /\ GoesOn(r, l) /\ l \in Places /\ l # "idle"
  BY DEF ReadAndUnseal, Places
<1>2. ASSUME pc'[r] = l, pkg'[r] = pkg[r] PROVE CallOf(r)' /\ PkillOf(r)'
  BY <1>1, <1>2 DEF IInv, CallInv, CallOf, PkillOf, Unseal, DecryptAndVerify, CurrentVersion,
                    UpgradeKey, GoesOn, bootVars
<1>3. QED
  BY <1>1, <1>2, GoesOnStep

(* The call that finds KexecSshKill closes the channel; for any other the  *)
(* supervisor has ended, since nobody is waiting for it.                   *)
LEMMA KillSshStep == ASSUME IInv, NEW r \in Requests, KillSsh(r) PROVE IInv'
<1> USE DEF IInv, KillSsh, GoesOn, Goto, sshVars, bootVars, diskVars, logVars
<1>1. TypeOK'
  <2>1. kill' \in BOOLEAN /\ KexecSshKill' \in BOOLEAN
    BY Zenon DEF TypeOK, SshTypeOK
  <2>2. pc' \in [Requests -> Places] /\ UNCHANGED <<lock, pkg, log, flush>>
    BY DEF TypeOK, Places
  <2>3. UNCHANGED <<sup, killCompletion, gen, dropbear, killers, stop, bootVars, ocram, loaded, diskVars>>
    OBVIOUS
  <2>4. QED
    BY <2>1, <2>2, <2>3 DEF TypeOK, SshTypeOK, Places
<1>2. pc[r] = "ssh" /\ pc'[r] \in {"join", "pkill"} /\ mode = "up" /\ pkg' = pkg /\ lock' = lock
  BY DEF TypeOK, CallInv, CallOf
<1>3. \A s \in Requests : s # r => pc[s] = "idle" /\ pc'[s] = "idle"
  BY <1>2, OthersIdle DEF TypeOK
<1>4. LockInv' /\ BootInv' /\ LogInv'
  BY <1>2, <1>3 DEF LockInv, BootInv, LogInv
<1>5. CallInv'
  BY <1>2, <1>3 DEF CallInv, CallOf, Unseal, DecryptAndVerify, CurrentVersion, UpgradeKey
<1>6. SshQuiet' /\ SshAlive'
  BY <1>2 DEF SshQuiet, SshInit, SshAlive
<1>7. KillInv' /\ PkillInv'
  <2>1. CASE KexecSshKill
    BY <1>2, <1>3, <2>1 DEF KillInv, PkillInv, PkillOf, TypeOK
  <2>2. CASE ~KexecSshKill
    <3>1. killCompletion /\ pc'[r] = "pkill"
      BY <1>2, <1>3, <2>2 DEF KillInv, CallInv, CallOf, TypeOK
    <3>2. UNCHANGED <<kill, killCompletion, KexecSshKill>>
      BY <2>2
    <3>3. KillInv'
      BY <2>2, <3>1, <3>2 DEF KillInv
    <3>4. PkillInv'
      BY <1>3, <3>1, <3>2 DEF PkillInv, PkillOf
    <3>5. QED
      BY <3>3, <3>4
  <2>3. QED
    BY <2>1, <2>2
<1>8. QED
  BY <1>1, <1>4, <1>5, <1>6, <1>7

(* The other steps of a call past the checks change one thing each.        *)
LEMMA HandlerStep == ASSUME IInv, NEW r \in Requests, Handler(r) PROVE IInv'
<1> DEFINE p == pkg[r]
<1>0. ASSUME pc[r] \notin {"idle", "read", "error"}
      PROVE  p \in Packages /\ p \in PackageType /\ p.config \in ConfigType /\ CallOf(r) /\ PkillOf(r)
  BY <1>0, UpgradeAssumption DEF IInv, CallInv, CallOf, PkillInv, PackageType
<1>on. ASSUME NEW l \in Places, l # "idle", GoesOn(r, l), pc[r] \notin {"idle", "read", "error"},
              pc[r] = "join" => killCompletion,
              l \notin {"ssh", "join", "save2", "load", "loaded"},
              l = "sync" => pc[r] = "loaded", l = "reboot" => pc[r] = "sync",
              l # "error" /\ mode = "up" => killCompletion
       PROVE  IInv'
  <2>1. ASSUME pc'[r] = l, pkg'[r] = pkg[r] PROVE CallOf(r)' /\ PkillOf(r)'
    BY <1>0, <1>on, <2>1 DEF CallOf, PkillOf, Unseal, DecryptAndVerify, CurrentVersion, UpgradeKey,
                             GoesOn, sshVars, bootVars
  <2>2. QED
    BY <1>on, <2>1, GoesOnStep
<1>1. CASE KillSsh(r)
  BY <1>1, KillSshStep
<1>2. CASE JoinSsh(r)
  BY <1>2, <1>on DEF JoinSsh, Places
<1>3. CASE PkillFinds(r) \/ PkillFindsNone(r)
  BY <1>0, <1>3, <1>on DEF PkillFinds, PkillFindsNone, Places, PkillOf
<1>4. CASE Unmount(r)
  <2> USE <1>4 DEF Unmount
  <2>0. PICK l \in {"umounted", "save"} : Goto(r, l)
    OBVIOUS
  <2>1. mounted' \in SUBSET mounted
    BY DEF IInv, TypeOK, LockInv
  <2>2. TypeOK' /\ pc'[r] = l /\ pkg'[r] = p /\ LogInv'
    BY <2>0, <2>1 DEF IInv, TypeOK, SshTypeOK, LogInv, Goto, sshVars, bootVars, logVars
  <2>3. CallOf(r)' /\ PkillOf(r)'
    BY <1>0, <2>2 DEF CallOf, PkillOf, Unseal, DecryptAndVerify, CurrentVersion, UpgradeKey, sshVars,
                      bootVars
  <2>4. QED
    BY <2>0, <2>2, <2>3, GotoStep DEF Places
<1>5. CASE Unmounted(r) \/ SaveFails(r) \/ Sync(r) \/ RebootFails(r)
  BY <1>0, <1>5, <1>on DEF Unmounted, SaveFails, Sync, RebootFails, Places, PkillOf
<1>6. CASE SaveHash(r)
  <2> USE <1>6 DEF SaveHash
  <2>1. ocram' \in [hash: ConfigType \cup {None}, data: ConfigType \cup {None}] /\ ocram'.hash = p.config
    BY <1>0 DEF IInv, TypeOK
  <2>2. TypeOK' /\ pc'[r] = "save2" /\ pkg'[r] = p /\ LogInv'
    BY <2>1 DEF IInv, TypeOK, SshTypeOK, LogInv, Goto, sshVars, bootVars, diskVars, logVars
  <2>3. CallOf(r)' /\ PkillOf(r)'
    BY <1>0, <2>1, <2>2 DEF CallOf, PkillOf, Unseal, DecryptAndVerify, CurrentVersion, UpgradeKey,
                            sshVars, bootVars
  <2>4. QED
    BY <2>2, <2>3, GotoStep DEF Places
<1>7. CASE SaveText(r)
  <2> USE <1>7 DEF SaveText
  <2>1. /\ ocram' \in [hash: ConfigType \cup {None}, data: ConfigType \cup {None}]
        /\ ocram'.hash = ocram.hash /\ ocram'.data = p.config
    BY <1>0 DEF IInv, TypeOK
  <2>2. TypeOK' /\ pc'[r] = "load" /\ pkg'[r] = p /\ LogInv'
    BY <2>1 DEF IInv, TypeOK, SshTypeOK, LogInv, Goto, sshVars, bootVars, diskVars, logVars
  <2>3. CallOf(r)' /\ PkillOf(r)'
    BY <1>0, <2>1, <2>2 DEF CallOf, PkillOf, Unseal, DecryptAndVerify, CurrentVersion, UpgradeKey,
                            sshVars, bootVars
  <2>4. QED
    BY <2>2, <2>3, GotoStep DEF Places
<1>8. CASE LoadFails(r)
  BY <1>0, <1>8, <1>on, LeaveStep DEF LoadFails, Places
<1>9. CASE Load(r)
  <2> USE <1>9 DEF Load
  <2>1. TypeOK' /\ pc'[r] = "loaded" /\ pkg'[r] = p /\ LogInv'
    BY <1>0 DEF IInv, TypeOK, SshTypeOK, LogInv, Goto, sshVars, bootVars, diskVars, logVars
  <2>2. CallOf(r)' /\ PkillOf(r)'
    BY <1>0, <2>1 DEF CallOf, PkillOf, Unseal, DecryptAndVerify, CurrentVersion, UpgradeKey, sshVars,
                      bootVars
  <2>3. QED
    BY <2>1, <2>2, GotoStep DEF Places
<1>10. CASE Loaded(r)
  <2> USE <1>10 DEF Loaded
  <2>1. TypeOK' /\ pc'[r] = "sync" /\ pkg'[r] = p /\ LogInv'
    BY DEF IInv, TypeOK, SshTypeOK, LogInv, Goto, sshVars, bootVars, diskVars
  <2>2. CallOf(r)' /\ PkillOf(r)'
    BY <1>0, <2>1 DEF CallOf, PkillOf, Unseal, DecryptAndVerify, CurrentVersion, UpgradeKey, sshVars,
                      bootVars
  <2>3. QED
    BY <2>1, <2>2, GotoStep DEF Places
<1>11. CASE Reboot(r)
  BY <1>0, <1>11, BootStep DEF IInv, TypeOK, CallOf, PackageType, Reboot
<1>12. CASE RebootFatal(r)
  <2>1. CASE Crash
    BY <1>12, <2>1, CrashStep DEF IInv, LockInv, RebootFatal
  <2>2. CASE ~Crash
    BY <1>12, <2>2, LogStep DEF IInv, TypeOK, RebootFatal
  <2>3. QED
    BY <2>1, <2>2
<1>13. CASE ReplyError(r)
  BY <1>13, LeaveStep DEF ReplyError
<1>14. QED
  BY <1>1, <1>2, <1>3, <1>4, <1>5, <1>6, <1>7, <1>8, <1>9, <1>10, <1>11, <1>12, <1>13 DEF Handler

-----------------------------------------------------------------------------
(* The boot of homegw-init.                                                *)

LEMMA OcramConfigType ==
  ASSUME TypeOK PROVE OcramConfig \in ConfigType \cup {None}
  BY DEF TypeOK, OcramConfig

(* Use is only reached from the two states in which nothing runs yet.      *)
LEMMA UseStep ==
  ASSUME IInv, NEW c \in ConfigType, mode \in {"load", "serial"}, Use(c),
         ocram' \in [hash: ConfigType \cup {None}, data: ConfigType \cup {None}]
  PROVE  IInv'
<1> USE DEF IInv, Use, sshVars, diskVars, kexecVars, logVars
<1>1. c.key \in Keys \cup {NoKey} /\ mode' \in {"init", "dead"}
      /\ (mode' = "init" => keyFile' = config'.key \/ (DevicesFail /\ keyFile' = None))
  BY DEF ConfigType
<1>2. TypeOK'
  BY <1>1 DEF TypeOK, SshTypeOK
<1>3. \A r \in Requests : pc[r] = "idle"
  BY DEF LockInv
<1>4. LockInv' /\ BootInv' /\ CallInv'
  BY <1>1, <1>3 DEF LockInv, BootInv, CallInv, CallOf
<1>5. SshQuiet' /\ SshAlive'
  BY <1>1 DEF SshQuiet, SshInit, SshAlive
<1>6. LogInv' /\ KillInv' /\ PkillInv'
  BY <1>1 DEF LogInv, KillInv, PkillInv, PkillOf
<1>7. QED
  BY <1>2, <1>4, <1>5, <1>6

LEMMA LoadOcramStep == ASSUME IInv, LoadOcram PROVE IInv'
<1> USE DEF LoadOcram
<1>1. ocram' \in [hash: ConfigType \cup {None}, data: ConfigType \cup {None}]
  BY DEF Erased
<1>2. CASE OcramConfig # None
  BY <1>1, <1>2, OcramConfigType, UseStep DEF IInv
<1>3. CASE OcramConfig = None
  <2> USE <1>3 DEF IInv, sshVars, diskVars, kexecVars, logVars
  <2>0. mode' = "serial" /\ UNCHANGED <<sshVars, image, config, keyFile, boots, loaded, diskVars, kexecVars,
                                            logVars>>
    BY DEF Use
  <2>1. TypeOK'
    BY <1>1, <2>0 DEF TypeOK, SshTypeOK
  <2>2. LockInv' /\ BootInv' /\ CallInv'
    BY <2>0 DEF LockInv, BootInv, CallInv, CallOf
  <2>3. SshQuiet' /\ SshAlive' /\ LogInv' /\ KillInv' /\ PkillInv'
    BY <2>0 DEF SshQuiet, SshInit, SshAlive, LogInv, KillInv, PkillInv, PkillOf
  <2>4. QED
    BY <2>1, <2>2, <2>3
<1>4. QED
  BY <1>2, <1>3

LEMMA StartServersStep == ASSUME IInv, StartServers PROVE IInv'
<1> USE DEF IInv, StartServers, diskVars, logVars
<1>1. SshInit /\ config \in ConfigType /\ (\A r \in Requests : pc[r] = "idle")
  BY DEF SshQuiet, BootInv, LockInv
<1>2. CASE config.ssh = "none"
  <2> USE <1>1, <1>2 DEF NoServer, SshInit
  <2>1. TypeOK'
    <3>1. killCompletion' \in BOOLEAN
      BY Zenon
    <3>2. KexecSshKill' \in BOOLEAN
      BY DEF ConfigType
    <3>3. QED
      BY <3>1, <3>2 DEF TypeOK, SshTypeOK
  <2>2. LockInv' /\ BootInv' /\ CallInv'
    BY DEF LockInv, BootInv, CallInv, CallOf
  <2>3. SshQuiet' /\ SshAlive'
    BY DEF SshQuiet, SshAlive
  <2>4. LogInv' /\ KillInv' /\ PkillInv'
    BY DEF LogInv, KillInv, PkillInv, PkillOf
  <2>5. QED
    BY <2>1, <2>2, <2>3, <2>4
<1>3. CASE config.ssh # "none"
  <2> USE <1>1, <1>3 DEF Spawn, SshInit
  <2>1. TypeOK'
    <3>1. KexecSshKill' \in BOOLEAN
      BY DEF ConfigType
    <3>2. QED
      BY <3>1 DEF TypeOK, SshTypeOK
  <2>2. LockInv' /\ BootInv' /\ CallInv'
    BY DEF LockInv, BootInv, CallInv, CallOf
  <2>3. SshQuiet' /\ SshAlive'
    BY DEF SshQuiet, SshAlive
  <2>4. LogInv' /\ KillInv' /\ PkillInv'
    BY DEF LogInv, KillInv, PkillInv, PkillOf
  <2>5. QED
    BY <2>1, <2>2, <2>3, <2>4
<1>4. QED
  BY <1>2, <1>3

LEMMA OpenDiskStep == ASSUME IInv, OpenDisk PROVE IInv'
<1> USE DEF IInv, OpenDisk, sshVars, bootVars, kexecVars, logVars
<1>1. TypeOK'
  BY UpgradeAssumption DEF TypeOK, SshTypeOK
<1>2. LockInv' /\ BootInv'
  BY DEF LockInv, BootInv
<1>3. CallInv'
  BY DEF CallInv, CallOf, Unseal, DecryptAndVerify, CurrentVersion, UpgradeKey
<1>4. SshQuiet' /\ SshAlive'
  BY DEF SshQuiet, SshInit, SshAlive
<1>5. LogInv' /\ KillInv' /\ PkillInv'
  BY DEF LogInv, KillInv, PkillInv, PkillOf
<1>6. QED
  BY <1>1, <1>2, <1>3, <1>4, <1>5

LEMMA PowerLossStep == ASSUME IInv, PowerLoss PROVE IInv'
<1>1. ocram' \in [hash: ConfigType \cup {None}, data: ConfigType \cup {None}]
  BY DEF IInv, TypeOK, PowerLoss, Erased
<1>2. QED
  BY <1>1, BootStep, UpgradeAssumption DEF PowerLoss

-----------------------------------------------------------------------------
(* The invariant is inductive.                                             *)

LEMMA IInvNext == IInv /\ [Next]_vars => IInv'
<1> SUFFICES ASSUME IInv, [Next]_vars PROVE IInv'
  OBVIOUS
<1>1. CASE Startup
  <2>1. ASSUME NEW c \in SerialConfigs, LoadSerial(c) PROVE IInv'
    BY <2>1, UseStep, UpgradeAssumption DEF LoadSerial, IInv, TypeOK
  <2>2. QED
    BY <1>1, <2>1, LoadOcramStep, StartServersStep, OpenDiskStep DEF Startup
<1>2. CASE MainFails \/ FatalExits
  BY <1>2, CrashStep DEF MainFails, FatalExits, IInv, LogInv
<1>3. CASE PowerLoss
  BY <1>3, PowerLossStep
<1>4. ASSUME NEW r \in Requests, Handler(r) \/ ReadFails(r) \/ ReadAndUnseal(r) PROVE IInv'
  BY <1>4, HandlerStep, LeaveStep, UnsealStep DEF ReadFails
<1>5. ASSUME NEW r \in Requests, NEW p \in Packages, Accept(r, p) PROVE IInv'
  BY <1>5, AcceptStep
<1>6. CASE SshStep(Supervisor) \/ SshStep(DropbearDies) \/ Flush \/ FatalSyncs
  BY <1>6, SupervisorStep, DropbearStep, FlushStep
<1>7. ASSUME NEW g \in Gens, SshStep(Killer(g)) PROVE IInv'
  BY <1>7, KillerStep
<1>8. CASE UNCHANGED vars
  <2> USE <1>8 DEF IInv, vars, sshVars, bootVars, diskVars, kexecVars, logVars
  <2>1. SshTypeOK'
    BY DEF TypeOK, SshTypeOK
  <2>2. TypeOK' /\ LockInv' /\ BootInv' /\ CallInv' /\ LogInv'
    BY <2>1, SshFrame
  <2>3. SshQuiet' /\ SshAlive' /\ KillInv' /\ PkillInv'
    BY DEF SshQuiet, SshInit, SshAlive, KillInv, PkillInv, PkillOf
  <2>4. QED
    BY <2>2, <2>3
<1>9. QED
  BY <1>1, <1>2, <1>3, <1>4, <1>5, <1>6, <1>7, <1>8 DEF Next

(* Every reachable state satisfies the inductive invariant.                *)
THEOREM Invariant == Spec => []IInv
  BY IInvInit, IInvNext, PTL DEF Spec

(* Every reachable state of boot, handler (http.go:333-449) and supervisor *)
(* (ssh.go) is well typed.                                                 *)
THEOREM TypeCorrect == Spec => []TypeOK
<1>1. IInv => TypeOK
  BY DEF IInv
<1>2. QED
  BY <1>1, Invariant, PTL

(* The handler never closes the kill channel twice (which would panic),    *)
(* however many attempts at an upgrade fail after the first close.         *)
THEOREM ClosedOnce == Spec => []NoDoubleClose
<1>1. IInv => NoDoubleClose
  BY DEF IInv, KillInv, NoDoubleClose
<1>2. QED
  BY <1>1, Invariant, PTL

(* When the handler goes on to kill the users' processes, to save and to   *)
(* load (http.go:371-448), the SSH supervisor has ended and no dropbear is *)
(* left, for any number of dropbears, kills, failed attempts and retries.  *)
THEOREM NoSshWhileLoading == Spec => []SshStopped
<1>1. IInv => SshStopped
  BY DEF IInv, PkillInv, PkillOf, SshAlive, SshStopped, PastSsh
<1>2. QED
  BY <1>1, Invariant, PTL

-----------------------------------------------------------------------------
(* HotUpgrade implements Appliance: a reboot into a loaded kernel is       *)
(* Install, a crash is Recover or Stop, and no other step of a call shows. *)

AStep == [ApplianceView!Next]_(ApplianceView!applianceVars)

LEMMA ViewOf ==
  ASSUME TypeOK
  PROVE  /\ mode = "load" => ViewStatus = "starting" /\ ViewConfig = OcramConfig
         /\ mode = "serial" => ViewStatus = "starting" /\ ViewConfig = config
         /\ mode \in {"init", "up"} => ViewStatus = "running" /\ ViewConfig = config
         /\ mode = "emergency" => ViewStatus = "recovery" /\ ViewConfig = config
         /\ mode = "dead" => ViewStatus = "stopped" /\ ViewConfig = None
         /\ ViewKept = (mode \in {"init", "up", "emergency"} /\ keyFile \in Keys)
  BY DEF ViewStatus, ViewConfig, ViewKept

LEMMA ViewOfNext ==
  ASSUME TypeOK'
  PROVE  /\ mode' = "load" => ViewStatus' = "starting" /\ ViewConfig' = OcramConfig'
         /\ mode' = "serial" => ViewStatus' = "starting" /\ ViewConfig' = config'
         /\ mode' \in {"init", "up"} => ViewStatus' = "running" /\ ViewConfig' = config'
         /\ mode' = "emergency" => ViewStatus' = "recovery" /\ ViewConfig' = config'
         /\ mode' = "dead" => ViewStatus' = "stopped" /\ ViewConfig' = None
         /\ ViewKept' = (mode' \in {"init", "up", "emergency"} /\ keyFile' \in Keys)
  BY DEF ViewStatus, ViewConfig, ViewKept

LEMMA Unseen ==
  ASSUME UNCHANGED bootVars, UNCHANGED ocram \/ mode # "load" PROVE AStep
<1>1. UNCHANGED <<ViewStatus, image, ViewConfig, ViewKept>>
  BY DEF bootVars, ViewStatus, ViewConfig, ViewKept, OcramConfig
<1>2. QED
  BY <1>1 DEF AStep, ApplianceView!applianceVars

LEMMA ViewInit == Init => ApplianceView!Init
  BY DEF Init, ApplianceView!Init, ViewStatus, ViewConfig, ViewKept, OcramConfig, Erased

LEMMA ViewUse ==
  ASSUME IInv, IInv', NEW c \in ConfigType, mode \in {"load", "serial"}, Use(c),
         (mode = "load" /\ c = OcramConfig) \/ (mode = "serial" /\ c \in SerialConfigs)
  PROVE  AStep
<1>1. ViewStatus = "starting" /\ (mode = "serial" => ViewConfig = None)
      /\ (mode = "load" => ViewConfig = c)
  BY ViewOf DEF IInv, BootInv
<1>2. c # None /\ image' = image
  BY UpgradeAssumption DEF Use
<1>3. CASE c.parses
  <2>1. ViewStatus' = "running" /\ ViewConfig' = c
    BY <1>3, ViewOfNext DEF IInv, Use
  <2>k. ApplianceView!KeepKey(c)
    <3>1. ViewKept' = (keyFile' \in Keys)
      BY <1>3, ViewOfNext DEF IInv, Use
    <3>2. CASE keyFile' = c.key
      <4>1. (c.key \in Keys) = (c.key # NoKey)
        BY UpgradeAssumption DEF ConfigType
      <4>2. QED
        BY <3>1, <3>2, <4>1 DEF ApplianceView!KeepKey
    <3>3. CASE DevicesFail /\ keyFile' = None
      <4>1. keyFile' \notin Keys
        BY <3>3, UpgradeAssumption
      <4>2. ViewKept' = FALSE
        BY <4>1 DEF ViewKept
      <4>3. QED
        BY <3>3, <4>2 DEF ApplianceView!KeepKey
    <3>4. QED
      BY <1>3, <3>2, <3>3 DEF Use
  <2>2. ApplianceView!Start \/ (c \in SerialConfigs /\ ApplianceView!Provision(c))
    BY <1>1, <1>2, <1>3, <2>1, <2>k DEF ApplianceView!Start, ApplianceView!Provision
  <2>3. QED
    BY <2>2 DEF AStep, ApplianceView!Next
<1>4. CASE ~c.parses
  <2>1. ViewStatus' = "stopped" /\ ViewConfig' = None /\ ViewKept' = FALSE
    BY <1>4, ViewOfNext DEF IInv, Use
  <2>2. ApplianceView!Stop
    BY <1>1, <1>2, <2>1 DEF ApplianceView!Stop
  <2>3. QED
    BY <2>2 DEF AStep, ApplianceView!Next
<1>5. QED
  BY <1>3, <1>4

LEMMA ViewCrash ==
  ASSUME IInv, IInv', Crash, mode \in {"load", "serial", "init", "up", "emergency"}
  PROVE  AStep
<1>1. image' = image /\ config' = config
  BY DEF Crash
<1>2. CASE mode' = "emergency"
  <2>1. mode \in {"init", "up"} /\ keyFile \in Keys /\ keyFile' = keyFile
    BY <1>2, UpgradeAssumption DEF Crash, IInv, BootInv
  <2>2. ApplianceView!Recover
    BY <1>1, <1>2, <2>1, ViewOf, ViewOfNext, UpgradeAssumption DEF IInv, ApplianceView!Recover
  <2>3. QED
    BY <2>2 DEF AStep, ApplianceView!Next
<1>3. CASE mode' = "dead"
  <2>1. mode \in {"init", "up"} => keyFile \notin Keys
    BY <1>3 DEF Crash
  <2>2. ApplianceView!Stop
    BY <1>1, <1>3, <2>1, ViewOf, ViewOfNext DEF IInv, ApplianceView!Stop
  <2>3. QED
    BY <2>2 DEF AStep, ApplianceView!Next
<1>4. QED
  BY <1>2, <1>3 DEF Crash

LEMMA ViewReboot == ASSUME IInv, IInv', NEW r \in Requests, Reboot(r) PROVE AStep
<1> DEFINE p == pkg[r]
<1>1. /\ p \in Packages /\ Unseal(p) /\ loaded = p
      /\ ocram.hash = p.config /\ ocram.data = p.config
  BY DEF IInv, CallInv, CallOf, Reboot
<1>2. /\ mode \in {"up", "emergency"} /\ UpgradeKey = config.key
      /\ ViewConfig = config /\ ViewStatus = (IF mode = "up" THEN "running" ELSE "recovery")
  BY ViewOf DEF IInv, LockInv, BootInv, Reboot, UpgradeKey
<1>3. ViewStatus' = "starting" /\ ViewConfig' = p.config /\ image' = p.kernel /\ ViewKept' = FALSE
  BY <1>1, ViewOfNext DEF IInv, Reboot, Boot, OcramConfig
<1>4. ApplianceView!Admissible(p)
  BY <1>1, <1>2 DEF ApplianceView!Admissible, ApplianceView!MinVersion, Unseal, DecryptAndVerify,
                    CurrentVersion
<1>5. ApplianceView!Install(p)
  BY <1>2, <1>3, <1>4 DEF ApplianceView!Install
<1>6. QED
  BY <1>1, <1>5 DEF AStep, ApplianceView!Next

LEMMA ViewPowerLoss == ASSUME IInv, IInv', PowerLoss PROVE AStep
<1>1. OcramConfig' = None
  BY UpgradeAssumption DEF PowerLoss, OcramConfig, Erased, IInv, TypeOK
<1>2. ViewStatus' = "starting" /\ ViewConfig' = None /\ image' = FlashKernel /\ ViewKept' = FALSE
  BY <1>1, ViewOfNext DEF IInv, PowerLoss, Boot
<1>3. QED
  BY <1>2 DEF AStep, ApplianceView!Next, ApplianceView!PowerLoss

LEMMA ViewNext == IInv /\ IInv' /\ [Next]_vars => AStep
<1> SUFFICES ASSUME IInv, IInv', [Next]_vars PROVE AStep
  OBVIOUS
<1>1. CASE LoadOcram
  <2>1. CASE OcramConfig # None
    BY <1>1, <2>1, OcramConfigType, ViewUse DEF LoadOcram, IInv
  <2>2. CASE OcramConfig = None
    <3>1. UNCHANGED <<ViewStatus, image, ViewConfig, ViewKept>>
      BY <1>1, <2>2, ViewOf, ViewOfNext DEF LoadOcram, Use, IInv, BootInv
    <3>2. QED
      BY <3>1 DEF AStep, ApplianceView!applianceVars
  <2>3. QED
    BY <2>1, <2>2
<1>2. ASSUME NEW c \in SerialConfigs, LoadSerial(c) PROVE AStep
  BY <1>2, ViewUse, UpgradeAssumption DEF LoadSerial
<1>3. CASE StartServers
  <2>1. UNCHANGED <<ViewStatus, image, ViewConfig, ViewKept>>
    BY <1>3, ViewOf, ViewOfNext DEF StartServers, IInv
  <2>2. QED
    BY <2>1 DEF AStep, ApplianceView!applianceVars
<1>4. CASE OpenDisk
  BY <1>4, Unseen DEF OpenDisk
<1>5. CASE MainFails \/ FatalExits
  BY <1>5, ViewCrash DEF MainFails, FatalExits, IInv, LogInv
<1>6. CASE PowerLoss
  BY <1>6, ViewPowerLoss
<1>7. ASSUME NEW r \in Requests, Handler(r) PROVE AStep
  <2>1. CASE Reboot(r)
    BY <2>1, ViewReboot
  <2>2. CASE RebootFatal(r) /\ mode = "emergency"
    BY <2>2, ViewCrash DEF RebootFatal, IInv, LockInv
  <2>3. CASE ~Reboot(r) /\ ~(RebootFatal(r) /\ mode = "emergency")
    <3>1. UNCHANGED bootVars /\ pc[r] # "idle"
      BY <1>7, <2>3 DEF Handler, GoesOn, KillSsh, JoinSsh, PkillFinds, PkillFindsNone, Unmount,
                        Unmounted, SaveFails, SaveHash, SaveText, LoadFails, Load, Loaded, Sync,
                        RebootFails, RebootFatal, ReplyError
    <3>2. QED
      BY <3>1, Unseen DEF IInv, LockInv
  <2>4. QED
    BY <2>1, <2>2, <2>3
<1>8. ASSUME NEW r \in Requests, ReadFails(r) \/ ReadAndUnseal(r) PROVE AStep
  BY <1>8, Unseen DEF ReadFails, ReadAndUnseal, GoesOn
<1>9. ASSUME NEW r \in Requests, NEW p \in Packages, Accept(r, p) PROVE AStep
  BY <1>9, Unseen DEF Accept
<1>10. ASSUME UNCHANGED bootVars /\ UNCHANGED ocram PROVE AStep
  BY <1>10, Unseen
<1>11. CASE SshStep(Supervisor) \/ SshStep(DropbearDies) \/ \E g \in Gens : SshStep(Killer(g))
  BY <1>10, <1>11 DEF SshStep
<1>log. CASE Flush \/ FatalSyncs
  BY <1>10, <1>log DEF Flush, FlushLocks, FlushSynced, FlushDone, FatalSyncs
<1>12. CASE UNCHANGED vars
  BY <1>10, <1>12 DEF vars
<1>13. QED
  BY <1>1, <1>2, <1>3, <1>4, <1>5, <1>6, <1>7, <1>8, <1>9, <1>11, <1>log, <1>12
     DEF Next, Startup

(* Hot upgrading is atomic: whatever crashes, power losses, failed or      *)
(* concurrent attempts come in between, kernel and configuration change    *)
(* together, to those of one package that passed every check against what  *)
(* was running; the handler implements the abstract appliance.             *)
THEOREM AtomicUpgrade == Spec => ApplianceSpec
<1>1. Init => ApplianceView!Init
  BY ViewInit
<1>2. IInv /\ IInv' /\ [Next]_vars => [ApplianceView!Next]_(ApplianceView!applianceVars)
  BY ViewNext DEF AStep
<1>3. QED
  BY <1>1, <1>2, Invariant, PTL DEF Spec, ApplianceSpec, ApplianceView!Spec
=============================================================================
