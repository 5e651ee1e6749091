----------------------------- MODULE HotUpgrade -----------------------------
(***************************************************************************)
(* Hot upgrade and recovery of the appliance: the boot of homegw-init      *)
(* (main.go, bootstrap.go), its kexec handler (http.go), the emergency     *)
(* kexec server init2 runs after a crash (emergency_kexec.go), the package *)
(* checks (kexec/lib.go) and the on-chip RAM that carries the new          *)
(* configuration across kexec (ocram.go), with the SSH supervisor the      *)
(* handler stops on its way (SshSupervisor.tla).                           *)
(*                                                                         *)
(* Two handler calls can only overlap outside globalKexecLock; the call    *)
(* that holds it takes one step per system call, so that crashes, the SSH  *)
(* goroutines and the disk opener interleave with it.  Log calls of        *)
(* homegw-init wait while another goroutine holds the lock of zap's output *)
(* in a Sync, which waits for Kafka.  The pkills only end in one of two    *)
(* ways here; ProcScan.tla has the processes.                              *)
(***************************************************************************)
EXTENDS SshSupervisor

CONSTANTS
  Requests,       \* concurrent kexec calls
  Packages,       \* uploads, see PackageType
  SerialConfigs,  \* configurations the operator may send over /dev/ttyGS0
  FlashKernel,    \* the kernel image booted on power-up
  Keys,           \* 32-byte kexec encryption keys
  NumDisks,       \* Len(config.Disks)
  DevicesFail,    \* may /dev/mem, /dev/ttyGS0 or the key file fail during the boot?
  MaxBoots,       \* BOUND: boots
  NoKey,          \* a kexec_encryption_key that is not 32 bytes of base64
  None

(* A configuration, by what decides its fate: does it parse as InitConfig, *)
(* its upgrade key, whether it has an ssh_server (with a host key that     *)
(* decodes or not) and an api_server.                                      *)
ConfigType ==
  [version: Nat, parses: BOOLEAN, key: Keys \cup {NoKey},
   ssh: {"none", "ok", "bad"}, api: BOOLEAN]

(* An upload.  A kernel image is named by the build time of the            *)
(* homegw-init in it; 0 is an image of length zero.                        *)
PackageType ==
  [sig: {"pgp", "cosign"}, valid: BOOLEAN, time: Nat, key: Keys, wellformed: BOOLEAN,
   kernel: Nat, fits: BOOLEAN, config: ConfigType]

ASSUME UpgradeAssumption ==
  /\ Packages \in SUBSET PackageType
  /\ SerialConfigs \in SUBSET ConfigType
  /\ FlashKernel \in Nat /\ NumDisks \in Nat /\ MaxBoots \in Nat
  /\ DevicesFail \in BOOLEAN
  /\ NoKey \notin Keys /\ None \notin Keys
  /\ None \notin Requests /\ None \notin PackageType /\ None \notin ConfigType

VARIABLES
  mode,         \* "load", "serial", "init", "up", "emergency" or "dead"
  image,        \* the running kernel image
  config,       \* the configuration homegw-init runs with, or None
  keyFile,      \* /kexec-encryption-key.txt, or None
  ocram,        \* [hash, data]: whose hash and whose text it holds, or None
  loaded,       \* the package whose kernel kexec_load has staged, or None
  boots,
  opened,       \* disks the opener goroutine has dealt with
  mounted,      \* disks that are mounted
  lock,         \* globalKexecLock: the call holding it, or None
  pc,           \* pc[r]: where call r is
  pkg,          \* pkg[r]: its upload
  flush,        \* the goroutine of http.go:431-437, see Flush
  KexecSshKill  \* is ApiServer.KexecSshKill non-nil?

bootVars  == <<mode, image, config, keyFile, boots>>
diskVars  == <<opened, mounted>>
kexecVars == <<lock, pc, pkg, KexecSshKill>>
logVars   == <<log, flush>>
vars == <<sshVars, bootVars, ocram, loaded, diskVars, kexecVars, logVars>>

Erased == [hash |-> None, data |-> None]

TypeOK ==
  /\ SshTypeOK
  /\ mode \in {"load", "serial", "init", "up", "emergency", "dead"}
  /\ image \in Nat
  /\ config \in ConfigType \cup {None}
  /\ keyFile \in Keys \cup {NoKey, None}
  /\ ocram \in [hash: ConfigType \cup {None}, data: ConfigType \cup {None}]
  /\ loaded \in Packages \cup {None}
  /\ boots \in 0..MaxBoots
  /\ opened \in 0..NumDisks /\ mounted \in SUBSET (1..NumDisks)
  /\ lock \in Requests \cup {None}
  /\ pc \in [Requests -> {"idle", "read", "ssh", "join", "pkill", "pkill2", "umount", "umounted",
                          "save", "save2", "load", "loaded", "sync", "reboot", "fatal", "error"}]
  /\ pkg \in [Requests -> Packages \cup {None}]
  /\ KexecSshKill \in BOOLEAN
  /\ log \in {"free", "fatal", "flush"}
  /\ flush \in {"none", "lock", "sync", "reply", "done"}

Init ==
  /\ SshInit
  /\ mode = "load" /\ image = FlashKernel
  /\ config = None /\ keyFile = None
  /\ ocram = Erased /\ loaded = None
  /\ boots = 0
  /\ opened = 0 /\ mounted = {}
  /\ lock = None
  /\ pc = [r \in Requests |-> "idle"]
  /\ pkg = [r \in Requests |-> None]
  /\ KexecSshKill = FALSE
  /\ log = "free" /\ flush = "none"

(* Every goroutine of the handlers is gone (their process ended).          *)
NoCalls ==
  /\ lock' = None
  /\ pc' = [r \in Requests |-> "idle"]
  /\ pkg' = [r \in Requests |-> None]
  /\ KexecSshKill' = FALSE
  /\ log' = "free" /\ flush' = "none"

(* A kernel starts: nothing survives in RAM.                               *)
Boot(kernel) ==
  /\ boots < MaxBoots
  /\ boots' = boots + 1
  /\ mode' = "load" /\ image' = kernel
  /\ config' = None /\ keyFile' = None
  /\ loaded' = None
  /\ opened' = 0 /\ mounted' = {}
  /\ SshReset
  /\ NoCalls

-----------------------------------------------------------------------------
(* homegw-init, from loadConfig to the API server.                         *)

(* Mutant: the hash is not compared.                                       *)
OcramConfig_NoHash == ocram.data

(* writeConfigToOcram stores hash and text separately; a torn pair fails   *)
(* the hash comparison of loadConfigFromOcram.                             *)
OcramConfig == IF ocram.hash = ocram.data THEN ocram.data ELSE None

(* The main process ends; init2 goes on with `homegw-init emergency-kexec`,*)
(* which ends too, and PID 1 with it, unless the key file holds a key.     *)
Crash ==
  /\ mode' = IF mode # "emergency" /\ keyFile \in Keys THEN "emergency" ELSE "dead"
  /\ SshOrphaned
  /\ NoCalls
  /\ UNCHANGED <<image, config, keyFile, boots, ocram, loaded, diskVars>>

(* json.Unmarshal of the whole configuration; main then writes the key     *)
(* file, and ignores a failure.  A configuration that does not parse ends  *)
(* the process before.                                                     *)
Use(c) ==
  /\ config' = c
  /\ \/ /\ c.parses
        /\ mode' = "init"
        /\ keyFile' = c.key \/ (DevicesFail /\ keyFile' = None)
     \/ /\ ~c.parses
        /\ mode' = "dead" /\ UNCHANGED keyFile
  /\ UNCHANGED <<sshVars, image, boots, loaded, diskVars, kexecVars, logVars>>

(* dumpAndEraseOcram and the hash check.                                   *)
LoadOcram ==
  /\ mode = "load"
  /\ ocram' = Erased
  /\ \/ OcramConfig # None /\ Use(OcramConfig)
     \/ /\ OcramConfig = None
        /\ mode' = "serial"
        /\ UNCHANGED <<sshVars, image, config, keyFile, boots, loaded, diskVars, kexecVars, logVars>>

(* loadConfigFromGs0 returns.                                              *)
LoadSerial(c) ==
  /\ mode = "serial"
  /\ Use(c)
  /\ UNCHANGED ocram

(* The end of main: the SSH server and the API server are started.         *)
StartServers ==
  /\ mode = "init"
  /\ mode' = "up"
  /\ IF config.ssh = "none" THEN NoServer ELSE Spawn(config.ssh = "ok")
  /\ KexecSshKill' = config.api
  /\ UNCHANGED <<image, config, keyFile, boots, ocram, loaded, diskVars, lock, pc, pkg, logVars>>

(* Mutant: one iteration too many.                                         *)
OpenDisk_OffByOne ==
  /\ mode \in {"init", "up"}
  /\ opened <= NumDisks
  /\ opened' = opened + 1
  /\ mounted' = mounted \cup {opened + 1}
  /\ UNCHANGED <<sshVars, bootVars, ocram, loaded, kexecVars, logVars>>

(* The goroutine that opens and mounts the disks one after the other.      *)
OpenDisk ==
  /\ mode \in {"init", "up"}
  /\ opened < NumDisks
  /\ opened' = opened + 1
  /\ mounted' \in {mounted, mounted \cup {opened + 1}}
  /\ UNCHANGED <<sshVars, bootVars, ocram, loaded, kexecVars, logVars>>

(* homegw-init ends at once: a device of loadConfig fails, or later any    *)
(* goroutine panics.                                                       *)
MainFails ==
  /\ mode \in {"init", "up"} \/ (DevicesFail /\ mode \in {"load", "serial"})
  /\ Crash

(* A goroutine calls logger.Fatal (rt-control's, when homegw-rt has ended):*)
(* Fatal syncs the output, with its lock held, and ends the process only   *)
(* when Kafka has everything.                                              *)
FatalSyncs ==
  /\ mode \in {"init", "up"} /\ CanLog
  /\ log' = "fatal"
  /\ UNCHANGED <<sshVars, bootVars, ocram, loaded, diskVars, kexecVars, flush>>

FatalExits ==
  /\ log = "fatal"
  /\ Crash

(* Power loss: the on-chip RAM comes back empty or garbled; the boot ROM   *)
(* uses it as well.                                                        *)
PowerLoss ==
  /\ Boot(FlashKernel)
  /\ ocram' \in {Erased, [ocram EXCEPT !.hash = None]}

-----------------------------------------------------------------------------
(* The kexec handlers: ApiServer.kexec while homegw-init is up, the        *)
(* handler of emergencyKexecEntry after a crash.                           *)

KexecServed ==
  \/ mode = "up" /\ config.api /\ config.key \in Keys
  \/ mode = "emergency"

(* The version and the key passed to Unseal.                               *)
CurrentVersion == IF mode = "emergency" THEN 1 ELSE config.version
UpgradeKey     == IF mode = "emergency" THEN keyFile ELSE config.key

(* kexec.Unseal: signature (PGP, or cosign with a transparency log entry   *)
(* not older than the running homegw-init), decryption, structure, version.*)
DecryptAndVerify(p) ==
  /\ p.valid
  /\ p.sig = "cosign" => p.time >= image
  /\ p.key = UpgradeKey

Unseal(p) ==
  /\ DecryptAndVerify(p)
  /\ p.wellformed
  /\ p.config.version >= CurrentVersion

(* Mutant: two calls at a time.                                            *)
TryLock_Always(r) == lock' = r

(* globalKexecLock.TryLock succeeds; otherwise the call is refused (409).  *)
TryLock(r) == lock = None /\ lock' = r

Accept(r, p) ==
  /\ KexecServed /\ boots < MaxBoots
  /\ pc[r] = "idle"
  /\ TryLock(r)
  /\ pc' = [pc EXCEPT ![r] = "read"]
  /\ pkg' = [pkg EXCEPT ![r] = p]
  /\ UNCHANGED <<sshVars, bootVars, ocram, loaded, diskVars, KexecSshKill, logVars>>

(* Return, or a panic the HTTP server recovers: the lock is released.      *)
Leave(r) ==
  /\ lock' = None
  /\ pc' = [pc EXCEPT ![r] = "idle"]
  /\ pkg' = [pkg EXCEPT ![r] = None]
  /\ UNCHANGED KexecSshKill

Goto(r, l) ==
  /\ pc' = [pc EXCEPT ![r] = l]
  /\ UNCHANGED <<lock, pkg, KexecSshKill>>

(* A step of a call that only calls, and goes on at l.                     *)
GoesOn(r, l) ==
  /\ Goto(r, l)
  /\ UNCHANGED <<sshVars, bootVars, ocram, loaded, diskVars, logVars>>

(* The emergency server logs to stderr.                                    *)
LogReturns == mode = "emergency" \/ CanLog

(* The body is too big, too short, or has no length.                       *)
ReadFails(r) ==
  /\ pc[r] = "read"
  /\ Leave(r)
  /\ UNCHANGED <<sshVars, bootVars, ocram, loaded, diskVars, logVars>>

(* The body has been read; Unseal logs who signed it.                      *)
ReadAndUnseal(r) ==
  /\ pc[r] = "read"
  /\ \/ /\ Unseal(pkg[r]) /\ LogReturns
        /\ GoesOn(r, IF mode = "up" THEN "ssh" ELSE "pkill")
     \/ ~Unseal(pkg[r]) /\ GoesOn(r, "error")

(* An error is logged and answered, with the lock held.                    *)
ReplyError(r) ==
  /\ pc[r] = "error" /\ LogReturns
  /\ Leave(r)
  /\ UNCHANGED <<sshVars, bootVars, ocram, loaded, diskVars, logVars>>

(* Mutant: the channel is not forgotten after the close.                   *)
KillSsh_KeepsChannel(r) ==
  /\ pc[r] = "ssh"
  /\ IF kill THEN Leave(r) ELSE Goto(r, "join")
  /\ kill' = TRUE
  /\ UNCHANGED <<sup, killCompletion, gen, dropbear, killers, stop,
                 bootVars, ocram, loaded, diskVars, logVars>>

(* Mutant: the handler does not wait for the supervisor.                   *)
KillSsh_NoJoin(r) ==
  /\ pc[r] = "ssh"
  /\ pc' = [pc EXCEPT ![r] = "pkill"]
  /\ KexecSshKill' = FALSE /\ kill' = TRUE
  /\ UNCHANGED <<sup, killCompletion, gen, dropbear, killers, stop, lock, pkg,
                 bootVars, ocram, loaded, diskVars, logVars>>

(* close(KexecSshKill), once.                                              *)
KillSsh(r) ==
  /\ pc[r] = "ssh"
  /\ \/ /\ KexecSshKill
        /\ KexecSshKill' = FALSE /\ kill' = TRUE
        /\ pc' = [pc EXCEPT ![r] = "join"]
        /\ UNCHANGED <<sup, killCompletion, gen, dropbear, killers, stop, lock, pkg,
                       bootVars, ocram, loaded, diskVars, logVars>>
     \/ ~KexecSshKill /\ GoesOn(r, "pkill")

(* <-KexecSshKillCompletion                                                *)
JoinSsh(r) ==
  /\ pc[r] = "join"
  /\ killCompletion
  /\ GoesOn(r, "pkill")

(* The loop of pkills: it is left after two in a row that report nothing   *)
(* killed.  What they report is ProcScan's; nothing is assumed here.       *)
PkillFinds(r) ==
  /\ pc[r] \in {"pkill", "pkill2"}
  /\ GoesOn(r, "pkill")

PkillFindsNone(r) ==
  /\ pc[r] \in {"pkill", "pkill2"}
  /\ GoesOn(r, IF pc[r] = "pkill" THEN "pkill2" ELSE "umount")

(* "killed all user processes" is logged.  Then /vroot/tmp and, in the     *)
(* main handler only, every disk is unmounted; errors (a disk that is busy *)
(* or not mounted) are ignored.  What became of a disk is logged, and an   *)
(* error with /vroot/tmp.                                                  *)
Unmount(r) ==
  /\ pc[r] = "umount" /\ LogReturns
  /\ \E l \in {"umounted", "save"} :
       /\ mode = "up" /\ NumDisks > 0 => l = "umounted"
       /\ Goto(r, l)
  /\ mounted' \in IF mode = "up" THEN SUBSET mounted ELSE {mounted}
  /\ UNCHANGED <<sshVars, bootVars, ocram, loaded, opened, logVars>>

Unmounted(r) ==
  /\ pc[r] = "umounted" /\ LogReturns
  /\ GoesOn(r, "save")

(* writeConfigToOcram: too big, or /dev/mem fails; the hash; the text.     *)
SaveFails(r) ==
  /\ pc[r] = "save"
  /\ GoesOn(r, "error")

SaveHash(r) ==
  /\ pc[r] = "save"
  /\ pkg[r].fits
  /\ ocram' = [ocram EXCEPT !.hash = pkg[r].config]
  /\ Goto(r, "save2")
  /\ UNCHANGED <<sshVars, bootVars, loaded, diskVars, logVars>>

SaveText(r) ==
  /\ pc[r] = "save2"
  /\ ocram' = [ocram EXCEPT !.data = pkg[r].config]
  /\ Goto(r, "load")
  /\ UNCHANGED <<sshVars, bootVars, loaded, diskVars, logVars>>

(* kexec_load fails, or &pkg.Kernel[0] panics on an empty kernel image.    *)
LoadFails(r) ==
  /\ pc[r] = "load"
  /\ \/ /\ pkg[r].kernel = 0
        /\ Leave(r)
        /\ UNCHANGED <<sshVars, bootVars, ocram, loaded, diskVars, logVars>>
     \/ pkg[r].kernel # 0 /\ GoesOn(r, "error")

Load(r) ==
  /\ pc[r] = "load"
  /\ pkg[r].kernel # 0
  /\ loaded' = pkg[r]
  /\ Goto(r, "loaded")
  /\ UNCHANGED <<sshVars, bootVars, ocram, diskVars, logVars>>

(* "kexec image loaded, rebooting" is logged; the main handler starts a    *)
(* goroutine that flushes the logs.                                        *)
Loaded(r) ==
  /\ pc[r] = "loaded" /\ LogReturns
  /\ Goto(r, "sync")
  /\ flush' = IF mode = "up" THEN "lock" ELSE flush
  /\ UNCHANGED <<sshVars, bootVars, ocram, loaded, diskVars, log>>

(* The goroutine: Sync takes the lock of the output and gives it back when *)
(* Kafka has everything; the client gets its answer; syncCompletion.       *)
FlushLocks ==
  /\ flush = "lock" /\ CanLog
  /\ flush' = "sync" /\ log' = "flush"
  /\ UNCHANGED <<sshVars, bootVars, ocram, loaded, diskVars, kexecVars>>

FlushSynced ==
  /\ flush = "sync"
  /\ flush' = "reply" /\ log' = "free"
  /\ UNCHANGED <<sshVars, bootVars, ocram, loaded, diskVars, kexecVars>>

FlushDone ==
  /\ flush = "reply"
  /\ flush' = "done"
  /\ UNCHANGED <<sshVars, bootVars, ocram, loaded, diskVars, kexecVars, log>>

Flush == FlushLocks \/ FlushSynced \/ FlushDone

(* Mutant: the handler waits for the logs without a limit.                 *)
TimerFires_Never == FALSE

(* time.After(15 * time.Second), in the main handler only.                 *)
TimerFires == mode = "up"

(* The emergency server's Sync returns at once.                            *)
Sync(r) ==
  /\ pc[r] = "sync"
  /\ mode = "emergency" \/ flush = "done" \/ TimerFires
  /\ GoesOn(r, "reboot")

Reboot(r) ==
  /\ pc[r] = "reboot"
  /\ Boot(loaded.kernel)
  /\ UNCHANGED ocram

(* reboot(2) fails: logger.Fatal, which in homegw-init waits for the lock  *)
(* (the flush may hold it) and then, in FatalExits, for Kafka.             *)
RebootFails(r) ==
  /\ pc[r] = "reboot"
  /\ GoesOn(r, "fatal")

RebootFatal(r) ==
  /\ pc[r] = "fatal"
  /\ \/ mode = "emergency" /\ Crash
     \/ /\ mode = "up" /\ CanLog
        /\ log' = "fatal"
        /\ UNCHANGED <<sshVars, bootVars, ocram, loaded, diskVars, kexecVars, flush>>

-----------------------------------------------------------------------------
(* The rest of a call after the upload has been checked.                   *)
Handler(r) ==
  \/ KillSsh(r) \/ JoinSsh(r)
  \/ PkillFinds(r) \/ PkillFindsNone(r)
  \/ Unmount(r) \/ Unmounted(r)
  \/ SaveFails(r) \/ SaveHash(r) \/ SaveText(r)
  \/ LoadFails(r) \/ Load(r) \/ Loaded(r)
  \/ Sync(r) \/ Reboot(r) \/ RebootFails(r) \/ RebootFatal(r)
  \/ ReplyError(r)

Startup ==
  \/ LoadOcram \/ StartServers \/ OpenDisk
  \/ \E c \in SerialConfigs : LoadSerial(c)

SshStep(A) ==
  /\ mode # "dead"
  /\ A
  /\ UNCHANGED <<bootVars, ocram, loaded, diskVars, kexecVars, logVars>>

Next ==
  \/ Startup \/ MainFails \/ FatalSyncs \/ FatalExits \/ PowerLoss
  \/ Flush
  \/ \E r \in Requests : Handler(r) \/ ReadFails(r) \/ ReadAndUnseal(r)
  \/ \E r \in Requests, p \in Packages : Accept(r, p)
  \/ SshStep(Supervisor) \/ SshStep(DropbearDies)
  \/ \E g \in Gens : SshStep(Killer(g))

Spec == Init /\ [][Next]_vars

(* The Go scheduler runs every goroutine and the kernel every process; no  *)
(* assumption on clients (an upload may stall for ever, and so may the     *)
(* answer: no fairness for ReadAndUnseal and FlushDone), on crashes, on    *)
(* what users do, or on Kafka (FlushSynced and FatalExits).                *)
FairSpec ==
  /\ Spec
  /\ \A r \in Requests : WF_vars(Handler(r))
  /\ WF_vars(FlushLocks)
  /\ WF_vars(SshStep(Supervisor))
  /\ \A g \in Gens : WF_vars(SshStep(Killer(g)))

-----------------------------------------------------------------------------
(* Properties.                                                             *)

(* What an operator sees: the status of the appliance, and the             *)
(* configuration it runs with or has been left to start with.              *)
ViewStatus ==
  CASE mode \in {"load", "serial"} -> "starting"
    [] mode \in {"init", "up"} -> "running"
    [] mode = "emergency" -> "recovery"
    [] mode = "dead" -> "stopped"

ViewConfig ==
  CASE mode = "load" -> OcramConfig
    [] mode = "dead" -> None
    [] OTHER -> config

ViewKept == mode \in {"init", "up", "emergency"} /\ keyFile \in Keys

(* The upgrade is atomic: kernel and configuration always change together, *)
(* to those of one package that passed every check, whatever crashes,      *)
(* power losses, failed attempts or torn OCRAM writes come in between; a   *)
(* crash leads to recovery if the configuration has a usable key and the   *)
(* key file could be written.                                              *)
ApplianceView == INSTANCE Appliance WITH
  status <- ViewStatus, kernel <- image, config <- ViewConfig, kept <- ViewKept
ApplianceSpec == ApplianceView!Spec

(* Where the main handler is once it has dealt with SSH.                   *)
PastSsh(r) ==
  /\ mode = "up"
  /\ pc[r] \in {"pkill", "pkill2", "umount", "umounted", "save", "save2", "load", "loaded", "sync",
                "reboot", "fatal"}

(* Nobody restarts SSH behind the handler's back: when it goes on to kill  *)
(* the users' processes and to load the kernel, the supervisor has ended   *)
(* and no dropbear is left, wherever between two dropbears the kill met    *)
(* the supervisor, and in a second attempt as well.                        *)
SshStopped == \A r \in Requests : PastSsh(r) => sup = "exit" /\ dropbear = "none"

(* close(KexecSshKill) never panics: the channel the handler is about to   *)
(* close is open, also in a second attempt after a failed one.             *)
NoDoubleClose == \A r \in Requests : pc[r] = "ssh" /\ KexecSshKill => ~kill

(* Every Sync returns in the end.                                          *)
KafkaAnswers == WF_vars(FlushSynced) /\ WF_vars(FatalExits)

(* From some time on pkill finds nobody (see LoopEnds in ProcScan.tla).    *)
UsersStop == \A r \in Requests : <>[][~PkillFinds(r)]_vars

(* An upgrade whose package was accepted ends, in an error reply, a crash  *)
(* or a reboot, and does not hold globalKexecLock for ever, on three       *)
(* conditions none of which the code ensures: the users' processes can be  *)
(* killed, Kafka answers (a Fatal or a flush in progress holds up every    *)
(* log call), and Spawn has not failed (it then leaves killCompletion open *)
(* for good, ssh.go:46, and the handler waits for it, http.go:369).        *)
UpgradeEnds ==
  KafkaAnswers /\ UsersStop =>
    \A r \in Requests : pc[r] = "ssh" /\ sup # "failed" ~> pc[r] = "idle"

(* The 15 second timer: once the handler waits for the logs to be flushed, *)
(* reboot(2) is called ("fatal": it failed), even if Kafka never answers   *)
(* ("Blocking network requests should not block reboot", http.go:428; the  *)
(* log call before, http.go:426, may be held up by a Fatal in progress).   *)
LoadedReboots == \A r \in Requests : pc[r] = "sync" ~> pc[r] \in {"idle", "fatal"}

(* README: in the event of a crash (of homegw-init), the appliance is      *)
(* recoverable from the local network, by the emergency kexec server.      *)
Recoverable == [][mode # "dead" /\ mode' = "dead" => mode = "emergency"]_vars

(* README: recovery enforces all the checks of hot upgrades, among them    *)
(* "cannot rollback": the version the emergency server reboots into is not *)
(* older than the one that crashed.                                        *)
NoRollback ==
  [][mode = "emergency" /\ mode' = "load" /\ OcramConfig' # None
       => OcramConfig'.version >= config.version]_vars
=============================================================================
