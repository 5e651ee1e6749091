------------------------------ MODULE Startup ------------------------------
(***************************************************************************)
(* What main does with the configuration ConfigPath gives it (main.go):    *)
(* logging and homegw-rt, WireGuard interfaces (wireguard.go), network     *)
(* interfaces (netif.go), permissions and kernel parameters (config.go),   *)
(* then, beside it, the goroutine that opens the disks (disk/lib.go) and   *)
(* the one that starts the netboot server after them (netboot/lib.go), and *)
(* the servers.                                                            *)
(*                                                                         *)
(* Every command may fail, and a command on a disk may hang.  Keys are     *)
(* handed to commands in memory files (memfd/lib.go).  What a command does *)
(* to the network is not kept, only which ones are run.  A log call waits  *)
(* for zap's output lock, which Fatal keeps while it waits for Kafka (see  *)
(* LogSink.tla).                                                           *)
(***************************************************************************)
EXTENDS ConfigPath

CONSTANTS
  NumWg,     \* config.Wireguard
  NumPeers,  \* peers of each
  Netifs,    \* config.Netif: a sequence of modes
  NumDisks,  \* config.Disks
  Netboot    \* config.Netboot # nil

ASSUME StartupAssumption ==
  /\ NumWg \in Nat /\ NumPeers \in Nat /\ NumDisks \in Nat /\ Netboot \in BOOLEAN
  /\ Netifs \in Seq({"dhcp", "static", "other"})

VARIABLES
  step,        \* where main is, see Steps
  item,        \* the entry of the list it is at
  peer,        \* the peer of the WireGuard interface it is at
  fds,         \* memory files main has open
  log,         \* zap's output lock: "free", or "held" by a Fatal that waits for Kafka
  dhcp,        \* dhcp[i]: the goroutine of entry i: "none", "start", "run", "sleep"
  turn,        \* the disk its goroutine is at: 0 before it starts
  disk,        \* disk[d]: "closed", "key", "open", "mounted", "failed"
  dfds,        \* memory files the disk goroutine has open
  diskOpened,  \* the channel is closed
  netboot      \* "off", "waiting", "on", "failed"

Steps == {"prepare", "started", "fatal",
          "wg_link", "wg_key", "wg_setkey", "wg_peer", "wg_setpeer", "wg_peerlog", "wg_up",
          "wg_next", "netif", "if_link", "if_addr", "if_route", "if_resolv", "if_next",
          "settings", "servers", "complete", "ready"}

mainVars  == <<step, item, peer, fds>>
diskVars  == <<turn, disk, dfds, diskOpened, netboot>>
startVars == <<mainVars, log, dhcp, diskVars>>
vars      == <<configVars, startVars>>

NoClient == [i \in 1..Len(Netifs) |-> "none"]
NoDisk   == [d \in 1..NumDisks |-> "closed"]

Init ==
  /\ ConfigInit
  /\ step = "prepare" /\ item = 1 /\ peer = 1 /\ fds = 0
  /\ log = "free" /\ dhcp = NoClient
  /\ turn = 0 /\ disk = NoDisk /\ dfds = 0 /\ diskOpened = FALSE /\ netboot = "off"

InMain(s) == phase = "main" /\ step = s

(* A log call returns only while nobody keeps zap's lock.                  *)
CanLog == log = "free"

(* logger.Fatal ends the process, at once if Kafka is not configured; else *)
(* it keeps the lock until Kafka has all messages.                         *)
Fatal ==
  /\ CanLog
  /\ \/ phase' = "dead" /\ UNCHANGED log
     \/ log' = "held" /\ UNCHANGED phase
  /\ UNCHANGED <<file, text, ocram, rx, tx, hurt, saving, sends, damage, upgrades, clean, given, saved>>

MainFatal == Fatal /\ step' = "fatal" /\ UNCHANGED <<item, peer, fds, dhcp, diskVars>>

(* Logging, core dumps and homegw-rt: an error in any of them is fatal.    *)
Prepare ==
  /\ InMain("prepare")
  /\ \/ step' = "started" /\ UNCHANGED <<configVars, item, peer, fds, log, dhcp, diskVars>>
     \/ MainFatal

(* The hash of the program, whose error is fatal, and the first log call   *)
(* with homegw-rt running.                                                 *)
Started ==
  /\ InMain("started") /\ CanLog
  /\ \/ step' = "wg_link" /\ UNCHANGED <<configVars, item, peer, fds, log, dhcp, diskVars>>
     \/ MainFatal

(* NewRtControl's goroutine: homegw-rt ended.                              *)
RtExits ==
  /\ phase = "main" /\ step \notin {"prepare", "fatal"} /\ Fatal
  /\ UNCHANGED <<mainVars, dhcp, diskVars>>

(* No interface is set up before main has got to the first: until then     *)
(* Kafka cannot be reached.                                                *)
NoNetwork ==
  \/ step \in {"prepare", "started", "fatal",
               "wg_link", "wg_key", "wg_setkey", "wg_peer", "wg_setpeer", "wg_peerlog", "wg_up",
               "wg_next"}
  \/ step = "netif" /\ item = 1

(* Kafka has all messages, and a Fatal ends the process.                   *)
FatalExits ==
  /\ phase = "main" /\ log = "held" /\ ~NoNetwork
  /\ phase' = "dead"
  /\ UNCHANGED <<file, text, ocram, rx, tx, hurt, saving, sends, damage, upgrades, clean, given, saved>>
  /\ UNCHANGED startVars

-----------------------------------------------------------------------------
(* WireguardConfig.Apply: the error that ends it is logged by main, which  *)
(* goes on with the next interface.                                        *)

WgUnchanged == UNCHANGED <<configVars, log, dhcp, diskVars>>

WgLink ==
  /\ InMain("wg_link")
  /\ \/ item <= NumWg /\ step' \in {"wg_key", "wg_next"} /\ UNCHANGED item
     \/ item > NumWg /\ step' = "netif" /\ item' = 1
  /\ UNCHANGED <<peer, fds>> /\ WgUnchanged

(* A key's file; it is closed again when writing or sealing it fails.      *)
NewMemfdReadonlyBuffer(ok) == fds' = IF ok THEN fds + 1 ELSE fds

WgKey ==
  /\ InMain("wg_key")
  /\ \/ NewMemfdReadonlyBuffer(TRUE) /\ step' = "wg_setkey"
     \/ NewMemfdReadonlyBuffer(FALSE) /\ step' = "wg_next"
  /\ UNCHANGED <<item, peer>> /\ WgUnchanged

(* Mutant: when the key is refused its file stays open.                    *)
WgSetKey_Leaks ==
  /\ InMain("wg_setkey")
  /\ \/ fds' = fds - 1 /\ step' = "wg_peer"
     \/ step' = "wg_next" /\ UNCHANGED fds
  /\ UNCHANGED <<item, peer>> /\ WgUnchanged

WgSetKey ==
  /\ InMain("wg_setkey")
  /\ fds' = fds - 1 /\ step' \in {"wg_peer", "wg_next"}
  /\ UNCHANGED <<item, peer>> /\ WgUnchanged

WgPeer ==
  /\ InMain("wg_peer")
  /\ \/ peer > NumPeers /\ step' = "wg_up" /\ UNCHANGED fds
     \/ peer <= NumPeers /\ NewMemfdReadonlyBuffer(TRUE) /\ step' = "wg_setpeer"
     \/ peer <= NumPeers /\ NewMemfdReadonlyBuffer(FALSE) /\ step' = "wg_next"
  /\ UNCHANGED <<item, peer>> /\ WgUnchanged

(* A peer that cannot be set is logged and left out.                       *)
WgSetPeer ==
  /\ InMain("wg_setpeer")
  /\ fds' = fds - 1 /\ peer' = peer + 1 /\ step' \in {"wg_peer", "wg_peerlog"}
  /\ UNCHANGED item /\ WgUnchanged

WgPeerLogged ==
  /\ InMain("wg_peerlog") /\ CanLog
  /\ step' = "wg_peer"
  /\ UNCHANGED <<item, peer, fds>> /\ WgUnchanged

WgUp ==
  /\ InMain("wg_up") /\ step' = "wg_next"
  /\ UNCHANGED <<item, peer, fds>> /\ WgUnchanged

(* The end of Apply is logged, well or ill.                                *)
WgNext ==
  /\ InMain("wg_next") /\ CanLog
  /\ step' = "wg_link" /\ item' = item + 1 /\ peer' = 1
  /\ UNCHANGED fds /\ WgUnchanged

-----------------------------------------------------------------------------
(* NetifConfig.Start.                                                      *)

IfUnchanged == UNCHANGED <<configVars, peer, fds, log, diskVars>>

(* An entry is started, unless there is no pipe for its log or its mode is *)
(* unknown.  A DHCP entry gets a goroutine.                                *)
NetifStart ==
  /\ InMain("netif") /\ item <= Len(Netifs)
  /\ \/ step' = "if_next" /\ UNCHANGED dhcp
     \/ /\ Netifs[item] = "dhcp" /\ step' = "if_next"
        /\ dhcp' = [dhcp EXCEPT ![item] = "start"]
     \/ Netifs[item] = "static" /\ step' = "if_link" /\ UNCHANGED dhcp
  /\ UNCHANGED item /\ IfUnchanged

(* Start returns: how it ended is logged.                                  *)
NextIf ==
  /\ InMain("if_next") /\ CanLog
  /\ item' = item + 1 /\ step' = "netif"
  /\ UNCHANGED dhcp /\ IfUnchanged

NetifsDone ==
  /\ InMain("netif") /\ item > Len(Netifs)
  /\ step' = "settings" /\ item' = 1
  /\ UNCHANGED dhcp /\ IfUnchanged

(* A command of a static entry succeeds, or ends the entry.                *)
IfCommand(at, then) ==
  /\ InMain(at) /\ step' \in {then, "if_next"}
  /\ UNCHANGED <<item, dhcp>> /\ IfUnchanged

IfLink  == IfCommand("if_link", "if_addr")
IfAddr  == IfCommand("if_addr", "if_route")
IfRoute == IfCommand("if_route", "if_resolv")

(* /etc/resolv.conf is truncated and written, the last thing to do.        *)
IfResolv ==
  /\ InMain("if_resolv") /\ step' = "if_next"
  /\ UNCHANGED <<item, dhcp>> /\ IfUnchanged

DhcpUnchanged == UNCHANGED <<configVars, mainVars, log, diskVars>>

(* The goroutine of a DHCP entry runs udhcpc again and again.              *)
DhcpRuns(i) ==
  /\ phase = "main" /\ dhcp[i] = "start"
  /\ dhcp' = [dhcp EXCEPT ![i] = "run"]
  /\ DhcpUnchanged

DhcpEnds(i) ==
  /\ phase = "main" /\ dhcp[i] = "run" /\ CanLog
  /\ dhcp' = [dhcp EXCEPT ![i] = "sleep"]
  /\ DhcpUnchanged

DhcpSlept(i) ==
  /\ phase = "main" /\ dhcp[i] = "sleep"
  /\ dhcp' = [dhcp EXCEPT ![i] = "start"]
  /\ DhcpUnchanged

-----------------------------------------------------------------------------
(* Mutant: the disk goroutine's close is not deferred.                     *)
Settings_NotDeferred ==
  /\ InMain("settings") /\ CanLog
  /\ step' = "servers" /\ turn' = 1 /\ netboot' = "waiting" /\ diskOpened' = TRUE
  /\ UNCHANGED <<configVars, item, peer, fds, log, dhcp, disk, dfds>>

(* FsPermissionConfig.Apply and SysctlConfig.Apply log what they do, also  *)
(* an error.  Then the disk and netboot goroutines are started.            *)
Settings ==
  /\ InMain("settings") /\ CanLog
  /\ step' = "servers" /\ turn' = 1 /\ netboot' = "waiting"
  /\ UNCHANGED <<configVars, item, peer, fds, log, dhcp, disk, dfds, diskOpened>>

DiskDone(d) == disk[d] \in {"mounted", "failed"}
DisksDone   == \A d \in 1..NumDisks : DiskDone(d)

(* Mutant: main waits for the disks.                                       *)
StartServers_WaitDisks ==
  /\ InMain("servers") /\ diskOpened
  /\ step' = "complete"
  /\ UNCHANGED <<configVars, item, peer, fds, log, dhcp, diskVars>>

(* The SSH server and the API server; an error of either is logged.        *)
StartServers ==
  /\ InMain("servers")
  /\ step' = "complete"
  /\ UNCHANGED <<configVars, item, peer, fds, log, dhcp, diskVars>>

(* "initialization completed".                                             *)
Complete ==
  /\ InMain("complete") /\ CanLog
  /\ step' = "ready"
  /\ UNCHANGED <<configVars, item, peer, fds, log, dhcp, diskVars>>

(* The disk goroutine opens one disk after the other (DiskConfig.Open).    *)
DiskStep(from, to, files) ==
  /\ phase = "main" /\ turn \in 1..NumDisks /\ disk[turn] = from
  /\ disk' = [disk EXCEPT ![turn] = to] /\ dfds' = dfds + files
  /\ UNCHANGED <<configVars, mainVars, log, dhcp, turn, diskOpened, netboot>>

DiskKey  == DiskStep("closed", "key", 1) \/ DiskStep("closed", "failed", 0)
LuksOpen == DiskStep("key", "open", 0) \/ DiskStep("key", "failed", -1)

(* A mounted disk is logged before Open closes its key file.               *)
Mount ==
  \/ CanLog /\ DiskStep("open", "mounted", -1)
  \/ DiskStep("open", "failed", -1)

(* The next iteration; an error of the last is logged.                     *)
NextDisk ==
  /\ phase = "main" /\ turn \in 1..NumDisks
  /\ \/ disk[turn] = "mounted"
     \/ disk[turn] = "failed" /\ CanLog
  /\ turn' = turn + 1
  /\ UNCHANGED <<configVars, mainVars, log, dhcp, disk, dfds, diskOpened, netboot>>

(* After the loop the goroutine logs, ends, and so closes diskOpened.      *)
DisksOpened ==
  /\ phase = "main" /\ turn = NumDisks + 1 /\ ~diskOpened /\ CanLog
  /\ diskOpened' = TRUE
  /\ UNCHANGED <<configVars, mainVars, log, dhcp, turn, disk, dfds, netboot>>

(* diskOpened is closed: the TFTP server starts, and may fail.             *)
NetbootStarts ==
  /\ phase = "main" /\ netboot = "waiting" /\ diskOpened /\ Netboot
  /\ netboot' \in {"on", "failed"}
  /\ UNCHANGED <<configVars, mainVars, log, dhcp, turn, disk, dfds, diskOpened>>

-----------------------------------------------------------------------------
ConfigStep == ConfigNext /\ UNCHANGED startVars

(* The API server serves as soon as it is started; the handler logs.       *)
UploadStep ==
  /\ step \in {"complete", "ready"} /\ CanLog
  /\ \E c \in Configs : Upload(c)
  /\ UNCHANGED startVars

RestartStep ==
  /\ Restart
  /\ step' = "prepare" /\ item' = 1 /\ peer' = 1 /\ fds' = 0
  /\ log' = "free" /\ dhcp' = NoClient
  /\ turn' = 0 /\ disk' = NoDisk /\ dfds' = 0 /\ diskOpened' = FALSE /\ netboot' = "off"

MainStep ==
  \/ Prepare \/ Started
  \/ WgLink \/ WgKey \/ WgSetKey \/ WgPeer \/ WgSetPeer \/ WgPeerLogged \/ WgUp
  \/ WgNext
  \/ NetifStart \/ NextIf \/ NetifsDone \/ IfLink \/ IfAddr \/ IfRoute \/ IfResolv
  \/ Settings \/ StartServers \/ Complete

Next ==
  \/ ConfigStep \/ UploadStep \/ RestartStep \/ MainStep
  \/ RtExits \/ FatalExits
  \/ \E i \in 1..Len(Netifs) : DhcpRuns(i) \/ DhcpEnds(i) \/ DhcpSlept(i)
  \/ DiskKey \/ LuksOpen \/ Mount \/ NextDisk \/ DisksOpened
  \/ NetbootStarts

(* main runs, and the commands it waits for end; a disk's may hang.  Its   *)
(* log calls return only if the lock is free: that is in their guards.     *)
Spec     == Init /\ [][Next]_vars
FairSpec == Spec /\ WF_vars(MainStep)

-----------------------------------------------------------------------------
TypeOK ==
  /\ ConfigTypeOK
  /\ step \in Steps /\ item \in 1..(1 + NumWg + Len(Netifs)) /\ peer \in 1..(NumPeers + 1)
  /\ fds \in {0, 1} /\ dfds \in {0, 1} /\ log \in {"free", "held"}
  /\ dhcp \in [1..Len(Netifs) -> {"none", "start", "run", "sleep"}]
  /\ turn \in 0..(NumDisks + 1) /\ diskOpened \in BOOLEAN
  /\ disk \in [1..NumDisks -> {"closed", "key", "open", "mounted", "failed"}]
  /\ netboot \in {"off", "waiting", "on", "failed"}

(* Whatever fails on the way, no file with a key is left open: main has    *)
(* one only while it sets it (wireguard.go:42-75), and the disk goroutine  *)
(* only while it opens a disk (disk/lib.go:30).                            *)
KeyFilesClosed ==
  /\ fds = IF step \in {"wg_setkey", "wg_setpeer"} THEN 1 ELSE 0
  /\ dfds = Cardinality({d \in 1..NumDisks : disk[d] \in {"key", "open"}})

(* The netboot server, whose files may be on a disk, starts when every     *)
(* disk has been mounted or given up: the channel it waits for is closed   *)
(* by the end of the disk goroutine alone (main.go:88-110).                *)
NetbootAfterDisks == netboot \in {"on", "failed"} => DisksDone

(* main completes its initialization, with SSH and API servers, or ends    *)
(* with a fatal error, although any command may fail and the disks may     *)
(* hang (main.go:42-160), if Kafka answers when it can be reached.  There  *)
(* is one way to do neither: before main has set up the network a Fatal    *)
(* waits for a Kafka that cannot be reached (kafka-sink/lib.go:153); and   *)
(* behind that of rt-control/lib.go:62 main waits at its next log call.    *)
Initialized ==
  WF_vars(FatalExits) =>
    (phase = "main" ~> step = "ready" \/ phase # "main" \/ (log = "held" /\ NoNetwork))
=============================================================================
