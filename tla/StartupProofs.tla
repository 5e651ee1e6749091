---------------------------- MODULE StartupProofs ----------------------------
(***************************************************************************)
(* Proofs about Startup, for every configuration: its key files, the       *)
(* channel the netboot server waits for and, with ConfigPathProofs, where  *)
(* main's configuration comes from.                                        *)
(***************************************************************************)
EXTENDS Startup, ConfigPathProofs, FiniteSetTheorems

EarlySteps == {"prepare", "started", "fatal"}
WgSteps    == {"wg_key", "wg_setkey", "wg_peer", "wg_setpeer", "wg_peerlog", "wg_up", "wg_next"}
IfSteps    == {"if_link", "if_addr", "if_route", "if_resolv", "if_next"}
LastSteps  == {"servers", "complete", "ready"}

(* Where main is, in which list, and whether it has a key file open.       *)
MainInv ==
  /\ step \in EarlySteps \cup {"wg_link"} \cup WgSteps \cup {"netif"} \cup IfSteps
              \cup {"settings"} \cup LastSteps
  /\ item \in Nat /\ item >= 1
  /\ step \in EarlySteps \cup {"settings"} \cup LastSteps => item = 1
  /\ step = "wg_link" => item <= NumWg + 1
  /\ step \in WgSteps => item <= NumWg
  /\ step = "netif" => item <= Len(Netifs) + 1
  /\ step \in IfSteps => item <= Len(Netifs)
  /\ peer \in 1..(NumPeers + 1) /\ (step = "wg_setpeer" => peer <= NumPeers)
  /\ fds = IF step \in {"wg_setkey", "wg_setpeer"} THEN 1 ELSE 0

(* The lock and the DHCP goroutines.                                       *)
SideInv ==
  /\ log \in {"free", "held"}
  /\ dhcp \in [1..Len(Netifs) -> {"none", "start", "run", "sleep"}]

(* The disk goroutine is done with the disks before its turn and has not   *)
(* touched those after it; its channel is closed only after the last.      *)
Busy == turn \in 1..NumDisks /\ disk[turn] \in {"key", "open"}

DiskInv ==
  /\ turn \in 0..(NumDisks + 1) /\ diskOpened \in BOOLEAN
  /\ disk \in [1..NumDisks -> {"closed", "key", "open", "mounted", "failed"}]
  /\ netboot \in {"off", "waiting", "on", "failed"}
  /\ \A d \in 1..NumDisks : d < turn => DiskDone(d)
  /\ \A d \in 1..NumDisks : d > turn => disk[d] = "closed"
  /\ dfds = IF Busy THEN 1 ELSE 0
  /\ diskOpened => turn = NumDisks + 1
  /\ netboot \in {"on", "failed"} => diskOpened

(* The disk goroutine is started when main comes to the servers.           *)
OrderInv == step \notin LastSteps => turn = 0

StartInv == MainInv /\ SideInv /\ DiskInv /\ OrderInv

IInv == ConfigInv /\ StartInv

-----------------------------------------------------------------------------
LEMMA Lists == Len(Netifs) \in Nat /\ NumWg \in Nat /\ NumPeers \in Nat /\ NumDisks \in Nat
  BY StartupAssumption, LenProperties

(* Each part depends on the variables of its own component.                *)
LEMMA MainSame == ASSUME MainInv, UNCHANGED mainVars PROVE MainInv'
  BY DEF MainInv, mainVars

LEMMA DiskSame == ASSUME DiskInv, UNCHANGED diskVars PROVE DiskInv'
<1>1. UNCHANGED turn /\ UNCHANGED disk /\ UNCHANGED dfds /\ UNCHANGED diskOpened /\ UNCHANGED netboot
  BY DEF diskVars
<1>2. diskOpened' \in BOOLEAN
  BY <1>1, Zenon DEF DiskInv
<1>3. QED
  BY <1>1, <1>2 DEF DiskInv, Busy, DiskDone

LEMMA StartSame == ASSUME StartInv, UNCHANGED startVars PROVE StartInv'
<1>1. UNCHANGED mainVars /\ UNCHANGED diskVars /\ UNCHANGED <<step, log, dhcp, turn>>
  BY DEF startVars, mainVars, diskVars
<1>2. QED
  BY <1>1, MainSame, DiskSame DEF StartInv, SideInv, OrderInv

(* main begins, at the first start and at every other.                     *)
LEMMA FreshStart ==
  ASSUME step = "prepare", item = 1, peer = 1, fds = 0, log = "free", dhcp = NoClient,
         turn = 0, disk = NoDisk, dfds = 0, diskOpened = FALSE, netboot = "off"
  PROVE  StartInv
<1>1. MainInv
  BY Lists DEF MainInv, EarlySteps, WgSteps, IfSteps, LastSteps
<1>2. SideInv
  BY DEF SideInv, NoClient
<1>3. DiskInv
  <2>1. diskOpened \in BOOLEAN /\ ~diskOpened
    BY Zenon
  <2>2. ~Busy /\ disk \in [1..NumDisks -> {"closed", "key", "open", "mounted", "failed"}]
    BY Lists DEF Busy, NoDisk
  <2>3. QED
    BY <2>1, <2>2, Lists DEF DiskInv, NoDisk
<1>4. QED
  BY <1>1, <1>2, <1>3 DEF StartInv, OrderInv

LEMMA RestartFresh == ASSUME RestartStep PROVE StartInv'
<1>1. MainInv'
  BY Lists DEF RestartStep, MainInv, EarlySteps, WgSteps, IfSteps, LastSteps
<1>2. SideInv'
  BY DEF RestartStep, SideInv, NoClient
<1>3. DiskInv'
  <2>1. diskOpened' \in BOOLEAN /\ ~diskOpened'
    BY Zenon DEF RestartStep
  <2>2. turn' = 0 /\ disk' = NoDisk /\ dfds' = 0 /\ netboot' = "off"
    BY DEF RestartStep
  <2>3. ~Busy' /\ disk' \in [1..NumDisks -> {"closed", "key", "open", "mounted", "failed"}]
    BY <2>2, Lists DEF Busy, NoDisk
  <2>4. QED
    BY <2>1, <2>2, <2>3, Lists DEF DiskInv, NoDisk
<1>4. OrderInv'
  BY DEF RestartStep, OrderInv
<1>5. QED
  BY <1>1, <1>2, <1>3, <1>4 DEF StartInv

-----------------------------------------------------------------------------
(* main, before the disks.                                                 *)

(* A step of main that starts nothing beside it.                           *)
LEMMA MainAlone ==
  ASSUME StartInv, MainInv', SideInv', UNCHANGED diskVars,
         step \in LastSteps <=> step' \in LastSteps
  PROVE  StartInv'
<1>1. UNCHANGED turn
  BY DEF diskVars
<1>2. QED
  BY <1>1, DiskSame DEF StartInv, OrderInv

LEMMA FatalKeeps ==
  ASSUME StartInv, Fatal PROVE log' \in {"free", "held"}
  BY DEF StartInv, SideInv, Fatal

LEMMA PrepareKeeps == ASSUME StartInv, Prepare \/ Started PROVE StartInv'
<1>1. MainInv /\ SideInv /\ step \in EarlySteps
  BY DEF StartInv, Prepare, Started, InMain, EarlySteps
<1>2. step' \in {"started", "wg_link", "fatal"} /\ UNCHANGED <<item, peer, fds, dhcp>> /\ UNCHANGED diskVars
  BY DEF Prepare, Started, MainFatal
<1>3. step \in {"prepare", "started"}
  BY DEF Prepare, Started, InMain
<1>4. MainInv'
  BY <1>1, <1>2, <1>3, Lists DEF MainInv, EarlySteps, WgSteps, IfSteps, LastSteps
<1>5. log' \in {"free", "held"}
  BY <1>1, FatalKeeps DEF Prepare, Started, MainFatal, SideInv
<1>6. SideInv'
  BY <1>1, <1>2, <1>5 DEF SideInv
<1>7. QED
  BY <1>2, <1>3, <1>4, <1>6, MainAlone DEF LastSteps

LEMMA WgStepsKeep ==
  ASSUME StartInv, WgLink \/ WgKey \/ WgSetKey \/ WgPeer \/ WgSetPeer \/ WgPeerLogged \/ WgUp \/ WgNext
  PROVE  StartInv'
<1> USE DEF WgLink, WgKey, WgSetKey, WgPeer, WgSetPeer, WgPeerLogged, WgUp, WgNext, InMain, NewMemfdReadonlyBuffer
<1>0. MainInv /\ SideInv
  BY DEF StartInv
<1>1. UNCHANGED <<log, dhcp>> /\ UNCHANGED diskVars
  BY DEF WgUnchanged
<1>2. step \in WgSteps \cup {"wg_link"} /\ step' \in WgSteps \cup {"wg_link", "netif"}
  BY DEF WgSteps
<1>3. fds = (IF step \in {"wg_setkey", "wg_setpeer"} THEN 1 ELSE 0)
  BY <1>0 DEF MainInv
<1>4. MainInv'
  <2> USE <1>0, <1>3, Lists DEF MainInv, EarlySteps, WgSteps, IfSteps, LastSteps
  <2>1. CASE WgLink
    BY <2>1
  <2>2. CASE WgKey
    BY <2>2
  <2>3. CASE WgSetKey
    BY <2>3
  <2>4. CASE WgPeer
    BY <2>4
  <2>5. CASE WgSetPeer
    BY <2>5
  <2>6. CASE WgPeerLogged \/ WgUp \/ WgNext
    BY <2>6
  <2>7. QED
    BY <2>1, <2>2, <2>3, <2>4, <2>5, <2>6
<1>5. SideInv'
  BY <1>0, <1>1 DEF SideInv
<1>6. QED
  BY <1>1, <1>2, <1>4, <1>5, MainAlone DEF WgSteps, LastSteps

LEMMA IfStepsKeep ==
  ASSUME StartInv, NetifStart \/ NextIf \/ NetifsDone \/ IfLink \/ IfAddr \/ IfRoute \/ IfResolv
  PROVE  StartInv'
<1>0. MainInv /\ SideInv
  BY DEF StartInv
<1> USE DEF NetifStart, NextIf, NetifsDone, IfLink, IfAddr, IfRoute, IfResolv, IfCommand, InMain
<1>1. UNCHANGED <<peer, fds, log>> /\ UNCHANGED diskVars
  BY DEF IfUnchanged
<1>2. step \in IfSteps \cup {"netif"} /\ step' \in IfSteps \cup {"netif", "settings"}
  BY DEF IfSteps
<1>3. MainInv'
  <2> USE <1>0, <1>1, Lists DEF MainInv, EarlySteps, WgSteps, IfSteps, LastSteps
  <2>1. CASE NetifStart
    BY <2>1
  <2>2. CASE NextIf \/ NetifsDone
    BY <2>2
  <2>3. CASE IfLink \/ IfAddr \/ IfRoute \/ IfResolv
    BY <2>3
  <2>4. QED
    BY <2>1, <2>2, <2>3
<1>4. SideInv'
  <2>1. dhcp' = dhcp \/ dhcp' = [dhcp EXCEPT ![item] = "start"]
    OBVIOUS
  <2>2. QED
    BY <1>0, <1>1, <2>1 DEF SideInv
<1>5. QED
  BY <1>1, <1>2, <1>3, <1>4, MainAlone DEF IfSteps, LastSteps

LEMMA SettingsKeep == ASSUME StartInv, Settings PROVE StartInv'
<1>0. /\ MainInv /\ SideInv /\ DiskInv /\ step = "settings" /\ turn = 0
      /\ step' = "servers" /\ turn' = 1 /\ netboot' = "waiting"
      /\ UNCHANGED <<item, peer, fds, log, dhcp>>
  BY DEF StartInv, Settings, InMain, OrderInv, LastSteps
<1>1. disk' = disk /\ dfds' = dfds /\ diskOpened' = diskOpened
  BY DEF Settings
<1>2. MainInv' /\ SideInv' /\ OrderInv'
  BY <1>0 DEF MainInv, SideInv, OrderInv, EarlySteps, WgSteps, IfSteps, LastSteps
<1>3. diskOpened = FALSE /\ (1 \in 1..NumDisks => disk[1] = "closed") /\ dfds = 0
  BY <1>0, Lists DEF DiskInv, Busy
<1>4. DiskInv'
  BY <1>0, <1>1, <1>3, Lists DEF DiskInv, Busy
<1>5. QED
  BY <1>2, <1>4 DEF StartInv

LEMMA ServersKeep == ASSUME StartInv, StartServers \/ Complete PROVE StartInv'
<1>1. MainInv /\ SideInv /\ step \in LastSteps /\ step' \in LastSteps
  BY DEF StartInv, StartServers, Complete, InMain, LastSteps
<1>2. UNCHANGED <<item, peer, fds, log, dhcp>> /\ UNCHANGED diskVars
  BY DEF StartServers, Complete
<1>3. MainInv' /\ SideInv'
  BY <1>1, <1>2 DEF MainInv, SideInv, EarlySteps, WgSteps, IfSteps, LastSteps
<1>4. QED
  BY <1>1, <1>2, <1>3, MainAlone

-----------------------------------------------------------------------------
(* Beside main: homegw-rt's end, and the DHCP goroutines.                  *)
LEMMA BesideKeeps ==
  ASSUME StartInv,
         RtExits \/ FatalExits \/ \E i \in 1..Len(Netifs) : DhcpRuns(i) \/ DhcpEnds(i) \/ DhcpSlept(i)
  PROVE  StartInv'
<1>0. MainInv /\ SideInv
  BY DEF StartInv
<1>1. UNCHANGED mainVars /\ UNCHANGED diskVars
  BY DEF RtExits, FatalExits, DhcpRuns, DhcpEnds, DhcpSlept, DhcpUnchanged, startVars
<1>2. SideInv'
  <2>1. CASE RtExits
    BY <1>0, <2>1, FatalKeeps DEF RtExits, SideInv
  <2>2. CASE FatalExits
    BY <1>0, <2>2 DEF FatalExits, startVars, SideInv
  <2>3. CASE \E i \in 1..Len(Netifs) : DhcpRuns(i) \/ DhcpEnds(i) \/ DhcpSlept(i)
    <3>1. log' = log /\ \E i \in 1..Len(Netifs) : \E v \in {"run", "sleep", "start"} :
            dhcp' = [dhcp EXCEPT ![i] = v]
      BY <2>3 DEF DhcpRuns, DhcpEnds, DhcpSlept, DhcpUnchanged
    <3>2. QED
      BY <1>0, <3>1 DEF SideInv
  <2>4. QED
    BY <2>1, <2>2, <2>3
<1>3. step' = step
  BY <1>1 DEF mainVars
<1>4. QED
  BY <1>0, <1>1, <1>2, <1>3, MainSame, MainAlone

-----------------------------------------------------------------------------
(* The disk goroutine, and the netboot server.                             *)

LEMMA DisksAlone ==
  ASSUME StartInv, DiskInv', UNCHANGED mainVars, UNCHANGED <<log, dhcp>>, turn = 0 => turn' = 0
  PROVE  StartInv'
<1>1. MainInv' /\ step' = step
  BY MainSame DEF StartInv, mainVars
<1>2. SideInv'
  BY DEF StartInv, SideInv
<1>3. QED
  BY <1>1, <1>2 DEF StartInv, OrderInv

LEMMA DiskStepKeeps ==
  ASSUME StartInv, NEW from, NEW to, NEW files, DiskStep(from, to, files),
         \/ from = "closed" /\ to = "key" /\ files = 1
         \/ from = "closed" /\ to = "failed" /\ files = 0
         \/ from = "key" /\ to = "open" /\ files = 0
         \/ from \in {"key", "open"} /\ to \in {"mounted", "failed"} /\ files = -1
  PROVE  StartInv'
<1>0. /\ DiskInv /\ turn \in 1..NumDisks /\ disk[turn] = from
      /\ disk' = [disk EXCEPT ![turn] = to] /\ dfds' = dfds + files
  BY DEF StartInv, DiskStep
<1>1. turn' = turn /\ diskOpened' = diskOpened /\ netboot' = netboot
  BY DEF DiskStep
<1>2. /\ disk' \in [1..NumDisks -> {"closed", "key", "open", "mounted", "failed"}] /\ disk'[turn] = to
      /\ \A e \in 1..NumDisks : e # turn => disk'[e] = disk[e]
  BY <1>0 DEF DiskInv
<1>3. dfds' = IF Busy' THEN 1 ELSE 0
  BY <1>0, <1>1, <1>2 DEF DiskInv, Busy
<1>4. diskOpened' \in BOOLEAN
  BY <1>0, <1>1, Zenon DEF DiskInv
<1>5. DiskInv'
  BY <1>0, <1>1, <1>2, <1>3, <1>4, Lists DEF DiskInv, DiskDone
<1>6. UNCHANGED mainVars /\ UNCHANGED <<log, dhcp>>
  BY DEF DiskStep
<1>7. QED
  BY <1>1, <1>5, <1>6, DisksAlone

LEMMA DiskKeeps == ASSUME StartInv, DiskKey \/ LuksOpen \/ Mount PROVE StartInv'
  BY DiskStepKeeps DEF DiskKey, LuksOpen, Mount

LEMMA NextDiskKeeps == ASSUME StartInv, NextDisk PROVE StartInv'
<1>0. DiskInv /\ turn \in 1..NumDisks /\ DiskDone(turn) /\ turn' = turn + 1
  BY DEF StartInv, NextDisk, DiskDone
<1>1. disk' = disk /\ dfds' = dfds /\ diskOpened' = diskOpened /\ netboot' = netboot
  BY DEF NextDisk
<1>2. ~diskOpened /\ ~Busy /\ dfds = 0
  BY <1>0, Lists DEF DiskInv, Busy, DiskDone
<1>3. ~Busy'
  <2>1. turn' \in 1..NumDisks => disk'[turn'] = "closed"
    BY <1>0, <1>1 DEF DiskInv
  <2>2. QED
    BY <2>1 DEF Busy
<1>4. diskOpened' \in BOOLEAN
  BY <1>0, <1>1, Zenon DEF DiskInv
<1>5. DiskInv'
  BY <1>0, <1>1, <1>2, <1>3, <1>4, Lists DEF DiskInv, DiskDone
<1>6. UNCHANGED mainVars /\ UNCHANGED <<log, dhcp>>
  BY DEF NextDisk
<1>7. QED
  BY <1>0, <1>5, <1>6, DisksAlone

LEMMA ChannelKeeps == ASSUME StartInv, DisksOpened \/ NetbootStarts PROVE StartInv'
<1>0. DiskInv
  BY DEF StartInv
<1>1. turn' = turn /\ disk' = disk /\ dfds' = dfds
  BY DEF DisksOpened, NetbootStarts
<1>2. UNCHANGED mainVars /\ UNCHANGED <<log, dhcp>>
  BY DEF DisksOpened, NetbootStarts
<1>3. diskOpened' = TRUE /\ turn = NumDisks + 1 /\ netboot' \in {"off", "waiting", "on", "failed"}
  BY <1>0, Zenon DEF DisksOpened, NetbootStarts, DiskInv
<1>4. DiskInv'
  BY <1>0, <1>1, <1>3 DEF DiskInv, Busy, DiskDone
<1>5. QED
  BY <1>1, <1>2, <1>4, DisksAlone

-----------------------------------------------------------------------------
LEMMA IInvInit == Init => IInv
  BY ConfigInvInit, FreshStart DEF Init, IInv

(* Only the configuration's own actions, a restart and a fatal error touch *)
(* the configuration's state.                                              *)
LEMMA ConfigUntouched ==
  ASSUME Next
  PROVE  \/ ConfigNext \/ (\E c \in Configs : Upload(c)) \/ Restart \/ UNCHANGED configVars
         \/ phase' = "dead" /\ UNCHANGED <<file, text, ocram, rx, tx, hurt, saving, sends, damage,
                                           upgrades, clean, given, saved>>
<1>1. CASE ConfigStep \/ UploadStep \/ RestartStep
  BY <1>1 DEF ConfigStep, UploadStep, RestartStep
<1>2. CASE Prepare \/ Started \/ RtExits \/ FatalExits
  BY <1>2 DEF Prepare, Started, MainFatal, Fatal, RtExits, FatalExits, configVars
<1>3. CASE MainStep /\ ~Prepare /\ ~Started
  BY <1>3 DEF MainStep, WgLink, WgKey, WgSetKey, WgPeer, WgSetPeer, WgPeerLogged, WgUp, WgNext, WgUnchanged,
     NetifStart, NextIf, NetifsDone, IfLink, IfAddr, IfRoute, IfResolv, IfCommand, IfUnchanged,
     Settings, StartServers, Complete
<1>4. CASE \E i \in 1..Len(Netifs) : DhcpRuns(i) \/ DhcpEnds(i) \/ DhcpSlept(i)
  BY <1>4 DEF DhcpRuns, DhcpEnds, DhcpSlept, DhcpUnchanged
<1>5. CASE DiskKey \/ LuksOpen \/ Mount \/ NextDisk \/ DisksOpened \/ NetbootStarts
  BY <1>5 DEF DiskKey, LuksOpen, Mount, DiskStep, NextDisk, DisksOpened, NetbootStarts
<1>6. QED
  BY <1>1, <1>2, <1>3, <1>4, <1>5 DEF Next

LEMMA IInvNext == IInv /\ [Next]_vars => IInv'
<1> SUFFICES ASSUME IInv, [Next]_vars PROVE IInv'
  OBVIOUS
<1>0. ConfigInv /\ StartInv
  BY DEF IInv
<1>1. CASE Next
  <2>1. ConfigInv'
    BY <1>0, <1>1, ConfigUntouched, ConfigInvNext, UploadKeeps, RestartKeeps, ConfigStutter, DeadStep
  <2>2. StartInv'
    <3>1. CASE ConfigStep \/ UploadStep
      BY <1>0, <3>1, StartSame DEF ConfigStep, UploadStep
    <3>2. CASE RestartStep
      BY <3>2, RestartFresh
    <3>3. CASE MainStep
      BY <1>0, <3>3, PrepareKeeps, WgStepsKeep, IfStepsKeep, SettingsKeep, ServersKeep DEF MainStep
    <3>4. CASE \/ RtExits \/ FatalExits
               \/ \E i \in 1..Len(Netifs) : DhcpRuns(i) \/ DhcpEnds(i) \/ DhcpSlept(i)
      BY <1>0, <3>4, BesideKeeps
    <3>5. CASE DiskKey \/ LuksOpen \/ Mount \/ NextDisk \/ DisksOpened \/ NetbootStarts
      BY <1>0, <3>5, DiskKeeps, NextDiskKeeps, ChannelKeeps
    <3>6. QED
      BY <1>1, <3>1, <3>2, <3>3, <3>4, <3>5 DEF Next
  <2>3. QED
    BY <2>1, <2>2 DEF IInv
<1>2. CASE UNCHANGED vars
  BY <1>0, <1>2, ConfigStutter, StartSame DEF vars, IInv
<1>3. QED
  BY <1>1, <1>2

(* The inductive invariant holds in every behaviour of the startup.        *)
THEOREM Invariant == Spec => []IInv
  BY IInvInit, IInvNext, PTL DEF Spec

(* The variables of main, its goroutines and the configuration keep their  *)
(* types (main.go, bootstrap.go, ocram.go).                                *)
THEOREM TypeCorrect == Spec => []TypeOK
<1>1. IInv => TypeOK
  <2> SUFFICES ASSUME IInv PROVE TypeOK
    OBVIOUS
  <2>1. ConfigTypeOK /\ MainInv /\ SideInv /\ DiskInv
    BY DEF IInv, ConfigInv, StartInv
  <2>2. /\ step \in Steps /\ peer \in 1..(NumPeers + 1) /\ fds \in {0, 1} /\ dfds \in {0, 1}
    BY <2>1 DEF MainInv, DiskInv, Steps, EarlySteps, WgSteps, IfSteps, LastSteps
  <2>3. item \in 1..(1 + NumWg + Len(Netifs))
    BY <2>1, Lists DEF MainInv, EarlySteps, WgSteps, IfSteps, LastSteps
  <2>4. diskOpened \in BOOLEAN
    BY <2>1 DEF DiskInv
  <2>5. QED
    BY <2>1, <2>2, <2>3, <2>4 DEF TypeOK, SideInv, DiskInv
<1>2. QED
  BY Invariant, <1>1, PTL

(* Whatever command fails and whatever list is empty, no memory file with  *)
(* a key stays open (wireguard.go:42-75, disk/lib.go:30).                  *)
THEOREM KeysClosed == Spec => []KeyFilesClosed
<1>1. IInv => KeyFilesClosed
  <2> SUFFICES ASSUME IInv PROVE KeyFilesClosed
    OBVIOUS
  <2>1. fds = IF step \in {"wg_setkey", "wg_setpeer"} THEN 1 ELSE 0
    BY DEF IInv, StartInv, MainInv
  <2> DEFINE Opening == {d \in 1..NumDisks : disk[d] \in {"key", "open"}}
  <2>3. DiskInv
    BY DEF IInv, StartInv
  <2>4. Opening = IF Busy THEN {turn} ELSE {}
    <3>1. ASSUME NEW d \in 1..NumDisks, d # turn PROVE d \notin Opening
      BY <2>3, <3>1, Lists DEF DiskInv, DiskDone
    <3>2. turn \in Opening <=> Busy
      BY DEF Busy
    <3>3. QED
      BY <3>1, <3>2 DEF Busy
  <2>5. dfds = Cardinality(Opening)
    BY <2>3, <2>4, FS_EmptySet, FS_Singleton DEF DiskInv
  <2>6. QED
    BY <2>1, <2>5 DEF KeyFilesClosed
<1>2. QED
  BY Invariant, <1>1, PTL

(* The netboot server starts when every disk has been mounted or given up, *)
(* for any number of disks: diskOpened is closed only once the goroutine's *)
(* turn is past the last, and all disks before its turn are done           *)
(* (main.go:88-110).                                                       *)
THEOREM DisksFirst == Spec => []NetbootAfterDisks
<1>1. IInv => NetbootAfterDisks
  <2> SUFFICES ASSUME IInv, netboot \in {"on", "failed"}, NEW d \in 1..NumDisks PROVE DiskDone(d)
    BY DEF NetbootAfterDisks, DisksDone
  <2>1. turn = NumDisks + 1 /\ d < turn
    BY Lists DEF IInv, StartInv, DiskInv
  <2>2. QED
    BY <2>1 DEF IInv, StartInv, DiskInv
<1>2. QED
  BY Invariant, <1>1, PTL

(* However the serial line damages transmissions, of whatever texts, two   *)
(* undamaged ones after each other end the wait (bootstrap.go:85-106).     *)
THEOREM TwoTransmissions == Spec => []TwoIntactSuffice
<1>1. IInv => TwoIntactSuffice
  BY DEF IInv, ConfigInv, LineInv, TwoIntactSuffice
<1>2. QED
  BY Invariant, <1>1, PTL

(* A configuration wholly saved is the one the next kernel uses, for any   *)
(* size of the on-chip RAM (kexec-sealer/main.go:56-77, ocram.go:20-58).   *)
THEOREM SavedConfigUsed == Spec => []SavedIsUsed
<1>1. IInv => SavedIsUsed
  BY DEF IInv, ConfigInv, SaveInv, SavedIsUsed
<1>2. QED
  BY Invariant, <1>1, PTL

(* main is only ever given a configuration that was given to the gateway,  *)
(* whole (bootstrap.go:98-130, ocram.go:55-58).                            *)
THEOREM OnlyGivenConfigs == Spec => ConfigIntact
<1>1. IInv /\ [Next]_vars =>
        [phase # "main" /\ phase' = "main" =>
           \E c \in given \cup {file} : c \in Configs /\ text' = Text[c]]_configVars
  <2> SUFFICES ASSUME IInv, [Next]_vars, phase # "main", phase' = "main"
               PROVE  \E c \in given \cup {file} : c \in Configs /\ text' = Text[c]
    OBVIOUS
  <2>1. Next
    BY DEF vars, configVars
  <2>2. ConfigNext
    BY <2>1, ConfigUntouched DEF Upload, Restart, configVars
  <2>3. QED
    BY <2>2, MainIsGiven DEF IInv
<1>2. QED
  BY Invariant, <1>1, PTL DEF Spec, ConfigIntact
=============================================================================
