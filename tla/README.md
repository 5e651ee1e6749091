# hgw in TLA+

A verification project for hgw, a home gateway appliance: a Linux image whose
init process `homegw-init` (Go) configures the machine and serves an API, and
whose real-time helper `homegw-rt` (Rust) drives GPIO lines. The modules model
the parts of the program where concurrency, failures and ordering decide about
correctness; TLC checks them on small instances, and TLAPS proves every safety
property of the runs that hold, and both refinements, for all instances.

## Inventory

| Component | State it keeps | Operations | What is hard | What makes it correct |
|---|---|---|---|---|
| GPIO reset service (`homegw-rt/src/rt_task/gpio_server.rs`, `config.rs`, `deadline.rs`, `main.rs`) | the level of each line, a heap of at most 8 reset deadlines, request packets on the stacks of blocking threads, a mutex, a datagram socket carrying packet addresses | `ext_reset`, the server loop (release, serve, blink) | raw pointers and a futex between two threads, cancelled clients, a full heap, failing ioctls, a time budget | no packet is used after free, answers are true, pulses have the promised length, every line is raised again, the loop never stalls |
| Hot upgrade (`homegw-init/http.go`, `kexec`) | `globalKexecLock`, the kill channel, the staged kernel | upload, check, stop SSH, kill users' processes, unmount, save configuration, load, flush logs, reboot | crashes and power loss between any two steps, overlapping calls, retries after a failure, processes that fork while they are killed, log calls that block | kernel and configuration change together or not at all; SSH and users' processes are gone before the kernel is loaded; an upgrade ends |
| Emergency kexec (`emergency_kexec.go`, `rootfs/init2`) | the key file | the same handler without SSH and disks | runs with what a crashed process left behind | a crash is recoverable with the same checks |
| Kexec package checks (`homegw-libs/kexec`) | none | `Unseal` | two signature schemes, lengths, versions | only admissible packages pass |
| On-chip RAM store (`ocram.go`) | hash and text of the next configuration | write, dump and erase | torn writes, garbage after power-up | only an intact configuration is used, once |
| Configuration bootstrap (`bootstrap.go`) | none | OCRAM, else serial line | framing and retries | a configuration with a matching hash is used |
| SSH supervisor (`ssh.go`) | kill, completion and stop channels, one dropbear | start, restart, kill | kill racing a restart; dropbear dying alone | after a kill no dropbear is left or started again, and completion is signalled |
| Encrypted disks (`homegw-libs/disk`) | mounts, a key file | open in the background | commands that hang; races the unmount of an upgrade | whoever needs the disks waits for them, nobody else does |
| Startup (`main.go`, `config.go`) | loop variables shared with goroutines | a fixed sequence, then goroutines | failures of single steps are logged and skipped; a log call waits for a Fatal in progress | the start is completed whatever fails, or ends |
| Network, WireGuard (`netif.go`, `wireguard.go`, `homegw-libs/memfd`) | key files, DHCP client goroutines | commands | keys in open files on error paths; goroutines that read a loop variable | no key file is left open |
| Kafka log sink (`homegw-libs/kafka-sink`) | queue, issued and completed counters | write, batch, send with retry, sync | full queue, sync while Kafka is down, Fatal waits for sync | accepted messages are delivered in order; sync means delivered; logging never blocks |
| API server, rate limit (`http.go`) | a semaphore of 10 | routes, authentication, handlers | the limiter answers 429 without aborting; handlers that wait for ever, panic, or outlive their client | requests above the limit are rejected (they are not); slots are counted exactly; upgrades are exempt |
| QUIC server and SSH relay (`http.go`, `sshrelay.go`) | connection slots | accept, relay both directions | half-closed streams, a silent SSH server, writes that block, goroutines that outlive the connection | every slot is returned, one stream at a time |
| Tesla API (`homegw-libs/tesla-api`, `concurrency`) | a value computed once, a semaphore | fetch with backoff, read | value read before it is ready, nil entries, a shared loop variable | a Data call has a vehicle, of its entry or a later one |
| homegw-rt control (`homegw-libs/rt-control`) | the log pipe | start, relay logs, Fatal on exit | Fatal waits for Kafka | the end of homegw-rt ends homegw-init |
| OOM thread (`homegw-rt/src/rt_task/oom.rs`) | none | kill all non-root processes | ends processes while an upgrade scans for them | |
| Package sealer (`kexec-sealer`) | none | seal | the layout is shared with `Unseal` by hand | what is sealed is unsealed |
| Netboot, permissions, sysctl, keyring, scripts | | commands and system calls | | |

How they interact: `main` loads the configuration, writes the key file, starts
`homegw-rt` (whose log it relays, and whose end is fatal to `homegw-init`), the
Tesla clients, the network interfaces, a goroutine that opens the disks and one
that then starts the netboot server, the SSH supervisor and the API server. All
of them log through the one Kafka sink, which a Fatal entry synchronises before
the process ends, with the lock of the output held. QUIC connections reach the
API or, relayed, the SSH server. The API server's kexec handler closes the
supervisor's kill channel and waits for its completion channel, kills the users'
processes, unmounts the disks, writes the OCRAM the next boot reads, and reboots. If
`homegw-init` ends, `init2` runs `homegw-init emergency-kexec`, which reads the
key file; if that ends too, PID 1 ends and the machine stops. The API server's
`/debug/ext_reset` and local users reach `homegw-rt` over a Unix socket.

The hazards, line by line, are in PROJECT.json.

## Modules

| Module | What it is |
|---|---|
| `ResetPulse` | abstract specification of a reset line: low for at least `Hold` per reset, raised by nothing else |
| `GpioServer` | the GPIO service; implements `ResetPulse` |
| `GpioServerProofs` | its inductive invariants and theorems |
| `MCGpioServer` | its instances |
| `SshSupervisor` | the SSH supervisor, its killer goroutines and dropbear; actions and initial state, without a next-state relation of its own |
| `Appliance` | abstract specification of boots and upgrades: kernel and configuration change together |
| `HotUpgrade` | boot, kexec handler, emergency server, package checks, OCRAM; extends `SshSupervisor` and implements `Appliance` |
| `HotUpgradeProofs` | its inductive invariant, its theorems and the step simulation of `Appliance` |
| `MCHotUpgrade` | its instances |
| `ProcScan`, `ProcScanProofs` | the loop of pkills against processes that fork, exit and are started |
| `LogSink`, `LogSinkProofs`, `MCLogSink` | the Kafka sink, zap's locking around it, and its writers: log calls, the homegw-rt relay, the kernel log relay |
| `QuicRelay`, `QuicRelayProofs`, `MCQuicRelay` | the QUIC accept loop and the SSH relay |
| `ApiServer`, `ApiServerProofs`, `MCApiServer` | concurrency limit, routes and handlers, Tesla clients |
| `ConfigPath` | how a configuration gets into `main`: file, serial line, or package and on-chip RAM; actions and initial state |
| `ConfigPathProofs` | what its operators compute, and the invariant its actions keep |
| `Startup`, `MCStartup` | what `main` does with it; extends `ConfigPath` |
| `StartupProofs` | the theorems on both |

Operators named `X_Something` with the comment "Mutant" are plausible wrong
versions of the operator `X` that follows; they are used to confirm that each
property can fail, and occur in no specification.

### GpioServer

Server thread: `srv` is its place in the loop, one action per system call or
atomic store that another thread can observe. `LoopTop` is lines 115-132 (read
`now`, toggle the blink lines), `Release`/`ReleaseDone` the loop over due
deadlines, `ServeDone`/`Recv` the head of the request loop, `Refuse`, `Drive`,
`Push` the ways through one request and `Complete`, `Wake` the two halves of the
guard's `drop`. The heap is a set of (time, line) pairs: two entries are never
equal, because a line that has an entry is refused. `alive` turns `FALSE` when a
failed write to `/dev/kmsg` panics the thread inside a request; the guard still
completes the packet while unwinding, then the thread is dead (`Die`).

Calls: `task[t]` goes idle, lock, send, check, wait, sleep. A packet is in a
slot of stack memory, `mem`; `Send` takes a slot no live packet occupies, so with
few slots the next packet reuses the address of the last one and a late
`FUTEX_WAKE` hits it. `Interrupt` is a futex wait that returns for no reason.
`Cancel` is a dropped handler: before the mutex is acquired it removes the call;
later the blocking closure runs on by itself, so nothing changes in the model.

Time is discrete. `Tick` is not enabled when the server thread would be late:
the SCHED_DEADLINE reservation (5 ms every 100 ms) runs an iteration at least
every `MaxGap`. `driven`, `lowSince`, `unreleased` and `drove` are history
variables read only by properties.

### HotUpgrade

`mode` is the phase of the machine: `load` and `serial` (loadConfig), `init`
(after the key file is written), `up` (servers started), `emergency`, `dead`.
A kernel image is named by the build time of the `homegw-init` in it, which the
cosign check compares with the log entry's time; 0 is an empty image. A
configuration is the record of what decides its fate. The OCRAM holds whose
hash and whose text were written; they are written in two steps and used only if
they agree (`OcramConfig`).

Both kexec handlers are the actions from `Accept` to `RebootFatal`, one per
system call or per log call that may block; where they differ (`KillSsh`, disks in
`Unmount`, `TimerFires`, `CurrentVersion`, `LogReturns`) the action asks for the
mode. Return and recovered panic are `Leave`; a logged error is `ReplyError`.
`Crash` is the end of the process: a panic in a goroutine or `/debug/crash` at any
time (`MainFails`), or a Fatal. The key file may fail to be written (`Use`), which
`main` ignores; there is no recovery then, and `Appliance` says so with `kept`.
`PowerLoss` is a boot of the flashed image with an erased or garbled OCRAM.

`log` is the lock of zap's output. A log call needs it free; a Fatal takes it,
waits for Kafka (`FatalSyncs`, `FatalExits`) and ends the process. The goroutine
that flushes the logs after kexec_load takes it too (`FlushLocks`) and gives it
back when Kafka has everything (`FlushSynced`); a reboot(2) that fails while the
flush hangs leaves the handler waiting for the lock (`RebootFatal`). Nothing is
assumed of Kafka.

The SSH supervisor's goroutines and dropbear interleave with the handler
(`SshStep`). A killer goroutine for which both `kill` and `stop` are closed may
take either case. What a pkill reports is left open (`PkillFinds`,
`PkillFindsNone`): the processes are in `ProcScan`.

### ProcScan

One pkill walks `/proc` in the order of pids, one entry per step (`Look`), then
signals what it noted, one process per step (`Signal`), and succeeds if one of
them was still there. Processes fork, exit and are started from outside between
any two steps; a new one gets a free pid, `last` is the one given before. `Found`
is the loop of the handlers: a success starts it again, two failures in a row end
it. `PkillFails` is an error of any other kind, which the code does not tell from
"no process matched". `disturbed` is a history variable: what has happened since
the first of the current two pkills that the loop does not guard against.

### LogSink

A log call is `Call` (or `Log`), `LockWrite`, `Write`, `Count`, and for a Fatal
entry `LockSync`, `SyncReturns`, `Exit`. The lock is zap's: an output built by
`zap.Config` is locked as a whole, so a `Sync` that waits for the broker holds up
all other log calls (which is why `LogCallReturns` excepts a Fatal call in
progress). zap does not sync after a `Write` that failed: a Fatal entry that
meets a full queue ends the process at once, with everything queued lost. The
sender goroutine is `Receive`, `Fill`, `SendOk` or `SendFails` and `Retry`,
`Complete`; `SendFails` may or may not leave the batch with the broker. Between
`Write` and `Count` a message is queued, perhaps delivered, and not yet counted.
homegw-rt may log and end at any time; `RtRelay` may end the scanner, as a line
longer than the scanner's 64 KiB does, and `RtFatal` follows although homegw-rt
still runs.

### QuicRelay

`acc` is the accept loop, which takes a slot before it accepts; `conn[c]` is the
goroutine that serves a connection, `pc[c]` the place of `relayToLocalSSH`,
`str[c]` the goroutine of the connection's stream, `toQuic[c]` and `toSsh[c]` its
two copies. A copy whose source is silent notices nothing else: `ToQuicEnds` needs
the SSH server's end or the read deadline, `ToSshEnds` the client's end or the
connection's. A copy in a write (`"write"`) notices neither: it goes on when the
other side reads (`ToQuicWritten`, `ToSshWritten`) or fails when that side is gone
(or the client stops the stream, `ToQuicStopped`). So when the SSH server ends first,
the client's direction stays open until the client closes it: nothing tells the
client, since `stream.Close` comes after both copies.

### ApiServer

`req[r]` is a request with its place in the handler chain and the slots it holds.
`Limiter` is the middleware of lines 78-97: when no slot is free it writes 429
and returns, and gin calls the next handler all the same. "reject requests above
this" (`http.go:79`) is therefore not what happens, as the run `api_limit` shows;
`SlotsAccounted` says what remains true: slots are those of requests that hold
one, and the second semaphore does limit the calls at Tesla. `FindVehicle`
panics at a nil entry of a client that could not be made (gin answers 500).
`NewVehicleApi` and `TaskStarts` share the loop variable `loop` (the module is
`go 1.20`), so the task of an entry may look for a later vehicle than its own.

### ConfigPath and Startup

A text is a sequence of cells; its hash is the text itself, since a hash is only
compared. The serial line carries `<BEGIN>`, the hash, one line per cell and
`<END>`; `Damage` loses a line or turns it into noise, `rx` is the reader, and
`Read` and `Good` are its two halves. The operator sends the next transmission
when the last one is through. Packages are built by `Seal` and taken apart by the
operators after it, with one cell for a length. The on-chip RAM has one cell per
byte after the hash: `SaveText` may stop anywhere, `OcramText` ends at the first
zero, `LoadOcram` erases. After a text of zero length, or without a zero, the
hash decides. When kexec_load fails (`LoadFails`) the saved text stays, and the
next upload writes over it.

`Startup` runs main's steps one command at a time. `fds` and `dfds` count the open
memory files of main and of the disk goroutine. `turn` is the disk its goroutine
is at; it closes `diskOpened` when it ends (`DisksOpened`), and the netboot
goroutine waits for that channel and for nothing else. `log` is the lock of zap's
output: log calls of main and of the goroutines need it, and a Fatal (`MainFatal`
before the network is set up, `RtExits` at any time) ends the process at once, if
Kafka is not configured, or keeps the lock until Kafka has everything, which takes
a network (`NoNetwork`). `Initialized` assumes that main's own commands end, and
nothing of the disks'.

## Runs

| Run | Checks | Shows |
|---|---|---|
| `gpio_safety` | `TypeOK`, `PacketLive`, `ReplyMatchesEffect`, `LowIsScheduled`, `HoldAtMost`, `PulseSpec` | two calls, two output lines and an unknown pin, one stack slot (so that it is always reused), every failure allowed |
| `gpio_live` | `Answered`, `Released`, `Blinks` | no lost wake-up, no line left low, no stalled loop; an output line, an input line that can never be set and a blink line |
| `gpio_overflow` | `ReplyMatchesEffect`, violated | a full heap: the line stays low, the call fails |
| `upgrade` | `TypeOK`, `SshStopped`, `NoDoubleClose`, `ApplianceSpec`, `UpgradeEnds`, `LoadedReboots` | two calls, six kinds of packages (newer, same version with an SSH host key that does not decode, older, replayed and too big for the OCRAM, empty kernel, unparsable configuration), crashes, power losses and failures anywhere, a silent Kafka |
| `upgrade_recovery` | `Recoverable`, violated | an unparsable configuration installed by an upgrade ends the machine beyond the emergency server |
| `upgrade_rollback` | `NoRollback`, violated | the emergency server does not apply the version check: it reboots into an older configuration |
| `proc_scan` | `TwoPkillsSuffice`, `LoopEnds` | two pkills against every behaviour of processes over four pids |
| `log_sink` | `TypeOK`, `DeliveredInOrder`, `SyncDelivers`, `KernelLogWaits`, `LogCallReturns`, `RtEndEndsInit`, `EventuallyDelivered` | three writers, a queue of one, batches of two, a broker that fails, loses answers, or is silent |
| `quic_relay` | `SlotsAccounted`, `OneStream`, `RelayEnds`, `AcceptedInTheEnd` | two connections for one slot, two streams on each, every order of ends and errors |
| `api_server` | `TypeOK`, `SlotsAccounted`, `VehicleKnown`, `WaitEnds`, `KexecReached` | two requests of seven kinds, one slot of each limit, two vehicles either of which may never be found |
| `api_limit` | `LimitEnforced`, violated | a request above the limit is handled |
| `startup` | `TypeOK`, `TwoIntactSuffice`, `SavedIsUsed`, `KeyFilesClosed`, `NetbootAfterDisks`, `ConfigIntact`, `Initialized` | three configurations (one that just fits, a prefix of it, one too big), damaged transmissions, saves cut short, power losses; then two WireGuard interfaces with a peer, a static and a DHCP interface and two disks with every failure |

The type invariants of `ProcScan` and `QuicRelay` are in no run: they are part of
the inductive invariants proved for these modules.

Deadlock checking is off in `gpio_safety` (past `MaxTime`, with a dead server
thread, nothing is left to happen) in the upgrade runs (a machine that is
dead after its last boot stops), in `proc_scan` (the loop is left), and in
`quic_relay`, `api_server`, `api_limit` and `startup`, where connections,
requests and transmissions come to an end. `log_sink` checks
it: only a process that has ended stops.

### What the conditions of the properties stand for

Some properties hold only on a condition that the code does not ensure. Each
condition is in the property's statement, the case it excludes is in the model, and
without it TLC finds the counterexample described here.

- `UpgradeEnds`, `sup # "failed"`: `Spawn` returns an error before the goroutine
  exists that closes `killCompletion` (`ssh.go:46`), `main` only logs it, and the
  kexec handler waits at `http.go:369` with `globalKexecLock` held, although the
  repository's README says "It is hot-upgradable from internet".
- `UpgradeEnds`, `KafkaAnswers`: a Fatal (`rt-control/lib.go:62`) holds the lock of
  zap's output while it waits for Kafka, and the handler stays behind it at a log
  call, such as the one between kexec_load and the flush (`http.go:426`). The limit
  of 15 seconds that "Blocking network requests should not block reboot"
  (`http.go:428`) asks for covers only the flush (`LoadedReboots`).
- `UpgradeEnds`, `UsersStop`; `LoopEnds`: users that fork faster than pkill kills.
- `TwoPkillsSuffice`, `disturbed = {}`: a pkill that fails counts as one that found
  nothing (`http.go:377`); connection handlers in sessions of their own start
  processes behind the scans; a process that ends between scan and signal hides
  what it forked; the pids go round.
- `Initialized`, `NoNetwork`: a Fatal before the network is set up never ends the
  process, because Kafka cannot be reached and Sync waits without a limit
  (`kafka-sink/lib.go:153`); so `init2` does not start the emergency server.
- `RelayEnds`: a copy blocked in a write is not ended by the read deadline
  (`sshrelay.go:63`).
- `RtEndEndsInit`: the same Sync, with a broker that never answers.

### Bounds

- Two tasks suffice for every interference between calls, since the mutex admits
  one packet at a time: one holds it, the other waits or has just left. Two lines
  give the heap an order and, with `HeapCap` 2, room for all; `HeapCap` 1 is the
  overflow. `Hold` 2 is larger than `MaxGap` 1, as 1 s is larger than 100 ms.
  `MaxTime` 3 bounds when calls may start; the clock runs on until the last
  deadline has been handled.
- Two kexec calls, as the lock admits one. `MaxBoots` 2: one boot to install a
  package and one to upgrade (or lose power) again. `MaxSpawns` 2 has a restart of
  dropbear. At `MaxSpawns` the
  supervisor's only way on is a failing `runOnce`; one dropbear more would be
  killed by its killer goroutine just as the last one.
- `proc_scan`: four pids have a walk with processes behind it, at it and ahead of
  it and a free pid. `NumPids` is the only bound; forks and exits are not counted.
- `log_sink`: with `QueueCap` 1 and two calls the queue is full while the sender
  holds a batch, and `BatchCap` 2 gives batches of one and of two. One line of
  each relay and two log calls already make every pair of writers meet.
- `quic_relay` and `api_server`: every limit is 1, so that two connections or
  requests are one too many; two streams show that a slot is used again.
- `startup`: `MaxSends` 3 and `MaxDamage` 3 have a damaged transmission that
  swallows the next, followed by an undamaged one; `MemSize` 3 is where `full`
  (two cells) still has room for its zero and `big` has not; `MaxUpgrades` 2 saves
  a shorter text over a longer one and the reverse, also in one boot after a failed
  kexec_load. Two entries of each list show what one leaves to the next.

### Fairness

- `GpioServer!FairSpec`: weak fairness of the server thread, of each blocking
  thread and of time: the kernel runs runnable threads. Strong fairness of
  `Acquire`, because the tokio mutex serves its waiters in order. None for
  clients. The run excludes failing ioctls on output lines and a failing kmsg:
  with them a line may stay low and a call unanswered.
- `HotUpgrade!FairSpec`: weak fairness of each handler after the package is
  accepted, of the supervisor and of each killer goroutine: the Go scheduler runs
  all of them, and their log calls when the lock is free (it is in the guards). None
  for uploads, the client's answer, crashes, users, dropbear or Kafka. `UpgradeEnds`
  assumes, in its statement, that Kafka answers (`KafkaAnswers`) and that pkill
  finds nobody from some time on (`UsersStop`); `LoadedReboots` assumes neither (the
  previous section has the reasons). A
  dropbear that is killed is dead in the same step.
- `ProcScan!FairSpec`: pkill and the handler run; `LoopEnds` assumes, in its
  statement, that new processes stop coming.
- `LogSink!FairSpec`: goroutines run, and a mutex is got by a goroutine that waits
  long enough (a Go mutex starves nobody). Nothing of the broker: where a property
  needs one that answers again and again, it says so (`SF_vars(SendOk) => ...`).
- `QuicRelay!FairSpec`: the goroutines of the server, and dials, which end.
  Nothing of clients or the SSH server. `RelayEnds` assumes, in its statement, that
  writes return, since the read deadline does not end them; `AcceptedInTheEnd` that
  connections end at some time.
- `ApiServer!FairSpec`: handlers run; answers of Tesla, homegw-rt and the address
  service need not come.
- `Startup!FairSpec`: main runs, its own commands end, and its log calls return
  when the lock is free. `Initialized` assumes, in its statement, a Kafka that
  answers once it can be reached.

## Proofs

Each proof module states the inductive invariant of its component (`IInv`, or
`Inv` in `GpioServerProofs`) as a conjunction of named parts, proves that it holds
initially and is kept by every action, one lemma per action or group of actions,
and derives the theorems from it. Each theorem is about `Spec` without fairness.
All strengthenings were checked by TLC as invariants of the run's instance before
they were proved.

The only hypotheses are the named `ASSUME`s of the modules, which say what the
constants are (capacities are naturals, lists are sequences, texts have no zero
cell, `None` is neither a package, a configuration nor a key, and so on), and the
one of the three GPIO theorems below. The bounds of the models (`MaxBoots`,
`MaxSends`, ...) may be any naturals; sets of calls, requests, connections and
loggers may be infinite.

| Module | Theorem | States |
|---|---|---|
| `GpioServerProofs` | `TypeCorrect` | `Spec => []TypeOK` |
| | `PacketsAreLive` | `Spec => []PacketLive` |
| | `ImplementsPulse` | `Spec => PulseSpec` |
| | `LowLinesScheduled` | the heap fits all lines: `Spec => []LowIsScheduled` |
| | `LinesHeldAtMost` | the heap fits all lines: `Spec => []HoldAtMost` |
| | `RepliesMatch` | the heap fits all lines: `Spec => []ReplyMatchesEffect` |
| `HotUpgradeProofs` | `TypeCorrect` | `Spec => []TypeOK` |
| | `ClosedOnce` | `Spec => []NoDoubleClose` |
| | `NoSshWhileLoading` | `Spec => []SshStopped` |
| | `AtomicUpgrade` | `Spec => ApplianceSpec` |
| `ProcScanProofs` | `NoneSurvives` | `Spec => []TwoPkillsSuffice` |
| `LogSinkProofs` | `TypeCorrect` | `Spec => []TypeOK` |
| | `InOrder` | `Spec => []DeliveredInOrder` |
| | `FatalSynced` | `Spec => []SyncDelivers` |
| | `KernelLogAfterDelivery` | `Spec => []KernelLogWaits` |
| `QuicRelayProofs` | `TypeCorrect` | `Spec => []TypeOK` |
| | `NoSlotLeaks` | `Spec => []SlotsAccounted` |
| | `OneStreamAtATime` | `Spec => []OneStream` |
| `ApiServerProofs` | `TypeCorrect` | `Spec => []TypeOK` |
| | `NoSlotLeaks` | `Spec => []SlotsAccounted` |
| | `VehicleIsKnown` | `Spec => []VehicleKnown` |
| `ConfigPathProofs` | `SealedIsReadBack` | a sealed package is well formed, and its configuration is read back |
| `StartupProofs` | `TypeCorrect` | `Spec => []TypeOK` |
| | `OnlyGivenConfigs` | `Spec => ConfigIntact` |
| | `TwoTransmissions` | `Spec => []TwoIntactSuffice` |
| | `SavedConfigUsed` | `Spec => []SavedIsUsed` |
| | `KeysClosed` | `Spec => []KeyFilesClosed` |
| | `DisksFirst` | `Spec => []NetbootAfterDisks` |

The module `Invariant` theorems (`Spec => []IInv`) are what the others rest on.

### Arguments

**GpioServer.** `Inv` is the conjunction of `TypeOK`, `PacketInv` (only the mutex
holder has a packet, and its address is in one place only, the socket or the
server, until completion is stored) and `HeapInv` (a line with a deadline is low,
has one deadline, and will have been low for `Hold` when it passes). `PacketLive`
follows from `PacketInv`, and the refinement of `ResetPulse` is a step simulation
under `Inv`. The other three need that pushing never fails: `HeapHasRoom` derives
it from `Cardinality(Lines) <= HeapCap`, by mapping deadlines injectively to the
lines other than the one being pushed. That hypothesis is necessary, as
`gpio_overflow` shows. `LinesHeldAtMost` adds `TimeInv` (what the clock, the
current iteration's `now` and the pending deadlines can differ by) and
`RepliesMatch` adds `ReplyInv` (what each packet and each answer says at every
place a call can be in).

**HotUpgrade.** `LockInv` says that whoever is in the handler holds
`globalKexecLock`; from it, every other conjunct may speak of *the* call.
`CallInv` is what a call has established at each place (its package passed
`Unseal`, hash and text are in the on-chip RAM, the image is loaded), `BootInv`
what the process knows of its configuration. Even `TypeOK` is not inductive without
them: what reaches the on-chip RAM has its type only because a call past the checks
has a package. `SshQuiet`, `SshAlive`, `KillInv` and `PkillInv` are about the
supervisor: the kill channel is open as long as a call may still close it; when it
is not, the supervisor has ended or a call is waiting for that, and that call holds
the lock. A dropbear lives only while the supervisor starts or waits for it, so past
the join there is none. `LogInv` says that only a running `homegw-init` holds the
lock of the output. `AtomicUpgrade` maps every step to a step of `Appliance`
or a stutter (`ViewStatus`, `ViewConfig`): the only ones that are not stutters are
the boots, a power loss, the end of the process, and the reboot, where `CallInv` says that the
staged kernel and the stored configuration are those of one package that passed
the checks against what was running.

**ProcScan.** `ScanInv` speaks of a pkill that has noted and signalled nobody. In
the first of the two, every process is ahead of its walk or has a pid of at most
`last`, that is, was started in the current round of the pids. At its end only the
latter are left, so in the second every process is ahead of the walk and at most
`last`: a new one gets a higher pid than `last`, ahead of the walk as well, and when
the walk is through none can be left. One pkill does not establish that, which is
why `Found_OnePkill` fails. The four disturbances of the property are each
necessary: TLC finds a surviving process when any one of them is allowed.

**LogSink.** `QueueInv` describes batch and queue element by element: they hold the
consecutive numbers after `completed`. `StoredInv` says that the broker has exactly
those up to `completed`, or with the batch when an answer was lost, which makes
resending harmless. `CountInv` closes the gap between the queue and
`issuedMessages`: they differ by the one message whose writer is between `Write`
and `Count`, and that writer holds the lock (`LockInv`), so none is there when
`Sync` reads the counter (`SyncInv`).

**QuicRelay, ApiServer.** The semaphores count sets that are part of the invariant
as finite sets, since cardinalities of infinite sets say nothing and the sets of
connections and requests are not assumed finite; each step adds or removes one
element at most. `StreamInv` ties the one slot of a connection to the life of its
stream. `TaskInv` says what the loop over the vehicles and each task have done: a
task that read the loop variable read it when its own entry had been reached, so
`asks[i] >= i`. That `EntryOf`, the first match of `lo.Find`, exists is the
well-foundedness of the naturals (`Least`).

**ConfigPath, Startup.** The lemmas `LinesAre`, `FieldRead`, `PrefixRead` describe
sequences built with concatenation and `SubSeq` by their elements; with them
`SealedIsReadBack` and `StoredIsFound` (a text stored with its terminator is found
at the next start) are computations. `LineInv` says where the reader is in an
undamaged transmission: in step with it (`Synced`), or holding something that
cannot pass the check (`Spoilt`), and the latter only while no undamaged
transmission has gone before; so the second one is read in step from its first
line. `GivenInv` follows a hash from the sender or the package to the reader or the
on-chip RAM: each was given since `main` last started. `SaveInv` is the progress of
`writeConfigToOcram`. `MainInv` is `main`'s place in its lists and the key file it
has open there. `DiskInv` says that the disks before `turn` are done and those after
it untouched, so that at most one key file is open, and that `diskOpened` is closed
only when `turn` is past the last disk; `NetbootAfterDisks` follows, since netboot
has started only if the channel was closed.

### Only model-checked

Liveness (`Answered`, `Released`, `Blinks`, `UpgradeEnds`, `LoadedReboots`,
`LogCallReturns`, `RtEndEndsInit`, `EventuallyDelivered`, `RelayEnds`,
`AcceptedInTheEnd`, `WaitEnds`, `KexecReached`, `Initialized`, `LoopEnds`): it needs
fairness and ENABLED, which TLAPS does not handle here. The four violations are
counterexamples TLC finds.

## Not modelled

The contents of logs, HTTP details, which credentials have which scope,
cryptography (a signature or a hash is valid or not; the package sealer's
encryption and the SCRAM client with it), what network, permission and sysctl
commands do to the system, the files the TFTP server reads, the bytes a relay
copies, the waiting times of retries, build scripts. The OOM thread appears by
its effect (user processes end at any time), not by its scan of `/proc`. A drive
kind or bias of a GPIO line changes no level the program can observe.

The name a DHCP goroutine reads from `main`'s loop variable (`netif.go:40`) is not
kept: the read races with the assignment, so a pointer and a length of two entries
may come together and be the name of any interface, also of an earlier one (`eth0`
read from `eth0.5`). In `ConfigPath` one set of texts stands for what parses, both
as the part `Unseal` looks at and as `InitConfig`; `HotUpgrade` tells them apart.

`LogSink` and the modules that use zap's lock are not composed: `HotUpgrade` and
`Startup` have the lock and who holds it, `LogSink` has what a Sync waits for.
`QuicRelay` and `ApiServer` take log calls to return.

The Tesla tasks share a loop variable with `main` as the code has it; no statement
of the repository says which vehicle an entry should serve, so no run contrasts the
two.

## Plan

Done: all modules and runs above, and proofs of every safety property the passing
runs check and of both refinements. Next:

1. Results the runs do not state: what makes `NoRollback`, `LimitEnforced` and
   `ReplyMatchesEffect` fail in the violating runs is the only thing that does, as theorems under the
   hypothesis that excludes it (done for the heap in `GpioServerProofs`).
2. Step lemmas that the liveness arguments rest on (which step each stage of an
   upgrade or of a Fatal call enables, and that no other step undoes it).
3. The OOM thread's own scan, in the manner of `ProcScan`.
