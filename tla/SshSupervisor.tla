--------------------------- MODULE SshSupervisor ---------------------------
(***************************************************************************)
(* The SSH server supervisor of homegw-init (ssh.go).  A goroutine starts  *)
(* dropbear, waits for it and starts it again a second later; one killer   *)
(* goroutine per dropbear waits until the kill channel is closed and then  *)
(* kills that dropbear's process group.  When the supervisor ends it       *)
(* closes the completion channel.  A log call of the supervisor waits for  *)
(* the lock of zap's output.                                               *)
(*                                                                         *)
(* The connection handlers dropbear forks, and what they start for the     *)
(* unprivileged user, are in ProcScan.tla.                                 *)
(***************************************************************************)
EXTENDS Integers

CONSTANT MaxSpawns  \* BOUND: dropbear processes started per boot

ASSUME SshAssumption == MaxSpawns \in Nat

VARIABLES
  sup,             \* where the supervisor goroutine is
  kill,            \* is the channel `kill` closed?
  killCompletion,  \* is the channel `killCompletion` closed?
  gen,             \* number of dropbear processes started so far
  dropbear,        \* the latest one: "none", "up", or "dead" and not yet reaped
  killers,         \* generations whose killer goroutine is in its select
  stop,            \* generations whose `stop` channel is closed
  log              \* zap's output lock: "free", or who holds it in Sync

sshVars == <<sup, kill, killCompletion, gen, dropbear, killers, stop>>

Gens == 1..MaxSpawns

SshTypeOK ==
  /\ sup \in {"none", "failed", "start", "spawned", "wait", "check", "sleep", "exit"}
  /\ kill \in BOOLEAN /\ killCompletion \in BOOLEAN
  /\ gen \in 0..MaxSpawns
  /\ dropbear \in {"none", "up", "dead"}
  /\ killers \in SUBSET Gens /\ stop \in SUBSET Gens

SshInit ==
  /\ sup = "none" /\ kill = FALSE /\ killCompletion = FALSE
  /\ gen = 0 /\ dropbear = "none"
  /\ killers = {} /\ stop = {}

(* A new kernel: the same as SshInit, of the next state.                   *)
SshReset ==
  /\ sup' = "none" /\ kill' = FALSE /\ killCompletion' = FALSE
  /\ gen' = 0 /\ dropbear' = "none"
  /\ killers' = {} /\ stop' = {}

(* homegw-init dies: its goroutines end, its child processes do not.       *)
SshOrphaned ==
  /\ sup' = "none" /\ killers' = {}
  /\ UNCHANGED <<kill, killCompletion, gen, dropbear, stop>>

-----------------------------------------------------------------------------
(* Spawn, called once by main: an error return (pipe, host key, memfd)     *)
(* leaves the supervisor goroutine unstarted; without an ssh_server        *)
(* configuration main closes killCompletion itself.                        *)
Spawn(hostKeyOk) ==
  /\ sup = "none"
  /\ \/ hostKeyOk /\ sup' = "start"
     \/ ~hostKeyOk /\ sup' = "failed"
  /\ UNCHANGED <<kill, killCompletion, gen, dropbear, killers, stop>>

NoServer ==
  /\ sup = "none"
  /\ sup' = "exit" /\ killCompletion' = TRUE
  /\ UNCHANGED <<kill, gen, dropbear, killers, stop>>

(* A log call returns.                                                     *)
CanLog == log = "free"

(* runOnce: dropbear runs detached; once that is logged, its killer        *)
(* goroutine starts.                                                       *)
RunOnce ==
  /\ sup = "start"
  /\ gen < MaxSpawns
  /\ sup' = "spawned"
  /\ gen' = gen + 1 /\ dropbear' = "up"
  /\ UNCHANGED <<kill, killCompletion, killers, stop>>

RunOnceReturns ==
  /\ sup = "spawned" /\ CanLog
  /\ sup' = "wait"
  /\ killers' = killers \cup {gen}
  /\ UNCHANGED <<kill, killCompletion, gen, dropbear, stop>>

(* Mutant: the goroutine ends without its deferred close.                  *)
RunOnceFails_NoClose ==
  /\ sup = "start" /\ CanLog
  /\ sup' = "exit"
  /\ UNCHANGED <<kill, killCompletion, gen, dropbear, killers, stop>>

(* runOnce fails (start, wait or detach): the loop is left for good.       *)
RunOnceFails ==
  /\ sup = "start" /\ CanLog
  /\ sup' = "exit" /\ killCompletion' = TRUE
  /\ UNCHANGED <<kill, gen, dropbear, killers, stop>>

(* case <-kill: SIGKILL to the process group of generation g.              *)
KillerKills(g) ==
  /\ g \in killers /\ kill
  /\ killers' = killers \ {g}
  /\ dropbear' = IF g = gen /\ dropbear = "up" THEN "dead" ELSE dropbear
  /\ UNCHANGED <<sup, kill, killCompletion, gen, stop>>

(* case <-stop                                                             *)
KillerStops(g) ==
  /\ g \in killers /\ g \in stop
  /\ killers' = killers \ {g}
  /\ UNCHANGED <<sup, kill, killCompletion, gen, dropbear, stop>>

(* proc.Wait returns; stop is closed.                                      *)
Reap ==
  /\ sup = "wait" /\ dropbear = "dead"
  /\ sup' = "check" /\ dropbear' = "none"
  /\ stop' = stop \cup {gen}
  /\ UNCHANGED <<kill, killCompletion, gen, killers>>

(* "dropbear exited" is logged; select { case <-kill: return; default: }   *)
(* and the one second sleep.                                               *)
NotRestarting ==
  /\ sup = "check" /\ kill /\ CanLog
  /\ sup' = "exit" /\ killCompletion' = TRUE
  /\ UNCHANGED <<kill, gen, dropbear, killers, stop>>

Restarting ==
  /\ sup = "check" /\ ~kill /\ CanLog
  /\ sup' = "sleep"
  /\ UNCHANGED <<kill, killCompletion, gen, dropbear, killers, stop>>

Slept ==
  /\ sup = "sleep"
  /\ sup' = "start"
  /\ UNCHANGED <<kill, killCompletion, gen, dropbear, killers, stop>>

-----------------------------------------------------------------------------
(* dropbear (external) ends by itself, the kernel's OOM killer picks it,   *)
(* or /debug/kill_dropbear does.                                           *)
DropbearDies ==
  /\ dropbear = "up"
  /\ dropbear' = "dead"
  /\ UNCHANGED <<sup, kill, killCompletion, gen, killers, stop>>

-----------------------------------------------------------------------------
Supervisor ==
  \/ RunOnce \/ RunOnceReturns \/ RunOnceFails
  \/ Reap \/ NotRestarting \/ Restarting \/ Slept

Killer(g) == KillerKills(g) \/ KillerStops(g)
=============================================================================
