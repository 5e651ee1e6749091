------------------------------ MODULE ProcScan ------------------------------
(***************************************************************************)
(* The loop of pkills with which both kexec handlers kill the processes of *)
(* the unprivileged user (uid 1000) before kexec_load (http.go:371-386,    *)
(* emergency_kexec.go:71-86).  It is left after two `pkill -SIGKILL -U     *)
(* 1000` in a row that do not succeed.                                     *)
(*                                                                         *)
(* pkill is no atomic test.  It first walks /proc in the order of pids and *)
(* notes the processes of the user, then signals them one by one, and      *)
(* succeeds if it has signalled one (procps).  Meanwhile the user's        *)
(* processes fork and exit, and processes outside their reach (connection  *)
(* handlers in sessions of their own) start new ones.  The kernel gives a  *)
(* new process the next free pid after the last one, and starts again from *)
(* the bottom when it gets to the end.                                     *)
(***************************************************************************)
EXTENDS Integers

CONSTANT NumPids  \* BOUND: pids (/proc/sys/kernel/pid_max)

ASSUME PidAssumption == NumPids \in Nat

Pids == 1..NumPids

(* What may have happened since the first of the current two pkills began: *)
(* a user process got a pid from a new round of the pids ("wrapped"), or   *)
(* was started from outside ("started"); a process pkill had noted ended   *)
(* before it was signalled ("vanished"); pkill did not run or broke off    *)
(* with an error ("failed").                                               *)
Disturbances == {"wrapped", "started", "vanished", "failed"}

VARIABLES
  at,        \* what pkill is doing: "scan" or "kill"; "left": the loop is over
  round,     \* 1: the pkill in the `for`, 2: the one in the `if`
  pos,       \* the pids up to here have been looked at
  noted,     \* processes noted and not yet signalled
  hit,       \* has this pkill signalled a process?
  procs,     \* the user's processes
  last,      \* the last pid given to a new process
  disturbed  \* history, see Disturbances

pkillVars == <<at, round, pos, noted, hit>>
vars == <<pkillVars, procs, last, disturbed>>

TypeOK ==
  /\ at \in {"scan", "kill", "left"} /\ round \in {1, 2}
  /\ pos \in 0..NumPids
  /\ noted \in SUBSET Pids /\ hit \in BOOLEAN
  /\ procs \in SUBSET Pids
  /\ last \in 0..NumPids
  /\ disturbed \in SUBSET Disturbances

(* The pids may have gone round before: a process may have a higher pid    *)
(* than the last one started.                                              *)
Init ==
  /\ at = "scan" /\ round = 1 /\ pos = 0 /\ noted = {} /\ hit = FALSE
  /\ procs \in SUBSET Pids
  /\ last \in 0..NumPids
  /\ disturbed = {}

-----------------------------------------------------------------------------
(* pkill (external): `cmd.Run()` of http.go:373-376 and 378-381.           *)

(* The next entry of /proc.                                                *)
Look ==
  /\ at = "scan" /\ pos < NumPids
  /\ pos' = pos + 1
  /\ noted' = noted \cup ({pos + 1} \cap procs)
  /\ UNCHANGED <<at, round, hit, procs, last, disturbed>>

LookedAtAll ==
  /\ at = "scan" /\ pos = NumPids
  /\ at' = "kill"
  /\ UNCHANGED <<round, pos, noted, hit, procs, last, disturbed>>

(* Mutant: SIGTERM, which a process may ignore.                            *)
Signal_Term(p) ==
  /\ at = "kill" /\ p \in noted
  /\ noted' = noted \ {p} /\ hit' = (hit \/ p \in procs)
  /\ procs' \in {procs, procs \ {p}}
  /\ UNCHANGED <<at, round, pos, last, disturbed>>

(* kill(2) with SIGKILL; a process that is gone does not count.            *)
Signal(p) ==
  /\ at = "kill" /\ p \in noted
  /\ noted' = noted \ {p} /\ hit' = (hit \/ p \in procs)
  /\ procs' = procs \ {p}
  /\ UNCHANGED <<at, round, pos, last, disturbed>>

(* The handler runs a new pkill.                                           *)
NewPkill(n) == at' = "scan" /\ round' = n /\ pos' = 0 /\ noted' = {} /\ hit' = FALSE

(* Mutant: a single pkill that finds nothing ends the loop.                *)
Found_OnePkill(ok, d) ==
  \/ ok /\ NewPkill(1) /\ disturbed' = {}
  \/ /\ ~ok
     /\ at' = "left"
     /\ disturbed' = disturbed \cup d
     /\ UNCHANGED <<round, pos, noted, hit>>

(* http.go:377 and 381: whether cmd.Run returned nil decides.              *)
Found(ok, d) ==
  \/ ok /\ NewPkill(1) /\ disturbed' = {}
  \/ ~ok /\ round = 1 /\ NewPkill(2) /\ disturbed' = disturbed \cup d
  \/ /\ ~ok /\ round = 2
     /\ at' = "left"
     /\ disturbed' = disturbed \cup d
     /\ UNCHANGED <<round, pos, noted, hit>>

(* pkill exits, successfully if it has signalled a process.                *)
PkillExits ==
  /\ at = "kill" /\ noted = {}
  /\ Found(hit, {})
  /\ UNCHANGED <<procs, last>>

(* It cannot be started, or ends with an error of its own, wherever it is: *)
(* cmd.Run returns an error as well.                                       *)
PkillFails ==
  /\ at \in {"scan", "kill"}
  /\ Found(FALSE, {"failed"})
  /\ UNCHANGED <<procs, last>>

-----------------------------------------------------------------------------
(* The processes (external).                                               *)

(* A user process gets pid p; d says how else that is remarkable.          *)
NewProcess(p, d) ==
  /\ p \notin procs
  /\ procs' = procs \cup {p} /\ last' = p
  /\ disturbed' = disturbed \cup d \cup (IF p <= last THEN {"wrapped"} ELSE {})
  /\ UNCHANGED pkillVars

Fork(p) == procs # {} /\ NewProcess(p, {})

StartedOutside(p) == NewProcess(p, {"started"})

Exit(p) ==
  /\ p \in procs
  /\ procs' = procs \ {p}
  /\ disturbed' = disturbed \cup (IF p \in noted THEN {"vanished"} ELSE {})
  /\ UNCHANGED <<pkillVars, last>>

-----------------------------------------------------------------------------
Loop == Look \/ LookedAtAll \/ PkillExits \/ \E p \in Pids : Signal(p)

Births == \E p \in Pids : Fork(p) \/ StartedOutside(p)

Next == Loop \/ PkillFails \/ Births \/ \E p \in Pids : Exit(p)

Spec == Init /\ [][Next]_vars

(* pkill and the handler run; nothing is assumed of the processes.         *)
FairSpec == Spec /\ WF_vars(Loop)

-----------------------------------------------------------------------------
(* Properties.                                                             *)

(* "Two continuous pkills to work around race condition" (http.go:372):    *)
(* forks that race with the walk of /proc, also from a process ahead of it *)
(* to a pid behind it, do not get a process past both pkills; when the     *)
(* loop is left there is none, as "killed all user processes" (http.go:382)*)
(* reports.  Each of the Disturbances can get one past.                    *)
TwoPkillsSuffice == at = "left" /\ disturbed = {} => procs = {}

(* The loop is left once no more processes appear: each pkill leaves fewer.*)
LoopEnds == <>[][~Births]_vars => <>(at = "left")
=============================================================================
